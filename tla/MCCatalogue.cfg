SPECIFICATION Spec
CONSTANTS
  MinLiquidity = 5000
  MinVolume = 1000
  OpportunityScore = 60
  MaxOpportunities = 2
  Feeds <- MCFeeds
  Limits <- MCLimits
  Views <- MCViews
  MaxRefreshes = 2
CHECK_DEADLOCK FALSE
INVARIANTS TypeOK RankedUnique NothingLost TokensReflectPairs OpportunitiesAreTop WalkComplete PagesFilled NoneSkipped SteadyServed
