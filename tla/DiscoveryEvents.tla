--------------------------- MODULE DiscoveryEvents ---------------------------
(***************************************************************************)
(* What a refresh tells the rest of the process: the delta against the     *)
(* engine's previous snapshot and the events it emits on the bus           *)
(* (DiscoveryEngine.ts:112-171, DiscoveryEventBus.ts).                     *)
(*                                                                         *)
(* Two slots of the worker share one engine.  Fetching and enriching are   *)
(* awaited, so refreshes overlap there; from ranking to the assignment of  *)
(* previousPairs a refresh runs without interruption, listeners included:  *)
(* a listener that throws ends the refresh in the middle of its events.    *)
(* The engine behind the routes is another one, which never refreshes; it  *)
(* is left out.                                                            *)
(***************************************************************************)
EXTENDS DeltaEngine, FiniteSets

CONSTANTS
    Slots,       \* concurrent refreshes on the worker's engine
    Snapshots,   \* what discovery may find (ranked and deduplicated)
    MaxRuns      \* bound: refreshes ever started

ASSUME RunAssumption == MaxRuns \in Nat
ASSUME SnapshotAssumption ==
    \A s \in Snapshots : s.pairs \in Seq(ToSet(s.pairs)) /\ s.tokens \in Seq(ToSet(s.tokens))

Nothing == <<>>                \* undefined, or no event yet
Empty   == [pairs |-> <<>>, tokens |-> <<>>]

VARIABLES
    pc,          \* slot -> "idle", "fetched" or "saving"
    found,       \* slot -> the snapshot its refresh has discovered
    previous,    \* previousPairs and previousTokens of the worker's engine
    latestDelta, \* <<the delta computed last>>, or Nothing
    announced,   \* addresses a listener has ever had a NEW_PAIR event for
    eventCounts, \* event type -> events the engine has counted
    heard,       \* event type -> events our listener has had
    cut,         \* refreshes that a listener has ended
    runs         \* refreshes started

eventVars == <<announced, eventCounts, heard, cut>>
vars == <<pc, found, previous, latestDelta, eventVars, runs>>

EventTypes == {"NEW_PAIR", "LIQUIDITY_SPIKE", "LIQUIDITY_DROP", "VOLUME_SPIKE",
               "SCORE_CHANGED", "HOLDER_GROWTH", "MARKET_ALERT"}

TypeOK ==
    /\ pc \in [Slots -> {"idle", "fetched", "saving"}]
    /\ found \in [Slots -> Snapshots \cup {Empty}]
    /\ previous \in Snapshots \cup {Empty}
    /\ Len(latestDelta) <= 1
    /\ eventCounts \in [EventTypes -> Nat]
    /\ heard \in [EventTypes -> Nat]
    /\ cut \in 0 .. runs
    /\ announced \subseteq UNION {Addresses(s.pairs) : s \in Snapshots}
    /\ runs \in 0 .. MaxRuns

Init ==
    /\ pc = [s \in Slots |-> "idle"]
    /\ found = [s \in Slots |-> Empty]
    /\ previous = Empty
    /\ latestDelta = Nothing
    /\ announced = {}
    /\ eventCounts = [t \in EventTypes |-> 0]
    /\ heard = [t \in EventTypes |-> 0]
    /\ cut = 0
    /\ runs = 0

(* The event of a change; the direction matters for liquidity only.        *)
EventType(c) ==
    CASE c.type = "NEW_POOL"          -> "NEW_PAIR"
      [] c.type = "LIQUIDITY_CHANGED" -> IF c.current > c.previous THEN "LIQUIDITY_SPIKE"
                                                                   ELSE "LIQUIDITY_DROP"
      [] c.type = "VOLUME_CHANGED"    -> "VOLUME_SPIKE"
      [] c.type = "SCORE_CHANGED"     -> "SCORE_CHANGED"
      [] c.type = "HOLDER_CHANGED"    -> "HOLDER_GROWTH"

(* The events of a refresh in order, none for a removed pool, with a       *)
(* MARKET_ALERT at the end if there was any change.                        *)
Events(changes) ==
    Each(changes, LAMBDA c : If(c.type /= "REMOVED_POOL", [type |-> EventType(c), of |-> c]))
    \o If(changes /= <<>>, [type |-> "MARKET_ALERT", of |-> changes[1]])

OfType(events, t) == {i \in DOMAIN events : events[i].type = t}

(* Mutant of Emit: events are counted before they are emitted.             *)
EmitCountedFirst(events, had, thrown) ==
    /\ announced' = announced \cup
         {events[i].of.address : i \in {j \in OfType(events, "NEW_PAIR") : j <= had}}
    /\ heard' = [t \in EventTypes |->
         heard[t] + Cardinality({i \in OfType(events, t) : i <= had})]
    /\ eventCounts' = [t \in EventTypes |->
         eventCounts[t] + Cardinality({i \in OfType(events, t) : i <= thrown})]

(* The events are emitted up to the one at which a listener throws, and    *)
(* counted up to the one before; our listener has had some of them.        *)
Emit(events, had, thrown) ==
    /\ announced' = announced \cup
         {events[i].of.address : i \in {j \in OfType(events, "NEW_PAIR") : j <= had}}
    /\ heard' = [t \in EventTypes |->
         heard[t] + Cardinality({i \in OfType(events, t) : i <= had})]
    /\ eventCounts' = [t \in EventTypes |->
         eventCounts[t] + Cardinality({i \in OfType(events, t) : i < thrown})]

-----------------------------------------------------------------------------
(* A refresh has its pairs, from a provider call that began any time ago.  *)
Fetch(s) ==
    /\ pc[s] = "idle"
    /\ runs < MaxRuns
    /\ runs' = runs + 1
    /\ \E f \in Snapshots : found' = [found EXCEPT ![s] = f]
    /\ pc' = [pc EXCEPT ![s] = "fetched"]
    /\ UNCHANGED <<previous, latestDelta, eventVars>>

(* Delta, opportunities and every event; then the snapshot becomes the     *)
(* previous one.                                                           *)
Compute(s) ==
    /\ pc[s] = "fetched"
    /\ LET delta  == detect(previous, found[s])
           events == Events(delta.changes)
       IN  /\ latestDelta' = <<delta>>
           /\ Emit(events, Len(events), Len(events) + 1)
    /\ previous' = found[s]
    /\ pc' = [pc EXCEPT ![s] = "saving"]
    /\ UNCHANGED <<found, cut, runs>>

(* Mutant of ListenerThrows: the snapshot is adopted before the events.    *)
ListenerThrowsAfterAdoption(s) ==
    /\ pc[s] = "fetched"
    /\ LET delta  == detect(previous, found[s])
           events == Events(delta.changes)
       IN  /\ latestDelta' = <<delta>>
           /\ \E n \in DOMAIN events : \E had \in {n - 1, n} : Emit(events, had, n)
    /\ cut' = cut + 1
    /\ previous' = found[s]
    /\ pc' = [pc EXCEPT ![s] = "idle"]
    /\ found' = [found EXCEPT ![s] = Empty]
    /\ UNCHANGED runs

(* Mutant of ListenerThrows: the events are emitted once more.             *)
ListenerThrowsRepeats(s) ==
    /\ pc[s] = "fetched"
    /\ LET delta  == detect(previous, found[s])
           events == Events(delta.changes)
       IN  /\ latestDelta' = <<delta>>
           /\ events /= <<>>
           /\ \E n \in DOMAIN events : \E had \in {n - 1, n} : Emit(events, had, n)
    /\ cut' = cut + 1
    /\ UNCHANGED <<pc, found, previous, runs>>

(* A listener throws at some event: our listener, if it was registered     *)
(* before that one, has had the event as well.  refresh() rejects.         *)
ListenerThrows(s) ==
    /\ pc[s] = "fetched"
    /\ LET delta  == detect(previous, found[s])
           events == Events(delta.changes)
       IN  /\ latestDelta' = <<delta>>
           /\ \E n \in DOMAIN events : \E had \in {n - 1, n} : Emit(events, had, n)
    /\ cut' = cut + 1
    /\ pc' = [pc EXCEPT ![s] = "idle"]
    /\ found' = [found EXCEPT ![s] = Empty]
    /\ UNCHANGED <<previous, runs>>

(* The saves are over, or one rejected (RefreshCycle models them).         *)
Saved(s) ==
    /\ pc[s] = "saving"
    /\ pc' = [pc EXCEPT ![s] = "idle"]
    /\ found' = [found EXCEPT ![s] = Empty]
    /\ UNCHANGED <<previous, latestDelta, eventVars, runs>>

Next == \E s \in Slots : Fetch(s) \/ Compute(s) \/ ListenerThrows(s) \/ Saved(s)

Spec == Init /\ [][Next]_vars

-----------------------------------------------------------------------------
(* No pair enters the engine's previous snapshot without every listener    *)
(* having had its NEW_PAIR event: a refresh that a listener cuts short     *)
(* must leave the pair new for the next one, whichever slot computes next  *)
(* (DiscoveryEngine.ts:118-171).                                           *)
AnnouncedBeforeAdopted == Addresses(previous.pairs) \subseteq announced

(* The delta that is kept leads from the previous snapshot to the adopted  *)
(* one, even when slots compute in another order than they fetched:        *)
(* removing and adding its pools turns the pools of the one into those of  *)
(* the other, and what it lists as updated was in both.                    *)
DeltaLeadsToSnapshot ==
    [][previous' /= previous =>
         LET d == latestDelta'[1]
             before == Addresses(previous.pairs)
             now    == Addresses(previous'.pairs)
         IN  /\ (before \ Addresses(d.removedPairs)) \cup Addresses(d.newPairs) = now
             /\ Addresses(d.removedPairs) \cap now = {}
             /\ Addresses(d.updatedPairs) = before \cap now]_vars

(* The event counters of GET /discovery/metrics never run ahead of the     *)
(* events a listener has had, and fall short of them by no more than the   *)
(* one event at which each refresh was ended that a listener ended: some   *)
(* choice of one event type for each of these accounts for the difference  *)
(* (DiscoveryEngine.ts:121-168 counts after it emits).                     *)
CountsFollowEvents ==
    /\ \A t \in EventTypes : eventCounts[t] <= heard[t]
    /\ \E last \in [1 .. cut -> EventTypes] : \A t \in EventTypes :
         heard[t] - eventCounts[t] <= Cardinality({r \in 1 .. cut : last[r] = t})
=============================================================================
