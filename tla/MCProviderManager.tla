------------------------- MODULE MCProviderManager -------------------------
(* Model checking of ProviderManager: one call is that of a refresh, any    *)
(* other a failover call.                                                   *)
EXTENDS ProviderManager

MCMethods ==
    LET refresh == CHOOSE c \in Calls : TRUE
    IN  {[c \in Calls |-> IF c = refresh THEN "all" ELSE "failover"]}
=============================================================================
