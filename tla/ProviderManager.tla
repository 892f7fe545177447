--------------------------- MODULE ProviderManager ---------------------------
(***************************************************************************)
(* ProviderManager (api/ProviderManager.ts): calls that fetch pairs from   *)
(* the registered providers, one provider after the other, each with       *)
(* retries around a race against a timer.  The worker's slots share one    *)
(* engine and so one manager: calls overlap with each other and with the   *)
(* health polling.                                                         *)
(*                                                                         *)
(* The loser of a race is not cancelled: its HTTP retries (utils/retry.ts) *)
(* go on, next to those of the attempts that follow.                       *)
(***************************************************************************)
EXTENDS Naturals, Sequences, FiniteSets, SequencesExt

CONSTANTS
    Calls,         \* fetches ever made
    P,             \* number of providers, in the order of the registry
    MaxRetries,    \* options.maxRetries (2)
    HttpRetries,   \* withRetry's retries (3)
    Methods,       \* which methods the callers may use: functions call -> "all"
                   \*   (fetchPairsFromAll) or "failover" (fetchPairsWithFailover)
    MaxBackground  \* bound: rounds of health polling and HTTP retries, in all

ASSUME CountAssumption  == /\ P \in Nat \ {0} /\ MaxRetries \in Nat /\ HttpRetries \in Nat
                           /\ MaxBackground \in Nat
ASSUME CallAssumption   == IsFiniteSet(Calls)
ASSUME MethodAssumption == Methods \subseteq [Calls -> {"all", "failover"}]

VARIABLES
    mode,          \* call -> the method called
    pc,            \* call -> "idle", "fetching", "backoff", "resolved", "rejected"
    at,            \* call -> the provider whose turn it is
    attempt,       \* call -> the attempt at that provider
    results,       \* call -> providers whose responses it has collected
    request,       \* call, provider, attempt -> the request and its HTTP retries
    healthy,       \* provider -> stats.healthy
    successes,     \* provider -> stats.successCount
    failures,      \* provider -> stats.failureCount
    checking,      \* providers whose health check is under way
    background     \* rounds of polling and HTTP retries so far

callVars   == <<mode, pc, at, attempt, results>>
statVars   == <<healthy, successes, failures>>
healthVars == <<checking, background>>
vars == <<callVars, request, statVars, healthVars>>

Providers == 1 .. P
AttemptNos == 0 .. MaxRetries

Requests == [state : {"unsent", "sent", "pausing", "ok", "error"}, try : 0 .. HttpRetries]
Unsent   == [state |-> "unsent", try |-> 0]
Sent     == [state |-> "sent", try |-> 0]

TypeOK ==
    /\ mode \in [Calls -> {"all", "failover"}]
    /\ pc \in [Calls -> {"idle", "fetching", "backoff", "resolved", "rejected"}]
    /\ at \in [Calls -> Providers]
    /\ attempt \in [Calls -> AttemptNos]
    /\ \A c \in Calls : Len(results[c]) <= P /\ ToSet(results[c]) \subseteq Providers
    /\ request \in [Calls -> [Providers -> [AttemptNos -> Requests]]]
    /\ healthy \in [Providers -> BOOLEAN]
    /\ successes \in [Providers -> 0 .. Cardinality(Calls)]
    /\ failures \in [Providers -> 0 .. Cardinality(Calls)]
    /\ checking \subseteq Providers
    /\ background \in 0 .. MaxBackground

Init ==
    /\ mode \in Methods
    /\ pc = [c \in Calls |-> "idle"]
    /\ at = [c \in Calls |-> 1]
    /\ attempt = [c \in Calls |-> 0]
    /\ results = [c \in Calls |-> <<>>]
    /\ request = [c \in Calls |-> [p \in Providers |-> [a \in AttemptNos |-> Unsent]]]
    /\ healthy = [p \in Providers |-> TRUE]
    /\ successes = [p \in Providers |-> 0]
    /\ failures = [p \in Providers |-> 0]
    /\ checking = {}
    /\ background = 0

-----------------------------------------------------------------------------
(* The loop of a call.                                                     *)

(* fetchWithRetry(p) begins with attempt 0, whatever the health of p.      *)
Begin(c, p, req) ==
    /\ pc' = [pc EXCEPT ![c] = "fetching"]
    /\ at' = [at EXCEPT ![c] = p]
    /\ attempt' = [attempt EXCEPT ![c] = 0]
    /\ request' = [req EXCEPT ![c][p][0] = Sent]

Finish(c, end, req) ==
    /\ pc' = [pc EXCEPT ![c] = end]
    /\ request' = req
    /\ UNCHANGED <<at, attempt>>

(* On to the next provider with the responses collected so far, or the end *)
(* of the loop.                                                            *)
Advance(c, collected, req) ==
    /\ results' = [results EXCEPT ![c] = collected]
    /\ IF at[c] < P
         THEN Begin(c, at[c] + 1, req)
         ELSE Finish(c, IF collected = <<>> THEN "rejected" ELSE "resolved", req)

(* recordSuccess, then push the response or return it.                     *)
Succeed(c, req) ==
    /\ successes' = [successes EXCEPT ![at[c]] = @ + 1]
    /\ healthy' = [healthy EXCEPT ![at[c]] = TRUE]
    /\ IF mode[c] = "all"
         THEN Advance(c, Append(results[c], at[c]), req)
         ELSE /\ results' = [results EXCEPT ![c] = <<at[c]>>]
              /\ Finish(c, "resolved", req)
    /\ UNCHANGED <<mode, failures>>

RecordFailure(p) ==
    /\ failures' = [failures EXCEPT ![p] = @ + 1]
    /\ healthy' = [healthy EXCEPT ![p] = FALSE]

(* Mutant of FailAttempt: the last attempt is never made.                  *)
FailAttemptShort(c, req) ==
    IF attempt[c] + 1 < MaxRetries
      THEN /\ Finish(c, "backoff", req)
           /\ UNCHANGED <<mode, results, statVars>>
      ELSE /\ RecordFailure(at[c])
           /\ Advance(c, results[c], req)
           /\ UNCHANGED <<mode, successes>>

(* Mutant of FailAttempt: one attempt too many.                            *)
FailAttemptBeyond(c, req) ==
    IF attempt[c] <= MaxRetries
      THEN /\ Finish(c, "backoff", req)
           /\ UNCHANGED <<mode, results, statVars>>
      ELSE /\ RecordFailure(at[c])
           /\ Advance(c, results[c], req)
           /\ UNCHANGED <<mode, successes>>

(* Mutant of FailAttempt: every attempt is recorded as a failure.          *)
FailAttemptCounted(c, req) ==
    /\ RecordFailure(at[c])
    /\ UNCHANGED <<mode, successes>>
    /\ IF attempt[c] < MaxRetries
         THEN Finish(c, "backoff", req) /\ UNCHANGED results
         ELSE Advance(c, results[c], req)

(* The attempt failed: wait and retry, or recordFailure and go on.         *)
FailAttempt(c, req) ==
    IF attempt[c] < MaxRetries
      THEN /\ Finish(c, "backoff", req)
           /\ UNCHANGED <<mode, results, statVars>>
      ELSE /\ RecordFailure(at[c])
           /\ Advance(c, results[c], req)
           /\ UNCHANGED <<mode, successes>>

Call(c) ==
    /\ pc[c] = "idle"
    /\ Begin(c, 1, request)
    /\ UNCHANGED <<mode, results, statVars, healthVars>>

(* The delay after a failed attempt is over.                               *)
Retry(c) ==
    /\ pc[c] = "backoff"
    /\ pc' = [pc EXCEPT ![c] = "fetching"]
    /\ attempt' = [attempt EXCEPT ![c] = @ + 1]
    /\ request' = [request EXCEPT ![c][at[c]][attempt[c] + 1] = Sent]
    /\ UNCHANGED <<mode, at, results, statVars, healthVars>>

(* Mutant of Timeout: the timer is armed once, before the attempts.        *)
TimeoutOnce(c) ==
    /\ pc[c] = "fetching"
    /\ attempt[c] = 0
    /\ FailAttempt(c, request)
    /\ UNCHANGED healthVars

(* withTimeout: the timer wins the race; the request goes on.              *)
Timeout(c) ==
    /\ pc[c] = "fetching"
    /\ FailAttempt(c, request)
    /\ UNCHANGED healthVars

-----------------------------------------------------------------------------
(* The requests, each with its own HTTP retries.                           *)

(* Mutant of Awaited: any request of the provider is taken for the answer. *)
AwaitedAny(c, p, a) == pc[c] = "fetching"

(* The attempt whose settling the call still waits for.                    *)
Awaited(c, p, a) == pc[c] = "fetching" /\ at[c] = p /\ attempt[c] = a

SetRequest(c, p, a, state) == [request EXCEPT ![c][p][a].state = state]

(* The provider answers with pairs; too late, the answer is dropped.       *)
Answer(c, p, a) ==
    /\ request[c][p][a].state = "sent"
    /\ LET req == SetRequest(c, p, a, "ok")
       IN  IF Awaited(c, p, a)
             THEN Succeed(c, req)
             ELSE request' = req /\ UNCHANGED <<callVars, statVars>>
    /\ UNCHANGED healthVars

(* fetchPairs rejects: the HTTP retries are used up, or the body has no    *)
(* pairs, which is not retried.                                            *)
Error(c, p, a) ==
    /\ request[c][p][a].state = "sent"
    /\ LET req == SetRequest(c, p, a, "error")
       IN  IF Awaited(c, p, a)
             THEN FailAttempt(c, req)
             ELSE request' = req /\ UNCHANGED <<callVars, statVars>>
    /\ UNCHANGED healthVars

(* An HTTP request fails or times out and is retried after a backoff.      *)
HttpFails(c, p, a) ==
    /\ request[c][p][a].state = "sent"
    /\ request[c][p][a].try < HttpRetries
    /\ background < MaxBackground
    /\ background' = background + 1
    /\ request' = SetRequest(c, p, a, "pausing")
    /\ UNCHANGED <<callVars, statVars, checking>>

HttpRetry(c, p, a) ==
    /\ request[c][p][a].state = "pausing"
    /\ request' = [request EXCEPT ![c][p][a] = [state |-> "sent", try |-> @.try + 1]]
    /\ UNCHANGED <<callVars, statVars, healthVars>>

-----------------------------------------------------------------------------
(* Health polling: every provider is asked for its pairs at once; each     *)
(* answer overwrites the flag of its provider.                             *)
Poll ==
    /\ background < MaxBackground
    /\ checking = {}
    /\ background' = background + 1
    /\ checking' = Providers
    /\ UNCHANGED <<callVars, request, statVars>>

CheckHealth(p) ==
    /\ p \in checking
    /\ checking' = checking \ {p}
    /\ \E b \in BOOLEAN : healthy' = [healthy EXCEPT ![p] = b]
    /\ UNCHANGED <<callVars, request, successes, failures, background>>

-----------------------------------------------------------------------------
CallStep(c) == Retry(c) \/ Timeout(c)

RequestStep(c, p, a) ==
    Answer(c, p, a) \/ Error(c, p, a) \/ HttpFails(c, p, a) \/ HttpRetry(c, p, a)

Next ==
    \/ \E c \in Calls : Call(c) \/ CallStep(c)
    \/ \E c \in Calls, p \in Providers, a \in AttemptNos : RequestStep(c, p, a)
    \/ Poll
    \/ \E p \in Providers : CheckHealth(p)

Spec == Init /\ [][Next]_vars

(* Timers fire.  Nothing is assumed of the providers: a request may never  *)
(* be answered.                                                            *)
FairSpec == Spec /\ \A c \in Calls : WF_vars(CallStep(c))

-----------------------------------------------------------------------------
(* Properties.                                                             *)

(* Providers whose turn in call c is over.                                 *)
Passed(c) ==
    {p \in Providers : \/ pc[c] \in {"fetching", "backoff"} /\ p < at[c]
                       \/ pc[c] \in {"resolved", "rejected"} /\ p <= at[c]}

(* A call that rejects has tried every provider with every retry, and no   *)
(* provider is given up before that (ProviderManager.ts:203-219): timers,  *)
(* late answers and other calls do not shorten it.                         *)
GivenUpAfterAllRetries ==
    \A c \in Calls :
        /\ pc[c] = "rejected" => Passed(c) = Providers
        /\ \A p \in Passed(c) \ ToSet(results[c]) :
             \A a \in AttemptNos : request[c][p][a].state /= "unsent"

(* The responses of a call come in the order of the registry, one of each  *)
(* provider at most, and each of a provider that did answer; a failover    *)
(* call has one and stops there.  A late answer to an attempt given up     *)
(* must not add a second one (ProviderManager.ts:224-231).                 *)
ResponsesGenuine ==
    \A c \in Calls :
        /\ \A i, j \in DOMAIN results[c] : i < j => results[c][i] < results[c][j]
        /\ ToSet(results[c]) \subseteq Passed(c)
        /\ \A p \in ToSet(results[c]) : \E a \in AttemptNos : request[c][p][a].state = "ok"
        /\ mode[c] = "failover" => Len(results[c]) <= 1
        /\ pc[c] = "resolved" <=> /\ results[c] /= <<>>
                                  /\ at[c] = P \/ mode[c] = "failover"
                                  /\ pc[c] \notin {"fetching", "backoff"}

(* The counters served by GET /metrics agree with what the calls have      *)
(* seen, one success or failure per provider and call, however calls       *)
(* overlap (ProviderManager.ts:236-262).                                   *)
CountersExact ==
    \A p \in Providers :
        /\ successes[p] = Cardinality({c \in Calls : p \in ToSet(results[c])})
        /\ failures[p] = Cardinality({c \in Calls : p \in Passed(c) \ ToSet(results[c])})

(* Every call settles, even if no provider ever answers.                   *)
CallsSettle ==
    \A c \in Calls : pc[c] = "fetching" ~> pc[c] \in {"resolved", "rejected"}

(* "Retries failed providers and skips unhealthy ones."                    *)
(* (ProviderManager.ts:65)                                                 *)
SkipsUnhealthy ==
    [][\A c \in Calls, p \in Providers :
         (mode[c] = "all" /\ request[c][p][0].state = "unsent"
            /\ request'[c][p][0].state = "sent") => healthy[p]]_vars
=============================================================================
