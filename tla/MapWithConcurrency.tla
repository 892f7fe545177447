------------------------- MODULE MapWithConcurrency -------------------------
(***************************************************************************)
(* mapWithConcurrency (utils/concurrency.ts), with which the engine        *)
(* enriches the pairs of a refresh, eight at a time                        *)
(* (DiscoveryEngine.ts:218-220).  Workers share the counter currentIndex;  *)
(* each runs without interruption from one await to the next, and the      *)
(* mapper calls settle in any order.                                       *)
(*                                                                         *)
(* The inputs are their indices, and what the mapper makes of input i is   *)
(* written i, so that a result in the wrong place shows.                   *)
(***************************************************************************)
EXTENDS Naturals

CONSTANTS
    MaxInputs,     \* bound: inputs.length
    Concurrency,   \* the parameter concurrency
    MayReject      \* whether a mapper call may reject (enrichPair never does)

ASSUME SizeAssumption        == MaxInputs \in Nat
ASSUME ConcurrencyAssumption == Concurrency \in Nat \ {0}
ASSUME RejectAssumption      == MayReject \in BOOLEAN

VARIABLES
    length,        \* inputs.length, the same all along
    currentIndex,  \* the next index to be taken
    results,       \* index -> the mapped value, Hole until it is there
    worker,        \* worker -> "mapping", "done" or "rejected"
    index,         \* worker -> the index it took last
    calls,         \* index -> calls of the mapper for it
    outcome        \* the promise of the whole call

vars == <<length, currentIndex, results, worker, index, calls, outcome>>

Indices == 0 .. length - 1
Hole    == length
Count   == IF Concurrency < length THEN Concurrency ELSE length
Workers == 1 .. Count

TypeOK ==
    /\ length \in 0 .. MaxInputs
    /\ currentIndex \in 0 .. length
    /\ results \in [Indices -> Indices \cup {Hole}]
    /\ worker \in [Workers -> {"mapping", "done", "rejected"}]
    /\ index \in [Workers -> Indices]
    /\ calls \in [Indices -> Nat]
    /\ outcome \in {"pending", "resolved", "rejected"}

(* Array.from starts the workers one after the other; each takes an index  *)
(* and calls the mapper before the next one starts.                        *)
Init ==
    /\ length \in 0 .. MaxInputs
    /\ currentIndex = Count
    /\ results = [i \in Indices |-> Hole]
    /\ worker = [w \in Workers |-> "mapping"]
    /\ index = [w \in Workers |-> w - 1]
    /\ calls = [i \in Indices |-> IF i < Count THEN 1 ELSE 0]
    /\ outcome = "pending"

(* Mutant of TakeNext: the counter is advanced after the call.             *)
TakeNextLate(w) ==
    IF currentIndex < length
      THEN /\ index' = [index EXCEPT ![w] = currentIndex]
           /\ currentIndex' \in {currentIndex, currentIndex + 1}
           /\ calls' = [calls EXCEPT ![currentIndex] = @ + 1]
           /\ UNCHANGED worker
      ELSE /\ worker' = [worker EXCEPT ![w] = "done"]
           /\ UNCHANGED <<index, currentIndex, calls>>

(* Mutant of TakeNext: the loop runs once too often.                       *)
TakeNextBeyond(w) ==
    IF currentIndex <= length
      THEN /\ index' = [index EXCEPT ![w] = currentIndex]
           /\ currentIndex' = currentIndex + 1
           /\ calls' = [calls EXCEPT ![currentIndex] = @ + 1]
           /\ UNCHANGED worker
      ELSE /\ worker' = [worker EXCEPT ![w] = "done"]
           /\ UNCHANGED <<index, currentIndex, calls>>

(* The loop of a worker whose mapper call is answered: it takes the next   *)
(* index and calls the mapper, or finds none and returns.                  *)
TakeNext(w) ==
    IF currentIndex < length
      THEN /\ index' = [index EXCEPT ![w] = currentIndex]
           /\ currentIndex' = currentIndex + 1
           /\ calls' = [calls EXCEPT ![currentIndex] = @ + 1]
           /\ UNCHANGED worker
      ELSE /\ worker' = [worker EXCEPT ![w] = "done"]
           /\ UNCHANGED <<index, currentIndex, calls>>

(* Mutant of Answer: the place of the result is computed after the await.  *)
AnswerAtCounter(w) ==
    /\ worker[w] = "mapping"
    /\ results' = [results EXCEPT ![currentIndex - 1] = index[w]]
    /\ TakeNext(w)
    /\ UNCHANGED <<length, outcome>>

(* The mapper's promise for index[w] resolves.                             *)
Answer(w) ==
    /\ worker[w] = "mapping"
    /\ results' = [results EXCEPT ![index[w]] = index[w]]
    /\ TakeNext(w)
    /\ UNCHANGED <<length, outcome>>

(* Mutant of Reject: the rejection is not passed on to the whole call.     *)
RejectUnnoticed(w) ==
    /\ MayReject
    /\ worker[w] = "mapping"
    /\ worker' = [worker EXCEPT ![w] = "rejected"]
    /\ UNCHANGED <<length, currentIndex, results, index, calls, outcome>>

(* It rejects: the worker ends and the whole call rejects; the other       *)
(* workers go on taking indices.                                           *)
Reject(w) ==
    /\ MayReject
    /\ worker[w] = "mapping"
    /\ worker' = [worker EXCEPT ![w] = "rejected"]
    /\ outcome' = "rejected"
    /\ UNCHANGED <<length, currentIndex, results, index, calls>>

(* Promise.all: every worker has returned.                                 *)
Resolve ==
    /\ outcome = "pending"
    /\ \A w \in Workers : worker[w] = "done"
    /\ outcome' = "resolved"
    /\ UNCHANGED <<length, currentIndex, results, worker, index, calls>>

(* A mapper call settles.                                                  *)
Settle(w) == w \in Workers /\ (Answer(w) \/ Reject(w))

Next ==
    \/ \E w \in 1 .. Concurrency : Settle(w)
    \/ Resolve

Spec == Init /\ [][Next]_vars

(* Every mapper call settles (the HTTP client has a timeout), and a        *)
(* promise whose workers are through is resolved by the event loop.        *)
FairSpec == Spec /\ WF_vars(Resolve) /\ \A w \in 1 .. Concurrency : WF_vars(Settle(w))

-----------------------------------------------------------------------------
(* No input is mapped twice and no two calls in flight work for the same   *)
(* index: the counter read before an await and used after it would allow   *)
(* both (concurrency.ts:14-16).                                            *)
MappedOnce ==
    /\ \A i \in Indices : calls[i] <= 1
    /\ \A v, w \in Workers : index[v] = index[w] => v = w

(* When the call resolves, every input was mapped and its result is in its *)
(* own place, whatever the order of the answers: no hole, no swap.         *)
ResolvedComplete ==
    outcome = "resolved" => \A i \in Indices : results[i] = i /\ calls[i] = 1

(* The call settles, and never hangs on a worker that rejected.            *)
Settles == <>(outcome /= "pending")
=============================================================================
