------------------------ MODULE ProviderManagerProofs ------------------------
(***************************************************************************)
(* Proofs about ProviderManager for any number of calls, providers,        *)
(* retries of the manager and retries of HTTP: type correctness,           *)
(* GivenUpAfterAllRetries, ResponsesGenuine and CountersExact.             *)
(*                                                                         *)
(* Calls meet in the statistics only.  Sound says of one call how its turn *)
(* (k: where it is, i: the provider, n: the attempt), the responses res    *)
(* and the requests R go together; each of its steps keeps Sound, and so   *)
(* does whatever late requests do (Progressed).                            *)
(***************************************************************************)
EXTENDS ProviderManager, FiniteSetTheorems, TLAPS

Modes   == {"all", "failover"}
Points  == {"idle", "fetching", "backoff", "resolved", "rejected"}
Rows    == [Providers -> [AttemptNos -> Requests]]

Types ==
    /\ mode \in [Calls -> Modes]
    /\ pc \in [Calls -> Points]
    /\ at \in [Calls -> Providers]
    /\ attempt \in [Calls -> AttemptNos]
    /\ results \in [Calls -> Seq(Providers)]
    /\ request \in [Calls -> Rows]
    /\ healthy \in [Providers -> BOOLEAN]
    /\ successes \in [Providers -> Nat]
    /\ failures \in [Providers -> Nat]
    /\ checking \subseteq Providers
    /\ background \in 0 .. MaxBackground

(* The requests of the attempts to come are unsent, those of the attempts  *)
(* at the provider in turn are not.                                        *)
RequestsInTurn(k, i, n, R) ==
    \A p \in Providers, a \in AttemptNos :
        /\ (k = "idle" \/ p > i \/ (p = i /\ a > n)) => R[p][a].state = "unsent"
        /\ (k /= "idle" /\ p = i /\ a <= n) => R[p][a].state /= "unsent"
        /\ R[p][a].state = "pausing" => R[p][a].try < HttpRetries

(* Responses are of providers whose turn is over, in order, and given.     *)
ResponsesInTurn(k, i, res, R) ==
    /\ Len(res) <= i
    /\ \A j \in 1 .. Len(res) : res[j] <= i /\ \E a \in AttemptNos : R[res[j]][a].state = "ok"
    /\ k \in {"idle", "fetching", "backoff"} =>
         Len(res) < i /\ \A j \in 1 .. Len(res) : res[j] < i
    /\ \A j, l \in 1 .. Len(res) : j < l => res[j] < res[l]

(* How a call may end.                                                     *)
EndsInTurn(m, k, i, n, res) ==
    /\ k = "idle" => res = <<>> /\ i = 1
    /\ k = "backoff" => n < MaxRetries
    /\ k = "rejected" => res = <<>> /\ i = P
    /\ k = "resolved" => res /= <<>> /\ (i = P \/ m = "failover")
    /\ m = "failover" => Len(res) <= 1 /\ (k /= "resolved" => res = <<>>)

(* A provider given up has had all its attempts.                           *)
GivenUp(k, i, res, R) ==
    \A p \in Providers :
        ((p < i \/ (p = i /\ k \in {"resolved", "rejected"})) /\ \A j \in 1 .. Len(res) : res[j] /= p)
          => \A a \in AttemptNos : R[p][a].state /= "unsent"

Sound(m, k, i, n, res, R) ==
    /\ RequestsInTurn(k, i, n, R)
    /\ ResponsesInTurn(k, i, res, R)
    /\ EndsInTurn(m, k, i, n, res)
    /\ GivenUp(k, i, res, R)

IInv ==
    /\ Types
    /\ \A c \in Calls : Sound(mode[c], pc[c], at[c], attempt[c], results[c], request[c])
    /\ CountersExact

(* What requests do on their own: none is sent or recalled, and an answer  *)
(* stays one.                                                              *)
Progressed(R, R2) ==
    \A p \in Providers, a \in AttemptNos :
        /\ R2[p][a].state = "unsent" <=> R[p][a].state = "unsent"
        /\ R[p][a].state = "ok" => R2[p][a].state = "ok"
        /\ R2[p][a].state = "pausing" => R2[p][a].try < HttpRetries

-----------------------------------------------------------------------------
(* One call.                                                               *)

LEMMA NumberTypes ==
    /\ \A p \in Providers : p \in Nat /\ 1 <= p /\ p <= P
    /\ \A a \in AttemptNos : a \in Nat /\ 0 <= a /\ a <= MaxRetries
    /\ 1 \in Providers /\ P \in Providers /\ 0 \in AttemptNos /\ MaxRetries \in AttemptNos
    /\ Sent \in Requests /\ Unsent \in Requests
  BY CountAssumption DEF Providers, AttemptNos, Sent, Unsent, Requests

(* Sending a request changes that request and no other.                    *)
LEMMA SendOne ==
    ASSUME NEW R \in Rows, NEW p \in Providers, NEW a \in AttemptNos,
           NEW R2, R2 = [R EXCEPT ![p][a] = Sent]
    PROVE  /\ R2 \in Rows
           /\ \A q \in Providers, b \in AttemptNos :
                R2[q][b] = IF q = p /\ b = a THEN Sent ELSE R[q][b]
  BY NumberTypes DEF Rows

(* Sent requests are neither unsent nor answered nor pausing.              *)
LEMMA SentState == Sent.state = "sent"
  BY DEF Sent

LEMMA ProgressKeepsSound ==
    ASSUME NEW m \in Modes, NEW k \in Points, NEW i \in Providers, NEW n \in AttemptNos,
           NEW res \in Seq(Providers), NEW R \in Rows, NEW R2 \in Rows,
           Sound(m, k, i, n, res, R), Progressed(R, R2)
    PROVE  Sound(m, k, i, n, res, R2)
<1>1. \A j \in 1 .. Len(res) : res[j] \in Providers
  OBVIOUS
<1>2. RequestsInTurn(k, i, n, R2)
  BY DEF Sound, RequestsInTurn, Progressed
<1>3. ResponsesInTurn(k, i, res, R2)
  BY <1>1 DEF Sound, ResponsesInTurn, Progressed
<1>4. GivenUp(k, i, res, R2)
  BY DEF Sound, GivenUp, Progressed
<1> QED
  BY <1>2, <1>3, <1>4 DEF Sound

(* The call begins.                                                        *)
LEMMA CallKeepsSound ==
    ASSUME NEW m \in Modes, NEW n \in AttemptNos, NEW i \in Providers,
           NEW res \in Seq(Providers), NEW R \in Rows,
           NEW R2, R2 = [R EXCEPT ![1][0] = Sent],
           Sound(m, "idle", i, n, res, R)
    PROVE  Sound(m, "fetching", 1, 0, res, R2)
<1>1. res = <<>> /\ Len(res) = 0
  BY DEF Sound, EndsInTurn
<1>2. \A p \in Providers, a \in AttemptNos :
        R2[p][a] = IF p = 1 /\ a = 0 THEN Sent ELSE R[p][a]
  BY NumberTypes DEF Rows
<1>3. RequestsInTurn("fetching", 1, 0, R2)
  <2> SUFFICES ASSUME NEW p \in Providers, NEW a \in AttemptNos
               PROVE  /\ (p > 1 \/ (p = 1 /\ a > 0)) => R2[p][a].state = "unsent"
                      /\ (p = 1 /\ a <= 0) => R2[p][a].state /= "unsent"
                      /\ R2[p][a].state /= "pausing"
    BY DEF RequestsInTurn
  <2>1. p \in Nat /\ a \in Nat
    BY NumberTypes
  <2>2. R[p][a].state = "unsent"
    BY DEF Sound, RequestsInTurn
  <2> QED
    BY <1>2, <2>1, <2>2, SentState
<1>4. ResponsesInTurn("fetching", 1, res, R2)
  BY <1>1 DEF ResponsesInTurn
<1>5. EndsInTurn(m, "fetching", 1, 0, res)
  BY <1>1 DEF EndsInTurn
<1>6. GivenUp("fetching", 1, res, R2)
  BY NumberTypes DEF GivenUp
<1> QED
  BY <1>3, <1>4, <1>5, <1>6 DEF Sound

(* An attempt that is not the last one fails.                              *)
LEMMA BackoffKeepsSound ==
    ASSUME NEW m \in Modes, NEW i \in Providers, NEW n \in AttemptNos,
           NEW res \in Seq(Providers), NEW R \in Rows,
           Sound(m, "fetching", i, n, res, R), n < MaxRetries
    PROVE  Sound(m, "backoff", i, n, res, R)
  BY DEF Sound, RequestsInTurn, ResponsesInTurn, EndsInTurn, GivenUp

(* The next attempt.                                                       *)
LEMMA RetryKeepsSound ==
    ASSUME NEW m \in Modes, NEW i \in Providers, NEW n \in AttemptNos,
           NEW res \in Seq(Providers), NEW R \in Rows,
           NEW R2, R2 = [R EXCEPT ![i][n + 1] = Sent],
           Sound(m, "backoff", i, n, res, R)
    PROVE  /\ n + 1 \in AttemptNos
           /\ Sound(m, "fetching", i, n + 1, res, R2)
<1>1. n + 1 \in AttemptNos /\ n \in Nat /\ i \in Nat
  BY CountAssumption DEF Sound, EndsInTurn, AttemptNos, Providers
<1>2. \A p \in Providers, a \in AttemptNos :
        R2[p][a] = IF p = i /\ a = n + 1 THEN Sent ELSE R[p][a]
  BY <1>1 DEF Rows
<1>3. RequestsInTurn("fetching", i, n + 1, R2)
  BY <1>1, <1>2, NumberTypes, SentState DEF Sound, RequestsInTurn
<1>4. ResponsesInTurn("fetching", i, res, R2)
  <2>1. \A j \in 1 .. Len(res) : res[j] \in Providers /\ res[j] < i
    BY DEF Sound, ResponsesInTurn
  <2>2. \A j \in 1 .. Len(res), a \in AttemptNos : R2[res[j]][a] = R[res[j]][a]
    <3> SUFFICES ASSUME NEW j \in 1 .. Len(res), NEW a \in AttemptNos
                 PROVE  R2[res[j]][a] = R[res[j]][a]
      OBVIOUS
    <3>1. res[j] \in Providers /\ res[j] /= i
      BY <1>1, <2>1, NumberTypes
    <3> QED
      BY <1>2, <3>1
  <2> QED
    BY <2>1, <2>2 DEF Sound, ResponsesInTurn
<1>5. EndsInTurn(m, "fetching", i, n + 1, res)
  BY DEF Sound, EndsInTurn
<1>6. GivenUp("fetching", i, res, R2)
  BY <1>2, NumberTypes, SentState DEF Sound, GivenUp
<1> QED
  BY <1>1, <1>3, <1>4, <1>5, <1>6 DEF Sound

(* The turn of a provider is over, with a response or after every attempt. *)
TurnDone(i, res2, R) ==
    /\ res2 \in Seq(Providers)
    /\ Len(res2) <= i
    /\ \A j \in 1 .. Len(res2) : /\ res2[j] \in Providers /\ res2[j] <= i
                                 /\ \E a \in AttemptNos : R[res2[j]][a].state = "ok"
    /\ \A j, l \in 1 .. Len(res2) : j < l => res2[j] < res2[l]
    /\ \A p \in Providers : (p <= i /\ \A j \in 1 .. Len(res2) : res2[j] /= p)
                              => \A a \in AttemptNos : R[p][a].state /= "unsent"

LEMMA TurnOver ==
    ASSUME NEW m \in Modes, NEW i \in Providers, NEW n \in AttemptNos,
           NEW res \in Seq(Providers), NEW R \in Rows, NEW res2,
           Sound(m, "fetching", i, n, res, R),
           \/ res2 = res /\ n = MaxRetries
           \/ res2 = Append(res, i) /\ R[i][n].state = "ok"
    PROVE  TurnDone(i, res2, R)
<1>1. /\ Len(res) < i /\ i \in Nat /\ n \in Nat
      /\ \A j \in 1 .. Len(res) : /\ res[j] \in Providers /\ res[j] < i
                                  /\ \E a \in AttemptNos : R[res[j]][a].state = "ok"
      /\ \A j, l \in 1 .. Len(res) : j < l => res[j] < res[l]
      /\ \A p \in Providers : (p < i /\ \A j \in 1 .. Len(res) : res[j] /= p)
                                => \A a \in AttemptNos : R[p][a].state /= "unsent"
      /\ \A a \in AttemptNos : a <= n => R[i][a].state /= "unsent"
  <2>1. i \in Nat /\ n \in Nat
    BY NumberTypes
  <2>2. /\ Len(res) < i
        /\ \A j \in 1 .. Len(res) : /\ res[j] < i
                                    /\ \E a \in AttemptNos : R[res[j]][a].state = "ok"
        /\ \A j, l \in 1 .. Len(res) : j < l => res[j] < res[l]
    BY DEF Sound, ResponsesInTurn
  <2>3. \A j \in 1 .. Len(res) : res[j] \in Providers
    OBVIOUS
  <2>4. \A p \in Providers : (p < i /\ \A j \in 1 .. Len(res) : res[j] /= p)
                               => \A a \in AttemptNos : R[p][a].state /= "unsent"
    BY DEF Sound, GivenUp
  <2>5. \A a \in AttemptNos : a <= n => R[i][a].state /= "unsent"
    BY DEF Sound, RequestsInTurn
  <2> QED
    BY <2>1, <2>2, <2>3, <2>4, <2>5
<1>2. CASE res2 = res /\ n = MaxRetries
  <2>1. \A a \in AttemptNos : R[i][a].state /= "unsent"
    BY <1>1, <1>2, NumberTypes
  <2>2. \A p \in Providers : p <= i => p < i \/ p = i
    BY NumberTypes
  <2>3. \A p \in Providers : (p <= i /\ \A j \in 1 .. Len(res) : res[j] /= p)
                               => \A a \in AttemptNos : R[p][a].state /= "unsent"
    BY <1>1, <2>1, <2>2
  <2>4. \A j \in 1 .. Len(res) : res[j] <= i
    <3> SUFFICES ASSUME NEW j \in 1 .. Len(res)
                 PROVE  res[j] <= i
      OBVIOUS
    <3>1. res[j] \in Nat /\ i \in Nat
      BY <1>1, NumberTypes
    <3>2. res[j] < i
      BY <1>1
    <3> QED
      BY <3>1, <3>2
  <2>5. Len(res) <= i
    BY <1>1
  <2> QED
    BY <1>1, <1>2, <2>3, <2>4, <2>5 DEF TurnDone
<1>3. CASE res2 = Append(res, i) /\ R[i][n].state = "ok"
  <2>1. /\ res2 \in Seq(Providers)
        /\ Len(res2) = Len(res) + 1
        /\ res2[Len(res) + 1] = i
        /\ \A j \in 1 .. Len(res) : res2[j] = res[j]
    BY <1>3
  <2>2. \A j \in 1 .. Len(res2) : j \in 1 .. Len(res) \/ j = Len(res) + 1
    BY <2>1
  <2>3. \A j \in 1 .. Len(res2) : /\ res2[j] \in Providers /\ res2[j] <= i
                                  /\ \E a \in AttemptNos : R[res2[j]][a].state = "ok"
    <3>1. \A j \in 1 .. Len(res) : /\ res2[j] \in Providers /\ res2[j] <= i
                                   /\ \E a \in AttemptNos : R[res2[j]][a].state = "ok"
      <4> SUFFICES ASSUME NEW j \in 1 .. Len(res)
                   PROVE  /\ res2[j] \in Providers /\ res2[j] <= i
                          /\ \E a \in AttemptNos : R[res2[j]][a].state = "ok"
        OBVIOUS
      <4>1. res2[j] = res[j]
        BY <2>1
      <4>2. res[j] \in Providers /\ res[j] < i /\ \E a \in AttemptNos : R[res[j]][a].state = "ok"
        BY <1>1
      <4>3. res[j] \in Nat /\ i \in Nat
        BY <4>2, NumberTypes
      <4>4. res[j] <= i
        BY <4>2, <4>3
      <4> QED
        BY <4>1, <4>2, <4>4
    <3>2. i <= i
      BY <1>1
    <3> QED
      BY <1>3, <2>1, <2>2, <3>1, <3>2
  <2>4. \A j, l \in 1 .. Len(res2) : j < l => res2[j] < res2[l]
    <3> SUFFICES ASSUME NEW j \in 1 .. Len(res2), NEW l \in 1 .. Len(res2), j < l
                 PROVE  res2[j] < res2[l]
      OBVIOUS
    <3>1. j \in 1 .. Len(res)
      BY <2>1
    <3> QED
      BY <1>1, <2>1, <2>2, <3>1
  <2>5. \A p \in Providers : (p <= i /\ \A j \in 1 .. Len(res2) : res2[j] /= p)
                               => \A a \in AttemptNos : R[p][a].state /= "unsent"
    <3> SUFFICES ASSUME NEW p \in Providers, p <= i, \A j \in 1 .. Len(res2) : res2[j] /= p
                 PROVE  \A a \in AttemptNos : R[p][a].state /= "unsent"
      OBVIOUS
    <3>1. p /= i /\ \A j \in 1 .. Len(res) : res[j] /= p
      BY <2>1
    <3>2. p < i
      BY <3>1, NumberTypes
    <3> QED
      BY <1>1, <3>1, <3>2
  <2> QED
    BY <1>1, <2>1, <2>3, <2>4, <2>5 DEF TurnDone
<1> QED
  BY <1>2, <1>3

(* The call ends with the turn of provider i.                              *)
LEMMA LastTurn ==
    ASSUME NEW m \in Modes, NEW i \in Providers, NEW n \in AttemptNos,
           NEW res \in Seq(Providers), NEW R \in Rows, NEW res2,
           Sound(m, "fetching", i, n, res, R),
           \/ res2 = res /\ n = MaxRetries
           \/ res2 = Append(res, i) /\ R[i][n].state = "ok",
           \/ i = P
           \/ m = "failover" /\ res2 /= res
    PROVE  Sound(m, IF res2 = <<>> THEN "rejected" ELSE "resolved", i, n, res2, R)
<1> DEFINE end == IF res2 = <<>> THEN "rejected" ELSE "resolved"
<1>1. /\ res2 \in Seq(Providers)
      /\ Len(res2) <= i
      /\ \A j \in 1 .. Len(res2) : /\ res2[j] \in Providers /\ res2[j] <= i
                                   /\ \E a \in AttemptNos : R[res2[j]][a].state = "ok"
      /\ \A j, l \in 1 .. Len(res2) : j < l => res2[j] < res2[l]
      /\ \A p \in Providers : (p <= i /\ \A j \in 1 .. Len(res2) : res2[j] /= p)
                                => \A a \in AttemptNos : R[p][a].state /= "unsent"
  <2>1. TurnDone(i, res2, R)
    BY TurnOver
  <2> QED
    BY <2>1 DEF TurnDone
<1>2. RequestsInTurn(end, i, n, R)
  BY DEF Sound, RequestsInTurn
<1>3. ResponsesInTurn(end, i, res2, R)
  BY <1>1 DEF ResponsesInTurn
<1>4. EndsInTurn(m, end, i, n, res2)
  <2>1. res = <<>> => Len(Append(res, i)) = 1 /\ Len(res) = 0
    OBVIOUS
  <2>2. Append(res, i) /= <<>>
    OBVIOUS
  <2>3. m = "failover" => res = <<>>
    BY DEF Sound, EndsInTurn
  <2>4. res2 = <<>> => i = P
    BY <2>2, <2>3
  <2> QED
    BY <2>1, <2>2, <2>3, <2>4 DEF EndsInTurn
<1>5. GivenUp(end, i, res2, R)
  <2>1. \A p \in Providers : (p < i \/ p = i) => p <= i
    BY NumberTypes
  <2> QED
    BY <1>1, <2>1 DEF GivenUp
<1> QED
  BY <1>2, <1>3, <1>4, <1>5 DEF Sound

(* The turn of the next provider begins.                                   *)
LEMMA NextTurn ==
    ASSUME NEW m \in Modes, NEW i \in Providers, NEW n \in AttemptNos,
           NEW res \in Seq(Providers), NEW R \in Rows, NEW res2,
           Sound(m, "fetching", i, n, res, R),
           \/ res2 = res /\ n = MaxRetries
           \/ res2 = Append(res, i) /\ R[i][n].state = "ok",
           i < P, m = "all" \/ res2 = res,
           NEW R2, R2 = [R EXCEPT ![i + 1][0] = Sent]
    PROVE  Sound(m, "fetching", i + 1, 0, res2, R2)
<1>1. /\ res2 \in Seq(Providers)
      /\ Len(res2) <= i
      /\ \A j \in 1 .. Len(res2) : /\ res2[j] \in Providers /\ res2[j] <= i
                                   /\ \E a \in AttemptNos : R[res2[j]][a].state = "ok"
      /\ \A j, l \in 1 .. Len(res2) : j < l => res2[j] < res2[l]
      /\ \A p \in Providers : (p <= i /\ \A j \in 1 .. Len(res2) : res2[j] /= p)
                                => \A a \in AttemptNos : R[p][a].state /= "unsent"
  <2>1. TurnDone(i, res2, R)
    BY TurnOver
  <2> QED
    BY <2>1 DEF TurnDone
<1>2. /\ i \in Nat /\ i + 1 \in Providers /\ 0 \in AttemptNos
      /\ \A p \in Providers : p \in Nat
  BY CountAssumption DEF Providers, AttemptNos
<1>3. \A p \in Providers, a \in AttemptNos :
        R2[p][a] = IF p = i + 1 /\ a = 0 THEN Sent ELSE R[p][a]
  BY <1>2 DEF Rows
<1>4. \A p \in Providers, a \in AttemptNos :
        /\ p > i => R[p][a].state = "unsent"
        /\ R[p][a].state = "pausing" => R[p][a].try < HttpRetries
  BY DEF Sound, RequestsInTurn
<1>5. RequestsInTurn("fetching", i + 1, 0, R2)
  <2> SUFFICES ASSUME NEW p \in Providers, NEW a \in AttemptNos
               PROVE  /\ (p > i + 1 \/ (p = i + 1 /\ a > 0)) => R2[p][a].state = "unsent"
                      /\ (p = i + 1 /\ a <= 0) => R2[p][a].state /= "unsent"
                      /\ R2[p][a].state = "pausing" => R2[p][a].try < HttpRetries
    BY DEF RequestsInTurn
  <2>1. p \in Nat /\ a \in Nat
    BY NumberTypes
  <2> QED
    BY <1>2, <1>3, <1>4, <2>1, SentState
<1>6. ResponsesInTurn("fetching", i + 1, res2, R2)
  <2>1. \A j \in 1 .. Len(res2) :
          /\ res2[j] <= i + 1 /\ res2[j] < i + 1
          /\ \E a \in AttemptNos : R2[res2[j]][a].state = "ok"
    <3> SUFFICES ASSUME NEW j \in 1 .. Len(res2)
                 PROVE  /\ res2[j] <= i + 1 /\ res2[j] < i + 1
                        /\ \E a \in AttemptNos : R2[res2[j]][a].state = "ok"
      OBVIOUS
    <3>1. res2[j] \in Providers /\ res2[j] <= i
      BY <1>1
    <3>2. res2[j] \in Nat
      BY <1>2, <3>1
    <3>3. res2[j] <= i + 1 /\ res2[j] < i + 1 /\ res2[j] /= i + 1
      BY <1>2, <3>1, <3>2
    <3>4. PICK a \in AttemptNos : R[res2[j]][a].state = "ok"
      BY <1>1
    <3>5. R2[res2[j]][a] = R[res2[j]][a]
      BY <1>3, <3>1, <3>3
    <3> QED
      BY <3>3, <3>4, <3>5
  <2>2. Len(res2) <= i + 1 /\ Len(res2) < i + 1
    BY <1>1, <1>2
  <2> QED
    BY <1>1, <2>1, <2>2 DEF ResponsesInTurn
<1>7. EndsInTurn(m, "fetching", i + 1, 0, res2)
  BY DEF Sound, EndsInTurn, Modes
<1>8. GivenUp("fetching", i + 1, res2, R2)
  <2> SUFFICES ASSUME NEW p \in Providers, p < i + 1, \A j \in 1 .. Len(res2) : res2[j] /= p,
                      NEW a \in AttemptNos
               PROVE  R2[p][a].state /= "unsent"
    BY DEF GivenUp
  <2>1. p <= i /\ p /= i + 1
    BY <1>2
  <2> QED
    BY <1>1, <1>3, <2>1
<1> QED
  BY <1>5, <1>6, <1>7, <1>8 DEF Sound

-----------------------------------------------------------------------------
(* The statistics.                                                         *)

Served(p) == {c \in Calls : p \in ToSet(results[c])}
Missed(p) == {c \in Calls : p \in Passed(c) \ ToSet(results[c])}

LEMMA CountOne ==
    ASSUME NEW S \in SUBSET Calls, NEW c \in Calls, c \notin S
    PROVE  Cardinality(S \cup {c}) = Cardinality(S) + 1 /\ Cardinality(S) \in Nat
<1>1. IsFiniteSet(S)
  BY FS_Subset, CallAssumption
<1>2. Cardinality(S) \in Nat
  BY <1>1, FS_CardinalityType
<1>3. Cardinality(S \cup {c}) = Cardinality(S) + 1
  BY <1>1, FS_AddElement
<1> QED
  BY <1>2, <1>3

(* Responses and turns stay as they are, and so do the counters.           *)
LEMMA CountersKept ==
    ASSUME CountersExact, UNCHANGED <<successes, failures, results>>,
           \A c \in Calls : Passed(c)' = Passed(c)
    PROVE  CountersExact'
<1> SUFFICES ASSUME NEW p \in Providers
             PROVE  /\ Served(p)' = Served(p)
                    /\ Missed(p)' = Missed(p)
  BY DEF CountersExact, Served, Missed
<1> QED
  BY DEF Served, Missed

(* The turn of provider i of call c ends, with a response or without.      *)
LEMMA CountersCounted ==
    ASSUME Types, CountersExact, NEW c \in Calls, NEW i \in Providers, i \notin Passed(c),
           i \notin ToSet(results[c]),
           Passed(c)' = Passed(c) \cup {i}, \A d \in Calls \ {c} : Passed(d)' = Passed(d),
           \A d \in Calls \ {c} : results'[d] = results[d],
           \/ /\ ToSet(results'[c]) = ToSet(results[c]) \cup {i}
              /\ successes' = [successes EXCEPT ![i] = @ + 1] /\ failures' = failures
           \/ /\ ToSet(results'[c]) = ToSet(results[c])
              /\ failures' = [failures EXCEPT ![i] = @ + 1] /\ successes' = successes
    PROVE  CountersExact'
<1>1. c \notin Served(i) /\ c \notin Missed(i)
  BY DEF Served, Missed
<1>2. CASE /\ ToSet(results'[c]) = ToSet(results[c]) \cup {i}
           /\ successes' = [successes EXCEPT ![i] = @ + 1] /\ failures' = failures
  <2>1. Served(i)' = Served(i) \cup {c}
    BY <1>2 DEF Served
  <2>2. \A p \in Providers : p /= i => Served(p)' = Served(p)
    BY <1>2 DEF Served
  <2>3. \A p \in Providers : Missed(p)' = Missed(p)
    BY <1>2 DEF Missed
  <2>4. Cardinality(Served(i) \cup {c}) = Cardinality(Served(i)) + 1
    BY <1>1, CountOne DEF Served
  <2>5. \A p \in Providers : successes'[p] = IF p = i THEN successes[p] + 1 ELSE successes[p]
    BY <1>2 DEF Types
  <2>6. ASSUME NEW p \in Providers PROVE successes'[p] = Cardinality(Served(p)')
    <3>1. successes[p] = Cardinality(Served(p))
      BY DEF CountersExact, Served
    <3> QED
      BY <2>1, <2>2, <2>4, <2>5, <3>1
  <2>7. \A p \in Providers : failures'[p] = Cardinality(Missed(p)')
    BY <1>2, <2>3 DEF CountersExact, Missed
  <2> QED
    BY <2>6, <2>7 DEF CountersExact, Served, Missed
<1>3. CASE /\ ToSet(results'[c]) = ToSet(results[c])
           /\ failures' = [failures EXCEPT ![i] = @ + 1] /\ successes' = successes
  <2>1. Missed(i)' = Missed(i) \cup {c}
    BY <1>3 DEF Missed
  <2>2. \A p \in Providers : p /= i => Missed(p)' = Missed(p)
    BY <1>3 DEF Missed
  <2>3. \A p \in Providers : Served(p)' = Served(p)
    BY <1>3 DEF Served
  <2>4. Cardinality(Missed(i) \cup {c}) = Cardinality(Missed(i)) + 1
    BY <1>1, CountOne DEF Missed
  <2>5. \A p \in Providers : failures'[p] = IF p = i THEN failures[p] + 1 ELSE failures[p]
    BY <1>3 DEF Types
  <2>6. \A p \in Providers : failures'[p] = Cardinality(Missed(p)')
    <3> SUFFICES ASSUME NEW p \in Providers
                 PROVE  failures'[p] = Cardinality(Missed(p)')
      OBVIOUS
    <3>1. failures[p] = Cardinality(Missed(p))
      BY DEF CountersExact, Missed
    <3> QED
      BY <2>1, <2>2, <2>4, <2>5, <3>1
  <2>7. \A p \in Providers : successes'[p] = Cardinality(Served(p)')
    BY <1>3, <2>3 DEF CountersExact, Served
  <2> QED
    BY <2>6, <2>7 DEF CountersExact, Served, Missed
<1> QED
  BY <1>2, <1>3

-----------------------------------------------------------------------------
(* The steps.                                                              *)

LEMMA InitInvariant == Init => IInv
<1> SUFFICES ASSUME Init PROVE IInv
  OBVIOUS
<1>1. Types
  BY NumberTypes, CountAssumption, MethodAssumption DEF Init, Types, Modes, Points, Rows
<1>2. \A c \in Calls : Sound(mode[c], pc[c], at[c], attempt[c], results[c], request[c])
  <2> SUFFICES ASSUME NEW c \in Calls
               PROVE  Sound(mode[c], pc[c], at[c], attempt[c], results[c], request[c])
    OBVIOUS
  <2>1. /\ pc[c] = "idle" /\ at[c] = 1 /\ results[c] = <<>> /\ Len(results[c]) = 0
        /\ \A p \in Providers, a \in AttemptNos : request[c][p][a].state = "unsent"
    BY DEF Init, Unsent
  <2>2. RequestsInTurn(pc[c], at[c], attempt[c], request[c])
    BY <2>1 DEF RequestsInTurn
  <2>3. ResponsesInTurn(pc[c], at[c], results[c], request[c])
    BY <2>1 DEF ResponsesInTurn
  <2>4. EndsInTurn(mode[c], pc[c], at[c], attempt[c], results[c])
    BY <2>1 DEF EndsInTurn
  <2>5. GivenUp(pc[c], at[c], results[c], request[c])
    BY <2>1, NumberTypes DEF GivenUp
  <2> QED
    BY <2>2, <2>3, <2>4, <2>5 DEF Sound
<1>3. CountersExact
  <2>1. \A p \in Providers : Served(p) = {} /\ Missed(p) = {}
    BY DEF Init, Served, Missed, Passed, ToSet
  <2> QED
    BY <2>1, FS_EmptySet DEF Init, CountersExact, Served, Missed
<1> QED
  BY <1>1, <1>2, <1>3 DEF IInv

(* What a step may do with the requests of a call that is not in turn, or  *)
(* before it goes on with the call.                                        *)
Settled(c, req) ==
    /\ req \in [Calls -> Rows]
    /\ \A d \in Calls \ {c} : req[d] = request[d]
    /\ Progressed(request[c], req[c])

LEMMA RequestSettled ==
    ASSUME IInv, NEW c \in Calls, NEW p \in Providers, NEW a \in AttemptNos,
           request[c][p][a].state = "sent", NEW state \in {"ok", "error"}
    PROVE  Settled(c, SetRequest(c, p, a, state)) /\ SetRequest(c, p, a, state)[c][p][a].state = state
<1> DEFINE req == SetRequest(c, p, a, state)
<1>1. /\ request \in [Calls -> [Providers -> [AttemptNos -> Requests]]]
      /\ \A q \in Providers, b \in AttemptNos :
           request[c][q][b].state = "pausing" => request[c][q][b].try < HttpRetries
  BY DEF IInv, Types, Rows, Sound, RequestsInTurn
<1> DEFINE r == request[c][p][a]
<1>2. /\ [r EXCEPT !.state = state] \in Requests
      /\ [r EXCEPT !.state = state].state = state
  <2>1. r \in Requests
    BY <1>1
  <2> HIDE DEF r
  <2> QED
    BY <2>1 DEF Requests
<1>3. req \in [Calls -> Rows]
  BY <1>1, <1>2 DEF SetRequest, Rows
<1>4. \A d \in Calls \ {c} : req[d] = request[d]
  BY <1>1 DEF SetRequest
<1>5. \A q \in Providers, b \in AttemptNos :
        req[c][q][b] = IF q = p /\ b = a THEN [request[c][p][a] EXCEPT !.state = state]
                                         ELSE request[c][q][b]
  BY <1>1 DEF SetRequest
<1> HIDE DEF req
<1>7. Progressed(request[c], req[c])
  <2> SUFFICES ASSUME NEW q \in Providers, NEW b \in AttemptNos
               PROVE  /\ req[c][q][b].state = "unsent" <=> request[c][q][b].state = "unsent"
                      /\ request[c][q][b].state = "ok" => req[c][q][b].state = "ok"
                      /\ req[c][q][b].state = "pausing" => req[c][q][b].try < HttpRetries
    BY DEF Progressed
  <2>1. CASE q = p /\ b = a
    <3>1. req[c][q][b].state = state
      BY <1>2, <1>5, <2>1
    <3>2. request[c][q][b].state = "sent"
      BY <2>1
    <3> QED
      BY <3>1, <3>2
  <2>2. CASE ~(q = p /\ b = a)
    <3>1. req[c][q][b] = request[c][q][b]
      BY <1>5, <2>2
    <3> QED
      BY <1>1, <3>1
  <2> QED
    BY <2>1, <2>2
<1>8. req[c][p][a].state = state
  BY <1>2, <1>5
<1> QED
  BY <1>3, <1>4, <1>7, <1>8 DEF Settled, req

(* What a step leaves alone: the calls other than c.                       *)
Others(c) ==
    \A d \in Calls \ {c} :
        /\ mode'[d] = mode[d] /\ pc'[d] = pc[d] /\ at'[d] = at[d] /\ attempt'[d] = attempt[d]
        /\ results'[d] = results[d] /\ request'[d] = request[d]

(* A step of one call keeps Sound if it does so for that call.             *)
LEMMA OneCall ==
    ASSUME IInv, NEW c \in Calls, Others(c),
           Sound(mode'[c], pc'[c], at'[c], attempt'[c], results'[c], request'[c])
    PROVE  \A d \in Calls : Sound(mode'[d], pc'[d], at'[d], attempt'[d], results'[d], request'[d])
<1> SUFFICES ASSUME NEW d \in Calls, d /= c
             PROVE  Sound(mode'[d], pc'[d], at'[d], attempt'[d], results'[d], request'[d])
  OBVIOUS
<1>1. Sound(mode[d], pc[d], at[d], attempt[d], results[d], request[d])
  BY DEF IInv
<1>2. /\ mode'[d] = mode[d] /\ pc'[d] = pc[d] /\ at'[d] = at[d] /\ attempt'[d] = attempt[d]
      /\ results'[d] = results[d] /\ request'[d] = request[d]
  BY DEF Others
<1> QED
  BY <1>1, <1>2

LEMMA OthersPassed ==
    ASSUME NEW c \in Calls, Others(c)
    PROVE  \A d \in Calls \ {c} : Passed(d)' = Passed(d)
  BY DEF Others, Passed

(* A request whose call does not wait for it.                              *)
LEMMA LateStep ==
    ASSUME IInv, NEW c \in Calls, NEW req, Settled(c, req),
           request' = req, UNCHANGED <<callVars, statVars, checking>>,
           background' \in 0 .. MaxBackground
    PROVE  IInv'
<1>1. Types'
  BY DEF IInv, Types, Settled, callVars, statVars
<1>2. Others(c)
  BY DEF Others, Settled, callVars
<1>3. Sound(mode[c], pc[c], at[c], attempt[c], results[c], req[c])
  BY ProgressKeepsSound DEF IInv, Types, Settled
<1>4. \A d \in Calls : Sound(mode[d], pc[d], at[d], attempt[d], results[d], request[d])'
  BY <1>2, <1>3, OneCall DEF callVars
<1>5. CountersExact'
  BY CountersKept DEF IInv, Passed, callVars, statVars
<1> QED
  BY <1>1, <1>4, <1>5 DEF IInv

(* The delay before the next attempt begins.                               *)
LEMMA BackoffStep ==
    ASSUME IInv, NEW c \in Calls, NEW req, Settled(c, req),
           pc[c] = "fetching", attempt[c] < MaxRetries, Finish(c, "backoff", req),
           UNCHANGED <<mode, results, statVars, healthVars>>
    PROVE  IInv'
<1>1. Types'
  BY DEF IInv, Types, Settled, Finish, Points, statVars, healthVars
<1>2. \A d \in Calls : pc'[d] = IF d = c THEN "backoff" ELSE pc[d]
  BY DEF IInv, Types, Finish
<1>3. Others(c)
  BY <1>2 DEF Others, Settled, Finish
<1>4. Sound(mode[c], "fetching", at[c], attempt[c], results[c], req[c])
  BY ProgressKeepsSound DEF IInv, Types, Settled
<1>5. Sound(mode[c], "backoff", at[c], attempt[c], results[c], req[c])
  BY <1>4, BackoffKeepsSound DEF IInv, Types, Settled
<1>6. \A d \in Calls : Sound(mode[d], pc[d], at[d], attempt[d], results[d], request[d])'
  BY <1>2, <1>3, <1>5, OneCall DEF Finish
<1>7. \A d \in Calls : Passed(d)' = Passed(d)
  BY <1>2 DEF Passed, Finish
<1>8. CountersExact'
  BY <1>7, CountersKept DEF IInv, statVars
<1> QED
  BY <1>1, <1>6, <1>8 DEF IInv

(* The turn of a provider is over: its response is collected or it is      *)
(* given up.                                                               *)
LEMMA TurnStep ==
    ASSUME IInv, NEW c \in Calls, NEW req, Settled(c, req), NEW res2,
           pc[c] = "fetching",
           \/ /\ res2 = results[c] /\ attempt[c] = MaxRetries
              /\ failures' = [failures EXCEPT ![at[c]] = @ + 1] /\ successes' = successes
           \/ /\ res2 = Append(results[c], at[c]) /\ req[c][at[c]][attempt[c]].state = "ok"
              /\ successes' = [successes EXCEPT ![at[c]] = @ + 1] /\ failures' = failures,
           results' = [results EXCEPT ![c] = res2],
           \/ /\ at[c] < P /\ (mode[c] = "all" \/ res2 = results[c])
              /\ Begin(c, at[c] + 1, req)
           \/ /\ at[c] = P \/ (mode[c] = "failover" /\ res2 /= results[c])
              /\ Finish(c, IF res2 = <<>> THEN "rejected" ELSE "resolved", req),
           healthy' \in [Providers -> BOOLEAN], UNCHANGED <<mode, healthVars>>
    PROVE  IInv'
<1> DEFINE i == at[c]
           n == attempt[c]
           res == results[c]
           R == req[c]
<1>1. /\ mode[c] \in Modes /\ i \in Providers /\ n \in AttemptNos /\ res \in Seq(Providers)
      /\ R \in Rows /\ i \in Nat
  BY NumberTypes DEF IInv, Types, Settled
<1>2. Sound(mode[c], "fetching", i, n, res, R)
  BY <1>1, ProgressKeepsSound DEF IInv, Types, Settled
<1>t. \/ res2 = res /\ n = MaxRetries
      \/ res2 = Append(res, i) /\ R[i][n].state = "ok"
  OBVIOUS
<1>3. res2 \in Seq(Providers)
  <2>1. Append(res, i) \in Seq(Providers)
    BY <1>1
  <2> QED
    BY <1>1, <1>t, <2>1
<1>4. /\ results' \in [Calls -> Seq(Providers)]
      /\ \A d \in Calls : results'[d] = IF d = c THEN res2 ELSE results[d]
  BY <1>3 DEF IInv, Types
<1>5. i \notin ToSet(res)
  <2>1. \A j \in 1 .. Len(res) : res[j] < i
    BY <1>2 DEF Sound, ResponsesInTurn
  <2>2. \A j \in 1 .. Len(res) : res[j] /= i
    BY <1>1, <2>1
  <2> QED
    BY <1>1, <2>2 DEF ToSet
<1>6. request \in [Calls -> Rows] /\ req \in [Calls -> Rows] /\ \A d \in Calls \ {c} : req[d] = request[d]
  BY DEF IInv, Types, Settled
<1>7. /\ pc' \in [Calls -> Points] /\ at' \in [Calls -> Providers] /\ attempt' \in [Calls -> AttemptNos]
      /\ request' \in [Calls -> Rows]
      /\ Others(c)
      /\ Sound(mode'[c], pc'[c], at'[c], attempt'[c], results'[c], request'[c])
      /\ Passed(c)' = Passed(c) \cup {i} /\ i \notin Passed(c)
  <2>1. CASE /\ i < P /\ (mode[c] = "all" \/ res2 = res)
             /\ Begin(c, i + 1, req)
    <3>1. i + 1 \in Providers /\ 0 \in AttemptNos /\ Sent \in Requests
      BY <1>1, <2>1, CountAssumption, NumberTypes DEF Providers
    <3>2. /\ pc' \in [Calls -> Points] /\ \A d \in Calls : pc'[d] = IF d = c THEN "fetching" ELSE pc[d]
          /\ at' \in [Calls -> Providers] /\ \A d \in Calls : at'[d] = IF d = c THEN i + 1 ELSE at[d]
          /\ attempt' \in [Calls -> AttemptNos]
          /\ \A d \in Calls : attempt'[d] = IF d = c THEN 0 ELSE attempt[d]
      BY <2>1, <3>1 DEF IInv, Types, Begin, Points
    <3> DEFINE R2 == [R EXCEPT ![i + 1][0] = Sent]
    <3>3. R2 \in Rows
      BY <1>1, <3>1 DEF Rows
    <3>4. request' = [req EXCEPT ![c] = R2]
      BY <2>1 DEF Begin
    <3> HIDE DEF R2
    <3>5. /\ request' \in [Calls -> Rows]
          /\ \A d \in Calls : request'[d] = IF d = c THEN R2 ELSE req[d]
      BY <1>6, <3>3, <3>4
    <3>6. Others(c)
      BY <1>4, <1>6, <3>2, <3>5 DEF Others
    <3>7. Sound(mode[c], "fetching", i + 1, 0, res2, R2)
      BY <1>1, <1>2, <1>t, <2>1, NextTurn DEF R2
    <3>8. Passed(c)' = Passed(c) \cup {i} /\ i \notin Passed(c)
      <4>1. \A p \in Providers : p \in Nat /\ (p < i + 1 <=> p < i \/ p = i)
        BY <1>1, NumberTypes
      <4>2. i \in Providers /\ ~(i < i)
        BY <1>1
      <4>3. Passed(c) = {p \in Providers : p < i}
        BY DEF Passed
      <4>4. Passed(c)' = {p \in Providers : p < i + 1}
        BY <3>2 DEF Passed
      <4> QED
        BY <4>1, <4>2, <4>3, <4>4
    <3> QED
      BY <1>4, <3>2, <3>5, <3>6, <3>7, <3>8
  <2>2. CASE /\ i = P \/ (mode[c] = "failover" /\ res2 /= res)
             /\ Finish(c, IF res2 = <<>> THEN "rejected" ELSE "resolved", req)
    <3> DEFINE end == IF res2 = <<>> THEN "rejected" ELSE "resolved"
    <3>1. end \in {"rejected", "resolved"}
      OBVIOUS
    <3>2. Sound(mode[c], end, i, n, res2, R)
      BY <1>1, <1>2, <1>t, <2>2, LastTurn
    <3>e. Finish(c, end, req)
      BY <2>2
    <3> HIDE DEF end
    <3>3. /\ pc' \in [Calls -> Points] /\ \A d \in Calls : pc'[d] = IF d = c THEN end ELSE pc[d]
          /\ at' = at /\ attempt' = attempt /\ request' = req
      BY <3>1, <3>e DEF IInv, Types, Finish, Points
    <3>4. Others(c)
      BY <1>4, <1>6, <3>3 DEF Others
    <3>5. Passed(c)' = Passed(c) \cup {i} /\ i \notin Passed(c)
      <4>1. \A p \in Providers : p \in Nat /\ (p <= i <=> p < i \/ p = i)
        BY <1>1, NumberTypes
      <4>2. i \in Providers /\ ~(i < i)
        BY <1>1
      <4>3. Passed(c) = {p \in Providers : p < i}
        BY DEF Passed
      <4>4. Passed(c)' = {p \in Providers : p <= i}
        BY <3>1, <3>3 DEF Passed
      <4> QED
        BY <4>1, <4>2, <4>3, <4>4
    <3> QED
      BY <1>4, <1>6, <3>2, <3>3, <3>4, <3>5 DEF IInv, Types
  <2> QED
    BY <2>1, <2>2
<1>8. Types'
  <2>1. successes' \in [Providers -> Nat] /\ failures' \in [Providers -> Nat]
    <3>1. /\ successes \in [Providers -> Nat] /\ [successes EXCEPT ![i] = @ + 1] \in [Providers -> Nat]
          /\ failures \in [Providers -> Nat] /\ [failures EXCEPT ![i] = @ + 1] \in [Providers -> Nat]
      BY <1>1 DEF IInv, Types
    <3>2. \/ successes' = successes /\ failures' = [failures EXCEPT ![i] = @ + 1]
          \/ failures' = failures /\ successes' = [successes EXCEPT ![i] = @ + 1]
      OBVIOUS
    <3> QED
      BY <3>1, <3>2
  <2>2. mode' \in [Calls -> Modes] /\ checking' \subseteq Providers /\ background' \in 0 .. MaxBackground
    BY DEF IInv, Types, healthVars
  <2> QED
    BY <1>4, <1>7, <2>1, <2>2 DEF Types
<1>9. \A d \in Calls : Sound(mode[d], pc[d], at[d], attempt[d], results[d], request[d])'
  BY <1>7, OneCall
<1>10. CountersExact'
  <2>1. ToSet(Append(res, i)) = ToSet(res) \cup {i}
    <3>1. /\ Len(Append(res, i)) = Len(res) + 1 /\ Len(res) \in Nat
          /\ DOMAIN Append(res, i) = 1 .. Len(res) + 1 /\ DOMAIN res = 1 .. Len(res)
          /\ Append(res, i)[Len(res) + 1] = i
          /\ \A j \in 1 .. Len(res) : Append(res, i)[j] = res[j]
      BY <1>1
    <3>2. 1 .. Len(res) + 1 = (1 .. Len(res)) \cup {Len(res) + 1}
      BY <3>1
    <3> QED
      BY <3>1, <3>2 DEF ToSet
  <2>2. \/ /\ ToSet(results'[c]) = ToSet(results[c]) \cup {i}
           /\ successes' = [successes EXCEPT ![i] = @ + 1] /\ failures' = failures
        \/ /\ ToSet(results'[c]) = ToSet(results[c])
           /\ failures' = [failures EXCEPT ![i] = @ + 1] /\ successes' = successes
    BY <1>4, <2>1
  <2>3. \A d \in Calls \ {c} : Passed(d)' = Passed(d)
    BY <1>7, OthersPassed
  <2>4. \A d \in Calls \ {c} : results'[d] = results[d]
    BY <1>4
  <2> QED
    BY <1>1, <1>5, <1>7, <2>2, <2>3, <2>4, CountersCounted DEF IInv
<1> QED
  BY <1>8, <1>9, <1>10 DEF IInv

LEMMA CallStepKeeps ==
    ASSUME IInv, NEW c \in Calls, Call(c)
    PROVE  IInv'
<1>1. /\ Sound(mode[c], "idle", at[c], attempt[c], results[c], request[c])
      /\ mode[c] \in Modes /\ at[c] \in Providers /\ attempt[c] \in AttemptNos
      /\ results[c] \in Seq(Providers) /\ request[c] \in Rows
      /\ 1 \in Providers /\ 0 \in AttemptNos /\ Sent \in Requests
  BY NumberTypes DEF IInv, Types, Call
<1> DEFINE R2 == [request[c] EXCEPT ![1][0] = Sent]
<1>2. R2 \in Rows
  BY <1>1 DEF Rows
<1>3. Sound(mode[c], "fetching", 1, 0, results[c], R2)
  BY <1>1, CallKeepsSound
<1>4. request' = [request EXCEPT ![c] = R2]
  BY DEF Call, Begin
<1> HIDE DEF R2
<1>5. /\ pc' \in [Calls -> Points] /\ \A d \in Calls : pc'[d] = IF d = c THEN "fetching" ELSE pc[d]
      /\ at' \in [Calls -> Providers] /\ \A d \in Calls : at'[d] = IF d = c THEN 1 ELSE at[d]
      /\ attempt' \in [Calls -> AttemptNos]
      /\ \A d \in Calls : attempt'[d] = IF d = c THEN 0 ELSE attempt[d]
      /\ request' \in [Calls -> Rows]
      /\ \A d \in Calls : request'[d] = IF d = c THEN R2 ELSE request[d]
      /\ UNCHANGED <<mode, results, statVars, healthVars>>
  BY <1>1, <1>2, <1>4 DEF IInv, Types, Call, Begin, Points
<1>6. Types'
  BY <1>5 DEF IInv, Types, statVars, healthVars
<1>7. \A d \in Calls : Sound(mode[d], pc[d], at[d], attempt[d], results[d], request[d])'
  <2>1. Others(c)
    BY <1>5 DEF Others
  <2> QED
    BY <1>3, <1>5, <2>1, OneCall
<1>8. CountersExact'
  <2>1. \A d \in Calls : Passed(d)' = Passed(d)
    <3>1. Passed(c) = {}
      BY DEF Passed, Call
    <3>2. Passed(c)' = {}
      BY <1>5, NumberTypes DEF Passed
    <3> QED
      BY <1>5, <3>1, <3>2 DEF Passed
  <2> QED
    BY <1>5, <2>1, CountersKept DEF IInv, statVars
<1> QED
  BY <1>6, <1>7, <1>8 DEF IInv

LEMMA RetryStepKeeps ==
    ASSUME IInv, NEW c \in Calls, Retry(c)
    PROVE  IInv'
<1> DEFINE i == at[c]
           n == attempt[c]
           R2 == [request[c] EXCEPT ![i][n + 1] = Sent]
<1>1. /\ Sound(mode[c], "backoff", i, n, results[c], request[c])
      /\ mode[c] \in Modes /\ i \in Providers /\ n \in AttemptNos
      /\ results[c] \in Seq(Providers) /\ request[c] \in Rows
      /\ Sent \in Requests
  BY NumberTypes DEF IInv, Types, Retry
<1>2. /\ n + 1 \in AttemptNos
      /\ Sound(mode[c], "fetching", i, n + 1, results[c], R2)
  BY <1>1, RetryKeepsSound
<1>3. R2 \in Rows
  BY <1>1, <1>2 DEF Rows
<1>4. request' = [request EXCEPT ![c] = R2]
  BY DEF Retry
<1> HIDE DEF R2
<1>5. /\ pc' \in [Calls -> Points] /\ \A d \in Calls : pc'[d] = IF d = c THEN "fetching" ELSE pc[d]
      /\ attempt' \in [Calls -> AttemptNos]
      /\ \A d \in Calls : attempt'[d] = IF d = c THEN n + 1 ELSE attempt[d]
      /\ request' \in [Calls -> Rows]
      /\ \A d \in Calls : request'[d] = IF d = c THEN R2 ELSE request[d]
      /\ UNCHANGED <<mode, at, results, statVars, healthVars>>
  BY <1>1, <1>2, <1>3, <1>4 DEF IInv, Types, Retry, Points
<1>6. Types'
  BY <1>5 DEF IInv, Types, statVars, healthVars
<1>7. \A d \in Calls : Sound(mode[d], pc[d], at[d], attempt[d], results[d], request[d])'
  <2>1. Others(c)
    BY <1>5 DEF Others
  <2> QED
    BY <1>2, <1>5, <2>1, OneCall
<1>8. CountersExact'
  <2>1. \A d \in Calls : Passed(d)' = Passed(d)
    BY <1>5 DEF Passed, Retry
  <2> QED
    BY <1>5, <2>1, CountersKept DEF IInv, statVars
<1> QED
  BY <1>6, <1>7, <1>8 DEF IInv

(* An attempt fails, by its timer or by its request.                       *)
LEMMA FailKeeps ==
    ASSUME IInv, NEW c \in Calls, NEW req, Settled(c, req), pc[c] = "fetching",
           FailAttempt(c, req), UNCHANGED healthVars
    PROVE  IInv'
<1>1. CASE attempt[c] < MaxRetries
  BY <1>1, BackoffStep DEF FailAttempt
<1>2. CASE ~(attempt[c] < MaxRetries)
  <2>1. /\ attempt[c] = MaxRetries /\ at[c] \in Providers
        /\ at[c] < P \/ (at[c] = P /\ ~(at[c] < P))
    <3>1. attempt[c] \in 0 .. MaxRetries /\ at[c] \in 1 .. P /\ P \in Nat /\ MaxRetries \in Nat
      BY CountAssumption DEF IInv, Types, AttemptNos, Providers
    <3> QED
      BY <1>2, <3>1 DEF Providers
  <2>2. /\ failures' = [failures EXCEPT ![at[c]] = @ + 1]
        /\ healthy' = [healthy EXCEPT ![at[c]] = FALSE]
        /\ Advance(c, results[c], req)
        /\ UNCHANGED <<mode, successes>>
    BY <1>2 DEF FailAttempt, RecordFailure
  <2>3. healthy' \in [Providers -> BOOLEAN]
    BY <2>2 DEF IInv, Types
  <2>4. results' = [results EXCEPT ![c] = results[c]]
    BY <2>2 DEF Advance
  <2>5. \/ at[c] < P /\ Begin(c, at[c] + 1, req)
        \/ at[c] = P /\ Finish(c, IF results[c] = <<>> THEN "rejected" ELSE "resolved", req)
    BY <2>1, <2>2 DEF Advance
  <2> DEFINE res2 == results[c]
  <2>6. /\ res2 = results[c]
        /\ results' = [results EXCEPT ![c] = res2]
        /\ \/ at[c] < P /\ Begin(c, at[c] + 1, req)
           \/ at[c] = P /\ Finish(c, IF res2 = <<>> THEN "rejected" ELSE "resolved", req)
    BY <2>4, <2>5
  <2> HIDE DEF res2
  <2> QED
    BY <2>1, <2>2, <2>3, <2>6, TurnStep
<1> QED
  BY <1>1, <1>2

(* An answer in time.                                                      *)
LEMMA SucceedKeeps ==
    ASSUME IInv, NEW c \in Calls, NEW req, Settled(c, req), pc[c] = "fetching",
           req[c][at[c]][attempt[c]].state = "ok",
           Succeed(c, req), UNCHANGED healthVars
    PROVE  IInv'
<1>1. /\ at[c] \in Providers /\ results[c] \in Seq(Providers) /\ mode[c] \in Modes
      /\ at[c] < P \/ (at[c] = P /\ ~(at[c] < P))
  BY CountAssumption DEF IInv, Types, Providers
<1>2. /\ successes' = [successes EXCEPT ![at[c]] = @ + 1]
      /\ healthy' = [healthy EXCEPT ![at[c]] = TRUE]
      /\ UNCHANGED <<mode, failures>>
  BY DEF Succeed
<1>3. healthy' \in [Providers -> BOOLEAN]
  BY <1>2 DEF IInv, Types
<1>4. Append(results[c], at[c]) /= results[c]
  <2>1. Len(Append(results[c], at[c])) = Len(results[c]) + 1 /\ Len(results[c]) \in Nat
    BY <1>1
  <2>2. Len(results[c]) + 1 /= Len(results[c])
    BY <2>1
  <2> QED
    BY <2>1, <2>2
<1>5. CASE mode[c] = "all"
  <2>1. Advance(c, Append(results[c], at[c]), req)
    BY <1>5 DEF Succeed
  <2> QED
    BY <1>1, <1>2, <1>3, <1>5, <2>1, TurnStep DEF Advance
<1>6. CASE mode[c] = "failover"
  <2>1. results[c] = <<>>
    BY <1>6 DEF IInv, Sound, EndsInTurn
  <2>2. Append(results[c], at[c]) = <<at[c]>> /\ <<at[c]>> /= <<>>
    BY <1>1, <2>1
  <2>3. /\ results' = [results EXCEPT ![c] = <<at[c]>>]
        /\ Finish(c, "resolved", req)
    BY <1>6 DEF Succeed
  <2> QED
    BY <1>1, <1>2, <1>3, <1>4, <1>6, <2>2, <2>3, TurnStep
<1> QED
  BY <1>1, <1>5, <1>6 DEF Modes

LEMMA RequestStepKeeps ==
    ASSUME IInv, NEW c \in Calls, NEW p \in Providers, NEW a \in AttemptNos, RequestStep(c, p, a)
    PROVE  IInv'
<1>1. ASSUME request[c][p][a].state = "sent"
      PROVE  /\ Settled(c, SetRequest(c, p, a, "ok"))
             /\ SetRequest(c, p, a, "ok")[c][p][a].state = "ok"
             /\ Settled(c, SetRequest(c, p, a, "error"))
  BY <1>1, RequestSettled
<1>2. CASE Answer(c, p, a)
  <2> DEFINE req == SetRequest(c, p, a, "ok")
  <2>1. /\ Settled(c, req) /\ req[c][p][a].state = "ok"
        /\ IF Awaited(c, p, a) THEN Succeed(c, req)
                               ELSE request' = req /\ UNCHANGED <<callVars, statVars>>
        /\ UNCHANGED healthVars
    BY <1>1, <1>2 DEF Answer
  <2> HIDE DEF req
  <2>2. CASE Awaited(c, p, a)
    BY <2>1, <2>2, SucceedKeeps DEF Awaited
  <2>3. CASE ~Awaited(c, p, a)
    <3>1. UNCHANGED checking /\ background' \in 0 .. MaxBackground
      BY <2>1 DEF healthVars, IInv, Types
    <3> QED
      BY <2>1, <2>3, <3>1, LateStep
  <2> QED
    BY <2>2, <2>3
<1>3. CASE Error(c, p, a)
  <2> DEFINE req == SetRequest(c, p, a, "error")
  <2>1. /\ Settled(c, req)
        /\ IF Awaited(c, p, a) THEN FailAttempt(c, req)
                               ELSE request' = req /\ UNCHANGED <<callVars, statVars>>
        /\ UNCHANGED healthVars
    BY <1>1, <1>3 DEF Error
  <2> HIDE DEF req
  <2>2. CASE Awaited(c, p, a)
    BY <2>1, <2>2, FailKeeps DEF Awaited
  <2>3. CASE ~Awaited(c, p, a)
    <3>1. UNCHANGED checking /\ background' \in 0 .. MaxBackground
      BY <2>1 DEF healthVars, IInv, Types
    <3> QED
      BY <2>1, <2>3, <3>1, LateStep
  <2> QED
    BY <2>2, <2>3
<1> DEFINE r == request[c][p][a]
<1>4. /\ request \in [Calls -> [Providers -> [AttemptNos -> Requests]]]
      /\ r \in Requests
      /\ \A q \in Providers, b \in AttemptNos :
           request[c][q][b].state = "pausing" => request[c][q][b].try < HttpRetries
  BY DEF IInv, Types, Rows, Sound, RequestsInTurn
<1>5. ASSUME NEW r2 \in Requests, request' = [request EXCEPT ![c][p][a] = r2],
             r.state \in {"sent", "pausing"}, r2.state \in {"sent", "pausing"},
             r2.state = "pausing" => r2.try < HttpRetries,
             UNCHANGED <<callVars, statVars, checking>>,
             background' \in 0 .. MaxBackground
      PROVE  IInv'
  <2>1. request' \in [Calls -> Rows] /\ \A d \in Calls \ {c} : request'[d] = request[d]
    BY <1>4, <1>5 DEF Rows
  <2>2. \A q \in Providers, b \in AttemptNos :
          request'[c][q][b] = IF q = p /\ b = a THEN r2 ELSE request[c][q][b]
    BY <1>4, <1>5
  <2>3. Progressed(request[c], request'[c])
    <3> SUFFICES ASSUME NEW q \in Providers, NEW b \in AttemptNos
                 PROVE  /\ request'[c][q][b].state = "unsent" <=> request[c][q][b].state = "unsent"
                        /\ request[c][q][b].state = "ok" => request'[c][q][b].state = "ok"
                        /\ request'[c][q][b].state = "pausing" => request'[c][q][b].try < HttpRetries
      BY DEF Progressed
    <3>1. CASE q = p /\ b = a
      BY <1>5, <2>2, <3>1
    <3>2. CASE ~(q = p /\ b = a)
      BY <1>4, <2>2, <3>2
    <3> QED
      BY <3>1, <3>2
  <2>4. Settled(c, request')
    BY <2>1, <2>3 DEF Settled
  <2> QED
    BY <1>5, <2>4, LateStep
<1>6. CASE HttpFails(c, p, a)
  <2> DEFINE r2 == [r EXCEPT !.state = "pausing"]
  <2>1. request' = [request EXCEPT ![c][p][a] = r2]
    BY <1>4, <1>6 DEF HttpFails, SetRequest
  <2>2. /\ r.state = "sent" /\ r.try < HttpRetries
        /\ UNCHANGED <<callVars, statVars, checking>>
        /\ background' \in 0 .. MaxBackground
    BY <1>6, CountAssumption DEF HttpFails, IInv, Types
  <2> HIDE DEF r
  <2>3. r2 \in Requests /\ r2.state = "pausing" /\ r2.try = r.try
    BY <1>4 DEF Requests
  <2> HIDE DEF r2
  <2> QED
    BY <1>5, <2>1, <2>2, <2>3
<1>7. CASE HttpRetry(c, p, a)
  <2> DEFINE r2 == [state |-> "sent", try |-> r.try + 1]
  <2>1. request' = [request EXCEPT ![c][p][a] = r2]
    BY <1>4, <1>7 DEF HttpRetry
  <2>2. /\ r.state = "pausing" /\ r.try < HttpRetries
        /\ UNCHANGED <<callVars, statVars, healthVars>>
    BY <1>4, <1>7 DEF HttpRetry
  <2>4. UNCHANGED checking /\ background' \in 0 .. MaxBackground
    BY <2>2 DEF healthVars, IInv, Types
  <2> HIDE DEF r
  <2>3. r2 \in Requests /\ r2.state = "sent"
    BY <1>4, <2>2, CountAssumption DEF Requests
  <2> HIDE DEF r2
  <2> QED
    BY <1>5, <2>1, <2>2, <2>3, <2>4
<1> QED
  BY <1>2, <1>3, <1>6, <1>7 DEF RequestStep

(* Steps that touch no call: the health polling, and stuttering.           *)
LEMMA HealthKeeps ==
    ASSUME IInv, UNCHANGED <<callVars, request, successes, failures>>,
           healthy' \in [Providers -> BOOLEAN], checking' \subseteq Providers,
           background' \in 0 .. MaxBackground
    PROVE  IInv'
<1>1. Types'
  BY DEF IInv, Types, callVars
<1>2. \A d \in Calls : Sound(mode[d], pc[d], at[d], attempt[d], results[d], request[d])'
  BY DEF IInv, callVars
<1>3. CountersExact'
  BY CountersKept DEF IInv, Passed, callVars
<1> QED
  BY <1>1, <1>2, <1>3 DEF IInv

LEMMA StepInvariant == IInv /\ [Next]_vars => IInv'
<1> SUFFICES ASSUME IInv, [Next]_vars PROVE IInv'
  OBVIOUS
<1>1. ASSUME NEW c \in Calls, Call(c) PROVE IInv'
  BY <1>1, CallStepKeeps
<1>2. ASSUME NEW c \in Calls, Retry(c) PROVE IInv'
  BY <1>2, RetryStepKeeps
<1>3. ASSUME NEW c \in Calls, Timeout(c) PROVE IInv'
  <2>1. Settled(c, request)
    BY DEF IInv, Types, Sound, RequestsInTurn, Settled, Progressed
  <2> QED
    BY <1>3, <2>1, FailKeeps DEF Timeout
<1>4. ASSUME NEW c \in Calls, NEW p \in Providers, NEW a \in AttemptNos, RequestStep(c, p, a)
      PROVE  IInv'
  BY <1>4, RequestStepKeeps
<1>5. CASE Poll
  <2>1. background' \in 0 .. MaxBackground
    BY <1>5, CountAssumption DEF IInv, Types, Poll
  <2>2. healthy' \in [Providers -> BOOLEAN] /\ checking' \subseteq Providers
    BY <1>5 DEF IInv, Types, Poll, statVars
  <2> QED
    BY <1>5, <2>1, <2>2, HealthKeeps DEF Poll, statVars
<1>6. ASSUME NEW p \in Providers, CheckHealth(p) PROVE IInv'
  <2>1. background' \in 0 .. MaxBackground /\ healthy' \in [Providers -> BOOLEAN] /\ checking' \subseteq Providers
    BY <1>6 DEF IInv, Types, CheckHealth
  <2> QED
    BY <1>6, <2>1, HealthKeeps DEF CheckHealth
<1>7. CASE UNCHANGED vars
  <2>1. background' \in 0 .. MaxBackground /\ healthy' \in [Providers -> BOOLEAN] /\ checking' \subseteq Providers
    BY <1>7 DEF IInv, Types, vars, statVars, healthVars
  <2> QED
    BY <1>7, <2>1, HealthKeeps DEF vars, statVars
<1> QED
  BY <1>1, <1>2, <1>3, <1>4, <1>5, <1>6, <1>7 DEF Next, CallStep

LEMMA InvariantHolds == Spec => []IInv
  BY InitInvariant, StepInvariant, PTL DEF Spec

-----------------------------------------------------------------------------
(* The statistics stay within the number of calls, a call collects at most *)
(* one response of each provider, and every variable keeps its type.       *)
THEOREM TypeCorrect == Spec => []TypeOK
<1>1. IInv => TypeOK
  <2> SUFFICES ASSUME IInv PROVE TypeOK
    OBVIOUS
  <2>1. \A c \in Calls : Len(results[c]) <= P /\ ToSet(results[c]) \subseteq Providers
    <3> SUFFICES ASSUME NEW c \in Calls
                 PROVE  Len(results[c]) <= P /\ ToSet(results[c]) \subseteq Providers
      OBVIOUS
    <3>1. results[c] \in Seq(Providers) /\ at[c] \in 1 .. P /\ Len(results[c]) <= at[c]
      BY DEF IInv, Types, Sound, ResponsesInTurn, Providers
    <3>2. Len(results[c]) \in Nat /\ P \in Nat
      BY <3>1, CountAssumption
    <3> QED
      BY <3>1, <3>2 DEF ToSet
  <2>2. \A p \in Providers : /\ successes[p] \in 0 .. Cardinality(Calls)
                             /\ failures[p] \in 0 .. Cardinality(Calls)
    <3> SUFFICES ASSUME NEW p \in Providers
                 PROVE  /\ successes[p] \in 0 .. Cardinality(Calls)
                        /\ failures[p] \in 0 .. Cardinality(Calls)
      OBVIOUS
    <3>1. Cardinality(Calls) \in Nat
      BY CallAssumption, FS_CardinalityType
    <3>2. Served(p) \subseteq Calls /\ Missed(p) \subseteq Calls
      BY DEF Served, Missed
    <3>3. /\ Cardinality(Served(p)) <= Cardinality(Calls)
          /\ Cardinality(Missed(p)) <= Cardinality(Calls)
      BY <3>2, CallAssumption, FS_Subset
    <3>4. /\ successes[p] = Cardinality(Served(p)) /\ failures[p] = Cardinality(Missed(p))
          /\ successes[p] \in Nat /\ failures[p] \in Nat
      BY DEF IInv, Types, CountersExact, Served, Missed
    <3> QED
      BY <3>1, <3>3, <3>4
  <2> QED
    BY <2>1, <2>2 DEF IInv, Types, TypeOK, Modes, Points, Rows
<1> QED
  BY <1>1, InvariantHolds, PTL

(* No provider is given up before all its attempts were made, and only a   *)
(* call that has tried every provider rejects                              *)
(* (ProviderManager.ts:203-219).                                           *)
THEOREM GivenUpCorrect == Spec => []GivenUpAfterAllRetries
<1>1. IInv => GivenUpAfterAllRetries
  <2> SUFFICES ASSUME IInv, NEW c \in Calls
               PROVE  /\ pc[c] = "rejected" => Passed(c) = Providers
                      /\ \A p \in Passed(c) \ ToSet(results[c]) :
                           \A a \in AttemptNos : request[c][p][a].state /= "unsent"
    BY DEF GivenUpAfterAllRetries
  <2>1. pc[c] = "rejected" => Passed(c) = Providers
    BY NumberTypes DEF IInv, Sound, EndsInTurn, Passed
  <2>2. ASSUME NEW p \in Passed(c) \ ToSet(results[c])
        PROVE  \A a \in AttemptNos : request[c][p][a].state /= "unsent"
    <3>1. /\ p \in Providers /\ at[c] \in Providers /\ results[c] \in Seq(Providers)
          /\ p \in Nat /\ at[c] \in Nat
      BY NumberTypes DEF IInv, Types, Passed
    <3>2. p < at[c] \/ (p = at[c] /\ pc[c] \in {"resolved", "rejected"})
      BY <2>2, <3>1 DEF Passed
    <3>3. \A j \in 1 .. Len(results[c]) : results[c][j] /= p
      BY <2>2, <3>1 DEF ToSet
    <3>4. GivenUp(pc[c], at[c], results[c], request[c])
      BY DEF IInv, Sound
    <3> QED
      BY <3>1, <3>2, <3>3, <3>4 DEF GivenUp
  <2> QED
    BY <2>1, <2>2
<1> QED
  BY <1>1, InvariantHolds, PTL

(* The responses of a call are answers really given, in the order of the   *)
(* registry and one of each provider at most, whatever late answers do     *)
(* (ProviderManager.ts:224-231).                                           *)
THEOREM ResponsesCorrect == Spec => []ResponsesGenuine
<1>1. IInv => ResponsesGenuine
  <2> SUFFICES ASSUME IInv, NEW c \in Calls
               PROVE  /\ \A i, j \in DOMAIN results[c] : i < j => results[c][i] < results[c][j]
                      /\ ToSet(results[c]) \subseteq Passed(c)
                      /\ \A p \in ToSet(results[c]) : \E a \in AttemptNos : request[c][p][a].state = "ok"
                      /\ mode[c] = "failover" => Len(results[c]) <= 1
                      /\ pc[c] = "resolved" <=> /\ results[c] /= <<>>
                                                /\ at[c] = P \/ mode[c] = "failover"
                                                /\ pc[c] \notin {"fetching", "backoff"}
    BY DEF ResponsesGenuine
  <2>1. /\ results[c] \in Seq(Providers) /\ pc[c] \in Points /\ mode[c] \in Modes
        /\ ResponsesInTurn(pc[c], at[c], results[c], request[c])
        /\ EndsInTurn(mode[c], pc[c], at[c], attempt[c], results[c])
    BY DEF IInv, Types, Sound
  <2>2. DOMAIN results[c] = 1 .. Len(results[c]) /\ ToSet(results[c]) = {results[c][j] : j \in 1 .. Len(results[c])}
    BY <2>1 DEF ToSet
  <2>3. \A i, j \in DOMAIN results[c] : i < j => results[c][i] < results[c][j]
    BY <2>1, <2>2 DEF ResponsesInTurn
  <2>4. ASSUME NEW j \in 1 .. Len(results[c])
        PROVE  /\ results[c][j] \in Passed(c)
               /\ \E a \in AttemptNos : request[c][results[c][j]][a].state = "ok"
    <3>1. results[c][j] \in Providers
      BY <2>1
    <3>2. pc[c] /= "idle"
      <4>1. Len(results[c]) /= 0
        BY <2>1
      <4> QED
        BY <2>1, <4>1 DEF EndsInTurn
    <3> QED
      BY <2>1, <3>1, <3>2 DEF ResponsesInTurn, Passed, Points
  <2>5. mode[c] = "failover" => Len(results[c]) <= 1
    BY <2>1 DEF EndsInTurn
  <2>6. pc[c] = "resolved" <=> /\ results[c] /= <<>>
                               /\ at[c] = P \/ mode[c] = "failover"
                               /\ pc[c] \notin {"fetching", "backoff"}
    BY <2>1 DEF EndsInTurn, Points
  <2> QED
    BY <2>2, <2>3, <2>4, <2>5, <2>6
<1> QED
  BY <1>1, InvariantHolds, PTL

(* The statistics served by GET /metrics count one success or failure for  *)
(* each provider and call, however calls overlap                           *)
(* (ProviderManager.ts:236-262).                                           *)
THEOREM CountersCorrect == Spec => []CountersExact
<1>1. IInv => CountersExact
  BY DEF IInv
<1> QED
  BY <1>1, InvariantHolds, PTL
=============================================================================
