----------------------------- MODULE ServerProofs -----------------------------
(***************************************************************************)
(* Proofs about Server for any number of clients, event types, signals and *)
(* jobs: type correctness, GracefulExit, SubscribersServed and             *)
(* ThrowsOnlyWhileConnected.                                               *)
(***************************************************************************)
EXTENDS Server, SequenceTheorems, FiniteSetTheorems, TLAPS

Subscriptions == (SUBSET Types) \cup {Unusable}

Typed ==
    /\ boot \in {"redis", "stream", "scheduler", "worker", "up"}
    /\ worker \in {"none", "running", "closing", "closed"}
    /\ jobs \in 0 .. Concurrency
    /\ taken \in 0 .. MaxJobs
    /\ stream \in {"down", "listening", "closing"}
    /\ conn \in [Clients -> {"none", "tcp", "open", "late", "closing", "gone"}]
    /\ clients \in Seq(Clients)
    /\ subscription \in [Clients -> Subscriptions]
    /\ shutdown \in [Signals -> {"none", "scheduler", "worker", "jobs", "stream", "clients", "exit"}]
    /\ skipped \in BOOLEAN
    /\ exited \in BOOLEAN
    /\ crashed \in BOOLEAN
    /\ emitted \in 0 .. MaxEvents
    /\ threw \in BOOLEAN
    /\ missed \subseteq Clients

(* The map of clients has each client once, those that are connected and   *)
(* upgraded, every open one among them.                                    *)
MapOfClients ==
    /\ \A i, j \in 1 .. Len(clients) : clients[i] = clients[j] => i = j
    /\ \A i \in 1 .. Len(clients) : conn[clients[i]] \in Open \cup {"closing"}
    /\ \A c \in Clients : conn[c] \in Open => \E i \in 1 .. Len(clients) : clients[i] = c

(* What a client has sent goes with its connection.                        *)
Forgotten ==
    \A c \in Clients : subscription[c] = Unusable => conn[c] \in Open \cup {"closing"}

(* Where the worker is when no job may be in hand: it is not there before  *)
(* the start-up is over, and a shutdown gets beyond it only when it is     *)
(* closed, or was not there.                                               *)
WorkerInStep ==
    /\ boot /= "up" => worker = "none"
    /\ worker \in {"none", "closed"} => jobs = 0
    /\ \A h \in Signals :
         /\ shutdown[h] = "jobs" => worker \in {"closing", "closed"}
         /\ shutdown[h] \in {"stream", "clients", "exit"} => worker = "closed" \/ skipped
    /\ GracefulExit

IInv == Typed /\ MapOfClients /\ Forgotten /\ WorkerInStep

-----------------------------------------------------------------------------
(* Deleting a client's entry from the map.                                 *)

LEMMA RemoveOne ==
    ASSUME NEW S, NEW s \in Seq(S), NEW i \in 1 .. Len(s),
           \A j, k \in 1 .. Len(s) : s[j] = s[k] => j = k
    PROVE  /\ RemoveFirst(s, s[i]) \in Seq(S)
           /\ Len(RemoveFirst(s, s[i])) = Len(s) - 1
           /\ \A j \in 1 .. Len(s) - 1 : RemoveFirst(s, s[i])[j] = IF j < i THEN s[j] ELSE s[j + 1]
<1> DEFINE I == {j \in 1 .. Len(s) : s[j] = s[i]}
<1>1. I = {i}
  OBVIOUS
<1>2. Min({i}) = i
  BY DEF Min
<1>3. SelectInSeq(s, LAMBDA v : v = s[i]) = i
  BY <1>1, <1>2 DEF SelectInSeq
<1>4. RemoveFirst(s, s[i]) = SubSeq(s, 1, i - 1) \o SubSeq(s, i + 1, Len(s))
  BY <1>3 DEF RemoveFirst, RemoveAt
<1> DEFINE t == SubSeq(s, 1, i - 1)
           u == SubSeq(s, i + 1, Len(s))
<1>5. /\ t \in Seq(S) /\ Len(t) = i - 1
      /\ \A j \in 1 .. i - 1 : t[j] = s[j]
  <2>1. /\ 1 \in Int /\ i - 1 \in Int /\ \A j \in 1 .. i - 1 : s[j] \in S
        /\ (IF 1 <= i - 1 THEN (i - 1) - 1 + 1 ELSE 0) = i - 1
    OBVIOUS
  <2>2. /\ SubSeq(s, 1, i - 1) \in Seq(S)
        /\ Len(SubSeq(s, 1, i - 1)) = IF 1 <= i - 1 THEN (i - 1) - 1 + 1 ELSE 0
        /\ \A j \in 1 .. (i - 1) - 1 + 1 : SubSeq(s, 1, i - 1)[j] = s[1 + j - 1]
    BY <2>1, SubSeqProperties
  <2> QED
    BY <2>1, <2>2
<1>6. /\ u \in Seq(S) /\ Len(u) = Len(s) - i
      /\ \A j \in 1 .. Len(s) - i : u[j] = s[i + j]
  <2>1. /\ i + 1 \in Int /\ Len(s) \in Int /\ \A j \in i + 1 .. Len(s) : s[j] \in S
        /\ (IF i + 1 <= Len(s) THEN Len(s) - (i + 1) + 1 ELSE 0) = Len(s) - i
    OBVIOUS
  <2>2. /\ SubSeq(s, i + 1, Len(s)) \in Seq(S)
        /\ Len(SubSeq(s, i + 1, Len(s))) = IF i + 1 <= Len(s) THEN Len(s) - (i + 1) + 1 ELSE 0
        /\ \A j \in 1 .. Len(s) - (i + 1) + 1 : SubSeq(s, i + 1, Len(s))[j] = s[(i + 1) + j - 1]
    BY <2>1, SubSeqProperties
  <2> QED
    BY <2>1, <2>2
<1> HIDE DEF t, u
<1>7. /\ t \o u \in Seq(S) /\ Len(t \o u) = Len(s) - 1
      /\ \A j \in 1 .. Len(s) - 1 : (t \o u)[j] = IF j < i THEN s[j] ELSE s[j + 1]
  <2>1. /\ t \o u \in Seq(S) /\ Len(t \o u) = Len(t) + Len(u)
        /\ \A j \in 1 .. Len(t) + Len(u) : (t \o u)[j] = IF j <= Len(t) THEN t[j] ELSE u[j - Len(t)]
    <3>1. t \in Seq(S) /\ u \in Seq(S)
      BY <1>5, <1>6
    <3> QED
      BY <3>1, ConcatProperties
  <2>2. Len(t) + Len(u) = Len(s) - 1 /\ Len(s) \in Nat /\ i \in Nat
    BY <1>5, <1>6
  <2>3. ASSUME NEW j \in 1 .. Len(s) - 1
        PROVE  (t \o u)[j] = IF j < i THEN s[j] ELSE s[j + 1]
    <3>1. CASE j < i
      BY <1>5, <2>1, <2>2, <3>1
    <3>2. CASE ~(j < i)
      <4>1. (t \o u)[j] = u[j - (i - 1)]
        BY <1>5, <2>1, <2>2, <3>2
      <4>2. j - (i - 1) \in 1 .. Len(s) - i /\ i + (j - (i - 1)) = j + 1
        BY <2>2, <3>2
      <4> QED
        BY <1>6, <3>2, <4>1, <4>2
    <3> QED
      BY <3>1, <3>2
  <2> QED
    BY <2>1, <2>2, <2>3
<1> QED
  BY <1>4, <1>7 DEF t, u

(* Deleting an entry leaves the others, each of them once.                 *)
LEMMA RemoveKeepsOthers ==
    ASSUME NEW S, NEW s \in Seq(S), NEW c,
           \A j, k \in 1 .. Len(s) : s[j] = s[k] => j = k
    PROVE  /\ RemoveFirst(s, c) \in Seq(S)
           /\ \A j, k \in 1 .. Len(RemoveFirst(s, c)) :
                RemoveFirst(s, c)[j] = RemoveFirst(s, c)[k] => j = k
           /\ \A j \in 1 .. Len(RemoveFirst(s, c)) :
                RemoveFirst(s, c)[j] /= c /\ \E k \in 1 .. Len(s) : RemoveFirst(s, c)[j] = s[k]
           /\ \A k \in 1 .. Len(s) :
                s[k] /= c => \E j \in 1 .. Len(RemoveFirst(s, c)) : RemoveFirst(s, c)[j] = s[k]
<1>1. CASE \A i \in 1 .. Len(s) : s[i] /= c
  <2>1. RemoveFirst(s, c) = s
    BY <1>1 DEF RemoveFirst
  <2> QED
    BY <1>1, <2>1
<1>2. ASSUME NEW i \in 1 .. Len(s), s[i] = c
      PROVE  /\ RemoveFirst(s, c) \in Seq(S)
             /\ \A j, k \in 1 .. Len(RemoveFirst(s, c)) :
                  RemoveFirst(s, c)[j] = RemoveFirst(s, c)[k] => j = k
             /\ \A j \in 1 .. Len(RemoveFirst(s, c)) :
                  RemoveFirst(s, c)[j] /= c /\ \E k \in 1 .. Len(s) : RemoveFirst(s, c)[j] = s[k]
             /\ \A k \in 1 .. Len(s) :
                  s[k] /= c => \E j \in 1 .. Len(RemoveFirst(s, c)) : RemoveFirst(s, c)[j] = s[k]
  <2> DEFINE r == RemoveFirst(s, c)
  <2>1. /\ r \in Seq(S) /\ Len(r) = Len(s) - 1
        /\ \A j \in 1 .. Len(s) - 1 : r[j] = IF j < i THEN s[j] ELSE s[j + 1]
    BY <1>2, RemoveOne
  <2>2. Len(s) \in Nat /\ i \in Nat
    OBVIOUS
  <2> HIDE DEF r
  <2>3. ASSUME NEW j \in 1 .. Len(r)
        PROVE  /\ r[j] /= c
               /\ \E k \in 1 .. Len(s) : r[j] = s[k]
    <3>1. CASE j < i
      <4>1. j \in 1 .. Len(s) /\ r[j] = s[j] /\ j /= i
        BY <2>1, <2>2, <3>1
      <4> QED
        BY <1>2, <4>1
    <3>2. CASE ~(j < i)
      <4>1. j + 1 \in 1 .. Len(s) /\ r[j] = s[j + 1] /\ j + 1 /= i
        BY <2>1, <2>2, <3>2
      <4> QED
        BY <1>2, <4>1
    <3> QED
      BY <3>1, <3>2
  <2>4. ASSUME NEW j \in 1 .. Len(r), NEW k \in 1 .. Len(r), r[j] = r[k]
        PROVE  j = k
    <3>1. /\ j \in 1 .. Len(s) /\ j + 1 \in 1 .. Len(s)
          /\ k \in 1 .. Len(s) /\ k + 1 \in 1 .. Len(s)
      BY <2>1, <2>2
    <3>2. /\ r[j] = IF j < i THEN s[j] ELSE s[j + 1]
          /\ r[k] = IF k < i THEN s[k] ELSE s[k + 1]
      BY <2>1
    <3>3. (IF j < i THEN j ELSE j + 1) = (IF k < i THEN k ELSE k + 1)
      BY <2>4, <3>1, <3>2
    <3> QED
      BY <2>2, <3>1, <3>3
  <2>5. ASSUME NEW k \in 1 .. Len(s), s[k] /= c
        PROVE  \E j \in 1 .. Len(r) : r[j] = s[k]
    <3>1. k /= i
      BY <1>2, <2>5
    <3>2. CASE k < i
      <4>1. k \in 1 .. Len(r) /\ r[k] = s[k]
        BY <2>1, <2>2, <3>2
      <4> QED
        BY <4>1
    <3>3. CASE k > i
      <4>1. k - 1 \in 1 .. Len(r) /\ ~(k - 1 < i) /\ (k - 1) + 1 = k
        BY <2>1, <2>2, <3>3
      <4>2. r[k - 1] = s[k]
        BY <2>1, <4>1
      <4> QED
        BY <4>1, <4>2
    <3> QED
      BY <2>2, <3>1, <3>2, <3>3
  <2> QED
    BY <2>1, <2>3, <2>4, <2>5 DEF r
<1> QED
  BY <1>1, <1>2

-----------------------------------------------------------------------------
(* The steps.                                                              *)

LEMMA InitInvariant == Init => IInv
<1> SUFFICES ASSUME Init PROVE IInv
  OBVIOUS
<1>1. Typed
  <2>1. {} \in Subscriptions /\ <<>> \in Seq(Clients)
    BY DEF Subscriptions
  <2>2. jobs \in 0 .. Concurrency /\ taken \in 0 .. MaxJobs /\ emitted \in 0 .. MaxEvents
    BY WorkerAssumption, BoundAssumption DEF Init
  <2> QED
    BY <2>1, <2>2 DEF Init, Typed
<1>2. MapOfClients
  <2>1. Len(clients) = 0 /\ \A c \in Clients : conn[c] = "none"
    BY DEF Init
  <2> QED
    BY <2>1 DEF MapOfClients, Open
<1>3. Forgotten
  <2>1. {} /= Unusable
    BY DEF Unusable
  <2> QED
    BY <2>1 DEF Init, Forgotten
<1>4. WorkerInStep
  BY DEF Init, WorkerInStep, GracefulExit
<1> QED
  BY <1>1, <1>2, <1>3, <1>4 DEF IInv

(* What the clients' part of the invariant is about does not change.       *)
LEMMA ClientsKept ==
    ASSUME MapOfClients, Forgotten, UNCHANGED <<conn, clients, subscription>>
    PROVE  MapOfClients' /\ Forgotten'
  BY DEF MapOfClients, Forgotten

(* What the worker's part of the invariant is about does not change.       *)
LEMMA WorkerKept ==
    ASSUME WorkerInStep, UNCHANGED <<boot, worker, jobs, shutdown, skipped, exitVars>>
    PROVE  WorkerInStep'
  BY DEF WorkerInStep, GracefulExit, exitVars

LEMMA BootKeeps ==
    ASSUME IInv, Boot
    PROVE  IInv'
<1>1. MapOfClients' /\ Forgotten'
  BY ClientsKept DEF IInv, Boot, RedisSettles, StreamListens, StreamPortTaken, SchedulerSettles,
                     WorkerStarts, streamVars
<1>2. CASE RedisSettles
  BY <1>1, <1>2 DEF IInv, Typed, WorkerInStep, GracefulExit, RedisSettles, streamVars,
                    exitVars, eventVars
<1>3. CASE StreamListens
  BY <1>1, <1>3 DEF IInv, Typed, WorkerInStep, GracefulExit, StreamListens, eventVars, exitVars
<1>4. CASE StreamPortTaken
  BY <1>1, <1>4 DEF IInv, Typed, WorkerInStep, GracefulExit, StreamPortTaken, procVars,
                    streamVars, eventVars, exitVars
<1>5. CASE SchedulerSettles
  BY <1>1, <1>5 DEF IInv, Typed, WorkerInStep, GracefulExit, SchedulerSettles, streamVars,
                    exitVars, eventVars
<1>6. CASE WorkerStarts
  <2>1. /\ boot = "worker" /\ worker = "none" /\ jobs = 0
        /\ boot' = "up" /\ worker' \in {"none", "running"} /\ jobs' = 0
        /\ UNCHANGED <<shutdown, skipped, exitVars>>
    BY <1>6 DEF IInv, WorkerInStep, WorkerStarts
  <2>2. Typed'
    BY <1>6, <2>1 DEF IInv, Typed, WorkerStarts, streamVars, eventVars, exitVars
  <2>3. WorkerInStep'
    BY <2>1 DEF IInv, WorkerInStep, GracefulExit
  <2> QED
    BY <1>1, <2>2, <2>3 DEF IInv
<1> QED
  BY <1>2, <1>3, <1>4, <1>5, <1>6 DEF Boot

LEMMA JobsKeep ==
    ASSUME IInv, TakeJob \/ JobEnds \/ \E t \in Types : Emit(t)
    PROVE  IInv'
<1>1. MapOfClients' /\ Forgotten'
  BY ClientsKept DEF IInv, TakeJob, JobEnds, Emit, streamVars
<1>2. CASE TakeJob
  <2>1. jobs' \in 0 .. Concurrency /\ taken' \in 0 .. MaxJobs
    BY <1>2, WorkerAssumption, BoundAssumption DEF IInv, Typed, TakeJob
  <2>2. Typed'
    BY <1>2, <2>1 DEF IInv, Typed, TakeJob, streamVars, eventVars, exitVars
  <2>3. WorkerInStep'
    BY <1>2 DEF IInv, WorkerInStep, GracefulExit, TakeJob, exitVars
  <2> QED
    BY <1>1, <2>2, <2>3 DEF IInv
<1>3. CASE JobEnds
  <2>1. jobs' \in 0 .. Concurrency /\ jobs /= 0
    BY <1>3, WorkerAssumption DEF IInv, Typed, JobEnds
  <2>2. Typed'
    BY <1>3, <2>1 DEF IInv, Typed, JobEnds, streamVars, eventVars, exitVars
  <2>3. WorkerInStep'
    BY <1>3, <2>1 DEF IInv, WorkerInStep, GracefulExit, JobEnds, exitVars
  <2> QED
    BY <1>1, <2>2, <2>3 DEF IInv
<1>4. ASSUME NEW t \in Types, Emit(t) PROVE IInv'
  <2>1. emitted' \in 0 .. MaxEvents /\ threw' \in BOOLEAN /\ missed' \subseteq Clients
    BY <1>4, BoundAssumption DEF IInv, Typed, Emit
  <2>2. Typed'
    BY <1>4, <2>1 DEF IInv, Typed, Emit, procVars, streamVars, exitVars
  <2>3. WorkerInStep'
    BY <1>4, WorkerKept DEF IInv, Emit, procVars, exitVars
  <2> QED
    BY <1>1, <2>2, <2>3 DEF IInv
<1> QED
  BY <1>2, <1>3, <1>4

LEMMA ClientKeeps ==
    ASSUME IInv, NEW c \in Clients, ClientStep(c)
    PROVE  IInv'
<1>1. WorkerInStep'
  <2>1. CASE SocketError(c)
    BY <2>1 DEF SocketError, IInv, WorkerInStep, GracefulExit, procVars, exitVars
  <2>2. CASE Connect(c) \/ Upgrade(c) \/ Subscribe(c) \/ Close(c)
    BY <2>2, WorkerKept DEF IInv, Connect, Upgrade, Subscribe, Close, procVars, exitVars
  <2> QED
    BY <2>1, <2>2 DEF ClientStep
<1> DEFINE States == {"none", "tcp", "open", "late", "closing", "gone"}
<1>2. /\ conn \in [Clients -> States] /\ clients \in Seq(Clients)
      /\ subscription \in [Clients -> Subscriptions]
      /\ \A i \in 1 .. Len(clients) : clients[i] \in Clients
      /\ Types \in Subscriptions /\ {} \in Subscriptions /\ {} /= Unusable
  BY DEF IInv, Typed, Subscriptions, Unusable
<1>3. ASSUME conn' \in [Clients -> States], clients' \in Seq(Clients),
             subscription' \in [Clients -> Subscriptions],
             UNCHANGED <<procVars, stream, shutdown, skipped, exitVars, eventVars>>
      PROVE  Typed'
  BY <1>3 DEF IInv, Typed, procVars, eventVars, exitVars
<1>4. CASE Connect(c)
  <2>1. /\ conn' \in [Clients -> States]
        /\ \A d \in Clients : conn'[d] = IF d = c THEN "tcp" ELSE conn[d]
        /\ conn[c] = "none" /\ clients' = clients /\ subscription' = subscription
    BY <1>2, <1>4 DEF Connect
  <2>2. Typed'
    BY <1>2, <1>3, <1>4, <2>1 DEF Connect
  <2>3. MapOfClients'
    BY <1>2, <2>1 DEF IInv, MapOfClients, Open
  <2>4. Forgotten'
    BY <2>1 DEF IInv, Forgotten, Open
  <2> QED
    BY <1>1, <2>2, <2>3, <2>4 DEF IInv
<1>5. CASE Upgrade(c)
  <2>1. CASE /\ conn' = [conn EXCEPT ![c] = IF stream = "closing" THEN "late" ELSE "open"]
             /\ clients' = Append(clients, c)
             /\ subscription' = [subscription EXCEPT ![c] = Types]
    <3>1. /\ conn' \in [Clients -> States]
          /\ \A d \in Clients : d /= c => conn'[d] = conn[d]
          /\ conn'[c] \in Open /\ conn[c] = "tcp"
          /\ subscription' \in [Clients -> Subscriptions]
          /\ \A d \in Clients : d /= c => subscription'[d] = subscription[d]
      BY <1>2, <1>5, <2>1 DEF Upgrade, Open
    <3>2. /\ clients' \in Seq(Clients) /\ Len(clients') = Len(clients) + 1
          /\ clients'[Len(clients) + 1] = c /\ Len(clients) \in Nat
          /\ \A i \in 1 .. Len(clients) : clients'[i] = clients[i]
      BY <1>2, <2>1
    <3>3. \A i \in 1 .. Len(clients') : i \in 1 .. Len(clients) \/ i = Len(clients) + 1
      BY <3>2
    <3>4. Typed'
      BY <1>3, <1>5, <3>1, <3>2 DEF Upgrade
    <3>5. \A i \in 1 .. Len(clients) : clients[i] /= c
      BY <3>1 DEF IInv, MapOfClients, Open
    <3>6. MapOfClients'
      <4>1. \A i, j \in 1 .. Len(clients') : clients'[i] = clients'[j] => i = j
        BY <3>2, <3>3, <3>5 DEF IInv, MapOfClients
      <4>2. \A i \in 1 .. Len(clients') : conn'[clients'[i]] \in Open \cup {"closing"}
        BY <1>2, <3>1, <3>2, <3>3, <3>5 DEF IInv, MapOfClients
      <4>3. ASSUME NEW d \in Clients, conn'[d] \in Open
            PROVE  \E i \in 1 .. Len(clients') : clients'[i] = d
        <5>1. CASE d = c
          <6>1. Len(clients) + 1 \in 1 .. Len(clients')
            BY <3>2
          <6> QED
            BY <3>2, <5>1, <6>1
        <5>2. CASE d /= c
          <6>1. PICK i \in 1 .. Len(clients) : clients[i] = d
            BY <3>1, <4>3, <5>2 DEF IInv, MapOfClients
          <6>2. i \in 1 .. Len(clients')
            BY <3>2
          <6> QED
            BY <3>2, <6>1, <6>2
        <5> QED
          BY <5>1, <5>2
      <4> QED
        BY <4>1, <4>2, <4>3 DEF MapOfClients
    <3>7. Forgotten'
      BY <3>1 DEF IInv, Forgotten
    <3> QED
      BY <1>1, <3>4, <3>6, <3>7 DEF IInv
  <2>2. CASE /\ conn' = [conn EXCEPT ![c] = "gone"]
             /\ UNCHANGED <<clients, subscription>>
    <3>1. /\ conn' \in [Clients -> States]
          /\ \A d \in Clients : conn'[d] = IF d = c THEN "gone" ELSE conn[d]
          /\ conn[c] = "tcp" /\ clients' = clients /\ subscription' = subscription
      BY <1>2, <1>5, <2>2 DEF Upgrade
    <3>2. Typed'
      BY <1>2, <1>3, <1>5, <3>1 DEF Upgrade
    <3>3. MapOfClients'
      BY <1>2, <3>1 DEF IInv, MapOfClients, Open
    <3>4. Forgotten'
      BY <3>1 DEF IInv, Forgotten, Open
    <3> QED
      BY <1>1, <3>2, <3>3, <3>4 DEF IInv
  <2> QED
    BY <1>5, <2>1, <2>2 DEF Upgrade
<1>6. CASE Subscribe(c)
  <2>1. /\ subscription' \in [Clients -> Subscriptions]
        /\ \A d \in Clients : d /= c => subscription'[d] = subscription[d]
        /\ conn[c] \in Open \cup {"closing"} /\ conn' = conn /\ clients' = clients
    BY <1>2, <1>6 DEF Subscribe, Subscriptions
  <2>2. Typed'
    BY <1>2, <1>3, <1>6, <2>1 DEF Subscribe
  <2>3. MapOfClients'
    BY <2>1 DEF IInv, MapOfClients
  <2>4. Forgotten'
    BY <2>1 DEF IInv, Forgotten
  <2> QED
    BY <1>1, <2>2, <2>3, <2>4 DEF IInv
<1>7. CASE Close(c)
  <2>1. /\ conn' \in [Clients -> States]
        /\ \A d \in Clients : conn'[d] = IF d = c THEN "gone" ELSE conn[d]
        /\ subscription' \in [Clients -> Subscriptions]
        /\ \A d \in Clients : subscription'[d] = IF d = c THEN {} ELSE subscription[d]
        /\ clients' = RemoveFirst(clients, c)
    BY <1>2, <1>7 DEF Close
  <2>2. /\ clients' \in Seq(Clients)
        /\ \A j, k \in 1 .. Len(clients') : clients'[j] = clients'[k] => j = k
        /\ \A j \in 1 .. Len(clients') :
             clients'[j] /= c /\ \E k \in 1 .. Len(clients) : clients'[j] = clients[k]
        /\ \A k \in 1 .. Len(clients) :
             clients[k] /= c => \E j \in 1 .. Len(clients') : clients'[j] = clients[k]
    BY <1>2, <2>1, RemoveKeepsOthers DEF IInv, MapOfClients
  <2>3. Typed'
    BY <1>3, <1>7, <2>1, <2>2 DEF Close
  <2>4. MapOfClients'
    <3>1. ASSUME NEW j \in 1 .. Len(clients')
          PROVE  conn'[clients'[j]] \in Open \cup {"closing"}
      <4>1. PICK k \in 1 .. Len(clients) : clients'[j] = clients[k] /\ clients[k] /= c
        BY <2>2
      <4> QED
        BY <1>2, <2>1, <4>1 DEF IInv, MapOfClients
    <3>2. ASSUME NEW d \in Clients, conn'[d] \in Open
          PROVE  \E j \in 1 .. Len(clients') : clients'[j] = d
      <4>1. d /= c /\ conn[d] \in Open
        BY <2>1, <3>2 DEF Open
      <4>2. PICK k \in 1 .. Len(clients) : clients[k] = d
        BY <4>1 DEF IInv, MapOfClients
      <4> QED
        BY <2>2, <4>1, <4>2
    <3> QED
      BY <2>2, <3>1, <3>2 DEF MapOfClients
  <2>5. Forgotten'
    BY <1>2, <2>1 DEF IInv, Forgotten
  <2> QED
    BY <1>1, <2>3, <2>4, <2>5 DEF IInv
<1>8. CASE SocketError(c)
  <2>1. Typed'
    BY <1>8 DEF SocketError, IInv, Typed, procVars, streamVars, eventVars
  <2> QED
    BY <1>1, <1>8, <2>1, ClientsKept DEF SocketError, IInv, streamVars
<1> QED
  BY <1>4, <1>5, <1>6, <1>7, <1>8 DEF ClientStep

LEMMA SignalKeeps ==
    ASSUME IInv, NEW h \in Signals, Signal(h) \/ ShutdownStep(h)
    PROVE  IInv'
<1> DEFINE Stages == {"none", "scheduler", "worker", "jobs", "stream", "clients", "exit"}
           Moves(stage) == /\ shutdown' \in [Signals -> Stages]
                           /\ \A g \in Signals : shutdown'[g] = IF g = h THEN stage ELSE shutdown[g]
<1>1. /\ shutdown \in [Signals -> Stages]
      /\ \A stage \in Stages : Go(h, stage) => Moves(stage)
  BY DEF IInv, Typed, Go
<1> HIDE DEF Moves
<1>2. CASE Signal(h) \/ SchedulerCloses(h)
  <2>1. PICK stage \in {"scheduler", "worker"} : Moves(stage)
    BY <1>1, <1>2 DEF Signal, SchedulerCloses
  <2>2. UNCHANGED <<procVars, streamVars, skipped, exitVars, eventVars>>
    BY <1>2 DEF Signal, SchedulerCloses
  <2>3. Typed'
    BY <2>1, <2>2 DEF Moves, IInv, Typed, procVars, streamVars, eventVars, exitVars
  <2>4. WorkerInStep'
    BY <2>1, <2>2 DEF Moves, IInv, WorkerInStep, GracefulExit, procVars, exitVars
  <2> QED
    BY <2>2, <2>3, <2>4, ClientsKept DEF IInv, streamVars
<1>3. CASE StopWorker(h)
  <2>1. CASE worker = "none"
    <3>1. Moves("stream") /\ worker' = worker /\ skipped' = TRUE
      BY <1>1, <1>3, <2>1 DEF StopWorker
    <3>2. Typed'
      BY <1>3, <3>1 DEF StopWorker, Moves, IInv, Typed, streamVars, eventVars, exitVars
    <3>3. WorkerInStep'
      BY <1>3, <3>1 DEF StopWorker, Moves, IInv, WorkerInStep, GracefulExit, exitVars
    <3> QED
      BY <1>3, <3>2, <3>3, ClientsKept DEF StopWorker, IInv, streamVars
  <2>2. CASE worker /= "none"
    <3>1. /\ Moves("jobs") /\ worker' = IF worker = "running" THEN "closing" ELSE worker
          /\ skipped' = skipped /\ worker' \in {"closing", "closed"}
      BY <1>1, <1>3, <2>2 DEF StopWorker, IInv, Typed
    <3>2. Typed'
      BY <1>3, <3>1 DEF StopWorker, Moves, IInv, Typed, streamVars, eventVars, exitVars
    <3>3. WorkerInStep'
      BY <1>3, <2>2, <3>1 DEF StopWorker, Moves, IInv, WorkerInStep, GracefulExit, exitVars
    <3> QED
      BY <1>3, <3>2, <3>3, ClientsKept DEF StopWorker, IInv, streamVars
  <2> QED
    BY <2>1, <2>2
<1>4. CASE WorkerCloses(h)
  <2>1. Moves("stream") /\ worker' = "closed" /\ jobs = 0 /\ shutdown[h] = "jobs"
    BY <1>1, <1>4 DEF WorkerCloses, At
  <2>2. Typed'
    BY <1>4, <2>1 DEF WorkerCloses, Moves, IInv, Typed, streamVars, eventVars, exitVars
  <2>3. boot = "up"
    BY <2>1 DEF IInv, WorkerInStep
  <2>4. WorkerInStep'
    BY <1>4, <2>1, <2>3 DEF WorkerCloses, Moves, IInv, WorkerInStep, GracefulExit, exitVars
  <2> QED
    BY <1>4, <2>2, <2>4, ClientsKept DEF WorkerCloses, IInv, streamVars
<1>5. CASE StopStream(h)
  <2> DEFINE States == {"none", "tcp", "open", "late", "closing", "gone"}
  <2>1. PICK stage \in {"exit", "clients"} : Moves(stage)
    BY <1>1, <1>5 DEF StopStream
  <2>2. /\ conn \in [Clients -> States] /\ clients \in Seq(Clients)
        /\ ToSet(clients) = {clients[i] : i \in 1 .. Len(clients)}
        /\ \A i \in 1 .. Len(clients) : clients[i] \in Clients
    BY DEF IInv, Typed, ToSet
  <2>3. /\ conn' \in [Clients -> States]
        /\ \A c \in Clients : conn'[c] = IF c \in ToSet(clients) THEN "closing" ELSE conn[c]
    BY <1>5, <2>2 DEF StopStream
  <2>4. Typed'
    BY <1>5, <2>1, <2>3 DEF StopStream, Moves, IInv, Typed, procVars, eventVars, exitVars
  <2>5. clients' = clients /\ subscription' = subscription
    BY <1>5 DEF StopStream
  <2>6. MapOfClients'
    BY <2>2, <2>3, <2>5 DEF IInv, MapOfClients, Open
  <2>7. Forgotten'
    BY <2>3, <2>5 DEF IInv, Forgotten
  <2>8. WorkerInStep'
    <3>1. shutdown[h] = "stream"
      BY <1>5 DEF StopStream, At
    <3> QED
      BY <1>5, <2>1, <3>1 DEF StopStream, Moves, IInv, WorkerInStep, GracefulExit, procVars, exitVars
  <2> QED
    BY <2>4, <2>6, <2>7, <2>8 DEF IInv
<1>6. CASE StreamCloses(h)
  <2>1. Moves("exit") /\ shutdown[h] = "clients"
    BY <1>1, <1>6 DEF StreamCloses, At
  <2>2. Typed'
    BY <1>6, <2>1 DEF StreamCloses, Moves, IInv, Typed, procVars, streamVars, eventVars, exitVars
  <2>3. WorkerInStep'
    BY <1>6, <2>1 DEF StreamCloses, Moves, IInv, WorkerInStep, GracefulExit, procVars, exitVars
  <2> QED
    BY <1>6, <2>2, <2>3, ClientsKept DEF StreamCloses, IInv, streamVars
<1>7. CASE Exit(h)
  <2>1. Typed'
    BY <1>7 DEF Exit, IInv, Typed, procVars, streamVars, eventVars, exitVars
  <2>2. jobs = 0 \/ skipped
    BY <1>7 DEF Exit, At, IInv, WorkerInStep
  <2>3. WorkerInStep'
    BY <1>7, <2>2 DEF Exit, IInv, WorkerInStep, GracefulExit, procVars, exitVars
  <2> QED
    BY <1>7, <2>1, <2>3, ClientsKept DEF Exit, IInv, streamVars
<1> QED
  BY <1>2, <1>3, <1>4, <1>5, <1>6, <1>7 DEF ShutdownStep

LEMMA StepInvariant == IInv /\ [Next]_vars => IInv'
<1> SUFFICES ASSUME IInv, [Next]_vars PROVE IInv'
  OBVIOUS
<1>1. CASE Boot
  BY <1>1, BootKeeps
<1>2. CASE TakeJob \/ JobEnds \/ \E t \in Types : Emit(t)
  BY <1>2, JobsKeep
<1>3. CASE \E c \in Clients : ClientStep(c)
  BY <1>3, ClientKeeps
<1>4. CASE \E h \in Signals : Signal(h) \/ ShutdownStep(h)
  BY <1>4, SignalKeeps
<1>5. CASE UNCHANGED vars
  <2>1. Typed'
    BY <1>5 DEF IInv, Typed, vars, procVars, streamVars, eventVars, exitVars
  <2> QED
    BY <1>5, <2>1, ClientsKept, WorkerKept DEF IInv, vars, procVars, streamVars
<1> QED
  BY <1>1, <1>2, <1>3, <1>4, <1>5 DEF Next

LEMMA InvariantHolds == Spec => []IInv
  BY InitInvariant, StepInvariant, PTL DEF Spec

-----------------------------------------------------------------------------
(* Every variable keeps its type; the map of clients, in particular, has   *)
(* at most one entry for each client.                                      *)
THEOREM TypeCorrect == Spec => []TypeOK
<1>1. IInv => TypeOK
  <2> SUFFICES ASSUME IInv PROVE TypeOK
    OBVIOUS
  <2>1. clients \in BoundedSeq(Clients, Cardinality(Clients))
    <3>1. clients \in [1 .. Len(clients) -> Clients] /\ Len(clients) \in Nat
      BY DEF IInv, Typed
    <3>2. clients \in Injection(1 .. Len(clients), Clients)
      BY <3>1 DEF IInv, MapOfClients, Injection, IsInjective
    <3>3. Cardinality(1 .. Len(clients)) <= Cardinality(Clients)
      BY <3>2, ClientAssumption, FS_Injection
    <3>4. Cardinality(1 .. Len(clients)) = Len(clients)
      <4>1. Cardinality(1 .. Len(clients)) = IF 1 > Len(clients) THEN 0 ELSE Len(clients) - 1 + 1
        BY <3>1, FS_Interval
      <4> QED
        BY <3>1, <4>1
    <3>5. Cardinality(Clients) \in Nat
      BY ClientAssumption, FS_CardinalityType
    <3>6. Len(clients) \in 0 .. Cardinality(Clients)
      BY <3>1, <3>3, <3>4, <3>5
    <3> QED
      BY <3>1, <3>6 DEF BoundedSeq, SeqOf
  <2>2. \A c \in Clients : subscription[c] \subseteq Types \/ subscription[c] = Unusable
    BY DEF IInv, Typed, Subscriptions
  <2> QED
    BY <2>1, <2>2 DEF IInv, Typed, TypeOK
<1> QED
  BY <1>1, InvariantHolds, PTL

(* A process that ends, on one signal or several, leaves no job in hand,   *)
(* unless the signal came before the worker was there to be closed         *)
(* (server.ts:79-104, DiscoveryWorker.ts:71-76).                           *)
THEOREM ExitCorrect == Spec => []GracefulExit
<1>1. IInv => GracefulExit
  BY DEF IInv, WorkerInStep
<1> QED
  BY <1>1, InvariantHolds, PTL

(* An open client misses an event it wants only if a client before it in   *)
(* the map of clients made its subscription unusable                       *)
(* (EventStreamServer.ts:87-98).                                           *)
THEOREM ServedCorrect == Spec => SubscribersServed
<1>1. IInv /\ [Next]_vars
        => [\A c \in missed' \ missed :
              \E i, j \in DOMAIN clients : /\ i < j
                                          /\ subscription[clients[i]] = Unusable
                                          /\ clients[j] = c]_vars
  <2> SUFFICES ASSUME IInv, Next, NEW c \in missed' \ missed
               PROVE  \E i, j \in DOMAIN clients : /\ i < j
                                                  /\ subscription[clients[i]] = Unusable
                                                  /\ clients[j] = c
    BY DEF vars
  <2>1. PICK t \in Types : Emit(t)
    BY DEF Next, Boot, RedisSettles, StreamListens, StreamPortTaken, SchedulerSettles, WorkerStarts,
           TakeJob, JobEnds, ClientStep, Connect, Upgrade, Subscribe, SocketError, Close, Signal,
           ShutdownStep, SchedulerCloses, StopWorker, WorkerCloses, StopStream, StreamCloses, Exit,
           eventVars
  <2>2. c \in Clients /\ conn[c] \in Open /\ t \in subscription[c] /\ c \notin Reached(t)
    BY <2>1 DEF Emit
  <2>3. PICK j \in 1 .. Len(clients) : clients[j] = c
    BY <2>2 DEF IInv, MapOfClients
  <2>4. clients \in Seq(Clients) /\ DOMAIN clients = 1 .. Len(clients)
    BY DEF IInv, Typed
  <2>5. PICK i \in 1 .. j : subscription[clients[i]] = Unusable
    BY <2>2, <2>3, <2>4 DEF Reached
  <2>6. subscription[c] /= Unusable
    BY <2>2, TypeAssumption DEF Unusable
  <2>7. i \in 1 .. Len(clients) /\ i < j
    BY <2>3, <2>4, <2>5, <2>6
  <2> QED
    BY <2>3, <2>4, <2>5, <2>7
<1> QED
  BY <1>1, InvariantHolds, PTL DEF Spec, SubscribersServed

(* An emission throws only over a client that is connected: what a client  *)
(* has sent is forgotten with its connection                               *)
(* (EventStreamServer.ts:41-58).                                           *)
THEOREM ThrowsCorrect == Spec => ThrowsOnlyWhileConnected
<1>1. IInv /\ [Next]_vars
        => [(emitted' /= emitted /\ threw')
              => \E c \in Clients : conn[c] \in Open \cup {"closing"} /\ subscription[c] = Unusable]_vars
  <2> SUFFICES ASSUME IInv, Next, emitted' /= emitted, threw'
               PROVE  \E c \in Clients : conn[c] \in Open \cup {"closing"} /\ subscription[c] = Unusable
    BY DEF vars
  <2>1. PICK t \in Types : Emit(t)
    BY DEF Next, Boot, RedisSettles, StreamListens, StreamPortTaken, SchedulerSettles, WorkerStarts,
           TakeJob, JobEnds, ClientStep, Connect, Upgrade, Subscribe, SocketError, Close, Signal,
           ShutdownStep, SchedulerCloses, StopWorker, WorkerCloses, StopStream, StreamCloses, Exit,
           eventVars
  <2>2. PICK i \in DOMAIN clients : subscription[clients[i]] = Unusable
    BY <2>1 DEF Emit
  <2>3. clients[i] \in Clients
    BY DEF IInv, Typed
  <2> QED
    BY <2>2, <2>3 DEF IInv, Forgotten
<1> QED
  BY <1>1, InvariantHolds, PTL DEF Spec, ThrowsOnlyWhileConnected
=============================================================================
