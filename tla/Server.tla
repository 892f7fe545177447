-------------------------------- MODULE Server --------------------------------
(***************************************************************************)
(* The process: its start-up and its shutdown, each a row of awaited steps *)
(* that can overlap (server.ts:50-107), the worker's jobs between them     *)
(* (DiscoveryWorker.ts), and the event stream, to whose clients the events *)
(* of a running job are broadcast (EventStreamServer.ts).                  *)
(*                                                                         *)
(* A message may carry anything for eventTypes.  A list or a string stands *)
(* for the event types that its includes() finds in it; what is neither is *)
(* stored as it is, and the next broadcast that comes to it throws.        *)
(***************************************************************************)
EXTENDS Naturals, Sequences, FiniteSets, SequencesExt

CONSTANTS
    Clients,       \* clients that ever connect to the event stream
    Types,         \* event types
    Signals,       \* SIGINT and SIGTERM: each starts a shutdown of its own
    HasWorker,     \* serviceRole is not "api"
    Concurrency,   \* config.workerConcurrency (2)
    MaxJobs,       \* bound: jobs ever taken
    MaxEvents      \* bound: events ever emitted

ASSUME WorkerAssumption == HasWorker \in BOOLEAN /\ Concurrency \in Nat
ASSUME BoundAssumption  == MaxJobs \in Nat /\ MaxEvents \in Nat
ASSUME ClientAssumption == IsFiniteSet(Clients)
ASSUME TypeAssumption   == "unusable" \notin Types

VARIABLES
    boot,          \* the start-up step that is awaited, or "up"
    worker,        \* "none", "running", "closing" or "closed"
    jobs,          \* jobs being processed
    taken,         \* jobs taken so far
    stream,        \* the stream's HTTP server: "down", "listening", "closing"
    conn,          \* client -> "none", "tcp", "open", "late" (opened after the
                   \* stream stopped), "closing" or "gone"
    clients,       \* the map of clients, in the order of its entries
    subscription,  \* client -> the event types it wants, or Unusable
    shutdown,      \* signal -> the shutdown step that is awaited, or "none"
    skipped,       \* a shutdown found no worker to close
    exited,        \* the process has ended
    crashed,       \* it ended by an 'error' event nobody listens for
    emitted,       \* events emitted so far
    threw,         \* the last emission threw
    missed         \* open clients that an event they wanted did not reach

procVars   == <<boot, worker, jobs, taken>>
streamVars == <<stream, conn, clients, subscription>>
exitVars   == <<exited, crashed>>
eventVars  == <<emitted, threw, missed>>
vars == <<procVars, streamVars, shutdown, skipped, exitVars, eventVars>>

Unusable == {"unusable"}
Open     == {"open", "late"}

TypeOK ==
    /\ boot \in {"redis", "stream", "scheduler", "worker", "up"}
    /\ worker \in {"none", "running", "closing", "closed"}
    /\ jobs \in 0 .. Concurrency
    /\ taken \in 0 .. MaxJobs
    /\ stream \in {"down", "listening", "closing"}
    /\ conn \in [Clients -> {"none", "tcp", "open", "late", "closing", "gone"}]
    /\ clients \in BoundedSeq(Clients, Cardinality(Clients))
    /\ \A c \in Clients : \/ subscription[c] \subseteq Types
                          \/ subscription[c] = Unusable
    /\ shutdown \in [Signals -> {"none", "scheduler", "worker", "jobs", "stream", "clients", "exit"}]
    /\ skipped \in BOOLEAN
    /\ exited \in BOOLEAN
    /\ crashed \in BOOLEAN
    /\ emitted \in 0 .. MaxEvents
    /\ threw \in BOOLEAN
    /\ missed \subseteq Clients

(* app.listen has called back.                                             *)
Init ==
    /\ boot = "redis"
    /\ worker = "none"
    /\ jobs = 0
    /\ taken = 0
    /\ stream = "down"
    /\ conn = [c \in Clients |-> "none"]
    /\ clients = <<>>
    /\ subscription = [c \in Clients |-> {}]
    /\ shutdown = [h \in Signals |-> "none"]
    /\ skipped = FALSE
    /\ exited = FALSE
    /\ crashed = FALSE
    /\ emitted = 0
    /\ threw = FALSE
    /\ missed = {}

-----------------------------------------------------------------------------
(* Start-up.  A step that fails is logged, and the next one follows.       *)

RedisSettles ==
    /\ ~exited
    /\ boot = "redis"
    /\ boot' = "stream"
    /\ UNCHANGED <<worker, jobs, taken, streamVars, shutdown, skipped, exitVars, eventVars>>

StreamListens ==
    /\ ~exited
    /\ boot = "stream"
    /\ boot' = "scheduler"
    /\ stream' = IF stream = "down" THEN "listening" ELSE stream
    /\ UNCHANGED <<worker, jobs, taken, conn, clients, subscription, shutdown, skipped,
                   exitVars, eventVars>>

(* The port is taken: the server emits an error nobody listens for.        *)
StreamPortTaken ==
    /\ ~exited
    /\ boot = "stream"
    /\ stream = "down"
    /\ exited' = TRUE
    /\ crashed' = TRUE
    /\ UNCHANGED <<procVars, streamVars, shutdown, skipped, eventVars>>

SchedulerSettles ==
    /\ ~exited
    /\ boot = "scheduler"
    /\ boot' = IF HasWorker THEN "worker" ELSE "up"
    /\ UNCHANGED <<worker, jobs, taken, streamVars, shutdown, skipped, exitVars, eventVars>>

(* DiscoveryWorker.start creates the Worker once its scheduler is ready,   *)
(* or fails before.                                                        *)
WorkerStarts ==
    /\ ~exited
    /\ boot = "worker"
    /\ boot' = "up"
    /\ worker' \in {"none", "running"}
    /\ UNCHANGED <<jobs, taken, streamVars, shutdown, skipped, exitVars, eventVars>>

-----------------------------------------------------------------------------
(* Jobs.                                                                   *)

(* Mutant of TakeJob: one slot too many.                                   *)
TakeJobBeyond ==
    /\ ~exited
    /\ worker = "running"
    /\ jobs <= Concurrency
    /\ taken < MaxJobs
    /\ jobs' = jobs + 1
    /\ taken' = taken + 1
    /\ UNCHANGED <<boot, worker, streamVars, shutdown, skipped, exitVars, eventVars>>

TakeJob ==
    /\ ~exited
    /\ worker = "running"
    /\ jobs < Concurrency
    /\ taken < MaxJobs
    /\ jobs' = jobs + 1
    /\ taken' = taken + 1
    /\ UNCHANGED <<boot, worker, streamVars, shutdown, skipped, exitVars, eventVars>>

JobEnds ==
    /\ ~exited
    /\ jobs > 0
    /\ jobs' = jobs - 1
    /\ UNCHANGED <<boot, worker, taken, streamVars, shutdown, skipped, exitVars, eventVars>>

(* Mutant of Reached: the loop ends at a client that does not want it.     *)
ReachedUntilUnwanted(t) ==
    {clients[i] : i \in {j \in DOMAIN clients :
        \A h \in 1 .. j : t \in subscription[clients[h]]}}

(* The clients the loop of broadcast comes to before it throws, if it does.*)
Reached(t) ==
    {clients[i] : i \in {j \in DOMAIN clients :
        \A h \in 1 .. j : subscription[clients[h]] /= Unusable}}

(* A refresh emits an event, which the stream server broadcasts.           *)
Emit(t) ==
    /\ ~exited
    /\ jobs > 0
    /\ emitted < MaxEvents
    /\ emitted' = emitted + 1
    /\ threw' = \E i \in DOMAIN clients : subscription[clients[i]] = Unusable
    /\ missed' = missed \cup {c \in Clients : /\ conn[c] \in Open
                                             /\ t \in subscription[c]
                                             /\ c \notin Reached(t)}
    /\ UNCHANGED <<procVars, streamVars, shutdown, skipped, exitVars>>

-----------------------------------------------------------------------------
(* The clients of the event stream.                                        *)

(* A TCP connection; the server accepts none once it is closing.           *)
Connect(c) ==
    /\ ~exited
    /\ stream = "listening"
    /\ conn[c] = "none"
    /\ conn' = [conn EXCEPT ![c] = "tcp"]
    /\ UNCHANGED <<procVars, stream, clients, subscription, shutdown, skipped, exitVars, eventVars>>

(* Its upgrade request, for /events or else refused.  The server answers   *)
(* the connections it has, be it closing or not.                           *)
Upgrade(c) ==
    /\ ~exited
    /\ conn[c] = "tcp"
    /\ \/ /\ conn' = [conn EXCEPT ![c] = IF stream = "closing" THEN "late" ELSE "open"]
          /\ clients' = Append(clients, c)
          /\ subscription' = [subscription EXCEPT ![c] = Types]
       \/ /\ conn' = [conn EXCEPT ![c] = "gone"]
          /\ UNCHANGED <<clients, subscription>>
    /\ UNCHANGED <<procVars, stream, shutdown, skipped, exitVars, eventVars>>

(* A message: subscribe, with what stands for some of the types or with    *)
(* what is unusable.  Others are ignored.                                  *)
Subscribe(c) ==
    /\ ~exited
    /\ conn[c] \in Open \cup {"closing"}
    /\ \E s \in (SUBSET Types) \cup {Unusable} :
         subscription' = [subscription EXCEPT ![c] = s]
    /\ UNCHANGED <<procVars, stream, conn, clients, shutdown, skipped, exitVars, eventVars>>

(* A malformed frame: ws emits an 'error' on the socket, on which nobody    *)
(* listens, and the process ends with the jobs it has in hand.             *)
SocketError(c) ==
    /\ ~exited
    /\ conn[c] \in Open \cup {"closing"}
    /\ exited' = TRUE
    /\ crashed' = TRUE
    /\ UNCHANGED <<procVars, streamVars, shutdown, skipped, eventVars>>

(* Mutant of Close: the handler forgets the map of clients.                *)
CloseLeavesClient(c) ==
    /\ ~exited
    /\ conn[c] \in Open \cup {"tcp", "closing"}
    /\ conn' = [conn EXCEPT ![c] = "gone"]
    /\ UNCHANGED <<clients, subscription>>
    /\ UNCHANGED <<procVars, stream, shutdown, skipped, exitVars, eventVars>>

(* The connection ends, by either side: the entries of the client go.      *)
Close(c) ==
    /\ ~exited
    /\ conn[c] \in Open \cup {"tcp", "closing"}
    /\ conn' = [conn EXCEPT ![c] = "gone"]
    /\ clients' = RemoveFirst(clients, c)
    /\ subscription' = [subscription EXCEPT ![c] = {}]
    /\ UNCHANGED <<procVars, stream, shutdown, skipped, exitVars, eventVars>>

-----------------------------------------------------------------------------
(* Shutdown, once for each signal.                                         *)

At(h, step) == shutdown[h] = step /\ ~exited
Go(h, step) == shutdown' = [shutdown EXCEPT ![h] = step]

Signal(h) ==
    /\ At(h, "none")
    /\ Go(h, "scheduler")
    /\ UNCHANGED <<procVars, streamVars, skipped, exitVars, eventVars>>

SchedulerCloses(h) ==
    /\ At(h, "scheduler")
    /\ Go(h, "worker")
    /\ UNCHANGED <<procVars, streamVars, skipped, exitVars, eventVars>>

(* Mutant of StopWorker: closing the worker is not awaited.                *)
StopWorkerUnawaited(h) ==
    /\ At(h, "worker")
    /\ worker' = IF worker = "running" THEN "closing" ELSE worker
    /\ skipped' = (skipped \/ worker = "none")
    /\ Go(h, "stream")
    /\ UNCHANGED <<boot, jobs, taken, streamVars, exitVars, eventVars>>

(* worker?.close(): no further job is taken; the jobs in hand are awaited. *)
(* A worker that has not been created is passed over.                      *)
StopWorker(h) ==
    /\ At(h, "worker")
    /\ worker' = IF worker = "running" THEN "closing" ELSE worker
    /\ skipped' = (skipped \/ worker = "none")
    /\ Go(h, IF worker = "none" THEN "stream" ELSE "jobs")
    /\ UNCHANGED <<boot, jobs, taken, streamVars, exitVars, eventVars>>

WorkerCloses(h) ==
    /\ At(h, "jobs")
    /\ jobs = 0
    /\ worker' = "closed"
    /\ Go(h, "stream")
    /\ UNCHANGED <<boot, jobs, taken, streamVars, skipped, exitVars, eventVars>>

(* Mutant of StopStream: the clients are left to themselves.               *)
StopStreamOnly(h) ==
    /\ At(h, "stream")
    /\ stream' = IF stream = "listening" THEN "closing" ELSE stream
    /\ Go(h, IF stream = "down" THEN "exit" ELSE "clients")
    /\ UNCHANGED <<procVars, conn, clients, subscription, skipped, exitVars, eventVars>>

(* streamServer.stop(): every client is sent a close, the server accepts   *)
(* no more and is awaited, by a second stop() as well.  A server that has  *)
(* not listened is drained at once.                                        *)
StopStream(h) ==
    /\ At(h, "stream")
    /\ conn' = [c \in Clients |-> IF c \in ToSet(clients) THEN "closing" ELSE conn[c]]
    /\ stream' = IF stream = "listening" THEN "closing" ELSE stream
    /\ Go(h, IF stream = "down" THEN "exit" ELSE "clients")
    /\ UNCHANGED <<procVars, clients, subscription, skipped, exitVars, eventVars>>

(* The server calls back when its last connection has gone.                *)
StreamCloses(h) ==
    /\ At(h, "clients")
    /\ \A c \in Clients : conn[c] \in {"none", "gone"}
    /\ Go(h, "exit")
    /\ UNCHANGED <<procVars, streamVars, skipped, exitVars, eventVars>>

Exit(h) ==
    /\ At(h, "exit")
    /\ exited' = TRUE
    /\ UNCHANGED <<procVars, streamVars, shutdown, skipped, crashed, eventVars>>

ShutdownStep(h) ==
    \/ SchedulerCloses(h)
    \/ StopWorker(h)
    \/ WorkerCloses(h)
    \/ StopStream(h)
    \/ StreamCloses(h)
    \/ Exit(h)

-----------------------------------------------------------------------------
Boot == RedisSettles \/ StreamListens \/ StreamPortTaken \/ SchedulerSettles \/ WorkerStarts

ClientStep(c) == Connect(c) \/ Upgrade(c) \/ Subscribe(c) \/ SocketError(c) \/ Close(c)

Next ==
    \/ Boot
    \/ TakeJob
    \/ JobEnds
    \/ \E t \in Types : Emit(t)
    \/ \E c \in Clients : ClientStep(c)
    \/ \E h \in Signals : Signal(h) \/ ShutdownStep(h)

Spec == Init /\ [][Next]_vars

Closing(c) == conn[c] = "closing" /\ Close(c)

(* Awaited closes settle, a job ends (RefreshCycle), and a socket the      *)
(* server has closed goes at the latest when ws gives up waiting for the   *)
(* other side.  Nothing is assumed of clients, of signals or of start-up.  *)
FairSpec ==
    /\ Spec
    /\ WF_vars(JobEnds)
    /\ \A c \in Clients : WF_vars(Closing(c))
    /\ \A h \in Signals : WF_vars(ShutdownStep(h))

-----------------------------------------------------------------------------
(* The shutdown leaves no job behind that the queue would have to find     *)
(* stalled, one signal or two, unless the signal came before the worker    *)
(* was there to be closed, or an 'error' that nobody listens for ended the *)
(* process (server.ts:79-104, DiscoveryWorker.ts:71-76).                   *)
GracefulExit == exited => jobs = 0 \/ skipped \/ crashed

(* An open client gets every event it wants, whatever the others want, and *)
(* misses one only if a client whose entry in the map is before its own    *)
(* made its subscription unusable: one that connected later cannot hurt it *)
(* (EventStreamServer.ts:87-98).                                           *)
SubscribersServed ==
    [][\A c \in missed' \ missed :
         \E i, j \in DOMAIN clients : /\ i < j
                                     /\ subscription[clients[i]] = Unusable
                                     /\ clients[j] = c]_vars

(* An emission, and with it the refresh that emits, only ever throws over  *)
(* a client that is connected at that time: whatever a client has sent, it *)
(* is forgotten with the connection (EventStreamServer.ts:41-58).          *)
ThrowsOnlyWhileConnected ==
    [][(emitted' /= emitted /\ threw') =>
         \E c \in Clients : conn[c] \in Open \cup {"closing"} /\ subscription[c] = Unusable]_vars

(* A signalled process exits, unless a connection made before the stream   *)
(* stopped is upgraded after it, or never, and stays: stop() does not      *)
(* close that one (EventStreamServer.ts:80-85).                            *)
ShutdownExits ==
    <>[](/\ \E h \in Signals : shutdown[h] /= "none"
         /\ \A c \in Clients : conn[c] \notin {"tcp", "late"}) => <>exited
=============================================================================
