---------------------------- MODULE RefreshCycle ----------------------------
(***************************************************************************)
(* The refresh cycle: queued refresh jobs are taken by the slots of the    *)
(* discovery worker (DiscoveryWorker.ts), each runs                        *)
(* DiscoveryService.refresh(), which discovers and then saves four cache   *)
(* keys one after the other (DiscoveryEngine.ts:173-176), or falls back to *)
(* the cached payload.  API handlers read three of the keys concurrently,  *)
(* in any order (fetchCached, DiscoveryEngine.ts:185-197).                 *)
(*                                                                         *)
(* Data is abstracted to its origin: a cache entry is the number of the    *)
(* run that wrote it and whether its text can be parsed.                   *)
(***************************************************************************)
EXTENDS Naturals, FiniteSets

CONSTANTS
    Slots,        \* concurrent job processors (config.workerConcurrency, 2)
    Clients,      \* API requests that may be in flight at once
    Jobs,         \* jobs that are ever added to the discovery-refresh queue
    Backend,      \* "redis" (RedisCache) or "file" (FileCache)
    Attempts,     \* the job option attempts (3)
    MaxStalls,    \* stalls after which the queue fails a job (1)
    MaxFaults     \* bound: crashes, expired keys and failed reads together

ASSUME BackendAssumption == Backend \in {"redis", "file"}
ASSUME ReaderAssumption  == Slots \cap Clients = {}
ASSUME QueueAssumption   == "none" \notin Jobs /\ Attempts \in Nat \ {0} /\ MaxStalls \in Nat

VARIABLES
    jobs,         \* job -> its state in the queue
    failures,     \* job -> attempts that failed
    stalls,       \* job -> times the queue found it stalled
    pc,           \* slot -> "idle", "discover", the key it saves, "saved" when
                  \*         the last is saved, "fallback"
    job,          \* slot -> the job it processes (when not idle)
    run,          \* slot -> number of the run it performs (when not idle)
    opened,       \* slot -> FileCache.write truncated the file, not yet filled
    warm,         \* slot -> all served keys were readable when its fallback
                  \*         began, and no key expired and no read failed since
    cache,        \* key -> entry
    client,       \* client -> "idle" or "reading"
    got,          \* reader -> what it read of each served key so far
    floor,        \* reader -> runs that had completed when it began to read
    nextRun,      \* number of the next run
    ended,        \* runs that are over, however they ended
    completed,    \* runs whose four saves all succeeded
    older,        \* <<r, q>>: run r was over before run q began
    faults        \* crashes, expired keys and failed reads so far

jobVars    == <<jobs, failures, stalls, job>>
historyVars == <<nextRun, ended, completed, older>>
readVars   == <<got, floor, warm>>
countVars  == <<failures, stalls>>
vars == <<jobs, failures, stalls, pc, job, run, opened, warm, cache, client,
          got, floor, nextRun, ended, completed, older, faults>>

-----------------------------------------------------------------------------
Readers    == Slots \cup Clients
ServedKeys == {"pairs", "tokens", "stats"}
Keys       == ServedKeys \cup {"lastUpdate"}

(* Mutant of After: the stamp is saved early.                              *)
AfterStampingEarly == [pairs |-> "lastUpdate", lastUpdate |-> "tokens",
                       tokens |-> "stats", stats |-> "saved"]

(* The saves of one run, in the order refresh() awaits them.               *)
After == [pairs |-> "tokens", tokens |-> "stats", stats |-> "lastUpdate",
          lastUpdate |-> "saved"]

(* The keys a run has saved when its slot is at a given point.             *)
SavedAt == [discover   |-> {},
            pairs      |-> {},
            tokens     |-> {"pairs"},
            stats      |-> {"pairs", "tokens"},
            lastUpdate |-> {"pairs", "tokens", "stats"}]

Running == {"discover"} \cup Keys         \* the points of a run in progress

Entry(r, t) == [run |-> r, text |-> t]
None   == Entry(0, "none")                \* no such file or Redis key
Unread == Entry(0, "unread")              \* the reader has not read it yet
Null   == Entry(0, "null")                \* read() returned null

Entries == [run : Nat, text : {"none", "empty", "whole", "torn"}]
Values  == [run : Nat, text : {"unread", "null", "whole"}]

(* Mutant of Read: the payload is handed out unparsed.                     *)
ReadUnparsed(k) == cache[k]

(* read(): the data, or null for a missing key and a text JSON.parse       *)
(* rejects.                                                                *)
Read(k) == IF cache[k].text = "whole" THEN cache[k] ELSE Null

Blank == [k \in ServedKeys |-> Unread]

Readable == \A k \in ServedKeys : cache[k].text = "whole"

-----------------------------------------------------------------------------
TypeOK ==
    /\ jobs \in [Jobs -> {"new", "waiting", "active", "done", "failed"}]
    /\ failures \in [Jobs -> Nat]
    /\ stalls \in [Jobs -> Nat]
    /\ pc \in [Slots -> {"idle", "saved", "fallback"} \cup Running]
    /\ job \in [Slots -> Jobs \cup {"none"}]
    /\ run \in [Slots -> Nat]
    /\ opened \in [Slots -> BOOLEAN]
    /\ warm \in [Slots -> BOOLEAN]
    /\ cache \in [Keys -> Entries]
    /\ client \in [Clients -> {"idle", "reading"}]
    /\ got \in [Readers -> [ServedKeys -> Values]]
    /\ floor \in [Readers -> SUBSET Nat]
    /\ nextRun \in Nat
    /\ ended \subseteq Nat
    /\ completed \subseteq Nat
    /\ older \subseteq Nat \X Nat
    /\ faults \in Nat

Init ==
    /\ jobs = [j \in Jobs |-> "new"]
    /\ failures = [j \in Jobs |-> 0]
    /\ stalls = [j \in Jobs |-> 0]
    /\ pc = [s \in Slots |-> "idle"]
    /\ job = [s \in Slots |-> "none"]
    /\ run = [s \in Slots |-> 0]
    /\ opened = [s \in Slots |-> FALSE]
    /\ warm = [s \in Slots |-> FALSE]
    /\ cache = [k \in Keys |-> None]
    /\ client = [c \in Clients |-> "idle"]
    /\ got = [r \in Readers |-> Blank]
    /\ floor = [r \in Readers |-> {}]
    /\ nextRun = 1
    /\ ended = {}
    /\ completed = {}
    /\ older = {}
    /\ faults = 0

-----------------------------------------------------------------------------
(* The queue and the worker.                                               *)

(* POST /refresh, or the repeatable job of the scheduler.                  *)
Enqueue(j) ==
    /\ jobs[j] = "new"
    /\ jobs' = [jobs EXCEPT ![j] = "waiting"]
    /\ UNCHANGED <<countVars, pc, job, run, opened, readVars, cache, client,
                   historyVars, faults>>

(* An idle slot takes a waiting job: its processor calls refresh().        *)
Take(s, j) ==
    /\ pc[s] = "idle"
    /\ jobs[j] = "waiting"
    /\ jobs' = [jobs EXCEPT ![j] = "active"]
    /\ pc' = [pc EXCEPT ![s] = "discover"]
    /\ job' = [job EXCEPT ![s] = j]
    /\ run' = [run EXCEPT ![s] = nextRun]
    /\ nextRun' = nextRun + 1
    /\ older' = older \cup (ended \X {nextRun})
    /\ UNCHANGED <<countVars, opened, readVars, cache, client, ended, completed,
                   faults>>

(* A reader calls fetchCached, and is through with it.                     *)
BeginRead(r) ==
    /\ got' = [got EXCEPT ![r] = Blank]
    /\ floor' = [floor EXCEPT ![r] = completed]

EndRead(r) ==
    /\ got' = [got EXCEPT ![r] = Blank]
    /\ floor' = [floor EXCEPT ![r] = {}]

(* The run is over and its slot starts reading the cached payload.         *)
EnterFallback(s) ==
    /\ pc' = [pc EXCEPT ![s] = "fallback"]
    /\ run' = [run EXCEPT ![s] = 0]
    /\ ended' = ended \cup {run[s]}
    /\ BeginRead(s)
    /\ UNCHANGED <<jobVars, client, nextRun, completed, older, faults>>

(* Providers answered; filters, ranking, delta and events are done.        *)
Discover(s) ==
    /\ pc[s] = "discover"
    /\ pc' = [pc EXCEPT ![s] = "pairs"]
    /\ UNCHANGED <<jobVars, run, opened, readVars, cache, client, historyVars,
                   faults>>

(* No provider answered, or a listener of the event bus threw.             *)
DiscoverFails(s) ==
    /\ pc[s] = "discover"
    /\ EnterFallback(s)
    /\ warm' = [warm EXCEPT ![s] = Readable]
    /\ UNCHANGED <<opened, cache>>

-----------------------------------------------------------------------------
(* The saves.                                                              *)

(* The slot saved key pc[s]; after the last key the results of the run are *)
(* complete.  The messages of the other keys are published within the save *)
(* of the key that follows, as no reader and no job waits for them.        *)
NextSave(s) ==
    /\ pc' = [pc EXCEPT ![s] = After[pc[s]]]
    /\ IF After[pc[s]] = "saved"
         THEN /\ ended' = ended \cup {run[s]}
              /\ completed' = completed \cup {run[s]}
              /\ run' = [run EXCEPT ![s] = 0]
         ELSE UNCHANGED <<ended, completed, run>>
    /\ UNCHANGED <<jobVars, readVars, client, nextRun, older, faults>>

(* The message of the last key is out (its errors are caught), refresh()   *)
(* returns and the queue takes the job as done.  A crash before this puts  *)
(* the job back although its results are saved.                            *)
Return(s) ==
    /\ pc[s] = "saved"
    /\ pc' = [pc EXCEPT ![s] = "idle"]
    /\ jobs' = [jobs EXCEPT ![job[s]] = "done"]
    /\ job' = [job EXCEPT ![s] = "none"]
    /\ UNCHANGED <<countVars, run, opened, readVars, cache, client, historyVars,
                   faults>>

(* RedisCache.write: one SET replaces the value.                           *)
SetRedis(s) ==
    /\ Backend = "redis"
    /\ pc[s] \in Keys
    /\ cache' = [cache EXCEPT ![pc[s]] = Entry(run[s], "whole")]
    /\ NextSave(s)
    /\ UNCHANGED opened

(* FileCache.write, first half: fs.writeFile opens with 'w' and truncates. *)
OpenFile(s) ==
    /\ Backend = "file"
    /\ pc[s] \in Keys
    /\ ~opened[s]
    /\ opened' = [opened EXCEPT ![s] = TRUE]
    /\ cache' = [cache EXCEPT ![pc[s]] = Entry(0, "empty")]
    /\ UNCHANGED <<jobVars, pc, run, readVars, client, historyVars, faults>>

(* FileCache.write, second half: the text goes in from offset 0.  If       *)
(* another slot filled the file since, a longer old text keeps its tail.   *)
FillFile(s) ==
    /\ pc[s] \in Keys
    /\ opened[s]
    /\ \/ cache' = [cache EXCEPT ![pc[s]] = Entry(run[s], "whole")]
       \/ /\ cache[pc[s]].text /= "empty"
          /\ cache' = [cache EXCEPT ![pc[s]] = Entry(0, "torn")]
    /\ opened' = [opened EXCEPT ![s] = FALSE]
    /\ NextSave(s)

(* Mutant of FailedWrite: a rejected write deletes the key.                *)
FailedWriteDeletes(s) == cache' = [cache EXCEPT ![pc[s]] = None]

(* What a rejected write leaves: what was there (on files, after the open, *)
(* an empty text), the new value when only the answer was lost (Redis) or  *)
(* only the close failed (file), or the part of it that went in.           *)
FailedWrite(s) ==
    \/ UNCHANGED cache
    \/ /\ Backend = "redis" \/ opened[s]
       /\ cache' = [cache EXCEPT ![pc[s]] = Entry(run[s], "whole")]
    \/ opened[s] /\ cache' = [cache EXCEPT ![pc[s]] = Entry(0, "torn")]

(* Mutant of SaveFails: the error is logged and the run goes on.           *)
SaveErrorSwallowed(s) ==
    /\ pc[s] \in Keys
    /\ FailedWrite(s)
    /\ opened' = [opened EXCEPT ![s] = FALSE]
    /\ NextSave(s)

(* A save rejects; the remaining keys are not written.                     *)
SaveFails(s) ==
    /\ pc[s] \in Keys
    /\ FailedWrite(s)
    /\ opened' = [opened EXCEPT ![s] = FALSE]
    /\ EnterFallback(s)
    /\ warm' = [warm EXCEPT ![s] = \A k \in ServedKeys : cache'[k].text = "whole"]

-----------------------------------------------------------------------------
(* fetchCached: three reads issued at once.  Files are read in any order;  *)
(* the GETs go down one Redis connection, in the order they were issued.   *)

Reading(r) == IF r \in Slots THEN pc[r] = "fallback" ELSE client[r] = "reading"

Pending(r, k) ==
    /\ Reading(r)
    /\ got[r][k] = Unread
    /\ Backend = "redis" => \A m \in SavedAt[k] : got[r][m] /= Unread

ReadKey(r, k) ==
    /\ Pending(r, k)
    /\ got' = [got EXCEPT ![r][k] = Read(k)]
    /\ UNCHANGED <<jobVars, pc, run, opened, warm, cache, client, floor,
                   historyVars, faults>>

(* The read itself rejects: both backends log it and return null.          *)
ReadFails(r, k) ==
    /\ Pending(r, k)
    /\ got' = [got EXCEPT ![r][k] = Null]
    /\ faults < MaxFaults
    /\ faults' = faults + 1
    /\ warm' = [s \in Slots |-> s /= r /\ warm[s]]
    /\ UNCHANGED <<jobVars, pc, run, opened, cache, client, floor, historyVars>>

Answered(r) == \A k \in ServedKeys : got[r][k] /= Unread
Payload(r)  == \A k \in ServedKeys : got[r][k].text = "whole"

(* refresh() returns the cached payload: the job is done.                  *)
FallbackServes(s) ==
    /\ pc[s] = "fallback"
    /\ Payload(s)
    /\ pc' = [pc EXCEPT ![s] = "idle"]
    /\ jobs' = [jobs EXCEPT ![job[s]] = "done"]
    /\ job' = [job EXCEPT ![s] = "none"]
    /\ warm' = [warm EXCEPT ![s] = FALSE]
    /\ EndRead(s)
    /\ UNCHANGED <<countVars, run, opened, cache, client, historyVars, faults>>

(* Mutant of FallbackFails: one attempt too many.                          *)
FallbackFailsOnceMore(s) ==
    /\ pc[s] = "fallback"
    /\ Answered(s)
    /\ ~Payload(s)
    /\ pc' = [pc EXCEPT ![s] = "idle"]
    /\ jobs' = [jobs EXCEPT
         ![job[s]] = IF failures[job[s]] < Attempts THEN "waiting" ELSE "failed"]
    /\ failures' = [failures EXCEPT ![job[s]] = @ + 1]
    /\ job' = [job EXCEPT ![s] = "none"]
    /\ warm' = [warm EXCEPT ![s] = FALSE]
    /\ EndRead(s)
    /\ UNCHANGED <<stalls, run, opened, cache, client, historyVars, faults>>

(* refresh() throws: the attempt failed; the queue retries after a delay.  *)
FallbackFails(s) ==
    /\ pc[s] = "fallback"
    /\ Answered(s)
    /\ ~Payload(s)
    /\ pc' = [pc EXCEPT ![s] = "idle"]
    /\ jobs' = [jobs EXCEPT
         ![job[s]] = IF failures[job[s]] + 1 < Attempts THEN "waiting" ELSE "failed"]
    /\ failures' = [failures EXCEPT ![job[s]] = @ + 1]
    /\ job' = [job EXCEPT ![s] = "none"]
    /\ warm' = [warm EXCEPT ![s] = FALSE]
    /\ EndRead(s)
    /\ UNCHANGED <<stalls, run, opened, cache, client, historyVars, faults>>

(* A GET handler begins to read ...                                        *)
Request(c) ==
    /\ client[c] = "idle"
    /\ client' = [client EXCEPT ![c] = "reading"]
    /\ BeginRead(c)
    /\ UNCHANGED <<jobVars, pc, run, opened, warm, cache, historyVars, faults>>

(* ... and answers with the payload, or with an error if a key was null.   *)
Respond(c) ==
    /\ client[c] = "reading"
    /\ Answered(c)
    /\ client' = [client EXCEPT ![c] = "idle"]
    /\ EndRead(c)
    /\ UNCHANGED <<jobVars, pc, run, opened, warm, cache, historyVars, faults>>

-----------------------------------------------------------------------------
(* The environment.                                                        *)

(* The TTL of a Redis key runs out.                                        *)
Expire(k) ==
    /\ Backend = "redis"
    /\ cache[k] /= None
    /\ cache' = [cache EXCEPT ![k] = None]
    /\ warm' = [s \in Slots |-> FALSE]
    /\ faults < MaxFaults
    /\ faults' = faults + 1
    /\ UNCHANGED <<jobVars, pc, run, opened, client, got, floor, historyVars>>

(* Mutant of Crash: nobody looks for the stalled jobs.                     *)
CrashLosesJobs ==
    /\ faults < MaxFaults
    /\ \E s \in Slots : pc[s] /= "idle"
    /\ faults' = faults + 1
    /\ pc' = [s \in Slots |-> "idle"]
    /\ job' = [s \in Slots |-> "none"]
    /\ run' = [s \in Slots |-> 0]
    /\ opened' = [s \in Slots |-> FALSE]
    /\ warm' = [s \in Slots |-> FALSE]
    /\ got' = [r \in Readers |-> IF r \in Slots THEN Blank ELSE got[r]]
    /\ floor' = [r \in Readers |-> IF r \in Slots THEN {} ELSE floor[r]]
    /\ ended' = ended \cup {run[s] : s \in {t \in Slots : pc[t] \in Running}}
    /\ UNCHANGED <<jobs, countVars, cache, client, nextRun, completed, older>>

(* The worker process dies.  A file it had truncated stays unreadable; the *)
(* queue finds its active jobs stalled and puts them back, or fails those  *)
(* that stalled before.  The API is another process and goes on.           *)
Crash ==
    /\ faults < MaxFaults
    /\ \E s \in Slots : pc[s] /= "idle"
    /\ faults' = faults + 1
    /\ pc' = [s \in Slots |-> "idle"]
    /\ job' = [s \in Slots |-> "none"]
    /\ run' = [s \in Slots |-> 0]
    /\ opened' = [s \in Slots |-> FALSE]
    /\ warm' = [s \in Slots |-> FALSE]
    /\ got' = [r \in Readers |-> IF r \in Slots THEN Blank ELSE got[r]]
    /\ floor' = [r \in Readers |-> IF r \in Slots THEN {} ELSE floor[r]]
    /\ ended' = ended \cup {run[s] : s \in {t \in Slots : pc[t] \in Running}}
    /\ jobs' = [j \in Jobs |->
         IF jobs[j] /= "active" THEN jobs[j]
         ELSE IF stalls[j] < MaxStalls THEN "waiting" ELSE "failed"]
    /\ stalls' = [j \in Jobs |-> IF jobs[j] = "active" THEN stalls[j] + 1 ELSE stalls[j]]
    /\ UNCHANGED <<failures, cache, client, nextRun, completed, older>>

-----------------------------------------------------------------------------
SlotStep(s) ==
    \/ \E j \in Jobs : Take(s, j)
    \/ Discover(s)
    \/ DiscoverFails(s)
    \/ SetRedis(s)
    \/ OpenFile(s)
    \/ FillFile(s)
    \/ SaveFails(s)
    \/ Return(s)
    \/ \E k \in ServedKeys : ReadKey(s, k) \/ ReadFails(s, k)
    \/ FallbackServes(s)
    \/ FallbackFails(s)

ClientStep(c) ==
    \/ Request(c)
    \/ \E k \in ServedKeys : ReadKey(c, k) \/ ReadFails(c, k)
    \/ Respond(c)

Next ==
    \/ \E j \in Jobs : Enqueue(j)
    \/ \E s \in Slots : SlotStep(s)
    \/ \E c \in Clients : ClientStep(c)
    \/ \E k \in Keys : Expire(k)
    \/ Crash

Spec == Init /\ [][Next]_vars

(* Every slot keeps going: a pending await settles, since provider calls   *)
(* time out and Redis or file calls resolve or reject, and an idle worker  *)
(* polls the queue.  Nothing is assumed of jobs being enqueued, of faults  *)
(* or of clients.                                                          *)
FairSpec == Spec /\ \A s \in Slots : WF_vars(SlotStep(s))

-----------------------------------------------------------------------------
(* Properties.                                                             *)

(* What a reader is given never predates a refresh that had completed when *)
(* the reader began: the run that wrote the value was not over before that *)
(* refresh started.  This must survive refreshes that overlap in two       *)
(* slots, that fail half way through their saves, or that die with the     *)
(* process (DiscoveryEngine.ts:173-176 read by :185-197).                  *)
ReadsRespectCompletion ==
    \A r \in Readers : Reading(r) =>
        \A k \in ServedKeys, q \in floor[r] :
            got[r][k].text = "whole" => <<got[r][k].run, q>> \notin older

(* The refresh cycle implements the store of results it is meant to be:    *)
(* seen from its readers, a run that fails, overlaps, dies or falls back   *)
(* is a refresh that is over, and every read is given a result of a run    *)
(* that began and that no completed refresh had superseded, or nothing     *)
(* (DiscoveryEngine.ts:173-197, DiscoveryService.ts:17-29).                *)
Store == INSTANCE ResultStore WITH
    Kinds <- ServedKeys, next <- nextRun, over <- ended, done <- completed,
    since <- floor, held <- got

ImplementsResultStore == Store!Spec

(* A refresh that fails while the cache is readable serves cached data:    *)
(* its fallback never meets an unreadable key unless a key expires or a    *)
(* read fails meanwhile (DiscoveryService.ts:20-27), whatever the other    *)
(* slot is writing at that time.                                           *)
FallbackServesCached ==
    \A s \in Slots : (pc[s] = "fallback" /\ warm[s]) =>
        \A k \in ServedKeys : got[s][k] /= Null

(* No job is in the hands of two slots, an active job is in the hands of   *)
(* one, and no job outlives its attempts: a crash that gives jobs back and *)
(* a slot that still holds one would let a job be refreshed and settled    *)
(* twice (DiscoveryWorker.ts:24-38, DiscoveryQueue.ts:16-28).              *)
JobsHeldOnce ==
    /\ \A s \in Slots : pc[s] /= "idle" <=> job[s] /= "none"
    /\ \A s, t \in Slots : (job[s] = job[t] /\ job[s] /= "none") => s = t
    /\ \A j \in Jobs : jobs[j] = "active" <=> \E s \in Slots : job[s] = j
    /\ \A j \in Jobs : jobs[j] \in {"waiting", "active"} =>
                         /\ failures[j] < Attempts
                         /\ stalls[j] <= MaxStalls

(* With one slot the stamp is a commit record: the keys are never younger  *)
(* than the keys saved before them, so a cache that carries the stamp of   *)
(* run r holds the pairs, tokens and stats of r or of a later run, however *)
(* often saves fail or the process dies in between.                        *)
StampCommits ==
    \A k \in Keys : \A m \in SavedAt[k] :
        (cache[k].text = "whole" /\ cache[m].text = "whole")
          => cache[k].run <= cache[m].run

(* A job that is queued is eventually done or failed: it is not lost in a  *)
(* crash, nor retried for ever (attempts, stalled jobs).                   *)
JobsSettle ==
    \A j \in Jobs : jobs[j] = "waiting" ~> jobs[j] \in {"done", "failed"}

(* Every refresh having completed and the system being at rest, the saved  *)
(* results can be read back.                                               *)
CompletedRefreshIsServed ==
    (/\ \A s \in Slots : pc[s] = "idle"
     /\ completed /= {}
     /\ ended = completed) => Readable
=============================================================================
