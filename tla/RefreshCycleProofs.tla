------------------------- MODULE RefreshCycleProofs -------------------------
(***************************************************************************)
(* Proofs about RefreshCycle for any number of slots, clients and jobs and *)
(* for both backends: type correctness, ReadsRespectCompletion and         *)
(* JobsHeldOnce; FallbackServesCached and StampCommits under the           *)
(* conditions their theorems name; and that it implements ResultStore.     *)
(*                                                                         *)
(* ReadsRespectCompletion speaks of values already read.  What makes it    *)
(* inductive is what the cache and the runs in progress owe it:            *)
(*   RunsInProgress - slots perform different runs, none of which is over; *)
(*   OlderIsPast    - only runs that are over are older than another;      *)
(*   CacheCurrent   - no key holds the value of a run that was over before *)
(*                    a completed run began, nor before a run began that   *)
(*                    is in progress and has already saved that key.       *)
(***************************************************************************)
EXTENDS RefreshCycle, TLAPS

RunsInProgress ==
    /\ \A s \in Slots : pc[s] \in Running => run[s] < nextRun /\ run[s] \notin ended
    /\ \A s, t \in Slots :
         (pc[s] \in Running /\ pc[t] \in Running /\ run[s] = run[t]) => s = t

OlderIsPast ==
    /\ \A p \in older : p[1] \in ended
    /\ completed \subseteq ended
    /\ \A r \in ended : r < nextRun

Current(k, q) == cache[k].text = "whole" => <<cache[k].run, q>> \notin older

CacheCurrent ==
    /\ \A k \in Keys, q \in completed : Current(k, q)
    /\ \A s \in Slots : pc[s] \in Running =>
         \A k \in SavedAt[pc[s]] : Current(k, run[s])

ReadsCurrent ==
    \A r \in Readers :
        /\ floor[r] \subseteq completed
        /\ \A k \in ServedKeys, q \in floor[r] :
             got[r][k].text = "whole" => <<got[r][k].run, q>> \notin older

IInv == TypeOK /\ RunsInProgress /\ OlderIsPast /\ CacheCurrent /\ ReadsCurrent

-----------------------------------------------------------------------------
(* Where a slot goes after saving a key: to the next key, or all is saved. *)
LEMMA AfterKeys == \A k \in Keys : After[k] \in Keys \cup {"saved"}
  BY DEF After, Keys, ServedKeys

(* The keys saved before a point of a run are keys.                        *)
LEMMA SavedKeys == \A p \in Running : SavedAt[p] \subseteq Keys
  BY DEF SavedAt, Running, Keys, ServedKeys

(* A save adds the saved key to those of the run.                          *)
LEMMA SavedNext ==
    \A k \in Keys : After[k] /= "saved" => SavedAt[After[k]] \subseteq SavedAt[k] \cup {k}
  BY DEF SavedAt, After, Keys, ServedKeys

(* After the last save all keys are saved.                                 *)
LEMMA SavedLast ==
    \A k \in Keys : After[k] = "saved" => Keys \subseteq SavedAt[k] \cup {k}
  BY DEF SavedAt, After, Keys, ServedKeys

-----------------------------------------------------------------------------
(* Type correctness.                                                       *)

LEMMA InitType == Init => TypeOK
  BY DEF Init, TypeOK, Entries, Values, Entry, None, Blank, Unread, Running,
         Keys, ServedKeys

(* What read() returns is a value a reader can hold.                       *)
LEMMA ReadType == TypeOK => \A k \in Keys : Read(k) \in Values
  BY DEF TypeOK, Read, Null, Entry, Entries, Values

LEMMA BlankType == Blank \in [ServedKeys -> Values]
  BY DEF Blank, Unread, Entry, Values

LEMMA StepType == TypeOK /\ [Next]_vars => TypeOK'
<1> SUFFICES ASSUME TypeOK, [Next]_vars PROVE TypeOK'
  OBVIOUS
<1> USE DEF TypeOK
<1>e. \A n \in Nat, t \in {"none", "empty", "whole", "torn"} : Entry(n, t) \in Entries
  BY DEF Entry, Entries
<1>k. /\ "pairs" \in Keys
      /\ Keys \subseteq Running
      /\ ServedKeys \subseteq Keys
  BY DEF Keys, ServedKeys, Running
<1>b. ASSUME NEW r \in Readers, BeginRead(r), UNCHANGED completed
      PROVE  got' \in [Readers -> [ServedKeys -> Values]] /\ floor' \in [Readers -> SUBSET Nat]
  BY <1>b, BlankType DEF BeginRead
<1>d. ASSUME NEW r \in Readers, EndRead(r)
      PROVE  got' \in [Readers -> [ServedKeys -> Values]] /\ floor' \in [Readers -> SUBSET Nat]
  BY <1>d, BlankType DEF EndRead
<1>f. ASSUME NEW s \in Slots, EnterFallback(s),
             opened' \in [Slots -> BOOLEAN], warm' \in [Slots -> BOOLEAN],
             cache' \in [Keys -> Entries]
      PROVE  TypeOK'
  BY <1>f, <1>b DEF EnterFallback, Readers, jobVars
<1>n. ASSUME NEW s \in Slots, NextSave(s), pc[s] \in Keys,
             opened' \in [Slots -> BOOLEAN], cache' \in [Keys -> Entries]
      PROVE  TypeOK'
  <2>1. After[pc[s]] \in {"saved"} \cup Running
    BY <1>n, <1>k, AfterKeys
  <2>3. ended' \subseteq Nat /\ completed' \subseteq Nat
    <3>1. run[s] \in Nat
      OBVIOUS
    <3>2. /\ ended' = ended \/ ended' = ended \cup {run[s]}
          /\ completed' = completed \/ completed' = completed \cup {run[s]}
      BY <1>n DEF NextSave
    <3> QED
      BY <3>1, <3>2
  <2>4. run' \in [Slots -> Nat]
    BY <1>n DEF NextSave
  <2>5. pc' \in [Slots -> {"idle", "saved", "fallback"} \cup Running]
    BY <1>n, <2>1 DEF NextSave
  <2> QED
    BY <1>n, <2>3, <2>4, <2>5 DEF NextSave, readVars, jobVars
<1>1. ASSUME NEW j \in Jobs, Enqueue(j) PROVE TypeOK'
  BY <1>1 DEF Enqueue, readVars, historyVars, countVars
<1>2. ASSUME NEW s \in Slots, NEW j \in Jobs, Take(s, j) PROVE TypeOK'
  <2>1. jobs' \in [Jobs -> {"new", "waiting", "active", "done", "failed"}]
    BY <1>2 DEF Take
  <2>2. older' \subseteq Nat \X Nat
    BY <1>2 DEF Take
  <2>3. pc' \in [Slots -> {"idle", "saved", "fallback"} \cup Running]
    BY <1>2 DEF Take, Running
  <2> QED
    BY <1>2, <2>1, <2>2, <2>3 DEF Take, readVars, countVars
<1>3. ASSUME NEW s \in Slots, Discover(s) PROVE TypeOK'
  BY <1>3, <1>k DEF Discover, readVars, historyVars, countVars, jobVars
<1>4. ASSUME NEW s \in Slots, DiscoverFails(s) PROVE TypeOK'
  BY <1>4, <1>f DEF DiscoverFails, Readable
<1>5. ASSUME NEW s \in Slots, SetRedis(s) PROVE TypeOK'
  BY <1>5, <1>n, <1>e DEF SetRedis
<1>6. ASSUME NEW s \in Slots, OpenFile(s) PROVE TypeOK'
  BY <1>6, <1>e DEF OpenFile, readVars, historyVars, countVars, jobVars
<1>7. ASSUME NEW s \in Slots, FillFile(s) PROVE TypeOK'
  <2>1. cache' \in [Keys -> Entries]
    BY <1>7, <1>e DEF FillFile
  <2>2. opened' \in [Slots -> BOOLEAN]
    BY <1>7 DEF FillFile
  <2> QED
    BY <1>7, <1>n, <2>1, <2>2 DEF FillFile
<1>8. ASSUME NEW s \in Slots, SaveFails(s) PROVE TypeOK'
  <2>1. cache' \in [Keys -> Entries]
    BY <1>8, <1>e DEF SaveFails, FailedWrite
  <2>2. opened' \in [Slots -> BOOLEAN] /\ warm' \in [Slots -> BOOLEAN]
    BY <1>8 DEF SaveFails
  <2> QED
    BY <1>8, <1>f, <2>1, <2>2 DEF SaveFails
<1>9. ASSUME NEW r \in Readers, NEW k \in ServedKeys, ReadKey(r, k) PROVE TypeOK'
  BY <1>9, <1>k, ReadType DEF ReadKey, historyVars, countVars, jobVars
<1>10. ASSUME NEW r \in Readers, NEW k \in ServedKeys, ReadFails(r, k) PROVE TypeOK'
  BY <1>10 DEF ReadFails, historyVars, countVars, jobVars, Null, Entry, Values
<1>11. ASSUME NEW s \in Slots, FallbackServes(s) PROVE TypeOK'
  BY <1>11, <1>d DEF FallbackServes, historyVars, countVars, Readers
<1>12. ASSUME NEW s \in Slots, FallbackFails(s) PROVE TypeOK'
  <2>1. jobs' \in [Jobs -> {"new", "waiting", "active", "done", "failed"}]
    BY <1>12 DEF FallbackFails
  <2> QED
    BY <2>1, <1>12, <1>d DEF FallbackFails, historyVars, countVars, Readers
<1>13. ASSUME NEW c \in Clients, Request(c) PROVE TypeOK'
  BY <1>13, <1>b DEF Request, historyVars, countVars, jobVars, Readers
<1>14. ASSUME NEW c \in Clients, Respond(c) PROVE TypeOK'
  BY <1>14, <1>d DEF Respond, historyVars, countVars, jobVars, Readers
<1>15. ASSUME NEW k \in Keys, Expire(k) PROVE TypeOK'
  BY <1>15, <1>e DEF Expire, historyVars, countVars, jobVars, None
<1>16. ASSUME Crash PROVE TypeOK'
  <2>1. jobs' \in [Jobs -> {"new", "waiting", "active", "done", "failed"}]
    BY <1>16 DEF Crash
  <2>2. ended' \subseteq Nat
    BY <1>16 DEF Crash
  <2>3. /\ got' \in [Readers -> [ServedKeys -> Values]]
        /\ floor' \in [Readers -> SUBSET Nat]
    BY <1>16, BlankType DEF Crash
  <2> QED
    BY <1>16, <2>1, <2>2, <2>3, SMTT(30) DEF Crash
<1>17. CASE UNCHANGED vars
  BY <1>17 DEF vars
<1>18. ASSUME NEW s \in Slots, Return(s) PROVE TypeOK'
  <2>1. jobs' \in [Jobs -> {"new", "waiting", "active", "done", "failed"}]
    BY <1>18 DEF Return
  <2> QED
    BY <1>18, <2>1 DEF Return, readVars, historyVars, countVars
<1> QED
  BY <1>1, <1>2, <1>3, <1>4, <1>5, <1>6, <1>7, <1>8, <1>9, <1>10, <1>11,
     <1>12, <1>13, <1>14, <1>15, <1>16, <1>17, <1>18
     DEF Next, SlotStep, ClientStep, Readers

(* The variables of the model keep their types.                            *)
THEOREM TypeCorrect == Spec => []TypeOK
  BY InitType, StepType, PTL DEF Spec

-----------------------------------------------------------------------------
(* Reads respect completion.                                               *)

LEMMA InitIInv == Init => IInv
<1> SUFFICES ASSUME Init PROVE IInv
  OBVIOUS
<1>1. TypeOK
  BY InitType
<1>2. RunsInProgress /\ OlderIsPast /\ CacheCurrent
  BY DEF Init, RunsInProgress, OlderIsPast, CacheCurrent, Current, None, Entry,
         Running, Keys, ServedKeys
<1>3. ReadsCurrent
  BY DEF Init, ReadsCurrent, Blank, Unread, Entry
<1> QED
  BY <1>1, <1>2, <1>3 DEF IInv

(* A run in progress is older than no run: what its slot writes is current *)
(* whatever has completed.                                                 *)
LEMMA FreshRun ==
    ASSUME IInv, NEW s \in Slots, pc[s] \in Running, NEW q
    PROVE  <<run[s], q>> \notin older
  BY DEF IInv, RunsInProgress, OlderIsPast

(* ReadsCurrent depends on what was read, on older and on completed only,  *)
(* and survives the completion of further runs.                            *)
LEMMA ReadsKept ==
    ASSUME ReadsCurrent, UNCHANGED <<got, floor, older>>, completed \subseteq completed'
    PROVE  ReadsCurrent'
  BY DEF ReadsCurrent

(* It survives a reader beginning or ending to read.                       *)
LEMMA ReadsBlanked ==
    ASSUME TypeOK, ReadsCurrent, NEW r \in Readers, BeginRead(r) \/ EndRead(r),
           UNCHANGED <<older, completed>>
    PROVE  ReadsCurrent'
<1>1. \A k \in ServedKeys : got'[r][k].text /= "whole"
  BY DEF BeginRead, EndRead, TypeOK, Blank, Unread, Entry
<1>2. floor'[r] \subseteq completed'
  BY DEF BeginRead, EndRead, TypeOK
<1>3. \A t \in Readers \ {r} : got'[t] = got[t] /\ floor'[t] = floor[t]
  BY DEF BeginRead, EndRead, TypeOK
<1> QED
  BY <1>1, <1>2, <1>3 DEF ReadsCurrent

(* Nothing about runs or the cache changes when no run begins, moves or    *)
(* ends and no key is written.                                             *)
LEMMA RunsKept ==
    ASSUME IInv, TypeOK', UNCHANGED <<run, cache, nextRun, ended, completed, older>>,
           \A s \in Slots : pc'[s] = pc[s] \/ pc'[s] \notin Running
    PROVE  (RunsInProgress /\ OlderIsPast /\ CacheCurrent)'
<1>1. \A s \in Slots : pc'[s] \in Running => pc[s] = pc'[s]
  OBVIOUS
<1>2. RunsInProgress' /\ OlderIsPast'
  BY <1>1 DEF IInv, RunsInProgress, OlderIsPast
<1>3. CacheCurrent'
  BY <1>1 DEF IInv, CacheCurrent, Current
<1> QED
  BY <1>2, <1>3

(* The end of a run that failed: key k of its slot may have been written   *)
(* by it, or have become unreadable.                                       *)
LEMMA FallbackKeepsIInv ==
    ASSUME IInv, TypeOK', NEW s \in Slots, pc[s] \in Running, EnterFallback(s),
           \A k \in Keys : cache'[k] = cache[k] \/ cache'[k].run = run[s]
                            \/ cache'[k].text /= "whole"
    PROVE  IInv'
<1> USE DEF IInv
<1>1. /\ pc' = [pc EXCEPT ![s] = "fallback"]
      /\ run' = [run EXCEPT ![s] = 0]
      /\ ended' = ended \cup {run[s]}
      /\ UNCHANGED <<nextRun, completed, older>>
  BY DEF EnterFallback
<1>2. \A t \in Slots : pc'[t] \in Running =>
         t /= s /\ pc'[t] = pc[t] /\ run'[t] = run[t]
  BY <1>1 DEF TypeOK, Running, Keys, ServedKeys
<1>3. RunsInProgress'
  BY <1>1, <1>2 DEF RunsInProgress
<1>4. OlderIsPast'
  BY <1>1 DEF OlderIsPast, RunsInProgress
<1>5. CacheCurrent'
  <2>1. ASSUME NEW k \in Keys, NEW q, Current(k, q) PROVE Current(k, q)'
    BY <1>1, <2>1, FreshRun DEF Current
  <2> QED
    BY <1>1, <1>2, <2>1, SavedKeys DEF CacheCurrent
<1>6. ReadsCurrent'
  BY <1>1, ReadsBlanked DEF EnterFallback, Readers
<1> QED
  BY <1>3, <1>4, <1>5, <1>6

(* A save that succeeds: its key holds the value of this run, or is        *)
(* unreadable, and the run moves on or completes.                          *)
LEMMA SaveKeepsIInv ==
    ASSUME IInv, TypeOK', NEW s \in Slots, pc[s] \in Keys, NextSave(s), NEW e,
           cache' = [cache EXCEPT ![pc[s]] = e],
           e.run = run[s] \/ e.text /= "whole"
    PROVE  IInv'
<1> USE DEF IInv
<1> DEFINE CurrentNow(k, q) == cache'[k].text = "whole" => <<cache'[k].run, q>> \notin older'
<1>1. /\ pc[s] \in Running
      /\ "saved" \notin Running
  BY DEF Running, Keys, ServedKeys
<1>2. older' = older
  BY DEF NextSave
<1>3. ASSUME NEW q PROVE CurrentNow(pc[s], q)
  <2>1. cache'[pc[s]] = e
    BY DEF TypeOK
  <2>2. <<run[s], q>> \notin older
    BY <1>1, FreshRun
  <2> QED
    BY <1>2, <2>1, <2>2
<1>7. ASSUME NEW k \in Keys, NEW q, Current(k, q) PROVE CurrentNow(k, q)
  <2>1. CASE k = pc[s]
    BY <1>3, <2>1
  <2>2. CASE k /= pc[s]
    BY <1>2, <1>7, <2>2 DEF Current, TypeOK
  <2> QED
    BY <2>1, <2>2
<1>8. CacheCurrent' <=>
        /\ \A k \in Keys, q \in completed' : CurrentNow(k, q)
        /\ \A t \in Slots : pc'[t] \in Running =>
             \A k \in SavedAt[pc'[t]] : CurrentNow(k, run'[t])
  BY DEF CacheCurrent, Current
<1> HIDE DEF CurrentNow
<1>4. ReadsCurrent'
  BY ReadsKept DEF NextSave, readVars
<1>5. CASE After[pc[s]] /= "saved"
  <2>1. /\ pc' = [pc EXCEPT ![s] = After[pc[s]]]
        /\ UNCHANGED <<run, nextRun, ended, completed, older>>
    BY <1>5 DEF NextSave
  <2>2. RunsInProgress' /\ OlderIsPast'
    BY <1>1, <2>1 DEF RunsInProgress, OlderIsPast, TypeOK
  <2>3. ASSUME NEW t \in Slots, pc'[t] \in Running, NEW k \in SavedAt[pc'[t]]
        PROVE  CurrentNow(k, run'[t])
    <3>1. CASE t = s
      <4>1. k \in SavedAt[pc[s]] \/ k = pc[s]
        BY <1>5, <2>1, <2>3, <3>1, SavedNext DEF TypeOK
      <4> QED
        BY <1>1, <1>3, <1>7, <2>1, <3>1, <4>1, SavedKeys DEF CacheCurrent, TypeOK
    <3>2. CASE t /= s
      BY <1>7, <2>1, <2>3, <3>2, SavedKeys DEF CacheCurrent, TypeOK
    <3> QED
      BY <3>1, <3>2
  <2>4. CacheCurrent'
    BY <1>7, <1>8, <2>1, <2>3 DEF CacheCurrent
  <2> QED
    BY <1>4, <2>2, <2>4
<1>6. CASE After[pc[s]] = "saved"
  <2>1. /\ pc' = [pc EXCEPT ![s] = "saved"]
        /\ run' = [run EXCEPT ![s] = 0]
        /\ ended' = ended \cup {run[s]}
        /\ completed' = completed \cup {run[s]}
        /\ UNCHANGED <<nextRun, older>>
    BY <1>6 DEF NextSave
  <2>2. \A t \in Slots : pc'[t] \in Running =>
           t /= s /\ pc'[t] = pc[t] /\ run'[t] = run[t]
    BY <1>1, <2>1 DEF TypeOK
  <2>3. RunsInProgress'
    BY <1>1, <2>1, <2>2 DEF RunsInProgress
  <2>4. OlderIsPast'
    BY <1>1, <2>1 DEF OlderIsPast, RunsInProgress
  <2>5. \A k \in Keys : CurrentNow(k, run[s])
    <3>1. \A k \in Keys : k \in SavedAt[pc[s]] \/ k = pc[s]
      BY <1>6, SavedLast
    <3> QED
      BY <1>1, <1>3, <1>7, <3>1 DEF CacheCurrent
  <2>6. CacheCurrent'
    <3>1. \A k \in Keys, q \in completed' : CurrentNow(k, q)
      BY <1>7, <2>1, <2>5 DEF CacheCurrent
    <3>2. \A t \in Slots : pc'[t] \in Running =>
             \A k \in SavedAt[pc'[t]] : CurrentNow(k, run'[t])
      BY <1>7, <2>2, SavedKeys DEF CacheCurrent
    <3> QED
      BY <1>8, <3>1, <3>2
  <2> QED
    BY <1>4, <2>3, <2>4, <2>6
<1> QED
  BY <1>5, <1>6

(* Taking a job starts a run: the runs that are over become older than it. *)
LEMMA TakeKeepsIInv ==
    ASSUME IInv, TypeOK', NEW s \in Slots, NEW j \in Jobs, Take(s, j)
    PROVE  IInv'
<1> USE DEF IInv
<1>1. /\ pc' = [pc EXCEPT ![s] = "discover"]
      /\ run' = [run EXCEPT ![s] = nextRun]
      /\ nextRun' = nextRun + 1
      /\ older' = older \cup (ended \X {nextRun})
      /\ UNCHANGED <<cache, ended, completed, got, floor>>
  BY DEF Take, readVars
<1>2. \A r, q : q /= nextRun /\ <<r, q>> \in older' => <<r, q>> \in older
  BY <1>1
<1>3. nextRun \notin ended /\ nextRun \notin completed
  BY DEF OlderIsPast, TypeOK
<1>4. RunsInProgress'
  BY <1>1, <1>3 DEF RunsInProgress, TypeOK
<1>5. OlderIsPast'
  <2>1. \A p \in older' : p[1] \in ended'
    BY <1>1 DEF OlderIsPast
  <2>2. \A r \in ended' : r < nextRun'
    BY <1>1 DEF OlderIsPast, TypeOK
  <2> QED
    BY <1>1, <2>1, <2>2 DEF OlderIsPast
<1>6. CacheCurrent'
  <2>1. \A k \in Keys, q \in completed : cache'[k].text = "whole" => <<cache'[k].run, q>> \notin older'
    BY <1>1, <1>2, <1>3 DEF CacheCurrent, Current
  <2>2. ASSUME NEW t \in Slots, pc'[t] \in Running, NEW k \in SavedAt[pc'[t]]
        PROVE  cache'[k].text = "whole" => <<cache'[k].run, run'[t]>> \notin older'
    <3>1. CASE t = s
      BY <1>1, <2>2, <3>1 DEF TypeOK, SavedAt
    <3>2. CASE t /= s
      <4>1. pc[t] = pc'[t] /\ run'[t] = run[t] /\ run[t] /= nextRun
        BY <1>1, <2>2, <3>2 DEF RunsInProgress, TypeOK
      <4> QED
        BY <1>1, <1>2, <2>2, <4>1 DEF CacheCurrent, Current
    <3> QED
      BY <3>1, <3>2
  <2> QED
    BY <1>1, <2>1, <2>2 DEF CacheCurrent, Current
<1>7. ReadsCurrent'
  BY <1>1, <1>2, <1>3 DEF ReadsCurrent
<1> QED
  BY <1>4, <1>5, <1>6, <1>7

LEMMA StepIInv == IInv /\ [Next]_vars => IInv'
<1> SUFFICES ASSUME IInv, [Next]_vars PROVE IInv'
  OBVIOUS
<1>t. TypeOK /\ TypeOK'
  BY StepType DEF IInv
<1>r. \A s \in Slots : s \in Readers
  BY DEF Readers
<1>p. {"idle", "saved", "fallback"} \cap Running = {}
  BY DEF Running, Keys, ServedKeys
<1>1. ASSUME NEW j \in Jobs, Enqueue(j) PROVE IInv'
  BY <1>1, <1>t, RunsKept, ReadsKept DEF Enqueue, readVars, historyVars, IInv
<1>2. ASSUME NEW s \in Slots, NEW j \in Jobs, Take(s, j) PROVE IInv'
  BY <1>2, <1>t, TakeKeepsIInv
<1>3. ASSUME NEW s \in Slots, Discover(s) PROVE IInv'
  <2>1. /\ pc[s] = "discover"
        /\ pc' = [pc EXCEPT ![s] = "pairs"]
        /\ UNCHANGED <<run, cache, nextRun, ended, completed, older, got, floor>>
    BY <1>3 DEF Discover, readVars, historyVars
  <2>2. RunsInProgress' /\ OlderIsPast'
    BY <1>t, <2>1 DEF IInv, TypeOK, RunsInProgress, OlderIsPast, Running
  <2>3. CacheCurrent'
    BY <1>t, <2>1 DEF IInv, TypeOK, CacheCurrent, Current, SavedAt
  <2> QED
    BY <1>t, <2>1, <2>2, <2>3, ReadsKept DEF IInv
<1>4. ASSUME NEW s \in Slots, DiscoverFails(s) PROVE IInv'
  BY <1>4, <1>t, FallbackKeepsIInv DEF DiscoverFails, Running
<1>5. ASSUME NEW s \in Slots, SetRedis(s) PROVE IInv'
  BY <1>5, <1>t, SaveKeepsIInv DEF SetRedis, Entry
<1>6. ASSUME NEW s \in Slots, OpenFile(s) PROVE IInv'
  <2>1. /\ UNCHANGED <<pc, run, nextRun, ended, completed, older, got, floor>>
        /\ \A k \in Keys : cache'[k] = cache[k] \/ cache'[k].text /= "whole"
    BY <1>6, <1>t DEF OpenFile, readVars, historyVars, Entry, TypeOK
  <2>2. RunsInProgress' /\ OlderIsPast' /\ ReadsCurrent'
    BY <2>1 DEF IInv, RunsInProgress, OlderIsPast, ReadsCurrent
  <2>3. CacheCurrent'
    BY <2>1, SavedKeys DEF IInv, CacheCurrent, Current
  <2> QED
    BY <1>t, <2>2, <2>3 DEF IInv
<1>7. ASSUME NEW s \in Slots, FillFile(s) PROVE IInv'
  BY <1>7, <1>t, SaveKeepsIInv DEF FillFile, Entry
<1>8. ASSUME NEW s \in Slots, SaveFails(s) PROVE IInv'
  <2>1. pc[s] \in Running
    BY <1>8 DEF SaveFails, Running
  <2>2. \A k \in Keys : cache'[k] = cache[k] \/ cache'[k].run = run[s]
                            \/ cache'[k].text /= "whole"
    BY <1>8, <1>t DEF SaveFails, FailedWrite, Entry, TypeOK
  <2> QED
    BY <1>8, <1>t, <2>1, <2>2, FallbackKeepsIInv DEF SaveFails
<1>9. ASSUME NEW r \in Readers, NEW k \in ServedKeys, ReadKey(r, k) PROVE IInv'
  <2>1. RunsInProgress' /\ OlderIsPast' /\ CacheCurrent'
    BY <1>9, <1>t, RunsKept DEF ReadKey, historyVars
  <2>2. ASSUME NEW q \in completed
        PROVE  Read(k).text = "whole" => <<Read(k).run, q>> \notin older
    BY <2>2 DEF IInv, CacheCurrent, Current, Read, Null, Entry, Keys
  <2>3. ReadsCurrent'
    BY <1>9, <1>t, <2>2 DEF ReadKey, ReadsCurrent, IInv, TypeOK, historyVars
  <2> QED
    BY <1>t, <2>1, <2>3 DEF IInv
<1>10. ASSUME NEW r \in Readers, NEW k \in ServedKeys, ReadFails(r, k) PROVE IInv'
  <2>1. RunsInProgress' /\ OlderIsPast' /\ CacheCurrent'
    BY <1>10, <1>t, RunsKept DEF ReadFails, historyVars
  <2>2. ReadsCurrent'
    BY <1>10, <1>t DEF ReadFails, ReadsCurrent, IInv, TypeOK, historyVars, Null, Entry
  <2> QED
    BY <1>t, <2>1, <2>2 DEF IInv
<1>11. ASSUME NEW s \in Slots, FallbackServes(s) PROVE IInv'
  <2>1. RunsInProgress' /\ OlderIsPast' /\ CacheCurrent'
    BY <1>11, <1>t, <1>p, RunsKept DEF FallbackServes, historyVars, TypeOK
  <2> QED
    BY <1>11, <1>t, <1>r, <2>1, ReadsBlanked DEF FallbackServes, historyVars, IInv
<1>12. ASSUME NEW s \in Slots, FallbackFails(s) PROVE IInv'
  <2>1. RunsInProgress' /\ OlderIsPast' /\ CacheCurrent'
    BY <1>12, <1>t, <1>p, RunsKept DEF FallbackFails, historyVars, TypeOK
  <2> QED
    BY <1>12, <1>t, <1>r, <2>1, ReadsBlanked DEF FallbackFails, historyVars, IInv
<1>13. ASSUME NEW c \in Clients, Request(c) PROVE IInv'
  BY <1>13, <1>t, RunsKept, ReadsBlanked DEF Request, historyVars, Readers, IInv
<1>14. ASSUME NEW c \in Clients, Respond(c) PROVE IInv'
  BY <1>14, <1>t, RunsKept, ReadsBlanked DEF Respond, historyVars, Readers, IInv
<1>15. ASSUME NEW k \in Keys, Expire(k) PROVE IInv'
  <2>1. /\ UNCHANGED <<pc, run, nextRun, ended, completed, older, got, floor>>
        /\ \A m \in Keys : cache'[m] = cache[m] \/ cache'[m].text /= "whole"
    BY <1>15, <1>t DEF Expire, historyVars, None, Entry, TypeOK
  <2>2. RunsInProgress' /\ OlderIsPast' /\ ReadsCurrent'
    BY <2>1 DEF IInv, RunsInProgress, OlderIsPast, ReadsCurrent
  <2>3. CacheCurrent'
    BY <2>1, SavedKeys DEF IInv, CacheCurrent, Current
  <2> QED
    BY <1>t, <2>2, <2>3 DEF IInv
<1>16. ASSUME Crash PROVE IInv'
  <2>1. /\ pc' = [s \in Slots |-> "idle"]
        /\ UNCHANGED <<cache, nextRun, completed, older>>
        /\ ended \subseteq ended'
        /\ \A r \in ended' : r \in ended \/ \E s \in Slots : pc[s] \in Running /\ r = run[s]
    BY <1>16 DEF Crash
  <2>2. RunsInProgress'
    BY <1>p, <2>1 DEF RunsInProgress
  <2>3. OlderIsPast'
    BY <2>1 DEF IInv, OlderIsPast, RunsInProgress
  <2>4. CacheCurrent'
    BY <1>p, <2>1 DEF IInv, CacheCurrent, Current
  <2>5. ReadsCurrent'
    BY <1>16, <2>1 DEF Crash, IInv, ReadsCurrent, Blank, Unread, Entry
  <2> QED
    BY <1>t, <2>2, <2>3, <2>4, <2>5 DEF IInv
<1>17. CASE UNCHANGED vars
  BY <1>17, <1>t, RunsKept, ReadsKept DEF vars, IInv
<1>18. ASSUME NEW s \in Slots, Return(s) PROVE IInv'
  <2>1. RunsInProgress' /\ OlderIsPast' /\ CacheCurrent'
    BY <1>18, <1>t, <1>p, RunsKept DEF Return, historyVars, TypeOK
  <2> QED
    BY <1>18, <1>t, <2>1, ReadsKept DEF Return, readVars, historyVars, IInv
<1> QED
  BY <1>1, <1>2, <1>3, <1>4, <1>5, <1>6, <1>7, <1>8, <1>9, <1>10, <1>11,
     <1>12, <1>13, <1>14, <1>15, <1>16, <1>17, <1>18
     DEF Next, SlotStep, ClientStep, Readers

(* Reads respect completion, for any number of slots, clients and jobs and *)
(* for both backends: no reader is given a value of a run that was over    *)
(* before a refresh began that had completed when the reader began.        *)
THEOREM ReadsCorrect == Spec => []ReadsRespectCompletion
<1>1. IInv => ReadsRespectCompletion
  BY DEF IInv, ReadsCurrent, ReadsRespectCompletion
<1> QED
  BY <1>1, InitIInv, StepIInv, PTL DEF Spec

-----------------------------------------------------------------------------
(* Jobs are held once.                                                     *)

(* A job that is still to be enqueued has its attempts and stalls left.    *)
JobsInv ==
    /\ JobsHeldOnce
    /\ \A j \in Jobs : jobs[j] = "new" => failures[j] < Attempts /\ stalls[j] <= MaxStalls

LEMMA InitJobs == Init => JobsInv
  BY QueueAssumption DEF Init, JobsInv, JobsHeldOnce

(* Nothing about jobs changes when no slot takes or gives back a job.      *)
LEMMA JobsKept ==
    ASSUME JobsInv, UNCHANGED <<jobs, failures, stalls, job>>,
           \A s \in Slots : pc'[s] = "idle" <=> pc[s] = "idle"
    PROVE  JobsInv'
  BY DEF JobsInv, JobsHeldOnce

(* A slot gives its job back: for good, or to be tried again while it has  *)
(* an attempt left.                                                        *)
LEMMA JobGivenBack ==
    ASSUME TypeOK, JobsInv, NEW s \in Slots, pc[s] /= "idle",
           NEW end \in {"waiting", "done", "failed"},
           pc' = [pc EXCEPT ![s] = "idle"],
           job' = [job EXCEPT ![s] = "none"],
           jobs' = [jobs EXCEPT ![job[s]] = end],
           \A j \in Jobs : j /= job[s] => failures'[j] = failures[j],
           end = "waiting" => failures'[job[s]] < Attempts,
           UNCHANGED stalls
    PROVE  JobsInv'
<1>1. job[s] \in Jobs /\ jobs[job[s]] = "active"
  BY DEF TypeOK, JobsInv, JobsHeldOnce
<1>2. \A t \in Slots : t /= s => job'[t] = job[t] /\ pc'[t] = pc[t] /\ job[t] /= job[s]
  BY <1>1, QueueAssumption DEF TypeOK, JobsInv, JobsHeldOnce
<1>3. job'[s] = "none" /\ pc'[s] = "idle"
  BY DEF TypeOK
<1>4. \A j \in Jobs : jobs'[j] = IF j = job[s] THEN end ELSE jobs[j]
  BY <1>1 DEF TypeOK
<1>5. \A t \in Slots : pc'[t] /= "idle" <=> job'[t] /= "none"
  BY <1>2, <1>3 DEF JobsInv, JobsHeldOnce
<1>6. \A t, u \in Slots : (job'[t] = job'[u] /\ job'[t] /= "none") => t = u
  BY <1>2, <1>3 DEF JobsInv, JobsHeldOnce
<1>7. \A j \in Jobs : jobs'[j] = "active" <=> \E t \in Slots : job'[t] = j
  BY <1>1, <1>2, <1>3, <1>4, QueueAssumption DEF JobsInv, JobsHeldOnce
<1>8. \A j \in Jobs : jobs'[j] \in {"new", "waiting", "active"} =>
                         failures'[j] < Attempts /\ stalls'[j] <= MaxStalls
  BY <1>1, <1>4 DEF JobsInv, JobsHeldOnce
<1> QED
  BY <1>5, <1>6, <1>7, <1>8 DEF JobsInv, JobsHeldOnce

(* A save leaves the slot with its job.                                    *)
LEMMA SaveKeepsJobs ==
    ASSUME TypeOK, JobsInv, NEW s \in Slots, pc[s] \in Keys, NextSave(s)
    PROVE  JobsInv'
<1>1. pc[s] /= "idle" /\ After[pc[s]] /= "idle"
  BY AfterKeys DEF Keys, ServedKeys
<1>2. \A t \in Slots : pc'[t] = "idle" <=> pc[t] = "idle"
  BY <1>1 DEF NextSave, TypeOK
<1> QED
  BY <1>2, JobsKept DEF NextSave, jobVars

LEMMA StepJobs == TypeOK /\ JobsInv /\ [Next]_vars => JobsInv'
<1> SUFFICES ASSUME TypeOK, JobsInv, [Next]_vars PROVE JobsInv'
  OBVIOUS
<1>f. ASSUME NEW s \in Slots, EnterFallback(s), pc[s] /= "idle" PROVE JobsInv'
  <2>1. \A t \in Slots : pc'[t] = "idle" <=> pc[t] = "idle"
    BY <1>f DEF EnterFallback, TypeOK
  <2> QED
    BY <1>f, <2>1, JobsKept DEF EnterFallback, jobVars
<1>k. ASSUME UNCHANGED <<jobVars, pc>> PROVE JobsInv'
  BY <1>k, JobsKept DEF jobVars
<1>1. ASSUME NEW j \in Jobs, Enqueue(j) PROVE JobsInv'
  <2>1. /\ jobs' = [jobs EXCEPT ![j] = "waiting"] /\ jobs[j] = "new"
        /\ UNCHANGED <<failures, stalls, pc, job>>
    BY <1>1 DEF Enqueue, countVars
  <2> QED
    BY <2>1 DEF TypeOK, JobsInv, JobsHeldOnce
<1>2. ASSUME NEW s \in Slots, NEW j \in Jobs, Take(s, j) PROVE JobsInv'
  <2>1. /\ pc[s] = "idle" /\ jobs[j] = "waiting"
        /\ jobs' = [jobs EXCEPT ![j] = "active"]
        /\ pc' = [pc EXCEPT ![s] = "discover"]
        /\ job' = [job EXCEPT ![s] = j]
        /\ UNCHANGED <<failures, stalls>>
    BY <1>2 DEF Take, countVars
  <2>2. job[s] = "none" /\ \A t \in Slots : job[t] /= j
    BY <2>1 DEF JobsInv, JobsHeldOnce
  <2>3. \A t \in Slots : /\ job'[t] = IF t = s THEN j ELSE job[t]
                         /\ pc'[t] = IF t = s THEN "discover" ELSE pc[t]
    BY <2>1 DEF TypeOK
  <2>4. \A i \in Jobs : jobs'[i] = IF i = j THEN "active" ELSE jobs[i]
    BY <2>1 DEF TypeOK
  <2>5. \A i \in Jobs : jobs'[i] = "active" <=> \E t \in Slots : job'[t] = i
    BY <2>1, <2>2, <2>3, <2>4, QueueAssumption DEF JobsInv, JobsHeldOnce
  <2> QED
    BY <2>1, <2>2, <2>3, <2>4, <2>5, QueueAssumption DEF JobsInv, JobsHeldOnce
<1>3. ASSUME NEW s \in Slots, Discover(s) PROVE JobsInv'
  <2>1. \A t \in Slots : pc'[t] = "idle" <=> pc[t] = "idle"
    BY <1>3 DEF Discover, TypeOK
  <2> QED
    BY <1>3, <2>1, JobsKept DEF Discover, jobVars
<1>4. ASSUME NEW s \in Slots, DiscoverFails(s) PROVE JobsInv'
  BY <1>4, <1>f DEF DiscoverFails
<1>5. ASSUME NEW s \in Slots, SetRedis(s) PROVE JobsInv'
  BY <1>5, SaveKeepsJobs DEF SetRedis
<1>6. ASSUME NEW s \in Slots, OpenFile(s) PROVE JobsInv'
  BY <1>6, <1>k DEF OpenFile
<1>7. ASSUME NEW s \in Slots, FillFile(s) PROVE JobsInv'
  BY <1>7, SaveKeepsJobs DEF FillFile
<1>8. ASSUME NEW s \in Slots, SaveFails(s) PROVE JobsInv'
  BY <1>8, <1>f DEF SaveFails, Keys, ServedKeys
<1>9. ASSUME NEW r \in Readers, NEW k \in ServedKeys, ReadKey(r, k) PROVE JobsInv'
  BY <1>9, <1>k DEF ReadKey
<1>10. ASSUME NEW r \in Readers, NEW k \in ServedKeys, ReadFails(r, k) PROVE JobsInv'
  BY <1>10, <1>k DEF ReadFails
<1>11. ASSUME NEW s \in Slots, FallbackServes(s) PROVE JobsInv'
  BY <1>11, JobGivenBack DEF FallbackServes, countVars
<1>12. ASSUME NEW s \in Slots, FallbackFails(s) PROVE JobsInv'
  <2>1. job[s] \in Jobs
    BY <1>12 DEF FallbackFails, TypeOK, JobsInv, JobsHeldOnce
  <2>2. /\ failures' = [failures EXCEPT ![job[s]] = failures[job[s]] + 1]
        /\ jobs' = [jobs EXCEPT ![job[s]] =
                      IF failures[job[s]] + 1 < Attempts THEN "waiting" ELSE "failed"]
        /\ pc[s] /= "idle"
        /\ pc' = [pc EXCEPT ![s] = "idle"]
        /\ job' = [job EXCEPT ![s] = "none"]
        /\ UNCHANGED stalls
    BY <1>12 DEF FallbackFails
  <2>3. /\ failures'[job[s]] = failures[job[s]] + 1
        /\ \A j \in Jobs : j /= job[s] => failures'[j] = failures[j]
    BY <2>1, <2>2 DEF TypeOK
  <2>4. CASE failures[job[s]] + 1 < Attempts
    BY <2>2, <2>3, <2>4, JobGivenBack
  <2>5. CASE ~(failures[job[s]] + 1 < Attempts)
    BY <2>2, <2>3, <2>5, JobGivenBack
  <2> QED
    BY <2>4, <2>5
<1>13. ASSUME NEW c \in Clients, Request(c) PROVE JobsInv'
  BY <1>13, <1>k DEF Request
<1>14. ASSUME NEW c \in Clients, Respond(c) PROVE JobsInv'
  BY <1>14, <1>k DEF Respond
<1>15. ASSUME NEW k \in Keys, Expire(k) PROVE JobsInv'
  BY <1>15, <1>k DEF Expire
<1>16. ASSUME Crash PROVE JobsInv'
  <2>1. /\ pc' = [s \in Slots |-> "idle"]
        /\ job' = [s \in Slots |-> "none"]
        /\ failures' = failures
        /\ \A j \in Jobs :
             /\ jobs'[j] = IF jobs[j] /= "active" THEN jobs[j]
                           ELSE IF stalls[j] < MaxStalls THEN "waiting" ELSE "failed"
             /\ stalls'[j] = IF jobs[j] = "active" THEN stalls[j] + 1 ELSE stalls[j]
    BY <1>16 DEF Crash
  <2>2. \A j \in Jobs : jobs'[j] /= "active" /\ \A s \in Slots : job'[s] /= j
    BY <2>1, QueueAssumption
  <2>3. \A j \in Jobs : jobs'[j] \in {"new", "waiting", "active"} =>
                           failures'[j] < Attempts /\ stalls'[j] <= MaxStalls
    BY <2>1, QueueAssumption DEF TypeOK, JobsInv, JobsHeldOnce
  <2> QED
    BY <2>1, <2>2, <2>3 DEF JobsInv, JobsHeldOnce
<1>17. CASE UNCHANGED vars
  BY <1>17, <1>k DEF vars, jobVars
<1>18. ASSUME NEW s \in Slots, Return(s) PROVE JobsInv'
  BY <1>18, JobGivenBack DEF Return, countVars
<1> QED
  BY <1>1, <1>2, <1>3, <1>4, <1>5, <1>6, <1>7, <1>8, <1>9, <1>10, <1>11,
     <1>12, <1>13, <1>14, <1>15, <1>16, <1>17, <1>18
     DEF Next, SlotStep, ClientStep, Readers

(* Every active job is in the hands of exactly one slot, and no job        *)
(* outlives its attempts and stalls, for any number of slots and jobs,     *)
(* through overlapping refreshes, failures and crashes.                    *)
THEOREM JobsCorrect == Spec => []JobsHeldOnce
<1>1. JobsInv => JobsHeldOnce
  BY DEF JobsInv
<1> QED
  BY <1>1, InitJobs, StepJobs, TypeCorrect, PTL DEF Spec

-----------------------------------------------------------------------------
(* A fallback serves the cached payload, if no write leaves a key          *)
(* unreadable while a slot is in its fallback: on Redis a write replaces   *)
(* the value at once, and a single slot does not write and read together.  *)

OneSlot == \A s, t \in Slots : s = t

NoTornRead == Backend = "redis" \/ OneSlot

FallbackInv ==
    /\ \A s \in Slots : opened[s] => Backend = "file"
    /\ \A s \in Slots : (pc[s] = "fallback" /\ warm[s]) =>
         \A k \in ServedKeys : cache[k].text = "whole" /\ got[s][k] /= Null

LEMMA InitFallback == Init => FallbackInv
  BY DEF Init, FallbackInv

(* A step that leaves the slots where they are, changes no key and gives   *)
(* no slot null.                                                           *)
LEMMA FallbackKept ==
    ASSUME FallbackInv, UNCHANGED <<opened, cache>>,
           \A s \in Slots : (pc'[s] = "fallback" /\ warm'[s]) =>
             /\ pc[s] = "fallback" /\ warm[s]
             /\ \A k \in ServedKeys : got'[s][k] = got[s][k] \/ got'[s][k] /= Null
    PROVE  FallbackInv'
  BY DEF FallbackInv

(* A slot that saves, or whose save fails, leaves the keys readable that   *)
(* another slot is reading.                                                *)
LEMMA WriteKeepsFallback ==
    ASSUME TypeOK, FallbackInv, NoTornRead, NEW s \in Slots, pc[s] \in Keys,
           \A t \in Slots : opened'[t] => Backend = "file",
           Backend = "redis" =>
             \A k \in Keys : cache'[k] = cache[k] \/ cache'[k].text = "whole",
           \A t \in Slots : t /= s => pc'[t] = pc[t] /\ warm'[t] = warm[t] /\ got'[t] = got[t],
           (pc'[s] = "fallback" /\ warm'[s]) =>
             \A k \in ServedKeys : cache'[k].text = "whole" /\ got'[s][k] /= Null
    PROVE  FallbackInv'
<1>1. \A t \in Slots : (t /= s /\ pc'[t] = "fallback" /\ warm'[t]) =>
         \A k \in ServedKeys : cache'[k].text = "whole" /\ got'[t][k] /= Null
  BY DEF FallbackInv, NoTornRead, OneSlot, Keys
<1> QED
  BY <1>1 DEF FallbackInv

(* Blank is not an answer.                                                 *)
LEMMA BlankNotNull == \A k \in ServedKeys : Blank[k] /= Null
  BY DEF Blank, Unread, Null, Entry

LEMMA StepFallback ==
    TypeOK /\ NoTornRead /\ FallbackInv /\ [Next]_vars => FallbackInv'
<1> SUFFICES ASSUME TypeOK, NoTornRead, FallbackInv, [Next]_vars PROVE FallbackInv'
  OBVIOUS
<1>w. \A s \in Slots, n \in Nat : Entry(n, "whole").text = "whole"
  BY DEF Entry
<1>i. "fallback" \notin Keys /\ "idle" \notin Keys
  BY DEF Keys, ServedKeys
<1>n. ASSUME NEW s \in Slots, NextSave(s), pc[s] \in Keys,
             \A t \in Slots : opened'[t] => Backend = "file",
             Backend = "redis" =>
               \A k \in Keys : cache'[k] = cache[k] \/ cache'[k].text = "whole"
      PROVE  FallbackInv'
  <2>1. pc'[s] /= "fallback"
    BY <1>n, <1>i, AfterKeys DEF NextSave, TypeOK
  <2>2. \A t \in Slots : t /= s => pc'[t] = pc[t] /\ warm'[t] = warm[t] /\ got'[t] = got[t]
    BY <1>n DEF NextSave, readVars, TypeOK
  <2> QED
    BY <1>n, <2>1, <2>2, WriteKeepsFallback
<1>k. ASSUME NEW r \in Readers, NEW k \in ServedKeys, NEW v \in Values,
             got' = [got EXCEPT ![r][k] = v]
      PROVE  \A t \in Readers, m \in ServedKeys :
               got'[t][m] = IF t = r /\ m = k THEN v ELSE got[t][m]
  BY <1>k DEF TypeOK
<1>e. ASSUME NEW r \in Readers, BeginRead(r) \/ EndRead(r)
      PROVE  \A t \in Readers, m \in ServedKeys :
               got'[t][m] = got[t][m] \/ got'[t][m] /= Null
  BY <1>e, BlankNotNull DEF BeginRead, EndRead, TypeOK
<1>1. ASSUME NEW j \in Jobs, Enqueue(j) PROVE FallbackInv'
  BY <1>1, FallbackKept DEF Enqueue, readVars
<1>2. ASSUME NEW s \in Slots, NEW j \in Jobs, Take(s, j) PROVE FallbackInv'
  <2>1. \A t \in Slots : pc'[t] = "fallback" => pc[t] = "fallback"
    BY <1>2 DEF Take, TypeOK
  <2> QED
    BY <1>2, <2>1, FallbackKept DEF Take, readVars
<1>3. ASSUME NEW s \in Slots, Discover(s) PROVE FallbackInv'
  <2>1. \A t \in Slots : pc'[t] = "fallback" => pc[t] = "fallback"
    BY <1>3 DEF Discover, TypeOK
  <2> QED
    BY <1>3, <2>1, FallbackKept DEF Discover, readVars
<1>4. ASSUME NEW s \in Slots, DiscoverFails(s) PROVE FallbackInv'
  <2>1. /\ pc' = [pc EXCEPT ![s] = "fallback"]
        /\ got' = [got EXCEPT ![s] = Blank]
        /\ warm' = [warm EXCEPT ![s] = Readable]
        /\ UNCHANGED <<opened, cache>>
    BY <1>4 DEF DiscoverFails, EnterFallback, BeginRead
  <2>2. /\ got'[s] = Blank
        /\ warm'[s] = Readable
        /\ \A t \in Slots : t /= s => pc'[t] = pc[t] /\ warm'[t] = warm[t] /\ got'[t] = got[t]
    BY <2>1 DEF TypeOK, Readers
  <2>3. warm'[s] => \A k \in ServedKeys : cache'[k].text = "whole" /\ got'[s][k] /= Null
    BY <2>1, <2>2, BlankNotNull DEF Readable
  <2> QED
    BY <2>1, <2>2, <2>3 DEF FallbackInv
<1>5. ASSUME NEW s \in Slots, SetRedis(s) PROVE FallbackInv'
  <2>1. \A k \in Keys : cache'[k] = cache[k] \/ cache'[k].text = "whole"
    BY <1>5 DEF SetRedis, Entry, TypeOK
  <2>2. \A t \in Slots : opened'[t] => Backend = "file"
    BY <1>5 DEF SetRedis, FallbackInv
  <2> QED
    BY <1>5, <2>1, <2>2, <1>n DEF SetRedis
<1>6. ASSUME NEW s \in Slots, OpenFile(s) PROVE FallbackInv'
  <2>1. pc[s] \in Keys /\ Backend = "file" /\ UNCHANGED <<pc, warm, got>>
    BY <1>6 DEF OpenFile, readVars
  <2> QED
    BY <2>1, <1>i, WriteKeepsFallback
<1>7. ASSUME NEW s \in Slots, FillFile(s) PROVE FallbackInv'
  <2>1. Backend = "file"
    BY <1>7 DEF FillFile, FallbackInv
  <2> QED
    BY <1>7, <2>1, <1>n DEF FillFile
<1>8. ASSUME NEW s \in Slots, SaveFails(s) PROVE FallbackInv'
  <2>1. /\ got' = [got EXCEPT ![s] = Blank]
        /\ pc' = [pc EXCEPT ![s] = "fallback"]
        /\ warm' = [warm EXCEPT ![s] = \A k \in ServedKeys : cache'[k].text = "whole"]
        /\ opened' = [opened EXCEPT ![s] = FALSE]
        /\ pc[s] \in Keys /\ FailedWrite(s)
    BY <1>8 DEF SaveFails, EnterFallback, BeginRead
  <2>2. /\ got'[s] = Blank
        /\ warm'[s] => \A k \in ServedKeys : cache'[k].text = "whole"
        /\ \A t \in Slots : t /= s => pc'[t] = pc[t] /\ warm'[t] = warm[t] /\ got'[t] = got[t]
    BY <2>1 DEF TypeOK, Readers
  <2>3. \A t \in Slots : opened'[t] => Backend = "file"
    BY <2>1 DEF TypeOK, FallbackInv
  <2>4. Backend = "redis" => \A k \in Keys : cache'[k] = cache[k] \/ cache'[k].text = "whole"
    BY <2>1 DEF FailedWrite, FallbackInv, Entry, TypeOK
  <2>5. (pc'[s] = "fallback" /\ warm'[s]) =>
           \A k \in ServedKeys : cache'[k].text = "whole" /\ got'[s][k] /= Null
    BY <2>2, BlankNotNull
  <2>6. pc[s] \in Keys
    BY <2>1
  <2> QED
    BY <2>2, <2>3, <2>4, <2>5, <2>6, WriteKeepsFallback
<1>9. ASSUME NEW r \in Readers, NEW k \in ServedKeys, ReadKey(r, k) PROVE FallbackInv'
  <2>1. got' = [got EXCEPT ![r][k] = Read(k)] /\ UNCHANGED <<pc, warm, opened, cache>>
    BY <1>9 DEF ReadKey
  <2>2. k \in Keys /\ Read(k) \in Values
    BY ReadType DEF Keys
  <2>3. cache[k].text = "whole" => Read(k) /= Null
    BY DEF Read, Null, Entry
  <2>4. \A t \in Slots, m \in ServedKeys :
           got'[t][m] = got[t][m] \/ (m = k /\ got'[t][m] = Read(k))
    BY <2>1, <2>2, <1>k DEF Readers
  <2> QED
    BY <2>1, <2>3, <2>4 DEF FallbackInv
<1>10. ASSUME NEW r \in Readers, NEW k \in ServedKeys, ReadFails(r, k) PROVE FallbackInv'
  <2>1. /\ got' = [got EXCEPT ![r][k] = Null]
        /\ warm' = [s \in Slots |-> s /= r /\ warm[s]]
        /\ UNCHANGED <<pc, opened, cache>>
    BY <1>10 DEF ReadFails
  <2>2. Null \in Values
    BY DEF Null, Entry, Values
  <2>3. \A t \in Slots : t /= r => \A m \in ServedKeys : got'[t][m] = got[t][m]
    BY <2>1, <2>2, <1>k DEF Readers
  <2>4. \A t \in Slots : warm'[t] => t /= r /\ warm[t]
    BY <2>1
  <2> QED
    BY <2>1, <2>3, <2>4, FallbackKept
<1>11. ASSUME NEW s \in Slots, FallbackServes(s) PROVE FallbackInv'
  <2>1. \A t \in Slots : pc'[t] = "fallback" => t /= s /\ pc[t] = "fallback" /\ warm'[t] = warm[t]
    BY <1>11 DEF FallbackServes, TypeOK
  <2> QED
    BY <1>11, <1>e, <2>1, FallbackKept DEF FallbackServes, Readers
<1>12. ASSUME NEW s \in Slots, FallbackFails(s) PROVE FallbackInv'
  <2>1. \A t \in Slots : pc'[t] = "fallback" => t /= s /\ pc[t] = "fallback" /\ warm'[t] = warm[t]
    BY <1>12 DEF FallbackFails, TypeOK
  <2> QED
    BY <1>12, <1>e, <2>1, FallbackKept DEF FallbackFails, Readers
<1>13. ASSUME NEW c \in Clients, Request(c) PROVE FallbackInv'
  BY <1>13, <1>e, FallbackKept DEF Request, Readers
<1>14. ASSUME NEW c \in Clients, Respond(c) PROVE FallbackInv'
  BY <1>14, <1>e, FallbackKept DEF Respond, Readers
<1>15. ASSUME NEW k \in Keys, Expire(k) PROVE FallbackInv'
  BY <1>15 DEF Expire, FallbackInv
<1>16. ASSUME Crash PROVE FallbackInv'
  BY <1>16 DEF Crash, FallbackInv
<1>17. CASE UNCHANGED vars
  BY <1>17, FallbackKept DEF vars
<1>18. ASSUME NEW s \in Slots, Return(s) PROVE FallbackInv'
  <2>1. \A t \in Slots : pc'[t] = "fallback" => pc[t] = "fallback"
    BY <1>18 DEF Return, TypeOK
  <2> QED
    BY <1>18, <2>1, FallbackKept DEF Return, readVars
<1> QED
  BY <1>1, <1>2, <1>3, <1>4, <1>5, <1>6, <1>7, <1>8, <1>9, <1>10, <1>11,
     <1>12, <1>13, <1>14, <1>15, <1>16, <1>17, <1>18
     DEF Next, SlotStep, ClientStep, Readers

(* A refresh that fails while the cache is readable meets no unreadable    *)
(* key in its fallback, on Redis with any number of slots and on files     *)
(* with one.                                                               *)
THEOREM FallbackCorrect == NoTornRead => (Spec => []FallbackServesCached)
<1> SUFFICES ASSUME NoTornRead PROVE Spec => []FallbackServesCached
  OBVIOUS
<1>1. FallbackInv => FallbackServesCached
  BY DEF FallbackInv, FallbackServesCached
<1>2. TypeOK /\ FallbackInv /\ [Next]_vars => FallbackInv'
  BY StepFallback
<1> QED
  BY <1>1, <1>2, InitFallback, TypeCorrect, PTL DEF Spec

-----------------------------------------------------------------------------
(* With one slot the stamp is a commit record.  A run that is in progress  *)
(* is younger than whatever it finds, and the keys it has saved so far are *)
(* its own, unless they have become unreadable since.                      *)

StampInv ==
    /\ StampCommits
    /\ \A k \in Keys : cache[k].text = "whole" => cache[k].run < nextRun
    /\ \A s \in Slots : pc[s] \in Running =>
         /\ \A k \in Keys : cache[k].text = "whole" => cache[k].run <= run[s]
         /\ \A m \in SavedAt[pc[s]] : cache[m].text = "whole" => cache[m].run = run[s]

LEMMA InitStamp == Init => StampInv
  BY SavedKeys DEF Init, StampInv, StampCommits, None, Entry, Keys, ServedKeys, Running

(* The keys saved before a key are other keys.                             *)
LEMMA SavedOthers == \A k \in Keys : k \in Running /\ SavedAt[k] \subseteq Keys \ {k}
  BY DEF SavedAt, Running, Keys, ServedKeys

(* Entries may become unreadable, and slots may leave their runs.          *)
LEMMA StampKept ==
    ASSUME StampInv, UNCHANGED <<nextRun>>,
           \A k \in Keys : cache'[k] = cache[k] \/ cache'[k].text /= "whole",
           \A s \in Slots : pc'[s] \in Running => pc'[s] = pc[s] /\ run'[s] = run[s]
    PROVE  StampInv'
<1>1. StampCommits'
  BY SavedOthers DEF StampInv, StampCommits
<1>2. \A k \in Keys : cache'[k].text = "whole" => cache'[k].run < nextRun'
  BY DEF StampInv
<1>3. ASSUME NEW s \in Slots, pc'[s] \in Running
      PROVE  /\ \A k \in Keys : cache'[k].text = "whole" => cache'[k].run <= run'[s]
             /\ \A m \in SavedAt[pc'[s]] : cache'[m].text = "whole" => cache'[m].run = run'[s]
  BY <1>3, SavedKeys DEF StampInv
<1> QED
  BY <1>1, <1>2, <1>3 DEF StampInv

(* A write of the only slot, whatever becomes of its run.                  *)
LEMMA StampWritten ==
    ASSUME OneSlot, IInv, StampInv, NEW s \in Slots, pc[s] \in Keys, UNCHANGED nextRun,
           \A k \in Keys : \/ cache'[k] = cache[k]
                           \/ cache'[k].text /= "whole"
                           \/ k = pc[s] /\ cache'[k].run = run[s],
           pc'[s] \in Running =>
             /\ run'[s] = run[s]
             /\ SavedAt[pc'[s]] \subseteq SavedAt[pc[s]] \cup {pc[s]}
             /\ cache'[pc[s]].text = "whole" => cache'[pc[s]].run = run[s]
    PROVE  StampInv'
<1>1. /\ pc[s] \in Running /\ SavedAt[pc[s]] \subseteq Keys \ {pc[s]}
      /\ run[s] \in Nat /\ run[s] < nextRun
  BY SavedOthers DEF IInv, TypeOK, RunsInProgress
<1>2. \A k \in Keys : cache'[k].text = "whole" =>
         (cache[k].text = "whole" /\ cache'[k].run = cache[k].run)
           \/ (k = pc[s] /\ cache'[k].run = run[s])
  OBVIOUS
<1>3. \A k \in Keys : cache[k].text = "whole" => cache[k].run <= run[s] /\ cache[k].run < nextRun
  BY <1>1 DEF StampInv
<1>4. \A m \in SavedAt[pc[s]] : cache[m].text = "whole" => cache[m].run = run[s]
  BY <1>1 DEF StampInv
<1>5. \A k \in Keys : cache'[k].text = "whole" => cache'[k].run <= run[s] /\ cache'[k].run < nextRun'
  BY <1>1, <1>2, <1>3
<1>6. StampCommits'
  <2> SUFFICES ASSUME NEW k \in Keys, NEW m \in SavedAt[k],
                      cache'[k].text = "whole", cache'[m].text = "whole"
               PROVE  cache'[k].run <= cache'[m].run
    BY DEF StampCommits
  <2>1. m \in Keys /\ m /= k
    BY SavedOthers
  <2>2. CASE m = pc[s] /\ cache'[m].run = run[s]
    BY <1>5, <2>2
  <2>3. CASE k = pc[s] /\ cache'[k].run = run[s]
    <3>1. cache'[m].run = run[s]
      BY <1>1, <1>2, <1>4, <2>1, <2>3
    <3> QED
      BY <1>1, <2>3, <3>1
  <2>4. CASE /\ cache[k].text = "whole" /\ cache'[k].run = cache[k].run
             /\ cache[m].text = "whole" /\ cache'[m].run = cache[m].run
    BY <2>4 DEF StampInv, StampCommits
  <2> QED
    BY <1>2, <2>1, <2>2, <2>3, <2>4
<1>7. ASSUME NEW t \in Slots, pc'[t] \in Running
      PROVE  /\ \A k \in Keys : cache'[k].text = "whole" => cache'[k].run <= run'[t]
             /\ \A m \in SavedAt[pc'[t]] : cache'[m].text = "whole" => cache'[m].run = run'[t]
  <2>1. t = s
    BY DEF OneSlot
  <2> QED
    BY <1>1, <1>2, <1>4, <1>5, <1>7, <2>1
<1> QED
  BY <1>5, <1>6, <1>7 DEF StampInv

LEMMA StepStamp == OneSlot /\ IInv /\ StampInv /\ [Next]_vars => StampInv'
<1> SUFFICES ASSUME OneSlot, IInv, StampInv, [Next]_vars PROVE StampInv'
  OBVIOUS
<1>t. TypeOK
  BY DEF IInv
<1>p. {"idle", "saved", "fallback"} \cap Running = {}
  BY DEF Running, Keys, ServedKeys
<1>k. ASSUME UNCHANGED <<pc, run, cache, nextRun>> PROVE StampInv'
  BY <1>k, StampKept
<1>n. ASSUME NEW s \in Slots, pc[s] \in Keys, NextSave(s), NEW e,
             cache' = [cache EXCEPT ![pc[s]] = e],
             e.run = run[s] \/ e.text /= "whole"
      PROVE  StampInv'
  <2>1. /\ pc'[s] = After[pc[s]]
        /\ UNCHANGED nextRun
        /\ After[pc[s]] /= "saved" => run' = run
    BY <1>n, <1>t DEF NextSave, TypeOK
  <2>2. \A k \in Keys : cache'[k] = IF k = pc[s] THEN e ELSE cache[k]
    BY <1>n, <1>t DEF TypeOK
  <2>3. pc'[s] \in Running =>
          /\ run'[s] = run[s]
          /\ SavedAt[pc'[s]] \subseteq SavedAt[pc[s]] \cup {pc[s]}
    BY <1>n, <1>p, <2>1, SavedNext
  <2> QED
    BY <1>n, <2>1, <2>2, <2>3, StampWritten
<1>1. ASSUME NEW j \in Jobs, Enqueue(j) PROVE StampInv'
  BY <1>1, <1>k DEF Enqueue, historyVars
<1>2. ASSUME NEW s \in Slots, NEW j \in Jobs, Take(s, j) PROVE StampInv'
  <2>1. /\ pc' = [pc EXCEPT ![s] = "discover"]
        /\ run' = [run EXCEPT ![s] = nextRun]
        /\ nextRun' = nextRun + 1
        /\ UNCHANGED cache
    BY <1>2 DEF Take
  <2>2. \A k \in Keys : cache[k].run \in Nat /\ nextRun \in Nat
    BY <1>t DEF TypeOK, Entries
  <2>3. \A k \in Keys : cache'[k].text = "whole" =>
           cache'[k].run < nextRun' /\ cache'[k].run <= nextRun
    BY <2>1, <2>2 DEF StampInv
  <2>4. StampCommits'
    BY <2>1 DEF StampInv, StampCommits
  <2>5. ASSUME NEW t \in Slots
        PROVE  run'[t] = nextRun /\ pc'[t] = "discover" /\ SavedAt[pc'[t]] = {}
    <3>1. t = s
      BY DEF OneSlot
    <3> QED
      BY <1>t, <2>1, <3>1 DEF TypeOK, SavedAt
  <2> QED
    BY <2>3, <2>4, <2>5 DEF StampInv
<1>3. ASSUME NEW s \in Slots, Discover(s) PROVE StampInv'
  <2>1. /\ pc[s] = "discover" /\ pc' = [pc EXCEPT ![s] = "pairs"]
        /\ UNCHANGED <<run, cache, nextRun>>
    BY <1>3 DEF Discover, historyVars
  <2>2. pc[s] \in Running /\ SavedAt["pairs"] = {}
    BY <2>1 DEF Running, SavedAt
  <2>3. \A t \in Slots : t = s /\ pc'[t] = "pairs"
    BY <1>t, <2>1 DEF TypeOK, OneSlot
  <2> QED
    BY <2>1, <2>2, <2>3 DEF StampInv, StampCommits
<1>4. ASSUME NEW s \in Slots, DiscoverFails(s) PROVE StampInv'
  <2>1. /\ pc' = [pc EXCEPT ![s] = "fallback"]
        /\ run' = [run EXCEPT ![s] = 0]
        /\ UNCHANGED <<cache, nextRun>>
    BY <1>4 DEF DiscoverFails, EnterFallback
  <2> QED
    BY <1>t, <1>p, <2>1, StampKept DEF TypeOK
<1>5. ASSUME NEW s \in Slots, SetRedis(s) PROVE StampInv'
  BY <1>5, <1>n DEF SetRedis, Entry
<1>6. ASSUME NEW s \in Slots, OpenFile(s) PROVE StampInv'
  <2>1. /\ UNCHANGED <<pc, run, nextRun>>
        /\ \A k \in Keys : cache'[k] = cache[k] \/ cache'[k].text /= "whole"
    BY <1>6, <1>t DEF OpenFile, historyVars, Entry, TypeOK
  <2> QED
    BY <2>1, StampKept
<1>7. ASSUME NEW s \in Slots, FillFile(s) PROVE StampInv'
  BY <1>7, <1>n DEF FillFile, Entry
<1>8. ASSUME NEW s \in Slots, SaveFails(s) PROVE StampInv'
  <2>1. pc[s] \in Keys /\ pc' = [pc EXCEPT ![s] = "fallback"] /\ UNCHANGED nextRun
    BY <1>8 DEF SaveFails, EnterFallback
  <2>2. pc'[s] \notin Running
    BY <1>t, <1>p, <2>1 DEF TypeOK
  <2>3. \A k \in Keys : \/ cache'[k] = cache[k]
                        \/ cache'[k].text /= "whole"
                        \/ k = pc[s] /\ cache'[k].run = run[s]
    BY <1>8, <1>t DEF SaveFails, FailedWrite, Entry, TypeOK
  <2> QED
    BY <2>1, <2>2, <2>3, StampWritten
<1>9. ASSUME NEW r \in Readers, NEW k \in ServedKeys, ReadKey(r, k) PROVE StampInv'
  BY <1>9, <1>k DEF ReadKey, historyVars
<1>10. ASSUME NEW r \in Readers, NEW k \in ServedKeys, ReadFails(r, k) PROVE StampInv'
  BY <1>10, <1>k DEF ReadFails, historyVars
<1>11. ASSUME NEW s \in Slots, FallbackServes(s) PROVE StampInv'
  BY <1>11, <1>t, <1>p, StampKept DEF FallbackServes, historyVars, TypeOK
<1>12. ASSUME NEW s \in Slots, FallbackFails(s) PROVE StampInv'
  BY <1>12, <1>t, <1>p, StampKept DEF FallbackFails, historyVars, TypeOK
<1>13. ASSUME NEW c \in Clients, Request(c) PROVE StampInv'
  BY <1>13, <1>k DEF Request, historyVars
<1>14. ASSUME NEW c \in Clients, Respond(c) PROVE StampInv'
  BY <1>14, <1>k DEF Respond, historyVars
<1>15. ASSUME NEW k \in Keys, Expire(k) PROVE StampInv'
  <2>1. /\ UNCHANGED <<pc, run, nextRun>>
        /\ \A m \in Keys : cache'[m] = cache[m] \/ cache'[m].text /= "whole"
    BY <1>15, <1>t DEF Expire, historyVars, None, Entry, TypeOK
  <2> QED
    BY <2>1, StampKept
<1>16. ASSUME Crash PROVE StampInv'
  BY <1>16, <1>p, StampKept DEF Crash
<1>17. CASE UNCHANGED vars
  BY <1>17, <1>k DEF vars
<1>18. ASSUME NEW s \in Slots, Return(s) PROVE StampInv'
  BY <1>18, <1>t, <1>p, StampKept DEF Return, historyVars, TypeOK
<1> QED
  BY <1>1, <1>2, <1>3, <1>4, <1>5, <1>6, <1>7, <1>8, <1>9, <1>10, <1>11,
     <1>12, <1>13, <1>14, <1>15, <1>16, <1>17, <1>18
     DEF Next, SlotStep, ClientStep, Readers

(* With one slot the stamp is a commit record, on both backends, however   *)
(* often saves fail, keys expire or the process dies: no key holds a later *)
(* run than the keys that are saved before it.                             *)
THEOREM StampCorrect == OneSlot => (Spec => []StampCommits)
<1> SUFFICES ASSUME OneSlot PROVE Spec => []StampCommits
  OBVIOUS
<1>1. StampInv => StampCommits
  BY DEF StampInv
<1>2. IInv /\ StampInv /\ [Next]_vars => (IInv /\ StampInv)'
  BY StepStamp, StepIInv
<1> QED
  BY <1>1, <1>2, InitStamp, InitIInv, PTL DEF Spec

-----------------------------------------------------------------------------
(* The refresh cycle implements ResultStore, for any number of slots,      *)
(* clients, jobs and faults and for both backends.  Each step is a step of *)
(* the store or leaves it alone: taking a job begins a refresh, the last   *)
(* save completes it, a failure makes its slot a reader, a crash ends      *)
(* refreshes and readers together.  A read is given a result the store     *)
(* allows because of CacheCurrent and because every result in the cache is *)
(* of a run that began:                                                    *)
(*   Started - runs in progress and readable keys have numbers of runs     *)
(*             that began.                                                 *)
Started ==
    /\ nextRun >= 1
    /\ \A s \in Slots : pc[s] \in Running => run[s] \in 1 .. nextRun - 1
    /\ \A k \in Keys : cache[k].text = "whole" => cache[k].run \in 1 .. nextRun - 1

RInv == IInv /\ Started

LEMMA InitStarted == Init => Started
  BY DEF Init, Started, Running, Keys, ServedKeys, None, Entry

(* Started holds on as long as only runs in progress write readable keys.  *)
LEMMA StartedKept ==
    ASSUME TypeOK, TypeOK', Started, UNCHANGED nextRun,
           \A s \in Slots : pc'[s] \in Running => pc[s] \in Running /\ run'[s] = run[s],
           \A k \in Keys : \/ cache'[k] = cache[k]
                           \/ cache'[k].text /= "whole"
                           \/ \E s \in Slots : pc[s] \in Running /\ cache'[k].run = run[s]
    PROVE  Started'
  BY DEF Started

LEMMA StepStarted == RInv /\ [Next]_vars => Started'
<1> SUFFICES ASSUME RInv, [Next]_vars PROVE Started'
  OBVIOUS
<1>t. TypeOK /\ TypeOK' /\ Started
  BY StepType DEF RInv, IInv
<1>p. /\ {"idle", "saved", "fallback"} \cap Running = {}
      /\ Keys \subseteq Running
      /\ "discover" \in Running /\ "pairs" \in Keys
  BY DEF Running, Keys, ServedKeys
<1>f. ASSUME NEW s \in Slots, pc[s] \in Running, EnterFallback(s),
             \A k \in Keys : cache'[k] = cache[k] \/ cache'[k].run = run[s]
                              \/ cache'[k].text /= "whole"
      PROVE  Started'
  <2>1. \A t \in Slots : pc'[t] \in Running => pc[t] \in Running /\ run'[t] = run[t]
    BY <1>f, <1>t, <1>p DEF EnterFallback, TypeOK
  <2> QED
    BY <1>f, <1>t, <2>1, StartedKept DEF EnterFallback
<1>n. ASSUME NEW s \in Slots, pc[s] \in Keys, NextSave(s), NEW e,
             cache' = [cache EXCEPT ![pc[s]] = e],
             e.run = run[s] \/ e.text /= "whole"
      PROVE  Started'
  <2>1. \A t \in Slots : pc'[t] \in Running => pc[t] \in Running /\ run'[t] = run[t]
    <3>1. CASE After[pc[s]] = "saved"
      BY <1>n, <1>t, <1>p, <3>1 DEF NextSave, TypeOK
    <3>2. CASE After[pc[s]] /= "saved"
      BY <1>n, <1>t, <1>p, <3>2 DEF NextSave, TypeOK
    <3> QED
      BY <3>1, <3>2
  <2>2. \A k \in Keys : cache'[k] = cache[k] \/ cache'[k].run = run[s]
                            \/ cache'[k].text /= "whole"
    BY <1>n, <1>t DEF TypeOK
  <2> QED
    BY <1>n, <1>t, <1>p, <2>1, <2>2, StartedKept DEF NextSave
<1>1. ASSUME NEW j \in Jobs, Enqueue(j) PROVE Started'
  BY <1>1, <1>t, StartedKept DEF Enqueue, historyVars
<1>2. ASSUME NEW s \in Slots, NEW j \in Jobs, Take(s, j) PROVE Started'
  <2>1. /\ pc' = [pc EXCEPT ![s] = "discover"]
        /\ run' = [run EXCEPT ![s] = nextRun]
        /\ nextRun' = nextRun + 1
        /\ UNCHANGED cache
    BY <1>2 DEF Take
  <2>2. nextRun \in Nat
    BY <1>t DEF TypeOK
  <2> QED
    BY <1>t, <2>1, <2>2 DEF Started, TypeOK
<1>3. ASSUME NEW s \in Slots, Discover(s) PROVE Started'
  <2>1. \A t \in Slots : pc'[t] \in Running => pc[t] \in Running /\ run'[t] = run[t]
    BY <1>3, <1>t, <1>p DEF Discover, TypeOK
  <2> QED
    BY <1>3, <1>t, <2>1, StartedKept DEF Discover, historyVars
<1>4. ASSUME NEW s \in Slots, DiscoverFails(s) PROVE Started'
  BY <1>4, <1>f, <1>p DEF DiscoverFails
<1>5. ASSUME NEW s \in Slots, SetRedis(s) PROVE Started'
  BY <1>5, <1>n DEF SetRedis, Entry
<1>6. ASSUME NEW s \in Slots, OpenFile(s) PROVE Started'
  <2>1. \A k \in Keys : cache'[k] = cache[k] \/ cache'[k].text /= "whole"
    BY <1>6, <1>t DEF OpenFile, Entry, TypeOK
  <2> QED
    BY <1>6, <1>t, <2>1, StartedKept DEF OpenFile, historyVars
<1>7. ASSUME NEW s \in Slots, FillFile(s) PROVE Started'
  BY <1>7, <1>n DEF FillFile, Entry
<1>8. ASSUME NEW s \in Slots, SaveFails(s) PROVE Started'
  <2>1. \A k \in Keys : cache'[k] = cache[k] \/ cache'[k].run = run[s]
                            \/ cache'[k].text /= "whole"
    BY <1>8, <1>t DEF SaveFails, FailedWrite, Entry, TypeOK
  <2> QED
    BY <1>8, <1>f, <1>p, <2>1 DEF SaveFails
<1>9. ASSUME NEW r \in Readers, NEW k \in ServedKeys, ReadKey(r, k) \/ ReadFails(r, k)
      PROVE  Started'
  BY <1>9, <1>t, StartedKept DEF ReadKey, ReadFails, historyVars
<1>10. ASSUME NEW s \in Slots, FallbackServes(s) \/ FallbackFails(s) PROVE Started'
  <2>1. \A t \in Slots : pc'[t] \in Running => pc[t] \in Running /\ run'[t] = run[t]
    BY <1>10, <1>t, <1>p DEF FallbackServes, FallbackFails, TypeOK
  <2> QED
    BY <1>10, <1>t, <2>1, StartedKept DEF FallbackServes, FallbackFails, historyVars
<1>11. ASSUME NEW c \in Clients, Request(c) \/ Respond(c) PROVE Started'
  BY <1>11, <1>t, StartedKept DEF Request, Respond, historyVars
<1>12. ASSUME NEW k \in Keys, Expire(k) PROVE Started'
  <2>1. \A m \in Keys : cache'[m] = cache[m] \/ cache'[m].text /= "whole"
    BY <1>12, <1>t DEF Expire, None, Entry, TypeOK
  <2> QED
    BY <1>12, <1>t, <2>1, StartedKept DEF Expire, historyVars
<1>13. ASSUME Crash PROVE Started'
  <2>1. \A t \in Slots : pc'[t] \notin Running
    BY <1>13, <1>p DEF Crash
  <2> QED
    BY <1>13, <1>t, <2>1, StartedKept DEF Crash
<1>14. CASE UNCHANGED vars
  BY <1>14, <1>t, StartedKept DEF vars
<1>15. ASSUME NEW s \in Slots, Return(s) PROVE Started'
  <2>1. \A t \in Slots : pc'[t] \in Running => pc[t] \in Running /\ run'[t] = run[t]
    BY <1>15, <1>t, <1>p DEF Return, TypeOK
  <2> QED
    BY <1>15, <1>t, <2>1, StartedKept DEF Return, historyVars
<1> QED
  BY <1>1, <1>2, <1>3, <1>4, <1>5, <1>6, <1>7, <1>8, <1>9, <1>10, <1>11,
     <1>12, <1>13, <1>14, <1>15 DEF Next, SlotStep, ClientStep, Readers

LEMMA StepRInv == RInv /\ [Next]_vars => RInv'
  BY StepIInv, StepStarted DEF RInv

-----------------------------------------------------------------------------
(* The steps of the refresh cycle, as steps of the store.                  *)

LEMMA InitStore == Init => Store!Init
  BY DEF Init, Store!Init, Store!Nothing, Store!Unread, Blank, Unread, Entry

(* A run in progress is a refresh in progress.                             *)
LEMMA RunInProgress ==
    ASSUME RInv, NEW s \in Slots, pc[s] \in Running
    PROVE  run[s] \in Store!InProgress
  BY DEF RInv, IInv, RunsInProgress, Started, Store!InProgress, Store!Begun

(* Steps that touch no run and no reader are stutters of the store.        *)
LEMMA StoreStutters ==
    ASSUME UNCHANGED <<nextRun, ended, completed, older, floor, got>>
    PROVE  UNCHANGED Store!vars
  BY DEF Store!vars

(* A save ends the refresh if it was the last one, or is not seen.         *)
LEMMA SaveStore ==
    ASSUME RInv, NEW s \in Slots, pc[s] \in Keys, NextSave(s)
    PROVE  [Store!Next]_(Store!vars)
<1>1. CASE After[pc[s]] = "saved"
  <2>1. Store!Complete(run[s])
    BY <1>1 DEF NextSave, readVars, Store!Complete
  <2>2. run[s] \in Store!InProgress
    BY RunInProgress DEF Running
  <2> QED
    BY <2>1, <2>2 DEF Store!Next
<1>2. CASE After[pc[s]] /= "saved"
  BY <1>2, StoreStutters DEF NextSave, readVars
<1> QED
  BY <1>1, <1>2

(* A run that fails makes its slot a reader.                               *)
LEMMA FallbackStore ==
    ASSUME RInv, NEW s \in Slots, pc[s] \in Running, EnterFallback(s)
    PROVE  Store!Next
<1>1. Store!FallBack(run[s], s)
  BY DEF EnterFallback, BeginRead, Store!FallBack, Store!Open, Store!Nothing,
         Store!Unread, Blank, Unread, Entry
<1> QED
  BY <1>1, RunInProgress DEF Store!Next, Readers

(* What a reader finds in the cache is of a run that began, and was over   *)
(* before no run that had completed when the reader began.                 *)
LEMMA ReadStore ==
    ASSUME RInv, NEW r \in Readers, NEW k \in ServedKeys, ReadKey(r, k) \/ ReadFails(r, k)
    PROVE  Store!Next
<1>1. /\ got[r][k] = Unread
      /\ UNCHANGED <<nextRun, ended, completed, older, floor>>
  BY DEF ReadKey, ReadFails, Pending, historyVars
<1>2. CASE got' = [got EXCEPT ![r][k] = Null]
  BY <1>1, <1>2 DEF Store!Next, Store!Give, Store!Missing, Store!Unread,
                    Null, Unread, Entry
<1>3. CASE cache[k].text = "whole" /\ got' = [got EXCEPT ![r][k] = cache[k]]
  <2>1. /\ k \in Keys
        /\ cache[k] \in Entries
        /\ cache[k].run \in Store!Begun
    BY <1>3 DEF RInv, IInv, TypeOK, Started, Keys, Store!Begun
  <2>2. cache[k] = Store!Result(cache[k].run)
    BY <1>3, <2>1 DEF Entries, Store!Result
  <2>3. ~Store!Superseded(cache[k].run, r)
    BY <1>3, <2>1 DEF RInv, IInv, CacheCurrent, Current, ReadsCurrent, Store!Superseded
  <2>4. Store!Give(r, k)
    BY <1>1, <1>3, <2>1, <2>2, <2>3 DEF Store!Give, Store!Unread, Unread, Entry
  <2> QED
    BY <2>4 DEF Store!Next
<1> QED
  BY <1>2, <1>3 DEF ReadKey, ReadFails, Read

(* A reader that is through with its reads.                                *)
LEMMA EndStore ==
    ASSUME NEW r \in Readers, EndRead(r), UNCHANGED historyVars
    PROVE  Store!Next
<1>1. Store!StopReading(r)
  BY DEF EndRead, historyVars, Store!StopReading, Store!Nothing, Store!Unread,
         Blank, Unread, Entry
<1> QED
  BY <1>1 DEF Store!Next

(* A crash ends the runs in progress and makes the slots forget what they  *)
(* read.                                                                   *)
LEMMA CrashStore ==
    ASSUME RInv, Crash
    PROVE  Store!Next
<1> DEFINE R == {run[s] : s \in {t \in Slots : pc[t] \in Running}}
<1>1. R \in SUBSET Store!InProgress
  BY RunInProgress
<1>2. Slots \in SUBSET Readers
  BY DEF Readers
<1>3. Store!Die(R, Slots)
  BY DEF Crash, Store!Die, Store!Nothing, Store!Unread, Blank, Unread, Entry
<1> QED
  BY <1>1, <1>2, <1>3 DEF Store!Next

LEMMA StepStore == RInv /\ [Next]_vars => [Store!Next]_(Store!vars)
<1> SUFFICES ASSUME RInv, [Next]_vars PROVE [Store!Next]_(Store!vars)
  OBVIOUS
<1>r. Slots \subseteq Readers /\ Clients \subseteq Readers
  BY DEF Readers
<1>1. ASSUME NEW j \in Jobs, Enqueue(j) PROVE [Store!Next]_(Store!vars)
  BY <1>1, StoreStutters DEF Enqueue, readVars, historyVars
<1>2. ASSUME NEW s \in Slots, NEW j \in Jobs, Take(s, j) PROVE [Store!Next]_(Store!vars)
  BY <1>2 DEF Take, readVars, Store!Next, Store!Begin
<1>3. ASSUME NEW s \in Slots, Discover(s) \/ OpenFile(s) \/ Return(s)
      PROVE  [Store!Next]_(Store!vars)
  BY <1>3, StoreStutters DEF Discover, OpenFile, Return, readVars, historyVars
<1>4. ASSUME NEW s \in Slots, DiscoverFails(s) \/ SaveFails(s)
      PROVE  [Store!Next]_(Store!vars)
  BY <1>4, FallbackStore DEF DiscoverFails, SaveFails, Running
<1>5. ASSUME NEW s \in Slots, SetRedis(s) \/ FillFile(s) PROVE [Store!Next]_(Store!vars)
  BY <1>5, SaveStore DEF SetRedis, FillFile
<1>6. ASSUME NEW r \in Readers, NEW k \in ServedKeys, ReadKey(r, k) \/ ReadFails(r, k)
      PROVE  [Store!Next]_(Store!vars)
  BY <1>6, ReadStore
<1>7. ASSUME NEW s \in Slots, FallbackServes(s) \/ FallbackFails(s)
      PROVE  [Store!Next]_(Store!vars)
  BY <1>7, <1>r, EndStore DEF FallbackServes, FallbackFails
<1>8. ASSUME NEW c \in Clients, Request(c) PROVE [Store!Next]_(Store!vars)
  <2>1. Store!StartReading(c)
    BY <1>8 DEF Request, BeginRead, historyVars, Store!StartReading, Store!Open,
                Store!Nothing, Store!Unread, Blank, Unread, Entry
  <2> QED
    BY <1>r, <2>1 DEF Store!Next
<1>9. ASSUME NEW c \in Clients, Respond(c) PROVE [Store!Next]_(Store!vars)
  BY <1>9, <1>r, EndStore DEF Respond
<1>10. ASSUME NEW k \in Keys, Expire(k) PROVE [Store!Next]_(Store!vars)
  BY <1>10, StoreStutters DEF Expire, historyVars
<1>11. CASE Crash
  BY <1>11, CrashStore
<1>12. CASE UNCHANGED vars
  BY <1>12, StoreStutters DEF vars
<1> QED
  BY <1>1, <1>2, <1>3, <1>4, <1>5, <1>6, <1>7, <1>8, <1>9, <1>10, <1>11, <1>12,
     <1>r DEF Next, SlotStep, ClientStep

(* Seen from its readers the refresh cycle is the store of results:        *)
(* whatever overlaps, fails, dies or falls back, each reader is given      *)
(* results of runs that began and that no completed run superseded.        *)
THEOREM Refines == Spec => ImplementsResultStore
<1>1. Init => RInv
  BY InitIInv, InitStarted DEF RInv
<1> QED
  BY <1>1, StepRInv, InitStore, StepStore, PTL DEF Spec, ImplementsResultStore, Store!Spec
=============================================================================
