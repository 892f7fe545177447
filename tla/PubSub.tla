-------------------------------- MODULE PubSub --------------------------------
(***************************************************************************)
(* Redis publish/subscribe (utils/redisPubSub.ts): a save of pairs, stats  *)
(* or lastUpdate writes its key and then awaits a message about it         *)
(* (CacheManager.ts:17-33); the bridge would publish every event of the    *)
(* bus without awaiting it (RedisDiscoveryBridge.ts:19-27).  All calls     *)
(* share one ioredis connection, on which each of them calls connect().    *)
(*                                                                         *)
(* ioredis is external: connect() rejects at once on a connection that is  *)
(* connecting or ready, and when its own attempt fails; a lost or failed   *)
(* connection is tried again on a timer; commands without an answer are    *)
(* sent again on the next connection, and rejected after MaxRetries of     *)
(* them have failed in a row.  Writes that reject are in RefreshCycle.     *)
(* The receiving side is left out: subscribe() is given the handler as its *)
(* reply callback (redisPubSub.ts:39), which no message ever reaches.      *)
(***************************************************************************)
EXTENDS Naturals, FiniteSets

CONSTANTS
    Slots,         \* slots of the worker that save, one refresh each
    Events,        \* events the bridge publishes
    MaxRetries,    \* maxRetriesPerRequest (3)
    MaxLosses      \* bound: ready connections that are lost

ASSUME CallerAssumption == Slots \cap Events = {}
ASSUME LimitAssumption  == MaxRetries \in Nat \ {0} /\ MaxLosses \in Nat

VARIABLES
    saving,        \* slot -> the key it saves, or "done"
    written,       \* slot -> the keys it has written
    call,          \* caller -> "none", "connecting", "sent", "taken" (by Redis,
                   \*           not yet answered) or "over" (events)
    status,        \* publisher.status
    retries,       \* attempts that failed since the connection was last ready
                   \* or commands were last rejected (retryAttempts)
    taken,         \* messages Redis has published
    counted,       \* messagesPublished
    losses         \* ready connections lost so far

vars == <<saving, written, call, status, retries, taken, counted, losses>>

Callers   == Slots \cup Events
Announced == {"pairs", "stats", "lastUpdate"}
After     == [pairs |-> "tokens", tokens |-> "stats", stats |-> "lastUpdate",
              lastUpdate |-> "done"]

TypeOK ==
    /\ saving \in [Slots -> DOMAIN After \cup {"done"}]
    /\ written \in [Slots -> SUBSET DOMAIN After]
    /\ call \in [Callers -> {"none", "connecting", "sent", "taken", "over"}]
    /\ status \in {"wait", "connecting", "ready", "reconnecting"}
    /\ retries \in 0 .. MaxRetries
    /\ taken \subseteq Callers \X (Announced \cup {"event"})
    /\ counted \in Nat
    /\ losses \in 0 .. MaxLosses

Init ==
    /\ saving = [s \in Slots |-> "pairs"]
    /\ written = [s \in Slots |-> {}]
    /\ call = [c \in Callers |-> "none"]
    /\ status = "wait"
    /\ retries = 0
    /\ taken = {}
    /\ counted = 0
    /\ losses = 0

-----------------------------------------------------------------------------
Message(c) == <<c, IF c \in Slots THEN saving[c] ELSE "event">>

(* Mutant of Return: a call that failed is made again.                     *)
ReturnRetries(C) ==
    /\ call' = [c \in Callers |-> IF c \notin C THEN call[c]
                                  ELSE IF call[c] = "taken" /\ c \in Events THEN "over" ELSE "none"]
    /\ saving' = [s \in Slots |-> IF s \in C /\ call[s] = "taken" THEN After[saving[s]]
                                                                  ELSE saving[s]]

(* The calls of C are over, with or without success: publishRedisMessage   *)
(* never rejects, and the slots go on to their next key.                   *)
Return(C) ==
    /\ call' = [c \in Callers |-> IF c \notin C THEN call[c]
                                  ELSE IF c \in Events THEN "over" ELSE "none"]
    /\ saving' = [s \in Slots |-> IF s \in C THEN After[saving[s]] ELSE saving[s]]

(* Mutant of Connect: an error of connect() is ignored.                    *)
ConnectAnyhow(c) ==
    \/ /\ status \in {"wait", "reconnecting"}
       /\ status' = "connecting"
       /\ call' = [call EXCEPT ![c] = "connecting"]
       /\ UNCHANGED saving
    \/ /\ status \in {"connecting", "ready"}
       /\ call' = [call EXCEPT ![c] = "sent"]
       /\ UNCHANGED <<status, saving>>

(* publishRedisMessage: it opens the connection, or is over at once.       *)
Connect(c) ==
    \/ /\ status \in {"wait", "reconnecting"}
       /\ status' = "connecting"
       /\ call' = [call EXCEPT ![c] = "connecting"]
       /\ UNCHANGED saving
    \/ /\ status \in {"connecting", "ready"}
       /\ Return({c})
       /\ UNCHANGED status

(* Mutant of Save: the write is not awaited, and takes longer.             *)
SaveUnawaited(s) ==
    /\ saving[s] /= "done"
    /\ call[s] = "none"
    /\ IF saving[s] \in Announced
         THEN Connect(s) /\ UNCHANGED written
         ELSE /\ saving' = [saving EXCEPT ![s] = After[@]]
              /\ written' = [written EXCEPT ![s] = @ \cup {saving[s]}]
              /\ UNCHANGED <<call, status>>
    /\ UNCHANGED <<retries, taken, counted, losses>>

(* A slot has written its key; all but the tokens are announced.           *)
Save(s) ==
    /\ saving[s] /= "done"
    /\ call[s] = "none"
    /\ written' = [written EXCEPT ![s] = @ \cup {saving[s]}]
    /\ IF saving[s] \in Announced
         THEN Connect(s)
         ELSE saving' = [saving EXCEPT ![s] = After[@]] /\ UNCHANGED <<call, status>>
    /\ UNCHANGED <<retries, taken, counted, losses>>

(* The bridge publishes an event of the local bus.                         *)
PublishLocalEvent(e) ==
    /\ call[e] = "none"
    /\ Connect(e)
    /\ UNCHANGED <<written, retries, taken, counted, losses>>

-----------------------------------------------------------------------------
(* The connection.                                                         *)

(* The timer of ioredis calls connect().                                   *)
Reconnect ==
    /\ status = "reconnecting"
    /\ status' = "connecting"
    /\ UNCHANGED <<saving, written, call, retries, taken, counted, losses>>

(* connect() resolves and its caller publishes.                            *)
Ready ==
    /\ status = "connecting"
    /\ status' = "ready"
    /\ retries' = 0
    /\ call' = [c \in Callers |-> IF call[c] = "connecting" THEN "sent" ELSE call[c]]
    /\ UNCHANGED <<saving, written, taken, counted, losses>>

(* Mutant of ConnectFails: commands wait without a limit.                  *)
ConnectFailsUnlimited ==
    /\ status = "connecting"
    /\ status' = "reconnecting"
    /\ retries' = retries + 1
    /\ Return({c \in Callers : call[c] = "connecting"})
    /\ UNCHANGED <<written, taken, counted, losses>>

(* connect() rejects; at the limit so do the commands that wait.           *)
ConnectFails ==
    /\ status = "connecting"
    /\ status' = "reconnecting"
    /\ retries' = IF retries < MaxRetries THEN retries + 1 ELSE 0
    /\ Return({c \in Callers : \/ call[c] = "connecting"
                               \/ call[c] = "sent" /\ retries = MaxRetries})
    /\ UNCHANGED <<written, taken, counted, losses>>

(* A ready connection is lost, and with it any answer under way.           *)
Lose ==
    /\ status = "ready"
    /\ losses < MaxLosses
    /\ losses' = losses + 1
    /\ status' = "reconnecting"
    /\ retries' = 1
    /\ call' = [c \in Callers |-> IF call[c] = "taken" THEN "sent" ELSE call[c]]
    /\ UNCHANGED <<saving, written, taken, counted>>

(* Redis publishes a message ...                                           *)
Take(c) ==
    /\ status = "ready"
    /\ call[c] = "sent"
    /\ call' = [call EXCEPT ![c] = "taken"]
    /\ taken' = taken \cup {Message(c)}
    /\ UNCHANGED <<saving, written, status, retries, counted, losses>>

(* Mutant of Answered: the counter is not reached.                         *)
AnsweredUncounted(c) ==
    /\ call[c] = "taken"
    /\ Return({c})
    /\ UNCHANGED <<written, status, retries, taken, counted, losses>>

(* ... and its answer arrives: the message is counted.                     *)
Answered(c) ==
    /\ call[c] = "taken"
    /\ Return({c})
    /\ counted' = counted + 1
    /\ UNCHANGED <<written, status, retries, taken, losses>>

CallStep(c) == Take(c) \/ Answered(c)
Connection  == Reconnect \/ Ready \/ ConnectFails

Next ==
    \/ \E s \in Slots : Save(s)
    \/ \E e \in Events : PublishLocalEvent(e)
    \/ \E c \in Callers : CallStep(c)
    \/ Connection
    \/ Lose

(* Writes settle, timers fire, connection attempts end (connectTimeout),   *)
(* and on a connection that lasts Redis answers.  No attempt need succeed. *)
Spec ==
    /\ Init /\ [][Next]_vars
    /\ \A s \in Slots : WF_vars(Save(s))
    /\ \A c \in Callers : WF_vars(CallStep(c))
    /\ WF_vars(Connection)

-----------------------------------------------------------------------------
(* A message never precedes what it announces: whenever Redis publishes    *)
(* the message of a save, again after a lost answer included, the key has  *)
(* been written (CacheManager.ts:17-33).                                   *)
AnnouncedAfterWritten ==
    \A m \in taken : m[1] \in Slots => m[2] \in written[m[1]]

(* The metric messagesPublished counts messages that were published, and   *)
(* misses none but those whose answer is under way or was lost with its    *)
(* connection, however calls overlap and are dropped                       *)
(* (redisPubSub.ts:18-26).                                                 *)
CountedWerePublished ==
    /\ counted <= Cardinality(taken)
    /\ Cardinality(taken) <=
         counted + losses + Cardinality({c \in Callers : call[c] = "taken"})

(* What subscribers can count on is no more than one message for each      *)
(* connection that was ever ready: every call connects, and a connection   *)
(* that is there makes connect() reject and the message be dropped         *)
(* (redisPubSub.ts:20).                                                    *)
OneMessagePerConnection ==
    Cardinality(taken) <= losses + (IF status = "ready" THEN 1 ELSE 0)

(* Pub/sub never holds a refresh up: its saves get through even if Redis   *)
(* never lets the publisher connect, or loses it in the middle of messages *)
(* (redisPubSub.ts:18-26 awaited by CacheManager.ts:20).                   *)
SavesSettle == \A s \in Slots : <>(saving[s] = "done")
=============================================================================
