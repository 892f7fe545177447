----------------------------- MODULE PubSubProofs -----------------------------
(***************************************************************************)
(* Proofs about PubSub for any number of slots, of events and of lost      *)
(* connections: type correctness, AnnouncedAfterWritten,                   *)
(* CountedWerePublished and OneMessagePerConnection.                       *)
(*                                                                         *)
(* None of them is inductive.  What they rest on:                          *)
(*   CallsSettled   - a call of a slot is about the key it saves, which it *)
(*                    has written; at most one call opens the connection;  *)
(*   NeverTwice     - the key a slot saves has not been announced before   *)
(*                    its call has sent the message, nor has an event;     *)
(*   OnePerLoss     - messages taken or still waiting to be are no more    *)
(*                    than the connections that were ready;                *)
(*   CountedSettled - the counter is at most the messages that are taken   *)
(*                    and whose calls are over.                            *)
(***************************************************************************)
EXTENDS PubSub, FiniteSetTheorems, TLAPS

Keys == {"pairs", "tokens", "stats", "lastUpdate"}

(* The keys a slot has saved before the one it saves.                      *)
SavedBefore == [pairs      |-> {},
                tokens     |-> {"pairs"},
                stats      |-> {"pairs", "tokens"},
                lastUpdate |-> {"pairs", "tokens", "stats"},
                done       |-> Keys]

InFlight(c) == call[c] \in {"sent", "taken"}

CallsSettled ==
    /\ \A s \in Slots : /\ call[s] /= "over"
                        /\ call[s] /= "none" => saving[s] \in Announced \cap written[s]
    /\ \A c \in Callers : call[c] = "connecting" => status = "connecting"
    /\ \A c, d \in Callers : (call[c] = "connecting" /\ call[d] = "connecting") => c = d
    /\ \A c \in Callers : call[c] = "taken" => Message(c) \in taken

NeverTwice ==
    \A m \in taken :
        /\ m[1] \in Slots => \/ m[2] \in SavedBefore[saving[m[1]]]
                             \/ m = Message(m[1]) /\ InFlight(m[1])
        /\ m[1] \in Events => call[m[1]] \in {"sent", "taken", "over"}

(* Messages that Redis has published, or still may on its own accord.      *)
Waiting == {Message(c) : c \in {d \in Callers : call[d] = "sent"}}
Out     == taken \cup Waiting

OnePerLoss ==
    /\ IsFiniteSet(Out)
    /\ Cardinality(Out) <= losses + (IF status = "ready" THEN 1 ELSE 0)

(* Messages that are published and whose calls are over.                   *)
Settled    == {m \in taken : ~(InFlight(m[1]) /\ m = Message(m[1]))}
Unanswered == {c \in Callers : call[c] = "taken"}

CountedSettled ==
    /\ counted <= Cardinality(Settled)
    /\ IsFiniteSet(Unanswered)
    /\ Cardinality(taken) <= counted + losses + Cardinality(Unanswered)

IInv ==
    /\ TypeOK /\ CallsSettled /\ AnnouncedAfterWritten /\ NeverTwice
    /\ OnePerLoss /\ CountedSettled

-----------------------------------------------------------------------------
(* The order of the saves.                                                 *)
LEMMA SaveOrder ==
    /\ DOMAIN After = Keys
    /\ Announced \subseteq Keys
    /\ "done" \notin Keys
    /\ \A k \in Keys : /\ After[k] \in Keys \cup {"done"}
                       /\ SavedBefore[After[k]] = SavedBefore[k] \cup {k}
  BY DEF After, Keys, Announced, SavedBefore

(* No key is saved before itself.                                          *)
LEMMA NotBefore == \A k \in Keys : k \notin SavedBefore[k]
  BY DEF Keys, SavedBefore

(* A message of a slot is about a key that is announced.                   *)
LEMMA MessageType ==
    ASSUME TypeOK, NEW c \in Callers, c \in Slots => saving[c] \in Announced
    PROVE  Message(c) \in Callers \X (Announced \cup {"event"})
  BY DEF Message, TypeOK

(* A message tells whose it is, and which key.                             *)
LEMMA MessageOf ==
    /\ \A c : Message(c)[1] = c
    /\ \A s \in Slots : Message(s) = <<s, saving[s]>>
    /\ \A e \in Events : Message(e) = <<e, "event">>
  BY CallerAssumption DEF Message

(* Finite sets that shrink or grow.                                        *)
LEMMA FiniteParts ==
    ASSUME OnePerLoss
    PROVE  /\ IsFiniteSet(taken) /\ Cardinality(taken) \in Nat
           /\ Cardinality(taken) <= Cardinality(Out) /\ Cardinality(Out) \in Nat
           /\ IsFiniteSet(Settled) /\ Cardinality(Settled) \in Nat
           /\ Cardinality(Settled) <= Cardinality(taken)
<1>1. taken \in SUBSET Out /\ Settled \in SUBSET taken
  BY DEF Out, Settled
<1>2. IsFiniteSet(Out) /\ Cardinality(Out) \in Nat
  BY FS_CardinalityType DEF OnePerLoss
<1>3. IsFiniteSet(taken) /\ Cardinality(taken) \in Nat /\ Cardinality(taken) <= Cardinality(Out)
  BY <1>1, <1>2, FS_Subset, FS_CardinalityType
<1> QED
  BY <1>1, <1>2, <1>3, FS_Subset, FS_CardinalityType

-----------------------------------------------------------------------------
LEMMA InitIInv == Init => IInv
<1> SUFFICES ASSUME Init PROVE IInv
  OBVIOUS
<1>1. TypeOK
  BY SaveOrder, LimitAssumption DEF Init, TypeOK, Keys
<1>2. CallsSettled /\ AnnouncedAfterWritten /\ NeverTwice
  BY DEF Init, CallsSettled, AnnouncedAfterWritten, NeverTwice, Callers
<1>3. Out = {} /\ Settled = {} /\ Unanswered = {}
  BY DEF Init, Out, Waiting, Settled, Unanswered
<1>4. OnePerLoss /\ CountedSettled
  BY <1>3, FS_EmptySet DEF Init, OnePerLoss, CountedSettled
<1> QED
  BY <1>1, <1>2, <1>4 DEF IInv

(* What Return does, call by call.                                         *)
LEMMA ReturnEffect ==
    ASSUME TypeOK, NEW C \in SUBSET Callers, Return(C),
           \A s \in Slots : s \in C => saving[s] \in Announced
    PROVE  /\ saving' \in [Slots -> DOMAIN After \cup {"done"}]
           /\ call' \in [Callers -> {"none", "connecting", "sent", "taken", "over"}]
           /\ \A c \in Callers \ C : call'[c] = call[c] /\ Message(c)' = Message(c)
           /\ \A s \in Slots : s \in C => call'[s] = "none" /\ saving'[s] = After[saving[s]]
           /\ \A s \in Slots : s \notin C => saving'[s] = saving[s]
           /\ \A e \in Events : e \in C => call'[e] = "over"
<1>1. /\ call' = [c \in Callers |-> IF c \notin C THEN call[c]
                                    ELSE IF c \in Events THEN "over" ELSE "none"]
      /\ saving' = [s \in Slots |-> IF s \in C THEN After[saving[s]] ELSE saving[s]]
  BY DEF Return
<1>2. \A s \in Slots : saving'[s] = IF s \in C THEN After[saving[s]] ELSE saving[s]
  BY <1>1
<1>3. saving' \in [Slots -> DOMAIN After \cup {"done"}]
  BY <1>1, SaveOrder DEF TypeOK
<1>4. \A c \in Callers : call'[c] = IF c \notin C THEN call[c]
                                  ELSE IF c \in Events THEN "over" ELSE "none"
  BY <1>1
<1>5. call' \in [Callers -> {"none", "connecting", "sent", "taken", "over"}]
  BY <1>1 DEF TypeOK
<1>6. \A c \in Callers \ C : Message(c)' = Message(c)
  BY <1>2 DEF Message
<1> QED
  BY <1>2, <1>3, <1>4, <1>5, <1>6, CallerAssumption DEF Callers

(* Calls that are over, be it with or without success, leave everything in *)
(* order but the counting, and settle their messages.                      *)
LEMMA ReturnKeeps ==
    ASSUME IInv, NEW C \in SUBSET Callers, Return(C), UNCHANGED taken,
           \A s \in Slots : /\ s \in C => saving[s] \in Announced \cap written'[s]
                            /\ written[s] \subseteq written'[s],
           \A c \in Callers \ C : call[c] = "connecting" => status' = "connecting"
    PROVE  /\ CallsSettled' /\ AnnouncedAfterWritten' /\ NeverTwice'
           /\ Out' \subseteq Out
           /\ Settled \subseteq Settled'
           /\ \A c \in C : Message(c) \in taken => Message(c) \in Settled'
<1> USE DEF IInv
<1>r. /\ \A c \in Callers \ C : call'[c] = call[c] /\ Message(c)' = Message(c)
      /\ \A s \in Slots : s \in C => call'[s] = "none" /\ saving'[s] = After[saving[s]]
      /\ \A s \in Slots : s \notin C => saving'[s] = saving[s]
      /\ \A e \in Events : e \in C => call'[e] = "over"
      /\ \A c \in C : call'[c] \in {"none", "over"}
  BY ReturnEffect DEF Callers
<1>1. CallsSettled'
  <2>1. \A s \in Slots : /\ call'[s] /= "over"
                         /\ call'[s] /= "none" => saving'[s] \in Announced \cap written'[s]
    BY <1>r DEF CallsSettled, Callers
  <2>2. \A c \in Callers : call'[c] = "connecting" => c \notin C /\ call[c] = "connecting"
    BY <1>r
  <2>3. \A c \in Callers : call'[c] = "taken" => Message(c)' \in taken'
    BY <1>r DEF CallsSettled
  <2> QED
    BY <2>1, <2>2, <2>3 DEF CallsSettled
<1>2. AnnouncedAfterWritten'
  BY DEF AnnouncedAfterWritten
<1>3. NeverTwice'
  <2> SUFFICES ASSUME NEW m \in taken
               PROVE  /\ m[1] \in Slots => \/ m[2] \in SavedBefore[saving'[m[1]]]
                                           \/ m = Message(m[1])' /\ InFlight(m[1])'
                      /\ m[1] \in Events => call'[m[1]] \in {"sent", "taken", "over"}
    BY DEF NeverTwice
  <2>1. CASE m[1] \notin C
    BY <1>r, <2>1 DEF NeverTwice, InFlight, Callers
  <2>2. CASE m[1] \in C /\ m[1] \in Events
    BY <1>r, <2>2, CallerAssumption
  <2>3. CASE m[1] \in C /\ m[1] \in Slots
    <3>1. m[2] \in SavedBefore[saving[m[1]]] \cup {saving[m[1]]}
      BY <2>3, MessageOf DEF NeverTwice
    <3>2. saving[m[1]] \in Keys
      BY <2>3, SaveOrder
    <3> QED
      BY <1>r, <2>3, <3>1, <3>2, SaveOrder, CallerAssumption
  <2> QED
    BY <2>1, <2>2, <2>3 DEF Callers
<1>4. Out' \subseteq Out
  BY <1>r DEF Out, Waiting
<1>5. ASSUME NEW m \in taken, m \in Settled \/ m[1] \in C
      PROVE  m \in Settled'
  <2>1. m[1] \in Callers
    BY DEF TypeOK
  <2> QED
    BY <1>r, <1>5, <2>1 DEF Settled, InFlight
<1>6. Settled \subseteq Settled' /\ \A c \in C : Message(c) \in taken => Message(c) \in Settled'
  BY <1>5, MessageOf DEF Settled
<1> QED
  BY <1>1, <1>2, <1>3, <1>4, <1>6

(* Less that waits, and as many connections.                               *)
LEMMA OutKept ==
    ASSUME IInv, Out' \subseteq Out, losses' = losses, status = "ready" => status' = "ready"
    PROVE  OnePerLoss'
<1>1. /\ IsFiniteSet(Out) /\ Out' \in SUBSET Out /\ Cardinality(Out) \in Nat
      /\ Cardinality(Out) <= losses + (IF status = "ready" THEN 1 ELSE 0)
  BY FiniteParts DEF IInv, OnePerLoss
<1>2. IsFiniteSet(Out') /\ Cardinality(Out') <= Cardinality(Out) /\ Cardinality(Out') \in Nat
  BY <1>1, FS_Subset, FS_CardinalityType
<1>3. losses \in Nat
  BY LimitAssumption DEF IInv, TypeOK
<1> QED
  BY <1>1, <1>2, <1>3 DEF OnePerLoss

(* The counter and the messages as they are, and no fewer that are settled. *)
LEMMA CountKept ==
    ASSUME IInv, OnePerLoss', UNCHANGED <<taken, counted, losses>>, Settled \subseteq Settled',
           Unanswered' = Unanswered
    PROVE  CountedSettled'
<1>1. IsFiniteSet(Settled') /\ Cardinality(Settled') \in Nat
  BY FiniteParts, FS_Subset, FS_CardinalityType DEF IInv, Settled
<1>2. Cardinality(Settled) <= Cardinality(Settled')
  BY <1>1, FS_Subset
<1>3. Cardinality(Settled) \in Nat /\ counted \in Nat
  BY FiniteParts DEF IInv, TypeOK
<1> QED
  BY <1>1, <1>2, <1>3 DEF IInv, CountedSettled

-----------------------------------------------------------------------------
(* A call opens the connection.                                            *)
LEMMA OpenKeepsIInv ==
    ASSUME IInv, NEW c \in Callers, call[c] = "none", status \in {"wait", "reconnecting"},
           status' = "connecting", call' = [call EXCEPT ![c] = "connecting"],
           written' \in [Slots -> SUBSET DOMAIN After],
           \A s \in Slots : written[s] \subseteq written'[s],
           c \in Slots => saving[c] \in Announced \cap written'[c],
           UNCHANGED <<saving, retries, taken, counted, losses>>
    PROVE  IInv'
<1> USE DEF IInv
<1>1. TypeOK'
  BY DEF TypeOK
<1>c. \A d \in Callers : call'[d] = IF d = c THEN "connecting" ELSE call[d]
  BY DEF TypeOK
<1>m. \A d : Message(d)' = Message(d)
  BY DEF Message
<1>2. CallsSettled'
  BY <1>c, <1>m DEF CallsSettled, Callers
<1>3. AnnouncedAfterWritten'
  BY DEF AnnouncedAfterWritten
<1>4. \A d \in Callers : InFlight(d)' <=> InFlight(d)
  BY <1>c DEF InFlight
<1>5. NeverTwice'
  BY <1>c, <1>m, <1>4 DEF NeverTwice, Callers
<1>6. Out' = Out /\ Unanswered' = Unanswered
  BY <1>c, <1>m DEF Out, Waiting, Unanswered
<1>7. Settled' = Settled
  <2>1. \A m \in taken : m[1] \in Callers
    BY DEF TypeOK
  <2> QED
    BY <1>m, <1>4, <2>1 DEF Settled
<1>8. OnePerLoss'
  BY <1>6, OutKept
<1> QED
  BY <1>1, <1>2, <1>3, <1>5, <1>6, <1>7, <1>8, CountKept

(* A call finds the connection connecting or ready, and is over.           *)
LEMMA RejectKeepsIInv ==
    ASSUME IInv, NEW c \in Callers, call[c] = "none", Return({c}),
           written' \in [Slots -> SUBSET DOMAIN After],
           \A s \in Slots : written[s] \subseteq written'[s],
           c \in Slots => saving[c] \in Announced \cap written'[c],
           UNCHANGED <<status, retries, taken, counted, losses>>
    PROVE  IInv'
<1> USE DEF IInv
<1>1. /\ saving' \in [Slots -> DOMAIN After \cup {"done"}]
      /\ call' \in [Callers -> {"none", "connecting", "sent", "taken", "over"}]
      /\ \A d \in Callers \ {c} : call'[d] = call[d]
      /\ call'[c] \in {"none", "over"}
  BY ReturnEffect DEF Callers
<1>2. /\ CallsSettled' /\ AnnouncedAfterWritten' /\ NeverTwice'
      /\ Out' \subseteq Out
      /\ Settled \subseteq Settled'
  <2>1. \A d \in Callers \ {c} : call[d] = "connecting" => status' = "connecting"
    BY DEF CallsSettled
  <2> QED
    BY <2>1, ReturnKeeps
<1>3. TypeOK'
  BY <1>1 DEF TypeOK
<1>4. Unanswered' = Unanswered
  BY <1>1 DEF Unanswered
<1>5. OnePerLoss'
  BY <1>2, OutKept
<1> QED
  BY <1>2, <1>3, <1>4, <1>5, CountKept

(* A slot has written a key.                                               *)
LEMMA SaveKeepsIInv ==
    ASSUME IInv, NEW s \in Slots, Save(s)
    PROVE  IInv'
<1> USE DEF IInv
<1>1. /\ saving[s] \in Keys /\ s \in Callers
      /\ call[s] = "none"
      /\ written' = [written EXCEPT ![s] = @ \cup {saving[s]}]
      /\ UNCHANGED <<retries, taken, counted, losses>>
  BY SaveOrder DEF Save, TypeOK, Callers
<1>2. /\ written' \in [Slots -> SUBSET DOMAIN After]
      /\ \A t \in Slots : written[t] \subseteq written'[t]
      /\ saving[s] \in written'[s]
  BY <1>1, SaveOrder DEF TypeOK
<1>3. CASE saving[s] \in Announced
  BY <1>1, <1>2, <1>3, OpenKeepsIInv, RejectKeepsIInv DEF Save, Connect
<1>4. CASE saving[s] \notin Announced
  <2>1. saving' = [saving EXCEPT ![s] = After[saving[s]]] /\ UNCHANGED <<call, status>>
    BY <1>4 DEF Save
  <2>2. \A t \in Slots : saving'[t] = IF t = s THEN After[saving[s]] ELSE saving[t]
    BY <2>1 DEF TypeOK
  <2>3. \A c : call[c] \in {"connecting", "sent", "taken"} => Message(c)' = Message(c)
    BY <1>1, <2>2 DEF Message
  <2>4. TypeOK'
    BY <1>1, <1>2, <2>1, SaveOrder DEF TypeOK
  <2>5. CallsSettled'
    BY <1>1, <1>2, <2>1, <2>2, <2>3 DEF CallsSettled
  <2>6. AnnouncedAfterWritten'
    BY <1>1, <1>2 DEF AnnouncedAfterWritten
  <2>7. NeverTwice'
    BY <1>1, <2>1, <2>2, <2>3, SaveOrder DEF NeverTwice, InFlight
  <2>8. Out' = Out /\ Settled' = Settled /\ Unanswered' = Unanswered
    BY <1>1, <2>1, <2>3 DEF Out, Waiting, Settled, Unanswered, InFlight
  <2>9. OnePerLoss'
    BY <1>1, <2>1, <2>8, OutKept
  <2> QED
    BY <1>1, <2>4, <2>5, <2>6, <2>7, <2>8, <2>9, CountKept
<1> QED
  BY <1>3, <1>4

(* The connection is ready, and the call that opened it, if any, is sent:  *)
(* one message more at the most, and one that was not published before.    *)
LEMMA ReadyKeepsIInv ==
    ASSUME IInv, Ready
    PROVE  IInv'
<1> USE DEF IInv
<1>1. /\ status = "connecting" /\ status' = "ready" /\ retries' = 0
      /\ call' = [c \in Callers |-> IF call[c] = "connecting" THEN "sent" ELSE call[c]]
      /\ UNCHANGED <<saving, written, taken, counted, losses>>
  BY DEF Ready
<1>m. \A d : Message(d)' = Message(d)
  BY <1>1 DEF Message
<1>c. \A c \in Callers : call'[c] = IF call[c] = "connecting" THEN "sent" ELSE call[c]
  BY <1>1
<1>2. TypeOK'
  BY <1>1, LimitAssumption DEF TypeOK
<1>3. CallsSettled'
  BY <1>1, <1>c, <1>m DEF CallsSettled, Callers
<1>4. AnnouncedAfterWritten'
  BY <1>1 DEF AnnouncedAfterWritten
<1>5. NeverTwice'
  BY <1>1, <1>c, <1>m DEF NeverTwice, InFlight, Callers
<1>6. OnePerLoss'
  <2>0. losses \in Nat /\ IsFiniteSet(Out) /\ Cardinality(Out) \in Nat
    BY FiniteParts, LimitAssumption DEF TypeOK, OnePerLoss
  <2>1. CASE \E c \in Callers : call[c] = "connecting"
    <3>1. PICK c \in Callers : call[c] = "connecting"
      BY <2>1
    <3>2. \A d \in Callers : call'[d] = "sent" => d = c \/ call[d] = "sent"
      BY <1>c, <3>1 DEF CallsSettled
    <3>3. Out' \subseteq Out \cup {Message(c)}
      BY <1>1, <1>m, <3>2 DEF Out, Waiting
    <3>4. /\ IsFiniteSet(Out \cup {Message(c)})
          /\ Cardinality(Out \cup {Message(c)}) <= Cardinality(Out) + 1
      BY <2>0, FS_AddElement
    <3>5. /\ IsFiniteSet(Out') /\ Cardinality(Out') \in Nat
          /\ Cardinality(Out') <= Cardinality(Out \cup {Message(c)})
          /\ Cardinality(Out \cup {Message(c)}) \in Nat
      BY <3>3, <3>4, FS_Subset, FS_CardinalityType
    <3> QED
      BY <1>1, <2>0, <3>4, <3>5 DEF OnePerLoss
  <2>2. CASE \A c \in Callers : call[c] /= "connecting"
    <3>1. Out' = Out
      BY <1>1, <1>c, <1>m, <2>2 DEF Out, Waiting
    <3> QED
      BY <1>1, <2>0, <3>1 DEF OnePerLoss
  <2> QED
    BY <2>1, <2>2
<1>7. Settled \subseteq Settled'
  <2> SUFFICES ASSUME NEW m \in Settled PROVE m \in Settled'
    OBVIOUS
  <2>1. m \in taken /\ m[1] \in Callers
    BY DEF Settled, TypeOK
  <2>2. CASE call[m[1]] = "connecting"
    <3>1. m[1] \in Slots /\ saving[m[1]] \in Keys
      BY <2>1, <2>2, SaveOrder DEF NeverTwice, CallsSettled, Callers
    <3>2. m[2] \in SavedBefore[saving[m[1]]]
      BY <2>1, <2>2, <3>1 DEF NeverTwice, InFlight
    <3>3. m /= Message(m[1])
      BY <3>1, <3>2, NotBefore, MessageOf
    <3> QED
      BY <1>1, <1>m, <2>1, <3>3 DEF Settled
  <2>3. CASE call[m[1]] /= "connecting"
    BY <1>1, <1>c, <1>m, <2>1, <2>3 DEF Settled, InFlight
  <2> QED
    BY <2>2, <2>3
<1>8. Unanswered' = Unanswered
  BY <1>c DEF Unanswered
<1> QED
  BY <1>1, <1>2, <1>3, <1>4, <1>5, <1>6, <1>7, <1>8, CountKept

(* An attempt to connect fails, and some calls with it.                    *)
LEMMA ConnectFailsKeepsIInv ==
    ASSUME IInv, ConnectFails
    PROVE  IInv'
<1> USE DEF IInv
<1> DEFINE C == {c \in Callers : \/ call[c] = "connecting"
                                 \/ call[c] = "sent" /\ retries = MaxRetries}
<1>1. /\ status = "connecting" /\ status' = "reconnecting"
      /\ retries' = IF retries < MaxRetries THEN retries + 1 ELSE 0
      /\ Return(C)
      /\ UNCHANGED <<written, taken, counted, losses>>
  BY DEF ConnectFails
<1>2. /\ C \in SUBSET Callers
      /\ \A c \in C : call[c] \in {"connecting", "sent"}
      /\ \A c \in Callers \ C : call[c] /= "connecting"
  OBVIOUS
<1> HIDE DEF C
<1>3. \A s \in Slots : s \in C => saving[s] \in Announced \cap written[s]
  BY <1>2 DEF CallsSettled
<1>4. /\ saving' \in [Slots -> DOMAIN After \cup {"done"}]
      /\ call' \in [Callers -> {"none", "connecting", "sent", "taken", "over"}]
      /\ \A d \in Callers \ C : call'[d] = call[d]
      /\ \A d \in C : call'[d] \in {"none", "over"}
  BY <1>1, <1>2, <1>3, ReturnEffect DEF Callers
<1>5. /\ CallsSettled' /\ AnnouncedAfterWritten' /\ NeverTwice'
      /\ Out' \subseteq Out
      /\ Settled \subseteq Settled'
  BY <1>1, <1>2, <1>3, ReturnKeeps
<1>6. retries' \in 0 .. MaxRetries
  BY <1>1, LimitAssumption DEF TypeOK
<1>7. TypeOK'
  BY <1>1, <1>4, <1>6 DEF TypeOK
<1>8. Unanswered' = Unanswered
  BY <1>2, <1>4 DEF Unanswered
<1>9. OnePerLoss'
  BY <1>1, <1>5, OutKept
<1> QED
  BY <1>1, <1>5, <1>7, <1>8, <1>9, CountKept

(* The connection is lost: the next one may bring one message more, and    *)
(* the answers that are lost with it are no more than that.                *)
LEMMA LoseKeepsIInv ==
    ASSUME IInv, Lose
    PROVE  IInv'
<1> USE DEF IInv
<1>1. /\ status = "ready" /\ status' = "reconnecting" /\ retries' = 1
      /\ losses < MaxLosses /\ losses' = losses + 1
      /\ call' = [c \in Callers |-> IF call[c] = "taken" THEN "sent" ELSE call[c]]
      /\ UNCHANGED <<saving, written, taken, counted>>
  BY DEF Lose
<1>m. \A d : Message(d)' = Message(d)
  BY <1>1 DEF Message
<1>c. \A c \in Callers : call'[c] = IF call[c] = "taken" THEN "sent" ELSE call[c]
  BY <1>1
<1>2. TypeOK'
  BY <1>1, LimitAssumption DEF TypeOK
<1>3. CallsSettled'
  BY <1>1, <1>c, <1>m DEF CallsSettled, Callers
<1>4. AnnouncedAfterWritten'
  BY <1>1 DEF AnnouncedAfterWritten
<1>5. \A c \in Callers : InFlight(c)' <=> InFlight(c)
  BY <1>c DEF InFlight
<1>6. NeverTwice'
  BY <1>1, <1>c, <1>m, <1>5 DEF NeverTwice, Callers
<1>7. Out' \subseteq Out
  BY <1>1, <1>c, <1>m DEF Out, Waiting, CallsSettled
<1>8. /\ losses \in Nat /\ counted \in Nat
      /\ IsFiniteSet(Out) /\ Cardinality(Out) \in Nat
      /\ Cardinality(taken) \in Nat /\ Cardinality(taken) <= Cardinality(Out)
      /\ Cardinality(Out) <= losses + 1
  BY <1>1, FiniteParts, LimitAssumption DEF TypeOK, OnePerLoss
<1>9. OnePerLoss'
  <2>1. IsFiniteSet(Out') /\ Cardinality(Out') <= Cardinality(Out) /\ Cardinality(Out') \in Nat
    BY <1>7, <1>8, FS_Subset, FS_CardinalityType
  <2> QED
    BY <1>1, <1>8, <2>1 DEF OnePerLoss
<1>10. Settled' = Settled
  <2>1. \A m \in taken : m[1] \in Callers
    BY DEF TypeOK
  <2> QED
    BY <1>1, <1>m, <1>5, <2>1 DEF Settled
<1>11. Unanswered' = {}
  BY <1>c DEF Unanswered
<1>12. CountedSettled'
  BY <1>1, <1>8, <1>10, <1>11, FS_EmptySet DEF CountedSettled
<1> QED
  BY <1>2, <1>3, <1>4, <1>6, <1>9, <1>12

(* Redis publishes a message that was waiting.                             *)
LEMMA TakeKeepsIInv ==
    ASSUME IInv, NEW c \in Callers, Take(c)
    PROVE  IInv'
<1> USE DEF IInv
<1>1. /\ status = "ready" /\ call[c] = "sent"
      /\ call' = [call EXCEPT ![c] = "taken"]
      /\ taken' = taken \cup {Message(c)}
      /\ UNCHANGED <<saving, written, status, retries, counted, losses>>
  BY DEF Take
<1>m. \A d : Message(d)' = Message(d)
  BY <1>1 DEF Message
<1>c. \A d \in Callers : call'[d] = IF d = c THEN "taken" ELSE call[d]
  BY <1>1 DEF TypeOK
<1>s. c \in Slots => saving[c] \in Announced \cap written[c]
  BY <1>1 DEF CallsSettled
<1>2. TypeOK'
  BY <1>1, <1>s, MessageType DEF TypeOK
<1>3. CallsSettled'
  BY <1>1, <1>c, <1>m DEF CallsSettled, Callers
<1>4. AnnouncedAfterWritten'
  BY <1>1, <1>s, MessageOf DEF AnnouncedAfterWritten
<1>5. \A d \in Callers : InFlight(d)' <=> InFlight(d)
  BY <1>1, <1>c DEF InFlight
<1>6. NeverTwice'
  <2>1. Message(c)[1] = c /\ InFlight(c)
    BY <1>1, MessageOf DEF InFlight
  <2> QED
    BY <1>1, <1>c, <1>m, <1>5, <2>1 DEF NeverTwice, Callers
<1>7. Out' \subseteq Out
  BY <1>1, <1>c, <1>m DEF Out, Waiting
<1>8. OnePerLoss'
  BY <1>1, <1>7, OutKept
<1>9. Settled' = Settled
  <2>1. \A m \in taken : m[1] \in Callers
    BY DEF TypeOK
  <2>2. Message(c)[1] = c /\ InFlight(c)'
    BY <1>1, <1>c, MessageOf DEF InFlight
  <2> QED
    BY <1>1, <1>m, <1>5, <2>1, <2>2 DEF Settled, InFlight
<1>10. Unanswered' = Unanswered \cup {c} /\ c \notin Unanswered
  BY <1>1, <1>c DEF Unanswered
<1>11. /\ IsFiniteSet(Unanswered) /\ Cardinality(Unanswered) \in Nat
       /\ IsFiniteSet(taken) /\ Cardinality(taken) \in Nat
       /\ losses \in Nat /\ counted \in Nat
  BY FiniteParts, FS_CardinalityType, LimitAssumption DEF TypeOK, CountedSettled
<1>12. /\ IsFiniteSet(Unanswered') /\ Cardinality(Unanswered') = Cardinality(Unanswered) + 1
       /\ Cardinality(taken') <= Cardinality(taken) + 1 /\ Cardinality(taken') \in Nat
  <2>1. IsFiniteSet(Unanswered') /\ Cardinality(Unanswered') = Cardinality(Unanswered) + 1
    BY <1>10, <1>11, FS_AddElement
  <2>2. Cardinality(taken') \in {Cardinality(taken), Cardinality(taken) + 1}
    BY <1>1, <1>11, FS_AddElement
  <2> QED
    BY <1>11, <2>1, <2>2
<1>13. CountedSettled'
  BY <1>1, <1>9, <1>11, <1>12 DEF CountedSettled
<1> QED
  BY <1>2, <1>3, <1>4, <1>6, <1>8, <1>13

(* An answer is counted, and with it a message that is settled now.        *)
LEMMA AnsweredKeepsIInv ==
    ASSUME IInv, NEW c \in Callers, Answered(c)
    PROVE  IInv'
<1> USE DEF IInv
<1>1. /\ call[c] = "taken" /\ Return({c}) /\ counted' = counted + 1
      /\ UNCHANGED <<written, status, retries, taken, losses>>
  BY DEF Answered
<1>2. c \in Slots => saving[c] \in Announced \cap written[c]
  BY <1>1 DEF CallsSettled
<1>3. /\ saving' \in [Slots -> DOMAIN After \cup {"done"}]
      /\ call' \in [Callers -> {"none", "connecting", "sent", "taken", "over"}]
      /\ \A d \in Callers \ {c} : call'[d] = call[d]
      /\ call'[c] \in {"none", "over"}
  BY <1>1, <1>2, ReturnEffect DEF Callers
<1>4. /\ CallsSettled' /\ AnnouncedAfterWritten' /\ NeverTwice'
      /\ Out' \subseteq Out
      /\ Settled \subseteq Settled'
      /\ Message(c) \in taken => Message(c) \in Settled'
  <2>1. \A d \in Callers \ {c} : call[d] = "connecting" => status' = "connecting"
    BY <1>1 DEF CallsSettled
  <2> QED
    BY <1>1, <1>2, <2>1, ReturnKeeps
<1>5. TypeOK'
  BY <1>1, <1>3 DEF TypeOK
<1>6. OnePerLoss'
  BY <1>1, <1>4, OutKept
<1>7. Message(c) \in Settled' /\ Message(c) \notin Settled
  BY <1>1, <1>4, MessageOf DEF CallsSettled, Settled, InFlight
<1>8. /\ IsFiniteSet(Settled) /\ Cardinality(Settled) \in Nat
      /\ IsFiniteSet(taken) /\ Cardinality(taken) \in Nat
      /\ IsFiniteSet(Unanswered) /\ Cardinality(Unanswered) \in Nat
      /\ losses \in Nat /\ counted \in Nat
  BY FiniteParts, FS_CardinalityType, LimitAssumption DEF TypeOK, CountedSettled
<1>9. Cardinality(Settled) + 1 <= Cardinality(Settled') /\ Cardinality(Settled') \in Nat
  <2>1. Settled \cup {Message(c)} \in SUBSET Settled' /\ Settled' \in SUBSET taken
    BY <1>1, <1>4, <1>7 DEF Settled
  <2>2. IsFiniteSet(Settled') /\ Cardinality(Settled') \in Nat
    BY <1>8, <2>1, FS_Subset, FS_CardinalityType
  <2>3. Cardinality(Settled \cup {Message(c)}) = Cardinality(Settled) + 1
    BY <1>7, <1>8, FS_AddElement
  <2> QED
    BY <2>1, <2>2, <2>3, FS_Subset
<1>10. Unanswered' = Unanswered \ {c} /\ c \in Unanswered
  BY <1>1, <1>3 DEF Unanswered
<1>11. IsFiniteSet(Unanswered') /\ Cardinality(Unanswered') = Cardinality(Unanswered) - 1
  BY <1>8, <1>10, FS_RemoveElement
<1>12. CountedSettled'
  BY <1>1, <1>8, <1>9, <1>11 DEF CountedSettled
<1> QED
  BY <1>4, <1>5, <1>6, <1>12

LEMMA StepIInv == IInv /\ [Next]_vars => IInv'
<1> SUFFICES ASSUME IInv, [Next]_vars PROVE IInv'
  OBVIOUS
<1>k. ASSUME UNCHANGED <<saving, written, call, taken, counted, losses>>,
             retries' = retries, status' = status \/ (status = "reconnecting" /\ status' = "connecting")
      PROVE  IInv'
  <2>1. TypeOK'
    BY <1>k DEF IInv, TypeOK
  <2>2. CallsSettled' /\ AnnouncedAfterWritten' /\ NeverTwice'
    BY <1>k DEF IInv, CallsSettled, AnnouncedAfterWritten, NeverTwice, InFlight, Message
  <2>3. Out' = Out /\ Settled' = Settled /\ Unanswered' = Unanswered
    BY <1>k DEF Out, Waiting, Settled, Unanswered, InFlight, Message
  <2>4. OnePerLoss'
    BY <1>k, <2>3, OutKept
  <2> QED
    BY <1>k, <2>1, <2>2, <2>3, <2>4, CountKept DEF IInv
<1>1. ASSUME NEW s \in Slots, Save(s) PROVE IInv'
  BY <1>1, SaveKeepsIInv
<1>2. ASSUME NEW e \in Events, PublishLocalEvent(e) PROVE IInv'
  <2>1. /\ e \in Callers /\ e \notin Slots /\ call[e] = "none" /\ Connect(e)
        /\ UNCHANGED <<written, retries, taken, counted, losses>>
    BY <1>2, CallerAssumption DEF PublishLocalEvent, Callers
  <2>2. written' \in [Slots -> SUBSET DOMAIN After]
    BY <2>1 DEF IInv, TypeOK
  <2> QED
    BY <2>1, <2>2, OpenKeepsIInv, RejectKeepsIInv DEF Connect
<1>3. ASSUME Reconnect PROVE IInv'
  BY <1>3, <1>k DEF Reconnect
<1>4. ASSUME NEW c \in Callers, CallStep(c) PROVE IInv'
  BY <1>4, TakeKeepsIInv, AnsweredKeepsIInv DEF CallStep
<1>5. CASE UNCHANGED vars
  BY <1>5, <1>k DEF vars
<1> QED
  BY <1>1, <1>2, <1>3, <1>4, <1>5, ReadyKeepsIInv, ConnectFailsKeepsIInv, LoseKeepsIInv
     DEF Next, Connection

LEMMA Invariant == Spec => []IInv
  BY InitIInv, StepIInv, PTL DEF Spec

-----------------------------------------------------------------------------
(* The variables of the model keep their types.                            *)
THEOREM TypeCorrect == Spec => []TypeOK
<1>1. IInv => TypeOK
  BY DEF IInv
<1> QED
  BY <1>1, Invariant, PTL

(* No message precedes what it announces, for any number of slots whose    *)
(* saves and calls interleave.                                             *)
THEOREM AnnouncementsFollow == Spec => []AnnouncedAfterWritten
<1>1. IInv => AnnouncedAfterWritten
  BY DEF IInv
<1> QED
  BY <1>1, Invariant, PTL

(* The counter never exceeds the messages that were published, and misses  *)
(* no more of them than there are answers under way or lost connections,   *)
(* for any number of callers.                                              *)
THEOREM CountsCorrect == Spec => []CountedWerePublished
<1>1. IInv => CountedWerePublished
  BY FiniteParts DEF IInv, TypeOK, CountedSettled, CountedWerePublished, Unanswered
<1> QED
  BY <1>1, Invariant, PTL

(* However many slots and events there are, no more messages are published *)
(* than there were ready connections.                                      *)
THEOREM OneEach == Spec => []OneMessagePerConnection
<1>1. IInv => OneMessagePerConnection
  <2> SUFFICES ASSUME IInv PROVE OneMessagePerConnection
    OBVIOUS
  <2>1. losses + (IF status = "ready" THEN 1 ELSE 0) \in Nat
    BY LimitAssumption DEF IInv, TypeOK
  <2> QED
    BY <2>1, FiniteParts DEF IInv, OnePerLoss, OneMessagePerConnection
<1> QED
  BY <1>1, Invariant, PTL
=============================================================================
