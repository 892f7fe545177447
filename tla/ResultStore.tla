----------------------------- MODULE ResultStore -----------------------------
(***************************************************************************)
(* What the refresh cycle promises to whoever reads its results, without   *)
(* jobs, slots, saves, backends or faults: refreshes begin and end; those  *)
(* that complete are done; a reader is given results of refreshes that     *)
(* really ran, and none that a refresh done before it began had already    *)
(* superseded.  RefreshCycle implements this (ImplementsResultStore).      *)
(***************************************************************************)
EXTENDS Naturals

CONSTANTS
    Readers,     \* whoever calls fetchCached
    Kinds        \* the kinds of result a reader asks for

VARIABLES
    next,        \* the number of the next refresh
    over,        \* refreshes that are over, however they ended
    done,        \* refreshes that completed
    older,       \* <<r, q>>: refresh r was over before refresh q began
    since,       \* reader -> the refreshes that were done when it began
    held         \* reader, kind -> the result it has been given

vars == <<next, over, done, older, since, held>>

Result(n) == [run |-> n, text |-> "whole"]
Missing   == [run |-> 0, text |-> "null"]
Unread    == [run |-> 0, text |-> "unread"]
Nothing   == [k \in Kinds |-> Unread]

Begun      == 1 .. next - 1
InProgress == Begun \ over

Init ==
    /\ next = 1
    /\ over = {}
    /\ done = {}
    /\ older = {}
    /\ since = [r \in Readers |-> {}]
    /\ held = [r \in Readers |-> Nothing]

-----------------------------------------------------------------------------
(* A refresh begins: whatever is over is older than it.                    *)
Begin ==
    /\ next' = next + 1
    /\ older' = older \cup (over \X {next})
    /\ UNCHANGED <<over, done, since, held>>

Complete(n) ==
    /\ over' = over \cup {n}
    /\ done' = done \cup {n}
    /\ UNCHANGED <<next, older, since, held>>

(* Reader r begins to read.                                                *)
Open(r) ==
    /\ since' = [since EXCEPT ![r] = done]
    /\ held' = [held EXCEPT ![r] = Nothing]
    /\ UNCHANGED <<next, done, older>>

StartReading(r) == Open(r) /\ UNCHANGED over

(* A refresh fails, and r reads what there is instead.                     *)
FallBack(n, r) == Open(r) /\ over' = over \cup {n}

(* Refresh n was over before one began that was done when r began to read. *)
Superseded(n, r) == \E q \in since[r] : <<n, q>> \in older

(* Reader r is given a result, or finds that there is none.                *)
Give(r, k) ==
    /\ held[r][k] = Unread
    /\ \/ held' = [held EXCEPT ![r][k] = Missing]
       \/ \E n \in Begun : /\ ~Superseded(n, r)
                           /\ held' = [held EXCEPT ![r][k] = Result(n)]
    /\ UNCHANGED <<next, over, done, older, since>>

StopReading(r) ==
    /\ since' = [since EXCEPT ![r] = {}]
    /\ held' = [held EXCEPT ![r] = Nothing]
    /\ UNCHANGED <<next, over, done, older>>

(* Refreshes and readers die together.                                     *)
Die(R, Z) ==
    /\ over' = over \cup R
    /\ since' = [r \in Readers |-> IF r \in Z THEN {} ELSE since[r]]
    /\ held' = [r \in Readers |-> IF r \in Z THEN Nothing ELSE held[r]]
    /\ UNCHANGED <<next, done, older>>

Next ==
    \/ Begin
    \/ \E n \in InProgress : Complete(n)
    \/ \E r \in Readers : \/ StartReading(r)
                          \/ \E n \in InProgress : FallBack(n, r)
                          \/ \E k \in Kinds : Give(r, k)
                          \/ StopReading(r)
    \/ \E R \in SUBSET InProgress, Z \in SUBSET Readers : Die(R, Z)

Spec == Init /\ [][Next]_vars
=============================================================================
