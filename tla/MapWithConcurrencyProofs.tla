---------------------- MODULE MapWithConcurrencyProofs ----------------------
(***************************************************************************)
(* Proofs about MapWithConcurrency for any number of inputs up to any      *)
(* bound, none and fewer than workers included, any concurrency of at      *)
(* least one, and mappers that may reject or not.                          *)
(***************************************************************************)
EXTENDS MapWithConcurrency, TLAPS

(* The counter separates the indices that were taken from the others.      *)
Taken ==
    /\ \A i \in Indices : calls[i] = IF i < currentIndex THEN 1 ELSE 0
    /\ \A w \in Workers : index[w] < currentIndex

(* What was taken is in its place or in the hands of a worker that has not *)
(* returned.                                                               *)
Placed ==
    \A i \in Indices : i < currentIndex =>
        results[i] = i \/ \E w \in Workers : worker[w] /= "done" /\ index[w] = i

(* A worker returns only when no index is left, and the call resolves only *)
(* when all have returned.                                                 *)
Exhausted ==
    /\ \A w \in Workers : worker[w] = "done" => currentIndex = length
    /\ outcome = "resolved" => \A w \in Workers : worker[w] = "done"

IInv == TypeOK /\ MappedOnce /\ Taken /\ Placed /\ Exhausted

USE SizeAssumption, ConcurrencyAssumption

LEMMA Counting ==
    ASSUME length \in 0 .. MaxInputs
    PROVE  Count \in 0 .. length /\ (length > 0 => 1 \in Workers)
  BY DEF Count, Workers

(* The number of inputs does not change, nor do the sets that go with it.  *)
LEMMA SameSize ==
    ASSUME UNCHANGED length
    PROVE  Indices' = Indices /\ Workers' = Workers /\ Hole' = Hole
  BY DEF Indices, Workers, Count, Hole

LEMMA InitIInv == Init => IInv
<1> SUFFICES ASSUME Init PROVE IInv
  OBVIOUS
<1>0. length \in 0 .. MaxInputs /\ length \in Nat /\ Count \in 0 .. length
  BY Counting DEF Init
<1>1. \A w \in Workers : w - 1 \in Indices /\ w - 1 < Count
  BY <1>0 DEF Workers, Indices
<1>2. TypeOK
  BY <1>0, <1>1 DEF Init, TypeOK, Hole, Indices
<1>3. MappedOnce /\ Taken
  BY <1>0, <1>1 DEF Init, MappedOnce, Taken, Workers, Indices
<1>4. Placed
  <2>1. \A i \in Indices : i < Count => i + 1 \in Workers
    BY <1>0 DEF Indices, Workers
  <2> QED
    BY <1>1, <2>1 DEF Init, Placed, Indices
<1>5. Exhausted
  BY DEF Init, Exhausted
<1> QED
  BY <1>2, <1>3, <1>4, <1>5 DEF IInv

LEMMA AnswerKeepsIInv == ASSUME IInv, NEW w \in Workers, Answer(w) PROVE IInv'
<1> USE DEF IInv
<1>1. /\ worker[w] = "mapping"
      /\ results' = [results EXCEPT ![index[w]] = index[w]]
      /\ outcome' = outcome
  BY DEF Answer
<1>s. /\ length' = length /\ length \in Nat
      /\ Indices' = Indices /\ Workers' = Workers /\ Hole' = Hole
  <2>1. length' = length /\ length \in Nat
    BY DEF Answer, TypeOK
  <2> QED
    BY <2>1, SameSize
<1>2. results' \in [Indices -> Indices \cup {Hole}]
  BY <1>1 DEF TypeOK
<1>3. \A i \in Indices : results[i] = i \/ i = index[w] => results'[i] = i
  BY <1>1 DEF TypeOK
<1>4. outcome /= "resolved"
  BY <1>1 DEF Exhausted
<1>5. CASE currentIndex < length
  <2>1. /\ index' = [index EXCEPT ![w] = currentIndex]
        /\ currentIndex' = currentIndex + 1
        /\ calls' = [calls EXCEPT ![currentIndex] = @ + 1]
        /\ worker' = worker
    BY <1>5 DEF Answer, TakeNext
  <2>2. currentIndex \in Indices /\ currentIndex' \in 0 .. length
    BY <1>5, <1>s, <2>1 DEF TypeOK, Indices
  <2>3. TypeOK'
    BY <1>1, <1>2, <1>s, <2>1, <2>2 DEF TypeOK
  <2>4. MappedOnce'
    BY <1>s, <2>1, <2>2 DEF TypeOK, MappedOnce, Taken, Indices
  <2>5. Taken'
    BY <1>s, <2>1, <2>2 DEF TypeOK, Taken, Indices
  <2>6. Placed'
    <3> SUFFICES ASSUME NEW i \in Indices, i < currentIndex', results'[i] /= i
                 PROVE  \E v \in Workers : worker'[v] /= "done" /\ index'[v] = i
      BY <1>s DEF Placed
    <3>1. CASE i = currentIndex
      BY <1>1, <2>1, <3>1 DEF TypeOK
    <3>2. CASE i /= currentIndex
      <4>1. i < currentIndex
        BY <2>1, <2>2, <3>2 DEF Indices
      <4>2. PICK v \in Workers : worker[v] /= "done" /\ index[v] = i
        BY <1>3, <4>1 DEF Placed
      <4>3. v /= w
        BY <1>3, <4>2
      <4> QED
        BY <2>1, <4>2, <4>3 DEF TypeOK
    <3> QED
      BY <3>1, <3>2
  <2>7. Exhausted'
    BY <1>1, <1>4, <1>5, <1>s, <2>1 DEF Exhausted, TypeOK
  <2> QED
    BY <2>3, <2>4, <2>5, <2>6, <2>7
<1>6. CASE ~(currentIndex < length)
  <2>1. /\ worker' = [worker EXCEPT ![w] = "done"]
        /\ UNCHANGED <<index, currentIndex, calls>>
    BY <1>6 DEF Answer, TakeNext
  <2>2. TypeOK'
    BY <1>1, <1>2, <1>s, <2>1 DEF TypeOK
  <2>3. MappedOnce' /\ Taken'
    BY <1>s, <2>1 DEF MappedOnce, Taken
  <2>4. Placed'
    <3> SUFFICES ASSUME NEW i \in Indices, i < currentIndex, results'[i] /= i
                 PROVE  \E v \in Workers : worker'[v] /= "done" /\ index[v] = i
      BY <1>s, <2>1 DEF Placed
    <3>1. PICK v \in Workers : worker[v] /= "done" /\ index[v] = i
      BY <1>3 DEF Placed
    <3>2. v /= w
      BY <1>3, <3>1
    <3> QED
      BY <2>1, <3>1, <3>2 DEF TypeOK
  <2>5. currentIndex = length
    BY <1>6, <1>s DEF TypeOK
  <2>6. Exhausted'
    BY <1>1, <1>4, <1>s, <2>1, <2>5 DEF Exhausted
  <2> QED
    BY <2>2, <2>3, <2>4, <2>6
<1> QED
  BY <1>5, <1>6

LEMMA StepIInv == IInv /\ [Next]_vars => IInv'
<1> SUFFICES ASSUME IInv, [Next]_vars PROVE IInv'
  OBVIOUS
<1>1. ASSUME NEW w \in Workers, Answer(w) PROVE IInv'
  BY <1>1, AnswerKeepsIInv
<1>s. ASSUME UNCHANGED length PROVE Indices' = Indices /\ Workers' = Workers /\ Hole' = Hole
  BY <1>s, SameSize
<1>2. ASSUME NEW w \in Workers, Reject(w) PROVE IInv'
  <2>1. TypeOK' /\ MappedOnce' /\ Taken'
    BY <1>2, <1>s DEF IInv, Reject, TypeOK, MappedOnce, Taken
  <2>2. \A v \in Workers : (worker'[v] = "done") <=> (worker[v] = "done")
    BY <1>2 DEF IInv, Reject, TypeOK
  <2>3. Placed' /\ Exhausted'
    BY <1>2, <1>s, <2>2 DEF IInv, Reject, Placed, Exhausted
  <2> QED
    BY <2>1, <2>3 DEF IInv
<1>3. ASSUME Resolve PROVE IInv'
  BY <1>3, <1>s DEF IInv, Resolve, TypeOK, MappedOnce, Taken, Placed, Exhausted
<1>4. CASE UNCHANGED vars
  BY <1>4, <1>s DEF vars, IInv, TypeOK, MappedOnce, Taken, Placed, Exhausted
<1> QED
  BY <1>1, <1>2, <1>3, <1>4 DEF Next, Settle

(* The counter, the results and the workers keep their types: in           *)
(* particular no worker holds an index beyond the inputs.                  *)
THEOREM TypeCorrect == Spec => []TypeOK
<1>1. IInv => TypeOK
  BY DEF IInv
<1> QED
  BY <1>1, InitIInv, StepIInv, PTL DEF Spec

(* No input is mapped twice, for any number of inputs and any concurrency. *)
THEOREM OnceCorrect == Spec => []MappedOnce
<1>1. IInv => MappedOnce
  BY DEF IInv
<1> QED
  BY <1>1, InitIInv, StepIInv, PTL DEF Spec

(* When the call resolves every input was mapped once and every result is  *)
(* in its place, for any number of inputs and any concurrency.             *)
THEOREM CompleteCorrect == Spec => []ResolvedComplete
<1>1. IInv => ResolvedComplete
  <2> SUFFICES ASSUME IInv, outcome = "resolved", NEW i \in Indices
               PROVE  results[i] = i /\ calls[i] = 1
    BY DEF ResolvedComplete
  <2>1. \A w \in Workers : worker[w] = "done"
    BY DEF IInv, Exhausted
  <2>2. currentIndex = length
    <3>1. length \in Nat /\ 0 < length
      BY DEF IInv, TypeOK, Indices
    <3>2. 1 \in Workers
      BY <3>1, Counting DEF IInv, TypeOK
    <3> QED
      BY <2>1, <3>2 DEF IInv, Exhausted
  <2>3. i < currentIndex
    BY <2>2 DEF IInv, TypeOK, Indices
  <2> QED
    BY <2>1, <2>3 DEF IInv, Placed, Taken
<1> QED
  BY <1>1, InitIInv, StepIInv, PTL DEF Spec
=============================================================================
