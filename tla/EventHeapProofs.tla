--------------------------- MODULE EventHeapProofs ---------------------------
(***************************************************************************)
(* The event queue keeps its order and its time for every heap size, every *)
(* set of events and every positive delay.                                 *)
(*                                                                         *)
(* HeapOrdered says nothing while one of the two loops runs, so the        *)
(* inductive invariant says what holds then: the order is broken at one    *)
(* place only (above `at' while rolling up, below it while sinking), and   *)
(* the children of `at' already fit under its parent, so that an exchange  *)
(* mends one level without spoiling the next.                              *)
(*                                                                         *)
(* Refinement shows that the heap implements Agenda.  What is pending is a *)
(* bag; two bags are compared by the copies of each record (Copies), and   *)
(* every change of the array by a bijection between the places (Spots)     *)
(* that hold the record before and after it.                               *)
(***************************************************************************)
EXTENDS EventHeap, TLAPS, SequenceTheorems, FiniteSetTheorems

Under(i, j) == heap[i].when <= heap[j].when

BrokenAbove ==
  loop = "up" => /\ \A i \in 2..Len(heap) : i # at => Under(Parent(i), i)
                 /\ \A i \in 2..Len(heap) : Parent(i) = at /\ at > 1 => Under(Parent(at), i)

BrokenBelow ==
  loop = "down" => /\ \A i \in 2..Len(heap) : Parent(i) # at => Under(Parent(i), i)
                   /\ \A i \in 2..Len(heap) : Parent(i) = at /\ at > 1 => Under(Parent(at), i)

IInv == TypeOK /\ HeapOrdered /\ BrokenAbove /\ BrokenBelow /\ NothingOverdue

Elements == [when : Nat, event : Events \cup {Dead}]

-----------------------------------------------------------------------------
(* A set of positive numbers has a least one: the library has it for       *)
(* finite sets under inclusion, and i stands for the set 1..i.             *)
LEMMA LeastNumber ==
  ASSUME NEW T \in SUBSET (Nat \ {0}), T # {}
  PROVE  \E i \in T : \A j \in T : i <= j
<1> DEFINE R == StrictSubsetOrdering(Nat)
           F == FiniteSubsetsOf(Nat)
           I == { 1..i : i \in T }
<1>1. I \subseteq F /\ I # {}
  <2>1. ASSUME NEW i \in T PROVE 1..i \in F
    <3>1. 1 \in Int /\ i \in Int /\ 1..i \subseteq Nat
      OBVIOUS
    <3>2. IsFiniteSet(1..i)
      BY <3>1, FS_Interval
    <3> QED BY <3>1, <3>2 DEF FiniteSubsetsOf
  <2> HIDE DEF F
  <2> QED BY <2>1
<1>2. PICK m \in I : \A y \in I : ~(<<y, m>> \in R)
  <2> HIDE DEF I, F, R
  <2>1. IsWellFoundedOn(R, F)
    BY FS_StrictSubsetOrderingWellFounded DEF R, F
  <2> QED BY <1>1, <2>1, WFMin
<1>3. PICK i \in T : m = 1..i
  OBVIOUS
<1>4. ASSUME NEW j \in T, j < i PROVE FALSE
  <2>1. i \in Nat \ {0} /\ j \in Nat \ {0}
    OBVIOUS
  <2>2. 1..j \in SUBSET Nat /\ 1..i \in SUBSET Nat /\ 1..j \subseteq 1..i
    BY <2>1, <1>4
  <2>3. i \in 1..i /\ i \notin 1..j
    BY <2>1, <1>4
  <2>4. <<1..j, 1..i>> \in R
    BY <2>2, <2>3 DEF StrictSubsetOrdering
  <2> QED BY <2>4, <1>2, <1>3
<1> QED BY <1>4

(* The tree in the array.                                                  *)
LEMMA ParentProperties ==
  ASSUME NEW i \in Nat, i > 1
  PROVE  /\ Parent(i) \in 1..(i - 1)
         /\ i = 2 * Parent(i) \/ i = 2 * Parent(i) + 1
BY Z3 DEF Parent

LEMMA ChildProperties ==
  ASSUME NEW i \in Nat, i > 0
  PROVE  Parent(2 * i) = i /\ Parent(2 * i + 1) = i
BY Z3 DEF Parent

(* In an ordered heap nothing is smaller than the top: the least index of  *)
(* a smaller element would have a parent that is smaller, too.             *)
LEMMA TopIsLeast ==
  ASSUME NEW n \in Nat, NEW w,
         \A i \in 1..n : w[i] \in Nat,
         \A i \in 2..n : w[Parent(i)] <= w[i]
  PROVE  \A i \in 1..n : w[1] <= w[i]
<1> DEFINE T == { i \in 1..n : w[i] < w[1] }
<1>1. SUFFICES ASSUME T # {} PROVE FALSE
  <2>1. ASSUME NEW i \in 1..n, i \notin T PROVE w[1] <= w[i]
    BY <2>1
  <2> QED BY <1>1, <2>1
<1>2. PICK i \in T : \A j \in T : i <= j
  <2>1. T \in SUBSET (Nat \ {0})
    OBVIOUS
  <2> QED BY <2>1, <1>1, LeastNumber
<1>3. i \in 2..n
  <2>1. i \in 1..n /\ w[i] < w[1] /\ w[1] \in Nat
    OBVIOUS
  <2>2. i # 1
    BY <2>1
  <2> QED BY <2>1, <2>2
<1>4. Parent(i) \in 1..(i - 1) /\ Parent(i) \in 1..n
  BY <1>3, ParentProperties
<1>5. Parent(i) \in T
  <2>1. w[Parent(i)] <= w[i] /\ w[i] < w[1]
    BY <1>3
  <2>2. w[Parent(i)] \in Nat /\ w[i] \in Nat /\ w[1] \in Nat
    BY <1>3, <1>4
  <2> QED BY <2>1, <2>2, <1>4
<1> QED BY <1>2, <1>3, <1>4, <1>5

-----------------------------------------------------------------------------
(* The heap as TypeOK has it, in the form the provers like.                *)
LEMMA HeapTyped ==
  ASSUME TypeOK
  PROVE  /\ Len(heap) \in Nat
         /\ DOMAIN heap = 1..Len(heap)
         /\ \A i \in 1..Len(heap) : heap[i] \in Elements /\ heap[i].when \in Nat
<1>1. heap \in Seq(Elements)
  BY DEF TypeOK, Elements
<1>2. ASSUME NEW i \in 1..Len(heap) PROVE heap[i] \in Elements
  BY <1>1, <1>2, ElementOfSeq
<1>3. Len(heap) \in Nat /\ DOMAIN heap = 1..Len(heap)
  BY <1>1, LenProperties
<1> QED BY <1>2, <1>3 DEF Elements

(* One exchange of either loop.                                            *)
LEMMA ExchangeProperties ==
  ASSUME TypeOK, NEW i \in 1..Len(heap), NEW j \in 1..Len(heap), i # j
  PROVE  /\ Exchange(i, j) \in Seq(Elements)
         /\ Len(Exchange(i, j)) = Len(heap)
         /\ Exchange(i, j)[i] = heap[j] /\ Exchange(i, j)[j] = heap[i]
         /\ \A k \in 1..Len(heap) : k # i /\ k # j => Exchange(i, j)[k] = heap[k]
<1>1. heap \in Seq(Elements)
  BY DEF TypeOK, Elements
<1>2. heap[i] \in Elements /\ heap[j] \in Elements
  BY HeapTyped
<1> QED BY <1>1, <1>2 DEF Exchange

LEMMA InitIInv == Init => IInv
BY DEF Init, IInv, TypeOK, HeapOrdered, BrokenAbove, BrokenBelow, NothingOverdue, Idle

LEMMA EnqueueKeepsIInv ==
  ASSUME IInv, NEW e \in Events, NEW when \in Delays, Enqueue(e, when)
  PROVE  IInv'
<1> USE HeapTyped DEF IInv
<1> DEFINE new == [when |-> tics + when, event |-> e]
<1>1. new \in Elements /\ new.when >= tics /\ tics \in Nat
  BY DelayAssumption DEF Elements, TypeOK
<1>2. heap \in Seq(Elements)
  BY DEF TypeOK, Elements
<1>3. /\ heap' \in Seq(Elements) /\ Len(heap') = Len(heap) + 1
      /\ \A i \in 1..Len(heap) : heap'[i] = heap[i]
      /\ heap'[Len(heap) + 1] = new
  <2>1. heap' = Append(heap, new)
    BY DEF Enqueue, End
  <2> HIDE DEF new
  <2> QED BY <2>1, <1>1, <1>2, AppendProperties
<1>4. loop' = "up" /\ at' = Len(heap) + 1 /\ tics' = tics /\ tmp' = tmp /\ called' = called
  BY DEF Enqueue, End
<1> HIDE DEF new
<1>5. TypeOK'
  BY <1>3, <1>4 DEF TypeOK, Elements
<1>6. HeapOrdered' /\ BrokenBelow'
  BY <1>4 DEF HeapOrdered, BrokenBelow, Idle
<1>7. BrokenAbove'
  <2>1. ASSUME NEW i \in 2..Len(heap)
        PROVE  Parent(i) \in 1..Len(heap) /\ Parent(i) # at' /\ Under(Parent(i), i)'
    <3>1. Parent(i) \in 1..Len(heap)
      BY ParentProperties
    <3>2. Under(Parent(i), i)
      BY DEF Enqueue, End, HeapOrdered, Under
    <3> QED BY <3>1, <3>2, <1>3, <1>4 DEF Under
  <2>2. Len(heap) + 1 > 1 => Parent(Len(heap) + 1) \in 1..Len(heap)
    BY ParentProperties
  <2> QED BY <2>1, <2>2, <1>3, <1>4 DEF BrokenAbove
<1>8. NothingOverdue'
  BY <1>1, <1>3, <1>4 DEF NothingOverdue
<1> QED BY <1>5, <1>6, <1>7, <1>8

LEMMA DequeueKeepsIInv ==
  ASSUME IInv, NEW S \in SUBSET Events, Dequeue(S)
  PROVE  IInv'
<1> USE HeapTyped DEF IInv
<1>1. /\ heap' \in Seq(Elements) /\ Len(heap') = Len(heap)
      /\ \A i \in 1..Len(heap) : heap'[i].when = heap[i].when
  <2>1. ASSUME NEW i \in 1..Len(heap)
        PROVE  LET h == IF heap[i].event \in S
                        THEN [heap[i] EXCEPT !.event = Dead] ELSE heap[i]
               IN h \in Elements /\ h.when = heap[i].when
    BY DEF Elements
  <2>2. heap' = [i \in 1..Len(heap) |-> IF heap[i].event \in S
                        THEN [heap[i] EXCEPT !.event = Dead] ELSE heap[i]]
    BY DEF Dequeue, Cleared
  <2> QED BY <2>1, <2>2
<1>2. UNCHANGED <<tics, loop, at, tmp, called>>
  BY DEF Dequeue
<1>3. loop = "idle"
  BY DEF Dequeue, Idle
<1>4. TypeOK'
  BY <1>1, <1>2 DEF TypeOK, Elements
<1>5. HeapOrdered'
  <2>1. ASSUME NEW i \in 2..Len(heap) PROVE heap'[Parent(i)].when <= heap'[i].when
    <3>1. Parent(i) \in 1..Len(heap)
      BY ParentProperties
    <3> QED BY <3>1, <1>1, <1>3 DEF HeapOrdered, Idle
  <2> QED BY <2>1, <1>1 DEF HeapOrdered
<1>6. BrokenAbove' /\ BrokenBelow'
  BY <1>2, <1>3 DEF BrokenAbove, BrokenBelow
<1>7. NothingOverdue'
  BY <1>1, <1>2 DEF NothingOverdue
<1> QED BY <1>4, <1>5, <1>6, <1>7

LEMMA RollUpKeepsIInv ==
  ASSUME IInv, RollUp
  PROVE  IInv'
<1> USE HeapTyped DEF IInv
<1>0. loop = "up" /\ at \in 1..Len(heap) /\ UNCHANGED <<tics, tmp, called>>
  BY DEF RollUp, TypeOK
<1>1. CASE at > 1 /\ heap[at].when < heap[Parent(at)].when
  <2>0. PICK p : p = Parent(at)
    OBVIOUS
  <2>1. p \in 1..Len(heap) /\ p < at
    BY <2>0, <1>0, <1>1, ParentProperties
  <2>2. heap' = Exchange(at, p) /\ at' = p /\ loop' = "up"
    BY <2>0, <1>0, <1>1 DEF RollUp
  <2>3. /\ heap' \in Seq(Elements) /\ Len(heap') = Len(heap)
        /\ heap'[at] = heap[p] /\ heap'[p] = heap[at]
        /\ \A k \in 1..Len(heap) : k # at /\ k # p => heap'[k] = heap[k]
    BY <1>0, <2>1, <2>2, ExchangeProperties
  <2>4. TypeOK'
    BY <1>0, <2>1, <2>2, <2>3 DEF TypeOK, Elements
  <2>5. HeapOrdered' /\ BrokenBelow'
    BY <2>2 DEF HeapOrdered, BrokenBelow, Idle
  <2>6. ASSUME NEW i \in 2..Len(heap), i # p PROVE Under(Parent(i), i)'
    <3>1. Parent(i) \in 1..Len(heap) /\ Parent(i) # i
      BY ParentProperties
    <3>2. CASE i = at
      BY <2>0, <1>1, <3>2, <2>1, <2>3, <1>0 DEF Under
    <3>3. CASE i # at /\ Parent(i) = at
      <4>1. Under(p, i)
        BY <2>0, <1>0, <1>1, <3>3 DEF BrokenAbove
      <4> QED BY <4>1, <3>1, <3>3, <2>1, <2>3, <2>6 DEF Under
    <3>4. CASE i # at /\ Parent(i) = p
      <4>1. Under(p, i)
        BY <1>0, <3>4 DEF BrokenAbove
      <4>2. heap'[p].when < heap[p].when /\ heap'[i] = heap[i]
        BY <2>0, <1>1, <2>3, <3>4, <2>6
      <4> QED BY <4>1, <4>2, <3>4, <2>1, <2>3, <1>0 DEF Under
    <3>5. CASE i # at /\ Parent(i) # at /\ Parent(i) # p
      <4>1. Under(Parent(i), i)
        BY <1>0, <3>5 DEF BrokenAbove
      <4> QED BY <4>1, <3>1, <3>5, <2>3, <2>6 DEF Under
    <3> QED BY <3>2, <3>3, <3>4, <3>5
  <2>7. ASSUME NEW i \in 2..Len(heap), Parent(i) = p, p > 1
        PROVE  Under(Parent(p), i)'
    <3>1. Parent(p) \in 1..Len(heap) /\ Parent(p) < p /\ i # p
      BY <2>1, <2>7, ParentProperties
    <3>2. Under(Parent(p), p)
      BY <1>0, <2>1, <2>7 DEF BrokenAbove
    <3>3. heap'[Parent(p)] = heap[Parent(p)]
      BY <3>1, <2>1, <2>3
    <3>4. CASE i = at
      BY <3>2, <3>3, <3>4, <2>3 DEF Under
    <3>5. CASE i # at
      <4>1. Under(p, i)
        BY <1>0, <2>7, <3>5 DEF BrokenAbove
      <4>2. heap'[i] = heap[i]
        BY <3>1, <3>5, <2>3
      <4> QED BY <4>1, <4>2, <3>1, <3>2, <3>3, <2>1 DEF Under
    <3> QED BY <3>4, <3>5
  <2>8. BrokenAbove'
    BY <2>2, <2>3, <2>6, <2>7 DEF BrokenAbove
  <2>9. NothingOverdue'
    BY <1>0, <2>1, <2>3 DEF NothingOverdue
  <2> QED BY <2>4, <2>5, <2>8, <2>9
<1>2. CASE ~(at > 1 /\ heap[at].when < heap[Parent(at)].when)
  <2>1. heap' = heap /\ loop' = "idle" /\ at' = 0
    BY <1>0, <1>2 DEF RollUp
  <2>2. ASSUME NEW i \in 2..Len(heap) PROVE Under(Parent(i), i)
    <3>1. Parent(i) \in 1..Len(heap)
      BY ParentProperties
    <3>2. CASE i = at
      BY <1>0, <1>2, <3>1, <3>2 DEF Under
    <3>3. CASE i # at
      BY <1>0, <3>3 DEF BrokenAbove
    <3> QED BY <3>2, <3>3
  <2>3. HeapOrdered'
    BY <2>1, <2>2 DEF HeapOrdered, Under
  <2>4. TypeOK' /\ BrokenAbove' /\ BrokenBelow' /\ NothingOverdue'
    BY <1>0, <2>1 DEF TypeOK, BrokenAbove, BrokenBelow, NothingOverdue
  <2> QED BY <2>3, <2>4
<1> QED BY <1>1, <1>2

LEMMA TakeKeepsIInv ==
  ASSUME IInv, Take
  PROVE  IInv'
<1> USE HeapTyped DEF IInv
<1>1. /\ loop = "idle" /\ loop' = "down" /\ at' = 1
      /\ UNCHANGED <<tics, called>>
      /\ tmp' \in Events \cup {Dead}
  <2>1. Len(heap) >= 1
    BY DEF Take, TypeOK
  <2>2. heap[1] \in Elements
    BY <2>1
  <2> QED BY <2>2 DEF Take, Idle, Elements
<1>2. /\ Len(heap) \in Nat \ {0}
      /\ heap' = [i \in 1..(Len(heap) - 1) |-> IF i = 1 THEN heap[Len(heap)] ELSE heap[i]]
  BY DEF Take, TypeOK
<1>3. /\ heap' \in Seq(Elements) /\ Len(heap') = Len(heap) - 1
      /\ \A i \in 1..(Len(heap) - 1) : heap'[i] = IF i = 1 THEN heap[Len(heap)] ELSE heap[i]
  <2>1. \A i \in 1..(Len(heap) - 1) :
          (IF i = 1 THEN heap[Len(heap)] ELSE heap[i]) \in Elements
    BY <1>2
  <2> QED BY <2>1, <1>2
<1>4. TypeOK'
  BY <1>1, <1>2, <1>3 DEF TypeOK, Elements
<1>5. HeapOrdered' /\ BrokenAbove'
  BY <1>1 DEF HeapOrdered, BrokenAbove, Idle
<1>6. BrokenBelow'
  <2>1. ASSUME NEW i \in 2..(Len(heap) - 1), Parent(i) # 1 PROVE Under(Parent(i), i)'
    <3>1. Parent(i) \in 2..(Len(heap) - 1)
      BY <2>1, ParentProperties
    <3>2. heap[Parent(i)].when <= heap[i].when
      BY <1>1 DEF HeapOrdered, Idle
    <3> QED BY <3>1, <3>2, <1>3 DEF Under
  <2> QED BY <2>1, <1>1, <1>3 DEF BrokenBelow
<1>7. NothingOverdue'
  BY <1>1, <1>2, <1>3 DEF NothingOverdue
<1> QED BY <1>4, <1>5, <1>6, <1>7

LEMMA SmallerChildProperties ==
  ASSUME TypeOK, at \in Nat \ {0}, 2 * at <= Len(heap)
  PROVE  LET c == SmallerChild(at)
         IN /\ c \in 2..Len(heap) /\ Parent(c) = at
            /\ \A i \in 2..Len(heap) : Parent(i) = at => Under(c, i)
<1> USE HeapTyped
<1>1. PICK c : c = SmallerChild(at)
  OBVIOUS
<1>2. c \in 2..Len(heap) /\ Parent(c) = at
  <2>1. CASE c = 2 * at
    BY <2>1, ChildProperties
  <2>2. CASE c = 2 * at + 1 /\ 2 * at + 1 <= Len(heap)
    BY <2>2, ChildProperties
  <2> QED BY <1>1, <2>1, <2>2 DEF SmallerChild
<1>3. ASSUME NEW i \in 2..Len(heap), Parent(i) = at PROVE Under(c, i)
  <2>1. i = 2 * at \/ i = 2 * at + 1
    <3>1. i \in Nat /\ i > 1
      OBVIOUS
    <3> QED BY <3>1, <1>3, ParentProperties
  <2>2. heap[i].when \in Nat /\ heap[2 * at].when \in Nat
    OBVIOUS
  <2> QED BY <1>1, <2>1, <2>2 DEF SmallerChild, Under
<1> QED BY <1>1, <1>2, <1>3

LEMMA RollDownKeepsIInv ==
  ASSUME IInv, RollDown
  PROVE  IInv'
<1> USE HeapTyped DEF IInv
<1>1. /\ loop = "down" /\ at \in Nat \ {0} /\ 2 * at <= Len(heap)
      /\ UNCHANGED <<tics, loop, tmp, called>>
  BY DEF RollDown, Sinks, TypeOK
<1>2. PICK c : c = SmallerChild(at)
  OBVIOUS
<1>3. /\ c \in 2..Len(heap) /\ Parent(c) = at
      /\ \A i \in 2..Len(heap) : Parent(i) = at => Under(c, i)
  BY <1>1, <1>2, SmallerChildProperties
<1>4. at \in 1..Len(heap) /\ at < c
  BY <1>1, <1>3, ParentProperties
<1>5. heap' = Exchange(at, c) /\ at' = c /\ heap[c].when < heap[at].when
  BY <1>2 DEF RollDown, Sinks
<1>6. /\ heap' \in Seq(Elements) /\ Len(heap') = Len(heap)
      /\ heap'[at] = heap[c] /\ heap'[c] = heap[at]
      /\ \A k \in 1..Len(heap) : k # at /\ k # c => heap'[k] = heap[k]
  BY <1>3, <1>4, <1>5, ExchangeProperties
<1>7. TypeOK'
  <2>1. at' \in Nat /\ at' \in 1..(Len(heap') + 1) /\ loop' = "down"
    BY <1>1, <1>3, <1>5, <1>6
  <2> QED BY <2>1, <1>1, <1>6 DEF TypeOK, Elements
<1>8. HeapOrdered' /\ BrokenAbove'
  BY <1>1 DEF HeapOrdered, BrokenAbove, Idle
<1>9. ASSUME NEW i \in 2..Len(heap), Parent(i) # c PROVE Under(Parent(i), i)'
  <2>1. Parent(i) \in 1..Len(heap) /\ Parent(i) # i
    BY ParentProperties
  <2>2. CASE i = c
    BY <2>2, <1>1, <1>3, <1>4, <1>5, <1>6 DEF Under
  <2>3. CASE i = at
    <3>1. Under(Parent(at), c)
      BY <2>3, <1>1, <1>3 DEF BrokenBelow
    <3>2. heap'[Parent(at)] = heap[Parent(at)]
      BY <2>1, <2>3, <1>6, <1>9
    <3> QED BY <3>1, <3>2, <2>3, <1>6 DEF Under
  <2>4. CASE i # at /\ i # c /\ Parent(i) = at
    <3>1. Under(c, i)
      BY <2>4, <1>3
    <3> QED BY <3>1, <2>4, <1>6 DEF Under
  <2>5. CASE i # at /\ i # c /\ Parent(i) # at
    <3>1. Under(Parent(i), i)
      BY <2>5, <1>1 DEF BrokenBelow
    <3> QED BY <3>1, <2>1, <2>5, <1>6, <1>9 DEF Under
  <2> QED BY <2>2, <2>3, <2>4, <2>5
<1>10. ASSUME NEW i \in 2..Len(heap), Parent(i) = c
       PROVE  heap'[at].when <= heap'[i].when
  <2>1. Under(c, i)
    BY <1>1, <1>3, <1>4, <1>10 DEF BrokenBelow
  <2>2. i # at /\ i # c
    BY <1>3, <1>4, <1>10, ParentProperties
  <2> QED BY <2>1, <2>2, <1>6 DEF Under
<1>11. BrokenBelow'
  BY <1>3, <1>5, <1>6, <1>9, <1>10 DEF BrokenBelow, Under
<1>12. NothingOverdue'
  BY <1>1, <1>3, <1>4, <1>6 DEF NothingOverdue
<1> QED BY <1>7, <1>8, <1>11, <1>12

LEMMA CallKeepsIInv ==
  ASSUME IInv, Call
  PROVE  IInv'
<1> USE HeapTyped DEF IInv
<1>1. /\ loop = "down" /\ loop' = "idle" /\ at' = 0
      /\ UNCHANGED <<heap, tics>> /\ at \in Nat \ {0}
  BY DEF Call, TypeOK
<1>2. ASSUME NEW i \in 2..Len(heap) PROVE Under(Parent(i), i)
  <2>1. CASE Parent(i) # at
    BY <2>1, <1>1 DEF BrokenBelow
  <2>2. CASE Parent(i) = at
    <3>1. i = 2 * at \/ i = 2 * at + 1
      BY <2>2, ParentProperties
    <3>2. 2 * at <= Len(heap)
      BY <3>1, <1>1
    <3>3. PICK c : c = SmallerChild(at)
      OBVIOUS
    <3>4. c \in 2..Len(heap) /\ Under(c, i)
      BY <3>2, <3>3, <2>2, <1>1, SmallerChildProperties
    <3>5. Under(at, c)
      <4>1. at \in 1..Len(heap)
        BY <3>2, <1>1
      <4> QED BY <4>1, <3>2, <3>3, <3>4 DEF Call, Sinks, Under
    <3>6. at \in 1..Len(heap)
      BY <3>2, <1>1
    <3> QED BY <3>4, <3>5, <3>6, <2>2 DEF Under
  <2> QED BY <2>1, <2>2
<1>3. HeapOrdered'
  BY <1>1, <1>2 DEF HeapOrdered, Under
<1>4. TypeOK'
  BY <1>1 DEF TypeOK, Call
<1>5. BrokenAbove' /\ BrokenBelow' /\ NothingOverdue'
  BY <1>1 DEF BrokenAbove, BrokenBelow, NothingOverdue
<1> QED BY <1>3, <1>4, <1>5

LEMMA TickKeepsIInv ==
  ASSUME IInv, Tick
  PROVE  IInv'
<1> USE HeapTyped DEF IInv
<1>1. loop = "idle" /\ UNCHANGED <<heap, loop, at, tmp, called>> /\ tics' = tics + 1 /\ tics \in Nat
  BY DEF Tick, Idle, TypeOK
<1>2. NothingOverdue'
  <2> DEFINE w == [i \in 1..Len(heap) |-> heap[i].when]
  <2>1. /\ \A i \in 1..Len(heap) : w[i] \in Nat
        /\ \A i \in 2..Len(heap) : w[Parent(i)] <= w[i]
    <3>1. ASSUME NEW i \in 2..Len(heap) PROVE Parent(i) \in 1..Len(heap)
      BY ParentProperties
    <3> QED BY <3>1, <1>1 DEF HeapOrdered, Idle
  <2>2. \A i \in 1..Len(heap) : w[1] <= w[i]
    <3> HIDE DEF w
    <3> QED BY <2>1, TopIsLeast
  <2>3. ASSUME NEW i \in 1..Len(heap) PROVE heap[i].when >= tics + 1
    <3>1. heap # << >> /\ 1 \in 1..Len(heap)
      OBVIOUS
    <3>2. heap[1].when > tics /\ heap[1].when <= heap[i].when
      BY <3>1, <2>2 DEF Tick
    <3> QED BY <3>1, <3>2, <1>1
  <2> QED BY <2>3, <1>1 DEF NothingOverdue
<1>3. TypeOK' /\ HeapOrdered' /\ BrokenAbove' /\ BrokenBelow'
  <2>1. HeapOrdered' /\ BrokenAbove' /\ BrokenBelow'
    BY <1>1 DEF HeapOrdered, BrokenAbove, BrokenBelow, Idle
  <2>2. TypeOK'
    BY <1>1 DEF TypeOK
  <2> QED BY <2>1, <2>2
<1> QED BY <1>2, <1>3

-----------------------------------------------------------------------------
(* IInv is an invariant: one step per action.                              *)
LEMMA Invariance == Spec => []IInv
<1>1. IInv /\ [Next]_vars => IInv'
  <2> SUFFICES ASSUME IInv, [Next]_vars PROVE IInv'
    OBVIOUS
  <2>1. ASSUME NEW e \in Events, NEW when \in Delays, Enqueue(e, when) PROVE IInv'
    BY <2>1, EnqueueKeepsIInv
  <2>2. ASSUME NEW S \in SUBSET Events, Dequeue(S) PROVE IInv'
    BY <2>2, DequeueKeepsIInv
  <2>3. CASE RollUp    BY <2>3, RollUpKeepsIInv
  <2>4. CASE Take      BY <2>4, TakeKeepsIInv
  <2>5. CASE RollDown  BY <2>5, RollDownKeepsIInv
  <2>6. CASE Call      BY <2>6, CallKeepsIInv
  <2>7. CASE Tick      BY <2>7, TickKeepsIInv
  <2>8. CASE UNCHANGED vars
    BY <2>8 DEF IInv, TypeOK, HeapOrdered, BrokenAbove, BrokenBelow, NothingOverdue,
                Idle, Under, vars
  <2> QED BY <2>1, <2>2, <2>3, <2>4, <2>5, <2>6, <2>7, <2>8 DEF Next
<1> QED BY <1>1, InitIInv, PTL DEF Spec

(* The state of the queue keeps its shape.                                 *)
THEOREM TypeCorrect == Spec => []TypeOK
<1>1. IInv => TypeOK
  BY DEF IInv
<1> QED BY <1>1, Invariance, PTL

(* event_enq and event_process leave a heap behind, however many events    *)
(* there are: "roll event into its proper place in da heap".               *)
THEOREM OrderHolds == Spec => []HeapOrdered
<1>1. IInv => HeapOrdered
  BY DEF IInv
<1> QED BY <1>1, Invariance, PTL

(* No event is still in the queue when its tick has gone by.               *)
THEOREM NothingIsLate == Spec => []NothingOverdue
<1>1. IInv => NothingOverdue
  BY DEF IInv
<1> QED BY <1>1, Invariance, PTL
-----------------------------------------------------------------------------
(* The refinement.  The agenda is compared by the copies of each record:   *)
(* so many places of the heap hold it, and one more is in tmp_event.       *)
Records == [when : Nat, event : Events]

Spots(h, r)        == { i \in DOMAIN h : h[i].event # Dead /\ h[i] = r }
Copies(h, t, m, r) == Cardinality(Spots(h, r)) + (IF r.when = t /\ r.event = m THEN 1 ELSE 0)
Counted(h, t, m)   == [r \in { q \in Records : Copies(h, t, m, q) > 0 } |-> Copies(h, t, m, r)]

LEMMA SpotsFinite ==
  ASSUME NEW h \in Seq(Elements), NEW r
  PROVE  IsFiniteSet(Spots(h, r)) /\ Cardinality(Spots(h, r)) \in Nat
<1>1. IsFiniteSet(1..Len(h))
  BY FS_Interval
<1>2. Spots(h, r) \in SUBSET (1..Len(h))
  BY DEF Spots
<1> QED BY <1>1, <1>2, FS_Subset, FS_CardinalityType

LEMMA CopiesNat ==
  ASSUME NEW h \in Seq(Elements), NEW t, NEW m, NEW r
  PROVE  Copies(h, t, m, r) \in Nat
BY SpotsFinite DEF Copies

(* Bag, unfolded.                                                          *)
LEMMA BagUnfolded ==
  ASSUME NEW h \in Seq(Elements), NEW t \in Nat, NEW m \in Events \cup {Dead}
  PROVE  LET taken == IF m = Dead THEN {} ELSE {m}
             live  == { i \in DOMAIN h : h[i].event # Dead }
             held  == { h[i] : i \in live } \cup [when : {t}, event : taken]
         IN  [r \in held |-> Cardinality({ i \in live : h[i] = r })
                             + (IF r.when = t /\ r.event \in taken THEN 1 ELSE 0)]
             = Counted(h, t, m)
<1> DEFINE taken == IF m = Dead THEN {} ELSE {m}
           live  == { i \in DOMAIN h : h[i].event # Dead }
           held  == { h[i] : i \in live } \cup [when : {t}, event : taken]
<1>1. \A i \in DOMAIN h : h[i] \in Elements
  OBVIOUS
<1>2. \A r : { i \in live : h[i] = r } = Spots(h, r)
  BY DEF Spots
<1>3. held \subseteq Records
  BY <1>1 DEF Records, Elements
<1>4. \A r \in Records : r.event \in taken <=> r.event = m
  BY DeadAssumption DEF Records
<1>5. \A r \in Records : r \in held <=> Copies(h, t, m, r) > 0
  <2> SUFFICES ASSUME NEW r \in Records PROVE r \in held <=> Copies(h, t, m, r) > 0
    OBVIOUS
  <2>1. r \in { h[i] : i \in live } <=> Spots(h, r) # {}
    BY DEF Spots
  <2>2. Spots(h, r) # {} <=> Cardinality(Spots(h, r)) > 0
    BY SpotsFinite, FS_EmptySet
  <2>3. r \in [when : {t}, event : taken] <=> r.when = t /\ r.event = m
    BY <1>4 DEF Records
  <2> QED BY <2>1, <2>2, <2>3, SpotsFinite DEF Copies
<1>6. held = { q \in Records : Copies(h, t, m, q) > 0 }
  BY <1>3, <1>5
<1>7. \A r \in held : Cardinality({ i \in live : h[i] = r })
                        + (IF r.when = t /\ r.event \in taken THEN 1 ELSE 0) = Copies(h, t, m, r)
  BY <1>2, <1>3, <1>4 DEF Copies
<1> HIDE DEF held, taken, live
<1>8. [r \in held |-> Cardinality({ i \in live : h[i] = r })
                        + (IF r.when = t /\ r.event \in taken THEN 1 ELSE 0)]
      = [r \in held |-> Copies(h, t, m, r)]
  BY <1>7
<1> QED BY <1>6, <1>8 DEF Counted, held, taken, live

LEMMA BagCounts ==
  /\ TypeOK => Bag = Counted(heap, tics, tmp)
  /\ TypeOK' => Bag' = Counted(heap', tics', tmp')
BY BagUnfolded DEF TypeOK, Elements, Bag, Held, Live, Taken

(* What each change of the array does to the copies.                       *)
LEMMA CopiesAppended ==
  ASSUME NEW h \in Seq(Elements), NEW x \in Records, NEW r
  PROVE  Cardinality(Spots(Append(h, x), r)) = Cardinality(Spots(h, r)) + (IF r = x THEN 1 ELSE 0)
<1>1. x.event # Dead
  BY DeadAssumption DEF Records
<1>2. /\ DOMAIN Append(h, x) = 1..(Len(h) + 1) /\ Append(h, x)[Len(h) + 1] = x
      /\ \A i \in 1..Len(h) : Append(h, x)[i] = h[i]
      /\ DOMAIN h = 1..Len(h) /\ Len(h) \in Nat
  OBVIOUS
<1>3. CASE r = x
  <2>1. Spots(Append(h, x), r) = Spots(h, r) \cup {Len(h) + 1}
    BY <1>1, <1>2, <1>3 DEF Spots
  <2>2. Len(h) + 1 \notin Spots(h, r)
    BY <1>2 DEF Spots
  <2> QED BY <1>3, <2>1, <2>2, SpotsFinite, FS_AddElement
<1>4. CASE r # x
  <2>1. Spots(Append(h, x), r) = Spots(h, r)
    BY <1>2, <1>4 DEF Spots
  <2> QED BY <1>4, <2>1, SpotsFinite
<1> QED BY <1>3, <1>4

LEMMA CopiesExchanged ==
  ASSUME TypeOK, NEW i \in 1..Len(heap), NEW j \in 1..Len(heap), i # j, NEW r
  PROVE  Cardinality(Spots(Exchange(i, j), r)) = Cardinality(Spots(heap, r))
<1> DEFINE g == Exchange(i, j)
           f == [k \in Spots(heap, r) |-> IF k = i THEN j ELSE IF k = j THEN i ELSE k]
<1>1. /\ g \in Seq(Elements) /\ Len(g) = Len(heap) /\ g[i] = heap[j] /\ g[j] = heap[i]
      /\ \A k \in 1..Len(heap) : k # i /\ k # j => g[k] = heap[k]
  BY ExchangeProperties
<1>2. heap \in Seq(Elements) /\ DOMAIN heap = 1..Len(heap) /\ DOMAIN g = 1..Len(heap)
  BY <1>1 DEF TypeOK, Elements
<1> HIDE DEF g
<1>3. f \in [Spots(heap, r) -> Spots(g, r)]
  BY <1>1, <1>2 DEF Spots
<1>4. \A a, b \in Spots(heap, r) : f[a] = f[b] => a = b
  OBVIOUS
<1>5. \A k \in Spots(g, r) : \E a \in Spots(heap, r) : f[a] = k
  <2> SUFFICES ASSUME NEW k \in Spots(g, r) PROVE \E a \in Spots(heap, r) : f[a] = k
    OBVIOUS
  <2>1. CASE k = i
    <3>1. j \in Spots(heap, r) /\ f[j] = k
      BY <1>1, <1>2, <2>1 DEF Spots
    <3> QED BY <3>1
  <2>2. CASE k = j
    <3>1. i \in Spots(heap, r) /\ f[i] = k
      BY <1>1, <1>2, <2>2 DEF Spots
    <3> QED BY <3>1
  <2>3. CASE k # i /\ k # j
    <3>1. k \in Spots(heap, r) /\ f[k] = k
      BY <1>1, <1>2, <2>3 DEF Spots
    <3> QED BY <3>1
  <2> QED BY <2>1, <2>2, <2>3
<1>6. f \in Bijection(Spots(heap, r), Spots(g, r))
  BY <1>3, <1>4, <1>5 DEF Bijection, Injection, IsInjective, Surjection
<1>7. ExistsBijection(Spots(heap, r), Spots(g, r))
  BY <1>6 DEF ExistsBijection
<1> QED BY <1>2, <1>7, SpotsFinite, FS_Bijection DEF g

(* The top goes, the last element takes its place.                         *)
LEMMA CopiesTaken ==
  ASSUME NEW h \in Seq(Elements), NEW n, n = Len(h), n > 0, NEW g,
         g = [i \in 1..(n - 1) |-> IF i = 1 THEN h[n] ELSE h[i]], NEW r
  PROVE  Cardinality(Spots(h, r))
           = Cardinality(Spots(g, r)) + (IF h[1].event # Dead /\ h[1] = r THEN 1 ELSE 0)
<1> DEFINE f == [k \in Spots(h, r) \ {1} |-> IF k = n THEN 1 ELSE k]
<1>1. n \in Nat /\ DOMAIN h = 1..n /\ DOMAIN g = 1..(n - 1) /\ 1 \in 1..n
  OBVIOUS
<1>2. f \in [Spots(h, r) \ {1} -> Spots(g, r)]
  BY <1>1 DEF Spots
<1>3. \A a, b \in Spots(h, r) \ {1} : f[a] = f[b] => a = b
  OBVIOUS
<1>4. \A k \in Spots(g, r) : \E a \in Spots(h, r) \ {1} : f[a] = k
  <2> SUFFICES ASSUME NEW k \in Spots(g, r) PROVE \E a \in Spots(h, r) \ {1} : f[a] = k
    OBVIOUS
  <2>1. k \in 1..(n - 1) /\ g[k] = IF k = 1 THEN h[n] ELSE h[k]
    BY DEF Spots
  <2>2. CASE k = 1
    <3>1. n \in Spots(h, r) \ {1} /\ f[n] = k
      BY <1>1, <2>1, <2>2 DEF Spots
    <3> QED BY <3>1
  <2>3. CASE k # 1
    <3>1. k \in Spots(h, r) \ {1} /\ f[k] = k
      BY <1>1, <2>1, <2>3 DEF Spots
    <3> QED BY <3>1
  <2> QED BY <2>2, <2>3
<1>5. f \in Bijection(Spots(h, r) \ {1}, Spots(g, r))
  BY <1>2, <1>3, <1>4 DEF Bijection, Injection, IsInjective, Surjection
<1>6. ExistsBijection(Spots(h, r) \ {1}, Spots(g, r))
  BY <1>5 DEF ExistsBijection
<1>7. /\ IsFiniteSet(Spots(h, r)) /\ Cardinality(Spots(h, r)) \in Nat
      /\ IsFiniteSet(Spots(h, r) \ {1})
      /\ Cardinality(Spots(h, r) \ {1}) = IF 1 \in Spots(h, r) THEN Cardinality(Spots(h, r)) - 1
                                          ELSE Cardinality(Spots(h, r))
  BY SpotsFinite, FS_RemoveElement
<1>8. Cardinality(Spots(g, r)) = Cardinality(Spots(h, r) \ {1})
  BY <1>6, <1>7, FS_Bijection
<1>9. 1 \in Spots(h, r) <=> h[1].event # Dead /\ h[1] = r
  BY <1>1 DEF Spots
<1> HIDE DEF f
<1> QED BY <1>7, <1>8, <1>9

LEMMA CopiesCleared ==
  ASSUME TypeOK, NEW S \in SUBSET Events, NEW r \in Records
  PROVE  Spots(Cleared(S), r) = IF r.event \in S THEN {} ELSE Spots(heap, r)
<1>1. heap \in Seq(Elements) /\ DOMAIN heap = 1..Len(heap) /\ DOMAIN Cleared(S) = DOMAIN heap
  BY HeapTyped DEF TypeOK, Elements, Cleared
<1>2. \A i \in DOMAIN heap :
        IF heap[i].event \in S THEN Cleared(S)[i].event = Dead ELSE Cleared(S)[i] = heap[i]
  <2> SUFFICES ASSUME NEW i \in DOMAIN heap
               PROVE  IF heap[i].event \in S THEN Cleared(S)[i].event = Dead ELSE Cleared(S)[i] = heap[i]
    OBVIOUS
  <2>1. heap[i] \in Elements
    BY <1>1
  <2>2. [heap[i] EXCEPT !.event = Dead].event = Dead
    BY <2>1 DEF Elements
  <2> QED BY <2>2 DEF Cleared
<1> QED BY <1>1, <1>2 DEF Spots
(* Between two calls tmp_event is empty.                                   *)
NothingTaken == loop # "down" => tmp = Dead

LEMMA OrderRefines ==
  ASSUME IInv, IInv', NothingTaken, NEW e \in Events, NEW when \in Delays, Enqueue(e, when)
  PROVE  TheAgenda!Order(e, when)
<1> DEFINE new == [when |-> tics + when, event |-> e]
           C(r) == Copies(heap, tics, tmp, r)
           D(r) == Copies(heap', tics', tmp', r)
<1>1. /\ heap' = Append(heap, new) /\ UNCHANGED <<tics, tmp, called>>
      /\ heap \in Seq(Elements) /\ new \in Records
  BY DelayAssumption DEF Enqueue, IInv, TypeOK, Elements, Records
<1>2. Bag = Counted(heap, tics, tmp) /\ Bag' = Counted(heap', tics', tmp')
  BY BagCounts DEF IInv
<1> HIDE DEF new
<1>3. \A r \in Records : D(r) = C(r) + (IF r = new THEN 1 ELSE 0) /\ C(r) \in Nat
  BY <1>1, CopiesAppended, CopiesNat, SpotsFinite DEF Copies
<1>4. Bag = [r \in { q \in Records : C(q) > 0 } |-> C(r)] /\ Bag' = [r \in { q \in Records : D(q) > 0 } |-> D(r)]
  BY <1>2 DEF Counted
<1> HIDE DEF C, D
<1>5. Bag' = [r \in (DOMAIN Bag) \cup {new} |-> (IF r \in DOMAIN Bag THEN Bag[r] ELSE 0)
                                                + (IF r \in {new} THEN 1 ELSE 0)]
  <2>1. (DOMAIN Bag) \cup {new} = DOMAIN Bag'
    BY <1>1, <1>3, <1>4
  <2>2. \A r \in DOMAIN Bag' : Bag'[r] = (IF r \in DOMAIN Bag THEN Bag[r] ELSE 0)
                                         + (IF r \in {new} THEN 1 ELSE 0)
    BY <1>3, <1>4
  <2> QED BY <1>4, <2>1, <2>2
<1> QED BY <1>1, <1>5 DEF TheAgenda!Order, TheAgenda!(+), TheAgenda!SetToBag, new

LEMMA CancelRefines ==
  ASSUME IInv, IInv', NothingTaken, NEW S \in SUBSET Events, Dequeue(S)
  PROVE  TheAgenda!Cancel(S)
<1> DEFINE C(r) == Copies(heap, tics, tmp, r)
           D(r) == Copies(heap', tics', tmp', r)
<1>1. heap' = Cleared(S) /\ UNCHANGED <<tics, tmp, called>> /\ tmp = Dead /\ heap \in Seq(Elements)
  BY DEF Dequeue, IInv, TypeOK, Elements, NothingTaken, Idle
<1>2. Bag = Counted(heap, tics, tmp) /\ Bag' = Counted(heap', tics', tmp')
  BY BagCounts DEF IInv
<1>3. \A r \in Records : D(r) = (IF r.event \in S THEN 0 ELSE C(r)) /\ C(r) \in Nat
  <2> SUFFICES ASSUME NEW r \in Records
               PROVE  D(r) = (IF r.event \in S THEN 0 ELSE C(r)) /\ C(r) \in Nat
    OBVIOUS
  <2>1. Spots(heap', r) = IF r.event \in S THEN {} ELSE Spots(heap, r)
    BY <1>1, CopiesCleared DEF IInv
  <2>2. r.event # tmp
    BY <1>1, DeadAssumption DEF Records
  <2>3. Cardinality({}) = 0
    BY FS_EmptySet
  <2>4. C(r) = Cardinality(Spots(heap, r)) /\ D(r) = Cardinality(Spots(heap', r))
    <3>1. heap' \in Seq(Elements)
      BY DEF IInv, TypeOK, Elements
    <3>2. Cardinality(Spots(heap', r)) \in Nat /\ Cardinality(Spots(heap, r)) \in Nat
      BY <1>1, <3>1, SpotsFinite
    <3> QED BY <1>1, <2>2, <3>2 DEF Copies
  <2>5. Cardinality(Spots(heap, r)) \in Nat
    BY <1>1, SpotsFinite
  <2> HIDE DEF C, D
  <2> QED BY <2>1, <2>3, <2>4, <2>5
<1>4. Bag = [r \in { q \in Records : C(q) > 0 } |-> C(r)] /\ Bag' = [r \in { q \in Records : D(q) > 0 } |-> D(r)]
  BY <1>2 DEF Counted
<1> HIDE DEF C, D
<1>5. Bag' = [r \in { q \in DOMAIN Bag : q.event \notin S } |-> Bag[r]]
  <2>1. { q \in DOMAIN Bag : q.event \notin S } = DOMAIN Bag'
    BY <1>3, <1>4
  <2>2. \A r \in DOMAIN Bag' : Bag'[r] = Bag[r]
    BY <1>3, <1>4
  <2> QED BY <1>4, <2>1, <2>2
<1> QED BY <1>1, <1>5 DEF TheAgenda!Cancel, TheAgenda!BagToSet

(* An exchange of two elements.                                            *)
LEMMA ExchangeStutters ==
  ASSUME IInv, IInv', NEW i \in 1..Len(heap), NEW j \in 1..Len(heap), i # j,
         heap' = Exchange(i, j), UNCHANGED <<tics, tmp>>
  PROVE  Bag' = Bag
<1>1. \A r : Cardinality(Spots(heap', r)) = Cardinality(Spots(heap, r))
  BY CopiesExchanged DEF IInv
<1>2. \A r : Copies(heap', tics', tmp', r) = Copies(heap, tics, tmp, r)
  BY <1>1 DEF Copies
<1> QED BY <1>2, BagCounts DEF IInv, Counted

LEMMA LoopsStutter ==
  ASSUME IInv, IInv', RollUp \/ RollDown
  PROVE  UNCHANGED <<tics, Bag, called>>
<1>1. UNCHANGED <<tics, tmp, called>>
  BY DEF RollUp, RollDown
<1>2. CASE RollUp
  <2>1. CASE heap' = heap
    BY <1>1, <2>1 DEF Bag, Held, Live, Taken
  <2>2. CASE at > 1 /\ heap' = Exchange(at, Parent(at))
    <3>1. at \in 1..Len(heap) /\ Len(heap) \in Nat
      BY <1>2, HeapTyped DEF RollUp, IInv, TypeOK
    <3>2. Parent(at) \in 1..(at - 1)
      BY <2>2, <3>1, ParentProperties
    <3> QED BY <1>1, <2>2, <3>1, <3>2, ExchangeStutters
  <2> QED BY <1>2, <2>1, <2>2 DEF RollUp
<1>3. CASE RollDown
  <2>1. at \in 1..Len(heap) /\ 2 * at <= Len(heap) /\ heap' = Exchange(at, SmallerChild(at)) /\ Len(heap) \in Nat
    BY <1>3, HeapTyped DEF RollDown, Sinks, IInv, TypeOK
  <2>2. SmallerChild(at) \in 2..Len(heap) /\ Parent(SmallerChild(at)) = at
    BY <2>1, SmallerChildProperties DEF IInv
  <2>3. SmallerChild(at) # at
    BY <2>2, ParentProperties
  <2> QED BY <1>1, <2>1, <2>2, <2>3, ExchangeStutters
<1> QED BY <1>2, <1>3

(* What is due is due now, so that it is pending wherever it is kept.      *)
LEMMA TakeStutters ==
  ASSUME IInv, IInv', NothingTaken, Take
  PROVE  UNCHANGED <<tics, Bag, called>>
<1>1. /\ UNCHANGED <<tics, called>> /\ tmp = Dead /\ tmp' = heap[1].event
      /\ heap' = [i \in 1..(Len(heap) - 1) |-> IF i = 1 THEN heap[Len(heap)] ELSE heap[i]]
      /\ heap \in Seq(Elements) /\ Len(heap) \in Nat /\ Len(heap) > 0 /\ tics \in Nat
  BY DEF Take, IInv, TypeOK, Elements, NothingTaken, Idle
<1>2. heap[1] \in Elements /\ heap[1].when = tics
  BY <1>1, HeapTyped DEF Take, IInv, NothingOverdue, Elements
<1>3. heap' \in Seq(Elements)
  BY DEF IInv, TypeOK, Elements
<1>4. \A r \in Records : Copies(heap', tics', tmp', r) = Copies(heap, tics, tmp, r)
  <2> SUFFICES ASSUME NEW r \in Records
               PROVE  Copies(heap', tics', tmp', r) = Copies(heap, tics, tmp, r)
    OBVIOUS
  <2>1. Cardinality(Spots(heap, r))
          = Cardinality(Spots(heap', r)) + (IF heap[1].event # Dead /\ heap[1] = r THEN 1 ELSE 0)
    BY <1>1, CopiesTaken
  <2>2. heap[1].event # Dead /\ heap[1] = r <=> r.when = tics' /\ r.event = tmp'
    <3>1. \A x \in Elements : x = r <=> x.when = r.when /\ x.event = r.event
      BY DEF Elements, Records
    <3>2. r.event # Dead
      BY DeadAssumption DEF Records
    <3> QED BY <1>1, <1>2, <3>1, <3>2
  <2>3. r.event # tmp
    BY <1>1, DeadAssumption DEF Records
  <2>4. Cardinality(Spots(heap', r)) \in Nat
    BY <1>3, SpotsFinite
  <2> QED BY <2>1, <2>2, <2>3, <2>4 DEF Copies
<1>5. Bag' = Bag
  BY <1>4, BagCounts DEF IInv, Counted
<1> QED BY <1>1, <1>5

(* Nothing is delivered before what is due earlier.                        *)
LEMMA CallRefines ==
  ASSUME IInv, IInv', Call
  PROVE  IF tmp = Dead THEN UNCHANGED <<tics, Bag, called>> ELSE TheAgenda!Deliver
<1>1. /\ UNCHANGED <<heap, tics>> /\ tmp' = Dead /\ called' = IF tmp = Dead THEN called ELSE {tmp}
      /\ heap \in Seq(Elements) /\ tics \in Nat /\ tmp \in Events \cup {Dead}
  BY DEF Call, IInv, TypeOK, Elements
<1>2. CASE tmp = Dead
  BY <1>1, <1>2 DEF Bag, Held, Live, Taken
<1>3. CASE tmp # Dead
  <2> DEFINE t == [when |-> tics, event |-> tmp]
             C(r) == Copies(heap, tics, tmp, r)
             D(r) == Copies(heap', tics', tmp', r)
  <2>1. t \in Records
    BY <1>1, <1>3 DEF Records
  <2>2. \A r \in Records : r.when = tics /\ r.event = tmp <=> r = t
    BY DEF Records
  <2>3. \A r \in Records : r.event # tmp'
    BY <1>1, DeadAssumption DEF Records
  <2>4. \A r \in Records : C(r) = D(r) + (IF r = t THEN 1 ELSE 0) /\ D(r) \in Nat
    BY <1>1, <2>2, <2>3, SpotsFinite DEF Copies
  <2>5. /\ Bag = [r \in { q \in Records : C(q) > 0 } |-> C(r)]
        /\ Bag' = [r \in { q \in Records : D(q) > 0 } |-> D(r)]
    BY BagCounts DEF IInv, Counted
  <2>6. \A r \in DOMAIN Bag : t.when <= r.when
    <3> SUFFICES ASSUME NEW r \in Records, C(r) > 0 PROVE tics <= r.when
      BY <2>5
    <3>1. CASE r = t
      BY <1>1, <3>1
    <3>2. CASE r # t
      <4>1. Cardinality(Spots(heap, r)) > 0
        BY <2>2, <3>2, SpotsFinite, <1>1 DEF Copies
      <4>2. PICK i \in DOMAIN heap : heap[i] = r
        BY <4>1, FS_EmptySet DEF Spots
      <4> QED BY <4>2, HeapTyped DEF IInv, NothingOverdue
    <3> QED BY <3>1, <3>2
  <2> HIDE DEF C, D, t
  <2>7. t \in DOMAIN Bag
    BY <2>1, <2>4, <2>5
  <2>8. Bag' = [r \in { q \in DOMAIN Bag : (IF q \in {t} THEN Bag[q] - 1 ELSE Bag[q]) > 0 } |->
                  IF r \in {t} THEN Bag[r] - 1 ELSE Bag[r]]
    <3>1. { q \in DOMAIN Bag : (IF q \in {t} THEN Bag[q] - 1 ELSE Bag[q]) > 0 } = DOMAIN Bag'
      BY <2>4, <2>5
    <3>2. \A r \in DOMAIN Bag' : Bag'[r] = IF r \in {t} THEN Bag[r] - 1 ELSE Bag[r]
      BY <2>4, <2>5
    <3> QED BY <2>5, <3>1, <3>2
  <2>10. t.when <= tics /\ called' = {t.event} /\ tics' = tics
    BY <1>1, <1>3 DEF t
  <2>11. TheAgenda!Deliver
    BY <2>6, <2>7, <2>8, <2>10 DEF TheAgenda!Deliver, TheAgenda!BagToSet, TheAgenda!(-), TheAgenda!SetToBag
  <2> QED BY <1>3, <2>11
<1> QED BY <1>2, <1>3

(* The clock waits for the top, and the top is the least.                  *)
LEMMA TickRefines ==
  ASSUME IInv, IInv', NothingTaken, Tick
  PROVE  TheAgenda!Advance
<1>1. /\ UNCHANGED <<heap, called, tmp>> /\ tics' = tics + 1 /\ tmp = Dead /\ Idle /\ tics \in Nat
      /\ heap \in Seq(Elements) /\ (heap # << >> => heap[1].when > tics)
  BY DEF Tick, IInv, TypeOK, Elements, NothingTaken, Idle
<1>2. \A i \in DOMAIN heap : heap[i].when > tics
  <2> DEFINE w == [i \in 1..Len(heap) |-> heap[i].when]
  <2>1. Len(heap) \in Nat /\ DOMAIN heap = 1..Len(heap) /\ \A i \in 1..Len(heap) : heap[i].when \in Nat
    BY HeapTyped DEF IInv
  <2>2. \A i \in 2..Len(heap) : w[Parent(i)] <= w[i]
    <3> SUFFICES ASSUME NEW i \in 2..Len(heap) PROVE w[Parent(i)] <= w[i]
      OBVIOUS
    <3>1. Parent(i) \in 1..(i - 1)
      BY <2>1, ParentProperties
    <3> QED BY <1>1, <2>1, <3>1 DEF IInv, HeapOrdered
  <2>3. \A i \in 1..Len(heap) : w[1] <= w[i]
    <3> HIDE DEF w
    <3>1. \A i \in 1..Len(heap) : w[i] \in Nat
      BY <2>1 DEF w
    <3> QED BY <2>1, <2>2, <3>1, TopIsLeast
  <2>4. ASSUME NEW i \in DOMAIN heap PROVE heap[i].when > tics
    <3>1. heap # << >> /\ 1 \in 1..Len(heap) /\ i \in 1..Len(heap)
      BY <2>1
    <3>2. heap[1].when > tics /\ heap[1].when <= heap[i].when
      BY <1>1, <2>3, <3>1
    <3> QED BY <1>1, <2>1, <3>1, <3>2
  <2> QED BY <2>4
<1>3. \A r \in Held : r.when > tics
  BY <1>1, <1>2 DEF Held, Live, Taken
<1>4. Held' = Held
  BY <1>1 DEF Held, Live, Taken
<1>5. Bag' = Bag /\ DOMAIN Bag = Held
  BY <1>1, <1>4 DEF Bag, Live, Taken
<1> QED BY <1>1, <1>3, <1>5 DEF TheAgenda!Advance, TheAgenda!BagToSet

LEMMA StepRefines ==
  ASSUME IInv, IInv', NothingTaken, [Next]_vars
  PROVE  [TheAgenda!Next]_(TheAgenda!vars) /\ NothingTaken'
<1>1. ASSUME NEW e \in Events, NEW when \in Delays, Enqueue(e, when)
      PROVE  TheAgenda!Next /\ NothingTaken'
  BY <1>1, OrderRefines DEF TheAgenda!Next, Enqueue, NothingTaken, Idle
<1>2. ASSUME NEW S \in SUBSET Events, Dequeue(S) PROVE TheAgenda!Next /\ NothingTaken'
  BY <1>2, CancelRefines DEF TheAgenda!Next, Dequeue, NothingTaken
<1>3. CASE RollUp \/ RollDown
  <2>1. NothingTaken'
    BY <1>3 DEF RollUp, RollDown, NothingTaken
  <2> QED BY <1>3, <2>1, LoopsStutter DEF TheAgenda!vars
<1>4. CASE Take
  BY <1>4, TakeStutters DEF TheAgenda!vars, Take, NothingTaken
<1>5. CASE Call
  BY <1>5, CallRefines DEF TheAgenda!vars, TheAgenda!Next, Call, NothingTaken
<1>6. CASE Tick
  BY <1>6, TickRefines DEF TheAgenda!Next, Tick, NothingTaken
<1>7. CASE UNCHANGED vars
  BY <1>7 DEF vars, TheAgenda!vars, Bag, Held, Live, Taken, NothingTaken
<1> QED BY <1>1, <1>2, <1>3, <1>4, <1>5, <1>6, <1>7 DEF Next

(* The heap is an agenda: every event_enq is answered by one call of its   *)
(* function, not before its tick and not after it, in the order of the     *)
(* ticks, and never once it was dequeued.                                  *)
THEOREM Refinement == Spec => ImplementsAgenda
<1>1. Init => TheAgenda!Init /\ NothingTaken
  <2> SUFFICES ASSUME Init PROVE TheAgenda!Init /\ NothingTaken
    OBVIOUS
  <2>1. tics = 0 /\ called = {} /\ tmp = Dead /\ DOMAIN heap = {}
    BY DEF Init
  <2>2. Held = {}
    BY <2>1 DEF Held, Live, Taken
  <2>3. Bag = [r \in {} |-> 1]
    BY <2>2 DEF Bag
  <2> QED BY <2>1, <2>3 DEF TheAgenda!Init, TheAgenda!EmptyBag, TheAgenda!SetToBag, NothingTaken
<1>2. IInv /\ IInv' /\ NothingTaken /\ [Next]_vars => [TheAgenda!Next]_(TheAgenda!vars) /\ NothingTaken'
  BY StepRefines
<1> QED BY <1>1, <1>2, Invariance, PTL DEF Spec, ImplementsAgenda, TheAgenda!Spec
=============================================================================
