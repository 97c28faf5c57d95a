------------------------------ MODULE EventHeap ------------------------------
(***************************************************************************)
(* The event queue of main.c: event_enq, event_deenq, event_deenq_relaxed, *)
(* event_process, and the clock of game_loop.                              *)
(*                                                                         *)
(* The queue is a binary heap in an array ordered by `when'.  event_heap   *)
(* counts from 0, heap from 1, so ((i + 1) >> 1) - 1 is i \div 2 here.     *)
(* Dequeuing leaves the element where it is and only zeroes its func; such *)
(* a dead element is popped at its time and calls nothing.                 *)
(*                                                                         *)
(* The two loops that restore the order are steps of their own, one        *)
(* exchange each, with the loop's pointer (end, newtop) in `at'.  Nothing  *)
(* else runs until the loop has ended.  The growth of the array (RECREATE) *)
(* and the wrap-around of tics are left out.                               *)
(***************************************************************************)
EXTENDS Integers, Sequences, FiniteSets

CONSTANTS
  Events,    \* (func, arg1, arg2)
  Dead,      \* func = 0
  Delays,    \* arguments `when' of event_enq: every caller passes a positive one
  MaxEvents, \* bound: elements of the heap
  MaxTics    \* bound: the clock

ASSUME DeadAssumption  == Dead \notin Events
ASSUME DelayAssumption == Delays \subseteq Nat \ {0}
ASSUME BoundAssumption == MaxEvents \in Nat /\ MaxTics \in Nat

VARIABLES
  heap,   \* event_heap[0 .. events-1], records [when, event]
  tics,
  loop,   \* "idle", "up" in event_enq, "down" in event_process
  at,     \* where the loop's pointer stands, 0 when idle
  tmp,    \* tmp_event.func of event_process, Dead when there is none
  called  \* history: the last event whose function was called

vars == <<heap, tics, loop, at, tmp, called>>

-----------------------------------------------------------------------------
Idle == loop = "idle"

RoundDown(i) == (i - 1) \div 2    \* mutant: (i >> 1) - 1 of the array that counts from 0
Parent(i) == i \div 2

Exchange(i, j) == [heap EXCEPT ![i] = heap[j], ![j] = heap[i]]

PastTheEnd == Len(heap) + 2    \* mutant: where the next one would go
End == Len(heap) + 1

(* event_enq puts the element at the end ... *)
Enqueue(e, when) ==
  /\ Idle
  /\ Len(heap) < MaxEvents
  /\ heap' = Append(heap, [when |-> tics + when, event |-> e])
  /\ loop' = "up"
  /\ at' = End
  /\ UNCHANGED <<tics, tmp, called>>

(* ... and rolls it "into its proper place in da heap". *)
RollUp ==
  /\ loop = "up"
  /\ IF at > 1 /\ heap[at].when < heap[Parent(at)].when
     THEN /\ heap' = Exchange(at, Parent(at))
          /\ at' = Parent(at)
          /\ loop' = loop
     ELSE /\ loop' = "idle"
          /\ at' = 0
          /\ heap' = heap
  /\ UNCHANGED <<tics, tmp, called>>

(* Mutant: event_deenq leaves its loop at the first match. *)
ClearedOnce(S) ==
  LET matches == { i \in DOMAIN heap : heap[i].event \in S }
  IN [i \in DOMAIN heap |->
        IF i \in matches /\ \A j \in matches : i <= j
        THEN [heap[i] EXCEPT !.event = Dead] ELSE heap[i]]
Cleared(S) == [i \in DOMAIN heap |-> IF heap[i].event \in S
                                     THEN [heap[i] EXCEPT !.event = Dead] ELSE heap[i]]

(* event_deenq takes one event, event_deenq_relaxed all those that agree   *)
(* with the arguments that are not null.                                   *)
Dequeue(S) ==
  /\ Idle
  /\ heap' = Cleared(S)
  /\ UNCHANGED <<tics, loop, at, tmp, called>>

(* event_process takes the top off while it is due, puts the last element  *)
(* there ...                                                               *)
Take ==
  /\ Idle
  /\ heap # << >>
  /\ heap[1].when <= tics
  /\ tmp' = heap[1].event
  /\ heap' = [i \in 1..(Len(heap) - 1) |-> IF i = 1 THEN heap[Len(heap)] ELSE heap[i]]
  /\ loop' = "down"
  /\ at' = 1
  /\ UNCHANGED <<tics, called>>

(* ... lets it sink, always under the smaller child ... *)
SmallerChild(i) ==
  IF 2 * i + 1 <= Len(heap) /\ heap[2 * i].when > heap[2 * i + 1].when
  THEN 2 * i + 1 ELSE 2 * i

Sinks == 2 * at <= Len(heap) /\ heap[SmallerChild(at)].when < heap[at].when

RollDown ==
  /\ loop = "down"
  /\ Sinks
  /\ heap' = Exchange(at, SmallerChild(at))
  /\ at' = SmallerChild(at)
  /\ UNCHANGED <<tics, loop, tmp, called>>

(* ... and calls the function, which may enqueue and dequeue. *)
Call ==
  /\ loop = "down"
  /\ ~Sinks
  /\ loop' = "idle"
  /\ at' = 0
  /\ called' = IF tmp = Dead THEN called ELSE {tmp}
  /\ tmp' = Dead
  /\ UNCHANGED <<heap, tics>>

(* game_loop: tics++ once event_process finds nothing more to do. *)
Tick ==
  /\ Idle
  /\ heap # << >> => heap[1].when > tics
  /\ tics < MaxTics
  /\ tics' = tics + 1
  /\ UNCHANGED <<heap, loop, at, tmp, called>>

-----------------------------------------------------------------------------
Init ==
  /\ heap = << >>
  /\ tics = 0
  /\ loop = "idle" /\ at = 0
  /\ tmp = Dead
  /\ called = {}

Next ==
  \/ \E e \in Events, when \in Delays : Enqueue(e, when)
  \/ \E S \in SUBSET Events : Dequeue(S)
  \/ RollUp \/ Take \/ RollDown \/ Call \/ Tick

Spec == Init /\ [][Next]_vars

-----------------------------------------------------------------------------
(* Properties.                                                             *)

(* The shape of the state.                                                 *)
TypeOK ==
  /\ heap \in Seq([when : Nat, event : Events \cup {Dead}])
  /\ tics \in Nat
  /\ loop \in {"idle", "up", "down"}
  /\ at \in Nat
  /\ loop = "up" => at \in 1..Len(heap)
  /\ loop = "down" => at \in 1..(Len(heap) + 1)
  /\ tmp \in Events \cup {Dead}
  /\ called \subseteq Events

(* Outside the loops nothing comes before its parent; event_process looks  *)
(* at the top alone and relies on it.                                      *)
HeapOrdered ==
  Idle => \A i \in 2..Len(heap) : heap[Parent(i)].when <= heap[i].when

(* No event is left behind: when tics moves on, whatever was ordered for   *)
(* an earlier tick has been delivered.                                     *)
NothingOverdue == \A i \in 1..Len(heap) : heap[i].when >= tics

(* The queue is an agenda: see there.                                      *)
Taken == IF tmp = Dead THEN {} ELSE {tmp}
Live  == { i \in DOMAIN heap : heap[i].event # Dead }
Held  == { heap[i] : i \in Live } \cup [when : {tics}, event : Taken]
Bag   == [r \in Held |-> Cardinality({ i \in Live : heap[i] = r })
                         + (IF r.when = tics /\ r.event \in Taken THEN 1 ELSE 0)]

TheAgenda == INSTANCE Agenda WITH now <- tics, pending <- Bag
ImplementsAgenda == TheAgenda!Spec
=============================================================================
