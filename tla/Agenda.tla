------------------------------- MODULE Agenda -------------------------------
(***************************************************************************)
(* What the event queue of main.c promises its callers, whatever holds the *)
(* events: each event_enq is answered by one call of its function, not     *)
(* before its time and, as long as game_loop comes round, not after the    *)
(* tick it was ordered for; a dequeued event is never delivered; and what  *)
(* is due is delivered in the order of its times.                          *)
(***************************************************************************)
EXTENDS Integers, Bags, FiniteSets

CONSTANTS
  Events,    \* (func, arg1, arg2): what is called
  Delays     \* arguments `when' of event_enq

VARIABLES
  now,       \* the tick
  pending,   \* bag of what was ordered: [when, event]
  called     \* the last event delivered, if any

vars == <<now, pending, called>>

Init == /\ now = 0
        /\ pending = EmptyBag
        /\ called = {}

Order(e, delay) ==
  /\ pending' = pending (+) SetToBag({[when |-> now + delay, event |-> e]})
  /\ UNCHANGED <<now, called>>

Cancel(S) ==
  /\ pending' = [r \in { q \in BagToSet(pending) : q.event \notin S } |-> pending[r]]
  /\ UNCHANGED <<now, called>>

Deliver ==
  \E r \in BagToSet(pending) :
    /\ r.when <= now
    /\ \A q \in BagToSet(pending) : r.when <= q.when
    /\ pending' = pending (-) SetToBag({r})
    /\ called' = {r.event}
    /\ UNCHANGED now

Advance ==
  /\ \A r \in BagToSet(pending) : r.when > now
  /\ now' = now + 1
  /\ UNCHANGED <<pending, called>>

Next == \/ \E e \in Events, delay \in Delays : Order(e, delay)
        \/ \E S \in SUBSET Events : Cancel(S)
        \/ Deliver
        \/ Advance

Spec == Init /\ [][Next]_vars
=============================================================================
