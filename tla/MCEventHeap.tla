---------------------------- MODULE MCEventHeap ----------------------------
(* Instances of EventHeap for TLC. *)
EXTENDS EventHeap

CONSTANTS e1, e2

MCEvents == {e1, e2}
=============================================================================
