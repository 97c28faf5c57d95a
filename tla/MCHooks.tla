------------------------------ MODULE MCHooks ------------------------------
(* An instance of Hooks for TLC: one connection with messages longer and   *)
(* not longer than the buffer, and one that must find nothing of them.     *)
EXTENDS Hooks

Lengths == << <<1, 0>>, << >> >>
=============================================================================
