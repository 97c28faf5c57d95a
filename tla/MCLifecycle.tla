----------------------------- MODULE MCLifecycle -----------------------------
(* An instance of Lifecycle for TLC. *)
EXTENDS Lifecycle

CONSTANTS npc, pc, a1, f1

MCUnits == {npc, pc}
MCPCs   == {pc}
MCAffects == {a1}
MCFuncs == {f1}
=============================================================================
