------------------------------ MODULE MCCombat ------------------------------
(* Instances of Combat for TLC.  bob and cyd are alike; ann is faster, and  *)
(* with two weapons strikes three times in a turn.                         *)
EXTENDS Combat, TLC

CONSTANTS ann, bob, cyd

MCChars    == {ann, bob, cyd}
MCSpeed    == ann :> 8 @@ bob :> 12 @@ cyd :> 12
MCAlike    == Permutations({bob, cyd})
MCPair     == {ann, bob}
MCSpeedTwo == ann :> 4 @@ bob :> 12
=============================================================================
