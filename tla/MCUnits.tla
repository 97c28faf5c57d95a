------------------------------ MODULE MCUnits ------------------------------
(* A room and the void, a character, a flask to drink from, worn at the    *)
(* belt, and two bags.                                                     *)
EXTENDS Units, TLC

CONSTANTS hall, void, ann, flask, bag, sack

MCRooms == {hall, void}
MCChars == {ann}
MCBags  == {bag, sack}
MCObjs  == {flask} \cup MCBags

Symmetry == Permutations(MCBags)
=============================================================================
