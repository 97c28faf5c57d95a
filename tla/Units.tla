------------------------------- MODULE Units -------------------------------
(***************************************************************************)
(* Units inside units (handler.c): how a unit moves up and down, and the   *)
(* sums each container keeps of what it contains, weight and characters.   *)
(*                                                                         *)
(* A unit that was extracted waits in a room, the void, to be freed at the *)
(* end of the cycle.  Until then a program may move it, and put things in  *)
(* it, as if it were still in the game.                                    *)
(*                                                                         *)
(* Abstracted: money, which is piled when it moves, the order of the       *)
(* contents, the sums of light, which the code does not keep exactly, and  *)
(* players in the menu, who are in nothing: they count as freed.  The sums *)
(* are small: their 16 and 8 bits are never exceeded.                      *)
(***************************************************************************)
EXTENDS Integers, FiniteSets, FiniteSetsExt

CONSTANTS
  Rooms, Chars, Objs,
  Void,         \* destroy_room, one of the rooms
  Wearable,     \* bound: the objects that are equipped
  Vessels,      \* bound: the units whose own weight may change
  Nowhere,      \* the null pointer: what a unit is in that is in nothing
  MaxWeight     \* bound: of a unit without its contents

AllUnits == Rooms \cup Chars \cup Objs

ASSUME UnitsAssumption ==
  /\ IsFiniteSet(AllUnits)
  /\ Void \in Rooms /\ Nowhere \notin AllUnits
  /\ Rooms \cap Chars = {} /\ (Rooms \cup Chars) \cap Objs = {}
  /\ Vessels \subseteq AllUnits /\ Wearable \subseteq Objs
  /\ MaxWeight \in Nat \ {0}

VARIABLES
  w,        \* of each unit: in, and the sums it keeps
  own,      \* its weight without contents
  worn,     \* the objects with an OBJ_EQP_POS
  gone,     \* destructed[DR_UNIT]: extracted, and not freed yet
  refilled  \* history: those of gone that something was put into since

unitsVars == <<w, own, worn, gone, refilled>>

World == [ in     : [AllUnits -> AllUnits \cup {Nowhere}],
           weight : [AllUnits -> Int],
           chars  : [AllUnits -> Int] ]

Contents(W, u) == {c \in AllUnits : W.in[c] = u}
Exists(u)      == u \in Rooms \/ w.in[u] # Nowhere

(* u, what it is in, and so on outwards.                                   *)
Containers(W, u) ==
  LET out[x \in AllUnits] ==
        {x} \cup IF W.in[x] = Nowhere THEN {} ELSE out[W.in[x]]
  IN out[u]

UnitsInit ==
  /\ w = [ in     |-> [u \in AllUnits |-> Nowhere],
           weight |-> [u \in AllUnits |-> 1],
           chars  |-> [u \in AllUnits |-> 0] ]
  /\ own = [u \in AllUnits |-> 1]
  /\ worn = {}
  /\ gone = {} /\ refilled = {}

-----------------------------------------------------------------------------
(* A step of a unit up, or down.                                           *)

(* Adds n to the sum of u, where there is such a unit. *)
Plus(f, u, n) == IF u = Nowhere THEN f ELSE [f EXCEPT ![u] = @ + n]
Count(u)      == IF u \in Chars THEN 1 ELSE 0

(* intern_unit_up *)
Up(W, u) ==
  LET in   == W.in[u]
      toin == W.in[in]
  IN [ in     |-> [W.in EXCEPT ![u] = toin],
       weight |-> Plus(W.weight, in, -W.weight[u]),
       chars  |-> Plus(Plus(W.chars, in, -Count(u)), toin, Count(u)) ]

(* intern_unit_down *)
Down(W, u, to) ==
  [ in     |-> [W.in EXCEPT ![u] = to],
    weight |-> Plus(W.weight, to, W.weight[u]),
    chars  |-> Plus(Plus(W.chars, W.in[u], -Count(u)), to, Count(u)) ]

(* while (UNIT_IN(unit)): no unit is in more units than there are.         *)
From(W, u) ==
  LET up[n \in Nat] ==
        IF n = 0 THEN W
        ELSE LET V == up[n - 1] IN IF V.in[u] = Nowhere THEN V ELSE Up(V, u)
  IN up[Cardinality(AllUnits)]

ToDirect(W, u, to) == Down(W, u, to)   \* mutant: not down from the room
To(W, u, to) ==
  LET down[x \in AllUnits] ==
        Down(IF W.in[x] = Nowhere THEN W ELSE down[W.in[x]], u, x)
  IN down[to]

UnitRecursive(u, to) == u \in Containers(w, to)

-----------------------------------------------------------------------------
(* Moving.                                                                 *)

(* equip_char *)
Equip(o) ==
  /\ o \in Wearable \ worn /\ w.in[o] \in Chars
  /\ worn' = worn \cup {o}
  /\ UNCHANGED <<w, own, gone, refilled>>

(* unequip_object *)
Unequip(o) ==
  /\ o \in worn
  /\ worn' = worn \ {o}
  /\ UNCHANGED <<w, own, gone, refilled>>

(* drop *)
UnitUp(u) ==
  /\ u \in Objs \ worn /\ w.in[u] \in Chars
  /\ w' = Up(w, u)
  /\ UNCHANGED <<own, worn, gone, refilled>>

(* The link of a DIL program: anything into anything, destroyed or not, but *)
(* rooms only into rooms; what is worn is taken off even when the link is   *)
(* refused.  The commands that carry, give or put something, enter or walk  *)
(* do the same for less.                                                    *)
Allowed(u, to) == ~ UnitRecursive(u, to) /\ (u \in Rooms => to \in Rooms)

LinkWorn(u, to) ==   \* mutant: what is worn stays worn
  /\ Exists(u) /\ Exists(to)
  /\ w' = IF Allowed(u, to) THEN To(From(w, u), u, to) ELSE w
  /\ refilled' = IF Allowed(u, to) THEN refilled \cup ({to} \cap gone) ELSE refilled
  /\ UNCHANGED <<own, worn, gone>>
LinkAnywhere(u, to) ==   \* mutant: into itself as well
  /\ Exists(u) /\ Exists(to)
  /\ worn' = worn \ {u}
  /\ w' = To(From(w, u), u, to)
  /\ refilled' = refilled \cup ({to} \cap gone)
  /\ UNCHANGED <<own, gone>>
Link(u, to) ==
  /\ Exists(u) /\ Exists(to)
  /\ worn' = worn \ {u}
  /\ w' = IF Allowed(u, to) THEN To(From(w, u), u, to) ELSE w
  /\ refilled' = IF Allowed(u, to) THEN refilled \cup ({to} \cap gone) ELSE refilled
  /\ UNCHANGED <<own, gone>>

(* weight_change_unit: drinking, pouring, setweight. *)
Heavier(W, u, n) ==
  [W EXCEPT !.weight = [x \in AllUnits |->
     IF x \in Containers(W, u) THEN W.weight[x] + n ELSE W.weight[x]]]

ChangeWeight(u) ==
  /\ u \in Vessels /\ Exists(u)
  /\ \E n \in {-1, 1} :
       /\ own[u] + n \in 1..MaxWeight
       /\ own' = [own EXCEPT ![u] = @ + n]
       /\ w' = Heavier(w, u, n)
  /\ UNCHANGED <<worn, gone, refilled>>

-----------------------------------------------------------------------------
(* Coming and going.                                                       *)

Within(u) == {x \in AllUnits : u \in Containers(w, x)}

(* Does it with all units of T, the inner ones before what they are in.    *)
InsideOut(W, T, Does(_, _)) ==
  LET out[S \in SUBSET T] ==
        IF S = {} THEN W
        ELSE LET x == CHOOSE x \in S : W.in[x] \notin S IN Does(out[S \ {x}], x)
  IN out[T]

(* extract_unit: what is worn is taken off, the contents go first, and all  *)
(* of it directly into the void.  It ends, and so it happens, only if       *)
(* nothing inside was extracted before: the recursive call returns at once  *)
(* then, and while (UNIT_CONTAINS(unit)) finds the same unit again.         *)
ToVoid(W, u) == To(From(W, u), u, Void)
ExtractedWhole(W, u) == ToVoid(W, u)   \* mutant: with its contents
Extracted(W, u) == InsideOut(W, Within(u), ToVoid)

ExtractUnit(u) ==
  /\ u \notin Rooms \cup gone /\ Exists(u) /\ Within(u) \cap gone = {}
  /\ w' = Extracted(w, u)
  /\ worn' = worn \ Within(u)
  /\ gone' = gone \cup Within(u)
  /\ UNCHANGED <<own, refilled>>

(* clear_destructed: destruct_unit of what is registered, wherever it is by *)
(* now, and of all that is found inside, which is freed with it.  What was  *)
(* registered itself is then freed twice: the second time changes nothing   *)
(* here.                                                                    *)
Freed == UNION {Within(d) : d \in gone}

Clear ==
  /\ gone # {}
  /\ w' = InsideOut(w, Freed, From)
  /\ worn' = worn \ Freed
  /\ gone' = {} /\ refilled' = {}
  /\ UNCHANGED own

(* read_unit and unit_to_unit: a new one, in the place of one that is freed,*)
(* into a room or into what loads it.                                       *)
ReadUnit(u, to) ==
  /\ ~ Exists(u) /\ Exists(to)
  /\ own' = [own EXCEPT ![u] = 1]
  /\ w' = To([w EXCEPT !.weight[u] = 1, !.chars[u] = 0], u, to)
  /\ refilled' = refilled \cup ({to} \cap gone)
  /\ UNCHANGED <<worn, gone>>

-----------------------------------------------------------------------------
UnitsNext ==
  \/ Clear
  \/ \E u \in AllUnits :
       \/ Equip(u) \/ Unequip(u) \/ UnitUp(u) \/ ChangeWeight(u) \/ ExtractUnit(u)
       \/ \E to \in AllUnits : Link(u, to) \/ ReadUnit(u, to)

UnitsSpec == UnitsInit /\ [][UnitsNext]_unitsVars

-----------------------------------------------------------------------------
(* The shape of the state; what is worn is carried by a character, or      *)
(* unequip_object would fail its assertion (handler.c:431), and what is    *)
(* registered has not been freed.                                          *)
UnitsOK ==
  /\ w \in World
  /\ own \in [AllUnits -> 1..MaxWeight]
  /\ worn \subseteq Wearable /\ \A o \in worn : w.in[o] \in Chars
  /\ gone \subseteq Chars \cup Objs /\ \A d \in gone : w.in[d] # Nowhere
  /\ refilled \subseteq gone

(* Nothing is inside itself, through whatever it is in: or the loops that   *)
(* go outwards (unit_recursive, unit_from_unit, weight_change_unit) would   *)
(* not end.                                                                 *)
NothingInItself ==
  \A T \in SUBSET AllUnits : T # {} => \E u \in T : w.in[u] \notin T

(* No UNIT_IN points to what has been freed, wherever a program moved the   *)
(* things that were waiting for it (destruct.c:142); and what waits has     *)
(* nothing in it, unless a program put it there after it was extracted:     *)
(* that is the only way in which something of the game is freed with it.    *)
GoneIsEmpty ==
  \A u \in Chars \cup Objs :
    w.in[u] = Nowhere \/ u \in gone \ refilled => Contents(w, u) = {}

Total(f, S) == FoldSet(LAMBDA c, n : f[c] + n, 0, S)

(* Every unit weighs what it weighs empty and what its contents weigh, and *)
(* counts the characters directly inside it, wherever things went: what a  *)
(* player can carry is decided from the weight (limits.c:95), who is       *)
(* disturbed or saved from the count.                                      *)
CountsAddUp ==
  \A u \in AllUnits :
    /\ w.weight[u] = own[u] + Total(w.weight, Contents(w, u))
    /\ w.chars[u] = Cardinality(Contents(w, u) \cap Chars)

-----------------------------------------------------------------------------
(* What the code does not keep; each has a configuration of its own.       *)

(* destruct.c:47: "we know that the only problem occurs when" an event is  *)
(* being called.  What a program puts into a destroyed unit is freed with   *)
(* it, though nobody extracted it and programs may still know it ...       *)
OnlyExtractedFreed == Freed \subseteq gone

(* ... and a destroyed unit that a program linked into another one makes   *)
(* the extraction of that one go on for ever.                              *)
NoExtractionHangs ==
  \A u \in Chars \cup Objs : Exists(u) /\ u \notin gone => Within(u) \cap gone = {}
=============================================================================
