------------------------------- MODULE Combat -------------------------------
(***************************************************************************)
(* The combat component: combat.c.                                         *)
(*                                                                         *)
(* Every character that takes part in a fight owns one cCombat: the array  *)
(* of its opponents, the opponent it strikes at (pMelee), the tick of its  *)
(* next action (nWhen) and a buffered command.  The global CombatList      *)
(* holds every cCombat; once per turn PerformViolence sorts it and walks   *)
(* it with the member nIdx, calling out to melee_violence or the command   *)
(* interpreter, which start and stop fights, and so change the very list   *)
(* that is being walked.                                                   *)
(*                                                                         *)
(* An opponent array is modelled by how often each character occurs in it. *)
(* nIdx counts from 0 and is -1 outside PerformViolence; here it is        *)
(* `cursor', which counts from 1 and is 0 outside.                         *)
(***************************************************************************)
EXTENDS Integers, Sequences, FiniteSets, Functions, SequencesExt

CONSTANTS
  Chars,          \* the characters (struct unit_data of type PC or NPC)
  None,           \* the null pointer
  Speed,          \* CHAR_SPEED of each character
  DualWielders,   \* the characters for which char_dual_wield holds
  SPEED_DEFAULT,  \* values.h: the length of a combat round
  SPEED_MIN,      \* values.h: the fastest speed
  Deltas,         \* arguments of changeSpeed (bash, spells, weapon speed)
  MaxWhen,        \* bound: changeSpeed keeps nWhen at or below it
  MaxOps,         \* bound: operations on the fights within one turn
  Watched         \* bound: the characters that steady is kept of

ASSUME NullAssumption  == None \notin Chars
ASSUME SpeedAssumption == /\ SPEED_MIN \in Nat \ {0}
                          /\ SPEED_DEFAULT \in Nat \ {0}
                          /\ Speed \in [Chars -> Nat]
                          /\ DualWielders \subseteq Chars
ASSUME BoundAssumption == Deltas \subseteq Nat /\ MaxWhen \in Nat /\ MaxOps \in Nat

VARIABLES
  opponents,   \* [c][d]: how often d occurs in the pOpponents of c
  combat,      \* the characters whose CHAR_COMBAT is not null
  melee,       \* pMelee of each cCombat
  when,        \* nWhen of each cCombat, 0 without one
  cmd,         \* the characters with a buffered combat command
  list,        \* CombatList.pElems, by owner
  cursor,      \* nIdx + 1
  current,     \* owner of `tmp' while PerformViolence calls out, else None
  errand,      \* what tmp was called for: "melee" or "command", "freed" once deleted
  heir,        \* whose new cCombat got the memory of the deleted tmp, else None
  anyAction,   \* bAnyaction
  stopping,    \* the character whose stop_fighting(ch, NULL) loop runs
  destructed,  \* the characters registered with DR_UNIT
  attacks,     \* history: melee rounds of each character in this turn
  steady,      \* history: of Watched, in melee all this turn, no delay, no command
  visited,     \* history: the entries this sweep has looked at
  passed,      \* history: entries that slid under nIdx when the actor's own one went
  ops          \* history: operations within this turn

fights  == <<opponents, combat, melee, when, cmd, list>>
turn    == <<cursor, current, errand, heir, anyAction>>
history == <<attacks, steady, visited, passed, ops>>
vars    == <<fights, turn, stopping, destructed, history>>

-----------------------------------------------------------------------------
(* Operators on the list and on the arrays.                                *)

IndexOf(l, c) == CHOOSE i \in DOMAIN l : l[i] = c

(* Mutant: sub makes the array shorter and moves nothing. *)
WithoutShift(l, c) == IF c \in Range(l) THEN Front(l) ELSE l

(* cCombatList::sub: the entry of c closes up ... *)
Without(l, c) == IF c \in Range(l) THEN RemoveAt(l, IndexOf(l, c)) ELSE l

(* Mutants: sub leaves nIdx alone, or takes it back for any entry. *)
NotShifted(k, l, c)    == k
AlwaysShifted(k, l, c) == IF c \in Range(l) /\ k > 1 THEN k - 1 ELSE k

(* ... and nIdx follows when the entry lies before it. *)
Shifted(k, l, c) == IF c \in Range(l) /\ k # 0 /\ IndexOf(l, c) < k THEN k - 1 ELSE k

(* What qsort may return: nothing is promised about equal elements. *)
SortedForms(l, w) ==
  { s \in { [i \in DOMAIN l |-> l[p[i]]] : p \in Bijection(DOMAIN l, DOMAIN l) } :
      \A i, j \in DOMAIN l : i < j => w[s[i]] <= w[s[j]] }

(* Mutant: the cCombat deletes itself one opponent too early. *)
AlmostAlone(o, c) == Cardinality({ d \in Chars : o[c][d] > 0 }) < 2

Alone(o, c) == \A d \in Chars : o[c][d] = 0

(* subOpponent and sub: one occurrence goes on either side of the pair. *)
Pred(n) == IF n > 0 THEN n - 1 ELSE 0
(* Mutants: only one side of the pair is told. *)
PartedHere(c, d)  == [opponents EXCEPT ![c][d] = Pred(@)]
PartedThere(c, d) == [opponents EXCEPT ![d][c] = Pred(@)]
Parted(c, d) == [opponents EXCEPT ![c][d] = Pred(@), ![d][c] = Pred(@)]

(* addOpponent: nothing is added to an array that has the victim already. *)
Joined(c, d) ==
  IF opponents[c][d] > 0 THEN opponents
  ELSE [opponents EXCEPT ![c][d] = @ + 1, ![d][c] = @ + 1]

(* Mutant: the target stays. *)
SameTarget(o, c, d) == IF Alone(o, c) THEN {None} ELSE {melee[c]}

(* sub: who lost its target strikes at a random opponent it has left. *)
Targets(o, c, d) ==
  IF Alone(o, c) THEN {None}
  ELSE IF melee[c] = d THEN { e \in Chars : o[c][e] > 0 }
  ELSE {melee[c]}

(* The time a melee round of b costs, charged to c: the branch is taken by *)
(* what b wields, the speed is that of the owner of tmp.                   *)
LatterOf(a, b) == b    \* mutant: the floor of both is forgotten
Larger(a, b) == IF a > b THEN a ELSE b
Charge(b, c) == IF b \in DualWielders
                THEN Larger(SPEED_MIN \div 2, (1 + Speed[c]) \div 2)
                ELSE Larger(SPEED_MIN, Speed[c])
Cost(c) == Charge(c, c)

-----------------------------------------------------------------------------
Sweeping == cursor # 0 /\ current = None
Running  == cursor = 0 \/ current # None   \* code outside combat.c is running

(* An operation of another module on the fights: a command between turns,  *)
(* or what melee_violence and the interpreter do within one.               *)
Operation == /\ Running
             /\ stopping = None
             /\ cursor # 0 => ops < MaxOps
             /\ ops' = IF cursor # 0 THEN ops + 1 ELSE ops

(* set_fighting does nothing with a destructed unit or for ch itself. *)
MayFightAnyone(ch, vict) == ch # vict    \* mutant: the test is left out
MayFight(ch, vict) == ch # vict /\ {ch, vict} \cap destructed = {}

(* set_fighting(ch, vict, bMelee), with addOpponent, add and the ctor.  A  *)
(* new cCombat may get the memory of the tmp that was deleted.             *)
SetFighting(ch, vict, bMelee) ==
  LET new     == { c \in {ch, vict} : c \notin combat /\ (c = ch \/ opponents[ch][vict] = 0) }
      entry(c) == IF c \in new THEN <<c>> ELSE << >>
  IN /\ Operation
     /\ MayFight(ch, vict)
     /\ opponents' = Joined(ch, vict)
     /\ combat' = combat \cup new
     /\ when' = [c \in Chars |-> IF c \in new THEN SPEED_DEFAULT ELSE when[c]]
     /\ cmd' = cmd \ new
     /\ list' = list \o entry(ch) \o entry(vict)
     /\ melee' = [melee EXCEPT ![ch] = IF bMelee /\ @ = None THEN vict ELSE @]
     /\ heir' \in {heir} \cup (IF errand = "freed" /\ heir = None THEN new ELSE {})
     /\ UNCHANGED <<cursor, current, errand, anyAction, stopping, destructed,
                    attacks, steady, visited, passed>>

(* subOpponent(victim): each side drops the other, and a cCombat without   *)
(* opponents deletes itself and leaves the list.                           *)
SubOpponent(ch, victim) ==
  LET o    == Parted(ch, victim)
      gone == { c \in {ch, victim} : Alone(o, c) }
      l    == IF victim \in gone THEN Without(list, victim) ELSE list
      k    == IF victim \in gone THEN Shifted(cursor, list, victim) ELSE cursor
  IN /\ opponents' = o
     /\ combat' = combat \ gone
     /\ \E m \in Targets(o, ch, victim), n \in Targets(o, victim, ch) :
          melee' = [melee EXCEPT ![ch] = m, ![victim] = n]
     /\ cmd' = cmd \ gone
     /\ when' = [c \in Chars |-> IF c \in gone THEN 0 ELSE when[c]]
     /\ list' = IF ch \in gone THEN Without(l, ch) ELSE l
     /\ cursor' = IF ch \in gone THEN Shifted(k, l, ch) ELSE k
     /\ errand' = IF errand = "melee" /\ current \in gone THEN "freed" ELSE errand
     /\ heir' = IF heir \in gone THEN None ELSE heir
     /\ visited' = visited \ gone
     /\ steady' = steady \ gone
     /\ UNCHANGED <<current, anyAction, attacks, passed>>

(* stop_fighting(ch, victim): every caller passes CHAR_FIGHTING(ch). *)
StopFighting(ch) ==
  /\ Operation
  /\ melee[ch] # None
  /\ SubOpponent(ch, melee[ch])
  /\ UNCHANGED <<stopping, destructed>>

(* stop_fighting(ch, NULL) enters its loop ... *)
StopAllFighting(ch) ==
  /\ Operation
  /\ ch \in combat
  /\ stopping' = ch
  /\ UNCHANGED <<fights, turn, destructed, attacks, steady, visited, passed>>

(* ... and drops one opponent per round while CHAR_COMBAT(ch) is there.    *)
StopLoop ==
  /\ stopping # None
  /\ IF stopping \in combat
     THEN /\ \E d \in Chars : opponents[stopping][d] > 0 /\ SubOpponent(stopping, d)
          /\ UNCHANGED <<stopping, destructed, ops>>
     ELSE /\ stopping' = None
          /\ UNCHANGED <<fights, turn, destructed, history>>

(* changeSpeed: bash and kick, a spell's beats, the weapon's own speed. *)
ChangeSpeed(ch, delta) ==
  /\ Operation
  /\ ch \in combat
  /\ when[ch] + delta <= MaxWhen
  /\ when' = [when EXCEPT ![ch] = @ + delta]
  /\ steady' = steady \ {ch}
  /\ UNCHANGED <<opponents, combat, melee, cmd, list, turn, stopping, destructed,
                 attacks, visited, passed>>

(* command_interpreter holds back a combat command until the turn of ch. *)
SetCommand(ch) ==
  /\ Operation
  /\ ch \in combat
  /\ when[ch] >= SPEED_DEFAULT
  /\ cmd' = cmd \cup {ch}
  /\ steady' = steady \ {ch}
  /\ UNCHANGED <<opponents, combat, melee, when, list, turn, stopping, destructed,
                 attacks, visited, passed>>

(* setMelee from do_rescue: the one struck at is fought already. *)
SetMelee(ch, victim) ==
  /\ Operation
  /\ ch \in combat
  /\ opponents[ch][victim] > 0
  /\ melee' = [melee EXCEPT ![ch] = victim]
  /\ UNCHANGED <<opponents, combat, when, cmd, list, turn, stopping, destructed,
                 attacks, steady, visited, passed>>

(* extract_unit: registered first, then out of every fight. *)
Extract(ch) ==
  /\ Operation
  /\ ch \notin destructed
  /\ destructed' = destructed \cup {ch}
  /\ stopping' = ch
  /\ UNCHANGED <<fights, turn, attacks, steady, visited, passed>>

(* clear_destructed, from game_loop: the memory serves new units. *)
ClearDestructed ==
  /\ cursor = 0 /\ stopping = None
  /\ destructed # {}
  /\ destructed' = {}
  /\ UNCHANGED <<fights, turn, stopping, history>>

-----------------------------------------------------------------------------
(* PerformViolence.                                                        *)

(* Sort, and "just ONCE per turn, give everybody 12 actions". *)
StartTurn ==
  /\ cursor = 0 /\ stopping = None
  /\ list # << >>
  /\ list' \in SortedForms(list, when)
  /\ when' = [c \in Chars |-> IF c \in combat /\ when[c] > 0
                               THEN Larger(0, when[c] - SPEED_DEFAULT) ELSE when[c]]
  /\ cursor' = 1
  /\ attacks' = [c \in Chars |-> 0]
  /\ steady' = { c \in Watched \cap (combat \ cmd) : melee[c] # None /\ when'[c] = 0 }
  /\ anyAction' = FALSE
  /\ visited' = {} /\ passed' = {} /\ ops' = 0
  /\ UNCHANGED <<opponents, combat, melee, cmd, current, errand, heir,
                 stopping, destructed>>

InTime == cursor <= Len(list) /\ when[list[cursor]] < SPEED_DEFAULT

(* One round of the inner loop up to the call of the interpreter or of     *)
(* melee_violence.                                                         *)
Act ==
  /\ Sweeping /\ stopping = None /\ InTime
  /\ LET c == list[cursor] IN
     /\ c \in cmd \/ melee[c] # None
     /\ current' = c
     /\ cmd' = cmd \ {c}
     /\ attacks' = IF c \in cmd THEN attacks ELSE [attacks EXCEPT ![c] = @ + 1]
     /\ visited' = visited \cup {c}
  /\ errand' = IF list[cursor] \in cmd THEN "command" ELSE "melee"
  /\ anyAction' = TRUE
  /\ UNCHANGED <<opponents, combat, melee, when, list, cursor, heir, stopping,
                 destructed, steady, passed, ops>>

(* A fighter in time with neither a command nor a target does nothing. *)
Idle ==
  /\ Sweeping /\ stopping = None /\ InTime
  /\ list[cursor] \notin cmd /\ melee[list[cursor]] = None
  /\ cursor' = cursor + 1
  /\ anyAction' = FALSE
  /\ visited' = visited \cup {list[cursor]}
  /\ UNCHANGED <<fights, current, errand, heir, stopping, destructed, attacks, steady,
                 passed, ops>>

(* The call returns; a round of melee is charged to whoever is now under   *)
(* nIdx if its cCombat is at the address of tmp: the actor's own one, or,  *)
(* when that was deleted, the one that got its memory, whosever it is.     *)
NobodyPays == {}    \* mutant: the round costs nothing
Payers ==
  { c \in Chars : /\ cursor \in DOMAIN list /\ list[cursor] = c
                  /\ \/ errand = "melee" /\ c = current
                     \/ errand = "freed" /\ c = heir }

Return ==
  /\ current # None /\ stopping = None
  /\ when' = [c \in Chars |-> IF c \in Payers THEN when[c] + Charge(current, c)
                                             ELSE when[c]]
  /\ passed' = IF cursor <= Len(list) /\ {current, list[cursor]} \cap visited = {}
               THEN passed \cup {list[cursor]} ELSE passed
  /\ cursor' = cursor + 1
  /\ current' = None
  /\ errand' = "none" /\ heir' = None
  /\ UNCHANGED <<opponents, combat, melee, cmd, list, anyAction, stopping,
                 destructed, attacks, steady, visited, ops>>

(* The end of the list, or the break on an entry whose time has not come,  *)
(* which leaves bAnyaction FALSE.  Then Sort, and the outer loop's test.   *)
EndSweep ==
  /\ Sweeping /\ stopping = None /\ ~InTime
  /\ list' \in SortedForms(list, when)
  /\ LET again == /\ anyAction /\ cursor > Len(list)
                  /\ list # << >> /\ when[list'[1]] < SPEED_DEFAULT
     IN /\ cursor' = IF again THEN 1 ELSE 0
        /\ anyAction' = again
        /\ attacks' = IF again THEN attacks ELSE [c \in Chars |-> 0]
        /\ steady' = IF again THEN steady ELSE {}
        /\ ops' = IF again THEN ops ELSE 0
  /\ visited' = {} /\ passed' = {}
  /\ UNCHANGED <<opponents, combat, melee, when, cmd, current, errand, heir, stopping,
                 destructed>>

-----------------------------------------------------------------------------
Init ==
  /\ opponents = [c \in Chars |-> [d \in Chars |-> 0]]
  /\ combat = {} /\ cmd = {} /\ destructed = {}
  /\ melee = [c \in Chars |-> None]
  /\ when = [c \in Chars |-> 0]
  /\ list = << >> /\ cursor = 0
  /\ current = None /\ errand = "none" /\ heir = None /\ anyAction = FALSE
  /\ stopping = None
  /\ attacks = [c \in Chars |-> 0]
  /\ steady = {} /\ visited = {} /\ passed = {} /\ ops = 0

PerformViolence == StartTurn \/ Act \/ Idle \/ Return \/ EndSweep

Next ==
  \/ PerformViolence
  \/ StopLoop
  \/ ClearDestructed
  \/ \E c, d \in Chars, b \in BOOLEAN : SetFighting(c, d, b)
  \/ \E c, d \in Chars : SetMelee(c, d)
  \/ \E c \in Chars : \/ StopFighting(c) \/ StopAllFighting(c)
                      \/ SetCommand(c) \/ Extract(c)
  \/ \E c \in Chars, delta \in Deltas : ChangeSpeed(c, delta)

Spec == Init /\ [][Next]_vars

(* The loops run in one thread without waiting; commands need not come.    *)
Fairness == WF_vars(Act \/ Idle \/ Return \/ EndSweep \/ StopLoop)
FairSpec == Spec /\ Fairness

-----------------------------------------------------------------------------
(* Properties.                                                             *)

(* The shape of the state.                                                 *)
TypeOK ==
  /\ opponents \in [Chars -> [Chars -> Nat]]
  /\ combat \subseteq Chars
  /\ melee \in [Chars -> Chars \cup {None}]
  /\ when \in [Chars -> Nat]
  /\ cmd \subseteq combat
  /\ list \in Seq(Chars)
  /\ cursor \in Nat
  /\ current \in Chars \cup {None}
  /\ errand \in {"none", "melee", "command", "freed"}
  /\ heir \in Chars \cup {None}
  /\ anyAction \in BOOLEAN
  /\ stopping \in Chars \cup {None}
  /\ destructed \subseteq Chars

(* combat.c:321: "opponents always exists as pairs and if one is removed   *)
(* so is the other", and no array holds anyone twice or its owner.         *)
OpponentsInPairs ==
  \A c, d \in Chars : /\ opponents[c][d] = opponents[d][c]
                      /\ opponents[c][d] <= 1
                      /\ opponents[c][c] = 0

(* A cCombat lives exactly while its owner has an opponent: were one left  *)
(* without, stop_fighting(ch, NULL) would never leave its loop.            *)
CombatHasOpponents ==
  \A c \in Chars : c \in combat <=> \E d \in Chars : opponents[c][d] > 0

(* Nobody strikes at someone it no longer fights, who may be freed by now. *)
MeleeIsOpponent ==
  \A c \in Chars : melee[c] # None => opponents[c][melee[c]] > 0

(* CombatList holds every cCombat once and nothing that was deleted.       *)
ListHoldsEveryCombat ==
  /\ Range(list) = combat
  /\ \A i, j \in DOMAIN list : list[i] = list[j] => i = j

(* What a fighter has, whom it strikes at and who is walked over agree,    *)
(* whatever ends which side of which fight: the rest of the code takes any *)
(* of the three for the others.                                            *)
CombatsAgree == CombatHasOpponents /\ MeleeIsOpponent /\ ListHoldsEveryCombat

(* destruct.c:134 and fight.c:1654 assert it: a unit that was extracted    *)
(* has left its fights, and no later attack draws it into one.             *)
DestructedOutOfCombat ==
  \A c \in destructed : c \in combat => stopping = c

(* While tmp lives nIdx follows it, whatever its action removes: else the  *)
(* round just fought would not be charged, or charged to another.          *)
CursorFollowsActor ==
  errand = "melee" => cursor \in DOMAIN list /\ list[cursor] = current

(* Whatever is removed in a sweep, nobody is moved behind nIdx unseen,     *)
(* except the one that slides under it when the actor's own entry goes;    *)
(* and nobody who had its turn in the sweep comes up again.                *)
OneTurnEach ==
  cursor # 0 => \A i \in DOMAIN list :
    /\ i < cursor => list[i] \in visited \cup passed
    /\ i > cursor \/ (i = cursor /\ current = None) => list[i] \notin visited

(* No one fights more melee rounds in a turn than its speed pays for,      *)
(* however often its fights end and begin again.                           *)
AttacksPaidFor ==
  \A c \in Chars : attacks[c] > 0 => (attacks[c] - 1) * Cost(c) < SPEED_DEFAULT

(* A turn of PerformViolence, and each stop_fighting loop, comes to an end. *)
TurnEnds == cursor # 0 \/ stopping # None ~> cursor = 0 /\ stopping = None

(* values.h:828: a speed of 4 "means 3 attacks per combat round", 12 is    *)
(* one: who is in melee all turn has the attacks its speed is worth.       *)
TurnGivesEveryAttack ==
  [][ EndSweep /\ cursor' = 0 =>
        \A c \in steady : attacks[c] >= SPEED_DEFAULT \div Cost(c) ]_vars
=============================================================================
