----------------------------- MODULE Lifecycle -----------------------------
(***************************************************************************)
(* Units, their affects and their special functions, from creation to the  *)
(* moment their memory is freed: affect.c, mobact.c, destruct.c, and the   *)
(* parts of handler.c, main.c, nanny.c and system.c that drive them.       *)
(*                                                                         *)
(* A thing (an affect or a function) ticks by events in the event queue    *)
(* that hold a raw pointer to it.  What is destroyed is only registered;   *)
(* clear_destructed frees it when game_loop is back at the top, so that    *)
(* code further up the stack can still ask is_destructed.                  *)
(*                                                                         *)
(* Of time only the order is kept: an event is `due' in this cycle of      *)
(* game_loop or `later'; event_enq always makes it later (every caller     *)
(* passes a positive delay).  The heap itself is module EventHeap.         *)
(***************************************************************************)
EXTENDS Integers, FiniteSets

CONSTANTS
  Units,        \* characters and objects that may be in memory
  PCs,          \* those of them that are players
  Affects,      \* memory for struct unit_affected_type
  Funcs,        \* memory for struct unit_fptr, ticking ones
  None,         \* the null pointer
  MaxDuration,  \* bound: af->duration of a new affect
  MaxBeats,     \* bound: events of one affect
  MaxOps        \* bound: operations in one cycle of game_loop

Things == Affects \cup Funcs

ASSUME SetAssumption   == PCs \subseteq Units /\ Affects \cap Funcs = {}
ASSUME NullAssumption  == None \notin Units /\ None \notin Things
ASSUME BoundAssumption == {MaxDuration, MaxBeats, MaxOps} \subseteq Nat

VARIABLES
  unit,      \* "none", "game" (in unit_list), "menu" (a loaded PC), "dead" (DR_UNIT)
  link,      \* the PCs with a CHAR_DESCRIPTOR
  thing,     \* "free", "linked" (to its owner), "dead" (DR_AFFECT or DR_FUNC)
  owner,     \* af->owner, and the unit of a function
  duration,  \* af->duration
  due,       \* how many events of a thing are due in this cycle
  later,     \* ... and how many in later ones
  phase,     \* game_loop: "input" (game_event), "events" (event_process), "clear"
  running,   \* the thing whose tick function runs, or None
  starting,  \* the affects that create_affect has not returned for
  entering,  \* the unit that enter_game has not returned for, or None
  ops,       \* operations in this cycle
  early,     \* history: started before enter_game starts them (once more)
  stray      \* history: affects with an event from after they were destroyed

queue   == <<due, later>>
calls   == <<starting, entering>>
history == <<early, stray>>
vars    == <<unit, link, thing, owner, duration, queue, phase, running, calls, ops, history>>

-----------------------------------------------------------------------------
(* -1 is for ever. *)
Durations == -1..MaxDuration

Of(u)     == { t \in Things : thing[t] = "linked" /\ owner[t] = u }
Events(t) == due[t] + later[t]
Beats(t)  == Events(t) + IF running = t THEN 1 ELSE 0

(* event_enq: tics + when, with when > 0. *)
Enqueue(S)  == [t \in Things |-> IF t \in S THEN later[t] + 1 ELSE later[t]]

(* event_deenq takes out every event of a thing, and so ends what a history *)
(* remembers of it, but for the beat that is under way.                    *)
Forget(S) == /\ early' = early \ S
             /\ stray' = stray \ (S \ {running})
DequeueLater(S) == /\ due' = due    \* mutant: an event that is due is missed
                   /\ later' = [t \in Things |-> IF t \in S THEN 0 ELSE later[t]]
                   /\ Forget(S)
Dequeue(S) == /\ due' = [t \in Things |-> IF t \in S THEN 0 ELSE due[t]]
              /\ later' = [t \in Things |-> IF t \in S THEN 0 ELSE later[t]]
              /\ Forget(S)

(* Not in the game yet, or not through enter_game: all that u has will be  *)
(* started at its end.                                                     *)
Outside(u) == unit[u] = "menu" \/ entering = u
Begun(t, u) == IF Outside(u) THEN early \cup {t} ELSE early

(* Commands in game_event, and whatever a tick function, a first function  *)
(* or enter_game calls.                                                    *)
Operation == /\ phase = "input" \/ running # None
             /\ ops < MaxOps
             /\ ops' = ops + 1
             /\ UNCHANGED <<phase, running>>

Returned == starting = {} /\ entering = None

-----------------------------------------------------------------------------
(* Units.                                                                  *)

(* An NPC or object is read in, or a PC: load_player stops the events that *)
(* reading its affects and functions had started.                          *)
Read(u, S) ==
  /\ Operation
  /\ unit[u] = "none"
  /\ \A t \in S : thing[t] = "free"
  /\ u \notin PCs => S = {}    \* what an NPC gets is created below
  /\ thing' = [t \in Things |-> IF t \in S THEN "linked" ELSE thing[t]]
  /\ owner' = [t \in Things |-> IF t \in S THEN u ELSE owner[t]]
  /\ \E d \in Durations :
       duration' = [t \in Affects |-> IF t \in S THEN d ELSE duration[t]]
  /\ Dequeue(S)
  /\ UNCHANGED starting

Load(u, S) ==
  /\ Read(u, S)
  /\ unit' = [unit EXCEPT ![u] = IF u \in PCs THEN "menu" ELSE "game"]
  /\ link' = IF u \in PCs THEN link \cup {u} ELSE link
  /\ UNCHANGED entering

(* do_load of a wizard: the PC is read and enters without a descriptor. *)
LoadIntoGame(u, S) ==
  /\ Read(u, S)
  /\ entering = None
  /\ unit' = [unit EXCEPT ![u] = "game"]
  /\ entering' = u
  /\ UNCHANGED link

(* enter_game puts the PC into unit_list and calls out: what sees it come, *)
(* the look at the room, the things of the inventory ...                   *)
EnterGame(u) ==
  /\ Operation
  /\ phase = "input" /\ entering = None
  /\ unit[u] = "menu"
  /\ unit' = [unit EXCEPT ![u] = "game"]
  /\ entering' = u
  /\ UNCHANGED <<link, thing, owner, duration, queue, starting, history>>

(* ... and ends with start_affect and start_all_special, whatever has      *)
(* become of the PC and whatever was started already.                      *)
EnterGameEnds ==
  /\ entering # None
  /\ later' = Enqueue(Of(entering))
  /\ entering' = None
  /\ UNCHANGED <<unit, link, thing, owner, duration, due, phase, running, starting, ops,
                 history>>

(* extract_unit, also of a PC in the menu by a program it has there. *)
Extract(u) ==
  /\ Operation
  /\ unit[u] \in {"game", "menu"}
  /\ unit' = [unit EXCEPT ![u] = "dead"]
  /\ Dequeue(Of(u))
  /\ UNCHANGED <<link, thing, owner, duration, calls>>

(* descriptor_close in the menu: the descriptor goes first, so that        *)
(* destruct_unit deletes the PC and does not bring it back to the menu.    *)
CloseInMenu(u) ==
  /\ Operation
  /\ unit[u] = "menu"
  /\ unit' = [unit EXCEPT ![u] = "dead"]
  /\ link' = link \ {u}
  /\ Dequeue(Of(u))
  /\ UNCHANGED <<thing, owner, duration, calls>>

(* descriptor_close in the game: a PC goes link dead, a guest is extracted *)
(* first; one that was extracted already only loses its descriptor.        *)
CloseInGame(u, guest) ==
  /\ Operation
  /\ u \in link /\ unit[u] \in {"game", "dead"}
  /\ unit' = [unit EXCEPT ![u] = IF guest THEN "dead" ELSE @]
  /\ IF guest /\ unit[u] = "game" THEN Dequeue(Of(u)) ELSE UNCHANGED <<queue, history>>
  /\ link' = link \ {u}
  /\ UNCHANGED <<thing, owner, duration, calls>>

(* reconnect_game: a link dead PC gets a descriptor again. *)
Reconnect(u) ==
  /\ Operation
  /\ u \in PCs \ link /\ unit[u] = "game"
  /\ link' = link \cup {u}
  /\ UNCHANGED <<unit, thing, owner, duration, queue, calls, history>>

-----------------------------------------------------------------------------
(* Affects and functions.                                                  *)

(* create_affect: refused for a destructed unit.  When the apply function  *)
(* overflows, it unlinks and registers the new affect (raw_destruct_affect) *)
(* and that is all; otherwise the first function runs, ...                 *)
CreateAffect(u, a, overflow) ==
  /\ Operation
  /\ unit[u] \in {"game", "menu"}
  /\ thing[a] = "free"
  /\ thing' = [thing EXCEPT ![a] = IF overflow THEN "dead" ELSE "linked"]
  /\ owner' = [owner EXCEPT ![a] = u]
  /\ \E d \in Durations : duration' = [duration EXCEPT ![a] = d]
  /\ IF overflow THEN /\ Dequeue({a})
                      /\ UNCHANGED starting
                 ELSE /\ starting' = starting \cup {a}
                      /\ UNCHANGED <<queue, history>>
  /\ UNCHANGED <<unit, link, entering>>

(* ... and the affect gets its event, be it destroyed meanwhile or not: by *)
(* then the first function may have killed the owner (TIF_FEAR_CHECK makes *)
(* him flee), and the death of a PC destroys his affects.                  *)
CreateAffectEnds(a) ==
  /\ a \in starting
  /\ later' = Enqueue({a})
  /\ early' = IF thing[a] = "linked" THEN Begun(a, owner[a]) ELSE early
  /\ stray' = IF thing[a] = "linked" THEN stray ELSE stray \cup {a}
  /\ starting' = starting \ {a}
  /\ UNCHANGED <<unit, link, thing, owner, duration, due, phase, running, entering, ops>>

(* destroy_affect: while the effect cannot be taken back the affect stays, *)
(* ends at its next beat, and gets another event beside those it has;      *)
(* otherwise unlink_affect registers it and takes its events out.          *)
UnlinkOnly(a) == /\ thing' = [thing EXCEPT ![a] = "dead"]    \* mutant: still queued
                 /\ UNCHANGED <<queue, duration, history>>
Unlink(a) == /\ thing' = [thing EXCEPT ![a] = "dead"]
             /\ Dequeue({a})
             /\ UNCHANGED duration

Stall(a) == /\ Events(a) < MaxBeats
            /\ duration' = [duration EXCEPT ![a] = 0]
            /\ later' = Enqueue({a})
            /\ early' = Begun(a, owner[a])
            /\ UNCHANGED <<thing, due, stray>>

DestroyAffect(a) ==
  /\ Operation
  /\ thing[a] = "linked"
  /\ Unlink(a) \/ Stall(a)
  /\ UNCHANGED <<unit, link, owner, calls>>

(* create_fptr asks nothing of the unit, which may be destructed, or in    *)
(* the menu (nanny_dil); start_special makes the event.                    *)
CreateFptr(u, f) ==
  /\ Operation
  /\ unit[u] # "none"
  /\ thing[f] = "free"
  /\ thing' = [thing EXCEPT ![f] = "linked"]
  /\ owner' = [owner EXCEPT ![f] = u]
  /\ later' = Enqueue({f})
  /\ early' = Begun(f, u)
  /\ UNCHANGED <<unit, link, duration, due, calls, stray>>

DestroyFptr(f) ==
  /\ Operation
  /\ thing[f] = "linked"
  /\ thing' = [thing EXCEPT ![f] = "dead"]
  /\ Dequeue({f})
  /\ UNCHANGED <<unit, link, owner, duration, calls>>

(* Mutant: the old timer is not dequeued. *)
AddFptrTimer(f) ==
  /\ Operation
  /\ thing[f] = "linked"
  /\ running # f
  /\ later' = Enqueue({f})
  /\ early' = Begun(f, owner[f])
  /\ UNCHANGED <<unit, link, thing, owner, duration, due, calls, stray>>

(* ResetFptrTimer, when a DIL program that another event woke changes its  *)
(* heartbeat: dequeue, then SetFptrTimer.                                  *)
ResetFptrTimer(f) ==
  /\ Operation
  /\ thing[f] = "linked"
  /\ running # f
  /\ due' = [due EXCEPT ![f] = 0]
  /\ later' = [later EXCEPT ![f] = 1]
  /\ early' = IF Outside(owner[f]) THEN early \cup {f} ELSE early \ {f}
  /\ UNCHANGED <<unit, link, thing, owner, duration, calls, stray>>

-----------------------------------------------------------------------------
(* The cycle of game_loop.                                                 *)

EndInput ==
  /\ phase = "input" /\ Returned
  /\ phase' = "events"
  /\ UNCHANGED <<unit, link, thing, owner, duration, queue, running, calls, ops, history>>

Fired(t) == /\ phase = "events" /\ running = None
            /\ due[t] > 0
            /\ due' = [due EXCEPT ![t] = @ - 1]

(* A PC without descriptor does not age. *)
Asleep(t) == owner[t] \in PCs \ link

(* affect_beat up to the tick function, or all of it without one. *)
AffectBeat(a) ==
  /\ thing[a] = "linked"
  /\ IF Asleep(a) THEN
       /\ Fired(a)
       /\ later' = Enqueue({a})
       /\ UNCHANGED <<thing, duration, running, history>>
     ELSE IF duration[a] = 0 THEN
       /\ \/ /\ phase = "events" /\ running = None /\ due[a] > 0
             /\ Unlink(a)
          \/ /\ Fired(a)
             /\ duration' = duration
             /\ later' = Enqueue({a})
             /\ UNCHANGED <<thing, history>>
       /\ UNCHANGED running
     ELSE
       /\ Fired(a)
       /\ running' = a
       /\ UNCHANGED <<thing, duration, later, history>>
  /\ UNCHANGED <<unit, link, owner, phase, calls, ops>>

(* The event of an affect that is not there any more: affect_beat reads    *)
(* freed memory.  It may look asleep, or like one that ticks; to destroy   *)
(* it follows pointers that lead nowhere, and the server dies and boots.   *)
StrayBeat(a) ==
  /\ thing[a] # "linked"
  /\ Fired(a)
  /\ \/ later' = Enqueue({a}) /\ running' = running
     \/ running' = a /\ later' = later
  /\ UNCHANGED <<unit, link, thing, owner, duration, phase, calls, ops, history>>

Dies(a) ==
  /\ thing[a] # "linked"
  /\ phase = "events" /\ running = None /\ due[a] > 0
  /\ unit' = [u \in Units |-> "none"] /\ link' = {}
  /\ thing' = [t \in Things |-> "free"] /\ owner' = [t \in Things |-> None]
  /\ duration' = [b \in Affects |-> 0]
  /\ due' = [t \in Things |-> 0] /\ later' = [t \in Things |-> 0]
  /\ phase' = "input" /\ ops' = 0
  /\ early' = {} /\ stray' = {}
  /\ UNCHANGED <<running, calls>>

(* ... and from its return: is_destructed is asked of the affect alone, and *)
(* a permanent affect does not age.                                        *)
OlderAlways(d) == d - 1    \* mutant: a permanent one ages, too
Older(d) == IF d > 0 THEN d - 1 ELSE d

AffectBeatEnds ==
  /\ running \in Affects /\ Returned
  /\ IF thing[running] # "dead"
     THEN /\ later' = Enqueue({running})
          /\ duration' = [duration EXCEPT ![running] = Older(@)]
     ELSE UNCHANGED <<later, duration>>
  /\ running' = None
  /\ UNCHANGED <<unit, link, thing, owner, due, phase, calls, ops, history>>

(* special_event, the same for a function. *)
SpecialEvent(f) ==
  /\ Fired(f)
  /\ running' = f
  /\ UNCHANGED <<unit, link, thing, owner, duration, later, phase, calls, ops, history>>

SpecialEventEnds ==
  /\ running \in Funcs /\ Returned
  /\ later' = IF thing[running] # "dead" THEN Enqueue({running}) ELSE later
  /\ running' = None
  /\ UNCHANGED <<unit, link, thing, owner, duration, due, phase, calls, ops, history>>

EndEvents ==
  /\ phase = "events" /\ running = None
  /\ \A t \in Things : due[t] = 0
  /\ phase' = "clear"
  /\ UNCHANGED <<unit, link, thing, owner, duration, queue, running, calls, ops, history>>

(* clear_destructed: the registered things are freed, then destruct_unit   *)
(* of each registered unit.  A PC that has a descriptor goes to the menu   *)
(* with what it carries, its events stopped once more; anything else is    *)
(* deleted and its things are registered, to be freed in the next cycle.   *)
(* Then tics++ makes some events due.                                      *)
ToMenu  == { u \in Units : unit[u] = "dead" /\ u \in link }
DeletedNPCs == { u \in Units \ PCs : unit[u] = "dead" }    \* mutant: no player is deleted
Deleted == { u \in Units : unit[u] = "dead" /\ u \notin link }
Stopped == UNION { Of(u) : u \in ToMenu \cup Deleted }

ClearDestructed ==
  /\ phase = "clear"
  /\ unit' = [u \in Units |-> IF u \in ToMenu THEN "menu"
                              ELSE IF u \in Deleted THEN "none" ELSE unit[u]]
  /\ thing' = [t \in Things |-> IF thing[t] = "dead" THEN "free"
                                ELSE IF thing[t] = "linked" /\ owner[t] \in Deleted
                                THEN "dead" ELSE thing[t]]
  /\ \E S \in SUBSET Things :
       LET left == [t \in Things |-> IF t \in Stopped THEN 0 ELSE later[t]]
       IN /\ due' = [t \in Things |-> IF t \in S THEN left[t] ELSE 0]
          /\ later' = [t \in Things |-> IF t \in S THEN 0 ELSE left[t]]
  /\ Forget(Stopped)
  /\ phase' = "input"
  /\ ops' = 0
  /\ UNCHANGED <<link, owner, duration, running, calls>>

-----------------------------------------------------------------------------
Init ==
  /\ unit = [u \in Units |-> "none"]
  /\ link = {}
  /\ thing = [t \in Things |-> "free"]
  /\ owner = [t \in Things |-> None]
  /\ duration = [a \in Affects |-> 0]
  /\ due = [t \in Things |-> 0] /\ later = [t \in Things |-> 0]
  /\ phase = "input" /\ running = None /\ ops = 0
  /\ starting = {} /\ entering = None
  /\ early = {} /\ stray = {}

Loop ==
  \/ EndInput \/ EndEvents \/ ClearDestructed
  \/ AffectBeatEnds \/ SpecialEventEnds \/ EnterGameEnds
  \/ \E a \in Affects : AffectBeat(a) \/ StrayBeat(a) \/ Dies(a) \/ CreateAffectEnds(a)
  \/ \E f \in Funcs : SpecialEvent(f)

UnitStep ==
  \/ \E u \in Units, S \in SUBSET Things : Load(u, S)
  \/ \E u \in Units : Extract(u)
  \/ \E u \in PCs, S \in SUBSET Things : LoadIntoGame(u, S)
  \/ \E u \in PCs : \/ EnterGame(u) \/ CloseInMenu(u) \/ Reconnect(u)
                    \/ \E guest \in BOOLEAN : CloseInGame(u, guest)

ThingStep ==
  \/ \E u \in Units, a \in Affects, overflow \in BOOLEAN : CreateAffect(u, a, overflow)
  \/ \E u \in Units, f \in Funcs : CreateFptr(u, f)
  \/ \E a \in Affects : DestroyAffect(a)
  \/ \E f \in Funcs : DestroyFptr(f) \/ ResetFptrTimer(f)

Next == Loop \/ UnitStep \/ ThingStep

Spec == Init /\ [][Next]_vars

(* game_loop runs on by itself; commands need not come.                    *)
FairSpec == Spec /\ WF_vars(Loop)

-----------------------------------------------------------------------------
(* Properties.                                                             *)

(* The shape of the state.                                                 *)
TypeOK ==
  /\ unit \in [Units -> {"none", "game", "menu", "dead"}]
  /\ link \subseteq PCs
  /\ thing \in [Things -> {"free", "linked", "dead"}]
  /\ owner \in [Things -> Units \cup {None}]
  /\ duration \in [Affects -> Durations]
  /\ due \in [Things -> Nat] /\ later \in [Things -> Nat]
  /\ phase \in {"input", "events", "clear"}
  /\ running \in Things \cup {None}
  /\ ops \in Nat
  /\ starting \subseteq Affects /\ entering \in PCs \cup {None}
  /\ early \subseteq Things /\ stray \subseteq Affects

(* No event in the queue points to an affect or function that is registered *)
(* or freed, nor to one whose unit is freed, and no tick function runs for  *)
(* a freed one, whatever it extracts or destroys (destruct.c:58) - but for  *)
(* the affects that were destroyed by what their first function did         *)
(* (affect.c:113), and what takes over their memory and their event.        *)
NoDanglingEvent ==
  /\ \A t \in Things \ stray : Events(t) > 0 => thing[t] = "linked" /\ unit[owner[t]] # "none"
  /\ running \notin stray \cup {None} => thing[running] # "free" /\ unit[owner[running]] # "none"

(* What is linked in the game never stops ticking: it has an event, or a    *)
(* call is under way that will order one.  In the menu nothing ticks, for   *)
(* enter_game starts everything again, and a function has one timer, since  *)
(* with two it would tick twice as often until its unit is extracted - but  *)
(* for what was created or begun again before enter_game did its part.      *)
HeartbeatKept ==
  \A t \in Things : thing[t] = "linked" =>
    /\ unit[owner[t]] = "game" =>
         Beats(t) > 0 \/ t \in starting \/ entering = owner[t]
    /\ unit[owner[t]] = "menu" => Beats(t) = 0 \/ t \in early \cup stray
    /\ t \in Funcs => Beats(t) <= IF t \in early THEN 2 ELSE 1

(* No tick is delivered to a unit that was extracted: extract_unit stops    *)
(* what is due in this very cycle.  Nor to one in the menu, but for what    *)
(* began to tick there.                                                     *)
TickOnlyInGame ==
  [][ \A t \in Things \ stray : due'[t] < due[t] /\ running' = t =>
        \/ unit[owner[t]] = "game"
        \/ unit[owner[t]] = "menu" /\ t \in early ]_vars

(* affect.c:25 and destruct.c:67: no event is ordered for what was          *)
(* destructed.                                                              *)
NoEventForDestructed == \A t \in Things : Events(t) > 0 => thing[t] = "linked"

(* nanny.c:400 and mobact.c:68: what somebody has starts to tick when he    *)
(* enters the game; and a function has one timer, which a reset replaces.   *)
OneTimer == \A f \in Funcs : thing[f] = "linked" => Events(f) <= 1

(* Whatever was destroyed is given back in the end.                        *)
EverythingReclaimed ==
  /\ \A t \in Things : thing[t] = "dead" ~> thing[t] # "dead"
  /\ \A u \in Units : unit[u] = "dead" ~> unit[u] # "dead"
=============================================================================
