----------------------------- MODULE WorldProofs -----------------------------
(***************************************************************************)
(* What is proved about the units of the world: about those in memory      *)
(* (Lifecycle), about what is kept of them on the disk (Belongings), and   *)
(* about what they are in and the sums kept of it (Units).                 *)
(*                                                                         *)
(* Lifecycle, for any units, affects and functions: no event points to     *)
(* what is gone, and what is in the game keeps its event.  Both need to    *)
(* know where things may be linked: to a unit that is in memory (Linked),  *)
(* that a unit in the menu is a player's with a descriptor (MenuHasLink),  *)
(* so that clear_destructed never frees one whose functions sleep, and     *)
(* that the queue is empty for this cycle when clear_destructed begins,    *)
(* after which no tick function runs (Quiet); and what is due in this      *)
(* cycle belongs to a unit in the game (DueInGame).                        *)
(*                                                                         *)
(* Belongings, for any players, things and file names, and any number of   *)
(* crashes: every persistent file has one keeper, and what is being saved, *)
(* unless its own file is removed first, stays on the disk.  Both need to  *)
(* be said of the middle of a handler,                                     *)
(* too, where files and keepers are out of step: a unit keeps a file       *)
(* exactly when, with the writes that are still due, the file is there     *)
(* (Kept), no two units keep the same one (Single), and a handler writes   *)
(* to no file that it has to remove first (JobKnown).                      *)
(*                                                                         *)
(* Units, for any rooms, characters and objects, however deep: nothing is  *)
(* inside itself, nothing is in what has been freed, and weights and       *)
(* numbers of characters add up.  The loops that go outwards end because   *)
(* nothing is inside itself; a step up or down keeps every sum             *)
(* (AboveKeepsSums).  What is extracted ends in the void because rooms are *)
(* only in rooms (RoomsInRooms).                                           *)
(***************************************************************************)
EXTENDS Lifecycle, Belongings, Units, FiniteSetTheorems, TLAPS

-----------------------------------------------------------------------------
(* Units in memory.                                                        *)

Linked ==
  \A t \in Things : thing[t] = "linked" => owner[t] \in Units /\ unit[owner[t]] # "none"

MenuHasLink == \A u \in Units : unit[u] = "menu" => u \in link

EntererInGame == entering # None => unit[entering] \in {"game", "dead"}

Quiet ==
  /\ running # None => phase = "events"
  /\ entering # None => phase = "input" \/ running # None
  /\ phase = "clear" => \A t \in Things : due[t] = 0

DueInGame ==
  \A t \in Things : due[t] > 0 =>
    \/ t \in stray
    \/ unit[owner[t]] = "game"
    \/ unit[owner[t]] = "menu" /\ t \in early

RunningIsOwned ==
  /\ running \notin stray \cup {None} => owner[running] \in Units
  /\ running \in Funcs /\ entering # None => owner[running] # entering

NotYetBegun ==
  \A f \in Funcs : thing[f] = "linked" /\ Outside(owner[f]) =>
    Beats(f) <= IF f \in early THEN 1 ELSE 0

IInv == TypeOK /\ NoDanglingEvent /\ HeartbeatKept /\ Linked /\ MenuHasLink
        /\ EntererInGame /\ Quiet /\ RunningIsOwned /\ DueInGame /\ NotYetBegun

-----------------------------------------------------------------------------
LEMMA InitHolds == Init => IInv
<1> SUFFICES ASSUME Init PROVE IInv
  OBVIOUS
<1> USE DEF Init
<1>1. TypeOK
  <2>1. 0 \in Durations
    BY BoundAssumption DEF Durations
  <2> QED BY <2>1 DEF TypeOK
<1>2. NoDanglingEvent /\ HeartbeatKept /\ Linked /\ MenuHasLink /\ EntererInGame
     /\ Quiet /\ RunningIsOwned /\ DueInGame /\ NotYetBegun
  BY SetAssumption, NullAssumption
     DEF NoDanglingEvent, HeartbeatKept, Events, Linked, MenuHasLink, EntererInGame, Quiet,
         RunningIsOwned, DueInGame, NotYetBegun, Things
<1> QED BY <1>1, <1>2 DEF IInv

(* What event_deenq leaves, thing by thing.                                *)
LEMMA Dequeued ==
  ASSUME TypeOK, NEW S, Dequeue(S)
  PROVE  /\ due' \in [Things -> Nat] /\ later' \in [Things -> Nat]
         /\ early' \subseteq Things /\ stray' \subseteq Affects
         /\ \A t \in Things : due'[t] = (IF t \in S THEN 0 ELSE due[t])
                              /\ later'[t] = (IF t \in S THEN 0 ELSE later[t])
         /\ \A t \in Things : t \in early' <=> t \in early /\ t \notin S
         /\ \A t \in Things : t \in stray' <=> t \in stray /\ (t \in S => t = running)
BY DEF Dequeue, Forget, TypeOK

(* What happens to units.                                                  *)
LEMMA ReadKeepsIInv ==
  ASSUME IInv, NEW u \in Units, NEW S \in SUBSET Things,
         Load(u, S) \/ (u \in PCs /\ LoadIntoGame(u, S))
  PROVE  IInv'
<1> USE SetAssumption, NullAssumption DEF IInv
<1>1. /\ Dequeue(S) /\ Operation /\ unit[u] = "none"
      /\ (\A t \in S : thing[t] = "free") /\ (u \notin PCs => S = {})
      /\ duration' \in [Affects -> Durations] /\ starting' = starting
      /\ thing' = [t \in Things |-> IF t \in S THEN "linked" ELSE thing[t]]
      /\ owner' = [t \in Things |-> IF t \in S THEN u ELSE owner[t]]
  BY DEF Load, LoadIntoGame, Read, TypeOK
<1>2. /\ due' \in [Things -> Nat] /\ later' \in [Things -> Nat]
      /\ early' \subseteq Things /\ stray' \subseteq Affects
      /\ \A t \in Things : due'[t] = (IF t \in S THEN 0 ELSE due[t])
                           /\ later'[t] = (IF t \in S THEN 0 ELSE later[t])
      /\ \A t \in Things : t \in early' <=> t \in early /\ t \notin S
      /\ \A t \in Things : t \in stray' <=> t \in stray /\ (t \in S => t = running)
  BY <1>1, Dequeued
<1>3. /\ link' \subseteq PCs /\ link \subseteq link' /\ entering' \in PCs \cup {None}
      /\ \/ /\ unit' = [unit EXCEPT ![u] = "menu"]
            /\ u \in link' /\ entering' = entering
         \/ /\ unit' = [unit EXCEPT ![u] = "game"]
            /\ \/ entering' = u /\ entering = None
               \/ entering' = entering /\ S = {}
  <2>1. link \subseteq PCs /\ entering \in PCs \cup {None}
    BY DEF TypeOK
  <2>2. CASE Load(u, S)
    BY <1>1, <2>1, <2>2 DEF Load
  <2>3. CASE u \in PCs /\ LoadIntoGame(u, S)
    BY <2>1, <2>3 DEF LoadIntoGame
  <2> QED BY <2>2, <2>3
<1>4. running' = running /\ phase' = phase /\ ops' \in Nat
  BY <1>1 DEF Operation, TypeOK
<1>5. TypeOK'
  BY <1>1, <1>2, <1>3, <1>4 DEF TypeOK
<1>6. \A t \in Things : thing[t] = "linked" => t \notin S /\ owner[t] # u
  BY <1>1 DEF Linked
<1>7. running \notin stray \cup {None} => running \in Things \ S /\ owner[running] # u
  BY <1>1 DEF NoDanglingEvent, TypeOK
<1>8. \A t \in S : Beats(t)' = (IF running = t THEN 1 ELSE 0) /\ (running = t => t \in stray')
  BY <1>1, <1>2, <1>4, <1>7 DEF Beats, Events, TypeOK
<1>9. \A t \in Things \ S : Beats(t)' = Beats(t) /\ Events(t)' = Events(t)
  BY <1>2, <1>4 DEF Beats, Events
<1>10. /\ \A x \in Units : x # u => unit'[x] = unit[x]
       /\ unit'[u] \in {"menu", "game"}
       /\ unit'[u] = "menu" => u \in link'
       /\ entering' # entering => entering' = u /\ unit'[u] = "game"
  BY <1>3 DEF TypeOK
<1>11. \A t \in Things : thing[t] = "linked" =>
         /\ thing'[t] = "linked" /\ owner'[t] = owner[t] /\ owner[t] \in Units
         /\ unit'[owner[t]] = unit[owner[t]]
         /\ Beats(t)' = Beats(t) /\ (t \in early' <=> t \in early)
  BY <1>1, <1>2, <1>6, <1>9, <1>10 DEF Linked
<1>12. Linked' /\ MenuHasLink' /\ EntererInGame'
  <2>1. Linked' /\ MenuHasLink'
    BY <1>1, <1>3, <1>10, <1>6 DEF Linked, MenuHasLink
  <2>2. entering # None => entering \in Units /\ entering # u
    BY <1>1 DEF EntererInGame, TypeOK
  <2>3. EntererInGame'
    BY <1>10, <2>2 DEF EntererInGame
  <2> QED BY <2>1, <2>3
<1>13. NoDanglingEvent'
  <2>1. \A t \in Things : t \notin stray' /\ Events(t)' > 0 => thing[t] = "linked"
    BY <1>1, <1>2, <1>9 DEF NoDanglingEvent, Events
  <2>2. \A t \in Things : t \notin stray' /\ Events(t)' > 0 =>
          (thing[t] = "linked" /\ unit[owner[t]] # "none")'
    BY <2>1, <1>11 DEF Linked
  <2>3. running' \notin stray' \cup {None} =>
          thing'[running] # "free" /\ unit'[owner'[running]] # "none"
    BY <1>1, <1>2, <1>4, <1>7, <1>10 DEF NoDanglingEvent, RunningIsOwned, TypeOK
  <2> QED BY <2>2, <2>3, <1>4 DEF NoDanglingEvent
<1>14. HeartbeatKept'
  <2> SUFFICES ASSUME NEW t \in Things, (thing[t] = "linked")'
               PROVE  /\ (unit[owner[t]] = "game" =>
                             Beats(t) > 0 \/ t \in starting \/ entering = owner[t])'
                      /\ (unit[owner[t]] = "menu" => Beats(t) = 0 \/ t \in early \cup stray)'
                      /\ (t \in Funcs => Beats(t) <= IF t \in early THEN 2 ELSE 1)'
    BY DEF HeartbeatKept
  <2>1. CASE t \in S
    <3>1. owner'[t] = u /\ S # {} /\ u \in Units
      BY <1>1, <2>1
    <3> QED BY <1>3, <1>8, <2>1, <3>1 DEF TypeOK
  <2>2. CASE t \notin S
    <3>1. thing[t] = "linked" /\ owner'[t] = owner[t] /\ owner[t] # u /\ owner[t] \in Units
      BY <1>1, <1>6, <2>2 DEF Linked
    <3>2. unit'[owner[t]] = unit[owner[t]]
      BY <1>3, <3>1 DEF TypeOK
    <3>3. entering = owner[t] => entering' = owner[t]
      BY <1>3, <3>1
    <3> QED BY <1>1, <1>2, <1>9, <2>2, <3>1, <3>2, <3>3 DEF HeartbeatKept
  <2> QED BY <2>1, <2>2
<1>15. Quiet' /\ RunningIsOwned'
  BY <1>1, <1>2, <1>3, <1>4, <1>7 DEF Quiet, RunningIsOwned, TypeOK, Operation, Things
<1>16. DueInGame'
  <2> SUFFICES ASSUME NEW t \in Things, due'[t] > 0, t \notin stray'
               PROVE  \/ unit'[owner'[t]] = "game"
                      \/ unit'[owner'[t]] = "menu" /\ t \in early'
    BY DEF DueInGame
  <2>1. t \notin S /\ due[t] > 0 /\ t \notin stray
    BY <1>2
  <2>2. thing[t] = "linked"
    BY <2>1 DEF NoDanglingEvent, Events, TypeOK
  <2> QED BY <1>11, <2>1, <2>2 DEF DueInGame
<1>17. NotYetBegun'
  <2> SUFFICES ASSUME NEW f \in Funcs, thing'[f] = "linked", Outside(owner[f])'
               PROVE  Beats(f)' <= IF f \in early' THEN 1 ELSE 0
    BY DEF NotYetBegun
  <2>1. f \in Things /\ f \notin stray'
    BY <1>2 DEF Things
  <2>2. CASE f \in S
    BY <1>8, <2>1, <2>2
  <2>3. CASE f \notin S
    <3>1. thing[f] = "linked"
      BY <1>1, <2>1, <2>3
    <3>2. Outside(owner[f])
      BY <1>11, <1>10, <1>6, <2>1, <3>1 DEF Outside
    <3> QED BY <1>11, <2>1, <3>1, <3>2 DEF NotYetBegun
  <2> QED BY <2>2, <2>3
<1> QED BY <1>5, <1>12, <1>13, <1>14, <1>15, <1>16, <1>17

LEMMA DyingKeepsIInv ==
  ASSUME IInv, NEW u \in Units, unit[u] # "none", unit' = [unit EXCEPT ![u] = "dead"],
         Dequeue(Of(u)), link' \in {link, link \ {u}}, Operation,
         UNCHANGED <<thing, owner, duration, calls>>
  PROVE  IInv'
<1> USE SetAssumption, NullAssumption DEF IInv
<1>1. /\ due' \in [Things -> Nat] /\ later' \in [Things -> Nat]
      /\ early' \subseteq Things /\ stray' \subseteq Affects
      /\ \A t \in Things : due'[t] = (IF t \in Of(u) THEN 0 ELSE due[t])
                           /\ later'[t] = (IF t \in Of(u) THEN 0 ELSE later[t])
      /\ \A t \in Things : t \in early' <=> t \in early /\ t \notin Of(u)
      /\ \A t \in Things : t \in stray' <=> t \in stray /\ (t \in Of(u) => t = running)
  BY Dequeued
<1>2. /\ thing' = thing /\ owner' = owner /\ duration' = duration
      /\ starting' = starting /\ entering' = entering
      /\ phase' = phase /\ running' = running /\ ops' \in Nat
  BY DEF calls, Operation, TypeOK
<1>3. /\ unit'[u] = "dead" /\ \A v \in Units : v # u => unit'[v] = unit[v]
      /\ link' \subseteq link
  BY DEF TypeOK
<1>4. TypeOK'
  BY <1>1, <1>2, <1>3 DEF TypeOK
<1>5. \A t \in Things : t \in Of(u) <=> thing[t] = "linked" /\ owner[t] = u
  BY DEF Of
<1>6. \A t \in Things \ Of(u) : Events(t)' = Events(t) /\ Beats(t)' = Beats(t)
                                /\ (t \in early' <=> t \in early)
  BY <1>1, <1>2 DEF Events, Beats
<1>7. \A t \in Of(u) : Events(t)' = 0 /\ Beats(t)' = IF running = t THEN 1 ELSE 0
  BY <1>1, <1>2, <1>5 DEF Events, Beats, Of
<1>8. Linked' /\ MenuHasLink' /\ EntererInGame' /\ Quiet' /\ RunningIsOwned'
  <2>1. Linked' /\ MenuHasLink' /\ EntererInGame'
    BY <1>2, <1>3 DEF Linked, MenuHasLink, EntererInGame
  <2>2. Quiet'
    BY <1>1, <1>2, <1>5 DEF Quiet, Of, TypeOK
  <2>3. running \notin stray' \cup {None} => running \notin stray \cup {None}
    BY <1>1 DEF TypeOK
  <2> QED BY <1>2, <2>1, <2>2, <2>3 DEF RunningIsOwned
<1>9. NoDanglingEvent'
  <2>1. \A t \in Things : t \notin stray' /\ Events(t)' > 0 =>
          t \notin stray /\ t \notin Of(u) /\ Events(t) > 0
    BY <1>1, <1>6, <1>7
  <2>2. \A t \in Things : t \notin stray' /\ Events(t)' > 0 =>
          thing[t] = "linked" /\ unit'[owner[t]] # "none"
    BY <1>3, <1>5, <2>1 DEF NoDanglingEvent, Linked
  <2>3. running \notin stray' \cup {None} =>
          thing[running] # "free" /\ unit'[owner[running]] # "none"
    BY <1>1, <1>3 DEF NoDanglingEvent, RunningIsOwned, TypeOK
  <2> QED BY <1>2, <2>2, <2>3 DEF NoDanglingEvent
<1>10. DueInGame'
  <2> SUFFICES ASSUME NEW t \in Things, due'[t] > 0, t \notin stray'
               PROVE  \/ unit'[owner[t]] = "game"
                      \/ unit'[owner[t]] = "menu" /\ t \in early'
    BY <1>2 DEF DueInGame
  <2>1. t \notin stray /\ t \notin Of(u) /\ due[t] > 0 /\ Events(t) > 0
    BY <1>1 DEF Events, TypeOK
  <2>2. thing[t] = "linked" /\ owner[t] # u /\ owner[t] \in Units
    BY <2>1, <1>5 DEF NoDanglingEvent, Linked
  <2> QED BY <1>3, <1>6, <2>1, <2>2 DEF DueInGame
<1>11. HeartbeatKept'
  <2> SUFFICES ASSUME NEW t \in Things, thing[t] = "linked"
               PROVE  /\ unit'[owner[t]] = "game" =>
                           Beats(t)' > 0 \/ t \in starting \/ entering = owner[t]
                      /\ unit'[owner[t]] = "menu" => Beats(t)' = 0 \/ t \in early' \cup stray'
                      /\ t \in Funcs => Beats(t)' <= IF t \in early' THEN 2 ELSE 1
    BY <1>2 DEF HeartbeatKept
  <2>1. CASE t \in Of(u)
    BY <1>3, <1>5, <1>7, <2>1
  <2>2. CASE t \notin Of(u)
    <3>1. owner[t] # u /\ owner[t] \in Units
      BY <1>5, <2>2 DEF Linked
    <3> QED BY <1>1, <1>3, <1>6, <2>2, <3>1 DEF HeartbeatKept
  <2> QED BY <2>1, <2>2
<1>12. NotYetBegun'
  <2> SUFFICES ASSUME NEW f \in Funcs, thing[f] = "linked", Outside(owner[f])'
               PROVE  Beats(f)' <= IF f \in early' THEN 1 ELSE 0
    BY <1>2 DEF NotYetBegun
  <2>1. f \in Things /\ owner[f] \in Units
    BY DEF Things, Linked
  <2>2. CASE f \in Of(u)
    <3>1. entering = u /\ owner[f] = u
      BY <1>2, <1>3, <1>5, <2>1, <2>2 DEF Outside
    <3>2. running # f
      BY <3>1 DEF RunningIsOwned
    <3> QED BY <1>7, <2>2, <3>2
  <2>3. CASE f \notin Of(u)
    <3>1. Outside(owner[f])
      BY <1>2, <1>3, <1>5, <2>1, <2>3 DEF Outside
    <3> QED BY <1>6, <2>1, <2>3, <3>1 DEF NotYetBegun
  <2> QED BY <2>2, <2>3
<1> QED BY <1>4, <1>8, <1>9, <1>10, <1>11, <1>12

LEMMA UnitStepKeepsIInv == ASSUME IInv, UnitStep PROVE IInv'
<1> USE SetAssumption, NullAssumption
<1>1. ASSUME NEW u \in Units, NEW S \in SUBSET Things, Load(u, S) PROVE IInv'
  BY <1>1, ReadKeepsIInv
<1>2. ASSUME NEW u \in PCs, NEW S \in SUBSET Things, LoadIntoGame(u, S) PROVE IInv'
  BY <1>2, ReadKeepsIInv
<1>3. ASSUME NEW u \in Units, Extract(u) PROVE IInv'
  BY <1>3, DyingKeepsIInv DEF Extract
<1>4. ASSUME NEW u \in PCs, CloseInMenu(u) PROVE IInv'
  BY <1>4, DyingKeepsIInv DEF CloseInMenu
<1>5. ASSUME NEW u \in PCs, UNCHANGED <<unit, thing, owner, duration, queue, calls, history>>,
             Operation, link' \subseteq PCs, \A v \in Units \ {u} : v \in link' <=> v \in link,
             unit[u] # "menu"
      PROVE  IInv'
  <2>1. /\ unit' = unit /\ thing' = thing /\ owner' = owner /\ duration' = duration
        /\ due' = due /\ later' = later /\ early' = early /\ stray' = stray
        /\ starting' = starting /\ entering' = entering
        /\ phase' = phase /\ running' = running
    BY <1>5 DEF queue, calls, history, Operation
  <2>2. TypeOK'
    BY <1>5, <2>1 DEF IInv, TypeOK, Operation
  <2>3. MenuHasLink' /\ EntererInGame'
    BY <1>5, <2>1 DEF IInv, MenuHasLink, EntererInGame
  <2>4. (NoDanglingEvent /\ HeartbeatKept /\ Linked /\ Quiet /\ RunningIsOwned /\ DueInGame
         /\ NotYetBegun)'
    BY <2>1 DEF IInv, NoDanglingEvent, HeartbeatKept, Events, Beats, Outside, Linked, Quiet,
                RunningIsOwned, DueInGame, NotYetBegun
  <2> QED BY <2>2, <2>3, <2>4 DEF IInv
<1>6. ASSUME NEW u \in PCs, Reconnect(u) PROVE IInv'
  BY <1>5, <1>6 DEF Reconnect, IInv, TypeOK
<1>7. ASSUME NEW u \in PCs, NEW guest \in BOOLEAN, CloseInGame(u, guest) PROVE IInv'
  <2>1. CASE guest /\ unit[u] = "game"
    <3>1. unit' = [unit EXCEPT ![u] = "dead"]
      BY <1>7, <2>1 DEF CloseInGame
    <3> QED BY <1>7, <2>1, <3>1, DyingKeepsIInv DEF CloseInGame
  <2>2. CASE ~(guest /\ unit[u] = "game")
    <3>1. unit' = unit
      BY <1>7, <2>2 DEF CloseInGame, IInv, TypeOK
    <3> QED BY <1>5, <1>7, <2>2, <3>1 DEF CloseInGame, IInv, TypeOK
  <2> QED BY <2>1, <2>2
<1>8. ASSUME NEW u \in PCs, EnterGame(u) PROVE IInv'
  <2> USE DEF IInv
  <2>1. /\ thing' = thing /\ owner' = owner /\ duration' = duration
        /\ due' = due /\ later' = later /\ early' = early /\ stray' = stray
        /\ starting' = starting /\ entering' = u /\ link' = link
        /\ phase' = phase /\ running' = running /\ ops' \in Nat
    BY <1>8 DEF EnterGame, queue, history, Operation, TypeOK
  <2>2. /\ unit'[u] = "game" /\ unit[u] = "menu" /\ entering = None /\ phase = "input"
        /\ \A v \in Units : v # u => unit'[v] = unit[v]
        /\ running = None
    BY <1>8 DEF EnterGame, Quiet, TypeOK
  <2>3. TypeOK'
    BY <1>8, <2>1 DEF EnterGame, TypeOK
  <2>4. \A t \in Things : Events(t)' = Events(t) /\ Beats(t)' = Beats(t)
    BY <2>1 DEF Events, Beats
  <2>5. NoDanglingEvent' /\ Linked' /\ MenuHasLink' /\ EntererInGame' /\ Quiet' /\ RunningIsOwned'
    BY <2>1, <2>2, <2>4
       DEF NoDanglingEvent, Linked, MenuHasLink, EntererInGame, Quiet, RunningIsOwned, Things
  <2>6. HeartbeatKept'
    BY <2>1, <2>2, <2>4 DEF HeartbeatKept, Linked
  <2>7. DueInGame'
    BY <2>1, <2>2, <2>4 DEF DueInGame, NoDanglingEvent, Linked, Events, TypeOK
  <2>8. NotYetBegun'
    <3>1. \A f \in Funcs : thing[f] = "linked" /\ Outside(owner[f])' => Outside(owner[f])
      BY <2>1, <2>2 DEF Outside, Linked, Things
    <3> QED BY <2>1, <2>4, <3>1 DEF NotYetBegun, Things, Outside
  <2> QED BY <2>3, <2>5, <2>6, <2>7, <2>8
<1> QED BY <1>1, <1>2, <1>3, <1>4, <1>6, <1>7, <1>8 DEF UnitStep

(* What happens to affects and functions.                                  *)
LEMMA RegisteringKeepsIInv ==
  ASSUME IInv, NEW x \in Things, NEW u \in Units, thing[x] # "free" => u = owner[x],
         thing' = [thing EXCEPT ![x] = "dead"], owner' = [owner EXCEPT ![x] = u],
         duration' \in [Affects -> Durations], Dequeue({x}), ops' \in Nat,
         UNCHANGED <<unit, link, phase, running, calls>>
  PROVE  IInv'
<1> USE SetAssumption, NullAssumption DEF IInv
<1>1. /\ due' \in [Things -> Nat] /\ later' \in [Things -> Nat]
      /\ early' \subseteq Things /\ stray' \subseteq Affects
      /\ \A t \in Things : due'[t] = (IF t = x THEN 0 ELSE due[t])
                           /\ later'[t] = (IF t = x THEN 0 ELSE later[t])
      /\ \A t \in Things : t \in early' <=> t \in early /\ t # x
      /\ \A t \in Things : t \in stray' <=> t \in stray /\ (t = x => t = running)
  BY Dequeued
<1>2. /\ unit' = unit /\ link' = link /\ phase' = phase /\ running' = running
      /\ starting' = starting /\ entering' = entering
  BY DEF calls
<1>3. /\ thing'[x] = "dead" /\ owner'[x] = u
      /\ \A t \in Things \ {x} : thing'[t] = thing[t] /\ owner'[t] = owner[t]
  BY DEF TypeOK
<1>4. TypeOK'
  BY <1>1, <1>2 DEF TypeOK
<1>5. \A t \in Things \ {x} : Events(t)' = Events(t) /\ Beats(t)' = Beats(t)
  BY <1>1, <1>2 DEF Events, Beats
<1>6. Events(x)' = 0 /\ due'[x] = 0
  BY <1>1 DEF Events
<1>7. Linked' /\ MenuHasLink' /\ EntererInGame' /\ Quiet'
  BY <1>1, <1>2, <1>3 DEF Linked, MenuHasLink, EntererInGame, Quiet, TypeOK
<1>8. running \notin stray' \cup {None} =>
        /\ running \notin stray \cup {None} /\ thing[running] # "free"
        /\ owner'[running] = owner[running]
  BY <1>1, <1>3 DEF NoDanglingEvent, TypeOK
<1>9. RunningIsOwned'
  <2>1. running \in Funcs => owner'[running] = owner[running]
    BY <1>1, <1>8, <1>3 DEF TypeOK, Things
  <2> QED BY <1>2, <1>8, <2>1 DEF RunningIsOwned
<1>10. NoDanglingEvent'
  <2>1. \A t \in Things : t \notin stray' /\ Events(t)' > 0 =>
          t # x /\ t \notin stray /\ Events(t) > 0
    BY <1>1, <1>5, <1>6
  <2> QED BY <1>2, <1>3, <1>8, <2>1 DEF NoDanglingEvent, TypeOK
<1>11. HeartbeatKept' /\ DueInGame' /\ NotYetBegun'
  <2>1. HeartbeatKept'
    BY <1>1, <1>2, <1>3, <1>5 DEF HeartbeatKept
  <2>2. DueInGame'
    BY <1>1, <1>2, <1>3, <1>6 DEF DueInGame
  <2>3. NotYetBegun'
    BY <1>1, <1>2, <1>3, <1>5 DEF NotYetBegun, Outside, Things
  <2> QED BY <2>1, <2>2, <2>3
<1> QED BY <1>4, <1>7, <1>9, <1>10, <1>11

LEMMA CreateAffectKeepsIInv ==
  ASSUME IInv, NEW u \in Units, NEW a \in Affects, NEW overflow \in BOOLEAN,
         CreateAffect(u, a, overflow)
  PROVE  IInv'
<1> USE SetAssumption, NullAssumption
<1>1. a \in Things /\ a \notin Funcs /\ thing[a] = "free" /\ unit[u] \in {"game", "menu"}
  BY DEF CreateAffect, Things
<1>2. duration' \in [Affects -> Durations]
  BY DEF CreateAffect, IInv, TypeOK
<1>3. CASE overflow
  <2>1. /\ thing' = [thing EXCEPT ![a] = "dead"] /\ owner' = [owner EXCEPT ![a] = u]
        /\ Dequeue({a}) /\ ops' \in Nat
        /\ UNCHANGED <<unit, link, phase, running, calls>>
    BY <1>3 DEF CreateAffect, Operation, calls, IInv, TypeOK
  <2> QED BY <1>1, <1>2, <2>1, RegisteringKeepsIInv
<1>4. CASE ~overflow
  <2> USE DEF IInv
  <2>1. /\ unit' = unit /\ link' = link /\ phase' = phase /\ running' = running
        /\ due' = due /\ later' = later /\ early' = early /\ stray' = stray
        /\ starting' = starting \cup {a} /\ entering' = entering /\ ops' \in Nat
        /\ thing' = [thing EXCEPT ![a] = "linked"] /\ owner' = [owner EXCEPT ![a] = u]
    BY <1>4 DEF CreateAffect, Operation, queue, history, TypeOK
  <2>2. /\ thing'[a] = "linked" /\ owner'[a] = u
        /\ \A t \in Things \ {a} : thing'[t] = thing[t] /\ owner'[t] = owner[t]
    BY <1>1, <2>1 DEF TypeOK
  <2>3. \A t \in Things : Events(t)' = Events(t) /\ Beats(t)' = Beats(t)
    BY <2>1 DEF Events, Beats
  <2>4. TypeOK'
    BY <1>1, <1>2, <2>1 DEF TypeOK
  <2>5. Linked' /\ MenuHasLink' /\ EntererInGame' /\ Quiet'
    BY <1>1, <2>1, <2>2 DEF Linked, MenuHasLink, EntererInGame, Quiet
  <2>6. a \notin stray => Events(a) = 0 /\ due[a] = 0 /\ running # a /\ Beats(a) = 0
    <3>1. a # None /\ thing[a] # "linked" /\ due[a] \in Nat /\ later[a] \in Nat
      BY <1>1 DEF TypeOK
    <3>2. a \notin stray => ~(Events(a) > 0) /\ running # a
      BY <1>1, <3>1 DEF NoDanglingEvent
    <3> QED BY <3>1, <3>2 DEF Events, Beats
  <2>7. NoDanglingEvent' /\ RunningIsOwned'
    <3>1. NoDanglingEvent'
      BY <1>1, <2>1, <2>2, <2>3, <2>6 DEF NoDanglingEvent, TypeOK
    <3>2. RunningIsOwned'
      BY <1>1, <2>1, <2>2, <2>6 DEF RunningIsOwned, TypeOK
    <3> QED BY <3>1, <3>2
  <2>8. HeartbeatKept'
    BY <1>1, <2>1, <2>2, <2>3, <2>6 DEF HeartbeatKept
  <2>9. DueInGame'
    BY <1>1, <2>1, <2>2, <2>6 DEF DueInGame, TypeOK
  <2>10. NotYetBegun'
    BY <1>1, <2>1, <2>2, <2>3 DEF NotYetBegun, Outside, Things
  <2> QED BY <2>4, <2>5, <2>7, <2>8, <2>9, <2>10
<1> QED BY <1>3, <1>4

LEMMA ThingStepKeepsIInv == ASSUME IInv, ThingStep PROVE IInv'
<1> USE SetAssumption, NullAssumption
<1>1. ASSUME NEW u \in Units, NEW a \in Affects, NEW overflow \in BOOLEAN,
             CreateAffect(u, a, overflow)
      PROVE  IInv'
  BY <1>1, CreateAffectKeepsIInv
<1>2. ASSUME NEW u \in Units, NEW f \in Funcs, CreateFptr(u, f) PROVE IInv'
  <2> USE DEF IInv
  <2>1. /\ f \in Things /\ f \notin stray /\ thing[f] = "free" /\ running # f
        /\ due[f] = 0 /\ later[f] = 0 /\ unit[u] # "none"
    <3>1. f \in Things /\ f \notin stray /\ f # None /\ thing[f] = "free" /\ unit[u] # "none"
      BY <1>2 DEF CreateFptr, Things, TypeOK
    <3> QED BY <3>1 DEF NoDanglingEvent, Events, TypeOK
  <2>2. /\ unit' = unit /\ link' = link /\ phase' = phase /\ running' = running
        /\ due' = due /\ stray' = stray /\ duration' = duration
        /\ starting' = starting /\ entering' = entering /\ ops' \in Nat
        /\ thing' = [thing EXCEPT ![f] = "linked"] /\ owner' = [owner EXCEPT ![f] = u]
        /\ later' = [t \in Things |-> IF t = f THEN later[t] + 1 ELSE later[t]]
        /\ early' = IF Outside(u) THEN early \cup {f} ELSE early
    BY <1>2 DEF CreateFptr, Operation, calls, Enqueue, Begun, TypeOK
  <2>3. /\ thing'[f] = "linked" /\ owner'[f] = u
        /\ \A t \in Things \ {f} : thing'[t] = thing[t] /\ owner'[t] = owner[t]
        /\ \A t \in Things \ {f} : t \in early' <=> t \in early
    BY <2>1, <2>2 DEF TypeOK
  <2>4. /\ Beats(f)' = 1
        /\ \A t \in Things \ {f} : Events(t)' = Events(t) /\ Beats(t)' = Beats(t)
    BY <2>1, <2>2 DEF Events, Beats
  <2>5. TypeOK'
    BY <2>1, <2>2 DEF TypeOK
  <2>6. Linked' /\ MenuHasLink' /\ EntererInGame' /\ Quiet' /\ NoDanglingEvent' /\ RunningIsOwned'
    <3>1. Linked' /\ MenuHasLink' /\ EntererInGame' /\ Quiet' /\ RunningIsOwned'
      BY <2>1, <2>2, <2>3 DEF Linked, MenuHasLink, EntererInGame, Quiet, RunningIsOwned, TypeOK
    <3>2. NoDanglingEvent'
      BY <2>1, <2>2, <2>3, <2>4 DEF NoDanglingEvent, TypeOK
    <3> QED BY <3>1, <3>2
  <2>7. HeartbeatKept'
    BY <2>1, <2>2, <2>3, <2>4 DEF HeartbeatKept, Outside
  <2>8. DueInGame'
    BY <2>1, <2>2, <2>3 DEF DueInGame
  <2>9. NotYetBegun'
    BY <2>1, <2>2, <2>3, <2>4 DEF NotYetBegun, Outside, Things
  <2> QED BY <2>5, <2>6, <2>7, <2>8, <2>9
<1>3. ASSUME NEW a \in Affects, DestroyAffect(a), Unlink(a) PROVE IInv'
  <2>1. a \in Things /\ owner[a] \in Units /\ owner' = [owner EXCEPT ![a] = owner[a]]
    BY <1>3 DEF DestroyAffect, IInv, Linked, Things, TypeOK
  <2>2. /\ thing' = [thing EXCEPT ![a] = "dead"] /\ Dequeue({a}) /\ ops' \in Nat
        /\ duration' \in [Affects -> Durations]
        /\ UNCHANGED <<unit, link, phase, running, calls>>
    BY <1>3 DEF DestroyAffect, Unlink, Operation, IInv, TypeOK
  <2> QED BY <2>1, <2>2, RegisteringKeepsIInv
<1>4. ASSUME NEW a \in Affects, DestroyAffect(a), Stall(a) PROVE IInv'
  <2> USE DEF IInv
  <2>1. a \in Things /\ a \notin Funcs /\ thing[a] = "linked" /\ owner[a] \in Units
    BY <1>4 DEF DestroyAffect, Things, Linked
  <2>2. /\ unit' = unit /\ link' = link /\ phase' = phase /\ running' = running
        /\ due' = due /\ stray' = stray /\ thing' = thing /\ owner' = owner
        /\ starting' = starting /\ entering' = entering /\ ops' \in Nat
        /\ later' = [t \in Things |-> IF t = a THEN later[t] + 1 ELSE later[t]]
        /\ early' = (IF Outside(owner[a]) THEN early \cup {a} ELSE early)
        /\ duration' = [duration EXCEPT ![a] = 0]
    BY <1>4 DEF DestroyAffect, Stall, Operation, calls, Enqueue, Begun, TypeOK
  <2>3. TypeOK'
    <3>1. 0 \in Durations
      BY BoundAssumption DEF Durations
    <3> QED BY <2>1, <2>2, <3>1 DEF TypeOK
  <2>4. /\ Events(a)' = Events(a) + 1 /\ Beats(a)' = Beats(a) + 1 /\ Beats(a) \in Nat
        /\ \A t \in Things \ {a} : Events(t)' = Events(t) /\ Beats(t)' = Beats(t)
    BY <2>1, <2>2 DEF Events, Beats, TypeOK
  <2>5. \A t \in Things \ {a} : t \in early' <=> t \in early
    BY <2>2
  <2>6. Linked' /\ MenuHasLink' /\ EntererInGame' /\ Quiet' /\ NoDanglingEvent' /\ RunningIsOwned'
    BY <2>1, <2>2, <2>4
       DEF Linked, MenuHasLink, EntererInGame, Quiet, NoDanglingEvent, RunningIsOwned, TypeOK
  <2>7. HeartbeatKept'
    BY <2>1, <2>2, <2>4, <2>5 DEF HeartbeatKept, Outside
  <2>8. DueInGame' /\ NotYetBegun'
    BY <2>1, <2>2, <2>4, <2>5 DEF DueInGame, NotYetBegun, Outside, Things
  <2> QED BY <2>3, <2>6, <2>7, <2>8
<1>5. ASSUME NEW f \in Funcs, DestroyFptr(f) PROVE IInv'
  <2>1. f \in Things /\ owner[f] \in Units /\ owner' = [owner EXCEPT ![f] = owner[f]]
    BY <1>5 DEF DestroyFptr, IInv, Linked, Things, TypeOK
  <2>2. /\ thing' = [thing EXCEPT ![f] = "dead"] /\ Dequeue({f}) /\ ops' \in Nat
        /\ duration' \in [Affects -> Durations]
        /\ UNCHANGED <<unit, link, phase, running, calls>>
    BY <1>5 DEF DestroyFptr, Operation, IInv, TypeOK
  <2> QED BY <2>1, <2>2, RegisteringKeepsIInv
<1>6. ASSUME NEW f \in Funcs, ResetFptrTimer(f) PROVE IInv'
  <2> USE DEF IInv
  <2>1. f \in Things /\ thing[f] = "linked" /\ owner[f] \in Units /\ running # f
    BY <1>6 DEF ResetFptrTimer, Things, Linked
  <2>2. /\ unit' = unit /\ link' = link /\ phase' = phase /\ running' = running
        /\ stray' = stray /\ thing' = thing /\ owner' = owner /\ duration' = duration
        /\ starting' = starting /\ entering' = entering /\ ops' \in Nat
        /\ due' = [due EXCEPT ![f] = 0] /\ later' = [later EXCEPT ![f] = 1]
        /\ early' = IF Outside(owner[f]) THEN early \cup {f} ELSE early \ {f}
    BY <1>6 DEF ResetFptrTimer, Operation, calls, TypeOK
  <2>3. TypeOK'
    BY <2>1, <2>2 DEF TypeOK
  <2>4. /\ Beats(f)' = 1
        /\ \A t \in Things \ {f} : Events(t)' = Events(t) /\ Beats(t)' = Beats(t)
                                   /\ (t \in early' <=> t \in early)
    BY <2>1, <2>2 DEF Events, Beats, TypeOK
  <2>5. Linked' /\ MenuHasLink' /\ EntererInGame' /\ Quiet' /\ RunningIsOwned' /\ DueInGame'
    BY <2>1, <2>2, <2>4
       DEF Linked, MenuHasLink, EntererInGame, Quiet, RunningIsOwned, DueInGame, TypeOK
  <2>6. NoDanglingEvent' /\ HeartbeatKept' /\ NotYetBegun'
    <3>1. NoDanglingEvent'
      BY <2>1, <2>2, <2>4 DEF NoDanglingEvent, Linked, TypeOK
    <3>2. HeartbeatKept' /\ NotYetBegun'
      BY <2>1, <2>2, <2>4 DEF HeartbeatKept, NotYetBegun, Outside, Things
    <3> QED BY <3>1, <3>2
  <2> QED BY <2>3, <2>5, <2>6
<1> QED BY <1>1, <1>2, <1>3, <1>4, <1>5, <1>6 DEF ThingStep, DestroyAffect

(* Ticks: an event becomes a running function or the next event.           *)
LEMMA TickKeepsIInv ==
  ASSUME IInv, NEW x \in Things, thing[x] = "linked" \/ x \in stray, phase = "events",
         \/ /\ running = None /\ due[x] > 0 /\ due' = [due EXCEPT ![x] = @ - 1]
            /\ \/ running' = x /\ later' = later
               \/ running' = None /\ later' = Enqueue({x})
         \/ running = x /\ running' = None /\ due' = due /\ later' = Enqueue({x}),
         UNCHANGED <<unit, link, thing, owner, phase, calls, history>>, ops' \in Nat,
         duration' \in [Affects -> Durations], entering' = None
  PROVE  IInv'
<1> USE SetAssumption, NullAssumption DEF IInv
<1>1. /\ unit' = unit /\ link' = link /\ phase' = phase /\ thing' = thing /\ owner' = owner
      /\ starting' = starting /\ entering' = entering /\ early' = early /\ stray' = stray
  BY DEF calls, history
<1>2. /\ due' \in [Things -> Nat] /\ later' \in [Things -> Nat] /\ running' \in Things \cup {None}
      /\ \A t \in Things \ {x} : due'[t] = due[t] /\ later'[t] = later[t]
      /\ due'[x] > 0 => due[x] > 0
      /\ running' \in {None, x}
  BY DEF TypeOK, Enqueue
<1>3. TypeOK'
  BY <1>1, <1>2 DEF TypeOK
<1>4. \A t \in Things : Beats(t)' = Beats(t)
  BY <1>2 DEF Beats, Events, Enqueue, TypeOK
<1>5. \A t \in Things \ {x} : Events(t)' = Events(t)
  BY <1>2 DEF Events
<1>6. thing[x] = "linked" => owner[x] \in Units /\ unit[owner[x]] # "none"
  BY DEF Linked
<1>7. Linked' /\ MenuHasLink' /\ EntererInGame' /\ Quiet' /\ RunningIsOwned'
  <2>1. Quiet'
    BY <1>1, <1>2 DEF Quiet
  <2>2. RunningIsOwned'
    BY <1>1, <1>2, <1>6 DEF RunningIsOwned, TypeOK
  <2> QED BY <1>1, <2>1, <2>2 DEF Linked, MenuHasLink, EntererInGame
<1>8. NoDanglingEvent'
  BY <1>1, <1>2, <1>5, <1>6 DEF NoDanglingEvent, TypeOK
<1>9. HeartbeatKept' /\ NotYetBegun'
  BY <1>1, <1>4 DEF HeartbeatKept, NotYetBegun, Outside, Things
<1>10. DueInGame'
  BY <1>1, <1>2 DEF DueInGame
<1> QED BY <1>3, <1>7, <1>8, <1>9, <1>10

(* The end of a tick function of what was destroyed meanwhile.             *)
LEMMA LastTickKeepsIInv ==
  ASSUME IInv, running \in Things, thing[running] = "dead", running' = None,
         UNCHANGED <<unit, link, thing, owner, duration, queue, phase, calls, ops, history>>,
         entering = None
  PROVE  IInv'
<1> USE SetAssumption, NullAssumption DEF IInv
<1>1. /\ unit' = unit /\ link' = link /\ phase' = phase /\ thing' = thing /\ owner' = owner
      /\ starting' = starting /\ entering' = entering /\ early' = early /\ stray' = stray
      /\ due' = due /\ later' = later /\ ops' = ops /\ duration' = duration
  BY DEF calls, history, queue
<1>2. TypeOK'
  BY <1>1 DEF TypeOK
<1>3. \A t \in Things : Events(t)' = Events(t) /\ (t # running => Beats(t)' = Beats(t))
  BY <1>1 DEF Events, Beats
<1> QED BY <1>1, <1>2, <1>3
        DEF NoDanglingEvent, HeartbeatKept, NotYetBegun, Outside, Linked, MenuHasLink,
            EntererInGame, Quiet, RunningIsOwned, DueInGame, Things

(* enter_game and create_affect come to their end.                         *)
LEMMA EnterGameEndsKeepsIInv == ASSUME IInv, EnterGameEnds PROVE IInv'
<1> USE SetAssumption, NullAssumption DEF IInv
<1>1. /\ unit' = unit /\ link' = link /\ phase' = phase /\ thing' = thing /\ owner' = owner
      /\ starting' = starting /\ entering # None /\ entering' = None
      /\ early' = early /\ stray' = stray
      /\ due' = due /\ ops' = ops /\ duration' = duration /\ running' = running
      /\ later' = [t \in Things |-> IF thing[t] = "linked" /\ owner[t] = entering
                                    THEN later[t] + 1 ELSE later[t]]
  BY DEF EnterGameEnds, history, Enqueue, Of
<1>2. TypeOK'
  BY <1>1 DEF TypeOK
<1>3. \A t \in Things : IF thing[t] = "linked" /\ owner[t] = entering
        THEN Beats(t)' = Beats(t) + 1 /\ Beats(t) \in Nat
        ELSE Beats(t)' = Beats(t) /\ Events(t)' = Events(t)
  BY <1>1 DEF Beats, Events, TypeOK
<1>4. Linked' /\ MenuHasLink' /\ EntererInGame' /\ Quiet' /\ RunningIsOwned' /\ DueInGame'
  BY <1>1 DEF Linked, MenuHasLink, EntererInGame, Quiet, RunningIsOwned, DueInGame
<1>5. NoDanglingEvent'
  BY <1>1, <1>3 DEF NoDanglingEvent, Linked
<1>6. HeartbeatKept'
  <2> SUFFICES ASSUME NEW t \in Things, thing[t] = "linked"
               PROVE  /\ unit[owner[t]] = "game" => Beats(t)' > 0 \/ t \in starting
                      /\ unit[owner[t]] = "menu" => Beats(t)' = 0 \/ t \in early \cup stray
                      /\ t \in Funcs => Beats(t)' <= IF t \in early THEN 2 ELSE 1
    BY <1>1 DEF HeartbeatKept
  <2>1. CASE owner[t] = entering
    <3>1. /\ Beats(t)' = Beats(t) + 1 /\ Beats(t) \in Nat
          /\ unit[owner[t]] = "menu" => Beats(t) = 0 \/ t \in early \cup stray
      BY <1>3, <2>1 DEF HeartbeatKept
    <3>2. t \in Funcs => Beats(t) <= IF t \in early THEN 1 ELSE 0
      BY <2>1 DEF NotYetBegun, Outside
    <3>3. unit[owner[t]] # "menu"
      BY <1>1, <2>1 DEF EntererInGame
    <3> QED BY <3>1, <3>2, <3>3
  <2>2. CASE owner[t] # entering
    BY <1>3, <2>2 DEF HeartbeatKept
  <2> QED BY <2>1, <2>2
<1>7. NotYetBegun'
  <2>1. \A f \in Funcs : thing[f] = "linked" /\ Outside(owner[f])' =>
          owner[f] # entering /\ Outside(owner[f])
    BY <1>1, <1>2 DEF Outside, EntererInGame, Linked, Things
  <2> QED BY <1>1, <1>3, <2>1 DEF NotYetBegun, Things
<1> QED BY <1>2, <1>4, <1>5, <1>6, <1>7

LEMMA CreateAffectEndsKeepsIInv ==
  ASSUME IInv, NEW a \in Affects, CreateAffectEnds(a) PROVE IInv'
<1> USE SetAssumption, NullAssumption DEF IInv
<1>1. /\ a \in Things /\ a \notin Funcs
      /\ unit' = unit /\ link' = link /\ phase' = phase /\ thing' = thing /\ owner' = owner
      /\ starting' = starting \ {a} /\ entering' = entering
      /\ due' = due /\ ops' = ops /\ duration' = duration /\ running' = running
      /\ later' = [t \in Things |-> IF t = a THEN later[t] + 1 ELSE later[t]]
      /\ early' = IF thing[a] = "linked" /\ Outside(owner[a]) THEN early \cup {a} ELSE early
      /\ stray' = IF thing[a] = "linked" THEN stray ELSE stray \cup {a}
  BY DEF CreateAffectEnds, Enqueue, Things, Begun
<1>2. TypeOK'
  BY <1>1 DEF TypeOK
<1>3. /\ Beats(a)' = Beats(a) + 1 /\ Beats(a) \in Nat
      /\ \A t \in Things \ {a} : Events(t)' = Events(t) /\ Beats(t)' = Beats(t)
                                 /\ (t \in early' <=> t \in early) /\ (t \in stray' <=> t \in stray)
                                 /\ (t \in starting' <=> t \in starting)
  BY <1>1 DEF Beats, Events, TypeOK
<1>4. Linked' /\ MenuHasLink' /\ EntererInGame' /\ Quiet'
  BY <1>1 DEF Linked, MenuHasLink, EntererInGame, Quiet
<1>5. RunningIsOwned' /\ DueInGame'
  BY <1>1 DEF RunningIsOwned, DueInGame
<1>6. NoDanglingEvent'
  BY <1>1, <1>3, <1>2 DEF NoDanglingEvent, Linked, TypeOK
<1>7. HeartbeatKept'
  BY <1>1, <1>3 DEF HeartbeatKept, Outside
<1>8. NotYetBegun'
  BY <1>1, <1>3 DEF NotYetBegun, Outside, Things
<1> QED BY <1>2, <1>4, <1>5, <1>6, <1>7, <1>8

LEMMA DiesKeepsIInv == ASSUME IInv, NEW a \in Affects, Dies(a) PROVE IInv'
<1> USE SetAssumption, NullAssumption DEF IInv
<1>1. entering = None /\ running = None
  BY DEF Dies, Quiet
<1>2. TypeOK'
  <2>1. 0 \in Durations
    BY BoundAssumption DEF Durations
  <2> QED BY <2>1 DEF Dies, TypeOK, calls
<1> QED BY <1>1, <1>2
        DEF Dies, calls, NoDanglingEvent, HeartbeatKept, NotYetBegun, Events, Linked, MenuHasLink,
            EntererInGame, Quiet, RunningIsOwned, DueInGame, Things

(* clear_destructed.                                                       *)
LEMMA ClearKeepsIInv == ASSUME IInv, ClearDestructed PROVE IInv'
<1> USE SetAssumption, NullAssumption DEF IInv
<1>1. /\ running = None /\ entering = None
      /\ \A t \in Things : due[t] = 0
  BY DEF ClearDestructed, Quiet, TypeOK
<1>2. \A t \in Things : t \in Stopped <=> thing[t] = "linked" /\ unit[owner[t]] = "dead"
  BY DEF Stopped, Of, ToMenu, Deleted, Linked
<1>3. PICK S \in SUBSET Things :
        /\ due' = [t \in Things |-> IF t \in S
                     THEN (IF t \in Stopped THEN 0 ELSE later[t]) ELSE 0]
        /\ later' = [t \in Things |-> IF t \in S
                     THEN 0 ELSE (IF t \in Stopped THEN 0 ELSE later[t])]
  BY DEF ClearDestructed
<1>4. /\ due' \in [Things -> Nat] /\ later' \in [Things -> Nat]
      /\ \A t \in Things : due'[t] + later'[t] = IF t \in Stopped THEN 0 ELSE later[t]
  BY <1>3 DEF TypeOK
<1>5. /\ unit' = [u \in Units |-> IF unit[u] = "dead" THEN (IF u \in link THEN "menu" ELSE "none")
                                  ELSE unit[u]]
      /\ \A t \in Things : thing'[t] = IF thing[t] = "dead" THEN "free"
            ELSE IF thing[t] = "linked" /\ unit[owner[t]] = "dead" /\ owner[t] \notin link
            THEN "dead" ELSE thing[t]
      /\ thing' \in [Things -> {"free", "linked", "dead"}]
  BY DEF ClearDestructed, ToMenu, Deleted, Linked, TypeOK
<1>6. /\ link' = link /\ owner' = owner /\ duration' = duration /\ running' = None
      /\ phase' = "input" /\ ops' = 0 /\ starting' = starting /\ entering' = None
      /\ early' = early \ Stopped /\ stray' = stray \ Stopped
  BY <1>1 DEF ClearDestructed, calls, Forget, Stopped, Of
<1>7. \A t \in Things : /\ Events(t)' = IF t \in Stopped THEN 0 ELSE Events(t)
                        /\ Beats(t)' = IF t \in Stopped THEN 0 ELSE Beats(t)
                        /\ Beats(t) = later[t]
  BY <1>1, <1>4, <1>6 DEF Events, Beats, TypeOK
<1>8. TypeOK'
  BY <1>4, <1>5, <1>6 DEF TypeOK
<1>9. \A t \in Things : thing'[t] = "linked" =>
        /\ thing[t] = "linked" /\ owner[t] \in Units /\ unit[owner[t]] # "none"
        /\ unit[owner[t]] = "dead" <=> t \in Stopped
        /\ unit'[owner[t]] = IF t \in Stopped THEN "menu" ELSE unit[owner[t]]
  BY <1>2, <1>5 DEF Linked
<1>10. \A t \in Things : thing[t] = "linked" /\ t \notin Stopped =>
         /\ thing'[t] = "linked" /\ owner[t] \in Units /\ unit[owner[t]] # "none"
         /\ unit'[owner[t]] = unit[owner[t]]
  BY <1>2, <1>5 DEF Linked
<1>11. Linked' /\ MenuHasLink' /\ EntererInGame' /\ Quiet' /\ RunningIsOwned'
  <2>1. Linked'
    BY <1>6, <1>9 DEF Linked
  <2>2. MenuHasLink' /\ EntererInGame' /\ Quiet' /\ RunningIsOwned'
    BY <1>5, <1>6 DEF MenuHasLink, EntererInGame, Quiet, RunningIsOwned
  <2> QED BY <2>1, <2>2
<1>12. NoDanglingEvent'
  <2>1. \A t \in Things : t \notin stray' /\ Events(t)' > 0 =>
          t \notin Stopped /\ t \notin stray /\ Events(t) > 0
    BY <1>6, <1>7
  <2> QED BY <1>6, <1>10, <2>1 DEF NoDanglingEvent
<1>13. DueInGame'
  <2> SUFFICES ASSUME NEW t \in Things, due'[t] > 0, t \notin stray'
               PROVE  \/ unit'[owner[t]] = "game"
                      \/ unit'[owner[t]] = "menu" /\ t \in early'
    BY <1>6 DEF DueInGame
  <2>1. t \notin Stopped /\ t \notin stray /\ later[t] > 0 /\ Events(t) > 0
    <3>1. t \notin Stopped /\ later[t] > 0
      BY <1>3
    <3> QED BY <1>1, <1>6, <3>1 DEF Events, TypeOK
  <2>2. thing[t] = "linked"
    BY <2>1 DEF NoDanglingEvent
  <2>3. unit[owner[t]] # "dead" /\ unit[owner[t]] # "none" /\ owner[t] \in Units
    BY <1>2, <2>1, <2>2 DEF Linked
  <2>4. Beats(t) > 0
    BY <1>7, <2>1
  <2>5. unit[owner[t]] = "menu" => t \in early
    BY <2>1, <2>2, <2>4 DEF HeartbeatKept
  <2> QED BY <1>6, <1>10, <2>1, <2>2, <2>3, <2>5 DEF TypeOK
<1>14. HeartbeatKept'
  <2> SUFFICES ASSUME NEW t \in Things, thing'[t] = "linked"
               PROVE  /\ unit'[owner[t]] = "game" => Beats(t)' > 0 \/ t \in starting
                      /\ unit'[owner[t]] = "menu" => Beats(t)' = 0 \/ t \in early' \cup stray'
                      /\ t \in Funcs => Beats(t)' <= IF t \in early' THEN 2 ELSE 1
    BY <1>6 DEF HeartbeatKept
  <2>1. CASE t \in Stopped
    BY <1>7, <1>9, <2>1
  <2>2. CASE t \notin Stopped
    BY <1>1, <1>6, <1>7, <1>9, <2>2 DEF HeartbeatKept
  <2> QED BY <2>1, <2>2
<1>15. NotYetBegun'
  <2> SUFFICES ASSUME NEW f \in Funcs, thing'[f] = "linked", Outside(owner[f])'
               PROVE  Beats(f)' <= IF f \in early' THEN 1 ELSE 0
    BY DEF NotYetBegun
  <2>1. f \in Things
    BY DEF Things
  <2>2. CASE f \in Stopped
    BY <1>7, <2>1, <2>2
  <2>3. CASE f \notin Stopped
    <3>1. thing[f] = "linked" /\ Outside(owner[f])
      BY <1>6, <1>9, <2>1, <2>3 DEF Outside
    <3> QED BY <1>6, <1>7, <2>1, <2>3, <3>1 DEF NotYetBegun
  <2> QED BY <2>2, <2>3
<1> QED BY <1>8, <1>11, <1>12, <1>13, <1>14, <1>15

(* The cycle of game_loop.                                                 *)
LEMMA LoopKeepsIInv == ASSUME IInv, Loop PROVE IInv'
<1> USE SetAssumption, NullAssumption
<1>1. CASE EndInput \/ EndEvents
  <2>1. /\ unit' = unit /\ link' = link /\ thing' = thing /\ owner' = owner /\ duration' = duration
        /\ due' = due /\ later' = later /\ running' = running /\ starting' = starting
        /\ entering' = entering /\ ops' = ops /\ early' = early /\ stray' = stray
    BY <1>1 DEF EndInput, EndEvents, queue, calls, history
  <2>2. Quiet'
    BY <1>1, <2>1 DEF EndInput, EndEvents, Quiet, Returned, IInv
  <2>3. TypeOK'
    BY <1>1, <2>1 DEF EndInput, EndEvents, IInv, TypeOK
  <2> QED BY <2>1, <2>2, <2>3
          DEF IInv, NoDanglingEvent, HeartbeatKept, NotYetBegun, Outside, Events, Beats, Linked,
              MenuHasLink, EntererInGame, RunningIsOwned, DueInGame
<1>2. ASSUME NEW t \in Things, thing[t] = "linked" \/ t \in stray, Fired(t),
             \/ running' = t /\ later' = later
             \/ running' = running /\ later' = Enqueue({t}),
             UNCHANGED <<unit, link, thing, owner, phase, calls, ops, history>>,
             duration' \in [Affects -> Durations]
      PROVE  IInv'
  <2>1. /\ phase = "events" /\ running = None /\ due[t] > 0 /\ due' = [due EXCEPT ![t] = @ - 1]
        /\ entering' = None /\ ops' \in Nat
    BY <1>2 DEF Fired, IInv, Quiet, TypeOK, calls
  <2> QED BY <1>2, <2>1, TickKeepsIInv
<1>3. ASSUME NEW a \in Affects, AffectBeat(a) PROVE IInv'
  <2>1. a \in Things /\ thing[a] = "linked" /\ owner[a] \in Units /\ owner' = owner
    BY <1>3 DEF AffectBeat, Things, IInv, Linked
  <2>2. CASE Unlink(a) /\ running' = running
    <3>1. /\ owner' = [owner EXCEPT ![a] = owner[a]] /\ thing' = [thing EXCEPT ![a] = "dead"]
          /\ Dequeue({a}) /\ ops' \in Nat /\ duration' \in [Affects -> Durations]
          /\ UNCHANGED <<unit, link, phase, running, calls>>
      BY <1>3, <2>1, <2>2 DEF AffectBeat, Unlink, IInv, TypeOK
    <3> QED BY <2>1, <3>1, RegisteringKeepsIInv
  <2>3. CASE ~(Unlink(a) /\ running' = running)
    <3>1. /\ Fired(a)
          /\ \/ running' = a /\ later' = later
             \/ running' = running /\ later' = Enqueue({a})
          /\ UNCHANGED <<unit, link, thing, owner, phase, calls, ops, history>>
          /\ duration' = duration
      BY <1>3, <2>3 DEF AffectBeat
    <3> QED BY <1>2, <2>1, <3>1 DEF IInv, TypeOK
  <2> QED BY <2>2, <2>3
<1>4. ASSUME NEW a \in Affects, StrayBeat(a) PROVE IInv'
  <2>1. a \in Things /\ a \in stray
    BY <1>4 DEF StrayBeat, Fired, Things, IInv, NoDanglingEvent, Events, TypeOK
  <2>2. duration' \in [Affects -> Durations]
    BY <1>4 DEF StrayBeat, IInv, TypeOK
  <2> QED BY <1>2, <1>4, <2>1, <2>2 DEF StrayBeat
<1>5. ASSUME NEW f \in Funcs, SpecialEvent(f) PROVE IInv'
  <2>1. f \in Things /\ (thing[f] = "linked" \/ f \in stray)
    BY <1>5 DEF SpecialEvent, Fired, Things, IInv, NoDanglingEvent, Events, TypeOK
  <2>2. duration' \in [Affects -> Durations]
    BY <1>5 DEF SpecialEvent, IInv, TypeOK
  <2> QED BY <1>2, <1>5, <2>1, <2>2 DEF SpecialEvent
<1>6. CASE AffectBeatEnds \/ SpecialEventEnds
  <2>1. /\ running \in Things /\ running' = None /\ entering' = None /\ entering = None
        /\ phase = "events" /\ ops' \in Nat /\ due' = due
        /\ UNCHANGED <<unit, link, thing, owner, phase, calls, history>>
    BY <1>6 DEF AffectBeatEnds, SpecialEventEnds, Returned, Things, IInv, Quiet, TypeOK, calls
  <2>2. CASE thing[running] = "dead"
    <3>1. UNCHANGED <<unit, link, thing, owner, duration, queue, phase, calls, ops, history>>
      BY <1>6, <2>2 DEF AffectBeatEnds, SpecialEventEnds, queue
    <3> QED BY <2>1, <2>2, <3>1, LastTickKeepsIInv
  <2>3. CASE thing[running] # "dead"
    <3>1. thing[running] = "linked" \/ running \in stray
      BY <2>1, <2>3 DEF IInv, NoDanglingEvent, TypeOK
    <3>2. later' = Enqueue({running})
      BY <1>6, <2>3 DEF AffectBeatEnds, SpecialEventEnds
    <3>3. duration' \in [Affects -> Durations]
      <4>1. \A d \in Durations : Older(d) \in Durations
        BY BoundAssumption DEF Durations, Older
      <4> QED BY <1>6, <2>3, <4>1 DEF AffectBeatEnds, SpecialEventEnds, IInv, TypeOK
    <3> QED BY <2>1, <3>1, <3>2, <3>3, TickKeepsIInv
  <2> QED BY <2>2, <2>3
<1> QED BY <1>1, <1>3, <1>4, <1>5, <1>6, ClearKeepsIInv, EnterGameEndsKeepsIInv,
           CreateAffectEndsKeepsIInv, DiesKeepsIInv
        DEF Loop

LEMMA StepKeepsIInv == IInv /\ [Next]_vars => IInv'
<1> SUFFICES ASSUME IInv, [Next]_vars PROVE IInv'
  OBVIOUS
<1>1. CASE UNCHANGED vars
  <2>1. /\ unit' = unit /\ link' = link /\ thing' = thing /\ owner' = owner /\ duration' = duration
        /\ due' = due /\ later' = later /\ running' = running /\ starting' = starting
        /\ entering' = entering /\ ops' = ops /\ early' = early /\ stray' = stray
        /\ phase' = phase
    BY <1>1 DEF vars, queue, calls, history
  <2> QED BY <2>1 DEF IInv, TypeOK, NoDanglingEvent, HeartbeatKept, NotYetBegun, Outside, Events,
                      Beats, Linked, MenuHasLink, EntererInGame, Quiet, RunningIsOwned, DueInGame
<1>2. CASE Loop
  BY <1>2, LoopKeepsIInv
<1>3. CASE UnitStep
  BY <1>3, UnitStepKeepsIInv
<1>4. CASE ThingStep
  BY <1>4, ThingStepKeepsIInv
<1> QED BY <1>1, <1>2, <1>3, <1>4 DEF Next

(* IInv holds in every cycle of game_loop.                                 *)
THEOREM Inductive == Spec => []IInv
<1>1. IInv /\ [Next]_vars => IInv'
  BY StepKeepsIInv
<1> QED BY <1>1, InitHolds, PTL DEF Spec

-----------------------------------------------------------------------------
(* The state of units, affects and functions keeps its shape.              *)
THEOREM TypeCorrect == Spec => []TypeOK
<1>1. IInv => TypeOK
  BY DEF IInv
<1> QED BY <1>1, Inductive, PTL

(* No event in the queue points to an affect or a function that was        *)
(* destroyed or freed, or to one of a freed unit, and no tick function     *)
(* runs for one that was freed: destruct.c registers, and waits.  The      *)
(* affects whose first function destroyed them (affect.c:113) are the only *)
(* exception, until what is destroyed in their memory next is dequeued.    *)
THEOREM NoEventDangles == Spec => []NoDanglingEvent
<1>1. IInv => NoDanglingEvent
  BY DEF IInv
<1> QED BY <1>1, Inductive, PTL

(* Affects and functions in the game never lose their event, and those of  *)
(* a player in the menu have none, and functions never two, unless they    *)
(* were begun before enter_game began them (nanny.c:400, :584).            *)
THEOREM HeartbeatHolds == Spec => []HeartbeatKept
<1>1. IInv => HeartbeatKept
  BY DEF IInv
<1> QED BY <1>1, Inductive, PTL

(* extract_unit takes out even what is due in this very cycle: no tick is  *)
(* delivered to a unit that was extracted before, in that cycle or later,  *)
(* and in the menu only to what was begun there.                           *)
THEOREM NoTickAfterExtraction == Spec => TickOnlyInGame
<1>1. IInv /\ [Next]_vars =>
        [ \A t \in Things \ stray : due'[t] < due[t] /\ running' = t =>
            \/ unit[owner[t]] = "game"
            \/ unit[owner[t]] = "menu" /\ t \in early ]_vars
  <2> SUFFICES ASSUME IInv, [Next]_vars, NEW t \in Things \ stray, due'[t] < due[t]
               PROVE  \/ unit[owner[t]] = "game"
                      \/ unit[owner[t]] = "menu" /\ t \in early
    OBVIOUS
  <2>1. due[t] \in Nat /\ due'[t] \in Nat
    BY StepKeepsIInv DEF IInv, TypeOK
  <2> QED BY <2>1 DEF IInv, DueInGame
<1> QED BY <1>1, Inductive, PTL DEF Spec, TickOnlyInGame

-----------------------------------------------------------------------------
(* Things, in memory and on the disk.                                      *)

(* A thing of which nothing with UNIT_FL_NOSAVE has a persist_type, and one *)
(* as it is on the disk.                                                   *)
Good   == { t \in Thing : /\ IsFiniteSet(t.holds)
                          /\ \A u \in UnitsOf({t}) : u.pt # Nil => u.what \notin NoSave }
OnFile == { t \in Stored : IsFiniteSet(t.holds) }

(* What a thing consists of.                                               *)
LEMMA PartsOf == ASSUME NEW t PROVE UnitsOf({t}) = {t} \cup t.holds
BY DEF UnitsOf

LEMMA ThingIs ==
  ASSUME NEW t \in Thing
  PROVE  /\ t = [what |-> t.what, holds |-> t.holds, pt |-> t.pt]
         /\ t.what \in Items \cup Corpses /\ t.holds \subseteq Item /\ t.pt \in Pt \cup {Nil}
         /\ t \in Item <=> t.what \in Items
         /\ t.what \in Items => t.holds = {}
         /\ t \notin t.holds
         /\ \A i \in t.holds : t.what \in Corpses /\ i \in Thing /\ i.holds = {} /\ i.what \in Items /\ i.pt \in Pt \cup {Nil}
<1> USE KindAssumption DEF Thing, Item, Corpse
<1>1. t = [what |-> t.what, holds |-> t.holds, pt |-> t.pt]
  OBVIOUS
<1>2. t.what \in Items \cup Corpses /\ t.holds \subseteq Item /\ t.pt \in Pt \cup {Nil}
  OBVIOUS
<1>3. t \in Item <=> t.what \in Items
  OBVIOUS
<1>4. t.what \in Items => t.holds = {}
  OBVIOUS
<1>5. \A i \in t.holds : t.what \in Corpses /\ i \in Thing /\ i.holds = {} /\ i.what \in Items /\ i.pt \in Pt \cup {Nil}
  BY <1>2, <1>4
<1>6. t \notin t.holds
  BY <1>5
<1> QED BY <1>1, <1>2, <1>3, <1>4, <1>5, <1>6

LEMMA GoodIs ==
  ASSUME NEW t \in Thing, IsFiniteSet(t.holds),
         t.pt # Nil => t.what \notin NoSave,
         \A i \in t.holds : i.pt # Nil => i.what \notin NoSave
  PROVE  t \in Good
BY PartsOf DEF Good

LEMMA GoodHas ==
  ASSUME NEW t \in Good
  PROVE  /\ t \in Thing /\ IsFiniteSet(t.holds)
         /\ t.pt # Nil => t.what \notin NoSave
         /\ \A i \in t.holds : i \in Good /\ i \in Item /\ i.holds = {}
                /\ (i.pt # Nil => i.what \notin NoSave)
<1>1. t \in Thing /\ IsFiniteSet(t.holds) /\ \A u \in {t} \cup t.holds : u.pt # Nil => u.what \notin NoSave
  BY PartsOf DEF Good
<1>2. ASSUME NEW i \in t.holds PROVE i \in Good /\ i \in Item /\ i.holds = {}
  <2>1. i \in Thing /\ i.holds = {} /\ i \in Item
    BY <1>1, ThingIs
  <2>2. IsFiniteSet(i.holds)
    BY <2>1, FS_EmptySet
  <2> QED BY <1>1, <2>1, <2>2, GoodIs
<1> QED BY <1>1, <1>2

(* The record of a thing with one field replaced.                          *)
LEMMA Without ==
  ASSUME NEW t \in Thing
  PROVE  /\ Plain(t) \in Thing /\ Plain(t).what = t.what /\ Plain(t).holds = t.holds /\ Plain(t).pt = Nil
         /\ t \in Item => Plain(t) \in Item
         /\ t.pt = Nil => Plain(t) = t
BY ThingIs DEF Plain, Thing, Item, Corpse

LEMMA Renewed ==
  ASSUME NEW t \in Thing, NEW pt \in Pt \cup {Nil}
  PROVE  /\ [t EXCEPT !.pt = pt] \in Thing
         /\ [t EXCEPT !.pt = pt].what = t.what
         /\ [t EXCEPT !.pt = pt].holds = t.holds
         /\ [t EXCEPT !.pt = pt].pt = pt
         /\ t \in Item => [t EXCEPT !.pt = pt] \in Item
BY ThingIs DEF Thing, Item, Corpse

LEMMA Refilled ==
  ASSUME NEW c \in Thing, c.what \in Corpses, NEW S \in SUBSET Item
  PROVE  /\ [c EXCEPT !.holds = S] \in Thing
         /\ [c EXCEPT !.holds = S].what = c.what
         /\ [c EXCEPT !.holds = S].holds = S
         /\ [c EXCEPT !.holds = S].pt = c.pt
BY ThingIs DEF Thing, Item, Corpse

(* What the operators of a save make of a thing.                           *)
LEMMA InsideIs ==
  ASSUME NEW t \in Good
  PROVE  /\ Inside(t) \in Good
         /\ Inside(t).what = t.what /\ Inside(t).pt = t.pt
         /\ Inside(t).holds = { Plain(i) : i \in t.holds }
         /\ \A i \in Inside(t).holds : i.pt = Nil
<1> DEFINE S == { Plain(i) : i \in t.holds }
<1>1. t \in Thing /\ IsFiniteSet(t.holds) /\ \A i \in t.holds : i \in Item /\ i \in Thing
  BY GoodHas, ThingIs DEF Good
<1>2. S \in SUBSET Item /\ \A i \in S : i.pt = Nil
  BY <1>1, Without
<1>3. IsFiniteSet(S)
  <2> DEFINE g == [i \in t.holds |-> Plain(i)]
  <2>1. g \in Surjection(t.holds, S)
    BY DEF Surjection
  <2> HIDE DEF g
  <2> QED BY <1>1, <2>1, FS_Surjection
<1>4. Inside(t) = [t EXCEPT !.holds = S]
  BY <1>1, ThingIs DEF Inside
<1>5. t.what \in Items => S = {}
  BY <1>1, ThingIs
<1>6. Inside(t) \in Thing /\ Inside(t).what = t.what /\ Inside(t).pt = t.pt /\ Inside(t).holds = S
  BY <1>1, <1>2, <1>4, <1>5, ThingIs DEF Thing, Item, Corpse
<1>7. t.pt # Nil => t.what \notin NoSave
  BY GoodHas
<1>8. Inside(t) \in Good
  BY <1>2, <1>3, <1>6, <1>7, GoodIs
<1> QED BY <1>2, <1>6, <1>8

LEMMA SavedIs ==
  ASSUME NEW t \in Good, t.what \notin NoSave
  PROVE  /\ Saved(t) \in OnFile
         /\ Saved(t).what = t.what
<1> DEFINE S == { Plain(i) : i \in { j \in t.holds : j.what \notin NoSave } }
<1>1. t \in Thing /\ IsFiniteSet(t.holds) /\ \A i \in t.holds : i \in Item /\ i \in Thing
  BY GoodHas, ThingIs DEF Good
<1>2. S \in SUBSET StoredItem
  BY <1>1, Without, ThingIs DEF StoredItem, Item
<1>3. IsFiniteSet(S)
  <2> DEFINE R == { j \in t.holds : j.what \notin NoSave }
             g == [i \in R |-> Plain(i)]
  <2>1. IsFiniteSet(R)
    BY <1>1, FS_Subset
  <2>2. g \in Surjection(R, S)
    BY DEF Surjection
  <2> HIDE DEF g
  <2> QED BY <2>1, <2>2, FS_Surjection
<1>4. Saved(t) = [what |-> t.what, holds |-> S, pt |-> Nil]
  <2>1. t = [what |-> t.what, holds |-> t.holds, pt |-> t.pt]
    BY <1>1, ThingIs
  <2>2. Saved(t) = [t EXCEPT !.pt = Nil, !.holds = S]
    BY DEF Saved
  <2> HIDE DEF S
  <2> QED BY <2>1, <2>2
<1>5. t.what \in Items => S = {}
  BY <1>1, ThingIs
<1>6. Saved(t) \in Stored
  <2>1. t.what \in Items \cup Corpses
    BY <1>1, ThingIs
  <2> QED BY <1>2, <1>4, <1>5, <2>1 DEF Stored, StoredItem
<1> HIDE DEF S
<1> QED BY <1>3, <1>4, <1>6 DEF OnFile

LEMMA OnFileIs ==
  ASSUME NEW t \in OnFile
  PROVE  /\ t \in Good /\ t.pt = Nil /\ t.what \notin NoSave /\ t \in Stored
         /\ \A i \in t.holds : i.pt = Nil /\ i.what \notin NoSave /\ i \in Item
<1>1. t \in Stored /\ IsFiniteSet(t.holds)
  BY DEF OnFile
<1>2. t.pt = Nil /\ t.what \notin NoSave /\ t \in Thing
  BY <1>1, KindAssumption DEF Stored, StoredItem, Thing, Item, Corpse
<1>3. \A i \in t.holds : i.pt = Nil /\ i.what \notin NoSave /\ i \in Item
  BY <1>1 DEF Stored, StoredItem, Item
<1> QED BY <1>1, <1>2, <1>3, GoodIs

LEMMA WrittenIs ==
  ASSUME NEW S \in SUBSET Good, IsFiniteSet(S)
  PROVE  /\ Written(S) \subseteq OnFile /\ IsFiniteSet(Written(S))
         /\ Written(S) # {} => S # {}
<1> DEFINE R == { u \in S : u.what \notin NoSave }
           g == [t \in R |-> Saved(t)]
<1>1. IsFiniteSet(R)
  BY FS_Subset
<1>2. IsFiniteSet(Written(S))
  <2>1. g \in Surjection(R, Written(S))
    BY DEF Written, Surjection
  <2> HIDE DEF g
  <2> QED BY <1>1, <2>1, FS_Surjection
<1> QED BY <1>2, SavedIs DEF Written

LEMMA ErasedIs ==
  ASSUME NEW S \in SUBSET Good
  PROVE  /\ Erased(S) \subseteq Good
         /\ IsFiniteSet(S) => IsFiniteSet(Erased(S))
         /\ S # {} => Erased(S) # {}
         /\ \A t \in Erased(S) : \A u \in UnitsOf({t}) : u.pt = Nil
<1>1. ASSUME NEW t \in S
      PROVE  LET e == Plain(Inside(t)) IN e \in Good /\ \A u \in UnitsOf({e}) : u.pt = Nil
  <2> DEFINE e == Plain(Inside(t))
  <2>1. Inside(t) \in Good /\ Inside(t) \in Thing /\ \A i \in Inside(t).holds : i.pt = Nil
    BY InsideIs DEF Good
  <2>2. e \in Thing /\ e.holds = Inside(t).holds /\ e.pt = Nil
    BY <2>1, Without
  <2>3. e \in Good
    <3>1. IsFiniteSet(e.holds)
      BY <2>1, <2>2 DEF Good
    <3> QED BY <2>1, <2>2, <3>1, GoodIs
  <2> QED BY <2>1, <2>2, <2>3, PartsOf
<1>2. ASSUME IsFiniteSet(S) PROVE IsFiniteSet(Erased(S))
  <2> DEFINE g == [t \in S |-> Plain(Inside(t))]
  <2>1. g \in Surjection(S, Erased(S))
    BY DEF Erased, Surjection
  <2> HIDE DEF g
  <2> QED BY <1>2, <2>1, FS_Surjection
<1> QED BY <1>1, <1>2 DEF Erased

LEMMA PtForIs ==
  ASSUME NEW f \in Files, NEW t \in Good, NEW in \in {"room", "corpse", "pc"}
  PROVE  PtFor(f, t, in) \in Pt /\ PtFor(f, t, in).file = f /\ PtFor(f, t, in) # Nil
<1>1. Cardinality(t.holds) \in Nat
  BY GoodHas, FS_CardinalityType
<1> QED BY <1>1, NilAssumption DEF PtFor, Weight, Pt

-----------------------------------------------------------------------------
(* Unit u of the thing t of S keeps file f.                                *)
Keeps(u, f) == u.pt # Nil /\ u.pt.file = f
Bears(t, u, f) == (u = t \/ u \in t.holds) /\ Keeps(u, f)
In(S, t, u, f) == t \in S /\ Bears(t, u, f)
Lone(S) == \A f, t1, u1, t2, u2 : In(S, t1, u1, f) /\ In(S, t2, u2, f) => t1 = t2 /\ u1 = u2

(* No file is kept twice in S (Lone), and which ones are kept at all.      *)
LEMMA FilesAre == ASSUME NEW S PROVE \A f : f \in FilesOf(S) <=> \E t, u : In(S, t, u, f)
<1>1. ASSUME NEW f \in FilesOf(S) PROVE \E t, u : In(S, t, u, f)
  <2>1. PICK u \in UnitsOf(S) : u.pt # Nil /\ u.pt.file = f
    BY DEF FilesOf
  <2>2. PICK t \in S : u = t \/ u \in t.holds
    BY <2>1 DEF UnitsOf
  <2> QED BY <2>1, <2>2 DEF In, Bears, Keeps
<1>2. ASSUME NEW f, NEW t, NEW u, In(S, t, u, f) PROVE f \in FilesOf(S)
  <2>1. u \in UnitsOf(S)
    BY <1>2 DEF In, Bears, Keeps, UnitsOf
  <2> QED BY <1>2, <2>1 DEF FilesOf, In, Bears, Keeps
<1> QED BY <1>1, <1>2

LEMMA FilesTyped ==
  ASSUME NEW S \in SUBSET Good PROVE FilesOf(S) \subseteq Files
<1> SUFFICES ASSUME NEW f, NEW t, NEW u, In(S, t, u, f) PROVE f \in Files
  BY FilesAre
<1>1. t \in Good /\ t \in Thing
  BY DEF In, Good
<1>2. u.pt \in Pt
  BY <1>1, ThingIs DEF In, Bears, Keeps
<1> QED BY <1>2 DEF In, Bears, Keeps, Pt

(* Things without a persist_type keep no file.                             *)
LEMMA NoFiles ==
  ASSUME NEW S, \A t \in S : \A u \in UnitsOf({t}) : u.pt = Nil
  PROVE  FilesOf(S) = {} /\ Lone(S)
<1>1. \A t, u, f : ~In(S, t, u, f)
  BY PartsOf DEF In, Bears, Keeps
<1> QED BY <1>1, FilesAre DEF Lone

LEMMA NothingKeeps == FilesOf({}) = {} /\ Lone({})
BY NoFiles

LEMMA OneThing ==
  ASSUME NEW t
  PROVE  /\ \A f : f \in FilesOf({t}) <=> \E u : Bears(t, u, f)
         /\ Lone({t}) <=> \A f, u, v : Bears(t, u, f) /\ Bears(t, v, f) => u = v
<1>1. \A f, r, u : In({t}, r, u, f) <=> r = t /\ Bears(t, u, f)
  BY DEF In
<1>2. \A f : f \in FilesOf({t}) <=> \E r, u : In({t}, r, u, f)
  BY FilesAre
<1>3. \A f : f \in FilesOf({t}) <=> \E u : Bears(t, u, f)
  BY <1>1, <1>2
<1>4. Lone({t}) <=> \A f, u, v : Bears(t, u, f) /\ Bears(t, v, f) => u = v
  BY <1>1 DEF Lone
<1> QED BY <1>3, <1>4

(* Things put together, and one taken out.                                 *)
LEMMA FilesOfUnion ==
  ASSUME NEW S, NEW T
  PROVE  FilesOf(S \cup T) = FilesOf(S) \cup FilesOf(T)
<1>1. \A t, u, f : In(S \cup T, t, u, f) <=> In(S, t, u, f) \/ In(T, t, u, f)
  BY DEF In
<1>2. \A f : f \in FilesOf(S \cup T) <=> \E t, u : In(S \cup T, t, u, f)
  BY FilesAre
<1>3. \A f : f \in FilesOf(S) <=> \E t, u : In(S, t, u, f)
  BY FilesAre
<1>4. \A f : f \in FilesOf(T) <=> \E t, u : In(T, t, u, f)
  BY FilesAre
<1>5. \A f : f \in FilesOf(S \cup T) <=> f \in FilesOf(S) \/ f \in FilesOf(T)
  BY <1>1, <1>2, <1>3, <1>4
<1> QED BY <1>5

LEMMA PutIn ==
  ASSUME NEW S, NEW T, Lone(S), Lone(T), FilesOf(S) \cap FilesOf(T) = {}
  PROVE  Lone(S \cup T)
<1>1. \A t, u, f : In(S \cup T, t, u, f) <=> In(S, t, u, f) \/ In(T, t, u, f)
  BY DEF In
<1>2. \A t, u, f : In(S, t, u, f) => f \in FilesOf(S)
  BY FilesAre
<1>3. \A t, u, f : In(T, t, u, f) => f \in FilesOf(T)
  BY FilesAre
<1>4. \A f, t, u, r, v : ~(In(S, t, u, f) /\ In(T, r, v, f))
  BY <1>2, <1>3
<1> QED BY <1>1, <1>4 DEF Lone

LEMMA TakenOut ==
  ASSUME NEW S, NEW t \in S, Lone(S)
  PROVE  /\ Lone(S \ {t}) /\ Lone({t})
         /\ FilesOf(S \ {t}) = FilesOf(S) \ FilesOf({t})
         /\ FilesOf({t}) \subseteq FilesOf(S)
<1>1. \A r, u, f : In(S \ {t}, r, u, f) <=> In(S, r, u, f) /\ r # t
  BY DEF In
<1>2. \A r, u, f : In({t}, r, u, f) <=> In(S, r, u, f) /\ r = t
  BY DEF In
<1>3. Lone(S \ {t}) /\ Lone({t})
  BY <1>1, <1>2 DEF Lone
<1>4. \A f : f \in FilesOf(S) <=> \E r, u : In(S, r, u, f)
  BY FilesAre
<1>5. \A f : f \in FilesOf({t}) <=> \E r, u : In({t}, r, u, f)
  BY FilesAre
<1>6. \A f : f \in FilesOf(S \ {t}) <=> \E r, u : In(S \ {t}, r, u, f)
  BY FilesAre
<1>7. \A f : f \in FilesOf(S \ {t}) <=> f \in FilesOf(S) /\ f \notin FilesOf({t})
  BY <1>1, <1>2, <1>4, <1>5, <1>6 DEF Lone
<1>8. \A f : f \in FilesOf({t}) => f \in FilesOf(S)
  BY <1>2, <1>4, <1>5
<1> QED BY <1>3, <1>7, <1>8

(* The same of a thing and what is in it.                                  *)
LEMMA TopAndInner ==
  ASSUME NEW t \in Thing
  PROVE  /\ \A f : f \in FilesOf({t}) <=> Keeps(t, f) \/ \E i \in t.holds : Keeps(i, f)
         /\ Lone({t}) <=> \A f : /\ \A i, j \in t.holds : Keeps(i, f) /\ Keeps(j, f) => i = j
                                 /\ \A i \in t.holds : ~(Keeps(t, f) /\ Keeps(i, f))
<1>1. t \notin t.holds
  BY ThingIs
<1>2. \A f, u : Bears(t, u, f) <=> Keeps(u, f) /\ (u = t \/ u \in t.holds)
  BY DEF Bears
<1>3. \A f : f \in FilesOf({t}) <=> \E u : Bears(t, u, f)
  BY OneThing
<1>4. \A f : f \in FilesOf({t}) <=> Keeps(t, f) \/ \E i \in t.holds : Keeps(i, f)
  BY <1>2, <1>3
<1>5. Lone({t}) <=> \A f, u, v : Bears(t, u, f) /\ Bears(t, v, f) => u = v
  BY OneThing
<1>6. Lone({t}) <=> \A f : /\ \A i, j \in t.holds : Keeps(i, f) /\ Keeps(j, f) => i = j
                           /\ \A i \in t.holds : ~(Keeps(t, f) /\ Keeps(i, f))
  BY <1>1, <1>2, <1>5
<1> QED BY <1>4, <1>6

LEMMA ItemKeeps ==
  ASSUME NEW i \in Item
  PROVE  (\A f : f \in FilesOf({i}) <=> Keeps(i, f)) /\ Lone({i})
<1>1. i \in Thing /\ i.holds = {}
  BY DEF Item, Thing
<1> QED BY <1>1, TopAndInner

(* A thing out of a corpse, and into it.                                   *)
Lacks(d, c, i) ==
  d \in Thing /\ c \in Thing /\ i \in c.holds /\ d.holds = c.holds \ {i} /\ d.pt = c.pt
LEMMA LessInside ==
  ASSUME NEW c, NEW d, NEW i, Lacks(d, c, i), Lone({c})
  PROVE  /\ Lone({d}) /\ FilesOf({d}) = FilesOf({c}) \ FilesOf({i})
         /\ Lone({i}) /\ FilesOf({i}) \subseteq FilesOf({c})
<1> USE DEF Lacks
<1>1. i \in Item /\ c.holds \subseteq Item /\ c.what \in Corpses
  BY ThingIs
<1>2. \A f : Keeps(d, f) <=> Keeps(c, f)
  BY DEF Keeps
<1>3. \A f : /\ \A k, j \in c.holds : Keeps(k, f) /\ Keeps(j, f) => k = j
             /\ \A k \in c.holds : ~(Keeps(c, f) /\ Keeps(k, f))
  BY TopAndInner
<1>4. Lone({d})
  <2>1. \A f : /\ \A k, j \in d.holds : Keeps(k, f) /\ Keeps(j, f) => k = j
               /\ \A k \in d.holds : ~(Keeps(d, f) /\ Keeps(k, f))
    BY <1>2, <1>3
  <2> QED BY <2>1, TopAndInner
<1>5. \A f : f \in FilesOf({d}) <=> Keeps(c, f) \/ \E k \in d.holds : Keeps(k, f)
  BY <1>2, TopAndInner
<1>6. \A f : f \in FilesOf({c}) <=> Keeps(c, f) \/ \E k \in c.holds : Keeps(k, f)
  BY TopAndInner
<1>7. \A f : f \in FilesOf({i}) <=> Keeps(i, f)
  BY <1>1, ItemKeeps
<1>8. \A f : f \in FilesOf({d}) <=> f \in FilesOf({c}) /\ f \notin FilesOf({i})
  BY <1>3, <1>5, <1>6, <1>7
<1>9. \A f : f \in FilesOf({i}) => f \in FilesOf({c})
  BY <1>6, <1>7
<1> QED BY <1>1, <1>4, <1>8, <1>9, ItemKeeps

LEMMA MoreInside ==
  ASSUME NEW c \in Thing, c.what \in Corpses, NEW i \in Item, Lone({c}),
         FilesOf({c}) \cap FilesOf({i}) = {},
         NEW d \in Thing, d.holds = c.holds \cup {i}, d.pt = c.pt
  PROVE  Lone({d}) /\ FilesOf({d}) = FilesOf({c}) \cup FilesOf({i})
<1>1. \A f : Keeps(d, f) <=> Keeps(c, f)
  BY DEF Keeps
<1>2. \A f : /\ \A k, j \in c.holds : Keeps(k, f) /\ Keeps(j, f) => k = j
             /\ \A k \in c.holds : ~(Keeps(c, f) /\ Keeps(k, f))
  BY TopAndInner
<1>3. \A f : f \in FilesOf({d}) <=> Keeps(c, f) \/ \E k \in d.holds : Keeps(k, f)
  BY <1>1, TopAndInner
<1>4. \A f : f \in FilesOf({c}) <=> Keeps(c, f) \/ \E k \in c.holds : Keeps(k, f)
  BY TopAndInner
<1>5. \A f : f \in FilesOf({i}) <=> Keeps(i, f)
  BY ItemKeeps
<1>6. \A f : Keeps(i, f) => ~Keeps(c, f) /\ \A k \in c.holds : ~Keeps(k, f)
  BY <1>4, <1>5
<1>7. Lone({d})
  <2>1. \A f : /\ \A k, j \in d.holds : Keeps(k, f) /\ Keeps(j, f) => k = j
               /\ \A k \in d.holds : ~(Keeps(d, f) /\ Keeps(k, f))
    BY <1>1, <1>2, <1>6
  <2> QED BY <2>1, TopAndInner
<1>8. \A f : f \in FilesOf({d}) <=> f \in FilesOf({c}) \/ f \in FilesOf({i})
  BY <1>3, <1>4, <1>5
<1> QED BY <1>7, <1>8

(* What a save to a file of its own leaves in memory.                      *)
LEMMA TopRenewed ==
  ASSUME NEW t \in Good, NEW f \in Files, NEW in \in {"room", "corpse", "pc"}, NEW d,
         d = [Inside(t) EXCEPT !.pt = PtFor(f, t, in)], t.what \notin NoSave
  PROVE  d \in Good /\ Lone({d}) /\ FilesOf({d}) = {f}
<1>1. Inside(t) \in Good /\ Inside(t) \in Thing /\ Inside(t).what = t.what /\ \A i \in Inside(t).holds : i.pt = Nil
  BY InsideIs DEF Good
<1>2. PtFor(f, t, in) \in Pt /\ PtFor(f, t, in).file = f /\ PtFor(f, t, in) # Nil
  BY PtForIs
<1>3. d \in Thing /\ d.holds = Inside(t).holds /\ d.what = t.what /\ d.pt = PtFor(f, t, in)
  BY <1>1, <1>2, Renewed
<1>4. d \in Good
  <2>1. IsFiniteSet(d.holds)
    BY <1>1, <1>3 DEF Good
  <2> QED BY <1>1, <1>3, <2>1, GoodIs
<1>5. \A i \in d.holds : \A e : ~Keeps(i, e)
  BY <1>1, <1>3 DEF Keeps
<1>6. \A e : Keeps(d, e) <=> e = f
  BY <1>2, <1>3 DEF Keeps
<1>7. Lone({d})
  BY <1>3, <1>5, TopAndInner
<1>8. \A e : e \in FilesOf({d}) <=> Keeps(d, e) \/ \E i \in d.holds : Keeps(i, e)
  BY <1>3, TopAndInner
<1>9. \A e : e \in FilesOf({d}) <=> e = f
  BY <1>5, <1>6, <1>8
<1> QED BY <1>4, <1>7, <1>9

(* ... and of one that lies in a corpse.                                   *)
Ticked(i)     == [i EXCEPT !.pt = PtFor(i.pt.file, i, "corpse")]
Rehung(c, i)  == [c EXCEPT !.holds = (c.holds \ {i}) \cup {Ticked(i)}]
LEMMA InnerRenewed ==
  ASSUME NEW c \in Good, NEW i \in c.holds, i.pt # Nil, Lone({c})
  PROVE  LET d == Rehung(c, i) IN
         d \in Good /\ Lone({d}) /\ FilesOf({d}) = FilesOf({c})
<1> DEFINE j == Ticked(i)
           d == Rehung(c, i)
<1>1. /\ i \in Good /\ i \in Item /\ i \in Thing /\ i.what \notin NoSave /\ i.pt \in Pt
      /\ c \in Thing /\ c.what \in Corpses /\ c.holds \subseteq Item /\ IsFiniteSet(c.holds)
      /\ \A k \in c.holds : k.pt # Nil => k.what \notin NoSave
      /\ c.pt # Nil => c.what \notin NoSave
  BY GoodHas, ThingIs
<1>2. i.pt.file \in Files
  BY <1>1 DEF Pt
<1>3. /\ PtFor(i.pt.file, i, "corpse") \in Pt /\ PtFor(i.pt.file, i, "corpse").file = i.pt.file
      /\ PtFor(i.pt.file, i, "corpse") # Nil
  BY <1>1, <1>2, PtForIs
<1>4. j \in Item /\ j.what = i.what /\ j.pt # Nil /\ j.pt.file = i.pt.file
  BY <1>1, <1>3, Renewed DEF Ticked
<1>5. d \in Thing /\ d.what = c.what /\ d.holds = (c.holds \ {i}) \cup {j} /\ d.pt = c.pt
  <2>1. (c.holds \ {i}) \cup {j} \in SUBSET Item
    BY <1>1, <1>4
  <2> QED BY <1>1, <2>1, Refilled DEF Rehung
<1> HIDE DEF j, d
<1>6. d \in Good
  <2>1. IsFiniteSet(d.holds)
    <3>1. IsFiniteSet(c.holds \ {i})
      BY <1>1, FS_RemoveElement
    <3> QED BY <1>5, <3>1, FS_AddElement
  <2>2. \A k \in d.holds : k.pt # Nil => k.what \notin NoSave
    BY <1>1, <1>4, <1>5
  <2> QED BY <1>1, <1>5, <2>1, <2>2, GoodIs
<1>7. \A f : Keeps(d, f) <=> Keeps(c, f)
  BY <1>5 DEF Keeps
<1>8. \A f : Keeps(j, f) <=> Keeps(i, f)
  BY <1>1, <1>4 DEF Keeps
<1>9. \A f : /\ \A k, m \in c.holds : Keeps(k, f) /\ Keeps(m, f) => k = m
             /\ \A k \in c.holds : ~(Keeps(c, f) /\ Keeps(k, f))
  BY <1>1, TopAndInner
<1>10. Lone({d})
  <2>1. \A f : /\ \A k, m \in d.holds : Keeps(k, f) /\ Keeps(m, f) => k = m
               /\ \A k \in d.holds : ~(Keeps(d, f) /\ Keeps(k, f))
    BY <1>5, <1>7, <1>8, <1>9
  <2> QED BY <1>5, <2>1, TopAndInner
<1>11. \A f : f \in FilesOf({d}) <=> Keeps(d, f) \/ \E k \in d.holds : Keeps(k, f)
  BY <1>5, TopAndInner
<1>12. \A f : f \in FilesOf({c}) <=> Keeps(c, f) \/ \E k \in c.holds : Keeps(k, f)
  BY <1>1, TopAndInner
<1>13. \A f : f \in FilesOf({d}) <=> f \in FilesOf({c})
  <2>1. ASSUME NEW f, \E k \in d.holds : Keeps(k, f) PROVE \E k \in c.holds : Keeps(k, f)
    BY <1>5, <1>8, <2>1
  <2>2. ASSUME NEW f, \E k \in c.holds : Keeps(k, f) PROVE \E k \in d.holds : Keeps(k, f)
    BY <1>5, <1>8, <2>2
  <2> QED BY <1>7, <1>11, <1>12, <2>1, <2>2
<1> QED BY <1>6, <1>10, <1>13 DEF d

(* What a boot makes of a file.                                            *)
LEMMA RevivedKeeps ==
  ASSUME NEW t \in OnFile, NEW f \in Files, NEW late \in LastRead(t), NEW d, d = Revived(t, f, late)
  PROVE  d \in Good /\ Lone({d}) /\ FilesOf({d}) = {f}
<1>1. /\ t \in Good /\ t \in Thing /\ t.pt = Nil /\ t.what \notin NoSave /\ IsFiniteSet(t.holds)
      /\ \A i \in t.holds : i.pt = Nil /\ i.what \notin NoSave /\ i \in Item /\ i \in Good
  BY OnFileIs, GoodHas
<1>2. CASE late = t.what
  <2> DEFINE pt == PtFor(f, t, "room")
  <2>1. pt \in Pt /\ pt.file = f /\ pt # Nil
    BY <1>1, PtForIs
  <2>2. d = [t EXCEPT !.pt = pt]
    BY <1>2 DEF Revived
  <2> HIDE DEF pt
  <2>3. d \in Thing /\ d.what = t.what /\ d.holds = t.holds /\ d.pt = pt
    BY <1>1, <2>1, <2>2, Renewed
  <2>4. d \in Good
    BY <1>1, <2>3, GoodIs
  <2>5. \A i \in d.holds : \A e : ~Keeps(i, e)
    BY <1>1, <2>3 DEF Keeps
  <2>6. \A e : Keeps(d, e) <=> e = f
    BY <2>1, <2>3 DEF Keeps
  <2>7. Lone({d})
    BY <2>3, <2>5, TopAndInner
  <2>8. \A e : e \in FilesOf({d}) <=> Keeps(d, e) \/ \E i \in d.holds : Keeps(i, e)
    BY <2>3, TopAndInner
  <2>9. \A e : e \in FilesOf({d}) <=> e = f
    BY <2>5, <2>6, <2>8
  <2> QED BY <2>4, <2>7, <2>9
<1>3. CASE late # t.what
  <2> DEFINE again(i) == [i EXCEPT !.pt = PtFor(f, i, "corpse")]
             S == { IF i.what = late THEN again(i) ELSE i : i \in t.holds }
  <2>1. PICK k \in t.holds : k.what = late
    BY <1>3 DEF LastRead
  <2>2. t.what \in Corpses /\ \A i \in t.holds : i.what = late => i = k
    BY <1>1, <2>1, ThingIs DEF Item
  <2>3. /\ PtFor(f, k, "corpse") \in Pt /\ PtFor(f, k, "corpse").file = f
        /\ PtFor(f, k, "corpse") # Nil
    BY <1>1, PtForIs
  <2>4. /\ again(k) \in Item /\ again(k).what = k.what
        /\ again(k).pt # Nil /\ again(k).pt.file = f
    BY <1>1, <2>3, Renewed, ThingIs
  <2>5. S = (t.holds \ {k}) \cup {again(k)}
    <3> HIDE DEF again
    <3> QED BY <2>1, <2>2
  <2>6. d = [t EXCEPT !.holds = S]
    BY <1>3 DEF Revived
  <2> HIDE DEF S, again
  <2>7. S \in SUBSET Item
    BY <1>1, <2>4, <2>5
  <2>8. d \in Thing /\ d.what = t.what /\ d.holds = S /\ d.pt = Nil
    BY <1>1, <2>2, <2>6, <2>7, Refilled
  <2>9. d \in Good
    <3>1. IsFiniteSet(S)
      BY <1>1, <2>5, FS_RemoveElement, FS_AddElement
    <3>2. \A i \in S : i.what \notin NoSave
      BY <1>1, <2>4, <2>5
    <3> QED BY <1>1, <2>8, <3>1, <3>2, GoodIs
  <2>10. \A e : ~Keeps(d, e)
    BY <2>8 DEF Keeps
  <2>11. \A e : \A i \in S : Keeps(i, e) <=> i = again(k) /\ e = f
    BY <1>1, <2>4, <2>5 DEF Keeps
  <2>12. Lone({d})
    <3>1. \A e : /\ \A i, j \in d.holds : Keeps(i, e) /\ Keeps(j, e) => i = j
                 /\ \A i \in d.holds : ~(Keeps(d, e) /\ Keeps(i, e))
      BY <2>8, <2>10, <2>11
    <3> QED BY <2>8, <3>1, TopAndInner
  <2>13. \A e : e \in FilesOf({d}) <=> Keeps(d, e) \/ \E i \in d.holds : Keeps(i, e)
    BY <2>8, TopAndInner
  <2>14. again(k) \in S
    BY <2>5
  <2>15. \A e : e \in FilesOf({d}) <=> e = f
    BY <2>8, <2>10, <2>11, <2>13, <2>14
  <2> QED BY <2>9, <2>12, <2>15
<1> QED BY <1>2, <1>3

-----------------------------------------------------------------------------
(* The invariant.  Shape is ThingsOK with finite sets and good things.     *)
Shape ==
  /\ known \subseteq Players
  /\ inv \in [Players -> { S \in SUBSET OnFile : IsFiniteSet(S) } \cup {Nil}]
  /\ pers \in [Files -> OnFile \cup {Nil}]
  /\ up \in BOOLEAN
  /\ inside \subseteq Players
  /\ at \in [Holders -> SUBSET Good]
  /\ \A p \in Players : IsFiniteSet(at[p])
  /\ job \in Job \cup {Nil}
  /\ job # Nil => job.put \subseteq OnFile /\ IsFiniteSet(job.put)

(* Who is not in the world has nothing there.                              *)
OnlyInside ==
  /\ \A p \in Players \ inside : at[p] = {}
  /\ ~up => inside = {} /\ job = Nil /\ at[Room] = {}

(* How far a handler is: where it will write, and what it still knows.     *)
JobKnown ==
  job # Nil =>
    /\ job.into = Nil \/ (job.into \notin job.erase /\ \E t \in OnFile : job.put = {t})
    /\ job.stage = "persist" =>
         job.kind \in {"die", "tick", "extract"} /\ (job.into = Nil => job.put = {})
    /\ job.kind = "extract" => job.into = Nil
    /\ job.stage # "persist" => job.kind \in {"save", "quit", "die"} /\ job.into = Nil
    /\ job.kind \in {"save", "quit", "die"} => job.p \in Players
    /\ job.kind = "die" /\ job.stage # "persist" => job.put = {}
    /\ job.kind \in {"save", "quit"} =>
         /\ job.stage # "persist" /\ job.p \in inside /\ FilesOf(at[job.p]) = {}
         /\ job.put # {} => at[job.p] # {}

(* No file is kept by two units.                                           *)
Single ==
  /\ \A h \in Holders : Lone(at[h])
  /\ \A h, k \in Holders : h # k => FilesOf(at[h]) \cap FilesOf(at[k]) = {}

(* A file is kept in memory exactly when, with the writes that the handler *)
(* has still to do, it is or will be on the disk.                          *)
Borne(f) == \E h \in Holders : f \in FilesOf(at[h])
Due(f) ==
  IF job = Nil THEN pers[f] # Nil
               ELSE f \notin job.erase /\ (f = job.into \/ pers[f] # Nil)
Kept == up => \A f \in Files : Borne(f) <=> Due(f)

ThingsInv == Shape /\ OnlyInside /\ JobKnown /\ Single /\ Kept

(* What the runs check follows.                                            *)
LEMMA TypeFollows == ThingsInv => ThingsOK
<1> SUFFICES ASSUME ThingsInv PROVE ThingsOK
  OBVIOUS
<1>1. OnFile \subseteq Stored /\ Good \subseteq Thing
  BY DEF OnFile, Good
<1>2. inv \in [Players -> (SUBSET Stored) \cup {Nil}]
  <2> DEFINE Few == { S \in SUBSET OnFile : IsFiniteSet(S) } \cup {Nil}
  <2>1. inv \in [Players -> Few]
    BY DEF ThingsInv, Shape
  <2>2. ASSUME NEW S \in Few PROVE S \in (SUBSET Stored) \cup {Nil}
    <3>1. S = Nil \/ S \subseteq OnFile
      OBVIOUS
    <3> QED BY <1>1, <3>1
  <2> HIDE DEF Few
  <2> QED BY <2>1, <2>2
<1>3. pers \in [Files -> Stored \cup {Nil}]
  BY <1>1 DEF ThingsInv, Shape
<1>4. at \in [Holders -> SUBSET Thing]
  BY <1>1 DEF ThingsInv, Shape
<1> QED BY <1>2, <1>3, <1>4 DEF ThingsInv, Shape, ThingsOK

LEMMA OwnerFollows == ThingsInv => OneOwner
<1> SUFFICES ASSUME ThingsInv, Idle, NEW f \in Files
             PROVE  Cardinality(Keepers(f)) = IF pers[f] = Nil THEN 0 ELSE 1
  BY DEF OneOwner
<1>1. Borne(f) <=> pers[f] # Nil
  BY DEF ThingsInv, Kept, Idle, Due
<1>2. \A h, t : Keeping(h, t, f) = { <<h, t, u>> : u \in { v \in {t} \cup t.holds : Keeps(v, f) } }
  BY PartsOf DEF Keeping, Keeps
<1>3. \A k : k \in Keepers(f) <=>
        \E h \in Holders : \E t \in at[h] : k \in Keeping(h, t, f)
  BY DEF Keepers
<1>4. \A h, t, k : k \in Keeping(h, t, f) <=> \E u : Bears(t, u, f) /\ k = <<h, t, u>>
  BY <1>2 DEF Bears
<1>5. \A k : k \in Keepers(f) <=>
        \E h, t, u : h \in Holders /\ In(at[h], t, u, f) /\ k = <<h, t, u>>
  BY <1>3, <1>4 DEF In
<1>6. \A h : f \in FilesOf(at[h]) <=> \E t, u : In(at[h], t, u, f)
  BY FilesAre
<1>7. Keepers(f) # {} <=> Borne(f)
  <2>1. ASSUME NEW h \in Holders, f \in FilesOf(at[h]) PROVE Keepers(f) # {}
    <3>1. PICK t, u : In(at[h], t, u, f)
      BY <1>6, <2>1
    <3> QED BY <1>5, <3>1
  <2>2. ASSUME NEW k \in Keepers(f) PROVE \E h \in Holders : f \in FilesOf(at[h])
    BY <1>5, <1>6
  <2> QED BY <2>1, <2>2 DEF Borne
<1>8. \A k, m \in Keepers(f) : k = m
  <2> SUFFICES ASSUME NEW k \in Keepers(f), NEW m \in Keepers(f) PROVE k = m
    OBVIOUS
  <2>1. PICK h, t, u : h \in Holders /\ In(at[h], t, u, f) /\ k = <<h, t, u>>
    BY <1>5
  <2>2. PICK g, r, v : g \in Holders /\ In(at[g], r, v, f) /\ m = <<g, r, v>>
    BY <1>5
  <2>3. h = g
    BY <1>6, <2>1, <2>2 DEF ThingsInv, Single
  <2>4. t = r /\ u = v
    BY <2>1, <2>2, <2>3 DEF ThingsInv, Single, Lone
  <2> QED BY <2>1, <2>2, <2>3, <2>4
<1>9. CASE pers[f] = Nil
  <2>1. Keepers(f) = {}
    BY <1>1, <1>7, <1>9
  <2> QED BY <1>9, <2>1, FS_EmptySet
<1>10. CASE pers[f] # Nil
  <2>1. PICK k : k \in Keepers(f)
    BY <1>1, <1>7, <1>10
  <2>2. Keepers(f) = {k}
    BY <1>8, <2>1
  <2> QED BY <1>10, <2>2, FS_Singleton
<1> QED BY <1>9, <1>10

LEMMA ThingsStart == ThingsInit => ThingsInv
<1> SUFFICES ASSUME ThingsInit PROVE ThingsInv
  OBVIOUS
<1>1. ASSUME NEW t \in at[Room] PROVE t \in Good /\ \A u \in UnitsOf({t}) : u.pt = Nil
  <2>1. PICK i \in Items : t = Fresh(i)
    BY <1>1 DEF ThingsInit, Holders
  <2>2. t \in Thing /\ t.holds = {} /\ t.pt = Nil
    BY <2>1 DEF Fresh, Thing, Item
  <2> QED BY <2>2, GoodIs, FS_EmptySet, PartsOf
<1>2. \A p \in Players : at[p] = {}
  BY KindAssumption DEF ThingsInit, Holders
<1>3. FilesOf(at[Room]) = {} /\ Lone(at[Room])
  BY <1>1, NoFiles
<1>4. \A h \in Holders : FilesOf(at[h]) = {} /\ Lone(at[h])
  BY <1>2, <1>3, NothingKeeps DEF Holders
<1>5. at \in [Holders -> SUBSET Good]
  <2>1. at = [h \in Holders |-> at[h]]
    BY DEF ThingsInit
  <2>2. \A h \in Holders : at[h] \subseteq Good
    BY <1>1, <1>2 DEF Holders
  <2> QED BY <2>1, <2>2
<1>6. Shape
  BY <1>2, <1>5, FS_EmptySet DEF ThingsInit, Shape
<1>7. OnlyInside /\ JobKnown
  BY <1>2 DEF ThingsInit, OnlyInside, JobKnown
<1>8. Single /\ Kept
  BY <1>4 DEF Single, Kept, Borne, Due, ThingsInit
<1> QED BY <1>6, <1>7, <1>8 DEF ThingsInv

-----------------------------------------------------------------------------
(* What is done to one holder, or between two.                             *)
LEMMA OneHolder ==
  ASSUME Single, NEW h \in Holders, NEW S, Lone(S), DOMAIN at = Holders,
         at' = [at EXCEPT ![h] = S],
         \A f \in FilesOf(S) : f \in FilesOf(at[h]) \/ ~Borne(f)
  PROVE  /\ Single'
         /\ \A f : Borne(f)' <=> f \in FilesOf(S) \/ (Borne(f) /\ f \notin FilesOf(at[h]))
<1>1. at'[h] = S /\ \A k \in Holders \ {h} : at'[k] = at[k]
  OBVIOUS
<1>2. \A k \in Holders \ {h} : FilesOf(at[k]) \cap FilesOf(S) = {}
  BY DEF Single, Borne
<1>3. Single'
  <2>1. \A k \in Holders : Lone(at'[k])
    BY <1>1 DEF Single
  <2>2. \A k, m \in Holders : k # m => FilesOf(at'[k]) \cap FilesOf(at'[m]) = {}
    BY <1>1, <1>2 DEF Single
  <2> QED BY <2>1, <2>2 DEF Single
<1>4. \A f : (\E k \in Holders : f \in FilesOf(at'[k])) <=>
             f \in FilesOf(S) \/ \E k \in Holders \ {h} : f \in FilesOf(at[k])
  BY <1>1
<1>5. \A f : (\E k \in Holders \ {h} : f \in FilesOf(at[k])) <=> Borne(f) /\ f \notin FilesOf(at[h])
  BY DEF Borne, Single
<1> QED BY <1>3, <1>4, <1>5 DEF Borne

LEMMA TwoHolders ==
  ASSUME Single, NEW g \in Holders, NEW h \in Holders, g # h, DOMAIN at = Holders,
         NEW S, NEW T, Lone(S), Lone(T), FilesOf(S) \cap FilesOf(T) = {},
         at' = [at EXCEPT ![g] = S, ![h] = T],
         \A f \in FilesOf(S) \cup FilesOf(T) :
           f \in FilesOf(at[g]) \cup FilesOf(at[h]) \/ ~Borne(f)
  PROVE  /\ Single'
         /\ \A f : Borne(f)' <=>
              \/ f \in FilesOf(S) \cup FilesOf(T)
              \/ Borne(f) /\ f \notin FilesOf(at[g]) \cup FilesOf(at[h])
<1>1. at'[g] = S /\ at'[h] = T /\ \A k \in Holders \ {g, h} : at'[k] = at[k]
  OBVIOUS
<1>2. \A k \in Holders \ {g, h} : FilesOf(at[k]) \cap FilesOf(S) = {} /\ FilesOf(at[k]) \cap FilesOf(T) = {}
  BY DEF Single, Borne
<1>3. Single'
  <2>1. \A k \in Holders : Lone(at'[k])
    BY <1>1 DEF Single
  <2>2. \A k, m \in Holders : k # m => FilesOf(at'[k]) \cap FilesOf(at'[m]) = {}
    BY <1>1, <1>2 DEF Single
  <2> QED BY <2>1, <2>2 DEF Single
<1>4. \A f : (\E k \in Holders : f \in FilesOf(at'[k])) <=>
             \/ f \in FilesOf(S) \cup FilesOf(T)
             \/ \E k \in Holders \ {g, h} : f \in FilesOf(at[k])
  BY <1>1
<1>5. \A f : (\E k \in Holders \ {g, h} : f \in FilesOf(at[k])) <=>
             Borne(f) /\ f \notin FilesOf(at[g]) \cup FilesOf(at[h])
  BY DEF Borne, Single
<1> QED BY <1>3, <1>4, <1>5 DEF Borne

(* Only the files change.                                                  *)
LEMMA NothingMoves ==
  ASSUME UNCHANGED at
  PROVE  (Single' <=> Single) /\ \A f : Borne(f)' <=> Borne(f)
BY DEF Single, Borne

(* The fields of a new job.                                                *)
LEMMA JobIs ==
  ASSUME NEW kind \in {"save", "quit", "die", "tick", "extract"}, NEW p \in Players \cup {Nil},
         NEW stage \in {"persist", "player", "contents"}, NEW erase \in SUBSET Files,
         NEW put \in SUBSET OnFile, NEW into \in Files \cup {Nil},
         NEW j, j = NewJob(kind, p, stage, erase, put, into)
  PROVE  /\ j \in Job /\ j # Nil
         /\ j.kind = kind /\ j.p = p /\ j.stage = stage /\ j.erase = erase
         /\ j.put = put /\ j.into = into
<1>1. put \in SUBSET Thing
  BY OnFileIs DEF Good
<1>2. j \in Job
  BY <1>1 DEF NewJob, Job
<1> QED BY <1>2, NilAssumption DEF NewJob

-----------------------------------------------------------------------------
(* What is read from an inventory file keeps no persistent file.           *)
LEMMA EnterKeeps == ASSUME ThingsInv, NEW p \in Players, Enter(p) PROVE ThingsInv'
<1> DEFINE S == IF inv[p] = Nil THEN {} ELSE inv[p]
<1>1. S \in SUBSET OnFile /\ IsFiniteSet(S)
  BY FS_EmptySet DEF ThingsInv, Shape
<1>2. S \in SUBSET Good /\ FilesOf(S) = {} /\ Lone(S)
  <2>1. \A t \in S : t \in Good /\ \A u \in UnitsOf({t}) : u.pt = Nil
    BY <1>1, OnFileIs, PartsOf
  <2> QED BY <2>1, NoFiles
<1>3. /\ at' = [at EXCEPT ![p] = S] /\ inside' = inside \cup {p} /\ up /\ job = Nil
      /\ UNCHANGED <<known, inv, pers, up, job>>
  BY DEF Enter, Idle
<1>4. p \in Holders /\ p # Room /\ at[p] = {} /\ DOMAIN at = Holders
  BY KindAssumption DEF Enter, ThingsInv, OnlyInside, Shape, Holders
<1> HIDE DEF S
<1>5. Shape'
  BY <1>1, <1>2, <1>3, <1>4 DEF ThingsInv, Shape
<1>6. OnlyInside' /\ JobKnown'
  BY <1>3, <1>4 DEF ThingsInv, Shape, OnlyInside, JobKnown
<1>7. Single' /\ \A f : Borne(f)' <=> Borne(f)
  <2>1. FilesOf(at[p]) = {}
    BY <1>4, NothingKeeps
  <2> QED BY <1>2, <1>3, <1>4, <2>1, OneHolder DEF ThingsInv
<1>8. Kept'
  BY <1>3, <1>7 DEF ThingsInv, Kept, Due
<1> QED BY <1>5, <1>6, <1>7, <1>8 DEF ThingsInv

(* One holder is changed, and the handler that did it begins to write.     *)
LEMMA HandlerBegins ==
  ASSUME ThingsInv, Idle, NEW h \in Holders, NEW S \in SUBSET Good, Lone(S),
         h \in Players => IsFiniteSet(S),
         at' = [at EXCEPT ![h] = S], UNCHANGED <<known, inv, pers, up>>, inside' \subseteq Players,
         NEW erase \in SUBSET FilesOf(at[h]), FilesOf(S) = FilesOf(at[h]) \ erase,
         \/ job' = Nil /\ erase = {}
         \/ /\ job' \in Job /\ job' # Nil /\ job'.erase = erase
            /\ job'.into \in FilesOf(S) \cup {Nil}
            /\ job'.put \subseteq OnFile /\ IsFiniteSet(job'.put)
  PROVE  Shape' /\ Single' /\ Kept'
<1>1. DOMAIN at = Holders /\ Single /\ up /\ job = Nil /\ \A f \in Files : Borne(f) <=> pers[f] # Nil
  BY DEF ThingsInv, Shape, Idle, Kept, Due
<1>2. Shape'
  <2>1. at' \in [Holders -> SUBSET Good]
    BY DEF ThingsInv, Shape
  <2>2. \A p \in Players : IsFiniteSet(at'[p])
    BY <1>1 DEF ThingsInv, Shape, Holders
  <2> QED BY <2>1, <2>2 DEF ThingsInv, Shape
<1>3. Single' /\ \A f : Borne(f)' <=> f \in FilesOf(S) \/ (Borne(f) /\ f \notin FilesOf(at[h]))
  <2>1. \A f \in FilesOf(S) : f \in FilesOf(at[h]) \/ ~Borne(f)
    OBVIOUS
  <2> QED BY <1>1, <2>1, OneHolder
<1>4. \A f \in FilesOf(at[h]) : Borne(f)
  BY DEF Borne
<1>5. \A f \in Files : Borne(f)' <=> pers[f] # Nil /\ f \notin erase
  BY <1>1, <1>3, <1>4
<1>6. Kept'
  <2> SUFFICES ASSUME NEW f \in Files PROVE Borne(f)' <=> Due(f)'
    BY DEF Kept
  <2>1. CASE job' = Nil /\ erase = {}
    BY <1>5, <2>1 DEF Due
  <2>2. CASE job' # Nil /\ job'.erase = erase /\ job'.into \in FilesOf(S) \cup {Nil}
    <3>1. f = job'.into => f \notin erase /\ Borne(f)
      BY <1>4, <2>2, NilAssumption
    <3> QED BY <1>1, <1>5, <2>2, <3>1 DEF Due
  <2> QED BY <2>1, <2>2
<1> QED BY <1>2, <1>3, <1>6

(* A thing goes from the room to a player, or back; nothing is written.    *)
LEMMA HandedOver ==
  ASSUME ThingsInv, Idle, NEW p \in inside, NEW g \in Holders, NEW h \in Holders, {g, h} = {p, Room},
         NEW S \in SUBSET Good, NEW T \in SUBSET Good, Lone(S), Lone(T),
         g \in Players => IsFiniteSet(S), h \in Players => IsFiniteSet(T),
         FilesOf(S) \cap FilesOf(T) = {},
         FilesOf(S) \cup FilesOf(T) = FilesOf(at[g]) \cup FilesOf(at[h]),
         at' = [at EXCEPT ![g] = S, ![h] = T],
         UNCHANGED <<known, inv, pers, up, inside, job>>
  PROVE  ThingsInv'
<1>1. g # h /\ p \in Players /\ p # Room /\ DOMAIN at = Holders /\ up /\ job = Nil
  BY KindAssumption DEF ThingsInv, Shape, Idle
<1>2. Shape'
  <2>1. at' \in [Holders -> SUBSET Good]
    BY DEF ThingsInv, Shape
  <2>2. \A q \in Players : IsFiniteSet(at'[q])
    BY <1>1 DEF ThingsInv, Shape, Holders
  <2> QED BY <2>1, <2>2 DEF ThingsInv, Shape
<1>3. OnlyInside' /\ JobKnown'
  <2>1. \A q \in Players \ inside : q \in Holders /\ q # g /\ q # h /\ at'[q] = at[q]
    BY <1>1, KindAssumption DEF Holders
  <2> QED BY <1>1, <2>1 DEF ThingsInv, OnlyInside, JobKnown
<1>4. Single' /\ \A f : Borne(f)' <=> Borne(f)
  <2>1. \A f \in FilesOf(at[g]) \cup FilesOf(at[h]) : Borne(f)
    BY DEF Borne
  <2>2. /\ Single /\ DOMAIN at = Holders /\ g # h /\ Lone(S) /\ Lone(T)
        /\ FilesOf(S) \cap FilesOf(T) = {} /\ at' = [at EXCEPT ![g] = S, ![h] = T]
        /\ \A f \in FilesOf(S) \cup FilesOf(T) : f \in FilesOf(at[g]) \cup FilesOf(at[h]) \/ ~Borne(f)
    BY <1>1 DEF ThingsInv
  <2>3. /\ Single'
        /\ \A f : Borne(f)' <=>
              \/ f \in FilesOf(S) \cup FilesOf(T)
              \/ Borne(f) /\ f \notin FilesOf(at[g]) \cup FilesOf(at[h])
    BY <2>2, TwoHolders
  <2> QED BY <2>1, <2>3
<1>5. Kept'
  BY <1>1, <1>4 DEF ThingsInv, Kept, Due
<1> QED BY <1>2, <1>3, <1>4, <1>5 DEF ThingsInv

(* Who has something is in the world.                                      *)
LEMMA HasIsInside ==
  ASSUME ThingsInv, NEW h \in Holders, at[h] # {}
  PROVE  h = Room \/ h \in inside
BY DEF ThingsInv, OnlyInside, Holders

LEMMA RoomAlone ==
  ASSUME ThingsInv, NEW h \in Holders, NEW S, h = Room \/ h \in inside, at' = [at EXCEPT ![h] = S],
         up', UNCHANGED inside
  PROVE  OnlyInside'
<1>1. \A p \in Players \ inside : p \in Holders /\ p # h
  BY KindAssumption DEF Holders
<1> QED BY <1>1 DEF ThingsInv, OnlyInside, Shape

-----------------------------------------------------------------------------
(* Between the room and a player.                                          *)
LEMMA MoveKeeps ==
  ASSUME ThingsInv, Idle, NEW p \in inside, NEW g \in Holders, NEW h \in Holders, {g, h} = {p, Room},
         NEW t \in at[g], Move(g, h, t)
  PROVE  ThingsInv'
<1> DEFINE S == at[g] \ {t}
           T == at[h] \cup {t}
<1>1. g # h /\ DOMAIN at = Holders
  BY KindAssumption DEF ThingsInv, Shape
<1>2. at' = [at EXCEPT ![g] = S, ![h] = T] /\ UNCHANGED <<known, inv, pers, up, inside, job>>
  BY <1>1 DEF Move
<1>3. /\ Lone(at[g]) /\ Lone(at[h]) /\ FilesOf(at[g]) \cap FilesOf(at[h]) = {}
      /\ at[g] \subseteq Good /\ at[h] \subseteq Good
  BY <1>1 DEF ThingsInv, Single, Shape
<1>4. /\ Lone(S) /\ Lone({t}) /\ FilesOf(S) = FilesOf(at[g]) \ FilesOf({t})
      /\ FilesOf({t}) \subseteq FilesOf(at[g])
  BY <1>3, TakenOut
<1>5. FilesOf(T) = FilesOf(at[h]) \cup FilesOf({t})
  BY FilesOfUnion
<1>6. Lone(T)
  BY <1>3, <1>4, PutIn
<1>7. S \subseteq Good /\ T \subseteq Good /\ (g \in Players => IsFiniteSet(S)) /\ (h \in Players => IsFiniteSet(T))
  BY <1>3, FS_RemoveElement, FS_AddElement DEF ThingsInv, Shape
<1>8. /\ FilesOf(S) \cap FilesOf(T) = {}
      /\ FilesOf(S) \cup FilesOf(T) = FilesOf(at[g]) \cup FilesOf(at[h])
  BY <1>3, <1>4, <1>5
<1> HIDE DEF S, T
<1> QED BY <1>2, <1>4, <1>6, <1>7, <1>8, HandedOver

(* What lies in the room, and what a player has.                           *)
LEMMA RoomAndPlayer ==
  ASSUME ThingsInv, NEW p \in inside
  PROVE  /\ p \in Players /\ p \in Holders /\ Room \in Holders /\ p # Room /\ {Room, p} = {p, Room}
         /\ Lone(at[Room]) /\ Lone(at[p]) /\ FilesOf(at[Room]) \cap FilesOf(at[p]) = {}
         /\ at[Room] \subseteq Good /\ at[p] \subseteq Good /\ IsFiniteSet(at[p])
<1>1. p \in Players /\ p \in Holders /\ Room \in Holders /\ p # Room
  BY KindAssumption DEF ThingsInv, Shape, Holders
<1> QED BY <1>1 DEF ThingsInv, Single, Shape

LEMMA LootKeeps ==
  ASSUME ThingsInv, NEW p \in Players, NEW c \in at[Room], NEW i \in c.holds, Loot(p, c, i)
  PROVE  ThingsInv'
<1> PICK d : d = [c EXCEPT !.holds = @ \ {i}]
  OBVIOUS
<1> DEFINE S == (at[Room] \ {c}) \cup {d}
           T == at[p] \cup {i}
<1>1. /\ at' = [at EXCEPT ![Room] = S, ![p] = T] /\ Idle /\ p \in inside
      /\ UNCHANGED <<known, inv, pers, up, inside, job>>
  <2>1. p # Room
    BY KindAssumption
  <2> QED BY <2>1 DEF Loot
<1>2. /\ p \in Holders /\ Room \in Holders /\ p # Room /\ {Room, p} = {p, Room}
      /\ Lone(at[Room]) /\ Lone(at[p]) /\ FilesOf(at[Room]) \cap FilesOf(at[p]) = {}
      /\ at[Room] \subseteq Good /\ at[p] \subseteq Good /\ IsFiniteSet(at[p])
  BY <1>1, RoomAndPlayer
<1>3. /\ c \in Good /\ c \in Thing /\ IsFiniteSet(c.holds) /\ i \in Good /\ i \in Item
      /\ c.pt # Nil => c.what \notin NoSave
      /\ \A k \in c.holds : k.pt # Nil => k.what \notin NoSave
  BY <1>2, GoodHas
<1>4. c.what \in Corpses /\ c.holds \subseteq Item
  BY <1>3, ThingIs
<1>5. d \in Good /\ d \in Thing /\ d.holds = c.holds \ {i} /\ d.pt = c.pt
  <2>1. d \in Thing /\ d.what = c.what /\ d.holds = c.holds \ {i} /\ d.pt = c.pt
    BY <1>3, <1>4, Refilled
  <2>2. IsFiniteSet(d.holds)
    BY <1>3, <2>1, FS_RemoveElement
  <2> QED BY <1>3, <2>1, <2>2, GoodIs
<1>6. /\ Lone(at[Room] \ {c}) /\ Lone({c}) /\ FilesOf(at[Room] \ {c}) = FilesOf(at[Room]) \ FilesOf({c})
      /\ FilesOf({c}) \subseteq FilesOf(at[Room])
  BY <1>2, TakenOut
<1>7. /\ Lone({d}) /\ FilesOf({d}) = FilesOf({c}) \ FilesOf({i})
      /\ Lone({i}) /\ FilesOf({i}) \subseteq FilesOf({c})
  <2>1. Lacks(d, c, i)
    BY <1>3, <1>5 DEF Lacks
  <2>2. Lone({d}) /\ Lone({i}) /\ FilesOf({i}) \subseteq FilesOf({c})
    BY ONLY <1>6, <2>1, LessInside
  <2>3. FilesOf({d}) = FilesOf({c}) \ FilesOf({i})
    BY ONLY <1>6, <2>1, LessInside
  <2> QED BY <2>2, <2>3
<1>8. FilesOf(S) = FilesOf(at[Room] \ {c}) \cup FilesOf({d}) /\ FilesOf(T) = FilesOf(at[p]) \cup FilesOf({i})
  BY FilesOfUnion
<1>9. Lone(S) /\ Lone(T)
  <2>1. FilesOf(at[Room] \ {c}) \cap FilesOf({d}) = {} /\ FilesOf(at[p]) \cap FilesOf({i}) = {}
    BY <1>2, <1>6, <1>7
  <2> QED BY <1>2, <1>6, <1>7, <2>1, PutIn
<1>10. /\ FilesOf(S) \cap FilesOf(T) = {}
       /\ FilesOf(S) \cup FilesOf(T) = FilesOf(at[Room]) \cup FilesOf(at[p])
  BY <1>2, <1>6, <1>7, <1>8
<1>11. /\ S \subseteq Good /\ T \subseteq Good /\ IsFiniteSet(T) /\ Room \notin Players
  BY <1>2, <1>3, <1>5, FS_AddElement, KindAssumption
<1> HIDE DEF S, T
<1> QED BY <1>1, <1>2, <1>9, <1>10, <1>11, HandedOver

LEMMA PutKeeps ==
  ASSUME ThingsInv, NEW p \in Players, NEW c \in at[Room], NEW i \in at[p], Put(p, c, i)
  PROVE  ThingsInv'
<1> PICK d : d = [c EXCEPT !.holds = @ \cup {i}]
  OBVIOUS
<1> DEFINE S == (at[Room] \ {c}) \cup {d}
           T == at[p] \ {i}
<1>1. /\ at' = [at EXCEPT ![Room] = S, ![p] = T] /\ Idle /\ p \in inside
      /\ UNCHANGED <<known, inv, pers, up, inside, job>>
      /\ c.what \in Corpses /\ i.what \in Items
  <2>1. p # Room
    BY KindAssumption
  <2> QED BY <2>1 DEF Put
<1>2. /\ p \in Holders /\ Room \in Holders /\ p # Room /\ {Room, p} = {p, Room}
      /\ Lone(at[Room]) /\ Lone(at[p]) /\ FilesOf(at[Room]) \cap FilesOf(at[p]) = {}
      /\ at[Room] \subseteq Good /\ at[p] \subseteq Good /\ IsFiniteSet(at[p])
  BY <1>1, RoomAndPlayer
<1>3. /\ c \in Good /\ c \in Thing /\ IsFiniteSet(c.holds)
      /\ c.pt # Nil => c.what \notin NoSave
      /\ \A k \in c.holds : k.pt # Nil => k.what \notin NoSave
      /\ i \in Thing /\ (i.pt # Nil => i.what \notin NoSave)
  BY <1>2, GoodHas
<1>4. i \in Item /\ c.holds \subseteq Item
  BY <1>1, <1>3, ThingIs
<1>5. d \in Good /\ d \in Thing /\ d.holds = c.holds \cup {i} /\ d.pt = c.pt
  <2>1. d \in Thing /\ d.what = c.what /\ d.holds = c.holds \cup {i} /\ d.pt = c.pt
    BY <1>1, <1>3, <1>4, Refilled
  <2>2. IsFiniteSet(d.holds)
    BY <1>3, <2>1, FS_AddElement
  <2> QED BY <1>3, <2>1, <2>2, GoodIs
<1>6. /\ Lone(at[Room] \ {c}) /\ Lone({c}) /\ FilesOf(at[Room] \ {c}) = FilesOf(at[Room]) \ FilesOf({c})
      /\ FilesOf({c}) \subseteq FilesOf(at[Room])
      /\ Lone(T) /\ FilesOf(T) = FilesOf(at[p]) \ FilesOf({i}) /\ FilesOf({i}) \subseteq FilesOf(at[p])
  BY <1>2, TakenOut
<1>7. Lone({d}) /\ FilesOf({d}) = FilesOf({c}) \cup FilesOf({i})
  <2>1. FilesOf({c}) \cap FilesOf({i}) = {}
    BY <1>2, <1>6
  <2> QED BY <1>1, <1>3, <1>4, <1>5, <1>6, <2>1, MoreInside
<1>8. FilesOf(S) = FilesOf(at[Room] \ {c}) \cup FilesOf({d})
  BY FilesOfUnion
<1>9. Lone(S)
  <2>1. FilesOf(at[Room] \ {c}) \cap FilesOf({d}) = {}
    BY <1>2, <1>6, <1>7
  <2> QED BY <1>6, <1>7, <2>1, PutIn
<1>10. /\ FilesOf(S) \cap FilesOf(T) = {}
       /\ FilesOf(S) \cup FilesOf(T) = FilesOf(at[Room]) \cup FilesOf(at[p])
  BY <1>2, <1>6, <1>7, <1>8
<1>11. /\ S \subseteq Good /\ T \subseteq Good /\ IsFiniteSet(T) /\ Room \notin Players
  BY <1>2, <1>5, FS_RemoveElement, KindAssumption
<1> HIDE DEF S, T
<1> QED BY <1>1, <1>2, <1>6, <1>9, <1>10, <1>11, HandedOver

-----------------------------------------------------------------------------
(* A save takes the files of all that a player carries.                    *)
LEMMA StartSaveKeeps ==
  ASSUME ThingsInv, Idle, NEW p \in inside, NEW kind \in {"save", "quit"}, StartSave(kind, p)
  PROVE  ThingsInv'
<1> PICK S, erase, put : S = Erased(at[p]) /\ erase = FilesOf(at[p]) /\ put = Written(at[p])
  OBVIOUS
<1>1. /\ p \in Players /\ p \in Holders /\ at[p] \subseteq Good /\ IsFiniteSet(at[p])
      /\ DOMAIN at = Holders /\ up /\ job = Nil
  BY RoomAndPlayer DEF ThingsInv, Shape, Idle
<1>2. /\ at' = [at EXCEPT ![p] = S] /\ UNCHANGED <<known, inv, pers, up, inside>>
      /\ job' = NewJob(kind, p, "player", erase, put, Nil)
  BY DEF StartSave
<1>3. /\ S \subseteq Good /\ IsFiniteSet(S) /\ FilesOf(S) = {} /\ Lone(S)
      /\ at[p] # {} => S # {}
  BY <1>1, ErasedIs, NoFiles
<1>4. put \subseteq OnFile /\ IsFiniteSet(put) /\ (put # {} => at[p] # {})
  BY <1>1, WrittenIs
<1>5. erase \subseteq Files
  BY <1>1, FilesTyped
<1>6. /\ job' \in Job /\ job' # Nil /\ job'.kind = kind /\ job'.p = p /\ job'.stage = "player"
      /\ job'.erase = erase /\ job'.put = put /\ job'.into = Nil
  BY <1>1, <1>2, <1>4, <1>5, JobIs
<1>7. Shape' /\ Single' /\ Kept'
  <2>1. inside' \subseteq Players /\ UNCHANGED <<known, inv, pers, up>>
    BY <1>2 DEF ThingsInv, Shape
  <2>2. erase \in SUBSET FilesOf(at[p]) /\ FilesOf(S) = FilesOf(at[p]) \ erase
    BY <1>3
  <2>3. S \in SUBSET Good /\ Lone(S) /\ (p \in Players => IsFiniteSet(S)) /\ at' = [at EXCEPT ![p] = S]
    BY <1>2, <1>3
  <2>4. /\ job' \in Job /\ job' # Nil /\ job'.erase = erase
        /\ job'.into \in FilesOf(S) \cup {Nil}
        /\ job'.put \subseteq OnFile /\ IsFiniteSet(job'.put)
    BY <1>4, <1>6
  <2> HIDE <1>2, <1>3, <1>4, <1>6
  <2> QED BY <1>1, <2>1, <2>2, <2>3, <2>4, HandlerBegins
<1>8. OnlyInside'
  BY <1>1, <1>2, RoomAlone
<1>9. JobKnown'
  <2>1. FilesOf(at'[p]) = {} /\ (put # {} => at'[p] # {}) /\ p \in inside'
    BY <1>1, <1>2, <1>3, <1>4
  <2> QED BY <1>1, <1>6, <2>1 DEF JobKnown
<1> QED BY <1>7, <1>8, <1>9 DEF ThingsInv

(* The job of an extraction.                                               *)
LEMMA DrainedIs ==
  ASSUME NEW files \in SUBSET Files, NEW j, j = Drained(files)
  PROVE  \/ j = Nil /\ files = {}
         \/ /\ j \in Job /\ j # Nil /\ j.kind = "extract" /\ j.p = Nil /\ j.stage = "persist"
            /\ j.erase = files /\ j.put = {} /\ j.into = Nil
<1>1. CASE files = {}
  BY <1>1 DEF Drained
<1>2. CASE files # {}
  <2>1. j = NewJob("extract", Nil, "persist", files, {}, Nil)
    BY <1>2 DEF Drained
  <2> QED BY <2>1, JobIs
<1> QED BY <1>1, <1>2

(* A thing, or all that a holder has, is extracted.                        *)
LEMMA ExtractedKeeps ==
  ASSUME ThingsInv, Idle, NEW h \in Holders, NEW S \in SUBSET at[h], NEW files \in SUBSET FilesOf(at[h]),
         Lone(S), FilesOf(S) = FilesOf(at[h]) \ files,
         at' = [at EXCEPT ![h] = S], UNCHANGED <<known, inv, pers, up>>, job' = Drained(files),
         inside' \subseteq Players, OnlyInside'
  PROVE  ThingsInv'
<1>1. at[h] \subseteq Good /\ (h \in Players => IsFiniteSet(S))
  BY FS_Subset DEF ThingsInv, Shape
<1>2. S \subseteq Good
  BY <1>1
<1>3. \/ job' = Nil /\ files = {}
      \/ /\ job' \in Job /\ job' # Nil /\ job'.kind = "extract" /\ job'.p = Nil /\ job'.stage = "persist"
         /\ job'.erase = files /\ job'.put = {} /\ job'.into = Nil
  <2>1. files \in SUBSET Files
    BY <1>1, FilesTyped
  <2> QED BY <2>1, DrainedIs
<1>4. \/ job' = Nil /\ files = {}
      \/ /\ job' \in Job /\ job' # Nil /\ job'.erase = files
         /\ job'.into \in FilesOf(S) \cup {Nil}
         /\ job'.put \subseteq OnFile /\ IsFiniteSet(job'.put)
  BY <1>3, FS_EmptySet
<1>5. Shape' /\ Single' /\ Kept'
  BY <1>1, <1>2, <1>4, HandlerBegins
<1>6. JobKnown'
  BY <1>3 DEF JobKnown
<1> QED BY <1>5, <1>6 DEF ThingsInv

LEMMA LeaveKeeps == ASSUME ThingsInv, NEW p \in Players, Leave(p) PROVE ThingsInv'
<1>1. Idle /\ p \in inside
  BY DEF Leave
<1>2. CASE StartSave("quit", p)
  BY <1>1, <1>2, StartSaveKeeps
<1>3. CASE Vanish(p) /\ job' = Drained(FilesOf(at[p])) /\ UNCHANGED <<known, inv, pers, up>>
  <2>1. /\ p \in Holders /\ p # Room /\ at' = [at EXCEPT ![p] = {}] /\ inside' = inside \ {p}
        /\ DOMAIN at = Holders /\ up
    BY <1>1, <1>3, RoomAndPlayer DEF Vanish, ThingsInv, Shape, Idle
  <2>2. OnlyInside'
    <3>1. \A q \in Players \ inside' : at'[q] = {}
      BY <2>1 DEF ThingsInv, OnlyInside, Shape, Holders
    <3> QED BY <1>3, <2>1, <3>1 DEF OnlyInside
  <2>3. FilesOf({}) = {} /\ Lone({})
    BY NothingKeeps
  <2>4. inside' \subseteq Players
    BY <2>1 DEF ThingsInv, Shape
  <2> QED BY <1>1, <1>3, <2>1, <2>2, <2>3, <2>4, ExtractedKeeps
<1> QED BY <1>2, <1>3 DEF Leave

LEMMA DecayKeeps == ASSUME ThingsInv, NEW h \in Holders, NEW c \in at[h], Decay(h, c) PROVE ThingsInv'
<1> PICK S, files : S = at[h] \ {c} /\ files = FilesOf({c})
  OBVIOUS
<1>1. /\ Idle /\ up /\ at' = [at EXCEPT ![h] = S] /\ job' = Drained(files)
      /\ UNCHANGED <<known, inv, pers, up, inside>>
  BY DEF Decay, Idle
<1>2. Lone(S) /\ FilesOf(S) = FilesOf(at[h]) \ files /\ files \subseteq FilesOf(at[h]) /\ S \subseteq at[h]
  <2>1. Lone(at[h])
    BY DEF ThingsInv, Single
  <2> QED BY <2>1, TakenOut
<1>3. OnlyInside' /\ inside' \subseteq Players
  <2>1. h = Room \/ h \in inside
    BY HasIsInside
  <2> QED BY <1>1, <2>1, RoomAlone DEF ThingsInv, Shape
<1> QED BY <1>1, <1>2, <1>3, ExtractedKeeps

(* A thing, or one in it, is saved to the file it has.                     *)
LEMMA RenewedKeeps ==
  ASSUME ThingsInv, Idle, NEW h \in Holders, NEW t \in at[h], NEW d \in Good, Lone({d}),
         NEW erase, erase \subseteq FilesOf({t}), FilesOf({d}) = FilesOf({t}) \ erase,
         NEW x \in OnFile, NEW into \in FilesOf({d}),
         at' = [at EXCEPT ![h] = (at[h] \ {t}) \cup {d}],
         job' = NewJob("tick", Nil, "persist", erase, {x}, into),
         UNCHANGED <<known, inv, pers, up, inside>>
  PROVE  ThingsInv'
<1> PICK S : S = (at[h] \ {t}) \cup {d}
  OBVIOUS
<1>1. Lone(at[h]) /\ at[h] \subseteq Good /\ (h \in Players => IsFiniteSet(at[h]))
  BY DEF ThingsInv, Single, Shape
<1>2. /\ Lone(at[h] \ {t}) /\ FilesOf(at[h] \ {t}) = FilesOf(at[h]) \ FilesOf({t})
      /\ FilesOf({t}) \subseteq FilesOf(at[h])
  BY <1>1, TakenOut
<1>3. FilesOf(S) = FilesOf(at[h] \ {t}) \cup FilesOf({d})
  BY FilesOfUnion
<1>4. Lone(S)
  <2>1. FilesOf(at[h] \ {t}) \cap FilesOf({d}) = {}
    BY <1>2
  <2> QED BY <1>2, <2>1, PutIn
<1>5. S \subseteq Good /\ (h \in Players => IsFiniteSet(S))
  BY <1>1, FS_RemoveElement, FS_AddElement
<1>6. /\ erase \subseteq FilesOf(at[h]) /\ FilesOf(S) = FilesOf(at[h]) \ erase
      /\ into \in FilesOf(S) /\ into \notin erase /\ erase \subseteq Files /\ into \in Files
  <2>1. FilesOf(at[h]) \subseteq Files
    BY <1>1, FilesTyped
  <2> QED BY <1>2, <1>3, <2>1
<1>7. /\ job' \in Job /\ job' # Nil /\ job'.kind = "tick" /\ job'.p = Nil /\ job'.stage = "persist"
      /\ job'.erase = erase /\ job'.put = {x} /\ job'.into = into
  BY <1>6, JobIs
<1>8. Shape' /\ Single' /\ Kept'
  <2>1. inside' \subseteq Players /\ at' = [at EXCEPT ![h] = S] /\ UNCHANGED <<known, inv, pers, up>>
    BY DEF ThingsInv, Shape
  <2>2. /\ job' \in Job /\ job' # Nil /\ job'.erase = erase
        /\ job'.into \in FilesOf(S) \cup {Nil}
        /\ job'.put \subseteq OnFile /\ IsFiniteSet(job'.put)
    <3>1. IsFiniteSet({x}) /\ {x} \subseteq OnFile
      BY FS_Singleton
    <3> QED BY <1>6, <1>7, <3>1
  <2> QED BY <1>4, <1>5, <1>6, <2>1, <2>2, HandlerBegins
<1>9. OnlyInside'
  <2>1. h = Room \/ h \in inside
    BY HasIsInside
  <2> QED BY <2>1, RoomAlone DEF Idle
<1>10. JobKnown'
  <2>1. \E y \in OnFile : job'.put = {y}
    BY <1>7
  <2>2. job'.into # Nil
    BY <1>6, <1>7, NilAssumption
  <2> QED BY <1>6, <1>7, <2>1, <2>2 DEF JobKnown
<1> QED BY <1>8, <1>9, <1>10 DEF ThingsInv

(* The files of the things in a thing, and its own.                        *)
LEMMA InnerFiles ==
  ASSUME NEW t \in Thing, Lone({t}), t.pt # Nil
  PROVE  /\ FilesOf(t.holds) \subseteq FilesOf({t})
         /\ {t.pt.file} = FilesOf({t}) \ FilesOf(t.holds)
<1>1. \A f : f \in FilesOf(t.holds) <=> \E i \in t.holds : Keeps(i, f)
  <2>1. \A i \in t.holds : i.holds = {}
    BY ThingIs
  <2>2. \A i, u, f : In(t.holds, i, u, f) <=> i \in t.holds /\ u = i /\ Keeps(i, f)
    BY <2>1 DEF In, Bears
  <2>3. \A f : f \in FilesOf(t.holds) <=> \E i, u : In(t.holds, i, u, f)
    BY FilesAre
  <2> QED BY <2>2, <2>3
<1>2. \A f : f \in FilesOf({t}) <=> Keeps(t, f) \/ \E i \in t.holds : Keeps(i, f)
  BY TopAndInner
<1>3. \A f : \A i \in t.holds : ~(Keeps(t, f) /\ Keeps(i, f))
  BY TopAndInner
<1>4. \A f : Keeps(t, f) <=> f = t.pt.file
  BY DEF Keeps
<1>5. \A f : f \in FilesOf(t.holds) => f \in FilesOf({t})
  BY <1>1, <1>2
<1>6. \A f : f = t.pt.file <=> f \in FilesOf({t}) /\ f \notin FilesOf(t.holds)
  BY <1>1, <1>2, <1>3, <1>4
<1> QED BY <1>5, <1>6

LEMMA TickKeeps == ASSUME ThingsInv, NEW h \in Holders, NEW t \in at[h], Tick(h, t) PROVE ThingsInv'
<1>1. Idle /\ t.pt # Nil
  BY DEF Tick, Moved
<1>2. /\ t \in Good /\ t \in Thing /\ t.what \notin NoSave /\ Lone({t})
      /\ t.pt \in Pt
  <2>1. at[h] \subseteq Good /\ Lone(at[h])
    BY DEF ThingsInv, Shape, Single
  <2>2. t \in Good /\ Lone({t})
    BY <2>1, TakenOut
  <2>3. t \in Thing /\ t.what \notin NoSave
    BY <1>1, <2>2, GoodHas
  <2> QED BY <1>1, <2>2, <2>3, ThingIs
<1> PICK f, in, d : f = t.pt.file /\ in = PlaceOf(h) /\ d = [Inside(t) EXCEPT !.pt = PtFor(f, t, in)]
  OBVIOUS
<1>3. f \in Files /\ in \in {"room", "corpse", "pc"}
  BY <1>2 DEF Pt, PlaceOf
<1>4. d \in Good /\ Lone({d}) /\ FilesOf({d}) = {f}
  BY <1>2, <1>3, TopRenewed
<1>5. /\ FilesOf(t.holds) \subseteq FilesOf({t})
      /\ FilesOf({d}) = FilesOf({t}) \ FilesOf(t.holds)
  BY <1>1, <1>2, <1>4, InnerFiles
<1>6. Saved(t) \in OnFile
  BY <1>2, SavedIs
<1>7. /\ at' = [at EXCEPT ![h] = (at[h] \ {t}) \cup {d}]
      /\ job' = NewJob("tick", Nil, "persist", FilesOf(t.holds), {Saved(t)}, f)
      /\ UNCHANGED <<known, inv, pers, up, inside>>
  <2>1. Inside(t).pt = t.pt
    BY <1>2, InsideIs
  <2>2. d = [Inside(t) EXCEPT !.pt = PtFor(@.file, t, PlaceOf(h))]
    BY <2>1
  <2> QED BY <2>2 DEF Tick
<1>8. f \in FilesOf({d})
  BY <1>4
<1> QED BY <1>1, <1>4, <1>5, <1>6, <1>7, <1>8, RenewedKeeps

LEMMA TickInsideKeeps ==
  ASSUME ThingsInv, NEW h \in Holders, NEW c \in at[h], NEW i \in c.holds, TickInside(h, c, i)
  PROVE  ThingsInv'
<1>1. Idle /\ i.pt # Nil
  BY DEF TickInside, Moved
<1>2. /\ c \in Good /\ c \in Thing /\ Lone({c})
  <2>1. at[h] \subseteq Good /\ Lone(at[h])
    BY DEF ThingsInv, Shape, Single
  <2> QED BY <2>1, TakenOut, GoodHas
<1>3. i \in Good /\ i.what \notin NoSave
  BY <1>1, <1>2, GoodHas
<1> PICK d : d = Rehung(c, i)
  OBVIOUS
<1>4. d \in Good /\ Lone({d}) /\ FilesOf({d}) = FilesOf({c})
  BY <1>1, <1>2, InnerRenewed
<1>5. Saved(i) \in OnFile
  BY <1>3, SavedIs
<1>6. /\ at' = [at EXCEPT ![h] = (at[h] \ {c}) \cup {d}]
      /\ job' = NewJob("tick", Nil, "persist", {}, {Saved(i)}, i.pt.file)
      /\ UNCHANGED <<known, inv, pers, up, inside>>
  BY DEF TickInside, Rehung, Ticked
<1>7. i.pt.file \in FilesOf({d})
  <2>1. Keeps(i, i.pt.file)
    BY <1>1 DEF Keeps
  <2> QED BY <1>2, <1>4, <2>1, TopAndInner
<1>8. {} \subseteq FilesOf({c}) /\ FilesOf({d}) = FilesOf({c}) \ {}
  BY <1>4
<1> QED BY <1>1, <1>4, <1>5, <1>6, <1>7, <1>8, RenewedKeeps

(* The corpse of a player: with nothing in it, and with all he had.        *)
Body(c, S) == [Fresh(c) EXCEPT !.holds = S]
LEMMA BodyIs ==
  ASSUME NEW c \in Corpses, NEW S \in SUBSET Item, S \subseteq Good, IsFiniteSet(S)
  PROVE  LET b == Body(c, S) IN
         b \in Good /\ b.what = c /\ b.what \notin NoSave /\ b.holds = S /\ b.pt = Nil
<1> DEFINE b == Body(c, S)
<1>1. Fresh(c) \in Thing /\ Fresh(c).what = c /\ Fresh(c).pt = Nil
  BY DEF Fresh, Thing, Corpse
<1>2. b \in Thing /\ b.what = c /\ b.holds = S /\ b.pt = Nil
  BY <1>1, Refilled DEF Body
<1> HIDE DEF b
<1>3. b \in Good
  <2>1. \A i \in S : i.pt # Nil => i.what \notin NoSave
    BY GoodHas
  <2> QED BY <1>2, <2>1, GoodIs
<1> QED BY <1>2, <1>3, KindAssumption DEF b

(* The files of what the player had give way to that of his corpse.        *)
LEMMA DieKeeps == ASSUME ThingsInv, NEW p \in Players, Die(p) PROVE ThingsInv'
<1> PICK c \in Unused :
       LET body == [Fresh(c) EXCEPT !.holds = at[p]] IN
       \/ /\ at[p] = {}
          /\ at' = [at EXCEPT ![Room] = @ \cup {body}]
          /\ job' = NewJob("die", p, "player", {}, {}, Nil)
       \/ /\ at[p] # {}
          /\ \E f \in Files0 :
               /\ at' = [at EXCEPT ![p] = {},
                           ![Room] = @ \cup {[Inside(body) EXCEPT !.pt = PtFor(f, body, "room")]}]
               /\ job' = NewJob("die", p, "persist", FilesOf(at[p]), {Saved(body)}, f)
  BY DEF Die
<1> PICK body : body = [Fresh(c) EXCEPT !.holds = at[p]]
  OBVIOUS
<1>1. /\ Idle /\ p \in inside /\ at[p] \subseteq Item /\ UNCHANGED <<known, inv, pers, up, inside>>
      /\ up /\ job = Nil
  BY DEF Die, Idle
<1>2. /\ p \in Holders /\ Room \in Holders /\ p # Room /\ DOMAIN at = Holders
      /\ Lone(at[Room]) /\ Lone(at[p]) /\ FilesOf(at[Room]) \cap FilesOf(at[p]) = {}
      /\ at[Room] \subseteq Good /\ at[p] \subseteq Good /\ IsFiniteSet(at[p])
  BY <1>1, RoomAndPlayer DEF ThingsInv, Shape
<1>3. body \in Good /\ body.what \notin NoSave /\ body.holds = at[p] /\ body.pt = Nil
  <2>1. c \in Corpses
    BY DEF Unused
  <2>2. body = Body(c, at[p])
    BY DEF Body
  <2>3. at[p] \in SUBSET Item /\ at[p] \subseteq Good /\ IsFiniteSet(at[p])
    BY <1>1, <1>2
  <2>4. LET b == Body(c, at[p]) IN
        b \in Good /\ b.what = c /\ b.what \notin NoSave /\ b.holds = at[p] /\ b.pt = Nil
    BY ONLY <2>1, <2>3, BodyIs
  <2> QED BY <2>2, <2>4
<1>4. ASSUME at[p] = {}, at' = [at EXCEPT ![Room] = @ \cup {body}],
             job' = NewJob("die", p, "player", {}, {}, Nil)
      PROVE  ThingsInv'
  <2> PICK S : S = at[Room] \cup {body}
    OBVIOUS
  <2>1. FilesOf({body}) = {} /\ Lone({body})
    <3>1. \A t \in {body} : \A u \in UnitsOf({t}) : u.pt = Nil
      <4>1. UnitsOf({body}) = {body}
        BY <1>3, <1>4, PartsOf
      <4> QED BY <1>3, <4>1
    <3> QED BY <3>1, NoFiles
  <2>2. FilesOf(S) = FilesOf(at[Room]) /\ Lone(S) /\ S \subseteq Good
    <3>1. FilesOf(S) = FilesOf(at[Room]) \cup FilesOf({body})
      BY FilesOfUnion
    <3>2. Lone(S)
      BY <1>2, <2>1, PutIn
    <3> QED BY <1>2, <1>3, <2>1, <3>1, <3>2
  <2>3. /\ job' \in Job /\ job' # Nil /\ job'.kind = "die" /\ job'.p = p /\ job'.stage = "player"
        /\ job'.erase = {} /\ job'.put = {} /\ job'.into = Nil
    BY <1>4, JobIs
  <2>4. Shape' /\ Single' /\ Kept'
    <3>1. /\ {} \in SUBSET FilesOf(at[Room]) /\ FilesOf(S) = FilesOf(at[Room]) \ {}
          /\ S \in SUBSET Good /\ Lone(S) /\ (Room \in Players => IsFiniteSet(S))
          /\ at' = [at EXCEPT ![Room] = S] /\ UNCHANGED <<known, inv, pers, up>>
          /\ inside' \subseteq Players
      BY <1>1, <1>4, <2>2, KindAssumption DEF ThingsInv, Shape
    <3>2. /\ job' \in Job /\ job' # Nil /\ job'.erase = {}
          /\ job'.into \in FilesOf(S) \cup {Nil}
          /\ job'.put \subseteq OnFile /\ IsFiniteSet(job'.put)
      BY <2>3, FS_EmptySet
    <3> QED BY <1>1, <1>2, <3>1, <3>2, HandlerBegins
  <2>5. OnlyInside'
    BY <1>1, <1>2, <1>4, RoomAlone
  <2>6. JobKnown'
    BY <2>3 DEF JobKnown
  <2> QED BY <2>4, <2>5, <2>6 DEF ThingsInv
<1>5. ASSUME NEW f \in Files0,
             at' = [at EXCEPT ![p] = {},
                      ![Room] = @ \cup {[Inside(body) EXCEPT !.pt = PtFor(f, body, "room")]}],
             job' = NewJob("die", p, "persist", FilesOf(at[p]), {Saved(body)}, f)
      PROVE  ThingsInv'
  <2> PICK d : d = [Inside(body) EXCEPT !.pt = PtFor(f, body, "room")]
    OBVIOUS
  <2> PICK T : T = at[Room] \cup {d}
    OBVIOUS
  <2>1. f \in Files /\ pers[f] = Nil
    BY DEF Files0
  <2>2. d \in Good /\ Lone({d}) /\ FilesOf({d}) = {f}
    BY <1>3, <2>1, TopRenewed
  <2>3. ~Borne(f)
    BY <1>1, <2>1 DEF ThingsInv, Kept, Due
  <2>4. f \notin FilesOf(at[Room]) /\ f \notin FilesOf(at[p])
    BY <1>2, <2>3 DEF Borne
  <2>5. FilesOf(T) = FilesOf(at[Room]) \cup {f} /\ Lone(T) /\ T \subseteq Good
    <3>1. FilesOf(T) = FilesOf(at[Room]) \cup FilesOf({d})
      BY FilesOfUnion
    <3>2. FilesOf(at[Room]) \cap FilesOf({d}) = {}
      BY <2>2, <2>4
    <3>3. Lone(T)
      BY <1>2, <2>2, <3>2, PutIn
    <3> QED BY <1>2, <2>2, <3>1, <3>3
  <2>6. at' = [at EXCEPT ![p] = {}, ![Room] = T]
    BY <1>2, <1>5
  <2>7. Saved(body) \in OnFile /\ FilesOf(at[p]) \subseteq Files
    BY <1>2, <1>3, SavedIs, FilesTyped
  <2>8. /\ job' \in Job /\ job' # Nil /\ job'.kind = "die" /\ job'.p = p /\ job'.stage = "persist"
        /\ job'.erase = FilesOf(at[p]) /\ job'.put = {Saved(body)} /\ job'.into = f
    BY <1>5, <2>1, <2>7, JobIs
  <2>9. FilesOf({}) = {} /\ Lone({})
    BY NothingKeeps
  <2>10. /\ Single'
         /\ \A e : Borne(e)' <=>
              \/ e \in FilesOf({}) \cup FilesOf(T)
              \/ Borne(e) /\ e \notin FilesOf(at[p]) \cup FilesOf(at[Room])
    <3>1. /\ Single /\ FilesOf({}) \cap FilesOf(T) = {}
          /\ \A e \in FilesOf({}) \cup FilesOf(T) : e \in FilesOf(at[p]) \cup FilesOf(at[Room]) \/ ~Borne(e)
      BY <2>3, <2>5, <2>9 DEF ThingsInv
    <3>2. /\ p \in Holders /\ Room \in Holders /\ p # Room /\ DOMAIN at = Holders
          /\ Lone({}) /\ Lone(T) /\ at' = [at EXCEPT ![p] = {}, ![Room] = T]
      BY <1>2, <2>5, <2>6, <2>9
    <3> QED BY ONLY <3>1, <3>2, TwoHolders
  <2>11. \A e : Borne(e)' <=> e = f \/ (Borne(e) /\ e \notin FilesOf(at[p]))
    <3>1. \A e \in FilesOf(at[Room]) : Borne(e) /\ e \notin FilesOf(at[p])
      BY <1>2 DEF Borne
    <3> QED BY <2>5, <2>9, <2>10, <3>1
  <2>12. Kept'
    <3> SUFFICES ASSUME NEW e \in Files PROVE Borne(e)' <=> Due(e)'
      BY DEF Kept
    <3>1. Borne(e) <=> pers[e] # Nil
      BY <1>1 DEF ThingsInv, Kept, Due
    <3> QED BY <1>1, <2>4, <2>8, <2>11, <3>1 DEF Due
  <2>13. Shape'
    <3>1. at' \in [Holders -> SUBSET Good]
      BY <2>5, <2>6 DEF ThingsInv, Shape
    <3>2. \A q \in Players : IsFiniteSet(at'[q])
      BY <1>2, <2>6, FS_EmptySet, KindAssumption DEF ThingsInv, Shape, Holders
    <3>3. job'.put \subseteq OnFile /\ IsFiniteSet(job'.put)
      <4>1. IsFiniteSet({Saved(body)}) /\ {Saved(body)} \subseteq OnFile
        BY <2>7, FS_Singleton
      <4> QED BY <2>8, <4>1
    <3> QED BY <1>1, <2>8, <3>1, <3>2, <3>3 DEF ThingsInv, Shape
  <2>14. OnlyInside'
    <3>1. \A q \in Players \ inside : q \in Holders /\ q # Room /\ q # p
      BY <1>1, KindAssumption DEF Holders
    <3> QED BY <1>1, <1>2, <2>6, <3>1 DEF ThingsInv, OnlyInside
  <2>15. JobKnown'
    <3>1. \E y \in OnFile : job'.put = {y}
      BY <2>7, <2>8
    <3>2. job'.into # Nil
      BY <2>1, <2>8, NilAssumption
    <3> QED BY <2>4, <2>8, <3>1, <3>2 DEF JobKnown
  <2> QED BY <2>10, <2>12, <2>13, <2>14, <2>15 DEF ThingsInv
<1> QED BY <1>4, <1>5

-----------------------------------------------------------------------------
(* The writes; memory stays as it is, but for the player who quits.        *)
LEMMA DeleteKeeps == ASSUME ThingsInv, NEW p \in Players, Delete(p) PROVE ThingsInv'
<1>1. /\ Idle /\ known' = known \ {p} /\ inv' = [inv EXCEPT ![p] = Nil]
      /\ UNCHANGED <<pers, up, inside, at, job>>
  BY DEF Delete
<1>2. Shape'
  BY <1>1 DEF ThingsInv, Shape
<1>3. OnlyInside' /\ JobKnown'
  BY <1>1 DEF ThingsInv, OnlyInside, JobKnown
<1>4. Single' /\ Kept'
  BY <1>1, NothingMoves DEF ThingsInv, Kept, Due
<1> QED BY <1>2, <1>3, <1>4 DEF ThingsInv

(* What a handler at work has.                                             *)
LEMMA JobHas ==
  ASSUME ThingsInv, job # Nil
  PROVE  /\ job \in Job /\ up /\ job.put \in SUBSET Thing
         /\ job.erase \subseteq Files /\ job.put \subseteq OnFile /\ IsFiniteSet(job.put)
         /\ job.stage \in {"persist", "player", "contents"} /\ job.into \in Files \cup {Nil}
         /\ job.p \in Players \cup {Nil} /\ job.kind \in {"save", "quit", "die", "tick", "extract"}
BY DEF ThingsInv, Shape, OnlyInside, Job

LEMMA EraseKeeps == ASSUME ThingsInv, EraseFile PROVE ThingsInv'
<1>1. job # Nil /\ job.stage # "player" /\ UNCHANGED <<known, inv, up, inside, at>>
  BY DEF EraseFile
<1>2. PICK f \in job.erase :
        /\ pers' = [pers EXCEPT ![f] = Nil]
        /\ job' = IF job.kind = "extract" /\ job.erase = {f} THEN Nil
                  ELSE [job EXCEPT !.erase = @ \ {f}]
  BY DEF EraseFile
<1>3. /\ job \in Job /\ up /\ job.erase \subseteq Files
      /\ job.put \subseteq OnFile /\ IsFiniteSet(job.put) /\ f \in Files
  BY <1>1, JobHas
<1>4. JobKnown
  BY DEF ThingsInv
<1>5. pers' \in [Files -> OnFile \cup {Nil}] /\ pers'[f] = Nil /\ \A e \in Files \ {f} : pers'[e] = pers[e]
  BY <1>2, <1>3 DEF ThingsInv, Shape
<1>6. Single' /\ \A e : Borne(e)' <=> Borne(e)
  BY <1>1, NothingMoves DEF ThingsInv
<1>7. \A e \in Files : Borne(e) <=> e \notin job.erase /\ (e = job.into \/ pers[e] # Nil)
  BY <1>1, <1>3 DEF ThingsInv, Kept, Due
<1>8. CASE job.kind = "extract" /\ job.erase = {f}
  <2>1. job' = Nil /\ job.into = Nil
    BY <1>1, <1>2, <1>4, <1>8 DEF JobKnown
  <2>2. Shape'
    BY <1>1, <1>5, <2>1 DEF ThingsInv, Shape
  <2>3. OnlyInside' /\ JobKnown'
    BY <1>1, <1>3, <2>1 DEF ThingsInv, OnlyInside, JobKnown
  <2>4. Kept'
    <3> SUFFICES ASSUME NEW e \in Files PROVE Borne(e)' <=> Due(e)'
      BY DEF Kept
    <3>1. e # job.into
      BY <2>1, NilAssumption
    <3> QED BY <1>5, <1>6, <1>7, <1>8, <2>1, <3>1 DEF Due
  <2> QED BY <1>6, <2>2, <2>3, <2>4 DEF ThingsInv
<1>9. CASE ~(job.kind = "extract" /\ job.erase = {f})
  <2>1. /\ job' \in Job /\ job' # Nil /\ job'.erase = job.erase \ {f}
        /\ job'.kind = job.kind /\ job'.p = job.p /\ job'.stage = job.stage
        /\ job'.put = job.put /\ job'.into = job.into
    <3>1. job' = [job EXCEPT !.erase = @ \ {f}]
      BY <1>2, <1>9
    <3> QED BY <1>3, <3>1, NilAssumption DEF Job
  <2>2. Shape'
    BY <1>1, <1>3, <1>5, <2>1 DEF ThingsInv, Shape
  <2>3. OnlyInside'
    BY <1>1, <1>3 DEF ThingsInv, OnlyInside
  <2>4. JobKnown'
    BY <1>1, <1>4, <2>1 DEF JobKnown
  <2>5. Kept'
    <3> SUFFICES ASSUME NEW e \in Files PROVE Borne(e)' <=> Due(e)'
      BY DEF Kept
    <3>1. e = f => e # job.into
      BY <1>1, <1>2, <1>3, <1>4, NilAssumption DEF JobKnown
    <3> QED BY <1>5, <1>6, <1>7, <2>1, <3>1 DEF Due
  <2> QED BY <1>6, <2>2, <2>3, <2>4, <2>5 DEF ThingsInv
<1> QED BY <1>8, <1>9

LEMMA WritePersistentKeeps == ASSUME ThingsInv, WritePersistent PROVE ThingsInv'
<1>1. /\ job # Nil /\ job.stage = "persist" /\ job.erase = {} /\ job.into # Nil
      /\ pers' = [pers EXCEPT ![job.into] = CHOOSE t \in job.put : TRUE]
      /\ job' = AfterPersist /\ UNCHANGED <<known, inv, up, inside, at>>
  BY DEF WritePersistent, At
<1>2. JobKnown /\ up /\ job.into \in Files /\ job.p \in Players \cup {Nil}
  BY <1>1, JobHas DEF ThingsInv
<1>3. PICK x \in OnFile : job.put = {x}
  BY <1>1, <1>2 DEF JobKnown
<1>4. pers' = [pers EXCEPT ![job.into] = x] /\ x # Nil
  <2>1. (CHOOSE t \in job.put : TRUE) = x
    BY <1>3
  <2>2. x \in Thing
    BY OnFileIs, GoodHas
  <2> QED BY <1>1, <2>1, <2>2, NilAssumption
<1>5. pers' \in [Files -> OnFile \cup {Nil}] /\ \A e \in Files : pers'[e] # Nil <=> e = job.into \/ pers[e] # Nil
  BY <1>2, <1>4 DEF ThingsInv, Shape
<1>6. Single' /\ \A e : Borne(e)' <=> Borne(e)
  BY <1>1, NothingMoves DEF ThingsInv
<1>7. \A e \in Files : Borne(e) <=> pers'[e] # Nil
  BY <1>1, <1>2, <1>5 DEF ThingsInv, Kept, Due
<1>8. \/ job' = Nil
      \/ /\ job' \in Job /\ job' # Nil /\ job'.kind = "die" /\ job'.p = job.p /\ job'.stage = "player"
         /\ job'.erase = {} /\ job'.put = {} /\ job'.into = Nil /\ job.p \in Players
  <2>1. CASE job.kind = "die"
    <3>1. job' = NewJob("die", job.p, "player", {}, {}, Nil) /\ job.p \in Players
      BY <1>1, <1>2, <2>1 DEF AfterPersist, JobKnown
    <3> QED BY <3>1, JobIs
  <2>2. CASE job.kind # "die"
    BY <1>1, <2>2 DEF AfterPersist
  <2> QED BY <2>1, <2>2
<1>9. Shape'
  <2>1. job' \in Job \cup {Nil} /\ (job' # Nil => job'.put \subseteq OnFile /\ IsFiniteSet(job'.put))
    BY <1>8, FS_EmptySet
  <2> QED BY <1>1, <1>5, <2>1 DEF ThingsInv, Shape
<1>10. OnlyInside' /\ JobKnown'
  <2>1. OnlyInside'
    BY <1>1, <1>2 DEF ThingsInv, OnlyInside
  <2>2. JobKnown'
    BY <1>8 DEF JobKnown
  <2> QED BY <2>1, <2>2
<1>11. Kept'
  <2> SUFFICES ASSUME NEW e \in Files PROVE Borne(e)' <=> Due(e)'
    BY DEF Kept
  <2> QED BY <1>6, <1>7, <1>8, NilAssumption DEF Due
<1> QED BY <1>6, <1>9, <1>10, <1>11 DEF ThingsInv

LEMMA WritePlayerKeeps == ASSUME ThingsInv, WritePlayer PROVE ThingsInv'
<1>1. /\ job # Nil /\ job.stage = "player" /\ known' = known \cup {job.p}
      /\ job' = [job EXCEPT !.stage = "contents"] /\ UNCHANGED <<inv, pers, up, inside, at>>
  BY DEF WritePlayer, At
<1>2. JobKnown /\ up /\ job \in Job /\ job.put \subseteq OnFile /\ IsFiniteSet(job.put)
  BY <1>1, JobHas DEF ThingsInv
<1>3. job.p \in Players
  BY <1>1, <1>2 DEF JobKnown
<1>4. /\ job' \in Job /\ job' # Nil /\ job'.stage = "contents"
      /\ job'.kind = job.kind /\ job'.p = job.p /\ job'.erase = job.erase
      /\ job'.put = job.put /\ job'.into = job.into
  BY <1>1, <1>2, NilAssumption DEF Job
<1>5. Shape'
  BY <1>1, <1>2, <1>3, <1>4 DEF ThingsInv, Shape
<1>6. OnlyInside' /\ JobKnown'
  <2>1. OnlyInside'
    BY <1>1, <1>2 DEF ThingsInv, OnlyInside
  <2>2. JobKnown'
    BY <1>1, <1>2, <1>4 DEF JobKnown
  <2> QED BY <2>1, <2>2
<1>7. Single' /\ Kept'
  BY <1>1, <1>4, NothingMoves DEF ThingsInv, Kept, Due
<1> QED BY <1>5, <1>6, <1>7 DEF ThingsInv

LEMMA SaveContentsKeeps == ASSUME ThingsInv, SaveContents PROVE ThingsInv'
<1> PICK p : p = job.p
  OBVIOUS
<1>1. /\ job # Nil /\ job.stage = "contents" /\ job.erase = {}
      /\ inv' = [inv EXCEPT ![p] = NewInv(p)]
      /\ IF job.kind = "quit" THEN Vanish(p) ELSE UNCHANGED <<inside, at>>
      /\ job' = Nil /\ UNCHANGED <<known, pers, up>>
  BY DEF SaveContents, At
<1>2. JobKnown /\ up /\ job \in Job /\ job.put \subseteq OnFile /\ IsFiniteSet(job.put)
  BY <1>1, JobHas DEF ThingsInv
<1>3. /\ p \in Players /\ job.kind \in {"save", "quit", "die"} /\ job.into = Nil
      /\ job.kind = "quit" => p \in inside /\ FilesOf(at[p]) = {}
  BY <1>1, <1>2 DEF JobKnown
<1>4. p \in Holders /\ p # Room /\ DOMAIN at = Holders
  BY <1>3, KindAssumption DEF Holders, ThingsInv, Shape
<1>5. inv' \in [Players -> { S \in SUBSET OnFile : IsFiniteSet(S) } \cup {Nil}]
  <2> DEFINE Few == { S \in SUBSET OnFile : IsFiniteSet(S) } \cup {Nil}
  <2>1. {} \in Few /\ Nil \in Few /\ job.put \in Few /\ inv[p] \in Few /\ inv \in [Players -> Few]
    BY <1>2, <1>3, FS_EmptySet DEF ThingsInv, Shape
  <2>2. NewInv(p) \in Few
    <3> HIDE DEF Few
    <3>1. CASE job.kind = "die"
      BY <2>1, <3>1 DEF NewInv
    <3>2. CASE job.kind # "die" /\ at[p] = {}
      <4>1. job.put = {}
        BY <1>1, <1>2, <1>3, <3>2 DEF JobKnown
      <4>2. NewInv(p) = Nil
        BY <3>2, <4>1 DEF NewInv
      <4> QED BY <2>1, <4>2
    <3>3. CASE job.kind # "die" /\ at[p] # {} /\ job.put # {}
      <4>1. NewInv(p) = job.put
        BY <3>3 DEF NewInv
      <4> QED BY <2>1, <4>1
    <3>4. CASE job.kind # "die" /\ at[p] # {} /\ job.put = {}
      <4>1. NewInv(p) = inv[p]
        BY <3>4 DEF NewInv
      <4> QED BY <2>1, <4>1
    <3> QED BY <3>1, <3>2, <3>3, <3>4
  <2> HIDE DEF Few
  <2>3. inv' \in [Players -> Few]
    BY <1>1, <2>1, <2>2
  <2> QED BY <2>3 DEF Few
<1>6. \A e \in Files : Borne(e) <=> pers[e] # Nil
  <2>1. \A e \in Files : e # job.into
    BY <1>3, NilAssumption
  <2> QED BY <1>1, <1>2, <2>1 DEF ThingsInv, Kept, Due
<1>7. /\ at' \in [Holders -> SUBSET Good] /\ \A q \in Players : IsFiniteSet(at'[q])
      /\ inside' \subseteq Players /\ OnlyInside' /\ Single' /\ \A e : Borne(e)' <=> Borne(e)
  <2>1. CASE job.kind = "quit"
    <3>1. at' = [at EXCEPT ![p] = {}] /\ inside' = inside \ {p} /\ up'
      BY <1>1, <1>2, <2>1 DEF Vanish
    <3>2. FilesOf({}) = {} /\ Lone({})
      BY NothingKeeps
    <3>3. Single' /\ \A e : Borne(e)' <=> Borne(e)
      <4>1. Single /\ \A e \in FilesOf({}) : e \in FilesOf(at[p]) \/ ~Borne(e)
        BY <3>2 DEF ThingsInv
      <4>2. /\ Single'
            /\ \A e : Borne(e)' <=> e \in FilesOf({}) \/ (Borne(e) /\ e \notin FilesOf(at[p]))
        BY <1>4, <3>1, <3>2, <4>1, OneHolder
      <4> QED BY <1>3, <2>1, <3>2, <4>2
    <3>4. at' \in [Holders -> SUBSET Good]
      BY <3>1 DEF ThingsInv, Shape
    <3>5. \A q \in Players : IsFiniteSet(at'[q])
      BY <1>4, <3>1, FS_EmptySet DEF ThingsInv, Shape, Holders
    <3>6. OnlyInside' /\ inside' \subseteq Players
      <4>1. \A q \in Players \ inside' : at'[q] = {}
        BY <1>4, <3>1 DEF ThingsInv, OnlyInside, Shape, Holders
      <4> QED BY <3>1, <4>1 DEF OnlyInside, ThingsInv, Shape
    <3> QED BY <3>3, <3>4, <3>5, <3>6
  <2>2. CASE job.kind # "quit"
    <3>1. UNCHANGED <<inside, at, up>>
      BY <1>1, <2>2
    <3>2. OnlyInside'
      BY <1>2, <3>1 DEF ThingsInv, OnlyInside
    <3> QED BY <3>1, <3>2, NothingMoves DEF ThingsInv, Shape
  <2> QED BY <2>1, <2>2
<1>8. Shape' /\ JobKnown'
  BY <1>1, <1>5, <1>7 DEF ThingsInv, Shape, JobKnown
<1>9. Kept'
  <2>1. job' = Nil /\ pers' = pers
    BY <1>1
  <2> QED BY <1>6, <1>7, <2>1 DEF Kept, Due
<1> QED BY <1>7, <1>8, <1>9 DEF ThingsInv

-----------------------------------------------------------------------------
(* Nothing of the memory survives, and a boot reads every persistent file. *)
LEMMA CrashKeeps == ASSUME ThingsInv, Crash PROVE ThingsInv'
<1>1. /\ up' = FALSE /\ inside' = {} /\ job' = Nil /\ UNCHANGED <<known, inv, pers>>
      /\ at' = [h \in Holders |-> {}]
  BY DEF Crash
<1>2. \A h \in Holders : at'[h] = {}
  BY <1>1
<1>3. Shape'
  <2>1. at' \in [Holders -> SUBSET Good]
    BY <1>1
  <2>2. \A p \in Players : IsFiniteSet(at'[p])
    BY <1>2, FS_EmptySet DEF Holders
  <2> QED BY <1>1, <2>1, <2>2 DEF ThingsInv, Shape
<1>4. OnlyInside' /\ JobKnown'
  BY <1>1, <1>2 DEF OnlyInside, JobKnown, Holders
<1>5. Single'
  BY <1>2, NothingKeeps DEF Single
<1>6. Kept'
  BY <1>1 DEF Kept
<1> QED BY <1>3, <1>4, <1>5, <1>6 DEF ThingsInv

LEMMA BootKeeps == ASSUME ThingsInv, Boot PROVE ThingsInv'
<1> PICK full : full = Files \ Files0
  OBVIOUS
<1>1. ~up /\ up' = TRUE /\ UNCHANGED <<known, inv, pers, inside, job>>
  BY DEF Boot
<1>2. PICK last \in [full -> Items \cup Corpses] :
        /\ \A f \in full : last[f] \in LastRead(pers[f])
        /\ at' = [at EXCEPT ![Room] = { Revived(pers[f], f, last[f]) : f \in full }]
  BY DEF Boot
<1> PICK made : made = [f \in full |-> Revived(pers[f], f, last[f])]
  OBVIOUS
<1> PICK S : S = { made[f] : f \in full }
  OBVIOUS
<1>3. at' = [at EXCEPT ![Room] = S]
  <2>1. S = { Revived(pers[f], f, last[f]) : f \in full }
    OBVIOUS
  <2> QED BY <1>2, <2>1
<1>4. \A f : f \in full <=> f \in Files /\ pers[f] # Nil
  BY DEF Files0
<1>5. ASSUME NEW f \in full
      PROVE  made[f] \in Good /\ Lone({made[f]}) /\ FilesOf({made[f]}) = {f}
  <2>1. pers[f] \in OnFile /\ f \in Files
    BY <1>4 DEF ThingsInv, Shape
  <2> PICK t, late, d : t = pers[f] /\ late = last[f] /\ d = made[f]
    OBVIOUS
  <2>2. t \in OnFile /\ f \in Files /\ late \in LastRead(t) /\ d = Revived(t, f, late)
    BY <1>2, <2>1
  <2>3. d \in Good /\ Lone({d}) /\ FilesOf({d}) = {f}
    BY ONLY <2>2, RevivedKeeps
  <2> QED BY <2>3
<1>6. FilesOf(S) = full /\ Lone(S)
  <2>1. ASSUME NEW t, NEW u, NEW f, In(S, t, u, f)
        PROVE  f \in full /\ t = made[f]
    <3>1. PICK g \in full : t = made[g]
      BY <2>1 DEF In
    <3>2. In({t}, t, u, f)
      BY <2>1 DEF In
    <3>3. f \in FilesOf({t})
      BY <3>2, FilesAre
    <3> QED BY <1>5, <3>1, <3>3
  <2>2. ASSUME NEW f \in full PROVE f \in FilesOf(S)
    <3>1. f \in FilesOf({made[f]})
      BY <1>5
    <3>2. PICK t, u : In({made[f]}, t, u, f)
      BY <3>1, FilesAre
    <3>3. In(S, t, u, f)
      BY <3>2 DEF In
    <3> QED BY <3>3, FilesAre
  <2>3. \A f : f \in FilesOf(S) <=> \E t, u : In(S, t, u, f)
    BY FilesAre
  <2>4. \A f : f \in FilesOf(S) <=> f \in full
    BY <2>1, <2>2, <2>3
  <2>5. Lone(S)
    <3> SUFFICES ASSUME NEW f, NEW t, NEW u, NEW r, NEW v, In(S, t, u, f), In(S, r, v, f)
                 PROVE  t = r /\ u = v
      BY DEF Lone
    <3>1. f \in full /\ t = made[f] /\ r = made[f]
      BY <2>1
    <3>2. Lone({t}) /\ In({t}, t, u, f) /\ In({t}, t, v, f)
      BY <1>5, <3>1 DEF In
    <3> QED BY <3>1, <3>2 DEF Lone
  <2> QED BY <2>4, <2>5
<1>7. /\ \A h \in Holders : at[h] = {} /\ FilesOf(at[h]) = {}
      /\ job = Nil /\ inside = {} /\ Room \in Holders /\ Room \notin Players /\ DOMAIN at = Holders
  <2>1. \A h \in Holders : at[h] = {}
    BY <1>1 DEF ThingsInv, OnlyInside, Holders
  <2> QED BY <1>1, <2>1, NothingKeeps, KindAssumption DEF ThingsInv, OnlyInside, Shape, Holders
<1>8. Shape'
  <2>1. S \subseteq Good
    BY <1>5
  <2>2. at' \in [Holders -> SUBSET Good]
    BY <1>3, <2>1 DEF ThingsInv, Shape
  <2>3. \A p \in Players : IsFiniteSet(at'[p])
    BY <1>3, <1>7 DEF ThingsInv, Shape, Holders
  <2> QED BY <1>1, <2>2, <2>3 DEF ThingsInv, Shape
<1>9. OnlyInside' /\ JobKnown'
  <2>1. \A p \in Players : at'[p] = {}
    BY <1>3, <1>7 DEF Holders
  <2> QED BY <1>1, <1>7, <2>1 DEF OnlyInside, JobKnown
<1>10. Single' /\ \A f : Borne(f)' <=> f \in full
  <2>1. \A f : ~Borne(f)
    BY <1>7 DEF Borne
  <2>2. /\ Single /\ Room \in Holders /\ Lone(S) /\ DOMAIN at = Holders /\ at' = [at EXCEPT ![Room] = S]
        /\ \A f \in FilesOf(S) : f \in FilesOf(at[Room]) \/ ~Borne(f)
    BY <1>3, <1>6, <1>7, <2>1 DEF ThingsInv
  <2>3. /\ Single'
        /\ \A f : Borne(f)' <=> f \in FilesOf(S) \/ (Borne(f) /\ f \notin FilesOf(at[Room]))
    BY ONLY <2>2, OneHolder
  <2> QED BY <1>6, <2>1, <2>3
<1>11. Kept'
  BY <1>1, <1>4, <1>7, <1>10 DEF Kept, Due
<1> QED BY <1>8, <1>9, <1>10, <1>11 DEF ThingsInv

(* All steps together.                                                     *)
LEMMA ThingsStepKeepsInv == ThingsInv /\ [ThingsNext]_thingsVars => ThingsInv'
<1> SUFFICES ASSUME ThingsInv, [ThingsNext]_thingsVars PROVE ThingsInv'
  OBVIOUS
<1>1. CASE UNCHANGED thingsVars
  <2>1. /\ UNCHANGED <<known, inv, pers, up, inside, at, job>>
    BY <1>1 DEF thingsVars
  <2>2. Shape' /\ OnlyInside' /\ JobKnown'
    BY <2>1 DEF ThingsInv, Shape, OnlyInside, JobKnown
  <2>3. Single' /\ Kept'
    BY <2>1, NothingMoves DEF ThingsInv, Kept, Due
  <2> QED BY <2>2, <2>3 DEF ThingsInv
<1>2. ASSUME NEW p \in Players,
             Enter(p) \/ Save(p) \/ Leave(p) \/ Die(p) \/ Delete(p)
      PROVE  ThingsInv'
  <2>1. CASE Enter(p)
    BY <2>1, EnterKeeps
  <2>2. CASE Save(p)
    BY <2>2, StartSaveKeeps DEF Save
  <2>3. CASE Leave(p)
    BY <2>3, LeaveKeeps
  <2>4. CASE Die(p)
    BY <2>4, DieKeeps
  <2>5. CASE Delete(p)
    BY <2>5, DeleteKeeps
  <2> QED BY <1>2, <2>1, <2>2, <2>3, <2>4, <2>5
<1>3. ASSUME NEW p \in Players, NEW t \in at[Room], Get(p, t) PROVE ThingsInv'
  <2>1. Idle /\ p \in inside /\ Move(Room, p, t)
    BY <1>3 DEF Get
  <2>2. Room \in Holders /\ p \in Holders /\ {Room, p} = {p, Room}
    BY <2>1, RoomAndPlayer
  <2> QED BY <2>1, <2>2, MoveKeeps
<1>4. ASSUME NEW p \in Players, NEW t \in at[p], Drop(p, t) PROVE ThingsInv'
  <2>1. Idle /\ p \in inside /\ Move(p, Room, t)
    BY <1>4 DEF Drop
  <2>2. Room \in Holders /\ p \in Holders /\ {p, Room} = {p, Room}
    BY <2>1, RoomAndPlayer
  <2> QED BY <1>4, <2>1, <2>2, MoveKeeps
<1>5. ASSUME NEW p \in Players, NEW c \in at[Room], NEW i \in c.holds, Loot(p, c, i) PROVE ThingsInv'
  BY <1>5, LootKeeps
<1>6. ASSUME NEW p \in Players, NEW i \in at[p], NEW c \in at[Room], Put(p, c, i) PROVE ThingsInv'
  BY <1>6, PutKeeps
<1>7. ASSUME NEW h \in Holders, NEW t \in at[h], Tick(h, t) \/ Decay(h, t) PROVE ThingsInv'
  BY <1>7, TickKeeps, DecayKeeps
<1>8. ASSUME NEW h \in Holders, NEW t \in at[h], NEW i \in t.holds, TickInside(h, t, i) PROVE ThingsInv'
  BY <1>8, TickInsideKeeps
<1>9. CASE EraseFile \/ WritePersistent \/ WritePlayer \/ SaveContents \/ Crash \/ Boot
  BY <1>9, EraseKeeps, WritePersistentKeeps, WritePlayerKeeps, SaveContentsKeeps, CrashKeeps, BootKeeps
<1> QED BY <1>1, <1>2, <1>3, <1>4, <1>5, <1>6, <1>7, <1>8, <1>9 DEF ThingsNext

(* ThingsInv holds in and between all handlers.                            *)
THEOREM ThingsInductive == ThingsSpec => []ThingsInv
<1>1. ThingsInv /\ [ThingsNext]_thingsVars => ThingsInv'
  BY ThingsStepKeepsInv
<1> QED BY <1>1, ThingsStart, PTL DEF ThingsSpec

(* Files and things keep their shape: nothing with UNIT_FL_NOSAVE, and no  *)
(* persist_type, ever gets to the disk (enlist).                           *)
THEOREM ThingsTypeCorrect == ThingsSpec => []ThingsOK
BY ThingsInductive, TypeFollows, PTL

(* Between two handlers every persistent file is kept by exactly one unit, *)
(* and every such unit has its file, however things were moved, saved,     *)
(* buried, extracted and read again, and wherever the server died before   *)
(* (persist_intern, send_saves, persist_boot).                             *)
THEOREM OneKeeper == ThingsSpec => []OneOwner
BY ThingsInductive, OwnerFollows, PTL

(* More things, more names.                                                *)
LEMMA NamesGrow == ASSUME NEW S, NEW T, S \subseteq T PROVE Names(S) \subseteq Names(T)
BY DEF Names, UnitsOf

(* What is on the disk: in the inventories i and the persistent files q.   *)
Disk(i, q, F) ==
  UNION ({ i[p] : p \in { r \in Players : i[r] # Nil } } \cup { {q[f]} : f \in F })
LEMMA DiskHas ==
  ASSUME NEW i, NEW q, NEW F, NEW D, D = Disk(i, q, F)
  PROVE  \A t : t \in D <=> \/ \E p \in Players : i[p] # Nil /\ t \in i[p]
                            \/ \E f \in F : t = q[f]
<1> DEFINE A == { i[p] : p \in { r \in Players : i[r] # Nil } }
           B == { {q[f]} : f \in F }
<1>1. \A s : s \in A <=> \E p \in Players : i[p] # Nil /\ s = i[p]
  OBVIOUS
<1>2. \A s : s \in B <=> \E f \in F : s = {q[f]}
  OBVIOUS
<1>3. D = UNION (A \cup B)
  BY DEF Disk
<1> HIDE DEF A, B
<1>4. \A t : t \in D <=> (\E s \in A : t \in s) \/ \E s \in B : t \in s
  BY <1>3
<1>5. \A t : (\E s \in A : t \in s) <=> \E p \in Players : i[p] # Nil /\ t \in i[p]
  BY <1>1
<1>6. \A t : (\E s \in B : t \in s) <=> \E f \in F : t = q[f]
  <2>1. ASSUME NEW s \in B, NEW t \in s PROVE \E f \in F : t = q[f]
    BY <1>2
  <2>2. ASSUME NEW f \in F PROVE \E s \in B : q[f] \in s
    <3>1. {q[f]} \in B
      BY <1>2
    <3> QED BY <3>1
  <2> QED BY <2>1, <2>2
<1> QED BY <1>4, <1>5, <1>6

LEMMA StayingHas ==
  \A t : t \in Staying => \/ \E p \in Players : inv[p] # Nil /\ t \in inv[p]
                          \/ \E f \in Files \ job.erase : pers[f] # Nil /\ t = pers[f]
<1>1. \A t : t \in Staying <=> \/ \E p \in Players : inv[p] # Nil /\ t \in inv[p]
                               \/ \E f \in Files \ (Files0 \cup job.erase) : t = pers[f]
  <2>1. Staying = Disk(inv, pers, Files \ (Files0 \cup job.erase))
    BY DEF Staying, Disk
  <2> QED BY <2>1, DiskHas
<1> QED BY <1>1 DEF Files0

(* A write of a handler at work, by its kind.                              *)
LEMMA SavesKeep ==
  ASSUME ThingsInv, job # Nil, [ThingsNext]_thingsVars
  PROVE  Names(Staying) \cap Names(job.put) \subseteq Names(OnDisk')
<1>1. \A t : t \in OnDisk' <=> \/ \E p \in Players : inv'[p] # Nil /\ t \in inv'[p]
                               \/ \E f \in Files : pers'[f] # Nil /\ t = pers'[f]
  <2> PICK i, q, F, D : i = inv' /\ q = pers' /\ F = Files \ Files0' /\ D = OnDisk'
    OBVIOUS
  <2>1. D = Disk(i, q, F)
    BY DEF OnDisk, Disk
  <2>2. \A t : t \in D <=> \/ \E p \in Players : i[p] # Nil /\ t \in i[p]
                           \/ \E f \in F : t = q[f]
    BY <2>1, DiskHas
  <2>3. \A f : f \in F <=> f \in Files /\ q[f] # Nil
    BY DEF Files0
  <2> QED BY <2>2, <2>3
<1>2. CASE UNCHANGED <<inv, pers>>
  <2>1. Staying \subseteq OnDisk'
    BY <1>1, <1>2, StayingHas
  <2> QED BY <2>1, NamesGrow
<1>3. CASE EraseFile
  <2>1. PICK f \in job.erase : pers' = [pers EXCEPT ![f] = Nil] /\ inv' = inv
    BY <1>3 DEF EraseFile
  <2>2. \A e \in Files \ job.erase : pers'[e] = pers[e]
    BY <2>1 DEF ThingsInv, Shape
  <2>3. Staying \subseteq OnDisk'
    BY <1>1, <2>1, <2>2, StayingHas
  <2> QED BY <2>3, NamesGrow
<1>4. CASE WritePersistent
  <2>1. /\ job.stage = "persist" /\ job.into # Nil
        /\ pers' = [pers EXCEPT ![job.into] = CHOOSE t \in job.put : TRUE]
    BY <1>4 DEF WritePersistent, At
  <2>2. PICK x \in OnFile : job.put = {x}
    BY <2>1 DEF ThingsInv, JobKnown
  <2>3. job.into \in Files /\ pers'[job.into] = x /\ x # Nil
    <3>1. job.into \in Files
      BY <2>1, JobHas
    <3>2. (CHOOSE t \in job.put : TRUE) = x
      BY <2>2
    <3>3. x \in Thing
      BY OnFileIs, GoodHas
    <3> QED BY <2>1, <3>1, <3>2, <3>3, NilAssumption DEF ThingsInv, Shape
  <2>4. job.put \subseteq OnDisk'
    BY <1>1, <2>2, <2>3
  <2> QED BY <2>4, NamesGrow
<1>5. CASE SaveContents
  <2> PICK p : p = job.p
    OBVIOUS
  <2>1. job.stage = "contents" /\ inv' = [inv EXCEPT ![p] = NewInv(p)]
    BY <1>5 DEF SaveContents, At
  <2>2. /\ p \in Players /\ (job.kind = "die" => job.put = {})
        /\ job.kind # "die" /\ job.put # {} => at[p] # {}
    BY <2>1 DEF ThingsInv, JobKnown
  <2>3. CASE job.put = {}
    BY <2>3 DEF Names, UnitsOf
  <2>4. CASE job.put # {}
    <3>1. inv'[p] = job.put
      BY <2>1, <2>2, <2>4 DEF NewInv, ThingsInv, Shape
    <3>2. job.put # Nil
      <4>1. job.put \in SUBSET Stored
        BY JobHas DEF OnFile
      <4> QED BY <4>1, NilAssumption
    <3>3. job.put \subseteq OnDisk'
      BY <1>1, <2>2, <3>1, <3>2
    <3> QED BY <3>3, NamesGrow
  <2> QED BY <2>3, <2>4
<1>6. ~Idle /\ up
  BY JobHas DEF Idle
<1>7. CASE WritePlayer \/ Crash \/ UNCHANGED thingsVars
  BY <1>2, <1>7 DEF WritePlayer, Crash, thingsVars
<1>8. EraseFile \/ WritePersistent \/ SaveContents \/ WritePlayer \/ Crash \/ UNCHANGED thingsVars
  BY <1>6 DEF ThingsNext, Enter, Save, Leave, Die, Delete, Get, Loot, Drop, Put, Tick, Decay, TickInside, Boot
<1> QED BY <1>3, <1>4, <1>5, <1>7, <1>8

(* What a handler is about to save, and is on the disk in a file that it   *)
(* does not remove first, stays there until it is saved again: no crash    *)
(* between two of its writes loses it (raw_kill, save_player_contents).    *)
THEOREM SavedStays == ThingsSpec => DurableThroughSave
<1>1. ThingsInv /\ [ThingsNext]_thingsVars =>
        [job # Nil => Names(Staying) \cap Names(job.put) \subseteq Names(OnDisk')]_thingsVars
  BY SavesKeep
<1> QED BY <1>1, ThingsInductive, PTL DEF ThingsSpec, DurableThroughSave

-----------------------------------------------------------------------------
(* A function defined from its value one step nearer to where it begins    *)
(* exists.  Partial answers ...                                            *)
Answers(D, S, B, a, parent, step) ==
  {g \in UNION {[E -> S] : E \in SUBSET D} :
     \A x \in DOMAIN g :
       /\ x \in B => g[x] = a[x]
       /\ x \notin B => parent[x] \in DOMAIN g /\ g[x] = step[x][g[parent[x]]]}

Founded(D, B, parent) ==
  \A T \in SUBSET D : T # {} => \E x \in T : x \in B \/ parent[x] \notin T

Recursion(D, S, B, a, parent, step) ==
  /\ B \in SUBSET D /\ a \in [B -> S]
  /\ parent \in [D \ B -> D] /\ step \in [D \ B -> [S -> S]]
  /\ Founded(D, B, parent)

(* ... agree ...                                                           *)
LEMMA AnswersAgree ==
  ASSUME NEW D, NEW S, NEW B, NEW a, NEW parent, NEW step,
         Recursion(D, S, B, a, parent, step),
         NEW g \in Answers(D, S, B, a, parent, step),
         NEW h \in Answers(D, S, B, a, parent, step),
         NEW y \in DOMAIN g \cap DOMAIN h
  PROVE  g[y] = h[y]
<1> SUFFICES ASSUME g[y] # h[y] PROVE FALSE
  OBVIOUS
<1> DEFINE T == {x \in DOMAIN g \cap DOMAIN h : g[x] # h[x]}
<1>1. DOMAIN g \subseteq D
  BY DEF Answers
<1>2. T \in SUBSET D /\ T # {}
  BY <1>1
<1>3. PICK x \in T : x \in B \/ parent[x] \notin T
  BY <1>2 DEF Recursion, Founded
<1>4. CASE x \in B
  BY <1>3, <1>4 DEF Answers
<1>5. CASE x \notin B
  <2>1. parent[x] \in DOMAIN g \cap DOMAIN h /\ g[x] = step[x][g[parent[x]]] /\ h[x] = step[x][h[parent[x]]]
    BY <1>3, <1>5 DEF Answers
  <2>2. g[parent[x]] = h[parent[x]]
    BY <1>3, <1>5, <2>1
  <2> QED BY <1>3, <2>1, <2>2
<1> QED BY <1>4, <1>5

(* ... and there is one for everything.                                    *)
LEMMA Answered ==
  ASSUME NEW D, NEW S, NEW B, NEW a, NEW parent, NEW step,
         Recursion(D, S, B, a, parent, step),
         NEW x \in D
  PROVE  \E g \in Answers(D, S, B, a, parent, step) : x \in DOMAIN g
<1> DEFINE A == Answers(D, S, B, a, parent, step)
           T == {y \in D : \A g \in A : y \notin DOMAIN g}
<1> SUFFICES ASSUME T # {} PROVE FALSE
  OBVIOUS
<1>a. /\ B \in SUBSET D /\ a \in [B -> S]
      /\ parent \in [D \ B -> D] /\ step \in [D \ B -> [S -> S]]
  BY DEF Recursion
<1>1. PICK y \in T : y \in B \/ parent[y] \notin T
  BY DEF Recursion, Founded
<1>2. CASE y \in B
  <2> DEFINE g == [z \in {y} |-> a[z]]
  <2>1. g \in [{y} -> S] /\ {y} \in SUBSET D
    BY <1>a, <1>1, <1>2
  <2>2. g[y] = a[y]
    OBVIOUS
  <2> HIDE DEF g
  <2>3. g \in A
    <3> SUFFICES ASSUME NEW z \in {y}
                 PROVE  /\ z \in B => g[z] = a[z]
                        /\ z \notin B => parent[z] \in {y} /\ g[z] = step[z][g[parent[z]]]
      BY <2>1 DEF Answers
    <3> QED BY <1>2, <2>2
  <2> QED BY <1>1, <2>1, <2>3
<1>3. CASE y \notin B
  <2>1. PICK g \in A : parent[y] \in DOMAIN g
    BY <1>a, <1>1, <1>3
  <2>2. PICK E \in SUBSET D : g \in [E -> S]
    BY DEF Answers
  <2> DEFINE v == step[y][g[parent[y]]]
             h == [z \in E \cup {y} |-> IF z = y THEN v ELSE g[z]]
  <2>3. v \in S
    <3>1. g[parent[y]] \in S /\ step[y] \in [S -> S]
      BY <1>a, <1>1, <1>3, <2>1, <2>2
    <3> QED BY <3>1
  <2>4. y \notin E
    BY <2>2
  <2>5. h \in [E \cup {y} -> S] /\ E \cup {y} \in SUBSET D
    BY <2>2, <2>3
  <2>6. h[y] = v /\ \A z \in E : h[z] = g[z]
    BY <2>4
  <2> HIDE DEF h
  <2>7. h \in A
    <3> SUFFICES ASSUME NEW z \in E \cup {y}
                 PROVE  /\ z \in B => h[z] = a[z]
                        /\ z \notin B => parent[z] \in E \cup {y} /\ h[z] = step[z][h[parent[z]]]
      BY <2>5 DEF Answers
    <3>1. CASE z = y
      BY <1>3, <2>1, <2>2, <2>6, <3>1
    <3>2. CASE z \in E
      <4>1. /\ z \in B => g[z] = a[z]
            /\ z \notin B => parent[z] \in E /\ g[z] = step[z][g[parent[z]]]
        BY <2>2, <3>2 DEF Answers
      <4> QED BY <2>6, <3>2, <4>1
    <3> QED BY <3>1, <3>2
  <2> QED BY <2>5, <2>7
<1> QED BY <1>2, <1>3

LEMMA RecursionWorks ==
  ASSUME NEW D, NEW S, NEW B, NEW a, NEW parent, NEW step,
         Recursion(D, S, B, a, parent, step)
  PROVE  \E f \in [D -> S] : \A x \in D :
           f[x] = IF x \in B THEN a[x] ELSE step[x][f[parent[x]]]
<1> DEFINE A == Answers(D, S, B, a, parent, step)
           G(x) == CHOOSE g \in A : x \in DOMAIN g
           f == [x \in D |-> G(x)[x]]
<1>1. ASSUME NEW x \in D PROVE G(x) \in A /\ x \in DOMAIN G(x)
  <2>1. \E g \in A : x \in DOMAIN g
    BY Answered
  <2> QED BY <2>1
<1>2. ASSUME NEW x \in D, NEW g \in A, x \in DOMAIN g PROVE f[x] = g[x]
  <2>1. PICK h \in A : x \in DOMAIN h /\ f[x] = h[x]
    BY <1>1
  <2>2. x \in DOMAIN g \cap DOMAIN h
    BY <1>2, <2>1
  <2> HIDE DEF G, f
  <2>3. g[x] = h[x]
    BY <2>2, AnswersAgree
  <2> QED BY <2>1, <2>3
<1>3. f \in [D -> S]
  <2> SUFFICES ASSUME NEW x \in D PROVE G(x)[x] \in S
    OBVIOUS
  <2>1. G(x) \in A /\ x \in DOMAIN G(x)
    BY <1>1
  <2> HIDE DEF G
  <2> QED BY <2>1 DEF Answers
<1>4. ASSUME NEW x \in D PROVE f[x] = IF x \in B THEN a[x] ELSE step[x][f[parent[x]]]
  <2>1. PICK g \in A : x \in DOMAIN g
    BY Answered
  <2>2. f[x] = g[x]
    BY <1>2, <2>1
  <2> HIDE DEF f
  <2>3. CASE x \in B
    BY <2>1, <2>2, <2>3 DEF Answers
  <2>4. CASE x \notin B
    <3>1. parent[x] \in DOMAIN g /\ parent[x] \in D /\ g[x] = step[x][g[parent[x]]]
      BY <2>1, <2>4 DEF Answers, Recursion
    <3>2. f[parent[x]] = g[parent[x]]
      BY <1>2, <3>1
    <3> QED BY <2>2, <2>4, <3>1, <3>2
  <2> QED BY <2>3, <2>4
<1> HIDE DEF f
<1> QED BY <1>3, <1>4

-----------------------------------------------------------------------------
(* Nothing is inside itself.                                               *)
Rooted(W) ==
  \A T \in SUBSET AllUnits : T # {} => \E x \in T : W.in[x] \notin T

Forest == {W \in World : Rooted(W)}

LEMMA ContainersStep ==
  ASSUME NEW W \in Forest, NEW u \in AllUnits
  PROVE  /\ Containers(W, u) \subseteq AllUnits
         /\ Containers(W, u) = {u} \cup IF W.in[u] = Nowhere THEN {} ELSE Containers(W, W.in[u])
<1> DEFINE Eq(f) == f = [x \in AllUnits |->
                           {x} \cup IF W.in[x] = Nowhere THEN {} ELSE f[W.in[x]]]
           out == CHOOSE f : Eq(f)
           B == {x \in AllUnits : W.in[x] = Nowhere}
           a == [x \in B |-> {x}]
           parent == [x \in AllUnits \ B |-> W.in[x]]
           step == [x \in AllUnits \ B |-> [X \in SUBSET AllUnits |-> {x} \cup X]]
<1>1. \A x \in AllUnits : W.in[x] \in AllUnits \cup {Nowhere}
  BY DEF Forest, World
<1>2. Founded(AllUnits, B, parent)
  BY <1>1 DEF Founded, Forest, Rooted
<1>3. /\ B \in SUBSET AllUnits /\ a \in [B -> SUBSET AllUnits]
      /\ parent \in [AllUnits \ B -> AllUnits]
      /\ step \in [AllUnits \ B -> [SUBSET AllUnits -> SUBSET AllUnits]]
  BY <1>1
<1>4. PICK f \in [AllUnits -> SUBSET AllUnits] : \A x \in AllUnits :
        f[x] = IF x \in B THEN a[x] ELSE step[x][f[parent[x]]]
  <2>1. Recursion(AllUnits, SUBSET AllUnits, B, a, parent, step)
    BY <1>2, <1>3 DEF Recursion
  <2> HIDE DEF B, a, parent, step
  <2> QED BY <2>1, RecursionWorks
<1>5. Eq(f)
  <2> SUFFICES ASSUME NEW x \in AllUnits
               PROVE  f[x] = {x} \cup IF W.in[x] = Nowhere THEN {} ELSE f[W.in[x]]
    OBVIOUS
  <2>1. CASE x \in B
    BY <1>4, <2>1
  <2>2. CASE x \notin B
    <3>1. f[x] = step[x][f[parent[x]]] /\ parent[x] = W.in[x] /\ W.in[x] \in AllUnits
      BY <1>1, <1>4, <2>2
    <3>2. f[W.in[x]] \in SUBSET AllUnits
      BY <3>1
    <3> QED BY <2>2, <3>1, <3>2
  <2> QED BY <2>1, <2>2
<1>6. Eq(out)
  BY <1>5
<1>7. \A x \in AllUnits : Containers(W, x) = out[x]
  BY DEF Containers
<1> HIDE DEF out
<1>8. \A x \in AllUnits : out[x] = {x} \cup IF W.in[x] = Nowhere THEN {} ELSE out[W.in[x]]
  BY <1>6
<1>9. \A x \in AllUnits : out[x] \subseteq AllUnits
  <2> DEFINE T == {x \in AllUnits : ~(out[x] \subseteq AllUnits)}
  <2> SUFFICES ASSUME T # {} PROVE FALSE
    OBVIOUS
  <2>1. PICK x \in T : W.in[x] \notin T
    BY DEF Forest, Rooted
  <2> QED BY <1>1, <1>8, <2>1
<1> QED BY <1>1, <1>7, <1>8, <1>9

(* The least set with u in it and with the container of what is in it.     *)
LEMMA ContainersLeast ==
  ASSUME NEW W \in Forest, NEW u \in AllUnits, NEW T \in SUBSET AllUnits, u \in T,
         \A x \in T : W.in[x] # Nowhere => W.in[x] \in T
  PROVE  Containers(W, u) \subseteq T
<1> DEFINE X == {x \in T : ~(Containers(W, x) \subseteq T)}
<1> SUFFICES ASSUME X # {} PROVE FALSE
  OBVIOUS
<1>1. PICK x \in X : W.in[x] \notin X
  <2>1. X \in SUBSET AllUnits
    OBVIOUS
  <2> QED BY <2>1 DEF Forest, Rooted
<1>2. Containers(W, x) = {x} \cup IF W.in[x] = Nowhere THEN {} ELSE Containers(W, W.in[x])
  BY ContainersStep
<1> QED BY <1>1, <1>2

LEMMA ContainersFacts ==
  ASSUME NEW W \in Forest, NEW u \in AllUnits
  PROVE  /\ Containers(W, u) \in SUBSET AllUnits /\ u \in Containers(W, u)
         /\ W.in[u] \in AllUnits \cup {Nowhere} /\ W.in[u] # u
         /\ W.in[u] = Nowhere => Containers(W, u) = {u}
         /\ W.in[u] # Nowhere =>
              /\ Containers(W, u) = {u} \cup Containers(W, W.in[u])
              /\ W.in[u] \in Containers(W, u)
              /\ u \notin Containers(W, W.in[u])
         /\ \A x \in Containers(W, u) :
              /\ Containers(W, x) \subseteq Containers(W, u)
              /\ W.in[x] # Nowhere => W.in[x] \in Containers(W, u)
<1>1. \A x \in AllUnits : /\ W.in[x] \in AllUnits \cup {Nowhere}
                          /\ Containers(W, x) \in SUBSET AllUnits
                          /\ Containers(W, x) = {x} \cup IF W.in[x] = Nowhere THEN {} ELSE Containers(W, W.in[x])
  BY ContainersStep DEF Forest, World
<1>2. Nowhere \notin AllUnits
  BY UnitsAssumption
<1>3. ASSUME NEW v \in AllUnits, NEW x \in Containers(W, v)
      PROVE  W.in[x] # Nowhere => W.in[x] \in Containers(W, v)
  <2> DEFINE T == {y \in Containers(W, v) : W.in[y] # Nowhere => W.in[y] \in Containers(W, v)}
             X == {y \in AllUnits : \E z \in Containers(W, y) : W.in[z] # Nowhere /\ W.in[z] \notin Containers(W, y)}
  <2> SUFFICES ASSUME X # {} PROVE FALSE
    BY <1>1
  <2>1. PICK y \in X : W.in[y] \notin X
    <3>1. X \in SUBSET AllUnits
      OBVIOUS
    <3> QED BY <3>1 DEF Forest, Rooted
  <2> QED BY <1>1, <2>1
<1>4. ASSUME NEW x \in Containers(W, u) PROVE Containers(W, x) \subseteq Containers(W, u)
  BY <1>1, <1>3, <1>4, ContainersLeast
<1>5. ASSUME W.in[u] # Nowhere, u \in Containers(W, W.in[u]) PROVE FALSE
  <2> DEFINE T == Containers(W, u)
             V == {x \in T : u \in Containers(W, x)}
  <2>1. V \in SUBSET AllUnits /\ V # {}
    BY <1>1
  <2>2. PICK x \in V : W.in[x] \notin V
    BY <2>1 DEF Forest, Rooted
  <2>3. CASE x = u
    <3>1. W.in[u] \in V
      BY <1>1, <1>3, <1>5
    <3> QED BY <2>2, <2>3, <3>1
  <2>4. CASE x # u
    <3>1. u \in Containers(W, x) /\ x \in AllUnits
      BY <1>1
    <3>2. W.in[x] # Nowhere /\ u \in Containers(W, W.in[x])
      BY <1>1, <2>4, <3>1
    <3>3. W.in[x] \in T
      BY <1>3, <3>2
    <3> QED BY <2>2, <3>2, <3>3
  <2> QED BY <2>3, <2>4
<1>6. W.in[u] # u
  <2>1. CASE W.in[u] = u
    <3>1. u # Nowhere /\ u \in Containers(W, u)
      BY <1>1, <1>2
    <3> QED BY <1>5, <2>1, <3>1
  <2> QED BY <2>1
<1>7. W.in[u] = Nowhere => Containers(W, u) = {u}
  BY <1>1
<1>8. W.in[u] # Nowhere => Containers(W, u) = {u} \cup Containers(W, W.in[u]) /\ W.in[u] \in Containers(W, u)
  BY <1>1
<1> QED BY <1>1, <1>3, <1>4, <1>5, <1>6, <1>7, <1>8

(* Containers depend only on what they are in themselves.                  *)
LEMMA ContainersSame ==
  ASSUME NEW W \in Forest, NEW V \in Forest, NEW u \in AllUnits,
         \A x \in Containers(W, u) : V.in[x] = W.in[x]
  PROVE  Containers(V, u) = Containers(W, u)
<1> DEFINE X == {x \in Containers(W, u) : Containers(V, x) # Containers(W, x)}
<1>1. u \in Containers(W, u) /\ Containers(W, u) \in SUBSET AllUnits
  BY ContainersFacts
<1> SUFFICES ASSUME X # {} PROVE FALSE
  BY <1>1
<1>2. PICK x \in X : W.in[x] \notin X
  BY <1>1 DEF Forest, Rooted
<1>3. x \in AllUnits /\ (W.in[x] # Nowhere => W.in[x] \in Containers(W, u))
  BY <1>1, ContainersFacts
<1>4. /\ Containers(W, x) = {x} \cup IF W.in[x] = Nowhere THEN {} ELSE Containers(W, W.in[x])
      /\ Containers(V, x) = {x} \cup IF V.in[x] = Nowhere THEN {} ELSE Containers(V, V.in[x])
  BY <1>3, ContainersStep
<1> QED BY <1>2, <1>3, <1>4

-----------------------------------------------------------------------------
(* Sums.                                                                   *)
LEMMA LeastSet ==
  ASSUME NEW S, IsFiniteSet(S), NEW X \in SUBSET (SUBSET S), X # {}
  PROVE  \E T \in X : \A U \in X : U \subseteq T => U = T
<1> DEFINE R == StrictSubsetOrdering(S)
           F == FiniteSubsetsOf(S)
<1>1. F = SUBSET S
  BY FS_FiniteSubsetsOfFinite
<1>2. IsWellFoundedOn(R, F)
  BY FS_StrictSubsetOrderingWellFounded
<1>3. X \subseteq F
  BY <1>1
<1>4. PICK T \in X : \A U \in X : ~(<<U, T>> \in R)
  <2> HIDE DEF R, F
  <2> QED BY <1>2, <1>3, WFMin
<1> QED BY <1>4 DEF StrictSubsetOrdering

Pick(S) == CHOOSE x \in S : TRUE

Sums(f, S) ==
  {g \in [SUBSET S -> Int] :
     \A s \in SUBSET S : g[s] = IF s = {} THEN 0 ELSE f[Pick(s)] + g[s \ {Pick(s)}]}

LEMMA TotalIsSum ==
  ASSUME NEW S, IsFiniteSet(S), NEW f, \A x \in S : f[x] \in Int
  PROVE  \E g \in Sums(f, S) : Total(f, S) = g[S]
<1> DEFINE Eq(h) == h = [s \in SUBSET S |->
                           IF s = {} THEN 0
                           ELSE LET x == CHOOSE y \in s : TRUE IN f[x] + h[s \ {x}]]
           g == CHOOSE h : Eq(h)
           B == {{}}
           a == [s \in B |-> 0]
           parent == [s \in (SUBSET S) \ B |-> s \ {Pick(s)}]
           step == [s \in (SUBSET S) \ B |-> [n \in Int |-> f[Pick(s)] + n]]
<1>1. \A s \in (SUBSET S) \ B : Pick(s) \in s /\ s \ {Pick(s)} \in SUBSET S
  BY DEF Pick
<1>2. Recursion(SUBSET S, Int, B, a, parent, step)
  <2>1. B \in SUBSET (SUBSET S) /\ a \in [B -> Int]
    OBVIOUS
  <2>2. parent \in [(SUBSET S) \ B -> SUBSET S]
    BY <1>1
  <2>3. step \in [(SUBSET S) \ B -> [Int -> Int]]
    <3> SUFFICES ASSUME NEW s \in (SUBSET S) \ B, NEW n \in Int PROVE f[Pick(s)] + n \in Int
      OBVIOUS
    <3>1. f[Pick(s)] \in Int
      BY <1>1
    <3> QED BY <3>1
  <2>4. Founded(SUBSET S, B, parent)
    <3> SUFFICES ASSUME NEW X \in SUBSET (SUBSET S), X # {}
                 PROVE  \E s \in X : s \in B \/ parent[s] \notin X
      BY DEF Founded
    <3>1. PICK s \in X : \A u \in X : u \subseteq s => u = s
      BY LeastSet
    <3>2. CASE s \notin B
      <4>1. parent[s] = s \ {Pick(s)} /\ Pick(s) \in s
        BY <1>1, <3>2
      <4> QED BY <3>1, <4>1
    <3> QED BY <3>1, <3>2
  <2> HIDE DEF B, a, parent, step
  <2> QED BY <2>1, <2>2, <2>3, <2>4 DEF Recursion
<1>3. PICK h \in [SUBSET S -> Int] : \A s \in SUBSET S :
        h[s] = IF s \in B THEN a[s] ELSE step[s][h[parent[s]]]
  <2> DEFINE D == SUBSET S
             Z == Int
  <2>1. Recursion(D, Z, B, a, parent, step)
    BY <1>2
  <2> HIDE DEF B, a, parent, step, D, Z
  <2>2. \E f0 \in [D -> Z] : \A s \in D :
          f0[s] = IF s \in B THEN a[s] ELSE step[s][f0[parent[s]]]
    BY <2>1, RecursionWorks
  <2> QED BY <2>2 DEF D, Z
<1>4. \A s \in SUBSET S : h[s] = IF s = {} THEN 0 ELSE f[Pick(s)] + h[s \ {Pick(s)}]
  <2> SUFFICES ASSUME NEW s \in SUBSET S
               PROVE  h[s] = IF s = {} THEN 0 ELSE f[Pick(s)] + h[s \ {Pick(s)}]
    OBVIOUS
  <2>1. CASE s = {}
    BY <1>3, <2>1
  <2>2. CASE s # {}
    <3>1. s \in (SUBSET S) \ B
      BY <2>2
    <3>2. h[s] = step[s][h[parent[s]]] /\ parent[s] = s \ {Pick(s)}
      BY <1>3, <3>1
    <3>3. h[s \ {Pick(s)}] \in Int
      BY <1>1, <3>1
    <3>4. step[s][h[s \ {Pick(s)}]] = f[Pick(s)] + h[s \ {Pick(s)}]
      BY <3>1, <3>3
    <3> QED BY <2>2, <3>2, <3>4
  <2> QED BY <2>1, <2>2
<1>5. h = g
  <2>1. Eq(h)
    BY <1>4 DEF Pick
  <2>2. Eq(g)
    BY <2>1
  <2>3. \A s \in SUBSET S : g[s] = IF s = {} THEN 0 ELSE f[Pick(s)] + g[s \ {Pick(s)}]
    BY <2>2 DEF Pick
  <2>4. g = [s \in SUBSET S |-> g[s]]
    BY <2>2
  <2> HIDE DEF g
  <2> DEFINE X == {s \in SUBSET S : g[s] # h[s]}
  <2>5. X = {}
    <3> SUFFICES ASSUME X # {} PROVE FALSE
      OBVIOUS
    <3>1. PICK s \in X : \A u \in X : u \subseteq s => u = s
      <4>1. X \in SUBSET (SUBSET S)
        OBVIOUS
      <4> HIDE DEF X
      <4> QED BY <4>1, LeastSet
    <3>2. CASE s # {}
      <4>1. Pick(s) \in s /\ s \ {Pick(s)} \in SUBSET S
        BY <1>1, <3>2
      <4>2. g[s \ {Pick(s)}] = h[s \ {Pick(s)}]
        BY <3>1, <4>1
      <4> QED BY <1>4, <2>3, <3>2, <4>2
    <3> QED BY <1>4, <2>3, <3>1, <3>2
  <2> QED BY <2>4, <2>5
<1>6. Total(f, S) = g[S]
  BY DEF Total, FoldSet, MapThenFoldSet
<1>7. h \in Sums(f, S)
  BY <1>4 DEF Sums
<1> QED BY <1>5, <1>6, <1>7

Alike(e, f, T) == \A x \in T : e[x] = f[x]

LEMMA SumsAgree ==
  ASSUME NEW R, NEW S, IsFiniteSet(S), NEW e, NEW f, NEW g \in Sums(e, R), NEW h \in Sums(f, S),
         NEW T \in SUBSET (R \cap S), Alike(e, f, T)
  PROVE  g[T] = h[T]
<1> DEFINE X == {s \in SUBSET T : g[s] # h[s]}
<1> SUFFICES ASSUME X # {} PROVE FALSE
  OBVIOUS
<1>1. PICK s \in X : \A u \in X : u \subseteq s => u = s
  <2>1. X \in SUBSET (SUBSET S)
    OBVIOUS
  <2> HIDE DEF X
  <2> QED BY <2>1, LeastSet
<1>2. s \in SUBSET R /\ s \in SUBSET S
  OBVIOUS
<1>3. CASE s = {}
  BY <1>2, <1>3 DEF Sums
<1>4. CASE s # {}
  <2>1. Pick(s) \in s /\ s \ {Pick(s)} \in SUBSET T
    BY <1>4 DEF Pick
  <2>2. g[s \ {Pick(s)}] = h[s \ {Pick(s)}]
    BY <1>1, <2>1
  <2>3. g[s] = e[Pick(s)] + g[s \ {Pick(s)}] /\ h[s] = f[Pick(s)] + h[s \ {Pick(s)}]
    BY <1>2, <1>4 DEF Sums
  <2> QED BY <2>1, <2>2, <2>3 DEF Alike
<1> QED BY <1>3, <1>4

(* The order does not matter.                                              *)
LEMMA SumsTake ==
  ASSUME NEW S, IsFiniteSet(S), NEW f, \A y \in S : f[y] \in Int, NEW g \in Sums(f, S), NEW x \in S
  PROVE  g[S] = f[x] + g[S \ {x}]
<1> DEFINE X == {s \in SUBSET S : \E y \in s : g[s] # f[y] + g[s \ {y}]}
<1> SUFFICES ASSUME X # {} PROVE FALSE
  OBVIOUS
<1>1. PICK s \in X : \A u \in X : u \subseteq s => u = s
  <2>1. X \in SUBSET (SUBSET S)
    OBVIOUS
  <2> HIDE DEF X
  <2> QED BY <2>1, LeastSet
<1>2. PICK y \in s : g[s] # f[y] + g[s \ {y}]
  OBVIOUS
<1> DEFINE c == Pick(s)
<1>3. c \in s /\ g[s] = f[c] + g[s \ {c}]
  <2>1. Pick(s) \in s /\ s \in SUBSET S
    BY <1>2 DEF Pick
  <2> QED BY <2>1 DEF Sums
<1> HIDE DEF c
<1>4. c # y
  BY <1>2, <1>3
<1>5. s \ {c} \in SUBSET S /\ s \ {y} \in SUBSET S /\ y \in s \ {c} /\ c \in s \ {y}
  BY <1>3, <1>4
<1>a. ASSUME NEW u \in SUBSET S, u \subseteq s, u # s, NEW z \in u PROVE g[u] = f[z] + g[u \ {z}]
  BY <1>1, <1>a
<1>b. s \ {c} # s /\ s \ {y} # s
  BY <1>3
<1>6. g[s \ {c}] = f[y] + g[(s \ {c}) \ {y}]
  BY <1>a, <1>b, <1>5
<1>7. g[s \ {y}] = f[c] + g[(s \ {y}) \ {c}]
  BY <1>a, <1>b, <1>5
<1>8. (s \ {c}) \ {y} = (s \ {y}) \ {c} /\ (s \ {c}) \ {y} \in SUBSET S
  OBVIOUS
<1> DEFINE n == g[(s \ {c}) \ {y}]
<1>9. n \in Int /\ f[y] \in Int /\ f[c] \in Int
  BY <1>3, <1>8 DEF Sums
<1>10. g[s] = f[c] + (f[y] + n) /\ g[s \ {y}] = f[c] + n
  BY <1>3, <1>6, <1>7, <1>8
<1> HIDE DEF n
<1> QED BY <1>2, <1>9, <1>10

LEMMA TotalFacts ==
  ASSUME NEW S, IsFiniteSet(S), NEW f, \A x \in S : f[x] \in Int
  PROVE  /\ Total(f, S) \in Int
         /\ S = {} => Total(f, S) = 0
         /\ \A x \in S : Total(f, S) = f[x] + Total(f, S \ {x})
<1>1. PICK g \in Sums(f, S) : Total(f, S) = g[S]
  BY TotalIsSum
<1>2. Total(f, S) \in Int /\ (S = {} => Total(f, S) = 0)
  BY <1>1 DEF Sums
<1>3. ASSUME NEW x \in S PROVE Total(f, S) = f[x] + Total(f, S \ {x})
  <2>1. IsFiniteSet(S \ {x})
    BY FS_RemoveElement
  <2>2. PICK h \in Sums(f, S \ {x}) : Total(f, S \ {x}) = h[S \ {x}]
    BY <2>1, TotalIsSum
  <2>3. g[S \ {x}] = h[S \ {x}]
    <3> DEFINE U == S \ {x}
    <3>1. U \in SUBSET (S \cap U) /\ IsFiniteSet(U) /\ h \in Sums(f, U) /\ Alike(f, f, U)
      BY <2>1 DEF Alike
    <3> HIDE DEF U
    <3>2. g[U] = h[U]
      BY <3>1, SumsAgree
    <3> QED BY <3>2 DEF U
  <2> QED BY <1>1, <2>2, <2>3, SumsTake
<1> QED BY <1>2, <1>3

LEMMA TotalSame ==
  ASSUME NEW S, IsFiniteSet(S), NEW e, NEW f, \A x \in S : e[x] \in Int /\ f[x] = e[x]
  PROVE  Total(f, S) = Total(e, S)
<1>1. PICK g \in Sums(e, S) : Total(e, S) = g[S]
  BY TotalIsSum
<1>2. PICK h \in Sums(f, S) : Total(f, S) = h[S]
  BY TotalIsSum
<1>3. S \in SUBSET (S \cap S) /\ Alike(e, f, S)
  BY DEF Alike
<1>4. g[S] = h[S]
  BY <1>3, SumsAgree
<1> QED BY <1>1, <1>2, <1>4

(* One more, and one of another value.                                     *)
LEMMA TotalPut ==
  ASSUME NEW S, IsFiniteSet(S), NEW f, NEW x, x \notin S, \A y \in S \cup {x} : f[y] \in Int
  PROVE  Total(f, S \cup {x}) = Total(f, S) + f[x]
<1>1. IsFiniteSet(S \cup {x})
  BY FS_AddElement
<1>2. Total(f, S \cup {x}) = f[x] + Total(f, (S \cup {x}) \ {x})
  BY <1>1, TotalFacts
<1>3. (S \cup {x}) \ {x} = S
  OBVIOUS
<1>4. Total(f, S) \in Int /\ f[x] \in Int
  BY TotalFacts
<1>5. Total(f, S \cup {x}) = f[x] + Total(f, S)
  BY <1>2, <1>3, Zenon
<1> DEFINE m == Total(f, S)
<1>6. Total(f, S \cup {x}) = f[x] + m /\ m \in Int
  BY <1>4, <1>5
<1> HIDE DEF m
<1>7. Total(f, S \cup {x}) = m + f[x]
  BY <1>4, <1>6
<1> QED BY <1>7 DEF m

LEMMA TotalChange ==
  ASSUME NEW S, IsFiniteSet(S), NEW e, NEW f, NEW x \in S, NEW n \in Int,
         \A y \in S : e[y] \in Int, f[x] = e[x] + n, \A y \in S \ {x} : f[y] = e[y]
  PROVE  Total(f, S) = Total(e, S) + n
<1>1. IsFiniteSet(S \ {x})
  BY FS_RemoveElement
<1>2. Total(f, S \ {x}) = Total(e, S \ {x})
  BY <1>1, TotalSame
<1>3. \A y \in S : f[y] \in Int
  OBVIOUS
<1>4. Total(f, S) = f[x] + Total(f, S \ {x}) /\ Total(e, S) = e[x] + Total(e, S \ {x})
  BY <1>3, TotalFacts
<1>5. Total(e, S \ {x}) \in Int /\ e[x] \in Int
  BY <1>1, TotalFacts
<1> DEFINE m == Total(e, S \ {x})
<1> HIDE DEF m
<1>6. Total(f, S) = (e[x] + n) + m /\ Total(e, S) = e[x] + m /\ m \in Int
  BY <1>2, <1>4, <1>5 DEF m
<1> QED BY <1>5, <1>6

-----------------------------------------------------------------------------
(* One step up or down.                                                    *)
AddsUp(W, O) ==
  \A u \in AllUnits :
    /\ W.weight[u] = O[u] + Total(W.weight, Contents(W, u))
    /\ W.chars[u] = Cardinality(Contents(W, u) \cap Chars)

Tally == [AllUnits -> Int]
Place == AllUnits \cup {Nowhere}

LEMMA PlusFacts ==
  ASSUME NEW f \in Tally, NEW u \in Place, NEW n \in Int
  PROVE  /\ Plus(f, u, n) \in Tally
         /\ \A x \in AllUnits : Plus(f, u, n)[x] = f[x] + IF x = u THEN n ELSE 0
BY UnitsAssumption DEF Plus, Tally, Place

LEMMA ContentsFinite ==
  ASSUME NEW W, NEW u
  PROVE  /\ Contents(W, u) \in SUBSET AllUnits
         /\ IsFiniteSet(Contents(W, u)) /\ IsFiniteSet(Contents(W, u) \cap Chars)
<1>1. IsFiniteSet(AllUnits)
  BY UnitsAssumption
<1>2. Contents(W, u) \in SUBSET AllUnits /\ Contents(W, u) \cap Chars \in SUBSET AllUnits
  BY DEF Contents
<1> QED BY <1>1, <1>2, FS_Subset

(* What is in the world may be moved to where it is not a container of.    *)
LEMMA MoveKeepsForest ==
  ASSUME NEW W \in Forest, NEW u \in AllUnits, NEW to \in AllUnits \cup {Nowhere},
         to # Nowhere => u \notin Containers(W, to),
         NEW V \in World, V.in = [W.in EXCEPT ![u] = to]
  PROVE  V \in Forest
<1>1. W \in World /\ W.in \in [AllUnits -> AllUnits \cup {Nowhere}] /\ Nowhere \notin AllUnits
  BY UnitsAssumption DEF Forest, World
<1>2. V.in[u] = to /\ \A x \in AllUnits \ {u} : V.in[x] = W.in[x]
  BY <1>1
<1>3. Rooted(V)
  <2> SUFFICES ASSUME NEW T \in SUBSET AllUnits, T # {}, \A x \in T : V.in[x] \in T
               PROVE  FALSE
    BY DEF Rooted
  <2>1. CASE u \notin T
    <3>1. PICK x \in T : W.in[x] \notin T
      BY DEF Forest, Rooted
    <3> QED BY <1>2, <2>1, <3>1
  <2>2. CASE u \in T
    <3>1. to \in T /\ to # Nowhere
      BY <1>1, <1>2, <2>2
    <3> DEFINE X == T \cap Containers(W, to)
    <3>2. to \in X
      BY <3>1, ContainersFacts
    <3>3. PICK x \in X : W.in[x] \notin X
      BY <3>2 DEF Forest, Rooted
    <3>4. V.in[x] = W.in[x] /\ W.in[x] \in T
      BY <1>2, <3>1, <3>3
    <3>5. W.in[x] \in Containers(W, to)
      BY <1>1, <3>1, <3>4, ContainersFacts
    <3> QED BY <3>3, <3>4, <3>5
  <2> QED BY <2>1, <2>2
<1> QED BY <1>3 DEF Forest

(* V is what W is when u is one step further up; the sums do not care.     *)
Above(W, V, u) ==
  LET x == W.in[u]
      y == W.in[x]
  IN /\ x \in AllUnits
     /\ V.in = [W.in EXCEPT ![u] = y]
     /\ \A z \in AllUnits :
          /\ V.weight[z] = W.weight[z] - IF z = x THEN W.weight[u] ELSE 0
          /\ V.chars[z] = W.chars[z] + IF z = x THEN -Count(u) ELSE IF z = y THEN Count(u) ELSE 0

LEMMA AboveContents ==
  ASSUME NEW W \in Forest, NEW V \in Forest, NEW u \in AllUnits, Above(W, V, u)
  PROVE  \A z \in AllUnits :
           /\ z = W.in[u] => Contents(V, z) = Contents(W, z) \ {u}
           /\ z = W.in[W.in[u]] =>
                /\ Contents(V, z) = Contents(W, z) \cup {u}
                /\ u \notin Contents(W, z) /\ W.in[u] \in Contents(W, z)
           /\ z # W.in[u] /\ z # W.in[W.in[u]] =>
                Contents(V, z) = Contents(W, z) /\ W.in[u] \notin Contents(W, z)
           /\ z = W.in[u] => u \in Contents(W, z) /\ W.in[u] \notin Contents(W, z)
<1>1. W.in \in [AllUnits -> AllUnits \cup {Nowhere}]
  BY DEF Forest, World
<1>2. W.in[u] \in AllUnits /\ W.in[u] # u /\ W.in[W.in[u]] # W.in[u]
  BY ContainersFacts DEF Above
<1>3. V.in[u] = W.in[W.in[u]] /\ \A x \in AllUnits \ {u} : V.in[x] = W.in[x]
  BY <1>1 DEF Above
<1> QED BY <1>2, <1>3 DEF Contents

LEMMA AboveKeepsSums ==
  ASSUME NEW W \in Forest, NEW V \in Forest, NEW u \in AllUnits, Above(W, V, u),
         NEW O \in [AllUnits -> Int]
  PROVE  AddsUp(W, O) <=> AddsUp(V, O)
<1> DEFINE x == W.in[u]
           y == W.in[x]
<1>1. x \in AllUnits /\ x # u /\ y # x
  BY ContainersFacts DEF Above
<1>2. /\ W.weight \in [AllUnits -> Int] /\ V.weight \in [AllUnits -> Int]
      /\ W.chars \in [AllUnits -> Int] /\ V.chars \in [AllUnits -> Int]
  BY DEF Forest, World
<1>3. /\ V.weight[x] = W.weight[x] - W.weight[u]
      /\ \A z \in AllUnits : z # x => V.weight[z] = W.weight[z]
      /\ V.chars[x] = W.chars[x] - Count(u)
      /\ y \in AllUnits => V.chars[y] = W.chars[y] + Count(u)
      /\ \A z \in AllUnits : z # x /\ z # y => V.chars[z] = W.chars[z]
  BY <1>1, <1>2 DEF Above, Count
<1>4. \A z \in AllUnits :
        /\ z = x => /\ Contents(V, z) = Contents(W, z) \ {u}
                    /\ u \in Contents(W, z) /\ x \notin Contents(W, z)
        /\ z = y => /\ Contents(V, z) = Contents(W, z) \cup {u}
                    /\ u \notin Contents(W, z) /\ x \in Contents(W, z)
        /\ z # x /\ z # y => Contents(V, z) = Contents(W, z) /\ x \notin Contents(W, z)
  BY AboveContents
<1> HIDE DEF x, y
<1>5. ASSUME NEW z \in AllUnits
      PROVE  /\ V.weight[z] - Total(V.weight, Contents(V, z))
                 = W.weight[z] - Total(W.weight, Contents(W, z))
             /\ V.chars[z] - Cardinality(Contents(V, z) \cap Chars)
                 = W.chars[z] - Cardinality(Contents(W, z) \cap Chars)
  <2> DEFINE C == Contents(W, z)
             D == Contents(V, z)
             K == Cardinality(C \cap Chars)
             L == Cardinality(D \cap Chars)
             M == Total(W.weight, C)
             N == Total(V.weight, D)
  <2>1. /\ C \in SUBSET AllUnits /\ IsFiniteSet(C) /\ IsFiniteSet(C \cap Chars)
        /\ D \in SUBSET AllUnits /\ IsFiniteSet(D) /\ IsFiniteSet(D \cap Chars)
    BY ContentsFinite
  <2>2. K \in Nat /\ L \in Nat /\ M \in Int /\ N \in Int
    <3> HIDE DEF C, D
    <3>1. K \in Nat /\ L \in Nat
      BY <2>1, FS_CardinalityType
    <3>2. M \in Int /\ N \in Int
      BY <1>2, <2>1, TotalFacts
    <3> QED BY <3>1, <3>2
  <2>3. CASE z = x
    <3>1. D = C \ {u} /\ u \in C /\ x \notin C
      BY <1>4, <2>3
    <3> HIDE DEF C, D
    <3>2. L = K - Count(u)
      <4>1. CASE u \in Chars
        <5>1. D \cap Chars = (C \cap Chars) \ {u} /\ u \in C \cap Chars
          BY <3>1, <4>1
        <5>2. Cardinality((C \cap Chars) \ {u}) = Cardinality(C \cap Chars) - 1
          BY <2>1, <5>1, FS_RemoveElement
        <5> QED BY <4>1, <5>1, <5>2 DEF Count
      <4>2. CASE u \notin Chars
        <5>1. D \cap Chars = C \cap Chars
          BY <3>1, <4>2
        <5> QED BY <2>2, <4>2, <5>1 DEF Count
      <4> QED BY <4>1, <4>2
    <3>3. N = Total(W.weight, D)
      BY <1>2, <1>3, <2>1, <3>1, TotalSame
    <3>4. M = W.weight[u] + Total(W.weight, C \ {u})
      BY <1>2, <2>1, <3>1, TotalFacts
    <3>5. M = W.weight[u] + N
      BY <3>1, <3>3, <3>4
    <3> HIDE DEF K, L, M, N
    <3>6. W.weight[z] \in Int /\ W.weight[u] \in Int /\ W.chars[z] \in Int /\ Count(u) \in Int
      BY <1>2 DEF Count
    <3>7. V.weight[z] = W.weight[z] - W.weight[u] /\ V.chars[z] = W.chars[z] - Count(u)
      BY <1>3, <2>3
    <3>8. V.weight[z] - N = W.weight[z] - M /\ V.chars[z] - L = W.chars[z] - K
      BY <2>2, <3>2, <3>5, <3>6, <3>7
    <3> QED BY <3>8 DEF K, L, M, N, C, D
  <2>4. CASE z = y
    <3>1. D = C \cup {u} /\ u \notin C /\ x \in C
      BY <1>4, <2>4
    <3> HIDE DEF C, D
    <3>2. L = K + Count(u)
      <4>1. CASE u \in Chars
        <5>1. D \cap Chars = (C \cap Chars) \cup {u} /\ u \notin C \cap Chars
          BY <3>1, <4>1
        <5>2. Cardinality((C \cap Chars) \cup {u}) = Cardinality(C \cap Chars) + 1
          BY <2>1, <5>1, FS_AddElement
        <5> QED BY <4>1, <5>1, <5>2 DEF Count
      <4>2. CASE u \notin Chars
        <5>1. D \cap Chars = C \cap Chars
          BY <3>1, <4>2
        <5> QED BY <2>2, <4>2, <5>1 DEF Count
      <4> QED BY <4>1, <4>2
    <3>3. Total(V.weight, C) = M + (-W.weight[u])
      <4> DEFINE n == -W.weight[u]
      <4>1. n \in Int /\ V.weight[x] = W.weight[x] + n
        BY <1>1, <1>2, <1>3
      <4>2. \A v \in C \ {x} : V.weight[v] = W.weight[v]
        BY <1>3, <2>1
      <4>3. \A v \in C : W.weight[v] \in Int
        BY <1>2, <2>1
      <4> HIDE DEF n
      <4> QED BY <2>1, <3>1, <4>1, <4>2, <4>3, TotalChange DEF n
    <3>4. N = Total(V.weight, C) + V.weight[u]
      <4>1. \A v \in C \cup {u} : V.weight[v] \in Int
        BY <1>2, <2>1
      <4> QED BY <2>1, <3>1, <4>1, TotalPut
    <3>5. V.weight[u] = W.weight[u]
      BY <1>1, <1>3
    <3> HIDE DEF K, L, M, N
    <3>6. W.weight[z] \in Int /\ W.weight[u] \in Int /\ W.chars[z] \in Int /\ Count(u) \in Int
      BY <1>2 DEF Count
    <3>7. V.weight[z] = W.weight[z] /\ V.chars[z] = W.chars[z] + Count(u)
      BY <1>1, <1>3, <2>4
    <3>8. N = M
      BY <2>2, <3>3, <3>4, <3>5, <3>6
    <3>9. V.weight[z] - N = W.weight[z] - M /\ V.chars[z] - L = W.chars[z] - K
      BY <2>2, <3>2, <3>6, <3>7, <3>8
    <3> QED BY <3>9 DEF K, L, M, N, C, D
  <2>5. CASE z # x /\ z # y
    <3>1. D = C /\ x \notin C
      BY <1>4, <2>5
    <3> HIDE DEF C, D
    <3>2. N = M
      BY <1>2, <1>3, <2>1, <3>1, TotalSame
    <3> QED BY <1>3, <2>5, <3>1, <3>2 DEF C, D
  <2> QED BY <2>3, <2>4, <2>5
<1>6. ASSUME NEW z \in AllUnits
      PROVE  /\ Total(V.weight, Contents(V, z)) \in Int /\ Total(W.weight, Contents(W, z)) \in Int
             /\ Cardinality(Contents(V, z) \cap Chars) \in Int
             /\ Cardinality(Contents(W, z) \cap Chars) \in Int
  <2> DEFINE C == Contents(W, z)
             D == Contents(V, z)
  <2>1. /\ C \in SUBSET AllUnits /\ IsFiniteSet(C) /\ IsFiniteSet(C \cap Chars)
        /\ D \in SUBSET AllUnits /\ IsFiniteSet(D) /\ IsFiniteSet(D \cap Chars)
    BY ContentsFinite
  <2> HIDE DEF C, D
  <2>2. Total(V.weight, D) \in Int /\ Total(W.weight, C) \in Int
    BY <1>2, <2>1, TotalFacts
  <2>3. Cardinality(D \cap Chars) \in Int /\ Cardinality(C \cap Chars) \in Int
    BY <2>1, FS_CardinalityType
  <2> QED BY <2>2, <2>3 DEF C, D
<1>7. ASSUME NEW z \in AllUnits
      PROVE  /\ W.weight[z] = O[z] + Total(W.weight, Contents(W, z))
                 <=> V.weight[z] = O[z] + Total(V.weight, Contents(V, z))
             /\ W.chars[z] = Cardinality(Contents(W, z) \cap Chars)
                 <=> V.chars[z] = Cardinality(Contents(V, z) \cap Chars)
  <2>1. /\ W.weight[z] \in Int /\ V.weight[z] \in Int /\ O[z] \in Int
        /\ W.chars[z] \in Int /\ V.chars[z] \in Int
    BY <1>2
  <2> DEFINE M == Total(W.weight, Contents(W, z))
             N == Total(V.weight, Contents(V, z))
             K == Cardinality(Contents(W, z) \cap Chars)
             L == Cardinality(Contents(V, z) \cap Chars)
  <2>2. M \in Int /\ N \in Int /\ K \in Int /\ L \in Int
    BY <1>6
  <2>3. V.weight[z] - N = W.weight[z] - M /\ V.chars[z] - L = W.chars[z] - K
    BY <1>5
  <2> HIDE DEF K, L, M, N
  <2>4. W.weight[z] = O[z] + M <=> V.weight[z] = O[z] + N
    <3> DEFINE p == W.weight[z]
               q == V.weight[z]
               o == O[z]
    <3>1. p \in Int /\ q \in Int /\ o \in Int /\ q - N = p - M
      BY <2>1, <2>3
    <3> HIDE DEF o, p, q
    <3>2. p = o + M <=> q = o + N
      BY <2>2, <3>1
    <3> QED BY <3>2 DEF o, p, q
  <2>5. W.chars[z] = K <=> V.chars[z] = L
    <3> DEFINE p == W.chars[z]
               q == V.chars[z]
    <3>1. p \in Int /\ q \in Int /\ q - L = p - K
      BY <2>1, <2>3
    <3> HIDE DEF p, q
    <3>2. p = K <=> q = L
      BY <2>2, <3>1
    <3> QED BY <3>2 DEF p, q
  <2> QED BY <2>4, <2>5 DEF K, L, M, N
<1> QED BY <1>7 DEF AddsUp
(* What moves keep: the worlds in which all sums agree with O.             *)
Sound(O) == {W \in Forest : AddsUp(W, O)}

LEMMA UpKeeps ==
  ASSUME NEW W \in Forest, NEW u \in AllUnits, W.in[u] # Nowhere
  PROVE  /\ Up(W, u) \in Forest
         /\ Up(W, u).in = [W.in EXCEPT ![u] = W.in[W.in[u]]]
         /\ \A O \in [AllUnits -> Int] : AddsUp(W, O) => AddsUp(Up(W, u), O)
<1> DEFINE x == W.in[u]
           y == W.in[x]
           V == Up(W, u)
<1>1. /\ W \in World /\ Nowhere \notin AllUnits
      /\ W.in \in [AllUnits -> Place]
      /\ W.weight \in Tally /\ W.chars \in Tally
  BY UnitsAssumption DEF Forest, World, Tally, Place
<1>2. /\ x \in AllUnits /\ x # u /\ x \in Place
      /\ y \in AllUnits \cup {Nowhere} /\ y \in Place /\ y # x
  BY <1>1, ContainersFacts DEF Place
<1> DEFINE m == -W.weight[u]
           c == Count(u)
           nc == -c
<1>4. m \in Int /\ c \in Int /\ nc \in Int
  BY <1>1 DEF Count, Tally
<1>6. /\ V.in = [W.in EXCEPT ![u] = y]
      /\ V.weight = Plus(W.weight, x, m)
      /\ V.chars = Plus(Plus(W.chars, x, nc), y, c)
      /\ V = [in |-> V.in, weight |-> V.weight, chars |-> V.chars]
  BY DEF Up
<1> HIDE DEF x, y, V, m, c, nc
<1>7. V \in World
  <2>1. V.in \in [AllUnits -> Place]
    BY <1>1, <1>2, <1>6
  <2>2. V.weight \in Tally
    <3>1. Plus(W.weight, x, m) \in Tally
      BY <1>1, <1>2, <1>4, PlusFacts
    <3> QED BY <1>6, <3>1
  <2>3. V.chars \in Tally
    <3>1. Plus(W.chars, x, nc) \in Tally
      BY <1>1, <1>2, <1>4, PlusFacts
    <3>2. Plus(Plus(W.chars, x, nc), y, c) \in Tally
      BY <1>2, <1>4, <3>1, PlusFacts
    <3> QED BY <1>6, <3>2
  <2> QED BY <1>6, <2>1, <2>2, <2>3 DEF World, Tally, Place
<1>8. V \in Forest
  <2>1. y # Nowhere => u \notin Containers(W, y)
    <3> SUFFICES ASSUME y # Nowhere PROVE u \notin Containers(W, y)
      OBVIOUS
    <3>1. u \notin Containers(W, x)
      BY <1>1, <1>2, ContainersFacts DEF x
    <3>2. Containers(W, y) \subseteq Containers(W, x)
      BY <1>2, ContainersFacts DEF y
    <3> QED BY <3>1, <3>2
  <2> QED BY <1>2, <1>6, <1>7, <2>1, MoveKeepsForest
<1>9. Above(W, V, u)
  <2>1. \A z \in AllUnits : V.weight[z] = W.weight[z] - IF z = x THEN W.weight[u] ELSE 0
    <3>1. \A z \in AllUnits : Plus(W.weight, x, m)[z] = W.weight[z] + IF z = x THEN m ELSE 0
      <4> DEFINE f == W.weight
      <4>1. f \in Tally
        BY <1>1
      <4> HIDE DEF f
      <4>2. \A z \in AllUnits : Plus(f, x, m)[z] = f[z] + IF z = x THEN m ELSE 0
        BY <1>2, <1>4, <4>1, PlusFacts
      <4> QED BY <4>2 DEF f
    <3>2. V.weight = Plus(W.weight, x, m)
      BY <1>6
    <3> QED BY <1>1, <3>1, <3>2 DEF m, Tally
  <2>2. \A z \in AllUnits : V.chars[z] = W.chars[z] + IF z = x THEN nc ELSE IF z = y THEN c ELSE 0
    <3> DEFINE P == Plus(W.chars, x, nc)
    <3>1. P \in Tally /\ \A z \in AllUnits : P[z] = W.chars[z] + IF z = x THEN nc ELSE 0
      <4> DEFINE f == W.chars
      <4>1. f \in Tally
        BY <1>1
      <4> HIDE DEF f
      <4>2. /\ Plus(f, x, nc) \in Tally
            /\ \A z \in AllUnits : Plus(f, x, nc)[z] = f[z] + IF z = x THEN nc ELSE 0
        BY <1>2, <1>4, <4>1, PlusFacts
      <4> QED BY <4>2 DEF f
    <3>2. V.chars = Plus(P, y, c)
      BY <1>6
    <3> HIDE DEF P
    <3>3. \A z \in AllUnits : Plus(P, y, c)[z] = P[z] + IF z = y THEN c ELSE 0
      BY <1>2, <1>4, <3>1, PlusFacts
    <3> QED BY <1>1, <1>2, <1>4, <3>1, <3>2, <3>3 DEF Tally
  <2> QED BY <1>2, <1>6, <2>1, <2>2 DEF Above, x, y, c, nc
<1>10. \A O \in [AllUnits -> Int] : AddsUp(W, O) => AddsUp(V, O)
  BY <1>8, <1>9, AboveKeepsSums
<1> QED BY <1>6, <1>8, <1>10 DEF V, x, y

LEMMA DownTyped ==
  ASSUME NEW W \in World, NEW u \in AllUnits, NEW to \in AllUnits
  PROVE  /\ Down(W, u, to) \in World
         /\ Down(W, u, to).in = [W.in EXCEPT ![u] = to]
         /\ \A z \in AllUnits :
              /\ Down(W, u, to).weight[z] = W.weight[z] + IF z = to THEN W.weight[u] ELSE 0
              /\ to # W.in[u] =>
                   Down(W, u, to).chars[z] =
                     W.chars[z] + IF z = to THEN Count(u) ELSE IF z = W.in[u] THEN -Count(u) ELSE 0
<1> DEFINE y == W.in[u]
           V == Down(W, u, to)
<1>1. /\ W \in World /\ Nowhere \notin AllUnits
      /\ W.in \in [AllUnits -> Place]
      /\ W.weight \in Tally /\ W.chars \in Tally
  BY UnitsAssumption DEF World, Tally, Place
<1>2. to \in Place /\ y \in Place
  BY <1>1 DEF Place
<1> DEFINE m == W.weight[u]
           c == Count(u)
           nc == -c
<1>4. m \in Int /\ c \in Int /\ nc \in Int
  BY <1>1 DEF Count, Tally
<1>6. /\ V.in = [W.in EXCEPT ![u] = to]
      /\ V.weight = Plus(W.weight, to, m)
      /\ V.chars = Plus(Plus(W.chars, y, nc), to, c)
      /\ V = [in |-> V.in, weight |-> V.weight, chars |-> V.chars]
  BY DEF Down
<1> HIDE DEF y, V, m, c, nc
<1>7. V \in World
  <2>1. V.in \in [AllUnits -> Place]
    BY <1>1, <1>2, <1>6
  <2>2. V.weight \in Tally
    <3>1. Plus(W.weight, to, m) \in Tally
      BY <1>1, <1>2, <1>4, PlusFacts
    <3> QED BY <1>6, <3>1
  <2>3. V.chars \in Tally
    <3>1. Plus(W.chars, y, nc) \in Tally
      BY <1>1, <1>2, <1>4, PlusFacts
    <3>2. Plus(Plus(W.chars, y, nc), to, c) \in Tally
      BY <1>2, <1>4, <3>1, PlusFacts
    <3> QED BY <1>6, <3>2
  <2> QED BY <1>6, <2>1, <2>2, <2>3 DEF World, Tally, Place
<1>8. \A z \in AllUnits : V.weight[z] = W.weight[z] + IF z = to THEN W.weight[u] ELSE 0
  <2> DEFINE f == W.weight
  <2>1. f \in Tally
    BY <1>1
  <2> HIDE DEF f
  <2>2. \A z \in AllUnits : Plus(f, to, m)[z] = f[z] + IF z = to THEN m ELSE 0
    BY <1>2, <1>4, <2>1, PlusFacts
  <2>3. V.weight = Plus(f, to, m)
    BY <1>6 DEF f
  <2> QED BY <2>2, <2>3 DEF m, f
<1>9. ASSUME to # y
      PROVE  \A z \in AllUnits : V.chars[z] = W.chars[z] + IF z = to THEN c ELSE IF z = y THEN nc ELSE 0
  <2> DEFINE P == Plus(W.chars, y, nc)
  <2>1. P \in Tally /\ \A z \in AllUnits : P[z] = W.chars[z] + IF z = y THEN nc ELSE 0
    <3> DEFINE f == W.chars
    <3>1. f \in Tally
      BY <1>1
    <3> HIDE DEF f
    <3>2. /\ Plus(f, y, nc) \in Tally
          /\ \A z \in AllUnits : Plus(f, y, nc)[z] = f[z] + IF z = y THEN nc ELSE 0
      BY <1>2, <1>4, <3>1, PlusFacts
    <3> QED BY <3>2 DEF f
  <2>2. V.chars = Plus(P, to, c)
    BY <1>6
  <2> HIDE DEF P
  <2>3. \A z \in AllUnits : Plus(P, to, c)[z] = P[z] + IF z = to THEN c ELSE 0
    BY <1>2, <1>4, <2>1, PlusFacts
  <2> QED BY <1>1, <1>2, <1>4, <1>9, <2>1, <2>2, <2>3 DEF Tally
<1> QED BY <1>6, <1>7, <1>8, <1>9 DEF V, y, c, nc

LEMMA DownKeeps ==
  ASSUME NEW W \in Forest, NEW u \in AllUnits, NEW to \in AllUnits \ {u},
         W.in[u] = W.in[to]
  PROVE  /\ Down(W, u, to) \in Forest
         /\ Down(W, u, to).in = [W.in EXCEPT ![u] = to]
         /\ \A O \in [AllUnits -> Int] : AddsUp(W, O) => AddsUp(Down(W, u, to), O)
<1> DEFINE y == W.in[u]
           V == Down(W, u, to)
<1>1. /\ W \in World /\ W.in \in [AllUnits -> Place]
      /\ W.weight \in Tally /\ W.chars \in Tally
  BY DEF Forest, World, Tally, Place
<1>2. y \in Place /\ y # to /\ y = W.in[to]
  BY <1>1, ContainersFacts DEF Place
<1>3. /\ V \in World /\ V.in = [W.in EXCEPT ![u] = to]
      /\ \A z \in AllUnits :
           /\ V.weight[z] = W.weight[z] + IF z = to THEN W.weight[u] ELSE 0
           /\ V.chars[z] = W.chars[z] + IF z = to THEN Count(u) ELSE IF z = y THEN -Count(u) ELSE 0
  BY <1>1, <1>2, DownTyped
<1> HIDE DEF y, V
<1>4. u \notin Containers(W, to)
  <2>1. CASE y = Nowhere
    <3>1. Containers(W, to) = {to}
      BY <1>2, <2>1, ContainersFacts
    <3> QED BY <3>1
  <2>2. CASE y # Nowhere
    <3>1. u \notin Containers(W, y) /\ Containers(W, to) = {to} \cup Containers(W, y)
      BY <1>2, <2>2, ContainersFacts DEF y
    <3> QED BY <3>1
  <2> QED BY <2>1, <2>2
<1>5. V \in Forest
  <2>1. to \in AllUnits \cup {Nowhere}
    OBVIOUS
  <2> QED BY <1>3, <1>4, <2>1, MoveKeepsForest
<1>6. Above(V, W, u)
  <2>1. V.in[u] = to /\ V.in[to] = y
    BY <1>1, <1>2, <1>3
  <2>2. W.in = [V.in EXCEPT ![u] = y]
    BY <1>1, <1>3 DEF y
  <2>3. V.weight \in Tally /\ V.chars \in Tally /\ V.weight[u] = W.weight[u] /\ Count(u) \in Int
    BY <1>1, <1>3 DEF World, Tally, Count
  <2>4. \A z \in AllUnits : W.weight[z] = V.weight[z] - IF z = to THEN V.weight[u] ELSE 0
    BY <1>1, <1>3, <2>3 DEF Tally
  <2>5. \A z \in AllUnits : W.chars[z] = V.chars[z] + IF z = to THEN -Count(u) ELSE IF z = y THEN Count(u) ELSE 0
    BY <1>1, <1>3, <2>3 DEF Tally
  <2> QED BY <2>1, <2>2, <2>4, <2>5 DEF Above
<1>7. \A O \in [AllUnits -> Int] : AddsUp(W, O) => AddsUp(V, O)
  BY <1>5, <1>6, AboveKeepsSums
<1> QED BY <1>3, <1>5, <1>7 DEF V

-----------------------------------------------------------------------------
(* Loops.                                                                  *)
LEMMA FromZeroOn ==
  ASSUME NEW T \in SUBSET Nat, 0 \in T, \A n \in T : n + 1 \in T
  PROVE  T = Nat
<1> SUFFICES ASSUME NEW k \in Nat, k \notin T PROVE FALSE
  OBVIOUS
<1> DEFINE R == StrictSubsetOrdering(Nat)
           F == FiniteSubsetsOf(Nat)
           I == { 1..i : i \in Nat \ T }
<1>1. I \subseteq F /\ I # {}
  <2>1. ASSUME NEW i \in Nat PROVE 1..i \in F
    <3>1. 1 \in Int /\ i \in Int /\ 1..i \subseteq Nat
      OBVIOUS
    <3>2. IsFiniteSet(1..i)
      BY <3>1, FS_Interval
    <3> QED BY <3>1, <3>2 DEF FiniteSubsetsOf
  <2> HIDE DEF F
  <2> QED BY <2>1
<1>2. PICK m \in I : \A y \in I : ~(<<y, m>> \in R)
  <2> HIDE DEF I, F, R
  <2>1. IsWellFoundedOn(R, F)
    BY FS_StrictSubsetOrderingWellFounded DEF R, F
  <2> QED BY <1>1, <2>1, WFMin
<1>3. PICK i \in Nat \ T : m = 1..i
  OBVIOUS
<1>4. i - 1 \in Nat /\ i - 1 \notin T /\ i # 0
  <2>1. i # 0
    OBVIOUS
  <2>2. i - 1 \in Nat /\ (i - 1) + 1 = i
    BY <2>1
  <2> QED BY <2>1, <2>2
<1>5. 1..(i - 1) \in I
  BY <1>4
<1>6. <<1..(i - 1), 1..i>> \in R
  <2>1. 1..(i - 1) \in SUBSET Nat /\ 1..i \in SUBSET Nat /\ 1..(i - 1) \subseteq 1..i
    BY <1>4
  <2>2. i \in 1..i /\ i \notin 1..(i - 1)
    BY <1>4
  <2> QED BY <2>1, <2>2 DEF StrictSubsetOrdering
<1> QED BY <1>2, <1>3, <1>5, <1>6

LEMMA LoopWorks ==
  ASSUME NEW S, NEW a \in S, NEW step \in [S -> S]
  PROVE  \E f \in [Nat -> S] : \A n \in Nat : f[n] = IF n = 0 THEN a ELSE step[f[n - 1]]
<1> DEFINE B == {0}
           first == [n \in B |-> a]
           parent == [n \in Nat \ B |-> n - 1]
           steps == [n \in Nat \ B |-> step]
<1>1. \A n \in Nat \ B : n - 1 \in Nat
  OBVIOUS
<1>2. Founded(Nat, B, parent)
  <2> SUFFICES ASSUME NEW T \in SUBSET Nat, T # {}, \A x \in T : x \notin B /\ parent[x] \in T
               PROVE  FALSE
    BY DEF Founded
  <2> DEFINE U == Nat \ T
  <2>1. 0 \in U
    OBVIOUS
  <2>2. ASSUME NEW n \in U PROVE n + 1 \in U
    <3> SUFFICES ASSUME n + 1 \in T PROVE FALSE
      OBVIOUS
    <3>1. n + 1 \in Nat \ B /\ (n + 1) - 1 = n
      OBVIOUS
    <3> QED BY <3>1
  <2>3. U \in SUBSET Nat
    OBVIOUS
  <2> HIDE DEF U
  <2>4. U = Nat
    BY <2>1, <2>2, <2>3, FromZeroOn
  <2> QED BY <2>4 DEF U
<1>3. /\ B \in SUBSET Nat /\ first \in [B -> S]
      /\ parent \in [Nat \ B -> Nat] /\ steps \in [Nat \ B -> [S -> S]]
  BY <1>1
<1>4. Recursion(Nat, S, B, first, parent, steps)
  <2> HIDE DEF B, first, parent, steps
  <2> QED BY <1>2, <1>3 DEF Recursion
<1>5. PICK f \in [Nat -> S] : \A n \in Nat :
        f[n] = IF n \in B THEN first[n] ELSE steps[n][f[parent[n]]]
  <2> DEFINE D == Nat
  <2>1. Recursion(D, S, B, first, parent, steps)
    BY <1>4
  <2> HIDE DEF B, first, parent, steps, D
  <2>2. \E f \in [D -> S] : \A n \in D :
          f[n] = IF n \in B THEN first[n] ELSE steps[n][f[parent[n]]]
    BY <2>1, RecursionWorks
  <2> QED BY <2>2 DEF D
<1>6. ASSUME NEW n \in Nat PROVE f[n] = IF n = 0 THEN a ELSE step[f[n - 1]]
  <2>1. CASE n = 0
    BY <1>5, <2>1
  <2>2. CASE n # 0
    <3>1. n \in Nat \ B
      BY <2>2
    <3> QED BY <1>5, <2>2, <3>1
  <2> QED BY <2>1, <2>2
<1> QED BY <1>6

(* The worlds that W becomes when only u moves.                            *)
Shifted(W, u) ==
  {V \in Forest :
     /\ V.in = [W.in EXCEPT ![u] = V.in[u]]
     /\ \A O \in Tally : AddsUp(W, O) => AddsUp(V, O)}

LEMMA ShiftedOn ==
  ASSUME NEW W \in Forest, NEW u \in AllUnits, NEW V \in Shifted(W, u), NEW X \in Forest,
         NEW y, X.in = [V.in EXCEPT ![u] = y],
         \A O \in Tally : AddsUp(V, O) => AddsUp(X, O)
  PROVE  /\ X \in Shifted(W, u) /\ X.in[u] = y /\ V \in Forest
         /\ \A x \in AllUnits \ {u} : X.in[x] = V.in[x] /\ X.in[x] = W.in[x]
<1>1. V \in Forest /\ V.in = [W.in EXCEPT ![u] = V.in[u]] /\ \A O \in Tally : AddsUp(W, O) => AddsUp(V, O)
  BY DEF Shifted
<1>2. W.in \in [AllUnits -> Place] /\ V.in \in [AllUnits -> Place]
  BY <1>1 DEF Forest, World, Place
<1>3. X.in[u] = y /\ \A x \in AllUnits \ {u} : X.in[x] = V.in[x] /\ X.in[x] = W.in[x]
  BY <1>1, <1>2
<1>4. X.in = [W.in EXCEPT ![u] = X.in[u]]
  <2> DEFINE e == V.in
             f == W.in
  <2>1. e = [f EXCEPT ![u] = e[u]] /\ X.in = [e EXCEPT ![u] = y] /\ f \in [AllUnits -> Place]
    BY <1>1, <1>2
  <2> HIDE DEF e, f
  <2>2. [e EXCEPT ![u] = y] = [f EXCEPT ![u] = y]
    BY <2>1
  <2> QED BY <1>3, <2>1, <2>2 DEF f
<1> QED BY <1>1, <1>3, <1>4 DEF Shifted

LEMMA ShiftedFacts ==
  ASSUME NEW W \in Forest, NEW u \in AllUnits
  PROVE  /\ W \in Shifted(W, u)
         /\ \A V \in Shifted(W, u) :
              /\ V \in Forest
              /\ \A O \in Tally : AddsUp(W, O) => AddsUp(V, O)
              /\ \A x \in AllUnits \ {u} : V.in[x] = W.in[x]
              /\ Shifted(V, u) \subseteq Shifted(W, u)
<1>1. \A V \in Forest : V.in \in [AllUnits -> Place]
  BY DEF Forest, World, Place
<1>2. W \in Shifted(W, u)
  <2>1. W.in = [W.in EXCEPT ![u] = W.in[u]]
    BY <1>1
  <2> QED BY <2>1 DEF Shifted
<1>3. ASSUME NEW V \in Shifted(W, u)
      PROVE  /\ V \in Forest
             /\ \A O \in Tally : AddsUp(W, O) => AddsUp(V, O)
             /\ \A x \in AllUnits \ {u} : V.in[x] = W.in[x]
  <2>1. V \in Forest /\ V.in = [W.in EXCEPT ![u] = V.in[u]] /\ \A O \in Tally : AddsUp(W, O) => AddsUp(V, O)
    BY DEF Shifted
  <2> QED BY <1>1, <2>1
<1>4. ASSUME NEW V \in Shifted(W, u), NEW X \in Shifted(V, u) PROVE X \in Shifted(W, u)
  <2>1. V \in Forest
    BY <1>3
  <2>2. X \in Forest /\ X.in = [V.in EXCEPT ![u] = X.in[u]] /\ \A O \in Tally : AddsUp(V, O) => AddsUp(X, O)
    BY DEF Shifted
  <2> QED BY <2>1, <2>2, ShiftedOn
<1> QED BY <1>2, <1>3, <1>4

LEMMA StepIsMove ==
  ASSUME NEW W \in Forest, NEW u \in AllUnits, NEW X \in Forest,
         NEW y, X.in = [W.in EXCEPT ![u] = y],
         \A O \in Tally : AddsUp(W, O) => AddsUp(X, O)
  PROVE  X \in Shifted(W, u) /\ X.in[u] = y
<1>1. W \in Shifted(W, u)
  BY ShiftedFacts
<1> QED BY <1>1, ShiftedOn

LEMMA FromKeeps ==
  ASSUME NEW W \in Forest, NEW u \in AllUnits
  PROVE  /\ From(W, u) \in Shifted(W, u)
         /\ From(W, u).in[u] = Nowhere
<1> DEFINE Eq(f) == f = [n \in Nat |->
                           IF n = 0 THEN W
                           ELSE LET V == f[n - 1] IN IF V.in[u] = Nowhere THEN V ELSE Up(V, u)]
           higher == CHOOSE f : Eq(f)
           S == Shifted(W, u)
           step == [V \in S |-> IF V.in[u] = Nowhere THEN V ELSE Up(V, u)]
           N == Cardinality(AllUnits)
<1>0. IsFiniteSet(AllUnits) /\ N \in Nat
  BY UnitsAssumption, FS_CardinalityType
<1>1. W \in S
  BY ShiftedFacts
<1>2. ASSUME NEW V \in S, V.in[u] # Nowhere
      PROVE  Up(V, u) \in S /\ Up(V, u).in[u] = V.in[V.in[u]] /\ V \in Forest
             /\ \A x \in AllUnits \ {u} : Up(V, u).in[x] = V.in[x]
  <2>1. V \in Forest
    BY ShiftedFacts
  <2>2. /\ Up(V, u) \in Forest /\ Up(V, u).in = [V.in EXCEPT ![u] = V.in[V.in[u]]]
        /\ \A O \in Tally : AddsUp(V, O) => AddsUp(Up(V, u), O)
    BY <1>2, <2>1, UpKeeps DEF Tally
  <2> HIDE DEF S
  <2> QED BY <2>1, <2>2, ShiftedOn DEF S
<1>3. step \in [S -> S]
  <2> SUFFICES ASSUME NEW V \in S PROVE (IF V.in[u] = Nowhere THEN V ELSE Up(V, u)) \in S
    OBVIOUS
  <2> HIDE DEF S
  <2> QED BY <1>2
<1>4. PICK f \in [Nat -> S] : \A n \in Nat : f[n] = IF n = 0 THEN W ELSE step[f[n - 1]]
  <2> HIDE DEF S, step
  <2> QED BY <1>1, <1>3, LoopWorks
<1>5. Eq(f)
  <2> SUFFICES ASSUME NEW n \in Nat
               PROVE  f[n] = IF n = 0 THEN W
                             ELSE LET V == f[n - 1] IN IF V.in[u] = Nowhere THEN V ELSE Up(V, u)
    OBVIOUS
  <2> HIDE DEF S
  <2>1. CASE n = 0
    BY <1>4, <2>1
  <2>2. CASE n # 0
    <3>1. n - 1 \in Nat
      BY <2>2
    <3>2. f[n - 1] \in S
      BY <3>1
    <3>3. step[f[n - 1]] = LET V == f[n - 1] IN IF V.in[u] = Nowhere THEN V ELSE Up(V, u)
      BY <3>2
    <3> HIDE DEF step
    <3> QED BY <1>4, <2>2, <3>3
  <2> QED BY <2>1, <2>2
<1>6. Eq(higher)
  BY <1>5
<1>7. From(W, u) = higher[N]
  BY DEF From
<1> HIDE DEF higher, N
<1>8. higher[0] = W /\ \A n \in Nat : higher[n + 1] = LET V == higher[n] IN IF V.in[u] = Nowhere THEN V ELSE Up(V, u)
  <2>1. higher[0] = W
    BY <1>6
  <2>2. ASSUME NEW n \in Nat
        PROVE  higher[n + 1] = LET V == higher[n] IN IF V.in[u] = Nowhere THEN V ELSE Up(V, u)
    <3>1. n + 1 \in Nat /\ n + 1 # 0 /\ (n + 1) - 1 = n
      OBVIOUS
    <3>2. higher[n + 1] = LET V == higher[(n + 1) - 1] IN IF V.in[u] = Nowhere THEN V ELSE Up(V, u)
      BY <1>6, <3>1
    <3> QED BY <3>1, <3>2
  <2> QED BY <2>1, <2>2
<1> HIDE DEF step, Eq
<1> DEFINE Fits(V, n) ==
             V \in S /\ (V.in[u] = Nowhere \/ Cardinality(Containers(V, V.in[u])) + n \leq N)
           T == {n \in Nat : Fits(higher[n], n)}
<1>b. ASSUME NEW V \in Forest, NEW x \in AllUnits
      PROVE  /\ IsFiniteSet(Containers(V, x)) /\ Cardinality(Containers(V, x)) \in Nat
             /\ Cardinality(Containers(V, x)) # 0 /\ Cardinality(Containers(V, x)) \leq N
  <2>1. Containers(V, x) \in SUBSET AllUnits /\ x \in Containers(V, x)
    BY ContainersFacts
  <2>2. /\ IsFiniteSet(Containers(V, x)) /\ Cardinality(Containers(V, x)) \leq N
    BY <1>0, <2>1, FS_Subset DEF N
  <2>3. Cardinality(Containers(V, x)) \in Nat /\ Cardinality(Containers(V, x)) # 0
    BY <2>1, <2>2, FS_CardinalityType, FS_EmptySet
  <2> QED BY <2>2, <2>3
<1>9. 0 \in T
  <2>1. W.in[u] # Nowhere => W.in[u] \in AllUnits
    BY ContainersFacts
  <2>2. W.in[u] # Nowhere => Cardinality(Containers(W, W.in[u])) + 0 \leq N
    BY <1>b, <2>1
  <2> HIDE DEF S
  <2> QED BY <1>1, <1>8, <2>2
<1>10. ASSUME NEW n \in T PROVE n + 1 \in T
  <2> DEFINE V == higher[n]
             V1 == higher[n + 1]
             x == V.in[u]
             y == V.in[x]
  <2>1. n \in Nat /\ Fits(V, n) /\ V \in S
    OBVIOUS
  <2>2. CASE x = Nowhere
    <3>1. V1 = V
      BY <1>8, <2>1, <2>2
    <3> HIDE DEF S
    <3> QED BY <2>1, <2>2, <3>1
  <2>3. CASE x # Nowhere
    <3>1. V1 = Up(V, u)
      BY <1>8, <2>1, <2>3
    <3>2. /\ V1 \in S /\ V1.in[u] = y /\ V \in Forest
          /\ \A z \in AllUnits \ {u} : V1.in[z] = V.in[z]
      BY <1>2, <2>1, <2>3, <3>1
    <3>3. V1 \in Forest
      BY <3>2 DEF Shifted
    <3>4. CASE y = Nowhere
      <4> HIDE DEF S
      <4> QED BY <2>1, <3>2, <3>4
    <3>5. CASE y # Nowhere
      <4>1. x \in AllUnits /\ u \notin Containers(V, x)
        BY <2>3, <3>2, ContainersFacts
      <4>2. /\ y \in AllUnits /\ Containers(V, x) = {x} \cup Containers(V, y)
            /\ x \notin Containers(V, y) /\ Containers(V, y) \in SUBSET AllUnits
        BY <3>2, <3>5, <4>1, ContainersFacts
      <4>3. Containers(V1, y) = Containers(V, y)
        <5>1. \A z \in Containers(V, y) : V1.in[z] = V.in[z]
          BY <3>2, <4>1, <4>2
        <5> HIDE DEF V, V1, x, y
        <5> QED BY <3>2, <3>3, <4>2, <5>1, ContainersSame
      <4>4. Cardinality(Containers(V, x)) = Cardinality(Containers(V, y)) + 1
        <5>1. IsFiniteSet(Containers(V, y))
          BY <1>b, <3>2, <4>2
        <5>2. Cardinality(Containers(V, y) \cup {x}) = Cardinality(Containers(V, y)) + 1
          <6> DEFINE C == Containers(V, y)
          <6>1. IsFiniteSet(C) /\ x \notin C
            BY <4>2, <5>1
          <6> HIDE DEF C, x
          <6>2. Cardinality(C \cup {x}) = Cardinality(C) + 1
            BY <6>1, FS_AddElement
          <6> QED BY <6>2 DEF C
        <5>3. Containers(V, x) = Containers(V, y) \cup {x}
          BY <4>2
        <5> QED BY <5>2, <5>3
      <4>5. Cardinality(Containers(V, y)) \in Nat
        BY <1>b, <3>2, <4>2
      <4>6. Cardinality(Containers(V, x)) + n \leq N
        BY <2>1, <2>3
      <4> DEFINE k == Cardinality(Containers(V, y))
      <4>7. k \in Nat /\ (k + 1) + n \leq N
        BY <4>4, <4>5, <4>6
      <4> HIDE DEF k
      <4>8. k + (n + 1) \leq N
        BY <1>0, <2>1, <4>7
      <4>9. Cardinality(Containers(V1, V1.in[u])) + (n + 1) \leq N
        BY <3>2, <4>3, <4>8 DEF k
      <4> HIDE DEF S, V, V1
      <4> QED BY <2>1, <3>2, <4>9 DEF V1
    <3> QED BY <3>4, <3>5
  <2> QED BY <2>2, <2>3
<1>11. N \in T
  <2>1. T \in SUBSET Nat
    OBVIOUS
  <2> HIDE DEF T
  <2>2. T = Nat
    BY <1>9, <1>10, <2>1, FromZeroOn
  <2> QED BY <1>0, <2>2
<1>12. Fits(higher[N], N)
  BY <1>11
<1>13. higher[N].in[u] = Nowhere
  <2> DEFINE V == higher[N]
             k == Cardinality(Containers(V, V.in[u]))
  <2> SUFFICES ASSUME V.in[u] # Nowhere PROVE FALSE
    OBVIOUS
  <2>1. V \in Forest /\ V.in[u] \in AllUnits
    <3>1. V \in Forest
      BY <1>12 DEF Shifted
    <3> QED BY <3>1, ContainersFacts
  <2>2. k \in Nat /\ k # 0
    BY <1>b, <2>1
  <2>3. k + N \leq N
    BY <1>12
  <2> HIDE DEF k
  <2> QED BY <1>0, <2>2, <2>3
<1> QED BY <1>7, <1>12, <1>13

LEMMA ToKeeps ==
  ASSUME NEW W \in Forest, NEW u \in AllUnits, W.in[u] = Nowhere,
         NEW to \in AllUnits, u \notin Containers(W, to)
  PROVE  /\ To(W, u, to) \in Shifted(W, u)
         /\ To(W, u, to).in[u] = to
<1> DEFINE Eq(f) == f = [x \in AllUnits |->
                           Down(IF W.in[x] = Nowhere THEN W ELSE f[W.in[x]], u, x)]
           down == CHOOSE f : Eq(f)
           B == {x \in AllUnits : W.in[x] = Nowhere}
           a == [x \in B |-> Down(W, u, x)]
           parent == [x \in AllUnits \ B |-> W.in[x]]
           step == [x \in AllUnits \ B |-> [V \in World |-> Down(V, u, x)]]
<1>1. (\A x \in AllUnits : W.in[x] \in AllUnits \cup {Nowhere}) /\ W \in World /\ u \in AllUnits
  BY DEF Forest, World
<1>2. Founded(AllUnits, B, parent)
  BY <1>1 DEF Founded, Forest, Rooted
<1>3. \A V \in World, x \in AllUnits : Down(V, u, x) \in World
  BY <1>1, DownTyped
<1>4. /\ B \in SUBSET AllUnits /\ a \in [B -> World]
      /\ parent \in [AllUnits \ B -> AllUnits]
      /\ step \in [AllUnits \ B -> [World -> World]]
  BY <1>1, <1>3
<1>5. PICK f \in [AllUnits -> World] : \A x \in AllUnits :
        f[x] = IF x \in B THEN a[x] ELSE step[x][f[parent[x]]]
  <2> DEFINE Z == World
  <2>1. Recursion(AllUnits, Z, B, a, parent, step)
    BY <1>2, <1>4 DEF Recursion
  <2> HIDE DEF B, a, parent, step, Z
  <2>2. \E f \in [AllUnits -> Z] : \A x \in AllUnits :
          f[x] = IF x \in B THEN a[x] ELSE step[x][f[parent[x]]]
    BY <2>1, RecursionWorks
  <2> QED BY <2>2 DEF Z
<1>6. Eq(f)
  <2> SUFFICES ASSUME NEW x \in AllUnits
               PROVE  f[x] = Down(IF W.in[x] = Nowhere THEN W ELSE f[W.in[x]], u, x)
    OBVIOUS
  <2>1. CASE x \in B
    BY <1>5, <2>1
  <2>2. CASE x \notin B
    <3>1. f[x] = step[x][f[parent[x]]] /\ parent[x] = W.in[x] /\ W.in[x] \in AllUnits
      BY <1>1, <1>5, <2>2
    <3>2. f[W.in[x]] \in World
      BY <3>1
    <3>3. step[x][f[W.in[x]]] = Down(f[W.in[x]], u, x)
      BY <2>2, <3>2
    <3> QED BY <2>2, <3>1, <3>3
  <2> QED BY <2>1, <2>2
<1>7. Eq(down)
  BY <1>6
<1>8. To(W, u, to) = down[to]
  BY DEF To
<1> HIDE DEF down
<1>9. \A x \in AllUnits : down[x] = Down(IF W.in[x] = Nowhere THEN W ELSE down[W.in[x]], u, x)
  BY <1>7
<1> HIDE DEF Eq, B, a, parent, step
<1> DEFINE Fits(x) == down[x] \in Shifted(W, u) /\ down[x].in[u] = x
           T == {x \in Containers(W, to) : ~ Fits(x)}
<1>10. Containers(W, to) \in SUBSET AllUnits /\ to \in Containers(W, to)
  BY ContainersFacts
<1>11. T = {}
  <2> SUFFICES ASSUME T # {} PROVE FALSE
    OBVIOUS
  <2>1. PICK x \in T : W.in[x] \notin T
    <3>1. T \in SUBSET AllUnits
      BY <1>10
    <3> HIDE DEF T
    <3> QED BY <3>1 DEF Forest, Rooted
  <2>2. x \in AllUnits /\ x \in Containers(W, to) /\ x # u
    BY <1>10
  <2> DEFINE V == IF W.in[x] = Nowhere THEN W ELSE down[W.in[x]]
  <2>3. V \in Shifted(W, u) /\ V.in[u] = W.in[x]
    <3>1. CASE W.in[x] = Nowhere
      BY <3>1, ShiftedFacts
    <3>2. CASE W.in[x] # Nowhere
      <4>1. W.in[x] \in Containers(W, to)
        BY <2>2, <3>2, ContainersFacts
      <4>2. Fits(W.in[x])
        BY <2>1, <4>1
      <4> QED BY <3>2, <4>2
    <3> QED BY <3>1, <3>2
  <2>4. down[x] = Down(V, u, x)
    BY <1>9, <2>2
  <2> HIDE DEF V
  <2>5. V \in Forest /\ V.in[x] = W.in[x]
    BY <2>2, <2>3, ShiftedFacts
  <2>6. /\ Down(V, u, x) \in Forest /\ Down(V, u, x).in = [V.in EXCEPT ![u] = x]
        /\ \A O \in Tally : AddsUp(V, O) => AddsUp(Down(V, u, x), O)
    BY <2>2, <2>3, <2>5, DownKeeps DEF Tally
  <2>7. Down(V, u, x) \in Shifted(W, u) /\ Down(V, u, x).in[u] = x
    <3> DEFINE X == Down(V, u, x)
    <3>1. /\ X \in Forest /\ X.in = [V.in EXCEPT ![u] = x]
          /\ \A O \in Tally : AddsUp(V, O) => AddsUp(X, O)
      BY <2>6
    <3> HIDE DEF X, T, Fits
    <3>2. X \in Shifted(W, u) /\ X.in[u] = x
      BY <2>3, <3>1, ShiftedOn
    <3> QED BY <3>2 DEF X
  <2> QED BY <2>4, <2>7
<1>12. Fits(to)
  BY <1>10, <1>11
<1> QED BY <1>8, <1>12

(* From where it is to where it is not a container of.                     *)
LEMMA ShiftKeeps ==
  ASSUME NEW W \in Forest, NEW u \in AllUnits,
         NEW to \in AllUnits, u \notin Containers(W, to)
  PROVE  /\ To(From(W, u), u, to) \in Shifted(W, u)
         /\ To(From(W, u), u, to).in[u] = to
<1> DEFINE V == From(W, u)
<1>1. V \in Shifted(W, u) /\ V.in[u] = Nowhere
  BY FromKeeps
<1> HIDE DEF V
<1>2. V \in Forest /\ \A x \in AllUnits \ {u} : V.in[x] = W.in[x]
  BY <1>1, ShiftedFacts
<1>3. Containers(W, to) \in SUBSET AllUnits
  BY ContainersFacts
<1>4. \A x \in Containers(W, to) : V.in[x] = W.in[x]
  BY <1>2, <1>3
<1>5. u \notin Containers(V, to)
  BY <1>2, <1>4, ContainersSame
<1>6. To(V, u, to) \in Shifted(V, u) /\ To(V, u, to).in[u] = to
  BY <1>1, <1>2, <1>5, ToKeeps
<1> QED BY <1>1, <1>6, ShiftedFacts DEF V

-----------------------------------------------------------------------------
(* The inner ones before what they are in: what happens to a set of units  *)
(* that all end in one place, in whatever order.                           *)
RoomsInRooms(W) == \A r \in Rooms : W.in[r] \in Rooms \cup {Nowhere}

LEMMA RoomsOnly ==
  ASSUME NEW W \in Forest, RoomsInRooms(W), NEW r \in Rooms
  PROVE  Containers(W, r) \subseteq Rooms
<1>1. Rooms \in SUBSET AllUnits /\ r \in AllUnits
  BY DEF AllUnits
<1> QED BY <1>1, ContainersLeast DEF RoomsInRooms

LEMMA WithinFacts ==
  ASSUME w \in Forest, RoomsInRooms(w), NEW u \in AllUnits \ Rooms
  PROVE  /\ Within(u) \in SUBSET (AllUnits \ Rooms) /\ u \in Within(u)
         /\ \A x \in Within(u) : x # u => w.in[x] \in Within(u)
         /\ \A x \in AllUnits : w.in[x] \in Within(u) => x \in Within(u)
<1>1. u \in Containers(w, u)
  BY ContainersFacts
<1>2. Within(u) \in SUBSET (AllUnits \ Rooms) /\ u \in Within(u)
  BY <1>1, RoomsOnly DEF Within
<1>3. ASSUME NEW x \in Within(u), x # u PROVE w.in[x] \in Within(u)
  <2>1. x \in AllUnits /\ u \in Containers(w, x)
    BY DEF Within
  <2>2. w.in[x] \in AllUnits \cup {Nowhere} /\ w.in[x] # Nowhere /\ u \in Containers(w, w.in[x])
    BY <1>3, <2>1, ContainersFacts
  <2> QED BY <2>2 DEF Within
<1>4. ASSUME NEW x \in AllUnits, w.in[x] \in Within(u) PROVE x \in Within(u)
  <2>1. w.in[x] \in AllUnits /\ u \in Containers(w, w.in[x]) /\ w.in[x] # Nowhere
    BY <1>4, UnitsAssumption DEF Within
  <2>2. u \in Containers(w, x)
    BY <2>1, ContainersFacts
  <2> QED BY <2>2 DEF Within
<1> QED BY <1>2, <1>3, <1>4

Gathered(W, T, d) ==
  {V \in Forest :
     /\ \A O \in Tally : AddsUp(W, O) => AddsUp(V, O)
     /\ \A x \in AllUnits : V.in[x] = W.in[x] \/ (x \in T /\ V.in[x] = d)}

Outer(W, S) == CHOOSE x \in S : W.in[x] \notin S

(* A recursion that goes through a set, one element after the other.       *)
Through(T, S, a, op, pick) ==
  {h \in [SUBSET T -> S] : \A s \in SUBSET T :
     h[s] = IF s = {} THEN a ELSE op[pick[s]][h[s \ {pick[s]}]]}

LEMMA SubsetRecursion ==
  ASSUME NEW T, IsFiniteSet(T), NEW S, NEW a \in S, NEW op \in [T -> [S -> S]],
         NEW pick, \A s \in (SUBSET T) \ {{}} : pick[s] \in s
  PROVE  Through(T, S, a, op, pick) # {}
<1> DEFINE D == SUBSET T
           B == {{}}
           first == [s \in B |-> a]
           parent == [s \in D \ B |-> s \ {pick[s]}]
           step == [s \in D \ B |-> op[pick[s]]]
<1>1. \A s \in D \ B : pick[s] \in s /\ pick[s] \in T /\ s \ {pick[s]} \in D
  OBVIOUS
<1>2. Recursion(D, S, B, first, parent, step)
  <2>1. B \in SUBSET D /\ first \in [B -> S]
    OBVIOUS
  <2>2. parent \in [D \ B -> D]
    BY <1>1
  <2>3. step \in [D \ B -> [S -> S]]
    BY <1>1
  <2>4. Founded(D, B, parent)
    <3> SUFFICES ASSUME NEW X \in SUBSET D, X # {}
                 PROVE  \E s \in X : s \in B \/ parent[s] \notin X
      BY DEF Founded
    <3>1. PICK s \in X : \A u \in X : u \subseteq s => u = s
      BY LeastSet
    <3>2. CASE s \notin B
      <4>1. parent[s] = s \ {pick[s]} /\ pick[s] \in s
        BY <1>1, <3>2
      <4> QED BY <3>1, <4>1
    <3> QED BY <3>1, <3>2
  <2> HIDE DEF B, first, parent, step, D
  <2> QED BY <2>1, <2>2, <2>3, <2>4 DEF Recursion
<1>3. PICK h \in [D -> S] : \A s \in D : h[s] = IF s \in B THEN first[s] ELSE step[s][h[parent[s]]]
  <2> HIDE DEF B, first, parent, step, D
  <2> QED BY <1>2, RecursionWorks
<1>4. ASSUME NEW s \in D
      PROVE  h[s] = IF s = {} THEN a ELSE op[pick[s]][h[s \ {pick[s]}]]
  <2>1. CASE s = {}
    BY <1>3, <2>1
  <2>2. CASE s # {}
    <3>1. s \in D \ B
      BY <2>2
    <3>2. h[s] = step[s][h[parent[s]]] /\ parent[s] = s \ {pick[s]} /\ step[s] = op[pick[s]]
      BY <1>3, <3>1
    <3> QED BY <2>2, <3>2
  <2> QED BY <2>1, <2>2
<1>5. h \in Through(T, S, a, op, pick)
  BY <1>4 DEF Through
<1> QED BY <1>5

LEMMA OuterIsIn ==
  ASSUME NEW W \in Forest, NEW S \in SUBSET AllUnits, S # {}
  PROVE  Outer(W, S) \in S
<1>1. \E x \in S : W.in[x] \notin S
  BY DEF Forest, Rooted
<1> QED BY <1>1 DEF Outer

OneByOne(W, T, d, g) ==
  \A s \in (SUBSET T) \ {{}} : \E x \in s :
    g[s \ {x}] \in Gathered(W, T, d) =>
      /\ g[s] \in Gathered(W, T, d) /\ g[s].in[x] = d
      /\ \A y \in AllUnits \ {x} : g[s].in[y] = g[s \ {x}].in[y]

AllIn(W, T, d) ==
  {V \in Forest :
     /\ \A O \in Tally : AddsUp(W, O) => AddsUp(V, O)
     /\ \A x \in AllUnits : V.in[x] = IF x \in T THEN d ELSE W.in[x]}

LEMMA InsideOutEnds ==
  ASSUME NEW W \in Forest, NEW T \in SUBSET AllUnits, NEW d, NEW g, g[{}] = W,
         OneByOne(W, T, d, g)
  PROVE  g[T] \in AllIn(W, T, d)
<1> DEFINE S == Gathered(W, T, d)
           Fits(s) == g[s] \in S /\ \A x \in s : g[s].in[x] = d
           X == {s \in SUBSET T : ~ Fits(s)}
<1>1. W \in S
  BY DEF Gathered
<1>2. IsFiniteSet(T)
  BY UnitsAssumption, FS_Subset
<1>3. X = {}
  <2> SUFFICES ASSUME X # {} PROVE FALSE
    OBVIOUS
  <2>1. PICK s \in X : \A u \in X : u \subseteq s => u = s
    <3>1. X \in SUBSET (SUBSET T)
      OBVIOUS
    <3> HIDE DEF X
    <3> QED BY <1>2, <3>1, LeastSet
  <2>2. CASE s = {}
    <3> HIDE DEF S
    <3> QED BY <1>1, <2>1, <2>2
  <2>3. CASE s # {}
    <3>1. PICK x \in s :
            g[s \ {x}] \in S =>
              /\ g[s] \in S /\ g[s].in[x] = d
              /\ \A y \in AllUnits \ {x} : g[s].in[y] = g[s \ {x}].in[y]
      BY <2>3 DEF OneByOne
    <3>2. s \ {x} \in SUBSET T /\ s \ {x} # s
      BY <2>1
    <3>3. Fits(s \ {x})
      BY <2>1, <3>2
    <3>4. /\ g[s] \in S /\ g[s].in[x] = d
          /\ \A y \in AllUnits \ {x} : g[s].in[y] = g[s \ {x}].in[y]
      BY <3>1, <3>3
    <3>5. \A y \in s : g[s].in[y] = d
      BY <2>1, <3>3, <3>4
    <3> HIDE DEF S
    <3> QED BY <2>1, <3>4, <3>5
  <2> QED BY <2>2, <2>3
<1>4. Fits(T)
  BY <1>3
<1>5. /\ g[T] \in Forest
      /\ \A O \in Tally : AddsUp(W, O) => AddsUp(g[T], O)
      /\ \A x \in AllUnits : g[T].in[x] = W.in[x] \/ (x \in T /\ g[T].in[x] = d)
      /\ \A x \in T : g[T].in[x] = d
  BY <1>4 DEF Gathered
<1>6. \A x \in AllUnits : g[T].in[x] = IF x \in T THEN d ELSE W.in[x]
  BY <1>5
<1> QED BY <1>5, <1>6 DEF AllIn

(* A unit that leaves for d leaves the others where they are.              *)
LEMMA GatheredOn ==
  ASSUME NEW W \in Forest, NEW T \in SUBSET AllUnits, NEW d, NEW V \in Gathered(W, T, d),
         NEW u \in T, NEW Y \in Shifted(V, u), Y.in[u] = d
  PROVE  /\ Y \in Gathered(W, T, d)
         /\ \A y \in AllUnits \ {u} : Y.in[y] = V.in[y]
<1>1. /\ V \in Forest
      /\ \A O \in Tally : AddsUp(W, O) => AddsUp(V, O)
      /\ \A x \in AllUnits : V.in[x] = W.in[x] \/ (x \in T /\ V.in[x] = d)
  BY DEF Gathered
<1>2. u \in AllUnits
  OBVIOUS
<1>3. /\ Y \in Forest
      /\ \A O \in Tally : AddsUp(V, O) => AddsUp(Y, O)
      /\ \A x \in AllUnits \ {u} : Y.in[x] = V.in[x]
  BY <1>1, <1>2, ShiftedFacts
<1>4. \A O \in Tally : AddsUp(W, O) => AddsUp(Y, O)
  BY <1>1, <1>3
<1>5. \A x \in AllUnits : Y.in[x] = W.in[x] \/ (x \in T /\ Y.in[x] = d)
  BY <1>1, <1>3
<1> QED BY <1>3, <1>4, <1>5 DEF Gathered

LEMMA FromGathers ==
  ASSUME NEW W \in Forest, NEW T \in SUBSET AllUnits, NEW V \in Gathered(W, T, Nowhere), NEW u \in T
  PROVE  /\ From(V, u) \in Gathered(W, T, Nowhere) /\ From(V, u).in[u] = Nowhere
         /\ \A y \in AllUnits \ {u} : From(V, u).in[y] = V.in[y]
<1> DEFINE Y == From(V, u)
<1>1. V \in Forest /\ u \in AllUnits
  BY DEF Gathered
<1>2. Y \in Shifted(V, u) /\ Y.in[u] = Nowhere
  BY <1>1, FromKeeps
<1> HIDE DEF Y
<1>3. Y \in Gathered(W, T, Nowhere) /\ \A y \in AllUnits \ {u} : Y.in[y] = V.in[y]
  BY <1>2, GatheredOn
<1> QED BY <1>2, <1>3 DEF Y

LEMMA VoidGathers ==
  ASSUME NEW W \in Forest, RoomsInRooms(W), NEW T \in SUBSET (AllUnits \ Rooms),
         NEW V \in Gathered(W, T, Void), NEW u \in T
  PROVE  /\ ToVoid(V, u) \in Gathered(W, T, Void) /\ ToVoid(V, u).in[u] = Void
         /\ \A y \in AllUnits \ {u} : ToVoid(V, u).in[y] = V.in[y]
<1> DEFINE Y == To(From(V, u), u, Void)
<1>1. V \in Forest /\ u \in AllUnits /\ u \notin Rooms /\ Void \in Rooms /\ Void \in AllUnits
  BY UnitsAssumption DEF Gathered, AllUnits
<1>2. RoomsInRooms(V)
  BY DEF RoomsInRooms, Gathered, AllUnits
<1>3. u \notin Containers(V, Void)
  BY <1>1, <1>2, RoomsOnly
<1>4. Y \in Shifted(V, u) /\ Y.in[u] = Void
  BY <1>1, <1>3, ShiftKeeps
<1>5. Y = ToVoid(V, u)
  BY DEF ToVoid
<1> HIDE DEF Y
<1>6. Y \in Gathered(W, T, Void) /\ \A y \in AllUnits \ {u} : Y.in[y] = V.in[y]
  BY <1>4, GatheredOn
<1> QED BY <1>4, <1>5, <1>6

LEMMA ClearKeeps ==
  ASSUME NEW W \in Forest, NEW T \in SUBSET AllUnits
  PROVE  InsideOut(W, T, From) \in AllIn(W, T, Nowhere)
<1> DEFINE Eq(h) == h = [s \in SUBSET T |->
                           IF s = {} THEN W
                           ELSE LET x == CHOOSE x \in s : W.in[x] \notin s IN From(h[s \ {x}], x)]
           g == CHOOSE h : Eq(h)
           S == Gathered(W, T, Nowhere)
           op == [x \in T |-> [V \in S |-> From(V, x)]]
           pick == [s \in SUBSET T |-> Outer(W, s)]
<1>1. T \in SUBSET AllUnits /\ IsFiniteSet(T)
  BY UnitsAssumption, FS_Subset
<1>2. \A s \in (SUBSET T) \ {{}} : Outer(W, s) \in s /\ pick[s] = Outer(W, s)
  BY <1>1, OuterIsIn
<1>3. W \in S
  BY DEF Gathered
<1>4. op \in [T -> [S -> S]]
  BY FromGathers
<1>5. PICK f \in [SUBSET T -> S] : \A s \in SUBSET T :
        f[s] = IF s = {} THEN W ELSE op[pick[s]][f[s \ {pick[s]}]]
  <2>1. \A s \in (SUBSET T) \ {{}} : pick[s] \in s
    BY <1>2
  <2> HIDE DEF S, op, pick, g, Eq
  <2>2. Through(T, S, W, op, pick) # {}
    BY <1>1, <1>3, <1>4, <2>1, SubsetRecursion
  <2> QED BY <2>2 DEF Through
<1>6. Eq(f)
  <2> SUFFICES ASSUME NEW s \in SUBSET T
               PROVE  f[s] = IF s = {} THEN W ELSE From(f[s \ {Outer(W, s)}], Outer(W, s))
    BY DEF Outer
  <2>1. CASE s = {}
    BY <1>5, <2>1
  <2>2. CASE s # {}
    <3> DEFINE x == Outer(W, s)
               r == s \ {x}
    <3>1. x \in s /\ x \in T /\ pick[s] = x /\ r \in SUBSET T
      BY <1>2, <2>2
    <3>2. f[s] = op[x][f[r]]
      BY <1>5, <2>2, <3>1
    <3> HIDE DEF x, r
    <3>3. f[r] \in S
      BY <3>1
    <3>4. op[x][f[r]] = From(f[r], x)
      <4> HIDE DEF S
      <4> QED BY <3>1, <3>3
    <3> QED BY <2>2, <3>2, <3>4 DEF x, r
  <2> QED BY <2>1, <2>2
<1>7. Eq(g)
  BY <1>6
<1>8. InsideOut(W, T, From) = g[T]
  BY DEF InsideOut
<1> HIDE DEF g, op, pick
<1>9. \A s \in SUBSET T :
        g[s] = IF s = {} THEN W ELSE From(g[s \ {Outer(W, s)}], Outer(W, s))
  BY <1>7 DEF Outer
<1>10. g[{}] = W
  BY <1>9
<1> HIDE DEF Eq
<1>11. ASSUME NEW s \in (SUBSET T) \ {{}}
       PROVE  \E x \in s : g[s \ {x}] \in Gathered(W, T, Nowhere) =>
                /\ g[s] \in Gathered(W, T, Nowhere) /\ g[s].in[x] = Nowhere
                /\ \A y \in AllUnits \ {x} : g[s].in[y] = g[s \ {x}].in[y]
  <2> DEFINE x == Outer(W, s)
             V == g[s \ {x}]
  <2>1. x \in s /\ x \in T /\ g[s] = From(V, x)
    BY <1>2, <1>9
  <2> HIDE DEF x, V
  <2>2. V \in Gathered(W, T, Nowhere) =>
          /\ From(V, x) \in Gathered(W, T, Nowhere) /\ From(V, x).in[x] = Nowhere
          /\ \A y \in AllUnits \ {x} : From(V, x).in[y] = V.in[y]
    BY <1>1, <2>1, FromGathers
  <2> QED BY <2>1, <2>2 DEF V
<1>12. OneByOne(W, T, Nowhere, g)
  BY <1>11 DEF OneByOne
<1>13. g[T] \in AllIn(W, T, Nowhere)
  BY <1>1, <1>10, <1>12, InsideOutEnds
<1> QED BY <1>8, <1>13

LEMMA ExtractKeeps ==
  ASSUME NEW W \in Forest, RoomsInRooms(W), NEW T \in SUBSET (AllUnits \ Rooms)
  PROVE  InsideOut(W, T, ToVoid) \in AllIn(W, T, Void)
<1> DEFINE Eq(h) == h = [s \in SUBSET T |->
                           IF s = {} THEN W
                           ELSE LET x == CHOOSE x \in s : W.in[x] \notin s IN ToVoid(h[s \ {x}], x)]
           g == CHOOSE h : Eq(h)
           S == Gathered(W, T, Void)
           op == [x \in T |-> [V \in S |-> ToVoid(V, x)]]
           pick == [s \in SUBSET T |-> Outer(W, s)]
<1>1. T \in SUBSET AllUnits /\ IsFiniteSet(T)
  BY UnitsAssumption, FS_Subset
<1>2. \A s \in (SUBSET T) \ {{}} : Outer(W, s) \in s /\ pick[s] = Outer(W, s)
  BY <1>1, OuterIsIn
<1>3. W \in S
  BY DEF Gathered
<1>4. op \in [T -> [S -> S]]
  BY VoidGathers
<1>5. PICK f \in [SUBSET T -> S] : \A s \in SUBSET T :
        f[s] = IF s = {} THEN W ELSE op[pick[s]][f[s \ {pick[s]}]]
  <2>1. \A s \in (SUBSET T) \ {{}} : pick[s] \in s
    BY <1>2
  <2> HIDE DEF S, op, pick, g, Eq
  <2>2. Through(T, S, W, op, pick) # {}
    BY <1>1, <1>3, <1>4, <2>1, SubsetRecursion
  <2> QED BY <2>2 DEF Through
<1>6. Eq(f)
  <2> SUFFICES ASSUME NEW s \in SUBSET T
               PROVE  f[s] = IF s = {} THEN W ELSE ToVoid(f[s \ {Outer(W, s)}], Outer(W, s))
    BY DEF Outer
  <2>1. CASE s = {}
    BY <1>5, <2>1
  <2>2. CASE s # {}
    <3> DEFINE x == Outer(W, s)
               r == s \ {x}
    <3>1. x \in s /\ x \in T /\ pick[s] = x /\ r \in SUBSET T
      BY <1>2, <2>2
    <3>2. f[s] = op[x][f[r]]
      BY <1>5, <2>2, <3>1
    <3> HIDE DEF x, r
    <3>3. f[r] \in S
      BY <3>1
    <3>4. op[x][f[r]] = ToVoid(f[r], x)
      <4> HIDE DEF S
      <4> QED BY <3>1, <3>3
    <3> QED BY <2>2, <3>2, <3>4 DEF x, r
  <2> QED BY <2>1, <2>2
<1>7. Eq(g)
  BY <1>6
<1>8. InsideOut(W, T, ToVoid) = g[T]
  BY DEF InsideOut
<1> HIDE DEF g, op, pick
<1>9. \A s \in SUBSET T :
        g[s] = IF s = {} THEN W ELSE ToVoid(g[s \ {Outer(W, s)}], Outer(W, s))
  BY <1>7 DEF Outer
<1>10. g[{}] = W
  BY <1>9
<1> HIDE DEF Eq
<1>11. ASSUME NEW s \in (SUBSET T) \ {{}}
       PROVE  \E x \in s : g[s \ {x}] \in Gathered(W, T, Void) =>
                /\ g[s] \in Gathered(W, T, Void) /\ g[s].in[x] = Void
                /\ \A y \in AllUnits \ {x} : g[s].in[y] = g[s \ {x}].in[y]
  <2> DEFINE x == Outer(W, s)
             V == g[s \ {x}]
  <2>1. x \in s /\ x \in T /\ g[s] = ToVoid(V, x)
    BY <1>2, <1>9
  <2> HIDE DEF x, V
  <2>2. V \in Gathered(W, T, Void) =>
          /\ ToVoid(V, x) \in Gathered(W, T, Void) /\ ToVoid(V, x).in[x] = Void
          /\ \A y \in AllUnits \ {x} : ToVoid(V, x).in[y] = V.in[y]
    BY <1>1, <2>1, VoidGathers
  <2> QED BY <2>1, <2>2 DEF V
<1>12. OneByOne(W, T, Void, g)
  BY <1>11 DEF OneByOne
<1>13. g[T] \in AllIn(W, T, Void)
  BY <1>1, <1>10, <1>12, InsideOutEnds
<1> QED BY <1>8, <1>13

-----------------------------------------------------------------------------
(* Weight that changes, and what is new.                                   *)
LEMMA ChainUnique ==
  ASSUME NEW W \in Forest, NEW u \in AllUnits
  PROVE  \A c, d \in Containers(W, u) : W.in[c] = W.in[d] /\ W.in[c] # Nowhere => c = d
<1> DEFINE Bad(v) == \E c, d \in Containers(W, v) : W.in[c] = W.in[d] /\ W.in[c] # Nowhere /\ c # d
           T == {v \in AllUnits : Bad(v)}
<1> SUFFICES ASSUME T # {} PROVE FALSE
  OBVIOUS
<1>1. PICK v \in T : W.in[v] \notin T
  <2>1. T \in SUBSET AllUnits
    OBVIOUS
  <2> HIDE DEF T
  <2> QED BY <2>1 DEF Forest, Rooted
<1>2. PICK c, d \in Containers(W, v) : W.in[c] = W.in[d] /\ W.in[c] # Nowhere /\ c # d
  BY <1>1
<1>3. v \in AllUnits /\ Containers(W, v) \in SUBSET AllUnits
  BY ContainersFacts
<1>4. CASE W.in[v] = Nowhere
  <2>1. Containers(W, v) = {v}
    BY <1>3, <1>4, ContainersFacts
  <2> QED BY <1>2, <2>1
<1>5. CASE W.in[v] # Nowhere
  <2> DEFINE p == W.in[v]
  <2>1. /\ Containers(W, v) = {v} \cup Containers(W, p) /\ p \in AllUnits
        /\ Containers(W, p) \in SUBSET AllUnits
    BY <1>3, <1>5, ContainersFacts
  <2>2. ~ Bad(p)
    BY <1>1, <2>1
  <2>3. ASSUME NEW x \in Containers(W, p), W.in[x] = p PROVE FALSE
    <3>1. x \in AllUnits /\ Containers(W, x) \subseteq Containers(W, p)
      BY <2>1, ContainersFacts
    <3>2. x \in Containers(W, x) /\ x \notin Containers(W, W.in[x])
      BY <1>5, <2>3, <3>1, ContainersFacts
    <3> QED BY <2>3, <3>1, <3>2
  <2> QED BY <1>2, <2>1, <2>2, <2>3
<1> QED BY <1>4, <1>5

LEMMA ChainFrom ==
  ASSUME NEW W \in Forest, NEW u \in AllUnits, NEW z \in Containers(W, u), z # u
  PROVE  \E c \in Containers(W, u) : c \in Contents(W, z)
<1> DEFINE C == Containers(W, u)
           T == {x \in C : x = u \/ \E c \in C : W.in[c] = x}
<1>1. C \in SUBSET AllUnits /\ u \in C
  BY ContainersFacts
<1>2. \A x \in T : W.in[x] # Nowhere => W.in[x] \in T
  <2> SUFFICES ASSUME NEW x \in T, W.in[x] # Nowhere PROVE W.in[x] \in T
    OBVIOUS
  <2>1. x \in C
    OBVIOUS
  <2>2. W.in[x] \in C
    BY <2>1, ContainersFacts
  <2> QED BY <2>1, <2>2
<1>3. C \subseteq T
  <2>1. u \in T /\ T \in SUBSET AllUnits
    BY <1>1
  <2> HIDE DEF T
  <2> QED BY <1>2, <2>1, ContainersLeast DEF C
<1> QED BY <1>1, <1>3 DEF Contents

LEMMA HeavierKeeps ==
  ASSUME NEW W \in Forest, NEW u \in AllUnits, NEW n \in Int, NEW O \in Tally, AddsUp(W, O)
  PROVE  /\ Heavier(W, u, n) \in Forest
         /\ Heavier(W, u, n).in = W.in
         /\ AddsUp(Heavier(W, u, n), [O EXCEPT ![u] = O[u] + n])
<1> DEFINE V == Heavier(W, u, n)
           C == Containers(W, u)
           P == [O EXCEPT ![u] = O[u] + n]
           e == W.weight
           f == V.weight
<1>1. e \in Tally /\ W.chars \in Tally /\ W \in World
  BY DEF Forest, World, Tally
<1>2. C \in SUBSET AllUnits /\ u \in C /\ \A x \in C : W.in[x] # Nowhere => W.in[x] \in C
  BY ContainersFacts
<1>3. f = [x \in AllUnits |-> IF x \in C THEN e[x] + n ELSE e[x]]
  BY <1>1 DEF Heavier, World
<1>4. V.in = W.in /\ V.chars = W.chars
  BY <1>1 DEF Heavier, World
<1>5. f \in Tally
  BY <1>1, <1>3 DEF Tally
<1>6. V \in World
  <2>1. V = [W EXCEPT !.weight = f]
    BY <1>3 DEF Heavier
  <2> HIDE DEF f, V
  <2> QED BY <1>1, <1>5, <2>1 DEF World, Tally
<1>7. V \in Forest
  BY <1>4, <1>6 DEF Forest, Rooted
<1>8. \A z \in AllUnits : Contents(V, z) = Contents(W, z)
  BY <1>4 DEF Contents
<1> HIDE DEF V, C, e, f
<1>a. \A x \in AllUnits : /\ x \in C => f[x] = e[x] + n
                          /\ x \notin C => f[x] = e[x]
                          /\ e[x] \in Int /\ f[x] \in Int /\ O[x] \in Int
  BY <1>1, <1>3, <1>5 DEF Tally
<1>9. ASSUME NEW z \in AllUnits
      PROVE  f[z] = P[z] + Total(f, Contents(W, z))
  <2> DEFINE D == Contents(W, z)
             m == Total(e, D)
             k == Total(f, D)
  <2>1. D \in SUBSET AllUnits /\ IsFiniteSet(D) /\ \A x \in D : W.in[x] = z
    BY ContentsFinite DEF Contents
  <2>2. e[z] = O[z] + m
    BY DEF AddsUp, e
  <2>3. \A x \in D : e[x] \in Int /\ f[x] \in Int
    BY <1>a, <2>1
  <2>4. z # Nowhere
    BY UnitsAssumption
  <2> HIDE DEF D
  <2>5. m \in Int
    BY <2>1, <2>3, TotalFacts
  <2>6. ASSUME \A x \in D : x \notin C PROVE k = m
    <3>1. \A x \in D : f[x] = e[x]
      BY <1>a, <2>1, <2>6
    <3> QED BY <2>1, <2>3, <3>1, TotalSame
  <2>7. CASE z = u
    <3>1. \A x \in D : x \notin C
      <4> SUFFICES ASSUME NEW x \in D, x \in C PROVE FALSE
        OBVIOUS
      <4>1. x \in AllUnits /\ Containers(W, x) \subseteq C /\ W.in[x] = u
        BY <2>1, <2>7, ContainersFacts DEF C
      <4>2. x \notin Containers(W, u)
        BY <2>4, <2>7, <4>1, ContainersFacts
      <4> QED BY <4>2 DEF C
    <3>2. P[z] = O[z] + n /\ f[z] = e[z] + n
      BY <1>2, <1>a, <2>7 DEF Tally
    <3>3. k = m
      BY <2>6, <3>1
    <3> HIDE DEF k, m
    <3>4. f[z] = P[z] + k
      BY <1>a, <2>2, <2>5, <3>2, <3>3
    <3> QED BY <3>4 DEF k, D
  <2>8. CASE z # u
    <3>1. P[z] = O[z]
      BY <2>8 DEF Tally
    <3>2. CASE z \in C
      <4>1. PICK c \in C : c \in D
        BY <2>8, <3>2, ChainFrom DEF C, D
      <4>2. \A x \in D \ {c} : x \notin C
        <5> SUFFICES ASSUME NEW x \in D, x # c, x \in C PROVE FALSE
          OBVIOUS
        <5>1. W.in[x] = z /\ W.in[c] = z
          BY <2>1, <4>1
        <5> QED BY <2>4, <4>1, <5>1, ChainUnique DEF C
      <4>3. f[c] = e[c] + n /\ \A x \in D \ {c} : f[x] = e[x]
        BY <1>a, <2>1, <4>1, <4>2
      <4>4. k = m + n
        BY <2>1, <2>3, <4>1, <4>3, TotalChange
      <4>5. f[z] = e[z] + n
        BY <1>a, <3>2
      <4> HIDE DEF k, m
      <4>6. f[z] = P[z] + k
        BY <1>a, <2>2, <2>5, <3>1, <4>4, <4>5
      <4> QED BY <4>6 DEF k, D
    <3>3. CASE z \notin C
      <4>1. \A x \in D : x \notin C
        BY <1>2, <2>1, <2>4, <3>3
      <4>2. k = m /\ f[z] = e[z]
        BY <1>a, <2>6, <3>3, <4>1
      <4> HIDE DEF k, m
      <4>3. f[z] = P[z] + k
        BY <1>a, <2>2, <2>5, <3>1, <4>2
      <4> QED BY <4>3 DEF k, D
    <3> QED BY <3>2, <3>3
  <2> QED BY <2>7, <2>8
<1>10. AddsUp(V, P)
  BY <1>4, <1>8, <1>9 DEF AddsUp, f
<1> QED BY <1>4, <1>7, <1>10 DEF V

(* A unit that is read is empty and in nothing.                            *)
LEMMA FreshKeeps ==
  ASSUME NEW W \in Forest, NEW u \in AllUnits, W.in[u] = Nowhere, Contents(W, u) = {},
         NEW O \in Tally, AddsUp(W, O),
         NEW V, V = [W EXCEPT !.weight[u] = 1, !.chars[u] = 0]
  PROVE  V \in Forest /\ V.in = W.in /\ AddsUp(V, [O EXCEPT ![u] = 1])
<1> DEFINE P == [O EXCEPT ![u] = 1]
           e == W.weight
           f == V.weight
<1>1. W \in World /\ e \in Tally
  BY DEF Forest, World, Tally
<1>2. V.in = W.in /\ f = [e EXCEPT ![u] = 1] /\ V.chars = [W.chars EXCEPT ![u] = 0]
  BY <1>1 DEF World
<1>3. V \in World
  <2> DEFINE c == [W.chars EXCEPT ![u] = 0]
  <2>1. c \in [AllUnits -> Int]
    BY <1>1 DEF World
  <2>2. f \in [AllUnits -> Int]
    BY <1>1, <1>2 DEF Tally
  <2>3. V = [W EXCEPT !.weight = f, !.chars = c]
    BY <1>1, <1>2 DEF World
  <2> HIDE DEF c, f
  <2> QED BY <1>1, <2>1, <2>2, <2>3 DEF World
<1>4. V \in Forest
  BY <1>2, <1>3 DEF Forest, Rooted
<1>5. \A z \in AllUnits : Contents(V, z) = Contents(W, z)
  BY <1>2 DEF Contents
<1>6. f \in Tally
  BY <1>1, <1>2 DEF Tally
<1> HIDE DEF e, f
<1>7. ASSUME NEW z \in AllUnits
      PROVE  /\ f[z] = P[z] + Total(f, Contents(W, z))
             /\ V.chars[z] = Cardinality(Contents(W, z) \cap Chars)
  <2> DEFINE D == Contents(W, z)
  <2>1. D \in SUBSET AllUnits /\ IsFiniteSet(D) /\ u \notin D
    <3>1. z # Nowhere
      BY UnitsAssumption
    <3> QED BY <3>1, ContentsFinite DEF Contents
  <2>2. e[z] = O[z] + Total(e, D) /\ W.chars[z] = Cardinality(D \cap Chars)
    BY DEF AddsUp, e
  <2>3. CASE z = u
    <3>1. f[z] = 1 /\ P[z] = 1 /\ V.chars[z] = 0
      BY <1>1, <1>2, <2>3 DEF Tally, World
    <3>2. D = {} /\ D \cap Chars = {}
      BY <2>3
    <3>3. Total(f, {}) = 0
      BY FS_EmptySet, TotalFacts
    <3>4. Cardinality({}) = 0
      BY FS_EmptySet
    <3> QED BY <3>1, <3>2, <3>3, <3>4
  <2>4. CASE z # u
    <3>1. f[z] = e[z] /\ P[z] = O[z] /\ V.chars[z] = W.chars[z]
      BY <1>1, <1>2, <2>4 DEF Tally, World
    <3>2. \A x \in D : e[x] \in Int /\ f[x] = e[x]
      BY <1>1, <1>2, <2>1 DEF Tally
    <3> HIDE DEF D
    <3>3. Total(f, D) = Total(e, D)
      BY <2>1, <3>2, TotalSame
    <3> QED BY <2>2, <3>1, <3>3 DEF D
  <2> QED BY <2>3, <2>4
<1>8. AddsUp(V, P)
  BY <1>5, <1>7 DEF AddsUp, f
<1> QED BY <1>2, <1>4, <1>8

-----------------------------------------------------------------------------
(* The invariant: the properties of the runs, and that rooms are only in   *)
(* rooms, so that the void is never inside what is put into it.            *)
UnitsInv ==
  /\ UnitsOK
  /\ NothingInItself
  /\ RoomsInRooms(w)
  /\ GoneIsEmpty
  /\ CountsAddUp

(* What of it is about the world and the registered, and what is not.      *)
Fine(W, O, E, G, R) ==
  /\ W \in Forest /\ RoomsInRooms(W)
  /\ AddsUp(W, O)
  /\ \A x \in AllUnits \ Rooms : W.in[x] = Nowhere \/ x \in G \ R => Contents(W, x) = {}
  /\ \A o \in E : W.in[o] \in Chars
  /\ \A d \in G : d \in AllUnits \ Rooms /\ W.in[d] # Nowhere
  /\ R \subseteq G

Bounds == own \in [AllUnits -> 1..MaxWeight] /\ worn \subseteq Wearable

LEMMA InvIsFine ==
  /\ UnitsInv => Fine(w, own, worn, gone, refilled) /\ Bounds
  /\ Fine(w', own', worn', gone', refilled') /\ Bounds' => UnitsInv'
<1>1. AllUnits \ Rooms = Chars \cup Objs
  BY UnitsAssumption DEF AllUnits
<1>2. ASSUME UnitsInv PROVE Fine(w, own, worn, gone, refilled) /\ Bounds
  <2>1. w \in Forest /\ RoomsInRooms(w)
    BY <1>2 DEF UnitsInv, UnitsOK, NothingInItself, Forest, Rooted
  <2>2. AddsUp(w, own)
    BY <1>2 DEF UnitsInv, CountsAddUp, AddsUp
  <2>3. \A x \in AllUnits \ Rooms : w.in[x] = Nowhere \/ x \in gone \ refilled => Contents(w, x) = {}
    BY <1>1, <1>2 DEF UnitsInv, GoneIsEmpty
  <2>4. /\ Bounds /\ \A o \in worn : w.in[o] \in Chars
        /\ \A d \in gone : d \in AllUnits \ Rooms /\ w.in[d] # Nowhere
        /\ refilled \subseteq gone
    BY <1>1, <1>2 DEF UnitsInv, UnitsOK, Bounds
  <2> QED BY <2>1, <2>2, <2>3, <2>4 DEF Fine
<1>3. ASSUME Fine(w', own', worn', gone', refilled'), Bounds' PROVE UnitsInv'
  <2>1. UnitsOK'
    BY <1>1, <1>3 DEF UnitsOK, Fine, Bounds, Forest
  <2>2. NothingInItself'
    BY <1>3 DEF NothingInItself, Fine, Forest, Rooted
  <2>3. RoomsInRooms(w)'
    BY <1>3 DEF Fine, RoomsInRooms
  <2>4. GoneIsEmpty'
    BY <1>1, <1>3 DEF GoneIsEmpty, Fine
  <2>5. CountsAddUp'
    BY <1>3 DEF CountsAddUp, Fine, AddsUp
  <2> QED BY <2>1, <2>2, <2>3, <2>4, <2>5 DEF UnitsInv
<1> QED BY <1>2, <1>3

LEMMA InitIsFine == UnitsInit => UnitsInv
<1> SUFFICES ASSUME UnitsInit PROVE UnitsInv
  OBVIOUS
<1>1. /\ w.in = [u \in AllUnits |-> Nowhere]
      /\ w.weight = [u \in AllUnits |-> 1]
      /\ w.chars = [u \in AllUnits |-> 0]
      /\ own = [u \in AllUnits |-> 1]
  BY DEF UnitsInit
<1>2. w \in World
  BY DEF UnitsInit, World
<1>3. \A u \in AllUnits : Contents(w, u) = {} /\ w.in[u] = Nowhere
  BY <1>1, UnitsAssumption DEF Contents
<1>4. UnitsOK
  <2>1. own \in [AllUnits -> 1..MaxWeight]
    BY UnitsAssumption DEF UnitsInit
  <2> QED BY <1>2, <2>1 DEF UnitsInit, UnitsOK
<1>5. NothingInItself
  BY <1>3, UnitsAssumption DEF NothingInItself
<1>6. GoneIsEmpty /\ RoomsInRooms(w)
  BY <1>3 DEF GoneIsEmpty, RoomsInRooms, AllUnits
<1>7. CountsAddUp
  <2>1. Total(w.weight, {}) = 0 /\ Cardinality({}) = 0
    BY FS_EmptySet, TotalFacts
  <2> SUFFICES ASSUME NEW u \in AllUnits
               PROVE  /\ w.weight[u] = own[u] + Total(w.weight, Contents(w, u))
                      /\ w.chars[u] = Cardinality(Contents(w, u) \cap Chars)
    BY DEF CountsAddUp
  <2>2. Contents(w, u) = {} /\ Contents(w, u) \cap Chars = {}
    BY <1>3
  <2>3. w.weight[u] = 1 /\ own[u] = 1 /\ w.chars[u] = 0
    BY <1>1
  <2> QED BY <2>1, <2>2, <2>3
<1> QED BY <1>4, <1>5, <1>6, <1>7 DEF UnitsInv

(* One unit moves, or comes: into what exists, and what was extracted is   *)
(* refilled by it.                                                         *)
LEMMA ShiftedIsFine ==
  ASSUME NEW W, NEW O \in Tally, NEW E, NEW G, NEW R, Fine(W, O, E, G, R),
         NEW u \in AllUnits, NEW V \in Shifted(W, u), NEW to \in AllUnits, V.in[u] = to,
         u \in Rooms => to \in Rooms, to \notin Rooms => W.in[to] # Nowhere,
         NEW Q, R \subseteq Q, Q \subseteq G, to \in G => to \in Q,
         NEW F, F \subseteq AllUnits \ {u}, \A o \in F : W.in[o] \in Chars
  PROVE  Fine(V, O, F, G, Q)
<1>1. W \in Forest
  BY DEF Fine
<1>2. /\ V \in Forest /\ AddsUp(V, O)
      /\ \A x \in AllUnits \ {u} : V.in[x] = W.in[x]
  BY <1>1, ShiftedFacts DEF Fine
<1>3. to # Nowhere
  BY UnitsAssumption
<1>4. ASSUME NEW x \in AllUnits \ Rooms, V.in[x] = Nowhere \/ x \in G \ Q PROVE Contents(V, x) = {}
  <2>1. W.in[x] = Nowhere \/ x \in G \ R
    BY <1>2, <1>3, <1>4
  <2>2. Contents(W, x) = {}
    BY <2>1 DEF Fine
  <2>3. x # to
    <3>1. CASE V.in[x] = Nowhere
      <4>1. x # u
        BY <1>3, <3>1
      <4>2. W.in[x] = Nowhere
        BY <1>2, <3>1, <4>1
      <4> QED BY <1>4, <4>2
    <3>2. CASE x \in G \ Q
      BY <3>2
    <3> QED BY <1>4, <3>1, <3>2
  <2>4. \A y \in AllUnits : V.in[y] # x
    BY <1>2, <2>2, <2>3 DEF Contents
  <2> QED BY <2>4 DEF Contents
<1>5. \A o \in F : V.in[o] \in Chars
  BY <1>2
<1>6. RoomsInRooms(V)
  BY <1>2 DEF RoomsInRooms, Fine, AllUnits
<1>7. \A d \in G : d \in AllUnits \ Rooms /\ V.in[d] # Nowhere
  BY <1>2, <1>3 DEF Fine
<1> QED BY <1>2, <1>4, <1>5, <1>6, <1>7 DEF Fine

LEMMA InvFacts ==
  ASSUME UnitsInv
  PROVE  /\ Fine(w, own, worn, gone, refilled) /\ Bounds /\ w \in Forest /\ w \in World
         /\ RoomsInRooms(w)
         /\ own \in Tally /\ worn \subseteq Wearable
         /\ \A o \in worn : w.in[o] \in Chars
         /\ \A x \in AllUnits : w.in[x] \in Place
         /\ \A x \in AllUnits \ Rooms : w.in[x] = Nowhere \/ x \in gone \ refilled => Contents(w, x) = {}
         /\ \A d \in gone : d \in AllUnits \ Rooms /\ w.in[d] # Nowhere
         /\ refilled \subseteq gone
         /\ worn \subseteq AllUnits
         /\ Void \in Rooms /\ Nowhere \notin AllUnits
<1>1. Fine(w, own, worn, gone, refilled) /\ Bounds
  BY InvIsFine
<1>2. own \in Tally
  <2>1. 1..MaxWeight \subseteq Int
    BY UnitsAssumption
  <2> QED BY <1>1, <2>1 DEF Bounds, Tally
<1>3. worn \subseteq AllUnits
  BY <1>1, UnitsAssumption DEF Bounds, AllUnits
<1>4. \A x \in AllUnits : w.in[x] \in Place
  BY <1>1 DEF Fine, Forest, World, Place
<1> QED BY <1>1, <1>2, <1>3, <1>4, UnitsAssumption DEF Fine, Forest, Bounds

LEMMA EquipKeepsInv ==
  ASSUME UnitsInv, NEW u \in AllUnits, Equip(u)
  PROVE  UnitsInv'
<1> USE InvFacts
<1>1. /\ u \in Wearable \ worn /\ w.in[u] \in Chars
      /\ worn' = worn \cup {u}
      /\ w' = w /\ own' = own /\ gone' = gone /\ refilled' = refilled
  BY DEF Equip
<1>2. Fine(w', own', worn', gone', refilled')
  BY <1>1 DEF Fine
<1>3. Bounds'
  BY <1>1 DEF Bounds
<1> QED BY <1>2, <1>3, InvIsFine

LEMMA UnequipKeepsInv ==
  ASSUME UnitsInv, NEW u \in AllUnits, Unequip(u)
  PROVE  UnitsInv'
<1> USE InvFacts
<1>1. /\ u \in worn /\ worn' = worn \ {u}
      /\ w' = w /\ own' = own /\ gone' = gone /\ refilled' = refilled
  BY DEF Unequip
<1>2. Fine(w', own', worn', gone', refilled')
  BY <1>1 DEF Fine
<1>3. Bounds'
  BY <1>1 DEF Bounds
<1> QED BY <1>2, <1>3, InvIsFine

LEMMA UnitUpKeepsInv ==
  ASSUME UnitsInv, NEW u \in AllUnits, UnitUp(u)
  PROVE  UnitsInv'
<1> USE InvFacts
<1>1. /\ u \in Objs \ worn /\ w.in[u] \in Chars
      /\ w' = Up(w, u)
      /\ own' = own /\ worn' = worn /\ gone' = gone /\ refilled' = refilled
  BY DEF UnitUp
<1> DEFINE x == w.in[u]
           y == w.in[x]
           V == Up(w, u)
<1>2. u \notin Rooms /\ x \in AllUnits \ Rooms /\ x # Nowhere
  BY <1>1, UnitsAssumption DEF AllUnits
<1>3. /\ V \in Forest /\ V.in = [w.in EXCEPT ![u] = y]
      /\ \A O \in Tally : AddsUp(w, O) => AddsUp(V, O)
  BY <1>2, UpKeeps DEF Tally
<1> HIDE DEF V, x, y
<1>4. V \in Shifted(w, u) /\ V.in[u] = y
  BY <1>3, StepIsMove
<1>5. u \in Contents(w, x)
  BY DEF Contents, x
<1>6. y \in AllUnits
  <2>1. y # Nowhere /\ y \in Place
    BY <1>2, <1>5 DEF y
  <2> QED BY <2>1 DEF Place
<1>7. (y \notin Rooms => w.in[y] # Nowhere) /\ (y \in gone => y \in refilled)
  <2>1. x \in Contents(w, y)
    BY <1>2 DEF Contents, y
  <2> QED BY <1>6, <2>1
<1>8. worn \subseteq AllUnits \ {u} /\ \A o \in worn : w.in[o] \in Chars
  BY <1>1
<1>9. Fine(V, own, worn, gone, refilled)
  BY <1>2, <1>4, <1>6, <1>7, <1>8, ShiftedIsFine
<1>10. Fine(w', own', worn', gone', refilled')
  BY <1>1, <1>9 DEF V
<1>11. Bounds'
  BY <1>1 DEF Bounds
<1> QED BY <1>10, <1>11, InvIsFine

LEMMA LinkKeepsInv ==
  ASSUME UnitsInv, NEW u \in AllUnits, NEW to \in AllUnits, Link(u, to)
  PROVE  UnitsInv'
<1> USE InvFacts
<1> DEFINE V == To(From(w, u), u, to)
           F == worn \ {u}
           Q == refilled \cup ({to} \cap gone)
<1>1. /\ to \in Rooms \/ w.in[to] # Nowhere
      /\ w' = IF Allowed(u, to) THEN V ELSE w
      /\ refilled' = IF Allowed(u, to) THEN Q ELSE refilled
      /\ worn' = F /\ own' = own /\ gone' = gone
  BY DEF Link, Exists
<1>2. F \subseteq AllUnits \ {u} /\ \A o \in F : w.in[o] \in Chars
  OBVIOUS
<1>3. ASSUME ~ Allowed(u, to) PROVE Fine(w', own', worn', gone', refilled')
  <2> HIDE DEF V, Q
  <2> QED BY <1>1, <1>3 DEF Fine
<1>4. ASSUME Allowed(u, to) PROVE Fine(w', own', worn', gone', refilled')
  <2>1. u \notin Containers(w, to) /\ (u \in Rooms => to \in Rooms)
    BY <1>4 DEF Allowed, UnitRecursive
  <2>2. V \in Shifted(w, u) /\ V.in[u] = to
    BY <2>1, ShiftKeeps
  <2>3. refilled \subseteq Q /\ Q \subseteq gone /\ (to \in gone => to \in Q)
    OBVIOUS
  <2> HIDE DEF V, F, Q
  <2>4. Fine(V, own, F, gone, Q)
    BY <1>1, <1>2, <2>1, <2>2, <2>3, ShiftedIsFine
  <2> QED BY <1>1, <1>4, <2>4
<1>5. Bounds'
  BY <1>1 DEF Bounds
<1> QED BY <1>3, <1>4, <1>5, InvIsFine

LEMMA ChangeWeightKeepsInv ==
  ASSUME UnitsInv, NEW u \in AllUnits, ChangeWeight(u)
  PROVE  UnitsInv'
<1> USE InvFacts
<1>1. PICK n \in {-1, 1} :
        /\ own[u] + n \in 1..MaxWeight
        /\ own' = [own EXCEPT ![u] = @ + n]
        /\ w' = Heavier(w, u, n)
  BY DEF ChangeWeight
<1>2. worn' = worn /\ gone' = gone /\ refilled' = refilled
  BY DEF ChangeWeight
<1> DEFINE V == Heavier(w, u, n)
           O == [own EXCEPT ![u] = own[u] + n]
<1>3. V \in Forest /\ V.in = w.in /\ AddsUp(V, O)
  <2>1. n \in Int /\ AddsUp(w, own)
    BY DEF Fine
  <2> QED BY <2>1, HeavierKeeps
<1>4. O = own'
  BY <1>1
<1> HIDE DEF V, O
<1>5. \A z \in AllUnits : Contents(V, z) = Contents(w, z)
  BY <1>3 DEF Contents
<1>6. Fine(V, O, worn, gone, refilled)
  BY <1>3, <1>5 DEF Fine, RoomsInRooms
<1>7. Fine(w', own', worn', gone', refilled')
  BY <1>1, <1>2, <1>4, <1>6 DEF V
<1>8. Bounds'
  BY <1>1, <1>2 DEF Bounds
<1> QED BY <1>7, <1>8, InvIsFine

(* A set of units, with all that is in them, ends in one place.            *)
LEMMA AllInIsFine ==
  ASSUME UnitsInv, NEW T \in SUBSET (AllUnits \ Rooms),
         \A x \in AllUnits : w.in[x] \in T => x \in T,
         NEW d \in Rooms \cup {Nowhere}, NEW V \in AllIn(w, T, d)
  PROVE  /\ V \in Forest /\ RoomsInRooms(V) /\ AddsUp(V, own)
         /\ \A x \in AllUnits : V.in[x] = IF x \in T THEN d ELSE w.in[x]
         /\ \A x \in T : Contents(V, x) = {}
         /\ \A x \in AllUnits \ Rooms : Contents(w, x) = {} => Contents(V, x) = {}
<1> USE InvFacts
<1>1. /\ V \in Forest
      /\ \A O \in Tally : AddsUp(w, O) => AddsUp(V, O)
      /\ \A x \in AllUnits : V.in[x] = IF x \in T THEN d ELSE w.in[x]
  BY DEF AllIn
<1>2. AddsUp(V, own)
  BY <1>1 DEF Fine
<1>3. RoomsInRooms(V)
  BY <1>1 DEF RoomsInRooms, AllUnits
<1>4. \A x \in AllUnits \ Rooms : d # x
  OBVIOUS
<1>5. \A x \in T : Contents(V, x) = {}
  BY <1>1, <1>4 DEF Contents
<1>6. \A x \in AllUnits \ Rooms : Contents(w, x) = {} => Contents(V, x) = {}
  BY <1>1, <1>4 DEF Contents
<1> QED BY <1>1, <1>2, <1>3, <1>5, <1>6

LEMMA ExtractUnitKeepsInv ==
  ASSUME UnitsInv, NEW u \in AllUnits, ExtractUnit(u)
  PROVE  UnitsInv'
<1> USE InvFacts
<1> DEFINE V == InsideOut(w, Within(u), ToVoid)
           X == Within(u)
           F == worn \ X
           G == gone \cup X
<1>1. /\ u \in AllUnits \ Rooms /\ w' = V /\ worn' = F /\ gone' = G
      /\ own' = own /\ refilled' = refilled
  BY DEF ExtractUnit, Extracted
<1>2. X \in SUBSET (AllUnits \ Rooms) /\ \A x \in AllUnits : w.in[x] \in X => x \in X
  BY <1>1, WithinFacts
<1>3. V \in AllIn(w, X, Void)
  BY <1>2, ExtractKeeps
<1> HIDE DEF V, X
<1>4. /\ V \in Forest /\ RoomsInRooms(V) /\ AddsUp(V, own)
      /\ \A x \in AllUnits : V.in[x] = IF x \in X THEN Void ELSE w.in[x]
      /\ \A x \in X : Contents(V, x) = {}
      /\ \A x \in AllUnits \ Rooms : Contents(w, x) = {} => Contents(V, x) = {}
  <2>1. Void \in Rooms \cup {Nowhere}
    OBVIOUS
  <2> QED BY <1>2, <1>3, <2>1, AllInIsFine
<1>5. Void \notin {Nowhere}
  BY UnitsAssumption DEF AllUnits
<1>6. ASSUME NEW x \in AllUnits \ Rooms, V.in[x] = Nowhere \/ x \in G \ refilled
      PROVE  Contents(V, x) = {}
  BY <1>4, <1>5, <1>6
<1>7. \A o \in F : V.in[o] \in Chars
  BY <1>4
<1>8. (\A d \in G : d \in AllUnits \ Rooms /\ V.in[d] # Nowhere) /\ refilled \subseteq G
  BY <1>2, <1>4, <1>5
<1> HIDE DEF F, G
<1>9. Fine(V, own, F, G, refilled)
  BY <1>4, <1>6, <1>7, <1>8 DEF Fine
<1>10. Fine(w', own', worn', gone', refilled')
  BY <1>1, <1>9
<1>11. Bounds'
  BY <1>1 DEF Bounds, F
<1> QED BY <1>10, <1>11, InvIsFine

LEMMA ClearKeepsInv ==
  ASSUME UnitsInv, Clear
  PROVE  UnitsInv'
<1> USE InvFacts
<1> DEFINE X == Freed
           V == InsideOut(w, X, From)
           F == worn \ X
<1>1. /\ w' = V /\ own' = own /\ worn' = F /\ gone' = {} /\ refilled' = {}
  BY DEF Clear
<1>2. X \in SUBSET (AllUnits \ Rooms) /\ \A x \in AllUnits : w.in[x] \in X => x \in X
  <2>1. ASSUME NEW d \in gone
        PROVE  /\ Within(d) \in SUBSET (AllUnits \ Rooms)
               /\ \A x \in AllUnits : w.in[x] \in Within(d) => x \in Within(d)
    BY WithinFacts
  <2> QED BY <2>1 DEF Freed
<1>a. \A d \in gone : d \in X
  BY WithinFacts DEF Freed
<1> HIDE DEF X
<1>3. V \in AllIn(w, X, Nowhere)
  <2>1. X \in SUBSET AllUnits
    BY <1>2
  <2> QED BY <2>1, ClearKeeps
<1> HIDE DEF V
<1>4. /\ V \in Forest /\ RoomsInRooms(V) /\ AddsUp(V, own)
      /\ \A x \in AllUnits : V.in[x] = IF x \in X THEN Nowhere ELSE w.in[x]
      /\ \A x \in X : Contents(V, x) = {}
      /\ \A x \in AllUnits \ Rooms : Contents(w, x) = {} => Contents(V, x) = {}
  <2>1. Nowhere \in Rooms \cup {Nowhere}
    OBVIOUS
  <2> QED BY <1>2, <1>3, <2>1, AllInIsFine
<1>5. \A x \in AllUnits \ Rooms : V.in[x] = Nowhere => Contents(V, x) = {}
  BY <1>4
<1>6. \A o \in F : V.in[o] \in Chars
  BY <1>4
<1> HIDE DEF F
<1>7. Fine(V, own, F, {}, {})
  BY <1>4, <1>5, <1>6 DEF Fine
<1>8. Fine(w', own', worn', gone', refilled')
  BY <1>1, <1>7
<1>9. Bounds'
  BY <1>1 DEF Bounds, F
<1> QED BY <1>8, <1>9, InvIsFine

LEMMA ReadUnitKeepsInv ==
  ASSUME UnitsInv, NEW u \in AllUnits, NEW to \in AllUnits, ReadUnit(u, to)
  PROVE  UnitsInv'
<1> USE InvFacts
<1> DEFINE W == [w EXCEPT !.weight[u] = 1, !.chars[u] = 0]
           O == [own EXCEPT ![u] = 1]
           V == To(W, u, to)
           Q == refilled \cup ({to} \cap gone)
<1>1. /\ u \notin Rooms /\ w.in[u] = Nowhere /\ (to \in Rooms \/ w.in[to] # Nowhere)
      /\ own' = O /\ w' = V /\ worn' = worn /\ gone' = gone /\ refilled' = Q
  BY DEF ReadUnit, Exists
<1>2. Contents(w, u) = {}
  BY <1>1
<1>3. W \in Forest /\ W.in = w.in /\ AddsUp(W, O)
  <2>1. AddsUp(w, own)
    BY DEF Fine
  <2> HIDE DEF V
  <2> QED BY <1>1, <1>2, <2>1, FreshKeeps
<1>4. O \in Tally
  BY DEF Tally
<1>5. refilled \subseteq Q /\ Q \subseteq gone /\ (to \in gone => to \in Q)
  OBVIOUS
<1> HIDE DEF W, O, Q
<1>6. \A z \in AllUnits : Contents(W, z) = Contents(w, z)
  BY <1>3 DEF Contents
<1>7. Fine(W, O, worn, gone, refilled)
  BY <1>3, <1>6 DEF Fine, RoomsInRooms
<1>8. u \notin Containers(W, to)
  <2> SUFFICES ASSUME u \in Containers(W, to) PROVE FALSE
    OBVIOUS
  <2>1. u # to
    BY <1>1
  <2>2. \E c \in Containers(W, to) : c \in Contents(W, u)
    BY <1>3, <2>1, ChainFrom
  <2> QED BY <1>2, <1>6, <2>2
<1>9. V \in Shifted(W, u) /\ V.in[u] = to
  BY <1>1, <1>3, <1>8, ToKeeps
<1> HIDE DEF V
<1>10. worn \subseteq AllUnits \ {u} /\ \A o \in worn : W.in[o] \in Chars
  <2>1. u \notin worn
    BY <1>1, UnitsAssumption DEF AllUnits
  <2> QED BY <1>3, <2>1
<1>11. to \notin Rooms => W.in[to] # Nowhere
  BY <1>1, <1>3
<1>12. u \in Rooms => to \in Rooms
  BY <1>1
<1>13. Fine(V, O, worn, gone, Q)
  <2> HIDE InvFacts
  <2> QED BY ONLY <1>4, <1>5, <1>7, <1>9, <1>10, <1>11, <1>12, ShiftedIsFine, SMTT(30)
<1>14. Fine(w', own', worn', gone', refilled')
  BY <1>1, <1>13
<1>15. Bounds'
  <2>1. own' \in [AllUnits -> 1..MaxWeight]
    <3>1. 1 \in 1..MaxWeight
      BY UnitsAssumption
    <3> QED BY <1>1, <3>1 DEF Bounds, O
  <2> QED BY <1>1, <2>1 DEF Bounds
<1> QED BY <1>14, <1>15, InvIsFine

LEMMA UnitsStepKeepsInv == UnitsInv /\ [UnitsNext]_unitsVars => UnitsInv'
<1> SUFFICES ASSUME UnitsInv, [UnitsNext]_unitsVars PROVE UnitsInv'
  OBVIOUS
<1>1. CASE Clear
  BY <1>1, ClearKeepsInv
<1>2. ASSUME NEW u \in AllUnits, Equip(u) PROVE UnitsInv'
  BY <1>2, EquipKeepsInv
<1>3. ASSUME NEW u \in AllUnits, Unequip(u) PROVE UnitsInv'
  BY <1>3, UnequipKeepsInv
<1>4. ASSUME NEW u \in AllUnits, UnitUp(u) PROVE UnitsInv'
  BY <1>4, UnitUpKeepsInv
<1>5. ASSUME NEW u \in AllUnits, ChangeWeight(u) PROVE UnitsInv'
  BY <1>5, ChangeWeightKeepsInv
<1>6. ASSUME NEW u \in AllUnits, ExtractUnit(u) PROVE UnitsInv'
  BY <1>6, ExtractUnitKeepsInv
<1>7. ASSUME NEW u \in AllUnits, NEW to \in AllUnits, Link(u, to) PROVE UnitsInv'
  BY <1>7, LinkKeepsInv
<1>8. ASSUME NEW u \in AllUnits, NEW to \in AllUnits, ReadUnit(u, to) PROVE UnitsInv'
  BY <1>8, ReadUnitKeepsInv
<1>9. CASE UNCHANGED unitsVars
  <2>1. Fine(w, own, worn, gone, refilled) /\ Bounds
    BY InvIsFine
  <2>2. Fine(w', own', worn', gone', refilled') /\ Bounds'
    BY <1>9, <2>1 DEF unitsVars, Bounds
  <2> QED BY <2>2, InvIsFine
<1> QED BY <1>1, <1>2, <1>3, <1>4, <1>5, <1>6, <1>7, <1>8, <1>9 DEF UnitsNext

(* What holds the rest together: each step of Units keeps all of these at  *)
(* once, for the sums of a unit mean something only where going outwards   *)
(* ends.                                                                   *)
THEOREM UnitsInductive == UnitsSpec => []UnitsInv
BY InitIsFine, UnitsStepKeepsInv, PTL DEF UnitsSpec

(* Every sum keeps its type, what is worn is carried by a character        *)
(* whatever happens to it, or to the character, and what is registered has *)
(* not been freed.                                                         *)
THEOREM UnitsTypeCorrect == UnitsSpec => []UnitsOK
BY UnitsInductive, PTL DEF UnitsInv

(* No link puts a unit into itself, however deep (dilinst.c:1155), so that *)
(* what goes from container to container ends.                             *)
THEOREM NeverInItself == UnitsSpec => []NothingInItself
BY UnitsInductive, PTL DEF UnitsInv

(* clear_destructed leaves no unit that points into what it freed, even    *)
(* when programs moved the destroyed units about and put others into them; *)
(* and extract_unit leaves nothing behind in what it takes out of the      *)
(* game, so that only what was put there later is freed with it.           *)
THEOREM EmptyWhenGone == UnitsSpec => []GoneIsEmpty
BY UnitsInductive, PTL DEF UnitsInv

(* Weights and numbers of characters are the sums they stand for, for any  *)
(* containers, however deep, and any sequence of moves.                    *)
THEOREM SumsAddUp == UnitsSpec => []CountsAddUp
BY UnitsInductive, PTL DEF UnitsInv

=============================================================================
