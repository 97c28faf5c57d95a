----------------------------- MODULE Belongings -----------------------------
(***************************************************************************)
(* What players own and leave behind: the inventory files and the          *)
(* persistent corpses (reception.c, persist.c, create.c, and the handlers  *)
(* that save).  The players' own files are PlayerFiles' part.              *)
(*                                                                         *)
(* A handler that saves runs to its end in the one thread, but writes one  *)
(* file after the other, and the process may die between any two writes.   *)
(* A clean exit is, to the things, a loss of some links and then a crash.  *)
(*                                                                         *)
(* A thing is an item, or a corpse with the items in it.  A file holds the *)
(* same identities: what was saved twice may come back twice.              *)
(*                                                                         *)
(* Abstracted: the order of the units in a container, and two copies of an *)
(* item in the same place count once; every item weighs 1, all rooms are   *)
(* one place; rent, slime and the bytes of a unit; whether a player in the *)
(* world still has a link; things with a UNIT_MINV above the level of who  *)
(* carries them, which no corpse takes.                                    *)
(***************************************************************************)
EXTENDS Integers, FiniteSets

CONSTANTS
  Players, Items, Corpses,  \* players by name, objects, corpses of players
  NoSave,               \* the items with UNIT_FL_NOSAVE
  Files,                \* the names mktemp may make
  Taken,                \* bound: the things that players pick up
  Room, Nil

ASSUME KindAssumption ==
  /\ NoSave \subseteq Items
  /\ Items \cap Corpses = {}
  /\ Room \notin Players

VARIABLES
  (* on the disk *)
  known,    \* the players with a file
  inv,      \* the .inv files, each the set of things in it
  pers,     \* the files in persist/
  (* in memory *)
  up,       \* the server runs
  inside,   \* the players in the world
  at,       \* the things in the room and on the players
  job       \* the handler that is writing, Nil between handlers

thingsVars == <<known, inv, pers, up, inside, at, job>>

-----------------------------------------------------------------------------
Holders == Players \cup {Room}

(* struct persist_type: the file, and what was saved last.                 *)
Pt         == [file : Files, weight : Nat, in : {"room", "corpse", "pc"}]
Item       == [what : Items, holds : {{}}, pt : Pt \cup {Nil}]
Corpse     == [what : Corpses, holds : SUBSET Item, pt : Pt \cup {Nil}]
Thing      == Item \cup Corpse
(* On the disk: nothing with UNIT_FL_NOSAVE or a persist_type.             *)
StoredItem == [what : Items \ NoSave, holds : {{}}, pt : {Nil}]
Stored     == StoredItem \cup [what : Corpses, holds : SUBSET StoredItem, pt : {Nil}]

Fresh(w)     == [what |-> w, holds |-> {}, pt |-> Nil]
Weight(t)    == Cardinality(t.holds) + 1
PlaceOf(h)   == IF h = Room THEN "room" ELSE "pc"
(* The persist_type a unit gets when it is saved to the file where it is.  *)
PtFor(f, t, in) == [file |-> f, weight |-> Weight(t), in |-> in]
Plain(t)     == [t EXCEPT !.pt = Nil]

(* All units of a set of things, the ones inside of others, too.           *)
UnitsOf(S)   == S \cup UNION { t.holds : t \in S }
Names(S)     == { u.what : u \in UnitsOf(S) }
FilesOf(S)   == { u.pt.file : u \in { v \in UnitsOf(S) : v.pt # Nil } }

(* enlist leaves out the NOSAVE units; SFUN_PERSIST_INTERNAL is SD_NEVER.  *)
Saved(t)     == [t EXCEPT !.pt = Nil,
                          !.holds = { Plain(i) : i \in { j \in @ : j.what \notin NoSave } }]
WrittenAll(S) ==   \* mutant: enlist does not look at UNIT_FL_NOSAVE
  { Saved(t) : t \in S }
Written(S)   == { Saved(t) : t \in { u \in S : u.what \notin NoSave } }

(* send_saves: a unit saved within another one loses its own file.         *)
Inside(t)    == [t EXCEPT !.holds = { Plain(i) : i \in @ }]
Erased(S)    == { Plain(Inside(t)) : t \in S }

-----------------------------------------------------------------------------
(* kind of handler, the player, the next write, the files send_saves has   *)
(* to remove first, what is written, and into which persistent file.       *)
Job == [kind : {"save", "quit", "die", "tick", "extract"}, p : Players \cup {Nil},
        stage : {"persist", "player", "contents"}, erase : SUBSET Files,
        put : SUBSET Thing, into : Files \cup {Nil}]
NewJob(kind, p, stage, erase, put, into) ==
  [kind |-> kind, p |-> p, stage |-> stage, erase |-> erase, put |-> put, into |-> into]

ASSUME NilAssumption ==
  /\ Nil \notin Files \cup Pt \cup Thing \cup Job
  /\ \A S \in SUBSET Stored : S # Nil

ThingsInit ==
  /\ known = {}
  /\ inv = [p \in Players |-> Nil]
  /\ pers = [f \in Files |-> Nil]
  /\ up = TRUE
  /\ inside = {}
  /\ at = [h \in Holders |-> IF h = Room THEN { Fresh(i) : i \in Items } ELSE {}]
  /\ job = Nil

(* Between two handlers.                                                   *)
Idle     == up /\ job = Nil

-----------------------------------------------------------------------------
(* enter_game, with load_contents.                                         *)
Enter(p) ==
  /\ Idle /\ p \notin inside
  /\ inside' = inside \cup {p}
  /\ at' = [at EXCEPT ![p] = IF inv[p] = Nil THEN {} ELSE inv[p]]
  /\ UNCHANGED <<known, inv, pers, up, job>>

Move(from, to, t) ==
  /\ at' = [at EXCEPT ![from] = @ \ {t}, ![to] = @ \cup {t}]
  /\ UNCHANGED <<known, inv, pers, up, inside, job>>
Get(p, t)  == Idle /\ p \in inside /\ t \in at[Room] /\ t.what \in Taken /\ Move(Room, p, t)
Drop(p, t) == Idle /\ p \in inside /\ t \in at[p] /\ Move(p, Room, t)

(* Out of a corpse that lies in the room, and back into it.                *)
Loot(p, c, i) ==
  /\ Idle /\ p \in inside
  /\ c \in at[Room] /\ i \in c.holds
  /\ at' = [at EXCEPT ![Room] = (@ \ {c}) \cup {[c EXCEPT !.holds = @ \ {i}]},
                      ![p] = @ \cup {i}]
  /\ UNCHANGED <<known, inv, pers, up, inside, job>>
Put(p, c, i) ==
  /\ Idle /\ p \in inside
  /\ c \in at[Room] /\ c.what \in Corpses /\ i \in at[p] /\ i.what \in Items
  /\ at' = [at EXCEPT ![Room] = (@ \ {c}) \cup {[c EXCEPT !.holds = @ \cup {i}]},
                      ![p] = @ \ {i}]
  /\ UNCHANGED <<known, inv, pers, up, inside, job>>

(* save_player, then save_player_contents (do_save, the autosave, the loss *)
(* of the link): everything in memory stays, but for the files of the      *)
(* things carried.                                                         *)
StartSave(kind, p) ==
  /\ job' = NewJob(kind, p, "player", FilesOf(at[p]), Written(at[p]), Nil)
  /\ at' = [at EXCEPT ![p] = Erased(@)]
  /\ UNCHANGED <<known, inv, pers, up, inside>>
Save(p) == Idle /\ p \in inside /\ StartSave("save", p)

(* extract_unit of a player who quits and, when the cycle ends, of what he *)
(* carries.  A guest is not saved.                                         *)
Vanish(p) ==
  /\ inside' = inside \ {p}
  /\ at' = [at EXCEPT ![p] = {}]
Drained(files) ==
  IF files = {} THEN Nil ELSE NewJob("extract", Nil, "persist", files, {}, Nil)
Leave(p) ==
  /\ Idle /\ p \in inside
  /\ \/ p \in known /\ StartSave("quit", p)
     \/ /\ p \notin known /\ Vanish(p) /\ job' = Drained(FilesOf(at[p]))
        /\ UNCHANGED <<known, inv, pers, up>>

(* raw_kill.  make_corpse takes everything: nothing here has a UNIT_MINV.  *)
(* A corpse with something in it gets a file of its own and is saved first *)
(* of all, then the player.                                                *)
Files0   == { f \in Files : pers[f] = Nil }
OnDisk   == UNION ({ inv[p] : p \in { q \in Players : inv[q] # Nil } } \cup
                   { {pers[f]} : f \in Files \ Files0 })
Unused   == Corpses \ Names(UNION { at[h] : h \in Holders } \cup OnDisk)
DieInvFirst(p) ==   \* mutant: the player is saved before the corpse is made
  /\ Idle /\ p \in inside /\ at[p] \subseteq Item
  /\ \E c \in Unused : \E f \in Files0 :
       LET body == [Fresh(c) EXCEPT !.holds = at[p]] IN
       /\ at' = [at EXCEPT ![p] = {},
                   ![Room] = @ \cup {[Inside(body) EXCEPT !.pt = PtFor(f, body, "room")]}]
       /\ job' = NewJob("die", p, "player", FilesOf(at[p]), {Saved(body)}, f)
  /\ UNCHANGED <<known, inv, pers, up, inside>>
Die(p) ==
  /\ Idle /\ p \in inside /\ at[p] \subseteq Item
  /\ \E c \in Unused :
       LET body == [Fresh(c) EXCEPT !.holds = at[p]] IN
       \/ /\ at[p] = {}
          /\ at' = [at EXCEPT ![Room] = @ \cup {body}]
          /\ job' = NewJob("die", p, "player", {}, {}, Nil)
       \/ /\ at[p] # {}
          /\ \E f \in Files0 :
               /\ at' = [at EXCEPT ![p] = {},
                           ![Room] = @ \cup {[Inside(body) EXCEPT !.pt = PtFor(f, body, "room")]}]
               /\ job' = NewJob("die", p, "persist", FilesOf(at[p]), {Saved(body)}, f)
  /\ UNCHANGED <<known, inv, pers, up, inside>>

-----------------------------------------------------------------------------
(* The functions of the persistent units.                                  *)

(* persist_intern on its tick: saved when the weight or the place is       *)
(* another one than at the last save.                                      *)
Moved(t, in) == t.pt # Nil /\ (t.pt.weight # Weight(t) \/ t.pt.in # in)
Tick(h, t) ==
  /\ Idle /\ t \in at[h] /\ Moved(t, PlaceOf(h))
  /\ at' = [at EXCEPT ![h] = (@ \ {t}) \cup
              {[Inside(t) EXCEPT !.pt = PtFor(@.file, t, PlaceOf(h))]}]
  /\ job' = NewJob("tick", Nil, "persist", FilesOf(t.holds), {Saved(t)}, t.pt.file)
  /\ UNCHANGED <<known, inv, pers, up, inside>>
(* The same for a unit that lies in a corpse.                              *)
TickInside(h, c, i) ==
  /\ Idle /\ c \in at[h] /\ i \in c.holds /\ Moved(i, "corpse")
  /\ at' = [at EXCEPT ![h] = (@ \ {c}) \cup {[c EXCEPT !.holds = (@ \ {i}) \cup
              {[i EXCEPT !.pt = PtFor(@.file, i, "corpse")]}]}]
  /\ job' = NewJob("tick", Nil, "persist", {}, {Saved(i)}, i.pt.file)
  /\ UNCHANGED <<known, inv, pers, up, inside>>

(* A corpse falls to dust (TIF_CORPSE_ZAP) with all that is in it;         *)
(* persist_intern removes the file when its function is destroyed.         *)
DecayLeavesFile(h, c) ==   \* mutant: CMD_AUTO_EXTRACT is not handled
  /\ Idle /\ c \in at[h] /\ c.what \in Corpses
  /\ at' = [at EXCEPT ![h] = @ \ {c}]
  /\ job' = Nil
  /\ UNCHANGED <<known, inv, pers, up, inside>>
Decay(h, c) ==
  /\ Idle /\ c \in at[h] /\ c.what \in Corpses
  /\ at' = [at EXCEPT ![h] = @ \ {c}]
  /\ job' = Drained(FilesOf({c}))
  /\ UNCHANGED <<known, inv, pers, up, inside>>

(* delete_player, of somebody who is out of the game.                      *)
Delete(p) ==
  /\ Idle /\ p \in known \ inside
  /\ known' = known \ {p}
  /\ inv' = [inv EXCEPT ![p] = Nil]
  /\ UNCHANGED <<pers, up, inside, at, job>>

-----------------------------------------------------------------------------
(* The writes of a handler, one after the other.                           *)
At(stage)  == job # Nil /\ job.stage = stage

(* What follows when the persistent units are done.                        *)
AfterPersist == IF job.kind = "die" THEN NewJob("die", job.p, "player", {}, {}, Nil)
                                    ELSE Nil

EraseFile ==
  /\ job # Nil /\ job.stage # "player"
  /\ \E f \in job.erase :
       /\ pers' = [pers EXCEPT ![f] = Nil]
       /\ job' = IF job.kind = "extract" /\ job.erase = {f} THEN Nil
                 ELSE [job EXCEPT !.erase = @ \ {f}]
  /\ UNCHANGED <<known, inv, up, inside, at>>

WritePersistent ==
  /\ At("persist") /\ job.erase = {} /\ job.into # Nil
  /\ pers' = [pers EXCEPT ![job.into] = CHOOSE t \in job.put : TRUE]
  /\ job' = AfterPersist
  /\ UNCHANGED <<known, inv, up, inside, at>>

(* save_player_disk                                                        *)
WritePlayer ==
  /\ At("player")
  /\ known' = known \cup {job.p}
  /\ job' = [job EXCEPT !.stage = "contents"]
  /\ UNCHANGED <<inv, pers, up, inside, at>>

(* save_contents.  Nothing carried: the file is removed.  Nothing of it to *)
(* save: the file stays as it was.  A dead player carries the object of    *)
(* the death sequence.                                                     *)
NewInv(p) ==
  CASE job.kind = "die"                    -> {}
    [] job.kind # "die" /\ at[p] = {}      -> Nil
    [] job.kind # "die" /\ job.put # {}    -> job.put
    [] job.kind # "die" /\ at[p] # {} /\ job.put = {} -> inv[p]
SaveContents ==
  LET p == job.p IN
  /\ At("contents") /\ job.erase = {}
  /\ inv' = [inv EXCEPT ![p] = NewInv(p)]
  /\ IF job.kind = "quit" THEN Vanish(p) ELSE UNCHANGED <<inside, at>>
  /\ job' = Nil
  /\ UNCHANGED <<known, pers, up>>

-----------------------------------------------------------------------------
Crash ==
  /\ up
  /\ up' = FALSE
  /\ inside' = {}
  /\ at' = [h \in Holders |-> {}]
  /\ job' = Nil
  /\ UNCHANGED <<known, inv, pers>>

(* persist_boot.  base_load_contents returns the unit it read last, and    *)
(* that one gets the function: the unit put into the corpse last.          *)
LastRead(t) == IF t.holds = {} THEN {t.what} ELSE { i.what : i \in t.holds }
Revived(t, f, w) ==
  IF w = t.what THEN [t EXCEPT !.pt = PtFor(f, t, "room")]
  ELSE [t EXCEPT !.holds =
          { IF i.what = w THEN [i EXCEPT !.pt = PtFor(f, i, "corpse")] ELSE i : i \in @ }]
Boot ==
  LET full == Files \ Files0 IN
  /\ ~up
  /\ up' = TRUE
  /\ \E last \in [full -> Items \cup Corpses] :
       /\ \A f \in full : last[f] \in LastRead(pers[f])
       /\ at' = [at EXCEPT ![Room] = { Revived(pers[f], f, last[f]) : f \in full }]
  /\ UNCHANGED <<known, inv, pers, inside, job>>

-----------------------------------------------------------------------------
ThingsNext ==
  \/ \E p \in Players :
       \/ Enter(p) \/ Save(p) \/ Leave(p) \/ Die(p) \/ Delete(p)
       \/ \E t \in at[Room] : Get(p, t) \/ \E i \in t.holds : Loot(p, t, i)
       \/ \E t \in at[p] : Drop(p, t) \/ \E c \in at[Room] : Put(p, c, t)
  \/ \E h \in Holders : \E t \in at[h] :
       Tick(h, t) \/ Decay(h, t) \/ \E i \in t.holds : TickInside(h, t, i)
  \/ EraseFile \/ WritePersistent \/ WritePlayer \/ SaveContents \/ Crash \/ Boot

ThingsSpec == ThingsInit /\ [][ThingsNext]_thingsVars

-----------------------------------------------------------------------------
(* Things keep their shape, on the disk, too.                              *)
ThingsOK ==
  /\ known \subseteq Players
  /\ inv \in [Players -> (SUBSET Stored) \cup {Nil}]
  /\ pers \in [Files -> Stored \cup {Nil}]
  /\ up \in BOOLEAN
  /\ inside \subseteq Players
  /\ at \in [Holders -> SUBSET Thing]
  /\ job \in Job \cup {Nil}

(* Between two handlers every persistent file is kept by exactly one unit  *)
(* of the world, which will renew or remove it, and every such unit has    *)
(* its file (persist_intern): otherwise a corpse would come back with      *)
(* every boot, or would survive none.                                      *)
Keeping(h, t, f) == { <<h, t, u>> : u \in { v \in UnitsOf({t}) : v.pt # Nil /\ v.pt.file = f } }
Keepers(f) == UNION { UNION { Keeping(h, t, f) : t \in at[h] } : h \in Holders }
OneOwner ==
  Idle => \A f \in Files : Cardinality(Keepers(f)) = IF pers[f] = Nil THEN 0 ELSE 1

(* The unit that keeps a file is the one the file is of (persist_boot      *)
(* takes what base_load_contents returns).                                 *)
KeptByTop ==
  Idle => \A f \in Files : \A k \in Keepers(f) : k[3].what = pers[f].what

(* What a handler is about to save, and is on the disk somewhere but in    *)
(* the files that are removed first, stays on the disk all the while: the  *)
(* things of a player who dies are in the corpse's file before his own is  *)
(* emptied (raw_kill, save_player_contents).                               *)
Staying == UNION ({ inv[p] : p \in { q \in Players : inv[q] # Nil } } \cup
                  { {pers[f]} : f \in Files \ (Files0 \cup job.erase) })
DurableThroughSave ==
  [][job # Nil => Names(Staying) \cap Names(job.put) \subseteq Names(OnDisk')]_thingsVars
=============================================================================
