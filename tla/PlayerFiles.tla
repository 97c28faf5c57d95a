---------------------------- MODULE PlayerFiles ----------------------------
(***************************************************************************)
(* The players' files and the counter of player ids (pcsave.c), and the    *)
(* handlers that load, save and delete a player.                           *)
(*                                                                         *)
(* The server is one thread: a handler that saves runs to its end, but it  *)
(* writes its files one after the other, and the process may die between   *)
(* any two of these writes.  job is the handler at work.                   *)
(*                                                                         *)
(* Abstracted: a character is the id and how far it got; of the inventory  *)
(* only whether there is a file (Belongings has what is in it); one        *)
(* session of a name at a time is at a prompt or in the menu (Session has  *)
(* several).                                                               *)
(***************************************************************************)
EXTENDS Integers

CONSTANTS
  PCs,         \* players, by name
  None, Garbled,
  MaxDeeds,    \* bound: how far a character gets
  MaxId        \* bound: player ids given out

ASSUME LimitAssumption == MaxDeeds \in Nat /\ MaxId \in Nat \ {0}

Record == [id : 1..MaxId, deed : 0..MaxDeeds]

VARIABLES
  (* on the disk *)
  ply,      \* the players' files
  tmp,      \* player.tmp
  inv,      \* the players with an inventory file
  idFile,   \* players.id
  (* in memory *)
  up,       \* the server runs
  closing,  \* mud_shutdown
  place,    \* of a player: "out", "playing", "linkdead"
  rec,      \* the character in the world
  copy,     \* the character of the session at a prompt or in the menu
  nextId,   \* player_id
  job,      \* the handler that is writing, None between handlers
  (* history *)
  past,     \* what was ever stored of a player
  cut       \* players whose removal a crash has cut short

vars == <<ply, tmp, inv, idFile, up, closing, place, rec, copy, nextId, job,
          past, cut>>

-----------------------------------------------------------------------------
Kinds  == {"save", "quit", "lose", "die", "crack", "delete"}
Stages == {"open", "fill", "rename", "contents", "remove", "remove_inv"}
(* what: the character that is written.                                    *)
Job    == [kind : Kinds, p : PCs, stage : Stages, what : Record \cup {None}]

ASSUME MarkAssumption == None \notin Record /\ None \notin Job /\ Garbled # None

Init ==
  /\ ply = [p \in PCs |-> None]
  /\ tmp = None
  /\ inv = {}
  /\ idFile = 1
  /\ up = TRUE
  /\ closing = FALSE
  /\ place = [p \in PCs |-> "out"]
  /\ rec = [p \in PCs |-> None]
  /\ copy = [p \in PCs |-> None]
  /\ nextId = 1
  /\ job = None
  /\ past = [p \in PCs |-> {}]
  /\ cut = {}

(* Between two handlers of a server that is not going down.                *)
Idle     == up /\ ~closing /\ job = None
(* PC_IS_UNSAVED *)
Guest(p) == ply[p] = None
StartJob(kind, p, stage, what) ==
  job' = [kind |-> kind, p |-> p, stage |-> stage, what |-> what]

-----------------------------------------------------------------------------
(* Sessions.                                                               *)

(* nanny_get_name of a player who has a file: it is read here, and used    *)
(* when the password is right, however much later that is.                 *)
Login(p) ==
  /\ Idle /\ copy[p] = None /\ ~Guest(p)
  /\ copy' = [copy EXCEPT ![p] = ply[p]]
  /\ UNCHANGED <<ply, tmp, inv, idFile, up, closing, place, rec, nextId, job, past, cut>>

Hangup(p) ==
  /\ Idle /\ copy[p] # None
  /\ copy' = [copy EXCEPT ![p] = None]
  /\ UNCHANGED <<ply, tmp, inv, idFile, up, closing, place, rec, nextId, job, past, cut>>

(* nanny_existing_pwd: the attempt is counted in the player's file, unless *)
(* there is another session to tell of it.                                 *)
WrongPassword(p) ==
  /\ Idle /\ copy[p] # None /\ place[p] # "playing"
  /\ StartJob("crack", p, "open", copy[p])
  /\ copy' = [copy EXCEPT ![p] = None]
  /\ UNCHANGED <<ply, tmp, inv, idFile, up, closing, place, rec, nextId, past, cut>>

(* enter_game.  A newcomer gets an id; new_player_id writes the next one   *)
(* into the buffer of the file, after the seek has written out the last.   *)
Enter(p) ==
  /\ Idle /\ place[p] = "out"
  /\ \/ /\ Guest(p) /\ copy[p] = None /\ nextId <= MaxId
        /\ rec' = [rec EXCEPT ![p] = [id |-> nextId, deed |-> 0]]
        /\ nextId' = nextId + 1
        /\ idFile' = nextId
     \/ /\ copy[p] # None
        /\ rec' = [rec EXCEPT ![p] = copy[p]]
        /\ UNCHANGED <<nextId, idFile>>
  /\ place' = [place EXCEPT ![p] = "playing"]
  /\ copy' = [copy EXCEPT ![p] = None]
  /\ UNCHANGED <<ply, tmp, inv, up, closing, job, past, cut>>

(* reconnect_game: the character in the world counts, not the copy.        *)
Reconnect(p) ==
  /\ Idle /\ place[p] = "linkdead" /\ copy[p] # None
  /\ place' = [place EXCEPT ![p] = "playing"]
  /\ copy' = [copy EXCEPT ![p] = None]
  /\ UNCHANGED <<ply, tmp, inv, idFile, up, closing, rec, nextId, job, past, cut>>

Advance(p) ==
  /\ Idle /\ place[p] # "out" /\ rec[p].deed < MaxDeeds
  /\ rec' = [rec EXCEPT ![p].deed = @ + 1]
  /\ UNCHANGED <<ply, tmp, inv, idFile, up, closing, place, copy, nextId, job, past, cut>>

-----------------------------------------------------------------------------
(* Handlers that save.                                                     *)

(* save_player, then save_player_contents.                                 *)
StartSave(kind, p) ==
  /\ StartJob(kind, p, "open", rec[p])
  /\ UNCHANGED <<ply, tmp, inv, idFile, up, closing, place, rec, copy, nextId, past, cut>>

(* do_save and the autosave; raw_kill saves the link dead and guests, too. *)
Save(p) == Idle /\ place[p] = "playing" /\ StartSave("save", p)
Die(p)  == Idle /\ place[p] # "out" /\ StartSave("die", p)

Vanish(p) ==
  /\ place' = [place EXCEPT ![p] = "out"]
  /\ rec' = [rec EXCEPT ![p] = None]
GuestLeaves(p) ==
  /\ Guest(p) /\ Vanish(p)
  /\ UNCHANGED <<ply, tmp, inv, idFile, up, closing, copy, nextId, job, past, cut>>

(* extract_unit of a player who quits; a guest is not saved.               *)
Extract(p) ==
  /\ Idle /\ place[p] # "out"
  /\ \/ ~Guest(p) /\ StartSave("quit", p)
     \/ GuestLeaves(p)

(* descriptor_close in the game, of one player or by multi_close_all.      *)
LoseLink(p) ==
  /\ up /\ job = None /\ place[p] = "playing"
  /\ \/ ~Guest(p) /\ StartSave("lose", p)
     \/ GuestLeaves(p)

(* delete_player: from the menu by the player, with no other session of    *)
(* the name, or by a god when there is none.  Never when the player is in  *)
(* the world.                                                              *)
Delete(p) ==
  /\ Idle /\ place[p] = "out" /\ ply[p] # None
  /\ StartJob("delete", p, "remove", None)
  /\ copy' = [copy EXCEPT ![p] = None]
  /\ UNCHANGED <<ply, tmp, inv, idFile, up, closing, place, rec, nextId, past, cut>>

-----------------------------------------------------------------------------
(* The writes of a handler, one after the other.                           *)
At(stage) == job # None /\ job.stage = stage
Goto(s)   == job' = [job EXCEPT !.stage = s]

(* save_player_disk: the temporary file, and the rename.                   *)
OpenTmp ==
  /\ At("open")
  /\ tmp' = Garbled
  /\ Goto("fill")
  /\ UNCHANGED <<ply, inv, idFile, up, closing, place, rec, copy, nextId, past, cut>>
FillTmp ==
  /\ At("fill")
  /\ tmp' = job.what
  /\ Goto("rename")
  /\ UNCHANGED <<ply, inv, idFile, up, closing, place, rec, copy, nextId, past, cut>>

Renamed(stage) ==
  /\ At(stage)
  /\ ply' = [ply EXCEPT ![job.p] = tmp]
  /\ past' = [past EXCEPT ![job.p] = @ \cup {tmp}]
  /\ tmp' = None
  /\ cut' = cut \ {job.p}
  /\ IF job.kind = "crack" THEN job' = None ELSE Goto("contents")
  /\ UNCHANGED <<inv, idFile, up, closing, place, rec, copy, nextId>>
RenameEarly == Renamed("fill")   \* mutant: renamed before it is written
Rename      == Renamed("rename")

(* save_contents.  Nothing carried: the file is removed.  Nothing of it to *)
(* save: the file stays as it was.  A dead player carries the object of    *)
(* the death sequence.  Who quits is in the menu again.                    *)
SaveContents ==
  LET p == job.p IN
  /\ At("contents")
  /\ inv' \in IF job.kind = "die" THEN {inv \cup {p}} ELSE {inv, inv \cup {p}, inv \ {p}}
  /\ CASE job.kind = "quit" ->
            /\ Vanish(p)
            /\ copy' \in { copy, [copy EXCEPT ![p] = IF place[p] = "playing" THEN rec[p] ELSE @] }
       [] job.kind = "lose" ->
            /\ place' = [place EXCEPT ![p] = "linkdead"]
            /\ UNCHANGED <<rec, copy>>
       [] OTHER -> UNCHANGED <<place, rec, copy>>
  /\ job' = None
  /\ UNCHANGED <<ply, tmp, idFile, up, closing, nextId, past, cut>>

RemovePlayer ==
  /\ At("remove")
  /\ ply' = [ply EXCEPT ![job.p] = None]
  /\ past' = [past EXCEPT ![job.p] = {}]
  /\ Goto("remove_inv")
  /\ UNCHANGED <<tmp, inv, idFile, up, closing, place, rec, copy, nextId, cut>>
RemoveInventory ==
  /\ At("remove_inv")
  /\ inv' = inv \ {job.p}
  /\ job' = None
  /\ UNCHANGED <<ply, tmp, idFile, up, closing, place, rec, copy, nextId, past, cut>>

(* fopen_cache needs the place of players.id for another file.             *)
PurgeCache ==
  /\ up /\ idFile # nextId
  /\ idFile' = nextId
  /\ UNCHANGED <<ply, tmp, inv, up, closing, place, rec, copy, nextId, job, past, cut>>

-----------------------------------------------------------------------------
(* The end of the server, and the next one.                                *)
Forgotten ==
  /\ place' = [p \in PCs |-> "out"]
  /\ rec' = [p \in PCs |-> None]
  /\ copy' = [p \in PCs |-> None]
  /\ job' = None
  /\ up' = FALSE
  /\ closing' = FALSE

Shutdown ==
  /\ Idle
  /\ closing' = TRUE
  /\ UNCHANGED <<ply, tmp, inv, idFile, up, place, rec, copy, nextId, job, past, cut>>

(* multi_close_all has closed every link; fclose_cache writes the id.      *)
Exit ==
  /\ up /\ closing /\ job = None
  /\ \A p \in PCs : place[p] # "playing"
  /\ idFile' = nextId
  /\ Forgotten
  /\ UNCHANGED <<ply, tmp, inv, nextId, past, cut>>

Crash ==
  /\ up
  /\ Forgotten
  /\ cut' = IF At("remove_inv") THEN cut \cup {job.p} ELSE cut
  /\ UNCHANGED <<ply, tmp, inv, idFile, nextId, past>>

(* player_file_index                                                       *)
BootKeepsTmp ==   \* mutant: player.tmp is not removed
  /\ ~up
  /\ up' = TRUE
  /\ nextId' = idFile
  /\ UNCHANGED <<ply, tmp, inv, idFile, closing, place, rec, copy, job, past, cut>>
Boot ==
  /\ ~up
  /\ up' = TRUE
  /\ tmp' = None
  /\ nextId' = idFile
  /\ UNCHANGED <<ply, inv, idFile, closing, place, rec, copy, job, past, cut>>

-----------------------------------------------------------------------------
Next ==
  \/ \E p \in PCs :
       \/ Login(p) \/ Hangup(p) \/ WrongPassword(p) \/ Enter(p) \/ Reconnect(p)
       \/ Advance(p) \/ Save(p) \/ Die(p) \/ Extract(p) \/ LoseLink(p) \/ Delete(p)
  \/ OpenTmp \/ FillTmp \/ Rename \/ SaveContents \/ RemovePlayer
  \/ RemoveInventory \/ PurgeCache \/ Shutdown \/ Exit \/ Crash \/ Boot

Spec == Init /\ [][Next]_vars

-----------------------------------------------------------------------------
TypeOK ==
  /\ ply \in [PCs -> Record \cup {None}]
  /\ tmp \in Record \cup {None, Garbled}
  /\ inv \subseteq PCs
  /\ idFile \in 1..(MaxId + 1)
  /\ up \in BOOLEAN
  /\ closing \in BOOLEAN
  /\ place \in [PCs -> {"out", "playing", "linkdead"}]
  /\ rec \in [PCs -> Record \cup {None}]
  /\ copy \in [PCs -> Record \cup {None}]
  /\ nextId \in 1..(MaxId + 1)
  /\ job \in Job \cup {None}
  /\ past \in [PCs -> SUBSET Record]
  /\ cut \subseteq PCs

(* Nothing that was cut short is found by who comes after: there is no     *)
(* player.tmp when a save begins to write one, as save_player_disk asserts *)
(* (pcsave.c:194); and a file in which there are things belongs to a       *)
(* player who exists, so that who takes the name of a deleted player does  *)
(* not find the things of the deleted, but for a removal that a crash has  *)
(* cut short.                                                              *)
NothingLeftBehind ==
  /\ At("open") => tmp = None
  /\ \A p \in inv : ply[p] # None \/ p \in cut \/ (At("remove_inv") /\ job.p = p)

(* No two players have the same id.                                        *)
UniqueIds ==
  \A p, q \in PCs : p # q /\ ply[p] # None /\ ply[q] # None => ply[p].id # ply[q].id

(* The files keep what Vault promises: a player who comes is a player as   *)
(* saved, and a crash anywhere in save_player_disk loses nothing of the    *)
(* file before.                                                            *)
V == INSTANCE Vault WITH stored <- ply, live <- rec, Records <- Record
ImplementsVault == V!VaultSpec
=============================================================================
