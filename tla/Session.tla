------------------------------ MODULE Session ------------------------------
(***************************************************************************)
(* Players logging in, playing, losing their link and leaving: nanny.c,    *)
(* and the parts of system.c, pcsave.c, handler.c and destruct.c it rests  *)
(* on.  Several descriptors may be at work on the same name.               *)
(*                                                                         *)
(* A descriptor always has a body: at first an anonymous one, then the one *)
(* load_player reads, then possibly one that is link dead in the game.     *)
(* What save_player_file writes of a body is a version number: every       *)
(* change to a character makes a higher one.                               *)
(*                                                                         *)
(* Abstracted: the order of descriptor_list and unit_list (any match may   *)
(* be the first), passwords (a borrowed or chosen one is there or not),    *)
(* the dialogues between login and menu, accounting, snoop and switch.     *)
(***************************************************************************)
EXTENDS Integers, FiniteSets

CONSTANTS
  Descs,        \* descriptors that may be connected
  Names,        \* player names
  Bodies,       \* memory for PCs
  None,         \* the null pointer, the empty name, ...
  MaxProgress,  \* bound: versions of a character
  MaxDrift      \* bound: how many guests may be counted twice

ASSUME NoneAssumption  == None \notin Descs \cup Names \cup Bodies
ASSUME BoundAssumption == MaxProgress \in Nat /\ MaxDrift \in Nat
ASSUME DescsAssumption == IsFiniteSet(Descs)

VARIABLES
  fptr,       \* d->fptr, "none" when there is no such descriptor
  character,  \* d->character
  body,       \* the PCs
  file,       \* the version in a player's file
  players,    \* no_players
  overdue     \* descriptors whose logon is 20 minutes or more ago

vars == <<fptr, character, body, file, players, overdue>>

-----------------------------------------------------------------------------
(* "menu": not in unit_list; "game": in it; "void": extracted, with a      *)
(* descriptor that clear_destructed will bring back to the menu.           *)
Places == {"free", "menu", "game", "void"}
Fptrs  == {"none", "get_name", "name_confirm", "new_pwd", "pwd_confirm",
           "existing_pwd", "throw", "motd", "menu", "play", "close"}
NoFile == -1

(* saved: not PC_IS_UNSAVED, i.e. no guest; pwd: PC_PWD is not empty.      *)
Body == [place : Places, link : Descs \cup {None}, name : Names \cup {None},
         saved : BOOLEAN, pwd : BOOLEAN, data : 0..MaxProgress]

Anonymous(p, d) == [place |-> p, link |-> d, name |-> None,
                    saved |-> FALSE, pwd |-> FALSE, data |-> 0]
Free            == Anonymous("free", None)

(* load_player gives a body that another session's saves do not reach.     *)
LoadedNewer(d, n) == [place |-> "menu", link |-> d, name |-> n,  \* mutant
                       saved |-> TRUE, pwd |-> TRUE, data |-> file[n] + 1]
Loaded(d, n) == [place |-> "menu", link |-> d, name |-> n,
                 saved |-> TRUE, pwd |-> TRUE, data |-> file[n]]

Open  == { d \in Descs : fptr[d] # "none" }
Me(d) == body[character[d]]

(* find_descriptor compares the names of all descriptors but one.          *)
OthersPlaying(d, n) ==    \* mutant: only those past the login
  { td \in Open \ {d} : Me(td).name = n /\ fptr[td] = "play" }
Others(d, n) == { td \in Open \ {d} : Me(td).name = n }

(* The search of unit_list for a PC by name.                               *)
UnitsNone(B, n) == {}    \* mutant: not searched
Units(B, n) == { u \in Bodies : B[u].place = "game" /\ B[u].name = n }

-----------------------------------------------------------------------------
(* descriptor_close.  In the game a saved PC is saved and stays, link      *)
(* dead; a guest is extracted; and so is everyone who is not in the game,  *)
(* or was extracted already.                                               *)
InGame(S) == { b \in Bodies : body[b].link \in S /\ body[b].place = "game" }
Guests(S) == { b \in S : ~body[b].saved }

(* Mutant: CHAR_DESCRIPTOR is not cleared. *)
CutLinked(S) ==
  [ b \in Bodies |->
      CASE body[b].link \notin S                -> body[b]
        [] b \in InGame(S) \ Guests(InGame(S)) -> body[b]
        [] OTHER                                -> Free ]
Cut(S) ==
  [ b \in Bodies |->
      CASE body[b].link \notin S                -> body[b]
        [] b \in InGame(S) \ Guests(InGame(S)) -> [body[b] EXCEPT !.link = None]
        [] OTHER                                -> Free ]

(* save_player for all PCs in S that are not guests.                       *)
Written(S) ==
  [ n \in Names |->
      LET mine == { b \in S \ Guests(S) : body[b].name = n }
      IN  IF mine = {} THEN file[n] ELSE body[CHOOSE b \in mine : TRUE].data ]

(* disconnect_game: descriptor_close calls it, and for a guest, whose      *)
(* CHAR_DESCRIPTOR is still set, extract_unit calls it once more.          *)
Disconnected(S) == players - Cardinality(InGame(S)) - Cardinality(Guests(InGame(S)))
WithinDrift(S)  ==
  Disconnected(S) - Cardinality(InGame(Descs \ S)) >= -MaxDrift

(* All of S are closed, and d goes on with f and the body b.               *)
Proceed(d, f, b, S) ==
  /\ fptr' = [ x \in Descs |-> CASE x = d -> f [] x \in S -> "none" [] OTHER -> fptr[x] ]
  /\ character' = [ x \in Descs |-> CASE x = d -> b [] x \in S -> None [] OTHER -> character[x] ]
  /\ file' = Written(InGame(S))

(* reconnect_game: d leaves its own body for the link dead u.              *)
Reconnect(d, u, S) ==
  /\ Proceed(d, "play", u, S)
  /\ body' = [Cut(S) EXCEPT ![character[d]] = Free, ![u].link = d]
  /\ players' = Disconnected(S) + 1
  /\ overdue' = overdue \ (S \cup {d})

(* Only the function changes. *)
Turn(d, f) == /\ fptr' = [fptr EXCEPT ![d] = f]
              /\ UNCHANGED <<character, file, players, overdue>>

-----------------------------------------------------------------------------
(* The login dialogue.                                                     *)

(* descriptor_new. *)
Connect(d) ==
  /\ fptr[d] = "none"
  /\ \E b \in Bodies :
       /\ body[b].place = "free"
       /\ body' = [body EXCEPT ![b] = Anonymous("menu", d)]
       /\ character' = [character EXCEPT ![d] = b]
  /\ fptr' = [fptr EXCEPT ![d] = "get_name"]
  /\ UNCHANGED <<file, players, overdue>>

(* nanny_get_name with the name of a player who has a file: he is loaded   *)
(* here, and used once the password was given.  wizlock may stop him.      *)
GetKnownName(d, n) ==
  /\ fptr[d] = "get_name"
  /\ file[n] # NoFile
  /\ body' = [body EXCEPT ![character[d]] = Loaded(d, n)]
  /\ \E f \in {"existing_pwd", "close"} : Turn(d, f)

(* ... of a new player.  The name is the body's from now on, whatever he   *)
(* says in nanny_name_confirm.  The password is another descriptor's.      *)
GetNewName(d, n) ==
  /\ fptr[d] = "get_name"
  /\ file[n] = NoFile
  /\ IF Others(d, n) = {}
     THEN /\ body' = [body EXCEPT ![character[d]].name = n, ![character[d]].pwd = FALSE]
          /\ Turn(d, "name_confirm")
     ELSE /\ \E td \in Others(d, n) :
               body' = [body EXCEPT ![character[d]].name = n,
                                    ![character[d]].pwd = Me(td).pwd]
          /\ Turn(d, "existing_pwd")

(* No name, a banned site, a player that cannot be loaded.                 *)
RefuseName(d) ==
  /\ fptr[d] = "get_name"
  /\ Turn(d, "close")
  /\ UNCHANGED body

NameConfirm(d) ==
  /\ fptr[d] = "name_confirm"
  /\ \E f \in {"new_pwd", "get_name", "close"} : Turn(d, f)
  /\ UNCHANGED body

NewPwd(d) ==
  /\ fptr[d] = "new_pwd"
  /\ body' = [body EXCEPT ![character[d]].pwd = TRUE]
  /\ Turn(d, "pwd_confirm")

(* The passwords agree: play on in the game, or go on to the menu.         *)
Admit(d) ==
  IF Units(body, Me(d).name) # {}
  THEN \E u \in Units(body, Me(d).name) : Reconnect(d, u, {})
  ELSE Turn(d, "motd") /\ UNCHANGED body

PwdConfirm(d) ==
  /\ fptr[d] = "pwd_confirm"
  /\ \/ Turn(d, "new_pwd") /\ UNCHANGED body
     \/ Admit(d)

(* nanny_existing_pwd.  A wrong password is noted in the player's file,    *)
(* with all else that was loaded, unless he is connected.                  *)
WrongPwd(d) ==
  /\ fptr[d] = "existing_pwd"
  /\ fptr' = [fptr EXCEPT ![d] = "close"]
  /\ file' = IF Others(d, Me(d).name) = {} THEN Written({character[d]}) ELSE file
  /\ UNCHANGED <<character, body, players, overdue>>

ExistingPwd(d) ==
  /\ fptr[d] = "existing_pwd"
  /\ Me(d).pwd
  /\ IF Others(d, Me(d).name) # {}
     THEN Turn(d, "throw") /\ UNCHANGED body
     ELSE Admit(d)

(* nanny_throw, "y": all others are closed; then unit_list is searched.    *)
Throw(d) ==
  LET n     == Me(d).name
      S     == Others(d, n)
      units == Units(Cut(S), n)
  IN  /\ fptr[d] = "throw"
      /\ WithinDrift(S)
      /\ IF \E u \in units : Cut(S)[u].saved
         THEN \E u \in units : Cut(S)[u].saved /\ Reconnect(d, u, S)
         ELSE /\ Proceed(d, CASE units # {}                        -> "throw"
                              [] Written(InGame(S))[n] = NoFile -> "close"
                              [] OTHER                             -> "motd",
                         character[d], S)
              /\ body' = [ b \in Bodies |-> IF b \in units THEN Free ELSE Cut(S)[b] ]
              /\ players' = Disconnected(S)
              /\ overdue' = overdue \ S

ThrowNot(d) ==
  /\ fptr[d] = "throw"
  /\ Turn(d, "close")
  /\ UNCHANGED body

Motd(d) ==
  /\ fptr[d] = "motd"
  /\ Turn(d, "menu")
  /\ UNCHANGED body

-----------------------------------------------------------------------------
(* The menu.                                                               *)

(* Leaving a submenu saves all but guests. *)
SaveInMenu(d) ==
  /\ fptr[d] = "menu"
  /\ file' = Written({character[d]})
  /\ UNCHANGED <<fptr, character, body, players, overdue>>

LeaveMenu(d) ==
  /\ fptr[d] = "menu"
  /\ Turn(d, "close")
  /\ UNCHANGED body

(* nanny_kill_confirm: nobody else may be there under this name.           *)
Alone(d) == Others(d, Me(d).name) = {} /\ Units(body, Me(d).name) = {}

KillConfirm(d) ==
  /\ fptr[d] = "menu"
  /\ Me(d).pwd
  /\ Alone(d)
  /\ file' = [file EXCEPT ![Me(d).name] = NoFile]
  /\ fptr' = [fptr EXCEPT ![d] = "close"]
  /\ UNCHANGED <<character, body, players, overdue>>

(* enter_game and connect_game. *)
EnterGame(d) ==
  /\ fptr[d] = "menu"
  /\ body' = [body EXCEPT ![character[d]].place = "game"]
  /\ fptr' = [fptr EXCEPT ![d] = "play"]
  /\ players' = players + 1
  /\ overdue' = overdue \ {d}
  /\ UNCHANGED <<character, file>>

-----------------------------------------------------------------------------
(* The game.  A PC whose body is in the void gets no further command: the  *)
(* next one is read after clear_destructed.                                *)
Playing(d) == fptr[d] = "play" /\ Me(d).place = "game"

(* Experience, money, another room, ... *)
Progress(d) ==
  /\ Playing(d)
  /\ Me(d).data < MaxProgress
  /\ body' = [body EXCEPT ![character[d]].data = @ + 1]
  /\ UNCHANGED <<fptr, character, file, players, overdue>>

(* save_player: a guest is none from now on. *)
Saved(d) ==
  /\ body' = [body EXCEPT ![character[d]].saved = TRUE]
  /\ file' = [file EXCEPT ![Me(d).name] = Me(d).data]
  /\ overdue' = overdue \ {d}
  /\ UNCHANGED <<fptr, character, players>>

DoSave(d) == Playing(d) /\ Saved(d)

(* 20 minutes have passed; check_idle saves one such player at a time. *)
Elapse(d) ==
  /\ Playing(d)
  /\ overdue' = overdue \cup {d}
  /\ UNCHANGED <<fptr, character, body, file, players>>

Autosave(d) == d \in overdue /\ Playing(d) /\ Saved(d)

(* do_quit and death end in extract_unit, with a save but for guests.      *)
Quit(d) ==
  /\ Playing(d)
  /\ body' = [body EXCEPT ![character[d]].place = "void"]
  /\ file' = Written({character[d]})
  /\ players' = players - 1
  /\ overdue' = IF Me(d).saved THEN overdue \ {d} ELSE overdue
  /\ UNCHANGED <<fptr, character>>

(* link_dead: someone comes by and the PC leaves the game. *)
LinkDeadLeaves(b) ==
  /\ body[b].place = "game"
  /\ body[b].link = None
  /\ body' = [body EXCEPT ![b] = Free]
  /\ file' = Written({b})
  /\ UNCHANGED <<fptr, character, players, overdue>>

(* clear_destructed, for the PCs with a descriptor. *)
ClearDestructed ==
  LET S == { d \in Open : Me(d).place = "void" }
  IN  /\ S # {}
      /\ body' = [ b \in Bodies |-> IF body[b].place = "void"
                                    THEN [body[b] EXCEPT !.place = "menu"]
                                    ELSE body[b] ]
      /\ fptr' = [ d \in Descs |-> IF d \in S THEN "menu" ELSE fptr[d] ]
      /\ UNCHANGED <<character, file, players, overdue>>

(* descriptor_close: the link is lost, the second line of nanny_close was  *)
(* read, check_idle found nobody there.                                    *)
CloseLink(d) ==
  /\ d \in Open
  /\ WithinDrift({d})
  /\ Proceed(d, "none", None, {d})
  /\ body' = Cut({d})
  /\ players' = Disconnected({d})
  /\ overdue' = overdue \ {d}

(* do_purge of a player by name: extracted, then closed. *)
Purge(d) ==
  /\ Playing(d)
  /\ fptr' = [fptr EXCEPT ![d] = "none"]
  /\ character' = [character EXCEPT ![d] = None]
  /\ body' = [body EXCEPT ![character[d]] = Free]
  /\ file' = Written({character[d]})
  /\ players' = players - 1
  /\ overdue' = overdue \ {d}

(* do_wizdelete (do_delete): not while the player is there. *)
DeletePlayer(n) ==
  /\ \A d \in Open : Me(d).name # n
  /\ Units(body, n) = {}
  /\ file' = [file EXCEPT ![n] = NoFile]
  /\ UNCHANGED <<fptr, character, body, players, overdue>>

-----------------------------------------------------------------------------
Init ==
  /\ fptr = [d \in Descs |-> "none"]
  /\ character = [d \in Descs |-> None]
  /\ body = [b \in Bodies |-> Free]
  /\ file = [n \in Names |-> NoFile]
  /\ players = 0
  /\ overdue = {}

Login(d) ==
  \/ Connect(d) \/ RefuseName(d) \/ NameConfirm(d) \/ NewPwd(d) \/ PwdConfirm(d)
  \/ \E n \in Names : GetKnownName(d, n) \/ GetNewName(d, n)
  \/ WrongPwd(d) \/ ExistingPwd(d) \/ Throw(d) \/ ThrowNot(d) \/ Motd(d)

Menu(d) == SaveInMenu(d) \/ LeaveMenu(d) \/ KillConfirm(d) \/ EnterGame(d)

Play(d) ==
  \/ Progress(d) \/ DoSave(d) \/ Elapse(d) \/ Autosave(d) \/ Quit(d)
  \/ CloseLink(d) \/ Purge(d)

Next ==
  \/ \E d \in Descs : Login(d) \/ Menu(d) \/ Play(d)
  \/ \E b \in Bodies : LinkDeadLeaves(b)
  \/ \E n \in Names : DeletePlayer(n)
  \/ ClearDestructed

Spec == Init /\ [][Next]_vars

-----------------------------------------------------------------------------
TypeOK ==
  /\ fptr \in [Descs -> Fptrs]
  /\ character \in [Descs -> Bodies \cup {None}]
  /\ body \in [Bodies -> Body]
  /\ file \in [Names -> {NoFile} \cup 0..MaxProgress]
  /\ players \in -MaxDrift..Cardinality(Descs)
  /\ overdue \subseteq Descs

(* d->character and CHAR_DESCRIPTOR mirror each other, whatever is         *)
(* reconnected, thrown out, extracted or closed in between.                *)
Paired ==
  \A d \in Descs, b \in Bodies :
    (d \in Open /\ character[d] = b) <=> (body[b].link = d /\ body[b].place # "free")

(* A player is in the game at most once, and at most one descriptor of a   *)
(* name is past the login: nanny_existing_pwd, nanny_throw and             *)
(* nanny_pwd_confirm find who is there already, at whatever question.      *)
PastLogin == {"motd", "menu", "play"}
OneOfEachName ==
  /\ \A b, c \in Bodies :
       body[b].place = "game" /\ body[c].place = "game" /\ body[b].name = body[c].name => b = c
  /\ \A d \in Open : fptr[d] \in PastLogin =>
       \A td \in Open \ {d} : Me(td).name = Me(d).name => fptr[td] \notin PastLogin

(* Whoever chooses a new password has the name for himself in unit_list:   *)
(* the assertions of nanny_pwd_confirm hold, and what they guard is never  *)
(* reached.                                                                *)
NoUnitAtConfirm ==
  \A d \in Open : fptr[d] \in {"new_pwd", "pwd_confirm"} =>
    \A b \in Bodies : body[b].place = "game" => body[b].name # Me(d).name

-----------------------------------------------------------------------------
(* What the documentation and the assertions say.                          *)

(* do_users prints no_players as "%d players playing".                     *)
PlayersCounted ==
  players = Cardinality({ d \in Open : Me(d).place = "game" })

(* "When you log in, you will be put in the same room you were in when     *)
(* last you saved" (lib/help, save).                                       *)
EntersAsSaved ==
  [][ \A b \in Bodies :
        /\ body[b].place = "menu" /\ body'[b].place = "game"
        /\ file[body[b].name] # NoFile
        => body[b].data = file[body[b].name] ]_vars

(* save_player_file asserts that the player is not destructed: check_idle  *)
(* saves whoever is overdue.                                               *)
SavesTheLiving == \A d \in overdue \cap Open : Me(d).place # "void"
=============================================================================
