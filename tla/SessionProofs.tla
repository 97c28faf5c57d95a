---------------------------- MODULE SessionProofs ----------------------------
(***************************************************************************)
(* What is proved about Session, for any number of descriptors, names and  *)
(* bodies: descriptor and character mirror each other, a name is in the    *)
(* game once and past the login once, and who chooses a password for a new *)
(* name finds nobody in the game.                                          *)
(*                                                                         *)
(* That a session which enters the game finds no body of its name there    *)
(* was decided when it passed the login (OnlyBody), and it stays so since  *)
(* nobody else of that name can have passed it (OnlySession).  A new name  *)
(* does not ask the game at all: there is no body of it, for one that is   *)
(* saved has a file (SavedHasFile) and one that is not has a descriptor    *)
(* (GuestLinked), which find_descriptor sees.                              *)
(*                                                                         *)
(* no_players (Counted) is compared with those who are in the game and     *)
(* have a descriptor: it is never more, for whoever is counted in is one   *)
(* of them, and it is less by the guests descriptor_close counts out twice.*)
(***************************************************************************)
EXTENDS Session, FiniteSetTheorems, TLAPS

(* Questions at which the name is not known to be a player's.              *)
Early == {"get_name", "name_confirm", "new_pwd", "pwd_confirm"}

Shape ==
  /\ fptr \in [Descs -> Fptrs]
  /\ character \in [Descs -> Bodies \cup {None}]
  /\ body \in [Bodies -> Body]
  /\ file \in [Names -> {NoFile} \cup 0..MaxProgress]
  /\ overdue \subseteq Descs

Linked ==
  /\ \A d \in Descs : d \in Open <=> character[d] \in Bodies
  /\ \A d \in Open : Me(d).link = d
  /\ \A b \in Bodies : body[b].link # None =>
       body[b].link \in Open /\ character[body[b].link] = b
  /\ \A b \in Bodies : body[b].place = "free" => body[b].link = None
  /\ \A b \in Bodies : body[b].place \in {"menu", "void"} => body[b].link # None

Placed == \A d \in Open : fptr[d] = "play" <=> Me(d).place \in {"game", "void"}

Named ==
  /\ \A d \in Open : fptr[d] \notin {"get_name", "close"} => Me(d).name \in Names
  /\ \A b \in Bodies : body[b].place = "game" \/ body[b].saved => body[b].name \in Names
  /\ \A d \in Open : fptr[d] \in Early => ~Me(d).saved

(* What is to be saved again: not a body whose descriptor is closing.      *)
Lasting(b) ==
  /\ body[b].saved /\ body[b].place # "free"
  /\ body[b].link # None => fptr[body[b].link] # "close"

SavedHasFile == \A b \in Bodies : Lasting(b) => file[body[b].name] # NoFile

GuestLinked ==
  \A b \in Bodies : body[b].place = "game" /\ ~body[b].saved => body[b].link # None

OnlyBody ==
  \A d \in Open, b \in Bodies :
    fptr[d] \in PastLogin /\ body[b].place = "game" /\ body[b].name = Me(d).name
    => b = character[d]

OnlySession ==
  \A d, td \in Open :
    /\ d # td /\ Me(d).name # None /\ Me(d).name = Me(td).name
    /\ fptr[d] \in PastLogin \cup Early
    => fptr[td] \notin PastLogin \cup Early

EarlyAlone ==
  \A d \in Open, b \in Bodies :
    fptr[d] \in Early /\ body[b].place = "game" => body[b].name # Me(d).name

OneBody ==
  \A b, c \in Bodies :
    body[b].place = "game" /\ body[c].place = "game" /\ body[b].name = body[c].name => b = c

IInv == Shape /\ Linked /\ Placed /\ Named /\ SavedHasFile /\ GuestLinked /\ OnlyBody
        /\ OnlySession /\ EarlyAlone /\ OneBody

-----------------------------------------------------------------------------
LEMMA InitHolds == Init => IInv
<1> SUFFICES ASSUME Init PROVE IInv
  OBVIOUS
<1> USE NoneAssumption, BoundAssumption DEF Init
<1>1. Open = {}
  BY DEF Open
<1>2. Shape
  BY DEF Shape, Body, Fptrs, Places, Free, Anonymous, NoFile
<1>3. Linked
  BY <1>1 DEF Linked, Free, Anonymous
<1>4. Placed /\ Named /\ SavedHasFile /\ GuestLinked
  BY <1>1 DEF Placed, Named, SavedHasFile, Lasting, GuestLinked, Free, Anonymous
<1>5. OnlyBody /\ OnlySession /\ EarlyAlone /\ OneBody
  BY <1>1 DEF OnlyBody, OnlySession, EarlyAlone, OneBody, Free, Anonymous
<1> QED BY <1>2, <1>3, <1>4, <1>5 DEF IInv

(* Every descriptor has a body of its own.                                 *)
LEMMA OwnBody ==
  ASSUME IInv
  PROVE  /\ \A d \in Open : d \in Descs /\ character[d] \in Bodies /\ Me(d) \in Body /\ Me(d).link = d
         /\ \A d, td \in Open : character[d] = character[td] => d = td
         /\ \A b \in Bodies, d \in Open : body[b].link = d => b = character[d]
  BY NoneAssumption DEF IInv, Shape, Linked, Open, Me

(* Saving takes no file away.                                              *)
LEMMA WrittenKeeps ==
  ASSUME IInv, NEW S \in SUBSET Bodies
  PROVE  /\ Written(S) \in [Names -> {NoFile} \cup 0..MaxProgress]
         /\ \A n \in Names : file[n] # NoFile => Written(S)[n] # NoFile
         /\ \A b \in S : body[b].saved => Written(S)[body[b].name] # NoFile
<1> USE DEF IInv, Shape
<1> DEFINE mine(n) == { b \in S \ Guests(S) : body[b].name = n }
           W(n) == IF mine(n) = {} THEN file[n] ELSE body[CHOOSE b \in mine(n) : TRUE].data
<1>1. Written(S) = [n \in Names |-> W(n)]
  BY DEF Written
<1>2. \A n \in Names : mine(n) # {} => W(n) \in 0..MaxProgress
  <2> SUFFICES ASSUME NEW n \in Names, mine(n) # {} PROVE W(n) \in 0..MaxProgress
    OBVIOUS
  <2>1. (CHOOSE b \in mine(n) : TRUE) \in mine(n)
    OBVIOUS
  <2>2. (CHOOSE b \in mine(n) : TRUE) \in Bodies
    BY <2>1
  <2> QED BY <2>2 DEF Body
<1>3. \A i \in 0..MaxProgress : i # NoFile
  BY BoundAssumption DEF NoFile
<1>4. \A n \in Names : W(n) \in {NoFile} \cup 0..MaxProgress /\ (file[n] # NoFile => W(n) # NoFile)
  BY <1>2, <1>3
<1>5. \A b \in S : body[b].saved => W(body[b].name) # NoFile /\ body[b].name \in Names
  <2> SUFFICES ASSUME NEW b \in S, body[b].saved
               PROVE  W(body[b].name) # NoFile /\ body[b].name \in Names
    OBVIOUS
  <2>1. b \in mine(body[b].name) /\ body[b].name \in Names
    BY DEF Guests, Named
  <2> QED BY <1>2, <1>3, <2>1
<1> HIDE DEF W
<1> QED BY <1>1, <1>4, <1>5

(* descriptor_close of all of S.                                           *)
LEMMA CutKeeps ==
  ASSUME IInv, NEW S \in SUBSET Descs
  PROVE  /\ Cut(S) \in [Bodies -> Body]
         /\ \A b \in Bodies : body[b].link \notin S => Cut(S)[b] = body[b]
         /\ \A b \in Bodies : body[b].link \in S =>
              IF body[b].place = "game" /\ body[b].saved
              THEN Cut(S)[b] = [body[b] EXCEPT !.link = None]
              ELSE Cut(S)[b] = Free
  BY NoneAssumption, BoundAssumption
     DEF IInv, Shape, Cut, InGame, Guests, Body, Free, Anonymous, Places

-----------------------------------------------------------------------------
(* The answers that change nothing but the question, and the password.     *)
LEMMA QuestionsKeepIInv ==
  ASSUME IInv, NEW d \in Descs,
         \/ RefuseName(d) \/ NameConfirm(d) \/ ThrowNot(d) \/ Motd(d) \/ LeaveMenu(d)
         \/ NewPwd(d) \/ Elapse(d)
  PROVE  IInv'
<1> USE NoneAssumption, OwnBody
    DEF IInv, Shape, Linked, Placed, Named, SavedHasFile, Lasting, GuestLinked, OnlyBody, OnlySession,
        EarlyAlone, OneBody, Open, Me, PastLogin, Early, Turn
<1>1. CASE RefuseName(d)
  BY <1>1 DEF RefuseName, Fptrs
<1>2. CASE NameConfirm(d)
  BY <1>2 DEF NameConfirm, Fptrs
<1>3. CASE ThrowNot(d)
  BY <1>3 DEF ThrowNot, Fptrs
<1>4. CASE Motd(d)
  BY <1>4 DEF Motd, Fptrs
<1>5. CASE LeaveMenu(d)
  BY <1>5 DEF LeaveMenu, Fptrs
<1>6. CASE NewPwd(d)
  <2>1. /\ d \in Open /\ fptr[d] = "new_pwd" /\ fptr' = [fptr EXCEPT ![d] = "pwd_confirm"]
        /\ UNCHANGED <<character, file, overdue>>
        /\ body' = [body EXCEPT ![character[d]].pwd = TRUE]
    BY <1>6 DEF NewPwd
  <2>2. \A r \in Body : /\ [r EXCEPT !.pwd = TRUE] \in Body
                        /\ [r EXCEPT !.pwd = TRUE].place = r.place
                        /\ [r EXCEPT !.pwd = TRUE].link = r.link
                        /\ [r EXCEPT !.pwd = TRUE].name = r.name
                        /\ [r EXCEPT !.pwd = TRUE].saved = r.saved
    BY DEF Body
  <2>3. /\ body' \in [Bodies -> Body]
        /\ \A b \in Bodies : /\ body'[b].place = body[b].place /\ body'[b].link = body[b].link
                             /\ body'[b].name = body[b].name /\ body'[b].saved = body[b].saved
    BY <2>1, <2>2
  <2>4. Shape' /\ Linked' /\ Placed'
    BY <2>1, <2>3 DEF Fptrs
  <2>5. Named' /\ SavedHasFile' /\ GuestLinked' /\ OneBody'
    BY <2>1, <2>3
  <2>6. OnlyBody' /\ EarlyAlone' /\ OnlySession'
    BY <2>1, <2>3
  <2> QED BY <2>4, <2>5, <2>6
<1>7. CASE Elapse(d)
  BY <1>7 DEF Elapse
<1> QED BY <1>1, <1>2, <1>3, <1>4, <1>5, <1>6, <1>7

LEMMA NameGiven ==
  ASSUME body \in [Bodies -> Body], NEW c \in Bodies, NEW n \in Names,
         \E x \in BOOLEAN : body' = [body EXCEPT ![c].name = n, ![c].pwd = x]
  PROVE  /\ body' \in [Bodies -> Body]
         /\ \A b \in Bodies : /\ body'[b].place = body[b].place /\ body'[b].link = body[b].link
                              /\ body'[b].saved = body[b].saved
                              /\ body'[b].name = IF b = c THEN n ELSE body[b].name
<1>1. PICK x \in BOOLEAN : body' = [body EXCEPT ![c].name = n, ![c].pwd = x]
  OBVIOUS
<1>2. \A r \in Body : /\ [r EXCEPT !.name = n, !.pwd = x] \in Body
                      /\ [r EXCEPT !.name = n, !.pwd = x].place = r.place
                      /\ [r EXCEPT !.name = n, !.pwd = x].link = r.link
                      /\ [r EXCEPT !.name = n, !.pwd = x].name = n
                      /\ [r EXCEPT !.name = n, !.pwd = x].saved = r.saved
  BY DEF Body
<1>3. body' = [body EXCEPT ![c] = [body[c] EXCEPT !.name = n, !.pwd = x]]
  BY <1>1
<1> DEFINE r == [body[c] EXCEPT !.name = n, !.pwd = x]
<1>4. r \in Body /\ r.place = body[c].place /\ r.link = body[c].link /\ r.name = n /\ r.saved = body[c].saved
  BY <1>2
<1> HIDE DEF r
<1>5. body' \in [Bodies -> Body] /\ body'[c] = r /\ \A b \in Bodies : b # c => body'[b] = body[b]
  BY <1>3, <1>4 DEF r
<1> QED BY <1>4, <1>5

(* The name.                                                               *)
LEMMA NamesKeepIInv ==
  ASSUME IInv, NEW d \in Descs,
         Connect(d) \/ \E n \in Names : GetKnownName(d, n) \/ GetNewName(d, n)
  PROVE  IInv'
<1> USE NoneAssumption, BoundAssumption, OwnBody
    DEF IInv, Shape, Linked, Placed, Named, SavedHasFile, Lasting, GuestLinked, OnlyBody, OnlySession,
        EarlyAlone, OneBody, Open, Me, PastLogin, Early, Turn
<1>1. CASE Connect(d)
  BY <1>1 DEF Connect, Fptrs, Body, Anonymous, Places
<1>2. ASSUME NEW n \in Names, GetKnownName(d, n) PROVE IInv'
  BY <1>2 DEF GetKnownName, Fptrs, Body, Loaded, Places
<1>3. ASSUME NEW n \in Names, GetNewName(d, n) PROVE IInv'
  <2> DEFINE c == character[d]
             f == IF Others(d, n) = {} THEN "name_confirm" ELSE "existing_pwd"
  <2>1. /\ d \in Open /\ fptr[d] = "get_name" /\ file[n] = NoFile
        /\ fptr' = [fptr EXCEPT ![d] = f]
        /\ UNCHANGED <<character, file, overdue>>
    BY <1>3 DEF GetNewName
  <2>2. c \in Bodies /\ body[c].link = d /\ ~body[c].saved /\ body[c].place = "menu"
    BY <2>1 DEF Body, Places
  <2>3. \A td \in Others(d, n) : body[character[td]].pwd \in BOOLEAN
    BY DEF Others, Body
  <2>4. /\ body' \in [Bodies -> Body]
        /\ \A b \in Bodies : /\ body'[b].place = body[b].place /\ body'[b].link = body[b].link
                             /\ body'[b].saved = body[b].saved
                             /\ body'[b].name = IF b = c THEN n ELSE body[b].name
    <3>1. \E x \in BOOLEAN : body' = [body EXCEPT ![c].name = n, ![c].pwd = x]
      <4>1. CASE Others(d, n) = {}
        BY <1>3, <4>1 DEF GetNewName
      <4>2. CASE Others(d, n) # {}
        <5>1. \E td \in Others(d, n) : body' = [body EXCEPT ![c].name = n, ![c].pwd = body[character[td]].pwd]
          BY <1>3, <4>2 DEF GetNewName
        <5> QED BY <2>3, <5>1
      <4> QED BY <4>1, <4>2
    <3>2. body \in [Bodies -> Body] /\ c \in Bodies /\ n \in Names
      BY <2>2
    <3> HIDE DEF c
    <3> QED BY ONLY <3>1, <3>2, NameGiven
  <2>5. Others(d, n) = {} => \A b \in Bodies : body[b].place = "game" => body[b].name # n
    <3> SUFFICES ASSUME Others(d, n) = {}, NEW b \in Bodies, body[b].place = "game", body[b].name = n
                 PROVE  FALSE
      OBVIOUS
    <3>1. ~body[b].saved
      BY <2>1 DEF Lasting
    <3>2. body[b].link \in Open /\ character[body[b].link] = b
      BY <3>1
    <3>3. body[b].link # d
      BY <2>2, <3>2
    <3> QED BY <3>2, <3>3 DEF Others
  <2>6. Shape' /\ Linked' /\ Placed'
    <3> HIDE DEF SavedHasFile, OnlyBody, OnlySession, EarlyAlone, GuestLinked, OneBody, Named
    <3>1. Shape'
      BY <2>1, <2>4 DEF Fptrs
    <3>2. Linked'
      BY <2>1, <2>4
    <3>3. Placed'
      BY <2>1, <2>2, <2>4
    <3> QED BY <3>1, <3>2, <3>3
  <2>7. Named' /\ SavedHasFile' /\ GuestLinked' /\ OneBody'
    <3> HIDE DEF Lasting, OnlyBody, OnlySession, EarlyAlone, Placed, GuestLinked
    <3>1. Named'
      BY <2>1, <2>2, <2>4
    <3>2. SavedHasFile'
      <4>1. \A b \in Bodies : Lasting(b)' => Lasting(b) /\ body'[b].name = body[b].name
        BY <2>1, <2>2, <2>4 DEF Lasting
      <4> QED BY <2>1, <4>1
    <3>3. GuestLinked' /\ OneBody'
      BY <2>1, <2>2, <2>4 DEF GuestLinked
    <3> QED BY <3>1, <3>2, <3>3
  <2>8. OnlyBody' /\ EarlyAlone'
    BY <2>1, <2>2, <2>4, <2>5
  <2>9. OnlySession'
    BY <2>1, <2>2, <2>4 DEF Others
  <2> QED BY <2>6, <2>7, <2>8, <2>9
<1> QED BY <1>1, <1>2, <1>3

-----------------------------------------------------------------------------
(* The files.  While a session of a name goes on its file is not removed.  *)
LEMMA FilesKeepIInv ==
  ASSUME IInv,
         \/ \E d \in Descs : WrongPwd(d) \/ SaveInMenu(d) \/ KillConfirm(d)
         \/ \E n \in Names : DeletePlayer(n)
  PROVE  IInv'
<1> USE NoneAssumption, OwnBody
    DEF IInv, Shape, Linked, Placed, Named, SavedHasFile, GuestLinked, OnlyBody, OnlySession,
        EarlyAlone, OneBody, Open, Me, PastLogin, Early
<1>1. ASSUME NEW d \in Descs, WrongPwd(d) PROVE IInv'
  <2>1. /\ d \in Open /\ fptr[d] = "existing_pwd" /\ fptr' = [fptr EXCEPT ![d] = "close"]
        /\ UNCHANGED <<character, body, overdue>>
        /\ file' = file \/ file' = Written({character[d]})
    BY <1>1 DEF WrongPwd
  <2>2. /\ file' \in [Names -> {NoFile} \cup 0..MaxProgress]
        /\ \A m \in Names : file[m] # NoFile => file'[m] # NoFile
    BY <2>1, WrittenKeeps
  <2>3. SavedHasFile'
    <3>1. \A b \in Bodies : Lasting(b)' => Lasting(b) /\ body[b].name \in Names
      BY <2>1 DEF Lasting
    <3> QED BY <2>1, <2>2, <3>1
  <2>4. Shape' /\ Linked' /\ Placed' /\ Named' /\ GuestLinked'
    BY <2>1, <2>2 DEF Fptrs
  <2>5. OnlyBody' /\ OnlySession' /\ EarlyAlone' /\ OneBody'
    BY <2>1
  <2> QED BY <2>3, <2>4, <2>5
<1>2. ASSUME NEW d \in Descs, SaveInMenu(d) PROVE IInv'
  <2>1. d \in Open /\ UNCHANGED <<fptr, character, body, overdue>> /\ file' = Written({character[d]})
    BY <1>2 DEF SaveInMenu
  <2>2. /\ file' \in [Names -> {NoFile} \cup 0..MaxProgress]
        /\ \A m \in Names : file[m] # NoFile => file'[m] # NoFile
    BY <2>1, WrittenKeeps
  <2>3. SavedHasFile'
    <3>1. \A b \in Bodies : Lasting(b)' => Lasting(b) /\ body[b].name \in Names
      BY <2>1 DEF Lasting
    <3> QED BY <2>1, <2>2, <3>1
  <2>4. Shape' /\ Linked' /\ Placed' /\ Named' /\ GuestLinked'
    BY <2>1, <2>2
  <2>5. OnlyBody' /\ OnlySession' /\ EarlyAlone' /\ OneBody'
    BY <2>1
  <2> QED BY <2>3, <2>4, <2>5
<1>3. ASSUME NEW d \in Descs, KillConfirm(d) PROVE IInv'
  <2> DEFINE m == Me(d).name
  <2>1. /\ d \in Open /\ fptr[d] = "menu" /\ fptr' = [fptr EXCEPT ![d] = "close"]
        /\ UNCHANGED <<character, body, overdue>>
        /\ m \in Names /\ file' = [file EXCEPT ![m] = NoFile]
    BY <1>3 DEF KillConfirm
  <2>2. /\ \A td \in Open : td # d => Me(td).name # m
        /\ \A b \in Bodies : body[b].place = "game" => body[b].name # m
    BY <1>3 DEF KillConfirm, Alone, Others, Units
  <2> HIDE DEF m
  <2>3. /\ file' \in [Names -> {NoFile} \cup 0..MaxProgress]
        /\ \A k \in Names : k # m => file'[k] = file[k]
    BY <2>1
  <2>4. Shape' /\ Linked' /\ Placed' /\ GuestLinked' /\ OneBody'
    BY <2>1, <2>3 DEF Fptrs
  <2>5. SavedHasFile'
    <3>1. \A b \in Bodies : Lasting(b)' => Lasting(b) /\ body[b].name \in Names /\ body[b].name # m
      <4> SUFFICES ASSUME NEW b \in Bodies, Lasting(b)'
                   PROVE  Lasting(b) /\ body[b].name \in Names /\ body[b].name # m
        OBVIOUS
      <4>1. Lasting(b) /\ body[b].name \in Names /\ body[b].place # "free"
        BY <2>1 DEF Lasting
      <4>2. CASE body[b].link = None
        BY <2>2, <4>1, <4>2 DEF Body, Places
      <4>3. CASE body[b].link # None
        <5>1. body[b].link \in Open /\ character[body[b].link] = b /\ body[b].link # d
          BY <2>1, <4>3 DEF Lasting
        <5> QED BY <2>2, <4>1, <5>1
      <4> QED BY <4>2, <4>3
    <3> QED BY <2>1, <2>3, <3>1
  <2>6. OnlyBody' /\ OnlySession' /\ EarlyAlone' /\ Named'
    BY <2>1
  <2> QED BY <2>4, <2>5, <2>6
<1>4. ASSUME NEW n \in Names, DeletePlayer(n) PROVE IInv'
  <2>1. /\ UNCHANGED <<fptr, character, body, overdue>>
        /\ file' = [file EXCEPT ![n] = NoFile]
        /\ \A td \in Open : Me(td).name # n
        /\ \A b \in Bodies : body[b].place = "game" => body[b].name # n
    BY <1>4 DEF DeletePlayer, Units
  <2>2. /\ file' \in [Names -> {NoFile} \cup 0..MaxProgress]
        /\ \A k \in Names : k # n => file'[k] = file[k]
    BY <2>1
  <2>3. SavedHasFile'
    <3>1. \A b \in Bodies : Lasting(b) => body[b].name \in Names /\ body[b].name # n
      BY <2>1 DEF Lasting, Body, Places
    <3>2. \A b \in Bodies : Lasting(b)' => Lasting(b)
      BY <2>1 DEF Lasting
    <3> QED BY <2>1, <2>2, <3>1, <3>2
  <2> QED BY <2>1, <2>2, <2>3
<1> QED BY <1>1, <1>2, <1>3, <1>4

(* Playing: the body changes, but not whose it is.                         *)
LEMMA PlayKeepsIInv ==
  ASSUME IInv, NEW d \in Descs,
         Progress(d) \/ (Playing(d) /\ Saved(d))
  PROVE  IInv'
<1> DEFINE c == character[d]
<1>1. d \in Open /\ fptr[d] = "play" /\ c \in Bodies /\ body[c].place = "game"
      /\ body[c].name \in Names /\ body[c] \in Body
  BY OwnBody DEF Progress, Playing, Open, Me, IInv, Named
<1>2. CASE Progress(d)
  <2>1. /\ body[c].data < MaxProgress
        /\ body' = [body EXCEPT ![c].data = @ + 1]
        /\ UNCHANGED <<fptr, character, file, overdue>>
    BY <1>2 DEF Progress, Me
  <2>2. /\ [body[c] EXCEPT !.data = @ + 1] \in Body
        /\ [body[c] EXCEPT !.data = @ + 1].place = body[c].place
        /\ [body[c] EXCEPT !.data = @ + 1].link = body[c].link
        /\ [body[c] EXCEPT !.data = @ + 1].name = body[c].name
        /\ [body[c] EXCEPT !.data = @ + 1].saved = body[c].saved
    BY <1>1, <2>1, BoundAssumption DEF Body
  <2>3. /\ body' \in [Bodies -> Body]
        /\ \A b \in Bodies : /\ body'[b].place = body[b].place /\ body'[b].link = body[b].link
                             /\ body'[b].name = body[b].name /\ body'[b].saved = body[b].saved
    BY <1>1, <2>1, <2>2 DEF IInv, Shape
  <2>4. SavedHasFile'
    <3>1. \A b \in Bodies : Lasting(b)' => Lasting(b)
      BY <2>1, <2>3 DEF Lasting
    <3> QED BY <2>1, <2>3, <3>1 DEF IInv, SavedHasFile
  <2> QED BY <2>1, <2>3, <2>4 DEF IInv, Shape, Linked, Placed, Named, GuestLinked, OnlyBody,
             OnlySession, EarlyAlone, OneBody, Open, Me, PastLogin, Early
<1>3. CASE Saved(d)
  <2>1. /\ body' = [body EXCEPT ![c].saved = TRUE]
        /\ file' = [file EXCEPT ![body[c].name] = body[c].data]
        /\ overdue' \subseteq Descs
        /\ UNCHANGED <<fptr, character>>
    BY <1>3 DEF Saved, Me, IInv, Shape
  <2>2. /\ [body[c] EXCEPT !.saved = TRUE] \in Body
        /\ [body[c] EXCEPT !.saved = TRUE].place = body[c].place
        /\ [body[c] EXCEPT !.saved = TRUE].link = body[c].link
        /\ [body[c] EXCEPT !.saved = TRUE].name = body[c].name
        /\ [body[c] EXCEPT !.saved = TRUE].saved
    BY <1>1 DEF Body
  <2>3. /\ body' \in [Bodies -> Body]
        /\ \A b \in Bodies : /\ body'[b].place = body[b].place /\ body'[b].link = body[b].link
                             /\ body'[b].name = body[b].name
                             /\ body'[b].saved = (body[b].saved \/ b = c)
    BY <1>1, <2>1, <2>2 DEF IInv, Shape, Body
  <2>4. body[c].data \in 0..MaxProgress /\ body[c].data # NoFile
    BY <1>1, BoundAssumption DEF Body, NoFile
  <2>5. /\ file' \in [Names -> {NoFile} \cup 0..MaxProgress]
        /\ \A k \in Names : file[k] # NoFile => file'[k] # NoFile
        /\ file'[body[c].name] # NoFile
    BY <1>1, <2>1, <2>4 DEF IInv, Shape
  <2>6. Shape' /\ Linked' /\ Placed' /\ GuestLinked' /\ OneBody'
    BY <2>1, <2>3, <2>5 DEF IInv, Shape, Linked, Placed, GuestLinked, OneBody, Open, Me
  <2>7. Named' /\ SavedHasFile'
    <3>1. \A x \in Open : x # d => character[x] # c
      BY <1>1, OwnBody
    <3> QED BY <1>1, <2>1, <2>3, <2>5, <3>1
               DEF IInv, Linked, Named, SavedHasFile, Lasting, Open, Me, Early
  <2>8. OnlyBody' /\ OnlySession' /\ EarlyAlone'
    BY <2>1, <2>3 DEF IInv, Linked, OnlyBody, OnlySession, EarlyAlone, Open, Me, PastLogin, Early
  <2> QED BY <2>6, <2>7, <2>8 DEF IInv
<1> QED BY <1>2, <1>3

(* Into the game and out of it.                                            *)
LEMMA GameKeepsIInv ==
  ASSUME IInv, NEW d \in Descs,
         EnterGame(d) \/ Quit(d) \/ Purge(d) \/ ClearDestructed
  PROVE  IInv'
<1> USE NoneAssumption
    DEF IInv, Shape, Linked, Placed, Named, SavedHasFile, GuestLinked, OnlyBody, OnlySession,
        EarlyAlone, OneBody, Open, Me, PastLogin, Early
<1> DEFINE c == character[d]
<1>1. \A x \in {"menu", "game", "void"}, r \in Body :
        /\ [r EXCEPT !.place = x] \in Body
        /\ [r EXCEPT !.place = x].place = x
        /\ [r EXCEPT !.place = x].link = r.link
        /\ [r EXCEPT !.place = x].name = r.name
        /\ [r EXCEPT !.place = x].saved = r.saved
  BY DEF Body, Places
<1>2. CASE EnterGame(d)
  <2>1. /\ d \in Open /\ fptr[d] = "menu" /\ fptr' = [fptr EXCEPT ![d] = "play"]
        /\ body' = [body EXCEPT ![c].place = "game"]
        /\ UNCHANGED <<character, file>> /\ overdue' \subseteq Descs
    BY <1>2 DEF EnterGame
  <2>2. c \in Bodies /\ body[c] \in Body /\ body[c].link = d /\ body[c].name \in Names
    BY <2>1, OwnBody
  <2>3. /\ body' \in [Bodies -> Body]
        /\ \A b \in Bodies : /\ body'[b].place = (IF b = c THEN "game" ELSE body[b].place)
                             /\ body'[b].link = body[b].link
                             /\ body'[b].name = body[b].name /\ body'[b].saved = body[b].saved
    BY <1>1, <2>1, <2>2
  <2>4. \A x \in Open : character[x] = c <=> x = d
    BY <2>1, OwnBody
  <2>5. Shape' /\ Linked' /\ Placed'
    BY <2>1, <2>2, <2>3, <2>4 DEF Fptrs
  <2>6. Named' /\ SavedHasFile' /\ GuestLinked'
    <3> HIDE DEF OnlyBody, OnlySession, EarlyAlone, OneBody, Placed
    <3>1. \A b \in Bodies : Lasting(b)' => Lasting(b) /\ body'[b].name = body[b].name
      BY <2>1, <2>2, <2>3 DEF Lasting
    <3>2. SavedHasFile'
      BY <2>1, <3>1
    <3>3. Named' /\ GuestLinked'
      BY <2>1, <2>2, <2>3, <2>4
    <3> QED BY <3>2, <3>3
  <2>7. OnlyBody' /\ OnlySession'
    BY <2>1, <2>2, <2>3, <2>4
  <2>8. EarlyAlone' /\ OneBody'
    BY <2>1, <2>2, <2>3, <2>4
  <2> QED BY <2>5, <2>6, <2>7, <2>8
<1>3. CASE Quit(d)
  <2>1. /\ d \in Open /\ fptr[d] = "play" /\ body[c].place = "game"
        /\ body' = [body EXCEPT ![c].place = "void"]
        /\ UNCHANGED <<fptr, character>> /\ overdue' \subseteq Descs
        /\ file' = Written({c})
    BY <1>3 DEF Quit, Playing
  <2>2. c \in Bodies /\ body[c] \in Body /\ body[c].link = d /\ body[c].name \in Names
    BY <2>1, OwnBody
  <2>3. /\ body' \in [Bodies -> Body]
        /\ \A b \in Bodies : /\ body'[b].place = (IF b = c THEN "void" ELSE body[b].place)
                             /\ body'[b].link = body[b].link
                             /\ body'[b].name = body[b].name /\ body'[b].saved = body[b].saved
    BY <1>1, <2>1, <2>2
  <2>4. /\ file' \in [Names -> {NoFile} \cup 0..MaxProgress]
        /\ \A m \in Names : file[m] # NoFile => file'[m] # NoFile
    BY <2>1, <2>2, WrittenKeeps
  <2>5. \A x \in Open : character[x] = c <=> x = d
    BY <2>1, OwnBody
  <2>6. Shape' /\ Linked' /\ Placed'
    <3> HIDE DEF OnlyBody, OnlySession, EarlyAlone, OneBody, GuestLinked, SavedHasFile, Named
    <3>1. Shape'
      BY <2>1, <2>3, <2>4
    <3>2. Placed'
      BY <2>1, <2>3, <2>5
    <3>3. Linked'
      BY <2>1, <2>2, <2>3
    <3> QED BY <3>1, <3>2, <3>3
  <2>7. Named' /\ SavedHasFile' /\ GuestLinked'
    <3> HIDE DEF OnlyBody, OnlySession, EarlyAlone, OneBody, Placed
    <3>1. Named' /\ GuestLinked'
      BY <2>1, <2>2, <2>3
    <3>2. SavedHasFile'
      <4>1. \A b \in Bodies : Lasting(b)' =>
              Lasting(b) /\ body'[b].name = body[b].name /\ body[b].name \in Names
        BY <2>1, <2>3 DEF Lasting
      <4> QED BY <2>4, <4>1
    <3> QED BY <3>1, <3>2
  <2>8. OnlyBody' /\ OnlySession'
    BY <2>1, <2>2, <2>3, <2>5
  <2>9. EarlyAlone' /\ OneBody'
    BY <2>1, <2>2, <2>3, <2>5
  <2> QED BY <2>6, <2>7, <2>8, <2>9
<1>4. CASE Purge(d)
  <2>1. /\ d \in Open /\ fptr[d] = "play" /\ body[c].place = "game"
        /\ fptr' = [fptr EXCEPT ![d] = "none"]
        /\ character' = [character EXCEPT ![d] = None]
        /\ body' = [body EXCEPT ![c] = Free]
        /\ file' = Written({c}) /\ overdue' \subseteq Descs
    BY <1>4 DEF Purge, Playing
  <2>2. c \in Bodies /\ body[c].link = d
    BY <2>1, OwnBody
  <2>3. Free \in Body /\ Free.place = "free" /\ Free.link = None /\ ~Free.saved
    BY BoundAssumption DEF Free, Anonymous, Body, Places
  <2>4. /\ file' \in [Names -> {NoFile} \cup 0..MaxProgress]
        /\ \A m \in Names : file[m] # NoFile => file'[m] # NoFile
    BY <2>1, <2>2, WrittenKeeps
  <2>5. \A x \in Open : character[x] = c <=> x = d
    BY <2>1, OwnBody
  <2>6. Shape'
    BY <2>1, <2>2, <2>3, <2>4 DEF Fptrs
  <2>7. Linked'
    BY <2>1, <2>2, <2>3, <2>5
  <2>8. Placed' /\ GuestLinked' /\ OneBody'
    BY <2>1, <2>2, <2>3, <2>5
  <2>9. Named' /\ SavedHasFile'
    <3> HIDE DEF OnlyBody, OnlySession, EarlyAlone, OneBody, Placed, GuestLinked
    <3>1. Named'
      BY <2>1, <2>2, <2>3, <2>5
    <3>2. SavedHasFile'
      <4>1. \A b \in Bodies : Lasting(b)' =>
              Lasting(b) /\ body'[b].name = body[b].name /\ body[b].name \in Names
        BY <2>1, <2>2, <2>3 DEF Lasting
      <4> QED BY <2>4, <4>1
    <3> QED BY <3>1, <3>2
  <2>10. OnlyBody' /\ OnlySession' /\ EarlyAlone'
    BY <2>1, <2>2, <2>3, <2>5
  <2> QED BY <2>6, <2>7, <2>8, <2>9, <2>10
<1>5. CASE ClearDestructed
  <2>1. /\ body' = [ b \in Bodies |-> IF body[b].place = "void"
                                      THEN [body[b] EXCEPT !.place = "menu"] ELSE body[b] ]
        /\ fptr' = [ x \in Descs |-> IF x \in Open /\ body[character[x]].place = "void"
                                     THEN "menu" ELSE fptr[x] ]
        /\ UNCHANGED <<character, file, overdue>>
    BY <1>5 DEF ClearDestructed
  <2>2. /\ body' \in [Bodies -> Body]
        /\ \A b \in Bodies : /\ body'[b].place = (IF body[b].place = "void" THEN "menu" ELSE body[b].place)
                             /\ body'[b].link = body[b].link
                             /\ body'[b].name = body[b].name /\ body'[b].saved = body[b].saved
    BY <1>1, <2>1
  <2>3. \A x \in Descs :
          /\ fptr'[x] # "none" <=> x \in Open
          /\ fptr'[x] # fptr[x] => fptr[x] = "play" /\ fptr'[x] = "menu"
    BY <2>1
  <2>4. Shape' /\ Linked'
    BY <2>1, <2>2, <2>3 DEF Fptrs
  <2>5. Placed' /\ GuestLinked' /\ OneBody'
    BY <2>1, <2>2, <2>3
  <2>6. Named' /\ SavedHasFile'
    <3>1. \A b \in Bodies : Lasting(b)' => Lasting(b) /\ body'[b].name = body[b].name
      BY <2>2, <2>3 DEF Lasting
    <3>2. SavedHasFile'
      BY <2>1, <3>1
    <3>3. Named'
      BY <2>1, <2>2, <2>3
    <3> QED BY <3>2, <3>3
  <2>7. OnlyBody' /\ OnlySession' /\ EarlyAlone'
    BY <2>1, <2>2, <2>3
  <2> QED BY <2>4, <2>5, <2>6, <2>7
<1> QED BY <1>2, <1>3, <1>4, <1>5

(* descriptor_close of S, while d answers and may pass the login.          *)
LEMMA ClosingKeepsIInv ==
  ASSUME IInv, NEW d \in Descs, NEW f \in {"motd", "close"}, NEW S \in SUBSET Open,
         d \notin S =>
           /\ d \in Open /\ fptr[d] \in {"existing_pwd", "throw", "pwd_confirm"}
           /\ f = "motd" =>
                /\ \A x \in Open \ S : x # d /\ Me(x).name = Me(d).name =>
                     fptr[x] \notin PastLogin \cup Early
                /\ \A b \in Bodies : Cut(S)[b].place = "game" => Cut(S)[b].name # Me(d).name,
         fptr' = [x \in Descs |-> IF x \in S THEN "none" ELSE IF x = d THEN f ELSE fptr[x]],
         character' = [x \in Descs |-> IF x \in S THEN None ELSE character[x]],
         body' = Cut(S), file' = Written(InGame(S)), overdue' \subseteq Descs
  PROVE  IInv'
<1> USE DEF Open, Me
<1>i. /\ Shape /\ Linked /\ Placed /\ Named /\ SavedHasFile /\ GuestLinked /\ OnlyBody
      /\ OnlySession /\ EarlyAlone /\ OneBody
  BY DEF IInv
<1>1. /\ body' \in [Bodies -> Body]
      /\ \A b \in Bodies : body[b].link \notin S => body'[b] = body[b]
      /\ \A b \in Bodies : body[b].link \in S /\ body[b].place = "game" /\ body[b].saved =>
           body'[b] = [body[b] EXCEPT !.link = None]
      /\ \A b \in Bodies : body[b].link \in S /\ ~(body[b].place = "game" /\ body[b].saved) =>
           body'[b] = Free
  BY CutKeeps
<1>2. /\ file' \in [Names -> {NoFile} \cup 0..MaxProgress]
      /\ \A m \in Names : file[m] # NoFile => file'[m] # NoFile
  BY WrittenKeeps DEF InGame
(* A body is as it was, or its descriptor is closed and it is link dead or *)
(* free.                                                                   *)
<1>3. \A b \in Bodies :
        \/ body[b].link \notin S /\ body'[b] = body[b]
        \/ /\ body[b].link \in S /\ body[b].place = "game" /\ body[b].saved
           /\ body'[b].place = "game" /\ body'[b].saved /\ body'[b].link = None
           /\ body'[b].name = body[b].name
        \/ body[b].link \in S /\ body'[b].place = "free" /\ body'[b].link = None /\ ~body'[b].saved
  <2>1. Free.place = "free" /\ Free.link = None /\ ~Free.saved
    BY DEF Free, Anonymous
  <2>2. \A r \in Body : /\ [r EXCEPT !.link = None].place = r.place
                        /\ [r EXCEPT !.link = None].link = None
                        /\ [r EXCEPT !.link = None].name = r.name
                        /\ [r EXCEPT !.link = None].saved = r.saved
    BY DEF Body
  <2>3. \A b \in Bodies : body[b] \in Body /\ body[b].saved \in BOOLEAN
    BY <1>i DEF Shape, Body
  <2> SUFFICES ASSUME NEW b \in Bodies
               PROVE  \/ body[b].link \notin S /\ body'[b] = body[b]
                      \/ /\ body[b].link \in S /\ body[b].place = "game" /\ body[b].saved
                         /\ body'[b].place = "game" /\ body'[b].saved /\ body'[b].link = None
                         /\ body'[b].name = body[b].name
                      \/ /\ body[b].link \in S /\ body'[b].place = "free"
                         /\ body'[b].link = None /\ ~body'[b].saved
    OBVIOUS
  <2>4. CASE body[b].link \notin S
    BY <1>1, <2>4
  <2>5. CASE body[b].link \in S /\ body[b].place = "game" /\ body[b].saved
    <3>1. body'[b] = [body[b] EXCEPT !.link = None]
      BY <1>1, <2>5
    <3> QED BY <2>2, <2>3, <2>5, <3>1
  <2>6. CASE body[b].link \in S /\ ~(body[b].place = "game" /\ body[b].saved)
    <3>1. body'[b] = Free
      BY <1>1, <2>6
    <3> QED BY <2>1, <2>6, <3>1
  <2> QED BY <2>4, <2>5, <2>6
<1>4. None \notin S /\ S \subseteq Descs
  BY NoneAssumption
<1>5. \A x \in Descs : /\ x \in Open' <=> x \in Open /\ x \notin S
                       /\ x \in Open' => character'[x] = character[x]
                       /\ x \in Open' => fptr'[x] = (IF x = d THEN f ELSE fptr[x])
  OBVIOUS
<1>6. \A x \in Open' : body'[character[x]] = body[character[x]] /\ character[x] \in Bodies
  BY <1>1, <1>5, OwnBody
<1>7. Shape'
  BY <1>i, <1>1, <1>2 DEF Shape, Fptrs
<1>8. Linked'
  <2>1. \A x \in Descs : x \in Open' <=> character'[x] \in Bodies
    BY <1>i, <1>5, NoneAssumption DEF Linked
  <2>2. \A x \in Open' : body'[character'[x]].link = x
    BY <1>i, <1>5, <1>6 DEF Linked
  <2>3. \A b \in Bodies : body'[b].link # None =>
          body'[b].link \in Open' /\ character'[body'[b].link] = b
    BY <1>i, <1>3, <1>5 DEF Linked
  <2>4. \A b \in Bodies : /\ body'[b].place = "free" => body'[b].link = None
                          /\ body'[b].place \in {"menu", "void"} => body'[b].link # None
    BY <1>i, <1>3 DEF Linked
  <2> QED BY <2>1, <2>2, <2>3, <2>4 DEF Linked
<1>9. Placed'
  BY <1>i, <1>5, <1>6 DEF Placed
<1>10. GuestLinked'
  BY <1>i, <1>3 DEF GuestLinked
<1>11. OneBody'
  BY <1>i, <1>3 DEF OneBody
<1>12. Named'
  <2>1. \A x \in Open' : fptr'[x] \notin {"get_name", "close"} => body'[character'[x]].name \in Names
    BY <1>i, <1>5, <1>6 DEF Named
  <2>2. \A b \in Bodies : body'[b].place = "game" \/ body'[b].saved => body'[b].name \in Names
    BY <1>i, <1>3 DEF Named
  <2>3. \A x \in Open' : fptr'[x] \in Early => ~body'[character'[x]].saved
    BY <1>i, <1>5, <1>6 DEF Named, Early
  <2> QED BY <2>1, <2>2, <2>3 DEF Named
<1>13. SavedHasFile'
  <2>1. \A b \in Bodies : Lasting(b)' => Lasting(b) /\ body'[b].name = body[b].name
    <3> SUFFICES ASSUME NEW b \in Bodies, Lasting(b)'
                 PROVE  Lasting(b) /\ body'[b].name = body[b].name
      OBVIOUS
    <3>1. CASE body[b].link \notin S /\ body'[b] = body[b]
      BY <1>i, <1>5, <3>1 DEF Lasting, Linked
    <3>2. CASE body[b].link \in S /\ body[b].place = "game" /\ body[b].saved /\ body'[b].name = body[b].name
      BY <1>i, <1>4, <3>2 DEF Lasting, Linked, Placed
    <3> QED BY <1>3, <3>1, <3>2 DEF Lasting
  <2>2. \A b \in Bodies : Lasting(b) => body[b].name \in Names
    BY <1>i DEF Lasting, Named
  <2> QED BY <1>i, <1>2, <2>1, <2>2 DEF SavedHasFile
<1>14. OnlyBody'
  BY <1>i, <1>3, <1>5, <1>6 DEF OnlyBody, PastLogin
<1>15. EarlyAlone'
  BY <1>i, <1>3, <1>5, <1>6 DEF EarlyAlone, Early
<1>16. OnlySession'
  BY <1>i, <1>5, <1>6 DEF OnlySession, PastLogin, Early
<1> QED BY <1>7, <1>8, <1>9, <1>10, <1>11, <1>12, <1>13, <1>14, <1>15, <1>16 DEF IInv

(* reconnect_game: the body of d is freed, and d gets the link dead u.     *)
LEMMA ReconnectKeepsIInv ==
  ASSUME IInv, NEW d \in Open, NEW S \in SUBSET (Open \ {d}), NEW u \in Bodies,
         fptr[d] # "play",
         \A x \in Open \ S : x # d => \/ Me(x).name # Me(d).name
                                       \/ fptr[x] \notin PastLogin \cup Early,
         Cut(S)[u].place = "game", Cut(S)[u].name = Me(d).name, Cut(S)[u].link = None,
         Reconnect(d, u, S)
  PROVE  IInv'
<1> USE DEF Open, Me
<1>i. /\ Shape /\ Linked /\ Placed /\ Named /\ SavedHasFile /\ GuestLinked /\ OnlyBody
      /\ OnlySession /\ EarlyAlone /\ OneBody
  BY DEF IInv
<1> DEFINE c == character[d]
           n == body[c].name
<1>0. d \in Descs /\ d # None /\ c \in Bodies /\ body[c].link = d /\ body[c].place \notin {"game", "void"}
  BY <1>i, OwnBody, NoneAssumption DEF Placed
<1>1. /\ Cut(S) \in [Bodies -> Body]
      /\ \A b \in Bodies : body[b].link \notin S => Cut(S)[b] = body[b]
      /\ \A b \in Bodies : body[b].link \in S /\ body[b].place = "game" /\ body[b].saved =>
           Cut(S)[b] = [body[b] EXCEPT !.link = None]
      /\ \A b \in Bodies : body[b].link \in S /\ ~(body[b].place = "game" /\ body[b].saved) =>
           Cut(S)[b] = Free
  BY CutKeeps
<1>2. Free.place = "free" /\ Free.link = None /\ ~Free.saved /\ Free \in Body
  BY BoundAssumption DEF Free, Anonymous, Body, Places
<1>3. \A r \in Body, l \in Descs \cup {None} :
        /\ [r EXCEPT !.link = l] \in Body
        /\ [r EXCEPT !.link = l].place = r.place
        /\ [r EXCEPT !.link = l].link = l
        /\ [r EXCEPT !.link = l].name = r.name
        /\ [r EXCEPT !.link = l].saved = r.saved
  BY DEF Body
<1>4. /\ file' \in [Names -> {NoFile} \cup 0..MaxProgress]
      /\ \A m \in Names : file[m] # NoFile => file'[m] # NoFile
  BY WrittenKeeps DEF InGame, Reconnect, Proceed
<1>5. /\ fptr' = [x \in Descs |-> IF x = d THEN "play" ELSE IF x \in S THEN "none" ELSE fptr[x]]
      /\ character' = [x \in Descs |-> IF x = d THEN u ELSE IF x \in S THEN None ELSE character[x]]
      /\ overdue' \subseteq Descs
      /\ body' = [Cut(S) EXCEPT ![c] = Free, ![u].link = d]
  BY <1>i DEF Reconnect, Proceed, Shape
(* u was link dead, or is so now.                                          *)
<1>6. u # c /\ body[u].place = "game" /\ body[u].name = n /\ body[u].saved
      /\ (body[u].link = None \/ body[u].link \in S)
  <2>1. body[u] \in Body /\ body[u].saved \in BOOLEAN
    BY <1>i DEF Shape, Body
  <2>2. CASE body[u].link \notin S
    <3>1. Cut(S)[u] = body[u]
      BY <1>1, <2>2
    <3> QED BY <1>i, <1>0, <3>1 DEF GuestLinked
  <2>3. CASE body[u].link \in S /\ body[u].place = "game" /\ body[u].saved
    <3>1. Cut(S)[u] = [body[u] EXCEPT !.link = None]
      BY <1>1, <2>3
    <3> QED BY <1>0, <1>3, <2>1, <2>3, <3>1
  <2>4. CASE body[u].link \in S /\ ~(body[u].place = "game" /\ body[u].saved)
    <3>1. Cut(S)[u] = Free
      BY <1>1, <2>4
    <3> QED BY <1>2, <3>1
  <2> QED BY <2>2, <2>3, <2>4
<1> HIDE DEF c
<1>7. /\ body' \in [Bodies -> Body]
      /\ body'[c] = Free
      /\ body'[u] = [Cut(S)[u] EXCEPT !.link = d]
      /\ \A b \in Bodies : b # c /\ b # u => body'[b] = Cut(S)[b]
  <2>1. body' = [[Cut(S) EXCEPT ![c] = Free] EXCEPT ![u] = [Cut(S)[u] EXCEPT !.link = d]]
    BY <1>0, <1>1, <1>5, <1>6
  <2>2. [Cut(S)[u] EXCEPT !.link = d] \in Body
    BY <1>0, <1>1, <1>3
  <2> QED BY <1>0, <1>1, <1>2, <1>6, <2>1, <2>2
<1>8. body'[u].place = "game" /\ body'[u].link = d /\ body'[u].name = n /\ body'[u].saved
  <2>1. body[u] \in Body /\ Cut(S)[u] \in Body
    BY <1>i, <1>1 DEF Shape
  <2>2. Cut(S)[u].place = "game" /\ Cut(S)[u].name = n
    BY DEF c
  <2>3. Cut(S)[u].saved
    <3>1. CASE body[u].link = None
      <4>1. Cut(S)[u] = body[u]
        BY <1>1, <3>1, NoneAssumption
      <4> QED BY <1>6, <4>1
    <3>2. CASE body[u].link \in S
      <4>1. Cut(S)[u] = [body[u] EXCEPT !.link = None]
        BY <1>1, <1>6, <3>2
      <4> QED BY <1>3, <1>6, <2>1, <4>1
    <3> QED BY <1>6, <3>1, <3>2
  <2>4. body'[u] = [Cut(S)[u] EXCEPT !.link = d]
    BY <1>7
  <2> HIDE DEF n
  <2> QED BY <1>0, <1>3, <2>1, <2>2, <2>3, <2>4
<1>9. \A b \in Bodies :
        \/ b = u
        \/ b = c /\ body'[b] = Free
        \/ b \notin {c, u} /\ body[b].link \notin S /\ body[b].link # d /\ body'[b] = body[b]
        \/ /\ b \notin {c, u} /\ body[b].link \in S /\ body[b].place = "game" /\ body[b].saved
           /\ body'[b].place = "game" /\ body'[b].saved /\ body'[b].link = None
           /\ body'[b].name = body[b].name
        \/ /\ b \notin {c, u} /\ body[b].link \in S /\ body'[b] = Free
  <2> SUFFICES ASSUME NEW b \in Bodies, b # u, b # c
               PROVE  \/ body[b].link \notin S /\ body[b].link # d /\ body'[b] = body[b]
                      \/ /\ body[b].link \in S /\ body[b].place = "game" /\ body[b].saved
                         /\ body'[b].place = "game" /\ body'[b].saved /\ body'[b].link = None
                         /\ body'[b].name = body[b].name
                      \/ body[b].link \in S /\ body'[b] = Free
    BY <1>7
  <2>1. body'[b] = Cut(S)[b] /\ body[b] \in Body
    BY <1>i, <1>7 DEF Shape
  <2>2. CASE body[b].link \notin S
    <3>1. body[b].link # d
      BY OwnBody DEF c
    <3> QED BY <1>1, <2>1, <2>2, <3>1
  <2>3. CASE body[b].link \in S /\ body[b].place = "game" /\ body[b].saved
    <3>1. body'[b] = [body[b] EXCEPT !.link = None]
      BY <1>1, <2>1, <2>3
    <3> QED BY <1>3, <2>1, <2>3, <3>1
  <2>4. CASE body[b].link \in S /\ ~(body[b].place = "game" /\ body[b].saved)
    BY <1>1, <2>1, <2>4
  <2> QED BY <2>2, <2>3, <2>4
<1>10. \A x \in Descs : x \in Open' <=> x \in Open /\ x \notin S
  BY <1>0, <1>5
<1>11. \A x \in Open' : x # d =>
         /\ character'[x] = character[x] /\ fptr'[x] = fptr[x]
         /\ character[x] \in Bodies \ {c, u} /\ body'[character[x]] = body[character[x]]
  <2> SUFFICES ASSUME NEW x \in Open', x # d
               PROVE  /\ character'[x] = character[x] /\ fptr'[x] = fptr[x]
                      /\ character[x] \in Bodies \ {c, u}
                      /\ body'[character[x]] = body[character[x]]
    OBVIOUS
  <2>1. x \in Open /\ x \notin S /\ x # None
    BY <1>10, NoneAssumption
  <2>2. character[x] \in Bodies /\ body[character[x]].link = x
    BY <2>1, OwnBody
  <2>3. character[x] # c /\ character[x] # u
    BY <1>0, <1>6, <2>1, <2>2
  <2>4. character'[x] = character[x] /\ fptr'[x] = fptr[x]
    BY <1>5, <2>1
  <2> QED BY <1>9, <2>1, <2>2, <2>3, <2>4
<1>12. d \in Open' /\ character'[d] = u /\ fptr'[d] = "play"
  BY <1>0, <1>5
<1>13. Shape'
  BY <1>i, <1>4, <1>5, <1>7, NoneAssumption DEF Shape, Fptrs
<1>14. Linked'
  <2>1. \A x \in Descs : x \in Open' <=> character'[x] \in Bodies
    <3>1. \A x \in Descs \ {d} : x \notin Open' =>
                             character'[x] = None \/ (character'[x] = character[x] /\ x \notin Open)
      BY <1>5, <1>10
    <3>2. \A x \in Open' : character'[x] \in Bodies
      BY <1>11, <1>12
    <3>3. \A x \in Descs : x \notin Open' => character'[x] \notin Bodies
      BY <1>i, <1>12, <3>1, NoneAssumption DEF Linked
    <3> QED BY <3>2, <3>3
  <2>2. \A x \in Open' : body'[character'[x]].link = x
    BY <1>i, <1>8, <1>10, <1>11, <1>12 DEF Linked
  <2>3. \A b \in Bodies : body'[b].link # None =>
          body'[b].link \in Open' /\ character'[body'[b].link] = b
    <3> SUFFICES ASSUME NEW b \in Bodies, body'[b].link # None
                 PROVE  body'[b].link \in Open' /\ character'[body'[b].link] = b
      OBVIOUS
    <3>1. b = u \/ (body[b].link \notin S /\ body[b].link # d /\ body'[b] = body[b])
      <4>1. body'[b] # Free
        BY <1>2
      <4> QED BY <1>9, <4>1
    <3>2. CASE b = u
      BY <1>8, <1>12, <3>2
    <3>3. CASE body[b].link \notin S /\ body[b].link # d /\ body'[b] = body[b]
      <4>1. body[b].link \in Open /\ character[body[b].link] = b
        BY <1>i, <3>3 DEF Linked
      <4> QED BY <1>10, <1>11, <3>3, <4>1
    <3> QED BY <3>1, <3>2, <3>3
  <2>4. \A b \in Bodies : /\ body'[b].place = "free" => body'[b].link = None
                          /\ body'[b].place \in {"menu", "void"} => body'[b].link # None
    BY <1>i, <1>2, <1>8, <1>9 DEF Linked
  <2> QED BY <2>1, <2>2, <2>3, <2>4 DEF Linked
<1>15. Placed'
  BY <1>i, <1>8, <1>10, <1>11, <1>12 DEF Placed
<1>16. GuestLinked'
  BY <1>i, <1>2, <1>8, <1>9 DEF GuestLinked
<1>17. \A b \in Bodies : body'[b].place = "game" => body[b].place = "game" /\ body'[b].name = body[b].name
  BY <1>2, <1>6, <1>8, <1>9
<1>18. OneBody'
  BY <1>i, <1>17 DEF OneBody
<1>19. n \in Names
  BY <1>i, <1>6 DEF Named
<1>20. Named'
  <2>1. \A x \in Open' : fptr'[x] \notin {"get_name", "close"} => body'[character'[x]].name \in Names
    BY <1>i, <1>8, <1>10, <1>11, <1>12, <1>19 DEF Named
  <2>2. \A b \in Bodies : body'[b].place = "game" \/ body'[b].saved => body'[b].name \in Names
    BY <1>i, <1>2, <1>8, <1>9, <1>19 DEF Named
  <2>3. \A x \in Open' : fptr'[x] \in Early => ~body'[character'[x]].saved
    BY <1>i, <1>10, <1>11, <1>12 DEF Named, Early
  <2> QED BY <2>1, <2>2, <2>3 DEF Named
<1>21. SavedHasFile'
  <2>1. \A b \in Bodies : Lasting(b)' => Lasting(b) /\ body'[b].name = body[b].name
    <3> SUFFICES ASSUME NEW b \in Bodies, Lasting(b)'
                 PROVE  Lasting(b) /\ body'[b].name = body[b].name
      OBVIOUS
    <3>0. \A y \in S : fptr[y] = "play" \/ body[character[y]].place \notin {"game", "void"}
      BY <1>i DEF Placed
    <3>1. CASE b = u
      <4>1. body[u].link # None => character[body[u].link] = u
        BY <1>i DEF Linked
      <4> QED BY <1>6, <1>8, <3>0, <3>1, <4>1 DEF Lasting
    <3>2. CASE body[b].link \notin S /\ body[b].link # d /\ body'[b] = body[b]
      <4>1. body[b].link # None => body[b].link \in Open
        BY <1>i DEF Linked
      <4>2. body[b].link # None => fptr'[body[b].link] = fptr[body[b].link]
        BY <1>5, <3>2, <4>1
      <4> QED BY <3>2, <4>2 DEF Lasting
    <3>3. CASE body[b].link \in S /\ body[b].place = "game" /\ body[b].saved /\ body'[b].name = body[b].name
      <4>1. character[body[b].link] = b
        BY <1>i, <3>3, NoneAssumption DEF Linked
      <4> QED BY <3>0, <3>3, <4>1 DEF Lasting
    <3> QED BY <1>2, <1>9, <3>1, <3>2, <3>3 DEF Lasting
  <2>2. \A b \in Bodies : Lasting(b) => body[b].name \in Names
    BY <1>i DEF Lasting, Named
  <2> QED BY <1>i, <1>4, <2>1, <2>2 DEF SavedHasFile
<1>22. OnlyBody'
  <2>1. \A b \in Bodies : body'[b].place = "game" /\ body'[b].name = n => b = u
    BY <1>i, <1>6, <1>17 DEF OneBody
  <2> QED BY <1>i, <1>8, <1>10, <1>11, <1>12, <1>17, <2>1 DEF OnlyBody, PastLogin
<1>23. EarlyAlone'
  BY <1>i, <1>10, <1>11, <1>12, <1>17 DEF EarlyAlone, Early
<1>24. OnlySession'
  <2>1. \A x \in Open' : x # d => \/ body'[character'[x]].name # n
                                   \/ fptr'[x] \notin PastLogin \cup Early
    BY <1>10, <1>11 DEF c
  <2> QED BY <1>i, <1>8, <1>10, <1>11, <1>12, <2>1 DEF OnlySession
<1> QED BY <1>13, <1>14, <1>15, <1>16, <1>18, <1>20, <1>21, <1>22, <1>23, <1>24 DEF IInv

(* The password is asked for once more, or whether to throw the others out.*)
LEMMA PwdAgain ==
  ASSUME IInv, NEW d \in Open,
         \/ fptr[d] = "pwd_confirm" /\ Turn(d, "new_pwd")
         \/ fptr[d] = "existing_pwd" /\ Turn(d, "throw"),
         UNCHANGED body
  PROVE  IInv'
<1> USE DEF IInv, Open, Me, Turn
<1>1. Shape' /\ Linked'
  BY DEF Shape, Linked, Fptrs
<1>2. Placed' /\ GuestLinked' /\ OneBody'
  BY DEF Placed, GuestLinked, OneBody, Shape
<1>3. Named'
  BY DEF Named, Shape, Early
<1>4. SavedHasFile'
  <2>1. \A b \in Bodies : Lasting(b)' => Lasting(b)
    BY DEF Lasting, Linked, Shape
  <2> QED BY <2>1 DEF SavedHasFile
<1>5. OnlyBody' /\ EarlyAlone'
  BY DEF OnlyBody, EarlyAlone, Shape, PastLogin, Early
<1>6. OnlySession'
  BY DEF OnlySession, Shape, PastLogin, Early
<1> QED BY <1>1, <1>2, <1>3, <1>4, <1>5, <1>6

(* link_dead takes somebody out of the game.                               *)
LEMMA LeavingKeepsIInv ==
  ASSUME IInv, NEW u \in Bodies, LinkDeadLeaves(u)
  PROVE  IInv'
<1> USE DEF Open, Me
<1>i. /\ Shape /\ Linked /\ Placed /\ Named /\ SavedHasFile /\ GuestLinked /\ OnlyBody
      /\ OnlySession /\ EarlyAlone /\ OneBody
  BY DEF IInv
<1>1. /\ body[u].place = "game" /\ body[u].link = None
      /\ body' = [body EXCEPT ![u] = Free]
      /\ file' = Written({u})
      /\ UNCHANGED <<fptr, character, overdue>>
  BY DEF LinkDeadLeaves
<1>2. Free.place = "free" /\ Free.link = None /\ ~Free.saved /\ Free \in Body
  BY BoundAssumption DEF Free, Anonymous, Body, Places
<1>3. /\ file' \in [Names -> {NoFile} \cup 0..MaxProgress]
      /\ \A m \in Names : file[m] # NoFile => file'[m] # NoFile
  BY <1>1, WrittenKeeps
<1>4. body' \in [Bodies -> Body] /\ body'[u] = Free /\ \A b \in Bodies : b # u => body'[b] = body[b]
  BY <1>i, <1>1, <1>2 DEF Shape
<1>5. \A x \in Open : character[x] # u /\ body'[character[x]] = body[character[x]] /\ character[x] \in Bodies
  BY <1>i, <1>1, <1>4, OwnBody, NoneAssumption
<1>6. Shape'
  BY <1>i, <1>1, <1>3, <1>4 DEF Shape
<1>7. Linked'
  BY <1>i, <1>1, <1>2, <1>4, <1>5 DEF Linked
<1>8. Placed' /\ Named'
  BY <1>i, <1>1, <1>2, <1>4, <1>5 DEF Placed, Named
<1>9. SavedHasFile'
  <2>1. \A b \in Bodies : Lasting(b)' => Lasting(b) /\ body'[b] = body[b] /\ body[b].name \in Names
    BY <1>i, <1>1, <1>2, <1>4 DEF Lasting, Named
  <2> QED BY <1>i, <1>3, <2>1 DEF SavedHasFile
<1>10. GuestLinked' /\ OneBody'
  BY <1>i, <1>2, <1>4 DEF GuestLinked, OneBody
<1>11. OnlyBody' /\ EarlyAlone'
  BY <1>i, <1>1, <1>2, <1>4, <1>5 DEF OnlyBody, EarlyAlone
<1>12. OnlySession'
  BY <1>i, <1>1, <1>5 DEF OnlySession
<1> QED BY <1>6, <1>7, <1>8, <1>9, <1>10, <1>11, <1>12 DEF IInv

(* descriptor_close of nobody.                                             *)
LEMMA NothingClosed ==
  ASSUME IInv
  PROVE  Cut({}) = body
<1>1. \A b \in Bodies : Cut({})[b] = body[b]
  BY CutKeeps
<1> QED BY <1>1 DEF Cut, IInv, Shape

(* The ends of the login, with or without a body to reconnect to.          *)
LEMMA LoginKeepsIInv ==
  ASSUME IInv, NEW d \in Descs, PwdConfirm(d) \/ ExistingPwd(d) \/ Throw(d) \/ CloseLink(d)
  PROVE  IInv'
<1> USE DEF Open, Me
<1>i. /\ Shape /\ Linked /\ Placed /\ Named /\ SavedHasFile /\ GuestLinked /\ OnlyBody
      /\ OnlySession /\ EarlyAlone /\ OneBody
  BY DEF IInv
<1>1. CASE CloseLink(d)
  <2>1. d \in Open
    BY <1>1 DEF CloseLink
  <2>2. /\ fptr' = [x \in Descs |-> IF x \in {d} THEN "none" ELSE IF x = d THEN "close" ELSE fptr[x]]
        /\ character' = [x \in Descs |-> IF x \in {d} THEN None ELSE character[x]]
        /\ body' = Cut({d}) /\ file' = Written(InGame({d})) /\ overdue' \subseteq Descs
    BY <1>1, <1>i DEF CloseLink, Proceed, Shape
  <2> QED BY <2>1, <2>2, ClosingKeepsIInv
(* The dialogue goes on at f, all of S are closed.                         *)
<1>2. ASSUME NEW S \in SUBSET Open, NEW f \in {"motd", "close"}, d \in Open, d \notin S,
             fptr[d] \in {"existing_pwd", "throw", "pwd_confirm"},
             f = "motd" =>
               /\ \A x \in Open \ S : x # d /\ Me(x).name = Me(d).name =>
                    fptr[x] \notin PastLogin \cup Early
               /\ \A b \in Bodies : Cut(S)[b].place = "game" => Cut(S)[b].name # Me(d).name,
             fptr' = [x \in Descs |-> IF x \in S THEN "none" ELSE IF x = d THEN f ELSE fptr[x]],
             character' = [x \in Descs |-> IF x \in S THEN None ELSE character[x]],
             body' = Cut(S), file' = Written(InGame(S)), overdue' \subseteq Descs
      PROVE  IInv'
  BY <1>2, ClosingKeepsIInv
<1>3. Cut({}) = body /\ InGame({}) = {} /\ Written({}) = file
  BY NothingClosed, <1>i DEF InGame, Written, Guests, Shape
(* Turn(d, f) closes nobody.                                               *)
<1>4. ASSUME NEW f \in {"motd"}, d \in Open, Turn(d, f), UNCHANGED body,
             fptr[d] \in {"existing_pwd", "pwd_confirm"},
             \A x \in Open : x # d /\ Me(x).name = Me(d).name => fptr[x] \notin PastLogin \cup Early,
             \A b \in Bodies : body[b].place = "game" => body[b].name # Me(d).name
      PROVE  IInv'
  <2>1. /\ fptr' = [x \in Descs |-> IF x \in {} THEN "none" ELSE IF x = d THEN f ELSE fptr[x]]
        /\ character' = [x \in Descs |-> IF x \in {} THEN None ELSE character[x]]
        /\ body' = Cut({}) /\ file' = Written(InGame({})) /\ overdue' \subseteq Descs
    BY <1>3, <1>4, <1>i DEF Turn, Shape
  <2>2. {} \in SUBSET Open /\ f \in {"motd", "close"} /\ d \notin {}
    BY <1>4
  <2>3. /\ \A x \in Open \ {} : x # d /\ Me(x).name = Me(d).name => fptr[x] \notin PastLogin \cup Early
        /\ \A b \in Bodies : Cut({})[b].place = "game" => Cut({})[b].name # Me(d).name
    BY <1>3, <1>4
  <2> QED BY <1>2, <1>4, <2>1, <2>2, <2>3
<1>5. CASE PwdConfirm(d)
  <2>1. d \in Open /\ fptr[d] = "pwd_confirm" /\ body[character[d]].name \in Names
    BY <1>5, <1>i DEF PwdConfirm, Named
  <2>2. Units(body, Me(d).name) = {}
    BY <1>i, <2>1 DEF Units, EarlyAlone, Early
  <2>3. CASE Turn(d, "new_pwd") /\ UNCHANGED body
    BY <2>1, <2>3, PwdAgain
  <2>4. CASE Turn(d, "motd") /\ UNCHANGED body
    <3>1. \A x \in Open : x # d /\ Me(x).name = Me(d).name => fptr[x] \notin PastLogin \cup Early
      BY <1>i, <2>1, NoneAssumption DEF OnlySession, Early
    <3>2. \A b \in Bodies : body[b].place = "game" => body[b].name # Me(d).name
      BY <2>2 DEF Units
    <3> QED BY <1>4, <2>1, <2>4, <3>1, <3>2
  <2> QED BY <1>5, <2>2, <2>3, <2>4 DEF PwdConfirm, Admit
<1>6. CASE ExistingPwd(d)
  <2>1. d \in Open /\ fptr[d] = "existing_pwd" /\ body[character[d]].name \in Names
    BY <1>6, <1>i DEF ExistingPwd, Named
  <2>2. CASE Others(d, Me(d).name) # {}
    <3>1. Turn(d, "throw") /\ UNCHANGED body
      BY <1>6, <2>2 DEF ExistingPwd
    <3> QED BY <2>1, <3>1, PwdAgain
  <2>3. CASE Others(d, Me(d).name) = {}
    <3>1. \A x \in Open : x # d => Me(x).name # Me(d).name
      BY <2>3 DEF Others
    <3>2. CASE Units(body, Me(d).name) = {}
      <4>1. Turn(d, "motd") /\ UNCHANGED body
        BY <1>6, <2>3, <3>2 DEF ExistingPwd, Admit
      <4>2. \A b \in Bodies : body[b].place = "game" => body[b].name # Me(d).name
        BY <3>2 DEF Units
      <4> QED BY <1>4, <2>1, <3>1, <4>1, <4>2
    <3>3. CASE Units(body, Me(d).name) # {}
      <4>1. PICK u \in Units(body, Me(d).name) : Reconnect(d, u, {})
        BY <1>6, <2>3, <3>3 DEF ExistingPwd, Admit
      <4>2. u \in Bodies /\ body[u].place = "game" /\ body[u].name = Me(d).name
        BY DEF Units
      <4>3. body[u].link = None
        <5>1. body[character[d]].place \notin {"game", "void"}
          BY <1>i, <2>1 DEF Placed
        <5> QED BY <1>i, <3>1, <4>2, <5>1 DEF Linked
      <4>4. /\ {} \in SUBSET (Open \ {d}) /\ fptr[d] # "play"
            /\ Cut({})[u].place = "game" /\ Cut({})[u].name = Me(d).name /\ Cut({})[u].link = None
            /\ \A x \in Open \ {} : x # d => \/ Me(x).name # Me(d).name
                                             \/ fptr[x] \notin PastLogin \cup Early
        BY <1>3, <2>1, <3>1, <4>2, <4>3
      <4> QED BY <2>1, <4>1, <4>2, <4>4, ReconnectKeepsIInv
    <3> QED BY <3>2, <3>3
  <2> QED BY <2>2, <2>3
<1>7. CASE Throw(d)
  <2> DEFINE n == Me(d).name
             S == Others(d, n)
             units == Units(Cut(S), n)
  <2>1. /\ d \in Open /\ fptr[d] = "throw" /\ n \in Names
        /\ S \in SUBSET (Open \ {d})
        /\ \A x \in Open \ S : x # d => Me(x).name # n
    BY <1>7, <1>i DEF Throw, Named, Others
  <2>2. \A b \in Bodies : Cut(S)[b].place = "game" /\ Cut(S)[b].name = n =>
          Cut(S)[b].link = None /\ Cut(S)[b].saved
    <3> SUFFICES ASSUME NEW b \in Bodies, Cut(S)[b].place = "game", Cut(S)[b].name = n
                 PROVE  Cut(S)[b].link = None /\ Cut(S)[b].saved
      OBVIOUS
    <3>0. S \in SUBSET Descs
      BY <2>1
    <3>1. body[b] \in Body
      BY <1>i DEF Shape
    <3>2. CASE body[b].link \in S
      <4>1. Free.place = "free"
        BY DEF Free, Anonymous
      <4>2. body[b].place = "game" /\ body[b].saved /\ Cut(S)[b] = [body[b] EXCEPT !.link = None]
        BY <3>0, <3>2, <4>1, CutKeeps
      <4> QED BY <3>1, <4>2 DEF Body
    <3>3. CASE body[b].link \notin S
      <4>1. Cut(S)[b] = body[b]
        BY <3>0, <3>3, CutKeeps
      <4>2. body[character[d]].place \notin {"game", "void"}
        BY <1>i, <2>1 DEF Placed
      <4>3. body[b].link = None
        BY <1>i, <2>1, <3>3, <4>1, <4>2 DEF Linked
      <4> QED BY <1>i, <4>1, <4>3 DEF GuestLinked
    <3> QED BY <3>2, <3>3
  <2> HIDE DEF S
  <2>3. CASE \E u \in units : Cut(S)[u].saved
    <3>1. PICK u \in units : Reconnect(d, u, S)
      BY <1>7, <2>3 DEF Throw, S
    <3>2. u \in Bodies /\ Cut(S)[u].place = "game" /\ Cut(S)[u].name = n /\ Cut(S)[u].link = None
      BY <2>2 DEF Units
    <3> QED BY <2>1, <3>1, <3>2, ReconnectKeepsIInv
  <2>4. CASE ~\E u \in units : Cut(S)[u].saved
    <3>1. units = {}
      BY <2>2, <2>4 DEF Units
    <3>2. PICK f \in {"motd", "close"} :
            fptr' = [x \in Descs |-> IF x \in S THEN "none" ELSE IF x = d THEN f ELSE fptr[x]]
      <4>1. \E f \in {"motd", "close"} : Proceed(d, f, character[d], S)
        BY <1>7, <2>4, <3>1 DEF Throw, S
      <4> QED BY <2>1, <4>1 DEF Proceed
    <3>3. /\ character' = [x \in Descs |-> IF x \in S THEN None ELSE character[x]]
          /\ file' = Written(InGame(S)) /\ overdue' \subseteq Descs
      BY <1>7, <1>i, <2>1, <2>4, <3>1 DEF Throw, S, Proceed, Shape
    <3>4. body' = Cut(S)
      <4>1. body' = [b \in Bodies |-> IF b \in units THEN Free ELSE Cut(S)[b]]
        BY <1>7, <2>4 DEF Throw, S
      <4>2. Cut(S) \in [Bodies -> Body]
        BY <2>1, CutKeeps
      <4> QED BY <3>1, <4>1, <4>2
    <3>5. \A b \in Bodies : Cut(S)[b].place = "game" => Cut(S)[b].name # n
      BY <3>1 DEF Units
    <3>6. S \in SUBSET Open /\ d \notin S
      BY <2>1
    <3> QED BY <1>2, <2>1, <3>2, <3>3, <3>4, <3>5, <3>6
  <2> QED BY <2>3, <2>4
<1> QED BY <1>1, <1>5, <1>6, <1>7

-----------------------------------------------------------------------------
(* Every step, one lemma for each kind of step.                            *)
LEMMA StepKeepsIInv == IInv /\ [Next]_vars => IInv'
<1> SUFFICES ASSUME IInv, [Next]_vars PROVE IInv'
  OBVIOUS
<1>1. CASE UNCHANGED vars
  BY <1>1 DEF vars, IInv, Shape, Linked, Placed, Named, SavedHasFile, Lasting, GuestLinked, OnlyBody,
              OnlySession, EarlyAlone, OneBody, Open, Me
<1>2. ASSUME NEW d \in Descs, Login(d) PROVE IInv'
  <2>1. CASE \/ RefuseName(d) \/ NameConfirm(d) \/ NewPwd(d) \/ ThrowNot(d) \/ Motd(d)
    BY <2>1, QuestionsKeepIInv
  <2>2. CASE Connect(d) \/ \E n \in Names : GetKnownName(d, n) \/ GetNewName(d, n)
    BY <2>2, NamesKeepIInv
  <2>3. CASE WrongPwd(d)
    BY <2>3, FilesKeepIInv
  <2>4. CASE PwdConfirm(d) \/ ExistingPwd(d) \/ Throw(d)
    BY <2>4, LoginKeepsIInv
  <2> QED BY <1>2, <2>1, <2>2, <2>3, <2>4 DEF Login
<1>3. ASSUME NEW d \in Descs, Menu(d) PROVE IInv'
  BY <1>3, QuestionsKeepIInv, FilesKeepIInv, GameKeepsIInv DEF Menu
<1>4. ASSUME NEW d \in Descs, Play(d) PROVE IInv'
  BY <1>4, QuestionsKeepIInv, PlayKeepsIInv, GameKeepsIInv, LoginKeepsIInv DEF Play, DoSave, Autosave
<1>5. ASSUME NEW b \in Bodies, LinkDeadLeaves(b) PROVE IInv'
  BY <1>5, LeavingKeepsIInv
<1>6. ASSUME NEW n \in Names, DeletePlayer(n) PROVE IInv'
  BY <1>6, FilesKeepIInv
<1>7. CASE ClearDestructed
  <2>1. PICK d \in Descs : d \in Open
    BY <1>7 DEF ClearDestructed, Open
  <2> QED BY <1>7, GameKeepsIInv
<1> QED BY <1>1, <1>2, <1>3, <1>4, <1>5, <1>6, <1>7 DEF Next

(* IInv holds through every login, whoever else logs in meanwhile.         *)
THEOREM Inductive == Spec => []IInv
<1>1. IInv /\ [Next]_vars => IInv'
  BY StepKeepsIInv
<1> QED BY <1>1, InitHolds, PTL DEF Spec

-----------------------------------------------------------------------------
(* d->character and CHAR_DESCRIPTOR mirror each other at all times.        *)
THEOREM PairsHold == Spec => []Paired
<1>1. IInv => Paired
  BY NoneAssumption DEF IInv, Linked, Paired, Open, Me
<1> QED BY <1>1, Inductive, PTL

(* A player is in the game once at most, and has one session past the      *)
(* login.                                                                  *)
THEOREM OneEach == Spec => []OneOfEachName
<1>1. IInv => OneOfEachName
  <2> SUFFICES ASSUME IInv PROVE OneOfEachName
    OBVIOUS
  <2>1. \A d \in Open : fptr[d] \in PastLogin => Me(d).name # None
    BY NoneAssumption DEF IInv, Named, Open, Me, PastLogin
  <2> QED BY <2>1 DEF IInv, OneBody, OnlySession, OneOfEachName
<1> QED BY <1>1, Inductive, PTL

(* The assertions of nanny_pwd_confirm hold: nobody chooses a password for *)
(* a name that is in the game.                                             *)
THEOREM NobodyAtConfirm == Spec => []NoUnitAtConfirm
<1>1. IInv => NoUnitAtConfirm
  BY DEF IInv, EarlyAlone, Early, NoUnitAtConfirm
<1> QED BY <1>1, Inductive, PTL
-----------------------------------------------------------------------------
(* no_players.  It is never more than the players in the game with a       *)
(* descriptor; it is less once a guest lost his link, who is counted out   *)
(* twice (MaxDrift bounds how often that happens here).                    *)
Counted ==
  /\ players \in Int
  /\ players <= Cardinality(InGame(Descs))
  /\ players >= Cardinality(InGame(Descs)) - MaxDrift

(* No two of those in the game have the same descriptor.                   *)
LEMMA InGameFinite ==
  ASSUME IInv, NEW S \in SUBSET Descs
  PROVE  /\ IsFiniteSet(InGame(S)) /\ Cardinality(InGame(S)) \in Nat
         /\ Cardinality(InGame(S)) <= Cardinality(Descs)
         /\ IsFiniteSet(Guests(InGame(S))) /\ Cardinality(Guests(InGame(S))) \in Nat
<1> DEFINE f == [b \in InGame(S) |-> body[b].link]
<1>1. f \in [InGame(S) -> Descs]
  BY DEF InGame
<1>2. \A b, c \in InGame(S) : f[b] = f[c] => b = c
  BY NoneAssumption DEF IInv, Linked, InGame
<1>3. f \in Injection(InGame(S), Descs)
  BY <1>1, <1>2 DEF Injection, IsInjective
<1>4. IsFiniteSet(InGame(S)) /\ Cardinality(InGame(S)) <= Cardinality(Descs)
  BY <1>3, DescsAssumption, FS_Injection
<1>5. Guests(InGame(S)) \in SUBSET InGame(S)
  BY DEF Guests
<1>6. IsFiniteSet(Guests(InGame(S)))
  BY <1>4, <1>5, FS_Subset
<1> QED BY <1>4, <1>6, FS_CardinalityType

(* Who is closed and who is not.                                           *)
LEMMA ClosedAndNot ==
  ASSUME IInv, NEW S \in SUBSET Descs
  PROVE  /\ InGame(Descs \ S) = InGame(Descs) \ InGame(S)
         /\ Cardinality(InGame(Descs)) = Cardinality(InGame(S)) + Cardinality(InGame(Descs \ S))
<1>1. InGame(Descs \ S) = InGame(Descs) \ InGame(S)
  BY DEF InGame
<1>2. InGame(Descs) = InGame(S) \cup InGame(Descs \ S) /\ InGame(S) \cap InGame(Descs \ S) = {}
  BY DEF InGame
<1>3. IsFiniteSet(InGame(S)) /\ IsFiniteSet(InGame(Descs \ S))
  BY InGameFinite
<1>4. Cardinality(InGame(S) \cup InGame(Descs \ S))
        = Cardinality(InGame(S)) + Cardinality(InGame(Descs \ S))
          - Cardinality(InGame(S) \cap InGame(Descs \ S))
  BY <1>3, FS_Union
<1>5. Cardinality(InGame(S)) \in Nat /\ Cardinality(InGame(Descs \ S)) \in Nat
  BY InGameFinite
<1>6. Cardinality(InGame(S) \cap InGame(Descs \ S)) = 0
  BY <1>2, FS_EmptySet
<1>7. Cardinality(InGame(Descs)) = Cardinality(InGame(S)) + Cardinality(InGame(Descs \ S))
  BY <1>2, <1>4, <1>5, <1>6
<1> QED BY <1>1, <1>7

(* A step that neither counts nor moves anyone in or out of the game.      *)
LEMMA SameGame ==
  ASSUME Counted, players' = players,
         \A b \in Bodies : (body'[b].link \in Descs /\ body'[b].place = "game")
                             <=> (body[b].link \in Descs /\ body[b].place = "game")
  PROVE  Counted'
<1>1. InGame(Descs)' = InGame(Descs)
  BY DEF InGame
<1> QED BY <1>1 DEF Counted

LEMMA QuietSteps ==
  ASSUME IInv, Counted, NEW d \in Descs,
         \/ RefuseName(d) \/ NameConfirm(d) \/ ThrowNot(d) \/ Motd(d) \/ LeaveMenu(d)
         \/ NewPwd(d) \/ Elapse(d) \/ WrongPwd(d) \/ SaveInMenu(d) \/ KillConfirm(d)
         \/ Connect(d) \/ (\E n \in Names : GetKnownName(d, n) \/ GetNewName(d, n))
         \/ Progress(d) \/ (Playing(d) /\ Saved(d))
  PROVE  Counted'
<1> DEFINE c == character[d]
<1>i. Shape /\ Linked /\ Placed
  BY DEF IInv
<1> USE DEF Turn
<1>1. CASE \/ RefuseName(d) \/ NameConfirm(d) \/ ThrowNot(d) \/ Motd(d) \/ LeaveMenu(d)
           \/ Elapse(d) \/ WrongPwd(d) \/ SaveInMenu(d) \/ KillConfirm(d)
  <2>1. UNCHANGED <<body, players>>
    BY <1>1 DEF RefuseName, NameConfirm, ThrowNot, Motd, LeaveMenu, Elapse, WrongPwd, SaveInMenu,
                KillConfirm
  <2> QED BY <2>1, SameGame
<1>2. ASSUME c \in Bodies, players' = players, NEW r, body' = [body EXCEPT ![c] = r],
             (r.link \in Descs /\ r.place = "game")
               <=> (body[c].link \in Descs /\ body[c].place = "game")
      PROVE  Counted'
  <2>1. \A b \in Bodies : body'[b] = IF b = c THEN r ELSE body[b]
    BY <1>i, <1>2 DEF Shape
  <2> QED BY <1>2, <2>1, SameGame
<1>3. fptr[d] # "none" => c \in Bodies /\ body[c] \in Body
  BY OwnBody DEF Open, Me
<1>4. fptr[d] \notin {"none", "play"} => body[c].place # "game"
  BY <1>i DEF Placed, Open, Me
<1>5. CASE NewPwd(d)
  <2>1. fptr[d] = "new_pwd" /\ body' = [body EXCEPT ![c] = [body[c] EXCEPT !.pwd = TRUE]] /\ players' = players
    BY <1>5 DEF NewPwd
  <2>2. [body[c] EXCEPT !.pwd = TRUE].link = body[c].link /\ [body[c] EXCEPT !.pwd = TRUE].place = body[c].place
    BY <1>3, <2>1 DEF Body
  <2> QED BY <1>2, <1>3, <2>1, <2>2
<1>6. CASE Progress(d)
  <2>1. fptr[d] = "play" /\ body' = [body EXCEPT ![c] = [body[c] EXCEPT !.data = @ + 1]] /\ players' = players
    BY <1>6 DEF Progress, Playing
  <2>2. [body[c] EXCEPT !.data = @ + 1].link = body[c].link /\ [body[c] EXCEPT !.data = @ + 1].place = body[c].place
    BY <1>3, <2>1 DEF Body
  <2> QED BY <1>2, <1>3, <2>1, <2>2
<1>7. CASE Playing(d) /\ Saved(d)
  <2>1. fptr[d] = "play" /\ body' = [body EXCEPT ![c] = [body[c] EXCEPT !.saved = TRUE]] /\ players' = players
    BY <1>7 DEF Saved, Playing
  <2>2. [body[c] EXCEPT !.saved = TRUE].link = body[c].link /\ [body[c] EXCEPT !.saved = TRUE].place = body[c].place
    BY <1>3, <2>1 DEF Body
  <2> QED BY <1>2, <1>3, <2>1, <2>2
<1>8. CASE Connect(d)
  <2>1. PICK b \in Bodies : body[b].place = "free" /\ body' = [body EXCEPT ![b] = Anonymous("menu", d)]
    BY <1>8 DEF Connect
  <2>2. players' = players /\ Anonymous("menu", d).place = "menu"
    BY <1>8 DEF Connect, Anonymous
  <2>3. \A x \in Bodies : body'[x] = IF x = b THEN Anonymous("menu", d) ELSE body[x]
    BY <1>i, <2>1 DEF Shape
  <2> QED BY <2>1, <2>2, <2>3, SameGame
<1>9. ASSUME NEW n \in Names, GetKnownName(d, n) PROVE Counted'
  <2>1. fptr[d] = "get_name" /\ body' = [body EXCEPT ![c] = Loaded(d, n)] /\ players' = players
    BY <1>9 DEF GetKnownName
  <2>2. Loaded(d, n).place = "menu"
    BY DEF Loaded
  <2> QED BY <1>2, <1>3, <1>4, <2>1, <2>2
<1>10. ASSUME NEW n \in Names, GetNewName(d, n) PROVE Counted'
  <2>1. fptr[d] = "get_name" /\ players' = players
    BY <1>10 DEF GetNewName
  <2>2. \E x \in BOOLEAN : body' = [body EXCEPT ![character[d]].name = n, ![character[d]].pwd = x]
    <3>1. CASE Others(d, n) = {}
      BY <1>10, <3>1 DEF GetNewName
    <3>2. CASE Others(d, n) # {}
      <4>1. \A td \in Others(d, n) : Me(td).pwd \in BOOLEAN
        BY OwnBody DEF Others, Body
      <4>2. \E td \in Others(d, n) :
               body' = [body EXCEPT ![character[d]].name = n, ![character[d]].pwd = Me(td).pwd]
        BY <1>10, <3>2 DEF GetNewName
      <4> QED BY <4>1, <4>2
    <3> QED BY <3>1, <3>2
  <2>3. \A b \in Bodies : body'[b].place = body[b].place /\ body'[b].link = body[b].link
    BY ONLY <1>i, <1>3, <2>1, <2>2, NameGiven DEF Shape
  <2> QED BY <2>1, <2>3, SameGame
<1> QED BY <1>1, <1>5, <1>6, <1>7, <1>8, <1>9, <1>10

(* All of S are closed: their guests are counted out twice.                *)
LEMMA CountedOut ==
  ASSUME IInv, Counted, NEW S \in SUBSET Descs, WithinDrift(S) \/ S = {}
  PROVE  /\ Disconnected(S) \in Int
         /\ Disconnected(S) <= Cardinality(InGame(Descs \ S))
         /\ Disconnected(S) >= Cardinality(InGame(Descs \ S)) - MaxDrift
<1>1. /\ Cardinality(InGame(S)) \in Nat /\ Cardinality(Guests(InGame(S))) \in Nat
      /\ Cardinality(InGame(Descs \ S)) \in Nat
      /\ Cardinality(InGame(Descs)) = Cardinality(InGame(S)) + Cardinality(InGame(Descs \ S))
  BY InGameFinite, ClosedAndNot
<1>2. CASE WithinDrift(S)
  BY <1>1, <1>2, BoundAssumption DEF Counted, Disconnected, WithinDrift
<1>3. CASE S = {}
  <2>1. InGame(S) = {} /\ Guests(InGame(S)) = {}
    BY <1>3, NoneAssumption DEF InGame, Guests
  <2>2. Cardinality(InGame(S)) = 0 /\ Cardinality(Guests(InGame(S))) = 0
    BY <2>1, FS_EmptySet
  <2> QED BY <1>1, <2>2 DEF Counted, Disconnected
<1> QED BY <1>2, <1>3

(* Someone comes back: d, who was not in the game, has the link dead u.    *)
LEMMA ReconnectKeepsCounted ==
  ASSUME IInv, Counted, NEW d \in Open, NEW S \in SUBSET (Open \ {d}), NEW u \in Bodies,
         WithinDrift(S) \/ S = {}, fptr[d] # "play",
         Cut(S)[u].place = "game", Cut(S)[u].link = None, Reconnect(d, u, S)
  PROVE  Counted'
<1> DEFINE c == character[d]
<1>i. Shape /\ Linked /\ Placed
  BY DEF IInv
<1>1. /\ S \in SUBSET Descs /\ d \in Descs \ S /\ c \in Bodies /\ body[c].link = d
      /\ body[c].place # "game"
  BY <1>i, OwnBody DEF Open, Me, Placed
<1>2. Cut(S) \in [Bodies -> Body] /\ Free.place = "free" /\ Free.link = None
  BY <1>1, CutKeeps DEF Free, Anonymous
<1>3. Cut(S)[c] = body[c] /\ u # c
  BY <1>1, <1>2, CutKeeps, NoneAssumption
<1>4. body' = [Cut(S) EXCEPT ![c] = Free, ![u] = [Cut(S)[u] EXCEPT !.link = d]]
  BY <1>2, <1>3 DEF Reconnect
<1>5. [Cut(S)[u] EXCEPT !.link = d].place = "game" /\ [Cut(S)[u] EXCEPT !.link = d].link = d
  BY <1>2 DEF Body
<1>6. \A b \in Bodies : body'[b] = IF b = u THEN [Cut(S)[u] EXCEPT !.link = d]
                                   ELSE IF b = c THEN Free ELSE Cut(S)[b]
  BY <1>2, <1>3, <1>4
<1>7. \A b \in Bodies : body[b].link \in S => Cut(S)[b].link \notin Descs
  <2> SUFFICES ASSUME NEW b \in Bodies, body[b].link \in S PROVE Cut(S)[b].link = None
    BY NoneAssumption
  <2>1. body[b] \in Body
    BY <1>i DEF Shape
  <2>2. [body[b] EXCEPT !.link = None].link = None
    BY <2>1 DEF Body
  <2> QED BY <1>1, <1>2, <2>2, CutKeeps
<1>8. \A b \in Bodies : body[b].link \notin S => Cut(S)[b] = body[b]
  BY <1>1, CutKeeps
<1>9. u \notin InGame(Descs \ S)
  BY <1>7, <1>8, NoneAssumption DEF InGame
<1>10. InGame(Descs)' = InGame(Descs \ S) \cup {u}
  <2>1. \A b \in Bodies : (body'[b].link \in Descs /\ body'[b].place = "game")
                            <=> b = u \/ (body[b].link \in Descs \ S /\ body[b].place = "game")
    BY <1>1, <1>2, <1>5, <1>6, <1>7, <1>8, NoneAssumption
  <2> QED BY <2>1 DEF InGame
<1>11. /\ IsFiniteSet(InGame(Descs \ S)) /\ Cardinality(InGame(Descs \ S)) \in Nat
  BY <1>1, InGameFinite
<1>12. Cardinality(InGame(Descs)') = Cardinality(InGame(Descs \ S)) + 1
  BY <1>9, <1>10, <1>11, FS_AddElement
<1>13. players' = Disconnected(S) + 1
  BY DEF Reconnect
<1> QED BY <1>1, <1>11, <1>12, <1>13, CountedOut, BoundAssumption DEF Counted

LEMMA ClosingKeepsCounted ==
  ASSUME IInv, Counted, NEW S \in SUBSET Descs, WithinDrift(S),
         body' = Cut(S), players' = Disconnected(S)
  PROVE  Counted'
<1>1. Shape
  BY DEF IInv
<1>2. \A b \in Bodies : body[b].link \in S => Cut(S)[b].link \notin Descs
  <2> SUFFICES ASSUME NEW b \in Bodies, body[b].link \in S PROVE Cut(S)[b].link = None
    BY NoneAssumption
  <2>1. body[b] \in Body /\ Free.link = None
    BY <1>1 DEF Shape, Free, Anonymous
  <2>2. [body[b] EXCEPT !.link = None].link = None
    BY <2>1 DEF Body
  <2> QED BY <2>1, <2>2, CutKeeps
<1>3. \A b \in Bodies : body[b].link \notin S => Cut(S)[b] = body[b]
  BY CutKeeps
<1>4. InGame(Descs)' = InGame(Descs \ S)
  BY <1>2, <1>3 DEF InGame
<1> QED BY <1>4, CountedOut DEF Counted

(* One player comes or goes.                                               *)
LEMMA ComingAndGoing ==
  ASSUME IInv, Counted, NEW d \in Descs,
         EnterGame(d) \/ Quit(d) \/ Purge(d)
  PROVE  Counted'
<1> DEFINE c == character[d]
           G == InGame(Descs)
<1>i. Shape /\ Linked /\ Placed
  BY DEF IInv
<1>1. d \in Open
  BY DEF EnterGame, Quit, Purge, Playing, Open
<1>2. c \in Bodies /\ body[c].link = d /\ body[c] \in Body
  BY <1>1, OwnBody DEF Me
<1>3. IsFiniteSet(G) /\ Cardinality(G) \in Nat
  BY InGameFinite
<1>4. ASSUME NEW r, body' = [body EXCEPT ![c] = r]
      PROVE  InGame(Descs)' = IF r.link \in Descs /\ r.place = "game" THEN G \cup {c} ELSE G \ {c}
  <2>1. \A b \in Bodies : body'[b] = IF b = c THEN r ELSE body[b]
    BY <1>i, <1>2, <1>4 DEF Shape
  <2> QED BY <1>2, <2>1 DEF InGame
<1>5. CASE EnterGame(d)
  <2> DEFINE r == [body[c] EXCEPT !.place = "game"]
  <2>1. body' = [body EXCEPT ![c] = r] /\ players' = players + 1 /\ fptr[d] = "menu"
    BY <1>5 DEF EnterGame
  <2>2. r.link = d /\ r.place = "game" /\ c \notin G
    BY <1>1, <1>2, <1>i, <2>1 DEF Body, Placed, Me, InGame
  <2>3. InGame(Descs)' = G \cup {c}
    <3> HIDE DEF r
    <3> QED BY <1>4, <2>1, <2>2
  <2>4. Cardinality(InGame(Descs)') = Cardinality(G) + 1
    BY <1>3, <2>2, <2>3, FS_AddElement
  <2> QED BY <1>3, <2>1, <2>4, BoundAssumption DEF Counted
<1>6. ASSUME NEW r, body' = [body EXCEPT ![c] = r], r.place # "game", body[c].place = "game",
             players' = players - 1
      PROVE  Counted'
  <2>1. c \in G
    BY <1>2, <1>6 DEF InGame
  <2>2. InGame(Descs)' = G \ {c}
    BY <1>4, <1>6
  <2>3. Cardinality(InGame(Descs)') = Cardinality(G) - 1
    BY <1>3, <2>1, <2>2, FS_RemoveElement
  <2> QED BY <1>3, <1>6, <2>3, BoundAssumption DEF Counted
<1>7. CASE Quit(d)
  <2>1. /\ body' = [body EXCEPT ![c] = [body[c] EXCEPT !.place = "void"]]
        /\ players' = players - 1 /\ body[c].place = "game"
    BY <1>7 DEF Quit, Playing, Me
  <2>2. [body[c] EXCEPT !.place = "void"].place = "void"
    BY <1>2 DEF Body
  <2> QED BY <1>6, <2>1, <2>2
<1>8. CASE Purge(d)
  <2>1. /\ body' = [body EXCEPT ![c] = Free] /\ Free.place = "free"
        /\ players' = players - 1 /\ body[c].place = "game"
    BY <1>8 DEF Purge, Playing, Me, Free, Anonymous
  <2> QED BY <1>6, <2>1
<1> QED BY <1>5, <1>7, <1>8

LEMMA StepKeepsCounted == IInv /\ Counted /\ [Next]_vars => Counted'
<1> SUFFICES ASSUME IInv, Counted, [Next]_vars PROVE Counted'
  OBVIOUS
<1>i. Shape /\ Linked /\ Placed
  BY DEF IInv
<1>1. CASE UNCHANGED vars
  BY <1>1, SameGame DEF vars
<1>2. ASSUME NEW d \in Descs, PwdConfirm(d) \/ ExistingPwd(d) PROVE Counted'
  <2>1. d \in Open /\ fptr[d] \in {"pwd_confirm", "existing_pwd"}
    BY <1>2 DEF PwdConfirm, ExistingPwd, Open
  <2>2. CASE UNCHANGED <<body, players>>
    BY <2>2, SameGame
  <2>3. CASE \E u \in Units(body, Me(d).name) : Reconnect(d, u, {})
    <3>1. PICK u \in Units(body, Me(d).name) : Reconnect(d, u, {})
      BY <2>3
    <3>2. u \in Bodies /\ body[u].place = "game" /\ body[u].name = Me(d).name
      BY DEF Units
    <3>3. Cut({}) = body
      BY NothingClosed
    <3>4. body[u].link = None
      <4>1. CASE PwdConfirm(d)
        BY <3>2, <4>1 DEF IInv, EarlyAlone, PwdConfirm, Early, Open, Me
      <4>2. CASE ExistingPwd(d)
        <5>1. Others(d, Me(d).name) = {}
          <6> SUFFICES ASSUME Others(d, Me(d).name) # {} PROVE FALSE
            OBVIOUS
          <6>1. UNCHANGED character /\ fptr' = [fptr EXCEPT ![d] = "throw"]
            BY <4>2 DEF ExistingPwd, Turn
          <6>2. fptr' = [x \in Descs |-> CASE x = d -> "play" [] x \in {} -> "none" [] OTHER -> fptr[x]]
            BY <3>1 DEF Reconnect, Proceed
          <6>3. fptr'[d] = "play" /\ fptr'[d] = "throw"
            BY <1>i, <2>1, <6>1, <6>2 DEF Shape, Open
          <6> QED BY <6>3
        <5>2. body[character[d]].place \notin {"game", "void"}
          BY <1>i, <2>1 DEF Placed, Me
        <5> QED BY <1>i, <3>2, <5>1, <5>2 DEF Linked, Others, Me
      <4> QED BY <1>2, <4>1, <4>2
    <3> QED BY <2>1, <3>1, <3>2, <3>3, <3>4, ReconnectKeepsCounted
  <2> QED BY <1>2, <2>2, <2>3 DEF PwdConfirm, ExistingPwd, Admit, Turn
<1>3. ASSUME NEW d \in Descs, Throw(d) PROVE Counted'
  <2> DEFINE n == Me(d).name
             S == Others(d, n)
             units == Units(Cut(S), n)
  <2>1. d \in Open /\ fptr[d] = "throw" /\ n \in Names /\ S \in SUBSET (Open \ {d}) /\ WithinDrift(S)
    BY <1>3 DEF Throw, Others, Open, IInv, Named, Me
  <2>2. S \in SUBSET Descs
    BY <2>1 DEF Open
  <2>3. \A u \in units : /\ u \in Bodies /\ Cut(S)[u].place = "game"
                         /\ Cut(S)[u].link = None /\ Cut(S)[u].saved
    <3> SUFFICES ASSUME NEW u \in units PROVE Cut(S)[u].link = None /\ Cut(S)[u].saved
      BY DEF Units
    <3>1. u \in Bodies /\ Cut(S)[u].place = "game" /\ Cut(S)[u].name = n /\ body[u] \in Body
      BY <1>i DEF Units, Shape
    <3>2. CASE body[u].link \in S
      <4>1. Free.place = "free"
        BY DEF Free, Anonymous
      <4>2. body[u].saved /\ Cut(S)[u] = [body[u] EXCEPT !.link = None]
        BY <2>2, <3>1, <3>2, <4>1, CutKeeps
      <4> QED BY <3>1, <4>2 DEF Body
    <3>3. CASE body[u].link \notin S
      <4>1. Cut(S)[u] = body[u]
        BY <2>2, <3>1, <3>3, CutKeeps
      <4>2. body[character[d]].place \notin {"game", "void"}
        BY <1>i, <2>1 DEF Placed, Me
      <4>3. body[u].link = None
        BY <1>i, <2>1, <3>1, <3>3, <4>1, <4>2 DEF Linked, Others, Me
      <4> QED BY <3>1, <4>1, <4>3 DEF IInv, GuestLinked
    <3> QED BY <3>2, <3>3
  <2>4. CASE \E u \in units : Cut(S)[u].saved
    <3>1. PICK u \in units : Reconnect(d, u, S)
      BY <1>3, <2>4 DEF Throw
    <3> QED BY <2>1, <2>3, <3>1, ReconnectKeepsCounted
  <2>5. CASE ~\E u \in units : Cut(S)[u].saved
    <3>1. units = {}
      BY <2>3, <2>5
    <3>2. body' = [b \in Bodies |-> IF b \in units THEN Free ELSE Cut(S)[b]] /\ players' = Disconnected(S)
      BY <1>3, <2>5 DEF Throw
    <3>3. body' = Cut(S)
      BY <2>2, <3>1, <3>2, CutKeeps
    <3> QED BY <2>1, <2>2, <3>2, <3>3, ClosingKeepsCounted
  <2> QED BY <2>4, <2>5
<1>4. ASSUME NEW d \in Descs, CloseLink(d) PROVE Counted'
  BY <1>4, ClosingKeepsCounted DEF CloseLink
<1>5. ASSUME NEW b \in Bodies, LinkDeadLeaves(b) PROVE Counted'
  <2>1. body[b].link = None /\ body' = [body EXCEPT ![b] = Free] /\ players' = players /\ Free.link = None
    BY <1>5 DEF LinkDeadLeaves, Free, Anonymous
  <2>2. \A x \in Bodies : body'[x] = IF x = b THEN Free ELSE body[x]
    BY <1>i, <2>1 DEF Shape
  <2> QED BY <2>1, <2>2, SameGame, NoneAssumption
<1>6. ASSUME NEW n \in Names, DeletePlayer(n) PROVE Counted'
  BY <1>6, SameGame DEF DeletePlayer
<1>7. CASE ClearDestructed
  <2>1. /\ body' = [b \in Bodies |-> IF body[b].place = "void" THEN [body[b] EXCEPT !.place = "menu"]
                                     ELSE body[b]]
        /\ players' = players
    BY <1>7 DEF ClearDestructed
  <2>2. \A r \in Body : [r EXCEPT !.place = "menu"].place = "menu"
    BY DEF Body
  <2> QED BY <1>i, <2>1, <2>2, SameGame DEF Shape
<1>8. ASSUME NEW d \in Descs, Login(d) PROVE Counted'
  BY <1>2, <1>3, <1>8, QuietSteps DEF Login
<1>9. ASSUME NEW d \in Descs, Menu(d) PROVE Counted'
  BY <1>9, QuietSteps, ComingAndGoing DEF Menu
<1>10. ASSUME NEW d \in Descs, Play(d) PROVE Counted'
  BY <1>4, <1>10, QuietSteps, ComingAndGoing DEF Play, DoSave, Autosave
<1> QED BY <1>1, <1>5, <1>6, <1>7, <1>8, <1>9, <1>10 DEF Next

(* no_players never says more than there are in the game with a            *)
(* descriptor.                                                             *)
THEOREM NeverOverstated == Spec => []Counted
<1>1. Init => Counted
  <2> SUFFICES ASSUME Init PROVE Counted
    OBVIOUS
  <2>1. InGame(Descs) = {}
    BY DEF Init, InGame, Free, Anonymous
  <2>2. Cardinality(InGame(Descs)) = 0
    BY <2>1, FS_EmptySet
  <2> QED BY <2>2, BoundAssumption DEF Init, Counted
<1>2. IInv /\ Counted /\ [Next]_vars => Counted'
  BY StepKeepsCounted
<1> QED BY <1>1, <1>2, Inductive, PTL DEF Spec

(* Every variable has its type; no_players lies between -MaxDrift and the  *)
(* number of descriptors.                                                  *)
THEOREM TypeCorrect == Spec => []TypeOK
<1>1. IInv /\ Counted => TypeOK
  <2> SUFFICES ASSUME IInv, Counted PROVE TypeOK
    OBVIOUS
  <2>1. Cardinality(InGame(Descs)) \in Nat /\ Cardinality(InGame(Descs)) <= Cardinality(Descs)
    BY InGameFinite
  <2>2. Cardinality(Descs) \in Nat
    BY DescsAssumption, FS_CardinalityType
  <2>3. players \in -MaxDrift..Cardinality(Descs)
    BY <2>1, <2>2, BoundAssumption DEF Counted
  <2> QED BY <2>3 DEF IInv, Shape, TypeOK
<1> QED BY <1>1, Inductive, NeverOverstated, PTL
=============================================================================
