------------------------------- MODULE Mplex -------------------------------
(***************************************************************************)
(* The multiplexer and the server: Mplex/mplex.c, and cMotherHook,         *)
(* cMultiHook and descriptor_close of system.c with the part of game_event *)
(* that drives them.                                                       *)
(*                                                                         *)
(* The multiplexer holds the players' connections (consoles) and asks for  *)
(* a session over one link.  A request names nobody: the server answers    *)
(* with the id of a new descriptor, and the first console that waits takes *)
(* it.  Either end may lose the link at any time and notices when it reads *)
(* or writes; what was under way is gone.  The multiplexer forgets the ids *)
(* of a lost link only if it was a read that failed: after a failed write  *)
(* the consoles go on with them on the next link, where they are nobody's  *)
(* or somebody else's, and the server may stop at an assertion over it.    *)
(*                                                                         *)
(* Abstracted: text, host and setup messages (any `data'); text for the    *)
(* consoles, which changes nothing here; the order of connection_list (any *)
(* waiting console may be the first); the paging of text.  Ids below 2^16. *)
(***************************************************************************)
EXTENDS Integers, Sequences, FiniteSets, SequencesExt

CONSTANTS
  Consoles,   \* memory for cConHook
  Links,      \* connections between the two programs that may be open at once
  Slots,      \* Multi.Multi[]
  None,       \* not hooked, no descriptor
  MaxErrors,  \* the unknown ids in a row that cMultiHook::Read puts up with
  MaxIds,     \* bound: descriptors since the server started
  MaxQueue,   \* bound: messages under way in one direction
  MaxCrashes, \* bound: restarts of either program and failures of the network
  MaxLeft     \* bound: links at a time that were opened with ids of earlier ones

ASSUME FiniteAssumption == IsFiniteSet(Consoles)
ASSUME NoneAssumption   == None \notin Links \cup Slots \cup [slot : Slots, link : Links]
ASSUME BoundAssumption  == {MaxErrors, MaxIds, MaxQueue, MaxCrashes, MaxLeft} \subseteq Nat

VARIABLES
  con,        \* the consoles: m_pFptr ("none": there is no such), m_nId, hooked or not
  mud,        \* the link of MudHook
  left,       \* history: the ids consoles still had from earlier links when they got
              \* this one, or (None) since a write failed and they have none
  ends,       \* which programs have a link open, the system's backlog included
  up, down,   \* what is under way to the server, and to the multiplexer
  backlog,    \* links MotherHook has not accepted
  multi,      \* the link of each slot
  succ_err,   \* of each slot
  desc,       \* descriptor_list by id: the slot d->multi, history: the link it came on
  nid,        \* ids given so far
  phase,      \* game_event: "read" (Wait), "commands"; "events" until the next
  crashes     \* history: restarts and failures of the network

mplex  == <<con, mud, left>>
server == <<backlog, multi, succ_err, desc, nid, phase>>
wires  == <<ends, up, down>>
vars   == <<mplex, wires, server, crashes>>

-----------------------------------------------------------------------------
Ids      == 1..MaxIds
Messages == [kind : {"request"}, id : {0}] \cup [kind : {"confirm", "terminate", "data"}, id : Ids]
Msg(k, i) == [kind |-> k, id |-> i]
Console  == [fptr : {"none", "MenuSelect", "PlayLoop", "MudDown", "Idle"},
             id : 0..MaxIds, hooked : BOOLEAN]
NoConsole == [fptr |-> "none", id |-> 0, hooked |-> FALSE]
Closed    == [fptr |-> "Idle", id |-> 0, hooked |-> FALSE]

Connected == { c \in Consoles : con[c].fptr # "none" }
Waiting   == { c \in Consoles : con[c].fptr = "PlayLoop" /\ con[c].id = 0 }
OnSlot(s) == { i \in Ids : desc[i] # None /\ desc[i].slot = s }

(* What is written to a link that the other end has closed is lost; the    *)
(* rest arrives in order.                                                  *)
Written(queue, l, reader, ms) ==
  IF l = None THEN queue
  ELSE IF reader \notin ends[l] THEN queue
  ELSE [queue EXCEPT ![l] = @ \o ms]
Room(queue, l, n) == l # None => Len(queue[l]) + n <= MaxQueue

(* One end closes the link; once both have, it may serve as another. *)
Hung(l, end) ==
  /\ ends' = [ends EXCEPT ![l] = @ \ {end}]
  /\ up'   = IF end = "server" \/ ends[l] = {end} THEN [up EXCEPT ![l] = << >>] ELSE up
  /\ down' = IF end = "mplex" \/ ends[l] = {end} THEN [down EXCEPT ![l] = << >>] ELSE down

-----------------------------------------------------------------------------
(* The multiplexer.                                                        *)

(* A message to the server. *)
ToServer(ms) == /\ Room(up, mud, Len(ms))
                /\ up' = Written(up, mud, "server", ms)
                /\ UNCHANGED <<ends, down, mud, left, server, crashes>>

(* MotherHook.Input: a player connects, and MenuSelect runs at once. *)
Arrive(c) ==
  /\ con[c].fptr = "none"
  /\ con' = [con EXCEPT ![c] = [fptr |-> IF mud = None THEN "MudDown" ELSE "PlayLoop",
                                id |-> 0, hooked |-> TRUE]]
  /\ ToServer(<<Msg("request", 0)>>)

(* A line is typed: after 100 of them without an id the console may ask    *)
(* again ...                                                               *)
GiveUp(c) ==
  /\ con[c].hooked /\ c \in Waiting
  /\ con' = [con EXCEPT ![c].fptr = "MenuSelect"]
  /\ UNCHANGED <<mud, left, wires, server, crashes>>

MenuSelect(c) ==
  /\ con[c].hooked /\ con[c].fptr = "MenuSelect"
  /\ con' = [con EXCEPT ![c].fptr = IF mud = None THEN "MudDown" ELSE "PlayLoop"]
  /\ ToServer(<<Msg("request", 0)>>)

(* ... with an id the line is transmitted. *)
Transmit(c) ==
  /\ con[c].hooked /\ con[c].fptr = "PlayLoop" /\ con[c].id # 0
  /\ mud # None
  /\ ToServer(<<Msg("data", con[c].id)>>)
  /\ UNCHANGED con

(* cConHook::Close(TRUE). *)
FarewellAlways(c) == <<Msg("terminate", con[c].id)>>    \* mutant: m_nId != 0 not asked
Farewell(c) == IF con[c].id = 0 THEN << >> ELSE <<Msg("terminate", con[c].id)>>
Leave(c) ==
  /\ con[c].hooked
  /\ con' = [con EXCEPT ![c] = Closed]
  /\ ToServer(Farewell(c))

(* Writing to the player fails: only the hook goes, for the time being.    *)
Lost(c) ==
  /\ con[c].hooked
  /\ con' = [con EXCEPT ![c].hooked = FALSE]
  /\ UNCHANGED <<mud, left, wires, server, crashes>>

(* ClearUnhooked closes and deletes them. *)
Unhooked  == { c \in Connected : ~con[c].hooked }
Farewells == SetToSeqs({ Farewell(c)[1] : c \in { x \in Unhooked : Farewell(x) # << >> } })
ClearUnhooked ==
  /\ mud # None
  /\ Unhooked # {}
  /\ con' = [c \in Consoles |-> IF c \in Unhooked THEN NoConsole ELSE con[c]]
  /\ \E ms \in Farewells : ToServer(ms)

(* test_mud_up opens a link and runs MenuSelect for every console; then    *)
(* ClearUnhooked, to which the ids of an earlier link are still ids.       *)
AskingAgain == Waiting    \* mutant: only those who waited already
Asking == Connected
TestMudUp(l) ==
  /\ mud = None
  /\ ends[l] = {} /\ \A i \in Ids : desc[i] # None => desc[i].link # l
  /\ mud' = l
  /\ left' = [left EXCEPT ![l] = left[None], ![None] = {}]
  /\ ends' = [ends EXCEPT ![l] = {"mplex", "server"}]
  /\ backlog' = Append(backlog, l)
  /\ con' = [c \in Consoles |->
               IF c \in Unhooked THEN NoConsole
               ELSE IF c \in Connected THEN [con[c] EXCEPT !.fptr = "PlayLoop"]
               ELSE con[c]]
  /\ \E ms \in Farewells :
       up' = [up EXCEPT ![l] = [k \in 1..Cardinality(Asking) |-> Msg("request", 0)] \o ms]
  /\ Len(up'[l]) <= MaxQueue
  /\ UNCHANGED <<down, multi, succ_err, desc, nid, phase, crashes>>

(* The server is not there. *)
TestMudDown ==
  /\ mud = None
  /\ Unhooked # {}
  /\ con' = [c \in Consoles |-> IF c \in Unhooked THEN NoConsole ELSE con[c]]
  /\ UNCHANGED <<mud, left, wires, server, crashes>>

(* read_mud. *)
Arriving(l) == Head(down[l])
Read(l)  == down' = [down EXCEPT ![l] = Tail(@)]

(* A new id, for a console that waits; its host is sent back. *)
Confirm ==
  /\ mud # None /\ down[mud] # << >>
  /\ Arriving(mud).kind = "confirm"
  /\ Read(mud)
  /\ Room(up, mud, 1)
  /\ IF Waiting = {}
     THEN /\ up' = Written(up, mud, "server", <<Msg("terminate", Arriving(mud).id)>>)
          /\ UNCHANGED con
     ELSE /\ \E c \in Waiting : con' = [con EXCEPT ![c].id = Arriving(mud).id]
          /\ up' = Written(up, mud, "server", <<Msg("data", Arriving(mud).id)>>)
  /\ UNCHANGED <<mud, left, ends, server, crashes>>

(* The server closed a session: Close(FALSE). *)
Terminate ==
  /\ mud # None /\ down[mud] # << >>
  /\ Arriving(mud).kind = "terminate"
  /\ Read(mud)
  /\ LET mine == { c \in Connected : con[c].id = Arriving(mud).id }
     IN  IF mine = {} THEN UNCHANGED con
         ELSE \E c \in mine : con' = [con EXCEPT ![c] = Closed]
  /\ UNCHANGED <<mud, left, ends, up, server, crashes>>

(* The other end is closed, or the network has failed: the end that reads  *)
(* the error hangs up, and nothing unread is looked at.                    *)
Broken(l, other) ==
  \/ other \notin ends[l] /\ UNCHANGED crashes
  \/ other \in ends[l] /\ crashes < MaxCrashes /\ crashes' = crashes + 1

(* mud_went_down.                                                          *)
DownOnly(c) == [con[c] EXCEPT !.fptr = "MudDown"]    \* mutant: the id is kept
Down(c) == [con[c] EXCEPT !.fptr = "MudDown", !.id = 0]
MudWentDown ==
  /\ mud # None /\ Broken(mud, "server")
  /\ mud' = None
  /\ Hung(mud, "mplex")
  /\ con' = [c \in Consoles |-> IF c \in Connected THEN Down(c) ELSE con[c]]
  /\ UNCHANGED <<left, server>>

(* The loss is noticed by a write instead, of a request (from a new player *)
(* or an old one), of a line or of a farewell: MudHook is unhooked, and    *)
(* mud_went_down is not called.                                            *)
Kept == { con[c].id : c \in Consoles } \ {0}
MudWriteFails(c) ==
  /\ mud # None /\ Broken(mud, "server")
  /\ Cardinality({ l \in Links : left[l] # {} }) < MaxLeft
  /\ \/ /\ con[c].fptr = "none"
        /\ con' = [con EXCEPT ![c] = [fptr |-> "MenuSelect", id |-> 0, hooked |-> TRUE]]
     \/ /\ con[c].hooked
        /\ con[c].fptr = "MenuSelect" \/ con[c].id # 0
        /\ UNCHANGED con
     \/ /\ con[c].id # 0
        /\ con' = [con EXCEPT ![c] = Closed]
  /\ mud' = None
  /\ Hung(mud, "mplex")
  /\ left' = [left EXCEPT ![None] = Kept']
  /\ UNCHANGED server

(* The multiplexer is started anew. *)
MplexCrash ==
  /\ crashes < MaxCrashes
  /\ crashes' = crashes + 1
  /\ con' = [c \in Consoles |-> NoConsole]
  /\ mud' = None
  /\ left' = [left EXCEPT ![None] = {}]
  /\ IF mud = None THEN UNCHANGED wires ELSE Hung(mud, "mplex")
  /\ UNCHANGED server

-----------------------------------------------------------------------------
(* The server.  Wait: MotherHook comes first in its table.                 *)

Silent == UNCHANGED <<mplex, crashes>>

(* The first free slot; without one the link is closed again. *)
FreeSlots == { s \in Slots : multi[s] = None }
Accept ==
  /\ phase = "events"
  /\ backlog # << >>
  /\ backlog' = Tail(backlog)
  /\ phase' = "read"
  /\ IF FreeSlots = {}
     THEN Hung(Head(backlog), "server") /\ UNCHANGED multi
     ELSE /\ \E s \in FreeSlots : multi' = [multi EXCEPT ![s] = Head(backlog)]
          /\ UNCHANGED wires
  /\ UNCHANGED <<succ_err, desc, nid>> /\ Silent

NoAccept ==
  /\ phase = "events"
  /\ phase' = "read"
  /\ UNCHANGED <<backlog, multi, succ_err, desc, nid, wires>> /\ Silent

Reading(s) == /\ phase = "read"
              /\ multi[s] # None
              /\ up[multi[s]] # << >>
Received(s) == up' = [up EXCEPT ![multi[s]] = Tail(@)]

(* cMultiHook::Read: a request makes a descriptor. *)
Request(s) ==
  LET l == multi[s]
  IN  /\ Reading(s) /\ Head(up[l]).kind = "request"
      /\ nid < MaxIds
      /\ Room(down, l, 1)
      /\ Received(s)
      /\ nid' = nid + 1
      /\ desc' = [desc EXCEPT ![nid + 1] = [slot |-> s, link |-> l]]
      /\ down' = Written(down, l, "mplex", <<Msg("confirm", nid + 1)>>)
      /\ UNCHANGED <<ends, backlog, multi, succ_err, phase>> /\ Silent

(* ... a known id gets its text, or is closed without an answer. *)
Known(s) ==
  LET m == Head(up[multi[s]])
  IN  /\ Reading(s)
      /\ m.id # 0 /\ desc[m.id] # None
      /\ desc[m.id].slot = s
      /\ Received(s)
      /\ succ_err' = [succ_err EXCEPT ![s] = 0]
      /\ desc' = IF m.kind = "terminate" THEN [desc EXCEPT ![m.id] = None] ELSE desc
      /\ UNCHANGED <<ends, down, backlog, multi, nid, phase>> /\ Silent

(* cMultiHook::Close and Unhook. *)
Unhook(s) == /\ multi' = [multi EXCEPT ![s] = None]
             /\ Hung(multi[s], "server")

(* ... an unknown one is ignored, but not too many in a row. *)
Unknown(s) ==
  LET m == Head(up[multi[s]])
  IN  /\ Reading(s)
      /\ m.id # 0 /\ desc[m.id] = None
      /\ IF succ_err[s] > MaxErrors
         THEN Unhook(s) /\ UNCHANGED succ_err
         ELSE /\ Received(s)
              /\ succ_err' = [succ_err EXCEPT ![s] = @ + 1]
              /\ UNCHANGED <<ends, down, multi>>
      /\ UNCHANGED <<backlog, desc, nid, phase>> /\ Silent

(* The end of the stream. *)
EndOfStream(s) ==
  /\ phase = "read"
  /\ multi[s] # None /\ Broken(multi[s], "mplex")
  /\ Unhook(s)
  /\ UNCHANGED <<mplex, backlog, succ_err, desc, nid, phase>>

EndWait ==
  /\ phase = "read"
  /\ phase' = "commands"
  /\ UNCHANGED <<backlog, multi, succ_err, desc, nid, wires>> /\ Silent

(* descriptor_close by a command or an event: the console is told. *)
NoNotice(i) == << >>    \* mutant: the console is not told
Notice(i) == <<Msg("terminate", i)>>
CloseSession(i) ==
  /\ phase \in {"commands", "events"}
  /\ desc[i] # None
  /\ Room(down, multi[desc[i].slot], 1)
  /\ desc' = [desc EXCEPT ![i] = None]
  /\ down' = Written(down, multi[desc[i].slot], "mplex", Notice(i))
  /\ UNCHANGED <<ends, up, backlog, multi, succ_err, nid, phase>> /\ Silent

(* PushWrite fails when something is sent to a session: only Unhook. *)
WriteFails(s) ==
  /\ phase \in {"commands", "events"}
  /\ multi[s] # None /\ OnSlot(s) # {}
  /\ Unhook(s)
  /\ UNCHANGED <<backlog, succ_err, desc, nid, phase>> /\ Silent

(* multi_clear, at the end of game_event. *)
Cleared   == [i \in Ids |-> IF desc[i] = None THEN None
                            ELSE IF multi[desc[i].slot] = None THEN None ELSE desc[i]]
MultiClear ==
  /\ phase = "commands"
  /\ phase' = "events"
  /\ desc' = Cleared
  /\ UNCHANGED <<backlog, multi, succ_err, nid, wires>> /\ Silent

(* The server goes down and is started again. *)
Restarted ==
  /\ multi' = [s \in Slots |-> None]
  /\ succ_err' = [s \in Slots |-> 0]
  /\ desc' = [i \in Ids |-> None]
  /\ nid' = 0
  /\ backlog' = << >>
  /\ phase' = "events"
  /\ ends' = [l \in Links |-> ends[l] \ {"server"}]
  /\ up' = [l \in Links |-> << >>]
  /\ down' = [l \in Links |-> IF ends[l] = {"server"} THEN << >> ELSE down[l]]
  /\ UNCHANGED mplex

ServerCrash ==
  /\ crashes < MaxCrashes
  /\ crashes' = crashes + 1
  /\ Restarted

(* cMultiHook::Read: a known id is used on a link that is not its own, and *)
(* the assertion brings the server down.                                   *)
AssertFails(s) ==
  LET m == Head(up[multi[s]])
  IN  /\ Reading(s)
      /\ m.id # 0 /\ desc[m.id] # None
      /\ desc[m.id].slot # s
      /\ Restarted
      /\ UNCHANGED crashes

-----------------------------------------------------------------------------
Init ==
  /\ con = [c \in Consoles |-> NoConsole]
  /\ mud = None
  /\ left = [l \in Links \cup {None} |-> {}]
  /\ ends = [l \in Links |-> {}]
  /\ up = [l \in Links |-> << >>] /\ down = [l \in Links |-> << >>]
  /\ backlog = << >>
  /\ multi = [s \in Slots |-> None] /\ succ_err = [s \in Slots |-> 0]
  /\ desc = [i \in Ids |-> None] /\ nid = 0
  /\ phase = "events"
  /\ crashes = 0

Multiplexer ==
  \/ \E c \in Consoles : \/ Arrive(c) \/ GiveUp(c) \/ MenuSelect(c) \/ Transmit(c)
                         \/ Leave(c) \/ Lost(c) \/ MudWriteFails(c)
  \/ ClearUnhooked \/ TestMudDown \/ \E l \in Links : TestMudUp(l)
  \/ Confirm \/ Terminate \/ MudWentDown \/ MplexCrash

Server ==
  \/ Accept \/ NoAccept \/ EndWait \/ MultiClear \/ ServerCrash
  \/ \E s \in Slots : \/ Request(s) \/ Known(s) \/ Unknown(s) \/ AssertFails(s)
                      \/ EndOfStream(s) \/ WriteFails(s)
  \/ \E i \in Ids : CloseSession(i)

Next == Multiplexer \/ Server

Spec == Init /\ [][Next]_vars

-----------------------------------------------------------------------------
(* Properties.                                                             *)

(* The shape of the state; a message that needs an id has one, or else     *)
(* protocol_parse_incoming calls it a protocol error.                      *)
TypeOK ==
  /\ con \in [Consoles -> Console]
  /\ mud \in Links \cup {None}
  /\ left \in [Links \cup {None} -> SUBSET Ids]
  /\ ends \in [Links -> SUBSET {"mplex", "server"}]
  /\ \A l \in Links : Range(up[l]) \cup Range(down[l]) \subseteq Messages
  /\ Range(backlog) \subseteq Links
  /\ multi \in [Slots -> Links \cup {None}]
  /\ succ_err \in [Slots -> 0..(MaxErrors + 1)]
  /\ desc \in [Ids -> [slot : Slots, link : Links] \cup {None}]
  /\ nid \in 0..MaxIds
  /\ phase \in {"read", "commands", "events"}
  /\ crashes \in 0..MaxCrashes

(* A line a player types and the text he reads belong to one session: no   *)
(* two consoles have the same id, whoever restarted in between, unless one *)
(* of them kept it over a failed write.                                    *)
OneConsolePerId ==
  \A c, d \in Consoles :
    con[c].id = con[d].id /\ con[c].id \notin left[mud] \cup {0} => c = d

(* No player is left talking to nobody: a console with an id of its link   *)
(* has its session, or is about to be told, or to see that the link is     *)
(* gone; and no session is left that nobody can type to: on an intact link *)
(* it has a console, or its confirmation or its end is under way.          *)
Matched ==
  /\ \A c \in Consoles :
       mud # None /\ con[c].id \notin left[mud] \cup {0} =>
         \/ "server" \notin ends[mud]
         \/ desc[con[c].id] # None /\ desc[con[c].id].link = mud
         \/ Msg("terminate", con[c].id) \in Range(down[mud])
  /\ \A i \in Ids :
       desc[i] # None =>
         LET l == desc[i].link IN
         multi[desc[i].slot] = l /\ "mplex" \in ends[l] =>
           \/ mud = l /\ \E c \in Consoles : con[c].id = i
           \/ Msg("confirm", i) \in Range(down[l])
           \/ Msg("terminate", i) \in Range(up[l])

(* No player waits for an answer that does not come: as confirmations name *)
(* nobody, there must be one under way for each console that waits.        *)
Under(queue, k) == Cardinality({ j \in DOMAIN queue : queue[j].kind = k })
WaitingIsAnswered ==
  mud # None /\ "server" \in ends[mud] =>
    Cardinality(Waiting) <= Under(up[mud], "request") + Under(down[mud], "confirm")

(* Whoever uses an id of a descriptor uses the link the descriptor is on,  *)
(* unless he got the link with ids kept over a failed write.               *)
OffItsLink(s) == { i \in Ids : /\ Reading(s) /\ Head(up[multi[s]]).id = i
                              /\ desc[i] # None /\ desc[i].slot # s }
SessionOnItsLink == \A s \in Slots : OffItsLink(s) \subseteq left[multi[s]]

(* An id is one session's whoever uses it, console or message, and however *)
(* often either program has given its ids anew: a failed write is the only *)
(* way to the contrary.                                                    *)
IdsAreSessions == OneConsolePerId /\ SessionOnItsLink

(* What cMultiHook::Read asserts, failed writes or not.                    *)
AssertionHolds == \A s \in Slots : OffItsLink(s) = {}
=============================================================================
