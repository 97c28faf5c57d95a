------------------------------- MODULE Hooks -------------------------------
(***************************************************************************)
(* The sockets of the server: cHook and cCaptainHook of select.c, cQueue   *)
(* of queue.c, the reading of frames in protocol.c, and the Input of       *)
(* cMotherHook and cMultiHook in system.c.                                 *)
(*                                                                         *)
(* Wait copies its table of descriptors, asks the system which are ready   *)
(* and walks over the copy.  What it calls on the way may unhook any       *)
(* descriptor and hook a new connection, so each is compared with the copy *)
(* by its hook and id before it is served.                                 *)
(*                                                                         *)
(* The system may take any part of what is written, and give any part of   *)
(* what the other end sent.  A byte is <<c, j, k>>: the k-th of the j-th   *)
(* message of connection c.                                                *)
(***************************************************************************)
EXTENDS Integers, Sequences, FiniteSets, SequencesExt

CONSTANTS
  MaxMulti,   \* MAX_MULTI
  Buf,        \* the buffers of PushWrite and read_to_queue, 1460 bytes
  Header,     \* of a frame, 6 bytes
  MaxConns,   \* bound: connections since the start
  Body        \* bound: the messages each carries either way, by the length of their text

ASSUME BoundAssumption == MaxMulti \in Nat /\ MaxConns \in Nat
ASSUME SizeAssumption  == Buf \in Nat \ {0} /\ Header \in Nat \ {0}
ASSUME BodyAssumption  == Body \in [1..MaxConns -> Seq(Nat)]

VARIABLES
  pfHook,     \* the hook of each descriptor
  fd, id,     \* of each hook
  nIdx, nMax, \* the descriptors that are hooked (nIdx[0..nTop-1]), the greatest
  newid,      \* of cCaptainHook::Hook
  qTX, qRX,   \* of each hook, a queue of elements, which are not empty
  at,         \* "out" of Wait, or in it: "input", "flush", "next"
  wait,       \* what Wait holds while it is running
  busy,       \* the hook that PushWrite writes for
  inn, hung,  \* of a connection: bytes on their way in; the other end is gone
  backlog,    \* connections the listening socket has not given
  said, told, \* history of what is up: messages written, messages sent to us,
  got, heard  \* bytes the system has taken, frames given to the handler

table   == <<pfHook, fd, id, nIdx, nMax, newid>>
queues  == <<qTX, qRX>>
system  == <<inn, hung, backlog>>
history == <<said, told, got, heard>>
vars    == <<table, queues, at, wait, busy, system, history>>

-----------------------------------------------------------------------------
None   == -1
Mother == 0
Multi  == 1..MaxMulti
AllHooks == {Mother} \cup Multi
Hooked(h) == fd[h] # None
Fds    == 1..MaxMulti + 1
Conns  == 1..MaxConns

Frame(c, j) == [k \in 1..Header + Body[c][j] |-> <<c, j, k>>]
Frames      == [c \in Conns |-> { Frame(c, j) : j \in DOMAIN Body[c] }]
Bytes       == UNION { Range(f) : f \in UNION Range(Frames) }

(* cQueue: Copy and Cut take the first n bytes, from as many elements. *)
Flat(q)    == FlattenSeq(q)
Copy(q, n) == SubSeq(Flat(q), 1, n)
Cut(q, n)  ==
  FoldLeft(LAMBDA a, e : IF a.left >= Len(e) THEN [a EXCEPT !.left = @ - Len(e)]
                         ELSE [left |-> 0, q |-> Append(a.q, SubSeq(e, a.left + 1, Len(e)))],
           [left |-> n, q |-> << >>], q).q

Smaller(m, n) == IF m < n THEN m ELSE n
Most(S) == CHOOSE x \in S \cup {0} : \A y \in S : x >= y

(* What is read comes in elements of at most a buffer. *)
Elements(s) ==
  [i \in 1..(Len(s) + Buf - 1) \div Buf |->
     SubSeq(s, (i - 1) * Buf + 1, Smaller(i * Buf, Len(s)))]

NoWait == [nTable |-> << >>, nId |-> << >>, read |-> {}, write |-> {}, i |-> 0, hook |-> None]

Init ==
  /\ pfHook = [f \in Fds |-> IF f = 1 THEN Mother ELSE None]
  /\ fd = [h \in AllHooks |-> IF h = Mother THEN 1 ELSE None]
  /\ id = [h \in AllHooks |-> IF h = Mother THEN 0 ELSE None]
  /\ nIdx = <<1>> /\ nMax = 1
  /\ newid = 1
  /\ qTX = [h \in AllHooks |-> << >>]
  /\ qRX = [h \in AllHooks |-> << >>]
  /\ at = "out" /\ wait = NoWait /\ busy = None
  /\ inn = [c \in Conns |-> << >>]
  /\ hung = [c \in Conns |-> FALSE]
  /\ backlog = 0
  /\ said = [c \in Conns |-> 0]
  /\ told = [c \in Conns |-> 0]
  /\ got = [c \in Conns |-> << >>]
  /\ heard = [c \in Conns |-> << >>]

-----------------------------------------------------------------------------
HookOnly(f, h) ==    \* mutant: the queues are not flushed
  /\ pfHook' = [pfHook EXCEPT ![f] = h]
  /\ fd' = [fd EXCEPT ![h] = f]
  /\ id' = [id EXCEPT ![h] = newid]
  /\ newid' = newid + 1
  /\ nIdx' = Append(nIdx, f)
  /\ nMax' = IF f > nMax THEN f ELSE nMax
  /\ UNCHANGED <<qTX, qRX>>

(* cCaptainHook::Hook; it takes the place of the hook's former connection. *)
Hook(f, h) ==
  /\ pfHook' = [pfHook EXCEPT ![f] = h]
  /\ fd' = [fd EXCEPT ![h] = f]
  /\ id' = [id EXCEPT ![h] = newid]
  /\ newid' = newid + 1
  /\ qTX' = [qTX EXCEPT ![h] = << >>]
  /\ qRX' = [qRX EXCEPT ![h] = << >>]
  /\ nIdx' = Append(nIdx, f)
  /\ nMax' = IF f > nMax THEN f ELSE nMax

LastDropped(f) == SubSeq(nIdx, 1, Len(nIdx) - 1)    \* mutant: the last one does not move
(* nIdx without f: the last one takes its place. *)
Filled(f) ==
  LET i == CHOOSE i \in DOMAIN nIdx : nIdx[i] = f
      n == Len(nIdx)
  IN  SubSeq([nIdx EXCEPT ![i] = nIdx[n]], 1, n - 1)

(* cHook::Unhook: the system forgets what it had for the connection. The   *)
(* queues stay as they are until the hook is used again.                   *)
Unhook(h) ==
  /\ pfHook' = [pfHook EXCEPT ![fd[h]] = None]
  /\ fd' = [fd EXCEPT ![h] = None]
  /\ id' = [id EXCEPT ![h] = None]
  /\ nIdx' = Filled(fd[h])
  /\ nMax' = Most(Range(nIdx'))
  /\ inn' = [inn EXCEPT ![id[h]] = << >>]
  /\ said' = [said EXCEPT ![id[h]] = 0]
  /\ told' = [told EXCEPT ![id[h]] = 0]
  /\ got' = [got EXCEPT ![id[h]] = << >>]
  /\ heard' = [heard EXCEPT ![id[h]] = << >>]
  /\ hung' = [hung EXCEPT ![id[h]] = TRUE]
  /\ UNCHANGED <<newid, backlog>>

(* cMultiHook::Close, by multi_close_all or while Read handles a message. *)
Close(h) ==
  /\ Hooked(h) /\ busy = None
  /\ at = "out" \/ (at = "input" /\ wait.hook = h)
  /\ Unhook(h)
  /\ UNCHANGED <<queues, at, wait, busy>>

-----------------------------------------------------------------------------
(* cHook::Write of the next message, then PushWrite. *)
Write(h) ==
  /\ busy = None
  /\ at = "out" \/ (at = "input" /\ wait.hook # Mother)
  /\ Hooked(h)
  /\ LET c == id[h]
         j == said[c] + 1
     IN  /\ j \in DOMAIN Body[c]
         /\ said' = [said EXCEPT ![c] = j]
         /\ qTX' = [qTX EXCEPT ![h] = Append(@, Frame(c, j))]
  /\ busy' = h
  /\ UNCHANGED <<table, qRX, at, wait, system, told, got, heard>>

(* A round of PushWrite: what the system does not take goes back in front. *)
Round == Copy(qTX[busy], Smaller(Buf, Len(Flat(qTX[busy]))))
PushedBack(n) ==    \* mutant: behind what was written since
  LET rest == SubSeq(Round, n + 1, Len(Round))
  IN  Cut(qTX[busy], Len(Round)) \o IF rest = << >> THEN << >> ELSE << rest >>
PushedAlways(n) ==    \* mutant: an empty element when the system takes all
  << SubSeq(Round, n + 1, Len(Round)) >> \o Cut(qTX[busy], Len(Round))
Pushed(n) ==
  LET q    == Cut(qTX[busy], Len(Round))
      rest == SubSeq(Round, n + 1, Len(Round))
  IN  IF rest = << >> THEN q ELSE << rest >> \o q

PushRound ==
  /\ busy # None
  /\ \E n \in 0..Len(Round) :
       /\ qTX' = [qTX EXCEPT ![busy] = Pushed(n)]
       /\ got' = [got EXCEPT ![id[busy]] = @ \o SubSeq(Round, 1, n)]
       /\ busy' = IF n < Len(Round) \/ qTX'[busy] = << >> THEN None ELSE busy
  /\ UNCHANGED <<table, qRX, at, wait, system, said, told, heard>>

TakesAll == PushRound /\ Len(got'[id[busy]]) = Len(got[id[busy]]) + Len(Round)

PushError ==
  /\ busy # None
  /\ hung[id[busy]]
  /\ qTX' = [qTX EXCEPT ![busy] = Cut(@, Len(Round))]
  /\ Unhook(busy)
  /\ busy' = None
  /\ UNCHANGED <<qRX, at, wait>>

-----------------------------------------------------------------------------
(* cCaptainHook::Wait.                                                     *)
Readable == { f \in Fds : /\ pfHook[f] # None
                          /\ \/ pfHook[f] = Mother /\ backlog > 0
                             \/ pfHook[f] # Mother /\ \/ inn[id[pfHook[f]]] # << >>
                                                      \/ hung[id[pfHook[f]]] }
Idle     == { f \in Fds : pfHook[f] # None /\ qTX[pfHook[f]] = << >> }    \* mutant: the wrong ones
Pending  == { f \in Fds : pfHook[f] # None /\ qTX[pfHook[f]] # << >> }

(* The copy; select looks at the descriptors up to nMax.                   *)
Select(r, w) ==
  /\ at = "out" /\ busy = None
  /\ r \cup w # {} /\ \A f \in r \cup w : f <= nMax
  /\ wait' = [nTable |-> nIdx, nId |-> [i \in DOMAIN nIdx |-> id[pfHook[nIdx[i]]]],
              read |-> r, write |-> w, i |-> 0, hook |-> None]
  /\ at' = "next"
  /\ UNCHANGED <<table, queues, busy, system, history>>

(* The hook is where it was, and serves the connection of the copy. *)
Same(h, i) ==
  /\ h # None
  /\ pfHook[wait.nTable[i]] = h
  /\ id[h] = wait.nId[i]

(* The next one of the copy: what is to be read is read first. *)
Scan ==
  /\ at = "next" /\ busy = None
  /\ wait.i < Len(wait.nTable)
  /\ LET i == wait.i + 1
         h == pfHook[wait.nTable[i]]
     IN  /\ wait' = [wait EXCEPT !.i = i, !.hook = h]
         /\ at' = IF wait.nTable[i] \in wait.read /\ Same(h, i) THEN "input" ELSE "flush"
  /\ UNCHANGED <<table, queues, busy, system, history>>

Flush ==
  /\ at = "flush"
  /\ LET h == wait.hook IN
     busy' = IF wait.nTable[wait.i] \in wait.write /\ Same(h, wait.i) /\ qTX[h] # << >>
               THEN h ELSE None
  /\ at' = "next"
  /\ UNCHANGED <<table, queues, wait, system, history>>

WaitDone ==
  /\ at = "next" /\ busy = None
  /\ wait.i = Len(wait.nTable)
  /\ at' = "out" /\ wait' = NoWait
  /\ UNCHANGED <<table, queues, busy, system, history>>

-----------------------------------------------------------------------------
(* cMotherHook::Input: the least descriptor that is free, the first slot.  *)
Accept ==
  /\ at = "input" /\ wait.hook = Mother
  /\ \E h \in Multi, f \in Fds :
       /\ ~Hooked(h) /\ \A g \in Multi : g < h => Hooked(g)
       /\ pfHook[f] = None /\ \A e \in Fds : e < f => pfHook[e] # None
       /\ Hook(f, h)
  /\ backlog' = backlog - 1
  /\ at' = "flush"
  /\ UNCHANGED <<wait, busy, inn, hung, history>>

(* No slot, or not a trusted host: it is closed at once. *)
TurnAway ==
  /\ at = "input" /\ wait.hook = Mother
  /\ backlog' = backlog - 1
  /\ at' = "flush"
  /\ UNCHANGED <<table, queues, wait, busy, inn, hung, history>>

(* A call of cMultiHook::Read: read_to_queue, then protocol_parse_incoming. *)
(* -2 leaves the queue as it is, and Input calls again.                     *)
Parsed(h, q) ==
  LET s == Flat(q)
      l == Header + Body[s[1][1]][s[1][2]]
  IN  IF Len(s) >= Header /\ s[1][3] # 1
        THEN qRX' = [qRX EXCEPT ![h] = q] /\ UNCHANGED <<heard, at>>
      ELSE IF Len(s) < Header \/ Len(s) < l
        THEN qRX' = [qRX EXCEPT ![h] = q] /\ at' = "flush" /\ UNCHANGED heard
      ELSE /\ heard' = [heard EXCEPT ![id[h]] = Append(@, Copy(q, l))]
           /\ qRX' = [qRX EXCEPT ![h] = Cut(q, l)]
           /\ UNCHANGED at

Read(h) ==
  /\ at = "input" /\ busy = None /\ wait.hook = h
  /\ Hooked(h)
  /\ \E n \in 0..Len(inn[id[h]]) :
       /\ Parsed(h, qRX[h] \o Elements(SubSeq(inn[id[h]], 1, n)))
       /\ inn' = [inn EXCEPT ![id[h]] = SubSeq(@, n + 1, Len(@))]
  /\ UNCHANGED <<table, qTX, wait, busy, hung, backlog, said, told, got>>

ReadError(h) ==
  /\ at = "input" /\ busy = None /\ wait.hook = h
  /\ Hooked(h) /\ hung[id[h]]
  /\ Unhook(h)
  /\ at' = "flush"
  /\ UNCHANGED <<queues, wait, busy>>

(* Its own messages, or the answers to them, have closed it. *)
ReadClosed(h) ==
  /\ at = "input" /\ busy = None /\ wait.hook = h
  /\ ~Hooked(h)
  /\ at' = "flush"
  /\ UNCHANGED <<table, queues, wait, busy, system, history>>

-----------------------------------------------------------------------------
(* The other end. *)
PeerConnects ==
  /\ backlog = 0 /\ newid <= MaxConns
  /\ backlog' = 1
  /\ UNCHANGED <<table, queues, at, wait, busy, inn, hung, history>>

PeerSends(h) ==
  /\ Hooked(h) /\ ~hung[id[h]]
  /\ LET c == id[h]
         j == told[c] + 1
     IN  /\ j \in DOMAIN Body[c]
         /\ told' = [told EXCEPT ![c] = j]
         /\ inn' = [inn EXCEPT ![c] = @ \o Frame(c, j)]
  /\ UNCHANGED <<table, queues, at, wait, busy, hung, backlog, said, got, heard>>

PeerHangsUp(h) ==
  /\ Hooked(h) /\ ~hung[id[h]]
  /\ hung' = [hung EXCEPT ![id[h]] = TRUE]
  /\ UNCHANGED <<table, queues, at, wait, busy, inn, backlog, history>>

Next ==
  \/ \E h \in Multi :
       \/ Close(h) \/ Write(h) \/ Read(h) \/ ReadError(h) \/ ReadClosed(h)
       \/ PeerSends(h) \/ PeerHangsUp(h)
  \/ PushRound \/ PushError
  \/ \E r \in SUBSET Readable, w \in SUBSET Pending : Select(r, w)
  \/ Scan \/ Flush \/ WaitDone \/ Accept \/ TurnAway \/ PeerConnects

Spec == Init /\ [][Next]_vars

(* game_event calls Wait again and again, and what it calls returns.  The  *)
(* system takes a whole round now and then, as long as the other end reads *)
(* (when it is gone writing fails, or goes nowhere), and select tells.     *)
FairSpec ==
  /\ Spec
  /\ WF_vars(Scan) /\ WF_vars(Flush) /\ WF_vars(WaitDone) /\ WF_vars(Accept \/ TurnAway)
  /\ WF_vars(PushRound)
  /\ \A h \in Multi :
       /\ WF_vars(Read(h) \/ ReadError(h) \/ ReadClosed(h))
       /\ SF_vars(busy = h /\ TakesAll)
       /\ SF_vars(\E r \in SUBSET Readable, w \in SUBSET Pending : fd[h] \in w /\ Select(r, w))

-----------------------------------------------------------------------------
TypeOK ==
  /\ pfHook \in [Fds -> AllHooks \cup {None}]
  /\ fd \in [AllHooks -> Fds \cup {None}]
  /\ id \in [AllHooks -> Conns \cup {Mother, None}]
  /\ nIdx \in Seq(Fds) /\ nMax \in Fds /\ newid \in 1..MaxConns + 1
  /\ \A h \in AllHooks : \A q \in {qTX[h], qRX[h]} :
       \A i \in DOMAIN q : q[i] \in Seq(Bytes) \ {<< >>}
  /\ at \in {"out", "input", "flush", "next"}
  /\ wait = NoWait <=> at = "out"
  /\ busy \in Multi \cup {None}
  /\ backlog \in 0..1

(* The two tables and nIdx say the same whatever Wait's calls hook and     *)
(* unhook, as the assertions of Hook, Unhook and Wait demand; no id is     *)
(* used twice, so that Wait knows a connection again; select looks at      *)
(* every descriptor; and PushWrite only writes for who is hooked.          *)
TableWhole ==
  /\ \A h \in AllHooks : Hooked(h) => pfHook[fd[h]] = h /\ id[h] \in 0..newid - 1
  /\ \A f \in Fds : pfHook[f] # None => fd[pfHook[f]] = f /\ f <= nMax
  /\ Range(nIdx) = {f \in Fds : pfHook[f] # None}
  /\ \A i, j \in DOMAIN nIdx : nIdx[i] = nIdx[j] => i = j
  /\ \A g, h \in AllHooks : Hooked(g) /\ id[g] = id[h] => g = h
  /\ busy # None => Hooked(busy)

-----------------------------------------------------------------------------
(* The streams of the connections, without descriptors and elements.       *)
Up(c)     == \E h \in Multi : Hooked(h) /\ id[h] = c
HookOf(c) == CHOOSE h \in Multi : Hooked(h) /\ id[h] = c
Unsent(c) == IF Up(c) THEN Flat(qTX[HookOf(c)]) ELSE << >>

Abstract == INSTANCE Streams WITH
  Messages <- Frames,
  state <- [c \in Conns |-> IF Up(c) THEN "up" ELSE IF c < newid THEN "down" ELSE "new"],
  out <- [c \in Conns |-> Unsent(c)],
  in <- [c \in Conns |-> IF Up(c) THEN Flat(qRX[HookOf(c)]) \o inn[c] ELSE << >>]

(* However the system splits what is written and read, and whoever takes   *)
(* over a descriptor or a slot: what is written to a connection leaves it  *)
(* once, in order, none of it on another; what is handled is what was      *)
(* sent, frame by frame.                                                   *)
ImplementsStreams == Abstract!StreamsSpec

(* What is left in a queue when the system has no room does not stay there *)
(* for ever: Wait goes on with it, whoever else it serves meanwhile.       *)
Drained == \A c \in Conns : Unsent(c) # << >> ~> Unsent(c) = << >>
=============================================================================
