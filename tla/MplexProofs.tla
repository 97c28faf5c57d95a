---------------------------- MODULE MplexProofs ----------------------------
(***************************************************************************)
(* What is proved about Mplex, for any number of consoles, links, slots    *)
(* and ids: the state keeps its shape, no two consoles have the same id,   *)
(* what uses the id of a descriptor comes over its link, consoles and      *)
(* sessions match (Matched), and who waits has an answer to wait for.      *)
(* Excepted are the ids that consoles kept over a failed write (left).     *)
(*                                                                         *)
(* An id is given by one start of the server, and a console keeps it no    *)
(* longer than its link, or left has it (NoLinkNoId).  So the ids in use   *)
(* around a link (Used: the consoles', those about to be given to one,     *)
(* those on their way to the server) were all given out by the server that *)
(* reads that link, to sessions on that link (Given), and the next id is a *)
(* new one.  A confirmation is under way once (GivenOnce).                 *)
(***************************************************************************)
EXTENDS Mplex, SequenceTheorems, FiniteSetTheorems, TLAPS

Shape ==
  /\ con \in [Consoles -> Console]
  /\ mud \in Links \cup {None}
  /\ left \in [Links \cup {None} -> SUBSET Ids]
  /\ ends \in [Links -> SUBSET {"mplex", "server"}]
  /\ up \in [Links -> Seq(Messages)]
  /\ down \in [Links -> Seq(Messages)]
  /\ backlog \in Seq(Links)
  /\ multi \in [Slots -> Links \cup {None}]
  /\ succ_err \in [Slots -> 0..(MaxErrors + 1)]
  /\ desc \in [Ids -> [slot : Slots, link : Links] \cup {None}]
  /\ nid \in 0..MaxIds
  /\ phase \in {"read", "commands", "events"}
  /\ crashes \in 0..MaxCrashes

NoLinkNoId ==
  \A c \in Consoles : /\ mud = None => con[c].id \in left[None] \cup {0}
                      /\ con[c].fptr = "none" => con[c].id = 0

(* Who has a link open, and what is under way only to those who do.        *)
EndsKept ==
  \A l \in Links :
    /\ "mplex" \in ends[l] <=> mud = l
    /\ "mplex" \notin ends[l] => down[l] = << >>
    /\ "server" \notin ends[l] => up[l] = << >>
    /\ (\E s \in Slots : multi[s] = l) \/ (\E j \in DOMAIN backlog : backlog[j] = l)
         => "server" \in ends[l]

(* A link is in one slot, or once in the backlog.                          *)
OnePlace ==
  /\ \A s, t \in Slots : multi[s] = multi[t] /\ multi[s] # None => s = t
  /\ \A j, k \in DOMAIN backlog : backlog[j] = backlog[k] => j = k
  /\ \A s \in Slots, j \in DOMAIN backlog : multi[s] # backlog[j]

(* Sessions are on links that were accepted, in the slot they are in.      *)
LinkSlot ==
  \A i \in Ids : desc[i] # None =>
    /\ \A s \in Slots : multi[s] = desc[i].link => desc[i].slot = s
    /\ \A j \in DOMAIN backlog : backlog[j] # desc[i].link

(* The ids in use around l, but for those of closed sessions; what         *)
(* consoles brought along from an earlier link is not of this one.         *)
Confirming(l, i) == \E j \in DOMAIN down[l] : down[l][j] = Msg("confirm", i)
Using(l, i)      == \E j \in DOMAIN up[l] : up[l][j].id = i
Used(l, i) ==
  \/ Confirming(l, i)
  \/ i \notin left[l] /\ Using(l, i)
  \/ i \notin left[l] /\ mud = l /\ \E c \in Consoles : con[c].id = i

Given ==
  \A l \in Links, i \in Ids : "server" \in ends[l] /\ Used(l, i) =>
    i <= nid /\ (desc[i] # None => desc[i].link = l)

GivenOnce ==
  /\ \A l \in Links : \A j, k \in DOMAIN down[l] :
       down[l][j].kind = "confirm" /\ down[l][j] = down[l][k] => j = k
  /\ \A l \in Links, i \in Ids, c \in Consoles :
       Confirming(l, i) /\ i \notin left[l] => con[c].id # i

IInv == Shape /\ NoLinkNoId /\ EndsKept /\ OnePlace /\ LinkSlot /\ Given /\ GivenOnce
        /\ OneConsolePerId

-----------------------------------------------------------------------------
(* Messages and queues.                                                    *)
LEMMA MessageShape ==
  /\ \A m \in Messages : /\ m.id \in {0} \cup Ids
                         /\ m.kind = "request" => m.id = 0
                         /\ m.kind # "request" => m.id \in Ids /\ m = Msg(m.kind, m.id)
  /\ \A i \in Ids, k \in {"confirm", "terminate", "data"} :
       Msg(k, i) \in Messages /\ Msg(k, i).kind = k /\ Msg(k, i).id = i
  /\ Msg("request", 0) \in Messages /\ Msg("request", 0).kind = "request" /\ Msg("request", 0).id = 0
  /\ 0 \notin Ids
  BY BoundAssumption DEF Messages, Msg, Ids

LEMMA TailShape ==
  ASSUME NEW S, NEW q \in Seq(S), q # << >>
  PROVE  /\ Tail(q) \in Seq(S) /\ Head(q) \in S
         /\ 1 \in DOMAIN q /\ Head(q) = q[1]
         /\ \A j \in DOMAIN Tail(q) : j + 1 \in DOMAIN q /\ j \in Nat \ {0} /\ Tail(q)[j] = q[j + 1]
<1>1. /\ Tail(q) \in Seq(S) /\ Head(q) \in S /\ Len(Tail(q)) = Len(q) - 1
      /\ \A j \in 1..Len(Tail(q)) : Tail(q)[j] = q[j + 1]
  BY HeadTailProperties
<1>2. Len(q) \in Nat \ {0} /\ DOMAIN q = 1..Len(q) /\ DOMAIN Tail(q) = 1..Len(Tail(q))
  BY <1>1, EmptySeq, LenProperties
<1> QED BY <1>1, <1>2

LEMMA ConcatShape ==
  ASSUME NEW q \in Seq(Messages), NEW ms \in Seq(Messages)
  PROVE  /\ q \o ms \in Seq(Messages)
         /\ \A j \in DOMAIN (q \o ms) :
              \/ j \in DOMAIN q /\ (q \o ms)[j] = q[j]
              \/ \E k \in DOMAIN ms : j = Len(q) + k /\ (q \o ms)[j] = ms[k]
<1>1. /\ q \o ms \in Seq(Messages) /\ Len(q \o ms) = Len(q) + Len(ms)
      /\ \A j \in 1..(Len(q) + Len(ms)) :
           (q \o ms)[j] = IF j <= Len(q) THEN q[j] ELSE ms[j - Len(q)]
  BY ConcatProperties
<1>2. /\ Len(q) \in Nat /\ DOMAIN q = 1..Len(q) /\ Len(ms) \in Nat /\ DOMAIN ms = 1..Len(ms)
      /\ DOMAIN (q \o ms) = 1..Len(q \o ms)
  BY <1>1, LenProperties
<1> SUFFICES ASSUME NEW j \in DOMAIN (q \o ms)
             PROVE  \/ j \in DOMAIN q /\ (q \o ms)[j] = q[j]
                    \/ \E k \in DOMAIN ms : j = Len(q) + k /\ (q \o ms)[j] = ms[k]
  BY <1>1
<1>3. CASE j <= Len(q)
  BY <1>1, <1>2, <1>3
<1>4. CASE j > Len(q)
  <2>1. j - Len(q) \in DOMAIN ms /\ (q \o ms)[j] = ms[j - Len(q)] /\ j = Len(q) + (j - Len(q))
    BY <1>1, <1>2, <1>4
  <2> QED BY <2>1
<1> QED BY <1>2, <1>3, <1>4, <1>1

(* What is written is added, if the other end has the link open.           *)
Adds(q0, q1, l, reader, ms) ==
  /\ q1 \in [Links -> Seq(Messages)]
  /\ \A k \in Links : k # l \/ reader \notin ends[k] => q1[k] = q0[k]
  /\ \A k \in Links : \A j \in DOMAIN q1[k] :
       \/ j \in DOMAIN q0[k] /\ q1[k][j] = q0[k][j]
       \/ k = l /\ \E n \in DOMAIN ms : j = Len(q0[k]) + n /\ q1[k][j] = ms[n]

LEMMA WrittenShape ==
  ASSUME NEW queue \in [Links -> Seq(Messages)], ends \in [Links -> SUBSET {"mplex", "server"}],
         NEW l \in Links \cup {None}, NEW reader \in {"mplex", "server"},
         NEW ms \in Seq(Messages)
  PROVE  Adds(queue, Written(queue, l, reader, ms), l, reader, ms)
<1>1. CASE l = None \/ (l # None /\ reader \notin ends[l])
  <2>1. Written(queue, l, reader, ms) = queue
    BY <1>1 DEF Written
  <2> QED BY <2>1 DEF Adds
<1>2. CASE l # None /\ reader \in ends[l]
  <2>1. l \in Links /\ Written(queue, l, reader, ms) = [queue EXCEPT ![l] = queue[l] \o ms]
    BY <1>2 DEF Written
  <2> DEFINE W == Written(queue, l, reader, ms)
  <2>2. queue[l] \in Seq(Messages)
    BY <2>1
  <2>3. queue[l] \o ms \in Seq(Messages)
    BY <2>2, ConcatShape
  <2>4. W \in [Links -> Seq(Messages)] /\ W[l] = queue[l] \o ms /\ \A k \in Links : k # l => W[k] = queue[k]
    BY <2>1, <2>3
  <2> HIDE DEF W
  <2>5. \A j \in DOMAIN W[l] : \/ j \in DOMAIN queue[l] /\ W[l][j] = queue[l][j]
                               \/ \E n \in DOMAIN ms : j = Len(queue[l]) + n /\ W[l][j] = ms[n]
    BY <2>2, <2>4, ConcatShape
  <2>6. \A k \in Links : \A j \in DOMAIN W[k] :
              \/ j \in DOMAIN queue[k] /\ W[k][j] = queue[k][j]
              \/ k = l /\ \E n \in DOMAIN ms : j = Len(queue[k]) + n /\ W[k][j] = ms[n]
    BY <2>4, <2>5
  <2>7. Adds(queue, W, l, reader, ms)
    BY <1>2, <2>4, <2>6 DEF Adds
  <2> QED BY <2>7 DEF W
<1> QED BY <1>1, <1>2

-----------------------------------------------------------------------------
LEMMA InitHolds == Init => IInv
<1> SUFFICES ASSUME Init PROVE IInv
  OBVIOUS
<1> USE DEF Init
<1>1. Shape
  <2>1. << >> \in Seq(Messages) /\ << >> \in Seq(Links)
    OBVIOUS
  <2> QED BY <2>1, BoundAssumption DEF Shape, Console, NoConsole
<1>2. NoLinkNoId /\ OneConsolePerId
  BY DEF NoLinkNoId, OneConsolePerId, NoConsole
<1>3. EndsKept /\ OnePlace /\ LinkSlot
  BY NoneAssumption DEF EndsKept, OnePlace, LinkSlot
<1>4. Given /\ GivenOnce
  BY DEF Given, GivenOnce, Confirming
<1> QED BY <1>1, <1>2, <1>3, <1>4 DEF IInv

(* Steps that give nobody a link, a session or an id.                      *)
LEMMA FewerKeepIInv ==
  ASSUME IInv, Shape', UNCHANGED <<mud, left, ends, multi, backlog, nid>>,
         \A i \in Ids : desc'[i] \in {None, desc[i]},
         \A c \in Consoles : /\ con'[c].id \in {0, con[c].id}
                             /\ con'[c].fptr = "none" => con'[c].id = 0,
         \A l \in Links : /\ "server" \notin ends[l] => up'[l] = << >>
                          /\ "mplex" \notin ends[l] => down'[l] = << >>,
         \A l \in Links : \A j \in DOMAIN up'[l] : up'[l][j].id \in left[l] \cup {0} \/ Used(l, up'[l][j].id),
         \A l \in Links : \E k \in {0, 1} : \A j \in DOMAIN down'[l] :
           down'[l][j].kind = "confirm" => j + k \in DOMAIN down[l] /\ down'[l][j] = down[l][j + k]
  PROVE  IInv'
<1>i. Shape /\ NoLinkNoId /\ EndsKept /\ OnePlace /\ LinkSlot /\ Given /\ GivenOnce /\ OneConsolePerId
  BY DEF IInv
<1>1. NoLinkNoId' /\ EndsKept' /\ OnePlace'
  BY <1>i DEF NoLinkNoId, EndsKept, OnePlace
<1>2. LinkSlot'
  BY <1>i DEF LinkSlot
<1>3. \A l \in Links, i \in Ids : Confirming(l, i)' => Confirming(l, i)
  <2> SUFFICES ASSUME NEW l \in Links, NEW i \in Ids, Confirming(l, i)' PROVE Confirming(l, i)
    OBVIOUS
  <2>1. PICK j \in DOMAIN down'[l] : down'[l][j] = Msg("confirm", i)
    BY DEF Confirming
  <2>2. down'[l][j].kind = "confirm"
    BY <2>1, MessageShape
  <2>3. PICK k \in {0, 1} : j + k \in DOMAIN down[l] /\ down'[l][j] = down[l][j + k]
    BY <2>2
  <2> QED BY <2>1, <2>3 DEF Confirming
<1>4. \A l \in Links, i \in Ids : Used(l, i)' => Used(l, i)
  <2> SUFFICES ASSUME NEW l \in Links, NEW i \in Ids, Used(l, i)' PROVE Used(l, i)
    OBVIOUS
  <2>1. CASE Confirming(l, i)'
    BY <1>3, <2>1 DEF Used
  <2>2. CASE i \notin left[l] /\ Using(l, i)'
    BY <2>2, MessageShape DEF Using
  <2>3. CASE i \notin left[l] /\ mud' = l /\ \E c \in Consoles : con'[c].id = i
    BY <2>3, MessageShape DEF Used
  <2> QED BY <2>1, <2>2, <2>3 DEF Used
<1>5. Given'
  BY <1>i, <1>4, MessageShape DEF Given
<1>6. GivenOnce'
  <2>1. \A l \in Links : \A j, k \in DOMAIN down'[l] :
          down'[l][j].kind = "confirm" /\ down'[l][j] = down'[l][k] => j = k
    <3> SUFFICES ASSUME NEW l \in Links, NEW j \in DOMAIN down'[l], NEW k \in DOMAIN down'[l],
                        down'[l][j].kind = "confirm", down'[l][j] = down'[l][k]
                 PROVE  j = k
      OBVIOUS
    <3>1. PICK n \in {0, 1} : /\ j + n \in DOMAIN down[l] /\ down'[l][j] = down[l][j + n]
                              /\ k + n \in DOMAIN down[l] /\ down'[l][k] = down[l][k + n]
      OBVIOUS
    <3>0. \A a, b \in DOMAIN down[l] : down[l][a].kind = "confirm" /\ down[l][a] = down[l][b] => a = b
      BY <1>i DEF GivenOnce
    <3>2. j + n = k + n
      <4>1. down[l][j + n] = down[l][k + n] /\ down[l][j + n].kind = "confirm"
        BY <3>1
      <4> QED BY <3>0, <3>1, <4>1
    <3>3. j \in Nat /\ k \in Nat
      <4>1. down'[l] \in Seq(Messages)
        BY DEF Shape
      <4> QED BY <4>1, LenProperties
    <3> QED BY <3>2, <3>3
  <2>2. \A l \in Links, i \in Ids, c \in Consoles :
          Confirming(l, i)' /\ i \notin left[l] => con'[c].id # i
    BY <1>i, <1>3, MessageShape DEF GivenOnce
  <2> QED BY <2>1, <2>2 DEF GivenOnce
<1>7. OneConsolePerId'
  BY <1>i DEF OneConsolePerId
<1> QED BY <1>1, <1>2, <1>5, <1>6, <1>7 DEF IInv

(* Only the consoles change, and no one gets an id.                        *)
LEMMA SilentKeepsIInv ==
  ASSUME IInv, UNCHANGED <<mud, left, ends, up, down, backlog, multi, succ_err, desc, nid, crashes>>,
         phase' \in {"read", "commands", "events"},
         con' \in [Consoles -> Console],
         \A c \in Consoles : /\ con'[c].id \in {0, con[c].id}
                             /\ con'[c].fptr = "none" => con'[c].id = 0
  PROVE  IInv'
<1>i. Shape /\ EndsKept
  BY DEF IInv
<1>1. Shape'
  BY <1>i DEF Shape
<1>2. \A l \in Links : \A j \in DOMAIN up'[l] : up'[l][j].id \in left[l] \cup {0} \/ Used(l, up'[l][j].id)
  BY DEF Used, Using
<1>3. \A l \in Links : \A j \in DOMAIN down'[l] :
        j + 0 \in DOMAIN down[l] /\ down'[l][j] = down[l][j + 0]
  <2> SUFFICES ASSUME NEW l \in Links, NEW j \in DOMAIN down[l]
               PROVE  j + 0 \in DOMAIN down[l] /\ down[l][j] = down[l][j + 0]
    OBVIOUS
  <2>1. down[l] \in Seq(Messages)
    BY <1>i DEF Shape
  <2>2. j \in Nat
    BY <2>1, LenProperties
  <2> QED BY <2>2
<1>4. \A l \in Links : /\ "server" \notin ends[l] => up'[l] = << >>
                       /\ "mplex" \notin ends[l] => down'[l] = << >>
  BY <1>i DEF EndsKept
<1> QED BY <1>1, <1>2, <1>3, <1>4, FewerKeepIInv

-----------------------------------------------------------------------------
(* The multiplexer sends, about ids it has.                                *)
LEMMA SendingKeepsIInv ==
  ASSUME IInv, NEW ms \in Seq(Messages), ToServer(ms), con' \in [Consoles -> Console],
         \A c \in Consoles : /\ con'[c].id \in {0, con[c].id}
                             /\ con'[c].fptr = "none" => con'[c].id = 0,
         \A n \in DOMAIN ms : ms[n].id = 0 \/ \E c \in Consoles : con[c].id = ms[n].id
  PROVE  IInv'
<1>i. Shape /\ EndsKept
  BY DEF IInv
<1>1. /\ up' = Written(up, mud, "server", ms)
      /\ UNCHANGED <<ends, down, mud, left, backlog, multi, succ_err, desc, nid, phase, crashes>>
  BY DEF ToServer, server
<1>2. /\ up' \in [Links -> Seq(Messages)]
      /\ \A k \in Links : k # mud \/ "server" \notin ends[k] => up'[k] = up[k]
      /\ \A k \in Links : \A j \in DOMAIN up'[k] :
           \/ j \in DOMAIN up[k] /\ up'[k][j] = up[k][j]
           \/ k = mud /\ \E n \in DOMAIN ms : up'[k][j] = ms[n]
  <2>1. up \in [Links -> Seq(Messages)] /\ ends \in [Links -> SUBSET {"mplex", "server"}] /\ mud \in Links \cup {None}
    BY <1>i DEF Shape
  <2>2. Adds(up, up', mud, "server", ms)
    BY <1>1, <2>1, WrittenShape
  <2> QED BY <2>2 DEF Adds
<1>3. Shape'
  BY <1>i, <1>1, <1>2 DEF Shape
<1>4. \A l \in Links : \A j \in DOMAIN up'[l] : up'[l][j].id \in left[l] \cup {0} \/ Used(l, up'[l][j].id)
  BY <1>2 DEF Used, Using
<1>5. \A l \in Links : /\ "server" \notin ends[l] => up'[l] = << >>
                       /\ "mplex" \notin ends[l] => down'[l] = << >>
  BY <1>i, <1>1, <1>2 DEF EndsKept
<1>6. \A l \in Links : \A j \in DOMAIN down'[l] :
        j + 0 \in DOMAIN down[l] /\ down'[l][j] = down[l][j + 0]
  <2> SUFFICES ASSUME NEW l \in Links, NEW j \in DOMAIN down[l]
               PROVE  j + 0 \in DOMAIN down[l] /\ down[l][j] = down[l][j + 0]
    BY <1>1
  <2>1. down[l] \in Seq(Messages)
    BY <1>i DEF Shape
  <2>2. j \in Nat
    BY <2>1, LenProperties
  <2> QED BY <2>2
<1>7. \A i \in Ids : desc'[i] \in {None, desc[i]}
  BY <1>1
<1> QED BY <1>1, <1>3, <1>4, <1>5, <1>6, <1>7, FewerKeepIInv

(* What ClearUnhooked sends: the ids of consoles.                          *)
LEMMA FarewellShape ==
  ASSUME IInv
  PROVE  /\ \A c \in Consoles : \/ con[c].id = 0 /\ Farewell(c) = << >>
                                \/ /\ con[c].id \in Ids
                                   /\ Farewell(c) = <<Msg("terminate", con[c].id)>>
         /\ \A ms \in Farewells : /\ ms \in Seq(Messages)
                                  /\ \A n \in DOMAIN ms : \E c \in Consoles :
                                       con[c].id # 0 /\ ms[n].id = con[c].id
<1>1. \A c \in Consoles : con[c].id \in {0} \cup Ids
  BY BoundAssumption DEF IInv, Shape, Console, Ids
<1>2. \A c \in Consoles : \/ con[c].id = 0 /\ Farewell(c) = << >>
                          \/ /\ con[c].id \in Ids
                             /\ Farewell(c) = <<Msg("terminate", con[c].id)>>
  BY <1>1, MessageShape DEF Farewell
<1> DEFINE C == { x \in Unhooked : Farewell(x) # << >> }
           S == { Farewell(c)[1] : c \in C }
<1>3. C \subseteq Consoles /\ \A c \in C : con[c].id \in Ids /\ Farewell(c)[1] = Msg("terminate", con[c].id)
  BY <1>2 DEF Unhooked, Connected
<1>4. \A m \in S : m \in Messages /\ \E c \in Consoles : con[c].id # 0 /\ m.id = con[c].id
  BY <1>3, MessageShape
<1>5. IsFiniteSet(S) /\ Cardinality(S) \in Nat
  <2>1. IsFiniteSet(C)
    BY <1>3, FiniteAssumption, FS_Subset
  <2> DEFINE first == [c \in C |-> Farewell(c)[1]]
  <2>2. first \in Surjection(C, S)
    BY DEF Surjection, S
  <2> HIDE DEF first
  <2>3. IsFiniteSet(S)
    BY <2>1, <2>2, FS_Surjection
  <2> QED BY <2>3, FS_CardinalityType
<1> HIDE DEF C, S
<1>6. Farewells = SetToSeqs(S)
  BY DEF Farewells, S, C
<1>7. \A ms \in Farewells : ms \in [1..Cardinality(S) -> S]
  BY <1>6 DEF SetToSeqs
<1>8. \A ms \in Farewells : ms \in Seq(Messages) /\ \A n \in DOMAIN ms : ms[n] \in S
  <2> SUFFICES ASSUME NEW ms \in Farewells
               PROVE  ms \in Seq(Messages) /\ \A n \in DOMAIN ms : ms[n] \in S
    OBVIOUS
  <2>1. ms \in [1..Cardinality(S) -> S] /\ ms \in [1..Cardinality(S) -> Messages]
    BY <1>4, <1>7
  <2> QED BY <1>5, <2>1, SeqDef
<1> QED BY <1>2, <1>4, <1>8

LEMMA ConsolesKeepIInv ==
  ASSUME IInv, NEW c \in Consoles,
         Arrive(c) \/ GiveUp(c) \/ MenuSelect(c) \/ Transmit(c) \/ Leave(c) \/ Lost(c)
  PROVE  IInv'
<1>i. con \in [Consoles -> Console] /\ NoLinkNoId
  BY DEF IInv, Shape
<1>p. phase \in {"read", "commands", "events"}
  BY DEF IInv, Shape
<1>r. /\ \A x \in Consoles : con[x] \in Console /\ (con[x].fptr = "none" => con[x].id = 0)
      /\ \A r \in Console : r.id \in 0..MaxIds
  BY <1>i DEF NoLinkNoId, Console
<1>0. /\ <<Msg("request", 0)>> \in Seq(Messages)
      /\ \A n \in DOMAIN <<Msg("request", 0)>> : <<Msg("request", 0)>>[n].id = 0
      /\ << >> \in Seq(Messages) /\ DOMAIN << >> = {}
  BY MessageShape
<1>1. CASE Arrive(c)
  <2>1. /\ con' \in [Consoles -> Console] /\ con'[c].id = 0 /\ con'[c].fptr # "none"
        /\ \A x \in Consoles : x # c => con'[x] = con[x]
    BY <1>1, <1>i, BoundAssumption DEF Arrive, Console
  <2> QED BY <1>0, <1>1, <1>r, <2>1, SendingKeepsIInv DEF Arrive
<1>2. CASE GiveUp(c) \/ Lost(c)
  <2>1. /\ \A r \in Console : /\ [r EXCEPT !.fptr = "MenuSelect"] \in Console
                              /\ [r EXCEPT !.fptr = "MenuSelect"].id = r.id
                              /\ [r EXCEPT !.fptr = "MenuSelect"].fptr = "MenuSelect"
                              /\ [r EXCEPT !.hooked = FALSE] \in Console
                              /\ [r EXCEPT !.hooked = FALSE].id = r.id
                              /\ [r EXCEPT !.hooked = FALSE].fptr = r.fptr
    BY DEF Console
  <2>2. /\ con' \in [Consoles -> Console]
        /\ \A x \in Consoles : con'[x].id = con[x].id /\ (con'[x].fptr = "none" => con[x].fptr = "none")
    <3>1. \/ con' = [con EXCEPT ![c] = [con[c] EXCEPT !.fptr = "MenuSelect"]]
          \/ con' = [con EXCEPT ![c] = [con[c] EXCEPT !.hooked = FALSE]]
      BY <1>2 DEF GiveUp, Lost
    <3>2. /\ con'[c] \in Console /\ con'[c].id = con[c].id
          /\ con'[c].fptr \in {con[c].fptr, "MenuSelect"}
      BY <1>i, <1>r, <2>1, <3>1
    <3>3. \A x \in Consoles : x # c => con'[x] = con[x]
      BY <1>i, <3>1
    <3>4. con' \in [Consoles -> Console]
      BY <1>i, <3>1, <3>2
    <3> QED BY <3>2, <3>3, <3>4
  <2>3. UNCHANGED <<mud, left, ends, up, down, backlog, multi, succ_err, desc, nid, phase, crashes>>
    BY <1>2 DEF GiveUp, Lost, wires, server
  <2>4. phase' \in {"read", "commands", "events"}
    BY <1>p, <2>3
  <2> QED BY <1>r, <2>2, <2>3, <2>4, SilentKeepsIInv
<1>3. CASE MenuSelect(c)
  <2>1. \A r \in Console, f \in {"MudDown", "PlayLoop"} :
          /\ [r EXCEPT !.fptr = f] \in Console /\ [r EXCEPT !.fptr = f].id = r.id
          /\ [r EXCEPT !.fptr = f].fptr = f
    BY DEF Console
  <2>2. \E f \in {"MudDown", "PlayLoop"} : con' = [con EXCEPT ![c].fptr = f]
    BY <1>3 DEF MenuSelect
  <2>3. /\ con' \in [Consoles -> Console]
        /\ \A x \in Consoles : con'[x].id = con[x].id /\ (con'[x].fptr = "none" => con[x].fptr = "none")
    <3>0. PICK f \in {"MudDown", "PlayLoop"} : con' = [con EXCEPT ![c].fptr = f]
      BY <2>2
    <3>1. con' = [con EXCEPT ![c] = [con[c] EXCEPT !.fptr = f]]
      BY <3>0
    <3>2. con'[c] \in Console /\ con'[c].id = con[c].id /\ con'[c].fptr = f
      <4>1. con[c] \in Console
        BY <1>r
      <4>2. /\ [con[c] EXCEPT !.fptr = f] \in Console /\ [con[c] EXCEPT !.fptr = f].id = con[c].id
            /\ [con[c] EXCEPT !.fptr = f].fptr = f
        BY <2>1, <4>1
      <4>3. con'[c] = [con[c] EXCEPT !.fptr = f]
        BY <1>i, <3>1
      <4> QED BY <4>2, <4>3
    <3>3. \A x \in Consoles : x # c => con'[x] = con[x]
      BY <1>i, <3>1
    <3>4. con' \in [Consoles -> Console]
      BY <1>i, <3>1, <3>2
    <3> QED BY <3>2, <3>3, <3>4
  <2> QED BY <1>0, <1>3, <1>r, <2>3, SendingKeepsIInv DEF MenuSelect
<1>4. CASE Transmit(c)
  <2>1. con[c].id \in Ids /\ con' = con /\ ToServer(<<Msg("data", con[c].id)>>)
    BY <1>4, <1>r, BoundAssumption DEF Transmit, Ids
  <2>2. /\ <<Msg("data", con[c].id)>> \in Seq(Messages)
        /\ \A n \in DOMAIN <<Msg("data", con[c].id)>> : <<Msg("data", con[c].id)>>[n].id = con[c].id
    BY <2>1, MessageShape
  <2> QED BY <1>i, <1>r, <2>1, <2>2, SendingKeepsIInv
<1>5. CASE Leave(c)
  <2>1. con' = [con EXCEPT ![c] = Closed] /\ ToServer(Farewell(c))
    BY <1>5 DEF Leave
  <2>2. /\ con' \in [Consoles -> Console] /\ con'[c].id = 0
        /\ \A x \in Consoles : x # c => con'[x] = con[x]
    BY <1>i, <2>1, BoundAssumption DEF Closed, Console
  <2>3. Farewell(c) \in Seq(Messages) /\ \A n \in DOMAIN Farewell(c) : Farewell(c)[n].id = con[c].id
    <3>1. CASE Farewell(c) = << >>
      BY <1>0, <3>1
    <3>2. CASE con[c].id \in Ids /\ Farewell(c) = <<Msg("terminate", con[c].id)>>
      BY <3>2, MessageShape
    <3> QED BY <3>1, <3>2, FarewellShape
  <2> QED BY <1>r, <2>1, <2>2, <2>3, SendingKeepsIInv
<1> QED BY <1>1, <1>2, <1>3, <1>4, <1>5

(* Consoles that were unhooked are deleted.                                *)
LEMMA ClearingKeepsIInv ==
  ASSUME IInv, ClearUnhooked \/ TestMudDown
  PROVE  IInv'
<1>i. con \in [Consoles -> Console] /\ NoLinkNoId /\ phase \in {"read", "commands", "events"}
  BY DEF IInv, Shape
<1>1. con' = [c \in Consoles |-> IF c \in Unhooked THEN NoConsole ELSE con[c]]
  BY DEF ClearUnhooked, TestMudDown
<1>2. NoConsole \in Console /\ NoConsole.id = 0
  BY BoundAssumption DEF NoConsole, Console
<1>3. /\ con' \in [Consoles -> Console]
      /\ \A c \in Consoles : /\ con'[c].id \in {0, con[c].id}
                             /\ con'[c].fptr = "none" => con'[c].id = 0
  BY <1>i, <1>1, <1>2 DEF NoLinkNoId
<1>4. CASE ClearUnhooked
  <2>1. PICK ms \in Farewells : ToServer(ms)
    BY <1>4 DEF ClearUnhooked
  <2>2. ms \in Seq(Messages) /\ \A n \in DOMAIN ms : ms[n].id = 0 \/ \E c \in Consoles : con[c].id = ms[n].id
    BY FarewellShape
  <2> QED BY <1>3, <2>1, <2>2, SendingKeepsIInv
<1>5. CASE TestMudDown
  <2>1. UNCHANGED <<mud, left, ends, up, down, backlog, multi, succ_err, desc, nid, crashes>> /\ phase' = phase
    BY <1>5 DEF TestMudDown, wires, server
  <2> QED BY <1>i, <1>3, <2>1, SilentKeepsIInv
<1> QED BY <1>4, <1>5

(* The confirmation is taken from the link, and given to one that waits.   *)
LEMMA ReadingKeepsIInv ==
  ASSUME IInv, Confirm \/ Terminate
  PROVE  IInv'
<1>i. Shape /\ NoLinkNoId /\ EndsKept /\ OnePlace /\ LinkSlot /\ Given /\ GivenOnce /\ OneConsolePerId
  BY DEF IInv
<1> DEFINE q == down[mud]
           m == Head(q)
<1>1. /\ mud \in Links /\ q \in Seq(Messages) /\ q # << >>
      /\ down' = [down EXCEPT ![mud] = Tail(q)]
      /\ UNCHANGED <<mud, left, ends, backlog, multi, succ_err, desc, nid, phase, crashes>>
  BY <1>i DEF Confirm, Terminate, Read, Shape, server
<1>2. /\ Tail(q) \in Seq(Messages) /\ m \in Messages /\ 1 \in DOMAIN q /\ m = q[1]
      /\ \A j \in DOMAIN Tail(q) : j + 1 \in DOMAIN q /\ j \in Nat \ {0} /\ Tail(q)[j] = q[j + 1]
  BY <1>1, TailShape
<1>3. /\ down' \in [Links -> Seq(Messages)] /\ down'[mud] = Tail(q)
      /\ \A l \in Links : l # mud => down'[l] = down[l] /\ down'[l] = << >>
  <2>1. \A l \in Links : l # mud => down[l] = << >>
    BY <1>i DEF EndsKept
  <2> HIDE DEF q
  <2>2. down \in [Links -> Seq(Messages)]
    BY <1>i DEF Shape
  <2> QED BY <1>1, <1>2, <2>1, <2>2
<1>4. "mplex" \in ends[mud]
  BY <1>i, <1>1 DEF EndsKept
<1> HIDE DEF q, m
<1>5. \A l \in Links : \E k \in {0, 1} : \A j \in DOMAIN down'[l] :
        down'[l][j].kind = "confirm" => j + k \in DOMAIN down[l] /\ down'[l][j] = down[l][j + k]
  <2>1. \A j \in DOMAIN down'[mud] : j + 1 \in DOMAIN down[mud] /\ down'[mud][j] = down[mud][j + 1]
    BY <1>2, <1>3 DEF q
  <2>2. \A l \in Links : l # mud => DOMAIN down'[l] = {}
    BY <1>3
  <2> QED BY <2>1, <2>2
<1>6. \A l \in Links : "mplex" \notin ends[l] => down'[l] = << >>
  BY <1>3, <1>4
<1>7. \A c \in Consoles : con[c] \in Console /\ con[c].id \in {0} \cup Ids /\ (con[c].fptr = "none" => con[c].id = 0)
  BY <1>i, BoundAssumption DEF Shape, Console, Ids, NoLinkNoId
<1>8. CASE Terminate
  <2>1. up' = up /\ (con' = con \/ \E c \in Consoles : con' = [con EXCEPT ![c] = Closed])
    BY <1>8 DEF Terminate, Connected
  <2>2. Closed \in Console /\ Closed.id = 0
    BY BoundAssumption DEF Closed, Console
  <2>3. /\ con' \in [Consoles -> Console]
        /\ \A c \in Consoles : /\ con'[c].id \in {0, con[c].id}
                               /\ con'[c].fptr = "none" => con'[c].id = 0
    BY <1>i, <1>7, <2>1, <2>2 DEF Shape
  <2>4. Shape'
    BY <1>i, <1>1, <1>3, <2>1, <2>3 DEF Shape
  <2>5. \A l \in Links : \A j \in DOMAIN up'[l] : up'[l][j].id \in left[l] \cup {0} \/ Used(l, up'[l][j].id)
    BY <2>1 DEF Used, Using
  <2>6. \A l \in Links : /\ "server" \notin ends[l] => up'[l] = << >>
                         /\ "mplex" \notin ends[l] => down'[l] = << >>
    BY <1>i, <1>6, <2>1 DEF EndsKept
  <2> QED BY <1>1, <1>5, <2>3, <2>4, <2>5, <2>6, FewerKeepIInv
<1>9. CASE Confirm
  <2> DEFINE i == m.id
  <2>1. m.kind = "confirm" /\ i \in Ids /\ m = Msg("confirm", i)
    BY <1>2, <1>9, MessageShape DEF Confirm, Arriving, m, q
  <2>2. Confirming(mud, i) /\ Used(mud, i)
    BY <1>2, <2>1 DEF Confirming, Used, q
  <2> HIDE DEF i
  <2>3. \E k \in {"terminate", "data"} : up' = Written(up, mud, "server", <<Msg(k, i)>>)
    BY <1>9 DEF Confirm, Arriving, i, m, q
  <2>4. \A k \in {"terminate", "data"} :
          /\ <<Msg(k, i)>> \in Seq(Messages)
          /\ \A n \in DOMAIN <<Msg(k, i)>> : <<Msg(k, i)>>[n].id = i
    BY <2>1, MessageShape
  <2>5. /\ up' \in [Links -> Seq(Messages)]
        /\ \A l \in Links : "server" \notin ends[l] => up'[l] = << >>
        /\ \A l \in Links : \A j \in DOMAIN up'[l] :
             \/ j \in DOMAIN up[l] /\ up'[l][j] = up[l][j]
             \/ l = mud /\ up'[l][j].id = i
    <3>1. PICK k \in {"terminate", "data"} : up' = Written(up, mud, "server", <<Msg(k, i)>>)
      BY <2>3
    <3>2. Adds(up, up', mud, "server", <<Msg(k, i)>>)
      <4>1. up \in [Links -> Seq(Messages)] /\ ends \in [Links -> SUBSET {"mplex", "server"}]
        BY <1>i DEF Shape
      <4> QED BY <1>1, <2>4, <3>1, <4>1, WrittenShape
    <3>3. \A l \in Links : "server" \notin ends[l] => up'[l] = up[l] /\ up[l] = << >>
      BY <1>i, <3>2 DEF Adds, EndsKept
    <3> QED BY <2>4, <3>2, <3>3 DEF Adds
  <2>6. \A l \in Links : \A j \in DOMAIN up'[l] : up'[l][j].id \in left[l] \cup {0} \/ Used(l, up'[l][j].id)
    BY <2>2, <2>5 DEF Used, Using
  <2>7. CASE Waiting = {}
    <3>1. con' = con
      BY <1>9, <2>7 DEF Confirm
    <3>2. Shape'
      BY <1>i, <1>1, <1>3, <2>5, <3>1 DEF Shape
    <3>3. \A c \in Consoles : /\ con'[c].id \in {0, con[c].id}
                              /\ con'[c].fptr = "none" => con'[c].id = 0
      BY <1>7, <3>1
    <3> QED BY <1>1, <1>5, <1>6, <2>5, <2>6, <3>2, <3>3, FewerKeepIInv
  <2>8. CASE Waiting # {}
    <3>1. PICK c \in Waiting : con' = [con EXCEPT ![c].id = i]
      BY <1>9, <2>8 DEF Confirm, Arriving, i, m, q
    <3>2. c \in Consoles /\ con[c].fptr = "PlayLoop"
      BY DEF Waiting
    <3>3. /\ \A x \in Consoles : x # c => con'[x] = con[x]
          /\ con'[c].id = i /\ con'[c].fptr = "PlayLoop"
          /\ con' \in [Consoles -> Console]
      <4>1. con[c] \in Console
        BY <1>7, <3>2
      <4>2. /\ [con[c] EXCEPT !.id = i] \in Console /\ [con[c] EXCEPT !.id = i].id = i
            /\ [con[c] EXCEPT !.id = i].fptr = con[c].fptr
        BY <2>1, <4>1, BoundAssumption DEF Console, Ids
      <4>3. con \in [Consoles -> Console] /\ con' = [con EXCEPT ![c] = [con[c] EXCEPT !.id = i]]
        BY <1>i, <3>1 DEF Shape
      <4> QED BY <3>2, <4>2, <4>3
    <3>4. Shape'
      BY <1>i, <1>1, <1>3, <2>5, <3>3 DEF Shape
    <3>5. NoLinkNoId' /\ OnePlace' /\ LinkSlot'
      BY <1>1, <1>i, <3>3, NoneAssumption DEF NoLinkNoId, OnePlace, LinkSlot
    <3>6. EndsKept'
      BY <1>i, <1>1, <1>6, <2>5 DEF EndsKept
    <3>7. \A l \in Links, k \in Ids : Confirming(l, k)' => Confirming(l, k) /\ k # i
      <4> SUFFICES ASSUME NEW l \in Links, NEW k \in Ids, Confirming(l, k)'
                   PROVE  Confirming(l, k) /\ k # i
        OBVIOUS
      <4>1. PICK j \in DOMAIN down'[l] : down'[l][j] = Msg("confirm", k)
        BY DEF Confirming
      <4>2. l = mud
        BY <1>3, <4>1
      <4>3. j + 1 \in DOMAIN q /\ j \in Nat \ {0} /\ q[j + 1] = Msg("confirm", k)
        BY <1>2, <1>3, <4>1, <4>2
      <4>4. k # i
        <5> SUFFICES ASSUME k = i PROVE FALSE
          OBVIOUS
        <5>1. \A a, b \in DOMAIN q : q[a].kind = "confirm" /\ q[a] = q[b] => a = b
          BY <1>i, <1>1 DEF GivenOnce, q
        <5>2. q[1].kind = "confirm" /\ q[1] = q[j + 1]
          BY <1>2, <2>1, <4>3
        <5>3. 1 = j + 1
          BY <1>2, <4>3, <5>1, <5>2
        <5> QED BY <4>3, <5>3
      <4> QED BY <4>2, <4>3, <4>4 DEF Confirming, q
    <3>8. \A l \in Links, k \in Ids : Used(l, k)' => Used(l, k)
      <4> SUFFICES ASSUME NEW l \in Links, NEW k \in Ids, Used(l, k)' PROVE Used(l, k)
        OBVIOUS
      <4>1. CASE Confirming(l, k)'
        BY <3>7, <4>1 DEF Used
      <4>2. CASE k \notin left[l] /\ Using(l, k)'
        BY <2>2, <2>5, <4>2 DEF Using, Used
      <4>3. CASE k \notin left[l] /\ mud' = l /\ \E x \in Consoles : con'[x].id = k
        BY <1>1, <2>2, <3>3, <4>3 DEF Used
      <4> QED BY <1>1, <4>1, <4>2, <4>3 DEF Used
    <3>9. Given'
      BY <1>i, <1>1, <3>8 DEF Given
    <3>10. GivenOnce'
      <4>1. \A l \in Links : \A j, k \in DOMAIN down'[l] :
              down'[l][j].kind = "confirm" /\ down'[l][j] = down'[l][k] => j = k
        <5> SUFFICES ASSUME NEW l \in Links, NEW j \in DOMAIN down'[l], NEW k \in DOMAIN down'[l],
                            down'[l][j].kind = "confirm", down'[l][j] = down'[l][k]
                     PROVE  j = k
          OBVIOUS
        <5>0. /\ j \in DOMAIN Tail(q) /\ k \in DOMAIN Tail(q)
              /\ Tail(q)[j].kind = "confirm" /\ Tail(q)[j] = Tail(q)[k]
          <6>1. l = mud
            BY <1>3
          <6> QED BY <1>3, <6>1
        <5>1. \A a, b \in DOMAIN q : q[a].kind = "confirm" /\ q[a] = q[b] => a = b
          BY <1>i, <1>1 DEF GivenOnce, q
        <5>2. /\ j + 1 \in DOMAIN q /\ k + 1 \in DOMAIN q /\ q[j + 1].kind = "confirm"
              /\ q[j + 1] = q[k + 1] /\ j \in Nat /\ k \in Nat
          BY <1>2, <5>0
        <5>3. j + 1 = k + 1
          BY <5>1, <5>2
        <5> QED BY <5>2, <5>3
      <4>2. \A l \in Links, k \in Ids, x \in Consoles :
              Confirming(l, k)' /\ k \notin left[l] => con'[x].id # k
        BY <1>i, <3>3, <3>7 DEF GivenOnce
      <4> QED BY <1>1, <4>1, <4>2 DEF GivenOnce
    <3>11. OneConsolePerId'
      <4>1. i \notin left[mud] => \A x \in Consoles : con[x].id # i
        BY <1>i, <1>1, <2>1, <2>2 DEF GivenOnce
      <4> QED BY <1>i, <1>1, <3>3, <4>1 DEF OneConsolePerId
    <3> QED BY <3>4, <3>5, <3>6, <3>9, <3>10, <3>11 DEF IInv
  <2> QED BY <2>7, <2>8
<1> QED BY <1>8, <1>9

(* The multiplexer has no link any more: its consoles have no ids, or it   *)
(* is remembered which.                                                    *)
LEMMA MudGoneKeepsIInv ==
  ASSUME IInv, MudWentDown \/ MplexCrash \/ \E c \in Consoles : MudWriteFails(c)
  PROVE  IInv'
<1>i. Shape /\ NoLinkNoId /\ EndsKept /\ OnePlace /\ LinkSlot /\ Given /\ GivenOnce
  BY DEF IInv
<1>1. /\ mud' = None
      /\ UNCHANGED <<backlog, multi, succ_err, desc, nid, phase>>
      /\ (mud = None /\ UNCHANGED <<ends, up, down>>) \/ (mud \in Links /\ Hung(mud, "mplex"))
  BY <1>i DEF MudWentDown, MplexCrash, MudWriteFails, server, wires, Shape
<1>2. crashes' \in 0..MaxCrashes
  <2>1. crashes' = crashes \/ (crashes < MaxCrashes /\ crashes' = crashes + 1)
    BY DEF MudWentDown, MplexCrash, MudWriteFails, Broken
  <2>2. crashes \in 0..MaxCrashes /\ MaxCrashes \in Nat
    BY <1>i, BoundAssumption DEF Shape
  <2> QED BY <2>1, <2>2
<1>3. /\ con' \in [Consoles -> Console]
      /\ left' \in [Links \cup {None} -> SUBSET Ids] /\ \A l \in Links : left'[l] = left[l]
      /\ \A c \in Consoles : /\ con'[c].id \in left'[None] \cup {0}
                             /\ con'[c].fptr = "none" => con'[c].id = 0
  <2> SUFFICES /\ con' \in [Consoles -> Console]
               /\ \/ left' = left \/ left' = [left EXCEPT ![None] = {}]
                  \/ left' = [left EXCEPT ![None] = Kept'] /\ Kept' \subseteq Ids
               /\ \A c \in Consoles : /\ con'[c].id \in left'[None] \cup {0}
                                      /\ con'[c].fptr = "none" => con'[c].id = 0
    BY <1>i, NoneAssumption DEF Shape
  <2>1. CASE MudWentDown
    <3>1. \A r \in Console : /\ [r EXCEPT !.fptr = "MudDown", !.id = 0] \in Console
                             /\ [r EXCEPT !.fptr = "MudDown", !.id = 0].id = 0
      <4>1. 0 \in 0..MaxIds
        BY BoundAssumption
      <4> QED BY <4>1 DEF Console
    <3>2. \A c \in Consoles : con[c] \in Console /\ Down(c) \in Console /\ Down(c).id = 0
      BY <1>i, <3>1 DEF Down, Shape
    <3>3. \A c \in Consoles : c \notin Connected => con[c].id = 0
      BY <1>i DEF Connected, NoLinkNoId
    <3>4. con' = [c \in Consoles |-> IF c \in Connected THEN Down(c) ELSE con[c]] /\ left' = left
      BY <2>1 DEF MudWentDown
    <3> QED BY <3>2, <3>3, <3>4
  <2>2. CASE MplexCrash
    <3>1. NoConsole \in Console /\ NoConsole.id = 0
      BY BoundAssumption DEF NoConsole, Console
    <3> QED BY <2>2, <3>1 DEF MplexCrash
  <2>3. CASE \E c \in Consoles : MudWriteFails(c)
    <3>1. PICK c \in Consoles : MudWriteFails(c)
      BY <2>3
    <3>2. /\ left' = [left EXCEPT ![None] = Kept']
          /\ \/ con' = con
             \/ \E r \in Console : con' = [con EXCEPT ![c] = r] /\ r.fptr # "none"
      <4>1. Closed \in Console /\ Closed.fptr # "none"
        BY BoundAssumption DEF Closed, Console
      <4>2. /\ [fptr |-> "MenuSelect", id |-> 0, hooked |-> TRUE] \in Console
            /\ [fptr |-> "MenuSelect", id |-> 0, hooked |-> TRUE].fptr # "none"
        BY BoundAssumption DEF Console
      <4> QED BY <3>1, <4>1, <4>2 DEF MudWriteFails
    <3>3. /\ con' \in [Consoles -> Console]
          /\ \A x \in Consoles : con'[x].fptr = "none" => con'[x].id = 0
      BY <1>i, <3>2 DEF Shape, NoLinkNoId
    <3>4. /\ \A x \in Consoles : con'[x].id \in Ids \cup {0}
          /\ Kept' = { con'[x].id : x \in Consoles } \ {0}
      BY <3>3, BoundAssumption DEF Kept, Console, Ids
    <3>5. Kept' \subseteq Ids /\ \A x \in Consoles : con'[x].id \in Kept' \cup {0}
      BY <3>4
    <3>6. left'[None] = Kept'
      BY <1>i, <3>2 DEF Shape
    <3> QED BY <3>2, <3>3, <3>5, <3>6
  <2> QED BY <2>1, <2>2, <2>3
<1>4. /\ ends' \in [Links -> SUBSET {"mplex", "server"}]
      /\ \A l \in Links : /\ "mplex" \notin ends'[l]
                          /\ "server" \in ends'[l] <=> "server" \in ends[l]
  <2>1. CASE mud = None /\ UNCHANGED <<ends, up, down>>
    BY <1>i, <2>1, NoneAssumption DEF Shape, EndsKept
  <2>2. CASE mud \in Links /\ Hung(mud, "mplex")
    <3>1. ends' = [ends EXCEPT ![mud] = ends[mud] \ {"mplex"}]
      BY <2>2 DEF Hung
    <3> QED BY <1>i, <2>2, <3>1 DEF Shape, EndsKept
  <2> QED BY <1>1, <2>1, <2>2
<1>5. /\ up' \in [Links -> Seq(Messages)] /\ down' \in [Links -> Seq(Messages)]
      /\ \A l \in Links : /\ up'[l] = up[l] \/ up'[l] = << >>
                          /\ down'[l] = << >>
                          /\ "server" \notin ends'[l] => up'[l] = << >>
  <2>0. << >> \in Seq(Messages)
    OBVIOUS
  <2>1. CASE mud = None /\ UNCHANGED <<ends, up, down>>
    BY <1>i, <2>1, NoneAssumption DEF Shape, EndsKept
  <2>2. CASE mud \in Links /\ Hung(mud, "mplex")
    <3>1. /\ up' = up \/ up' = [up EXCEPT ![mud] = << >>]
          /\ down' = [down EXCEPT ![mud] = << >>]
      BY <2>2 DEF Hung
    <3>2. \A l \in Links : "server" \notin ends[l] => up[l] = << >>
      BY <1>i DEF EndsKept
    <3>3. \A l \in Links : l # mud => down[l] = << >>
      BY <1>i DEF EndsKept
    <3>4. up \in [Links -> Seq(Messages)] /\ down \in [Links -> Seq(Messages)]
      BY <1>i DEF Shape
    <3> QED BY <1>4, <2>0, <2>2, <3>1, <3>2, <3>3, <3>4
  <2> QED BY <1>1, <2>1, <2>2
<1>6. Shape'
  BY <1>i, <1>1, <1>2, <1>3, <1>4, <1>5 DEF Shape
<1>7. NoLinkNoId' /\ OneConsolePerId'
  BY <1>1, <1>3 DEF NoLinkNoId, OneConsolePerId
<1>8. EndsKept' /\ OnePlace' /\ LinkSlot'
  BY <1>i, <1>1, <1>4, <1>5, NoneAssumption DEF EndsKept, OnePlace, LinkSlot
<1>9. \A l \in Links, i \in Ids : Used(l, i)' => Used(l, i)
  BY <1>1, <1>3, <1>5, NoneAssumption DEF Used, Using, Confirming
<1>10. Given'
  BY <1>i, <1>1, <1>4, <1>9 DEF Given
<1>11. GivenOnce'
  BY <1>5 DEF GivenOnce, Confirming
<1> QED BY <1>6, <1>7, <1>8, <1>10, <1>11 DEF IInv

(* A new link: nothing is under way on it but requests and farewells, and  *)
(* the ids of those and of the consoles are left from another link.        *)
LEMMA MudUpKeepsIInv ==
  ASSUME IInv, NEW l \in Links, TestMudUp(l)
  PROVE  IInv'
<1>i. Shape /\ NoLinkNoId /\ EndsKept /\ OnePlace /\ LinkSlot /\ Given /\ GivenOnce
  BY DEF IInv
<1>1. /\ mud = None /\ ends[l] = {} /\ mud' = l
      /\ \A i \in Ids : desc[i] # None => desc[i].link # l
      /\ ends' = [ends EXCEPT ![l] = {"mplex", "server"}]
      /\ backlog' = Append(backlog, l)
      /\ UNCHANGED <<down, multi, succ_err, desc, nid, phase, crashes>>
  BY DEF TestMudUp
<1>0. /\ left' \in [Links \cup {None} -> SUBSET Ids]
      /\ left'[l] = left[None] /\ \A k \in Links : k # l => left'[k] = left[k]
  BY <1>i, NoneAssumption DEF TestMudUp, Shape
<1>2. \A c \in Consoles : /\ con[c].id \in left'[l] \cup {0} /\ con[c] \in Console
                          /\ con[c].fptr = "none" => con[c].id = 0
  BY <1>i, <1>0, <1>1 DEF NoLinkNoId, Shape
<1>3. /\ con' \in [Consoles -> Console]
      /\ \A c \in Consoles : /\ con'[c].id \in left'[l] \cup {0}
                             /\ con'[c].fptr = "none" => con'[c].id = 0
  <2>1. \A r \in Console : /\ [r EXCEPT !.fptr = "PlayLoop"] \in Console
                           /\ [r EXCEPT !.fptr = "PlayLoop"].id = r.id
                           /\ [r EXCEPT !.fptr = "PlayLoop"].fptr # "none"
    BY DEF Console
  <2>2. NoConsole \in Console /\ NoConsole.id = 0
    BY BoundAssumption DEF NoConsole, Console
  <2>3. con' = [c \in Consoles |-> IF c \in Unhooked THEN NoConsole
                                   ELSE IF c \in Connected THEN [con[c] EXCEPT !.fptr = "PlayLoop"]
                                   ELSE con[c]]
    BY DEF TestMudUp
  <2> QED BY <1>2, <2>1, <2>2, <2>3
<1>4. PICK ms \in Farewells :
        up' = [up EXCEPT ![l] = [k \in 1..Cardinality(Asking) |-> Msg("request", 0)] \o ms]
  BY DEF TestMudUp
<1>5. ms \in Seq(Messages) /\ \A n \in DOMAIN ms : ms[n].id \in left'[l] \cup {0}
  BY <1>2, FarewellShape
<1> DEFINE rs == [k \in 1..Cardinality(Asking) |-> Msg("request", 0)]
<1>6. rs \in Seq(Messages) /\ \A j \in DOMAIN rs : rs[j].id = 0
  <2>1. Cardinality(Asking) \in Nat
    BY FiniteAssumption, FS_Subset, FS_CardinalityType DEF Asking, Connected
  <2>2. Msg("request", 0) \in Messages /\ Msg("request", 0).id = 0
    BY MessageShape
  <2>3. rs \in [1..Cardinality(Asking) -> Messages]
    BY <2>2
  <2> QED BY <2>1, <2>2, <2>3, SeqDef
<1> HIDE DEF rs
<1>7. /\ rs \o ms \in Seq(Messages)
      /\ \A j \in DOMAIN (rs \o ms) : (rs \o ms)[j].id \in left'[l] \cup {0}
  BY <1>5, <1>6, ConcatShape
<1>8. /\ up' \in [Links -> Seq(Messages)] /\ \A j \in DOMAIN up'[l] : up'[l][j].id \in left'[l] \cup {0}
      /\ \A k \in Links : k # l => up'[k] = up[k]
  <2>1. up \in [Links -> Seq(Messages)] /\ up' = [up EXCEPT ![l] = rs \o ms]
    BY <1>i, <1>4 DEF Shape, rs
  <2> QED BY <1>7, <2>1
<1>9. /\ backlog \in Seq(Links) /\ backlog' \in Seq(Links)
      /\ \A j \in DOMAIN backlog' : \/ j \in DOMAIN backlog /\ backlog'[j] = backlog[j]
                                    \/ j = Len(backlog) + 1 /\ backlog'[j] = l
  <2>1. backlog \in Seq(Links)
    BY <1>i DEF Shape
  <2>2. /\ backlog' \in Seq(Links) /\ Len(backlog') = Len(backlog) + 1
        /\ \A j \in 1..Len(backlog) : backlog'[j] = backlog[j]
        /\ backlog'[Len(backlog) + 1] = l
    BY <1>1, <2>1, AppendProperties
  <2>3. Len(backlog) \in Nat /\ DOMAIN backlog = 1..Len(backlog) /\ DOMAIN backlog' = 1..Len(backlog')
    BY <2>1, <2>2, LenProperties
  <2> QED BY <2>1, <2>2, <2>3
<1>10. /\ \A j \in DOMAIN backlog : backlog[j] # l
       /\ \A s \in Slots : multi[s] # l
       /\ down[l] = << >>
  BY <1>i, <1>1 DEF EndsKept
<1>11. Shape'
  BY <1>i, <1>0, <1>1, <1>3, <1>8, <1>9 DEF Shape
<1>12. NoLinkNoId' /\ OneConsolePerId'
  BY <1>1, <1>3, NoneAssumption DEF NoLinkNoId, OneConsolePerId
<1>13. EndsKept'
  <2>1. ends \in [Links -> SUBSET {"mplex", "server"}]
    BY <1>i DEF Shape
  <2>2. ends'[l] = {"mplex", "server"} /\ \A k \in Links : k # l => ends'[k] = ends[k]
    BY <1>1, <2>1
  <2> QED BY <1>i, <1>1, <1>8, <1>9, <2>2, NoneAssumption DEF EndsKept
<1>14. OnePlace' /\ LinkSlot'
  BY <1>i, <1>1, <1>9, <1>10 DEF OnePlace, LinkSlot
<1>15. \A k \in Links, i \in Ids : Used(k, i)' => Used(k, i) /\ k # l
  BY <1>0, <1>1, <1>3, <1>8, <1>10, MessageShape DEF Used, Using, Confirming
<1>16. Given'
  <2>1. \A k \in Links : k # l => ends'[k] = ends[k]
    BY <1>i, <1>1 DEF Shape
  <2> QED BY <1>i, <1>1, <1>15, <2>1 DEF Given
<1>17. GivenOnce'
  <2>1. \A k \in Links : down[k] = << >>
    BY <1>i, <1>1, NoneAssumption DEF EndsKept
  <2> QED BY <1>1, <2>1 DEF GivenOnce, Confirming
<1> QED BY <1>11, <1>12, <1>13, <1>14, <1>16, <1>17 DEF IInv

-----------------------------------------------------------------------------
(* The server closes a link that nothing of its own refers to any more.    *)
LEMMA HangingUpKeepsIInv ==
  ASSUME IInv, NEW l \in Links, Hung(l, "server"), UNCHANGED <<con, mud, left, desc, nid>>,
         multi' \in [Slots -> Links \cup {None}],
         \A s \in Slots : multi'[s] \in {multi[s], None} /\ multi'[s] # l,
         backlog' \in Seq(Links),
         \E k \in {0, 1} : \A j \in DOMAIN backlog' :
           /\ j \in Nat /\ j + k \in DOMAIN backlog
           /\ backlog'[j] = backlog[j + k] /\ backlog'[j] # l,
         succ_err' \in [Slots -> 0..(MaxErrors + 1)],
         phase' \in {"read", "commands", "events"}, crashes' \in 0..MaxCrashes
  PROVE  IInv'
<1>i. /\ Shape /\ NoLinkNoId /\ EndsKept /\ OnePlace /\ LinkSlot /\ Given /\ GivenOnce
      /\ OneConsolePerId
  BY DEF IInv
<1>1. /\ ends' = [ends EXCEPT ![l] = ends[l] \ {"server"}]
      /\ up' = [up EXCEPT ![l] = << >>]
      /\ down' = down \/ (ends[l] = {"server"} /\ down' = [down EXCEPT ![l] = << >>])
  BY DEF Hung
<1>2. /\ ends' \in [Links -> SUBSET {"mplex", "server"}]
      /\ \A k \in Links : /\ k # l => ends'[k] = ends[k]
                          /\ "mplex" \in ends'[k] <=> "mplex" \in ends[k]
      /\ "server" \notin ends'[l]
  BY <1>i, <1>1 DEF Shape
<1>3. /\ up' \in [Links -> Seq(Messages)] /\ up'[l] = << >>
      /\ \A k \in Links : k # l => up'[k] = up[k]
  <2>1. << >> \in Seq(Messages) /\ up \in [Links -> Seq(Messages)]
    BY <1>i DEF Shape
  <2> QED BY <1>1, <2>1
<1>4. down' = down
  <2>1. ASSUME ends[l] = {"server"} PROVE down[l] = << >>
    BY <1>i, <2>1 DEF EndsKept
  <2>2. down \in [Links -> Seq(Messages)]
    BY <1>i DEF Shape
  <2> QED BY <1>1, <2>1, <2>2
<1>5. Shape'
  BY <1>i, <1>2, <1>3, <1>4 DEF Shape
<1>6. NoLinkNoId' /\ GivenOnce' /\ OneConsolePerId'
  BY <1>i, <1>4 DEF NoLinkNoId, GivenOnce, Confirming, OneConsolePerId
<1>7. \A j \in DOMAIN backlog' : /\ backlog'[j] # l
                                  /\ \E n \in DOMAIN backlog : backlog'[j] = backlog[n]
  OBVIOUS
<1>8. EndsKept'
  <2>1. \A k \in Links : /\ "mplex" \in ends'[k] <=> mud = k
                         /\ "mplex" \notin ends'[k] => down'[k] = << >>
                         /\ "server" \notin ends'[k] => up'[k] = << >>
    BY <1>i, <1>2, <1>3, <1>4 DEF EndsKept
  <2>2. ASSUME NEW k \in Links, (\E s \in Slots : multi'[s] = k) \/ (\E j \in DOMAIN backlog' : backlog'[j] = k)
        PROVE  "server" \in ends'[k]
    <3>1. k # l /\ ((\E s \in Slots : multi[s] = k) \/ (\E j \in DOMAIN backlog : backlog[j] = k))
      BY <1>7, <2>2, NoneAssumption
    <3> QED BY <1>i, <1>2, <3>1 DEF EndsKept
  <2> QED BY <2>1, <2>2 DEF EndsKept
<1>9. OnePlace'
  <2>1. \A j, k \in DOMAIN backlog' : backlog'[j] = backlog'[k] => j = k
    <3> SUFFICES ASSUME NEW j \in DOMAIN backlog', NEW k \in DOMAIN backlog', backlog'[j] = backlog'[k]
                 PROVE  j = k
      OBVIOUS
    <3>1. \A a, b \in DOMAIN backlog : backlog[a] = backlog[b] => a = b
      BY <1>i DEF OnePlace
    <3>2. PICK n \in {0, 1} : /\ j \in Nat /\ j + n \in DOMAIN backlog /\ backlog'[j] = backlog[j + n]
                              /\ k \in Nat /\ k + n \in DOMAIN backlog /\ backlog'[k] = backlog[k + n]
      OBVIOUS
    <3>3. j + n = k + n
      BY <3>1, <3>2
    <3> QED BY <3>2, <3>3
  <2>2. \A s \in Slots, j \in DOMAIN backlog' : multi'[s] # backlog'[j]
    <3>1. \A j \in DOMAIN backlog' : backlog'[j] \in Links
      <4>1. DOMAIN backlog' = 1..Len(backlog')
        BY LenProperties
      <4> QED BY <4>1, ElementOfSeq
    <3> QED BY <1>i, <1>7, <3>1, NoneAssumption DEF OnePlace
  <2>3. \A s, t \in Slots : multi'[s] = multi'[t] /\ multi'[s] # None => s = t
    BY <1>i DEF OnePlace
  <2> QED BY <2>1, <2>2, <2>3 DEF OnePlace
<1>10. LinkSlot'
  <2>1. \A i \in Ids : desc[i] # None => desc[i].link \in Links
    BY <1>i DEF Shape
  <2> QED BY <1>i, <1>7, <2>1, NoneAssumption DEF LinkSlot
<1>11. \A k \in Links, i \in Ids : Used(k, i)' => k = l \/ Used(k, i)
  BY <1>3, <1>4 DEF Used, Using, Confirming
<1>12. Given'
  BY <1>i, <1>2, <1>11 DEF Given
<1> QED BY <1>5, <1>6, <1>8, <1>9, <1>10, <1>12 DEF IInv

LEMMA AcceptKeepsIInv ==
  ASSUME IInv, Accept
  PROVE  IInv'
<1>i. /\ Shape /\ NoLinkNoId /\ EndsKept /\ OnePlace /\ LinkSlot /\ Given /\ GivenOnce
      /\ OneConsolePerId
  BY DEF IInv
<1> DEFINE l == Head(backlog)
<1>1. /\ backlog # << >> /\ backlog' = Tail(backlog) /\ phase' = "read"
      /\ UNCHANGED <<succ_err, desc, nid, con, mud, left, crashes>>
  BY DEF Accept, Silent, mplex
<1>2. /\ backlog' \in Seq(Links) /\ l \in Links /\ 1 \in DOMAIN backlog /\ l = backlog[1]
      /\ \A j \in DOMAIN backlog' :
           j + 1 \in DOMAIN backlog /\ j \in Nat \ {0} /\ backlog'[j] = backlog[j + 1]
  <2>1. backlog \in Seq(Links)
    BY <1>i DEF Shape
  <2> QED BY <1>1, <2>1, TailShape
<1>3. \A j \in DOMAIN backlog' : backlog'[j] # l
  <2> SUFFICES ASSUME NEW j \in DOMAIN backlog', backlog'[j] = l PROVE FALSE
    OBVIOUS
  <2>1. \A a, b \in DOMAIN backlog : backlog[a] = backlog[b] => a = b
    BY <1>i DEF OnePlace
  <2>2. j + 1 = 1
    BY <1>2, <2>1
  <2> QED BY <1>2, <2>2
<1>4. \A s \in Slots : multi[s] # l
  BY <1>i, <1>2 DEF OnePlace
<1>5. CASE FreeSlots = {}
  <2>1. Hung(l, "server") /\ multi' = multi
    BY <1>5 DEF Accept
  <2> HIDE DEF l
  <2>2. \A j \in DOMAIN backlog' : /\ j \in Nat /\ j + 1 \in DOMAIN backlog
                                   /\ backlog'[j] = backlog[j + 1] /\ backlog'[j] # l
    BY <1>2, <1>3
  <2>3. /\ multi' \in [Slots -> Links \cup {None}] /\ succ_err' \in [Slots -> 0..(MaxErrors + 1)]
        /\ crashes' \in 0..MaxCrashes
        /\ \A s \in Slots : multi'[s] \in {multi[s], None} /\ multi'[s] # l
    BY <1>i, <1>1, <1>4, <2>1 DEF Shape
  <2>4. \E k \in {0, 1} : \A j \in DOMAIN backlog' :
           /\ j \in Nat /\ j + k \in DOMAIN backlog
           /\ backlog'[j] = backlog[j + k] /\ backlog'[j] # l
    BY <2>2
  <2> QED BY <1>1, <1>2, <2>1, <2>3, <2>4, HangingUpKeepsIInv
<1>6. CASE FreeSlots # {}
  <2>1. UNCHANGED <<ends, up, down>>
    BY <1>6 DEF Accept, wires
  <2>2. PICK s \in Slots : multi' = [multi EXCEPT ![s] = l]
    BY <1>6 DEF Accept, FreeSlots
  <2> HIDE DEF l
  <2>3. /\ multi' \in [Slots -> Links \cup {None}] /\ multi'[s] = l
        /\ \A t \in Slots : t # s => multi'[t] = multi[t]
    BY <1>i, <1>2, <2>2 DEF Shape
  <2>4. Shape'
    BY <1>i, <1>1, <1>2, <2>1, <2>3 DEF Shape
  <2>5. NoLinkNoId' /\ GivenOnce' /\ OneConsolePerId' /\ Given'
    BY <1>i, <1>1, <2>1 DEF NoLinkNoId, GivenOnce, Confirming, OneConsolePerId, Given, Used, Using
  <2>6. EndsKept'
    BY <1>i, <1>1, <1>2, <2>1, <2>3 DEF EndsKept
  <2>7. OnePlace'
    <3>1. \A j, k \in DOMAIN backlog' : backlog'[j] = backlog'[k] => j = k
      <4> SUFFICES ASSUME NEW j \in DOMAIN backlog', NEW k \in DOMAIN backlog', backlog'[j] = backlog'[k]
                   PROVE  j = k
        OBVIOUS
      <4>1. \A a, b \in DOMAIN backlog : backlog[a] = backlog[b] => a = b
        BY <1>i DEF OnePlace
      <4>2. j + 1 = k + 1
        BY <1>2, <4>1
      <4> QED BY <1>2, <4>2
    <3>2. \A t, v \in Slots : multi'[t] = multi'[v] /\ multi'[t] # None => t = v
      BY <1>i, <1>4, <2>3 DEF OnePlace
    <3>3. \A t \in Slots, j \in DOMAIN backlog' : multi'[t] # backlog'[j]
      BY <1>i, <1>2, <1>3, <2>3 DEF OnePlace
    <3> QED BY <3>1, <3>2, <3>3 DEF OnePlace
  <2>8. LinkSlot'
    BY <1>i, <1>1, <1>2, <2>3 DEF LinkSlot
  <2> QED BY <2>4, <2>5, <2>6, <2>7, <2>8 DEF IInv
<1> QED BY <1>5, <1>6

(* Phases of game_event in which nothing else happens.                     *)
LEMMA PhasesKeepIInv ==
  ASSUME IInv, NoAccept \/ EndWait
  PROVE  IInv'
<1>1. con \in [Consoles -> Console] /\ NoLinkNoId
  BY DEF IInv, Shape
<1>2. /\ UNCHANGED <<con, mud, left, ends, up, down, backlog, multi, succ_err, desc, nid, crashes>>
      /\ phase' \in {"read", "commands", "events"}
  BY DEF NoAccept, EndWait, Silent, mplex, wires
<1>3. /\ con' \in [Consoles -> Console]
      /\ \A c \in Consoles : /\ con'[c].id \in {0, con[c].id}
                             /\ con'[c].fptr = "none" => con'[c].id = 0
  BY <1>1, <1>2 DEF NoLinkNoId
<1> QED BY <1>2, <1>3, SilentKeepsIInv

(* The session of an id is closed, or kept, and consoles are told of it.   *)
LEMMA SessionsKeepIInv ==
  ASSUME IInv, UNCHANGED <<con, mud, left, ends, multi, backlog, nid, crashes>>,
         desc' \in [Ids -> [slot : Slots, link : Links] \cup {None}],
         \A i \in Ids : desc'[i] \in {None, desc[i]},
         succ_err' \in [Slots -> 0..(MaxErrors + 1)],
         phase' \in {"read", "commands", "events"},
         up' = up \/ \E l \in Links : up[l] # << >> /\ up' = [up EXCEPT ![l] = Tail(up[l])],
         \/ down' = down
         \/ \E l \in Links \cup {None}, i \in Ids :
              down' = Written(down, l, "mplex", <<Msg("terminate", i)>>)
  PROVE  IInv'
<1>i. Shape /\ NoLinkNoId /\ EndsKept
  BY DEF IInv
<1>1. /\ up' \in [Links -> Seq(Messages)]
      /\ \A l \in Links : "server" \notin ends[l] => up'[l] = << >>
      /\ \A l \in Links : \A j \in DOMAIN up'[l] : up'[l][j].id \in left[l] \cup {0} \/ Used(l, up'[l][j].id)
  <2>1. up \in [Links -> Seq(Messages)]
    BY <1>i DEF Shape
  <2>2. CASE up' = up
    BY <1>i, <2>1, <2>2 DEF EndsKept, Used, Using
  <2>3. CASE \E l \in Links : up[l] # << >> /\ up' = [up EXCEPT ![l] = Tail(up[l])]
    <3>1. PICK l \in Links : up[l] # << >> /\ up' = [up EXCEPT ![l] = Tail(up[l])]
      BY <2>3
    <3>2. /\ Tail(up[l]) \in Seq(Messages)
          /\ \A j \in DOMAIN Tail(up[l]) : j + 1 \in DOMAIN up[l] /\ Tail(up[l])[j] = up[l][j + 1]
      <4>1. up[l] \in Seq(Messages)
        BY <2>1
      <4> QED BY <3>1, <4>1, TailShape
    <3>3. /\ up' \in [Links -> Seq(Messages)] /\ up'[l] = Tail(up[l])
          /\ \A k \in Links : k # l => up'[k] = up[k]
      BY <2>1, <3>1, <3>2
    <3>4. "server" \in ends[l]
      BY <1>i, <3>1 DEF EndsKept
    <3>5. \A k \in Links : \A j \in DOMAIN up'[k] : \E n \in DOMAIN up[k] : up'[k][j] = up[k][n]
      <4>1. \A j \in DOMAIN up'[l] : \E n \in DOMAIN up[l] : up'[l][j] = up[l][n]
        BY <3>2, <3>3
      <4>2. \A k \in Links : k # l => \A j \in DOMAIN up'[k] : \E n \in DOMAIN up[k] : up'[k][j] = up[k][n]
        BY <3>3
      <4> QED BY <4>1, <4>2
    <3>6. \A k \in Links : "server" \notin ends[k] => up'[k] = << >>
      BY <1>i, <3>3, <3>4 DEF EndsKept
    <3> QED BY <3>3, <3>5, <3>6 DEF Used, Using
  <2> QED BY <2>2, <2>3
<1>2. /\ down' \in [Links -> Seq(Messages)]
      /\ \A l \in Links : "mplex" \notin ends[l] => down'[l] = << >>
      /\ \A l \in Links : \A j \in DOMAIN down'[l] : down'[l][j].kind = "confirm" =>
           j \in DOMAIN down[l] /\ down'[l][j] = down[l][j]
  <2>1. down \in [Links -> Seq(Messages)] /\ ends \in [Links -> SUBSET {"mplex", "server"}]
    BY <1>i DEF Shape
  <2>2. CASE down' = down
    BY <1>i, <2>1, <2>2 DEF EndsKept
  <2>3. CASE \E l \in Links \cup {None}, i \in Ids :
               down' = Written(down, l, "mplex", <<Msg("terminate", i)>>)
    <3>1. PICK l \in Links \cup {None}, i \in Ids :
                 down' = Written(down, l, "mplex", <<Msg("terminate", i)>>)
      BY <2>3
    <3>2. /\ <<Msg("terminate", i)>> \in Seq(Messages)
          /\ \A n \in DOMAIN <<Msg("terminate", i)>> : <<Msg("terminate", i)>>[n].kind = "terminate"
      BY MessageShape
    <3>3. Adds(down, down', l, "mplex", <<Msg("terminate", i)>>)
      BY <2>1, <3>1, <3>2, WrittenShape
    <3>4. \A k \in Links : "mplex" \notin ends[k] => down'[k] = down[k] /\ down[k] = << >>
      BY <1>i, <3>3 DEF Adds, EndsKept
    <3>5. \A k \in Links : \A j \in DOMAIN down'[k] : down'[k][j].kind = "confirm" =>
            j \in DOMAIN down[k] /\ down'[k][j] = down[k][j]
      <4> SUFFICES ASSUME NEW k \in Links, NEW j \in DOMAIN down'[k], down'[k][j].kind = "confirm"
                   PROVE  j \in DOMAIN down[k] /\ down'[k][j] = down[k][j]
        OBVIOUS
      <4>1. \/ j \in DOMAIN down[k] /\ down'[k][j] = down[k][j]
            \/ \E n \in DOMAIN <<Msg("terminate", i)>> : down'[k][j] = <<Msg("terminate", i)>>[n]
        BY <3>3 DEF Adds
      <4> QED BY <3>2, <4>1
    <3> QED BY <3>3, <3>4, <3>5 DEF Adds
  <2> QED BY <2>2, <2>3
<1>3. Shape'
  BY <1>i, <1>1, <1>2 DEF Shape
<1>4. \A l \in Links : \E k \in {0, 1} : \A j \in DOMAIN down'[l] :
        down'[l][j].kind = "confirm" => j + k \in DOMAIN down[l] /\ down'[l][j] = down[l][j + k]
  <2> SUFFICES ASSUME NEW l \in Links, NEW j \in DOMAIN down'[l], down'[l][j].kind = "confirm"
               PROVE  j + 0 \in DOMAIN down[l] /\ down'[l][j] = down[l][j + 0]
    OBVIOUS
  <2>1. down'[l] \in Seq(Messages)
    BY <1>2
  <2>2. j \in Nat
    BY <2>1, LenProperties
  <2>3. j + 0 = j
    BY <2>2
  <2> QED BY <1>2, <2>3
<1>5. \A c \in Consoles : /\ con'[c].id \in {0, con[c].id}
                          /\ con'[c].fptr = "none" => con'[c].id = 0
  BY <1>i DEF NoLinkNoId
<1>6. \A l \in Links : /\ "server" \notin ends[l] => up'[l] = << >>
                       /\ "mplex" \notin ends[l] => down'[l] = << >>
  BY <1>1, <1>2
<1> QED BY <1>1, <1>3, <1>4, <1>5, <1>6, FewerKeepIInv

(* cMultiHook::Unhook takes the link out of its slot.                      *)
LEMMA UnhookKeepsIInv ==
  ASSUME IInv, NEW s \in Slots, multi[s] # None, Unhook(s),
         UNCHANGED <<con, mud, left, backlog, succ_err, desc, nid, phase>>, crashes' \in 0..MaxCrashes
  PROVE  IInv'
<1>i. Shape /\ OnePlace
  BY DEF IInv
<1> DEFINE l == multi[s]
<1>1. l \in Links /\ Hung(l, "server") /\ multi' = [multi EXCEPT ![s] = None]
  BY <1>i DEF Unhook, Shape
<1>2. multi' \in [Slots -> Links \cup {None}] /\ \A t \in Slots : multi'[t] = IF t = s THEN None ELSE multi[t]
  BY <1>i, <1>1 DEF Shape
<1>3. \A t \in Slots : multi'[t] \in {multi[t], None} /\ multi'[t] # l
  BY <1>i, <1>1, <1>2 DEF OnePlace
<1>4. /\ backlog' \in Seq(Links)
      /\ succ_err' \in [Slots -> 0..(MaxErrors + 1)]
      /\ phase' \in {"read", "commands", "events"}
  BY <1>i DEF Shape
<1>5. \E k \in {0, 1} : \A j \in DOMAIN backlog' :
           /\ j \in Nat /\ j + k \in DOMAIN backlog
           /\ backlog'[j] = backlog[j + k] /\ backlog'[j] # l
  <2> SUFFICES ASSUME NEW j \in DOMAIN backlog
               PROVE  j \in Nat /\ j + 0 \in DOMAIN backlog /\ backlog[j] = backlog[j + 0] /\ backlog[j] # l
    OBVIOUS
  <2>1. DOMAIN backlog = 1..Len(backlog) /\ Len(backlog) \in Nat
    BY <1>4, LenProperties
  <2>2. j \in Nat /\ j + 0 = j
    BY <2>1
  <2> QED BY <1>i, <2>2 DEF OnePlace
<1> HIDE DEF l
<1> QED BY <1>1, <1>2, <1>3, <1>4, <1>5, HangingUpKeepsIInv

LEMMA ServerKeepsIInv ==
  ASSUME IInv,
         \/ \E s \in Slots : Known(s) \/ Unknown(s) \/ EndOfStream(s) \/ WriteFails(s)
         \/ \E i \in Ids : CloseSession(i)
         \/ MultiClear
  PROVE  IInv'
<1>i. Shape
  BY DEF IInv
<1>0. /\ desc \in [Ids -> [slot : Slots, link : Links] \cup {None}]
      /\ succ_err \in [Slots -> 0..(MaxErrors + 1)]
      /\ phase \in {"read", "commands", "events"}
      /\ multi \in [Slots -> Links \cup {None}]
      /\ crashes \in 0..MaxCrashes
  BY <1>i DEF Shape
<1>1. ASSUME NEW s \in Slots, Known(s) PROVE IInv'
  <2>1. /\ UNCHANGED <<con, mud, left, ends, multi, backlog, nid, phase, crashes, down>>
        /\ multi[s] \in Links /\ up[multi[s]] # << >>
        /\ up' = [up EXCEPT ![multi[s]] = Tail(up[multi[s]])]
        /\ succ_err' = [succ_err EXCEPT ![s] = 0]
        /\ desc' = desc \/ \E i \in Ids : desc' = [desc EXCEPT ![i] = None]
    <3>1. /\ UNCHANGED <<con, mud, left, ends, multi, backlog, nid, phase, crashes, down>>
          /\ multi[s] \in Links /\ up[multi[s]] # << >>
          /\ up' = [up EXCEPT ![multi[s]] = Tail(up[multi[s]])]
          /\ succ_err' = [succ_err EXCEPT ![s] = 0]
      BY <1>0, <1>1 DEF Known, Reading, Received, Silent, mplex
    <3>2. Head(up[multi[s]]).id \in {0} \cup Ids
      <4>1. up[multi[s]] \in Seq(Messages)
        BY <1>i, <3>1 DEF Shape
      <4> QED BY <3>1, <4>1, TailShape, MessageShape
    <3>3. desc' = desc \/ \E i \in Ids : desc' = [desc EXCEPT ![i] = None]
      BY <1>1, <3>2 DEF Known
    <3> QED BY <3>1, <3>3
  <2>2. /\ desc' \in [Ids -> [slot : Slots, link : Links] \cup {None}]
        /\ \A i \in Ids : desc'[i] \in {None, desc[i]}
    <3>1. CASE desc' = desc
      BY <1>0, <3>1
    <3>2. CASE \E i \in Ids : desc' = [desc EXCEPT ![i] = None]
      BY <1>0, <3>2
    <3> QED BY <2>1, <3>1, <3>2
  <2>3. succ_err' \in [Slots -> 0..(MaxErrors + 1)]
    BY <1>0, <2>1, BoundAssumption
  <2> QED BY <1>0, <2>1, <2>2, <2>3, SessionsKeepIInv
<1>2. ASSUME NEW s \in Slots, Unknown(s) PROVE IInv'
  <2>1. /\ UNCHANGED <<con, mud, left, backlog, desc, nid, phase, crashes>>
        /\ multi[s] # None /\ multi[s] \in Links /\ up[multi[s]] # << >>
    BY <1>0, <1>2 DEF Unknown, Reading, Silent, mplex
  <2>2. CASE succ_err[s] > MaxErrors
    BY <1>0, <1>2, <2>1, <2>2, UnhookKeepsIInv DEF Unknown
  <2>3. CASE ~(succ_err[s] > MaxErrors)
    <3>1. /\ UNCHANGED <<ends, down, multi>> /\ succ_err' = [succ_err EXCEPT ![s] = succ_err[s] + 1]
          /\ up' = [up EXCEPT ![multi[s]] = Tail(up[multi[s]])]
      BY <1>2, <2>3 DEF Unknown, Received
    <3>2. succ_err' \in [Slots -> 0..(MaxErrors + 1)]
      BY <1>0, <2>3, <3>1, BoundAssumption
    <3>3. desc' \in [Ids -> [slot : Slots, link : Links] \cup {None}] /\ \A i \in Ids : desc'[i] \in {None, desc[i]}
      BY <1>0, <2>1
    <3> QED BY <1>0, <2>1, <3>1, <3>2, <3>3, SessionsKeepIInv
  <2> QED BY <2>2, <2>3
<1>3. ASSUME NEW s \in Slots, EndOfStream(s) \/ WriteFails(s) PROVE IInv'
  <2>1. /\ multi[s] # None /\ Unhook(s)
        /\ UNCHANGED <<con, mud, left, backlog, succ_err, desc, nid, phase>>
    BY <1>3 DEF EndOfStream, WriteFails, Silent, mplex
  <2>2. crashes' \in 0..MaxCrashes
    BY <1>0, <1>3, BoundAssumption DEF EndOfStream, WriteFails, Silent, Broken
  <2> QED BY <2>1, <2>2, UnhookKeepsIInv
<1>4. ASSUME NEW i \in Ids, CloseSession(i) PROVE IInv'
  <2>1. /\ UNCHANGED <<con, mud, left, ends, multi, backlog, nid, phase, crashes, up, succ_err>>
        /\ desc[i] # None
        /\ desc' = [desc EXCEPT ![i] = None]
        /\ down' = Written(down, multi[desc[i].slot], "mplex", <<Msg("terminate", i)>>)
    BY <1>4 DEF CloseSession, Silent, mplex, Notice
  <2>2. multi[desc[i].slot] \in Links \cup {None}
    BY <1>0, <2>1
  <2>3. desc' \in [Ids -> [slot : Slots, link : Links] \cup {None}] /\ \A k \in Ids : desc'[k] \in {None, desc[k]}
    BY <1>0, <2>1
  <2> QED BY <1>0, <2>1, <2>2, <2>3, SessionsKeepIInv
<1>5. ASSUME MultiClear PROVE IInv'
  <2>1. /\ UNCHANGED <<con, mud, left, ends, up, down, multi, backlog, nid, crashes, succ_err>>
        /\ desc' = Cleared /\ phase' \in {"read", "commands", "events"}
    BY <1>5 DEF MultiClear, Silent, mplex, wires
  <2>2. desc' \in [Ids -> [slot : Slots, link : Links] \cup {None}] /\ \A k \in Ids : desc'[k] \in {None, desc[k]}
    <3> DEFINE E(i) == IF desc[i] = None THEN None
                       ELSE IF multi[desc[i].slot] = None THEN None ELSE desc[i]
    <3>1. \A i \in Ids : E(i) \in {None, desc[i]}
      OBVIOUS
    <3>2. desc' = [i \in Ids |-> E(i)]
      BY <2>1 DEF Cleared
    <3> HIDE DEF E
    <3>3. \A i \in Ids : desc'[i] = E(i) /\ E(i) \in [slot : Slots, link : Links] \cup {None}
      BY <1>0, <3>1, <3>2
    <3> QED BY <3>1, <3>2, <3>3
  <2> QED BY <1>0, <2>1, <2>2, SessionsKeepIInv
<1> QED BY <1>1, <1>2, <1>3, <1>4, <1>5

(* A new descriptor: its id is used by nobody yet.                         *)
LEMMA RequestKeepsIInv ==
  ASSUME IInv, NEW s \in Slots, Request(s)
  PROVE  IInv'
<1>i. /\ Shape /\ NoLinkNoId /\ EndsKept /\ OnePlace /\ LinkSlot /\ Given /\ GivenOnce
      /\ OneConsolePerId
  BY DEF IInv
<1> DEFINE l == multi[s]
           n == nid + 1
<1>1. /\ l \in Links /\ up[l] # << >> /\ nid < MaxIds
      /\ up' = [up EXCEPT ![l] = Tail(up[l])]
      /\ nid' = n /\ desc' = [desc EXCEPT ![n] = [slot |-> s, link |-> l]]
      /\ down' = Written(down, l, "mplex", <<Msg("confirm", n)>>)
      /\ UNCHANGED <<con, mud, left, ends, backlog, multi, succ_err, phase, crashes>>
  BY <1>i DEF Request, Reading, Received, Silent, mplex, Shape
<1>2. n \in Ids /\ n \in 0..MaxIds /\ nid \in Nat /\ \A i \in Ids : i <= nid => i <= n /\ i # n
  BY <1>i, <1>1, BoundAssumption DEF Shape, Ids
<1>3. "server" \in ends[l]
  BY <1>i, <1>1 DEF EndsKept
<1> HIDE DEF l, n
<1>4. \A k \in Links : "server" \in ends[k] => ~Used(k, n)
  BY <1>i, <1>2 DEF Given
<1>5. /\ up' \in [Links -> Seq(Messages)]
      /\ \A k \in Links : "server" \notin ends[k] => up'[k] = << >>
      /\ \A k \in Links : \A j \in DOMAIN up'[k] : \E x \in DOMAIN up[k] : up'[k][j] = up[k][x]
  <2>1. up \in [Links -> Seq(Messages)]
    BY <1>i DEF Shape
  <2>2. /\ Tail(up[l]) \in Seq(Messages)
        /\ \A j \in DOMAIN Tail(up[l]) : j + 1 \in DOMAIN up[l] /\ Tail(up[l])[j] = up[l][j + 1]
    <3>1. up[l] \in Seq(Messages)
      BY <1>1, <2>1
    <3> QED BY <1>1, <3>1, TailShape
  <2>3. /\ up' \in [Links -> Seq(Messages)] /\ up'[l] = Tail(up[l])
        /\ \A k \in Links : k # l => up'[k] = up[k]
    BY <1>1, <2>1, <2>2
  <2>4. \A k \in Links : \A j \in DOMAIN up'[k] : \E x \in DOMAIN up[k] : up'[k][j] = up[k][x]
    BY <2>2, <2>3
  <2>5. \A k \in Links : "server" \notin ends[k] => up'[k] = << >>
    BY <1>i, <1>3, <2>3 DEF EndsKept
  <2> QED BY <2>3, <2>4, <2>5
<1>6. /\ <<Msg("confirm", n)>> \in Seq(Messages) /\ DOMAIN <<Msg("confirm", n)>> = {1}
      /\ <<Msg("confirm", n)>>[1] = Msg("confirm", n)
  BY <1>2, MessageShape
<1>7. Adds(down, down', l, "mplex", <<Msg("confirm", n)>>)
  <2>1. down \in [Links -> Seq(Messages)] /\ ends \in [Links -> SUBSET {"mplex", "server"}]
    BY <1>i DEF Shape
  <2> QED BY <1>1, <1>6, <2>1, WrittenShape
<1>8. /\ down' \in [Links -> Seq(Messages)]
      /\ \A k \in Links : k # l \/ mud # l => down'[k] = down[k]
      /\ \A k \in Links : \A j \in DOMAIN down'[k] :
           \/ j \in DOMAIN down[k] /\ down'[k][j] = down[k][j]
           \/ k = l /\ mud = l /\ j = Len(down[k]) + 1 /\ down'[k][j] = Msg("confirm", n)
  <2>1. "mplex" \in ends[l] <=> mud = l
    BY <1>i, <1>1 DEF EndsKept
  <2>2. \A k \in Links : k # l \/ mud # l => down'[k] = down[k]
    BY <1>7, <2>1 DEF Adds
  <2>3. \A k \in Links : \A j \in DOMAIN down'[k] :
           \/ j \in DOMAIN down[k] /\ down'[k][j] = down[k][j]
           \/ k = l /\ j = Len(down[k]) + 1 /\ down'[k][j] = Msg("confirm", n)
    BY <1>6, <1>7 DEF Adds
  <2>4. ASSUME NEW k \in Links, k = l, mud # l, NEW j \in DOMAIN down'[k]
        PROVE  j \in DOMAIN down[k] /\ down'[k][j] = down[k][j]
    BY <2>2, <2>4
  <2>5. down' \in [Links -> Seq(Messages)]
    BY <1>7 DEF Adds
  <2> QED BY <2>2, <2>3, <2>4, <2>5
<1>9. /\ desc' \in [Ids -> [slot : Slots, link : Links] \cup {None}]
      /\ desc'[n] = [slot |-> s, link |-> l]
      /\ \A i \in Ids : i # n => desc'[i] = desc[i]
  BY <1>i, <1>1, <1>2 DEF Shape
<1>10. Shape'
  BY <1>i, <1>1, <1>2, <1>5, <1>8, <1>9 DEF Shape
<1>11. NoLinkNoId' /\ OnePlace' /\ OneConsolePerId'
  BY <1>i, <1>1 DEF NoLinkNoId, OnePlace, OneConsolePerId
<1>12. EndsKept'
  BY <1>i, <1>1, <1>5, <1>8 DEF EndsKept
<1>13. LinkSlot'
  <2>1. \A t \in Slots : multi[t] = l => t = s
    BY <1>i, <1>1, NoneAssumption DEF OnePlace, l
  <2>2. \A j \in DOMAIN backlog : backlog[j] # l
    BY <1>i DEF OnePlace, l
  <2>3. [slot |-> s, link |-> l].slot = s /\ [slot |-> s, link |-> l].link = l
    OBVIOUS
  <2> QED BY <1>i, <1>1, <1>9, <2>1, <2>2, <2>3 DEF LinkSlot
<1>14. \A k \in Links, i \in Ids : Confirming(k, i)' => Confirming(k, i) \/ (k = l /\ mud = l /\ i = n)
  <2> SUFFICES ASSUME NEW k \in Links, NEW i \in Ids, Confirming(k, i)', ~Confirming(k, i)
               PROVE  k = l /\ mud = l /\ i = n
    OBVIOUS
  <2>1. PICK j \in DOMAIN down'[k] : down'[k][j] = Msg("confirm", i)
    BY DEF Confirming
  <2>2. k = l /\ mud = l /\ Msg("confirm", i) = Msg("confirm", n)
    BY <1>8, <2>1 DEF Confirming
  <2> QED BY <1>2, <2>2, MessageShape
<1>15. \A k \in Links, i \in Ids : Used(k, i)' => Used(k, i) \/ (k = l /\ i = n)
  BY <1>1, <1>5, <1>14 DEF Used, Using
<1>16. Given'
  <2> SUFFICES ASSUME NEW k \in Links, NEW i \in Ids, "server" \in ends[k], Used(k, i)'
               PROVE  i <= nid' /\ (desc'[i] # None => desc'[i].link = k)
    BY <1>1 DEF Given
  <2>1. CASE Used(k, i)
    <3>1. i # n
      BY <1>4, <2>1
    <3> QED BY <1>i, <1>1, <1>2, <1>9, <2>1, <3>1 DEF Given
  <2>2. CASE k = l /\ i = n
    <3>1. [slot |-> s, link |-> l].link = l
      OBVIOUS
    <3> QED BY <1>1, <1>2, <1>9, <2>2, <3>1
  <2> QED BY <1>15, <2>1, <2>2
<1>17. GivenOnce'
  <2>1. \A k \in Links, j \in Ids, c \in Consoles :
          Confirming(k, j)' /\ j \notin left[k] => con[c].id # j
    <3> SUFFICES ASSUME NEW k \in Links, NEW j \in Ids, NEW c \in Consoles, Confirming(k, j)',
                        j \notin left[k], con[c].id = j
                 PROVE  FALSE
      OBVIOUS
    <3>1. k = l /\ mud = l /\ j = n
      BY <1>i, <1>14 DEF GivenOnce
    <3> QED BY <1>1, <1>3, <1>4, <3>1 DEF Used
  <2>2. ASSUME NEW k \in Links, NEW a \in DOMAIN down'[k], NEW b \in DOMAIN down'[k],
               down'[k][a].kind = "confirm", down'[k][a] = down'[k][b]
        PROVE  a = b
    <3>1. \A x, y \in DOMAIN down[k] : down[k][x].kind = "confirm" /\ down[k][x] = down[k][y] => x = y
      BY <1>i DEF GivenOnce
    <3>2. \A x \in DOMAIN down[k] : ~(k = l /\ down[k][x] = Msg("confirm", n))
      BY <1>1, <1>3, <1>4 DEF Used, Confirming
    <3> QED BY <1>8, <2>2, <3>1, <3>2
  <2> QED BY <1>1, <2>1, <2>2 DEF GivenOnce
<1> QED BY <1>10, <1>11, <1>12, <1>13, <1>16, <1>17 DEF IInv

(* The server starts anew: every link it had is closed.                    *)
LEMMA RestartKeepsIInv ==
  ASSUME IInv, ServerCrash \/ \E s \in Slots : AssertFails(s)
  PROVE  IInv'
<1>i. /\ Shape /\ NoLinkNoId /\ EndsKept /\ GivenOnce /\ OneConsolePerId
  BY DEF IInv
<1>1. /\ multi' = [s \in Slots |-> None] /\ succ_err' = [s \in Slots |-> 0]
      /\ desc' = [i \in Ids |-> None] /\ nid' = 0 /\ backlog' = << >> /\ phase' = "events"
      /\ ends' = [l \in Links |-> ends[l] \ {"server"}]
      /\ up' = [l \in Links |-> << >>]
      /\ UNCHANGED <<con, mud, left>> /\ crashes' \in 0..MaxCrashes
  <2>1. crashes' = crashes \/ (crashes < MaxCrashes /\ crashes' = crashes + 1)
    BY DEF ServerCrash, AssertFails
  <2>2. crashes \in 0..MaxCrashes /\ MaxCrashes \in Nat
    BY <1>i, BoundAssumption DEF Shape
  <2>3. crashes' \in 0..MaxCrashes
    BY <2>1, <2>2
  <2> QED BY <2>3 DEF ServerCrash, AssertFails, Restarted, mplex
<1>2. down' = down
  <2>1. \A l \in Links : ends[l] = {"server"} => down[l] = << >>
    BY <1>i DEF EndsKept
  <2>2. down' = [l \in Links |-> IF ends[l] = {"server"} THEN << >> ELSE down[l]]
    BY DEF ServerCrash, AssertFails, Restarted
  <2>3. down \in [Links -> Seq(Messages)]
    BY <1>i DEF Shape
  <2> QED BY <2>1, <2>2, <2>3
<1>3. /\ ends' \in [Links -> SUBSET {"mplex", "server"}]
      /\ \A l \in Links : /\ "server" \notin ends'[l] /\ up'[l] = << >>
                          /\ "mplex" \in ends'[l] <=> "mplex" \in ends[l]
  BY <1>i, <1>1 DEF Shape
<1>4. Shape'
  <2>1. << >> \in Seq(Messages) /\ << >> \in Seq(Links)
    OBVIOUS
  <2>2. up' \in [Links -> Seq(Messages)] /\ 0 \in 0..(MaxErrors + 1) /\ 0 \in 0..MaxIds
    BY <1>1, <2>1, BoundAssumption
  <2> QED BY <1>i, <1>1, <1>2, <1>3, <2>1, <2>2 DEF Shape
<1>5. NoLinkNoId' /\ GivenOnce' /\ OneConsolePerId'
  BY <1>i, <1>1, <1>2 DEF NoLinkNoId, GivenOnce, Confirming, OneConsolePerId
<1>6. EndsKept' /\ OnePlace' /\ LinkSlot' /\ Given'
  BY <1>i, <1>1, <1>2, <1>3, NoneAssumption DEF EndsKept, OnePlace, LinkSlot, Given
<1> QED BY <1>4, <1>5, <1>6 DEF IInv

-----------------------------------------------------------------------------
(* Every step of either program, one lemma for each kind of step.          *)
LEMMA StepKeepsIInv == IInv /\ [Next]_vars => IInv'
<1> SUFFICES ASSUME IInv, [Next]_vars PROVE IInv'
  OBVIOUS
<1>1. CASE UNCHANGED vars
  BY <1>1 DEF vars, mplex, server, wires, IInv, Shape, NoLinkNoId, EndsKept, OnePlace, LinkSlot,
              Given, GivenOnce, Used, Using, Confirming, OneConsolePerId
<1>2. CASE Multiplexer
  BY <1>2, ConsolesKeepIInv, ClearingKeepsIInv, MudUpKeepsIInv, ReadingKeepsIInv, MudGoneKeepsIInv
     DEF Multiplexer
<1>3. CASE Server
  BY <1>3, AcceptKeepsIInv, PhasesKeepIInv, ServerKeepsIInv, RequestKeepsIInv, RestartKeepsIInv
     DEF Server
<1> QED BY <1>1, <1>2, <1>3 DEF Next

(* IInv holds, whoever is restarted and whatever is lost with a link.      *)
THEOREM Inductive == Spec => []IInv
<1>1. IInv /\ [Next]_vars => IInv'
  BY StepKeepsIInv
<1> QED BY <1>1, InitHolds, PTL DEF Spec

-----------------------------------------------------------------------------
(* Every message that needs an id has one, so that the parser of the other *)
(* end does not call it a protocol error.                                  *)
THEOREM TypeCorrect == Spec => []TypeOK
<1>1. IInv => TypeOK
  <2> SUFFICES ASSUME IInv PROVE TypeOK
    OBVIOUS
  <2>1. \A q \in Seq(Messages) : Range(q) \subseteq Messages
    BY RangeOfSeq
  <2>2. \A q \in Seq(Links) : Range(q) \subseteq Links
    BY RangeOfSeq
  <2> QED BY <2>1, <2>2 DEF IInv, Shape, TypeOK
<1> QED BY <1>1, Inductive, PTL

(* No two consoles have the same id, whoever restarted in between, but for *)
(* ids kept over a failed write: nobody types into the session of another. *)
THEOREM ConsolesDiffer == Spec => []OneConsolePerId
<1>1. IInv => OneConsolePerId
  BY DEF IInv
<1> QED BY <1>1, Inductive, PTL

(* The assertion of cMultiHook::Read fails only over such ids: what names  *)
(* another descriptor comes over its link.                                 *)
THEOREM SessionsOnTheirLinks == Spec => []SessionOnItsLink
<1>1. IInv => SessionOnItsLink
  <2> SUFFICES ASSUME IInv, NEW s \in Slots, NEW i \in Ids, Reading(s), Head(up[multi[s]]).id = i,
                      desc[i] # None, i \notin left[multi[s]]
               PROVE  desc[i].slot = s
    BY DEF SessionOnItsLink, OffItsLink
  <2> DEFINE l == multi[s]
  <2>1. l \in Links /\ up[l] # << >> /\ up[l] \in Seq(Messages)
    BY DEF IInv, Shape, Reading
  <2>2. 1 \in DOMAIN up[l] /\ Head(up[l]) = up[l][1]
    BY <2>1, TailShape
  <2>3. Used(l, i)
    BY <2>2 DEF Used, Using
  <2>4. "server" \in ends[l]
    BY <2>1 DEF IInv, EndsKept
  <2>5. desc[i].link = l
    BY <2>1, <2>3, <2>4 DEF IInv, Given
  <2> QED BY <2>5 DEF IInv, LinkSlot
<1> QED BY <1>1, Inductive, PTL

(* Ids are unambiguous but for those kept over a failed write: nobody      *)
(* types into the session of another, and nothing comes for it over        *)
(* another link.                                                           *)
THEOREM IdsHold == Spec => []IdsAreSessions
BY ConsolesDiffer, SessionsOnTheirLinks, PTL DEF IdsAreSessions

-----------------------------------------------------------------------------
(* No player is left talking to nobody (Matched).  An id of a console has  *)
(* its descriptor or its end under way, and a descriptor its console, its  *)
(* confirmation or the console's farewell under way, because they come one *)
(* after the other: the end of a session follows its confirmation on the   *)
(* link (EndFollows), it is told of sessions that are gone only (Told),    *)
(* and the farewell is the last that is heard of an id (LeftFirst).  None  *)
(* of this is lost before the link is, and a session whose link the server *)
(* has open is in its slot (SlotKept).                                     *)
Ending(l, i)  == \E j \in DOMAIN down[l] : down[l][j] = Msg("terminate", i)
Leaving(l, i) == \E j \in DOMAIN up[l] : up[l][j] = Msg("terminate", i)
HasId(l, i)   == mud = l /\ \E c \in Consoles : con[c].id = i

SlotKept ==
  \A i \in Ids : desc[i] # None =>
    i <= nid /\ ("server" \in ends[desc[i].link] => multi[desc[i].slot] = desc[i].link)

Told == \A l \in Links, i \in Ids :
  "server" \in ends[l] /\ Ending(l, i) => i <= nid /\ desc[i] = None

LeftFirst == \A l \in Links, i \in Ids :
  Leaving(l, i) /\ i \notin left[l] => ~HasId(l, i) /\ ~Confirming(l, i)

EndFollows ==
  \A l \in Links, i \in Ids : \A j \in DOMAIN down[l] :
    "server" \in ends[l] /\ down[l][j] = Msg("confirm", i) /\ i \notin left[l] =>
      desc[i] # None \/ \E k \in DOMAIN down[l] : k > j /\ down[l][k] = Msg("terminate", i)

Heard == \A l \in Links, i \in Ids :
  "server" \in ends[l] /\ HasId(l, i) /\ i \notin left[l] => desc[i] # None \/ Ending(l, i)

Reached ==
  \A i \in Ids : desc[i] # None =>
    LET l == desc[i].link IN
    multi[desc[i].slot] = l /\ "mplex" \in ends[l] =>
      HasId(l, i) \/ Confirming(l, i) \/ Leaving(l, i)

MInv == SlotKept /\ Told /\ LeftFirst /\ EndFollows /\ Heard /\ Reached

(* A message is taken from a queue.                                        *)
Takes(q0, q1, l) ==
  /\ 1 \in DOMAIN q0[l]
  /\ \A k \in Links : k # l => q1[k] = q0[k]
  /\ \A j \in DOMAIN q1[l] : j \in Nat \ {0} /\ j + 1 \in DOMAIN q0[l] /\ q1[l][j] = q0[l][j + 1]
  /\ \A j \in DOMAIN q0[l] : /\ j \in Nat \ {0}
                             /\ j # 1 => j - 1 \in DOMAIN q1[l] /\ q1[l][j - 1] = q0[l][j]

LEMMA ReadTakes ==
  ASSUME NEW queue \in [Links -> Seq(Messages)], NEW l \in Links, queue[l] # << >>
  PROVE  Takes(queue, [queue EXCEPT ![l] = Tail(queue[l])], l)
<1> DEFINE W == [queue EXCEPT ![l] = Tail(queue[l])]
<1>1. W[l] = Tail(queue[l]) /\ \A k \in Links : k # l => W[k] = queue[k]
  OBVIOUS
<1> HIDE DEF W
<1>2. queue[l] \in Seq(Messages)
  OBVIOUS
<1>3. /\ 1 \in DOMAIN queue[l]
      /\ \A j \in DOMAIN Tail(queue[l]) :
           j + 1 \in DOMAIN queue[l] /\ j \in Nat \ {0} /\ Tail(queue[l])[j] = queue[l][j + 1]
  BY <1>2, TailShape
<1>4. \A j \in DOMAIN queue[l] :
        /\ j \in Nat \ {0}
        /\ j # 1 => j - 1 \in DOMAIN Tail(queue[l]) /\ Tail(queue[l])[j - 1] = queue[l][j]
  <2>1. /\ Tail(queue[l]) \in Seq(Messages) /\ Len(Tail(queue[l])) = Len(queue[l]) - 1
        /\ \A j \in 1..Len(Tail(queue[l])) : Tail(queue[l])[j] = queue[l][j + 1]
    BY <1>2, HeadTailProperties
  <2>2. /\ DOMAIN queue[l] = 1..Len(queue[l]) /\ Len(queue[l]) \in Nat
        /\ DOMAIN Tail(queue[l]) = 1..Len(Tail(queue[l]))
    BY <1>2, <2>1, LenProperties
  <2> SUFFICES ASSUME NEW j \in DOMAIN queue[l], j # 1
               PROVE  j - 1 \in 1..Len(Tail(queue[l])) /\ (j - 1) + 1 = j
    BY <2>1, <2>2
  <2> QED BY <2>1, <2>2
<1>5. Takes(queue, W, l)
  BY <1>1, <1>3, <1>4 DEF Takes
<1> QED BY <1>5 DEF W

(* What was in a queue stays where it is when something is written, and    *)
(* what is written comes behind it, if it is not lost.                     *)
Behind(q0, q1, l, reader, ms) ==
  /\ \A k \in Links : \A j \in DOMAIN q0[k] : j \in DOMAIN q1[k] /\ q1[k][j] = q0[k][j]
  /\ l \in Links /\ reader \in ends[l] =>
       \A n \in DOMAIN ms : \E k \in DOMAIN q1[l] :
         /\ q1[l][k] = ms[n]
         /\ \A j \in DOMAIN q0[l] : k > j

LEMMA WrittenBehind ==
  ASSUME NEW queue \in [Links -> Seq(Messages)], NEW l \in Links \cup {None},
         NEW reader \in {"mplex", "server"}, NEW ms \in Seq(Messages)
  PROVE  Behind(queue, Written(queue, l, reader, ms), l, reader, ms)
<1>1. CASE ~(l \in Links /\ reader \in ends[l])
  <2>1. Written(queue, l, reader, ms) = queue
    BY <1>1 DEF Written
  <2> QED BY <1>1, <2>1 DEF Behind
<1>2. CASE l \in Links /\ reader \in ends[l]
  <2> DEFINE W == Written(queue, l, reader, ms)
             q == queue[l]
  <2>1. W = [queue EXCEPT ![l] = q \o ms]
    BY <1>2, NoneAssumption DEF Written
  <2>2. W[l] = q \o ms /\ \A k \in Links : k # l => W[k] = queue[k]
    BY <1>2, <2>1
  <2>3. q \in Seq(Messages)
    BY <1>2
  <2> HIDE DEF W, q
  <2>4. /\ Len(q \o ms) = Len(q) + Len(ms)
        /\ \A j \in 1..(Len(q) + Len(ms)) : (q \o ms)[j] = IF j <= Len(q) THEN q[j] ELSE ms[j - Len(q)]
        /\ q \o ms \in Seq(Messages)
    BY <2>3, ConcatProperties
  <2>5. /\ Len(q) \in Nat /\ DOMAIN q = 1..Len(q) /\ Len(ms) \in Nat /\ DOMAIN ms = 1..Len(ms)
        /\ DOMAIN (q \o ms) = 1..Len(q \o ms)
    BY <2>3, <2>4, LenProperties
  <2>6. \A j \in DOMAIN q : j \in DOMAIN (q \o ms) /\ (q \o ms)[j] = q[j]
    BY <2>4, <2>5
  <2>7. \A n \in DOMAIN ms : /\ Len(q) + n \in DOMAIN (q \o ms) /\ (q \o ms)[Len(q) + n] = ms[n]
                             /\ \A j \in DOMAIN q : Len(q) + n > j
    <3> SUFFICES ASSUME NEW n \in DOMAIN ms
                 PROVE  /\ Len(q) + n \in DOMAIN (q \o ms) /\ (q \o ms)[Len(q) + n] = ms[n]
                        /\ \A j \in DOMAIN q : Len(q) + n > j
      OBVIOUS
    <3>1. /\ Len(q) + n \in 1..(Len(q) + Len(ms)) /\ ~(Len(q) + n <= Len(q))
          /\ (Len(q) + n) - Len(q) = n
      BY <2>5
    <3> QED BY <2>4, <2>5, <3>1
  <2>8. Behind(queue, W, l, reader, ms)
    BY <2>2, <2>6, <2>7 DEF Behind, q
  <2> QED BY <2>8 DEF W
<1> QED BY <1>1, <1>2

-----------------------------------------------------------------------------
LEMMA InitMatched == Init => MInv
  BY DEF Init, MInv, SlotKept, Told, LeftFirst, EndFollows, Heard, Reached, HasId, Leaving, Ending

(* The multiplexer: an id that a console gives up leaves a farewell.       *)
LEMMA LeavingKeepsMInv ==
  ASSUME IInv, MInv, UNCHANGED <<mud, left, ends, down, multi, desc, nid>>,
         \A c \in Consoles : con'[c].id \in {0, con[c].id},
         \A l \in Links, i \in Ids : /\ Leaving(l, i) => Leaving(l, i)'
                                     /\ Leaving(l, i)' /\ ~Leaving(l, i) =>
                                          HasId(l, i) /\ (i \in left[l] \/ ~HasId(l, i)')
                                     /\ HasId(l, i) /\ ~HasId(l, i)' /\ "server" \in ends[l] => Leaving(l, i)'
  PROVE  MInv'
<1>i. SlotKept /\ Told /\ LeftFirst /\ EndFollows /\ Heard /\ Reached
  BY DEF MInv
<1>1. \A l \in Links, i \in Ids : /\ HasId(l, i)' => HasId(l, i)
                                  /\ Confirming(l, i)' <=> Confirming(l, i)
                                  /\ Ending(l, i)' <=> Ending(l, i)
  BY MessageShape DEF HasId, Confirming, Ending
<1>2. SlotKept' /\ Told' /\ EndFollows' /\ Heard'
  BY <1>i, <1>1 DEF SlotKept, Told, EndFollows, Heard
<1>3. LeftFirst'
  <2>1. \A l \in Links, i \in Ids : HasId(l, i) /\ i \notin left[l] => ~Confirming(l, i)
    BY DEF IInv, GivenOnce, HasId
  <2> QED BY <1>i, <1>1, <2>1 DEF LeftFirst
<1>4. Reached'
  <2> SUFFICES ASSUME NEW i \in Ids, desc[i] # None, multi[desc[i].slot] = desc[i].link,
                      "mplex" \in ends[desc[i].link]
               PROVE  HasId(desc[i].link, i)' \/ Confirming(desc[i].link, i)' \/ Leaving(desc[i].link, i)'
    BY DEF Reached
  <2>1. desc[i].slot \in Slots /\ desc[i].link \in Links
    BY DEF IInv, Shape
  <2>2. "server" \in ends[desc[i].link]
    BY <2>1 DEF IInv, EndsKept
  <2>3. HasId(desc[i].link, i) \/ Confirming(desc[i].link, i) \/ Leaving(desc[i].link, i)
    BY <1>i DEF Reached
  <2> QED BY <1>1, <2>1, <2>2, <2>3
<1> QED BY <1>2, <1>3, <1>4 DEF MInv

(* ... what it writes to the server, farewells or not.                     *)
LEMMA SendingKeepsMInv ==
  ASSUME IInv, MInv, NEW ms \in Seq(Messages), ToServer(ms),
         \A c \in Consoles : con'[c].id \in {0, con[c].id},
         \A n \in DOMAIN ms, i \in Ids : ms[n] = Msg("terminate", i) =>
           /\ \E c \in Consoles : con[c].id = i
           /\ i \in left[mud] \/ \A c \in Consoles : con'[c].id # i,
         \A c \in Consoles : con[c].id # 0 /\ con'[c].id = 0 =>
           \E n \in DOMAIN ms : ms[n] = Msg("terminate", con[c].id)
  PROVE  MInv'
<1>1. /\ up' = Written(up, mud, "server", ms) /\ UNCHANGED <<ends, down, mud, left, multi, desc, nid>>
  BY DEF ToServer, server
<1>2. up \in [Links -> Seq(Messages)] /\ ends \in [Links -> SUBSET {"mplex", "server"}] /\ mud \in Links \cup {None}
  BY DEF IInv, Shape
<1>3. Adds(up, up', mud, "server", ms) /\ Behind(up, up', mud, "server", ms)
  BY <1>1, <1>2, WrittenShape, WrittenBehind
<1>4. \A l \in Links, i \in Ids : Leaving(l, i) => Leaving(l, i)'
  BY <1>3 DEF Behind, Leaving
<1>5. \A l \in Links, i \in Ids : Leaving(l, i)' /\ ~Leaving(l, i) =>
                                     HasId(l, i) /\ (i \in left[l] \/ ~HasId(l, i)')
  <2> SUFFICES ASSUME NEW l \in Links, NEW i \in Ids, Leaving(l, i)', ~Leaving(l, i)
               PROVE  HasId(l, i) /\ (i \in left[l] \/ ~HasId(l, i)')
    OBVIOUS
  <2>1. PICK j \in DOMAIN up'[l] : up'[l][j] = Msg("terminate", i)
    BY DEF Leaving
  <2>2. l = mud /\ \E n \in DOMAIN ms : ms[n] = Msg("terminate", i)
    BY <1>3, <2>1 DEF Adds, Leaving
  <2> QED BY <2>2 DEF HasId
<1>6. \A l \in Links, i \in Ids : HasId(l, i) /\ ~HasId(l, i)' /\ "server" \in ends[l] => Leaving(l, i)'
  <2> SUFFICES ASSUME NEW l \in Links, NEW i \in Ids, HasId(l, i), ~HasId(l, i)', "server" \in ends[l]
               PROVE  Leaving(l, i)'
    OBVIOUS
  <2>1. PICK c \in Consoles : con[c].id = i
    BY DEF HasId
  <2>2. con[c].id # 0 /\ con'[c].id = 0 /\ mud = l
    BY <1>1, <2>1, MessageShape DEF HasId
  <2>3. PICK n \in DOMAIN ms : ms[n] = Msg("terminate", i)
    BY <2>1, <2>2
  <2> QED BY <1>3, <2>2, <2>3 DEF Behind, Leaving
<1> QED BY <1>1, <1>4, <1>5, <1>6, LeavingKeepsMInv

LEMMA ConsolesKeepMInv ==
  ASSUME IInv, MInv, NEW c \in Consoles,
         Arrive(c) \/ GiveUp(c) \/ MenuSelect(c) \/ Transmit(c) \/ Leave(c) \/ Lost(c)
  PROVE  MInv'
<1>i. con \in [Consoles -> Console] /\ NoLinkNoId /\ OneConsolePerId
  BY DEF IInv, Shape
<1>r. \A x \in Consoles : con[x].id \in {0} \cup Ids /\ (con[x].fptr = "none" => con[x].id = 0)
  BY <1>i, BoundAssumption DEF NoLinkNoId, Console, Ids
<1>s. \A r \in Console : /\ \A f \in {"MenuSelect", "MudDown", "PlayLoop"} : [r EXCEPT !.fptr = f].id = r.id
                       /\ [r EXCEPT !.hooked = FALSE].id = r.id
  BY DEF Console
<1>0. /\ <<Msg("request", 0)>> \in Seq(Messages)
      /\ \A n \in DOMAIN <<Msg("request", 0)>>, i \in Ids : <<Msg("request", 0)>>[n] # Msg("terminate", i)
  BY MessageShape
<1>1. CASE Arrive(c) \/ MenuSelect(c)
  <2>1. \A x \in Consoles : con'[x].id = con[x].id
    <3>1. CASE Arrive(c)
      BY <1>i, <1>r, <3>1 DEF Arrive
    <3>2. CASE MenuSelect(c)
      <4>1. PICK f \in {"MudDown", "PlayLoop"} : con' = [con EXCEPT ![c] = [con[c] EXCEPT !.fptr = f]]
        BY <3>2 DEF MenuSelect
      <4> QED BY <1>i, <1>s, <4>1
    <3> QED BY <1>1, <3>1, <3>2
  <2>2. ToServer(<<Msg("request", 0)>>)
    BY <1>1 DEF Arrive, MenuSelect
  <2> QED BY <1>0, <2>1, <2>2, SendingKeepsMInv
<1>2. CASE GiveUp(c) \/ Lost(c)
  <2>1. \A x \in Consoles : con'[x].id = con[x].id
    <3>1. \/ con' = [con EXCEPT ![c] = [con[c] EXCEPT !.fptr = "MenuSelect"]]
          \/ con' = [con EXCEPT ![c] = [con[c] EXCEPT !.hooked = FALSE]]
      BY <1>2 DEF GiveUp, Lost
    <3>2. /\ [con[c] EXCEPT !.fptr = "MenuSelect"].id = con[c].id
          /\ [con[c] EXCEPT !.hooked = FALSE].id = con[c].id
      BY <1>i, <1>s
    <3>3. con'[c].id = con[c].id /\ \A x \in Consoles : x # c => con'[x] = con[x]
      BY <1>i, <3>1, <3>2
    <3> QED BY <3>3
  <2>2. UNCHANGED <<mud, left, ends, up, down, multi, desc, nid>>
    BY <1>2 DEF GiveUp, Lost, wires, server
  <2>3. \A l \in Links, i \in Ids : (Leaving(l, i)' <=> Leaving(l, i)) /\ (HasId(l, i)' <=> HasId(l, i))
    BY <2>1, <2>2 DEF Leaving, HasId
  <2> QED BY <2>1, <2>2, <2>3, LeavingKeepsMInv
<1>3. CASE Transmit(c)
  <2>1. con[c].id \in Ids
    BY <1>3, <1>r DEF Transmit
  <2>2. /\ <<Msg("data", con[c].id)>> \in Seq(Messages)
        /\ \A n \in DOMAIN <<Msg("data", con[c].id)>>, i \in Ids :
             <<Msg("data", con[c].id)>>[n] # Msg("terminate", i)
    BY <2>1, MessageShape
  <2>3. ToServer(<<Msg("data", con[c].id)>>) /\ con' = con
    BY <1>3 DEF Transmit
  <2> QED BY <2>2, <2>3, SendingKeepsMInv
<1>4. CASE Leave(c)
  <2>1. /\ ToServer(Farewell(c)) /\ con'[c].id = 0
        /\ \A x \in Consoles : x # c => con'[x] = con[x]
    BY <1>4, <1>i DEF Leave, Closed
  <2>2. CASE con[c].id = 0
    <3>1. Farewell(c) = << >> /\ << >> \in Seq(Messages) /\ DOMAIN << >> = {}
      BY <2>2 DEF Farewell
    <3>2. \A x \in Consoles : con'[x].id = con[x].id
      BY <2>1, <2>2
    <3> QED BY <2>1, <3>1, <3>2, SendingKeepsMInv
  <2>3. CASE con[c].id # 0
    <3> DEFINE ms == <<Msg("terminate", con[c].id)>>
    <3>1. Farewell(c) = ms /\ con[c].id \in Ids
      BY <1>r, <2>3 DEF Farewell
    <3>2. /\ ms \in Seq(Messages) /\ DOMAIN ms = {1} /\ ms[1] = Msg("terminate", con[c].id)
      BY <3>1, MessageShape
    <3>3. \A n \in DOMAIN ms, i \in Ids : ms[n] = Msg("terminate", i) => i = con[c].id
      BY <3>1, <3>2, MessageShape
    <3> HIDE DEF ms
    <3>4. con[c].id \in left[mud] \/ \A x \in Consoles : con'[x].id # con[c].id
      BY <1>i, <2>1, <2>3 DEF OneConsolePerId
    <3>5. \A x \in Consoles : /\ con'[x].id \in {0, con[x].id}
                              /\ con[x].id # 0 /\ con'[x].id = 0 => x = c
      BY <2>1
    <3> QED BY <2>1, <3>1, <3>2, <3>3, <3>4, <3>5, SendingKeepsMInv
  <2> QED BY <2>2, <2>3
<1> QED BY <1>1, <1>2, <1>3, <1>4

(* Every console that ClearUnhooked closes says farewell: the sequence has *)
(* as many members as there are farewells, and no two alike.               *)
LEMMA FarewellComplete ==
  ASSUME IInv, NEW ms \in Farewells
  PROVE  /\ \A n \in DOMAIN ms : \E c \in Unhooked :
              con[c].id \in Ids /\ ms[n] = Msg("terminate", con[c].id)
         /\ \A c \in Unhooked : con[c].id # 0 =>
              \E n \in DOMAIN ms : ms[n] = Msg("terminate", con[c].id)
<1>1. Unhooked \subseteq Consoles
  BY DEF Unhooked, Connected
<1>2. \A c \in Consoles : \/ con[c].id = 0 /\ Farewell(c) = << >>
                          \/ /\ con[c].id \in Ids
                             /\ Farewell(c) = <<Msg("terminate", con[c].id)>>
  BY FarewellShape
<1> DEFINE C == { x \in Unhooked : Farewell(x) # << >> }
           S == { Farewell(c)[1] : c \in C }
<1>3. \A c \in Unhooked : c \in C <=> con[c].id # 0
  BY <1>1, <1>2, MessageShape
<1>4. \A c \in C : c \in Unhooked /\ con[c].id \in Ids /\ Farewell(c)[1] = Msg("terminate", con[c].id)
  BY <1>1, <1>2
<1>5. IsFiniteSet(S) /\ Cardinality(S) \in Nat
  <2>1. IsFiniteSet(C)
    BY <1>1, FiniteAssumption, FS_Subset
  <2> DEFINE first == [c \in C |-> Farewell(c)[1]]
  <2>2. first \in Surjection(C, S)
    BY DEF Surjection, S
  <2> HIDE DEF first
  <2>3. IsFiniteSet(S)
    BY <2>1, <2>2, FS_Surjection
  <2> QED BY <2>3, FS_CardinalityType
<1> HIDE DEF C
<1>6. \A m \in S : \E c \in Unhooked : con[c].id \in Ids /\ m = Msg("terminate", con[c].id)
  BY <1>4
<1>7. \A c \in Unhooked : con[c].id # 0 => Msg("terminate", con[c].id) \in S
  BY <1>3, <1>4
<1>8. Farewells = SetToSeqs(S)
  BY DEF Farewells, S, C
<1> HIDE DEF S
<1> DEFINE D == 1..Cardinality(S)
<1>9. ms \in [D -> S] /\ \A i, j \in D : i # j => ms[i] # ms[j]
  BY <1>8 DEF SetToSeqs
<1>10. IsFiniteSet(D) /\ Cardinality(D) = Cardinality(S)
  BY <1>5, FS_Interval
<1> HIDE DEF D
<1>11. ms \in Injection(D, S)
  BY <1>9 DEF Injection, IsInjective
<1>12. ms \in Surjection(D, S)
  BY <1>5, <1>10, <1>11, FS_Injection
<1>13. \A m \in S : \E n \in DOMAIN ms : ms[n] = m
  BY <1>9, <1>12 DEF Surjection
<1>14. \A n \in DOMAIN ms : ms[n] \in S
  BY <1>9
<1> QED BY <1>6, <1>7, <1>13, <1>14

LEMMA ClearingKeepsMInv ==
  ASSUME IInv, MInv, ClearUnhooked \/ TestMudDown
  PROVE  MInv'
<1>i. con \in [Consoles -> Console] /\ NoLinkNoId /\ OneConsolePerId
  BY DEF IInv, Shape
<1>1. \A c \in Consoles : /\ c \in Unhooked => con'[c].id = 0
                          /\ c \notin Unhooked => con'[c] = con[c]
  BY DEF ClearUnhooked, TestMudDown, NoConsole
<1>2. CASE ClearUnhooked
  <2>1. PICK ms \in Farewells : ToServer(ms)
    BY <1>2 DEF ClearUnhooked
  <2>2. ms \in Seq(Messages)
    BY FarewellShape
  <2>3. Unhooked \subseteq Consoles
    BY DEF Unhooked, Connected
  <2>4. ASSUME NEW n \in DOMAIN ms, NEW i \in Ids, ms[n] = Msg("terminate", i)
        PROVE  /\ \E c \in Consoles : con[c].id = i
               /\ i \in left[mud] \/ \A c \in Consoles : con'[c].id # i
    <3>1. PICK c \in Unhooked : con[c].id \in Ids /\ ms[n] = Msg("terminate", con[c].id)
      BY FarewellComplete
    <3>2. con[c].id = i /\ c \in Consoles /\ i # 0
      BY <2>3, <2>4, <3>1, MessageShape
    <3> QED BY <1>1, <1>i, <3>2 DEF OneConsolePerId
  <2>5. \A c \in Consoles : con[c].id # 0 /\ con'[c].id = 0 =>
           \E n \in DOMAIN ms : ms[n] = Msg("terminate", con[c].id)
    BY <1>1, FarewellComplete
  <2> QED BY <1>1, <2>1, <2>2, <2>4, <2>5, SendingKeepsMInv
<1>3. CASE TestMudDown
  <2>1. UNCHANGED <<mud, left, ends, up, down, multi, desc, nid>> /\ mud = None
    BY <1>3 DEF TestMudDown, wires, server
  <2>2. \A x \in Consoles : con'[x].id \in {0, con[x].id}
    BY <1>1
  <2>3. \A l \in Links, i \in Ids : (Leaving(l, i)' <=> Leaving(l, i)) /\ (HasId(l, i)' <=> HasId(l, i))
    BY <2>1, NoneAssumption DEF Leaving, HasId
  <2> QED BY <2>1, <2>2, <2>3, LeavingKeepsMInv
<1> QED BY <1>2, <1>3

(* Without a link no console has an id of one, and nothing is under way to *)
(* it.                                                                     *)
LEMMA MudGoneKeepsMInv ==
  ASSUME IInv, MInv, IInv', MudWentDown \/ MplexCrash \/ \E c \in Consoles : MudWriteFails(c)
  PROVE  MInv'
<1>i. Shape /\ EndsKept /\ SlotKept /\ LeftFirst
  BY DEF IInv, MInv
<1>1. /\ mud' = None
      /\ UNCHANGED <<multi, desc, nid>>
      /\ (mud = None /\ UNCHANGED <<ends, up, down>>) \/ (mud \in Links /\ Hung(mud, "mplex"))
  BY <1>i DEF MudWentDown, MplexCrash, MudWriteFails, server, wires, Shape
<1>2. \A l \in Links : "mplex" \notin ends'[l] /\ down'[l] = << >>
  BY <1>1, NoneAssumption DEF IInv, EndsKept
<1>3. \A l \in Links : "server" \in ends'[l] => "server" \in ends[l]
  BY <1>i, <1>1 DEF Hung, Shape
<1>4. SlotKept'
  <2>1. \A i \in Ids : desc[i] # None => desc[i].link \in Links
    BY <1>i DEF Shape
  <2> QED BY <1>i, <1>1, <1>3, <2>1 DEF SlotKept
<1>5. \A l \in Links, i \in Ids : ~HasId(l, i)' /\ ~Confirming(l, i)' /\ ~Ending(l, i)'
  BY <1>1, <1>2, NoneAssumption DEF HasId, Confirming, Ending
<1>6. Told' /\ LeftFirst' /\ Heard'
  BY <1>5 DEF Told, LeftFirst, Heard
<1>7. EndFollows' /\ Reached'
  <2>1. \A i \in Ids : desc'[i] # None => desc'[i].link \in Links
    BY <1>i, <1>1 DEF Shape
  <2> QED BY <1>2, <2>1 DEF EndFollows, Reached
<1> QED BY <1>4, <1>6, <1>7 DEF MInv

LEMMA MudUpKeepsMInv ==
  ASSUME IInv, MInv, IInv', NEW l \in Links, TestMudUp(l)
  PROVE  MInv'
<1>i. Shape /\ NoLinkNoId /\ EndsKept /\ SlotKept /\ Told /\ LeftFirst /\ EndFollows /\ Heard /\ Reached
  BY DEF IInv, MInv
<1>1. /\ mud = None /\ ends[l] = {} /\ mud' = l
      /\ \A i \in Ids : desc[i] # None => desc[i].link # l
      /\ ends' = [ends EXCEPT ![l] = {"mplex", "server"}]
      /\ UNCHANGED <<down, multi, desc, nid>>
  BY DEF TestMudUp
<1>2. /\ \A k \in Links : k # l => ends'[k] = ends[k]
      /\ \A i \in Ids : desc[i] # None => desc[i].link \in Links
  BY <1>i, <1>1 DEF Shape
<1>3. \A c \in Consoles : con'[c].id \in left'[l] \cup {0}
  <2>1. con' \in [Consoles -> Console] /\ \A c \in Consoles : con'[c].id \in {0, con[c].id}
    <3>1. \A r \in Console : [r EXCEPT !.fptr = "PlayLoop"].id = r.id
      BY DEF Console
    <3> QED BY <1>i, <3>1 DEF TestMudUp, NoConsole, IInv, Shape
  <2>2. left'[l] = left[None]
    BY <1>i, NoneAssumption DEF TestMudUp, Shape
  <2> QED BY <1>i, <1>1, <2>1, <2>2 DEF NoLinkNoId
<1>4. \A k \in Links : down[k] = << >> /\ down' = down
  BY <1>i, <1>1, NoneAssumption DEF EndsKept
<1>5. \A k \in Links, i \in Ids : /\ HasId(k, i)' => i \in left'[k]
                                  /\ ~Confirming(k, i)' /\ ~Ending(k, i)'
                                  /\ ~HasId(k, i) /\ ~Confirming(k, i)
  BY <1>1, <1>3, <1>4, MessageShape, NoneAssumption DEF HasId, Confirming, Ending
<1>6. \A k \in Links : "mplex" \in ends'[k] => k = l
  BY <1>i, <1>1, <1>2, NoneAssumption DEF EndsKept
<1>7. SlotKept' /\ Reached'
  BY <1>i, <1>1, <1>2, <1>6 DEF SlotKept, Reached
<1>8. Told' /\ LeftFirst' /\ Heard' /\ EndFollows'
  BY <1>4, <1>5 DEF Told, LeftFirst, Heard, EndFollows
<1> QED BY <1>7, <1>8 DEF MInv

-----------------------------------------------------------------------------
(* What is read of the link is used: an id goes to a console, or back.     *)
LEMMA ConfirmKeepsMInv ==
  ASSUME IInv, MInv, IInv', Confirm
  PROVE  MInv'
<1>i. /\ Shape /\ EndsKept /\ Given /\ GivenOnce
      /\ SlotKept /\ Told /\ LeftFirst /\ EndFollows /\ Heard /\ Reached
  BY DEF IInv, MInv
<1>l. PICK l \in Links : l = mud
  BY <1>i DEF Confirm, Shape
<1>1. /\ l = mud /\ down[l] # << >> /\ down[l] \in Seq(Messages)
      /\ down' = [down EXCEPT ![l] = Tail(down[l])]
      /\ UNCHANGED <<mud, left, ends, multi, desc, nid>>
  BY <1>i, <1>l DEF Confirm, Read, Shape, server
<1>m. PICK i : i = Head(down[l]).id
  OBVIOUS
<1>2. i \in Ids /\ down[l][1] = Msg("confirm", i)
  BY <1>1, <1>m, TailShape, MessageShape DEF Confirm, Arriving
<1>3. \/ up' = Written(up, l, "server", <<Msg("terminate", i)>>) /\ con' = con
      \/ /\ up' = Written(up, l, "server", <<Msg("data", i)>>)
         /\ \E c \in Waiting : con' = [con EXCEPT ![c].id = i]
  BY <1>1, <1>m DEF Confirm, Arriving
<1>4. Takes(down, down', l)
  <2>1. down \in [Links -> Seq(Messages)]
    BY <1>i DEF Shape
  <2> QED BY <1>1, <2>1, ReadTakes
<1>5. Confirming(l, i)
  BY <1>2, <1>4 DEF Confirming, Takes
<1>6. \A k \in Links, x \in Ids : /\ Confirming(k, x)' => Confirming(k, x)
                                  /\ Confirming(k, x) => Confirming(k, x)' \/ (k = l /\ x = i)
                                  /\ Ending(k, x)' <=> Ending(k, x)
  <2> SUFFICES ASSUME NEW x \in Ids
               PROVE  /\ Confirming(l, x)' => Confirming(l, x)
                      /\ Confirming(l, x) => Confirming(l, x)' \/ x = i
                      /\ Ending(l, x)' <=> Ending(l, x)
    BY <1>4 DEF Takes, Confirming, Ending
  <2>1. (Confirming(l, x)' => Confirming(l, x)) /\ (Ending(l, x)' => Ending(l, x))
    BY <1>4 DEF Takes, Confirming, Ending
  <2>2. Confirming(l, x) => Confirming(l, x)' \/ x = i
    <3> SUFFICES ASSUME NEW j \in DOMAIN down[l], down[l][j] = Msg("confirm", x), x # i
                 PROVE  Confirming(l, x)'
      BY DEF Confirming
    <3>1. j # 1
      BY <1>2, MessageShape
    <3> QED BY <1>4, <3>1 DEF Takes, Confirming
  <2>3. Ending(l, x) => Ending(l, x)'
    <3> SUFFICES ASSUME NEW j \in DOMAIN down[l], down[l][j] = Msg("terminate", x)
                 PROVE  Ending(l, x)'
      BY DEF Ending
    <3>1. j # 1
      BY <1>2, MessageShape
    <3> QED BY <1>4, <3>1 DEF Takes, Ending
  <2> QED BY <2>1, <2>2, <2>3
<1>7. ~Confirming(l, i)'
  <2> SUFFICES ASSUME NEW j \in DOMAIN down'[l], down'[l][j] = Msg("confirm", i) PROVE FALSE
    BY DEF Confirming
  <2>1. j \in Nat \ {0} /\ j + 1 \in DOMAIN down[l] /\ down[l][j + 1] = down[l][1] /\ 1 \in DOMAIN down[l]
    BY <1>2, <1>4 DEF Takes
  <2>2. down[l][1].kind = "confirm"
    BY <1>2, MessageShape
  <2>3. \A a, b \in DOMAIN down[l] : down[l][a].kind = "confirm" /\ down[l][a] = down[l][b] => a = b
    BY <1>1, <1>i DEF GivenOnce
  <2>4. 1 = j + 1
    BY <2>1, <2>2, <2>3
  <2> QED BY <2>1, <2>4
<1>8. i \notin left[l] => \A c \in Consoles : con[c].id # i
  BY <1>1, <1>2, <1>5, <1>i DEF GivenOnce
<1>9. /\ \A c \in Consoles : con'[c].id \in {con[c].id, i} /\ (con[c].id # 0 => con'[c].id = con[c].id)
      /\ \/ (\E c \in Consoles : con'[c].id = i)
         \/ "server" \in ends[l] => Leaving(l, i)'
      /\ \A k \in Links, x \in Ids : /\ Leaving(k, x) => Leaving(k, x)'
                                     /\ Leaving(k, x)' => \/ Leaving(k, x)
                                                          \/ k = l /\ x = i /\ con' = con
  <2>1. /\ up \in [Links -> Seq(Messages)] /\ ends \in [Links -> SUBSET {"mplex", "server"}]
        /\ con \in [Consoles -> Console]
    BY <1>i DEF Shape
  <2>2. CASE up' = Written(up, l, "server", <<Msg("terminate", i)>>) /\ con' = con
    <3> DEFINE ms == <<Msg("terminate", i)>>
    <3>1. ms \in Seq(Messages) /\ DOMAIN ms = {1} /\ ms[1] = Msg("terminate", i)
      BY <1>2, MessageShape
    <3> HIDE DEF ms
    <3>2. Adds(up, up', l, "server", ms) /\ Behind(up, up', l, "server", ms)
      BY <1>1, <2>1, <2>2, <3>1, WrittenShape, WrittenBehind DEF ms
    <3>3. \A k \in Links, x \in Ids : Leaving(k, x) => Leaving(k, x)'
      BY <3>2 DEF Behind, Leaving
    <3>4. \A k \in Links, x \in Ids : Leaving(k, x)' => Leaving(k, x) \/ (k = l /\ x = i)
      <4> SUFFICES ASSUME NEW k \in Links, NEW x \in Ids, NEW j \in DOMAIN up'[k],
                          up'[k][j] = Msg("terminate", x), ~Leaving(k, x)
                   PROVE  k = l /\ x = i
        BY DEF Leaving
      <4>1. k = l /\ up'[k][j] = Msg("terminate", i)
        BY <3>1, <3>2 DEF Adds, Leaving
      <4> QED BY <1>2, <4>1, MessageShape
    <3>5. "server" \in ends[l] => Leaving(l, i)'
      BY <1>1, <3>1, <3>2 DEF Behind, Leaving
    <3> QED BY <2>2, <3>3, <3>4, <3>5
  <2>3. CASE /\ up' = Written(up, l, "server", <<Msg("data", i)>>)
             /\ \E c \in Waiting : con' = [con EXCEPT ![c].id = i]
    <3> DEFINE ms == <<Msg("data", i)>>
    <3>1. ms \in Seq(Messages) /\ DOMAIN ms = {1} /\ ms[1] = Msg("data", i)
      BY <1>2, MessageShape
    <3> HIDE DEF ms
    <3>2. Adds(up, up', l, "server", ms) /\ Behind(up, up', l, "server", ms)
      BY <1>1, <2>1, <2>3, <3>1, WrittenShape, WrittenBehind DEF ms
    <3>3. \A k \in Links, x \in Ids : Leaving(k, x) => Leaving(k, x)'
      BY <3>2 DEF Behind, Leaving
    <3>4. \A k \in Links, x \in Ids : Leaving(k, x)' => Leaving(k, x)
      <4> SUFFICES ASSUME NEW k \in Links, NEW x \in Ids, NEW j \in DOMAIN up'[k],
                          up'[k][j] = Msg("terminate", x), ~Leaving(k, x)
                   PROVE  FALSE
        BY DEF Leaving
      <4>1. up'[k][j] = Msg("data", i)
        BY <3>1, <3>2 DEF Adds, Leaving
      <4> QED BY <1>2, <4>1, MessageShape
    <3>5. PICK c \in Waiting : con' = [con EXCEPT ![c].id = i]
      BY <2>3
    <3>6. c \in Consoles /\ con[c].id = 0
      BY <3>5 DEF Waiting
    <3>7. con'[c].id = i /\ \A x \in Consoles : x # c => con'[x] = con[x]
      <4>1. con[c] \in Console /\ \A r \in Console : [r EXCEPT !.id = i].id = i
        BY <2>1, <3>6 DEF Console
      <4>2. con' = [con EXCEPT ![c] = [con[c] EXCEPT !.id = i]]
        BY <3>5
      <4>3. con'[c] = [con[c] EXCEPT !.id = i] /\ \A x \in Consoles : x # c => con'[x] = con[x]
        BY <2>1, <3>6, <4>2
      <4> QED BY <4>1, <4>3
    <3> QED BY <3>3, <3>4, <3>6, <3>7
  <2> QED BY <1>3, <2>2, <2>3
<1>10. \A k \in Links, x \in Ids : /\ HasId(k, x)' => HasId(k, x) \/ (k = l /\ x = i)
                                   /\ HasId(k, x) => HasId(k, x)'
  BY <1>1, <1>9, MessageShape DEF HasId
<1>11. SlotKept' /\ Told'
  BY <1>i, <1>1, <1>6 DEF SlotKept, Told
<1>12. LeftFirst'
  <2> SUFFICES ASSUME NEW k \in Links, NEW x \in Ids, Leaving(k, x)', x \notin left[k]
               PROVE  ~HasId(k, x)' /\ ~Confirming(k, x)'
    BY <1>1 DEF LeftFirst
  <2>1. CASE Leaving(k, x)
    <3>1. ~HasId(k, x) /\ ~Confirming(k, x)
      BY <1>i, <2>1 DEF LeftFirst
    <3> QED BY <1>5, <1>6, <1>10, <3>1
  <2>2. CASE k = l /\ x = i /\ con' = con
    BY <1>7, <1>8, <2>2 DEF HasId
  <2> QED BY <1>9, <2>1, <2>2
<1>13. EndFollows'
  <2> SUFFICES ASSUME NEW k \in Links, NEW x \in Ids, NEW j \in DOMAIN down'[k], "server" \in ends[k],
                      down'[k][j] = Msg("confirm", x), desc[x] = None, x \notin left[k]
               PROVE  \E n \in DOMAIN down'[k] : n > j /\ down'[k][n] = Msg("terminate", x)
    BY <1>1 DEF EndFollows
  <2>1. CASE k # l
    BY <1>4, <1>i, <2>1 DEF Takes, EndFollows
  <2>2. CASE k = l
    <3>1. j \in Nat \ {0} /\ j + 1 \in DOMAIN down[l] /\ down[l][j + 1] = Msg("confirm", x)
      BY <1>4, <2>2 DEF Takes
    <3>2. PICK n \in DOMAIN down[l] : n > j + 1 /\ down[l][n] = Msg("terminate", x)
      BY <1>i, <2>2, <3>1 DEF EndFollows
    <3>3. n \in Nat \ {0} /\ (n # 1 => n - 1 \in DOMAIN down'[l] /\ down'[l][n - 1] = down[l][n])
      BY <1>4 DEF Takes
    <3>4. n # 1 /\ n - 1 > j
      BY <3>1, <3>2, <3>3
    <3> QED BY <2>2, <3>2, <3>3, <3>4
  <2> QED BY <2>1, <2>2
<1>14. Heard'
  <2> SUFFICES ASSUME NEW k \in Links, NEW x \in Ids, "server" \in ends[k], HasId(k, x)', desc[x] = None,
                      x \notin left[k]
               PROVE  Ending(k, x)'
    BY <1>1 DEF Heard
  <2>1. CASE HasId(k, x)
    BY <1>i, <1>6, <2>1 DEF Heard
  <2>2. CASE k = l /\ x = i
    <3>1. Ending(l, i)
      BY <1>2, <1>4, <1>i, <2>2 DEF EndFollows, Ending, Takes
    <3> QED BY <1>6, <2>2, <3>1
  <2> QED BY <1>10, <2>1, <2>2
<1>15. Reached'
  <2> SUFFICES ASSUME NEW x \in Ids, desc[x] # None, multi[desc[x].slot] = desc[x].link,
                      "mplex" \in ends[desc[x].link]
               PROVE  HasId(desc[x].link, x)' \/ Confirming(desc[x].link, x)' \/ Leaving(desc[x].link, x)'
    BY <1>1 DEF Reached
  <2>1. desc[x].slot \in Slots /\ desc[x].link \in Links
    BY <1>i DEF Shape
  <2>2. "server" \in ends[desc[x].link]
    BY <1>i, <2>1 DEF EndsKept
  <2>3. HasId(desc[x].link, x) \/ Confirming(desc[x].link, x) \/ Leaving(desc[x].link, x)
    BY <1>i DEF Reached
  <2>4. CASE desc[x].link = l /\ x = i
    BY <1>1, <1>9, <2>2, <2>4 DEF HasId
  <2> QED BY <1>1, <1>6, <1>9, <1>10, <2>1, <2>3, <2>4
<1> QED BY <1>11, <1>12, <1>13, <1>14, <1>15 DEF MInv

LEMMA TerminateKeepsMInv ==
  ASSUME IInv, MInv, IInv', Terminate
  PROVE  MInv'
<1>i. /\ Shape /\ NoLinkNoId /\ EndsKept /\ OneConsolePerId
      /\ SlotKept /\ Told /\ LeftFirst /\ EndFollows /\ Heard /\ Reached
  BY DEF IInv, MInv
<1>l. PICK l \in Links : l = mud
  BY <1>i DEF Terminate, Shape
<1>1. /\ l = mud /\ down[l] # << >> /\ down[l] \in Seq(Messages)
      /\ down' = [down EXCEPT ![l] = Tail(down[l])]
      /\ UNCHANGED <<mud, left, ends, up, multi, desc, nid>>
  BY <1>i, <1>l DEF Terminate, Read, Shape, server
<1>m. PICK i : i = Head(down[l]).id
  OBVIOUS
<1>2. i \in Ids /\ down[l][1] = Msg("terminate", i)
  BY <1>1, <1>m, TailShape, MessageShape DEF Terminate, Arriving
<1>3. \/ con' = con /\ \A c \in Connected : con[c].id # i
      \/ \E c \in Connected : con[c].id = i /\ con' = [con EXCEPT ![c] = Closed]
  BY <1>1, <1>m DEF Terminate, Arriving
<1>4. Takes(down, down', l)
  <2>1. down \in [Links -> Seq(Messages)]
    BY <1>i DEF Shape
  <2> QED BY <1>1, <2>1, ReadTakes
<1>5. \A k \in Links, x \in Ids : /\ Confirming(k, x)' <=> Confirming(k, x)
                                  /\ Ending(k, x)' => Ending(k, x)
                                  /\ Ending(k, x) => Ending(k, x)' \/ (k = l /\ x = i)
  <2> SUFFICES ASSUME NEW x \in Ids
               PROVE  /\ Confirming(l, x)' <=> Confirming(l, x)
                      /\ Ending(l, x)' => Ending(l, x)
                      /\ Ending(l, x) => Ending(l, x)' \/ x = i
    BY <1>4 DEF Takes, Confirming, Ending
  <2>1. (Confirming(l, x)' => Confirming(l, x)) /\ (Ending(l, x)' => Ending(l, x))
    BY <1>4 DEF Takes, Confirming, Ending
  <2>2. Confirming(l, x) => Confirming(l, x)'
    <3> SUFFICES ASSUME NEW j \in DOMAIN down[l], down[l][j] = Msg("confirm", x)
                 PROVE  Confirming(l, x)'
      BY DEF Confirming
    <3>1. j # 1
      BY <1>2, MessageShape
    <3> QED BY <1>4, <3>1 DEF Takes, Confirming
  <2>3. Ending(l, x) => Ending(l, x)' \/ x = i
    <3> SUFFICES ASSUME NEW j \in DOMAIN down[l], down[l][j] = Msg("terminate", x), x # i
                 PROVE  Ending(l, x)'
      BY DEF Ending
    <3>1. j # 1
      BY <1>2, MessageShape
    <3> QED BY <1>4, <3>1 DEF Takes, Ending
  <2> QED BY <2>1, <2>2, <2>3
<1>6. \A c \in Consoles :
        /\ con[c].id = i => con'[c].id \in {i, 0} /\ (i \notin left[l] => con'[c].id = 0)
        /\ con[c].id # i => con'[c] = con[c]
  <2>1. con \in [Consoles -> Console] /\ Connected \subseteq Consoles /\ i # 0
    BY <1>2, <1>i, MessageShape DEF Shape, Connected
  <2>2. \A c \in Consoles : con[c].id = i => c \in Connected
    BY <1>i, <2>1 DEF NoLinkNoId, Connected
  <2>3. ASSUME NEW c \in Connected, con[c].id = i, con' = [con EXCEPT ![c] = Closed]
        PROVE  \A x \in Consoles :
                 /\ con[x].id = i => con'[x].id \in {i, 0} /\ (i \notin left[l] => con'[x].id = 0)
                 /\ con[x].id # i => con'[x] = con[x]
    <3>1. \A x \in Consoles : con[x].id = i /\ i \notin left[l] => x = c
      BY <1>1, <1>i, <2>1, <2>3 DEF OneConsolePerId
    <3>2. con'[c] = Closed /\ Closed.id = 0 /\ \A x \in Consoles : x # c => con'[x] = con[x]
      BY <2>1, <2>3 DEF Closed
    <3> QED BY <2>3, <3>1, <3>2
  <2> QED BY <1>3, <2>2, <2>3
<1>7. \A k \in Links, x \in Ids : /\ HasId(k, x)' => HasId(k, x) /\ (x # i \/ i \in left[l])
                                  /\ HasId(k, x) => HasId(k, x)' \/ (k = l /\ x = i)
                                  /\ Leaving(k, x)' <=> Leaving(k, x)
  BY <1>1, <1>2, <1>6, MessageShape DEF HasId, Leaving
<1>8. SlotKept' /\ Told' /\ LeftFirst' /\ Heard'
  BY <1>i, <1>1, <1>5, <1>7 DEF SlotKept, Told, LeftFirst, Heard
<1>9. EndFollows'
  <2> SUFFICES ASSUME NEW k \in Links, NEW x \in Ids, NEW j \in DOMAIN down'[k], "server" \in ends[k],
                      down'[k][j] = Msg("confirm", x), desc[x] = None, x \notin left[k]
               PROVE  \E n \in DOMAIN down'[k] : n > j /\ down'[k][n] = Msg("terminate", x)
    BY <1>1 DEF EndFollows
  <2>1. CASE k # l
    BY <1>4, <1>i, <2>1 DEF Takes, EndFollows
  <2>2. CASE k = l
    <3>1. j \in Nat \ {0} /\ j + 1 \in DOMAIN down[l] /\ down[l][j + 1] = Msg("confirm", x)
      BY <1>4, <2>2 DEF Takes
    <3>2. PICK n \in DOMAIN down[l] : n > j + 1 /\ down[l][n] = Msg("terminate", x)
      BY <1>i, <2>2, <3>1 DEF EndFollows
    <3>3. n \in Nat \ {0} /\ (n # 1 => n - 1 \in DOMAIN down'[l] /\ down'[l][n - 1] = down[l][n])
      BY <1>4 DEF Takes
    <3>4. n # 1 /\ n - 1 > j
      BY <3>1, <3>2, <3>3
    <3> QED BY <2>2, <3>2, <3>3, <3>4
  <2> QED BY <2>1, <2>2
<1>10. Reached'
  <2> SUFFICES ASSUME NEW x \in Ids, desc[x] # None, multi[desc[x].slot] = desc[x].link,
                      "mplex" \in ends[desc[x].link]
               PROVE  HasId(desc[x].link, x)' \/ Confirming(desc[x].link, x)' \/ Leaving(desc[x].link, x)'
    BY <1>1 DEF Reached
  <2>1. desc[x].slot \in Slots /\ desc[x].link \in Links
    BY <1>i DEF Shape
  <2>2. "server" \in ends[desc[x].link]
    BY <1>i, <2>1 DEF EndsKept
  <2>3. HasId(desc[x].link, x) \/ Confirming(desc[x].link, x) \/ Leaving(desc[x].link, x)
    BY <1>i DEF Reached
  <2>4. ~(desc[x].link = l /\ x = i)
    <3>1. Ending(l, i)
      BY <1>2, <1>4 DEF Ending, Takes
    <3> QED BY <1>i, <2>2, <3>1 DEF Told
  <2> QED BY <1>1, <1>5, <1>7, <2>1, <2>3, <2>4
<1> QED BY <1>8, <1>9, <1>10 DEF MInv

-----------------------------------------------------------------------------
(* The server: an id whose session it ends has said farewell, or has lost  *)
(* its link.                                                               *)
LEMMA SessionsKeepMInv ==
  ASSUME IInv, MInv, UNCHANGED <<con, mud, left, ends, down, multi, nid>>,
         \A i \in Ids : desc'[i] \in {None, desc[i]},
         \A l \in Links, i \in Ids : /\ Leaving(l, i)' => Leaving(l, i)
                                     /\ Leaving(l, i) => Leaving(l, i)' \/ desc'[i] = None,
         \A i \in Ids : desc[i] # None /\ desc'[i] = None /\ "server" \in ends[desc[i].link] =>
           Leaving(desc[i].link, i)
  PROVE  MInv'
<1>i. /\ Shape /\ Given
      /\ SlotKept /\ Told /\ LeftFirst /\ EndFollows /\ Heard /\ Reached
  BY DEF IInv, MInv
<1>1. \A l \in Links, i \in Ids : /\ HasId(l, i)' <=> HasId(l, i)
                                  /\ Confirming(l, i)' <=> Confirming(l, i)
                                  /\ Ending(l, i)' <=> Ending(l, i)
  BY DEF HasId, Confirming, Ending
<1>2. SlotKept' /\ Told' /\ LeftFirst'
  BY <1>i, <1>1 DEF SlotKept, Told, LeftFirst
<1>3. ASSUME NEW l \in Links, NEW i \in Ids, "server" \in ends[l], HasId(l, i) \/ Confirming(l, i),
             i \notin left[l], desc[i] # None
      PROVE  desc'[i] # None
  <2>1. desc[i].link = l
    BY <1>i, <1>3 DEF Given, Used, HasId
  <2> QED BY <1>i, <1>3, <2>1 DEF LeftFirst
<1>4. Heard'
  BY <1>i, <1>1, <1>3 DEF Heard
<1>5. EndFollows'
  <2> SUFFICES ASSUME NEW l \in Links, NEW i \in Ids, NEW j \in DOMAIN down[l], "server" \in ends[l],
                      down[l][j] = Msg("confirm", i), desc'[i] = None, i \notin left[l]
               PROVE  \E k \in DOMAIN down[l] : k > j /\ down[l][k] = Msg("terminate", i)
    BY DEF EndFollows
  <2>1. desc[i] = None
    BY <1>3 DEF Confirming
  <2> QED BY <1>i, <2>1 DEF EndFollows
<1>6. Reached'
  <2> SUFFICES ASSUME NEW i \in Ids, desc'[i] # None, multi[desc'[i].slot] = desc'[i].link,
                      "mplex" \in ends[desc'[i].link]
               PROVE  HasId(desc[i].link, i)' \/ Confirming(desc[i].link, i)' \/ Leaving(desc[i].link, i)'
    BY DEF Reached
  <2>1. desc'[i] = desc[i] /\ desc[i].link \in Links
    BY <1>i DEF Shape
  <2>2. HasId(desc[i].link, i) \/ Confirming(desc[i].link, i) \/ Leaving(desc[i].link, i)
    BY <1>i, <2>1 DEF Reached
  <2> QED BY <1>1, <2>1, <2>2
<1> QED BY <1>2, <1>4, <1>5, <1>6 DEF MInv

LEMMA KnownKeepsMInv ==
  ASSUME IInv, MInv, NEW s \in Slots, Known(s)
  PROVE  MInv'
<1>i. Shape /\ SlotKept
  BY DEF IInv, MInv
<1>l. PICK l \in Links : l = multi[s]
  BY <1>i DEF Known, Reading, Shape
<1>m. PICK m : m = Head(up[l])
  OBVIOUS
<1>1. /\ up[l] # << >> /\ up[l] \in Seq(Messages) /\ m.id # 0 /\ desc[m.id].slot = s
      /\ up' = [up EXCEPT ![l] = Tail(up[l])]
      /\ desc' = IF m.kind = "terminate" THEN [desc EXCEPT ![m.id] = None] ELSE desc
      /\ UNCHANGED <<con, mud, left, ends, down, multi, nid>>
  BY <1>i, <1>l, <1>m DEF Known, Reading, Received, Silent, mplex, Shape
<1>2. m.id \in Ids /\ m = Msg(m.kind, m.id) /\ up[l][1] = m /\ 1 \in DOMAIN up[l]
  BY <1>1, <1>m, TailShape, MessageShape
<1>3. Takes(up, up', l)
  BY <1>i, <1>1, ReadTakes DEF Shape
<1>4. /\ \A i \in Ids : desc'[i] \in {None, desc[i]}
      /\ \A i \in Ids : desc[i] # None /\ desc'[i] = None => i = m.id /\ m.kind = "terminate"
      /\ m.kind = "terminate" => desc'[m.id] = None
  BY <1>i, <1>1, <1>2 DEF Shape
<1>5. \A k \in Links, i \in Ids : /\ Leaving(k, i)' => Leaving(k, i)
                                  /\ Leaving(k, i) => Leaving(k, i)' \/ desc'[i] = None
  <2>1. \A k \in Links, i \in Ids : Leaving(k, i)' => Leaving(k, i)
    BY <1>3 DEF Takes, Leaving
  <2>2. ASSUME NEW k \in Links, NEW i \in Ids, Leaving(k, i) PROVE Leaving(k, i)' \/ desc'[i] = None
    <3>1. PICK j \in DOMAIN up[k] : up[k][j] = Msg("terminate", i)
      BY <2>2 DEF Leaving
    <3>2. CASE k = l /\ j = 1
      BY <1>2, <1>4, <3>1, <3>2, MessageShape
    <3>3. CASE ~(k = l /\ j = 1)
      BY <1>3, <3>1, <3>3 DEF Takes, Leaving
    <3> QED BY <3>2, <3>3
  <2> QED BY <2>1, <2>2
<1>6. ASSUME NEW i \in Ids, desc[i] # None, desc'[i] = None, "server" \in ends[desc[i].link]
      PROVE  Leaving(desc[i].link, i)
  <2>1. i = m.id /\ m = Msg("terminate", i)
    BY <1>2, <1>4, <1>6
  <2>2. Leaving(l, i)
    BY <1>2, <2>1 DEF Leaving
  <2>3. desc[i].link = l
    BY <1>1, <1>6, <1>i, <1>l, <2>1 DEF SlotKept
  <2> QED BY <2>2, <2>3
<1> QED BY <1>1, <1>4, <1>5, <1>6, SessionsKeepMInv

LEMMA IgnoringKeepsMInv ==
  ASSUME IInv, MInv, NEW s \in Slots, Unknown(s), ~(succ_err[s] > MaxErrors)
  PROVE  MInv'
<1>i. Shape
  BY DEF IInv
<1>l. PICK l \in Links : l = multi[s]
  BY <1>i DEF Unknown, Reading, Shape
<1>m. PICK m : m = Head(up[l])
  OBVIOUS
<1>1. /\ up[l] # << >> /\ up[l] \in Seq(Messages) /\ m.id # 0 /\ desc[m.id] = None
      /\ up' = [up EXCEPT ![l] = Tail(up[l])]
      /\ UNCHANGED <<con, mud, left, ends, down, multi, nid, desc>>
  BY <1>i, <1>l, <1>m DEF Unknown, Reading, Received, Silent, mplex, Shape
<1>2. m.id \in Ids /\ m = Msg(m.kind, m.id) /\ up[l][1] = m /\ 1 \in DOMAIN up[l]
  BY <1>1, <1>m, TailShape, MessageShape
<1>3. Takes(up, up', l)
  BY <1>i, <1>1, ReadTakes DEF Shape
<1>4. \A k \in Links, i \in Ids : Leaving(k, i)' => Leaving(k, i)
  BY <1>3 DEF Takes, Leaving
<1>5. ASSUME NEW k \in Links, NEW i \in Ids, Leaving(k, i) PROVE Leaving(k, i)' \/ desc'[i] = None
  <2>1. PICK j \in DOMAIN up[k] : up[k][j] = Msg("terminate", i)
    BY <1>5 DEF Leaving
  <2>2. CASE k = l /\ j = 1
    BY <1>1, <1>2, <2>1, <2>2, MessageShape
  <2>3. CASE ~(k = l /\ j = 1)
    BY <1>3, <2>1, <2>3 DEF Takes, Leaving
  <2> QED BY <2>2, <2>3
<1>6. \A i \in Ids : desc'[i] \in {None, desc[i]}
  BY <1>1
<1> QED BY <1>1, <1>4, <1>5, <1>6, SessionsKeepMInv

(* multi_clear ends the sessions that have lost their link.                *)
LEMMA PhasesKeepMInv ==
  ASSUME IInv, MInv, NoAccept \/ EndWait \/ MultiClear
  PROVE  MInv'
<1>i. Shape /\ SlotKept
  BY DEF IInv, MInv
<1>1. UNCHANGED <<con, mud, left, ends, up, down, multi, nid>>
  BY DEF NoAccept, EndWait, MultiClear, Silent, mplex, wires
<1>2. \A i \in Ids : \/ desc'[i] = desc[i]
                     \/ desc[i] # None /\ multi[desc[i].slot] = None /\ desc'[i] = None
  <2>1. CASE NoAccept \/ EndWait
    BY <2>1 DEF NoAccept, EndWait
  <2>2. CASE MultiClear
    BY <2>2 DEF MultiClear, Cleared
  <2> QED BY <2>1, <2>2
<1>3. \A i \in Ids : desc[i] # None /\ desc'[i] = None => "server" \notin ends[desc[i].link]
  <2>1. \A i \in Ids : desc[i] # None => desc[i].link \in Links
    BY <1>i DEF Shape
  <2> QED BY <1>i, <1>2, <2>1, NoneAssumption DEF SlotKept
<1>4. \A k \in Links, i \in Ids : Leaving(k, i)' <=> Leaving(k, i)
  BY <1>1 DEF Leaving
<1>5. \A i \in Ids : desc'[i] \in {None, desc[i]}
  BY <1>2
<1> QED BY <1>1, <1>3, <1>4, <1>5, SessionsKeepMInv

(* descriptor_close tells the multiplexer, behind whatever is under way.   *)
LEMMA ClosingKeepsMInv ==
  ASSUME IInv, MInv, NEW i \in Ids, CloseSession(i)
  PROVE  MInv'
<1>i. /\ Shape /\ EndsKept /\ Given
      /\ SlotKept /\ Told /\ LeftFirst /\ EndFollows /\ Heard /\ Reached
  BY DEF IInv, MInv
<1>l. PICK l : l = multi[desc[i].slot]
  OBVIOUS
<1> DEFINE ms == <<Msg("terminate", i)>>
<1>1. /\ UNCHANGED <<con, mud, left, ends, up, multi, nid>>
      /\ desc[i] # None /\ desc' = [desc EXCEPT ![i] = None]
      /\ down' = Written(down, l, "mplex", ms)
  BY <1>l DEF CloseSession, Silent, mplex, Notice
<1>2. ms \in Seq(Messages) /\ DOMAIN ms = {1} /\ ms[1] = Msg("terminate", i)
  BY MessageShape
<1> HIDE DEF ms
<1>3. l \in Links \cup {None} /\ Adds(down, down', l, "mplex", ms) /\ Behind(down, down', l, "mplex", ms)
  <2>1. l \in Links \cup {None}
    BY <1>i, <1>l, <1>1 DEF Shape
  <2>2. down \in [Links -> Seq(Messages)] /\ ends \in [Links -> SUBSET {"mplex", "server"}]
    BY <1>i DEF Shape
  <2> QED BY <1>1, <1>2, <2>1, <2>2, WrittenShape, WrittenBehind
<1>4. /\ desc'[i] = None /\ \A x \in Ids : x # i => desc'[x] = desc[x]
      /\ desc[i].link \in Links
      /\ "server" \in ends[desc[i].link] => l = desc[i].link
  BY <1>i, <1>l, <1>1 DEF Shape, SlotKept
<1>5. \A k \in Links : "server" \in ends[k] /\ mud = k /\ Used(k, i) =>
        \E n \in DOMAIN down'[k] : /\ down'[k][n] = Msg("terminate", i)
                                   /\ \A j \in DOMAIN down[k] : n > j
  <2> SUFFICES ASSUME NEW k \in Links, "server" \in ends[k], mud = k, Used(k, i)
               PROVE  \E n \in DOMAIN down'[k] : /\ down'[k][n] = Msg("terminate", i)
                                                 /\ \A j \in DOMAIN down[k] : n > j
    OBVIOUS
  <2>1. l = k /\ "mplex" \in ends[k]
    BY <1>i, <1>1, <1>4 DEF Given, EndsKept
  <2> QED BY <1>2, <1>3, <2>1 DEF Behind
<1>6. \A k \in Links, x \in Ids : /\ HasId(k, x)' <=> HasId(k, x)
                                  /\ Leaving(k, x)' <=> Leaving(k, x)
                                  /\ Ending(k, x) => Ending(k, x)'
                                  /\ Ending(k, x)' => Ending(k, x) \/ x = i
                                  /\ Confirming(k, x)' <=> Confirming(k, x)
  <2>1. \A k \in Links, x \in Ids : /\ HasId(k, x)' <=> HasId(k, x)
                                    /\ Leaving(k, x)' <=> Leaving(k, x)
    BY <1>1 DEF HasId, Leaving
  <2>2. \A k \in Links, x \in Ids : /\ Ending(k, x) => Ending(k, x)'
                                    /\ Confirming(k, x) => Confirming(k, x)'
    BY <1>3 DEF Behind, Ending, Confirming
  <2>3. \A k \in Links : \A j \in DOMAIN down'[k] :
           \/ j \in DOMAIN down[k] /\ down'[k][j] = down[k][j]
           \/ down'[k][j] = Msg("terminate", i)
    BY <1>2, <1>3 DEF Adds
  <2>4. \A k \in Links, x \in Ids : /\ Ending(k, x)' => Ending(k, x) \/ x = i
                                    /\ Confirming(k, x)' => Confirming(k, x)
    BY <2>3, MessageShape DEF Ending, Confirming
  <2> QED BY <2>1, <2>2, <2>4
<1>7. SlotKept' /\ Told' /\ LeftFirst'
  BY <1>i, <1>1, <1>4, <1>6 DEF SlotKept, Told, LeftFirst
<1>8. Heard'
  <2> SUFFICES ASSUME NEW k \in Links, NEW x \in Ids, "server" \in ends[k], HasId(k, x), desc'[x] = None,
                      x \notin left[k]
               PROVE  Ending(k, x)'
    BY <1>1, <1>6 DEF Heard
  <2>1. CASE x = i
    BY <1>5, <2>1 DEF HasId, Used, Ending
  <2>2. CASE x # i
    BY <1>i, <1>4, <1>6, <2>2 DEF Heard
  <2> QED BY <2>1, <2>2
<1>9. EndFollows'
  <2> SUFFICES ASSUME NEW k \in Links, NEW x \in Ids, NEW j \in DOMAIN down'[k], "server" \in ends[k],
                      down'[k][j] = Msg("confirm", x), desc'[x] = None, x \notin left[k]
               PROVE  \E n \in DOMAIN down'[k] : n > j /\ down'[k][n] = Msg("terminate", x)
    BY <1>1 DEF EndFollows
  <2>1. j \in DOMAIN down[k] /\ down[k][j] = Msg("confirm", x)
    BY <1>2, <1>3, MessageShape DEF Adds
  <2>2. CASE x = i
    <3>1. mud = k
      BY <1>i, <2>1 DEF EndsKept
    <3> QED BY <1>5, <2>1, <2>2, <3>1 DEF Used, Confirming
  <2>3. CASE x # i
    <3>1. PICK n \in DOMAIN down[k] : n > j /\ down[k][n] = Msg("terminate", x)
      BY <1>i, <1>4, <2>1, <2>3 DEF EndFollows
    <3> QED BY <1>3, <3>1 DEF Behind
  <2> QED BY <2>2, <2>3
<1>10. Reached'
  <2> SUFFICES ASSUME NEW x \in Ids, desc'[x] # None, multi[desc'[x].slot] = desc'[x].link,
                      "mplex" \in ends[desc'[x].link]
               PROVE  HasId(desc[x].link, x) \/ Confirming(desc[x].link, x) \/ Leaving(desc[x].link, x)
    <3>1. \A x \in Ids : desc'[x] # None => desc'[x] = desc[x] /\ desc[x].link \in Links
      BY <1>i, <1>4 DEF Shape
    <3> QED BY <1>1, <1>6, <3>1 DEF Reached
  <2> QED BY <1>i, <1>4 DEF Reached
<1> QED BY <1>7, <1>8, <1>9, <1>10 DEF MInv

(* A new descriptor: its confirmation is under way, unless the link is     *)
(* gone already.                                                           *)
LEMMA RequestKeepsMInv ==
  ASSUME IInv, MInv, NEW s \in Slots, Request(s)
  PROVE  MInv'
<1>i. /\ Shape /\ EndsKept /\ Given
      /\ SlotKept /\ Told /\ LeftFirst /\ EndFollows /\ Heard /\ Reached
  BY DEF IInv, MInv
<1>l. PICK l \in Links : l = multi[s]
  BY <1>i DEF Request, Reading, Shape
<1>n. PICK n \in Ids : n = nid + 1
  <2>1. nid < MaxIds /\ nid \in 0..MaxIds /\ MaxIds \in Nat
    BY <1>i, BoundAssumption DEF Request, Shape
  <2>2. nid + 1 \in Ids
    BY <2>1 DEF Ids
  <2> QED BY <2>2
<1> DEFINE ms == <<Msg("confirm", n)>>
<1>1. /\ up[l] # << >> /\ up[l] \in Seq(Messages) /\ Head(up[l]).kind = "request"
      /\ up' = [up EXCEPT ![l] = Tail(up[l])]
      /\ nid' = n /\ desc' = [desc EXCEPT ![n] = [slot |-> s, link |-> l]]
      /\ down' = Written(down, l, "mplex", ms)
      /\ UNCHANGED <<con, mud, left, ends, multi>>
  BY <1>i, <1>l, <1>n DEF Request, Reading, Received, Silent, mplex, Shape
<1>2. ms \in Seq(Messages) /\ DOMAIN ms = {1} /\ ms[1] = Msg("confirm", n)
  BY MessageShape
<1> HIDE DEF ms
<1>3. Adds(down, down', l, "mplex", ms) /\ Behind(down, down', l, "mplex", ms)
  <2>1. down \in [Links -> Seq(Messages)] /\ ends \in [Links -> SUBSET {"mplex", "server"}]
    BY <1>i DEF Shape
  <2> QED BY <1>1, <1>2, <2>1, WrittenShape, WrittenBehind
<1>4. /\ desc'[n].slot = s /\ desc'[n].link = l /\ desc'[n] # None
      /\ \A i \in Ids : i # n => desc'[i] = desc[i]
  <2>1. desc'[n] = [slot |-> s, link |-> l] /\ \A i \in Ids : i # n => desc'[i] = desc[i]
    BY <1>i, <1>1 DEF Shape
  <2>2. desc'[n] # None
    BY <2>1, NoneAssumption
  <2> QED BY <2>1, <2>2
<1>5. "server" \in ends[l]
  BY <1>i, <1>1 DEF EndsKept
<1>6. n \in Nat /\ nid \in Nat /\ \A i \in Ids : i <= nid => i # n /\ i <= n
  BY <1>i, <1>n, BoundAssumption DEF Shape, Ids
<1>7. \A k \in Links : "server" \in ends[k] => ~Used(k, n)
  BY <1>i, <1>6 DEF Given
<1>8. Takes(up, up', l)
  BY <1>i, <1>1, ReadTakes DEF Shape
<1>9. \A k \in Links, i \in Ids : Leaving(k, i)' <=> Leaving(k, i)
  <2>1. \A k \in Links, i \in Ids : Leaving(k, i)' => Leaving(k, i)
    BY <1>8 DEF Takes, Leaving
  <2>2. ASSUME NEW k \in Links, NEW i \in Ids, NEW j \in DOMAIN up[k], up[k][j] = Msg("terminate", i)
        PROVE  Leaving(k, i)'
    <3>1. ~(k = l /\ j = 1)
      <4>1. up[l][1] = Head(up[l])
        BY <1>1, TailShape
      <4> QED BY <1>1, <2>2, <4>1, MessageShape
    <3> QED BY <1>8, <2>2, <3>1 DEF Takes, Leaving
  <2> QED BY <2>1, <2>2 DEF Leaving
<1>10. \A k \in Links : \A j \in DOMAIN down'[k] :
           \/ j \in DOMAIN down[k] /\ down'[k][j] = down[k][j]
           \/ k = l /\ down'[k][j] = Msg("confirm", n)
  BY <1>2, <1>3 DEF Adds
<1>11. \A k \in Links, i \in Ids : /\ HasId(k, i)' <=> HasId(k, i)
                                   /\ Ending(k, i)' <=> Ending(k, i)
                                   /\ Confirming(k, i) => Confirming(k, i)'
                                   /\ Confirming(k, i)' => Confirming(k, i) \/ (k = l /\ i = n)
  <2>1. \A k \in Links, i \in Ids : /\ HasId(k, i)' <=> HasId(k, i)
                                    /\ Ending(k, i) => Ending(k, i)'
                                    /\ Confirming(k, i) => Confirming(k, i)'
    BY <1>1, <1>3 DEF HasId, Behind, Ending, Confirming
  <2>2. \A k \in Links, i \in Ids : /\ Ending(k, i)' => Ending(k, i)
                                    /\ Confirming(k, i)' => Confirming(k, i) \/ (k = l /\ i = n)
    BY <1>10, MessageShape DEF Ending, Confirming
  <2> QED BY <2>1, <2>2
<1>12. SlotKept'
  <2> SUFFICES ASSUME NEW i \in Ids, desc'[i] # None
               PROVE  i <= n /\ ("server" \in ends[desc'[i].link] => multi[desc'[i].slot] = desc'[i].link)
    BY <1>1 DEF SlotKept
  <2>1. CASE i = n
    BY <1>4, <1>6, <1>l, <2>1
  <2>2. CASE i # n
    BY <1>i, <1>4, <1>6, <2>2 DEF SlotKept
  <2> QED BY <2>1, <2>2
<1>13. Told'
  BY <1>i, <1>1, <1>4, <1>6, <1>11 DEF Told
<1>14. LeftFirst'
  <2>1. n \notin left[l] => ~Leaving(l, n)
    BY <1>5, <1>7, MessageShape DEF Leaving, Used, Using
  <2> QED BY <1>i, <1>1, <1>9, <1>11, <2>1 DEF LeftFirst
<1>15. Heard'
  BY <1>i, <1>1, <1>4, <1>11 DEF Heard
<1>16. EndFollows'
  <2> SUFFICES ASSUME NEW k \in Links, NEW x \in Ids, NEW j \in DOMAIN down'[k], "server" \in ends[k],
                      down'[k][j] = Msg("confirm", x), desc'[x] = None, x \notin left[k]
               PROVE  \E a \in DOMAIN down'[k] : a > j /\ down'[k][a] = Msg("terminate", x)
    BY <1>1 DEF EndFollows
  <2>1. x # n /\ desc[x] = None
    BY <1>4
  <2>2. j \in DOMAIN down[k] /\ down[k][j] = Msg("confirm", x)
    BY <1>10, <2>1, MessageShape
  <2>3. PICK a \in DOMAIN down[k] : a > j /\ down[k][a] = Msg("terminate", x)
    BY <1>i, <2>1, <2>2 DEF EndFollows
  <2> QED BY <1>3, <2>3 DEF Behind
<1>17. Reached'
  <2> SUFFICES ASSUME NEW i \in Ids, NEW k \in Links, desc'[i] # None, k = desc'[i].link,
                      multi[desc'[i].slot] = k, "mplex" \in ends[k]
               PROVE  HasId(k, i)' \/ Confirming(k, i)' \/ Leaving(k, i)'
    <3>1. \A i \in Ids : desc'[i] # None => desc'[i].link \in Links
      BY <1>i, <1>4 DEF Shape
    <3> QED BY <1>1, <3>1 DEF Reached
  <2>1. CASE i = n
    BY <1>2, <1>3, <1>4, <2>1 DEF Behind, Confirming
  <2>2. CASE i # n
    BY <1>i, <1>4, <1>9, <1>11, <2>2 DEF Reached
  <2> QED BY <2>1, <2>2
<1> QED BY <1>12, <1>13, <1>14, <1>15, <1>16, <1>17 DEF MInv

(* The server closes a link, that of a slot or one that gets none.         *)
LEMMA HangingUpKeepsMInv ==
  ASSUME IInv, MInv, NEW l \in Links, Hung(l, "server"), UNCHANGED <<con, mud, left, desc, nid>>,
         \A s \in Slots : /\ multi[s] = l => multi'[s] = None
                          /\ multi[s] # l => multi'[s] = multi[s]
  PROVE  MInv'
<1>i. /\ Shape /\ EndsKept
      /\ SlotKept /\ Told /\ LeftFirst /\ EndFollows /\ Heard /\ Reached
  BY DEF IInv, MInv
<1>1. /\ \A k \in Links : /\ k # l => ends'[k] = ends[k]
                          /\ "mplex" \in ends'[k] <=> "mplex" \in ends[k]
      /\ "server" \notin ends'[l]
      /\ \A k \in Links : up'[k] \in {up[k], << >>}
  BY <1>i DEF Hung, Shape
<1>2. down' = down
  <2>1. down' = down \/ (ends[l] = {"server"} /\ down' = [down EXCEPT ![l] = << >>])
    BY DEF Hung
  <2>2. ASSUME ends[l] = {"server"} PROVE down[l] = << >>
    BY <1>i, <2>2 DEF EndsKept
  <2>3. down \in [Links -> Seq(Messages)]
    BY <1>i DEF Shape
  <2> QED BY <2>1, <2>2, <2>3
<1>3. \A k \in Links, i \in Ids : /\ HasId(k, i)' <=> HasId(k, i)
                                  /\ Confirming(k, i)' <=> Confirming(k, i)
                                  /\ Ending(k, i)' <=> Ending(k, i)
                                  /\ Leaving(k, i)' => Leaving(k, i)
                                  /\ k # l /\ Leaving(k, i) => Leaving(k, i)'
  BY <1>1, <1>2 DEF HasId, Confirming, Ending, Leaving, Hung, Shape
<1>4. \A i \in Ids : desc[i] # None => desc[i].link \in Links /\ desc[i].slot \in Slots
  BY <1>i DEF Shape
<1>5. SlotKept'
  BY <1>i, <1>1, <1>4 DEF SlotKept
<1>6. Told' /\ LeftFirst' /\ Heard' /\ EndFollows'
  <2>1. \A k \in Links : "server" \in ends'[k] => "server" \in ends[k]
    BY <1>1
  <2> QED BY <1>i, <1>2, <1>3, <2>1 DEF Told, LeftFirst, Heard, EndFollows
<1>7. Reached'
  <2> SUFFICES ASSUME NEW i \in Ids, NEW k \in Links, desc[i] # None, k = desc[i].link,
                      multi'[desc[i].slot] = k, "mplex" \in ends'[k]
               PROVE  HasId(k, i)' \/ Confirming(k, i)' \/ Leaving(k, i)'
    BY <1>4 DEF Reached
  <2>1. k # l /\ multi[desc[i].slot] = k /\ "mplex" \in ends[k]
    BY <1>1, <1>4, NoneAssumption
  <2>2. HasId(k, i) \/ Confirming(k, i) \/ Leaving(k, i)
    BY <1>i, <2>1 DEF Reached
  <2> QED BY <1>3, <2>1, <2>2
<1> QED BY <1>5, <1>6, <1>7 DEF MInv

LEMMA UnhookKeepsMInv ==
  ASSUME IInv, MInv, NEW s \in Slots,
         (Unknown(s) /\ succ_err[s] > MaxErrors) \/ EndOfStream(s) \/ WriteFails(s)
  PROVE  MInv'
<1>i. Shape /\ OnePlace
  BY DEF IInv
<1>l. PICK l \in Links : l = multi[s]
  BY <1>i DEF Unknown, EndOfStream, WriteFails, Reading, Shape
<1>1. /\ Hung(l, "server") /\ multi' = [multi EXCEPT ![s] = None]
      /\ UNCHANGED <<con, mud, left, desc, nid>>
  BY <1>l DEF Unknown, EndOfStream, WriteFails, Unhook, Silent, mplex
<1>2. \A t \in Slots : multi[t] = l => t = s
  BY <1>i, <1>l, NoneAssumption DEF OnePlace
<1>3. \A t \in Slots : /\ multi[t] = l => multi'[t] = None
                       /\ multi[t] # l => multi'[t] = multi[t]
  BY <1>i, <1>l, <1>1, <1>2 DEF Shape
<1> QED BY <1>1, <1>3, HangingUpKeepsMInv

LEMMA AcceptKeepsMInv ==
  ASSUME IInv, MInv, Accept
  PROVE  MInv'
<1>i. /\ Shape /\ OnePlace /\ LinkSlot
      /\ SlotKept /\ Told /\ LeftFirst /\ EndFollows /\ Heard /\ Reached
  BY DEF IInv, MInv
<1>l. PICK l \in Links : l = Head(backlog) /\ 1 \in DOMAIN backlog /\ l = backlog[1]
  BY <1>i, TailShape DEF Accept, Shape
<1>1. UNCHANGED <<desc, nid, con, mud, left>>
  BY DEF Accept, Silent, mplex
<1>2. CASE FreeSlots = {}
  <2>1. Hung(l, "server") /\ multi' = multi
    BY <1>l, <1>2 DEF Accept
  <2>2. \A s \in Slots : multi[s] # l
    BY <1>i, <1>l DEF OnePlace
  <2> QED BY <1>1, <2>1, <2>2, HangingUpKeepsMInv
<1>3. CASE FreeSlots # {}
  <2>1. UNCHANGED <<ends, up, down>>
    BY <1>3 DEF Accept, wires
  <2>2. PICK s \in Slots : multi[s] = None /\ multi' = [multi EXCEPT ![s] = l]
    BY <1>l, <1>3 DEF Accept, FreeSlots
  <2>3. \A i \in Ids : desc[i] # None =>
          desc[i].slot \in Slots /\ desc[i].link \in Links /\ desc[i].link # l
    BY <1>i, <1>l DEF LinkSlot, Shape
  <2>4. \A t \in Slots : (t # s => multi'[t] = multi[t]) /\ multi'[s] = l
    BY <1>i, <2>2 DEF Shape
  <2>5. \A k \in Links, i \in Ids : /\ HasId(k, i)' <=> HasId(k, i)
                                    /\ Confirming(k, i)' <=> Confirming(k, i)
                                    /\ Ending(k, i)' <=> Ending(k, i)
                                    /\ Leaving(k, i)' <=> Leaving(k, i)
    BY <1>1, <2>1 DEF HasId, Confirming, Ending, Leaving
  <2>6. SlotKept'
    BY <1>i, <1>1, <2>1, <2>2, <2>3, <2>4, NoneAssumption DEF SlotKept
  <2>7. Told' /\ LeftFirst' /\ Heard' /\ EndFollows'
    BY <1>i, <1>1, <2>1, <2>5 DEF Told, LeftFirst, Heard, EndFollows
  <2>8. Reached'
    <3> SUFFICES ASSUME NEW i \in Ids, NEW k \in Links, desc[i] # None, k = desc[i].link,
                        multi'[desc[i].slot] = k, "mplex" \in ends[k]
                 PROVE  HasId(k, i)' \/ Confirming(k, i)' \/ Leaving(k, i)'
      BY <1>1, <2>1, <2>3 DEF Reached
    <3>1. multi[desc[i].slot] = k
      BY <2>3, <2>4
    <3>2. HasId(k, i) \/ Confirming(k, i) \/ Leaving(k, i)
      BY <1>i, <3>1 DEF Reached
    <3> QED BY <2>5, <3>2
  <2> QED BY <2>6, <2>7, <2>8 DEF MInv
<1> QED BY <1>2, <1>3

LEMMA RestartKeepsMInv ==
  ASSUME IInv, MInv, ServerCrash \/ \E s \in Slots : AssertFails(s)
  PROVE  MInv'
<1>1. /\ \A l \in Links : "server" \notin ends'[l] /\ up'[l] = << >>
      /\ \A i \in Ids : desc'[i] = None
  BY DEF ServerCrash, AssertFails, Restarted, IInv, Shape
<1>2. SlotKept' /\ Reached'
  BY <1>1 DEF SlotKept, Reached
<1>3. Told' /\ LeftFirst' /\ EndFollows' /\ Heard'
  BY <1>1 DEF Told, LeftFirst, EndFollows, Heard, Leaving
<1> QED BY <1>2, <1>3 DEF MInv

LEMMA StepKeepsMInv == IInv /\ MInv /\ [Next]_vars => MInv'
<1> SUFFICES ASSUME IInv, MInv, [Next]_vars PROVE MInv'
  OBVIOUS
<1>i. IInv'
  BY StepKeepsIInv
<1>1. CASE UNCHANGED vars
  <2>1. UNCHANGED <<con, mud, left, ends, up, down, multi, desc, nid>>
    BY <1>1 DEF vars, mplex, server, wires
  <2>2. \A l \in Links, i \in Ids : (Leaving(l, i)' <=> Leaving(l, i)) /\ (HasId(l, i)' <=> HasId(l, i))
    BY <2>1 DEF Leaving, HasId
  <2> QED BY <2>1, <2>2, LeavingKeepsMInv
<1>2. CASE Multiplexer
  BY <1>i, <1>2, ConsolesKeepMInv, ClearingKeepsMInv, MudUpKeepsMInv, ConfirmKeepsMInv,
     TerminateKeepsMInv, MudGoneKeepsMInv DEF Multiplexer
<1>3. CASE Server
  <2>1. ASSUME NEW s \in Slots, Unknown(s) PROVE MInv'
    BY <2>1, IgnoringKeepsMInv, UnhookKeepsMInv
  <2>2. ASSUME NEW s \in Slots, EndOfStream(s) \/ WriteFails(s) PROVE MInv'
    BY <2>2, UnhookKeepsMInv
  <2> QED BY <1>3, <2>1, <2>2, AcceptKeepsMInv, PhasesKeepMInv, RestartKeepsMInv, RequestKeepsMInv,
             KnownKeepsMInv, ClosingKeepsMInv DEF Server
<1> QED BY <1>1, <1>2, <1>3 DEF Next

(* No player is left talking to nobody, and no session is left that nobody *)
(* can type to: descriptor_close, cConHook::Close and read_mud keep the    *)
(* consoles and the descriptors together, or see the end of one under way  *)
(* to the other, whatever is restarted or lost.                            *)
THEOREM NobodyTalksToNobody == Spec => []Matched
<1>1. IInv /\ MInv => Matched
  <2> SUFFICES ASSUME IInv, MInv PROVE Matched
    OBVIOUS
  <2>0. Shape /\ EndsKept /\ Given /\ Heard /\ Reached
    BY DEF IInv, MInv
  <2>1. ASSUME NEW c \in Consoles, mud # None, con[c].id \notin left[mud] \cup {0},
               "server" \in ends[mud]
        PROVE  \/ desc[con[c].id] # None /\ desc[con[c].id].link = mud
               \/ Msg("terminate", con[c].id) \in Range(down[mud])
    <3>1. mud \in Links /\ con[c].id \in Ids
      BY <2>0, <2>1, BoundAssumption DEF Shape, Console, Ids
    <3>2. HasId(mud, con[c].id) /\ Used(mud, con[c].id)
      BY <2>1 DEF HasId, Used
    <3>3. desc[con[c].id] # None \/ Ending(mud, con[c].id)
      BY <2>0, <2>1, <3>1, <3>2 DEF Heard
    <3>4. desc[con[c].id] # None => desc[con[c].id].link = mud
      BY <2>0, <2>1, <3>1, <3>2 DEF Given
    <3> QED BY <3>3, <3>4 DEF Ending, Range
  <2>2. ASSUME NEW i \in Ids, desc[i] # None, multi[desc[i].slot] = desc[i].link,
               "mplex" \in ends[desc[i].link]
        PROVE  \/ mud = desc[i].link /\ \E c \in Consoles : con[c].id = i
               \/ Msg("confirm", i) \in Range(down[desc[i].link])
               \/ Msg("terminate", i) \in Range(up[desc[i].link])
    BY <2>0, <2>2 DEF Reached, HasId, Confirming, Leaving, Range
  <2> QED BY <2>1, <2>2 DEF Matched
<1>2. IInv /\ MInv /\ [Next]_vars => IInv' /\ MInv'
  BY StepKeepsIInv, StepKeepsMInv
<1>3. Init => IInv /\ MInv
  BY InitHolds, InitMatched
<1> QED BY <1>1, <1>2, <1>3, PTL DEF Spec

-----------------------------------------------------------------------------
(* No player waits for an answer that does not come (WaitingIsAnswered):   *)
(* whoever begins to wait sends a request, a request is exchanged for a    *)
(* confirmation and a confirmation taken by one that waits, and what is    *)
(* under way is lost only with the link.                                   *)
Marks(q, k) == { j \in DOMAIN q : q[j].kind = k }

LEMMA UnderType ==
  ASSUME NEW q \in Seq(Messages), NEW k
  PROVE  IsFiniteSet(Marks(q, k)) /\ Under(q, k) = Cardinality(Marks(q, k)) /\ Under(q, k) \in Nat
<1>1. IsFiniteSet(DOMAIN q)
  BY LenProperties, FS_Interval
<1>2. IsFiniteSet(Marks(q, k))
  BY <1>1, FS_Subset DEF Marks
<1>3. Under(q, k) = Cardinality(Marks(q, k))
  BY DEF Under, Marks
<1> QED BY <1>2, <1>3, FS_CardinalityType

(* What is added is counted, what was there stays so.                      *)
LEMMA UnderGrows ==
  ASSUME NEW q0 \in Seq(Messages), NEW q1 \in Seq(Messages), NEW k,
         \A j \in DOMAIN q0 : j \in DOMAIN q1 /\ q1[j] = q0[j]
  PROVE  /\ Under(q0, k) <= Under(q1, k)
         /\ \A n \in DOMAIN q1 : n \notin DOMAIN q0 /\ q1[n].kind = k => Under(q0, k) + 1 <= Under(q1, k)
<1>1. /\ Marks(q0, k) \subseteq Marks(q1, k)
      /\ IsFiniteSet(Marks(q0, k)) /\ IsFiniteSet(Marks(q1, k))
      /\ Under(q0, k) = Cardinality(Marks(q0, k)) /\ Under(q1, k) = Cardinality(Marks(q1, k))
      /\ Under(q0, k) \in Nat /\ Under(q1, k) \in Nat
  BY UnderType DEF Marks
<1>2. Under(q0, k) <= Under(q1, k)
  BY <1>1, FS_Subset
<1>3. ASSUME NEW n \in DOMAIN q1, n \notin DOMAIN q0, q1[n].kind = k
      PROVE  Under(q0, k) + 1 <= Under(q1, k)
  <2>1. n \notin Marks(q0, k) /\ Marks(q0, k) \cup {n} \subseteq Marks(q1, k)
    BY <1>1, <1>3 DEF Marks
  <2>2. /\ IsFiniteSet(Marks(q0, k) \cup {n})
        /\ Cardinality(Marks(q0, k) \cup {n}) = Cardinality(Marks(q0, k)) + 1
    BY <1>1, <2>1, FS_AddElement
  <2>3. Cardinality(Marks(q0, k) \cup {n}) <= Cardinality(Marks(q1, k))
    BY <1>1, <2>1, FS_Subset
  <2> QED BY <1>1, <2>2, <2>3
<1> QED BY <1>2, <1>3

(* What is taken counted at most once.                                     *)
LEMMA UnderTail ==
  ASSUME NEW q \in Seq(Messages), q # << >>, NEW k
  PROVE  /\ Under(q, k) <= Under(Tail(q), k) + 1
         /\ Head(q).kind # k => Under(q, k) <= Under(Tail(q), k)
<1> DEFINE A == Marks(q, k) \ {1}
           B == Marks(Tail(q), k)
<1>1. /\ Tail(q) \in Seq(Messages) /\ Len(Tail(q)) = Len(q) - 1
      /\ \A j \in 1..Len(Tail(q)) : Tail(q)[j] = q[j + 1]
  BY HeadTailProperties
<1>2. /\ DOMAIN q = 1..Len(q) /\ Len(q) \in Nat /\ DOMAIN Tail(q) = 1..Len(Tail(q))
  BY <1>1, LenProperties
<1>3. /\ IsFiniteSet(Marks(q, k)) /\ IsFiniteSet(B)
      /\ Under(q, k) = Cardinality(Marks(q, k)) /\ Under(Tail(q), k) = Cardinality(B)
      /\ Under(q, k) \in Nat /\ Under(Tail(q), k) \in Nat
  BY <1>1, UnderType
<1>4. \A j \in A : j - 1 \in B /\ j \in Int
  <2> SUFFICES ASSUME NEW j \in A PROVE j - 1 \in B /\ j \in Int
    OBVIOUS
  <2>1. j \in 1..Len(q) /\ j # 1 /\ q[j].kind = k
    BY <1>2 DEF Marks
  <2>2. j - 1 \in 1..Len(Tail(q)) /\ (j - 1) + 1 = j
    BY <1>1, <1>2, <2>1
  <2>3. Tail(q)[j - 1] = q[j]
    BY <1>1, <2>2
  <2> QED BY <1>2, <2>1, <2>2, <2>3 DEF Marks
<1> DEFINE before == [j \in A |-> j - 1]
<1>5. before \in Injection(A, B)
  <2> HIDE DEF A, B
  <2>1. \A j, n \in A : j - 1 = n - 1 => j = n
    BY <1>4
  <2> QED BY <1>4, <2>1 DEF Injection, IsInjective
<1>6. Cardinality(A) <= Cardinality(B)
  <2> HIDE DEF A, B, before
  <2> QED BY <1>3, <1>5, FS_Injection
<1>7. /\ IsFiniteSet(A) /\ Cardinality(A) \in Nat
      /\ Cardinality(A) = IF 1 \in Marks(q, k) THEN Cardinality(Marks(q, k)) - 1 ELSE Cardinality(Marks(q, k))
  BY <1>3, FS_RemoveElement, FS_CardinalityType
<1>8. Head(q).kind # k => 1 \notin Marks(q, k)
  BY TailShape DEF Marks
<1> HIDE DEF A, B
<1> QED BY <1>3, <1>6, <1>7, <1>8

LEMMA WaitingType ==
  ASSUME Shape
  PROVE  /\ IsFiniteSet(Waiting) /\ Cardinality(Waiting) \in Nat
         /\ \A l \in Links, k \in {"request", "confirm"} : Under(up[l], k) \in Nat /\ Under(down[l], k) \in Nat
<1>1. IsFiniteSet(Waiting)
  BY FiniteAssumption, FS_Subset DEF Waiting
<1>2. up \in [Links -> Seq(Messages)] /\ down \in [Links -> Seq(Messages)]
  BY DEF Shape
<1> QED BY <1>1, <1>2, FS_CardinalityType, UnderType

(* Steps after which nobody waits who did not, and nothing that is waited  *)
(* for is taken.                                                           *)
LEMMA FewerWait ==
  ASSUME Shape, Shape', WaitingIsAnswered, mud' = mud, Waiting' \subseteq Waiting,
         mud \in Links /\ "server" \in ends'[mud] =>
           /\ "server" \in ends[mud]
           /\ Under(up[mud], "request") <= Under(up'[mud], "request")
           /\ Under(down[mud], "confirm") <= Under(down'[mud], "confirm")
  PROVE  WaitingIsAnswered'
<1> SUFFICES ASSUME mud # None, "server" \in ends'[mud]
             PROVE  Cardinality(Waiting') <= Under(up'[mud], "request") + Under(down'[mud], "confirm")
  BY DEF WaitingIsAnswered
<1>0. PICK l \in Links : l = mud
  BY DEF Shape
<1>1. /\ Cardinality(Waiting) \in Nat /\ IsFiniteSet(Waiting)
      /\ Under(up[l], "request") \in Nat /\ Under(down[l], "confirm") \in Nat
  BY WaitingType
<1>2. /\ Cardinality(Waiting') \in Nat
      /\ Under(up'[l], "request") \in Nat /\ Under(down'[l], "confirm") \in Nat
  <2>1. IsFiniteSet(Waiting')
    BY <1>1, FS_Subset
  <2>2. up'[l] \in Seq(Messages) /\ down'[l] \in Seq(Messages)
    BY DEF Shape
  <2> QED BY <2>1, <2>2, UnderType, FS_CardinalityType
<1>3. Cardinality(Waiting') <= Cardinality(Waiting)
  BY <1>1, FS_Subset
<1>4. Cardinality(Waiting) <= Under(up[l], "request") + Under(down[l], "confirm")
  BY <1>0 DEF WaitingIsAnswered
<1>5. /\ Under(up[l], "request") <= Under(up'[l], "request")
      /\ Under(down[l], "confirm") <= Under(down'[l], "confirm")
  BY <1>0
<1>6. Cardinality(Waiting') <= Under(up'[l], "request") + Under(down'[l], "confirm")
  BY <1>1, <1>2, <1>3, <1>4, <1>5
<1> QED BY <1>0, <1>6

(* What is written takes nothing away.                                     *)
LEMMA WrittenGrows ==
  ASSUME IInv, NEW queue \in [Links -> Seq(Messages)], NEW l \in Links \cup {None},
         NEW reader \in {"mplex", "server"}, NEW ms \in Seq(Messages)
  PROVE  /\ Written(queue, l, reader, ms) \in [Links -> Seq(Messages)]
         /\ \A n \in Links : \A k : Under(queue[n], k) <= Under(Written(queue, l, reader, ms)[n], k)
         /\ \A k : l \in Links /\ reader \in ends[l] /\ (\E n \in DOMAIN ms : ms[n].kind = k) =>
              Under(queue[l], k) + 1 <= Under(Written(queue, l, reader, ms)[l], k)
<1> DEFINE W == Written(queue, l, reader, ms)
<1>1. Adds(queue, W, l, reader, ms) /\ Behind(queue, W, l, reader, ms)
  BY WrittenShape, WrittenBehind DEF IInv, Shape
<1> HIDE DEF W
<1>2. W \in [Links -> Seq(Messages)]
  BY <1>1 DEF Adds
<1>3. ASSUME NEW n \in Links
      PROVE  /\ queue[n] \in Seq(Messages) /\ W[n] \in Seq(Messages)
             /\ \A j \in DOMAIN queue[n] : j \in DOMAIN W[n] /\ W[n][j] = queue[n][j]
  BY <1>1, <1>2 DEF Behind
<1>4. \A n \in Links : \A k : Under(queue[n], k) <= Under(W[n], k)
  BY <1>3, UnderGrows
<1>5. ASSUME NEW k, l \in Links, reader \in ends[l], NEW n \in DOMAIN ms, ms[n].kind = k
      PROVE  Under(queue[l], k) + 1 <= Under(W[l], k)
  <2>1. PICK j \in DOMAIN W[l] : W[l][j] = ms[n] /\ \A i \in DOMAIN queue[l] : j > i
    BY <1>1, <1>5 DEF Behind
  <2>2. j \notin DOMAIN queue[l]
    <3> SUFFICES ASSUME j \in DOMAIN queue[l] PROVE FALSE
      OBVIOUS
    <3>1. j \in Nat /\ j > j
      BY <1>3, <1>5, <2>1, LenProperties
    <3> QED BY <3>1
  <2> QED BY <1>3, <1>5, <2>1, <2>2, UnderGrows
<1>6. /\ W \in [Links -> Seq(Messages)]
      /\ \A n \in Links : \A k : Under(queue[n], k) <= Under(W[n], k)
      /\ \A k : l \in Links /\ reader \in ends[l] /\ (\E n \in DOMAIN ms : ms[n].kind = k) =>
              Under(queue[l], k) + 1 <= Under(W[l], k)
  BY <1>2, <1>4, <1>5
<1> QED BY <1>6 DEF W

LEMMA ConsolesKeepWaiting ==
  ASSUME IInv, IInv', WaitingIsAnswered,
         \/ \E c \in Consoles : Arrive(c) \/ GiveUp(c) \/ MenuSelect(c) \/ Transmit(c) \/ Leave(c) \/ Lost(c)
         \/ ClearUnhooked \/ TestMudDown
  PROVE  WaitingIsAnswered'
<1>i. Shape /\ Shape' /\ con \in [Consoles -> Console] /\ up \in [Links -> Seq(Messages)] /\ mud \in Links \cup {None}
  BY DEF IInv, Shape
<1>f. \A c \in Consoles : Farewell(c) \in Seq(Messages)
  <2>1. \A i \in Ids : <<Msg("terminate", i)>> \in Seq(Messages)
    BY MessageShape
  <2>2. << >> \in Seq(Messages)
    OBVIOUS
  <2> QED BY <2>1, <2>2, FarewellShape
<1>g. \A ms \in Farewells : ms \in Seq(Messages)
  BY FarewellShape
<1>1. ASSUME NEW ms \in Seq(Messages), ToServer(ms)
      PROVE  /\ UNCHANGED <<mud, left, ends, down>> /\ up' = Written(up, mud, "server", ms)
             /\ \A l \in Links : /\ Under(up[l], "request") <= Under(up'[l], "request")
                                 /\ Under(down[l], "confirm") <= Under(down'[l], "confirm")
  <2>1. UNCHANGED <<mud, left, ends, down>> /\ up' = Written(up, mud, "server", ms)
    BY <1>1 DEF ToServer
  <2>2. \A l \in Links : Under(up[l], "request") <= Under(up'[l], "request")
    BY <1>i, <2>1, WrittenGrows
  <2>3. \A l \in Links : Under(down[l], "confirm") \in Nat
    BY <1>i, WaitingType
  <2> QED BY <2>1, <2>2, <2>3
<1>2. ASSUME NEW ms \in Seq(Messages), ToServer(ms), Waiting' \subseteq Waiting
      PROVE  WaitingIsAnswered'
  BY <1>i, <1>1, <1>2, FewerWait
<1>3. ASSUME NEW c \in Consoles, Arrive(c) \/ MenuSelect(c) PROVE WaitingIsAnswered'
  <2> DEFINE ms == <<Msg("request", 0)>>
  <2>1. ms \in Seq(Messages) /\ \E n \in DOMAIN ms : ms[n].kind = "request"
    BY MessageShape
  <2>2. ToServer(ms)
    BY <1>3 DEF Arrive, MenuSelect
  <2> HIDE DEF ms
  <2>3. c \notin Waiting /\ Waiting' \subseteq Waiting \cup {c}
    BY <1>3, <1>i DEF Arrive, MenuSelect, Waiting
  <2> SUFFICES ASSUME mud' # None, "server" \in ends'[mud']
               PROVE  Cardinality(Waiting') <= Under(up'[mud'], "request") + Under(down'[mud'], "confirm")
    BY DEF WaitingIsAnswered
  <2>4. PICK l \in Links : l = mud /\ l = mud'
    BY <1>1, <1>i, <2>1, <2>2
  <2>5. /\ "server" \in ends[l] /\ down' = down
        /\ Under(up[l], "request") + 1 <= Under(up'[l], "request")
    BY <1>1, <1>i, <2>1, <2>2, <2>4, WrittenGrows
  <2>6. Cardinality(Waiting) <= Under(up[l], "request") + Under(down[l], "confirm")
    BY <2>4, <2>5, NoneAssumption DEF WaitingIsAnswered
  <2>7. /\ IsFiniteSet(Waiting) /\ Cardinality(Waiting) \in Nat
        /\ Under(up[l], "request") \in Nat /\ Under(down[l], "confirm") \in Nat
    BY <1>i, WaitingType
  <2>8. /\ IsFiniteSet(Waiting \cup {c})
        /\ Cardinality(Waiting \cup {c}) = Cardinality(Waiting) + 1
    BY <2>3, <2>7, FS_AddElement
  <2>9. Cardinality(Waiting') <= Cardinality(Waiting) + 1 /\ Cardinality(Waiting') \in Nat
    BY <2>3, <2>8, FS_Subset, FS_CardinalityType
  <2>10. Under(up'[l], "request") \in Nat
    <3>1. up'[l] \in Seq(Messages)
      BY <1>i DEF Shape
    <3> QED BY <3>1, UnderType
  <2>11. Cardinality(Waiting') <= Under(up'[l], "request") + Under(down'[l], "confirm")
    BY <2>5, <2>6, <2>7, <2>9, <2>10
  <2> QED BY <2>4, <2>11
<1>4. ASSUME NEW c \in Consoles, GiveUp(c) \/ Lost(c) PROVE WaitingIsAnswered'
  <2>1. UNCHANGED <<mud, left, ends, up, down>>
    BY <1>4 DEF GiveUp, Lost, wires
  <2>2. Waiting' \subseteq Waiting
    <3>1. CASE GiveUp(c)
      BY <1>i, <3>1 DEF GiveUp, Waiting, Console
    <3>2. CASE Lost(c)
      BY <1>i, <3>2 DEF Lost, Waiting, Console
    <3> QED BY <1>4, <3>1, <3>2
  <2>3. \A l \in Links : Under(up[l], "request") \in Nat /\ Under(down[l], "confirm") \in Nat
    BY <1>i, WaitingType
  <2> QED BY <1>i, <2>1, <2>2, <2>3, FewerWait
<1>5. ASSUME NEW c \in Consoles, Transmit(c) PROVE WaitingIsAnswered'
  <2>1. con[c].id \in Ids
    BY <1>5, <1>i, BoundAssumption DEF Transmit, Console, Ids
  <2>2. <<Msg("data", con[c].id)>> \in Seq(Messages) /\ con' = con /\ ToServer(<<Msg("data", con[c].id)>>)
    BY <1>5, <2>1, MessageShape DEF Transmit
  <2> QED BY <1>2, <2>2 DEF Waiting
<1>6. ASSUME NEW c \in Consoles, Leave(c) PROVE WaitingIsAnswered'
  <2>1. ToServer(Farewell(c)) /\ Waiting' \subseteq Waiting
    BY <1>6, <1>i DEF Leave, Waiting, Closed
  <2> QED BY <1>2, <1>f, <2>1
<1>7. ASSUME ClearUnhooked \/ TestMudDown PROVE WaitingIsAnswered'
  <2>1. Waiting' \subseteq Waiting
    BY <1>7, <1>i DEF ClearUnhooked, TestMudDown, Waiting, NoConsole
  <2>2. CASE ClearUnhooked
    BY <1>2, <1>g, <2>1, <2>2 DEF ClearUnhooked
  <2>3. CASE TestMudDown
    <3>1. mud' = None
      BY <2>3 DEF TestMudDown
    <3> QED BY <3>1 DEF WaitingIsAnswered
  <2> QED BY <1>7, <2>2, <2>3
<1> QED BY <1>3, <1>4, <1>5, <1>6, <1>7

(* test_mud_up asks for each console it has.                               *)
LEMMA MudUpKeepsWaiting ==
  ASSUME IInv, IInv', NEW l \in Links, TestMudUp(l)
  PROVE  WaitingIsAnswered'
<1>i. Shape /\ Shape'
  BY DEF IInv
<1> DEFINE n == Cardinality(Asking)
           rs == [k \in 1..n |-> Msg("request", 0)]
<1>1. PICK ms \in Farewells : up' = [up EXCEPT ![l] = rs \o ms]
  BY DEF TestMudUp
<1>2. IsFiniteSet(Asking) /\ n \in Nat
  BY FiniteAssumption, FS_Subset, FS_CardinalityType DEF Asking, Connected
<1> HIDE DEF n
<1>3. /\ rs \in Seq(Messages) /\ ms \in Seq(Messages) /\ DOMAIN rs = 1..n
      /\ \A j \in 1..n : rs[j].kind = "request"
  <2>1. Msg("request", 0) \in Messages /\ Msg("request", 0).kind = "request"
    BY MessageShape
  <2>2. rs \in [1..n -> Messages]
    BY <2>1
  <2> QED BY <1>2, <2>1, <2>2, SeqDef, FarewellShape
<1> HIDE DEF rs
<1>4. /\ Len(rs) = n /\ Len(ms) \in Nat
  BY <1>2, <1>3, LenProperties
<1>5. 1..n \subseteq Marks(rs \o ms, "request") /\ rs \o ms \in Seq(Messages)
  <2>1. /\ rs \o ms \in Seq(Messages) /\ Len(rs \o ms) = n + Len(ms)
        /\ \A j \in 1..(n + Len(ms)) : (rs \o ms)[j] = IF j <= n THEN rs[j] ELSE ms[j - n]
    BY <1>3, <1>4, ConcatProperties
  <2>2. DOMAIN (rs \o ms) = 1..(n + Len(ms))
    BY <2>1, LenProperties
  <2>3. \A j \in 1..n : j \in 1..(n + Len(ms)) /\ j <= n
    BY <1>2, <1>4
  <2> QED BY <1>3, <2>1, <2>2, <2>3 DEF Marks
<1>6. n <= Under(up'[l], "request") /\ Under(up'[l], "request") \in Nat
  <2>1. up'[l] = rs \o ms
    BY <1>1, <1>i DEF Shape
  <2>2. /\ IsFiniteSet(Marks(rs \o ms, "request"))
        /\ Under(rs \o ms, "request") = Cardinality(Marks(rs \o ms, "request"))
        /\ Under(rs \o ms, "request") \in Nat
    BY <1>5, UnderType
  <2>3. Cardinality(1..n) = n
    BY <1>2, FS_Interval
  <2>4. Cardinality(1..n) <= Cardinality(Marks(rs \o ms, "request"))
    BY <1>5, <2>2, FS_Subset
  <2> QED BY <2>1, <2>2, <2>3, <2>4
<1>7. Cardinality(Waiting') <= n /\ Cardinality(Waiting') \in Nat
  <2>1. Waiting' \subseteq Asking
    <3>1. con' = [c \in Consoles |-> IF c \in Unhooked THEN NoConsole
                                     ELSE IF c \in Connected THEN [con[c] EXCEPT !.fptr = "PlayLoop"]
                                     ELSE con[c]]
      BY DEF TestMudUp
    <3>2. \A c \in Consoles \ Connected : con[c].fptr = "none"
      BY DEF Connected
    <3>3. \A c \in Consoles : c \notin Connected => con'[c].fptr = "none"
      BY <3>1, <3>2 DEF Unhooked
    <3> QED BY <3>3 DEF Waiting, Asking
  <2> QED BY <1>2, <2>1, FS_Subset, FS_CardinalityType DEF n
<1>8. Under(down'[l], "confirm") \in Nat
  <2>1. down'[l] \in Seq(Messages)
    BY <1>i DEF Shape
  <2> QED BY <2>1, UnderType
<1>9. mud' = l
  BY DEF TestMudUp
<1>10. Cardinality(Waiting') <= Under(up'[l], "request") + Under(down'[l], "confirm")
  BY <1>2, <1>6, <1>7, <1>8
<1> QED BY <1>9, <1>10 DEF WaitingIsAnswered

(* A confirmation is taken by one that waits, if there is one.             *)
LEMMA ReadingKeepsWaiting ==
  ASSUME IInv, IInv', WaitingIsAnswered, Confirm \/ Terminate
  PROVE  WaitingIsAnswered'
<1>i. Shape /\ Shape' /\ con \in [Consoles -> Console] /\ up \in [Links -> Seq(Messages)]
  BY DEF IInv, Shape
<1>l. PICK l \in Links : l = mud
  BY <1>i DEF Confirm, Terminate, Shape
<1>1. /\ mud' = l /\ ends' = ends /\ down[l] # << >> /\ down[l] \in Seq(Messages)
      /\ down'[l] = Tail(down[l])
  BY <1>i, <1>l DEF Confirm, Terminate, Read, Shape
<1>2. /\ Under(down[l], "confirm") <= Under(down'[l], "confirm") + 1
      /\ Head(down[l]).kind # "confirm" => Under(down[l], "confirm") <= Under(down'[l], "confirm")
  BY <1>1, UnderTail
<1>3. /\ IsFiniteSet(Waiting) /\ Cardinality(Waiting) \in Nat
      /\ Under(up[l], "request") \in Nat /\ Under(down[l], "confirm") \in Nat
  BY <1>i, WaitingType
<1>4. Under(up'[l], "request") \in Nat /\ Under(down'[l], "confirm") \in Nat
  <2>1. up'[l] \in Seq(Messages) /\ down'[l] \in Seq(Messages)
    BY <1>i DEF Shape
  <2> QED BY <2>1, UnderType
<1>5. CASE Terminate
  <2>1. Waiting' \subseteq Waiting
    BY <1>5, <1>i DEF Terminate, Waiting, Connected, Closed
  <2>2. up' = up /\ Head(down[l]).kind # "confirm"
    BY <1>5, <1>l DEF Terminate, Arriving
  <2> QED BY <1>i, <1>l, <1>1, <1>2, <1>3, <2>1, <2>2, FewerWait
<1>6. CASE Confirm
  <2>1. Under(up[l], "request") <= Under(up'[l], "request")
    <3>1. PICK m : m = Head(down[l])
      OBVIOUS
    <3>2. m.id \in Ids
      BY <1>1, <1>6, <1>l, <3>1, TailShape, MessageShape DEF Confirm, Arriving
    <3>3. \A k \in {"terminate", "data"} : <<Msg(k, m.id)>> \in Seq(Messages)
      BY <3>2, MessageShape
    <3>4. \E k \in {"terminate", "data"} : up' = Written(up, l, "server", <<Msg(k, m.id)>>)
      BY <1>6, <1>l, <3>1 DEF Confirm, Arriving
    <3> QED BY <1>i, <3>3, <3>4, WrittenGrows
  <2>2. CASE Waiting = {}
    <3>1. Waiting' = {}
      BY <1>6, <2>2 DEF Confirm, Waiting
    <3>2. Cardinality(Waiting') = 0
      BY <3>1, FS_EmptySet
    <3>3. Cardinality(Waiting') <= Under(up'[l], "request") + Under(down'[l], "confirm")
      BY <1>4, <3>2
    <3> QED BY <1>1, <3>3 DEF WaitingIsAnswered
  <2>3. CASE Waiting # {}
    <3>1. PICK c \in Waiting : con' = [con EXCEPT ![c].id = Arriving(mud).id]
      BY <1>6, <2>3 DEF Confirm
    <3>2. Arriving(mud).id # 0
      BY <1>1, <1>6, <1>l, TailShape, MessageShape DEF Confirm, Arriving
    <3>3. Waiting' \subseteq Waiting \ {c}
      <4>1. c \in Consoles
        BY DEF Waiting
      <4>2. con'[c].id = Arriving(mud).id /\ \A x \in Consoles : x # c => con'[x] = con[x]
        BY <1>i, <3>1, <4>1 DEF Console
      <4> QED BY <3>2, <4>2 DEF Waiting
    <3>4. /\ IsFiniteSet(Waiting \ {c}) /\ Cardinality(Waiting \ {c}) = Cardinality(Waiting) - 1
          /\ Cardinality(Waiting \ {c}) \in Nat
      BY <1>3, FS_RemoveElement, FS_CardinalityType
    <3>5. Cardinality(Waiting') <= Cardinality(Waiting) - 1 /\ Cardinality(Waiting') \in Nat
      BY <3>3, <3>4, FS_Subset, FS_CardinalityType
    <3>6. "server" \in ends[l] =>
            Cardinality(Waiting) <= Under(up[l], "request") + Under(down[l], "confirm")
      BY <1>l, NoneAssumption DEF WaitingIsAnswered
    <3>7. "server" \in ends[l] =>
            Cardinality(Waiting') <= Under(up'[l], "request") + Under(down'[l], "confirm")
      BY <1>2, <1>3, <1>4, <2>1, <3>5, <3>6
    <3> QED BY <1>1, <3>7 DEF WaitingIsAnswered
  <2> QED BY <2>2, <2>3
<1> QED BY <1>5, <1>6

(* The server exchanges a request for a confirmation.                      *)
LEMMA RequestKeepsWaiting ==
  ASSUME IInv, IInv', WaitingIsAnswered, NEW s \in Slots, Request(s)
  PROVE  WaitingIsAnswered'
<1>i. /\ Shape /\ Shape' /\ EndsKept
      /\ up \in [Links -> Seq(Messages)] /\ down \in [Links -> Seq(Messages)]
  BY DEF IInv, Shape
<1>l. PICK l \in Links : l = multi[s]
  BY <1>i DEF Request, Reading, Shape
<1>n. nid + 1 \in Ids
  <2>1. nid < MaxIds /\ nid \in 0..MaxIds /\ MaxIds \in Nat
    BY <1>i, BoundAssumption DEF Request, Shape
  <2> QED BY <2>1 DEF Ids
<1> DEFINE ms == <<Msg("confirm", nid + 1)>>
<1>1. /\ up[l] # << >> /\ up' = [up EXCEPT ![l] = Tail(up[l])]
      /\ down' = Written(down, l, "mplex", ms)
      /\ UNCHANGED <<con, mud, left, ends>>
  BY <1>l DEF Request, Reading, Received, Silent, mplex
<1>2. ms \in Seq(Messages) /\ \E n \in DOMAIN ms : ms[n].kind = "confirm"
  BY <1>n, MessageShape
<1> HIDE DEF ms
<1>3. /\ \A k \in Links : Under(down[k], "confirm") <= Under(down'[k], "confirm")
      /\ "mplex" \in ends[l] => Under(down[l], "confirm") + 1 <= Under(down'[l], "confirm")
  BY <1>i, <1>1, <1>2, WrittenGrows
<1> SUFFICES ASSUME mud # None, "server" \in ends[mud]
             PROVE  Cardinality(Waiting) <= Under(up'[mud], "request") + Under(down'[mud], "confirm")
  BY <1>1 DEF WaitingIsAnswered, Waiting
<1>4. PICK k \in Links : k = mud
  BY <1>i DEF Shape
<1>5. /\ Cardinality(Waiting) \in Nat
      /\ Under(up[k], "request") \in Nat /\ Under(down[k], "confirm") \in Nat
  BY <1>i, WaitingType
<1>6. Under(up'[k], "request") \in Nat /\ Under(down'[k], "confirm") \in Nat
  <2>1. up'[k] \in Seq(Messages) /\ down'[k] \in Seq(Messages)
    BY <1>i DEF Shape
  <2> QED BY <2>1, UnderType
<1>7. Cardinality(Waiting) <= Under(up[k], "request") + Under(down[k], "confirm")
  BY <1>4 DEF WaitingIsAnswered
<1>8. CASE k = l
  <2>1. Under(up[l], "request") <= Under(up'[l], "request") + 1
    <3>1. up'[l] = Tail(up[l]) /\ up[l] \in Seq(Messages)
      BY <1>i, <1>1
    <3> QED BY <1>1, <3>1, UnderTail
  <2>2. "mplex" \in ends[l]
    BY <1>i, <1>4, <1>8 DEF EndsKept
  <2>3. Cardinality(Waiting) <= Under(up'[k], "request") + Under(down'[k], "confirm")
    BY <1>3, <1>5, <1>6, <1>7, <1>8, <2>1, <2>2
  <2> QED BY <1>4, <2>3
<1>9. CASE k # l
  <2>1. up'[k] = up[k]
    BY <1>i, <1>1, <1>9
  <2>2. Cardinality(Waiting) <= Under(up'[k], "request") + Under(down'[k], "confirm")
    BY <1>3, <1>5, <1>6, <1>7, <2>1
  <2> QED BY <1>4, <2>2
<1> QED BY <1>8, <1>9

(* Nothing else the server does takes a request or a confirmation: but for *)
(* its links, it takes messages with an id and tells of sessions closed.   *)
LEMMA ServerKeepsWaiting ==
  ASSUME IInv, IInv', WaitingIsAnswered,
         \/ \E s \in Slots : Known(s) \/ Unknown(s) \/ EndOfStream(s) \/ WriteFails(s)
         \/ \E i \in Ids : CloseSession(i)
         \/ MultiClear \/ Accept \/ NoAccept \/ EndWait
  PROVE  WaitingIsAnswered'
<1>i. /\ Shape /\ Shape' /\ EndsKept
      /\ up \in [Links -> Seq(Messages)] /\ down \in [Links -> Seq(Messages)]
      /\ ends \in [Links -> SUBSET {"mplex", "server"}]
  BY DEF IInv, Shape
<1>t. \A l \in Links, k \in {"request", "confirm"} : Under(up[l], k) \in Nat /\ Under(down[l], k) \in Nat
  BY <1>i, WaitingType
<1>0. con' = con /\ mud' = mud /\ Waiting' \subseteq Waiting
  <2>1. con' = con /\ mud' = mud
    BY DEF Known, Unknown, EndOfStream, WriteFails, CloseSession, MultiClear, Accept, NoAccept,
           EndWait, Silent, mplex
  <2> QED BY <2>1 DEF Waiting
<1>1. ASSUME UNCHANGED <<ends, up, down>> PROVE WaitingIsAnswered'
  BY <1>i, <1>t, <1>0, <1>1, FewerWait
<1>2. ASSUME NEW l \in Links, Hung(l, "server") PROVE WaitingIsAnswered'
  <2>1. /\ "server" \notin ends'[l]
        /\ \A k \in Links : k # l => ends'[k] = ends[k] /\ up'[k] = up[k] /\ down'[k] = down[k]
    BY <1>2, <1>i DEF Hung
  <2>2. mud \in Links /\ "server" \in ends'[mud] => mud # l
    BY <2>1
  <2> QED BY <1>i, <1>t, <1>0, <2>1, <2>2, FewerWait
<1>3. ASSUME NEW l \in Links, up[l] # << >>, Head(up[l]).id # 0, ends' = ends, down' = down,
             up' = [up EXCEPT ![l] = Tail(up[l])]
      PROVE  WaitingIsAnswered'
  <2>1. up[l] \in Seq(Messages) /\ up'[l] = Tail(up[l]) /\ \A k \in Links : k # l => up'[k] = up[k]
    BY <1>i, <1>3
  <2>2. Head(up[l]).kind # "request"
    BY <1>3, <2>1, TailShape, MessageShape
  <2>3. Under(up[l], "request") <= Under(up'[l], "request")
    BY <1>3, <2>1, <2>2, UnderTail
  <2>4. \A k \in Links : Under(up[k], "request") <= Under(up'[k], "request")
    BY <1>t, <2>1, <2>3
  <2> QED BY <1>i, <1>t, <1>0, <1>3, <2>4, FewerWait
<1>m. \A s \in Slots : multi[s] # None => multi[s] \in Links
  BY <1>i DEF Shape
<1>4. ASSUME NEW s \in Slots, Known(s) PROVE WaitingIsAnswered'
  BY <1>3, <1>4, <1>m DEF Known, Reading, Received
<1>5. ASSUME NEW s \in Slots, Unknown(s) \/ EndOfStream(s) \/ WriteFails(s) PROVE WaitingIsAnswered'
  <2>1. CASE Unknown(s) /\ ~(succ_err[s] > MaxErrors)
    BY <1>3, <1>m, <2>1 DEF Unknown, Reading, Received
  <2>2. CASE Unknown(s) /\ succ_err[s] > MaxErrors
    BY <1>2, <1>m, <2>2 DEF Unknown, Reading, Unhook
  <2>3. CASE EndOfStream(s) \/ WriteFails(s)
    BY <1>2, <1>m, <2>3 DEF EndOfStream, WriteFails, Unhook
  <2> QED BY <1>5, <2>1, <2>2, <2>3
<1>6. ASSUME NEW i \in Ids, CloseSession(i) PROVE WaitingIsAnswered'
  <2>1. PICK l : l = multi[desc[i].slot]
    OBVIOUS
  <2>2. /\ UNCHANGED <<ends, up>> /\ desc[i] # None
        /\ down' = Written(down, l, "mplex", Notice(i))
    BY <1>6, <2>1 DEF CloseSession
  <2>3. l \in Links \cup {None}
    BY <1>i, <2>1, <2>2 DEF Shape
  <2>4. Notice(i) \in Seq(Messages)
    BY MessageShape DEF Notice
  <2>5. \A k \in Links : Under(down[k], "confirm") <= Under(down'[k], "confirm")
    BY <1>i, <2>2, <2>3, <2>4, WrittenGrows
  <2> QED BY <1>i, <1>t, <1>0, <2>2, <2>5, FewerWait
<1>7. ASSUME Accept PROVE WaitingIsAnswered'
  <2>1. Head(backlog) \in Links
    BY <1>7, <1>i, TailShape DEF Accept, Shape
  <2>2. CASE FreeSlots = {}
    BY <1>2, <1>7, <2>1, <2>2 DEF Accept
  <2>3. CASE FreeSlots # {}
    BY <1>1, <1>7, <2>3 DEF Accept, wires
  <2> QED BY <2>2, <2>3
<1>8. ASSUME MultiClear \/ NoAccept \/ EndWait PROVE WaitingIsAnswered'
  BY <1>1, <1>8 DEF MultiClear, NoAccept, EndWait, wires
<1> QED BY <1>4, <1>5, <1>6, <1>7, <1>8

LEMMA StepKeepsWaiting == IInv /\ WaitingIsAnswered /\ [Next]_vars => WaitingIsAnswered'
<1> SUFFICES ASSUME IInv, WaitingIsAnswered, [Next]_vars PROVE WaitingIsAnswered'
  OBVIOUS
<1>i. IInv'
  BY StepKeepsIInv
<1>1. CASE UNCHANGED vars
  BY <1>1 DEF vars, mplex, server, wires, WaitingIsAnswered, Waiting
<1>2. CASE Multiplexer
  <2>1. ASSUME MudWentDown \/ MplexCrash \/ \E c \in Consoles : MudWriteFails(c)
        PROVE  WaitingIsAnswered'
    BY <2>1 DEF MudWentDown, MplexCrash, MudWriteFails, WaitingIsAnswered
  <2> QED BY <1>i, <1>2, <2>1, ConsolesKeepWaiting, MudUpKeepsWaiting, ReadingKeepsWaiting DEF Multiplexer
<1>3. CASE Server
  <2>1. ASSUME ServerCrash \/ \E s \in Slots : AssertFails(s) PROVE WaitingIsAnswered'
    <3>1. mud' = mud /\ \A l \in Links : "server" \notin ends'[l]
      BY <2>1 DEF ServerCrash, AssertFails, Restarted, mplex
    <3> QED BY <3>1 DEF WaitingIsAnswered, IInv, Shape
  <2> QED BY <1>i, <1>3, <2>1, ServerKeepsWaiting, RequestKeepsWaiting DEF Server
<1> QED BY <1>1, <1>2, <1>3 DEF Next

(* No player waits for an answer that does not come: for every console in  *)
(* PlayLoop without an id, cMultiHook::Read has a request to read or       *)
(* read_mud a confirmation, as long as the link is up.                     *)
THEOREM WaitersAreAnswered == Spec => []WaitingIsAnswered
<1>1. Init => WaitingIsAnswered
  BY DEF Init, WaitingIsAnswered
<1>2. IInv /\ WaitingIsAnswered /\ [Next]_vars => WaitingIsAnswered'
  BY StepKeepsWaiting
<1> QED BY <1>1, <1>2, Inductive, PTL DEF Spec
=============================================================================
