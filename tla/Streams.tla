------------------------------ MODULE Streams ------------------------------
(***************************************************************************)
(* What a hooked connection promises its user: two streams.  What is put   *)
(* in leaves in that order, in pieces of any size, and nothing is lost or  *)
(* left over from another connection as long as it is up.  What comes in   *)
(* is heard in that order, message by message, each whole.                 *)
(*                                                                         *)
(* There are no descriptors, tables or queues of elements here; Hooks is   *)
(* shown to implement this.                                                *)
(***************************************************************************)
EXTENDS Naturals, Sequences

CONSTANTS
  Conns,
  Messages \* of each connection; a message is a sequence of bytes

VARIABLES
  state,   \* "new", "up" or "down"
  out,     \* put in, and not with the system yet
  got,     \* what the system has taken, in its order, while it is up
  in,      \* sent by the other end, not heard
  heard    \* the messages heard, while it is up

streams == <<state, out, got, in, heard>>

StreamsInit ==
  /\ state = [c \in Conns |-> "new"]
  /\ out   = [c \in Conns |-> << >>]
  /\ got   = [c \in Conns |-> << >>]
  /\ in    = [c \in Conns |-> << >>]
  /\ heard = [c \in Conns |-> << >>]

Open(c) ==
  /\ state[c] = "new"
  /\ state' = [state EXCEPT ![c] = "up"]
  /\ UNCHANGED <<out, got, in, heard>>

Put(c, m) ==
  /\ state[c] = "up"
  /\ out' = [out EXCEPT ![c] = @ \o m]
  /\ UNCHANGED <<state, got, in, heard>>

Take(c, n) ==
  /\ state[c] = "up"
  /\ got' = [got EXCEPT ![c] = @ \o SubSeq(out[c], 1, n)]
  /\ out' = [out EXCEPT ![c] = SubSeq(@, n + 1, Len(@))]
  /\ UNCHANGED <<state, in, heard>>

Come(c, m) ==
  /\ state[c] = "up"
  /\ in' = [in EXCEPT ![c] = @ \o m]
  /\ UNCHANGED <<state, out, got, heard>>

Hear(c, m) ==
  /\ state[c] = "up"
  /\ \E rest \in {SubSeq(in[c], Len(m) + 1, Len(in[c]))} :
       /\ in[c] = m \o rest
       /\ in' = [in EXCEPT ![c] = rest]
  /\ heard' = [heard EXCEPT ![c] = Append(@, m)]
  /\ UNCHANGED <<state, out, got>>

Close(c) ==
  /\ state[c] = "up"
  /\ state' = [state EXCEPT ![c] = "down"]
  /\ out' = [out EXCEPT ![c] = << >>]
  /\ got' = [got EXCEPT ![c] = << >>]
  /\ in' = [in EXCEPT ![c] = << >>]
  /\ heard' = [heard EXCEPT ![c] = << >>]

StreamsNext ==
  \E c \in Conns :
    \/ Open(c) \/ Close(c)
    \/ \E m \in Messages[c] : Put(c, m) \/ Come(c, m) \/ Hear(c, m)
    \/ \E n \in 1..Len(out[c]) : Take(c, n)

StreamsSpec == StreamsInit /\ [][StreamsNext]_streams
=============================================================================
