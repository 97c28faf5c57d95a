------------------------------- MODULE Vault -------------------------------
(***************************************************************************)
(* What the player files promise: for every player one record, which is    *)
(* what the player was at some save, whole, whatever happens to the        *)
(* server in between.  There are no temporary files and no half of a       *)
(* write here; PlayerFiles is shown to implement this.                     *)
(***************************************************************************)
CONSTANTS PCs, Records, None

VARIABLES
  stored,  \* the record on the disk, None when there is no such player
  live,    \* the player in the world, None when out of it
  past     \* everything that was ever stored of the player

vaultVars == <<stored, live, past>>

VaultInit == /\ stored = [p \in PCs |-> None]
             /\ live = [p \in PCs |-> None]
             /\ past = [p \in PCs |-> {}]

(* A player comes as once stored; somebody unknown begins afresh.          *)
Arrive(p) ==
  /\ live[p] = None
  /\ \E r \in Records :
       /\ stored[p] # None => r \in past[p]
       /\ live' = [live EXCEPT ![p] = r]
  /\ UNCHANGED <<stored, past>>

Change(p) ==
  /\ live[p] # None
  /\ \E r \in Records : live' = [live EXCEPT ![p] = r]
  /\ UNCHANGED <<stored, past>>

Store(p) ==
  /\ live[p] # None
  /\ stored' = [stored EXCEPT ![p] = live[p]]
  /\ past' = [past EXCEPT ![p] = @ \cup {live[p]}]
  /\ UNCHANGED live

(* A login that fails writes back what it had read.                        *)
Restore(p) ==
  /\ \E r \in past[p] : stored' = [stored EXCEPT ![p] = r]
  /\ UNCHANGED <<live, past>>

Forget(p) ==
  /\ live[p] = None
  /\ stored' = [stored EXCEPT ![p] = None]
  /\ past' = [past EXCEPT ![p] = {}]
  /\ UNCHANGED live

(* Players leave one at a time, or all of them when the server stops.      *)
Depart(S) ==
  /\ live' = [p \in PCs |-> IF p \in S THEN None ELSE live[p]]
  /\ UNCHANGED <<stored, past>>

VaultNext ==
  \/ \E p \in PCs : Arrive(p) \/ Change(p) \/ Store(p) \/ Restore(p) \/ Forget(p)
  \/ \E S \in SUBSET PCs : Depart(S)

VaultSpec == VaultInit /\ [][VaultNext]_vaultVars
=============================================================================
