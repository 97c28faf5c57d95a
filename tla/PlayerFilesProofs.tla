------------------------- MODULE PlayerFilesProofs -------------------------
(***************************************************************************)
(* What is proved about PlayerFiles, for any players and any bounds: the   *)
(* type of its state, that nothing half-written or half-removed is found   *)
(* by who comes after, and that it implements Vault.                       *)
(*                                                                         *)
(* The three hang together.  What a rename makes the player's file must be *)
(* a record, and that is so since the temporary file at that stage is what *)
(* the handler set out to write; that this may be written needs that it is *)
(* the player in the world, or was stored once; and that needs that the    *)
(* copies of sessions do not survive the removal of the file they are of.  *)
(***************************************************************************)
EXTENDS PlayerFiles, TLAPS

(* What the handler at work has established, stage by stage.               *)
JobKnown ==
  job # None =>
    /\ up
    /\ job.stage \in {"open", "fill", "rename"} =>
         /\ job.what \in Record
         /\ job.kind = "crack" => job.what \in past[job.p]
         /\ job.kind # "crack" => job.what = rec[job.p]
    /\ job.stage = "contents" => ply[job.p] # None /\ rec[job.p] \in past[job.p]
    /\ job.stage \in {"remove", "remove_inv"} => rec[job.p] = None /\ copy[job.p] = None
    /\ job.stage = "remove_inv" => ply[job.p] = None

TmpKnown ==
  /\ up /\ tmp # None => job # None /\ job.stage \in {"fill", "rename"}
  /\ At("rename") => tmp = job.what

PlyStored  == \A p \in PCs : ply[p] # None => ply[p] \in past[p]
InWorld    == \A p \in PCs : rec[p] = None <=> place[p] = "out"
CopyStored == \A p \in PCs : copy[p] # None => copy[p] \in past[p] /\ ply[p] # None
InvOwned   == \A p \in inv : ply[p] # None \/ p \in cut \/ (At("remove_inv") /\ job.p = p)

IInv == TypeOK /\ JobKnown /\ TmpKnown /\ InWorld /\ PlyStored /\ CopyStored
        /\ InvOwned

-----------------------------------------------------------------------------
LEMMA InitKnown == Init => IInv
<1> SUFFICES ASSUME Init PROVE IInv
  OBVIOUS
<1>1. TypeOK
  <2>1. 1 \in 1..(MaxId + 1)
    BY LimitAssumption
  <2> QED BY <2>1 DEF Init, TypeOK
<1>2. JobKnown /\ TmpKnown /\ InvOwned
  BY DEF Init, JobKnown, TmpKnown, InvOwned, At
<1>3. InWorld /\ PlyStored /\ CopyStored
  BY DEF Init, InWorld, PlyStored, CopyStored
<1> QED BY <1>1, <1>2, <1>3 DEF IInv

(* A new job is none of those that are.                                    *)
LEMMA JobStarts ==
  ASSUME NEW kind \in Kinds, NEW p \in PCs, NEW stage \in Stages,
         NEW what \in Record \cup {None}, StartJob(kind, p, stage, what)
  PROVE  /\ job' \in Job /\ job' # None
         /\ job'.kind = kind /\ job'.p = p /\ job'.stage = stage /\ job'.what = what
  BY MarkAssumption DEF StartJob, Job

LEMMA JobGoesOn ==
  ASSUME job \in Job, NEW stage \in Stages, Goto(stage)
  PROVE  /\ job' \in Job /\ job' # None
         /\ job'.kind = job.kind /\ job'.p = job.p /\ job'.stage = stage /\ job'.what = job.what
  BY MarkAssumption DEF Goto, Job

(* Handlers that write nothing.                                            *)
LEMMA SessionsKeepIInv ==
  ASSUME IInv, NEW p \in PCs,
         Login(p) \/ Hangup(p) \/ Enter(p) \/ Reconnect(p) \/ Advance(p) \/ (up /\ job = None /\ GuestLeaves(p) /\ place[p] # "out")
  PROVE  IInv'
<1> USE MarkAssumption, LimitAssumption
    DEF IInv, TypeOK, JobKnown, TmpKnown, InWorld, PlyStored, CopyStored, InvOwned, At, Guest, Idle
<1>1. CASE Login(p)
  BY <1>1 DEF Login
<1>2. CASE Hangup(p)
  BY <1>2 DEF Hangup
<1>3. CASE Enter(p)
  BY <1>3 DEF Enter, Record
<1>4. CASE Reconnect(p)
  BY <1>4 DEF Reconnect
<1>5. CASE Advance(p)
  BY <1>5 DEF Advance, Record
<1>6. CASE up /\ job = None /\ GuestLeaves(p) /\ place[p] # "out"
  BY <1>6 DEF GuestLeaves, Vanish
<1> QED BY <1>1, <1>2, <1>3, <1>4, <1>5, <1>6

(* The beginning of a handler that writes.                                 *)
LEMMA StartsKeepIInv ==
  ASSUME IInv, NEW p \in PCs,
         \/ up /\ job = None /\ place[p] # "out" /\ \E kind \in Kinds \ {"crack"} : StartSave(kind, p)
         \/ WrongPassword(p)
         \/ Delete(p)
  PROVE  IInv'
<1> USE DEF IInv, TypeOK, JobKnown, TmpKnown, InWorld, PlyStored, CopyStored, InvOwned, At, Guest, Idle
<1>1. ASSUME up, job = None, place[p] # "out", NEW kind \in Kinds \ {"crack"}, StartSave(kind, p)
      PROVE  IInv'
  <2>1. rec[p] \in Record
    BY <1>1
  <2>2. StartJob(kind, p, "open", rec[p])
    BY <1>1 DEF StartSave
  <2>3. /\ job' \in Job /\ job' # None /\ job'.kind = kind /\ job'.p = p
        /\ job'.stage = "open" /\ job'.what = rec[p]
    BY <2>1, <2>2, JobStarts DEF Stages
  <2> QED BY <1>1, <2>1, <2>3 DEF StartSave
<1>2. CASE WrongPassword(p)
  <2>1. copy[p] \in Record
    BY <1>2 DEF WrongPassword
  <2>2. StartJob("crack", p, "open", copy[p])
    BY <1>2 DEF WrongPassword
  <2>3. /\ job' \in Job /\ job' # None /\ job'.kind = "crack" /\ job'.p = p
        /\ job'.stage = "open" /\ job'.what = copy[p]
    BY <2>1, <2>2, JobStarts DEF Stages, Kinds
  <2> QED BY <1>2, <2>1, <2>3 DEF WrongPassword
<1>3. CASE Delete(p)
  <2>1. StartJob("delete", p, "remove", None)
    BY <1>3 DEF Delete
  <2>2. /\ job' \in Job /\ job' # None /\ job'.kind = "delete" /\ job'.p = p
        /\ job'.stage = "remove" /\ job'.what = None
    BY <2>1, JobStarts DEF Stages, Kinds
  <2> QED BY <1>3, <2>2 DEF Delete
<1> QED BY <1>1, <1>2, <1>3

(* The writes.                                                             *)
LEMMA WritesKeepIInv ==
  ASSUME IInv, OpenTmp \/ FillTmp \/ Rename \/ SaveContents \/ RemovePlayer \/ RemoveInventory
  PROVE  IInv'
<1> USE DEF IInv, TypeOK, JobKnown, TmpKnown, InWorld, PlyStored, CopyStored, InvOwned, At
<1>0. job \in Job /\ job # None
  BY DEF OpenTmp, FillTmp, Rename, Renamed, SaveContents, RemovePlayer, RemoveInventory
<1>p. job.p \in PCs /\ job.stage \in Stages /\ job.kind \in Kinds
  BY <1>0 DEF Job
<1>1. CASE OpenTmp
  <2>1. /\ job' \in Job /\ job' # None /\ job'.kind = job.kind /\ job'.p = job.p
        /\ job'.stage = "fill" /\ job'.what = job.what
    BY <1>0, <1>1, JobGoesOn DEF OpenTmp, Stages
  <2> QED BY <1>1, <1>p, <2>1 DEF OpenTmp
<1>2. CASE FillTmp
  <2>1. /\ job' \in Job /\ job' # None /\ job'.kind = job.kind /\ job'.p = job.p
        /\ job'.stage = "rename" /\ job'.what = job.what
    BY <1>0, <1>2, JobGoesOn DEF FillTmp, Stages
  <2> QED BY <1>2, <1>p, <2>1 DEF FillTmp
<1>3. CASE Rename
  <2>1. tmp = job.what /\ tmp \in Record /\ tmp # None
    BY <1>3, MarkAssumption DEF Rename, Renamed
  <2>2. CASE job.kind = "crack"
    BY <1>3, <1>p, <2>1, <2>2 DEF Rename, Renamed
  <2>3. CASE job.kind # "crack"
    <3>1. Goto("contents")
      BY <1>3, <2>3 DEF Rename, Renamed
    <3>2. /\ job' \in Job /\ job' # None /\ job'.kind = job.kind /\ job'.p = job.p
          /\ job'.stage = "contents" /\ job'.what = job.what
      BY <1>0, <3>1, JobGoesOn DEF Stages
    <3> QED BY <1>3, <1>p, <2>1, <2>3, <3>2 DEF Rename, Renamed
  <2> QED BY <2>2, <2>3
<1>4. CASE SaveContents
  BY <1>4, <1>p, MarkAssumption DEF SaveContents, Vanish
<1>5. CASE RemovePlayer
  <2>1. /\ job' \in Job /\ job' # None /\ job'.kind = job.kind /\ job'.p = job.p
        /\ job'.stage = "remove_inv" /\ job'.what = job.what
    BY <1>0, <1>5, JobGoesOn DEF RemovePlayer, Stages
  <2> QED BY <1>5, <1>p, <2>1 DEF RemovePlayer
<1>6. CASE RemoveInventory
  BY <1>6, <1>p DEF RemoveInventory
<1> QED BY <1>1, <1>2, <1>3, <1>4, <1>5, <1>6

(* The server itself.                                                      *)
LEMMA ServerKeepsIInv ==
  ASSUME IInv, PurgeCache \/ Shutdown \/ Exit \/ Crash \/ Boot
  PROVE  IInv'
<1> USE DEF IInv, TypeOK, JobKnown, TmpKnown, InWorld, PlyStored, CopyStored, InvOwned, At
<1>1. CASE PurgeCache
  BY <1>1 DEF PurgeCache
<1>2. CASE Shutdown
  BY <1>2 DEF Shutdown
<1>3. CASE Exit
  BY <1>3 DEF Exit, Forgotten
<1>4. CASE Crash
  BY <1>4 DEF Crash, Forgotten, Job
<1>5. CASE Boot
  BY <1>5 DEF Boot
<1> QED BY <1>1, <1>2, <1>3, <1>4, <1>5

LEMMA StepKeepsIInv == IInv /\ [Next]_vars => IInv'
<1> SUFFICES ASSUME IInv, [Next]_vars PROVE IInv'
  OBVIOUS
<1>1. CASE UNCHANGED vars
  BY <1>1 DEF vars, IInv, TypeOK, JobKnown, TmpKnown, InWorld, PlyStored, CopyStored,
              InvOwned, At
<1>2. ASSUME NEW p \in PCs,
             \/ Login(p) \/ Hangup(p) \/ WrongPassword(p) \/ Enter(p) \/ Reconnect(p)
             \/ Advance(p) \/ Save(p) \/ Die(p) \/ Extract(p) \/ LoseLink(p) \/ Delete(p)
      PROVE  IInv'
  <2>1. CASE Save(p) \/ Die(p) \/ (Extract(p) /\ ~GuestLeaves(p)) \/ (LoseLink(p) /\ ~GuestLeaves(p))
    <3>1. /\ up /\ job = None /\ place[p] # "out"
          /\ \E kind \in Kinds \ {"crack"} : StartSave(kind, p)
      BY <2>1 DEF Save, Die, Extract, LoseLink, Idle, Kinds
    <3> QED BY <3>1, StartsKeepIInv
  <2>2. CASE GuestLeaves(p) /\ (Extract(p) \/ LoseLink(p))
    <3>1. up /\ job = None /\ GuestLeaves(p) /\ place[p] # "out"
      BY <2>2 DEF Extract, LoseLink, Idle
    <3> QED BY <3>1, SessionsKeepIInv
  <2>3. CASE WrongPassword(p) \/ Delete(p)
    BY <2>3, StartsKeepIInv
  <2>4. CASE Login(p) \/ Hangup(p) \/ Enter(p) \/ Reconnect(p) \/ Advance(p)
    BY <2>4, SessionsKeepIInv
  <2> QED BY <1>2, <2>1, <2>2, <2>3, <2>4
<1>3. CASE OpenTmp \/ FillTmp \/ Rename \/ SaveContents \/ RemovePlayer \/ RemoveInventory
  BY <1>3, WritesKeepIInv
<1>4. CASE PurgeCache \/ Shutdown \/ Exit \/ Crash \/ Boot
  BY <1>4, ServerKeepsIInv
<1> QED BY <1>1, <1>2, <1>3, <1>4 DEF Next

(* IInv holds for as long as the files exist, crashes or not.              *)
THEOREM Inductive == Spec => []IInv
<1>1. Init => IInv
  BY InitKnown
<1>2. IInv /\ [Next]_vars => IInv'
  BY StepKeepsIInv
<1> QED BY <1>1, <1>2, PTL DEF Spec

-----------------------------------------------------------------------------
(* The files and the memory keep their shape: above all, what becomes a    *)
(* player's file is a record, never half of one.                           *)
THEOREM TypeCorrect == Spec => []TypeOK
<1>1. IInv => TypeOK
  BY DEF IInv
<1> QED BY <1>1, Inductive, PTL

(* There is no player.tmp when a save begins, which save_player_disk       *)
(* asserts, and no inventory without its player but for a removal that is  *)
(* under way or was cut short.                                             *)
THEOREM NothingIsLeftBehind == Spec => []NothingLeftBehind
<1>1. IInv => NothingLeftBehind
  BY DEF IInv, JobKnown, TmpKnown, InvOwned, NothingLeftBehind, At
<1> QED BY <1>1, Inductive, PTL

-----------------------------------------------------------------------------
(* Each step of PlayerFiles is a step of Vault, or none.                   *)
LEMMA WorldSteps ==
  ASSUME IInv, NEW p \in PCs, Enter(p) \/ Advance(p) \/ GuestLeaves(p)
  PROVE  V!VaultNext
<1> USE DEF IInv, TypeOK, InWorld, PlyStored, CopyStored, Guest, Idle
<1>1. CASE Enter(p)
  <2>1. rec[p] = None
    BY <1>1 DEF Enter
  <2>2. rec'[p] \in Record /\ rec' = [rec EXCEPT ![p] = rec'[p]]
    BY <1>1, LimitAssumption DEF Enter, Record
  <2>3. ply[p] # None => rec'[p] \in past[p]
    BY <1>1 DEF Enter
  <2>4. V!Arrive(p)
    BY <1>1, <2>1, <2>2, <2>3 DEF Enter, V!Arrive
  <2> QED BY <2>4 DEF V!VaultNext
<1>2. CASE Advance(p)
  <2>1. rec[p] # None /\ rec[p] \in Record
    BY <1>2 DEF Advance
  <2>2. rec'[p] \in Record /\ rec' = [rec EXCEPT ![p] = rec'[p]]
    BY <1>2, <2>1, LimitAssumption DEF Advance, Record
  <2>3. V!Change(p)
    BY <1>2, <2>1, <2>2 DEF Advance, V!Change
  <2> QED BY <2>3 DEF V!VaultNext
<1>3. CASE GuestLeaves(p)
  <2>1. V!Depart({p})
    BY <1>3 DEF GuestLeaves, Vanish, V!Depart
  <2> QED BY <2>1 DEF V!VaultNext
<1> QED BY <1>1, <1>2, <1>3

LEMMA RenameStep == ASSUME IInv, Rename PROVE V!VaultNext
<1> USE DEF IInv, TypeOK, JobKnown, TmpKnown, At
<1>1. job \in Job /\ job # None /\ job.stage = "rename"
  BY DEF Rename, Renamed
<1>2. job.p \in PCs
  BY <1>1 DEF Job
<1>3. tmp = job.what /\ tmp \in Record
  BY <1>1
<1>4. /\ ply' = [ply EXCEPT ![job.p] = tmp]
      /\ past' = [past EXCEPT ![job.p] = @ \cup {tmp}]
      /\ rec' = rec
  BY DEF Rename, Renamed
<1>5. CASE job.kind = "crack"
  <2>1. tmp \in past[job.p] /\ past' = past
    BY <1>1, <1>2, <1>3, <1>4, <1>5
  <2>2. V!Restore(job.p)
    BY <1>4, <2>1 DEF V!Restore
  <2> QED BY <1>2, <2>2 DEF V!VaultNext
<1>6. CASE job.kind # "crack"
  <2>1. tmp = rec[job.p] /\ rec[job.p] # None
    BY <1>1, <1>3, <1>6, MarkAssumption
  <2>2. V!Store(job.p)
    BY <1>4, <2>1 DEF V!Store
  <2> QED BY <1>2, <2>2 DEF V!VaultNext
<1> QED BY <1>5, <1>6

LEMMA StepRefines ==
  ASSUME IInv, [Next]_vars
  PROVE  V!VaultNext \/ UNCHANGED V!vaultVars
<1> USE DEF V!vaultVars
<1>1. CASE UNCHANGED vars
  BY <1>1 DEF vars
<1>2. ASSUME NEW p \in PCs,
             \/ Login(p) \/ Hangup(p) \/ WrongPassword(p) \/ Enter(p) \/ Reconnect(p)
             \/ Advance(p) \/ Save(p) \/ Die(p) \/ Extract(p) \/ LoseLink(p) \/ Delete(p)
      PROVE  V!VaultNext \/ UNCHANGED V!vaultVars
  <2>1. CASE Enter(p) \/ Advance(p) \/ GuestLeaves(p)
    BY <2>1, WorldSteps
  <2>2. CASE ~GuestLeaves(p) /\ (Save(p) \/ Die(p) \/ Extract(p) \/ LoseLink(p))
    BY <2>2 DEF Save, Die, Extract, LoseLink, StartSave
  <2>3. CASE Login(p) \/ Hangup(p) \/ WrongPassword(p) \/ Reconnect(p) \/ Delete(p)
    BY <2>3 DEF Login, Hangup, WrongPassword, Reconnect, Delete
  <2> QED BY <1>2, <2>1, <2>2, <2>3
<1>3. CASE Rename
  BY <1>3, RenameStep
<1>4. CASE RemovePlayer
  <2>1. job \in Job /\ job # None /\ job.stage = "remove"
    BY <1>4 DEF RemovePlayer, At, IInv, TypeOK
  <2>2. job.p \in PCs /\ rec[job.p] = None
    BY <2>1 DEF IInv, JobKnown, Job
  <2>3. V!Forget(job.p)
    BY <1>4, <2>2 DEF RemovePlayer, V!Forget
  <2> QED BY <2>2, <2>3 DEF V!VaultNext
<1>5. CASE SaveContents
  <2>1. job \in Job /\ job # None
    BY <1>5 DEF SaveContents, At, IInv, TypeOK
  <2>2. job.p \in PCs
    BY <2>1 DEF Job
  <2>3. CASE job.kind = "quit"
    <3>1. V!Depart({job.p})
      BY <1>5, <2>2, <2>3 DEF SaveContents, Vanish, V!Depart, IInv, TypeOK
    <3> QED BY <2>2, <3>1 DEF V!VaultNext
  <2>4. CASE job.kind # "quit"
    BY <1>5, <2>4 DEF SaveContents
  <2> QED BY <2>3, <2>4
<1>6. CASE Exit \/ Crash
  <2>1. V!Depart(PCs)
    BY <1>6 DEF Exit, Crash, Forgotten, V!Depart
  <2> QED BY <2>1 DEF V!VaultNext
<1>7. CASE OpenTmp \/ FillTmp \/ RemoveInventory \/ PurgeCache \/ Shutdown \/ Boot
  BY <1>7 DEF OpenTmp, FillTmp, RemoveInventory, PurgeCache, Shutdown, Boot
<1> QED BY <1>1, <1>2, <1>3, <1>4, <1>5, <1>6, <1>7 DEF Next

(* save_player_disk with its rename, and the boot after any crash, look    *)
(* from outside like one write that happened or did not.                   *)
THEOREM Refinement == Spec => ImplementsVault
<1>1. Init => V!VaultInit
  BY DEF Init, V!VaultInit
<1>2. IInv /\ [Next]_vars => [V!VaultNext]_V!vaultVars
  BY StepRefines
<1> QED BY <1>1, <1>2, Inductive, PTL DEF Spec, ImplementsVault, V!VaultSpec
=============================================================================
