---------------------------- MODULE HooksProofs ----------------------------
(***************************************************************************)
(* What is proved about Hooks, for any number of slots and connections,    *)
(* any sizes of buffers and frames and any messages.                       *)
(*                                                                         *)
(* The tables of cCaptainHook stay whole (TablesHold).  Unhook takes for   *)
(* granted that a hook is in the tables under its own descriptor, and in   *)
(* nIdx once; Wait, that who is at a descriptor is hooked there, and that  *)
(* an id tells a connection from a later one.                              *)
(*                                                                         *)
(* What is written and read keeps its order (Refinement): every step of    *)
(* Hooks is a step of Streams at one connection, or none.  First come the  *)
(* facts about cQueue that this needs: what Cut leaves of the elements of  *)
(* a queue are the bytes that Copy did not give, and Elements takes what   *)
(* is read apart without losing any.                                       *)
(***************************************************************************)
EXTENDS Hooks, FiniteSetTheorems, SequenceTheorems, WellFoundedInduction, TLAPS

Shape ==
  /\ pfHook \in [Fds -> AllHooks \cup {None}]
  /\ fd \in [AllHooks -> Fds \cup {None}]
  /\ id \in [AllHooks -> Int]
  /\ nIdx \in Seq(Fds) /\ nMax \in Nat /\ newid \in Nat
  /\ busy \in AllHooks \cup {None}
  /\ wait = [nTable |-> wait.nTable, nId |-> wait.nId, read |-> wait.read,
             write |-> wait.write, i |-> wait.i, hook |-> wait.hook]
  /\ wait.write \subseteq Fds

(* Who is not hooked has no id. *)
FreeHasNoId == \A h \in AllHooks : ~Hooked(h) => id[h] = None

IInv == Shape /\ TableWhole /\ FreeHasNoId

-----------------------------------------------------------------------------
LEMMA Numbers ==
  /\ Fds \subseteq Nat \ {0} /\ None \notin Fds /\ None \notin AllHooks
  /\ AllHooks \subseteq Nat /\ Mother \in AllHooks /\ Multi \subseteq AllHooks /\ 1 \in Fds
BY BoundAssumption DEF Fds, None, AllHooks, Mother, Multi

(* Fds has finitely many: of the sets y..N with y in S one has no other    *)
(* inside it.                                                              *)
LEMMA MostIsGreatest ==
  ASSUME NEW S \in SUBSET Fds
  PROVE  Most(S) \in Nat /\ Most(S) \in S \cup {0} /\ \A y \in S : y <= Most(S)
<1> DEFINE N == MaxMulti + 1
           R == StrictSubsetOrdering(Nat)
           F == FiniteSubsetsOf(Nat)
           I == { y..N : y \in S }
<1>1. N \in Nat /\ S \subseteq 1..N
  BY BoundAssumption DEF Fds
<1> HIDE DEF N
<1>2. \E x \in S \cup {0} : \A y \in S : x >= y
  <2>1. CASE S = {}
    BY <2>1
  <2>2. CASE S # {}
    <3>1. I \subseteq F /\ I # {}
      <4>1. ASSUME NEW y \in S PROVE y..N \in F
        <5>1. y \in Int /\ N \in Int /\ y..N \subseteq Nat
          BY <1>1
        <5>2. IsFiniteSet(y..N)
          BY <5>1, FS_Interval
        <5> QED BY <5>1, <5>2 DEF FiniteSubsetsOf
      <4> HIDE DEF F
      <4> QED BY <4>1, <2>2
    <3>2. PICK m \in I : \A J \in I : ~(<<J, m>> \in R)
      <4> HIDE DEF I, F, R
      <4>1. IsWellFoundedOn(R, F)
        BY FS_StrictSubsetOrderingWellFounded DEF R, F
      <4> QED BY <3>1, <4>1, WFMin
    <3>3. PICK x \in S : m = x..N
      OBVIOUS
    <3>4. ASSUME NEW y \in S, x < y PROVE FALSE
      <4>1. y..N \in SUBSET Nat /\ x..N \in SUBSET Nat /\ y..N \subseteq x..N
        BY <1>1, <3>4
      <4>2. x \in x..N /\ x \notin y..N
        BY <1>1, <3>4
      <4>3. <<y..N, x..N>> \in R
        BY <4>1, <4>2 DEF StrictSubsetOrdering
      <4> QED BY <4>3, <3>2, <3>3
    <3>5. \A y \in S : x >= y
      BY <1>1, <3>4
    <3> QED BY <3>5
  <2> QED BY <2>1, <2>2
<1>3. Most(S) \in S \cup {0} /\ \A y \in S : Most(S) >= y
  BY <1>2 DEF Most
<1>4. S \cup {0} \subseteq Nat
  BY Numbers
<1> QED BY <1>3, <1>4

(* An entry goes, and the last one takes its place. *)
LEMMA FilledProperties ==
  ASSUME nIdx \in Seq(Fds), \A i, j \in DOMAIN nIdx : nIdx[i] = nIdx[j] => i = j,
         NEW f \in Range(nIdx)
  PROVE  /\ Filled(f) \in Seq(Fds)
         /\ Range(Filled(f)) = Range(nIdx) \ {f}
         /\ \A i, j \in DOMAIN Filled(f) : Filled(f)[i] = Filled(f)[j] => i = j
<1> DEFINE i == CHOOSE k \in DOMAIN nIdx : nIdx[k] = f
           n == Len(nIdx)
           s == Filled(f)
<1>1. i \in 1..n /\ nIdx[i] = f
  BY DEF Range
<1>2. n \in Nat \ {0} /\ nIdx \in [1..n -> Fds]
  BY <1>1
<1>3. /\ s \in Seq(Fds) /\ Len(s) = n - 1
      /\ \A k \in 1..(n - 1) : s[k] = IF k = i THEN nIdx[n] ELSE nIdx[k]
  <2> HIDE DEF i
  <2> DEFINE m == [nIdx EXCEPT ![i] = nIdx[n]]
  <2>1. m \in Seq(Fds) /\ Len(m) = n
    BY <1>1, <1>2
  <2>2. \A k \in 1..(n - 1) : m[k] = IF k = i THEN nIdx[n] ELSE nIdx[k]
    BY <1>1, <1>2
  <2>3. s = SubSeq(m, 1, n - 1)
    BY DEF Filled, i
  <2> HIDE DEF m, s
  <2>4. s \in Seq(Fds) /\ Len(s) = n - 1 /\ \A k \in 1..(n - 1) : s[k] = m[k]
    BY <2>1, <2>3, <1>2
  <2> QED BY <2>2, <2>4
<1> HIDE DEF i, n, s
<1>4. DOMAIN s = 1..(n - 1) /\ DOMAIN nIdx = 1..n
  BY <1>2, <1>3
<1>5. \A a, b \in 1..n : nIdx[a] = nIdx[b] => a = b
  BY <1>4
<1>6. ASSUME NEW k \in 1..(n - 1)
      PROVE  s[k] \in Range(nIdx) \ {f}
  <2>1. CASE k = i
    <3>1. n \in 1..n /\ n # i /\ s[k] = nIdx[n]
      BY <1>1, <1>2, <1>3, <2>1
    <3> QED BY <3>1, <1>1, <1>4, <1>5 DEF Range
  <2>2. CASE k # i
    <3>1. k \in 1..n /\ s[k] = nIdx[k]
      BY <1>2, <1>3, <2>2
    <3> QED BY <3>1, <2>2, <1>1, <1>4, <1>5 DEF Range
  <2> QED BY <2>1, <2>2
<1>7. ASSUME NEW l \in 1..n, l # i
      PROVE  nIdx[l] \in Range(s)
  <2>1. CASE l = n
    <3>1. i \in 1..(n - 1) /\ s[i] = nIdx[l]
      BY <1>1, <1>2, <1>3, <1>7, <2>1
    <3> QED BY <3>1, <1>4 DEF Range
  <2>2. CASE l # n
    <3>1. l \in 1..(n - 1) /\ s[l] = nIdx[l]
      BY <1>1, <1>2, <1>3, <1>7, <2>2
    <3> QED BY <3>1, <1>4 DEF Range
  <2> QED BY <2>1, <2>2
<1>8. Range(s) = Range(nIdx) \ {f}
  <2>1. \A x \in Range(nIdx) : \E l \in 1..n : x = nIdx[l]
    BY <1>4 DEF Range
  <2>2. \A x \in Range(nIdx) \ {f} : x \in Range(s)
    BY <2>1, <1>1, <1>7
  <2>3. \A x \in Range(s) : \E k \in 1..(n - 1) : x = s[k]
    BY <1>4 DEF Range
  <2> QED BY <2>2, <2>3, <1>6
<1>9. ASSUME NEW a \in 1..(n - 1), NEW b \in 1..(n - 1), s[a] = s[b]
      PROVE  a = b
  <2>1. a \in 1..n /\ b \in 1..n /\ n \in 1..n /\ a # n /\ b # n
    BY <1>2
  <2>2. s[a] = nIdx[IF a = i THEN n ELSE a] /\ s[b] = nIdx[IF b = i THEN n ELSE b]
    BY <1>3
  <2> QED BY <2>1, <2>2, <1>5, <1>9
<1> QED BY <1>3, <1>4, <1>8, <1>9 DEF s, n

-----------------------------------------------------------------------------
LEMMA InitIInv == Init => IInv
<1> SUFFICES ASSUME Init PROVE IInv
  OBVIOUS
<1> USE Numbers DEF Init
<1>1. Shape
  BY DEF Shape, NoWait, None, Mother
<1>2. \A h \in AllHooks : Hooked(h) <=> h = Mother
  BY DEF Hooked
<1>3. Range(nIdx) = {1} /\ \A i, j \in DOMAIN nIdx : nIdx[i] = nIdx[j] => i = j
  BY DEF Range
<1>4. {f \in Fds : pfHook[f] # None} = {1}
  BY DEF Mother, None
<1>5. TableWhole
  BY <1>2, <1>3, <1>4 DEF TableWhole, Mother, None
<1> QED BY <1>1, <1>2, <1>5 DEF IInv, FreeHasNoId

LEMMA UnhookKeepsIInv ==
  ASSUME IInv, NEW h \in AllHooks, Hooked(h), Unhook(h), busy' = None, wait' = wait
  PROVE  IInv'
<1> DEFINE f == fd[h]
<1> USE Numbers
<1>1. /\ f \in Fds /\ pfHook[f] = h
      /\ pfHook' = [pfHook EXCEPT ![f] = None]
      /\ fd' = [fd EXCEPT ![h] = None]
      /\ id' = [id EXCEPT ![h] = None]
      /\ nIdx' = Filled(f) /\ nMax' = Most(Range(nIdx')) /\ newid' = newid
  BY DEF IInv, Shape, TableWhole, Hooked, Unhook
<1> HIDE DEF f
<1>2. f \in Range(nIdx)
  BY <1>1 DEF IInv, TableWhole
<1>3. /\ nIdx' \in Seq(Fds) /\ Range(nIdx') = Range(nIdx) \ {f}
      /\ \A i, j \in DOMAIN nIdx' : nIdx'[i] = nIdx'[j] => i = j
  BY <1>1, <1>2, FilledProperties DEF IInv, Shape, TableWhole
<1>4. Range(nIdx') \subseteq Fds
  BY <1>3 DEF IInv, TableWhole
<1>5. nMax' \in Nat /\ \A e \in Range(nIdx') : e <= nMax'
  BY <1>1, <1>4, MostIsGreatest
<1>6. Shape'
  BY <1>1, <1>3, <1>5 DEF IInv, Shape, None
<1>7. \A g \in AllHooks : Hooked(g)' <=> Hooked(g) /\ g # h
  BY <1>1 DEF IInv, Shape, Hooked
<1>8. \A g \in AllHooks : Hooked(g)' => fd'[g] = fd[g] /\ id'[g] = id[g] /\ fd[g] # f /\ fd[g] \in Fds
  BY <1>1, <1>7 DEF IInv, Shape, TableWhole, Hooked
<1>9. \A e \in Fds : pfHook'[e] # None => e # f /\ pfHook'[e] = pfHook[e] /\ pfHook[e] \in AllHooks \ {h}
  BY <1>1 DEF IInv, Shape, TableWhole
<1>10. Range(nIdx') = {e \in Fds : pfHook'[e] # None}
  BY <1>1, <1>3, <1>9 DEF IInv, Shape, TableWhole
<1>11. FreeHasNoId'
  BY <1>1, <1>7 DEF IInv, Shape, FreeHasNoId
<1>12. \A g \in AllHooks : Hooked(g)' => pfHook'[fd'[g]] = g /\ id'[g] \in 0..newid' - 1
  BY <1>1, <1>7, <1>8 DEF IInv, Shape, TableWhole
<1>13. \A e \in Fds : pfHook'[e] # None => fd'[pfHook'[e]] = e /\ e <= nMax'
  BY <1>1, <1>5, <1>9, <1>10 DEF IInv, Shape, TableWhole
<1>14. \A g, k \in AllHooks : Hooked(g)' /\ id'[g] = id'[k] => g = k
  <2> SUFFICES ASSUME NEW g \in AllHooks, NEW k \in AllHooks, Hooked(g)', id'[g] = id'[k]
               PROVE  g = k
    OBVIOUS
  <2>1. Hooked(g) /\ id'[g] = id[g] /\ id[g] # None
    BY <1>7, <1>8 DEF IInv, TableWhole, Shape, None
  <2>2. k # h /\ id'[k] = id[k]
    BY <1>1, <2>1 DEF IInv, Shape
  <2> QED BY <2>1, <2>2 DEF IInv, TableWhole
<1> QED BY <1>3, <1>6, <1>10, <1>11, <1>12, <1>13, <1>14 DEF IInv, TableWhole

LEMMA HookKeepsIInv ==
  ASSUME IInv, NEW f \in Fds, NEW h \in AllHooks, pfHook[f] = None, ~Hooked(h), Hook(f, h),
         UNCHANGED <<busy, wait>>
  PROVE  IInv'
<1> USE Numbers
<1>1. /\ pfHook' = [pfHook EXCEPT ![f] = h]
      /\ fd' = [fd EXCEPT ![h] = f]
      /\ id' = [id EXCEPT ![h] = newid] /\ newid' = newid + 1
      /\ nIdx' = Append(nIdx, f)
      /\ nMax' = IF f > nMax THEN f ELSE nMax
  BY DEF Hook
<1>2. Shape'
  BY <1>1 DEF IInv, Shape
<1>3. f \notin Range(nIdx)
  BY DEF IInv, TableWhole
<1>4. /\ DOMAIN nIdx' = 1..Len(nIdx) + 1 /\ nIdx'[Len(nIdx) + 1] = f
      /\ \A i \in 1..Len(nIdx) : nIdx'[i] = nIdx[i]
      /\ DOMAIN nIdx = 1..Len(nIdx) /\ Len(nIdx) \in Nat
  BY <1>1 DEF IInv, Shape
<1>5. Range(nIdx') = Range(nIdx) \cup {f}
  <2>1. \A x \in Range(nIdx') : x \in Range(nIdx) \cup {f}
    BY <1>4 DEF Range
  <2>2. \A x \in Range(nIdx) \cup {f} : x \in Range(nIdx')
    BY <1>4 DEF Range
  <2> QED BY <2>1, <2>2
<1>6. \A i, j \in DOMAIN nIdx' : nIdx'[i] = nIdx'[j] => i = j
  <2>1. \A i \in 1..Len(nIdx) : nIdx[i] # f
    BY <1>3, <1>4 DEF Range
  <2> QED BY <2>1, <1>4 DEF IInv, TableWhole
<1>7. \A g \in AllHooks : g # h => fd'[g] = fd[g] /\ id'[g] = id[g] /\ (Hooked(g)' <=> Hooked(g))
  BY <1>1 DEF IInv, Shape, Hooked
<1>8. fd'[h] = f /\ id'[h] = newid /\ pfHook'[f] = h /\ Hooked(h)'
  BY <1>1 DEF IInv, Shape, Hooked
<1>9. \A e \in Fds : e # f => pfHook'[e] = pfHook[e]
  BY <1>1 DEF IInv, Shape
<1>10. \A g \in AllHooks : Hooked(g)' => pfHook'[fd'[g]] = g /\ id'[g] \in 0..newid' - 1
  <2> SUFFICES ASSUME NEW g \in AllHooks, Hooked(g)'
               PROVE  pfHook'[fd'[g]] = g /\ id'[g] \in 0..newid' - 1
    OBVIOUS
  <2>1. CASE g = h
    BY <1>1, <1>8, <2>1 DEF IInv, Shape
  <2>2. CASE g # h
    <3>1. Hooked(g) /\ pfHook[fd[g]] = g /\ fd[g] \in Fds /\ id[g] \in 0..newid - 1
      BY <1>7, <2>2 DEF IInv, Shape, TableWhole, Hooked
    <3>2. fd[g] # f
      BY <3>1
    <3> QED BY <1>1, <1>7, <1>9, <2>2, <3>1, <3>2 DEF IInv, Shape
  <2> QED BY <2>1, <2>2
<1>11. \A e \in Fds : pfHook'[e] # None => fd'[pfHook'[e]] = e /\ e <= nMax'
  <2> SUFFICES ASSUME NEW e \in Fds, pfHook'[e] # None
               PROVE  fd'[pfHook'[e]] = e /\ e <= nMax'
    OBVIOUS
  <2>1. CASE e = f
    BY <1>1, <1>8, <2>1 DEF IInv, Shape
  <2>2. CASE e # f
    <3>1. pfHook'[e] = pfHook[e] /\ pfHook[e] \in AllHooks /\ fd[pfHook[e]] = e /\ e <= nMax
      BY <1>9, <2>2 DEF IInv, Shape, TableWhole
    <3>2. pfHook[e] # h
      BY <3>1 DEF Hooked
    <3> QED BY <1>1, <1>7, <3>1, <3>2 DEF IInv, Shape
  <2> QED BY <2>1, <2>2
<1>12. \A g, k \in AllHooks : Hooked(g)' /\ id'[g] = id'[k] => g = k
  <2>1. \A g \in AllHooks : id[g] # newid
    BY DEF IInv, Shape, TableWhole, FreeHasNoId, None
  <2> QED BY <2>1, <1>7, <1>8 DEF IInv, TableWhole
<1>13. Range(nIdx') = {e \in Fds : pfHook'[e] # None}
  BY <1>5, <1>8, <1>9 DEF IInv, TableWhole
<1>14. FreeHasNoId'
  BY <1>7, <1>8 DEF IInv, FreeHasNoId
<1>15. busy' # None => Hooked(busy)'
  BY <1>7, <1>8 DEF IInv, Shape, TableWhole
<1> QED BY <1>2, <1>6, <1>10, <1>11, <1>12, <1>13, <1>14, <1>15 DEF IInv, TableWhole

(* The tables as they are: what is left is whom PushWrite writes for.      *)
LEMMA TableKept ==
  ASSUME IInv, UNCHANGED table, Shape', busy' # None => Hooked(busy')
  PROVE  IInv'
BY DEF IInv, table, TableWhole, FreeHasNoId, Hooked

LEMMA StepKeepsIInv == IInv /\ [Next]_vars => IInv'
<1> SUFFICES ASSUME IInv, [Next]_vars PROVE IInv'
  OBVIOUS
<1> USE Numbers
<1>1. ASSUME UNCHANGED <<table, wait>>, busy' \in {None, busy} PROVE IInv'
  <2>1. Shape'
    BY <1>1 DEF IInv, Shape, table
  <2> QED BY <1>1, <2>1, TableKept DEF IInv, TableWhole
<1>2. ASSUME NEW h \in Multi, Write(h) PROVE IInv'
  <2>1. UNCHANGED <<table, wait>> /\ busy' = h /\ Hooked(h)
    BY <1>2 DEF Write
  <2>2. Shape'
    BY <2>1 DEF IInv, Shape, table
  <2> QED BY <2>1, <2>2, TableKept
<1>3. ASSUME NEW h \in Multi, Close(h) \/ ReadError(h) PROVE IInv'
  BY <1>3, UnhookKeepsIInv DEF Close, ReadError
<1>4. CASE PushError
  BY <1>4, UnhookKeepsIInv DEF PushError, IInv, Shape, TableWhole
<1>5. CASE PushRound
  BY <1>5, <1>1 DEF PushRound
<1>6. ASSUME NEW r \in SUBSET Readable, NEW w \in SUBSET Pending, Select(r, w) PROVE IInv'
  <2>1. UNCHANGED table /\ busy' = busy /\ w \subseteq Fds
    BY <1>6 DEF Select, Pending
  <2>2. PICK n, i : wait' = [nTable |-> n, nId |-> i, read |-> r, write |-> w, i |-> 0, hook |-> None]
    BY <1>6 DEF Select
  <2>3. Shape'
    BY <2>1, <2>2 DEF IInv, Shape, table
  <2> QED BY <2>1, <2>3, TableKept DEF IInv, TableWhole
<1>7. CASE Scan
  <2>1. UNCHANGED table /\ busy' = busy
    BY <1>7 DEF Scan
  <2>2. PICK i, h : wait' = [wait EXCEPT !.i = i, !.hook = h]
    BY <1>7 DEF Scan
  <2>3. wait' = [nTable |-> wait.nTable, nId |-> wait.nId, read |-> wait.read,
                 write |-> wait.write, i |-> i, hook |-> h]
    BY <2>2 DEF IInv, Shape
  <2>4. Shape'
    BY <2>1, <2>3 DEF IInv, Shape, table
  <2> QED BY <2>1, <2>4, TableKept DEF IInv, TableWhole
<1>8. CASE Flush
  <2>1. UNCHANGED <<table, wait>>
    BY <1>8 DEF Flush
  <2>2. busy' = None \/ /\ wait.nTable[wait.i] \in wait.write
                        /\ Same(wait.hook, wait.i) /\ busy' = wait.hook
    BY <1>8 DEF Flush
  <2>3. CASE busy' = None
    BY <2>1, <2>3, <1>1
  <2>4. CASE busy' # None
    <3>1. PICK f \in Fds : pfHook[f] = busy'
      BY <2>2, <2>4 DEF Same, IInv, Shape
    <3>2. busy' \in AllHooks /\ Hooked(busy')
      BY <3>1, <2>4 DEF IInv, Shape, TableWhole, Hooked
    <3>3. Shape'
      BY <2>1, <3>2 DEF IInv, Shape, table
    <3> QED BY <2>1, <3>2, <3>3, TableKept
  <2> QED BY <2>3, <2>4
<1>9. CASE WaitDone
  <2>1. UNCHANGED table /\ busy' = busy /\ wait' = NoWait
    BY <1>9 DEF WaitDone
  <2>2. Shape'
    BY <2>1 DEF IInv, Shape, table, NoWait
  <2> QED BY <2>1, <2>2, TableKept DEF IInv, TableWhole
<1>10. CASE Accept
  BY <1>10, HookKeepsIInv DEF Accept
<1>11. CASE TurnAway \/ PeerConnects
  BY <1>11, <1>1 DEF TurnAway, PeerConnects
<1>12. ASSUME NEW h \in Multi, Read(h) \/ ReadClosed(h) \/ PeerSends(h) \/ PeerHangsUp(h) PROVE IInv'
  BY <1>12, <1>1 DEF Read, ReadClosed, PeerSends, PeerHangsUp
<1>13. CASE UNCHANGED vars
  BY <1>13, <1>1 DEF vars, table
<1> QED BY <1>2, <1>3, <1>4, <1>5, <1>6, <1>7, <1>8, <1>9, <1>10, <1>11, <1>12, <1>13 DEF Next

(* The tables of descriptors, hooks and ids say the same, whatever the     *)
(* calls of Wait hook and unhook.                                          *)
THEOREM TablesHold == Spec => []TableWhole
<1>1. IInv => TableWhole  BY DEF IInv
<1> QED BY <1>1, InitIInv, StepKeepsIInv, PTL DEF Spec

-----------------------------------------------------------------------------
(* Numbers, and loops over a sequence.                                     *)
LEMMA FromZeroOn ==
  ASSUME NEW T \in SUBSET Nat, 0 \in T, \A n \in T : n + 1 \in T
  PROVE  T = Nat
<1> SUFFICES ASSUME NEW k \in Nat, k \notin T PROVE FALSE
  OBVIOUS
<1> DEFINE R == StrictSubsetOrdering(Nat)
           F == FiniteSubsetsOf(Nat)
           I == { 1..i : i \in Nat \ T }
<1>1. I \subseteq F /\ I # {}
  <2>1. ASSUME NEW i \in Nat PROVE 1..i \in F
    <3>1. 1 \in Int /\ i \in Int /\ 1..i \subseteq Nat
      OBVIOUS
    <3>2. IsFiniteSet(1..i)
      BY <3>1, FS_Interval
    <3> QED BY <3>1, <3>2 DEF FiniteSubsetsOf
  <2> HIDE DEF F
  <2> QED BY <2>1
<1>2. PICK m \in I : \A y \in I : ~(<<y, m>> \in R)
  <2> HIDE DEF I, F, R
  <2>1. IsWellFoundedOn(R, F)
    BY FS_StrictSubsetOrderingWellFounded DEF R, F
  <2> QED BY <1>1, <2>1, WFMin
<1>3. PICK i \in Nat \ T : m = 1..i
  OBVIOUS
<1>4. i - 1 \in Nat /\ i - 1 \notin T /\ i # 0
  <2>1. i # 0
    OBVIOUS
  <2>2. i - 1 \in Nat /\ (i - 1) + 1 = i
    BY <2>1
  <2> QED BY <2>1, <2>2
<1>5. 1..(i - 1) \in I
  BY <1>4
<1>6. <<1..(i - 1), 1..i>> \in R
  <2>1. 1..(i - 1) \in SUBSET Nat /\ 1..i \in SUBSET Nat /\ 1..(i - 1) \subseteq 1..i
    BY <1>4
  <2>2. i \in 1..i /\ i \notin 1..(i - 1)
    BY <1>4
  <2> QED BY <2>1, <2>2 DEF StrictSubsetOrdering
<1> QED BY <1>2, <1>3, <1>5, <1>6

LEMMA MaxIs ==
  ASSUME NEW n \in Nat, NEW S \in SUBSET (1..n), n \in S
  PROVE  Max(S) = n
<1>1. \A y \in S : n >= y
  OBVIOUS
<1>2. Max(S) \in S /\ \A y \in S : Max(S) >= y
  BY <1>1 DEF Max
<1>3. Max(S) \in 1..n /\ Max(S) >= n
  BY <1>2
<1> DEFINE m == Max(S)
<1>4. m \in 1..n /\ m >= n
  BY <1>3
<1> HIDE DEF m
<1>5. m = n
  BY <1>4
<1> QED BY <1>5 DEF m

LEMMA MaxThere ==
  ASSUME NEW n \in Nat, NEW S \in SUBSET (1..n), S # {}
  PROVE  Max(S) \in S
<1> DEFINE T == {m \in Nat : \A s \in SUBSET (1..m) : s # {} => Max(s) \in s}
<1>1. 0 \in T
  <2>1. 1..0 = {}
    OBVIOUS
  <2> QED BY <2>1
<1>2. ASSUME NEW m \in T PROVE m + 1 \in T
  <2> SUFFICES ASSUME NEW s \in SUBSET (1..(m + 1)), s # {} PROVE Max(s) \in s
    OBVIOUS
  <2>1. CASE m + 1 \in s
    BY <2>1, MaxIs
  <2>2. CASE m + 1 \notin s
    <3>1. s \in SUBSET (1..m)
      BY <2>2
    <3> QED BY <3>1
  <2> QED BY <2>1, <2>2
<1> HIDE DEF T
<1>3. T = Nat
  <2>1. T \in SUBSET Nat
    BY DEF T
  <2> QED BY <1>1, <1>2, <2>1, FromZeroOn
<1> QED BY <1>3 DEF T

(* The recursive function behind a fold exists.                            *)
LoopsOf(A, b, n, G) ==
  {g \in [SUBSET (1..n) -> A] :
     \A s \in SUBSET (1..n) :
       g[s] = IF s = {} THEN b ELSE G[<<g[s \ {Max(s)}], Max(s)>>]}
LEMMA LoopRuns ==
  ASSUME NEW A, NEW b \in A, NEW n \in Nat, NEW G \in [A \X (1..n) -> A]
  PROVE  LoopsOf(A, b, n, G) # {}
<1> DEFINE Runs(g, m) == \A s \in SUBSET (1..m) :
             g[s] = IF s = {} THEN b ELSE G[<<g[s \ {Max(s)}], Max(s)>>]
           Good(m) == m <= n => \E g \in [SUBSET (1..m) -> A] : Runs(g, m)
           T == {m \in Nat : Good(m)}
<1>1. 0 \in T
  <2> DEFINE g == [s \in SUBSET (1..0) |-> b]
  <2>1. 1..0 = {}
    OBVIOUS
  <2>2. \A s \in SUBSET (1..0) : s = {}
    BY <2>1
  <2>3. g \in [SUBSET (1..0) -> A] /\ Runs(g, 0)
    BY <2>2
  <2> HIDE DEF g, Runs
  <2>4. Good(0)
    BY <2>3
  <2> HIDE DEF Good
  <2> QED BY <2>4
<1>2. ASSUME NEW m \in T PROVE m + 1 \in T
  <2>a. m \in Nat /\ Good(m)
    BY <1>2
  <2> SUFFICES ASSUME m + 1 <= n PROVE \E g \in [SUBSET (1..(m + 1)) -> A] : Runs(g, m + 1)
    <3> HIDE DEF Runs
    <3>1. Good(m + 1)
      OBVIOUS
    <3> HIDE DEF Good
    <3> QED BY <2>a, <3>1
  <2>1. m \in Nat /\ m <= n /\ m + 1 \in 1..n
    BY <2>a
  <2>2. PICK h \in [SUBSET (1..m) -> A] : Runs(h, m)
    <3> HIDE DEF Runs
    <3> QED BY <2>a, <2>1
  <2> DEFINE g == [s \in SUBSET (1..(m + 1)) |->
                     IF m + 1 \in s THEN G[<<h[s \ {m + 1}], m + 1>>] ELSE h[s]]
  <2>3. \A s \in SUBSET (1..(m + 1)) : /\ s \ {m + 1} \in SUBSET (1..m)
                                       /\ m + 1 \notin s => s \in SUBSET (1..m)
    OBVIOUS
  <2>4. \A x \in SUBSET (1..m) : x \in SUBSET (1..(m + 1)) /\ m + 1 \notin x
    OBVIOUS
  <2>5. g \in [SUBSET (1..(m + 1)) -> A]
    <3>1. ASSUME NEW s \in SUBSET (1..(m + 1)), m + 1 \in s
          PROVE  G[<<h[s \ {m + 1}], m + 1>>] \in A
      <4>1. h[s \ {m + 1}] \in A
        BY <2>3
      <4> QED BY <4>1, <2>1
    <3>2. ASSUME NEW s \in SUBSET (1..(m + 1)), m + 1 \notin s PROVE h[s] \in A
      BY <3>2, <2>3
    <3> QED BY <3>1, <3>2
  <2>6. \A x \in SUBSET (1..m) : g[x] = h[x]
    BY <2>4
  <2>7. ASSUME NEW s \in SUBSET (1..(m + 1))
        PROVE  g[s] = IF s = {} THEN b ELSE G[<<g[s \ {Max(s)}], Max(s)>>]
    <3>1. CASE m + 1 \in s
      <4>1. Max(s) = m + 1
        BY <3>1, MaxIs
      <4>2. g[s] = G[<<h[s \ {m + 1}], m + 1>>]
        BY <3>1
      <4>3. g[s \ {m + 1}] = h[s \ {m + 1}]
        BY <2>3, <2>6
      <4> HIDE DEF g
      <4> QED BY <3>1, <4>1, <4>2, <4>3
    <3>2. CASE m + 1 \notin s
      <4>1. s \in SUBSET (1..m) /\ s \ {Max(s)} \in SUBSET (1..m)
        BY <3>2, <2>3
      <4>2. h[s] = IF s = {} THEN b ELSE G[<<h[s \ {Max(s)}], Max(s)>>]
        BY <2>2, <4>1
      <4>3. g[s] = h[s] /\ g[s \ {Max(s)}] = h[s \ {Max(s)}]
        BY <2>6, <4>1
      <4> HIDE DEF g
      <4> QED BY <4>2, <4>3
    <3> QED BY <3>1, <3>2
  <2>8. Runs(g, m + 1)
    BY <2>7
  <2> HIDE DEF g, Runs
  <2> QED BY <2>5, <2>8
<1> HIDE DEF T
<1>3. T = Nat
  <2>1. T \in SUBSET Nat
    BY DEF T
  <2> QED BY <1>1, <1>2, <2>1, FromZeroOn
<1>4. Good(n)
  <2> HIDE DEF Good
  <2> QED BY <1>3 DEF T
<1>5. \E g \in [SUBSET (1..n) -> A] : Runs(g, n)
  <2> HIDE DEF Runs
  <2>1. n <= n
    OBVIOUS
  <2> QED BY <1>4, <2>1
<1> QED BY <1>5 DEF LoopsOf

-----------------------------------------------------------------------------
(* Sequences of bytes.                                                     *)
Drop(s, n) == SubSeq(s, n + 1, Len(s))

LEMMA DropProperties ==
  ASSUME NEW S, NEW s \in Seq(S), NEW n \in Nat
  PROVE  /\ Drop(s, n) \in Seq(S)
         /\ Len(Drop(s, n)) = IF n < Len(s) THEN Len(s) - n ELSE 0
         /\ \A i \in 1..(Len(s) - n) : Drop(s, n)[i] = s[n + i]
         /\ n = 0 => Drop(s, n) = s
         /\ n < Len(s) => Drop(s, n) # << >>
         /\ n >= Len(s) => Drop(s, n) = << >>
<1>1. Len(s) \in Nat /\ n + 1 \in Int /\ \A i \in (n + 1)..Len(s) : s[i] \in S
  <2>1. Len(s) \in Nat
    BY LenProperties
  <2>2. \A i \in (n + 1)..Len(s) : i \in 1..Len(s)
    BY <2>1
  <2> QED BY <2>1, <2>2, ElementOfSeq
<1>2. /\ Drop(s, n) \in Seq(S)
      /\ Len(Drop(s, n)) = IF n + 1 <= Len(s) THEN Len(s) - (n + 1) + 1 ELSE 0
      /\ \A i \in 1..(Len(s) - (n + 1) + 1) : Drop(s, n)[i] = s[(n + 1) + i - 1]
  BY <1>1, SubSeqProperties DEF Drop
<1>3. Len(Drop(s, n)) = IF n < Len(s) THEN Len(s) - n ELSE 0
  BY <1>1, <1>2
<1>4. \A i \in 1..(Len(s) - n) : Drop(s, n)[i] = s[n + i]
  <2>1. \A i \in 1..(Len(s) - n) : i \in 1..(Len(s) - (n + 1) + 1) /\ (n + 1) + i - 1 = n + i
    BY <1>1
  <2> QED BY <1>2, <2>1
<1>5. n = 0 => Drop(s, n) = s
  BY SubSeqFull DEF Drop
<1>6. n < Len(s) => Drop(s, n) # << >>
  BY <1>1, <1>3, EmptySeq
<1>7. n >= Len(s) => Drop(s, n) = << >>
  BY <1>1, SubSeqEmpty DEF Drop
<1> QED BY <1>2, <1>3, <1>4, <1>5, <1>6, <1>7

(* The same, by name.                                                      *)
Dropped(d, s, n, S) ==
  /\ d \in Seq(S) /\ Len(d) = IF n < Len(s) THEN Len(s) - n ELSE 0
  /\ \A i \in 1..(Len(s) - n) : d[i] = s[n + i]
LEMMA DropIs ==
  ASSUME NEW S, NEW s \in Seq(S), NEW n \in Nat
  PROVE  Dropped(Drop(s, n), s, n, S)
BY DropProperties DEF Dropped

LEMMA DropIsSeq ==
  ASSUME NEW S, NEW s \in Seq(S), NEW n \in Nat
  PROVE  Drop(s, n) \in Seq(S)
BY DropIs DEF Dropped
LEMMA DropLeaves ==
  ASSUME NEW S, NEW s \in Seq(S), NEW n \in Nat, n < Len(s)
  PROVE  Drop(s, n) # << >>
BY DropProperties
LEMMA DropAll ==
  ASSUME NEW S, NEW s \in Seq(S), NEW n \in Nat, n >= Len(s)
  PROVE  Drop(s, n) = << >>
BY DropProperties
LEMMA DropNone ==
  ASSUME NEW S, NEW s \in Seq(S)
  PROVE  Drop(s, 0) = s
BY DropProperties

LEMMA DropOfConcat ==
  ASSUME NEW S, NEW s \in Seq(S), NEW t \in Seq(S), NEW n \in Nat
  PROVE  Drop(s \o t, n) = Drop(s, n) \o Drop(t, IF Len(s) <= n THEN n - Len(s) ELSE 0)
<1> DEFINE m == IF Len(s) <= n THEN n - Len(s) ELSE 0
           a == Len(s)
           b == Len(t)
           l == Drop(s \o t, n)
           x == Drop(s, n)
           y == Drop(t, m)
           r == x \o y
<1>1. a \in Nat /\ b \in Nat /\ m \in Nat
  BY LenProperties
<1>2. s \o t \in Seq(S) /\ Len(s \o t) = a + b
      /\ \A i \in 1..(a + b) : (s \o t)[i] = IF i <= a THEN s[i] ELSE t[i - a]
  BY ConcatProperties
<1>3. /\ l \in Seq(S) /\ Len(l) = IF n < a + b THEN a + b - n ELSE 0
      /\ \A i \in 1..(a + b - n) : l[i] = (s \o t)[n + i]
  <2>1. Dropped(l, s \o t, n, S)
    BY <1>2, DropIs
  <2> QED BY <1>2, <2>1 DEF Dropped
<1>4. /\ x \in Seq(S) /\ Len(x) = IF n < a THEN a - n ELSE 0
      /\ \A i \in 1..(a - n) : x[i] = s[n + i]
  BY DropProperties
<1>5. /\ y \in Seq(S) /\ Len(y) = IF m < b THEN b - m ELSE 0
      /\ \A i \in 1..(b - m) : y[i] = t[m + i]
  <2>1. Dropped(y, t, m, S)
    <3> HIDE DEF m
    <3> QED BY <1>1, DropIs
  <2> QED BY <2>1 DEF Dropped
<1> HIDE DEF l, x, y
<1>6. /\ r \in Seq(S) /\ Len(r) = Len(x) + Len(y)
      /\ \A i \in 1..(Len(x) + Len(y)) : r[i] = IF i <= Len(x) THEN x[i] ELSE y[i - Len(x)]
  BY <1>4, <1>5, ConcatProperties
<1> HIDE DEF r
<1>7. Len(l) = Len(r)
  <2>1. CASE a <= n
    <3>1. m = n - a
      BY <2>1
    <3> HIDE DEF a, b, m
    <3> QED BY <1>1, <1>3, <1>4, <1>5, <1>6, <2>1, <3>1
  <2>2. CASE ~(a <= n)
    <3>1. m = 0
      BY <2>2
    <3> HIDE DEF a, b, m
    <3> QED BY <1>1, <1>3, <1>4, <1>5, <1>6, <2>2, <3>1
  <2> QED BY <2>1, <2>2
<1>8. ASSUME NEW i \in 1..Len(l) PROVE l[i] = r[i]
  <2>1. CASE a <= n
    <3>1. m = n - a
      BY <2>1
    <3> HIDE DEF a, b, m
    <3>2. i \in 1..(a + b - n) /\ n + i \in 1..(a + b) /\ ~(n + i <= a)
          /\ Len(x) = 0 /\ Len(y) = b - m /\ i \in 1..(b - m) /\ (n + i) - a = m + i
          /\ ~(i <= Len(x)) /\ i - Len(x) = i /\ i \in 1..(Len(x) + Len(y))
      BY <1>1, <1>3, <1>4, <1>5, <2>1, <3>1
    <3>3. l[i] = t[m + i]
      BY <1>2, <1>3, <3>2
    <3>4. r[i] = y[i]
      BY <1>6, <3>2
    <3> QED BY <1>5, <3>2, <3>3, <3>4
  <2>2. CASE ~(a <= n)
    <3>1. m = 0
      BY <2>2
    <3> HIDE DEF a, b, m
    <3>2. i \in 1..(a + b - n) /\ n + i \in 1..(a + b) /\ Len(x) = a - n /\ Len(y) = b
          /\ i \in 1..(Len(x) + Len(y))
      BY <1>1, <1>3, <1>4, <1>5, <2>2, <3>1
    <3>3. CASE n + i <= a
      <4>1. i \in 1..(a - n) /\ i <= Len(x)
        BY <1>1, <3>2, <3>3
      <4>2. l[i] = s[n + i] /\ r[i] = x[i]
        BY <1>2, <1>3, <1>6, <3>2, <3>3, <4>1
      <4> QED BY <1>4, <4>1, <4>2
    <3>4. CASE ~(n + i <= a)
      <4>1. i - Len(x) \in 1..(b - m) /\ ~(i <= Len(x)) /\ (n + i) - a = i - Len(x)
            /\ m + (i - Len(x)) = i - Len(x)
        BY <1>1, <3>1, <3>2, <3>4
      <4>2. l[i] = t[(n + i) - a] /\ r[i] = y[i - Len(x)]
        BY <1>2, <1>3, <1>6, <3>2, <3>4, <4>1
      <4>3. y[i - Len(x)] = t[m + (i - Len(x))]
        BY <1>5, <4>1
      <4> QED BY <4>1, <4>2, <4>3
    <3> QED BY <3>3, <3>4
  <2> QED BY <2>1, <2>2
<1>9. l = r
  BY <1>3, <1>6, <1>7, <1>8, SeqEqual
<1> QED BY <1>9 DEF l, r, x, y, m

LEMMA TakeAndDrop ==
  ASSUME NEW S, NEW s \in Seq(S), NEW n \in 0..Len(s)
  PROVE  /\ SubSeq(s, 1, n) \in Seq(S) /\ Len(SubSeq(s, 1, n)) = n
         /\ \A i \in 1..n : SubSeq(s, 1, n)[i] = s[i]
         /\ SubSeq(s, 1, n) \o Drop(s, n) = s
<1>1. Len(s) \in Nat /\ n \in Nat /\ n <= Len(s)
  BY LenProperties
<1>2. /\ 1 \in 1..(Len(s) + 1) /\ n \in (1 - 1)..Len(s) /\ Len(s) \in n..Len(s)
      /\ \A i \in 1..n : i \in 1..Len(s)
  BY <1>1
<1>3. SubSeq(s, 1, n) \o Drop(s, n) = SubSeq(s, 1, Len(s))
  BY <1>2, ConcatAdjacentSubSeq DEF Drop
<1>4. SubSeq(s, 1, Len(s)) = s
  BY SubSeqFull
<1>5. /\ SubSeq(s, 1, n) \in Seq(S) /\ Len(SubSeq(s, 1, n)) = IF 1 <= n THEN n - 1 + 1 ELSE 0
      /\ \A i \in 1..(n - 1 + 1) : SubSeq(s, 1, n)[i] = s[1 + i - 1]
  <2>1. 1 \in Int /\ n \in Int /\ \A i \in 1..n : s[i] \in S
    BY <1>1, <1>2, ElementOfSeq
  <2> QED BY <2>1, SubSeqProperties
<1>6. Len(SubSeq(s, 1, n)) = n
  BY <1>1, <1>5
<1>7. \A i \in 1..n : SubSeq(s, 1, n)[i] = s[i]
  <2>1. \A i \in 1..n : i \in 1..(n - 1 + 1) /\ 1 + i - 1 = i
    BY <1>1
  <2> QED BY <1>5, <2>1
<1> QED BY <1>3, <1>4, <1>5, <1>6, <1>7

(* What holds of << >> and of whatever is appended to a sequence of which  *)
(* it holds is true of all.                                                *)
LEMMA FromEmptyOn ==
  ASSUME NEW S, NEW T \in SUBSET Seq(S), << >> \in T,
         \A s \in T, e \in S : Append(s, e) \in T
  PROVE  T = Seq(S)
<1> DEFINE N == {n \in Nat : \A s \in Seq(S) : Len(s) = n => s \in T}
<1>1. 0 \in N
  BY EmptySeq
<1>2. ASSUME NEW n \in N PROVE n + 1 \in N
  <2> SUFFICES ASSUME NEW s \in Seq(S), Len(s) = n + 1 PROVE s \in T
    OBVIOUS
  <2>1. n \in Nat /\ s # << >>
    BY EmptySeq
  <2>2. PICK t \in Seq(S), e \in S : s = Append(t, e)
    BY <2>1, SequenceEmptyOrAppend
  <2>3. Len(t) = n
    BY <2>1, <2>2, AppendProperties, LenProperties
  <2> QED BY <2>1, <2>2, <2>3
<1> HIDE DEF N
<1>3. N = Nat
  <2>1. N \in SUBSET Nat
    BY DEF N
  <2> QED BY <1>1, <1>2, <2>1, FromZeroOn
<1> QED BY <1>3, LenProperties DEF N

(* Flat is recursive over the elements; these are the functions it may be. *)
JoinsIn(q, n, S) == { f \in [1..n -> Seq(S)] :
                        \A i \in 1..n : f[i] = IF i = 1 THEN q[i] ELSE f[i - 1] \o q[i] }

LEMMA JoinsThere ==
  ASSUME NEW S, NEW q \in Seq(Seq(S))
  PROVE  JoinsIn(q, Len(q), S) # {}
<1> DEFINE T == {n \in Nat : n <= Len(q) => JoinsIn(q, n, S) # {}}
<1>1. 0 \in T
  <2> DEFINE f == [i \in 1..0 |-> << >>]
  <2>1. f \in JoinsIn(q, 0, S)
    BY DEF JoinsIn
  <2> QED BY <2>1
<1>2. ASSUME NEW n \in T PROVE n + 1 \in T
  <2>1. n \in Nat
    OBVIOUS
  <2> SUFFICES ASSUME n + 1 <= Len(q) PROVE JoinsIn(q, n + 1, S) # {}
    BY <2>1
  <2>2. n <= Len(q) /\ n + 1 \in 1..Len(q) /\ Len(q) \in Nat
    BY <2>1, LenProperties
  <2>3. PICK f \in JoinsIn(q, n, S) : TRUE
    BY <2>2
  <2>4. q[n + 1] \in Seq(S)
    BY <2>2, ElementOfSeq
  <2> DEFINE l == IF n = 0 THEN q[1] ELSE f[n] \o q[n + 1]
             g == [i \in 1..(n + 1) |-> IF i = n + 1 THEN l ELSE f[i]]
  <2>5. l \in Seq(S)
    <3>1. n # 0 => f[n] \in Seq(S)
      BY <2>1, <2>3 DEF JoinsIn
    <3> QED BY <2>4, <3>1, ConcatProperties
  <2>6. \A i \in 1..n : f[i] \in Seq(S) /\ f[i] = IF i = 1 THEN q[i] ELSE f[i - 1] \o q[i]
    BY <2>3 DEF JoinsIn
  <2>7. \A i \in 1..(n + 1) : i = n + 1 \/ i \in 1..n
    BY <2>1
  <2>8. g \in [1..(n + 1) -> Seq(S)]
    BY <2>5, <2>6, <2>7
  <2>9. \A i \in 1..(n + 1) : g[i] = IF i = 1 THEN q[i] ELSE g[i - 1] \o q[i]
    <3> SUFFICES ASSUME NEW i \in 1..(n + 1) PROVE g[i] = IF i = 1 THEN q[i] ELSE g[i - 1] \o q[i]
      OBVIOUS
    <3>1. CASE i = n + 1
      <4>1. g[i] = l /\ (i = 1 <=> n = 0) /\ i - 1 = n
        BY <2>1, <3>1
      <4>2. n # 0 => n \in 1..(n + 1) /\ n # n + 1 /\ g[n] = f[n]
        BY <2>1
      <4> HIDE DEF g
      <4> QED BY <4>1, <4>2, <3>1
    <3>2. CASE i # n + 1
      <4>1. i \in 1..n /\ g[i] = f[i]
        BY <2>7, <3>2
      <4>2. i # 1 => i - 1 \in 1..n /\ i - 1 \in 1..(n + 1) /\ i - 1 # n + 1
        BY <2>1, <4>1
      <4>3. i # 1 => g[i - 1] = f[i - 1]
        BY <4>2
      <4> HIDE DEF g
      <4> QED BY <2>6, <4>1, <4>3
    <3> QED BY <3>1, <3>2
  <2>10. g \in JoinsIn(q, n + 1, S)
    <3> HIDE DEF g
    <3> QED BY <2>8, <2>9 DEF JoinsIn
  <2> QED BY <2>10
<1> HIDE DEF T
<1>3. T = Nat
  <2>1. T \in SUBSET Nat
    BY DEF T
  <2> QED BY <1>1, <1>2, <2>1, FromZeroOn
<1>4. Len(q) \in Nat
  BY LenProperties
<1> QED BY <1>3, <1>4 DEF T

LEMMA FlatIsJoined ==
  ASSUME NEW S, NEW q \in Seq(Seq(S)), q # << >>
  PROVE  \E f \in JoinsIn(q, Len(q), S) : Flat(q) = f[Len(q)]
<1> DEFINE n == Len(q)
           J(i, f) == IF i = 1 THEN q[i] ELSE f[i - 1] \o q[i]
           c == CHOOSE f : f = [i \in 1..n |-> J(i, f)]
<1>1. n \in Nat \ {0}
  BY EmptySeq
<1>2. Flat(q) = c[n]
  BY <1>1 DEF Flat, FlattenSeq
<1>3. PICK f \in JoinsIn(q, n, S) : TRUE
  BY JoinsThere
<1>4. f = [i \in 1..n |-> J(i, f)]
  BY <1>3 DEF JoinsIn
<1>5. c = [i \in 1..n |-> J(i, c)]
  <2> HIDE DEF J
  <2> QED BY <1>4
<1>6. c \in JoinsIn(q, n, S)
  <2> HIDE DEF c
  <2>1. \A i \in 1..n : c[i] = IF i = 1 THEN q[i] ELSE c[i - 1] \o q[i]
    BY <1>5
  <2> DEFINE T == {m \in Nat : m \in 1..n => c[m] \in Seq(S)}
  <2>2. 0 \in T
    OBVIOUS
  <2>3. ASSUME NEW m \in T PROVE m + 1 \in T
    <3>1. m \in Nat
      OBVIOUS
    <3> SUFFICES ASSUME m + 1 \in 1..n PROVE c[m + 1] \in Seq(S)
      BY <3>1
    <3>2. q[m + 1] \in Seq(S)
      BY ElementOfSeq
    <3>3. CASE m = 0
      BY <2>1, <3>2, <3>3
    <3>4. CASE m # 0
      <4>1. m \in 1..n /\ (m + 1) - 1 = m /\ m + 1 # 1
        BY <1>1, <3>1, <3>4
      <4>2. c[m] \in Seq(S) /\ c[m + 1] = c[m] \o q[m + 1]
        BY <2>1, <4>1
      <4> QED BY <3>2, <4>2, ConcatProperties
    <3> QED BY <3>3, <3>4
  <2> HIDE DEF T
  <2>4. T = Nat
    <3>1. T \in SUBSET Nat
      BY DEF T
    <3> QED BY <2>2, <2>3, <3>1, FromZeroOn
  <2>5. \A m \in 1..n : c[m] \in Seq(S)
    <3>1. \A m \in 1..n : m \in T
      BY <1>1, <2>4
    <3> QED BY <3>1 DEF T
  <2>6. c = [i \in 1..n |-> J(i, c)]
    BY <1>5
  <2>7. c \in [1..n -> Seq(S)]
    <3> HIDE DEF J
    <3> QED BY <2>5, <2>6
  <2> QED BY <2>1, <2>7 DEF JoinsIn
<1> QED BY <1>2, <1>6

LEMMA JoinsAgree ==
  ASSUME NEW S, NEW q \in Seq(Seq(S)), NEW r \in Seq(Seq(S)), NEW n \in Nat, NEW k \in Nat, n <= k,
         NEW f \in JoinsIn(q, n, S), NEW g \in JoinsIn(r, k, S), \A i \in 1..n : q[i] = r[i]
  PROVE  \A i \in 1..n : f[i] = g[i]
<1> DEFINE T == {m \in Nat : m \in 1..n => f[m] = g[m]}
<1>1. 0 \in T
  OBVIOUS
<1>2. ASSUME NEW m \in T PROVE m + 1 \in T
  <2>1. m \in Nat
    OBVIOUS
  <2> SUFFICES ASSUME m + 1 \in 1..n PROVE f[m + 1] = g[m + 1]
    BY <2>1
  <2>2. m + 1 \in 1..k /\ (m + 1) - 1 = m /\ (m # 0 => m \in 1..n)
    BY <2>1
  <2>3. f[m + 1] = IF m + 1 = 1 THEN q[m + 1] ELSE f[m] \o q[m + 1]
    BY <2>2 DEF JoinsIn
  <2>4. g[m + 1] = IF m + 1 = 1 THEN r[m + 1] ELSE g[m] \o r[m + 1]
    BY <2>2 DEF JoinsIn
  <2> QED BY <2>1, <2>2, <2>3, <2>4
<1> HIDE DEF T
<1>3. T = Nat
  <2>1. T \in SUBSET Nat
    BY DEF T
  <2> QED BY <1>1, <1>2, <2>1, FromZeroOn
<1>4. \A i \in 1..n : i \in T
  BY <1>3
<1> QED BY <1>4 DEF T

LEMMA FlatOfNone == Flat(<< >>) = << >>
BY EmptySeq DEF Flat, FlattenSeq

LEMMA FlatOfAppend ==
  ASSUME NEW S, NEW q \in Seq(Seq(S)), NEW e \in Seq(S)
  PROVE  Flat(Append(q, e)) = Flat(q) \o e
<1> DEFINE r == Append(q, e)
           n == Len(q)
<1>1. /\ n \in Nat /\ r \in Seq(Seq(S)) /\ r # << >> /\ Len(r) = n + 1
      /\ r[n + 1] = e /\ \A i \in 1..n : r[i] = q[i]
  BY LenProperties, AppendProperties
<1>2. PICK g \in JoinsIn(r, n + 1, S) : Flat(r) = g[n + 1]
  BY <1>1, FlatIsJoined
<1>3. g[n + 1] = IF n + 1 = 1 THEN e ELSE g[n] \o e
  <2>1. n + 1 \in 1..(n + 1) /\ (n + 1) - 1 = n
    BY <1>1
  <2>2. g[n + 1] = IF n + 1 = 1 THEN r[n + 1] ELSE g[(n + 1) - 1] \o r[n + 1]
    BY <1>2, <2>1 DEF JoinsIn
  <2> QED BY <1>1, <2>1, <2>2
<1>4. CASE q = << >>
  BY <1>1, <1>2, <1>3, <1>4, FlatOfNone, EmptySeq, ConcatEmptySeq
<1>5. CASE q # << >>
  <2>1. PICK f \in JoinsIn(q, n, S) : Flat(q) = f[n]
    BY <1>5, FlatIsJoined
  <2>2. n # 0 /\ n \in 1..n
    BY <1>1, <1>5, EmptySeq
  <2>3. f[n] = g[n]
    <3> DEFINE k == n + 1
    <3>1. /\ k \in Nat /\ n <= k /\ g \in JoinsIn(r, k, S) /\ f \in JoinsIn(q, n, S)
          /\ \A i \in 1..n : q[i] = r[i]
      BY <1>1, <1>2, <2>1
    <3> HIDE DEF r, n, k
    <3>2. \A i \in 1..n : f[i] = g[i]
      BY <1>1, <3>1, JoinsAgree
    <3> QED BY <2>2, <3>2
  <2> QED BY <1>1, <1>2, <1>3, <2>1, <2>2, <2>3
<1> QED BY <1>4, <1>5

LEMMA FlatIsSeq ==
  ASSUME NEW S, NEW q \in Seq(Seq(S))
  PROVE  Flat(q) \in Seq(S)
<1>1. CASE q = << >>
  BY <1>1, FlatOfNone, EmptySeq
<1>2. CASE q # << >>
  <2>1. PICK f \in JoinsIn(q, Len(q), S) : Flat(q) = f[Len(q)]
    BY <1>2, FlatIsJoined
  <2>2. Len(q) \in 1..Len(q)
    BY <1>2, EmptySeq
  <2> QED BY <2>1, <2>2 DEF JoinsIn
<1> QED BY <1>1, <1>2

LEMMA FlatOfConcat ==
  ASSUME NEW S, NEW p \in Seq(Seq(S)), NEW q \in Seq(Seq(S))
  PROVE  Flat(p \o q) = Flat(p) \o Flat(q)
<1> DEFINE T == {r \in Seq(Seq(S)) : Flat(p \o r) = Flat(p) \o Flat(r)}
<1>1. << >> \in T
  <2>1. p \o << >> = p /\ Flat(p) \o << >> = Flat(p)
    BY FlatIsSeq, ConcatEmptySeq
  <2> QED BY <2>1, FlatOfNone, EmptySeq
<1>2. ASSUME NEW r \in T, NEW e \in Seq(S) PROVE Append(r, e) \in T
  <2>1. r \in Seq(Seq(S)) /\ Append(r, e) \in Seq(Seq(S)) /\ p \o r \in Seq(Seq(S))
    BY AppendProperties, ConcatProperties
  <2>2. p \o Append(r, e) = Append(p \o r, e)
    <3>1. <<e>> \in Seq(Seq(S))
      OBVIOUS
    <3>2. Append(r, e) = r \o <<e>> /\ Append(p \o r, e) = (p \o r) \o <<e>>
      BY <2>1, AppendIsConcat
    <3> QED BY <2>1, <3>1, <3>2, ConcatAssociative
  <2>3. Flat(p \o Append(r, e)) = Flat(p \o r) \o e
    BY <2>1, <2>2, FlatOfAppend
  <2>4. Flat(p) \o Flat(Append(r, e)) = Flat(p) \o (Flat(r) \o e)
    <3>1. Flat(Append(r, e)) = Flat(r) \o e
      BY <2>1, FlatOfAppend
    <3> QED BY <3>1
  <2>5. Flat(p) \o (Flat(r) \o e) = (Flat(p) \o Flat(r)) \o e
    <3>1. Flat(p) \in Seq(S) /\ Flat(r) \in Seq(S)
      BY <2>1, FlatIsSeq
    <3> QED BY <3>1, ConcatAssociative
  <2> QED BY <2>1, <2>3, <2>4, <2>5
<1> HIDE DEF T
<1>3. T = Seq(Seq(S))
  <2>1. T \in SUBSET Seq(Seq(S))
    BY DEF T
  <2> QED BY <1>1, <1>2, <2>1, FromEmptyOn
<1> QED BY <1>3 DEF T

LEMMA FlatOfOne ==
  ASSUME NEW S, NEW e \in Seq(S)
  PROVE  Flat(<<e>>) = e
<1>1. <<e>> = Append(<< >>, e) /\ << >> \in Seq(Seq(S))
  OBVIOUS
<1>2. Flat(Append(<< >>, e)) = Flat(<< >>) \o e
  BY <1>1, FlatOfAppend
<1>3. << >> \o e = e
  BY ConcatEmptySeq
<1> QED BY <1>1, <1>2, <1>3, FlatOfNone

(* The elements of a queue, and the loop of Cut over them.                 *)
Full(S) == Seq(S) \ {<< >>}
States(S) == [left : Nat, q : Seq(Full(S))]
CutBy(a, e) == IF a.left >= Len(e) THEN [a EXCEPT !.left = @ - Len(e)]
               ELSE [left |-> 0, q |-> Append(a.q, SubSeq(e, a.left + 1, Len(e)))]
(* n bytes of F are cut off, as far as F goes.                             *)
IsCut(a, F, n) == /\ a.left = IF Len(F) <= n THEN n - Len(F) ELSE 0
                  /\ Flat(a.q) = Drop(F, n)

LEMMA CutByType ==
  ASSUME NEW S, NEW a \in States(S), NEW e \in Full(S)
  PROVE  CutBy(a, e) \in States(S)
<1>1. a.left \in Nat /\ a.q \in Seq(Full(S)) /\ e \in Seq(S) /\ Len(e) \in Nat \ {0}
  BY EmptySeq DEF States, Full
<1>2. CASE a.left >= Len(e)
  <2>1. a.left - Len(e) \in Nat
    BY <1>1, <1>2
  <2> QED BY <1>2, <2>1 DEF CutBy, States
<1>3. CASE ~(a.left >= Len(e))
  <2>1. Drop(e, a.left) \in Full(S)
    <3>1. PICK d \in Nat : d = a.left
      BY <1>1
    <3>2. e \in Seq(S) /\ d < Len(e)
      BY <1>1, <1>3, <3>1
    <3>3. Drop(e, d) \in Seq(S)
      BY <3>2, DropIsSeq
    <3>4. Drop(e, d) # << >>
      BY <3>2, DropLeaves
    <3> QED BY <3>1, <3>3, <3>4 DEF Full
  <2>2. Append(a.q, Drop(e, a.left)) \in Seq(Full(S))
    BY <1>1, <2>1, AppendProperties
  <2>3. CutBy(a, e) = [left |-> 0, q |-> Append(a.q, Drop(e, a.left))]
    BY <1>3 DEF CutBy, Drop
  <2> QED BY <2>2, <2>3 DEF States
<1> QED BY <1>2, <1>3

LEMMA CutByCuts ==
  ASSUME NEW S, NEW a \in States(S), NEW e \in Full(S), NEW F \in Seq(S), NEW n \in Nat,
         IsCut(a, F, n)
  PROVE  IsCut(CutBy(a, e), F \o e, n)
<1> DEFINE f == Len(F)
           l == Len(e)
           d == a.left
           b == CutBy(a, e)
<1>1. d \in Nat /\ a.q \in Seq(Full(S)) /\ e \in Seq(S) /\ l \in Nat \ {0} /\ f \in Nat
  BY EmptySeq, LenProperties DEF States, Full
<1>2. d = (IF f <= n THEN n - f ELSE 0) /\ Flat(a.q) = Drop(F, n)
  BY DEF IsCut
<1>3. Len(F \o e) = f + l /\ F \o e \in Seq(S)
  BY <1>1, ConcatProperties
<1>4. Drop(F \o e, n) = Drop(F, n) \o Drop(e, d)
  BY <1>1, <1>2, DropOfConcat
<1>5. a.q \in Seq(Seq(S))
  BY <1>1, SeqMonotonic DEF Full
<1>6. Drop(F, n) \in Seq(S)
  BY DropIsSeq
<1>7. CASE d >= l
  <2>1. b = [a EXCEPT !.left = d - l]
    BY <1>7 DEF CutBy
  <2>2. b.left = d - l /\ b.q = a.q
    <3> HIDE DEF b
    <3> QED BY <2>1 DEF States
  <2>3. Drop(e, d) = << >>
    BY <1>1, <1>7, DropAll
  <2>4. Drop(F \o e, n) = Drop(F, n)
    BY <1>4, <1>6, <2>3, ConcatEmptySeq
  <2>5. d - l = IF f + l <= n THEN n - (f + l) ELSE 0
    <3> HIDE DEF d, l, f
    <3> QED BY <1>1, <1>2, <1>7
  <2> QED BY <1>2, <1>3, <2>2, <2>4, <2>5 DEF IsCut
<1>8. CASE ~(d >= l)
  <2>1. b = [left |-> 0, q |-> Append(a.q, Drop(e, d))]
    BY <1>8 DEF CutBy, Drop
  <2>2. Drop(e, d) \in Seq(S)
    <3>1. e \in Seq(S) /\ d \in Nat
      BY <1>1
    <3> HIDE DEF d
    <3> QED BY <3>1, DropIsSeq
  <2>3. Flat(b.q) = Flat(a.q) \o Drop(e, d)
    <3>1. b.q = Append(a.q, Drop(e, d))
      <4> HIDE DEF b, d
      <4> QED BY <2>1
    <3> HIDE DEF b, d
    <3> QED BY <1>5, <2>2, <3>1, FlatOfAppend
  <2>4. 0 = IF f + l <= n THEN n - (f + l) ELSE 0
    <3> HIDE DEF d, l, f
    <3> QED BY <1>1, <1>2, <1>8
  <2> QED BY <1>2, <1>3, <1>4, <2>1, <2>3, <2>4 DEF IsCut
<1> QED BY <1>7, <1>8

LEMMA Prefix ==
  ASSUME NEW S, NEW q \in Seq(S), NEW m \in Nat, m + 1 \in 1..Len(q)
  PROVE  /\ SubSeq(q, 1, m) \in Seq(S) /\ q[m + 1] \in S
         /\ SubSeq(q, 1, m + 1) = Append(SubSeq(q, 1, m), q[m + 1])
<1>1. Len(q) \in Nat /\ m \in 0..Len(q) /\ 1 \in 1..Len(q) /\ m + 1 \in 1..Len(q)
  BY LenProperties
<1>2. SubSeq(q, 1, m) \in Seq(S) /\ q[m + 1] \in S
  BY <1>1, TakeAndDrop, ElementOfSeq
<1>3. SubSeq(q, 1, m + 1) = SubSeq(q, 1, m) \o <<q[m + 1]>>
  <2> DEFINE k == m + 1
  <2>1. k \in 1..Len(q) /\ k - 1 = m
    BY <1>1
  <2> HIDE DEF k
  <2>2. SubSeq(q, 1, k) = SubSeq(q, 1, k - 1) \o <<q[k]>>
    BY <1>1, <2>1, SubSeqRecursiveSecond
  <2> QED BY <2>1, <2>2 DEF k
<1> QED BY <1>2, <1>3, AppendIsConcat

(* Cut takes the first n bytes off, and leaves no empty element.           *)
LEMMA CutProperties ==
  ASSUME NEW S, NEW q \in Seq(Full(S)), NEW n \in Nat
  PROVE  Cut(q, n) \in Seq(Full(S)) /\ Flat(Cut(q, n)) = Drop(Flat(q), n)
<1> DEFINE z == Len(q)
           b == [left |-> n, q |-> << >>]
           A == States(S)
           Eq(h) == h = [T \in SUBSET DOMAIN q |->
                           IF T = {} THEN b ELSE LET x == Max(T) IN CutBy(h[T \ {x}], q[x])]
           g == CHOOSE h : Eq(h)
<1>1. Cut(q, n) = g[DOMAIN q].q
  BY DEF Cut, FoldLeft, MapThenFoldSet, CutBy
<1>2. z \in Nat /\ DOMAIN q = 1..z /\ \A i \in 1..z : q[i] \in Full(S)
  BY LenProperties, ElementOfSeq
<1>3. q \in Seq(Seq(S))
  BY SeqMonotonic DEF Full
<1>4. \A T \in SUBSET (1..z) : T # {} => Max(T) \in 1..z /\ T \ {Max(T)} \in SUBSET (1..z)
  BY <1>2, MaxThere
<1>5. b \in A
  BY EmptySeq DEF States
<1>6. \A a \in A, i \in 1..z : CutBy(a, q[i]) \in A
  BY <1>2, CutByType
<1> HIDE DEF A, b, z
<1>7. Eq(g)
  <2> DEFINE G == [x \in A \X (1..z) |-> CutBy(x[1], q[x[2]])]
  <2>1. G \in [A \X (1..z) -> A] /\ \A a \in A, i \in 1..z : G[<<a, i>>] = CutBy(a, q[i])
    BY <1>6
  <2> HIDE DEF G
  <2>2. PICK h \in [SUBSET (1..z) -> A] : \A T \in SUBSET (1..z) :
          h[T] = IF T = {} THEN b ELSE G[<<h[T \ {Max(T)}], Max(T)>>]
    <3>1. PICK h \in LoopsOf(A, b, z, G) : TRUE
      BY <1>2, <1>5, <2>1, LoopRuns
    <3> QED BY <3>1 DEF LoopsOf
  <2>3. \A T \in SUBSET (1..z) : h[T] = IF T = {} THEN b ELSE CutBy(h[T \ {Max(T)}], q[Max(T)])
    <3> SUFFICES ASSUME NEW T \in SUBSET (1..z), T # {}
                 PROVE  h[T] = CutBy(h[T \ {Max(T)}], q[Max(T)])
      BY <2>2
    <3>1. Max(T) \in 1..z /\ h[T \ {Max(T)}] \in A
      BY <1>4, <2>2
    <3>2. h[T] = G[<<h[T \ {Max(T)}], Max(T)>>]
      BY <2>2
    <3> QED BY <2>1, <3>1, <3>2
  <2>4. Eq(h)
    BY <1>2, <2>2, <2>3
  <2> QED BY <2>4
<1> HIDE DEF g
<1>8. \A T \in SUBSET (1..z) : g[T] = IF T = {} THEN b ELSE CutBy(g[T \ {Max(T)}], q[Max(T)])
  BY <1>2, <1>7
<1> DEFINE P(m) == /\ g[1..m] \in A /\ Flat(SubSeq(q, 1, m)) \in Seq(S)
                   /\ IsCut(g[1..m], Flat(SubSeq(q, 1, m)), n)
           N == {m \in Nat : m <= z => P(m)}
<1>9. 0 \in N
  <2>1. 1..0 = {} /\ SubSeq(q, 1, 0) = << >>
    BY SubSeqEmpty
  <2>2. g[1..0] = b
    BY <1>8, <2>1
  <2>3. Drop(<< >>, n) = << >> /\ Len(<< >>) = 0 /\ << >> \in Seq(S)
    <3>1. << >> \in Seq(S) /\ Len(<< >>) = 0
      BY EmptySeq
    <3>2. n >= Len(<< >>)
      BY <3>1
    <3> QED BY <3>1, <3>2, DropAll
  <2>4. IsCut(b, << >>, n)
    BY <2>3, FlatOfNone DEF IsCut, b
  <2>5. P(0)
    BY <1>5, <2>1, <2>2, <2>3, <2>4, FlatOfNone
  <2> HIDE DEF P
  <2> QED BY <2>5
<1>10. ASSUME NEW m \in N PROVE m + 1 \in N
  <2>1. m \in Nat /\ (m <= z => P(m))
    <3> HIDE DEF P
    <3> QED OBVIOUS
  <2> SUFFICES ASSUME m + 1 <= z PROVE P(m + 1)
    <3> HIDE DEF P
    <3> QED BY <2>1
  <2>2. m <= z /\ m + 1 \in 1..z
    BY <1>2, <2>1
  <2> DEFINE p == SubSeq(q, 1, m)
             F == Flat(p)
             e == q[m + 1]
  <2>3. g[1..m] \in A /\ F \in Seq(S) /\ IsCut(g[1..m], F, n)
    BY <2>1, <2>2
  <2>4. p \in Seq(Seq(S)) /\ e \in Seq(S) /\ SubSeq(q, 1, m + 1) = Append(p, e)
    BY <1>3, <2>1, <2>2, Prefix DEF z
  <2>5. Flat(SubSeq(q, 1, m + 1)) = F \o e
    <3> HIDE DEF p, e
    <3> QED BY <2>4, FlatOfAppend
  <2>6. g[1..(m + 1)] = CutBy(g[1..m], e)
    <3>1. Max(1..(m + 1)) = m + 1
      <4> DEFINE k == m + 1
                 K == 1..k
      <4>1. k \in Nat /\ K \in SUBSET (1..k) /\ k \in K
        BY <2>1
      <4> HIDE DEF k, K
      <4>2. Max(K) = k
        <5>1. \A x \in Nat : \A X \in SUBSET (1..x) : x \in X => Max(X) = x
          BY MaxIs
        <5> HIDE DEF N, P, F, e, p
        <5> QED BY <4>1, <5>1
      <4> QED BY <4>2 DEF k, K
    <3>2. 1..(m + 1) \in SUBSET (1..z) /\ 1..(m + 1) # {} /\ (1..(m + 1)) \ {m + 1} = 1..m
      <4>1. m + 1 \in Nat /\ m + 1 <= z /\ z \in Nat
        BY <1>2, <2>1, <2>2
      <4>2. \A x \in 1..(m + 1) : x \in 1..z
        BY <4>1
      <4>3. m + 1 \in 1..(m + 1)
        BY <2>1
      <4>4. (1..(m + 1)) \ {m + 1} = 1..m
        BY <2>1
      <4> QED BY <4>2, <4>3, <4>4
    <3>3. g[1..(m + 1)] = CutBy(g[(1..(m + 1)) \ {Max(1..(m + 1))}], q[Max(1..(m + 1))])
      BY <1>8, <3>2
    <3> QED BY <3>1, <3>2, <3>3
  <2>7. e \in Full(S)
    BY <1>2, <2>2
  <2>8. CutBy(g[1..m], e) \in A
    BY <1>6, <2>2, <2>3
  <2> HIDE DEF F, e
  <2>9. IsCut(CutBy(g[1..m], e), F \o e, n) /\ F \o e \in Seq(S)
    BY <2>3, <2>4, <2>7, CutByCuts, ConcatProperties DEF A
  <2> QED BY <2>5, <2>6, <2>8, <2>9
<1>11. P(z)
  <2> HIDE DEF P
  <2> DEFINE M == N
  <2>1. M \in SUBSET Nat /\ 0 \in M /\ \A m \in M : m + 1 \in M
    BY <1>9, <1>10
  <2> HIDE DEF M
  <2>2. M = Nat
    BY <2>1, FromZeroOn
  <2>3. z \in M
    BY <1>2, <2>2
  <2> QED BY <1>2, <2>3 DEF M
<1>12. SubSeq(q, 1, z) = q
  BY SubSeqFull DEF z
<1>13. g[1..z].q \in Seq(Full(S)) /\ Flat(g[1..z].q) = Drop(Flat(q), n)
  BY <1>11, <1>12 DEF IsCut, A, States
<1> QED BY <1>1, <1>2, <1>13

(* Elements takes a sequence apart, and leaves no empty part.              *)
LEMMA Buffers ==
  ASSUME NEW l \in Nat
  PROVE  /\ (l + Buf - 1) \div Buf \in Nat
         /\ ((l + Buf - 1) \div Buf) * Buf >= l
         /\ \A i \in 1..((l + Buf - 1) \div Buf) : (i - 1) * Buf < l
<1> DEFINE a == l + Buf - 1
           m == a \div Buf
<1>1. Buf \in Nat \ {0} /\ a \in Nat
  BY SizeAssumption
<1>2. m \in Nat /\ m * Buf <= a /\ a < m * Buf + Buf
  <2> HIDE DEF a
  <2>1. \A x \in Nat, y \in Nat \ {0} :
          x \div y \in Nat /\ (x \div y) * y <= x /\ x < (x \div y) * y + y
    OBVIOUS
  <2> QED BY <1>1, <2>1
<1>3. m * Buf \in Nat
  <2> HIDE DEF m
  <2> QED BY <1>1, <1>2
<1>4. m * Buf >= l
  <2> DEFINE p == m * Buf
  <2> HIDE DEF p, m
  <2> QED BY <1>1, <1>2, <1>3 DEF p
<1>5. ASSUME NEW i \in 1..m PROVE (i - 1) * Buf < l
  <2> HIDE DEF m
  <2>1. (i - 1) * Buf = i * Buf - Buf /\ i * Buf \in Nat
    BY <1>1, <1>2
  <2>2. i * Buf <= m * Buf
    BY <1>1, <1>2
  <2> DEFINE p == m * Buf
             j == i * Buf
  <2>3. p \in Nat /\ j \in Nat /\ j <= p /\ p <= a /\ (i - 1) * Buf = j - Buf
    BY <1>2, <1>3, <2>1, <2>2
  <2> HIDE DEF p, j
  <2> QED BY <1>1, <2>3
<1> QED BY <1>2, <1>4, <1>5

LEMMA ElementsProperties ==
  ASSUME NEW S, NEW s \in Seq(S)
  PROVE  Elements(s) \in Seq(Full(S)) /\ Flat(Elements(s)) = s
<1> DEFINE l == Len(s)
           z == (l + Buf - 1) \div Buf
           c(m) == Smaller(m * Buf, l)
           E == Elements(s)
<1>1. l \in Nat /\ Buf \in Nat \ {0}
  BY SizeAssumption, LenProperties
<1>2. z \in Nat /\ z * Buf >= l /\ \A i \in 1..z : (i - 1) * Buf < l
  BY <1>1, Buffers
<1>3. E = [i \in 1..z |-> SubSeq(s, (i - 1) * Buf + 1, c(i))]
  BY DEF Elements
<1> HIDE DEF l, z, E
<1>4. \A m \in Nat : /\ m * Buf \in Nat /\ (m + 1) * Buf = m * Buf + Buf /\ (m + 1) - 1 = m
                     /\ c(m) \in 0..l
  BY <1>1 DEF Smaller
<1>5. ASSUME NEW m \in Nat, m + 1 \in 1..z
      PROVE  /\ E[m + 1] \in Full(S) /\ E[m + 1] = SubSeq(s, c(m) + 1, c(m + 1))
             /\ c(m) <= c(m + 1)
  <2> DEFINE j == m * Buf
             k == c(m + 1)
  <2>1. j < l /\ (m + 1) * Buf = j + Buf
    <3>1. ((m + 1) - 1) * Buf < l
      BY <1>2, <1>5
    <3> QED BY <1>4, <3>1
  <2>2. k = Smaller(j + Buf, l)
    BY <2>1
  <2>3. j \in Nat
    BY <1>4
  <2>4. c(m) = j
    BY <2>1, <2>3, <1>1 DEF Smaller
  <2>5. E[m + 1] = SubSeq(s, j + 1, k)
    BY <1>3, <1>4, <1>5
  <2> HIDE DEF j
  <2>6. k \in (j + 1)..l
    BY <1>1, <2>1, <2>2, <2>3 DEF Smaller
  <2> HIDE DEF k
  <2>7. \A i \in (j + 1)..k : s[i] \in S
    <3>1. \A i \in (j + 1)..k : i \in 1..l
      BY <1>1, <2>3, <2>6
    <3> QED BY <3>1, ElementOfSeq DEF l
  <2>8. E[m + 1] \in Seq(S) /\ Len(E[m + 1]) = k - (j + 1) + 1
    <3>1. j + 1 \in Int /\ k \in Int /\ j + 1 <= k
      BY <1>1, <2>3, <2>6
    <3> QED BY <2>5, <2>7, <3>1, SubSeqProperties
  <2>9. E[m + 1] # << >>
    <3>1. Len(E[m + 1]) # 0
      BY <1>1, <2>3, <2>6, <2>8
    <3> QED BY <3>1, EmptySeq
  <2>10. j <= k
    BY <1>1, <2>3, <2>6
  <2> QED BY <2>4, <2>5, <2>8, <2>9, <2>10 DEF Full, k
<1>6. E \in Seq(Full(S)) /\ Len(E) = z
  <2>1. \A i \in 1..z : E[i] \in Full(S)
    <3> SUFFICES ASSUME NEW i \in 1..z PROVE E[i] \in Full(S)
      OBVIOUS
    <3>1. i - 1 \in Nat /\ (i - 1) + 1 = i
      BY <1>2
    <3> QED BY <1>5, <3>1
  <2> DEFINE e(i) == SubSeq(s, (i - 1) * Buf + 1, c(i))
  <2>2. E = [i \in 1..z |-> e(i)]
    BY <1>3
  <2> HIDE DEF e
  <2> QED BY <1>2, <2>1, <2>2
<1>7. E \in Seq(Seq(S))
  BY <1>6, SeqMonotonic DEF Full
<1> DEFINE P(m) == Flat(SubSeq(E, 1, m)) = SubSeq(s, 1, c(m))
           N == {m \in Nat : m <= z => P(m)}
<1>8. 0 \in N
  <2>1. c(0) = 0
    BY <1>1 DEF Smaller
  <2>2. SubSeq(E, 1, 0) = << >> /\ SubSeq(s, 1, 0) = << >>
    BY SubSeqEmpty
  <2>3. P(0)
    BY <2>1, <2>2, FlatOfNone
  <2> HIDE DEF P
  <2> QED BY <2>3
<1>9. ASSUME NEW m \in N PROVE m + 1 \in N
  <2>1. m \in Nat /\ (m <= z => P(m))
    <3> HIDE DEF P
    <3> QED OBVIOUS
  <2> SUFFICES ASSUME m + 1 <= z PROVE P(m + 1)
    <3> HIDE DEF P
    <3> QED BY <2>1
  <2>2. m <= z /\ m + 1 \in 1..z
    BY <1>2, <2>1
  <2> DEFINE p == SubSeq(E, 1, m)
             x == c(m)
             y == c(m + 1)
             r == SubSeq(s, x + 1, y)
  <2>3. p \in Seq(Seq(S)) /\ E[m + 1] \in Seq(S) /\ SubSeq(E, 1, m + 1) = Append(p, E[m + 1])
    BY <1>6, <1>7, <2>1, <2>2, Prefix
  <2>4. Flat(SubSeq(E, 1, m + 1)) = Flat(p) \o E[m + 1]
    <3> HIDE DEF p
    <3> QED BY <2>3, FlatOfAppend
  <2>5. E[m + 1] = r /\ x <= y
    BY <1>5, <2>1, <2>2
  <2>6. Flat(p) = SubSeq(s, 1, x)
    BY <2>1, <2>2
  <2>7. SubSeq(s, 1, x) \o r = SubSeq(s, 1, y)
    <3>1. m + 1 \in Nat
      BY <2>1
    <3>2. x \in 0..l /\ y \in 0..l
      BY <1>4, <2>1, <3>1
    <3> HIDE DEF x, y
    <3>3. 1 \in 1..(l + 1) /\ x \in (1 - 1)..l /\ y \in x..l
      BY <1>1, <2>5, <3>2
    <3> QED BY <3>3, ConcatAdjacentSubSeq DEF l
  <2> QED BY <2>4, <2>5, <2>6, <2>7
<1>10. P(z)
  <2> HIDE DEF P
  <2> DEFINE K == N
  <2>1. K \in SUBSET Nat /\ 0 \in K /\ \A m \in K : m + 1 \in K
    BY <1>8, <1>9
  <2> HIDE DEF K
  <2>2. z \in K
    BY <1>2, <2>1, FromZeroOn
  <2> QED BY <1>2, <2>2 DEF K
<1>11. c(z) = l /\ SubSeq(s, 1, l) = s
  BY <1>1, <1>2, SubSeqFull DEF Smaller, l
<1>12. SubSeq(E, 1, z) = E
  BY <1>6, SubSeqFull
<1> QED BY <1>6, <1>10, <1>11, <1>12 DEF E

-----------------------------------------------------------------------------
(* What the other end sends.                                               *)
LEMMA FrameProperties ==
  ASSUME NEW c \in Conns, NEW j \in 1..Len(Body[c])
  PROVE  /\ Frame(c, j) \in Full(Bytes) /\ Frame(c, j) \in Seq(Bytes) /\ Frame(c, j) \in Frames[c]
         /\ Len(Frame(c, j)) = Header + Body[c][j] /\ Header + Body[c][j] \in Nat \ {0}
         /\ Frame(c, j)[1] = <<c, j, 1>>
<1> DEFINE l == Header + Body[c][j]
           f == Frame(c, j)
<1>1. Body[c] \in Seq(Nat) /\ j \in DOMAIN Body[c]
  BY BodyAssumption DEF Conns
<1>2. Body[c][j] \in Nat
  BY <1>1, ElementOfSeq
<1>3. l \in Nat \ {0}
  BY <1>2, SizeAssumption
<1>4. f = [k \in 1..l |-> <<c, j, k>>]
  BY DEF Frame
<1>5. f \in Frames[c]
  BY <1>1 DEF Frames
<1> HIDE DEF l, f
<1>6. DOMAIN f = 1..l
  BY <1>4
<1>7. ASSUME NEW k \in 1..l PROVE f[k] \in Bytes
  <2>1. f[k] \in Range(f)
    BY <1>6 DEF Range
  <2>2. c \in DOMAIN Frames
    BY DEF Frames
  <2>3. Frames[c] \in Range(Frames)
    BY <2>2 DEF Range
  <2>4. f \in UNION Range(Frames)
    BY <1>5, <2>3
  <2> QED BY <2>1, <2>4 DEF Bytes
<1>8. f \in Seq(Bytes) /\ Len(f) = l
  <2>1. f \in [1..l -> Bytes]
    <3>1. f = [k \in 1..l |-> f[k]]
      BY <1>4
    <3> QED BY <1>7, <3>1
  <2>2. l \in Nat
    BY <1>3
  <2>3. f \in Seq(Bytes)
    BY <2>1, <2>2, SeqDef
  <2> QED BY <1>6, <2>2, <2>3, LenProperties
<1>9. f # << >>
  BY <1>3, <1>8, EmptySeq
<1>10. f[1] = <<c, j, 1>>
  <2>1. 1 \in 1..l
    BY <1>3
  <2> QED BY <1>4, <2>1
<1> QED BY <1>3, <1>5, <1>8, <1>9, <1>10 DEF Full, f, l

(* The messages after the j-th, up to the k-th, and their bytes.           *)
Sent(c, j, k)   == [i \in 1..(k - j) |-> Frame(c, j + i)]
Stream(c, j, k) == Flat(Sent(c, j, k))

LEMMA SentIsSeq ==
  ASSUME NEW c \in Conns, NEW k \in 0..Len(Body[c]), NEW j \in 0..k
  PROVE  /\ Sent(c, j, k) \in Seq(Seq(Bytes)) /\ Len(Sent(c, j, k)) = k - j
         /\ \A i \in 1..(k - j) : Sent(c, j, k)[i] = Frame(c, j + i)
<1> DEFINE s == Sent(c, j, k)
           n == k - j
           e(i) == Frame(c, j + i)
<1>1. Len(Body[c]) \in Nat
  <2>1. Body[c] \in Seq(Nat)
    BY BodyAssumption DEF Conns
  <2> QED BY <2>1, LenProperties
<1>2. n \in Nat /\ \A i \in 1..n : j + i \in 1..Len(Body[c])
  BY <1>1
<1>3. \A i \in 1..n : e(i) \in Seq(Bytes)
  BY <1>2, FrameProperties
<1>4. s = [i \in 1..n |-> e(i)]
  BY DEF Sent
<1> HIDE DEF e, n, s
<1>5. s \in Seq(Seq(Bytes)) /\ Len(s) = n /\ \A i \in 1..n : s[i] = e(i)
  BY <1>2, <1>3, <1>4
<1> QED BY <1>5 DEF s, n, e

LEMMA StreamProperties ==
  ASSUME NEW c \in Conns, NEW k \in 0..Len(Body[c]), NEW j \in 0..k
  PROVE  /\ Stream(c, j, k) \in Seq(Bytes)
         /\ j = k => Stream(c, j, k) = << >>
         /\ k < Len(Body[c]) => Stream(c, j, k + 1) = Stream(c, j, k) \o Frame(c, k + 1)
         /\ j < k => Stream(c, j, k) = Frame(c, j + 1) \o Stream(c, j + 1, k)
<1> DEFINE n == Len(Body[c])
           s == Sent(c, j, k)
<1>1. n \in Nat /\ k \in Nat /\ j \in Nat /\ j <= k /\ k <= n
  <2>1. Body[c] \in Seq(Nat)
    BY BodyAssumption DEF Conns
  <2> QED BY <2>1, LenProperties
<1>2. s \in Seq(Seq(Bytes)) /\ Len(s) = k - j /\ \A i \in 1..(k - j) : s[i] = Frame(c, j + i)
  BY SentIsSeq
<1>3. Stream(c, j, k) \in Seq(Bytes)
  BY <1>2, FlatIsSeq DEF Stream
<1>4. ASSUME j = k PROVE Stream(c, j, k) = << >>
  <2>1. Len(s) = 0
    BY <1>1, <1>2, <1>4
  <2>2. s = << >>
    <3> HIDE DEF s
    <3> QED BY <1>2, <2>1, EmptySeq
  <2> QED BY <2>2, FlatOfNone DEF Stream
<1>5. ASSUME k < n PROVE Stream(c, j, k + 1) = Stream(c, j, k) \o Frame(c, k + 1)
  <2> DEFINE l == k + 1
             t == Sent(c, j, l)
             e == Frame(c, l)
  <2>1. l \in 0..n /\ l \in 1..n /\ j \in 0..l
    BY <1>1, <1>5
  <2>2. e \in Seq(Bytes)
    <3> HIDE DEF l
    <3> QED BY <2>1, FrameProperties
  <2>3. t \in Seq(Seq(Bytes)) /\ Len(t) = l - j /\ \A i \in 1..(l - j) : t[i] = Frame(c, j + i)
    <3> HIDE DEF l
    <3> QED BY <2>1, SentIsSeq
  <2>4. /\ Append(s, e) \in Seq(Seq(Bytes)) /\ Len(Append(s, e)) = Len(s) + 1
        /\ \A i \in 1..Len(s) : Append(s, e)[i] = s[i]
        /\ Append(s, e)[Len(s) + 1] = e
    <3> HIDE DEF s, e
    <3> QED BY <1>2, <2>2, AppendProperties
  <2>5. t = Append(s, e)
    <3> HIDE DEF t, s
    <3>1. Len(t) = Len(Append(s, e))
      <4> HIDE DEF e
      <4> QED BY <1>1, <1>2, <2>3, <2>4
    <3>2. ASSUME NEW i \in 1..Len(t) PROVE t[i] = Append(s, e)[i]
      <4>1. i \in 1..(l - j) /\ t[i] = Frame(c, j + i)
        BY <2>3
      <4>2. CASE i = Len(s) + 1
        <5>1. j + i = l
          BY <1>1, <1>2, <4>2
        <5> QED BY <2>4, <4>1, <4>2, <5>1
      <4>3. CASE i # Len(s) + 1
        <5>1. i \in 1..(k - j) /\ i \in 1..Len(s)
          BY <1>1, <1>2, <4>1, <4>3
        <5> HIDE DEF e
        <5> QED BY <1>2, <2>4, <4>1, <5>1
      <4> QED BY <4>2, <4>3
    <3> HIDE DEF e
    <3> QED BY <2>3, <2>4, <3>1, <3>2, SeqEqual
  <2>6. Flat(Append(s, e)) = Flat(s) \o e
    <3> HIDE DEF s, e
    <3> QED BY <1>2, <2>2, FlatOfAppend
  <2> QED BY <2>5, <2>6 DEF Stream
<1>6. ASSUME j < k PROVE Stream(c, j, k) = Frame(c, j + 1) \o Stream(c, j + 1, k)
  <2> DEFINE l == j + 1
             t == Sent(c, l, k)
             e == Frame(c, l)
             r == <<e>> \o t
  <2>1. l \in 0..k /\ l \in 1..n
    BY <1>1, <1>6
  <2>2. e \in Seq(Bytes)
    <3> HIDE DEF l
    <3> QED BY <2>1, FrameProperties
  <2>3. t \in Seq(Seq(Bytes)) /\ Len(t) = k - l /\ \A i \in 1..(k - l) : t[i] = Frame(c, l + i)
    <3> HIDE DEF l
    <3> QED BY <2>1, SentIsSeq
  <2>4. <<e>> \in Seq(Seq(Bytes)) /\ Len(<<e>>) = 1 /\ <<e>>[1] = e
    <3> HIDE DEF e
    <3> QED BY <2>2
  <2>5. /\ r \in Seq(Seq(Bytes)) /\ Len(r) = 1 + Len(t)
        /\ \A i \in 1..(1 + Len(t)) : r[i] = IF i <= 1 THEN e ELSE t[i - 1]
    <3> DEFINE o == <<e>>
    <3> HIDE DEF t, e, o
    <3>1. /\ o \o t \in Seq(Seq(Bytes)) /\ Len(o \o t) = Len(o) + Len(t)
          /\ \A i \in 1..(Len(o) + Len(t)) : (o \o t)[i] = IF i <= Len(o) THEN o[i] ELSE t[i - Len(o)]
      BY <2>3, <2>4, ConcatProperties DEF o
    <3>2. \A i \in 1..(1 + Len(t)) : i <= 1 => i = 1
      OBVIOUS
    <3> QED BY <2>4, <3>1, <3>2 DEF o
  <2>6. s = r
    <3> HIDE DEF t, s, r
    <3>1. Len(s) = Len(r)
      <4> HIDE DEF e
      <4> QED BY <1>1, <1>2, <2>3, <2>5
    <3>2. ASSUME NEW i \in 1..Len(s) PROVE s[i] = r[i]
      <4>1. i \in 1..(k - j) /\ s[i] = Frame(c, j + i)
        BY <1>2
      <4>2. i \in 1..(1 + Len(t)) /\ r[i] = IF i <= 1 THEN e ELSE t[i - 1]
        BY <1>2, <2>5, <3>1
      <4>3. CASE i = 1
        BY <4>1, <4>2, <4>3
      <4>4. CASE i # 1
        <5>1. ~(i <= 1) /\ i - 1 \in 1..(k - l) /\ l + (i - 1) = j + i
          BY <1>1, <4>1, <4>4
        <5>2. t[i - 1] = Frame(c, l + (i - 1))
          BY <2>3, <5>1
        <5> QED BY <4>1, <4>2, <5>1, <5>2
      <4> QED BY <4>3, <4>4
    <3> HIDE DEF e
    <3> QED BY <1>2, <2>5, <3>1, <3>2, SeqEqual
  <2>7. Flat(r) = e \o Flat(t)
    <3> HIDE DEF t, e
    <3>1. Flat(<<e>>) = e
      BY <2>2, FlatOfOne
    <3>2. Flat(<<e>> \o t) = Flat(<<e>>) \o Flat(t)
      BY <2>3, <2>4, FlatOfConcat
    <3> QED BY <3>1, <3>2
  <2> QED BY <2>6, <2>7 DEF Stream
<1> QED BY <1>3, <1>4, <1>5, <1>6

-----------------------------------------------------------------------------
(* What the streams rest on, besides the tables.  The listening socket     *)
(* stays where it is, and is the only one under descriptor 1;              *)
MotherStays == fd[Mother] = 1 /\ id[Mother] = 0 /\ qTX[Mother] = << >> /\ busy # Mother
(* an id is left for the connection that waits at it,                      *)
Numbered == /\ newid \in 1..MaxConns + 1 /\ nMax \in Fds
            /\ backlog \in 0..1 /\ (backlog = 1 => newid <= MaxConns)
(* which still does when Wait comes to it;                                 *)
OneWaits ==
  /\ wait.nTable \in Seq(Fds) /\ wait.i \in Nat
  /\ \A i, j \in DOMAIN wait.nTable : wait.nTable[i] = wait.nTable[j] => i = j
  /\ at = "input" /\ wait.hook = Mother =>
       backlog = 1 /\ wait.i \in DOMAIN wait.nTable /\ wait.nTable[wait.i] = 1
  /\ 1 \in wait.read /\ (\E k \in DOMAIN wait.nTable : k > wait.i /\ wait.nTable[k] = 1) => backlog = 1
(* there is something to serve as long as Wait is running.                 *)
Serving ==
  /\ at \in {"out", "input", "flush", "next"}
  /\ at = "out" => wait = NoWait
  /\ at # "out" => wait.read \cup wait.write # {}

WInv == MotherStays /\ Numbered /\ OneWaits /\ Serving

(* The data: the elements are not empty, nothing is kept of who is down,   *)
(* and what is not handled begins with a whole message and ends with the   *)
(* last one sent.                                                          *)
Queues == [AllHooks -> Seq(Full(Bytes))]
Typed ==
  /\ qTX \in Queues /\ qRX \in Queues
  /\ inn \in [Conns -> Seq(Bytes)] /\ got \in [Conns -> Seq(Bytes)]
  /\ told \in [Conns -> Nat] /\ \A c \in Conns : told[c] <= Len(Body[c])
Forgotten == \A c \in Conns : ~Up(c) => inn[c] = << >> /\ told[c] = 0
Aligned ==
  \A h \in Multi : Hooked(h) =>
    \E j \in 0..told[id[h]] : Flat(qRX[h]) \o inn[id[h]] = Stream(id[h], j, told[id[h]])

DInv == Typed /\ Forgotten /\ Aligned

(* The connection of a hook, and the hook of a connection.                 *)
LEMMA ConnAndHook ==
  IInv /\ WInv =>
    /\ pfHook[1] = Mother /\ \A f \in Fds : pfHook[f] = Mother => f = 1
    /\ \A h \in Multi : Hooked(h) => /\ id[h] \in Conns /\ id[h] < newid
                                     /\ Up(id[h]) /\ HookOf(id[h]) = h
    /\ \A c \in Conns : Up(c) => HookOf(c) \in Multi /\ Hooked(HookOf(c)) /\ id[HookOf(c)] = c
<1> SUFFICES ASSUME IInv, WInv
             PROVE  /\ pfHook[1] = Mother /\ \A f \in Fds : pfHook[f] = Mother => f = 1
                    /\ \A h \in Multi : Hooked(h) => /\ id[h] \in Conns /\ id[h] < newid
                                                     /\ Up(id[h]) /\ HookOf(id[h]) = h
                    /\ \A c \in Conns : Up(c) => /\ HookOf(c) \in Multi /\ Hooked(HookOf(c))
                                                 /\ id[HookOf(c)] = c
  OBVIOUS
<1>1. /\ Mother \in AllHooks /\ Multi \subseteq AllHooks /\ None \notin AllHooks /\ None \notin Fds
      /\ 1 \in Fds /\ \A h \in Multi : h # Mother
  BY Numbers DEF Multi, Mother
<1>2. Hooked(Mother) /\ fd[Mother] = 1 /\ id[Mother] = 0
  BY <1>1 DEF WInv, MotherStays, Hooked
<1>3. pfHook[1] = Mother /\ \A f \in Fds : pfHook[f] = Mother => f = 1
  BY <1>1, <1>2 DEF IInv, TableWhole
<1>4. \A g, h \in AllHooks : Hooked(g) /\ id[g] = id[h] => g = h
  BY DEF IInv, TableWhole
<1>5. ASSUME NEW h \in Multi, Hooked(h)
      PROVE  id[h] \in Conns /\ id[h] < newid /\ Up(id[h]) /\ HookOf(id[h]) = h
  <2>1. id[h] \in 0..newid - 1
    BY <1>1, <1>5 DEF IInv, TableWhole
  <2>2. id[h] # 0
    BY <1>1, <1>2, <1>4, <1>5
  <2>3. id[h] \in 1..MaxConns /\ id[h] < newid
    <3>1. newid \in 1..MaxConns + 1 /\ MaxConns \in Nat
      BY BoundAssumption DEF WInv, Numbered
    <3> QED BY <2>1, <2>2, <3>1
  <2>4. \A g \in Multi : Hooked(g) /\ id[g] = id[h] => g = h
    BY <1>1, <1>4
  <2>5. HookOf(id[h]) = h
    BY <1>5, <2>4 DEF HookOf
  <2> QED BY <1>5, <2>3, <2>5 DEF Up, Conns
<1>6. ASSUME NEW c \in Conns, Up(c)
      PROVE  HookOf(c) \in Multi /\ Hooked(HookOf(c)) /\ id[HookOf(c)] = c
  BY <1>6 DEF Up, HookOf
<1> QED BY <1>3, <1>5, <1>6

LEMMA InitWInv == Init => WInv
<1> SUFFICES ASSUME Init PROVE WInv
  OBVIOUS
<1>1. MotherStays
  BY Numbers DEF Init, MotherStays, Mother, None
<1>2. Numbered
  BY Numbers, BoundAssumption DEF Init, Numbered
<1>3. OneWaits
  BY EmptySeq DEF Init, OneWaits, NoWait
<1>4. Serving
  BY DEF Init, Serving
<1> QED BY <1>1, <1>2, <1>3, <1>4 DEF WInv

(* The end of a connection.                                                *)
LEMMA UnhookKeepsTables ==
  ASSUME IInv, WInv, NEW h \in Multi, Hooked(h), Unhook(h)
  PROVE  /\ fd'[Mother] = 1 /\ id'[Mother] = 0 /\ nMax' \in Fds /\ newid' = newid /\ backlog' = backlog
         /\ \A g \in Multi : /\ Hooked(g)' <=> Hooked(g) /\ g # h
                             /\ g # h => fd'[g] = fd[g] /\ id'[g] = id[g]
<1> USE Numbers
<1>1. /\ fd' = [fd EXCEPT ![h] = None] /\ id' = [id EXCEPT ![h] = None]
      /\ nIdx' = Filled(fd[h]) /\ nMax' = Most(Range(nIdx')) /\ newid' = newid /\ backlog' = backlog
  BY DEF Unhook
<1>2. Mother # h /\ Mother \in AllHooks /\ h \in AllHooks
  BY DEF Multi, Mother
<1>3. fd'[Mother] = 1 /\ id'[Mother] = 0
  BY <1>1, <1>2 DEF IInv, Shape, WInv, MotherStays
<1>4. fd[h] \in Fds /\ pfHook[fd[h]] = h
  BY <1>2 DEF IInv, Shape, TableWhole, Hooked
<1>5. fd[h] # 1 /\ pfHook[1] = Mother
  BY <1>2, <1>4, ConnAndHook
<1>6. fd[h] \in Range(nIdx) /\ 1 \in Range(nIdx)
  BY <1>4, <1>5 DEF IInv, TableWhole
<1>7. Range(nIdx') = Range(nIdx) \ {fd[h]}
  BY <1>1, <1>6, FilledProperties DEF IInv, Shape, TableWhole
<1>8. Range(nIdx') \in SUBSET Fds /\ 1 \in Range(nIdx')
  BY <1>5, <1>6, <1>7 DEF IInv, TableWhole
<1>9. nMax' \in Fds
  <2>1. Most(Range(nIdx')) \in Range(nIdx') \cup {0} /\ 1 <= Most(Range(nIdx'))
    BY <1>8, MostIsGreatest
  <2> QED BY <1>1, <1>8, <2>1
<1>10. \A g \in Multi : /\ Hooked(g)' <=> Hooked(g) /\ g # h
                        /\ g # h => fd'[g] = fd[g] /\ id'[g] = id[g]
  BY <1>1, <1>2 DEF IInv, Shape, Hooked
<1> QED BY <1>1, <1>3, <1>9, <1>10

(* What Wait does not change.                                              *)
LEMMA WaitKept ==
  ASSUME WInv, UNCHANGED <<at, wait, backlog>>
  PROVE  OneWaits' /\ Serving'
BY DEF WInv, OneWaits, Serving

LEMMA TablesKept ==
  ASSUME WInv, UNCHANGED <<table, backlog, qTX>>, busy' # Mother
  PROVE  MotherStays' /\ Numbered'
BY DEF WInv, MotherStays, Numbered, table

LEMMA FlushKept ==
  ASSUME WInv, wait' = wait, backlog' = backlog, at = "input", at' \in {"input", "flush"}
  PROVE  OneWaits' /\ Serving'
BY DEF WInv, OneWaits, Serving

LEMMA SelectKeepsWInv ==
  ASSUME IInv, WInv, NEW r \in SUBSET Readable, NEW w \in SUBSET Pending, Select(r, w)
  PROVE  WInv'
<1>1. UNCHANGED <<table, backlog, qTX>> /\ busy' = busy /\ at' = "next" /\ r \cup w # {}
  BY DEF Select, queues, system
<1>2. MotherStays' /\ Numbered'
  BY <1>1, TablesKept DEF WInv, MotherStays
<1>3. /\ wait'.nTable = nIdx /\ wait'.i = 0 /\ wait'.hook = None /\ wait'.read = r /\ wait'.write = w
  BY DEF Select
<1>4. Serving'
  BY <1>1, <1>3 DEF Serving
<1>5. 1 \in r => backlog = 1
  <2>1. 1 \in r => backlog > 0
    <3>1. pfHook[1] = Mother
      BY ConnAndHook
    <3> QED BY <3>1 DEF Readable
  <2> QED BY <2>1 DEF WInv, Numbered
<1>6. OneWaits'
  BY <1>1, <1>3, <1>5 DEF OneWaits, IInv, Shape, TableWhole
<1> QED BY <1>2, <1>4, <1>6 DEF WInv

LEMMA ScanKeepsWInv ==
  ASSUME IInv, WInv, Scan
  PROVE  WInv'
<1>1. UNCHANGED <<table, backlog, qTX>> /\ busy' = busy
  BY DEF Scan, queues, system
<1>2. MotherStays' /\ Numbered'
  BY <1>1, TablesKept DEF WInv, MotherStays
<1> DEFINE i == wait.i + 1
           f == wait.nTable[i]
           h == pfHook[f]
<1>3. /\ wait' = [wait EXCEPT !.i = i, !.hook = h] /\ wait.i < Len(wait.nTable)
      /\ at' = IF f \in wait.read /\ Same(h, i) THEN "input" ELSE "flush"
  BY DEF Scan
<1>4. wait' = [nTable |-> wait.nTable, nId |-> wait.nId, read |-> wait.read,
               write |-> wait.write, i |-> i, hook |-> h]
  BY <1>3 DEF IInv, Shape
<1>5. /\ wait'.nTable = wait.nTable /\ wait'.read = wait.read /\ wait'.write = wait.write
      /\ wait'.i = i /\ wait'.hook = h
  <2> HIDE DEF i, h
  <2> QED BY <1>4
<1>6. wait.nTable \in Seq(Fds) /\ wait.i \in Nat /\ DOMAIN wait.nTable = 1..Len(wait.nTable)
      /\ Len(wait.nTable) \in Nat
  BY LenProperties DEF WInv, OneWaits
<1>7. i \in DOMAIN wait.nTable /\ f \in Fds /\ i \in Nat /\ i > wait.i
  <2>1. i \in 1..Len(wait.nTable) /\ i > wait.i
    BY <1>3, <1>6
  <2> QED BY <1>6, <2>1, ElementOfSeq
<1>8. Serving'
  <2>1. at # "out"
    BY DEF Scan
  <2> QED BY <1>3, <1>5, <2>1 DEF WInv, Serving
<1>9. ASSUME at' = "input", wait'.hook = Mother
      PROVE  backlog' = 1 /\ wait'.i \in DOMAIN wait'.nTable /\ wait'.nTable[wait'.i] = 1
  <2>1. f \in wait.read /\ h = Mother
    BY <1>3, <1>5, <1>9
  <2>2. f = 1
    <3> HIDE DEF i
    <3> QED BY <1>7, <2>1, ConnAndHook
  <2>3. backlog = 1
    <3> HIDE DEF i
    <3>1. \E k \in DOMAIN wait.nTable : k > wait.i /\ wait.nTable[k] = 1
      BY <1>7, <2>2
    <3> QED BY <2>1, <2>2, <3>1 DEF WInv, OneWaits
  <2> HIDE DEF i, h
  <2> QED BY <1>1, <1>5, <1>7, <2>2, <2>3
<1>10. ASSUME 1 \in wait'.read, \E k \in DOMAIN wait'.nTable : k > wait'.i /\ wait'.nTable[k] = 1
       PROVE  backlog' = 1
  <2>1. PICK k \in DOMAIN wait.nTable : k > i /\ wait.nTable[k] = 1
    <3> HIDE DEF i, h
    <3> QED BY <1>5, <1>10
  <2>2. k > wait.i
    <3>1. k \in Nat
      BY <1>6
    <3> HIDE DEF i
    <3> QED BY <1>6, <1>7, <2>1, <3>1
  <2> QED BY <1>1, <1>5, <1>10, <2>1, <2>2 DEF WInv, OneWaits
<1>11. OneWaits'
  <2>1. wait'.nTable \in Seq(Fds) /\ wait'.i \in Nat
    <3> HIDE DEF i, h
    <3> QED BY <1>5, <1>6, <1>7
  <2>2. \A a, b \in DOMAIN wait'.nTable : wait'.nTable[a] = wait'.nTable[b] => a = b
    <3> HIDE DEF i, h
    <3> QED BY <1>5 DEF WInv, OneWaits
  <2> QED BY <1>9, <1>10, <2>1, <2>2 DEF OneWaits
<1> QED BY <1>2, <1>8, <1>11 DEF WInv

LEMMA AcceptKeepsWInv ==
  ASSUME IInv, WInv, DInv, Accept \/ TurnAway
  PROVE  WInv' /\ backlog = 1 /\ newid <= MaxConns
<1>1. /\ at = "input" /\ wait.hook = Mother /\ backlog' = backlog - 1 /\ at' = "flush"
      /\ UNCHANGED <<wait, busy>>
  BY DEF Accept, TurnAway
<1>2. backlog = 1 /\ wait.i \in DOMAIN wait.nTable /\ wait.nTable[wait.i] = 1
  BY <1>1 DEF WInv, OneWaits
<1>3. newid <= MaxConns /\ newid \in Nat /\ backlog' = 0
  BY <1>1, <1>2, BoundAssumption DEF WInv, Numbered
<1>4. Serving'
  BY <1>1 DEF WInv, Serving
<1>5. OneWaits'
  <2>1. wait.i \in Nat /\ \A k \in DOMAIN wait.nTable : wait.nTable[k] = 1 => k = wait.i
    BY <1>2 DEF WInv, OneWaits
  <2>2. ~(\E k \in DOMAIN wait.nTable : k > wait.i /\ wait.nTable[k] = 1)
    BY <2>1
  <2> QED BY <1>1, <2>2 DEF WInv, OneWaits
<1>6. MotherStays' /\ Numbered'
  <2>1. CASE TurnAway
    <3>1. UNCHANGED <<table, qTX>>
      BY <2>1 DEF TurnAway, queues
    <3> QED BY <1>1, <1>3, <3>1 DEF WInv, MotherStays, Numbered, table
  <2>2. CASE Accept
    <3>1. PICK h \in Multi, f \in Fds : Hook(f, h)
      BY <2>2 DEF Accept
    <3>2. Mother # h /\ Mother \in AllHooks /\ h \in AllHooks
      BY Numbers DEF Multi, Mother
    <3>3. fd' = [fd EXCEPT ![h] = f] /\ id' = [id EXCEPT ![h] = newid] /\ qTX' = [qTX EXCEPT ![h] = << >>]
          /\ newid' = newid + 1 /\ nMax' = IF f > nMax THEN f ELSE nMax
      BY <3>1 DEF Hook
    <3>4. fd'[Mother] = fd[Mother] /\ id'[Mother] = id[Mother]
      BY <3>2, <3>3 DEF IInv, Shape
    <3>5. qTX'[Mother] = qTX[Mother]
      BY <3>2, <3>3 DEF DInv, Typed, Queues
    <3>6. MotherStays'
      BY <1>1, <3>4, <3>5 DEF WInv, MotherStays
    <3>7. newid' \in 1..MaxConns + 1
      BY <1>3, <3>3, BoundAssumption
    <3>8. nMax' \in Fds
      BY <3>3 DEF WInv, Numbered
    <3> QED BY <1>3, <3>6, <3>7, <3>8 DEF Numbered
  <2> QED BY <2>1, <2>2
<1> QED BY <1>2, <1>3, <1>4, <1>5, <1>6 DEF WInv

LEMMA StepKeepsWInv ==
  ASSUME IInv, WInv, DInv, [Next]_vars
  PROVE  WInv'
<1>1. Mother \in AllHooks /\ Multi \subseteq AllHooks /\ \A h \in Multi : h # Mother /\ None # Mother
  BY Numbers DEF Multi, Mother, None
<1>2. busy # Mother /\ \A g \in AllHooks : \A q : g # Mother => [qTX EXCEPT ![g] = q][Mother] = qTX[Mother]
  BY <1>1 DEF WInv, MotherStays, DInv, Typed, Queues
<1>3. ASSUME UNCHANGED <<table, backlog, qTX, at, wait>>, busy' \in Multi \cup {busy} PROVE WInv'
  BY <1>1, <1>2, <1>3, TablesKept, WaitKept DEF WInv
<1>4. ASSUME NEW h \in Multi, Close(h) \/ ReadError(h) PROVE WInv'
  <2>1. Hooked(h) /\ Unhook(h) /\ UNCHANGED <<qTX, wait, busy>>
    BY <1>4 DEF Close, ReadError, queues
  <2>2. OneWaits' /\ Serving'
    <3>1. backlog' = backlog /\ (at' = at \/ (at = "input" /\ at' = "flush"))
      BY <1>4 DEF Close, ReadError, Unhook
    <3> QED BY <2>1, <3>1, WaitKept, FlushKept
  <2>3. MotherStays' /\ Numbered'
    BY <2>1, UnhookKeepsTables DEF WInv, MotherStays, Numbered
  <2> QED BY <2>2, <2>3 DEF WInv
<1>5. CASE PushError
  <2>1. busy \in Multi /\ Hooked(busy)
    BY <1>1, <1>2, <1>5 DEF PushError, IInv, Shape, TableWhole, AllHooks
  <2>2. Unhook(busy) /\ UNCHANGED <<at, wait>> /\ busy' = None /\ backlog' = backlog
        /\ \E q : qTX' = [qTX EXCEPT ![busy] = q]
    BY <1>5 DEF PushError, Unhook
  <2>3. qTX'[Mother] = qTX[Mother]
    BY <1>1, <1>2, <2>1, <2>2
  <2>4. MotherStays' /\ Numbered'
    BY <1>1, <2>1, <2>2, <2>3, UnhookKeepsTables DEF WInv, MotherStays, Numbered
  <2> QED BY <2>2, <2>4, WaitKept DEF WInv
<1>6. ASSUME NEW h \in Multi, Write(h) PROVE WInv'
  <2>1. UNCHANGED <<table, at, wait, backlog>> /\ busy' = h /\ \E q : qTX' = [qTX EXCEPT ![h] = q]
    BY <1>6 DEF Write, system
  <2>2. qTX'[Mother] = qTX[Mother]
    BY <1>1, <1>2, <2>1
  <2> QED BY <1>1, <2>1, <2>2, WaitKept DEF WInv, MotherStays, Numbered, table
<1>7. CASE PushRound
  <2>1. UNCHANGED <<table, at, wait, backlog>> /\ busy' \in {None, busy} /\ busy # None
        /\ \E q : qTX' = [qTX EXCEPT ![busy] = q]
    BY <1>7 DEF PushRound, system
  <2>2. qTX'[Mother] = qTX[Mother]
    BY <1>2, <2>1 DEF IInv, Shape
  <2>3. MotherStays'
    <3>1. busy' # Mother
      BY <1>2, <2>1 DEF None, Mother
    <3> QED BY <3>1, <2>1, <2>2 DEF WInv, MotherStays, table
  <2>4. Numbered'
    BY <2>1 DEF WInv, Numbered, table
  <2> QED BY <2>1, <2>3, <2>4, WaitKept DEF WInv
<1>8. ASSUME NEW h \in Multi, Read(h) \/ ReadClosed(h) PROVE WInv'
  <2>1. UNCHANGED <<table, backlog, qTX, wait>> /\ busy' = busy /\ at = "input" /\ at' \in {"input", "flush"}
    BY <1>8 DEF Read, ReadClosed, Parsed, queues, system
  <2> QED BY <1>2, <2>1, TablesKept, FlushKept DEF WInv
<1>9. ASSUME NEW h \in Multi, PeerSends(h) \/ PeerHangsUp(h) PROVE WInv'
  BY <1>3, <1>9 DEF PeerSends, PeerHangsUp, queues
<1>10. CASE Flush
  <2>1. UNCHANGED <<table, backlog, qTX, wait>> /\ at = "flush" /\ at' = "next"
    BY <1>10 DEF Flush, queues, system
  <2>2. busy' # Mother
    <3>1. busy' = None \/ (busy' = wait.hook /\ qTX[wait.hook] # << >>)
      BY <1>10 DEF Flush
    <3>2. qTX[Mother] = << >> /\ None # Mother
      BY DEF WInv, MotherStays, None, Mother
    <3> QED BY <3>1, <3>2
  <2> QED BY <2>1, <2>2, TablesKept DEF WInv, OneWaits, Serving
<1>11. CASE WaitDone
  <2>1. UNCHANGED <<table, backlog, qTX, busy>> /\ at' = "out" /\ wait' = NoWait
    BY <1>11 DEF WaitDone, queues, system
  <2>2. OneWaits' /\ Serving'
    BY <2>1, EmptySeq DEF OneWaits, Serving, NoWait
  <2> QED BY <1>2, <2>1, <2>2, TablesKept DEF WInv
<1>12. CASE PeerConnects
  BY <1>12 DEF PeerConnects, WInv, MotherStays, Numbered, OneWaits, Serving, table, queues
<1>13. CASE UNCHANGED vars
  BY <1>3, <1>13 DEF vars, queues, system
<1> QED BY <1>4, <1>5, <1>6, <1>7, <1>8, <1>9, <1>10, <1>11, <1>12, <1>13, SelectKeepsWInv, ScanKeepsWInv,
           AcceptKeepsWInv DEF Next

-----------------------------------------------------------------------------
(* What the actions do to the bytes.                                       *)
LEMMA TakeOfTake ==
  ASSUME NEW S, NEW F \in Seq(S), NEW r \in 0..Len(F), NEW n \in 0..r
  PROVE  /\ SubSeq(SubSeq(F, 1, r), 1, n) = SubSeq(F, 1, n)
         /\ SubSeq(SubSeq(F, 1, r), n + 1, r) \o Drop(F, r) = Drop(F, n)
         /\ SubSeq(SubSeq(F, 1, r), n + 1, r) \in Seq(S)
<1> DEFINE T == SubSeq(F, 1, r)
<1>1. Len(F) \in Nat /\ r \in Nat /\ n \in Nat /\ n <= r /\ r <= Len(F) /\ n \in 0..Len(F)
  BY LenProperties
<1>2. T \in Seq(S) /\ Len(T) = r /\ (\A i \in 1..r : T[i] = F[i]) /\ T \o Drop(F, r) = F
  BY TakeAndDrop
<1> HIDE DEF T
<1>3. SubSeq(T, 1, n) \in Seq(S) /\ Len(SubSeq(T, 1, n)) = n /\ \A i \in 1..n : SubSeq(T, 1, n)[i] = T[i]
  BY <1>2, TakeAndDrop
<1>4. SubSeq(F, 1, n) \in Seq(S) /\ Len(SubSeq(F, 1, n)) = n /\ \A i \in 1..n : SubSeq(F, 1, n)[i] = F[i]
  BY <1>1, TakeAndDrop
<1>5. SubSeq(T, 1, n) = SubSeq(F, 1, n)
  <2>1. \A i \in 1..n : i \in 1..r
    BY <1>1
  <2>2. \A i \in 1..n : SubSeq(T, 1, n)[i] = SubSeq(F, 1, n)[i]
    BY <1>2, <1>3, <1>4, <2>1
  <2> QED BY <1>3, <1>4, <2>2, SeqEqual
<1>6. SubSeq(T, n + 1, r) = Drop(T, n)
  BY <1>2 DEF Drop
<1>7. Drop(T, n) \in Seq(S) /\ Drop(F, r) \in Seq(S)
  BY <1>1, <1>2, DropIsSeq
<1>8. Drop(T \o Drop(F, r), n) = Drop(T, n) \o Drop(Drop(F, r), IF Len(T) <= n THEN n - Len(T) ELSE 0)
  BY <1>1, <1>2, <1>7, DropOfConcat
<1>9. (IF Len(T) <= n THEN n - Len(T) ELSE 0) = 0
  BY <1>1, <1>2
<1>10. Drop(Drop(F, r), 0) = Drop(F, r)
  BY <1>7, DropNone
<1>11. Drop(T, n) \o Drop(F, r) = Drop(F, n)
  BY <1>2, <1>8, <1>9, <1>10
<1> QED BY <1>5, <1>6, <1>7, <1>11 DEF T

LEMMA RoundIsSeq ==
  ASSUME DInv, busy \in AllHooks
  PROVE  Len(Round) \in Nat /\ 0 \in 0..Len(Round)
<1>1. qTX[busy] \in Seq(Seq(Bytes))
  <2>1. qTX[busy] \in Seq(Full(Bytes))
    BY DEF DInv, Typed, Queues
  <2> QED BY <2>1, SeqMonotonic DEF Full
<1> DEFINE F == Flat(qTX[busy])
           r == Smaller(Buf, Len(F))
<1>2. F \in Seq(Bytes)
  BY <1>1, FlatIsSeq
<1> HIDE DEF F
<1>3. r \in 0..Len(F) /\ r \in Nat
  <2>1. Len(F) \in Nat
    BY <1>2, LenProperties
  <2> QED BY <2>1, SizeAssumption DEF Smaller
<1>4. Round = SubSeq(F, 1, r)
  BY DEF Round, Copy, F
<1> HIDE DEF r
<1>5. Len(Round) = r
  BY <1>2, <1>3, <1>4, TakeAndDrop
<1> QED BY <1>3, <1>5

(* A round of PushWrite takes n bytes from the front.                      *)
LEMMA PushEffect ==
  ASSUME DInv, busy \in AllHooks, NEW n \in 0..Len(Round)
  PROVE  /\ Pushed(n) \in Seq(Full(Bytes)) /\ Flat(Pushed(n)) = Drop(Flat(qTX[busy]), n)
         /\ SubSeq(Round, 1, n) = SubSeq(Flat(qTX[busy]), 1, n)
         /\ n \in 0..Len(Flat(qTX[busy])) /\ Flat(qTX[busy]) \in Seq(Bytes)
         /\ Cut(qTX[busy], Len(Round)) \in Seq(Full(Bytes))
<1> DEFINE q == qTX[busy]
           F == Flat(q)
           r == Smaller(Buf, Len(F))
           x == SubSeq(Round, n + 1, Len(Round))
           p == Cut(q, Len(Round))
<1>1. q \in Seq(Full(Bytes)) /\ q \in Seq(Seq(Bytes))
  <2>1. q \in Seq(Full(Bytes))
    BY DEF DInv, Typed, Queues
  <2> QED BY <2>1, SeqMonotonic DEF Full
<1> HIDE DEF q
<1>2. F \in Seq(Bytes)
  BY <1>1, FlatIsSeq
<1>3. r \in 0..Len(F) /\ r \in Nat
  <2>1. Len(F) \in Nat
    BY <1>2, LenProperties
  <2> HIDE DEF F
  <2> QED BY <2>1, SizeAssumption DEF Smaller
<1>4. Round = SubSeq(F, 1, r)
  BY DEF Round, Copy, q
<1> HIDE DEF F, r
<1>5. Len(Round) = r
  BY <1>2, <1>3, <1>4, TakeAndDrop
<1>6. n \in 0..r /\ n \in 0..Len(F)
  BY <1>2, <1>3, <1>5, LenProperties
<1>7. x = SubSeq(SubSeq(F, 1, r), n + 1, r)
  BY <1>4, <1>5
<1>8. SubSeq(SubSeq(F, 1, r), 1, n) = SubSeq(F, 1, n) /\ x \o Drop(F, r) = Drop(F, n) /\ x \in Seq(Bytes)
  BY <1>2, <1>3, <1>6, <1>7, TakeOfTake
<1>9. p \in Seq(Full(Bytes)) /\ Flat(p) = Drop(F, r)
  <2>1. p = Cut(q, r)
    BY <1>5
  <2> HIDE DEF p
  <2> QED BY <1>1, <1>3, <2>1, CutProperties DEF F
<1>10. Pushed(n) = IF x = << >> THEN p ELSE <<x>> \o p
  BY DEF Pushed, q
<1> HIDE DEF x, p
<1>11. Pushed(n) \in Seq(Full(Bytes)) /\ Flat(Pushed(n)) = Drop(F, n)
  <2>1. CASE x = << >>
    <3>1. Drop(F, r) \in Seq(Bytes)
      BY <1>2, <1>3, DropIsSeq
    <3>2. x \o Drop(F, r) = Drop(F, r)
      BY <2>1, <3>1, ConcatEmptySeq
    <3> QED BY <1>8, <1>9, <1>10, <2>1, <3>2
  <2>2. CASE x # << >>
    <3>1. x \in Full(Bytes)
      BY <1>8, <2>2 DEF Full
    <3>2. <<x>> \in Seq(Full(Bytes)) /\ <<x>> \in Seq(Seq(Bytes))
      BY <1>8, <3>1
    <3>3. <<x>> \o p \in Seq(Full(Bytes))
      BY <1>9, <3>2, ConcatProperties
    <3>4. p \in Seq(Seq(Bytes))
      BY <1>9, SeqMonotonic DEF Full
    <3>5. Flat(<<x>> \o p) = Flat(<<x>>) \o Flat(p)
      BY <3>2, <3>4, FlatOfConcat
    <3>6. Flat(<<x>>) = x
      BY <1>8, FlatOfOne
    <3> QED BY <1>8, <1>9, <1>10, <2>2, <3>3, <3>5, <3>6
  <2> QED BY <2>1, <2>2
<1> QED BY <1>2, <1>4, <1>6, <1>8, <1>9, <1>11 DEF F, q, p

(* What protocol_parse_incoming finds at the front, when the header is     *)
(* there, is the next message.                                             *)
Announced(s) == Header + Body[s[1][1]][s[1][2]]
LEMMA NextFrame ==
  ASSUME NEW c \in Conns, NEW k \in 0..Len(Body[c]), NEW j \in 0..k,
         NEW s \in Seq(Bytes), NEW r \in Seq(Bytes), s \o r = Stream(c, j, k), Len(s) >= Header,
         ~(Len(s) < Announced(s))
  PROVE  /\ j < k /\ Announced(s) \in Nat
         /\ SubSeq(s, 1, Announced(s)) = Frame(c, j + 1)
         /\ Drop(s, Announced(s)) \o r = Stream(c, j + 1, k)
<1> DEFINE l == Announced(s)
           f == Frame(c, j + 1)
           R == Stream(c, j + 1, k)
           n == Len(Body[c])
<1>1. n \in Nat /\ k \in Nat /\ j \in Nat /\ j <= k /\ k <= n
  <2>1. Body[c] \in Seq(Nat)
    BY BodyAssumption DEF Conns
  <2> QED BY <2>1, LenProperties
<1>2. Len(s) \in Nat /\ Len(s) >= 1
  BY SizeAssumption, LenProperties
<1>3. j < k
  <2>1. s # << >>
    BY <1>2, EmptySeq
  <2>2. s \o r # << >>
    BY <2>1, ConcatEqualIffEmpty
  <2>3. j = k => Stream(c, j, k) = << >>
    BY StreamProperties
  <2> QED BY <1>1, <2>2, <2>3
<1>4. j + 1 \in 1..n /\ j + 1 \in 0..k
  BY <1>1, <1>3
<1>5. /\ f \in Seq(Bytes) /\ Len(f) = Header + Body[c][j + 1] /\ Header + Body[c][j + 1] \in Nat \ {0}
      /\ f[1] = <<c, j + 1, 1>>
  <2> DEFINE i == j + 1
  <2>1. i \in 1..Len(Body[c])
    BY <1>4
  <2> HIDE DEF i
  <2>2. /\ Frame(c, i) \in Seq(Bytes) /\ Len(Frame(c, i)) = Header + Body[c][i]
        /\ Header + Body[c][i] \in Nat \ {0} /\ Frame(c, i)[1] = <<c, i, 1>>
    BY <2>1, FrameProperties
  <2> QED BY <2>2 DEF i
<1>6. R \in Seq(Bytes)
  <2> DEFINE i == j + 1
  <2>1. i \in 0..k
    BY <1>4
  <2> HIDE DEF i
  <2>2. Stream(c, i, k) \in Seq(Bytes)
    BY <2>1, StreamProperties
  <2> QED BY <2>2 DEF i
<1>7. s \o r = f \o R
  BY <1>3, StreamProperties
<1> HIDE DEF f, R
<1>8. /\ Len(s \o r) = Len(s) + Len(r) /\ Len(r) \in Nat
      /\ \A i \in 1..(Len(s) + Len(r)) : (s \o r)[i] = IF i <= Len(s) THEN s[i] ELSE r[i - Len(s)]
  BY ConcatProperties, LenProperties
<1>9. /\ Len(f \o R) = Len(f) + Len(R) /\ Len(R) \in Nat
      /\ \A i \in 1..(Len(f) + Len(R)) : (f \o R)[i] = IF i <= Len(f) THEN f[i] ELSE R[i - Len(f)]
  BY <1>5, <1>6, ConcatProperties, LenProperties
<1>10. Len(f) \in Nat /\ Len(f) >= 1
  BY <1>5
<1>11. s[1] = f[1]
  <2>1. 1 \in 1..(Len(s) + Len(r)) /\ 1 <= Len(s) /\ 1 \in 1..(Len(f) + Len(R)) /\ 1 <= Len(f)
    BY <1>2, <1>8, <1>9, <1>10
  <2> QED BY <1>7, <1>8, <1>9, <2>1
<1>12. l = Len(f)
  BY <1>5, <1>11 DEF Announced
<1> HIDE DEF l
<1>13. l \in 0..Len(s) /\ l \in Nat /\ l <= Len(s)
  <2>1. ~(Len(s) < l)
    BY DEF l
  <2> QED BY <1>2, <1>10, <1>12, <2>1
<1>14. SubSeq(s, 1, l) = f
  <2>1. SubSeq(s, 1, l) \in Seq(Bytes) /\ Len(SubSeq(s, 1, l)) = l /\ \A i \in 1..l : SubSeq(s, 1, l)[i] = s[i]
    BY <1>13, TakeAndDrop
  <2>2. ASSUME NEW i \in 1..l PROVE s[i] = f[i]
    <3>1. i \in 1..(Len(s) + Len(r)) /\ i <= Len(s) /\ i \in 1..(Len(f) + Len(R)) /\ i <= Len(f)
      BY <1>2, <1>8, <1>9, <1>10, <1>12, <1>13
    <3> QED BY <1>7, <1>8, <1>9, <3>1
  <2> QED BY <1>5, <1>12, <2>1, <2>2, SeqEqual
<1>15. Drop(s, l) \o r = R
  <2>1. Drop(s \o r, l) = Drop(s, l) \o Drop(r, IF Len(s) <= l THEN l - Len(s) ELSE 0)
    BY <1>13, DropOfConcat
  <2>2. Drop(f \o R, l) = Drop(f, l) \o Drop(R, IF Len(f) <= l THEN l - Len(f) ELSE 0)
    BY <1>5, <1>6, <1>13, DropOfConcat
  <2>3. (IF Len(s) <= l THEN l - Len(s) ELSE 0) = 0 /\ (IF Len(f) <= l THEN l - Len(f) ELSE 0) = 0
    BY <1>2, <1>12, <1>13
  <2>4. Drop(r, 0) = r /\ Drop(R, 0) = R
    BY <1>6, DropNone
  <2>5. Drop(f, l) = << >>
    <3>0. l \in Nat /\ l >= Len(f)
      BY <1>10, <1>12
    <3>1. f \in Seq(Bytes) /\ l \in Nat /\ l >= Len(f)
      BY <1>5, <3>0
    <3> QED BY <3>1, DropAll
  <2>6. << >> \o R = R
    BY <1>6, ConcatEmptySeq
  <2> QED BY <1>7, <2>1, <2>2, <2>3, <2>4, <2>5, <2>6
<1> QED BY <1>3, <1>13, <1>14, <1>15 DEF f, R, l

(* A call of Read takes the next message from what is not handled, or none.*)
LEMMA ReadEffect ==
  ASSUME IInv, WInv, DInv, NEW h \in Multi, Read(h)
  PROVE  \E q \in Seq(Full(Bytes)), r \in Seq(Bytes), j \in 0..told[id[h]] :
           /\ qRX' = [qRX EXCEPT ![h] = q] /\ inn' = [inn EXCEPT ![id[h]] = r]
           /\ Flat(q) \o r = Stream(id[h], j, told[id[h]])
           /\ \/ heard' = heard /\ Flat(qRX[h]) \o inn[id[h]] = Flat(q) \o r
              \/ /\ j # 0 /\ heard' = [heard EXCEPT ![id[h]] = Append(@, Frame(id[h], j))]
                 /\ Flat(qRX[h]) \o inn[id[h]] = Frame(id[h], j) \o (Flat(q) \o r)
<1>1. PICK c : c = id[h]
  OBVIOUS
<1>2. Hooked(h) /\ c \in Conns /\ h \in AllHooks
  BY <1>1, ConnAndHook, Numbers DEF Read
<1>3. PICK n \in 0..Len(inn[c]) :
        /\ Parsed(h, qRX[h] \o Elements(SubSeq(inn[c], 1, n)))
        /\ inn' = [inn EXCEPT ![c] = SubSeq(@, n + 1, Len(@))]
  BY <1>1 DEF Read
<1> DEFINE p == qRX[h]
           i == inn[c]
           t == told[c]
           a == SubSeq(i, 1, n)
           r == Drop(i, n)
           e == Elements(a)
           q == p \o e
           s == Flat(q)
<1>4. p \in Seq(Full(Bytes)) /\ i \in Seq(Bytes) /\ t \in 0..Len(Body[c])
  <2>1. t \in Nat /\ t <= Len(Body[c])
    BY <1>2 DEF DInv, Typed
  <2>2. Len(Body[c]) \in Nat
    <3>1. Body[c] \in Seq(Nat)
      BY <1>2, BodyAssumption DEF Conns
    <3> QED BY <3>1, LenProperties
  <2>3. t \in 0..Len(Body[c])
    <3> HIDE DEF t
    <3> QED BY <2>1, <2>2
  <2> QED BY <1>2, <2>3 DEF DInv, Typed, Queues
<1>5. PICK j \in 0..t : Flat(p) \o i = Stream(c, j, t)
  BY <1>1, <1>2 DEF DInv, Aligned
<1>7. inn' = [inn EXCEPT ![c] = r]
  BY <1>3 DEF Drop
<1>8. Parsed(h, q)
  BY <1>3
<1> HIDE DEF p, i, t
<1>9. a \in Seq(Bytes) /\ r \in Seq(Bytes) /\ a \o r = i
  <2>1. n \in 0..Len(i)
    BY DEF i
  <2>2. n \in Nat
    BY <2>1
  <2> QED BY <1>4, <2>1, <2>2, TakeAndDrop, DropIsSeq
<1> HIDE DEF a, r
<1>10. e \in Seq(Full(Bytes)) /\ Flat(e) = a
  BY <1>9, ElementsProperties
<1> HIDE DEF e
<1>11. q \in Seq(Full(Bytes)) /\ s = Flat(p) \o a /\ Flat(p) \in Seq(Bytes)
  <2>1. q \in Seq(Full(Bytes))
    BY <1>4, <1>10, ConcatProperties
  <2>2. p \in Seq(Seq(Bytes)) /\ e \in Seq(Seq(Bytes))
    BY <1>4, <1>10, SeqMonotonic DEF Full
  <2>3. Flat(p \o e) = Flat(p) \o Flat(e)
    BY <2>2, FlatOfConcat
  <2> QED BY <1>10, <2>1, <2>2, <2>3, FlatIsSeq
<1> HIDE DEF q
<1>12. s \in Seq(Bytes) /\ s \o r = Stream(c, j, t)
  <2>1. s \in Seq(Bytes)
    BY <1>9, <1>11, ConcatProperties
  <2>2. (Flat(p) \o a) \o r = Flat(p) \o (a \o r)
    <3>1. Flat(p) \in Seq(Bytes) /\ a \in Seq(Bytes) /\ r \in Seq(Bytes)
      BY <1>9, <1>11
    <3> QED BY <3>1, ConcatAssociative
  <2> QED BY <1>5, <1>9, <1>11, <2>1, <2>2
<1> HIDE DEF s
<1>13. CASE heard' = heard /\ qRX' = [qRX EXCEPT ![h] = q]
  <2>1. Flat(p) \o i = s \o r
    BY <1>5, <1>12
  <2>2. qRX' = [qRX EXCEPT ![h] = q] /\ inn' = [inn EXCEPT ![c] = r]
    BY <1>7, <1>13
  <2>3. Flat(q) \o r = Stream(c, j, t) /\ heard' = heard /\ Flat(p) \o i = Flat(q) \o r
    BY <1>12, <1>13, <2>1 DEF s
  <2> QED BY <1>1, <1>9, <1>11, <2>2, <2>3 DEF t, p, i
<1>14. CASE ~(heard' = heard /\ qRX' = [qRX EXCEPT ![h] = q])
  <2> DEFINE l == Announced(s)
             d == Cut(q, l)
  <2>1. /\ Len(s) >= Header /\ ~(Len(s) < l)
        /\ heard' = [heard EXCEPT ![c] = Append(@, Copy(q, l))]
        /\ qRX' = [qRX EXCEPT ![h] = d]
    <3>0. Len(s) \in Nat /\ Header \in Nat
      BY <1>12, SizeAssumption, LenProperties
    <3>1. ~(Len(s) >= Header /\ s[1][3] # 1)
      BY <1>8, <1>14 DEF Parsed, Announced, s
    <3>2. ~(Len(s) < Header \/ Len(s) < l)
      BY <1>8, <1>14, <3>1 DEF Parsed, Announced, s
    <3>3. /\ heard' = [heard EXCEPT ![c] = Append(@, Copy(q, l))]
          /\ qRX' = [qRX EXCEPT ![h] = d]
      BY <1>1, <1>8, <3>1, <3>2 DEF Parsed, Announced, s
    <3>4. Len(s) >= Header
      BY <3>0, <3>2
    <3> QED BY <3>2, <3>3, <3>4
  <2> HIDE DEF l
  <2>3. /\ j < t /\ l \in Nat /\ SubSeq(s, 1, l) = Frame(c, j + 1)
        /\ Drop(s, l) \o r = Stream(c, j + 1, t)
    <3>1. /\ c \in Conns /\ t \in 0..Len(Body[c]) /\ s \in Seq(Bytes) /\ r \in Seq(Bytes)
          /\ s \o r = Stream(c, j, t) /\ Len(s) >= Header /\ ~(Len(s) < Announced(s))
      BY <1>2, <1>4, <1>9, <1>12, <2>1 DEF l
    <3> QED BY <3>1, NextFrame DEF l
  <2>4. d \in Seq(Full(Bytes)) /\ Flat(d) = Drop(s, l)
    BY <1>11, <2>3, CutProperties DEF s
  <2>5. Copy(q, l) = Frame(c, j + 1)
    BY <2>3 DEF Copy, s
  <2> HIDE DEF d
  <2>6. Flat(p) \o i = Frame(c, j + 1) \o (Flat(d) \o r)
    <3>1. Stream(c, j, t) = Frame(c, j + 1) \o Stream(c, j + 1, t)
      BY <1>2, <1>4, <2>3, StreamProperties
    <3> QED BY <1>5, <2>3, <2>4, <3>1
  <2> DEFINE k == j + 1
  <2>7. k \in 0..t /\ k # 0
    BY <1>4, <2>3
  <2>8. /\ qRX' = [qRX EXCEPT ![h] = d] /\ inn' = [inn EXCEPT ![c] = r]
        /\ Flat(d) \o r = Stream(c, k, t) /\ heard' = [heard EXCEPT ![c] = Append(@, Frame(c, k))]
        /\ Flat(p) \o i = Frame(c, k) \o (Flat(d) \o r)
    BY <1>7, <2>1, <2>3, <2>4, <2>5, <2>6
  <2> HIDE DEF k
  <2> QED BY <1>1, <1>9, <2>4, <2>7, <2>8 DEF t, p, i
<1> QED BY <1>13, <1>14

-----------------------------------------------------------------------------
LEMMA InitDInv == Init => DInv
<1> SUFFICES ASSUME Init PROVE DInv
  OBVIOUS
<1>1. << >> \in Seq(Full(Bytes)) /\ << >> \in Seq(Bytes)
  BY EmptySeq
<1>2. \A c \in Conns : Len(Body[c]) \in Nat
  <2>1. \A c \in Conns : Body[c] \in Seq(Nat)
    BY BodyAssumption DEF Conns
  <2> QED BY <2>1, LenProperties
<1>3. Typed
  BY <1>1, <1>2 DEF Init, Typed, Queues
<1>4. \A h \in Multi : ~Hooked(h)
  BY DEF Init, Hooked, Multi, Mother, AllHooks
<1>5. Forgotten
  BY DEF Init, Forgotten
<1>6. Aligned
  BY <1>4 DEF Aligned
<1> QED BY <1>3, <1>5, <1>6 DEF DInv

LEMMA BodyLength ==
  ASSUME NEW c \in Conns
  PROVE  Len(Body[c]) \in Nat /\ DOMAIN Body[c] = 1..Len(Body[c])
<1>1. Body[c] \in Seq(Nat)
  BY BodyAssumption DEF Conns
<1> QED BY <1>1, LenProperties

(* Nothing comes in.                                                       *)
LEMMA OutKeepsDInv ==
  ASSUME DInv, UNCHANGED <<table, qRX, inn, told>>, qTX' \in Queues, got' \in [Conns -> Seq(Bytes)]
  PROVE  DInv'
<1>1. Typed'
  BY DEF DInv, Typed
<1>2. Forgotten'
  BY DEF DInv, Forgotten, Up, Hooked, table
<1>3. Aligned'
  BY DEF DInv, Aligned, Hooked, table
<1> QED BY <1>1, <1>2, <1>3 DEF DInv

LEMMA UnhookKeepsDInv ==
  ASSUME IInv, WInv, DInv, NEW h \in Multi, Hooked(h), Unhook(h), qRX' = qRX, qTX' \in Queues
  PROVE  DInv'
<1>1. PICK c : c = id[h]
  OBVIOUS
<1>2. c \in Conns
  BY <1>1, ConnAndHook
<1>3. /\ inn' = [inn EXCEPT ![c] = << >>] /\ told' = [told EXCEPT ![c] = 0]
      /\ got' = [got EXCEPT ![c] = << >>]
  BY <1>1 DEF Unhook
<1>4. \A g \in Multi : Hooked(g)' => Hooked(g) /\ g # h /\ id'[g] = id[g] /\ id[g] # c /\ id[g] \in Conns
  BY <1>1, UnhookKeepsTables, ConnAndHook, Numbers DEF IInv, TableWhole
<1>5. \A x \in Conns : x # c => inn'[x] = inn[x] /\ told'[x] = told[x]
  BY <1>3 DEF DInv, Typed
<1>6. inn'[c] = << >> /\ told'[c] = 0
  BY <1>2, <1>3 DEF DInv, Typed
<1>7. Typed'
  <2>1. inn' \in [Conns -> Seq(Bytes)] /\ got' \in [Conns -> Seq(Bytes)]
    BY <1>3, EmptySeq DEF DInv, Typed
  <2>2. told' \in [Conns -> Nat]
    BY <1>3 DEF DInv, Typed
  <2>3. \A x \in Conns : told'[x] <= Len(Body[x])
    <3> SUFFICES ASSUME NEW x \in Conns PROVE told'[x] <= Len(Body[x])
      OBVIOUS
    <3>1. CASE x = c
      <4>1. told'[x] = 0 /\ Len(Body[x]) \in Nat
        BY <1>6, <3>1, BodyLength
      <4> QED BY <4>1
    <3>2. CASE x # c
      <4>1. told'[x] = told[x]
        BY <1>5, <3>2
      <4> QED BY <4>1 DEF DInv, Typed
    <3> QED BY <3>1, <3>2
  <2> QED BY <2>1, <2>2, <2>3 DEF DInv, Typed
<1>8. Forgotten'
  <2> SUFFICES ASSUME NEW x \in Conns, ~Up(x)' PROVE inn'[x] = << >> /\ told'[x] = 0
    BY DEF Forgotten
  <2>1. CASE x = c
    BY <1>6, <2>1
  <2>2. CASE x # c
    <3>1. ~Up(x)
      <4> SUFFICES ASSUME NEW g \in Multi, Hooked(g), id[g] = x PROVE FALSE
        BY DEF Up
      <4>1. g # h
        BY <1>1, <2>2
      <4>2. Hooked(g)' /\ id'[g] = x
        BY <4>1, UnhookKeepsTables
      <4> QED BY <4>2 DEF Up
    <3> QED BY <1>5, <2>2, <3>1 DEF DInv, Forgotten
  <2> QED BY <2>1, <2>2
<1>9. Aligned'
  <2> SUFFICES ASSUME NEW g \in Multi, Hooked(g)'
               PROVE  \E j \in 0..told'[id'[g]] :
                        Flat(qRX'[g]) \o inn'[id'[g]] = Stream(id'[g], j, told'[id'[g]])
    BY DEF Aligned
  <2>1. Hooked(g) /\ id'[g] = id[g] /\ told'[id[g]] = told[id[g]] /\ inn'[id[g]] = inn[id[g]]
    BY <1>4, <1>5
  <2> QED BY <2>1 DEF DInv, Aligned
<1> QED BY <1>7, <1>8, <1>9 DEF DInv

LEMMA NewHook ==
  ASSUME IInv, WInv, DInv, Accept
  PROVE  \E h \in Multi, f \in Fds :
           /\ ~Hooked(h) /\ Hook(f, h) /\ newid \in Conns /\ ~Up(newid) /\ newid' = newid + 1
           /\ Hooked(h)' /\ id'[h] = newid
           /\ \A g \in Multi : g # h => (Hooked(g)' <=> Hooked(g)) /\ id'[g] = id[g]
           /\ qTX' = [qTX EXCEPT ![h] = << >>] /\ qRX' = [qRX EXCEPT ![h] = << >>]
           /\ UNCHANGED <<inn, told, got, heard>>
<1>1. PICK h \in Multi, f \in Fds : ~Hooked(h) /\ Hook(f, h)
  BY DEF Accept
<1>2. UNCHANGED <<inn, told, got, heard>>
  BY DEF Accept, history
<1>3. newid \in Conns
  BY AcceptKeepsWInv, BoundAssumption DEF WInv, Numbered, Conns
<1>4. ~Up(newid)
  <2>1. \A g \in Multi : Hooked(g) => id[g] \in Conns /\ id[g] < newid
    BY ConnAndHook
  <2>2. \A n \in Nat : ~(n < n)
    OBVIOUS
  <2> QED BY <1>3, <2>1, <2>2 DEF Up, Conns
<1>5. /\ fd' = [fd EXCEPT ![h] = f] /\ id' = [id EXCEPT ![h] = newid] /\ newid' = newid + 1
      /\ qTX' = [qTX EXCEPT ![h] = << >>] /\ qRX' = [qRX EXCEPT ![h] = << >>]
  BY <1>1 DEF Hook
<1>6. Hooked(h)' /\ id'[h] = newid
  BY <1>5, Numbers DEF IInv, Shape, Hooked
<1>7. \A g \in Multi : g # h => (Hooked(g)' <=> Hooked(g)) /\ id'[g] = id[g]
  BY <1>5, Numbers DEF IInv, Shape, Hooked
<1> QED BY <1>1, <1>2, <1>3, <1>4, <1>5, <1>6, <1>7

LEMMA AcceptKeepsDInv ==
  ASSUME IInv, WInv, DInv, Accept
  PROVE  DInv'
<1>1. PICK h \in Multi :
           /\ newid \in Conns /\ ~Up(newid) /\ Hooked(h)' /\ id'[h] = newid /\ ~Hooked(h)
           /\ \A g \in Multi : g # h => (Hooked(g)' <=> Hooked(g)) /\ id'[g] = id[g]
           /\ qTX' = [qTX EXCEPT ![h] = << >>] /\ qRX' = [qRX EXCEPT ![h] = << >>]
           /\ UNCHANGED <<inn, told, got, heard>>
  BY NewHook
<1>2. h \in AllHooks
  BY Numbers
<1>3. Typed'
  <2>1. qTX' \in Queues /\ qRX' \in Queues
    BY <1>1, EmptySeq DEF DInv, Typed, Queues
  <2> QED BY <1>1, <2>1 DEF DInv, Typed
<1>4. Forgotten'
  <2> SUFFICES ASSUME NEW x \in Conns, ~Up(x)' PROVE inn'[x] = << >> /\ told'[x] = 0
    BY DEF Forgotten
  <2>1. ~Up(x)
    <3> SUFFICES ASSUME NEW g \in Multi, Hooked(g), id[g] = x PROVE FALSE
      BY DEF Up
    <3>1. Hooked(g)' /\ id'[g] = x
      BY <1>1
    <3> QED BY <3>1 DEF Up
  <2> QED BY <1>1, <2>1 DEF DInv, Forgotten
<1>5. Aligned'
  <2> SUFFICES ASSUME NEW g \in Multi, Hooked(g)'
               PROVE  \E j \in 0..told'[id'[g]] :
                        Flat(qRX'[g]) \o inn'[id'[g]] = Stream(id'[g], j, told'[id'[g]])
    BY DEF Aligned
  <2>1. CASE g = h
    <3>1. id'[g] = newid /\ inn'[newid] = << >> /\ told'[newid] = 0
      BY <1>1, <2>1 DEF DInv, Forgotten
    <3>2. qRX'[g] = << >>
      BY <1>1, <1>2, <2>1 DEF DInv, Typed, Queues
    <3>3. << >> \o << >> = << >>
      <4>1. << >> \in Seq(Bytes)
        BY EmptySeq
      <4> QED BY <4>1, ConcatEmptySeq
    <3>4. 0 \in 0..0 /\ 0 \in 0..Len(Body[newid])
      BY <1>1, BodyLength
    <3>5. Stream(newid, 0, 0) = << >>
      BY <1>1, <3>4, StreamProperties
    <3>6. Flat(qRX'[g]) \o inn'[newid] = Stream(newid, 0, told'[newid])
      BY <3>1, <3>2, <3>3, <3>5, FlatOfNone
    <3> QED BY <3>1, <3>4, <3>6
  <2>2. CASE g # h
    <3>1. Hooked(g) /\ id'[g] = id[g] /\ qRX'[g] = qRX[g]
      BY <1>1, <2>2, Numbers DEF DInv, Typed, Queues
    <3> QED BY <1>1, <3>1 DEF DInv, Aligned
  <2> QED BY <2>1, <2>2
<1> QED BY <1>3, <1>4, <1>5 DEF DInv

LEMMA ReadKeepsDInv ==
  ASSUME IInv, WInv, DInv, NEW h \in Multi, Read(h)
  PROVE  DInv'
<1>1. PICK c : c = id[h]
  OBVIOUS
<1>2. Hooked(h) /\ c \in Conns /\ h \in AllHooks /\ Up(c)
  BY <1>1, ConnAndHook, Numbers DEF Read
<1>3. PICK q \in Seq(Full(Bytes)), r \in Seq(Bytes), j \in 0..told[c] :
           /\ qRX' = [qRX EXCEPT ![h] = q] /\ inn' = [inn EXCEPT ![c] = r]
           /\ Flat(q) \o r = Stream(c, j, told[c])
  <2>1. \E q \in Seq(Full(Bytes)), r \in Seq(Bytes), j \in 0..told[id[h]] :
          /\ qRX' = [qRX EXCEPT ![h] = q] /\ inn' = [inn EXCEPT ![id[h]] = r]
          /\ Flat(q) \o r = Stream(id[h], j, told[id[h]])
          /\ \/ heard' = heard /\ Flat(qRX[h]) \o inn[id[h]] = Flat(q) \o r
             \/ /\ j # 0 /\ heard' = [heard EXCEPT ![id[h]] = Append(@, Frame(id[h], j))]
                /\ Flat(qRX[h]) \o inn[id[h]] = Frame(id[h], j) \o (Flat(q) \o r)
    BY ReadEffect
  <2>2. \E q \in Seq(Full(Bytes)), r \in Seq(Bytes), j \in 0..told[id[h]] :
          /\ qRX' = [qRX EXCEPT ![h] = q] /\ inn' = [inn EXCEPT ![id[h]] = r]
          /\ Flat(q) \o r = Stream(id[h], j, told[id[h]])
    BY <2>1
  <2> QED BY <1>1, <2>2
<1>4. UNCHANGED <<table, qTX, told, got>>
  BY DEF Read
<1>5. Typed'
  BY <1>3, <1>4 DEF DInv, Typed, Queues
<1>6. Forgotten'
  <2> SUFFICES ASSUME NEW x \in Conns, ~Up(x)' PROVE inn'[x] = << >> /\ told'[x] = 0
    BY DEF Forgotten
  <2>1. ~Up(x)
    BY <1>4 DEF Up, Hooked, table
  <2>2. inn'[x] = inn[x]
    BY <1>2, <1>3, <2>1 DEF DInv, Typed
  <2> QED BY <1>4, <2>1, <2>2 DEF DInv, Forgotten
<1>7. Aligned'
  <2> SUFFICES ASSUME NEW g \in Multi, Hooked(g)'
               PROVE  \E l \in 0..told'[id'[g]] :
                        Flat(qRX'[g]) \o inn'[id'[g]] = Stream(id'[g], l, told'[id'[g]])
    BY DEF Aligned
  <2>1. id' = id /\ told' = told /\ Hooked(g)
    BY <1>4 DEF table, Hooked
  <2>2. CASE g = h
    <3>1. qRX'[g] = q /\ inn'[c] = r
      BY <1>2, <1>3, <2>2 DEF DInv, Typed, Queues
    <3> QED BY <1>1, <1>3, <2>1, <2>2, <3>1
  <2>3. CASE g # h
    <3>1. id[g] # c /\ id[g] \in Conns
      BY <1>1, <1>2, <2>1, <2>3, ConnAndHook, Numbers DEF IInv, TableWhole
    <3>2. qRX'[g] = qRX[g] /\ inn'[id[g]] = inn[id[g]]
      BY <1>3, <2>3, <3>1, Numbers DEF DInv, Typed, Queues
    <3> QED BY <2>1, <3>2 DEF DInv, Aligned
  <2> QED BY <2>2, <2>3
<1> QED BY <1>5, <1>6, <1>7 DEF DInv

LEMMA SendKeepsDInv ==
  ASSUME IInv, WInv, DInv, NEW h \in Multi, PeerSends(h)
  PROVE  DInv'
<1>1. PICK c : c = id[h]
  OBVIOUS
<1>2. Hooked(h) /\ c \in Conns /\ h \in AllHooks /\ Up(c)
  BY <1>1, ConnAndHook, Numbers DEF PeerSends
<1>3. PICK k : k = told[c]
  OBVIOUS
<1>4. /\ k + 1 \in DOMAIN Body[c] /\ told' = [told EXCEPT ![c] = k + 1]
      /\ inn' = [inn EXCEPT ![c] = inn[c] \o Frame(c, k + 1)]
      /\ UNCHANGED <<table, qTX, qRX, got>>
  BY <1>1, <1>3 DEF PeerSends, queues
<1>5. k \in 0..Len(Body[c]) /\ k + 1 \in 1..Len(Body[c]) /\ k < Len(Body[c]) /\ k \in Nat
  <2>1. k \in Nat /\ k + 1 \in 1..Len(Body[c]) /\ Len(Body[c]) \in Nat
    BY <1>2, <1>3, <1>4, BodyLength DEF DInv, Typed
  <2> QED BY <2>1
<1>6. Frame(c, k + 1) \in Seq(Bytes) /\ inn[c] \in Seq(Bytes)
  <2> DEFINE i == k + 1
  <2>1. i \in 1..Len(Body[c])
    BY <1>5
  <2> HIDE DEF i
  <2>2. Frame(c, i) \in Seq(Bytes)
    BY <1>2, <2>1, FrameProperties
  <2> QED BY <1>2, <2>2 DEF i, DInv, Typed
<1>7. inn[c] \o Frame(c, k + 1) \in Seq(Bytes)
  BY <1>6, ConcatProperties
<1>8. \A x \in Conns : x # c => inn'[x] = inn[x] /\ told'[x] = told[x]
  BY <1>4 DEF DInv, Typed
<1>9. inn'[c] = inn[c] \o Frame(c, k + 1) /\ told'[c] = k + 1
  BY <1>2, <1>4 DEF DInv, Typed
<1>10. Typed'
  <2>1. inn' \in [Conns -> Seq(Bytes)]
    BY <1>4, <1>7 DEF DInv, Typed
  <2>2. told' \in [Conns -> Nat]
    <3>1. k + 1 \in Nat
      BY <1>5
    <3> QED BY <1>4, <3>1 DEF DInv, Typed
  <2>3. \A x \in Conns : told'[x] <= Len(Body[x])
    <3> SUFFICES ASSUME NEW x \in Conns PROVE told'[x] <= Len(Body[x])
      OBVIOUS
    <3>1. CASE x = c
      <4>1. told'[x] = k + 1 /\ Len(Body[x]) \in Nat /\ k + 1 \in 1..Len(Body[x])
        BY <1>5, <1>9, <3>1, BodyLength
      <4> QED BY <4>1
    <3>2. CASE x # c
      <4>1. told'[x] = told[x]
        BY <1>8, <3>2
      <4> QED BY <4>1 DEF DInv, Typed
    <3> QED BY <3>1, <3>2
  <2> QED BY <1>4, <2>1, <2>2, <2>3 DEF DInv, Typed
<1>11. Forgotten'
  <2> SUFFICES ASSUME NEW x \in Conns, ~Up(x)' PROVE inn'[x] = << >> /\ told'[x] = 0
    BY DEF Forgotten
  <2>1. ~Up(x)
    BY <1>4 DEF Up, Hooked, table
  <2> QED BY <1>2, <1>8, <2>1 DEF DInv, Forgotten
<1>12. Aligned'
  <2> SUFFICES ASSUME NEW g \in Multi, Hooked(g)'
               PROVE  \E l \in 0..told'[id'[g]] :
                        Flat(qRX'[g]) \o inn'[id'[g]] = Stream(id'[g], l, told'[id'[g]])
    BY DEF Aligned
  <2>1. id' = id /\ qRX' = qRX /\ Hooked(g)
    BY <1>4 DEF table, Hooked
  <2>2. CASE g = h
    <3>1. PICK j \in 0..k : Flat(qRX[h]) \o inn[c] = Stream(c, j, k)
      BY <1>1, <1>2, <1>3 DEF DInv, Aligned
    <3>2. Stream(c, j, k + 1) = Stream(c, j, k) \o Frame(c, k + 1)
      BY <1>2, <1>5, StreamProperties
    <3>3. Flat(qRX[h]) \in Seq(Bytes)
      <4>1. qRX[h] \in Seq(Seq(Bytes))
        <5>1. qRX[h] \in Seq(Full(Bytes))
          BY <1>2 DEF DInv, Typed, Queues
        <5> QED BY <5>1, SeqMonotonic DEF Full
      <4> QED BY <4>1, FlatIsSeq
    <3>4. (Flat(qRX[h]) \o inn[c]) \o Frame(c, k + 1) = Flat(qRX[h]) \o (inn[c] \o Frame(c, k + 1))
      <4>1. \A a, b, d \in Seq(Bytes) : (a \o b) \o d = a \o (b \o d)
        BY ConcatAssociative
      <4> QED BY <1>6, <3>3, <4>1
    <3>5. Flat(qRX[h]) \o inn'[c] = Stream(c, j, told'[c])
      BY <1>9, <3>1, <3>2, <3>4
    <3>6. j \in 0..told'[c]
      BY <1>5, <1>9
    <3> QED BY <1>1, <2>1, <2>2, <3>5, <3>6
  <2>3. CASE g # h
    <3>1. id[g] # c /\ id[g] \in Conns
      BY <1>1, <1>2, <2>1, <2>3, ConnAndHook, Numbers DEF IInv, TableWhole
    <3> QED BY <1>8, <2>1, <3>1 DEF DInv, Aligned
  <2> QED BY <2>2, <2>3
<1> QED BY <1>10, <1>11, <1>12 DEF DInv

LEMMA StepKeepsDInv ==
  ASSUME IInv, WInv, DInv, [Next]_vars
  PROVE  DInv'
<1>1. ASSUME UNCHANGED <<table, qRX, inn, told, qTX, got>> PROVE DInv'
  <2>1. qTX' \in Queues /\ got' \in [Conns -> Seq(Bytes)]
    BY <1>1 DEF DInv, Typed
  <2> QED BY <1>1, <2>1, OutKeepsDInv
<1>2. ASSUME NEW h \in Multi, Write(h) PROVE DInv'
  <2>1. PICK c, j : c = id[h] /\ j = said[c] + 1
    OBVIOUS
  <2>2. /\ Hooked(h) /\ j \in DOMAIN Body[c] /\ qTX' = [qTX EXCEPT ![h] = Append(@, Frame(c, j))]
        /\ UNCHANGED <<table, qRX, inn, told, got>>
    BY <1>2, <2>1 DEF Write, system
  <2>3. c \in Conns /\ h \in AllHooks
    BY <2>1, <2>2, ConnAndHook, Numbers
  <2>4. Frame(c, j) \in Full(Bytes)
    <3>1. j \in 1..Len(Body[c])
      BY <2>2, <2>3, BodyLength
    <3> QED BY <2>3, <3>1, FrameProperties
  <2>5. Append(qTX[h], Frame(c, j)) \in Seq(Full(Bytes))
    <3>1. qTX[h] \in Seq(Full(Bytes))
      BY <2>3 DEF DInv, Typed, Queues
    <3> QED BY <2>4, <3>1, AppendProperties
  <2>6. qTX' \in Queues
    BY <2>2, <2>5 DEF DInv, Typed, Queues
  <2> QED BY <2>2, <2>6, OutKeepsDInv DEF DInv, Typed
<1>3. CASE PushRound
  <2>1. PICK n \in 0..Len(Round) :
          /\ qTX' = [qTX EXCEPT ![busy] = Pushed(n)]
          /\ got' = [got EXCEPT ![id[busy]] = @ \o SubSeq(Round, 1, n)]
    BY <1>3 DEF PushRound
  <2>2. UNCHANGED <<table, qRX, inn, told>> /\ busy \in Multi /\ Hooked(busy) /\ busy \in AllHooks
    BY <1>3 DEF PushRound, system, IInv, Shape, TableWhole, WInv, MotherStays, AllHooks
  <2>3. id[busy] \in Conns
    BY <2>2, ConnAndHook
  <2>4. /\ Pushed(n) \in Seq(Full(Bytes)) /\ SubSeq(Round, 1, n) = SubSeq(Flat(qTX[busy]), 1, n)
        /\ n \in 0..Len(Flat(qTX[busy])) /\ Flat(qTX[busy]) \in Seq(Bytes)
    BY <2>2, PushEffect
  <2>5. SubSeq(Round, 1, n) \in Seq(Bytes)
    BY <2>4, TakeAndDrop
  <2>6. got[id[busy]] \o SubSeq(Round, 1, n) \in Seq(Bytes)
    <3>1. got[id[busy]] \in Seq(Bytes)
      BY <2>3 DEF DInv, Typed
    <3> QED BY <2>5, <3>1, ConcatProperties
  <2>7. qTX' \in Queues /\ got' \in [Conns -> Seq(Bytes)]
    BY <2>1, <2>4, <2>6 DEF DInv, Typed, Queues
  <2> QED BY <2>2, <2>7, OutKeepsDInv
<1>4. ASSUME NEW h \in Multi, Close(h) \/ ReadError(h) PROVE DInv'
  <2>1. Hooked(h) /\ Unhook(h) /\ qRX' = qRX /\ qTX' = qTX
    BY <1>4 DEF Close, ReadError, queues
  <2> QED BY <2>1, UnhookKeepsDInv DEF DInv, Typed
<1>5. CASE PushError
  <2>1. busy \in Multi /\ Hooked(busy) /\ busy \in AllHooks
    BY <1>5 DEF PushError, IInv, Shape, TableWhole, WInv, MotherStays, AllHooks
  <2>2. Unhook(busy) /\ qRX' = qRX /\ qTX' = [qTX EXCEPT ![busy] = Cut(qTX[busy], Len(Round))]
    BY <1>5 DEF PushError
  <2>3. Cut(qTX[busy], Len(Round)) \in Seq(Full(Bytes))
    <3>1. 0 \in 0..Len(Round)
      BY <2>1, RoundIsSeq
    <3> QED BY <2>1, <3>1, PushEffect
  <2>4. qTX' \in Queues
    BY <2>2, <2>3 DEF DInv, Typed, Queues
  <2> QED BY <2>1, <2>2, <2>4, UnhookKeepsDInv
<1>6. ASSUME NEW h \in Multi, ReadClosed(h) \/ PeerHangsUp(h) PROVE DInv'
  BY <1>1, <1>6 DEF ReadClosed, PeerHangsUp, queues, system, history
<1>7. ASSUME NEW r \in SUBSET Readable, NEW w \in SUBSET Pending, Select(r, w) PROVE DInv'
  BY <1>1, <1>7 DEF Select, queues, system, history
<1>8. CASE Scan \/ Flush \/ WaitDone \/ TurnAway \/ PeerConnects
  BY <1>1, <1>8 DEF Scan, Flush, WaitDone, TurnAway, PeerConnects, queues, system, history
<1>9. CASE UNCHANGED vars
  BY <1>1, <1>9 DEF vars, queues, system, history
<1> QED BY <1>2, <1>3, <1>4, <1>5, <1>6, <1>7, <1>8, <1>9,
           AcceptKeepsDInv, ReadKeepsDInv, SendKeepsDInv DEF Next

LEMMA AllHolds == Spec => [](IInv /\ WInv /\ DInv)
<1>1. Init => IInv /\ WInv /\ DInv
  BY InitIInv, InitWInv, InitDInv
<1>2. IInv /\ WInv /\ DInv /\ [Next]_vars => (IInv /\ WInv /\ DInv)'
  BY StepKeepsIInv, StepKeepsWInv, StepKeepsDInv
<1> QED BY <1>1, <1>2, PTL DEF Spec

(* Every variable stays what it is said to be: the hooks have the ids of   *)
(* connections, no queue has an empty element, which the loops of cQueue   *)
(* would not get past, and what Wait holds is there while it is running.   *)
THEOREM TypeCorrect == Spec => []TypeOK
<1>1. IInv /\ WInv /\ DInv => TypeOK
  <2> SUFFICES ASSUME IInv, WInv, DInv PROVE TypeOK
    OBVIOUS
  <2>1. id \in [AllHooks -> Conns \cup {Mother, None}]
    <3>1. ASSUME NEW h \in AllHooks PROVE id[h] \in Conns \cup {Mother, None}
      <4>1. CASE h = Mother
        BY <4>1 DEF WInv, MotherStays, Mother
      <4>2. CASE h # Mother
        <5>1. h \in Multi
          BY <4>2 DEF AllHooks
        <5> QED BY <5>1, ConnAndHook DEF IInv, FreeHasNoId
      <4> QED BY <4>1, <4>2
    <3> QED BY <3>1 DEF IInv, Shape
  <2>2. ASSUME NEW h \in AllHooks, NEW q \in {qTX[h], qRX[h]}, NEW i \in DOMAIN q
        PROVE  q[i] \in Seq(Bytes) \ {<< >>}
    <3>1. q \in Seq(Full(Bytes))
      BY DEF DInv, Typed, Queues
    <3>2. i \in 1..Len(q)
      BY <3>1, LenProperties
    <3>3. q[i] \in Full(Bytes)
      BY <3>1, <3>2, ElementOfSeq
    <3> QED BY <3>3 DEF Full
  <2>3. wait = NoWait <=> at = "out"
    BY DEF WInv, Serving, NoWait
  <2>4. busy \in Multi \cup {None}
    BY DEF IInv, Shape, WInv, MotherStays, AllHooks
  <2> QED BY <2>1, <2>2, <2>3, <2>4 DEF TypeOK, IInv, Shape, WInv, Numbered, Serving
<1> QED BY <1>1, AllHolds, PTL

-----------------------------------------------------------------------------
(* The streams of Streams, connection by connection.                       *)
StateOf(c) == IF Up(c) THEN "up" ELSE IF c < newid THEN "down" ELSE "new"
Unheard(c) == IF Up(c) THEN Flat(qRX[HookOf(c)]) \o inn[c] ELSE << >>

StateBar == [c \in Conns |-> StateOf(c)]
OutBar   == [c \in Conns |-> Unsent(c)]
InBar    == [c \in Conns |-> Unheard(c)]

LEMMA HookIs ==
  ASSUME IInv, NEW x, NEW g \in Multi, Hooked(g), id[g] = x
  PROVE  Up(x) /\ HookOf(x) = g
<1>1. \A h \in Multi : Hooked(h) /\ id[h] = x <=> h = g
  BY Numbers DEF IInv, TableWhole
<1> QED BY <1>1 DEF Up, HookOf

LEMMA HookIsNext ==
  ASSUME IInv', NEW x, NEW g \in Multi, Hooked(g)', id'[g] = x
  PROVE  Up(x)' /\ HookOf(x)' = g
<1>1. \A h \in Multi : Hooked(h)' /\ id'[h] = x <=> h = g
  BY Numbers DEF IInv, TableWhole
<1> QED BY <1>1 DEF Up, HookOf

(* The streams of a connection are those of its hook,                      *)
LEMMA AtHook ==
  ASSUME IInv, NEW x, NEW g \in Multi, Hooked(g), id[g] = x
  PROVE  StateOf(x) = "up" /\ Unsent(x) = Flat(qTX[g]) /\ Unheard(x) = Flat(qRX[g]) \o inn[x]
<1>1. Up(x) /\ HookOf(x) = g
  BY HookIs
<1> QED BY <1>1 DEF StateOf, Unsent, Unheard

LEMMA AtHookNext ==
  ASSUME IInv', NEW x, NEW g \in Multi, Hooked(g)', id'[g] = x
  PROVE  /\ StateOf(x)' = "up" /\ Unsent(x)' = Flat(qTX'[g])
         /\ Unheard(x)' = Flat(qRX'[g]) \o inn'[x]
<1>1. Up(x)' /\ HookOf(x)' = g
  BY HookIsNext
<1> QED BY <1>1 DEF StateOf, Unsent, Unheard

(* and they stay as they are with it.                                      *)
LEMMA Elsewhere ==
  ASSUME IInv, IInv', NEW x \in Conns, NEW h \in Multi,
         \A g \in Multi : Hooked(g) /\ id[g] = x <=> Hooked(g)' /\ id'[g] = x,
         \A g \in Multi : Hooked(g) /\ id[g] = x => qTX'[g] = qTX[g] /\ qRX'[g] = qRX[g],
         x < newid <=> x < newid', inn'[x] = inn[x]
  PROVE  StateOf(x)' = StateOf(x) /\ Unsent(x)' = Unsent(x) /\ Unheard(x)' = Unheard(x)
<1>1. CASE Up(x)
  <2>1. PICK g \in Multi : Hooked(g) /\ id[g] = x
    BY <1>1 DEF Up
  <2>2. Hooked(g)' /\ id'[g] = x /\ qTX'[g] = qTX[g] /\ qRX'[g] = qRX[g]
    BY <2>1
  <2>3. StateOf(x) = "up" /\ Unsent(x) = Flat(qTX[g]) /\ Unheard(x) = Flat(qRX[g]) \o inn[x]
    BY <2>1, AtHook
  <2>4. /\ StateOf(x)' = "up" /\ Unsent(x)' = Flat(qTX'[g])
        /\ Unheard(x)' = Flat(qRX'[g]) \o inn'[x]
    BY <2>2, AtHookNext
  <2> QED BY <2>2, <2>3, <2>4
<1>2. CASE ~Up(x)
  <2>1. ~Up(x)'
    BY <1>2 DEF Up
  <2> QED BY <1>2, <2>1 DEF StateOf, Unsent, Unheard
<1> QED BY <1>1, <1>2

(* A step at one connection.                                               *)
LEMMA OneConn ==
  ASSUME NEW c \in Conns, NEW s, NEW o, NEW i,
         StateOf(c)' = s, Unsent(c)' = o, Unheard(c)' = i,
         \A x \in Conns : x # c => StateOf(x)' = StateOf(x) /\ Unsent(x)' = Unsent(x) /\ Unheard(x)' = Unheard(x)
  PROVE  /\ StateBar' = [StateBar EXCEPT ![c] = s] /\ OutBar' = [OutBar EXCEPT ![c] = o]
         /\ InBar' = [InBar EXCEPT ![c] = i]
         /\ s = StateOf(c) => StateBar' = StateBar
         /\ o = Unsent(c) => OutBar' = OutBar
         /\ i = Unheard(c) => InBar' = InBar
<1>1. /\ StateBar' = [x \in Conns |-> IF x = c THEN s ELSE StateOf(x)]
      /\ OutBar' = [x \in Conns |-> IF x = c THEN o ELSE Unsent(x)]
      /\ InBar' = [x \in Conns |-> IF x = c THEN i ELSE Unheard(x)]
  BY DEF StateBar, OutBar, InBar
<1> QED BY <1>1 DEF StateBar, OutBar, InBar

(* A step at one hook that stays where it is.                              *)
OnlyAt(h, c) ==
  /\ Hooked(h) /\ c = id[h] /\ UNCHANGED <<fd, id, newid>>
  /\ \A g \in Multi : g # h => qTX'[g] = qTX[g] /\ qRX'[g] = qRX[g]
  /\ \A x \in Conns : x # c => inn'[x] = inn[x]

LEMMA OneHook ==
  ASSUME IInv, WInv, IInv', NEW h \in Multi, NEW c, OnlyAt(h, c)
  PROVE  /\ c \in Conns /\ StateBar[c] = "up" /\ StateBar' = StateBar
         /\ OutBar[c] = Flat(qTX[h]) /\ InBar[c] = Flat(qRX[h]) \o inn[c]
         /\ OutBar' = [OutBar EXCEPT ![c] = Flat(qTX'[h])]
         /\ Flat(qTX'[h]) = Flat(qTX[h]) => OutBar' = OutBar
         /\ InBar' = [InBar EXCEPT ![c] = Flat(qRX'[h]) \o inn'[c]]
         /\ Flat(qRX'[h]) \o inn'[c] = Flat(qRX[h]) \o inn[c] => InBar' = InBar
<1> USE DEF OnlyAt
<1>1. c \in Conns /\ Hooked(h)' /\ id'[h] = c
  BY ConnAndHook DEF Hooked
<1>2. StateOf(c) = "up" /\ Unsent(c) = Flat(qTX[h]) /\ Unheard(c) = Flat(qRX[h]) \o inn[c]
  BY AtHook
<1>3. StateOf(c)' = "up" /\ Unsent(c)' = Flat(qTX'[h]) /\ Unheard(c)' = Flat(qRX'[h]) \o inn'[c]
  BY <1>1, AtHookNext
<1>4. ASSUME NEW x \in Conns, x # c
      PROVE  StateOf(x)' = StateOf(x) /\ Unsent(x)' = Unsent(x) /\ Unheard(x)' = Unheard(x)
  <2>1. \A g \in Multi : Hooked(g) /\ id[g] = x <=> Hooked(g)' /\ id'[g] = x
    BY DEF Hooked
  <2>2. \A g \in Multi : Hooked(g) /\ id[g] = x => qTX'[g] = qTX[g] /\ qRX'[g] = qRX[g]
    BY <1>4
  <2>3. (x < newid <=> x < newid') /\ inn'[x] = inn[x]
    BY <1>4
  <2> QED BY <2>1, <2>2, <2>3, Elsewhere
<1>5. StateBar[c] = "up" /\ OutBar[c] = Flat(qTX[h]) /\ InBar[c] = Flat(qRX[h]) \o inn[c]
  BY <1>1, <1>2 DEF StateBar, OutBar, InBar
<1>6. PICK o, i : o = Flat(qTX'[h]) /\ i = Flat(qRX'[h]) \o inn'[c]
  OBVIOUS
<1>7. /\ StateBar' = StateBar /\ OutBar' = [OutBar EXCEPT ![c] = o] /\ InBar' = [InBar EXCEPT ![c] = i]
      /\ o = Unsent(c) => OutBar' = OutBar
      /\ i = Unheard(c) => InBar' = InBar
  <2>1. StateOf(c)' = "up" /\ Unsent(c)' = o /\ Unheard(c)' = i
    BY <1>3, <1>6
  <2>2. /\ StateBar' = [StateBar EXCEPT ![c] = "up"] /\ OutBar' = [OutBar EXCEPT ![c] = o]
        /\ InBar' = [InBar EXCEPT ![c] = i]
        /\ "up" = StateOf(c) => StateBar' = StateBar
        /\ o = Unsent(c) => OutBar' = OutBar
        /\ i = Unheard(c) => InBar' = InBar
    BY <1>1, <1>4, <2>1, OneConn
  <2> QED BY <1>2, <2>2
<1> QED BY <1>1, <1>2, <1>5, <1>6, <1>7

LEMMA NoHook ==
  ASSUME UNCHANGED <<fd, id, newid, qTX, qRX, inn>>
  PROVE  StateBar' = StateBar /\ OutBar' = OutBar /\ InBar' = InBar
BY DEF StateBar, OutBar, InBar, StateOf, Unsent, Unheard, Up, HookOf, Hooked

LEMMA DropOfFront ==
  ASSUME NEW S, NEW f \in Seq(S), NEW r \in Seq(S)
  PROVE  SubSeq(f \o r, Len(f) + 1, Len(f \o r)) = r
<1> DEFINE l == Len(f)
<1>1. l \in Nat
  BY LenProperties
<1>2. Drop(f \o r, l) = Drop(f, l) \o Drop(r, IF Len(f) <= l THEN l - Len(f) ELSE 0)
  <2>1. f \in Seq(S) /\ r \in Seq(S) /\ l \in Nat
    BY <1>1
  <2> HIDE DEF l
  <2> QED BY <2>1, DropOfConcat
<1>3. (IF Len(f) <= l THEN l - Len(f) ELSE 0) = 0
  BY <1>1
<1>4. Drop(r, 0) = r
  BY DropNone
<1>5. Drop(f, l) = << >>
  <2>1. f \in Seq(S) /\ l \in Nat /\ l >= Len(f)
    BY <1>1
  <2> HIDE DEF l
  <2> QED BY <2>1, DropAll
<1>6. << >> \o r = r
  BY ConcatEmptySeq
<1> QED BY <1>2, <1>3, <1>4, <1>5, <1>6 DEF Drop

-----------------------------------------------------------------------------
(* The steps of the streams.                                               *)
LEMMA OpenRefines ==
  ASSUME IInv, WInv, DInv, IInv', Accept
  PROVE  Abstract!StreamsNext
<1>1. PICK h \in Multi :
           /\ ~Hooked(h) /\ newid \in Conns /\ ~Up(newid) /\ newid' = newid + 1
           /\ Hooked(h)' /\ id'[h] = newid
           /\ \A g \in Multi : g # h => (Hooked(g)' <=> Hooked(g)) /\ id'[g] = id[g]
           /\ qTX' = [qTX EXCEPT ![h] = << >>] /\ qRX' = [qRX EXCEPT ![h] = << >>]
           /\ UNCHANGED <<inn, told, got, heard>>
  BY NewHook
<1>2. PICK c : c = newid
  OBVIOUS
<1>3. c \in Conns /\ h \in AllHooks /\ c \in Nat
  BY <1>1, <1>2, Numbers DEF Conns
<1>4. StateOf(c) = "new" /\ Unsent(c) = << >> /\ Unheard(c) = << >>
  <2>1. ~(c < newid)
    BY <1>2, <1>3
  <2> QED BY <1>1, <1>2, <2>1 DEF StateOf, Unsent, Unheard
<1>5. StateOf(c)' = "up" /\ Unsent(c)' = << >> /\ Unheard(c)' = << >>
  <2>1. qTX'[h] = << >> /\ qRX'[h] = << >>
    BY <1>1, <1>3 DEF DInv, Typed, Queues
  <2>2. inn'[c] = << >>
    BY <1>1, <1>2, <1>3 DEF DInv, Forgotten
  <2>3. << >> \o << >> = << >>
    <3>1. << >> \in Seq(Bytes)
      BY EmptySeq
    <3> QED BY <3>1, ConcatEmptySeq
  <2>4. /\ StateOf(c)' = "up" /\ Unsent(c)' = Flat(qTX'[h])
        /\ Unheard(c)' = Flat(qRX'[h]) \o inn'[c]
    BY <1>1, <1>2, AtHookNext
  <2> QED BY <2>1, <2>2, <2>3, <2>4, FlatOfNone
<1>6. ASSUME NEW x \in Conns, x # c
      PROVE  StateOf(x)' = StateOf(x) /\ Unsent(x)' = Unsent(x) /\ Unheard(x)' = Unheard(x)
  <2>1. \A g \in Multi : Hooked(g) /\ id[g] = x <=> Hooked(g)' /\ id'[g] = x
    BY <1>1, <1>2, <1>6
  <2>2. \A g \in Multi : Hooked(g) /\ id[g] = x => qTX'[g] = qTX[g] /\ qRX'[g] = qRX[g]
    BY <1>1, Numbers DEF DInv, Typed, Queues
  <2>3. x < newid <=> x < newid'
    <3>1. x \in Nat /\ newid \in Nat /\ x # newid /\ newid' = newid + 1
      BY <1>1, <1>2, <1>3, <1>6 DEF Conns
    <3> QED BY <3>1
  <2>4. inn'[x] = inn[x]
    BY <1>1
  <2> QED BY <1>1, <2>1, <2>2, <2>3, <2>4, Elsewhere
<1>7. StateBar' = [StateBar EXCEPT ![c] = "up"] /\ OutBar' = OutBar /\ InBar' = InBar
  <2>1. /\ StateBar' = [StateBar EXCEPT ![c] = "up"]
        /\ << >> = Unsent(c) => OutBar' = OutBar
        /\ << >> = Unheard(c) => InBar' = InBar
    BY <1>3, <1>5, <1>6, OneConn
  <2> QED BY <1>4, <2>1
<1>8. StateBar[c] = "new"
  BY <1>3, <1>4 DEF StateBar
<1>9. Abstract!Open(c)
  BY <1>1, <1>7, <1>8 DEF Abstract!Open, StateBar, OutBar, InBar, StateOf, Unheard
<1> QED BY <1>3, <1>9 DEF Abstract!StreamsNext

LEMMA CloseRefines ==
  ASSUME IInv, WInv, DInv, IInv', NEW h \in Multi, Hooked(h), Unhook(h), qRX' = qRX,
         \A g \in Multi : g # h => qTX'[g] = qTX[g]
  PROVE  Abstract!StreamsNext
<1>1. PICK c : c = id[h]
  OBVIOUS
<1>2. c \in Conns /\ c < newid /\ newid' = newid
  BY <1>1, ConnAndHook, UnhookKeepsTables
<1>3. /\ inn' = [inn EXCEPT ![c] = << >>]
      /\ got' = [got EXCEPT ![c] = << >>] /\ heard' = [heard EXCEPT ![c] = << >>]
  BY <1>1 DEF Unhook
<1>4. \A g \in Multi : g # h => (Hooked(g)' <=> Hooked(g)) /\ id'[g] = id[g]
  BY UnhookKeepsTables
<1>5. ~Hooked(h)'
  BY UnhookKeepsTables
<1>6. \A g \in Multi : Hooked(g)' => id'[g] # c
  BY <1>1, <1>4, <1>5, Numbers DEF IInv, TableWhole
<1>7. StateOf(c)' = "down" /\ Unsent(c)' = << >> /\ Unheard(c)' = << >>
  <2>1. ~Up(c)'
    BY <1>6 DEF Up
  <2> QED BY <1>2, <2>1 DEF StateOf, Unsent, Unheard
<1>8. ASSUME NEW x \in Conns, x # c
      PROVE  StateOf(x)' = StateOf(x) /\ Unsent(x)' = Unsent(x) /\ Unheard(x)' = Unheard(x)
  <2>1. \A g \in Multi : Hooked(g) /\ id[g] = x <=> Hooked(g)' /\ id'[g] = x
    BY <1>1, <1>4, <1>5, <1>8
  <2>2. \A g \in Multi : Hooked(g) /\ id[g] = x => qTX'[g] = qTX[g] /\ qRX'[g] = qRX[g]
    BY <1>1, <1>8
  <2>3. (x < newid <=> x < newid') /\ inn'[x] = inn[x]
    BY <1>2, <1>3, <1>8 DEF DInv, Typed
  <2> QED BY <2>1, <2>2, <2>3, Elsewhere
<1>9. /\ StateBar' = [StateBar EXCEPT ![c] = "down"] /\ OutBar' = [OutBar EXCEPT ![c] = << >>]
      /\ InBar' = [InBar EXCEPT ![c] = << >>]
  BY <1>2, <1>7, <1>8, OneConn
<1>10. StateBar[c] = "up"
  <2>1. StateOf(c) = "up"
    BY <1>1, AtHook
  <2> QED BY <1>2, <2>1 DEF StateBar
<1>11. Abstract!Close(c)
  BY <1>3, <1>9, <1>10 DEF Abstract!Close, StateBar, OutBar, InBar, StateOf, Unheard
<1> QED BY <1>2, <1>11 DEF Abstract!StreamsNext

LEMMA PutRefines ==
  ASSUME IInv, WInv, DInv, IInv', NEW h \in Multi, Write(h)
  PROVE  Abstract!StreamsNext
<1>1. PICK c, j : c = id[h] /\ j = said[c] + 1
  OBVIOUS
<1>2. /\ Hooked(h) /\ j \in DOMAIN Body[c] /\ qTX' = [qTX EXCEPT ![h] = Append(@, Frame(c, j))]
      /\ UNCHANGED <<table, qRX, inn, got, heard>>
  BY <1>1 DEF Write, system
<1>3. c \in Conns /\ h \in AllHooks
  BY <1>1, <1>2, ConnAndHook, Numbers
<1>4. PICK m : m = Frame(c, j)
  OBVIOUS
<1>5. m \in Seq(Bytes) /\ m \in Frames[c]
  <2>1. j \in 1..Len(Body[c])
    BY <1>2, <1>3, BodyLength
  <2> QED BY <1>3, <1>4, <2>1, FrameProperties
<1>6. Flat(qTX'[h]) = Flat(qTX[h]) \o m
  <2>1. qTX[h] \in Seq(Seq(Bytes)) /\ qTX'[h] = Append(qTX[h], m)
    <3>1. qTX[h] \in Seq(Full(Bytes)) /\ qTX'[h] = Append(qTX[h], m)
      BY <1>2, <1>3, <1>4 DEF DInv, Typed, Queues
    <3> QED BY <3>1, SeqMonotonic DEF Full
  <2> QED BY <1>5, <2>1, FlatOfAppend
<1>7. /\ StateBar[c] = "up" /\ StateBar' = StateBar /\ OutBar[c] = Flat(qTX[h])
      /\ OutBar' = [OutBar EXCEPT ![c] = Flat(qTX'[h])] /\ InBar' = InBar
  <2>1. UNCHANGED <<fd, id, newid>> /\ \A g \in Multi : g # h => qTX'[g] = qTX[g] /\ qRX'[g] = qRX[g]
    BY <1>2 DEF table, DInv, Typed, Queues
  <2>2. \A x \in Conns : inn'[x] = inn[x]
    BY <1>2
  <2>3. Flat(qRX'[h]) \o inn'[c] = Flat(qRX[h]) \o inn[c]
    BY <1>2
  <2>4. OnlyAt(h, c)
    BY <1>1, <1>2, <2>1, <2>2 DEF OnlyAt
  <2> QED BY <2>3, <2>4, OneHook
<1>8. OutBar' = [OutBar EXCEPT ![c] = @ \o m]
  BY <1>6, <1>7
<1>9. Abstract!Put(c, m)
  BY <1>2, <1>7, <1>8 DEF Abstract!Put, StateBar, OutBar, InBar, StateOf, Unheard
<1> QED BY <1>3, <1>5, <1>9 DEF Abstract!StreamsNext

LEMMA TakeRefines ==
  ASSUME IInv, WInv, DInv, IInv', PushRound
  PROVE  \/ Abstract!StreamsNext
         \/ UNCHANGED <<StateBar, OutBar, InBar, got, heard>>
<1>1. PICK n \in 0..Len(Round) :
        /\ qTX' = [qTX EXCEPT ![busy] = Pushed(n)]
        /\ got' = [got EXCEPT ![id[busy]] = @ \o SubSeq(Round, 1, n)]
  BY DEF PushRound
<1>2. UNCHANGED <<table, qRX, inn, heard>> /\ busy \in Multi /\ Hooked(busy) /\ busy \in AllHooks
  BY DEF PushRound, system, IInv, Shape, TableWhole, WInv, MotherStays, AllHooks
<1>3. PICK h, c : h = busy /\ c = id[h]
  OBVIOUS
<1>4. c \in Conns
  BY <1>2, <1>3, ConnAndHook
<1>5. PICK F : F = Flat(qTX[h])
  OBVIOUS
<1>6. /\ Flat(Pushed(n)) = Drop(F, n) /\ SubSeq(Round, 1, n) = SubSeq(F, 1, n)
      /\ n \in 0..Len(F) /\ F \in Seq(Bytes)
  BY <1>2, <1>3, <1>5, PushEffect
<1>7. Flat(qTX'[h]) = Drop(F, n)
  <2>1. qTX'[h] = Pushed(n)
    BY <1>1, <1>2, <1>3 DEF DInv, Typed, Queues
  <2> QED BY <1>6, <2>1
<1>8. /\ StateBar[c] = "up" /\ StateBar' = StateBar /\ OutBar[c] = F
      /\ OutBar' = [OutBar EXCEPT ![c] = Drop(F, n)] /\ InBar' = InBar
      /\ Drop(F, n) = F => OutBar' = OutBar
  <2>1. UNCHANGED <<fd, id, newid>> /\ \A g \in Multi : g # h => qTX'[g] = qTX[g] /\ qRX'[g] = qRX[g]
    BY <1>1, <1>2, <1>3 DEF table, DInv, Typed, Queues
  <2>2. \A x \in Conns : inn'[x] = inn[x]
    BY <1>2
  <2>3. Flat(qRX'[h]) \o inn'[c] = Flat(qRX[h]) \o inn[c]
    BY <1>2
  <2>4. h \in Multi /\ OnlyAt(h, c)
    BY <1>2, <1>3, <2>1, <2>2 DEF OnlyAt
  <2>5. /\ StateBar[c] = "up" /\ StateBar' = StateBar /\ OutBar[c] = Flat(qTX[h])
        /\ OutBar' = [OutBar EXCEPT ![c] = Flat(qTX'[h])] /\ InBar' = InBar
        /\ Flat(qTX'[h]) = Flat(qTX[h]) => OutBar' = OutBar
    BY <2>3, <2>4, OneHook
  <2> QED BY <1>5, <1>7, <2>5
<1>9. got' = [got EXCEPT ![c] = @ \o SubSeq(F, 1, n)]
  BY <1>1, <1>3, <1>6
<1>10. CASE n = 0
  <2>1. Drop(F, n) = F
    BY <1>6, <1>10, DropNone
  <2>2. got' = got
    <3>1. SubSeq(F, 1, n) = << >>
      BY <1>10, SubSeqEmpty
    <3>2. got[c] \in Seq(Bytes) /\ got \in [Conns -> Seq(Bytes)]
      BY <1>4 DEF DInv, Typed
    <3>3. got[c] \o << >> = got[c]
      BY <3>2, ConcatEmptySeq
    <3> QED BY <1>9, <3>1, <3>2, <3>3
  <2> QED BY <1>2, <1>8, <2>1, <2>2
<1>11. CASE n # 0
  <2>1. n \in 1..Len(OutBar[c])
    <3>1. n \in 1..Len(F)
      <4>1. Len(F) \in Nat
        BY <1>6, LenProperties
      <4> QED BY <1>6, <1>11, <4>1
    <3> QED BY <1>8, <3>1
  <2>2. OutBar' = [OutBar EXCEPT ![c] = SubSeq(@, n + 1, Len(@))]
    BY <1>8 DEF Drop
  <2>3. got' = [got EXCEPT ![c] = @ \o SubSeq(OutBar[c], 1, n)]
    BY <1>8, <1>9
  <2>4. Abstract!Take(c, n)
    BY <1>2, <1>8, <2>2, <2>3 DEF Abstract!Take, StateBar, OutBar, InBar, StateOf, Unheard
  <2>5. n \in 1..Len([x \in Conns |-> Unsent(x)][c])
    BY <2>1 DEF OutBar
  <2>6. \E k \in 1..Len([x \in Conns |-> Unsent(x)][c]) : Abstract!Take(c, k)
    BY <2>4, <2>5
  <2> QED BY <1>4, <2>6 DEF Abstract!StreamsNext
<1> QED BY <1>10, <1>11

LEMMA ComeRefines ==
  ASSUME IInv, WInv, DInv, IInv', NEW h \in Multi, PeerSends(h)
  PROVE  Abstract!StreamsNext
<1>1. PICK c, j : c = id[h] /\ j = told[c] + 1
  OBVIOUS
<1>2. /\ Hooked(h) /\ j \in DOMAIN Body[c] /\ inn' = [inn EXCEPT ![c] = @ \o Frame(c, j)]
      /\ UNCHANGED <<table, qTX, qRX, got, heard>>
  BY <1>1 DEF PeerSends, queues
<1>3. c \in Conns /\ h \in AllHooks
  BY <1>1, <1>2, ConnAndHook, Numbers
<1>4. PICK m : m = Frame(c, j)
  OBVIOUS
<1>5. m \in Seq(Bytes) /\ m \in Frames[c]
  <2>1. j \in 1..Len(Body[c])
    BY <1>2, <1>3, BodyLength
  <2> QED BY <1>3, <1>4, <2>1, FrameProperties
<1>6. Flat(qRX'[h]) \o inn'[c] = (Flat(qRX[h]) \o inn[c]) \o m
  <2>1. qRX[h] \in Seq(Seq(Bytes)) /\ inn[c] \in Seq(Bytes) /\ inn'[c] = inn[c] \o m
    <3>1. qRX[h] \in Seq(Full(Bytes)) /\ inn[c] \in Seq(Bytes) /\ inn'[c] = inn[c] \o m
      BY <1>2, <1>3, <1>4 DEF DInv, Typed, Queues
    <3> QED BY <3>1, SeqMonotonic DEF Full
  <2>2. Flat(qRX[h]) \in Seq(Bytes)
    BY <2>1, FlatIsSeq
  <2>3. \A a, b, d \in Seq(Bytes) : (a \o b) \o d = a \o (b \o d)
    BY ConcatAssociative
  <2>4. (Flat(qRX[h]) \o inn[c]) \o m = Flat(qRX[h]) \o (inn[c] \o m)
    BY <1>5, <2>1, <2>2, <2>3
  <2> QED BY <1>2, <2>1, <2>4
<1>7. /\ StateBar[c] = "up" /\ StateBar' = StateBar /\ OutBar' = OutBar
      /\ InBar[c] = Flat(qRX[h]) \o inn[c]
      /\ InBar' = [InBar EXCEPT ![c] = Flat(qRX'[h]) \o inn'[c]]
  <2>1. UNCHANGED <<fd, id, newid>> /\ \A g \in Multi : g # h => qTX'[g] = qTX[g] /\ qRX'[g] = qRX[g]
    BY <1>2 DEF table
  <2>2. \A x \in Conns : x # c => inn'[x] = inn[x]
    BY <1>2 DEF DInv, Typed
  <2>3. Flat(qTX'[h]) = Flat(qTX[h])
    BY <1>2
  <2>4. OnlyAt(h, c)
    BY <1>1, <1>2, <2>1, <2>2 DEF OnlyAt
  <2> QED BY <2>3, <2>4, OneHook
<1>8. InBar' = [InBar EXCEPT ![c] = @ \o m]
  BY <1>6, <1>7
<1>9. Abstract!Come(c, m)
  BY <1>2, <1>7, <1>8 DEF Abstract!Come, StateBar, OutBar, InBar, StateOf, Unheard
<1> QED BY <1>3, <1>5, <1>9 DEF Abstract!StreamsNext

LEMMA HearRefines ==
  ASSUME IInv, WInv, DInv, IInv', NEW h \in Multi, Read(h)
  PROVE  \/ Abstract!StreamsNext
         \/ UNCHANGED <<StateBar, OutBar, InBar, got, heard>>
<1>1. PICK c : c = id[h]
  OBVIOUS
<1>2. Hooked(h) /\ c \in Conns /\ h \in AllHooks
  BY <1>1, ConnAndHook, Numbers DEF Read
<1>3. UNCHANGED <<table, qTX, got>>
  BY DEF Read
<1>4. PICK q \in Seq(Full(Bytes)), r \in Seq(Bytes), j \in 0..told[c] :
        /\ qRX' = [qRX EXCEPT ![h] = q] /\ inn' = [inn EXCEPT ![c] = r]
        /\ \/ heard' = heard /\ Flat(qRX[h]) \o inn[c] = Flat(q) \o r
           \/ /\ j # 0 /\ heard' = [heard EXCEPT ![c] = Append(@, Frame(c, j))]
              /\ Flat(qRX[h]) \o inn[c] = Frame(c, j) \o (Flat(q) \o r)
  <2>1. \E q \in Seq(Full(Bytes)), r \in Seq(Bytes), j \in 0..told[id[h]] :
          /\ qRX' = [qRX EXCEPT ![h] = q] /\ inn' = [inn EXCEPT ![id[h]] = r]
          /\ Flat(q) \o r = Stream(id[h], j, told[id[h]])
          /\ \/ heard' = heard /\ Flat(qRX[h]) \o inn[id[h]] = Flat(q) \o r
             \/ /\ j # 0 /\ heard' = [heard EXCEPT ![id[h]] = Append(@, Frame(id[h], j))]
                /\ Flat(qRX[h]) \o inn[id[h]] = Frame(id[h], j) \o (Flat(q) \o r)
    BY ReadEffect
  <2>2. \E q \in Seq(Full(Bytes)), r \in Seq(Bytes), j \in 0..told[id[h]] :
          /\ qRX' = [qRX EXCEPT ![h] = q] /\ inn' = [inn EXCEPT ![id[h]] = r]
          /\ \/ heard' = heard /\ Flat(qRX[h]) \o inn[id[h]] = Flat(q) \o r
             \/ /\ j # 0 /\ heard' = [heard EXCEPT ![id[h]] = Append(@, Frame(id[h], j))]
                /\ Flat(qRX[h]) \o inn[id[h]] = Frame(id[h], j) \o (Flat(q) \o r)
    BY <2>1
  <2> QED BY <1>1, <2>2
<1>5. PICK R : R = Flat(q) \o r
  OBVIOUS
<1>6. R \in Seq(Bytes)
  <2>1. q \in Seq(Seq(Bytes))
    BY SeqMonotonic DEF Full
  <2>2. Flat(q) \in Seq(Bytes)
    BY <2>1, FlatIsSeq
  <2> QED BY <1>5, <2>2, ConcatProperties
<1>7. qRX'[h] = q /\ inn'[c] = r
  BY <1>2, <1>4 DEF DInv, Typed, Queues
<1>8. /\ StateBar[c] = "up" /\ StateBar' = StateBar /\ OutBar' = OutBar
      /\ InBar[c] = Flat(qRX[h]) \o inn[c]
      /\ InBar' = [InBar EXCEPT ![c] = R] /\ (R = InBar[c] => InBar' = InBar)
  <2>1. UNCHANGED <<fd, id, newid>> /\ \A g \in Multi : g # h => qTX'[g] = qTX[g] /\ qRX'[g] = qRX[g]
    BY <1>3, <1>4 DEF table, DInv, Typed, Queues
  <2>2. \A x \in Conns : x # c => inn'[x] = inn[x]
    BY <1>4 DEF DInv, Typed
  <2>3. Flat(qTX'[h]) = Flat(qTX[h])
    BY <1>3
  <2>4. OnlyAt(h, c)
    BY <1>1, <1>2, <2>1, <2>2 DEF OnlyAt
  <2>5. /\ StateBar[c] = "up" /\ StateBar' = StateBar /\ OutBar' = OutBar
        /\ InBar[c] = Flat(qRX[h]) \o inn[c]
        /\ InBar' = [InBar EXCEPT ![c] = Flat(qRX'[h]) \o inn'[c]]
        /\ Flat(qRX'[h]) \o inn'[c] = Flat(qRX[h]) \o inn[c] => InBar' = InBar
    BY <2>3, <2>4, OneHook
  <2> QED BY <1>5, <1>7, <2>5
<1>9. CASE heard' = heard /\ Flat(qRX[h]) \o inn[c] = R
  BY <1>3, <1>8, <1>9
<1>10. CASE /\ j # 0 /\ heard' = [heard EXCEPT ![c] = Append(@, Frame(c, j))]
            /\ Flat(qRX[h]) \o inn[c] = Frame(c, j) \o R
  <2>1. PICK m : m = Frame(c, j)
    OBVIOUS
  <2>2. m \in Seq(Bytes) /\ m \in Frames[c]
    <3>1. told[c] \in Nat /\ told[c] <= Len(Body[c]) /\ Len(Body[c]) \in Nat
      BY <1>2, BodyLength DEF DInv, Typed
    <3>2. j \in 1..Len(Body[c])
      BY <1>10, <3>1
    <3> QED BY <1>2, <2>1, <3>2, FrameProperties
  <2>3. InBar[c] = m \o R /\ heard' = [heard EXCEPT ![c] = Append(@, m)]
    BY <1>8, <1>10, <2>1
  <2>4. SubSeq(InBar[c], Len(m) + 1, Len(InBar[c])) = R
    BY <1>6, <2>2, <2>3, DropOfFront
  <2>5. \E rest \in {SubSeq(InBar[c], Len(m) + 1, Len(InBar[c]))} :
          InBar[c] = m \o rest /\ InBar' = [InBar EXCEPT ![c] = rest]
    BY <1>8, <2>3, <2>4
  <2>6. Abstract!Hear(c, m)
    BY <1>3, <1>8, <2>3, <2>5 DEF Abstract!Hear, StateBar, OutBar, InBar, StateOf, Unheard
  <2> QED BY <1>2, <2>2, <2>6 DEF Abstract!StreamsNext
<1> QED BY <1>4, <1>5, <1>9, <1>10

LEMMA StepRefines ==
  ASSUME IInv, WInv, DInv, IInv', [Next]_vars
  PROVE  [Abstract!StreamsNext]_(Abstract!streams)
<1>1. ASSUME UNCHANGED <<StateBar, OutBar, InBar, got, heard>>
      PROVE  UNCHANGED Abstract!streams
  BY <1>1 DEF Abstract!streams, StateBar, OutBar, InBar, StateOf, Unheard
<1>2. ASSUME UNCHANGED <<fd, id, newid, qTX, qRX, inn, got, heard>>
      PROVE  UNCHANGED Abstract!streams
  BY <1>1, <1>2, NoHook
<1>3. ASSUME NEW h \in Multi, Close(h) \/ ReadError(h) PROVE Abstract!StreamsNext
  <2>1. Hooked(h) /\ Unhook(h) /\ UNCHANGED <<qTX, qRX>>
    BY <1>3 DEF Close, ReadError, queues
  <2> QED BY <2>1, CloseRefines
<1>4. CASE PushError
  <2>1. busy \in Multi /\ Hooked(busy) /\ Unhook(busy) /\ qRX' = qRX
    BY <1>4 DEF PushError, IInv, Shape, TableWhole, WInv, MotherStays, AllHooks
  <2>2. \A g \in Multi : g # busy => qTX'[g] = qTX[g]
    BY <1>4 DEF PushError, DInv, Typed, Queues, AllHooks
  <2> QED BY <2>1, <2>2, CloseRefines
<1>5. ASSUME NEW h \in Multi, Write(h) PROVE Abstract!StreamsNext
  BY <1>5, PutRefines
<1>6. ASSUME NEW h \in Multi, PeerSends(h) PROVE Abstract!StreamsNext
  BY <1>6, ComeRefines
<1>7. ASSUME NEW h \in Multi, Read(h) PROVE Abstract!StreamsNext \/ UNCHANGED Abstract!streams
  BY <1>1, <1>7, HearRefines
<1>8. CASE PushRound
  BY <1>1, <1>8, TakeRefines
<1>9. CASE Accept
  BY <1>9, OpenRefines
<1>10. ASSUME NEW h \in Multi, ReadClosed(h) \/ PeerHangsUp(h) PROVE UNCHANGED Abstract!streams
  BY <1>2, <1>10 DEF ReadClosed, PeerHangsUp, table, queues, system, history
<1>11. ASSUME NEW r \in SUBSET Readable, NEW w \in SUBSET Pending, Select(r, w)
       PROVE  UNCHANGED Abstract!streams
  BY <1>2, <1>11 DEF Select, table, queues, system, history
<1>12. CASE Scan \/ Flush \/ WaitDone \/ TurnAway \/ PeerConnects
  BY <1>2, <1>12 DEF Scan, Flush, WaitDone, TurnAway, PeerConnects, table, queues, system, history
<1>13. CASE UNCHANGED vars
  BY <1>2, <1>13 DEF vars, table, queues, system, history
<1> QED BY <1>3, <1>4, <1>5, <1>6, <1>7, <1>8, <1>9, <1>10, <1>11, <1>12, <1>13 DEF Next

LEMMA InitRefines == Init => Abstract!StreamsInit
<1> SUFFICES ASSUME Init PROVE Abstract!StreamsInit
  OBVIOUS
<1>1. \A c \in Conns : ~Up(c)
  <2>1. \A h \in Multi : ~Hooked(h)
    BY DEF Init, Hooked, Multi, Mother, AllHooks
  <2> QED BY <2>1 DEF Up
<1>2. \A c \in Conns : ~(c < newid)
  BY DEF Init, Conns
<1>3. got = [c \in Conns |-> << >>] /\ heard = [c \in Conns |-> << >>]
  BY DEF Init
<1> QED BY <1>1, <1>2, <1>3 DEF Abstract!StreamsInit, Unsent

(* However the system splits what is written and read, whatever a round of *)
(* PushWrite puts back, and whoever takes over a descriptor or a slot: a   *)
(* connection is two streams of its own, of which nothing is lost, comes   *)
(* twice, or comes in another order.                                       *)
THEOREM Refinement == Spec => ImplementsStreams
<1>1. Init => Abstract!StreamsInit
  BY InitRefines
<1>2. IInv /\ WInv /\ DInv /\ IInv' /\ [Next]_vars => [Abstract!StreamsNext]_(Abstract!streams)
  BY StepRefines
<1> QED BY <1>1, <1>2, AllHolds, PTL DEF Spec, ImplementsStreams, Abstract!StreamsSpec
=============================================================================
