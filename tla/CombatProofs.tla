---------------------------- MODULE CombatProofs ----------------------------
(***************************************************************************)
(* Theorems about Combat for any set of characters, any speeds and any     *)
(* bounds.                                                                 *)
(***************************************************************************)
EXTENDS Combat, TLAPS, SequenceTheorems

-----------------------------------------------------------------------------
(* The list.                                                               *)

Distinct(l) == \A i, j \in DOMAIN l : l[i] = l[j] => i = j

(* What RemoveAt of the library returns.                                   *)
LEMMA RemoveAtProperties ==
  ASSUME NEW S, NEW l \in Seq(S), NEW i \in 1..Len(l)
  PROVE  /\ RemoveAt(l, i) \in Seq(S)
         /\ Len(RemoveAt(l, i)) = Len(l) - 1
         /\ \A j \in 1..(Len(l) - 1) :
              RemoveAt(l, i)[j] = IF j < i THEN l[j] ELSE l[j + 1]
<1> DEFINE p == SubSeq(l, 1, i - 1)
           q == SubSeq(l, i + 1, Len(l))
<1>1. /\ p \in Seq(S) /\ Len(p) = i - 1
      /\ \A j \in 1..(i - 1) : p[j] = l[j]
  <2>1. \A j \in 1..(i - 1) : l[j] \in S  OBVIOUS
  <2> QED BY <2>1, SubSeqProperties, Z3
<1>2. /\ q \in Seq(S) /\ Len(q) = Len(l) - i
      /\ \A j \in 1..(Len(l) - i) : q[j] = l[i + j]
  <2>1. \A j \in (i + 1)..Len(l) : l[j] \in S  OBVIOUS
  <2>2. /\ i + 1 \in Int /\ Len(l) \in Int /\ Len(l) - (i + 1) + 1 = Len(l) - i
        /\ \A j \in 1..(Len(l) - i) : (i + 1) + j - 1 = i + j
    OBVIOUS
  <2>3. /\ q \in Seq(S)
        /\ Len(q) = IF i + 1 <= Len(l) THEN Len(l) - (i + 1) + 1 ELSE 0
        /\ \A j \in 1..(Len(l) - (i + 1) + 1) : q[j] = l[(i + 1) + j - 1]
    BY <2>1, <2>2, SubSeqProperties
  <2> HIDE DEF q
  <2>4. Len(q) = Len(l) - i
    BY <2>3
  <2>5. ASSUME NEW j \in 1..(Len(l) - i) PROVE q[j] = l[i + j]
    <3>1. j \in 1..(Len(l) - (i + 1) + 1)  BY <2>2
    <3>2. q[j] = l[(i + 1) + j - 1]  BY <3>1, <2>3
    <3> QED BY <3>2, <2>2
  <2> QED BY <2>3, <2>4, <2>5
<1>3. RemoveAt(l, i) = p \o q  BY DEF RemoveAt
<1> HIDE DEF p, q
<1>4. /\ p \o q \in Seq(S)
      /\ Len(p \o q) = Len(p) + Len(q)
      /\ \A j \in 1..(Len(p) + Len(q)) :
           (p \o q)[j] = IF j <= Len(p) THEN p[j] ELSE q[j - Len(p)]
  BY <1>1, <1>2, ConcatProperties
<1>5. Len(p) + Len(q) = Len(l) - 1  BY <1>1, <1>2
<1>6. ASSUME NEW j \in 1..(Len(l) - 1)
      PROVE  (p \o q)[j] = IF j < i THEN l[j] ELSE l[j + 1]
  <2>1. CASE j < i
    <3>1. (p \o q)[j] = p[j]  BY <2>1, <1>1, <1>4, <1>5
    <3> QED BY <3>1, <2>1, <1>1
  <2>2. CASE ~(j < i)
    <3>1. (p \o q)[j] = q[j - (i - 1)]  BY <2>2, <1>1, <1>4, <1>5
    <3>2. j - (i - 1) \in 1..(Len(l) - i) /\ i + (j - (i - 1)) = j + 1  BY <2>2
    <3> QED BY <3>1, <3>2, <2>2, <1>2
  <2> QED BY <2>1, <2>2
<1> QED BY <1>3, <1>4, <1>5, <1>6

LEMMA WithoutProperties ==
  ASSUME NEW S, NEW l \in Seq(S), Distinct(l), NEW c
  PROVE  /\ Without(l, c) \in Seq(S)
         /\ Distinct(Without(l, c))
         /\ Range(Without(l, c)) = Range(l) \ {c}
<1>1. CASE c \notin Range(l)
  BY <1>1 DEF Without
<1>2. CASE c \in Range(l)
  <2> DEFINE i == IndexOf(l, c)
             r == RemoveAt(l, i)
  <2>1. i \in 1..Len(l) /\ l[i] = c
    BY <1>2 DEF Range, IndexOf
  <2>2. Without(l, c) = r  BY <1>2 DEF Without
  <2> HIDE DEF i
  <2>3. /\ r \in Seq(S) /\ Len(r) = Len(l) - 1
        /\ \A j \in 1..(Len(l) - 1) : r[j] = IF j < i THEN l[j] ELSE l[j + 1]
    BY <2>1, RemoveAtProperties
  <2> HIDE DEF r
  <2> DEFINE old(j) == IF j < i THEN j ELSE j + 1
  <2>7. \A j \in 1..(Len(l) - 1) : /\ old(j) \in 1..Len(l)
                                   /\ old(j) # i
                                   /\ r[j] = l[old(j)]
    BY <2>1, <2>3
  <2>8. \A j, k \in 1..(Len(l) - 1) : old(j) = old(k) => j = k
    BY <2>1
  <2> HIDE DEF old
  <2>9. \A j, k \in 1..Len(l) : l[j] = l[k] => j = k
    BY DEF Distinct
  <2>4. Distinct(r)
    <3>1. DOMAIN r = 1..(Len(l) - 1)  BY <2>3
    <3> QED BY <3>1, <2>7, <2>8, <2>9 DEF Distinct
  <2>5. ASSUME NEW d \in Range(r) PROVE d \in Range(l) \ {c}
    <3>1. PICK j \in 1..(Len(l) - 1) : d = r[j]  BY <2>3 DEF Range
    <3>2. d = l[old(j)] /\ old(j) \in 1..Len(l) /\ old(j) # i  BY <3>1, <2>7
    <3>3. d # c  BY <3>2, <2>1, <2>9
    <3> QED BY <3>2, <3>3 DEF Range
  <2>6. ASSUME NEW d \in Range(l), d # c PROVE d \in Range(r)
    <3>1. PICK j \in 1..Len(l) : d = l[j]  BY DEF Range
    <3>2. j # i  BY <3>1, <2>1, <2>6
    <3>3. CASE j < i  
      <4>1. j \in 1..(Len(l) - 1) /\ r[j] = d  BY <3>1, <3>3, <2>1, <2>3
      <4> QED BY <4>1, <2>3 DEF Range
    <3>4. CASE j > i
      <4>1. j - 1 \in 1..(Len(l) - 1) /\ r[j - 1] = d  BY <3>1, <3>4, <2>1, <2>3
      <4> QED BY <4>1, <2>3 DEF Range
    <3> QED BY <3>1, <3>2, <3>3, <3>4, <2>1
  <2> QED BY <2>2, <2>3, <2>4, <2>5, <2>6
<1> QED BY <1>1, <1>2

(* Sorting keeps the entries of the list, each once.                       *)
LEMMA SortedFormsProperties ==
  ASSUME NEW S, NEW l \in Seq(S), Distinct(l), NEW w, NEW s \in SortedForms(l, w)
  PROVE  s \in Seq(S) /\ Len(s) = Len(l) /\ Distinct(s) /\ Range(s) = Range(l)
<1>1. PICK p \in Bijection(DOMAIN l, DOMAIN l) : s = [i \in DOMAIN l |-> l[p[i]]]
  BY DEF SortedForms
<1>2. /\ p \in [1..Len(l) -> 1..Len(l)]
      /\ \A i, j \in 1..Len(l) : p[i] = p[j] => i = j
      /\ \A k \in 1..Len(l) : \E i \in 1..Len(l) : p[i] = k
  <2>1. DOMAIN l = 1..Len(l)  OBVIOUS
  <2>2. p \in Injection(1..Len(l), 1..Len(l)) /\ p \in Surjection(1..Len(l), 1..Len(l))
    BY <2>1 DEF Bijection
  <2> QED BY <2>2 DEF Injection, Surjection, IsInjective
<1>3. s \in [1..Len(l) -> S] /\ DOMAIN l = 1..Len(l)  BY <1>1, <1>2
<1>4. s \in Seq(S) /\ Len(s) = Len(l)  BY <1>3
<1>5. Distinct(s)  BY <1>1, <1>2, <1>3 DEF Distinct
<1>6. Range(s) = Range(l)
  <2>1. ASSUME NEW d \in Range(s) PROVE d \in Range(l)
    BY <1>1, <1>2, <1>3 DEF Range
  <2>2. ASSUME NEW d \in Range(l) PROVE d \in Range(s)
    <3>1. PICK k \in 1..Len(l) : d = l[k]  BY <1>3 DEF Range
    <3>2. PICK i \in 1..Len(l) : p[i] = k  BY <1>2
    <3> QED BY <3>1, <3>2, <1>1, <1>3 DEF Range
  <2> QED BY <2>1, <2>2
<1> QED BY <1>4, <1>5, <1>6

(* An entry that stays is found where nIdx was moved to.                   *)
LEMMA ShiftedProperties ==
  ASSUME NEW S, NEW l \in Seq(S), Distinct(l), NEW c, NEW k \in Nat
  PROVE  /\ Shifted(k, l, c) \in Nat
         /\ k = 0 => Shifted(k, l, c) = 0
         /\ k # 0 => Shifted(k, l, c) # 0
         /\ (k \in DOMAIN l /\ l[k] # c) =>
              /\ Shifted(k, l, c) \in DOMAIN Without(l, c)
              /\ Without(l, c)[Shifted(k, l, c)] = l[k]
<1>1. CASE c \notin Range(l)
  BY <1>1 DEF Shifted, Without
<1>2. CASE c \in Range(l)
  <2> DEFINE i == IndexOf(l, c)
             r == RemoveAt(l, i)
  <2>1. i \in 1..Len(l) /\ l[i] = c
    BY <1>2 DEF Range, IndexOf
  <2>2. Without(l, c) = r  BY <1>2 DEF Without
  <2>3. Shifted(k, l, c) = IF k # 0 /\ i < k THEN k - 1 ELSE k
    BY <1>2 DEF Shifted
  <2> HIDE DEF i
  <2>4. /\ r \in Seq(S) /\ Len(r) = Len(l) - 1
        /\ \A j \in 1..(Len(l) - 1) : r[j] = IF j < i THEN l[j] ELSE l[j + 1]
    BY <2>1, RemoveAtProperties
  <2> HIDE DEF r
  <2>5. ASSUME k \in DOMAIN l, l[k] # c
        PROVE  /\ Shifted(k, l, c) \in DOMAIN r
               /\ r[Shifted(k, l, c)] = l[k]
    <3>1. k \in 1..Len(l) /\ k # i  BY <2>5, <2>1
    <3>2. CASE i < k
      <4>1. Shifted(k, l, c) = k - 1  BY <3>1, <3>2, <2>3
      <4>2. k - 1 \in 1..(Len(l) - 1) /\ ~(k - 1 < i)  BY <3>1, <3>2, <2>1
      <4> QED BY <4>1, <4>2, <2>4
    <3>3. CASE k < i
      <4>1. Shifted(k, l, c) = k  BY <3>1, <3>3, <2>3, <2>1
      <4>2. k \in 1..(Len(l) - 1)  BY <3>1, <3>3, <2>1
      <4> QED BY <4>1, <4>2, <3>3, <2>4
    <3> QED BY <3>1, <3>2, <3>3, <2>1
  <2> QED BY <2>1, <2>2, <2>3, <2>5
<1> QED BY <1>1, <1>2

-----------------------------------------------------------------------------
(* The inductive invariant: what the runs check of the arrays, the list    *)
(* and the actor, and that somebody acts exactly while an errand is known. *)

ActorKnown == /\ errand = "none" <=> current = None
              /\ current # None => cursor # 0

IInv == /\ TypeOK
        /\ OpponentsInPairs /\ CombatHasOpponents /\ MeleeIsOpponent
        /\ ListHoldsEveryCombat
        /\ DestructedOutOfCombat
        /\ CursorFollowsActor /\ ActorKnown

LEMMA InitIInv == Init => IInv
<1> SUFFICES ASSUME Init PROVE IInv  OBVIOUS
<1>1. TypeOK
  <2>1. opponents \in [Chars -> [Chars -> Nat]]
    <3>1. [d \in Chars |-> 0] \in [Chars -> Nat]  OBVIOUS
    <3> QED BY <3>1 DEF Init
  <2>2. list \in Seq(Chars)  BY DEF Init
  <2>3. melee \in [Chars -> Chars \cup {None}] /\ when \in [Chars -> Nat]
    BY DEF Init
  <2> QED BY <2>1, <2>2, <2>3 DEF Init, TypeOK
<1>2. OpponentsInPairs /\ CombatHasOpponents /\ MeleeIsOpponent
  BY DEF Init, OpponentsInPairs, CombatHasOpponents, MeleeIsOpponent
<1>3. ListHoldsEveryCombat  BY DEF Init, ListHoldsEveryCombat, Range
<1>4. DestructedOutOfCombat /\ CursorFollowsActor /\ ActorKnown
  BY DEF Init, DestructedOutOfCombat, CursorFollowsActor, ActorKnown
<1> QED BY <1>1, <1>2, <1>3, <1>4 DEF IInv

(* Dropping a pair, the step of every stop_fighting.                       *)
LEMMA SubOpponentKeepsIInv ==
  ASSUME IInv, NEW ch \in Chars, NEW victim \in Chars,
         opponents[ch][victim] > 0,
         SubOpponent(ch, victim), UNCHANGED <<stopping, destructed>>
  PROVE  IInv'
<1> DEFINE o    == Parted(ch, victim)
           gone == { c \in {ch, victim} : Alone(o, c) }
           l    == IF victim \in gone THEN Without(list, victim) ELSE list
           k    == IF victim \in gone THEN Shifted(cursor, list, victim) ELSE cursor
           Pair(c, d) == (c = ch /\ d = victim) \/ (c = victim /\ d = ch)
<1> USE DEF IInv
<1>1. PICK m \in Targets(o, ch, victim), n \in Targets(o, victim, ch) :
        melee' = [melee EXCEPT ![ch] = m, ![victim] = n]
  BY DEF SubOpponent
<1>2. /\ opponents' = o /\ combat' = combat \ gone /\ cmd' = cmd \ gone
      /\ when' = [c \in Chars |-> IF c \in gone THEN 0 ELSE when[c]]
      /\ list' = IF ch \in gone THEN Without(l, ch) ELSE l
      /\ cursor' = IF ch \in gone THEN Shifted(k, l, ch) ELSE k
      /\ errand' = IF errand = "melee" /\ current \in gone THEN "freed" ELSE errand
      /\ heir' \in {None, heir}
      /\ current' = current /\ anyAction' = anyAction
  BY DEF SubOpponent
<1>3. ch # victim  BY DEF OpponentsInPairs, TypeOK
<1>4. /\ o \in [Chars -> [Chars -> Nat]]
      /\ o[ch][victim] = 0 /\ o[victim][ch] = 0
      /\ \A c, d \in Chars : ~Pair(c, d) => o[c][d] = opponents[c][d]
  <2>1. opponents[ch][victim] = 1 /\ opponents[victim][ch] = 1
    BY DEF OpponentsInPairs, TypeOK
  <2>2. Pred(1) = 0  BY DEF Pred
  <2>3. opponents \in [Chars -> [Chars -> Nat]]  BY DEF TypeOK
  <2> DEFINE row1 == [opponents[ch] EXCEPT ![victim] = 0]
             row2 == [opponents[victim] EXCEPT ![ch] = 0]
  <2>4. o = [opponents EXCEPT ![ch] = row1, ![victim] = row2]
    BY <2>1, <2>2, <2>3, <1>3 DEF Parted
  <2>5. row1 \in [Chars -> Nat] /\ row2 \in [Chars -> Nat]  BY <2>3
  <2> HIDE DEF o
  <2>6. o[ch] = row1 /\ o[victim] = row2
        /\ \A c \in Chars : c \notin {ch, victim} => o[c] = opponents[c]
    BY <2>3, <2>4, <1>3
  <2>7. /\ row1[victim] = 0 /\ \A d \in Chars : d # victim => row1[d] = opponents[ch][d]
        /\ row2[ch] = 0 /\ \A d \in Chars : d # ch => row2[d] = opponents[victim][d]
    BY <2>3
  <2> HIDE DEF row1, row2
  <2>8. o \in [Chars -> [Chars -> Nat]]  BY <2>3, <2>4, <2>5
  <2>9. o[ch][victim] = 0 /\ o[victim][ch] = 0  BY <2>6, <2>7
  <2>10. ASSUME NEW c \in Chars, NEW d \in Chars, ~Pair(c, d)
         PROVE  o[c][d] = opponents[c][d]
    <3>1. CASE c = ch
      <4>1. d # victim  BY <3>1, <2>10
      <4> QED BY <3>1, <4>1, <2>6, <2>7
    <3>2. CASE c = victim
      <4>1. d # ch  BY <3>2, <2>10
      <4> QED BY <3>2, <4>1, <2>6, <2>7
    <3>3. CASE c \notin {ch, victim}  BY <3>3, <2>6
    <3> QED BY <3>1, <3>2, <3>3
  <2> QED BY <2>8, <2>9, <2>10
<1>5. \A c \in Chars : Alone(o, c) <=> ~ \E d \in Chars : o[c][d] > 0
  BY <1>4 DEF Alone
<1> HIDE DEF o
<1>6. \A c \in Chars : c \notin {ch, victim} => \A d \in Chars : o[c][d] = opponents[c][d]
  BY <1>4
<1>7. OpponentsInPairs'
  <2>1. ASSUME NEW c \in Chars, NEW d \in Chars
        PROVE  o[c][d] = o[d][c] /\ o[c][d] <= 1 /\ o[c][c] = 0
    <3>1. CASE Pair(c, d)  BY <3>1, <1>3, <1>4 DEF OpponentsInPairs
    <3>2. CASE ~Pair(c, d)
      <4>1. o[c][d] = opponents[c][d] /\ o[d][c] = opponents[d][c]  BY <3>2, <1>4
      <4>2. o[c][c] = opponents[c][c]  BY <1>3, <1>4
      <4> QED BY <4>1, <4>2 DEF OpponentsInPairs
    <3> QED BY <3>1, <3>2
  <2> QED BY <2>1, <1>2 DEF OpponentsInPairs
<1>8. CombatHasOpponents'
  <2>1. ASSUME NEW c \in Chars
        PROVE  c \in combat \ gone <=> \E d \in Chars : o[c][d] > 0
    <3>1. CASE c \in {ch, victim}
      <4>1. c \in combat  BY <3>1, <1>3 DEF CombatHasOpponents, OpponentsInPairs
      <4> QED BY <3>1, <4>1, <1>5
    <3>2. CASE c \notin {ch, victim}
      BY <3>2, <1>6 DEF CombatHasOpponents
    <3> QED BY <3>1, <3>2
  <2> QED BY <2>1, <1>2 DEF CombatHasOpponents
<1>9. /\ m \in Chars \cup {None} /\ (m # None => o[ch][m] > 0)
      /\ n \in Chars \cup {None} /\ (n # None => o[victim][n] > 0)
  <2>1. ASSUME NEW x \in Chars, NEW y \in Chars, Pair(x, y),
               NEW t \in Targets(o, x, y)
        PROVE  t \in Chars \cup {None} /\ (t # None => o[x][t] > 0)
    <3>1. CASE Alone(o, x)  BY <3>1 DEF Targets
    <3>2. CASE ~Alone(o, x) /\ melee[x] = y  BY <3>2 DEF Targets
    <3>3. CASE ~Alone(o, x) /\ melee[x] # y
      <4>1. t = melee[x]  BY <3>3 DEF Targets
      <4>2. t # None => ~Pair(x, t)  BY <4>1, <3>3, <2>1
      <4> QED BY <4>1, <4>2, <1>4 DEF TypeOK, MeleeIsOpponent
    <3> QED BY <3>1, <3>2, <3>3
  <2>2. Pair(ch, victim) /\ Pair(victim, ch)  OBVIOUS
  <2> HIDE DEF Pair, gone, l, k
  <2>3. m \in Chars \cup {None} /\ (m # None => o[ch][m] > 0)  BY <2>1, <2>2
  <2>4. n \in Chars \cup {None} /\ (n # None => o[victim][n] > 0)  BY <2>1, <2>2
  <2> QED BY <2>3, <2>4
<1>10. MeleeIsOpponent' /\ melee' \in [Chars -> Chars \cup {None}]
  <2>1. melee' \in [Chars -> Chars \cup {None}]  BY <1>1, <1>9 DEF TypeOK
  <2>2. ASSUME NEW c \in Chars, melee'[c] # None PROVE o[c][melee'[c]] > 0
    <3> HIDE DEF gone, l, k
    <3>0. /\ melee'[ch] = m /\ melee'[victim] = n
          /\ c \notin {ch, victim} => melee'[c] = melee[c]
      BY <1>1, <1>3 DEF TypeOK
    <3>1. CASE c = ch  BY <3>0, <3>1, <2>2, <1>9
    <3>2. CASE c = victim  BY <3>0, <3>2, <2>2, <1>9
    <3>3. CASE c \notin {ch, victim}
      <4>1. melee[c] \in Chars /\ melee'[c] = melee[c]  BY <3>0, <3>3, <2>2 DEF TypeOK
      <4>2. opponents[c][melee[c]] > 0  BY <4>1, <2>2 DEF MeleeIsOpponent
      <4> QED BY <4>1, <4>2, <3>3, <1>6
    <3> QED BY <3>1, <3>2, <3>3
  <2> QED BY <2>1, <2>2, <1>2 DEF MeleeIsOpponent
<1>11. Distinct(list) /\ Range(list) = combat /\ list \in Seq(Chars)
  BY DEF ListHoldsEveryCombat, Distinct, TypeOK
<1>12. /\ l \in Seq(Chars) /\ Distinct(l)
       /\ Range(l) = IF victim \in gone THEN combat \ {victim} ELSE combat
  BY <1>11, WithoutProperties
<1>13. k \in Nat /\ (k = 0 <=> cursor = 0)
  <2>1. cursor \in Nat  BY DEF TypeOK
  <2>2. CASE victim \in gone
    <3>1. k = Shifted(cursor, list, victim)  BY <2>2
    <3> HIDE DEF gone, l, k
    <3> QED BY <3>1, <2>1, <1>11, ShiftedProperties
  <2>3. CASE victim \notin gone
    <3>1. k = cursor  BY <2>3
    <3> HIDE DEF gone, l, k
    <3> QED BY <3>1, <2>1
  <2> QED BY <2>2, <2>3
<1>14. /\ list' \in Seq(Chars) /\ Distinct(list') /\ Range(list') = combat \ gone
  <2> HIDE DEF l, k
  <2>1. CASE ch \in gone
    <3>1. list' = Without(l, ch)  BY <2>1, <1>2
    <3>2. Without(l, ch) \in Seq(Chars) /\ Distinct(Without(l, ch))
          /\ Range(Without(l, ch)) = Range(l) \ {ch}
      BY <1>12, WithoutProperties
    <3> QED BY <3>1, <3>2, <1>12, <2>1
  <2>2. CASE ch \notin gone
    BY <2>2, <1>2, <1>12
  <2> QED BY <2>1, <2>2
<1>15. cursor' \in Nat /\ (cursor' = 0 <=> cursor = 0)
  <2> HIDE DEF l, k
  <2> QED BY <1>2, <1>12, <1>13, ShiftedProperties
<1>16. CursorFollowsActor'
  <2> SUFFICES ASSUME errand' = "melee"
               PROVE  cursor' \in DOMAIN list' /\ list'[cursor'] = current'
    BY DEF CursorFollowsActor
  <2>1. errand = "melee" /\ current \notin gone  BY <1>2
  <2>2. cursor \in DOMAIN list /\ list[cursor] = current
    BY <2>1 DEF CursorFollowsActor
  <2>3. k \in DOMAIN l /\ l[k] = current
    <3>0. cursor \in Nat  BY DEF TypeOK
    <3>1. CASE victim \in gone
      <4>1. k = Shifted(cursor, list, victim) /\ l = Without(list, victim)  BY <3>1
      <4>2. list[cursor] # victim  BY <2>1, <2>2, <3>1
      <4> HIDE DEF gone, l, k
      <4> QED BY <3>0, <4>1, <4>2, <2>2, <1>11, ShiftedProperties
    <3>2. CASE victim \notin gone  BY <2>2, <3>2
    <3> QED BY <3>1, <3>2
  <2> HIDE DEF l, k
  <2> QED BY <2>1, <2>3, <1>2, <1>12, <1>13, ShiftedProperties
<1>17. TypeOK'
  BY <1>2, <1>4, <1>10, <1>14, <1>15 DEF TypeOK
<1>18. ListHoldsEveryCombat'
  BY <1>2, <1>14 DEF ListHoldsEveryCombat, Distinct
<1>19. DestructedOutOfCombat'
  BY <1>2 DEF DestructedOutOfCombat
<1>20. ActorKnown'
  BY <1>2, <1>15 DEF ActorKnown
<1> QED BY <1>7, <1>8, <1>10, <1>16, <1>17, <1>18, <1>19, <1>20

(* Entering one more character at the end of the list.                     *)
LEMMA EnterProperties ==
  ASSUME NEW S, NEW l \in Seq(S), Distinct(l), NEW c \in S, c \notin Range(l)
  PROVE  /\ l \o <<c>> \in Seq(S)
         /\ Distinct(l \o <<c>>)
         /\ Range(l \o <<c>>) = Range(l) \cup {c}
         /\ \A i \in DOMAIN l : i \in DOMAIN (l \o <<c>>) /\ (l \o <<c>>)[i] = l[i]
<1> DEFINE e == l \o <<c>>
<1>1. /\ e \in Seq(S) /\ Len(e) = Len(l) + 1
      /\ \A i \in 1..Len(l) : e[i] = l[i]
      /\ e[Len(l) + 1] = c
  BY ConcatProperties
<1> HIDE DEF e
<1>2. Distinct(e)
  <2>1. \A i \in 1..Len(l) : l[i] # c  BY DEF Range
  <2> QED BY <1>1, <2>1 DEF Distinct
<1>3. Range(e) = Range(l) \cup {c}
  <2>1. ASSUME NEW d \in Range(e) PROVE d \in Range(l) \cup {c}
    BY <1>1 DEF Range
  <2>2. ASSUME NEW d \in Range(l) PROVE d \in Range(e)
    <3>1. PICK i \in 1..Len(l) : d = l[i]  BY DEF Range
    <3>2. i \in 1..Len(e) /\ e[i] = d  BY <1>1, <3>1
    <3> QED BY <3>2, <1>1 DEF Range
  <2>3. c \in Range(e)
    <3>1. Len(l) + 1 \in 1..Len(e)  BY <1>1
    <3> QED BY <3>1, <1>1 DEF Range
  <2> QED BY <2>1, <2>2, <2>3
<1> QED BY <1>1, <1>2, <1>3 DEF e

(* Starting a fight, or joining one.                                       *)
LEMMA SetFightingKeepsIInv ==
  ASSUME IInv, NEW ch \in Chars, NEW vict \in Chars, NEW bMelee \in BOOLEAN,
         SetFighting(ch, vict, bMelee)
  PROVE  IInv'
<1> DEFINE new      == { c \in {ch, vict} : c \notin combat /\ (c = ch \/ opponents[ch][vict] = 0) }
           entry(c) == IF c \in new THEN <<c>> ELSE << >>
           l        == list \o entry(ch)
           o        == Joined(ch, vict)
           Pair(c, d) == (c = ch /\ d = vict) \/ (c = vict /\ d = ch)
<1> USE DEF IInv
<1>1. /\ ch # vict /\ {ch, vict} \cap destructed = {}
      /\ opponents' = o /\ combat' = combat \cup new /\ cmd' = cmd \ new
      /\ when' = [c \in Chars |-> IF c \in new THEN SPEED_DEFAULT ELSE when[c]]
      /\ list' = l \o entry(vict)
      /\ melee' = [melee EXCEPT ![ch] = IF bMelee /\ @ = None THEN vict ELSE @]
      /\ heir' \in {heir} \cup new
      /\ UNCHANGED <<cursor, current, errand, anyAction, stopping, destructed>>
  BY DEF SetFighting, MayFight
<1>2. opponents \in [Chars -> [Chars -> Nat]]  BY DEF TypeOK
<1>3. /\ o \in [Chars -> [Chars -> Nat]]
      /\ o[ch][vict] = 1 /\ o[vict][ch] = 1
      /\ \A c, d \in Chars : ~Pair(c, d) => o[c][d] = opponents[c][d]
  <2>1. CASE opponents[ch][vict] > 0
    <3>1. o = opponents  BY <2>1 DEF Joined
    <3>2. opponents[ch][vict] = 1 /\ opponents[vict][ch] = 1
      BY <2>1, <1>2 DEF OpponentsInPairs
    <3> HIDE DEF o, new, l, entry
    <3> QED BY <3>1, <3>2, <1>2
  <2>2. CASE ~(opponents[ch][vict] > 0)
    <3>1. opponents[ch][vict] = 0 /\ opponents[vict][ch] = 0
      BY <2>2, <1>2 DEF OpponentsInPairs
    <3> DEFINE row1 == [opponents[ch] EXCEPT ![vict] = 1]
               row2 == [opponents[vict] EXCEPT ![ch] = 1]
    <3>2. o = [opponents EXCEPT ![ch] = row1, ![vict] = row2]
      <4> DEFINE Succ(n) == n + 1
      <4>1. o = [opponents EXCEPT ![ch][vict] = Succ(@), ![vict][ch] = Succ(@)]
        BY <2>2 DEF Joined
      <4>2. Succ(0) = 1  OBVIOUS
      <4> HIDE DEF Succ, o, new, l, entry
      <4> QED BY <4>1, <4>2, <3>1, <1>1, <1>2
    <3>3. row1 \in [Chars -> Nat] /\ row2 \in [Chars -> Nat]  BY <1>2
    <3> HIDE DEF o
    <3>4. o[ch] = row1 /\ o[vict] = row2
          /\ \A c \in Chars : c \notin {ch, vict} => o[c] = opponents[c]
      BY <1>1, <1>2, <3>2, <3>3
    <3>5. /\ row1[vict] = 1 /\ \A d \in Chars : d # vict => row1[d] = opponents[ch][d]
          /\ row2[ch] = 1 /\ \A d \in Chars : d # ch => row2[d] = opponents[vict][d]
      BY <1>2
    <3> HIDE DEF row1, row2
    <3>6. o \in [Chars -> [Chars -> Nat]]  BY <1>2, <3>2, <3>3
    <3>7. o[ch][vict] = 1 /\ o[vict][ch] = 1  BY <3>4, <3>5
    <3>8. ASSUME NEW c \in Chars, NEW d \in Chars, ~Pair(c, d)
          PROVE  o[c][d] = opponents[c][d]
      <4>1. CASE c = ch
        <5>1. d # vict  BY <4>1, <3>8
        <5> QED BY <4>1, <5>1, <3>4, <3>5
      <4>2. CASE c = vict
        <5>1. d # ch  BY <4>2, <3>8
        <5> QED BY <4>2, <5>1, <3>4, <3>5
      <4>3. CASE c \notin {ch, vict}  BY <4>3, <3>4
      <4> QED BY <4>1, <4>2, <4>3
    <3> QED BY <3>6, <3>7, <3>8
  <2> QED BY <2>1, <2>2
<1> HIDE DEF o
<1>4. new \subseteq {ch, vict} \ combat  OBVIOUS
<1>5. combat \cup new = combat \cup {ch, vict}
  <2>1. opponents[ch][vict] = 0 \/ {ch, vict} \subseteq combat
    BY <1>2 DEF CombatHasOpponents, OpponentsInPairs
  <2> QED BY <2>1
<1>6. OpponentsInPairs'
  <2>1. ASSUME NEW c \in Chars, NEW d \in Chars
        PROVE  o[c][d] = o[d][c] /\ o[c][d] <= 1 /\ o[c][c] = 0
    <3>1. o[c][c] = opponents[c][c] /\ opponents[c][c] = 0
      BY <1>1, <1>3 DEF OpponentsInPairs
    <3>2. CASE Pair(c, d)  BY <3>1, <3>2, <1>3
    <3>3. CASE ~Pair(c, d)
      <4>1. o[c][d] = opponents[c][d] /\ o[d][c] = opponents[d][c]  BY <3>3, <1>3
      <4> QED BY <3>1, <4>1 DEF OpponentsInPairs
    <3> QED BY <3>2, <3>3
  <2> QED BY <2>1, <1>1 DEF OpponentsInPairs
<1>7. CombatHasOpponents'
  <2>1. ASSUME NEW c \in Chars
        PROVE  c \in combat \cup {ch, vict} <=> \E d \in Chars : o[c][d] > 0
    <3>1. CASE c \in {ch, vict}  BY <3>1, <1>3
    <3>2. CASE c \notin {ch, vict}
      <4>1. \A d \in Chars : o[c][d] = opponents[c][d]  BY <3>2, <1>3
      <4> QED BY <3>2, <4>1 DEF CombatHasOpponents
    <3> QED BY <3>1, <3>2
  <2> QED BY <2>1, <1>1, <1>5 DEF CombatHasOpponents
<1>8. MeleeIsOpponent' /\ melee' \in [Chars -> Chars \cup {None}]
  <2> HIDE DEF new
  <2>1. melee \in [Chars -> Chars \cup {None}]  BY DEF TypeOK
  <2>2. melee' \in [Chars -> Chars \cup {None}]  BY <1>1, <2>1
  <2>3. \A c, d \in Chars : opponents[c][d] > 0 => o[c][d] > 0
    BY <1>3
  <2>4. ASSUME NEW c \in Chars, melee'[c] # None PROVE o[c][melee'[c]] > 0
    <3>1. melee'[c] = melee[c] \/ (c = ch /\ melee'[c] = vict)  BY <1>1, <2>1
    <3>2. CASE melee'[c] = melee[c]
      BY <3>2, <2>1, <2>3, <2>4 DEF MeleeIsOpponent
    <3>3. CASE c = ch /\ melee'[c] = vict  BY <3>3, <1>3
    <3> QED BY <3>1, <3>2, <3>3
  <2> QED BY <2>2, <2>4, <1>1 DEF MeleeIsOpponent
<1>9. /\ list \in Seq(Chars) /\ Distinct(list) /\ Range(list) = combat
  BY DEF TypeOK, ListHoldsEveryCombat, Distinct
<1>10. ASSUME NEW s \in Seq(Chars), Distinct(s), NEW c \in {ch, vict},
              c \in new => c \notin Range(s)
       PROVE  /\ s \o entry(c) \in Seq(Chars)
              /\ Distinct(s \o entry(c))
              /\ Range(s \o entry(c)) = Range(s) \cup ({c} \cap new)
              /\ \A i \in DOMAIN s : i \in DOMAIN (s \o entry(c)) /\ (s \o entry(c))[i] = s[i]
  <2>1. CASE c \in new
    <3>1. entry(c) = <<c>>  BY <2>1
    <3> HIDE DEF entry, new
    <3> QED BY <2>1, <3>1, <1>10, EnterProperties
  <2>2. CASE c \notin new
    <3>1. entry(c) = << >>  BY <2>2
    <3> HIDE DEF entry, new
    <3>2. s \o << >> = s  OBVIOUS
    <3> QED BY <2>2, <3>1, <3>2, <1>10
  <2> QED BY <2>1, <2>2
<1>11. /\ l \in Seq(Chars) /\ Distinct(l) /\ Range(l) = combat \cup ({ch} \cap new)
       /\ \A i \in DOMAIN list : i \in DOMAIN l /\ l[i] = list[i]
  <2> HIDE DEF entry
  <2>1. ch \in new => ch \notin Range(list)  BY <1>4, <1>9
  <2> QED BY <1>9, <1>10, <2>1
<1>12. /\ list' \in Seq(Chars) /\ Distinct(list') /\ Range(list') = combat \cup new
       /\ \A i \in DOMAIN list : i \in DOMAIN list' /\ list'[i] = list[i]
  <2>1. vict \in new => vict \notin Range(l)  BY <1>1, <1>4, <1>11
  <2>2. new = ({ch} \cap new) \cup ({vict} \cap new)  OBVIOUS
  <2> HIDE DEF entry, new, l
  <2>3. /\ l \o entry(vict) \in Seq(Chars) /\ Distinct(l \o entry(vict))
        /\ Range(l \o entry(vict)) = Range(l) \cup ({vict} \cap new)
        /\ \A i \in DOMAIN l : i \in DOMAIN (l \o entry(vict)) /\ (l \o entry(vict))[i] = l[i]
    BY <1>10, <1>11, <2>1
  <2> QED BY <2>2, <2>3, <1>1, <1>11
<1> HIDE DEF new, l, entry
<1>13. TypeOK'
  <2>1. when' \in [Chars -> Nat]  BY <1>1, SpeedAssumption DEF TypeOK
  <2>2. combat' \subseteq Chars /\ cmd' \subseteq combat' /\ heir' \in Chars \cup {None}
    BY <1>1, <1>4 DEF TypeOK
  <2> QED BY <1>1, <1>3, <1>8, <1>12, <2>1, <2>2 DEF TypeOK
<1>14. ListHoldsEveryCombat'
  BY <1>1, <1>12 DEF ListHoldsEveryCombat, Distinct
<1>15. DestructedOutOfCombat'
  BY <1>1, <1>4 DEF DestructedOutOfCombat
<1>16. CursorFollowsActor'
  BY <1>1, <1>12 DEF CursorFollowsActor
<1>17. ActorKnown'
  BY <1>1 DEF ActorKnown
<1> QED BY <1>6, <1>7, <1>8, <1>13, <1>14, <1>15, <1>16, <1>17

-----------------------------------------------------------------------------
(* The steps that leave the arrays alone.                                  *)

LEMMA StepKeepsIInv == IInv /\ [Next]_vars => IInv'
<1> SUFFICES ASSUME IInv, [Next]_vars PROVE IInv'  OBVIOUS
<1> USE DEF IInv
<1> DEFINE Arrays == UNCHANGED <<opponents, combat, melee>>
           Other  == UNCHANGED <<stopping, destructed>>
<1>0. /\ OpponentsInPairs /\ CombatHasOpponents /\ MeleeIsOpponent
      /\ Arrays => OpponentsInPairs' /\ CombatHasOpponents' /\ MeleeIsOpponent'
  BY DEF OpponentsInPairs, CombatHasOpponents, MeleeIsOpponent
<1>l. UNCHANGED <<list, combat>> => ListHoldsEveryCombat'
  BY DEF ListHoldsEveryCombat
<1>d. UNCHANGED <<stopping, destructed, combat>> => DestructedOutOfCombat'
  BY DEF DestructedOutOfCombat
<1>c. UNCHANGED <<list, turn>> => CursorFollowsActor' /\ ActorKnown'
  BY DEF CursorFollowsActor, ActorKnown, turn
<1>s. ASSUME NEW w, list' \in SortedForms(list, w), UNCHANGED combat
      PROVE  ListHoldsEveryCombat' /\ list' \in Seq(Chars) /\ Len(list') = Len(list)
  <2>1. Distinct(list) /\ list \in Seq(Chars) /\ Range(list) = combat
    BY DEF ListHoldsEveryCombat, Distinct, TypeOK
  <2>2. list' \in Seq(Chars) /\ Len(list') = Len(list) /\ Distinct(list')
        /\ Range(list') = Range(list)
    BY <2>1, <1>s, SortedFormsProperties
  <2> QED BY <2>1, <2>2, <1>s DEF ListHoldsEveryCombat, Distinct
<1>t. /\ SPEED_DEFAULT \in Nat
      /\ \A b, c \in Chars : Charge(b, c) \in Nat
  BY SpeedAssumption DEF Charge, Larger
<1>1. CASE StartTurn
  <2>1. when' \in [Chars -> Nat]
    <3>1. \A n \in Nat : Larger(0, n - SPEED_DEFAULT) \in Nat
      BY <1>t DEF Larger
    <3> QED BY <1>1, <3>1 DEF StartTurn, TypeOK
  <2>2. ListHoldsEveryCombat' /\ list' \in Seq(Chars)
    BY <1>1, <1>s DEF StartTurn
  <2>3. current = None /\ errand = "none"  BY <1>1 DEF StartTurn, ActorKnown
  <2>4. TypeOK'  BY <1>1, <2>1, <2>2 DEF StartTurn, TypeOK
  <2>5. CursorFollowsActor' /\ ActorKnown'
    BY <1>1, <2>3 DEF StartTurn, CursorFollowsActor, ActorKnown
  <2> QED BY <1>1, <1>0, <1>d, <2>2, <2>4, <2>5 DEF StartTurn
<1>2. CASE Act
  <2>1. cursor \in DOMAIN list /\ list[cursor] \in Chars
    BY <1>2 DEF Act, InTime, Sweeping, TypeOK
  <2>2. TypeOK'  BY <1>2, <2>1 DEF Act, TypeOK
  <2>3. CursorFollowsActor' /\ ActorKnown'
    BY <1>2, <2>1, NullAssumption DEF Act, Sweeping, CursorFollowsActor, ActorKnown
  <2> QED BY <1>2, <1>0, <1>l, <1>d, <2>2, <2>3 DEF Act
<1>3. CASE Idle
  <2>1. cursor' \in Nat  BY <1>3 DEF Idle, TypeOK
  <2>5. anyAction' \in BOOLEAN  BY <1>3 DEF Idle
  <2>4. TypeOK'  BY <1>3, <2>1, <2>5 DEF Idle, fights, TypeOK
  <2>2. errand = "none"  BY <1>3 DEF Idle, Sweeping, ActorKnown
  <2>3. CursorFollowsActor' /\ ActorKnown'
    BY <1>3, <2>2 DEF Idle, Sweeping, CursorFollowsActor, ActorKnown
  <2> QED BY <1>3, <1>0, <1>l, <1>d, <2>4, <2>3 DEF Idle, fights
<1>4. CASE Return
  <2>1. current \in Chars /\ when \in [Chars -> Nat]  BY <1>4 DEF Return, TypeOK
  <2>2. when' \in [Chars -> Nat]
    <3>1. \A c \in Chars : when[c] + Charge(current, c) \in Nat
      BY <2>1, <1>t
    <3> QED BY <1>4, <2>1, <3>1 DEF Return
  <2>3. TypeOK'  BY <1>4, <2>2 DEF Return, TypeOK
  <2>4. CursorFollowsActor' /\ ActorKnown'
    BY <1>4 DEF Return, CursorFollowsActor, ActorKnown
  <2> QED BY <1>4, <1>0, <1>l, <1>d, <2>3, <2>4 DEF Return
<1>5. CASE EndSweep
  <2>1. ListHoldsEveryCombat' /\ list' \in Seq(Chars)
    BY <1>5, <1>s DEF EndSweep
  <2>2. errand = "none"  BY <1>5 DEF EndSweep, Sweeping, ActorKnown
  <2>3. cursor' \in Nat /\ anyAction' \in BOOLEAN  BY <1>5 DEF EndSweep
  <2>4. TypeOK'  BY <1>5, <2>1, <2>3 DEF EndSweep, TypeOK
  <2>5. CursorFollowsActor' /\ ActorKnown'
    BY <1>5, <2>2 DEF EndSweep, Sweeping, CursorFollowsActor, ActorKnown
  <2> QED BY <1>5, <1>0, <1>d, <2>1, <2>4, <2>5 DEF EndSweep
<1>6. CASE StopLoop
  <2>1. CASE stopping \in combat
    <3>1. PICK d \in Chars : opponents[stopping][d] > 0 /\ SubOpponent(stopping, d)
      BY <1>6, <2>1 DEF StopLoop
    <3>2. stopping \in Chars /\ Other  BY <1>6, <2>1 DEF StopLoop, TypeOK
    <3> QED BY <3>1, <3>2, SubOpponentKeepsIInv
  <2>2. CASE stopping \notin combat
    <3>1. TypeOK'  BY <1>6, <2>2 DEF StopLoop, fights, turn, TypeOK
    <3>2. DestructedOutOfCombat'
      BY <1>6, <2>2 DEF StopLoop, fights, DestructedOutOfCombat
    <3> QED BY <1>6, <2>2, <1>0, <1>l, <1>c, <3>1, <3>2 DEF StopLoop, fights
  <2> QED BY <2>1, <2>2
<1>7. CASE ClearDestructed
  <2>1. TypeOK' /\ DestructedOutOfCombat'
    BY <1>7 DEF ClearDestructed, fights, turn, TypeOK, DestructedOutOfCombat
  <2> QED BY <1>7, <1>0, <1>l, <1>c, <2>1 DEF ClearDestructed, fights
<1>8. ASSUME NEW c \in Chars, NEW d \in Chars, NEW b \in BOOLEAN, SetFighting(c, d, b)
      PROVE  IInv'
  BY <1>8, SetFightingKeepsIInv
<1>9. ASSUME NEW c \in Chars, NEW d \in Chars, SetMelee(c, d) PROVE IInv'
  <2>1. TypeOK'  BY <1>9 DEF SetMelee, turn, TypeOK
  <2>2. melee \in [Chars -> Chars \cup {None}]  BY DEF TypeOK
  <2>3. MeleeIsOpponent'
    BY <1>9, <2>2 DEF SetMelee, MeleeIsOpponent
  <2>4. OpponentsInPairs' /\ CombatHasOpponents'
    BY <1>9 DEF SetMelee, OpponentsInPairs, CombatHasOpponents
  <2> QED BY <1>9, <1>l, <1>d, <1>c, <2>1, <2>3, <2>4 DEF SetMelee
<1>10. ASSUME NEW c \in Chars, StopFighting(c) PROVE IInv'
  <2>1. melee[c] \in Chars /\ opponents[c][melee[c]] > 0
    BY <1>10 DEF StopFighting, MeleeIsOpponent, TypeOK
  <2> QED BY <1>10, <2>1, SubOpponentKeepsIInv DEF StopFighting
<1>11. ASSUME NEW c \in Chars, StopAllFighting(c) PROVE IInv'
  <2>1. TypeOK'  BY <1>11 DEF StopAllFighting, fights, turn, TypeOK
  <2>2. DestructedOutOfCombat'
    BY <1>11, NullAssumption DEF StopAllFighting, Operation, fights, DestructedOutOfCombat, TypeOK
  <2> QED BY <1>11, <1>0, <1>l, <1>c, <2>1, <2>2 DEF StopAllFighting, fights
<1>12. ASSUME NEW c \in Chars, SetCommand(c) PROVE IInv'
  <2>1. TypeOK'  BY <1>12 DEF SetCommand, turn, TypeOK
  <2> QED BY <1>12, <1>0, <1>l, <1>d, <1>c, <2>1 DEF SetCommand
<1>13. ASSUME NEW c \in Chars, Extract(c) PROVE IInv'
  <2>1. TypeOK'  BY <1>13 DEF Extract, fights, turn, TypeOK
  <2>2. DestructedOutOfCombat'
    BY <1>13, NullAssumption DEF Extract, Operation, fights, DestructedOutOfCombat, TypeOK
  <2> QED BY <1>13, <1>0, <1>l, <1>c, <2>1, <2>2 DEF Extract, fights
<1>14. ASSUME NEW c \in Chars, NEW delta \in Deltas, ChangeSpeed(c, delta) PROVE IInv'
  <2>1. delta \in Nat /\ when \in [Chars -> Nat]  BY BoundAssumption DEF TypeOK
  <2> HIDE DEF IInv
  <2>3. when' \in [Chars -> Nat]
    <3>1. when' = [when EXCEPT ![c] = when[c] + delta] /\ when[c] + delta \in Nat
      BY <1>14, <2>1 DEF ChangeSpeed
    <3> QED BY <2>1, <3>1
  <2> USE DEF IInv
  <2>2. TypeOK'  BY <1>14, <2>3 DEF ChangeSpeed, turn, TypeOK
  <2> QED BY <1>14, <1>0, <1>l, <1>d, <1>c, <2>2 DEF ChangeSpeed
<1>15. CASE UNCHANGED vars
  <2>1. TypeOK' /\ Other
    BY <1>15 DEF vars, fights, turn, TypeOK
  <2> QED BY <1>15, <1>0, <1>l, <1>d, <1>c, <2>1 DEF vars, fights, turn
<1> QED BY <1>1, <1>2, <1>3, <1>4, <1>5, <1>6, <1>7, <1>8, <1>9, <1>10, <1>11, <1>12,
           <1>13, <1>14, <1>15 DEF Next, PerformViolence

-----------------------------------------------------------------------------
(* The sweep.  Swept: what the cursor has behind it was looked at, what is *)
(* before it was not.                                                      *)
Swept(l, k, acting, seen, over) ==
  \A i \in DOMAIN l : /\ i < k => l[i] \in seen \cup over
                      /\ i > k \/ (i = k /\ ~acting) => l[i] \notin seen

(* An entry leaves, and nIdx follows: the others stay on their side of it. *)
LEMMA ShiftedSides ==
  ASSUME NEW S, NEW l \in Seq(S), Distinct(l), NEW c, NEW k \in Nat \ {0}
  PROVE  /\ k <= Len(l) + 1 => Shifted(k, l, c) <= Len(Without(l, c)) + 1
         /\ \A i \in DOMAIN Without(l, c) : \E j \in DOMAIN l :
              /\ Without(l, c)[i] = l[j]
              /\ i < Shifted(k, l, c) => j < k
              /\ i > Shifted(k, l, c) => j > k
              /\ i = Shifted(k, l, c) => j >= k
<1>1. CASE c \notin Range(l)
  BY <1>1 DEF Shifted, Without
<1>2. CASE c \in Range(l)
  <2> DEFINE n == IndexOf(l, c)
             r == RemoveAt(l, n)
             m == Shifted(k, l, c)
  <2>1. n \in 1..Len(l) /\ l[n] = c
    BY <1>2 DEF Range, IndexOf
  <2>2. Without(l, c) = r  BY <1>2 DEF Without
  <2>3. m = IF n < k THEN k - 1 ELSE k
    BY <1>2 DEF Shifted
  <2> HIDE DEF n, m
  <2>4. /\ r \in Seq(S) /\ Len(r) = Len(l) - 1
        /\ \A j \in 1..(Len(l) - 1) : r[j] = IF j < n THEN l[j] ELSE l[j + 1]
    BY <2>1, RemoveAtProperties
  <2> HIDE DEF r
  <2>5. ASSUME NEW i \in 1..(Len(l) - 1)
        PROVE  \E j \in 1..Len(l) : /\ r[i] = l[j]
                                    /\ (i < m => j < k) /\ (i > m => j > k) /\ (i = m => j >= k)
    <3>1. CASE i < n
      <4>1. i \in 1..Len(l) /\ r[i] = l[i]  BY <2>4, <3>1
      <4>2. (i < m => i < k) /\ (i > m => i > k) /\ (i = m => i >= k)
        BY <2>1, <2>3, <3>1
      <4> QED BY <4>1, <4>2
    <3>2. CASE ~(i < n)
      <4>1. i + 1 \in 1..Len(l) /\ r[i] = l[i + 1]  BY <2>4, <3>2
      <4>2. (i < m => i + 1 < k) /\ (i > m => i + 1 > k) /\ (i = m => i + 1 >= k)
        BY <2>1, <2>3, <3>2
      <4> QED BY <4>1, <4>2
    <3> QED BY <3>1, <3>2
  <2>6. k <= Len(l) + 1 => m <= Len(r) + 1
    BY <2>1, <2>3, <2>4
  <2>7. DOMAIN r = 1..(Len(l) - 1) /\ DOMAIN l = 1..Len(l)
    BY <2>4
  <2> QED BY <2>2, <2>5, <2>6, <2>7 DEF m
<1> QED BY <1>1, <1>2

LEMMA SweptWithout ==
  ASSUME NEW S, NEW l \in Seq(S), Distinct(l), NEW c, NEW k \in Nat \ {0},
         NEW acting \in BOOLEAN, NEW seen, NEW over, Swept(l, k, acting, seen, over)
  PROVE  Swept(Without(l, c), Shifted(k, l, c), acting, seen, over)
<1> DEFINE r == Without(l, c)
           m == Shifted(k, l, c)
<1>1. r \in Seq(S) /\ m \in Nat
  BY WithoutProperties, ShiftedProperties
<1>2. ASSUME NEW i \in DOMAIN r
      PROVE  /\ i < m => r[i] \in seen \cup over
             /\ i > m \/ (i = m /\ ~acting) => r[i] \notin seen
  <2>1. PICK j \in DOMAIN l :
          r[i] = l[j] /\ (i < m => j < k) /\ (i > m => j > k) /\ (i = m => j >= k)
    BY ShiftedSides
  <2> HIDE DEF r, m
  <2>2. j \in Nat /\ (j >= k => j > k \/ j = k)
    OBVIOUS
  <2> QED BY <2>1, <2>2 DEF Swept
<1> QED BY <1>2 DEF Swept

(* Who was looked at still fights; and the actor is known to have been     *)
(* until its entry goes, so far nIdx is on it.  Before the call returns    *)
(* nIdx is not past the place where the next one to enter will be.         *)
Looked == /\ visited \subseteq combat
          /\ current # None => cursor <= Len(list) + 1
          /\ current # None /\ current \in visited =>
               cursor \in DOMAIN list /\ list[cursor] = current

TInv == Looked /\ OneTurnEach

LEMMA SubOpponentKeepsTurn ==
  ASSUME IInv, TInv, NEW ch \in Chars, NEW victim \in Chars, SubOpponent(ch, victim)
  PROVE  TInv'
<1> DEFINE o    == Parted(ch, victim)
           gone == { c \in {ch, victim} : Alone(o, c) }
           l    == IF victim \in gone THEN Without(list, victim) ELSE list
           k    == IF victim \in gone THEN Shifted(cursor, list, victim) ELSE cursor
           act  == current # None
<1>1. /\ combat' = combat \ gone /\ visited' = visited \ gone
      /\ list' = IF ch \in gone THEN Without(l, ch) ELSE l
      /\ cursor' = IF ch \in gone THEN Shifted(k, l, ch) ELSE k
      /\ UNCHANGED <<current, passed>>
  BY DEF SubOpponent
<1>2. /\ list \in Seq(Chars) /\ Distinct(list) /\ Range(list) = combat /\ cursor \in Nat
  BY DEF IInv, TypeOK, ListHoldsEveryCombat, Distinct
<1> HIDE DEF o
<1>3. l \in Seq(Chars) /\ Distinct(l) /\ k \in Nat
      /\ (cursor = 0 => k = 0) /\ (cursor # 0 => k # 0)
      /\ Range(l) = IF victim \in gone THEN combat \ {victim} ELSE combat
  <2>1. CASE victim \in gone
    <3>1. l = Without(list, victim) /\ k = Shifted(cursor, list, victim)
      BY <2>1
    <3> HIDE DEF l, k, gone
    <3> QED BY <1>2, <2>1, <3>1, WithoutProperties, ShiftedProperties
  <2>2. CASE victim \notin gone
    BY <1>2, <2>2
  <2> QED BY <2>1, <2>2
<1>4. cursor # 0 => Swept(l, k, act, visited, passed)
  <2>1. cursor # 0 => Swept(list, cursor, act, visited, passed)
    BY DEF TInv, OneTurnEach, Swept
  <2>2. CASE victim \in gone
    <3>1. l = Without(list, victim) /\ k = Shifted(cursor, list, victim) /\ act \in BOOLEAN
      BY <2>2
    <3> HIDE DEF l, k, gone, act
    <3> QED BY <1>2, <2>1, <3>1, SweptWithout
  <2>3. CASE victim \notin gone
    <3>1. l = list /\ k = cursor
      BY <2>3
    <3> HIDE DEF l, k, gone, act
    <3> QED BY <2>1, <3>1
  <2> QED BY <2>2, <2>3
<1>5. /\ list' \in Seq(Chars) /\ Range(list') = combat \ gone
      /\ cursor' = 0 <=> cursor = 0
      /\ cursor # 0 => Swept(list', cursor', act, visited, passed)
  <2>1. CASE ch \in gone
    <3>1. list' = Without(l, ch) /\ cursor' = Shifted(k, l, ch) /\ act \in BOOLEAN
      BY <1>1, <2>1
    <3>2. combat \ gone = Range(l) \ {ch}
      BY <1>3, <2>1
    <3> HIDE DEF l, k, gone, act
    <3>3. list' \in Seq(Chars) /\ Range(list') = combat \ gone
      BY <1>3, <3>1, <3>2, WithoutProperties
    <3>4. cursor' = 0 <=> cursor = 0
      BY <1>3, <3>1, ShiftedProperties
    <3>5. cursor # 0 => Swept(list', cursor', act, visited, passed)
      BY <1>3, <1>4, <3>1, SweptWithout
    <3> QED BY <3>3, <3>4, <3>5
  <2>2. CASE ch \notin gone
    <3>1. list' = l /\ cursor' = k /\ combat \ gone = Range(l)
      BY <1>1, <1>3, <2>2
    <3> HIDE DEF l, k, gone, act
    <3> QED BY <1>3, <1>4, <3>1
  <2> QED BY <2>1, <2>2
<1>6. OneTurnEach'
  <2> SUFFICES ASSUME cursor' # 0, NEW i \in DOMAIN list'
               PROVE  /\ i < cursor' => list'[i] \in visited' \cup passed'
                      /\ i > cursor' \/ (i = cursor' /\ current' = None) => list'[i] \notin visited'
    BY DEF OneTurnEach
  <2>1. list'[i] \notin gone
    BY <1>5 DEF Range
  <2> HIDE DEF gone, l, k
  <2> QED BY <1>1, <1>5, <2>1 DEF Swept
<1>7. Looked'
  <2>1. visited' \subseteq combat'
    BY <1>1 DEF TInv, Looked
  <2>2. ASSUME current # None, current \in visited \ gone
        PROVE  cursor' \in DOMAIN list' /\ list'[cursor'] = current
    <3>1. cursor \in DOMAIN list /\ list[cursor] = current
      BY <2>2 DEF TInv, Looked
    <3>2. k \in DOMAIN l /\ l[k] = current
      <4>1. CASE victim \in gone
        <5>1. k = Shifted(cursor, list, victim) /\ l = Without(list, victim) /\ list[cursor] # victim
          BY <2>2, <3>1, <4>1
        <5> HIDE DEF gone, l, k
        <5> QED BY <1>2, <3>1, <5>1, ShiftedProperties
      <4>2. CASE victim \notin gone
        BY <3>1, <4>2
      <4> QED BY <4>1, <4>2
    <3>3. CASE ch \in gone
      <4>1. cursor' = Shifted(k, l, ch) /\ list' = Without(l, ch) /\ l[k] # ch
        BY <1>1, <2>2, <3>2, <3>3
      <4> HIDE DEF gone, l, k
      <4> QED BY <1>3, <3>2, <4>1, ShiftedProperties
    <3>4. CASE ch \notin gone
      <4>1. cursor' = k /\ list' = l
        BY <1>1, <3>4
      <4> HIDE DEF gone, l, k
      <4> QED BY <3>2, <4>1
    <3> QED BY <3>3, <3>4
  <2>3. ASSUME current # None
        PROVE  cursor' <= Len(list') + 1
    <3>0. cursor <= Len(list) + 1
      BY <2>3 DEF TInv, Looked
    <3>1. k <= Len(l) + 1
      <4>1. CASE victim \in gone
        <5>1. k = Shifted(cursor, list, victim) /\ l = Without(list, victim)
          BY <4>1
        <5> HIDE DEF gone, l, k
        <5>2. CASE cursor = 0
          BY <1>3, <5>2
        <5>3. CASE cursor # 0
          BY <1>2, <3>0, <5>1, <5>3, ShiftedSides
        <5> QED BY <5>2, <5>3
      <4>2. CASE victim \notin gone
        BY <3>0, <4>2
      <4> QED BY <4>1, <4>2
    <3>2. CASE ch \in gone
      <4>1. cursor' = Shifted(k, l, ch) /\ list' = Without(l, ch)
        BY <1>1, <3>2
      <4> HIDE DEF gone, l, k
      <4>2. CASE k = 0
        BY <1>3, <1>5, <4>1, <4>2, ShiftedProperties
      <4>3. CASE k # 0
        BY <1>3, <3>1, <4>1, <4>3, ShiftedSides
      <4> QED BY <4>2, <4>3
    <3>3. CASE ch \notin gone
      <4>1. cursor' = k /\ list' = l
        BY <1>1, <3>3
      <4> HIDE DEF gone, l, k
      <4> QED BY <3>1, <4>1
    <3> QED BY <3>2, <3>3
  <2> HIDE DEF gone, l, k
  <2> QED BY <1>1, <2>1, <2>2, <2>3 DEF Looked
<1> QED BY <1>6, <1>7 DEF TInv

(* Who enters the list comes to its end, and was not looked at.            *)
LEMMA SetFightingKeepsTurn ==
  ASSUME IInv, TInv, NEW ch \in Chars, NEW vict \in Chars, NEW b \in BOOLEAN,
         SetFighting(ch, vict, b)
  PROVE  TInv'
<1> DEFINE new      == { c \in {ch, vict} : c \notin combat /\ (c = ch \/ opponents[ch][vict] = 0) }
           entry(c) == IF c \in new THEN <<c>> ELSE << >>
<1>1. /\ combat' = combat \cup new /\ list' = list \o entry(ch) \o entry(vict)
      /\ UNCHANGED <<cursor, current, visited, passed>>
  BY DEF SetFighting, turn
<1>2. list \in Seq(Chars) /\ Range(list) = combat /\ cursor \in Nat /\ new \cap combat = {}
  BY DEF IInv, TypeOK, ListHoldsEveryCombat
<1>3. ASSUME NEW c PROVE entry(c) \in Seq(new)
  <2> HIDE DEF new
  <2>1. CASE c \in new
    BY <2>1
  <2>2. CASE c \notin new
    BY <2>2
  <2> QED BY <2>1, <2>2
<1> HIDE DEF entry, new
<1>4. ASSUME NEW s \in Seq(Chars \cup new), NEW c
      PROVE  /\ s \o entry(c) \in Seq(Chars \cup new)
             /\ \A i \in DOMAIN s : i \in DOMAIN (s \o entry(c)) /\ (s \o entry(c))[i] = s[i]
             /\ \A i \in DOMAIN (s \o entry(c)) : i \notin DOMAIN s =>
                  i > Len(s) /\ (s \o entry(c))[i] \in new
  <2>1. entry(c) \in Seq(new) /\ entry(c) \in Seq(Chars \cup new)
    BY <1>3
  <2> QED BY <2>1, ConcatProperties
<1>5. /\ list' \in Seq(Chars \cup new)
      /\ \A i \in DOMAIN list : i \in DOMAIN list' /\ list'[i] = list[i]
      /\ \A i \in DOMAIN list' : i \notin DOMAIN list => i > Len(list) /\ list'[i] \in new
  <2> DEFINE l == list \o entry(ch)
  <2>1. /\ l \in Seq(Chars \cup new)
        /\ \A i \in DOMAIN list : i \in DOMAIN l /\ l[i] = list[i]
        /\ \A i \in DOMAIN l : i \notin DOMAIN list => i > Len(list) /\ l[i] \in new
    <3>1. list \in Seq(Chars \cup new)
      BY <1>2
    <3> QED BY <1>4, <3>1
  <2>2. list' = l \o entry(vict)
    BY <1>1
  <2> HIDE DEF l
  <2>3. /\ list' \in Seq(Chars \cup new)
        /\ \A i \in DOMAIN l : i \in DOMAIN list' /\ list'[i] = l[i]
        /\ \A i \in DOMAIN list' : i \notin DOMAIN l => i > Len(l) /\ list'[i] \in new
    BY <1>4, <2>1, <2>2
  <2>4. \A i \in DOMAIN list : i \in DOMAIN list' /\ list'[i] = list[i]
    BY <2>1, <2>3
  <2>5. ASSUME NEW i \in DOMAIN list', i \notin DOMAIN list
        PROVE  i > Len(list) /\ list'[i] \in new
    <3>1. CASE i \in DOMAIN l
      BY <2>1, <2>3, <2>5, <3>1
    <3>2. CASE i \notin DOMAIN l
      <4>1. i > Len(l) /\ list'[i] \in new
        BY <2>3, <2>5, <3>2
      <4>2. Len(l) >= Len(list)
        <5>1. \A j \in 1..Len(list) : j \in 1..Len(l)
          BY <1>2, <2>1
        <5>2. Len(list) \in Nat /\ Len(l) \in Nat
          BY <1>2, <2>1
        <5> QED BY <5>1, <5>2
      <4>3. i \in Nat /\ Len(l) \in Nat /\ Len(list) \in Nat
        BY <1>2, <2>1, <2>3, <2>5
      <4> QED BY <4>1, <4>2, <4>3
    <3> QED BY <3>1, <3>2
  <2> QED BY <2>3, <2>4, <2>5
<1>6. Looked'
  <2>1. ASSUME cursor <= Len(list) + 1
        PROVE  cursor <= Len(list') + 1
    <3>1. \A j \in 1..Len(list) : j \in 1..Len(list')
      BY <1>2, <1>5
    <3>2. Len(list) \in Nat /\ Len(list') \in Nat
      BY <1>2, <1>5
    <3> QED BY <1>2, <2>1, <3>1, <3>2
  <2> QED BY <1>1, <1>5, <2>1 DEF TInv, Looked
<1>7. OneTurnEach'
  <2> SUFFICES ASSUME cursor # 0, NEW i \in DOMAIN list'
               PROVE  /\ i < cursor => list'[i] \in visited \cup passed
                      /\ i > cursor \/ (i = cursor /\ current = None) => list'[i] \notin visited
    BY <1>1 DEF OneTurnEach
  <2>1. CASE i \in DOMAIN list
    BY <1>5, <2>1 DEF TInv, OneTurnEach
  <2>2. CASE i \notin DOMAIN list
    <3>1. i > Len(list) /\ list'[i] \in new
      BY <1>5, <2>2
    <3>2. list'[i] \notin visited
      BY <1>2, <3>1 DEF TInv, Looked
    <3>3. cursor <= Len(list) + 1
      <4>1. current # None
        BY DEF SetFighting, Operation, Running
      <4> QED BY <4>1 DEF TInv, Looked
    <3>4. ~(i < cursor)
      <4>1. i \in Nat /\ Len(list) \in Nat
        BY <1>2, <1>5
      <4> QED BY <1>2, <3>1, <3>3, <4>1
    <3> QED BY <3>2, <3>4
  <2> QED BY <2>1, <2>2
<1> QED BY <1>6, <1>7 DEF TInv

(* One entry more looked at, or passed, with every step of the turn.       *)
LEMMA StepKeepsTurn == IInv /\ IInv' /\ TInv /\ [Next]_vars => TInv'
<1> SUFFICES ASSUME IInv, IInv', TInv, [Next]_vars PROVE TInv'
  OBVIOUS
<1>0. /\ list \in Seq(Chars) /\ Distinct(list) /\ Range(list) = combat /\ cursor \in Nat
      /\ list' \in Seq(Chars) /\ combat' = Range(list')
  BY DEF IInv, TypeOK, ListHoldsEveryCombat, Distinct
<1>1. ASSUME UNCHANGED <<list, combat, cursor, current, visited, passed>>
      PROVE  TInv'
  BY <1>1 DEF TInv, Looked, OneTurnEach
<1>2. ASSUME visited' = {}, cursor' \in {0, 1}, current' = None
      PROVE  TInv'
  <2>1. OneTurnEach'
    BY <1>0, <1>2 DEF OneTurnEach
  <2> QED BY <1>2, <2>1 DEF TInv, Looked
<1>3. CASE StartTurn
  <2>1. current = None
    BY <1>3 DEF StartTurn, IInv, ActorKnown
  <2> QED BY <1>2, <1>3, <2>1 DEF StartTurn
<1>4. CASE EndSweep
  <2>1. current = None /\ UNCHANGED current /\ visited' = {} /\ cursor' \in {0, 1}
    BY <1>4 DEF EndSweep, Sweeping
  <2> QED BY <1>2, <2>1
<1>5. CASE Act
  <2>1. /\ cursor \in 1..Len(list) /\ current' = list[cursor] /\ list[cursor] \in Chars
        /\ visited' = visited \cup {list[cursor]}
        /\ UNCHANGED <<list, combat, cursor, passed>>
    BY <1>0, <1>5 DEF Act, Sweeping, InTime
  <2>2. list[cursor] \in combat /\ list[cursor] # None
    BY <1>0, <2>1, NullAssumption DEF Range
  <2>3. Looked'
    BY <1>0, <2>1, <2>2 DEF TInv, Looked
  <2>4. OneTurnEach'
    BY <1>0, <2>1, <2>2 DEF TInv, OneTurnEach, Distinct
  <2> QED BY <2>3, <2>4 DEF TInv
<1>6. CASE Idle
  <2>1. /\ cursor \in 1..Len(list) /\ cursor' = cursor + 1 /\ current = None
        /\ visited' = visited \cup {list[cursor]}
        /\ UNCHANGED <<list, combat, current, passed>>
    BY <1>0, <1>6 DEF Idle, Sweeping, InTime, fights
  <2>2. list[cursor] \in combat
    BY <1>0, <2>1 DEF Range
  <2>3. Looked'
    BY <2>1, <2>2 DEF TInv, Looked
  <2>4. OneTurnEach'
    <3> SUFFICES ASSUME NEW i \in 1..Len(list)
                 PROVE  /\ i < cursor + 1 => list[i] \in visited' \cup passed
                        /\ i >= cursor + 1 => list[i] \notin visited'
      BY <1>0, <2>1 DEF OneTurnEach
    <3>1. /\ i < cursor => list[i] \in visited \cup passed
          /\ i >= cursor => list[i] \notin visited
      BY <1>0, <2>1 DEF TInv, OneTurnEach
    <3>2. i # cursor => list[i] # list[cursor]
      BY <1>0, <2>1 DEF Distinct
    <3> QED BY <1>0, <2>1, <3>1, <3>2
  <2> QED BY <2>3, <2>4 DEF TInv
<1>7. CASE Return
  <2>1. /\ cursor' = cursor + 1 /\ current # None /\ current' = None
        /\ passed' = IF cursor <= Len(list) /\ {current, list[cursor]} \cap visited = {}
                     THEN passed \cup {list[cursor]} ELSE passed
        /\ UNCHANGED <<list, combat, visited>>
    BY <1>7 DEF Return
  <2>2. cursor # 0
    BY <2>1 DEF IInv, ActorKnown
  <2>3. cursor \in 1..Len(list) => list[cursor] \in visited \cup passed'
    <3>1. current \in visited => list[cursor] = current
      BY <2>1 DEF TInv, Looked
    <3> QED BY <1>0, <2>1, <3>1
  <2>4. OneTurnEach'
    <3> SUFFICES ASSUME NEW i \in 1..Len(list)
                 PROVE  /\ i < cursor + 1 => list[i] \in visited \cup passed'
                        /\ i >= cursor + 1 => list[i] \notin visited
      BY <1>0, <2>1 DEF OneTurnEach
    <3>1. /\ i < cursor => list[i] \in visited \cup passed
          /\ i > cursor => list[i] \notin visited
      BY <1>0, <2>2 DEF TInv, OneTurnEach
    <3>2. passed \subseteq passed'
      BY <2>1
    <3> QED BY <1>0, <2>3, <3>1, <3>2
  <2>5. Looked'
    BY <2>1 DEF TInv, Looked
  <2> QED BY <2>4, <2>5 DEF TInv
<1>8. CASE StopLoop
  <2>1. CASE stopping \in combat
    <3>1. /\ stopping \in Chars
          /\ \E d \in Chars : SubOpponent(stopping, d)
      BY <1>8, <2>1 DEF StopLoop, IInv, TypeOK
    <3> QED BY <3>1, SubOpponentKeepsTurn
  <2>2. CASE stopping \notin combat
    BY <1>1, <1>8, <2>2 DEF StopLoop, fights, turn, history
  <2> QED BY <2>1, <2>2
<1>9. ASSUME NEW c \in Chars, StopFighting(c) PROVE TInv'
  <2>1. melee[c] \in Chars /\ SubOpponent(c, melee[c])
    BY <1>9 DEF StopFighting, IInv, TypeOK
  <2> QED BY <2>1, SubOpponentKeepsTurn
<1>10. ASSUME NEW c \in Chars, NEW d \in Chars, NEW b \in BOOLEAN, SetFighting(c, d, b)
       PROVE  TInv'
  BY <1>10, SetFightingKeepsTurn
<1>11. ASSUME \/ ClearDestructed
              \/ \E c, d \in Chars : SetMelee(c, d)
              \/ \E c \in Chars : StopAllFighting(c) \/ SetCommand(c) \/ Extract(c)
              \/ \E c \in Chars, delta \in Deltas : ChangeSpeed(c, delta)
              \/ UNCHANGED vars
       PROVE  TInv'
  <2>1. UNCHANGED <<list, combat, cursor, current, visited, passed>>
    BY <1>11 DEF ClearDestructed, SetMelee, StopAllFighting, SetCommand, Extract, ChangeSpeed,
                 vars, fights, turn, history
  <2> QED BY <1>1, <2>1
<1> QED BY <1>3, <1>4, <1>5, <1>6, <1>7, <1>8, <1>9, <1>10, <1>11 DEF Next, PerformViolence

-----------------------------------------------------------------------------
(* What the attacks of a turn have cost.  A round under way is paid for    *)
(* when it returns; a cCombat that was deleted begins again with a whole   *)
(* turn to wait.                                                           *)
Owed(c) == IF errand = "melee" /\ current = c THEN 1 ELSE 0
Paid(c) == (attacks[c] - Owed(c)) * Cost(c) <= when[c]

PInv ==
  /\ attacks \in [Chars -> Nat]
  /\ AttacksPaidFor
  /\ \A c \in Chars : Owed(c) <= attacks[c]
  /\ \A c \in Chars : c \in combat => when[c] >= SPEED_DEFAULT \/ Paid(c)
  /\ errand = "freed" /\ current \in combat => when[current] >= SPEED_DEFAULT
  /\ cursor = 0 => \A c \in Chars : attacks[c] = 0

LEMMA CostIsTime == /\ SPEED_DEFAULT \in Nat \ {0}
                    /\ \A c \in Chars : Cost(c) \in Nat
                    /\ \A b, c \in Chars : Charge(b, c) \in Nat
BY SpeedAssumption DEF Cost, Charge, Larger

(* Steps in which nobody attacks and no time is given back.                *)
LEMMA WaitingKeepsPaid ==
  ASSUME IInv, IInv', PInv, attacks' = attacks,
         \A c \in Chars : c \in combat' =>
           \/ c \in combat /\ when'[c] >= when[c]
           \/ when'[c] >= SPEED_DEFAULT,
         current' = current,
         \/ errand' = errand
         \/ errand = "melee" /\ errand' = "freed" /\ current \notin combat',
         cursor' = 0 <=> cursor = 0
  PROVE  PInv'
<1>1. /\ when \in [Chars -> Nat] /\ when' \in [Chars -> Nat] /\ attacks \in [Chars -> Nat] /\ SPEED_DEFAULT \in Nat
      /\ errand \in {"none", "melee", "command", "freed"}
      /\ \A c \in Chars : Cost(c) \in Nat /\ Owed(c) \in {0, 1}
  BY CostIsTime DEF IInv, TypeOK, PInv, Owed
<1>2. \A c \in Chars : Owed(c)' <= attacks[c]
  BY <1>1 DEF PInv, Owed
<1>3. AttacksPaidFor'
  BY DEF PInv, AttacksPaidFor, Cost
<1>4. ASSUME NEW c \in Chars, c \in combat'
      PROVE  when'[c] >= SPEED_DEFAULT \/ Paid(c)'
  <2>1. CASE when'[c] >= SPEED_DEFAULT
    BY <2>1
  <2>2. CASE c \in combat /\ when'[c] >= when[c] /\ when[c] >= SPEED_DEFAULT
    BY <1>1, <2>2
  <2>3. CASE c \in combat /\ when'[c] >= when[c] /\ Paid(c)
    <3>1. Owed(c)' = Owed(c)
      BY <1>4 DEF Owed
    <3>2. (attacks[c] - Owed(c)) * Cost(c) \in Int /\ when[c] \in Int /\ when'[c] \in Int
      BY <1>1
    <3>3. (attacks[c] - Owed(c)) * Cost(c) <= when'[c]
      BY <2>3, <3>2 DEF Paid
    <3> QED BY <3>1, <3>3 DEF Paid, Cost
  <2> QED BY <1>4, <2>1, <2>2, <2>3 DEF PInv
<1>5. ASSUME errand' = "freed", current \in combat'
      PROVE  when'[current] >= SPEED_DEFAULT
  <2>1. errand = "freed" /\ current \in Chars
    BY <1>5 DEF IInv, TypeOK
  <2>2. \/ when'[current] >= SPEED_DEFAULT
        \/ when[current] >= SPEED_DEFAULT /\ when'[current] >= when[current]
    BY <1>5, <2>1 DEF PInv
  <2> QED BY <1>1, <2>1, <2>2
<1> QED BY <1>1, <1>2, <1>3, <1>4, <1>5 DEF PInv

LEMMA SubOpponentKeepsPaid ==
  ASSUME IInv, IInv', PInv, NEW ch \in Chars, NEW victim \in Chars, SubOpponent(ch, victim)
  PROVE  PInv'
<1> DEFINE o    == Parted(ch, victim)
           gone == { c \in {ch, victim} : Alone(o, c) }
           l    == IF victim \in gone THEN Without(list, victim) ELSE list
           k    == IF victim \in gone THEN Shifted(cursor, list, victim) ELSE cursor
<1>1. /\ combat' = combat \ gone
      /\ when' = [c \in Chars |-> IF c \in gone THEN 0 ELSE when[c]]
      /\ cursor' = IF ch \in gone THEN Shifted(k, l, ch) ELSE k
      /\ errand' = IF errand = "melee" /\ current \in gone THEN "freed" ELSE errand
      /\ UNCHANGED <<current, attacks>>
  BY DEF SubOpponent
<1>2. list \in Seq(Chars) /\ Distinct(list) /\ cursor \in Nat /\ when \in [Chars -> Nat]
      /\ combat \subseteq Chars
  BY DEF IInv, TypeOK, ListHoldsEveryCombat, Distinct
<1> HIDE DEF o
<1>3. l \in Seq(Chars) /\ Distinct(l) /\ k \in Nat /\ (k = 0 <=> cursor = 0)
  <2>1. CASE victim \in gone
    <3>1. l = Without(list, victim) /\ k = Shifted(cursor, list, victim)
      BY <2>1
    <3> HIDE DEF l, k, gone
    <3> QED BY <1>2, <3>1, WithoutProperties, ShiftedProperties
  <2>2. CASE victim \notin gone
    BY <1>2, <2>2
  <2> QED BY <2>1, <2>2
<1> HIDE DEF l, k, gone
<1>4. cursor' = 0 <=> cursor = 0
  BY <1>1, <1>3, ShiftedProperties
<1>5. \A c \in Chars : c \in combat' => c \in combat /\ when'[c] >= when[c]
  BY <1>1, <1>2
<1> QED BY <1>1, <1>4, <1>5, WaitingKeepsPaid

LEMMA StepKeepsPaid == IInv /\ IInv' /\ PInv /\ [Next]_vars => PInv'
<1> SUFFICES ASSUME IInv, IInv', PInv, [Next]_vars PROVE PInv'
  OBVIOUS
<1>0. /\ when \in [Chars -> Nat] /\ when' \in [Chars -> Nat] /\ attacks \in [Chars -> Nat]
      /\ SPEED_DEFAULT \in Nat \ {0} /\ \A c \in Chars : Cost(c) \in Nat
      /\ list \in Seq(Chars) /\ Range(list) = combat /\ combat \subseteq Chars
  BY CostIsTime DEF IInv, TypeOK, PInv, ListHoldsEveryCombat
<1>1. ASSUME attacks' = [c \in Chars |-> 0], errand' = "none"
      PROVE  PInv'
  <2>1. \A c \in Chars : attacks'[c] = 0 /\ Owed(c)' = 0
    BY <1>1 DEF Owed
  <2>2. \A c \in Chars : (attacks'[c] - Owed(c)') * Cost(c) = 0
    BY <1>0, <2>1
  <2>3. \A c \in Chars : Paid(c)'
    BY <1>0, <2>2 DEF Paid, Cost
  <2> QED BY <1>1, <2>1, <2>3 DEF PInv, AttacksPaidFor
<1>2. ASSUME attacks' = attacks, current' = current, errand' = errand, cursor' = cursor,
             \A c \in Chars : c \in combat' =>
               \/ c \in combat /\ when'[c] >= when[c]
               \/ when'[c] >= SPEED_DEFAULT
      PROVE  PInv'
  BY <1>2, WaitingKeepsPaid
<1>3. CASE StartTurn
  <2>1. errand = "none"
    BY <1>3 DEF StartTurn, IInv, ActorKnown
  <2> QED BY <1>1, <1>3, <2>1 DEF StartTurn
<1>4. CASE Act
  <2>0. cursor \in 1..Len(list) /\ list[cursor] \in combat
    <3>1. cursor \in 1..Len(list)
      BY <1>0, <1>4 DEF Act, Sweeping, InTime, IInv, TypeOK
    <3> QED BY <1>0, <3>1 DEF Range
  <2> PICK x \in Chars : x = list[cursor] /\ x \in combat
    BY <1>0, <2>0 DEF IInv, TypeOK
  <2>1. /\ x \in combat /\ when[x] < SPEED_DEFAULT /\ when' = when /\ combat' = combat
        /\ current = None /\ errand = "none" /\ current' = x /\ cursor # 0 /\ cursor' = cursor
        /\ attacks' = IF x \in cmd THEN attacks ELSE [attacks EXCEPT ![x] = @ + 1]
        /\ errand' = IF x \in cmd THEN "command" ELSE "melee"
    BY <1>0, <1>4 DEF Act, Sweeping, InTime, IInv, ActorKnown
  <2>2. \A c \in Chars : Owed(c) = 0
    BY <2>1 DEF Owed
  <2>3. ~(when[x] >= SPEED_DEFAULT) /\ x \in Chars
    BY <1>0, <2>1
  <2>4. Paid(x)
    BY <2>1, <2>3 DEF PInv
  <2>5. attacks[x] * Cost(x) <= when[x] /\ attacks[x] * Cost(x) < SPEED_DEFAULT
    <3>1. attacks[x] - 0 = attacks[x] /\ attacks[x] * Cost(x) \in Nat /\ when[x] \in Nat
      BY <1>0, <2>3
    <3>2. attacks[x] * Cost(x) <= when[x]
      BY <2>2, <2>3, <2>4, <3>1 DEF Paid
    <3> QED BY <1>0, <2>1, <3>1, <3>2
  <2>6. CASE x \in cmd
    <3>1. \A c \in Chars : Owed(c)' = 0
      BY <2>1, <2>6 DEF Owed
    <3>2. \A c \in Chars : Paid(c)' <=> Paid(c)
      BY <2>1, <2>2, <2>6, <3>1 DEF Paid, Cost
    <3> QED BY <1>0, <2>1, <2>6, <3>1, <3>2 DEF PInv, AttacksPaidFor, Cost
  <2>7. CASE x \notin cmd
    <3>1. /\ attacks' \in [Chars -> Nat] /\ attacks'[x] = attacks[x] + 1
          /\ \A c \in Chars : c # x => attacks'[c] = attacks[c]
      BY <1>0, <2>1, <2>3, <2>7
    <3>2. Owed(x)' = 1 /\ \A c \in Chars : c # x => Owed(c)' = 0
      BY <2>1, <2>7 DEF Owed
    <3>3. attacks'[x] - 1 = attacks[x] /\ attacks'[x] >= 1
      <4>1. attacks[x] \in Nat /\ attacks'[x] = attacks[x] + 1
        BY <1>0, <2>3, <3>1
      <4> QED BY <4>1
    <3>4. Paid(x)' /\ (attacks'[x] - 1) * Cost(x) < SPEED_DEFAULT
      BY <2>1, <2>5, <3>2, <3>3 DEF Paid, Cost
    <3>5. \A c \in Chars : c # x => (Paid(c)' <=> Paid(c))
      BY <2>1, <2>2, <3>1, <3>2 DEF Paid, Cost
    <3>6. AttacksPaidFor'
      BY <3>1, <3>4 DEF PInv, AttacksPaidFor, Cost
    <3>7. \A c \in Chars : c \in combat' => when'[c] >= SPEED_DEFAULT \/ Paid(c)'
      BY <2>1, <3>4, <3>5 DEF PInv
    <3>8. \A c \in Chars : Owed(c)' <= attacks'[c]
      BY <3>1, <3>2, <3>3
    <3> QED BY <2>1, <2>7, <3>1, <3>6, <3>7, <3>8 DEF PInv
  <2> QED BY <2>6, <2>7
<1>5. CASE Idle
  <2>1. UNCHANGED <<attacks, current, errand, when, combat>> /\ cursor # 0 /\ cursor' # 0
    BY <1>5 DEF Idle, fights, Sweeping, IInv, TypeOK
  <2>2. \A c \in Chars : when'[c] >= when[c]
    BY <1>0, <2>1
  <2> QED BY <2>1, <2>2, WaitingKeepsPaid
<1>6. CASE Return
  <2> PICK x \in Chars : x = current
    BY <1>6 DEF Return, IInv, TypeOK
  <2>1. /\ UNCHANGED <<attacks, combat>> /\ x \in Chars /\ errand' = "none"
        /\ cursor' # 0 /\ cursor # 0
        /\ when' = [c \in Chars |-> IF c \in Payers THEN when[c] + Charge(x, c) ELSE when[c]]
    BY <1>6 DEF Return, IInv, TypeOK, ActorKnown
  <2>2. /\ \A c \in Chars : when'[c] >= when[c]
        /\ errand = "melee" => when'[x] = when[x] + Cost(x)
    <3>1. \A c \in Chars : Charge(x, c) \in Nat
      BY <2>1, CostIsTime
    <3>2. \A c \in Chars : when'[c] >= when[c]
      BY <1>0, <2>1, <3>1
    <3>3. ASSUME errand = "melee"
          PROVE  x \in Payers
      <4>1. cursor \in DOMAIN list /\ list[cursor] = x
        BY <3>3 DEF IInv, CursorFollowsActor
      <4> QED BY <2>1, <3>3, <4>1 DEF Payers
    <3> QED BY <2>1, <3>2, <3>3 DEF Cost
  <2>3. \A c \in Chars : Owed(c)' = 0
    BY <2>1 DEF Owed
  <2>4. ASSUME NEW c \in Chars, c \in combat
        PROVE  when'[c] >= SPEED_DEFAULT \/ Paid(c)'
    <3>1. when[c] \in Nat /\ when'[c] \in Nat /\ when'[c] >= when[c] /\ attacks[c] \in Nat
          /\ Cost(c) \in Nat
      BY <1>0, <2>1, <2>2
    <3>2. CASE when[c] >= SPEED_DEFAULT
      BY <1>0, <3>1, <3>2
    <3>3. CASE Paid(c) /\ Owed(c) = 0
      <4>1. attacks[c] - 0 = attacks[c] /\ attacks[c] * Cost(c) \in Nat
        BY <3>1
      <4>2. attacks[c] * Cost(c) <= when'[c]
        BY <3>1, <3>3, <4>1 DEF Paid
      <4> QED BY <2>1, <2>3, <4>1, <4>2 DEF Paid, Cost
    <3>4. CASE Paid(c) /\ Owed(c) = 1
      <4>1. errand = "melee" /\ c = x
        BY <3>4 DEF Owed
      <4>2. (attacks[c] - 1) * Cost(c) <= when[c] /\ when'[c] = when[c] + Cost(c)
        BY <2>2, <3>4, <4>1 DEF Paid
      <4>3. /\ (attacks[c] - 1) * Cost(c) + Cost(c) = attacks[c] * Cost(c)
            /\ (attacks[c] - 1) * Cost(c) \in Int /\ attacks[c] * Cost(c) \in Int
        BY <3>1
      <4>4. attacks[c] * Cost(c) <= when'[c] /\ attacks[c] - 0 = attacks[c]
        BY <3>1, <4>2, <4>3
      <4> QED BY <2>1, <2>3, <4>4 DEF Paid, Cost
    <3> QED BY <2>4, <3>2, <3>3, <3>4 DEF PInv, Owed
  <2> QED BY <1>0, <2>1, <2>3, <2>4 DEF PInv, AttacksPaidFor, Cost
<1>7. CASE EndSweep
  <2>1. errand' = "none" /\ errand = "none" /\ when' = when /\ combat' = combat /\ current' = current
    BY <1>7 DEF EndSweep, Sweeping, IInv, ActorKnown
  <2>2. CASE attacks' = [c \in Chars |-> 0]
    BY <1>1, <2>1, <2>2
  <2>3. CASE attacks' = attacks /\ cursor' # 0
    <3>1. cursor # 0 /\ \A c \in Chars : when'[c] >= when[c]
      BY <1>0, <1>7, <2>1 DEF EndSweep, Sweeping
    <3> QED BY <2>1, <2>3, <3>1, WaitingKeepsPaid
  <2> QED BY <1>7, <2>2, <2>3 DEF EndSweep
<1>8. CASE StopLoop
  <2>1. CASE stopping \in combat
    <3>1. stopping \in Chars /\ \E d \in Chars : SubOpponent(stopping, d)
      BY <1>8, <2>1 DEF StopLoop, IInv, TypeOK
    <3> QED BY <3>1, SubOpponentKeepsPaid
  <2>2. CASE stopping \notin combat
    <3>1. UNCHANGED <<attacks, current, errand, cursor, when, combat>>
      BY <1>8, <2>2 DEF StopLoop, fights, turn, history
    <3> QED BY <1>0, <1>2, <3>1
  <2> QED BY <2>1, <2>2
<1>9. ASSUME NEW c \in Chars, StopFighting(c) PROVE PInv'
  <2>1. melee[c] \in Chars /\ SubOpponent(c, melee[c])
    BY <1>9 DEF StopFighting, IInv, TypeOK
  <2> QED BY <2>1, SubOpponentKeepsPaid
<1>10. ASSUME NEW ch \in Chars, NEW vict \in Chars, NEW b \in BOOLEAN, SetFighting(ch, vict, b)
       PROVE  PInv'
  <2> DEFINE new == { c \in {ch, vict} : c \notin combat /\ (c = ch \/ opponents[ch][vict] = 0) }
  <2>1. /\ combat' = combat \cup new /\ UNCHANGED <<attacks, current, errand, cursor>>
        /\ when' = [c \in Chars |-> IF c \in new THEN SPEED_DEFAULT ELSE when[c]]
    BY <1>10 DEF SetFighting
  <2> HIDE DEF new
  <2> QED BY <1>0, <1>2, <2>1
<1>11. ASSUME \/ ClearDestructed
              \/ \E c, d \in Chars : SetMelee(c, d)
              \/ \E c \in Chars : StopAllFighting(c) \/ SetCommand(c) \/ Extract(c)
              \/ UNCHANGED vars
       PROVE  PInv'
  <2>1. UNCHANGED <<combat, when, attacks, cursor, current, errand>>
    BY <1>11 DEF ClearDestructed, SetMelee, StopAllFighting, SetCommand, Extract,
                 vars, fights, turn, history
  <2> QED BY <1>0, <1>2, <2>1
<1>12. ASSUME NEW c \in Chars, NEW delta \in Deltas, ChangeSpeed(c, delta) PROVE PInv'
  <2>1. UNCHANGED <<combat, attacks, cursor, current, errand>>
        /\ when' = [when EXCEPT ![c] = @ + delta] /\ delta \in Nat
    BY <1>12, BoundAssumption DEF ChangeSpeed, turn
  <2>2. \A d \in Chars : when'[d] >= when[d]
    BY <1>0, <2>1
  <2> QED BY <1>2, <2>1, <2>2
<1> QED BY <1>3, <1>4, <1>5, <1>6, <1>7, <1>8, <1>9, <1>10, <1>11, <1>12 DEF Next, PerformViolence

-----------------------------------------------------------------------------
LEMMA InitTurn == Init => TInv /\ PInv
<1> SUFFICES ASSUME Init PROVE TInv /\ PInv
  OBVIOUS
<1>1. TInv
  BY DEF Init, TInv, Looked, OneTurnEach
<1>2. \A c \in Chars : attacks[c] = 0 /\ Owed(c) = 0
  BY DEF Init, Owed
<1>3. attacks \in [Chars -> Nat]
  BY DEF Init
<1> QED BY <1>1, <1>2, <1>3 DEF Init, PInv, AttacksPaidFor

LEMMA Invariance == Spec => [](IInv /\ TInv /\ PInv)
BY InitIInv, InitTurn, StepKeepsIInv, StepKeepsTurn, StepKeepsPaid, PTL DEF Spec

(* The state keeps its shape.                                              *)
THEOREM TypeCorrect == Spec => []TypeOK
BY Invariance, PTL DEF IInv

(* Opponents exist in pairs whatever starts and stops fights (combat.c:321). *)
THEOREM PairsHold == Spec => []OpponentsInPairs
BY Invariance, PTL DEF IInv

(* A cCombat lives exactly while there are opponents, so that the loop of  *)
(* stop_fighting(ch, NULL) always finds one to drop; the melee pointer     *)
(* never outlives its pair; and the global list holds just these cCombats. *)
THEOREM CombatsHold == Spec => []CombatsAgree
BY Invariance, PTL DEF IInv, CombatsAgree

(* The assertions of destruct.c:134 and fight.c:1654.                      *)
THEOREM DestructedHolds == Spec => []DestructedOutOfCombat
BY Invariance, PTL DEF IInv

(* nIdx stays on the fighter that acts, whatever its action removes.       *)
THEOREM CursorHolds == Spec => []CursorFollowsActor
BY Invariance, PTL DEF IInv

(* Nobody is skipped in a sweep and nobody comes up twice, whatever is     *)
(* removed while the actor acts.                                           *)
THEOREM TurnsHold == Spec => []OneTurnEach
BY Invariance, PTL DEF TInv

(* Nobody has more rounds in a turn than its speed pays for (the charge of *)
(* PerformViolence, and nWhen of a new cCombat).                           *)
THEOREM ChargesHold == Spec => []AttacksPaidFor
BY Invariance, PTL DEF PInv
=============================================================================
