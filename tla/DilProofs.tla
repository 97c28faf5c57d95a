------------------------------ MODULE DilProofs ------------------------------
(***************************************************************************)
(* What is proved about Dil, for any units, programs and memory.           *)
(*                                                                         *)
(* What is in an activation of run_dil is whole, and in this activation    *)
(* only (RunningHolds), and a program that lost its function or its owner  *)
(* never runs again (OrphansHold).  Neither is inductive alone.  That a    *)
(* program is in one activation is due to DILFL_EXECUTING, which must be   *)
(* set as long as it is (RunningIsWhole).  That its function is not taken  *)
(* under it is due to clear_destructed, which comes when nothing runs, and *)
(* to no orphan starting after it (OrphansStayAsleep).                     *)
(*                                                                         *)
(* A program that runs has a pointer to a freed unit only where its lists  *)
(* of secures explain it (PointersHold).  Units are freed when no program  *)
(* is in an activation, so that it is enough that run_dil clears each      *)
(* frame before it enters (Secured), that an instruction makes no such     *)
(* unit known, and that a program that run_dil does not clear, because it  *)
(* never ran, has no pointer yet (Fresh).  What the loops over a list of   *)
(* secures leave is described once, by PartsOf: for that their folds are   *)
(* taken apart (LoopsOf).                                                  *)
(*                                                                         *)
(* That the types hold (TypeCorrect) includes the bound of the memory,     *)
(* which needs the same for the sums over frames and programs.             *)
(***************************************************************************)
EXTENDS Dil, SequenceTheorems, FiniteSetTheorems, TLAPS

Whole(P) ==
  /\ P = [ owner |-> P.owner, exec |-> P.exec, deact |-> P.deact, hooked |-> P.hooked,
           wait |-> P.wait, frames |-> P.frames ]
  /\ P.owner \in Units \cup {None}
  /\ {P.exec, P.deact, P.hooked} \subseteq BOOLEAN

Shape ==
  /\ prg = [p \in Prgs |-> prg[p]]
  /\ \A p \in Prgs : Whole(prg[p])
  /\ stack \in Seq(Prgs)
  /\ inside \in BOOLEAN
  /\ inside => stack # << >>
  /\ life \in [Units -> {"live", "gone", "freed"}]

IInv == Shape /\ RunningIsWhole /\ OrphansStayAsleep

(* Only what the program does next, or with what, has changed.             *)
Alike(P, Q) == Whole(Q) /\ Q.owner = P.owner /\ Q.exec = P.exec /\ Q.hooked = P.hooked

-----------------------------------------------------------------------------
LEMMA FieldsKept ==
  ASSUME NEW P, Whole(P)
  PROVE  /\ Alike(P, P)
         /\ \A w : Alike(P, [P EXCEPT !.wait = w])
         /\ \A f : Alike(P, [P EXCEPT !.frames = f])
         /\ \A b \in BOOLEAN : Alike(P, [P EXCEPT !.deact = b])
BY DEF Whole, Alike

LEMMA ExecSet ==
  ASSUME NEW P, Whole(P), NEW b \in BOOLEAN
  PROVE  LET Q == [P EXCEPT !.exec = b] IN
         Whole(Q) /\ Q.exec = b /\ Q.owner = P.owner /\ Q.hooked = P.hooked
BY DEF Whole

LEMMA FunctionGone ==
  ASSUME NEW P, Whole(P), NEW b \in BOOLEAN
  PROVE  LET Q == [P EXCEPT !.hooked = b] IN
         Whole(Q) /\ Q.hooked = b /\ Q.exec = P.exec /\ Q.owner = P.owner
BY DEF Whole

LEMMA WokenKept ==
  ASSUME NEW P, Whole(P)
  PROVE  Alike(P, Woken(P))
<1>1. ASSUME NEW Q, Whole(Q) PROVE Alike(Q, Cleared(Q)) /\ Alike(Q, AfterTest(Q))
  <2> DEFINE f == [i \in DOMAIN Q.frames |-> IF Kept(Q.frames[i]) THEN Q.frames[i]
                                             ELSE [Q.frames[i] EXCEPT !.var = None]]
             g == [i \in DOMAIN Q.frames |-> Tested(Q.owner, Q.frames[i]).f]
  <2>1. Cleared(Q) = [Q EXCEPT !.frames = f]
    BY DEF Cleared
  <2>2. AfterTest(Q) = [Q EXCEPT !.frames = g]
    BY DEF AfterTest
  <2> HIDE DEF f, g
  <2>3. Alike(Q, [Q EXCEPT !.frames = f]) /\ Alike(Q, [Q EXCEPT !.frames = g])
    BY <1>1, FieldsKept
  <2> QED BY <2>1, <2>2, <2>3
<1> DEFINE A == AfterTest(P)
           B == [A EXCEPT !.wait = IF IsHit(P) THEN "tested" ELSE "idle"]
<1>2. Alike(P, A)
  BY <1>1
<1> HIDE DEF A
<1>3. Alike(A, B)
  <2>1. Whole(A)
    BY <1>2 DEF Alike
  <2> HIDE DEF B
  <2> DEFINE w == IF IsHit(P) THEN "tested" ELSE "idle"
  <2>2. B = [A EXCEPT !.wait = w]
    BY DEF B
  <2> HIDE DEF w
  <2> QED BY <2>1, <2>2, FieldsKept
<1>4. Woken(P) = Cleared(IF P.wait # "idle" THEN P ELSE B)
  BY DEF Woken, A
<1> HIDE DEF B
<1>5. Alike(P, IF P.wait # "idle" THEN P ELSE B)
  BY <1>2, <1>3, FieldsKept DEF Alike
<1>6. Alike(IF P.wait # "idle" THEN P ELSE B, Cleared(IF P.wait # "idle" THEN P ELSE B))
  BY <1>1, <1>5 DEF Alike
<1> QED BY <1>4, <1>5, <1>6 DEF Alike

LEMMA FrontShape ==
  ASSUME NEW S, NEW s \in Seq(S), s # << >>
  PROVE  /\ Front(s) \in Seq(S) /\ Len(Front(s)) = Len(s) - 1
         /\ \A i \in DOMAIN Front(s) : i \in DOMAIN s /\ i < Len(s) /\ Front(s)[i] = s[i]
         /\ Len(s) \in DOMAIN s
<1>1. Len(s) \in Nat /\ Len(s) > 0
  BY EmptySeq, LenProperties
<1>2. \A i \in 1..(Len(s) - 1) : s[i] \in S
  BY <1>1
<1>3. /\ SubSeq(s, 1, Len(s) - 1) \in Seq(S)
      /\ Len(SubSeq(s, 1, Len(s) - 1)) = Len(s) - 1
      /\ \A i \in 1..(Len(s) - 1) : SubSeq(s, 1, Len(s) - 1)[i] = s[i]
  <2>1. /\ 1 \in Int /\ Len(s) - 1 \in Int /\ Len(s) - 1 - 1 + 1 = Len(s) - 1
        /\ \A i \in 1..(Len(s) - 1) : 1 + i - 1 = i
        /\ 1 <= Len(s) - 1 \/ Len(s) - 1 = 0
    <3>1. \A n \in Nat : n > 0 =>
            /\ n - 1 \in Int /\ n - 1 - 1 + 1 = n - 1 /\ (1 <= n - 1 \/ n - 1 = 0)
      OBVIOUS
    <3>2. \A i \in Int : 1 + i - 1 = i
      OBVIOUS
    <3>3. Len(s) - 1 - 1 + 1 = Len(s) - 1 /\ Len(s) - 1 \in Int /\ (1 <= Len(s) - 1 \/ Len(s) - 1 = 0)
      BY <1>1, <3>1
    <3>4. \A i \in 1..(Len(s) - 1) : i \in Int
      OBVIOUS
    <3> QED BY <3>2, <3>3, <3>4
  <2>2. /\ SubSeq(s, 1, Len(s) - 1) \in Seq(S)
        /\ Len(SubSeq(s, 1, Len(s) - 1)) =
             IF 1 <= Len(s) - 1 THEN Len(s) - 1 - 1 + 1 ELSE 0
        /\ \A i \in 1..(Len(s) - 1 - 1 + 1) : SubSeq(s, 1, Len(s) - 1)[i] = s[1 + i - 1]
    BY <1>2, <2>1, SubSeqProperties
  <2> QED BY <2>1, <2>2
<1> QED BY <1>1, <1>3 DEF Front

(* A step in which nobody begins to run: some may end, and whoever is left *)
(* awake has its function and its owner.                                   *)
LEMMA NobodyBegins ==
  ASSUME IInv, Shape',
         \A i \in DOMAIN stack' : i \in DOMAIN stack /\ stack'[i] = stack[i],
         \A q \in Prgs : q \in Range(stack') => Alike(prg[q], prg'[q]),
         \A q \in Prgs : q \notin Range(stack') /\ Is(q)' =>
           prg'[q].exec \/ (prg'[q].hooked /\ life'[prg'[q].owner] # "freed"),
         stack' = << >> \/ life' = life \/ \A u \in Units : Freed(u)' => Freed(u)
  PROVE  IInv'
<1>1. ASSUME NEW i \in DOMAIN stack'
      PROVE  /\ stack'[i] \in Prgs /\ stack'[i] = stack[i] /\ i \in DOMAIN stack
             /\ prg'[stack'[i]].owner # None /\ prg'[stack'[i]].hooked /\ prg'[stack'[i]].exec
  <2>1. stack'[i] \in Prgs /\ stack'[i] \in Range(stack') /\ stack'[i] = stack[i] /\ i \in DOMAIN stack
    BY DEF Shape, Range
  <2>2. Is(stack[i]) /\ prg[stack[i]].hooked /\ prg[stack[i]].exec
    BY <2>1 DEF IInv, RunningIsWhole
  <2> QED BY <2>1, <2>2 DEF Alike, Is
<1>2. RunningIsWhole'
  <2>1. \A i, j \in DOMAIN stack' : stack'[i] = stack'[j] => i = j
    BY <1>1 DEF IInv, RunningIsWhole
  <2> QED BY <1>1, <2>1 DEF RunningIsWhole, Is
<1>3. OrphansStayAsleep'
  <2> SUFFICES ASSUME NEW q \in Prgs, prg'[q].owner # None,
                      ~prg'[q].hooked \/ life'[prg'[q].owner] = "freed"
               PROVE  prg'[q].exec /\ q \notin Range(stack')
    BY DEF OrphansStayAsleep, Is, Freed
  <2>1. q \notin Range(stack')
    <3> SUFFICES ASSUME q \in Range(stack') PROVE FALSE
      OBVIOUS
    <3>1. PICK i \in DOMAIN stack' : q = stack'[i]
      BY DEF Range
    <3>2. prg'[q].hooked /\ stack' # << >> /\ q \in Range(stack) /\ Is(q)
      BY <1>1, <3>1 DEF Range, IInv, RunningIsWhole
    <3>3. ~Freed(prg[q].owner)
      BY <3>2 DEF IInv, OrphansStayAsleep
    <3>4. prg'[q].owner = prg[q].owner /\ prg'[q].owner \in Units
      BY DEF Alike, Shape, Whole, Is
    <3> QED BY <3>2, <3>3, <3>4 DEF Freed
  <2> QED BY <2>1 DEF Is
<1> QED BY <1>2, <1>3 DEF IInv

(* One place in dil_list is another one now.                               *)
LEMMA PlaceShape ==
  ASSUME IInv, NEW p \in Prgs, NEW Q, Whole(Q), prg' = [prg EXCEPT ![p] = Q]
  PROVE  /\ prg' = [q \in Prgs |-> prg'[q]]
         /\ \A q \in Prgs : Whole(prg'[q])
         /\ prg'[p] = Q
         /\ \A q \in Prgs : q # p => prg'[q] = prg[q]
BY DEF IInv, Shape

LEMMA NothingShape == Whole(Nothing) /\ Nothing.owner = None
BY DEF Whole, Nothing

(* Awake or executing: what OrphansStayAsleep says of who does not run.    *)
Sound(q) == prg[q].owner # None =>
              prg[q].exec \/ (prg[q].hooked /\ life[prg[q].owner] # "freed")

LEMMA SoundAll == IInv => \A q \in Prgs : Sound(q)
BY DEF IInv, OrphansStayAsleep, Sound, Is, Freed

(* An instruction, or what happens to those that do not run.               *)
LEMMA PlaceKeepsIInv ==
  ASSUME IInv, NEW p \in Prgs, NEW Q, prg' = [prg EXCEPT ![p] = Q],
         UNCHANGED <<life, stack>>, inside' \in BOOLEAN, inside' => stack # << >>,
         \/ Alike(prg[p], Q)
         \/ p \notin Range(stack) /\ Whole(Q) /\
              (Q.owner # None => Q.exec \/ (Q.hooked /\ life[Q.owner] # "freed"))
  PROVE  IInv'
<1>1. /\ prg' = [q \in Prgs |-> prg'[q]] /\ \A q \in Prgs : Whole(prg'[q])
      /\ prg'[p] = Q /\ \A q \in Prgs : q # p => prg'[q] = prg[q]
  BY PlaceShape DEF Alike
<1>2. Shape'
  BY <1>1 DEF IInv, Shape
<1>3. \A q \in Prgs : Alike(prg[q], prg[q])
  BY FieldsKept DEF IInv, Shape
<1>4. \A q \in Prgs : q \in Range(stack) => Alike(prg[q], prg'[q])
  BY <1>1, <1>3
<1>5. \A q \in Prgs : prg'[q].owner # None =>
        prg'[q].exec \/ (prg'[q].hooked /\ life[prg'[q].owner] # "freed")
  BY <1>1, SoundAll DEF Sound, Alike
<1> QED BY <1>2, <1>4, <1>5, NobodyBegins DEF Is

(* An activation ends.                                                     *)
LEMMA PopKeepsIInv ==
  ASSUME IInv, NEW p \in Prgs, NEW Q, prg' = [prg EXCEPT ![p] = Q], Whole(Q),
         stack # << >>, p = Top, Pop, UNCHANGED life,
         Q.owner # None => Q.exec \/ (Q.hooked /\ life[Q.owner] # "freed")
  PROVE  IInv'
<1>1. /\ prg' = [q \in Prgs |-> prg'[q]] /\ \A q \in Prgs : Whole(prg'[q])
      /\ prg'[p] = Q /\ \A q \in Prgs : q # p => prg'[q] = prg[q]
  BY PlaceShape
<1>2. /\ stack' \in Seq(Prgs) /\ inside' = FALSE
      /\ \A i \in DOMAIN stack' : i \in DOMAIN stack /\ i < Len(stack) /\ stack'[i] = stack[i]
      /\ Len(stack) \in DOMAIN stack /\ Len(stack) \in Nat
  BY FrontShape, LenProperties DEF Pop, IInv, Shape
<1>3. p \notin Range(stack')
  <2> SUFFICES ASSUME p \in Range(stack') PROVE FALSE
    OBVIOUS
  <2>1. PICK i \in DOMAIN stack' : stack'[i] = p
    BY DEF Range
  <2>2. stack[i] = stack[Len(stack)] /\ i \in DOMAIN stack
    BY <1>2, <2>1 DEF Top
  <2>3. i = Len(stack)
    BY <1>2, <2>2 DEF IInv, RunningIsWhole
  <2> QED BY <1>2, <2>1, <2>3
<1>4. Shape'
  BY <1>1, <1>2 DEF IInv, Shape
<1>5. \A q \in Prgs : q # p => Alike(prg[q], prg'[q])
  BY <1>1, FieldsKept DEF IInv, Shape
<1>6. \A q \in Prgs : prg'[q].owner # None =>
        prg'[q].exec \/ (prg'[q].hooked /\ life[prg'[q].owner] # "freed")
  BY <1>1, SoundAll DEF Sound
<1> QED BY <1>2, <1>3, <1>4, <1>5, <1>6, NobodyBegins DEF Is

(* run_dil is entered with a program that does not execute.                *)
LEMMA BeginKeepsIInv ==
  ASSUME IInv, NEW p \in Prgs, p \notin Range(stack), NEW P, Whole(P),
         P.owner # None, P.hooked, life[P.owner] # "freed",
         Begin(p, P), UNCHANGED life
  PROVE  IInv'
<1> DEFINE w == Woken(P)
           h == Husk([w EXCEPT !.exec = TRUE])
           r == [w EXCEPT !.exec = TRUE, !.wait = "run"]
<1>1. Alike(P, w)
  BY WokenKept
<1>2. Begin(p, P) <=>
        \/ P.wait # "new" /\ prg' = [prg EXCEPT ![p] = w] /\ Noted(p, w)
           /\ UNCHANGED <<stack, inside>>
        \/ prg' = [prg EXCEPT ![p] = h] /\ slack' = slack \ {p} /\ UNCHANGED <<stack, inside>>
        \/ P.wait = "quit" /\ prg' = [prg EXCEPT ![p] = Nothing] /\ slack' = slack \ {p}
           /\ UNCHANGED <<stack, inside>>
        \/ /\ P.wait # "quit" /\ prg' = [prg EXCEPT ![p] = r] /\ Noted(p, w)
           /\ stack' = Append(stack, p) /\ inside' = TRUE
  BY DEF Begin
<1> HIDE DEF w
<1>3. /\ Whole(h) /\ h.exec
      /\ Whole(r) /\ r.exec /\ r.hooked /\ r.owner = P.owner
  <2> DEFINE e == [w EXCEPT !.exec = TRUE]
  <2>1. Whole(e) /\ e.exec = TRUE /\ e.owner = w.owner /\ e.hooked = w.hooked
    BY <1>1, ExecSet DEF Alike
  <2>2. h = [e EXCEPT !.frames = <<>>] /\ r = [e EXCEPT !.wait = "run"]
    BY DEF Husk
  <2> HIDE DEF e, h, r
  <2>3. Alike(e, h) /\ Alike(e, r)
    BY <2>1, <2>2, FieldsKept
  <2> QED BY <1>1, <2>1, <2>3 DEF Alike
<1> HIDE DEF h, r
<1>i. inside \in BOOLEAN /\ (inside => stack # << >>)
  BY DEF IInv, Shape
<1>4. CASE prg' = [prg EXCEPT ![p] = w] /\ UNCHANGED <<stack, inside>>
  <2>1. Whole(w) /\ w.hooked /\ w.owner = P.owner
    BY <1>1 DEF Alike
  <2> QED BY <1>4, <1>i, <2>1, PlaceKeepsIInv
<1>5. CASE prg' = [prg EXCEPT ![p] = h] /\ UNCHANGED <<stack, inside>>
  BY <1>3, <1>5, <1>i, PlaceKeepsIInv
<1>6. CASE prg' = [prg EXCEPT ![p] = Nothing] /\ UNCHANGED <<stack, inside>>
  BY <1>6, <1>i, NothingShape, PlaceKeepsIInv
<1>7. CASE prg' = [prg EXCEPT ![p] = r] /\ stack' = Append(stack, p) /\ inside' = TRUE
  <2>1. /\ prg' = [q \in Prgs |-> prg'[q]] /\ \A q \in Prgs : Whole(prg'[q])
        /\ prg'[p] = r /\ \A q \in Prgs : q # p => prg'[q] = prg[q]
    BY <1>3, <1>7, PlaceShape
  <2>2. /\ stack \in Seq(Prgs) /\ stack' \in Seq(Prgs) /\ stack' # << >>
        /\ Len(stack) \in Nat /\ Len(stack') = Len(stack) + 1
        /\ \A i \in 1..Len(stack) : stack'[i] = stack[i]
        /\ stack'[Len(stack) + 1] = p
    BY <1>7, AppendProperties, LenProperties DEF IInv, Shape
  <2>3. Shape'
    BY <1>7, <2>1, <2>2 DEF IInv, Shape
  <2>4. \A i \in 1..Len(stack) : /\ stack[i] \in Prgs /\ stack[i] # p
                                 /\ prg[stack[i]].owner # None
                                 /\ prg[stack[i]].hooked /\ prg[stack[i]].exec
    BY <2>2 DEF IInv, RunningIsWhole, Is, Range
  <2>5. RunningIsWhole'
    <3>1. ASSUME NEW i \in 1..(Len(stack) + 1)
          PROVE  prg'[stack'[i]].owner # None /\ prg'[stack'[i]].hooked /\ prg'[stack'[i]].exec
      <4>1. CASE i = Len(stack) + 1
        BY <1>3, <2>1, <2>2, <4>1
      <4>2. CASE i \in 1..Len(stack)
        BY <2>1, <2>2, <2>4, <4>2
      <4> QED BY <2>2, <4>1, <4>2
    <3>2. \A i, j \in 1..Len(stack) : stack[i] = stack[j] => i = j
      BY <2>2 DEF IInv, RunningIsWhole
    <3>3. \A i, j \in 1..(Len(stack) + 1) : stack'[i] = stack'[j] => i = j
      BY <2>2, <2>4, <3>2
    <3>4. DOMAIN stack' = 1..(Len(stack) + 1)
      BY <2>2, LenProperties
    <3> QED BY <3>1, <3>3, <3>4 DEF RunningIsWhole, Is
  <2>6. OrphansStayAsleep'
    <3> SUFFICES ASSUME NEW q \in Prgs, prg'[q].owner # None,
                        ~prg'[q].hooked \/ life[prg'[q].owner] = "freed"
                 PROVE  prg'[q].exec /\ q \notin Range(stack')
      BY DEF OrphansStayAsleep, Is, Freed
    <3>1. q # p /\ prg'[q] = prg[q]
      BY <1>3, <2>1
    <3>2. prg[q].exec /\ q \notin Range(stack)
      BY <3>1 DEF IInv, OrphansStayAsleep, Is, Freed
    <3>3. \A i \in 1..(Len(stack) + 1) : stack'[i] # q
      BY <2>2, <3>1, <3>2 DEF Range
    <3>4. DOMAIN stack' = 1..(Len(stack) + 1)
      BY <2>2, LenProperties
    <3> QED BY <3>1, <3>2, <3>3, <3>4 DEF Range
  <2> QED BY <2>3, <2>5, <2>6 DEF IInv
<1> QED BY <1>2, <1>4, <1>5, <1>6, <1>7

(* Frames, secures and variables: no instruction inside a program touches  *)
(* anything else of it.                                                    *)
LEMMA FramesKeepIInv ==
  ASSUME IInv, NEW p \in Prgs, NEW f, prg' = [prg EXCEPT ![p].frames = f],
         UNCHANGED <<life, stack>>, inside' \in BOOLEAN, inside' => stack # << >>
  PROVE  IInv'
<1>1. prg' = [prg EXCEPT ![p] = [prg[p] EXCEPT !.frames = f]]
  OBVIOUS
<1>2. Alike(prg[p], [prg[p] EXCEPT !.frames = f])
  BY FieldsKept DEF IInv, Shape
<1> QED BY <1>1, <1>2, PlaceKeepsIInv

LEMMA InstructionsKeepIInv ==
  ASSUME IInv, NEW p \in Prgs,
         \/ Foreach(p) \/ ForeachNext(p) \/ Call(p) \/ Return(p)
         \/ \E u \in Units : Assign(p, u) \/ SecureUnit(p, u) \/ Unsecure(p, u)
  PROVE  IInv'
<1>1. UNCHANGED <<life, stack, inside>>
  BY DEF Foreach, ForeachNext, Call, Return, Assign, SecureUnit, Unsecure, Instruction
<1>2. inside' \in BOOLEAN /\ (inside' => stack # << >>)
  BY <1>1 DEF IInv, Shape
<1>3. \A f : SetTop(p, f) = [prg EXCEPT ![p].frames = [prg[p].frames EXCEPT ![Len(prg[p].frames)] = f]]
  BY DEF SetTop
<1>4. CASE \E f : prg' = SetTop(p, f)
  <2>1. PICK f : prg' = SetTop(p, f)
    BY <1>4
  <2>2. prg' = [prg EXCEPT ![p].frames = [prg[p].frames EXCEPT ![Len(prg[p].frames)] = f]]
    BY <1>3, <2>1
  <2> QED BY <1>1, <1>2, <2>2, FramesKeepIInv
<1>5. CASE \E f : prg' = [prg EXCEPT ![p].frames = f]
  BY <1>1, <1>2, <1>5, FramesKeepIInv
<1>6. CASE Foreach(p)
  BY <1>4, <1>6 DEF Foreach, Instruction
<1>7. CASE ForeachNext(p)
  BY <1>4, <1>7 DEF ForeachNext, Instruction
<1>8. CASE Call(p)
  <2>1. PICK u \in {TopFrame(p).var, None} :
          prg' = [prg EXCEPT ![p].frames = Append(@, [var |-> u, sec |-> <<>>])]
    BY <1>8 DEF Call, Instruction
  <2>2. prg' = [prg EXCEPT ![p].frames = Append(prg[p].frames, [var |-> u, sec |-> <<>>])]
    BY <2>1
  <2> QED BY <1>5, <2>2
<1>9. CASE Return(p)
  <2> DEFINE n == Len(prg[p].frames) - 1
  <2>1. PICK u \in {TopFrame(p).var, prg[p].frames[n].var} :
          prg' = [prg EXCEPT ![p].frames = [Front(@) EXCEPT ![n].var = u]]
    BY <1>9 DEF Return, Instruction
  <2>2. prg' = [prg EXCEPT ![p].frames = [Front(prg[p].frames) EXCEPT ![n].var = u]]
    BY <2>1
  <2> QED BY <1>5, <2>2
<1>10. CASE \E u \in Units : Assign(p, u) \/ SecureUnit(p, u) \/ Unsecure(p, u)
  BY <1>4, <1>10 DEF Assign, SecureUnit, Unsecure, Instruction
<1> QED BY <1>6, <1>7, <1>8, <1>9, <1>10

-----------------------------------------------------------------------------
(* How an activation ends.                                                 *)
LEMMA EndsKeepIInv ==
  ASSUME IInv, NEW p \in Prgs,
         Wait(p) \/ Stop(p) \/ EndlessLoop(p) \/ Quit(p) \/ CallDone(p) \/ CallOut(p)
  PROVE  IInv'
<1> DEFINE P == prg[p]
<1>1. stack # << >> /\ p = Top /\ UNCHANGED life
  BY DEF Wait, Stop, EndlessLoop, Quit, CallDone, CallOut, Running, Free, IInv, Shape
<1>2. /\ Whole(P) /\ P.exec /\ P.hooked /\ P.owner # None /\ life[P.owner] # "freed"
  <2>1. Len(stack) \in DOMAIN stack
    BY <1>1, FrontShape DEF IInv, Shape
  <2>2. p \in Range(stack) /\ Is(p) /\ P.exec /\ P.hooked
    BY <1>1, <2>1 DEF Top, Range, IInv, RunningIsWhole
  <2> QED BY <2>2 DEF IInv, Shape, OrphansStayAsleep, Is, Freed
<1>3. CASE Wait(p)
  <2> DEFINE Q == [[P EXCEPT !.wait = "idle"] EXCEPT !.exec = FALSE]
  <2>1. prg' = [prg EXCEPT ![p] = Q] /\ Pop
    BY <1>3 DEF Wait, IInv, Shape
  <2>2. Whole(Q) /\ Q.owner = P.owner /\ Q.hooked = P.hooked
    <3>1. Alike(P, [P EXCEPT !.wait = "idle"])
      BY <1>2, FieldsKept
    <3> QED BY <3>1, ExecSet DEF Alike
  <2> HIDE DEF Q
  <2> QED BY <1>1, <1>2, <2>1, <2>2, PopKeepsIInv
<1>4. CASE Stop(p)
  <2> DEFINE Q == Husk([P EXCEPT !.wait = "stop"])
  <2>1. prg' = [prg EXCEPT ![p] = Q] /\ Pop
    BY <1>4 DEF Stop
  <2>2. Whole(Q) /\ Q.exec
    <3>1. Alike(P, [P EXCEPT !.wait = "stop"])
      BY <1>2, FieldsKept
    <3>2. Alike([P EXCEPT !.wait = "stop"], Q)
      BY <3>1, FieldsKept DEF Husk, Alike
    <3> QED BY <1>2, <3>1, <3>2 DEF Alike
  <2> HIDE DEF Q
  <2> QED BY <1>1, <2>1, <2>2, PopKeepsIInv
<1>5. CASE EndlessLoop(p)
  <2> DEFINE A == [P EXCEPT !.wait = "destroyed"]
             B == [A EXCEPT !.hooked = FALSE]
             Q == Husk(B)
  <2>1. prg' = [prg EXCEPT ![p] = Q] /\ Pop
    <3>1. [P EXCEPT !.wait = "destroyed", !.hooked = FALSE] = B
      OBVIOUS
    <3> QED BY <1>5, <3>1 DEF EndlessLoop
  <2>2. Whole(A) /\ A.exec
    BY <1>2, FieldsKept DEF Alike
  <2> HIDE DEF A
  <2>3. Whole(B) /\ B.exec
    BY <2>2, FunctionGone
  <2> HIDE DEF B
  <2>4. Whole(Q) /\ Q.exec
    BY <2>3, FieldsKept DEF Husk, Alike
  <2> HIDE DEF Q
  <2> QED BY <1>1, <2>1, <2>4, PopKeepsIInv
<1>6. CASE Free(p)
  BY <1>1, <1>6, NothingShape, PopKeepsIInv DEF Free
<1>7. CASE CallOut(p)
  <2>1. prg' = [prg EXCEPT ![p] = prg[p]] /\ stack' = stack /\ inside' = FALSE
    BY <1>7 DEF CallOut, IInv, Shape
  <2>2. Alike(prg[p], prg[p])
    BY <1>2, FieldsKept
  <2> QED BY <1>1, <2>1, <2>2, PlaceKeepsIInv
<1>8. CASE CallDone(p) /\ P.wait # "quit"
  <2>1. prg' = [prg EXCEPT ![p] = AfterTest(prg[p])] /\ stack' = stack /\ inside' = TRUE
    BY <1>8 DEF CallDone
  <2> DEFINE f == [i \in DOMAIN P.frames |-> Tested(P.owner, P.frames[i]).f]
  <2>2. prg' = [prg EXCEPT ![p].frames = f]
    BY <2>1 DEF AfterTest
  <2> QED BY <1>1, <2>1, <2>2, FramesKeepIInv
<1> QED BY <1>3, <1>4, <1>5, <1>6, <1>7, <1>8 DEF Quit, CallDone


-----------------------------------------------------------------------------
(* Units that go, and programs that come.                                  *)
LEMMA AsleepKept ==
  ASSUME IInv, NEW u \in Units
  PROVE  /\ Asleep(u) = [p \in Prgs |-> Asleep(u)[p]]
         /\ \A p \in Prgs : Alike(prg[p], Asleep(u)[p])
<1>1. \A p \in Prgs : Alike(prg[p], prg[p]) /\ Alike(prg[p], [prg[p] EXCEPT !.deact = TRUE])
  BY FieldsKept DEF IInv, Shape
<1> QED BY <1>1 DEF Asleep

LEMMA ExtractKeepsIInv ==
  ASSUME IInv, NEW u \in Units, Extract(u)
  PROVE  IInv'
<1>1. /\ life' = [life EXCEPT ![u] = "gone"] /\ prg' = Asleep(u) /\ UNCHANGED <<stack, inside>>
  BY DEF Extract, Gone
<1>2. life \in [Units -> {"live", "gone", "freed"}]
  BY DEF IInv, Shape
<1>3. /\ prg' = [p \in Prgs |-> prg'[p]]
      /\ \A p \in Prgs : Alike(prg[p], prg'[p])
  BY <1>1, AsleepKept
<1>4. life' \in [Units -> {"live", "gone", "freed"}] /\ \A x \in Units : life'[x] \in {"gone", life[x]}
  BY <1>1, <1>2
<1>5. Shape'
  BY <1>1, <1>3, <1>4 DEF IInv, Shape, Alike
<1>6. \A p \in Prgs : prg'[p].owner # None =>
        prg'[p].exec \/ (prg'[p].hooked /\ life'[prg'[p].owner] # "freed")
  <2> SUFFICES ASSUME NEW p \in Prgs, prg'[p].owner # None
               PROVE  prg'[p].exec \/ (prg'[p].hooked /\ life'[prg'[p].owner] # "freed")
    OBVIOUS
  <2>1. prg[p].owner = prg'[p].owner /\ prg'[p].owner \in Units
        /\ prg[p].exec = prg'[p].exec /\ prg[p].hooked = prg'[p].hooked
    BY <1>3 DEF Alike, Whole
  <2>2. prg[p].exec \/ (prg[p].hooked /\ life[prg[p].owner] # "freed")
    BY <2>1, SoundAll DEF Sound
  <2> QED BY <1>4, <2>1, <2>2
<1> QED BY <1>1, <1>3, <1>4, <1>5, <1>6, NobodyBegins DEF Is, Freed

LEMMA DestroySelfKeepsIInv ==
  ASSUME IInv, NEW p \in Prgs, DestroySelf(p)
  PROVE  IInv'
<1> DEFINE u == prg[p].owner
<1>1. /\ p = Top /\ stack # << >> /\ Pop /\ life[u] = "live"
      /\ life' = [life EXCEPT ![u] = "gone"]
      /\ prg' = [Asleep(u) EXCEPT ![p] = Nothing]
  BY DEF DestroySelf, Running, Alive, Gone, IInv, Shape
<1>2. stack' = Front(stack) /\ inside' = FALSE
  BY <1>1 DEF Pop
<1>3. u \in Units
  <2>1. Len(stack) \in DOMAIN stack
    BY <1>1, FrontShape DEF IInv, Shape
  <2>2. Is(p)
    BY <1>1, <2>1 DEF Top, IInv, RunningIsWhole
  <2> QED BY <2>2 DEF IInv, Shape, Whole, Is
<1>4. life \in [Units -> {"live", "gone", "freed"}]
  BY DEF IInv, Shape
<1>5. life' \in [Units -> {"live", "gone", "freed"}] /\ \A x \in Units : life'[x] \in {"gone", life[x]}
  BY <1>1, <1>4
<1>6. /\ prg' = [q \in Prgs |-> prg'[q]]
      /\ prg'[p] = Nothing /\ \A q \in Prgs : q # p => Alike(prg[q], prg'[q])
  <2> HIDE DEF u
  <2>1. /\ Asleep(u) = [q \in Prgs |-> Asleep(u)[q]]
        /\ \A q \in Prgs : Alike(prg[q], Asleep(u)[q])
    BY <1>3, AsleepKept
  <2> DEFINE F == Asleep(u)
  <2> HIDE DEF F
  <2>2. prg' = [F EXCEPT ![p] = Nothing] /\ F = [q \in Prgs |-> F[q]]
    BY <1>1, <2>1 DEF F
  <2>3. \A q \in Prgs : Alike(prg[q], F[q])
    BY <2>1 DEF F
  <2> QED BY <2>2, <2>3
<1>7. \A q \in Prgs : Whole(prg'[q])
  BY <1>6, NothingShape DEF Alike
<1>8. /\ stack' \in Seq(Prgs)
      /\ \A i \in DOMAIN stack' : i \in DOMAIN stack /\ i < Len(stack) /\ stack'[i] = stack[i]
      /\ Len(stack) \in DOMAIN stack /\ Len(stack) \in Nat
  BY <1>1, <1>2, FrontShape, LenProperties DEF IInv, Shape
<1>9. p \notin Range(stack')
  <2> SUFFICES ASSUME p \in Range(stack') PROVE FALSE
    OBVIOUS
  <2>1. PICK i \in DOMAIN stack' : stack'[i] = p
    BY DEF Range
  <2>2. stack[i] = stack[Len(stack)] /\ i \in DOMAIN stack
    BY <1>1, <1>8, <2>1 DEF Top
  <2>3. i = Len(stack)
    BY <1>8, <2>2 DEF IInv, RunningIsWhole
  <2> QED BY <1>8, <2>1, <2>3
<1>10. Shape'
  BY <1>2, <1>5, <1>6, <1>7, <1>8 DEF Shape
<1>11. \A q \in Prgs : prg'[q].owner # None =>
         prg'[q].exec \/ (prg'[q].hooked /\ life'[prg'[q].owner] # "freed")
  <2> HIDE DEF u
  <2> SUFFICES ASSUME NEW q \in Prgs, prg'[q].owner # None
               PROVE  prg'[q].exec \/ (prg'[q].hooked /\ life'[prg'[q].owner] # "freed")
    OBVIOUS
  <2>1. q # p
    BY <1>6, NothingShape
  <2>2. prg[q].owner = prg'[q].owner /\ prg'[q].owner \in Units
        /\ prg[q].exec = prg'[q].exec /\ prg[q].hooked = prg'[q].hooked
    BY <1>6, <2>1 DEF Alike, Whole
  <2>3. prg[q].exec \/ (prg[q].hooked /\ life[prg[q].owner] # "freed")
    BY <2>2, SoundAll DEF Sound
  <2> QED BY <1>5, <2>2, <2>3
<1>12. \A x \in Units : life'[x] = "freed" => life[x] = "freed"
  BY <1>5
<1>13. \A q \in Prgs : q \in Range(stack') => Alike(prg[q], prg'[q])
  BY <1>6, <1>9
<1> QED BY <1>8, <1>10, <1>11, <1>12, <1>13, NobodyBegins DEF Is, Freed

(* clear_destructed meets nobody who runs.                                 *)
LEMMA ClearKeepsIInv ==
  ASSUME IInv, Clear
  PROVE  IInv'
<1>1. /\ stack = << >> /\ UNCHANGED <<stack, inside>>
      /\ life' = [u \in Units |-> IF life[u] = "gone" THEN "freed" ELSE life[u]]
      /\ prg' = [p \in Prgs |->
           IF ~Is(p) \/ ~prg[p].hooked \/ Alive(prg[p].owner) THEN prg[p]
           ELSE IF prg[p].exec THEN [prg[p] EXCEPT !.wait = "destroyed", !.hooked = FALSE]
           ELSE Nothing]
  BY DEF Clear
<1>2. life \in [Units -> {"live", "gone", "freed"}] /\ \A p \in Prgs : Whole(prg[p])
  BY DEF IInv, Shape
<1>3. life' \in [Units -> {"live", "gone", "freed"}] /\ \A u \in Units : Alive(u) => life'[u] # "freed"
  BY <1>1, <1>2 DEF Alive
<1>4. ASSUME NEW p \in Prgs
      PROVE  /\ Whole(prg'[p])
             /\ prg'[p].owner # None =>
                  prg'[p].exec \/ (prg'[p].hooked /\ life'[prg'[p].owner] # "freed")
  <2>1. CASE ~Is(p)
    BY <1>1, <1>2, <2>1 DEF Is
  <2>2. CASE Is(p) /\ ~prg[p].hooked
    BY <1>1, <1>2, <2>2, SoundAll DEF Sound, Is
  <2>3. CASE Is(p) /\ Alive(prg[p].owner)
    <3>1. prg'[p] = prg[p] /\ prg[p].owner \in Units
      BY <1>1, <1>2, <2>3 DEF Whole, Is
    <3>2. prg[p].exec \/ prg[p].hooked
      BY <2>3, SoundAll DEF Sound, Is
    <3> QED BY <1>2, <1>3, <2>3, <3>1, <3>2
  <2>4. CASE Is(p) /\ prg[p].hooked /\ ~Alive(prg[p].owner) /\ prg[p].exec
    <3> DEFINE A == [prg[p] EXCEPT !.wait = "destroyed"]
               B == [A EXCEPT !.hooked = FALSE]
    <3>1. prg'[p] = B
      BY <1>1, <2>4
    <3>2. Whole(A) /\ A.exec
      BY <1>2, <2>4, FieldsKept DEF Alike
    <3> HIDE DEF A
    <3>3. Whole(B) /\ B.exec
      BY <3>2, FunctionGone
    <3> QED BY <3>1, <3>3
  <2>5. CASE Is(p) /\ prg[p].hooked /\ ~Alive(prg[p].owner) /\ ~prg[p].exec
    BY <1>1, <2>5, NothingShape
  <2> QED BY <2>1, <2>2, <2>3, <2>4, <2>5
<1>5. Shape'
  BY <1>1, <1>3, <1>4 DEF IInv, Shape
<1>6. stack' = << >> /\ \A i \in DOMAIN stack' : i \in DOMAIN stack /\ stack'[i] = stack[i]
  BY <1>1
<1>7. Range(stack') = {}
  BY <1>6 DEF Range
<1> QED BY <1>4, <1>5, <1>6, <1>7, NobodyBegins DEF Is

(* Who is not there, or does not execute, is in no activation.             *)
LEMMA NotOnStack ==
  ASSUME IInv, NEW p \in Prgs, ~Is(p) \/ ~prg[p].exec
  PROVE  p \notin Range(stack)
BY DEF IInv, RunningIsWhole, Range

LEMMA NewShape ==
  ASSUME NEW u \in Units, NEW f
  PROVE  /\ Whole(New(u, f)) /\ New(u, f).owner = u /\ u # None
         /\ New(u, f).hooked
BY DilAssumption DEF Whole, New

LEMMA ComingKeepsIInv ==
  ASSUME IInv, NEW p \in Prgs,
         \/ Activate(p)
         \/ \E u \in Units : Copy(p, u)
         \/ \E u, x \in Units : Cast(p, u, x)
         \/ \E q \in Prgs : DilDestroy(p, q)
  PROVE  IInv'
<1>i. Shape /\ inside \in BOOLEAN /\ (inside => stack # << >>)
  BY DEF IInv, Shape
<1>1. CASE Activate(p)
  <2>1. Is(p) /\ prg[p].hooked /\ ~prg[p].exec /\ Begin(p, prg[p]) /\ UNCHANGED life
    BY <1>1 DEF Activate, Busy
  <2>2. Whole(prg[p]) /\ prg[p].owner # None /\ life[prg[p].owner] # "freed"
    BY <1>i, <2>1, SoundAll DEF Shape, Sound, Is
  <2> QED BY <2>1, <2>2, NotOnStack, BeginKeepsIInv
<1>2. ASSUME NEW u \in Units, Copy(p, u) PROVE IInv'
  <2>1. /\ ~Is(p) /\ life[u] # "freed" /\ UNCHANGED <<life, stack, inside>>
        /\ prg' = [prg EXCEPT ![p] = New(u, [var |-> None, sec |-> <<>>])]
    BY <1>2 DEF Copy, Names, Alive, Freed
  <2>2. /\ Whole(New(u, [var |-> None, sec |-> <<>>]))
        /\ New(u, [var |-> None, sec |-> <<>>]).hooked
        /\ New(u, [var |-> None, sec |-> <<>>]).owner = u
    BY NewShape
  <2> QED BY <1>i, <2>1, <2>2, NotOnStack, PlaceKeepsIInv
<1>3. ASSUME NEW u \in Units, NEW x \in Units, Cast(p, u, x) PROVE IInv'
  <2> DEFINE P == New(u, [var |-> x, sec |-> <<[unit |-> x, lab |-> TRUE]>>])
  <2>1. ~Is(p) /\ life[u] # "freed" /\ Begin(p, P) /\ UNCHANGED life
    BY <1>3 DEF Cast, Alive
  <2>2. Whole(P) /\ P.owner = u /\ u # None /\ P.hooked
    BY NewShape
  <2> HIDE DEF P
  <2> QED BY <2>1, <2>2, NotOnStack, BeginKeepsIInv
<1>4. ASSUME NEW q \in Prgs, DilDestroy(p, q) PROVE IInv'
  <2> DEFINE Q == [prg[q] EXCEPT !.wait = "quit"]
  <2>1. Is(q) /\ prg[q].hooked /\ UNCHANGED life
    BY <1>4 DEF DilDestroy
  <2>2. Alike(prg[q], Q)
    BY <1>i, FieldsKept DEF Shape
  <2>3. CASE Busy(Q)
    <3>1. prg' = [prg EXCEPT ![q] = Q] /\ UNCHANGED <<stack, inside>>
      BY <1>4, <2>3 DEF DilDestroy
    <3> HIDE DEF Q
    <3> QED BY <1>i, <2>1, <2>2, <3>1, PlaceKeepsIInv
  <2>4. CASE ~Busy(Q)
    <3>1. Begin(q, Q) /\ ~Q.exec
      BY <1>4, <2>4 DEF DilDestroy, Busy
    <3>2. Whole(Q) /\ Q.hooked /\ Q.owner # None /\ ~prg[q].exec /\ Q.owner = prg[q].owner
      BY <2>1, <2>2, <3>1 DEF Alike, Is
    <3>3. life[Q.owner] # "freed"
      BY <3>2, SoundAll DEF Sound
    <3> HIDE DEF Q
    <3> QED BY <2>1, <3>1, <3>2, <3>3, NotOnStack, BeginKeepsIInv
  <2> QED BY <2>3, <2>4
<1> QED BY <1>1, <1>2, <1>3, <1>4

-----------------------------------------------------------------------------
LEMMA InitHolds == Init => IInv
<1> SUFFICES ASSUME Init PROVE IInv
  OBVIOUS
<1>1. Shape
  <2>1. prg = [p \in Prgs |-> prg[p]] /\ \A p \in Prgs : Whole(prg[p])
    BY NothingShape DEF Init
  <2>2. stack \in Seq(Prgs) /\ inside = FALSE /\ life \in [Units -> {"live", "gone", "freed"}]
    BY DEF Init
  <2> QED BY <2>1, <2>2 DEF Shape
<1>2. \A p \in Prgs : ~Is(p)
  BY NothingShape DEF Init, Is
<1> QED BY <1>1, <1>2 DEF Init, IInv, RunningIsWhole, OrphansStayAsleep

LEMMA StepKeepsIInv == IInv /\ [Next]_vars => IInv'
<1> SUFFICES ASSUME IInv, [Next]_vars PROVE IInv'
  OBVIOUS
<1>1. CASE Clear
  BY <1>1, ClearKeepsIInv
<1>2. ASSUME NEW u \in Units, Extract(u) PROVE IInv'
  BY <1>2, ExtractKeepsIInv
<1>3. ASSUME UNCHANGED <<life, prg, stack, inside>> PROVE IInv'
  BY <1>3 DEF IInv, Shape, RunningIsWhole, OrphansStayAsleep, Is, Freed, Range
<1>4. ASSUME NEW u \in Units, Move(u) PROVE IInv'
  BY <1>3, <1>4 DEF Move
<1>5. CASE UNCHANGED vars
  BY <1>3, <1>5 DEF vars
<1>6. ASSUME NEW p \in Prgs,
             \/ Activate(p)
             \/ \E u \in Units : Copy(p, u)
             \/ \E u, x \in Units : Cast(p, u, x)
             \/ \E q \in Prgs : DilDestroy(p, q)
      PROVE  IInv'
  BY <1>6, ComingKeepsIInv
<1>7. ASSUME NEW p \in Prgs,
             \/ Foreach(p) \/ ForeachNext(p) \/ Call(p) \/ Return(p)
             \/ \E u \in Units : Assign(p, u) \/ SecureUnit(p, u) \/ Unsecure(p, u)
      PROVE  IInv'
  BY <1>7, InstructionsKeepIInv
<1>8. ASSUME NEW p \in Prgs,
             Wait(p) \/ Stop(p) \/ EndlessLoop(p) \/ Quit(p) \/ CallDone(p) \/ CallOut(p)
      PROVE  IInv'
  BY <1>8, EndsKeepIInv
<1>9. ASSUME NEW p \in Prgs, DestroySelf(p) PROVE IInv'
  BY <1>9, DestroySelfKeepsIInv
<1> QED BY <1>1, <1>2, <1>4, <1>5, <1>6, <1>7, <1>8, <1>9 DEF Next

LEMMA Inductive == Spec => []IInv
BY InitHolds, StepKeepsIInv, PTL DEF Spec

(* What runs is whole (destroy_fptr's assertion at the end of a program,   *)
(* and that nothing in an activation is freed or activated again).         *)
THEOREM RunningHolds == Spec => []RunningIsWhole
BY Inductive, PTL DEF IInv

(* A program without its function or its owner does not run: run_dil never *)
(* works for a unit that was freed.                                        *)
THEOREM OrphansHold == Spec => []OrphansStayAsleep
BY Inductive, PTL DEF IInv

-----------------------------------------------------------------------------
(* Numbers, and loops over a sequence.                                     *)
LEMMA FromZeroOn ==
  ASSUME NEW T \in SUBSET Nat, 0 \in T, \A n \in T : n + 1 \in T
  PROVE  T = Nat
<1> SUFFICES ASSUME NEW k \in Nat, k \notin T PROVE FALSE
  OBVIOUS
<1> DEFINE R == StrictSubsetOrdering(Nat)
           F == FiniteSubsetsOf(Nat)
           I == { 1..i : i \in Nat \ T }
<1>1. I \subseteq F /\ I # {}
  <2>1. ASSUME NEW i \in Nat PROVE 1..i \in F
    <3>1. 1 \in Int /\ i \in Int /\ 1..i \subseteq Nat
      OBVIOUS
    <3>2. IsFiniteSet(1..i)
      BY <3>1, FS_Interval
    <3> QED BY <3>1, <3>2 DEF FiniteSubsetsOf
  <2> HIDE DEF F
  <2> QED BY <2>1
<1>2. PICK m \in I : \A y \in I : ~(<<y, m>> \in R)
  <2> HIDE DEF I, F, R
  <2>1. IsWellFoundedOn(R, F)
    BY FS_StrictSubsetOrderingWellFounded DEF R, F
  <2> QED BY <1>1, <2>1, WFMin
<1>3. PICK i \in Nat \ T : m = 1..i
  OBVIOUS
<1>4. i - 1 \in Nat /\ i - 1 \notin T /\ i # 0
  <2>1. i # 0
    OBVIOUS
  <2>2. i - 1 \in Nat /\ (i - 1) + 1 = i
    BY <2>1
  <2> QED BY <2>1, <2>2
<1>5. 1..(i - 1) \in I
  BY <1>4
<1>6. <<1..(i - 1), 1..i>> \in R
  <2>1. 1..(i - 1) \in SUBSET Nat /\ 1..i \in SUBSET Nat /\ 1..(i - 1) \subseteq 1..i
    BY <1>4
  <2>2. i \in 1..i /\ i \notin 1..(i - 1)
    BY <1>4
  <2> QED BY <2>1, <2>2 DEF StrictSubsetOrdering
<1> QED BY <1>2, <1>3, <1>5, <1>6

LEMMA MaxIs ==
  ASSUME NEW n \in Nat, NEW S \in SUBSET (1..n), n \in S
  PROVE  Max(S) = n
<1>1. \A y \in S : n >= y
  OBVIOUS
<1>2. Max(S) \in S /\ \A y \in S : Max(S) >= y
  BY <1>1 DEF Max
<1>3. Max(S) \in 1..n /\ Max(S) >= n
  BY <1>2
<1> DEFINE m == Max(S)
<1>4. m \in 1..n /\ m >= n
  BY <1>3
<1> HIDE DEF m
<1>5. m = n
  BY <1>4
<1> QED BY <1>5 DEF m

LEMMA MaxThere ==
  ASSUME NEW n \in Nat, NEW S \in SUBSET (1..n), S # {}
  PROVE  Max(S) \in S
<1> DEFINE T == {m \in Nat : \A s \in SUBSET (1..m) : s # {} => Max(s) \in s}
<1>1. 0 \in T
  <2>1. 1..0 = {}
    OBVIOUS
  <2> QED BY <2>1
<1>2. ASSUME NEW m \in T PROVE m + 1 \in T
  <2> SUFFICES ASSUME NEW s \in SUBSET (1..(m + 1)), s # {} PROVE Max(s) \in s
    OBVIOUS
  <2>1. CASE m + 1 \in s
    BY <2>1, MaxIs
  <2>2. CASE m + 1 \notin s
    <3>1. s \in SUBSET (1..m)
      BY <2>2
    <3> QED BY <3>1
  <2> QED BY <2>1, <2>2
<1> HIDE DEF T
<1>3. T = Nat
  <2>1. T \in SUBSET Nat
    BY DEF T
  <2> QED BY <1>1, <1>2, <2>1, FromZeroOn
<1> QED BY <1>3 DEF T

(* The recursive function behind a fold exists ...                         *)
LoopsOf(A, b, n, G) ==
  {g \in [SUBSET (1..n) -> A] :
     \A s \in SUBSET (1..n) :
       g[s] = IF s = {} THEN b ELSE G[<<g[s \ {Max(s)}], Max(s)>>]}
LEMMA LoopRuns ==
  ASSUME NEW A, NEW b \in A, NEW n \in Nat, NEW G \in [A \X (1..n) -> A]
  PROVE  LoopsOf(A, b, n, G) # {}
<1> DEFINE Runs(g, m) == \A s \in SUBSET (1..m) :
             g[s] = IF s = {} THEN b ELSE G[<<g[s \ {Max(s)}], Max(s)>>]
           Good(m) == m <= n => \E g \in [SUBSET (1..m) -> A] : Runs(g, m)
           T == {m \in Nat : Good(m)}
<1>1. 0 \in T
  <2> DEFINE g == [s \in SUBSET (1..0) |-> b]
  <2>1. 1..0 = {}
    OBVIOUS
  <2>2. \A s \in SUBSET (1..0) : s = {}
    BY <2>1
  <2>3. g \in [SUBSET (1..0) -> A] /\ Runs(g, 0)
    BY <2>2
  <2> HIDE DEF g, Runs
  <2>4. Good(0)
    BY <2>3
  <2> HIDE DEF Good
  <2> QED BY <2>4
<1>2. ASSUME NEW m \in T PROVE m + 1 \in T
  <2>a. m \in Nat /\ Good(m)
    BY <1>2
  <2> SUFFICES ASSUME m + 1 <= n PROVE \E g \in [SUBSET (1..(m + 1)) -> A] : Runs(g, m + 1)
    <3> HIDE DEF Runs
    <3>1. Good(m + 1)
      OBVIOUS
    <3> HIDE DEF Good
    <3> QED BY <2>a, <3>1
  <2>1. m \in Nat /\ m <= n /\ m + 1 \in 1..n
    BY <2>a
  <2>2. PICK h \in [SUBSET (1..m) -> A] : Runs(h, m)
    <3> HIDE DEF Runs
    <3> QED BY <2>a, <2>1
  <2> DEFINE g == [s \in SUBSET (1..(m + 1)) |->
                     IF m + 1 \in s THEN G[<<h[s \ {m + 1}], m + 1>>] ELSE h[s]]
  <2>3. \A s \in SUBSET (1..(m + 1)) : /\ s \ {m + 1} \in SUBSET (1..m)
                                       /\ m + 1 \notin s => s \in SUBSET (1..m)
    OBVIOUS
  <2>4. \A x \in SUBSET (1..m) : x \in SUBSET (1..(m + 1)) /\ m + 1 \notin x
    OBVIOUS
  <2>5. g \in [SUBSET (1..(m + 1)) -> A]
    <3>1. ASSUME NEW s \in SUBSET (1..(m + 1)), m + 1 \in s
          PROVE  G[<<h[s \ {m + 1}], m + 1>>] \in A
      <4>1. h[s \ {m + 1}] \in A
        BY <2>3
      <4> QED BY <4>1, <2>1
    <3>2. ASSUME NEW s \in SUBSET (1..(m + 1)), m + 1 \notin s PROVE h[s] \in A
      BY <3>2, <2>3
    <3> QED BY <3>1, <3>2
  <2>6. \A x \in SUBSET (1..m) : g[x] = h[x]
    BY <2>4
  <2>7. ASSUME NEW s \in SUBSET (1..(m + 1))
        PROVE  g[s] = IF s = {} THEN b ELSE G[<<g[s \ {Max(s)}], Max(s)>>]
    <3>1. CASE m + 1 \in s
      <4>1. Max(s) = m + 1
        BY <3>1, MaxIs
      <4>2. g[s] = G[<<h[s \ {m + 1}], m + 1>>]
        BY <3>1
      <4>3. g[s \ {m + 1}] = h[s \ {m + 1}]
        BY <2>3, <2>6
      <4> HIDE DEF g
      <4> QED BY <3>1, <4>1, <4>2, <4>3
    <3>2. CASE m + 1 \notin s
      <4>1. s \in SUBSET (1..m) /\ s \ {Max(s)} \in SUBSET (1..m)
        BY <3>2, <2>3
      <4>2. h[s] = IF s = {} THEN b ELSE G[<<h[s \ {Max(s)}], Max(s)>>]
        BY <2>2, <4>1
      <4>3. g[s] = h[s] /\ g[s \ {Max(s)}] = h[s \ {Max(s)}]
        BY <2>6, <4>1
      <4> HIDE DEF g
      <4> QED BY <4>2, <4>3
    <3> QED BY <3>1, <3>2
  <2>8. Runs(g, m + 1)
    BY <2>7
  <2> HIDE DEF g, Runs
  <2> QED BY <2>5, <2>8
<1> HIDE DEF T
<1>3. T = Nat
  <2>1. T \in SUBSET Nat
    BY DEF T
  <2> QED BY <1>1, <1>2, <2>1, FromZeroOn
<1>4. Good(n)
  <2> HIDE DEF Good
  <2> QED BY <1>3 DEF T
<1>5. \E g \in [SUBSET (1..n) -> A] : Runs(g, n)
  <2> HIDE DEF Runs
  <2>1. n <= n
    OBVIOUS
  <2> QED BY <1>4, <2>1
<1> QED BY <1>5 DEF LoopsOf

(* ... and every solution of its equation stays within what a round of the *)
(* loop preserves.                                                         *)
LEMMA LoopStays ==
  ASSUME NEW A, NEW n \in Nat, NEW g,
         g[{}] \in A,
         \A s \in SUBSET (1..n) : s # {} /\ g[s \ {Max(s)}] \in A => g[s] \in A
  PROVE  g[1..n] \in A
<1> DEFINE Good(m) == m <= n => \A s \in SUBSET (1..m) : g[s] \in A
           T == {m \in Nat : Good(m)}
<1>1. 0 \in T
  <2>1. 1..0 = {}
    OBVIOUS
  <2>2. \A s \in SUBSET (1..0) : s = {}
    BY <2>1
  <2>3. Good(0)
    BY <2>2
  <2> HIDE DEF Good
  <2> QED BY <2>3
<1>2. ASSUME NEW m \in T PROVE m + 1 \in T
  <2>a. m \in Nat /\ Good(m)
    BY <1>2
  <2> SUFFICES ASSUME m + 1 <= n, NEW s \in SUBSET (1..(m + 1)) PROVE g[s] \in A
    <3>1. Good(m + 1)
      OBVIOUS
    <3> HIDE DEF Good
    <3> QED BY <2>a, <3>1
  <2>1. CASE m + 1 \in s
    <3>1. Max(s) = m + 1
      BY <2>a, <2>1, MaxIs
    <3>2. s \ {m + 1} \in SUBSET (1..m) /\ m <= n
      BY <2>a
    <3>3. g[s \ {m + 1}] \in A
      BY <2>a, <3>2
    <3>4. s \in SUBSET (1..n)
      BY <2>a
    <3> QED BY <2>1, <3>1, <3>3, <3>4
  <2>2. CASE m + 1 \notin s
    <3>1. s \in SUBSET (1..m) /\ m <= n
      BY <2>a, <2>2
    <3> QED BY <2>a, <3>1
  <2> QED BY <2>1, <2>2
<1> HIDE DEF T
<1>3. T = Nat
  <2>1. T \in SUBSET Nat
    BY DEF T
  <2> QED BY <1>1, <1>2, <2>1, FromZeroOn
<1>4. Good(n)
  <2> HIDE DEF Good
  <2> QED BY <1>3 DEF T
<1> QED BY <1>4

(* The last entry in the place of another.                                 *)
LEMMA SwapOutShape ==
  ASSUME NEW S, NEW s \in Seq(S), NEW i \in 1..Len(s)
  PROVE  /\ SwapOut(s, i) \in Seq(S) /\ Len(SwapOut(s, i)) = Len(s) - 1
         /\ Range(SwapOut(s, i)) \subseteq Range(s)
<1>1. Len(s) \in Nat /\ Len(s) > 0 /\ DOMAIN s = 1..Len(s) /\ Len(s) - 1 \in Nat
  BY LenProperties
<1>2. \A j \in 1..Len(s) : s[j] \in S /\ s[j] \in Range(s)
  BY <1>1, ElementOfSeq DEF Range
<1>3. Last(s) \in S /\ Last(s) \in Range(s)
  BY <1>1, <1>2 DEF Last
<1> DEFINE t == [j \in 1..(Len(s) - 1) |-> IF j = i THEN Last(s) ELSE s[j]]
<1>4. \A j \in 1..(Len(s) - 1) : t[j] \in S /\ t[j] \in Range(s)
  BY <1>1, <1>2, <1>3
<1>5. t \in Seq(S) /\ Len(t) = Len(s) - 1 /\ DOMAIN t = 1..(Len(s) - 1)
  <2>1. t = [j \in 1..(Len(s) - 1) |-> t[j]]
    OBVIOUS
  <2> DEFINE m == Len(s) - 1
  <2>2. t \in [1..m -> S] /\ m \in Nat
    BY <1>1, <1>4
  <2> HIDE DEF t, m
  <2>3. t \in Seq(S) /\ Len(t) = m /\ DOMAIN t = 1..m
    BY <2>2
  <2> QED BY <2>3 DEF m
<1> HIDE DEF t
<1>6. Range(t) \subseteq Range(s)
  BY <1>4, <1>5 DEF Range
<1> QED BY <1>5, <1>6 DEF t, SwapOut

(* What the loops over a list of secures leave of it.                      *)
PartsOf(s) == {t \in Seq(Secure) : Range(t) \subseteq Range(s) /\ Len(t) <= Len(s)}

LEMMA PartsShrink ==
  ASSUME NEW s \in Seq(Secure)
  PROVE  /\ s \in PartsOf(s)
         /\ \A t \in PartsOf(s) : PartsOf(t) \subseteq PartsOf(s)
         /\ \A t \in PartsOf(s) : \A i \in 1..Len(t) : SwapOut(t, i) \in PartsOf(s)
<1>1. \A t \in Seq(Secure) : Len(t) \in Nat
  BY LenProperties
<1>2. s \in PartsOf(s)
  BY <1>1 DEF PartsOf
<1>3. ASSUME NEW t \in PartsOf(s), NEW q \in PartsOf(t) PROVE q \in PartsOf(s)
  <2>1. t \in Seq(Secure) /\ Len(t) <= Len(s) /\ Range(t) \subseteq Range(s)
    BY DEF PartsOf
  <2>2. q \in Seq(Secure) /\ Len(q) <= Len(t) /\ Range(q) \subseteq Range(t)
    BY DEF PartsOf
  <2>3. Len(q) <= Len(s)
    BY <1>1, <2>1, <2>2
  <2> QED BY <2>1, <2>2, <2>3 DEF PartsOf
<1>4. ASSUME NEW t \in PartsOf(s), NEW i \in 1..Len(t) PROVE SwapOut(t, i) \in PartsOf(s)
  <2>1. t \in Seq(Secure)
    BY DEF PartsOf
  <2>2. SwapOut(t, i) \in Seq(Secure) /\ Len(SwapOut(t, i)) = Len(t) - 1
        /\ Range(SwapOut(t, i)) \subseteq Range(t)
    BY <2>1, SwapOutShape
  <2>3. SwapOut(t, i) \in PartsOf(t)
    BY <1>1, <2>1, <2>2 DEF PartsOf
  <2> QED BY <1>3, <2>3
<1> QED BY <1>2, <1>3, <1>4

(* dil_sub_secure leaves a part of the list.                               *)
LEMMA SubShape ==
  ASSUME NEW s \in Seq(Secure), NEW u, NEW b
  PROVE  Sub(s, u, b) \in PartsOf(s)
<1> DEFINE n == Len(s)
           U == Upto(n)
           op(t, i) == IF i <= Len(t) /\ t[i].unit = u /\ t[i].lab # b THEN SwapOut(t, i) ELSE t
           A == PartsOf(s)
           Eq(h) == h = [S \in SUBSET DOMAIN U |->
                           IF S = {} THEN s ELSE LET x == Max(S) IN op(h[S \ {x}], U[x])]
           g == CHOOSE h : Eq(h)
<1>1. Sub(s, u, b) = g[DOMAIN U]
  BY DEF Sub, FoldLeft, MapThenFoldSet
<1>2. n \in Nat /\ DOMAIN U = 1..n /\ \A i \in 1..n : U[i] = i
  BY LenProperties DEF Upto
<1>3. ASSUME NEW t \in A, NEW i \in 1..n PROVE op(t, i) \in A
  <2>1. CASE i <= Len(t) /\ t[i].unit = u /\ t[i].lab # b
    <3>1. i \in 1..Len(t)
      <4>1. Len(t) \in Nat
        BY LenProperties DEF PartsOf
      <4> QED BY <1>2, <2>1, <4>1
    <3>2. SwapOut(t, i) \in PartsOf(s)
      BY <3>1, PartsShrink
    <3> QED BY <2>1, <3>2
  <2>2. CASE ~(i <= Len(t) /\ t[i].unit = u /\ t[i].lab # b)
    BY <2>2
  <2> QED BY <2>1, <2>2
<1>4. \A S \in SUBSET (1..n) : S # {} => Max(S) \in 1..n /\ S \ {Max(S)} \in SUBSET (1..n)
  BY <1>2, MaxThere
<1>5. s \in A
  BY PartsShrink
<1> HIDE DEF A, U, n, op
<1>6. Eq(g)
  <2> DEFINE G == [x \in A \X (1..n) |-> op(x[1], x[2])]
  <2>1. G \in [A \X (1..n) -> A] /\ \A t \in A, i \in 1..n : G[<<t, i>>] = op(t, i)
    BY <1>3
  <2> HIDE DEF G
  <2>2. PICK h \in [SUBSET (1..n) -> A] : \A S \in SUBSET (1..n) :
          h[S] = IF S = {} THEN s ELSE G[<<h[S \ {Max(S)}], Max(S)>>]
    <3>1. /\ s \in A /\ n \in Nat /\ G \in [A \X (1..n) -> A]
      BY <1>2, <1>5, <2>1
    <3>2. PICK h \in LoopsOf(A, s, n, G) : TRUE
      BY <3>1, LoopRuns
    <3> QED BY <3>2 DEF LoopsOf
  <2>3. \A S \in SUBSET (1..n) :
          h[S] = IF S = {} THEN s ELSE op(h[S \ {Max(S)}], U[Max(S)])
    <3> SUFFICES ASSUME NEW S \in SUBSET (1..n), S # {}
                 PROVE  h[S] = op(h[S \ {Max(S)}], U[Max(S)])
      BY <2>2
    <3>1. Max(S) \in 1..n /\ h[S \ {Max(S)}] \in A /\ U[Max(S)] = Max(S)
      BY <1>2, <1>4, <2>2
    <3>2. h[S] = G[<<h[S \ {Max(S)}], Max(S)>>]
      BY <2>2
    <3> QED BY <2>1, <3>1, <3>2
  <2>4. Eq(h)
    BY <1>2, <2>2, <2>3
  <2> QED BY <2>4
<1> HIDE DEF g
<1>7. \A S \in SUBSET (1..n) :
        g[S] = IF S = {} THEN s ELSE op(g[S \ {Max(S)}], U[Max(S)])
  BY <1>2, <1>6
<1>8. g[{}] \in A
  BY <1>5, <1>7
<1>9. \A S \in SUBSET (1..n) : S # {} /\ g[S \ {Max(S)}] \in A => g[S] \in A
  <2> SUFFICES ASSUME NEW S \in SUBSET (1..n), S # {}, g[S \ {Max(S)}] \in A PROVE g[S] \in A
    OBVIOUS
  <2>1. Max(S) \in 1..n /\ U[Max(S)] = Max(S)
    BY <1>2, <1>4
  <2>2. g[S] = op(g[S \ {Max(S)}], Max(S))
    BY <1>7, <2>1
  <2>3. op(g[S \ {Max(S)}], Max(S)) \in A
    BY <1>3, <2>1
  <2> QED BY <2>2, <2>3
<1>10. g[1..n] \in A
  BY <1>2, <1>8, <1>9, LoopStays
<1> QED BY <1>1, <1>2, <1>10 DEF A

(* dil_test_secure leaves a part of it, and the pointer or nothing.        *)
LEMMA TestedShape ==
  ASSUME NEW o, NEW f \in Frame
  PROVE  /\ Tested(o, f).f \in Frame /\ Tested(o, f).f.var \in {f.var, None}
         /\ Tested(o, f).f.sec \in PartsOf(f.sec)
<1> DEFINE n == Len(f.sec)
           U == Upto(n)
           b == [f |-> f, hit |-> FALSE]
           op(t, i) ==
             IF i > Len(t.f.sec) \/ Visible(o, t.f.sec[i].unit) THEN t
             ELSE LET e == t.f.sec[i] IN
                  [ f |-> [ var |-> IF t.f.var = e.unit THEN None ELSE t.f.var,
                            sec |-> Sub(t.f.sec, e.unit, FALSE) ],
                    hit |-> t.hit \/ e.lab ]
           B == PartsOf(f.sec)
           V == {f.var, None}
           A == [f : [var : V, sec : B], hit : BOOLEAN]
           Eq(h) == h = [S \in SUBSET DOMAIN U |->
                           IF S = {} THEN b ELSE LET x == Max(S) IN op(h[S \ {x}], U[x])]
           g == CHOOSE h : Eq(h)
<1>1. Tested(o, f) = g[DOMAIN U]
  BY DEF Tested, FoldLeft, MapThenFoldSet
<1>2. n \in Nat /\ DOMAIN U = 1..n /\ (\A i \in 1..n : U[i] = i) /\ f.sec \in Seq(Secure)
  BY LenProperties DEF Upto, Frame
<1>3. ASSUME NEW t \in A, NEW i \in 1..n PROVE op(t, i) \in A
  <2>1. t.f \in [var : V, sec : B] /\ t.hit \in BOOLEAN
    BY <1>3
  <2>2. t.f.var \in V /\ t.f.sec \in B
    BY <2>1
  <2>3. CASE i > Len(t.f.sec) \/ Visible(o, t.f.sec[i].unit)
    <3>1. op(t, i) = t
      BY <2>3
    <3> HIDE DEF op
    <3> QED BY <3>1
  <2>4. CASE ~(i > Len(t.f.sec) \/ Visible(o, t.f.sec[i].unit))
    <3> DEFINE e == t.f.sec[i]
               q == Sub(t.f.sec, e.unit, FALSE)
               v == IF t.f.var = e.unit THEN None ELSE t.f.var
    <3>1. op(t, i) = [f |-> [var |-> v, sec |-> q], hit |-> t.hit \/ e.lab]
      BY <2>4
    <3>2. Len(t.f.sec) \in Nat /\ i \in 1..Len(t.f.sec)
      <4>1. t.f.sec \in Seq(Secure)
        BY <2>2 DEF PartsOf
      <4>2. Len(t.f.sec) \in Nat
        BY <4>1, LenProperties
      <4> QED BY <1>2, <2>4, <4>2
    <3>3. e \in Secure /\ e.lab \in BOOLEAN
      <4>1. t.f.sec \in Seq(Secure)
        BY <2>2 DEF PartsOf
      <4>2. t.f.sec[i] \in Secure
        BY <3>2, <4>1, ElementOfSeq
      <4> QED BY <4>2 DEF Secure
    <3>4. q \in B
      <4>1. t.f.sec \in Seq(Secure)
        BY <2>2 DEF PartsOf
      <4>2. q \in PartsOf(t.f.sec)
        BY <4>1, SubShape
      <4> HIDE DEF q
      <4> QED BY <1>2, <2>2, <4>2, PartsShrink
    <3>5. v \in V
      BY <2>2
    <3> HIDE DEF op, q, v, e, B, V
    <3>6. (t.hit \/ e.lab) \in BOOLEAN
      BY <2>1, <3>3
    <3>7. [var |-> v, sec |-> q] \in [var : V, sec : B]
      BY <3>4, <3>5
    <3> QED BY <3>1, <3>6, <3>7
  <2> QED BY <2>3, <2>4
<1>4. \A S \in SUBSET (1..n) : S # {} => Max(S) \in 1..n /\ S \ {Max(S)} \in SUBSET (1..n)
  BY <1>2, MaxThere
<1>5. b \in A
  <2>1. f = [var |-> f.var, sec |-> f.sec] /\ f.var \in V /\ f.sec \in B
    BY <1>2, PartsShrink DEF Frame
  <2>2. f \in [var : V, sec : B]
    BY <2>1
  <2> QED BY <2>2
<1>6. \A t \in A : t.f \in Frame /\ t.f.var \in V /\ t.f.sec \in B
  <2>1. V \subseteq Units \cup {None} /\ B \subseteq Seq(Secure)
    BY DEF Frame, PartsOf
  <2>2. ASSUME NEW t \in A PROVE t.f \in [var : V, sec : B] /\ t.f.sec \in B /\ t.f.var \in V
    BY <2>2
  <2> QED BY <2>1, <2>2 DEF Frame
<1> HIDE DEF A, U, n, op, b
<1>7. Eq(g)
  <2> DEFINE G == [x \in A \X (1..n) |-> op(x[1], x[2])]
  <2>1. G \in [A \X (1..n) -> A] /\ \A t \in A, i \in 1..n : G[<<t, i>>] = op(t, i)
    BY <1>3
  <2> HIDE DEF G
  <2>2. PICK h \in [SUBSET (1..n) -> A] : \A S \in SUBSET (1..n) :
          h[S] = IF S = {} THEN b ELSE G[<<h[S \ {Max(S)}], Max(S)>>]
    <3>1. b \in A /\ n \in Nat /\ G \in [A \X (1..n) -> A]
      BY <1>2, <1>5, <2>1
    <3>2. PICK h \in LoopsOf(A, b, n, G) : TRUE
      BY <3>1, LoopRuns
    <3> QED BY <3>2 DEF LoopsOf
  <2>3. \A S \in SUBSET (1..n) :
          h[S] = IF S = {} THEN b ELSE op(h[S \ {Max(S)}], U[Max(S)])
    <3> SUFFICES ASSUME NEW S \in SUBSET (1..n), S # {}
                 PROVE  h[S] = op(h[S \ {Max(S)}], U[Max(S)])
      BY <2>2
    <3>1. Max(S) \in 1..n /\ h[S \ {Max(S)}] \in A /\ U[Max(S)] = Max(S)
      BY <1>2, <1>4, <2>2
    <3>2. h[S] = G[<<h[S \ {Max(S)}], Max(S)>>]
      BY <2>2
    <3> QED BY <2>1, <3>1, <3>2
  <2>4. Eq(h)
    BY <1>2, <2>2, <2>3
  <2> QED BY <2>4
<1> HIDE DEF g
<1>8. \A S \in SUBSET (1..n) :
        g[S] = IF S = {} THEN b ELSE op(g[S \ {Max(S)}], U[Max(S)])
  BY <1>2, <1>7
<1>9. g[{}] \in A
  BY <1>5, <1>8
<1>10. \A S \in SUBSET (1..n) : S # {} /\ g[S \ {Max(S)}] \in A => g[S] \in A
  <2> SUFFICES ASSUME NEW S \in SUBSET (1..n), S # {}, g[S \ {Max(S)}] \in A PROVE g[S] \in A
    OBVIOUS
  <2>1. Max(S) \in 1..n /\ U[Max(S)] = Max(S)
    BY <1>2, <1>4
  <2>2. g[S] = op(g[S \ {Max(S)}], Max(S))
    BY <1>8, <2>1
  <2>3. op(g[S \ {Max(S)}], Max(S)) \in A
    BY <1>3, <2>1
  <2> QED BY <2>2, <2>3
<1>11. g[1..n] \in A
  BY <1>2, <1>9, <1>10, LoopStays
<1> QED BY <1>1, <1>2, <1>6, <1>11

(* There is a least number.                                                *)
LEMMA MinThere ==
  ASSUME NEW S \in SUBSET Nat, S # {}
  PROVE  Min(S) \in S
<1> DEFINE Good(m) == \A s \in SUBSET Nat : (\E x \in s : x <= m) => \E x \in s : \A y \in s : x <= y
           T == {m \in Nat : Good(m)}
<1>1. 0 \in T
  <2>1. Good(0)
    OBVIOUS
  <2> HIDE DEF Good
  <2> QED BY <2>1
<1>2. ASSUME NEW m \in T PROVE m + 1 \in T
  <2>1. m \in Nat /\ Good(m)
    BY <1>2
  <2>2. Good(m + 1)
    <3> SUFFICES ASSUME NEW s \in SUBSET Nat, NEW x \in s, x <= m + 1
                 PROVE  \E z \in s : \A y \in s : z <= y
      OBVIOUS
    <3>1. CASE \E y \in s : y <= m
      BY <2>1, <3>1
    <3>2. CASE \A y \in s : ~(y <= m)
      <4>1. \A y \in s : y >= m + 1
        BY <2>1, <3>2
      <4>2. \A y \in s : x <= y
        BY <2>1, <4>1
      <4> QED BY <4>2
    <3> QED BY <3>1, <3>2
  <2> HIDE DEF Good
  <2> QED BY <2>1, <2>2
<1> HIDE DEF T
<1>3. T = Nat
  <2>1. T \in SUBSET Nat
    BY DEF T
  <2> QED BY <1>1, <1>2, <2>1, FromZeroOn
<1>4. PICK x \in S : TRUE
  OBVIOUS
<1>5. Good(x)
  <2>1. x \in T
    BY <1>3
  <2> HIDE DEF Good
  <2> QED BY <2>1 DEF T
<1>6. \E z \in S : \A y \in S : z <= y
  BY <1>5
<1> QED BY <1>6 DEF Min

(* The list of before goes with a foreach: a part of it stays.             *)
LEMMA LabelledShape ==
  ASSUME NEW s \in Seq(Secure)
  PROVE  Labelled(s) \in PartsOf(s)
<1> DEFINE n == Len(s)
           U == Upto(n)
           op(t, i) == LET J == {j \in DOMAIN t : ~t[j].lab} IN
                       IF J = {} THEN t ELSE SwapOut(t, Min(J))
           A == PartsOf(s)
           Eq(h) == h = [S \in SUBSET DOMAIN U |->
                           IF S = {} THEN s ELSE LET x == Max(S) IN op(h[S \ {x}], U[x])]
           g == CHOOSE h : Eq(h)
<1>1. Labelled(s) = g[DOMAIN U]
  BY DEF Labelled, FoldLeft, MapThenFoldSet
<1>2. n \in Nat /\ DOMAIN U = 1..n /\ \A i \in 1..n : U[i] = i
  BY LenProperties DEF Upto
<1>3. ASSUME NEW t \in A, NEW i \in 1..n PROVE op(t, i) \in A
  <2> DEFINE J == {j \in DOMAIN t : ~t[j].lab}
  <2>1. CASE J = {}
    BY <2>1
  <2>2. CASE J # {}
    <3>1. op(t, i) = SwapOut(t, Min(J))
      BY <2>2
    <3>2. J \in SUBSET Nat /\ J \subseteq 1..Len(t)
      BY LenProperties DEF PartsOf
    <3>3. Min(J) \in 1..Len(t)
      <4> HIDE DEF J
      <4> QED BY <2>2, <3>2, MinThere
    <3> DEFINE m == Min(J)
    <3>4. m \in 1..Len(t) /\ op(t, i) = SwapOut(t, m)
      BY <3>1, <3>3
    <3> HIDE DEF m, op
    <3>5. SwapOut(t, m) \in A
      BY <3>4, PartsShrink
    <3> QED BY <3>4, <3>5
  <2> QED BY <2>1, <2>2
<1>4. \A S \in SUBSET (1..n) : S # {} => Max(S) \in 1..n /\ S \ {Max(S)} \in SUBSET (1..n)
  BY <1>2, MaxThere
<1>5. s \in A
  BY PartsShrink
<1> HIDE DEF A, U, n, op
<1>6. Eq(g)
  <2> DEFINE G == [x \in A \X (1..n) |-> op(x[1], x[2])]
  <2>1. G \in [A \X (1..n) -> A] /\ \A t \in A, i \in 1..n : G[<<t, i>>] = op(t, i)
    BY <1>3
  <2> HIDE DEF G
  <2>2. PICK h \in [SUBSET (1..n) -> A] : \A S \in SUBSET (1..n) :
          h[S] = IF S = {} THEN s ELSE G[<<h[S \ {Max(S)}], Max(S)>>]
    <3>1. s \in A /\ n \in Nat /\ G \in [A \X (1..n) -> A]
      BY <1>2, <1>5, <2>1
    <3>2. PICK h \in LoopsOf(A, s, n, G) : TRUE
      BY <3>1, LoopRuns
    <3> QED BY <3>2 DEF LoopsOf
  <2>3. \A S \in SUBSET (1..n) :
          h[S] = IF S = {} THEN s ELSE op(h[S \ {Max(S)}], U[Max(S)])
    <3> SUFFICES ASSUME NEW S \in SUBSET (1..n), S # {}
                 PROVE  h[S] = op(h[S \ {Max(S)}], U[Max(S)])
      BY <2>2
    <3>1. Max(S) \in 1..n /\ h[S \ {Max(S)}] \in A /\ U[Max(S)] = Max(S)
      BY <1>2, <1>4, <2>2
    <3>2. h[S] = G[<<h[S \ {Max(S)}], Max(S)>>]
      BY <2>2
    <3> QED BY <2>1, <3>1, <3>2
  <2>4. Eq(h)
    BY <1>2, <2>2, <2>3
  <2> QED BY <2>4
<1> HIDE DEF g
<1>7. \A S \in SUBSET (1..n) :
        g[S] = IF S = {} THEN s ELSE op(g[S \ {Max(S)}], U[Max(S)])
  BY <1>2, <1>6
<1>8. g[{}] \in A
  BY <1>5, <1>7
<1>9. \A S \in SUBSET (1..n) : S # {} /\ g[S \ {Max(S)}] \in A => g[S] \in A
  <2> SUFFICES ASSUME NEW S \in SUBSET (1..n), S # {}, g[S \ {Max(S)}] \in A PROVE g[S] \in A
    OBVIOUS
  <2>1. Max(S) \in 1..n /\ U[Max(S)] = Max(S)
    BY <1>2, <1>4
  <2>2. g[S] = op(g[S \ {Max(S)}], Max(S))
    BY <1>7, <2>1
  <2>3. op(g[S \ {Max(S)}], Max(S)) \in A
    BY <1>3, <2>1
  <2> QED BY <2>2, <2>3
<1>10. g[1..n] \in A
  BY <1>2, <1>8, <1>9, LoopStays
<1> QED BY <1>1, <1>2, <1>10 DEF A

-----------------------------------------------------------------------------
(* The memory of a program, and of all of them.                            *)
Size(fs) == FoldLeft(LAMBDA n, f : n + 1 + Len(f.sec), 0, fs)

(* The sums behind it.                                                     *)
SumsOf(fs) ==
  {h \in [0..Len(fs) -> Nat] :
     h[0] = 0 /\ \A i \in 1..Len(fs) : h[i] = h[i - 1] + 1 + Len(fs[i].sec)}

(* The fold is the last of its sums.                                       *)
LEMMA SizeIsSum ==
  ASSUME NEW fs \in Seq(Frame)
  PROVE  \E h \in SumsOf(fs) : Size(fs) = h[Len(fs)]
<1> DEFINE n == Len(fs)
           op(m, f) == m + 1 + Len(f.sec)
           Eq(h) == h = [S \in SUBSET DOMAIN fs |->
                           IF S = {} THEN 0 ELSE LET x == Max(S) IN op(h[S \ {x}], fs[x])]
           g == CHOOSE h : Eq(h)
<1>1. Size(fs) = g[DOMAIN fs]
  BY DEF Size, FoldLeft, MapThenFoldSet
<1>2. n \in Nat /\ DOMAIN fs = 1..n
  BY LenProperties
<1>3. \A i \in 1..n : fs[i] \in Frame /\ Len(fs[i].sec) \in Nat
  <2> SUFFICES ASSUME NEW i \in 1..n PROVE fs[i] \in Frame /\ Len(fs[i].sec) \in Nat
    OBVIOUS
  <2>1. fs[i] \in Frame
    BY <1>2, ElementOfSeq
  <2>2. fs[i].sec \in Seq(Secure)
    BY <2>1 DEF Frame
  <2> QED BY <2>1, <2>2, LenProperties
<1>4. \A S \in SUBSET (1..n) : S # {} => Max(S) \in 1..n /\ S \ {Max(S)} \in SUBSET (1..n)
  BY <1>2, MaxThere
<1> HIDE DEF n
<1>5. Eq(g)
  <2> DEFINE G == [x \in Nat \X (1..n) |-> op(x[1], fs[x[2]])]
  <2>0. \A t \in Nat, i \in 1..n : op(t, fs[i]) \in Nat
    <3> SUFFICES ASSUME NEW t \in Nat, NEW i \in 1..n PROVE op(t, fs[i]) \in Nat
      OBVIOUS
    <3> DEFINE a == Len(fs[i].sec)
    <3>1. a \in Nat /\ op(t, fs[i]) = t + 1 + a
      BY <1>3
    <3> HIDE DEF a, op
    <3> QED BY <3>1
  <2>1. /\ G \in [Nat \X (1..n) -> Nat]
        /\ \A t \in Nat, i \in 1..n : G[<<t, i>>] = op(t, fs[i])
    <3> HIDE DEF op
    <3> QED BY <2>0
  <2> HIDE DEF G
  <2>2. PICK h \in [SUBSET (1..n) -> Nat] : \A S \in SUBSET (1..n) :
          h[S] = IF S = {} THEN 0 ELSE G[<<h[S \ {Max(S)}], Max(S)>>]
    <3>1. 0 \in Nat /\ n \in Nat /\ G \in [Nat \X (1..n) -> Nat]
      BY <1>2, <2>1
    <3>2. PICK h \in LoopsOf(Nat, 0, n, G) : TRUE
      BY <3>1, LoopRuns
    <3> QED BY <3>2 DEF LoopsOf
  <2> HIDE DEF op
  <2>3. \A S \in SUBSET (1..n) :
          h[S] = IF S = {} THEN 0 ELSE op(h[S \ {Max(S)}], fs[Max(S)])
    <3> SUFFICES ASSUME NEW S \in SUBSET (1..n), S # {}
                 PROVE  h[S] = op(h[S \ {Max(S)}], fs[Max(S)])
      BY <2>2
    <3>1. Max(S) \in 1..n /\ h[S \ {Max(S)}] \in Nat
      BY <1>4, <2>2
    <3>2. h[S] = G[<<h[S \ {Max(S)}], Max(S)>>]
      BY <2>2
    <3> QED BY <2>1, <3>1, <3>2
  <2>4. Eq(h)
    BY <1>2, <2>2, <2>3
  <2> QED BY <2>4
<1> HIDE DEF g
<1>6. \A S \in SUBSET (1..n) :
        g[S] = IF S = {} THEN 0 ELSE g[S \ {Max(S)}] + 1 + Len(fs[Max(S)].sec)
  BY <1>2, <1>5
<1>7. g[{}] = 0
  BY <1>6
<1>8. \A i \in 1..n : g[1..i] = g[1..(i - 1)] + 1 + Len(fs[i].sec)
  <2> SUFFICES ASSUME NEW i \in 1..n PROVE g[1..i] = g[1..(i - 1)] + 1 + Len(fs[i].sec)
    OBVIOUS
  <2>1. i \in Nat /\ 1..i \in SUBSET (1..n) /\ i \in 1..i /\ 1..i # {} /\ (1..i) \ {i} = 1..(i - 1)
    BY <1>2
  <2>2. Max(1..i) = i
    BY <2>1, MaxIs
  <2> QED BY <1>6, <2>1, <2>2
<1> DEFINE Good(m) == m <= n => g[1..m] \in Nat
           T == {m \in Nat : Good(m)}
<1>9. 0 \in T
  <2>1. 1..0 = {}
    OBVIOUS
  <2>2. Good(0)
    BY <1>7, <2>1
  <2> HIDE DEF Good
  <2> QED BY <2>2
<1>10. ASSUME NEW m \in T PROVE m + 1 \in T
  <2>1. m \in Nat /\ Good(m)
    BY <1>10
  <2>2. Good(m + 1)
    <3> SUFFICES ASSUME m + 1 <= n PROVE g[1..(m + 1)] \in Nat
      OBVIOUS
    <3>1. m + 1 \in 1..n /\ (m + 1) - 1 = m /\ m <= n
      BY <1>2, <2>1
    <3>2. g[1..(m + 1)] = g[1..m] + 1 + Len(fs[m + 1].sec)
      BY <1>8, <3>1
    <3>3. g[1..m] \in Nat /\ Len(fs[m + 1].sec) \in Nat
      BY <1>3, <2>1, <3>1
    <3> QED BY <3>2, <3>3
  <2> HIDE DEF Good
  <2> QED BY <2>1, <2>2
<1> HIDE DEF T
<1>11. T = Nat
  <2>1. T \in SUBSET Nat
    BY DEF T
  <2> QED BY <1>9, <1>10, <2>1, FromZeroOn
<1>12. \A m \in 0..n : g[1..m] \in Nat
  <2> SUFFICES ASSUME NEW m \in 0..n PROVE g[1..m] \in Nat
    OBVIOUS
  <2>1. m \in T /\ m <= n
    BY <1>2, <1>11
  <2>2. Good(m)
    <3> HIDE DEF Good
    <3> QED BY <2>1 DEF T
  <2> QED BY <2>1, <2>2
<1> DEFINE h == [m \in 0..n |-> g[1..m]]
<1>13. h \in [0..n -> Nat] /\ h[n] = g[1..n]
  BY <1>2, <1>12
<1>14. h[0] = 0
  <2>1. 1..0 = {} /\ 0 \in 0..n
    BY <1>2
  <2> QED BY <1>7, <2>1
<1>15. \A i \in 1..n : h[i] = h[i - 1] + 1 + Len(fs[i].sec)
  <2>1. \A i \in 1..n : i \in 0..n /\ i - 1 \in 0..n
    BY <1>2
  <2> QED BY <1>8, <2>1
<1> HIDE DEF h
<1>16. h \in SumsOf(fs)
  BY <1>13, <1>14, <1>15 DEF SumsOf, n
<1> QED BY <1>1, <1>2, <1>13, <1>16 DEF n

(* Frames with shorter lists need less, up to any of them.                 *)
LEMMA SumsCompare ==
  ASSUME NEW fs \in Seq(Frame), NEW gs \in Seq(Frame), NEW h \in SumsOf(fs), NEW k \in SumsOf(gs),
         NEW m \in Nat, m <= Len(fs), m <= Len(gs),
         \A i \in 1..m : Len(fs[i].sec) <= Len(gs[i].sec)
  PROVE  h[m] <= k[m]
<1> DEFINE Good(j) == j <= m => h[j] <= k[j]
           T == {j \in Nat : Good(j)}
<1>1. /\ Len(fs) \in Nat /\ Len(gs) \in Nat
      /\ h \in [0..Len(fs) -> Nat] /\ k \in [0..Len(gs) -> Nat]
      /\ h[0] = 0 /\ k[0] = 0
      /\ \A i \in 1..Len(fs) : h[i] = h[i - 1] + 1 + Len(fs[i].sec)
      /\ \A i \in 1..Len(gs) : k[i] = k[i - 1] + 1 + Len(gs[i].sec)
  BY LenProperties DEF SumsOf
<1>2. \A i \in 1..m : Len(fs[i].sec) \in Nat /\ Len(gs[i].sec) \in Nat
  <2> SUFFICES ASSUME NEW i \in 1..m PROVE Len(fs[i].sec) \in Nat /\ Len(gs[i].sec) \in Nat
    OBVIOUS
  <2>1. fs[i] \in Frame /\ gs[i] \in Frame
    BY <1>1, ElementOfSeq
  <2>2. fs[i].sec \in Seq(Secure) /\ gs[i].sec \in Seq(Secure)
    BY <2>1 DEF Frame
  <2> QED BY <2>2, LenProperties
<1>3. 0 \in T
  <2>1. Good(0)
    BY <1>1
  <2> HIDE DEF Good
  <2> QED BY <2>1
<1>4. ASSUME NEW j \in T PROVE j + 1 \in T
  <2>1. j \in Nat /\ Good(j)
    BY <1>4
  <2>2. Good(j + 1)
    <3> SUFFICES ASSUME j + 1 <= m PROVE h[j + 1] <= k[j + 1]
      OBVIOUS
    <3>1. /\ j + 1 \in 1..m /\ j + 1 \in 1..Len(fs) /\ j + 1 \in 1..Len(gs) /\ (j + 1) - 1 = j
          /\ j \in 0..Len(fs) /\ j \in 0..Len(gs) /\ j <= m
      BY <1>1, <2>1
    <3> DEFINE a == Len(fs[j + 1].sec)
               b == Len(gs[j + 1].sec)
    <3>2. h[j + 1] = h[j] + 1 + a /\ k[j + 1] = k[j] + 1 + b
      BY <1>1, <3>1
    <3>3. a \in Nat /\ b \in Nat /\ a <= b /\ h[j] \in Nat /\ k[j] \in Nat /\ h[j] <= k[j]
      BY <1>1, <1>2, <2>1, <3>1
    <3> HIDE DEF a, b
    <3> QED BY <3>2, <3>3
  <2> HIDE DEF Good
  <2> QED BY <2>1, <2>2
<1> HIDE DEF T
<1>5. T = Nat
  <2>1. T \in SUBSET Nat
    BY DEF T
  <2> QED BY <1>3, <1>4, <2>1, FromZeroOn
<1>6. Good(m)
  <2> HIDE DEF Good
  <2> QED BY <1>5 DEF T
<1> QED BY <1>6

(* A program does not need more, but for its last frame.                   *)
LEMMA SizeProperties ==
  ASSUME NEW fs \in Seq(Frame), NEW gs \in Seq(Frame)
  PROVE  /\ Size(fs) \in Nat
         /\ fs = <<>> => Size(fs) = 0
         /\ Len(fs) = 1 => Size(fs) = 1 + Len(fs[1].sec)
         /\ Len(fs) = Len(gs) /\ (\A i \in 1..Len(fs) : Len(fs[i].sec) <= Len(gs[i].sec))
              => Size(fs) <= Size(gs)
         /\ Len(fs) = Len(gs) /\ Len(fs) # 0
              /\ (\A i \in 1..(Len(fs) - 1) : Len(fs[i].sec) <= Len(gs[i].sec))
              => Size(fs) <= Size(gs) + Len(fs[Len(fs)].sec) - Len(gs[Len(fs)].sec)
         /\ Len(fs) = Len(gs) + 1 /\ (\A i \in 1..Len(gs) : Len(fs[i].sec) <= Len(gs[i].sec))
              => Size(fs) <= Size(gs) + 1 + Len(fs[Len(fs)].sec)
         /\ Len(gs) = Len(fs) + 1 /\ (\A i \in 1..Len(fs) : Len(fs[i].sec) <= Len(gs[i].sec))
              => Size(fs) <= Size(gs)
<1>1. PICK h \in SumsOf(fs) : Size(fs) = h[Len(fs)]
  BY SizeIsSum
<1>2. PICK k \in SumsOf(gs) : Size(gs) = k[Len(gs)]
  BY SizeIsSum
<1>3. /\ Len(fs) \in Nat /\ Len(gs) \in Nat
      /\ h \in [0..Len(fs) -> Nat] /\ k \in [0..Len(gs) -> Nat]
      /\ h[0] = 0
      /\ \A i \in 1..Len(fs) : h[i] = h[i - 1] + 1 + Len(fs[i].sec)
      /\ \A i \in 1..Len(gs) : k[i] = k[i - 1] + 1 + Len(gs[i].sec)
  BY LenProperties DEF SumsOf
<1>4. /\ \A i \in 1..Len(fs) : Len(fs[i].sec) \in Nat
      /\ \A i \in 1..Len(gs) : Len(gs[i].sec) \in Nat
  <2>1. ASSUME NEW s \in Seq(Frame), NEW i \in 1..Len(s) PROVE Len(s[i].sec) \in Nat
    <3>1. s[i] \in Frame
      BY <2>1, ElementOfSeq
    <3>2. s[i].sec \in Seq(Secure)
      BY <3>1 DEF Frame
    <3> QED BY <3>2, LenProperties
  <2> QED BY <2>1
<1>5. Size(fs) \in Nat /\ Size(gs) \in Nat
  BY <1>1, <1>2, <1>3
<1>6. \A m \in Nat : m <= Len(fs) /\ m <= Len(gs) /\ (\A i \in 1..m : Len(fs[i].sec) <= Len(gs[i].sec))
        => h[m] <= k[m]
  BY SumsCompare
<1>7. fs = <<>> => Size(fs) = 0
  BY <1>1, <1>3, EmptySeq
<1>8. ASSUME Len(fs) = 1 PROVE Size(fs) = 1 + Len(fs[1].sec)
  <2>1. h[1] = h[0] + 1 + Len(fs[1].sec) /\ Len(fs[1].sec) \in Nat
    <3>1. 1 \in 1..Len(fs) /\ 1 - 1 = 0
      BY <1>8
    <3> QED BY <1>3, <1>4, <3>1
  <2> QED BY <1>1, <1>3, <1>8, <2>1
<1>9. ASSUME Len(fs) = Len(gs), \A i \in 1..Len(fs) : Len(fs[i].sec) <= Len(gs[i].sec)
      PROVE  Size(fs) <= Size(gs)
  <2>1. Len(fs) <= Len(fs) /\ Len(fs) <= Len(gs)
    BY <1>3, <1>9
  <2> QED BY <1>1, <1>2, <1>3, <1>6, <1>9, <2>1
<1>10. ASSUME Len(fs) = Len(gs), Len(fs) # 0,
              \A i \in 1..(Len(fs) - 1) : Len(fs[i].sec) <= Len(gs[i].sec)
       PROVE  Size(fs) <= Size(gs) + Len(fs[Len(fs)].sec) - Len(gs[Len(fs)].sec)
  <2> DEFINE n == Len(fs)
             a == Len(fs[n].sec)
             b == Len(gs[n].sec)
  <2>1. n \in 1..n /\ n - 1 \in Nat /\ n - 1 <= Len(fs) /\ n - 1 <= Len(gs) /\ n - 1 \in 0..n
    BY <1>3, <1>10
  <2>2. h[n] = h[n - 1] + 1 + a /\ k[n] = k[n - 1] + 1 + b
    BY <1>3, <1>10, <2>1
  <2>3. h[n - 1] <= k[n - 1] /\ h[n - 1] \in Nat /\ k[n - 1] \in Nat /\ a \in Nat /\ b \in Nat
    BY <1>3, <1>4, <1>6, <1>10, <2>1
  <2>4. Size(fs) = h[n] /\ Size(gs) = k[n]
    BY <1>1, <1>2, <1>10
  <2> DEFINE x == h[n - 1]
             y == k[n - 1]
  <2>5. Size(fs) = x + 1 + a /\ Size(gs) = y + 1 + b /\ x <= y /\ x \in Nat /\ y \in Nat /\ a \in Nat /\ b \in Nat
    BY <2>2, <2>3, <2>4
  <2> HIDE DEF x, y, a, b
  <2>6. Size(fs) <= Size(gs) + a - b
    BY <2>5
  <2> QED BY <2>6 DEF a, b, n
<1>11. ASSUME Len(fs) = Len(gs) + 1, \A i \in 1..Len(gs) : Len(fs[i].sec) <= Len(gs[i].sec)
       PROVE  Size(fs) <= Size(gs) + 1 + Len(fs[Len(fs)].sec)
  <2> DEFINE m == Len(gs)
             a == Len(fs[m + 1].sec)
  <2>1. /\ m \in Nat /\ m <= Len(fs) /\ m <= Len(gs) /\ m + 1 \in 1..Len(fs) /\ (m + 1) - 1 = m
        /\ m \in 0..Len(fs) /\ m \in 0..Len(gs)
    BY <1>3, <1>11
  <2>2. h[m] <= k[m] /\ h[m] \in Nat /\ k[m] \in Nat /\ a \in Nat
    BY <1>3, <1>4, <1>6, <1>11, <2>1
  <2>3. h[m + 1] = h[m] + 1 + a
    BY <1>3, <2>1
  <2>4. Size(fs) = h[m + 1] /\ Size(gs) = k[m]
    BY <1>1, <1>2, <1>11
  <2> HIDE DEF a
  <2>5. Size(fs) <= Size(gs) + 1 + a
    BY <2>2, <2>3, <2>4
  <2> QED BY <1>11, <2>5 DEF a
<1>12. ASSUME Len(gs) = Len(fs) + 1, \A i \in 1..Len(fs) : Len(fs[i].sec) <= Len(gs[i].sec)
       PROVE  Size(fs) <= Size(gs)
  <2> DEFINE m == Len(fs)
             a == Len(gs[m + 1].sec)
  <2>1. /\ m \in Nat /\ m <= Len(fs) /\ m <= Len(gs) /\ m + 1 \in 1..Len(gs) /\ (m + 1) - 1 = m
        /\ m \in 0..Len(fs) /\ m \in 0..Len(gs)
    BY <1>3, <1>12
  <2>2. h[m] <= k[m] /\ h[m] \in Nat /\ k[m] \in Nat /\ a \in Nat
    BY <1>3, <1>4, <1>6, <1>12, <2>1
  <2>3. k[m + 1] = k[m] + 1 + a
    BY <1>3, <2>1
  <2>4. Size(fs) = h[m] /\ Size(gs) = k[m + 1]
    BY <1>1, <1>2, <1>12
  <2> HIDE DEF a
  <2> QED BY <2>2, <2>3, <2>4
<1> QED BY <1>5, <1>7, <1>8, <1>9, <1>10, <1>11, <1>12

(* A sum over all programs: none of them is more than it.                  *)
SumsFrom(S, b, U) ==
  {g \in [SUBSET S -> Int] :
     \A s \in SUBSET S :
       g[s] = IF s = {} THEN b ELSE U[CHOOSE x \in s : TRUE] + g[s \ {CHOOSE x \in s : TRUE}]}

(* There is such a sum.                                                    *)
LEMMA SumRuns ==
  ASSUME NEW S, IsFiniteSet(S), NEW b \in Int, NEW U \in [S -> Nat]
  PROVE  SumsFrom(S, b, U) # {}
<1> DEFINE x(s) == CHOOSE y \in s : TRUE
           D(m) == {s \in SUBSET S : Cardinality(s) <= m}
           Runs(g, m) == \A s \in D(m) : g[s] = IF s = {} THEN b ELSE U[x(s)] + g[s \ {x(s)}]
           Good(m) == \E g \in [D(m) -> Int] : Runs(g, m)
           T == {m \in Nat : Good(m)}
<1>1. \A s \in SUBSET S : IsFiniteSet(s) /\ Cardinality(s) \in Nat
  BY FS_Subset, FS_CardinalityType
<1>2. \A s \in SUBSET S : s # {} => x(s) \in s
  OBVIOUS
<1>3. \A s \in SUBSET S : s # {} =>
        Cardinality(s \ {x(s)}) = Cardinality(s) - 1 /\ s \ {x(s)} \in SUBSET S /\ x(s) \in S
  <2> SUFFICES ASSUME NEW s \in SUBSET S, s # {}
               PROVE  Cardinality(s \ {x(s)}) = Cardinality(s) - 1
    BY <1>2
  <2>1. IsFiniteSet(s) /\ x(s) \in s
    BY <1>1, <1>2
  <2> HIDE DEF x
  <2> QED BY <2>1, FS_RemoveElement
<1> HIDE DEF x
<1>4. 0 \in T
  <2>1. \A s \in D(0) : s = {}
    <3> SUFFICES ASSUME NEW s \in SUBSET S, Cardinality(s) <= 0 PROVE s = {}
      OBVIOUS
    <3>1. IsFiniteSet(s) /\ Cardinality(s) = 0
      BY <1>1
    <3> QED BY <3>1, FS_EmptySet
  <2> DEFINE g == [s \in D(0) |-> b]
  <2>2. g \in [D(0) -> Int] /\ Runs(g, 0)
    BY <2>1
  <2> HIDE DEF g, Runs, D
  <2>3. Good(0)
    BY <2>2
  <2> HIDE DEF Good
  <2> QED BY <2>3
<1>5. ASSUME NEW m \in T PROVE m + 1 \in T
  <2>1. m \in Nat /\ Good(m)
    BY <1>5
  <2>2. PICK h \in [D(m) -> Int] : Runs(h, m)
    <3> HIDE DEF Runs, D
    <3> QED BY <2>1
  <2> DEFINE g == [s \in D(m + 1) |-> IF s = {} THEN b ELSE U[x(s)] + h[s \ {x(s)}]]
  <2>3. \A s \in D(m + 1) : s # {} => s \ {x(s)} \in D(m) /\ x(s) \in S
    BY <1>1, <1>3, <2>1
  <2>4. \A s \in D(m) : s \in D(m + 1)
    BY <1>1, <2>1
  <2>5. g \in [D(m + 1) -> Int]
    <3>1. ASSUME NEW s \in D(m + 1), s # {} PROVE U[x(s)] + h[s \ {x(s)}] \in Int
      <4>1. U[x(s)] \in Nat /\ h[s \ {x(s)}] \in Int
        <5> HIDE DEF D
        <5> QED BY <2>2, <2>3, <3>1
      <4> HIDE DEF D
      <4> QED BY <4>1
    <3> HIDE DEF D
    <3> QED BY <3>1
  <2>6. \A s \in D(m) : g[s] = h[s]
    <3> SUFFICES ASSUME NEW s \in D(m) PROVE g[s] = h[s]
      OBVIOUS
    <3>1. h[s] = IF s = {} THEN b ELSE U[x(s)] + h[s \ {x(s)}]
      BY <2>2
    <3>2. s \in D(m + 1)
      BY <2>4
    <3> HIDE DEF D
    <3> QED BY <3>1, <3>2
  <2>7. Runs(g, m + 1)
    <3> SUFFICES ASSUME NEW s \in D(m + 1)
                 PROVE  g[s] = IF s = {} THEN b ELSE U[x(s)] + g[s \ {x(s)}]
      OBVIOUS
    <3>1. g[s] = IF s = {} THEN b ELSE U[x(s)] + h[s \ {x(s)}]
      OBVIOUS
    <3>2. s # {} => g[s \ {x(s)}] = h[s \ {x(s)}]
      BY <2>3, <2>6
    <3> HIDE DEF g, D
    <3> QED BY <3>1, <3>2
  <2> HIDE DEF g, Runs, D
  <2>8. Good(m + 1)
    BY <2>5, <2>7
  <2> HIDE DEF Good
  <2> QED BY <2>1, <2>8
<1> HIDE DEF T
<1>6. T = Nat
  <2>1. T \in SUBSET Nat
    BY DEF T
  <2> QED BY <1>4, <1>5, <2>1, FromZeroOn
<1>7. Cardinality(S) \in Nat
  BY <1>1
<1>8. Good(Cardinality(S))
  <2> HIDE DEF Good
  <2> QED BY <1>6, <1>7 DEF T
<1>9. PICK g \in [D(Cardinality(S)) -> Int] : Runs(g, Cardinality(S))
  <2> HIDE DEF Runs, D
  <2> QED BY <1>8
<1>10. D(Cardinality(S)) = SUBSET S
  <2> SUFFICES ASSUME NEW s \in SUBSET S PROVE Cardinality(s) <= Cardinality(S)
    OBVIOUS
  <2> QED BY FS_Subset
<1>11. g \in SumsFrom(S, b, U)
  <2>1. g \in [SUBSET S -> Int]
    BY <1>9, <1>10
  <2>2. \A s \in SUBSET S : g[s] = IF s = {} THEN b ELSE U[x(s)] + g[s \ {x(s)}]
    <3> HIDE DEF D
    <3> QED BY <1>9, <1>10
  <2> QED BY <2>1, <2>2 DEF SumsFrom, x
<1> QED BY <1>11

(* None of its terms is more than it.                                      *)
LEMMA SumBounds ==
  ASSUME NEW S, IsFiniteSet(S), NEW b \in Int, NEW U \in [S -> Nat], NEW g,
         \A s \in SUBSET S :
           g[s] = IF s = {} THEN b ELSE U[CHOOSE x \in s : TRUE] + g[s \ {CHOOSE x \in s : TRUE}]
  PROVE  g[S] \in Int /\ \A q \in S : U[q] + b <= g[S]
<1> DEFINE x(s) == CHOOSE y \in s : TRUE
           Good(m) == \A s \in SUBSET S : Cardinality(s) <= m =>
                        g[s] \in Int /\ b <= g[s] /\ \A q \in s : U[q] + b <= g[s]
           T == {m \in Nat : Good(m)}
<1>0. \A s \in SUBSET S : g[s] = IF s = {} THEN b ELSE U[x(s)] + g[s \ {x(s)}]
  OBVIOUS
<1>1. \A s \in SUBSET S : IsFiniteSet(s) /\ Cardinality(s) \in Nat
  BY FS_Subset, FS_CardinalityType
<1>2. \A s \in SUBSET S : s # {} => x(s) \in s
  OBVIOUS
<1>3. \A s \in SUBSET S : s # {} =>
        Cardinality(s \ {x(s)}) = Cardinality(s) - 1 /\ s \ {x(s)} \in SUBSET S /\ x(s) \in S
  <2> SUFFICES ASSUME NEW s \in SUBSET S, s # {}
               PROVE  Cardinality(s \ {x(s)}) = Cardinality(s) - 1
    BY <1>2
  <2>1. IsFiniteSet(s) /\ x(s) \in s
    BY <1>1, <1>2
  <2> HIDE DEF x
  <2> QED BY <2>1, FS_RemoveElement
<1> HIDE DEF x
<1>4. 0 \in T
  <2>1. Good(0)
    <3> SUFFICES ASSUME NEW s \in SUBSET S, Cardinality(s) <= 0
                 PROVE  g[s] \in Int /\ b <= g[s] /\ \A q \in s : U[q] + b <= g[s]
      OBVIOUS
    <3>1. IsFiniteSet(s) /\ Cardinality(s) = 0
      BY <1>1
    <3>2. s = {}
      BY <3>1, FS_EmptySet
    <3>3. g[s] = b
      BY <1>0, <3>2
    <3> QED BY <3>2, <3>3
  <2> HIDE DEF Good
  <2> QED BY <2>1
<1>5. ASSUME NEW m \in T PROVE m + 1 \in T
  <2>1. m \in Nat /\ Good(m)
    BY <1>5
  <2>2. Good(m + 1)
    <3> SUFFICES ASSUME NEW s \in SUBSET S, Cardinality(s) <= m + 1
                 PROVE  g[s] \in Int /\ b <= g[s] /\ \A q \in s : U[q] + b <= g[s]
      OBVIOUS
    <3>1. CASE s = {}
      <4>1. g[s] = b
        BY <1>0, <3>1
      <4> QED BY <3>1, <4>1
    <3>2. CASE s # {}
      <4> DEFINE y == x(s)
                 r == s \ {y}
      <4>1. r \in SUBSET S /\ y \in S /\ y \in s /\ Cardinality(r) <= m
        BY <1>1, <1>2, <1>3, <2>1, <3>2
      <4>2. g[s] = U[y] + g[r] /\ U[y] \in Nat
        BY <1>0, <3>2, <4>1
      <4>3. g[r] \in Int /\ b <= g[r] /\ \A q \in r : U[q] + b <= g[r]
        <5> HIDE DEF r
        <5> QED BY <2>1, <4>1
      <4>4. \A q \in s : q = y \/ q \in r
        OBVIOUS
      <4>5. \A q \in s : U[q] \in Nat
        OBVIOUS
      <4> HIDE DEF y, r
      <4>6. g[s] \in Int /\ b <= g[s]
        BY <4>2, <4>3
      <4>7. ASSUME NEW q \in s PROVE U[q] + b <= g[s]
        <5>1. CASE q = y
          BY <4>2, <4>3, <5>1
        <5>2. CASE q \in r
          BY <4>2, <4>3, <4>5, <5>2
        <5> QED BY <4>4, <5>1, <5>2
      <4> QED BY <4>6, <4>7
    <3> QED BY <3>1, <3>2
  <2> HIDE DEF Good
  <2> QED BY <2>1, <2>2
<1> HIDE DEF T
<1>6. T = Nat
  <2>1. T \in SUBSET Nat
    BY DEF T
  <2> QED BY <1>4, <1>5, <2>1, FromZeroOn
<1>7. Cardinality(S) \in Nat
  BY <1>1
<1>8. Good(Cardinality(S))
  <2> HIDE DEF Good
  <2> QED BY <1>6, <1>7 DEF T
<1>9. Cardinality(S) <= Cardinality(S) /\ S \in SUBSET S
  BY <1>7
<1> QED BY <1>8, <1>9

(* What fits for all programs, fits for one.                               *)
LEMMA FitsProperties ==
  ASSUME NEW n \in Int, \A p \in Prgs : Used(p) \in Nat, Fits(n)
  PROVE  \A p \in Prgs : Used(p) + n <= MaxMemory
<1> DEFINE Eq(h) == h = [s \in SUBSET Prgs |->
                           IF s = {} THEN n
                           ELSE LET x == CHOOSE y \in s : TRUE IN Used(x) + h[s \ {x}]]
           g == CHOOSE h : Eq(h)
           U == [p \in Prgs |-> Used(p)]
<1>1. g[Prgs] <= MaxMemory
  BY DEF Fits, FoldSet, MapThenFoldSet
<1>2. U \in [Prgs -> Nat] /\ IsFiniteSet(Prgs) /\ \A p \in Prgs : U[p] = Used(p)
  BY DilAssumption
<1> HIDE DEF U
<1>3. Eq(g)
  <2>1. PICK h \in SumsFrom(Prgs, n, U) : TRUE
    BY <1>2, SumRuns
  <2>2. /\ h \in [SUBSET Prgs -> Int]
        /\ \A s \in SUBSET Prgs :
             h[s] = IF s = {} THEN n ELSE U[CHOOSE x \in s : TRUE] + h[s \ {CHOOSE x \in s : TRUE}]
    BY <2>1 DEF SumsFrom
  <2>3. \A s \in SUBSET Prgs : s # {} => (CHOOSE x \in s : TRUE) \in Prgs
    OBVIOUS
  <2>4. Eq(h)
    BY <1>2, <2>2, <2>3
  <2> QED BY <2>4
<1> HIDE DEF g
<1>4. \A s \in SUBSET Prgs :
        g[s] = IF s = {} THEN n ELSE U[CHOOSE x \in s : TRUE] + g[s \ {CHOOSE x \in s : TRUE}]
  BY <1>2, <1>3
<1>5. g[Prgs] \in Int /\ \A q \in Prgs : U[q] + n <= g[Prgs]
  BY <1>2, <1>4, SumBounds
<1> SUFFICES ASSUME NEW p \in Prgs PROVE Used(p) + n <= MaxMemory
  OBVIOUS
<1> DEFINE u == Used(p)
           m == g[Prgs]
<1>6. u \in Nat /\ m \in Int /\ u + n <= m /\ m <= MaxMemory /\ MaxMemory \in Nat
  BY <1>1, <1>2, <1>5, DilAssumption
<1> HIDE DEF u, m
<1>7. u + n <= MaxMemory
  BY <1>6
<1> QED BY <1>7 DEF u

-----------------------------------------------------------------------------
(* Pointers to freed units.                                                *)
Lost(l, f)  == \/ f.var \in Units /\ l[f.var] = "freed"
               \/ \E j \in DOMAIN f.sec : l[f.sec[j].unit] = "freed"
Stale(l, P) == \E i \in DOMAIN P.frames : Lost(l, P.frames[i])

Framed ==
  \A p \in Prgs : Is(p) =>
    prg[p] \in Program /\ (prg[p].frames = <<>> => prg[p].exec /\ p \notin Range(stack))

(* What has not run yet holds nothing ...                                  *)
Bare(P) == \A i \in DOMAIN P.frames : P.frames[i] = [var |-> None, sec |-> <<>>]
Fresh == \A p \in Prgs : Is(p) /\ prg[p].wait = "new" => Bare(prg[p])

(* ... and what runs holds a freed unit only if it is known for it.        *)
Secured == \A p \in Prgs : p \in Range(stack) /\ Stale(life, prg[p]) => p \in slack

LInv == Framed /\ Fresh /\ Secured

(* A program in the place of another.                                      *)
LEMMA PlaceKeepsLInv ==
  ASSUME IInv, LInv, NEW p \in Prgs, NEW Q, prg' = [prg EXCEPT ![p] = Q],
         \A u \in Units : life'[u] = "freed" => life[u] = "freed",
         Q.owner # None => Q \in Program /\ (Q.frames = <<>> => Q.exec /\ p \notin Range(stack')),
         Q.owner # None /\ Q.wait = "new" => Bare(Q),
         Q.owner # None /\ p \in Range(stack') /\ Stale(life, Q) => p \in slack',
         Range(stack') \subseteq Range(stack) \cup {p}, p \in Range(stack') => Q.owner # None,
         \A q \in Prgs : q # p /\ q \in slack => q \in slack'
  PROVE  LInv'
<1>1. prg'[p] = Q /\ \A q \in Prgs : q # p => prg'[q] = prg[q]
  BY DEF IInv, Shape
<1>2. Framed'
  <2> SUFFICES ASSUME NEW q \in Prgs, prg'[q].owner # None
               PROVE  prg'[q] \in Program /\
                      (prg'[q].frames = <<>> => prg'[q].exec /\ q \notin Range(stack'))
    BY DEF Framed, Is
  <2>1. CASE q = p
    BY <1>1, <2>1
  <2>2. CASE q # p
    BY <1>1, <2>2 DEF LInv, Framed, Is
  <2> QED BY <2>1, <2>2
<1>3. Fresh'
  BY <1>1 DEF LInv, Fresh, Is, Bare
<1>4. ASSUME NEW q \in Prgs, prg'[q].owner # None, Stale(life', prg'[q]) PROVE Stale(life, prg'[q])
  <2>1. prg'[q] \in Program
    BY <1>2, <1>4 DEF Framed, Is
  <2> DEFINE F == prg'[q].frames
  <2>2. F \in Seq(Frame)
    BY <2>1 DEF Program
  <2>3. PICK i \in DOMAIN F : Lost(life', F[i])
    BY <1>4 DEF Stale
  <2>4. F[i] \in Frame
    BY <2>2, <2>3, LenProperties, ElementOfSeq
  <2>5. F[i].sec \in Seq(Secure)
    BY <2>4 DEF Frame
  <2>6. \A j \in DOMAIN F[i].sec : F[i].sec[j].unit \in Units
    <3>1. \A j \in DOMAIN F[i].sec : F[i].sec[j] \in Secure
      BY <2>5, LenProperties, ElementOfSeq
    <3> QED BY <3>1 DEF Secure
  <2>7. Lost(life, F[i])
    BY <2>3, <2>6 DEF Lost
  <2> QED BY <2>3, <2>7 DEF Stale
<1>5. Secured'
  <2> SUFFICES ASSUME NEW q \in Prgs, q \in Range(stack'), Stale(life', prg'[q]) PROVE q \in slack'
    BY DEF Secured
  <2>1. CASE q = p
    BY <1>1, <1>4, <2>1
  <2>2. CASE q # p
    <3>1. q \in Range(stack) /\ prg'[q] = prg[q]
      BY <1>1, <2>2
    <3>2. Is(q)
      BY <3>1 DEF IInv, RunningIsWhole, Range
    <3>3. Stale(life, prg[q])
      BY <1>4, <3>1, <3>2 DEF Is
    <3> QED BY <2>2, <3>1, <3>3 DEF LInv, Secured
  <2> QED BY <2>1, <2>2
<1> QED BY <1>2, <1>3, <1>5 DEF LInv

(* The parts of a program.                                                 *)
LEMMA ProgramEdits ==
  ASSUME NEW P \in Program
  PROVE  /\ Whole(P) /\ P.owner \in Units /\ P.owner # None /\ P.frames \in Seq(Frame)
         /\ \A s \in Seq(Frame) : [P EXCEPT !.frames = s] \in Program
         /\ \A w \in {"new", "idle", "tested", "run", "stop", "quit", "destroyed"} :
              [P EXCEPT !.wait = w] \in Program
         /\ \A b \in BOOLEAN : /\ [P EXCEPT !.exec = b] \in Program
                               /\ [P EXCEPT !.deact = b] \in Program
                               /\ [P EXCEPT !.hooked = b] \in Program
BY DilAssumption DEF Program, Whole

(* One frame in the place of another, and the loops over all frames.       *)
Under(f, g) == f \in Frame /\ f.var \in {g.var, None} /\ f.sec \in PartsOf(g.sec)

(* Nothing is lost with a frame that the larger one does not lose.         *)
LEMMA UnderKeepsLost ==
  ASSUME NEW g \in Frame, NEW f, Under(f, g), Lost(life, f)
  PROVE  Lost(life, g)
<1>1. g.sec \in Seq(Secure) /\ f.sec \in Seq(Secure) /\ Range(f.sec) \subseteq Range(g.sec)
  BY DEF Under, PartsOf, Frame
<1>2. CASE f.var \in Units /\ life[f.var] = "freed"
  BY <1>2, DilAssumption DEF Lost, Under
<1>3. CASE \E j \in DOMAIN f.sec : life[f.sec[j].unit] = "freed"
  <2>1. PICK j \in DOMAIN f.sec : life[f.sec[j].unit] = "freed"
    BY <1>3
  <2>2. PICK k \in DOMAIN g.sec : g.sec[k] = f.sec[j]
    BY <1>1, <2>1 DEF Range
  <2> QED BY <2>1, <2>2 DEF Lost
<1> QED BY <1>2, <1>3 DEF Lost

LEMMA UnderChain ==
  ASSUME NEW g \in Frame
  PROVE  Under(g, g) /\ \A f, e : Under(f, g) /\ Under(e, f) => Under(e, g)
<1>1. g.sec \in Seq(Secure)
  BY DEF Frame
<1> QED BY <1>1, PartsShrink DEF Under

(* What waking, testing and clearing leave of the frames.                  *)
Thinner(Q, P) ==
  /\ Q \in Program /\ Q.owner = P.owner /\ Q.exec = P.exec /\ Q.hooked = P.hooked
  /\ DOMAIN Q.frames = DOMAIN P.frames
  /\ \A i \in DOMAIN P.frames : Under(Q.frames[i], P.frames[i])

LEMMA ThinnerChain ==
  ASSUME NEW P \in Program
  PROVE  Thinner(P, P) /\ \A Q, R : Thinner(Q, P) /\ Thinner(R, Q) => Thinner(R, P)
<1>1. \A i \in DOMAIN P.frames : P.frames[i] \in Frame
  BY ProgramEdits, LenProperties, ElementOfSeq
<1> QED BY <1>1, UnderChain DEF Thinner

LEMMA ThinnerShape ==
  ASSUME NEW P \in Program, NEW Q, Thinner(Q, P)
  PROVE  /\ Stale(life, Q) => Stale(life, P)
         /\ Q.frames = <<>> => P.frames = <<>>
<1>1. P.frames \in Seq(Frame) /\ Q.frames \in Seq(Frame)
  BY ProgramEdits DEF Thinner
<1>2. \A i \in DOMAIN P.frames : P.frames[i] \in Frame
  BY <1>1, LenProperties, ElementOfSeq
<1>3. Stale(life, Q) => Stale(life, P)
  BY <1>2, UnderKeepsLost DEF Stale, Thinner
<1>4. Q.frames = <<>> => P.frames = <<>>
  <2> SUFFICES ASSUME Q.frames = <<>> PROVE P.frames = <<>>
    OBVIOUS
  <2>1. Len(Q.frames) = 0 /\ 1..Len(Q.frames) = 1..Len(P.frames)
    BY <1>1, LenProperties, EmptySeq DEF Thinner
  <2>2. Len(P.frames) \in Nat /\ 1..Len(P.frames) = {}
    BY <1>1, <2>1, LenProperties
  <2>3. Len(P.frames) = 0
    BY <2>2
  <2> QED BY <1>1, <2>3, EmptySeq
<1> QED BY <1>3, <1>4

LEMMA FramesReplaced ==
  ASSUME NEW P \in Program, NEW s, s = [i \in DOMAIN P.frames |-> s[i]],
         \A i \in DOMAIN P.frames : Under(s[i], P.frames[i])
  PROVE  Thinner([P EXCEPT !.frames = s], P)
<1>1. P.frames \in Seq(Frame) /\ DOMAIN P.frames = 1..Len(P.frames) /\ Len(P.frames) \in Nat
  BY ProgramEdits, LenProperties
<1>2. s \in Seq(Frame)
  <2> DEFINE m == Len(P.frames)
  <2>1. s \in [1..m -> Frame] /\ m \in Nat
    BY <1>1 DEF Under
  <2> HIDE DEF m
  <2> QED BY <2>1
<1> DEFINE Q == [P EXCEPT !.frames = s]
<1>3. Q \in Program /\ Q.frames = s /\ Q.owner = P.owner /\ Q.exec = P.exec /\ Q.hooked = P.hooked
  <2>1. Q \in Program
    BY <1>2, ProgramEdits
  <2> QED BY <2>1 DEF Program
<1> HIDE DEF Q
<1>4. DOMAIN s = DOMAIN P.frames
  OBVIOUS
<1>5. Thinner(Q, P)
  BY <1>3, <1>4 DEF Thinner
<1> QED BY <1>5 DEF Q

(* dil_test_secure, over all frames.                                       *)
LEMMA AfterTestThins ==
  ASSUME NEW P \in Program
  PROVE  Thinner(AfterTest(P), P)
<1> DEFINE s == [i \in DOMAIN P.frames |-> Tested(P.owner, P.frames[i]).f]
<1>1. \A i \in DOMAIN P.frames : P.frames[i] \in Frame
  BY ProgramEdits, LenProperties, ElementOfSeq
<1>2. \A i \in DOMAIN P.frames : Under(Tested(P.owner, P.frames[i]).f, P.frames[i])
  BY <1>1, TestedShape DEF Under
<1>3. s = [i \in DOMAIN P.frames |-> s[i]] /\ \A i \in DOMAIN P.frames : Under(s[i], P.frames[i])
  BY <1>2
<1>4. AfterTest(P) = [P EXCEPT !.frames = s]
  BY DEF AfterTest
<1> HIDE DEF s
<1> QED BY <1>3, <1>4, FramesReplaced

(* After dil_clear_non_secured a lost unit is one that is secured.         *)
Tidy(P) == \A i \in DOMAIN P.frames : P.frames[i].var \in Units => Kept(P.frames[i])

LEMMA ClearedThins ==
  ASSUME NEW P \in Program
  PROVE  Thinner(Cleared(P), P) /\ Tidy(Cleared(P))
<1> DEFINE s == [i \in DOMAIN P.frames |->
                   IF Kept(P.frames[i]) THEN P.frames[i] ELSE [P.frames[i] EXCEPT !.var = None]]
<1>1. \A i \in DOMAIN P.frames : P.frames[i] \in Frame
  BY ProgramEdits, LenProperties, ElementOfSeq
<1>2. ASSUME NEW i \in DOMAIN P.frames
      PROVE  Under(s[i], P.frames[i]) /\ (s[i].var \in Units => Kept(s[i]))
  <2>1. CASE Kept(P.frames[i])
    BY <1>1, <2>1, UnderChain
  <2>2. CASE ~Kept(P.frames[i])
    <3> DEFINE f == P.frames[i]
    <3>1. s[i] = [f EXCEPT !.var = None]
      BY <2>2
    <3>2. f \in Frame
      BY <1>1
    <3> HIDE DEF f
    <3>3. s[i] \in Frame /\ s[i].var = None /\ s[i].sec = f.sec
      BY <3>1, <3>2 DEF Frame
    <3>4. f.sec \in Seq(Secure)
      BY <3>2 DEF Frame
    <3>5. Under(s[i], f)
      BY <3>3, <3>4, PartsShrink DEF Under
    <3> QED BY <3>3, <3>5, DilAssumption DEF f
  <2> QED BY <2>1, <2>2
<1>3. s = [i \in DOMAIN P.frames |-> s[i]] /\ DOMAIN s = DOMAIN P.frames
  OBVIOUS
<1>4. Cleared(P) = [P EXCEPT !.frames = s]
  BY DEF Cleared
<1> HIDE DEF s
<1>5. Thinner(Cleared(P), P)
  BY <1>2, <1>3, <1>4, FramesReplaced
<1>6. Cleared(P).frames = s
  BY <1>4 DEF Program
<1> QED BY <1>2, <1>3, <1>5, <1>6 DEF Tidy

(* run_dil, before it decides.                                             *)
LEMMA WokenThins ==
  ASSUME NEW P \in Program
  PROVE  /\ Thinner(Woken(P), P) /\ Tidy(Woken(P))
         /\ Woken(P).wait = "new" <=> P.wait = "new"
<1> DEFINE A == AfterTest(P)
           w == IF IsHit(P) THEN "tested" ELSE "idle"
           B == [A EXCEPT !.wait = w]
           C == IF P.wait # "idle" THEN P ELSE B
<1>1. Thinner(A, P) /\ A \in Program
  BY AfterTestThins DEF Thinner
<1>2. w \in {"idle", "tested"}
  OBVIOUS
<1>3. Woken(P) = Cleared(C)
  BY DEF Woken
<1> HIDE DEF A, w
<1>4. Thinner(B, P) /\ B.wait = w
  <2>1. B \in Program
    BY <1>1, <1>2, ProgramEdits
  <2>2. /\ B.frames = A.frames /\ B.owner = A.owner /\ B.exec = A.exec /\ B.hooked = A.hooked
        /\ B.wait = w
    BY <1>1 DEF Program
  <2> HIDE DEF B
  <2> QED BY <1>1, <2>1, <2>2 DEF Thinner
<1> HIDE DEF B
<1>5. Thinner(C, P) /\ (C.wait = "new" <=> P.wait = "new") /\ C \in Program
  <2>1. CASE P.wait # "idle"
    BY <2>1, ThinnerChain
  <2>2. CASE P.wait = "idle"
    BY <1>2, <1>4, <2>2 DEF Thinner
  <2> QED BY <2>1, <2>2
<1> HIDE DEF C
<1>6. Thinner(Cleared(C), C) /\ Tidy(Cleared(C))
  BY <1>5, ClearedThins
<1>7. Thinner(Cleared(C), P)
  BY <1>5, <1>6, ThinnerChain
<1>8. Cleared(C).wait = C.wait
  <2> DEFINE f == [i \in DOMAIN C.frames |-> IF Kept(C.frames[i]) THEN C.frames[i]
                                             ELSE [C.frames[i] EXCEPT !.var = None]]
  <2>1. Cleared(C) = [C EXCEPT !.frames = f]
    BY DEF Cleared
  <2> HIDE DEF f
  <2> QED BY <1>5, <2>1 DEF Program
<1> QED BY <1>3, <1>5, <1>6, <1>7, <1>8

-----------------------------------------------------------------------------
(* run_dil is entered: what it cannot see any more is noted.               *)
LEMMA BeginKeepsLInv ==
  ASSUME IInv, LInv, NEW p \in Prgs, p \notin Range(stack), NEW P \in Program, P.frames # << >>,
         P.wait = "new" => ~Stale(life, P), Begin(p, P), UNCHANGED life
  PROVE  LInv'
<1> DEFINE w == Woken(P)
           x == [w EXCEPT !.exec = TRUE]
           h == Husk(x)
           r == [w EXCEPT !.exec = TRUE, !.wait = "run"]
<1>1. Thinner(w, P) /\ Tidy(w) /\ (w.wait = "new" <=> P.wait = "new") /\ w \in Program
  BY WokenThins DEF Thinner
<1>2. Begin(p, P) <=>
        \/ P.wait # "new" /\ prg' = [prg EXCEPT ![p] = w] /\ Noted(p, w)
           /\ UNCHANGED <<stack, inside>>
        \/ prg' = [prg EXCEPT ![p] = h] /\ slack' = slack \ {p} /\ UNCHANGED <<stack, inside>>
        \/ P.wait = "quit" /\ prg' = [prg EXCEPT ![p] = Nothing] /\ slack' = slack \ {p}
           /\ UNCHANGED <<stack, inside>>
        \/ /\ P.wait # "quit" /\ prg' = [prg EXCEPT ![p] = r] /\ Noted(p, w)
           /\ stack' = Append(stack, p) /\ inside' = TRUE
  BY DEF Begin
<1>3. w.frames # << >> /\ (Stale(life, w) => Stale(life, P))
  BY <1>1, ThinnerShape
<1> HIDE DEF w
<1>4. x \in Program /\ x.exec = TRUE /\ x.frames = w.frames
  <2>1. x \in Program
    BY <1>1, ProgramEdits
  <2> QED BY <1>1, <2>1 DEF Program
<1>5. r \in Program /\ r.frames = w.frames /\ r.wait = "run"
  <2>1. r = [x EXCEPT !.wait = "run"]
    OBVIOUS
  <2> HIDE DEF x, r
  <2>2. r \in Program
    BY <1>4, <2>1, ProgramEdits
  <2> QED BY <1>4, <2>1, <2>2 DEF Program
<1>6. h \in Program /\ h.frames = <<>> /\ h.exec
  <2>1. h = [x EXCEPT !.frames = <<>>]
    BY DEF Husk
  <2> HIDE DEF x, h
  <2>2. h \in Program
    <3>1. << >> \in Seq(Frame)
      OBVIOUS
    <3> QED BY <1>4, <2>1, <3>1, ProgramEdits
  <2> QED BY <1>4, <2>1, <2>2 DEF Program
<1> HIDE DEF x, h, r
<1>7. \A q \in Prgs : q # p /\ q \in slack => q \in slack'
  BY <1>2 DEF Noted
<1>8. \A u \in Units : life'[u] = "freed" => life[u] = "freed"
  OBVIOUS
<1>9. CASE P.wait # "new" /\ prg' = [prg EXCEPT ![p] = w] /\ UNCHANGED stack
  BY <1>1, <1>3, <1>7, <1>8, <1>9, PlaceKeepsLInv
<1>10. CASE prg' = [prg EXCEPT ![p] = h] /\ UNCHANGED stack
  <2>1. Bare(h)
    BY <1>6 DEF Bare
  <2> QED BY <1>6, <1>7, <1>8, <1>10, <2>1, PlaceKeepsLInv
<1>11. CASE prg' = [prg EXCEPT ![p] = Nothing] /\ UNCHANGED stack
  BY <1>7, <1>8, <1>11, NothingShape, PlaceKeepsLInv
<1>12. CASE prg' = [prg EXCEPT ![p] = r] /\ Noted(p, w) /\ stack' = Append(stack, p)
  <2>1. Range(stack') \subseteq Range(stack) \cup {p}
    <3>1. stack \in Seq(Prgs)
      BY DEF IInv, Shape
    <3>2. /\ Len(stack) \in Nat /\ DOMAIN stack = 1..Len(stack)
          /\ DOMAIN stack' = 1..(Len(stack) + 1)
          /\ \A i \in 1..Len(stack) : stack'[i] = stack[i]
          /\ stack'[Len(stack) + 1] = p
      BY <1>12, <3>1, AppendProperties, LenProperties
    <3>3. \A i \in 1..(Len(stack) + 1) : i = Len(stack) + 1 \/ i \in 1..Len(stack)
      BY <3>2
    <3> QED BY <3>2, <3>3 DEF Range
  <2>2. ASSUME Stale(life, r) PROVE p \in slack'
    <3>1. Stale(life, w)
      BY <1>5, <2>2 DEF Stale
    <3>2. P.wait # "new" /\ w.wait # "new"
      BY <1>1, <1>3, <3>1
    <3>3. PICK i \in DOMAIN w.frames : Lost(life, w.frames[i])
      BY <3>1 DEF Stale
    <3>4. \E j \in DOMAIN w.frames[i].sec : life[w.frames[i].sec[j].unit] = "freed"
      BY <1>1, <3>3 DEF Lost, Tidy, Kept
    <3>5. Slack(w)
      BY <3>4 DEF Slack, Visible, Freed
    <3> QED BY <1>12, <3>2, <3>5 DEF Noted
  <2>3. r.owner # None
    BY <1>5, ProgramEdits
  <2> QED BY <1>3, <1>5, <1>7, <1>8, <1>12, <2>1, <2>2, <2>3, PlaceKeepsLInv
<1> QED BY <1>2, <1>9, <1>10, <1>11, <1>12

-----------------------------------------------------------------------------
(* What runs.                                                              *)
LEMMA TopShape ==
  ASSUME IInv, LInv, NEW p \in Prgs, stack # << >>, p = Top
  PROVE  /\ prg[p] \in Program /\ prg[p].frames # << >> /\ p \in Range(stack)
         /\ TopFrame(p) \in Frame
         /\ Lost(life, TopFrame(p)) => Stale(life, prg[p])
         /\ prg[p].exec /\ prg[p].hooked /\ prg[p].owner \in Units /\ life[prg[p].owner] # "freed"
         /\ Stale(life, prg[p]) => p \in slack
<1>1. Len(stack) \in DOMAIN stack
  BY FrontShape DEF IInv, Shape
<1>2. p \in Range(stack) /\ Is(p) /\ prg[p].exec /\ prg[p].hooked
  BY <1>1 DEF Top, Range, IInv, RunningIsWhole
<1>3. prg[p] \in Program /\ prg[p].frames # << >>
  BY <1>2 DEF LInv, Framed
<1>4. prg[p].frames \in Seq(Frame) /\ prg[p].owner \in Units
  BY <1>3, ProgramEdits
<1>5. Len(prg[p].frames) \in 1..Len(prg[p].frames) /\ 1..Len(prg[p].frames) = DOMAIN prg[p].frames
  BY <1>3, <1>4, FrontShape, LenProperties
<1>6. TopFrame(p) \in Frame /\ (Lost(life, TopFrame(p)) => Stale(life, prg[p]))
  BY <1>4, <1>5, ElementOfSeq DEF TopFrame, Last, Stale
<1>7. life[prg[p].owner] # "freed"
  BY <1>2 DEF IInv, OrphansStayAsleep, Freed
<1>8. Stale(life, prg[p]) => p \in slack
  BY <1>2 DEF LInv, Secured
<1> QED BY <1>2, <1>3, <1>4, <1>6, <1>7, <1>8

LEMMA RunningTop ==
  ASSUME IInv, NEW p \in Prgs, Running(p)
  PROVE  stack # << >> /\ p = Top /\ prg[p].wait = "run"
BY DEF Running, IInv, Shape

(* An instruction, which makes no unit known that is freed.                *)
LEMMA FramesKeepLInv ==
  ASSUME IInv, LInv, NEW p \in Prgs, Running(p), NEW s \in Seq(Frame), s # << >>,
         prg' = [prg EXCEPT ![p].frames = s], UNCHANGED <<life, stack, slack>>,
         \A i \in DOMAIN s : Lost(life, s[i]) => Stale(life, prg[p])
  PROVE  LInv'
<1>1. /\ prg[p] \in Program /\ p \in Range(stack) /\ prg[p].wait = "run"
      /\ (Stale(life, prg[p]) => p \in slack)
  BY RunningTop, TopShape
<1> DEFINE Q == [prg[p] EXCEPT !.frames = s]
<1>2. prg' = [prg EXCEPT ![p] = Q]
  OBVIOUS
<1>3. Q \in Program
  BY <1>1, ProgramEdits
<1>4. Q.frames = s /\ Q.owner = prg[p].owner /\ Q.wait = "run"
  BY <1>1, <1>3 DEF Program
<1>5. prg[p].owner # None
  BY <1>1, ProgramEdits
<1> HIDE DEF Q
<1>6. Stale(life, Q) => p \in slack'
  BY <1>1, <1>4 DEF Stale
<1> QED BY <1>1, <1>2, <1>3, <1>4, <1>5, <1>6, PlaceKeepsLInv

LEMMA SetTopKeepsLInv ==
  ASSUME IInv, LInv, NEW p \in Prgs, Running(p), NEW f \in Frame,
         prg' = SetTop(p, f), UNCHANGED <<life, stack, slack>>,
         Lost(life, f) => Stale(life, prg[p])
  PROVE  LInv'
<1> DEFINE F == prg[p].frames
           s == [F EXCEPT ![Len(F)] = f]
<1>1. prg[p] \in Program /\ F \in Seq(Frame) /\ F # << >>
  BY RunningTop, TopShape, ProgramEdits
<1>2. prg' = [prg EXCEPT ![p].frames = s]
  BY DEF SetTop
<1>3. DOMAIN F = 1..Len(F) /\ Len(F) \in 1..Len(F) /\ Len(F) \in Nat
  BY <1>1, FrontShape, LenProperties
<1>4. \A i \in DOMAIN F : F[i] \in Frame /\ (Lost(life, F[i]) => Stale(life, prg[p]))
  BY <1>1, <1>3, ElementOfSeq DEF Stale
<1>5. s \in Seq(Frame) /\ DOMAIN s = DOMAIN F /\ Len(s) = Len(F)
  <2> DEFINE m == Len(F)
  <2>1. s \in [1..m -> Frame] /\ m \in Nat
    BY <1>3, <1>4
  <2> HIDE DEF s, m
  <2>2. s \in Seq(Frame) /\ DOMAIN s = 1..m /\ Len(s) = m
    BY <2>1
  <2> QED BY <1>3, <2>2 DEF m
<1>6. s # << >>
  BY <1>3, <1>5, EmptySeq
<1>7. \A i \in DOMAIN s : Lost(life, s[i]) => Stale(life, prg[p])
  BY <1>3, <1>4, <1>5
<1> HIDE DEF s
<1> QED BY <1>2, <1>5, <1>6, <1>7, FramesKeepLInv

LEMMA NewEntry ==
  ASSUME NEW u \in Units, NEW b \in BOOLEAN
  PROVE  [unit |-> u, lab |-> b] \in Secure
BY DEF Secure

(* An entry of the list of a frame is lost with the frame.                 *)
LEMMA PartLost ==
  ASSUME NEW f \in Frame, NEW s \in PartsOf(f.sec)
  PROVE  \A j \in DOMAIN s : /\ s[j] \in Secure /\ s[j].unit \in Units
                             /\ life[s[j].unit] = "freed" => Lost(life, f)
<1> SUFFICES ASSUME NEW j \in DOMAIN s
             PROVE  /\ s[j] \in Secure /\ s[j].unit \in Units
                    /\ life[s[j].unit] = "freed" => Lost(life, f)
  OBVIOUS
<1>1. s \in Seq(Secure) /\ Range(s) \subseteq Range(f.sec)
  BY DEF PartsOf
<1>2. s[j] \in Secure /\ s[j].unit \in Units
  <2>1. s[j] \in Secure
    BY <1>1, LenProperties, ElementOfSeq
  <2> QED BY <2>1 DEF Secure
<1>3. PICK k \in DOMAIN f.sec : f.sec[k] = s[j]
  BY <1>1 DEF Range
<1> QED BY <1>2, <1>3 DEF Lost

LEMMA NamedUnits ==
  ASSUME NEW p, NEW u \in Units, Names(p, u)
  PROVE  life[u] # "freed"
BY DEF Names, Alive, Freed

(* A frame whose pointer is good, over a part of its list and more.        *)
LEMMA FrameShape ==
  ASSUME NEW f \in Frame, NEW v \in Units \cup {None}, NEW s \in Seq(Secure),
         v \in Units /\ life[v] = "freed" => Lost(life, f),
         \A j \in DOMAIN s : life[s[j].unit] = "freed" => Lost(life, f)
  PROVE  LET e == [var |-> v, sec |-> s] IN e \in Frame /\ (Lost(life, e) => Lost(life, f))
BY DEF Frame, Lost

(* The instructions that change the frames.                                *)
LEMMA InstructionsKeepLInv ==
  ASSUME IInv, LInv, NEW p \in Prgs,
         \/ Foreach(p) \/ ForeachNext(p) \/ Call(p) \/ Return(p)
         \/ \E u \in Units : Assign(p, u) \/ SecureUnit(p, u) \/ Unsecure(p, u)
  PROVE  LInv'
<1> DEFINE f == TopFrame(p)
<1>1. /\ UNCHANGED <<life, loc, stack, inside, slack>> /\ Running(p)
  BY DEF Foreach, ForeachNext, Call, Return, Assign, SecureUnit, Unsecure, Instruction
<1>2. /\ prg[p] \in Program /\ prg[p].frames # << >> /\ f \in Frame
      /\ (Lost(life, f) => Stale(life, prg[p]))
      /\ prg[p].owner \in Units /\ life[prg[p].owner] # "freed"
  BY <1>1, RunningTop, TopShape
<1> HIDE DEF f
<1>3. /\ f.var \in Units \cup {None} /\ f.sec \in Seq(Secure) /\ f = [var |-> f.var, sec |-> f.sec]
      /\ f.sec \in PartsOf(f.sec)
  BY <1>2, PartsShrink DEF Frame
<1>4. f.var \in Units /\ life[f.var] = "freed" => Lost(life, f)
  BY DEF Lost
<1>5. ASSUME NEW v \in Units \cup {None}, NEW s \in Seq(Secure),
             v \in Units /\ life[v] = "freed" => Lost(life, f),
             \A j \in DOMAIN s : life[s[j].unit] = "freed" => Lost(life, f),
             prg' = SetTop(p, [var |-> v, sec |-> s])
      PROVE  LInv'
  <2> DEFINE e == [var |-> v, sec |-> s]
  <2>1. e \in Frame /\ (Lost(life, e) => Lost(life, f))
    BY <1>2, <1>5, FrameShape
  <2>2. prg' = SetTop(p, e)
    BY <1>5
  <2> HIDE DEF e
  <2> QED BY <1>1, <1>2, <2>1, <2>2, SetTopKeepsLInv
<1>6. ASSUME NEW u \in Units, Assign(p, u) PROVE LInv'
  <2>1. prg' = SetTop(p, [f EXCEPT !.var = u]) /\ life[u] # "freed"
    BY <1>6 DEF Assign, Instruction, Alive, f
  <2>2. [f EXCEPT !.var = u] = [var |-> u, sec |-> f.sec]
    BY <1>3
  <2>3. \A j \in DOMAIN f.sec : life[f.sec[j].unit] = "freed" => Lost(life, f)
    BY DEF Lost
  <2> QED BY <1>3, <1>5, <2>1, <2>2, <2>3
<1>7. ASSUME NEW u \in Units, Unsecure(p, u) PROVE LInv'
  <2> DEFINE s == Sub(f.sec, u, FALSE)
  <2>1. prg' = SetTop(p, [f EXCEPT !.sec = s])
    BY <1>7 DEF Unsecure, Instruction, f
  <2>2. s \in PartsOf(f.sec)
    BY <1>3, SubShape
  <2> HIDE DEF s
  <2>3. [f EXCEPT !.sec = s] = [var |-> f.var, sec |-> s] /\ s \in Seq(Secure)
    BY <1>3, <2>2 DEF PartsOf
  <2>4. \A j \in DOMAIN s : life[s[j].unit] = "freed" => Lost(life, f)
    BY <1>2, <2>2, PartLost
  <2> QED BY <1>3, <1>4, <1>5, <2>1, <2>3, <2>4
<1>8. ASSUME NEW u \in Units, SecureUnit(p, u) PROVE LInv'
  <2> DEFINE q == Sub(f.sec, u, FALSE)
             e == [unit |-> u, lab |-> TRUE]
             s == Append(q, e)
  <2>1. prg' = SetTop(p, [f EXCEPT !.sec = s]) /\ life[u] # "freed"
    BY <1>8, NamedUnits DEF SecureUnit, Instruction, f
  <2>2. q \in PartsOf(f.sec) /\ e \in Secure /\ e.unit = u
    BY <1>3, SubShape, NewEntry
  <2> HIDE DEF q, e
  <2>3. /\ s \in Seq(Secure) /\ Len(q) \in Nat /\ DOMAIN s = 1..(Len(q) + 1) /\ DOMAIN q = 1..Len(q)
        /\ \A j \in 1..Len(q) : s[j] = q[j]
        /\ s[Len(q) + 1] = e
    <3>1. q \in Seq(Secure)
      BY <2>2 DEF PartsOf
    <3> QED BY <2>2, <3>1, AppendProperties, LenProperties
  <2> HIDE DEF s
  <2>4. [f EXCEPT !.sec = s] = [var |-> f.var, sec |-> s]
    BY <1>3
  <2>5. ASSUME NEW j \in DOMAIN s, life[s[j].unit] = "freed" PROVE Lost(life, f)
    <3>1. j \in 1..Len(q)
      BY <2>1, <2>2, <2>3, <2>5
    <3> QED BY <1>2, <2>2, <2>3, <2>5, <3>1, PartLost
  <2> QED BY <1>3, <1>4, <1>5, <2>1, <2>3, <2>4, <2>5
<1>9. CASE ForeachNext(p)
  <2> DEFINE J == {j \in DOMAIN f.sec : ~f.sec[j].lab}
             m == Min(J)
  <2>1. /\ J # {}
        /\ prg' = SetTop(p, [var |-> f.sec[m].unit, sec |-> Sub(f.sec, f.sec[m].unit, TRUE)])
    BY <1>9 DEF ForeachNext, Instruction, f
  <2>2. m \in DOMAIN f.sec
    <3>1. J \in SUBSET Nat /\ J \subseteq DOMAIN f.sec
      BY <1>3, LenProperties
    <3>2. m \in J
      <4> HIDE DEF J
      <4> QED BY <2>1, <3>1, MinThere
    <3> QED BY <3>2
  <2> HIDE DEF J, m
  <2> DEFINE u == f.sec[m].unit
             s == Sub(f.sec, u, TRUE)
  <2>3. u \in Units /\ (life[u] = "freed" => Lost(life, f))
    BY <1>2, <1>3, <2>2, PartLost
  <2>4. s \in PartsOf(f.sec)
    BY <1>3, SubShape
  <2>5. prg' = SetTop(p, [var |-> u, sec |-> s])
    BY <2>1
  <2> HIDE DEF u, s
  <2>6. s \in Seq(Secure) /\ \A j \in DOMAIN s : life[s[j].unit] = "freed" => Lost(life, f)
    BY <1>2, <2>4, PartLost DEF PartsOf
  <2> QED BY <1>5, <2>3, <2>5, <2>6
<1>10. CASE Foreach(p)
  <2> DEFINE o == prg[p].owner
  <2>1. PICK S \in SUBSET {u \in Units : u # o /\ Visible(o, u)} : \E l \in SetToSeqs(S) :
          prg' = SetTop(p, [f EXCEPT !.sec = Labelled(f.sec) \o
            [i \in DOMAIN Append(l, o) |-> [unit |-> Append(l, o)[i], lab |-> FALSE]]])
    BY <1>10 DEF Foreach, Instruction, f
  <2>2. PICK l \in SetToSeqs(S) :
          prg' = SetTop(p, [f EXCEPT !.sec = Labelled(f.sec) \o
            [i \in DOMAIN Append(l, o) |-> [unit |-> Append(l, o)[i], lab |-> FALSE]]])
    BY <2>1
  <2>3. S \subseteq Units /\ \A u \in S : life[u] # "freed"
    BY DEF Visible, Freed
  <2>4. l \in Seq(S)
    <3>1. IsFiniteSet(S)
      BY <2>3, DilAssumption, FS_Subset
    <3>2. Cardinality(S) \in Nat
      BY <3>1, FS_CardinalityType
    <3> DEFINE c == Cardinality(S)
    <3>3. l \in [1..c -> S] /\ c \in Nat
      BY <3>2 DEF SetToSeqs
    <3> HIDE DEF c
    <3> QED BY <3>3
  <2> DEFINE A == {u \in Units : life[u] # "freed"}
             a == Append(l, o)
  <2>5. l \in Seq(A) /\ o \in A
    <3>1. S \subseteq A
      BY <2>3
    <3> HIDE DEF A
    <3>2. l \in Seq(A)
      BY <2>4, <3>1
    <3> QED BY <1>2, <3>2 DEF A
  <2>6. a \in Seq(A) /\ DOMAIN a = 1..Len(a) /\ Len(a) \in Nat /\ \A i \in 1..Len(a) : a[i] \in A
    <3> HIDE DEF A
    <3>1. a \in Seq(A)
      BY <2>5, AppendProperties
    <3> HIDE DEF a
    <3> QED BY <3>1, LenProperties, ElementOfSeq
  <2> HIDE DEF a
  <2> DEFINE r == [i \in DOMAIN a |-> [unit |-> a[i], lab |-> FALSE]]
             k == Labelled(f.sec)
             s == k \o r
  <2>7. /\ r \in Seq(Secure) /\ Len(r) = Len(a) /\ DOMAIN r = DOMAIN a
        /\ \A i \in DOMAIN r : life[r[i].unit] # "freed"
    <3> DEFINE n == Len(a)
    <3>1. \A i \in 1..n : [unit |-> a[i], lab |-> FALSE] \in Secure
      BY <2>6, NewEntry
    <3>2. r \in [1..n -> Secure] /\ n \in Nat
      BY <2>6, <3>1
    <3>3. \A i \in 1..n : r[i].unit = a[i]
      BY <2>6
    <3>4. \A i \in 1..n : life[r[i].unit] # "freed"
      BY <2>6, <3>3
    <3> HIDE DEF r, n
    <3>5. r \in Seq(Secure) /\ Len(r) = n /\ DOMAIN r = 1..n
      BY <3>2
    <3> QED BY <2>6, <3>4, <3>5 DEF n
  <2>8. k \in PartsOf(f.sec)
    BY <1>3, LabelledShape
  <2>9. prg' = SetTop(p, [f EXCEPT !.sec = s])
    BY <2>2 DEF a
  <2> HIDE DEF r, k
  <2>10. /\ k \in Seq(Secure) /\ s \in Seq(Secure)
         /\ Len(k) \in Nat /\ Len(r) \in Nat /\ DOMAIN s = 1..(Len(k) + Len(r))
         /\ \A j \in 1..Len(k) : s[j] = k[j]
         /\ \A j \in (Len(k) + 1)..(Len(k) + Len(r)) : s[j] = r[j - Len(k)]
    <3>1. k \in Seq(Secure)
      BY <2>8 DEF PartsOf
    <3>2. /\ s \in Seq(Secure) /\ Len(s) = Len(k) + Len(r)
          /\ \A i \in 1..(Len(k) + Len(r)) : s[i] = IF i <= Len(k) THEN k[i] ELSE r[i - Len(k)]
      BY <2>7, <3>1, ConcatProperties
    <3> HIDE DEF s
    <3>3. Len(k) \in Nat /\ Len(r) \in Nat /\ DOMAIN s = 1..Len(s)
      BY <2>7, <3>1, <3>2, LenProperties
    <3>4. Len(k) <= Len(k) + Len(r)
      BY <3>3
    <3>5. \A j \in 1..Len(k) : j \in 1..(Len(k) + Len(r)) /\ j <= Len(k)
      BY <3>3
    <3>6. \A j \in (Len(k) + 1)..(Len(k) + Len(r)) : j \in 1..(Len(k) + Len(r)) /\ ~(j <= Len(k))
      BY <3>3
    <3>7. \A j \in 1..Len(k) : s[j] = k[j]
      BY <3>2, <3>5
    <3>8. \A j \in (Len(k) + 1)..(Len(k) + Len(r)) : s[j] = r[j - Len(k)]
      BY <3>2, <3>6
    <3> QED BY <3>1, <3>2, <3>3, <3>7, <3>8
  <2> HIDE DEF s
  <2>11. ASSUME NEW j \in DOMAIN s, life[s[j].unit] = "freed" PROVE Lost(life, f)
    <3>1. CASE j \in 1..Len(k)
      <4>1. j \in DOMAIN k /\ life[k[j].unit] = "freed"
        BY <2>10, <2>11, <3>1, LenProperties
      <4> QED BY <1>2, <2>8, <4>1, PartLost
    <3>2. CASE j \notin 1..Len(k)
      <4>1. j \in (Len(k) + 1)..(Len(k) + Len(r)) /\ j - Len(k) \in 1..Len(r)
        BY <2>10, <3>2
      <4>2. s[j] = r[j - Len(k)] /\ j - Len(k) \in DOMAIN r
        BY <2>7, <2>10, <4>1, LenProperties
      <4> QED BY <2>7, <2>11, <4>2
    <3> QED BY <3>1, <3>2
  <2>12. [f EXCEPT !.sec = s] = [var |-> f.var, sec |-> s]
    BY <1>3
  <2> QED BY <1>3, <1>4, <1>5, <2>9, <2>10, <2>11, <2>12
<1> DEFINE F == prg[p].frames
<1>11. /\ F \in Seq(Frame) /\ Len(F) \in Nat /\ DOMAIN F = 1..Len(F)
       /\ f = F[Len(F)] /\ Len(F) \in 1..Len(F)
       /\ \A i \in 1..Len(F) : F[i] \in Frame /\ (Lost(life, F[i]) => Stale(life, prg[p]))
  <2>1. F \in Seq(Frame)
    BY <1>2, ProgramEdits
  <2>2. Len(F) \in Nat /\ DOMAIN F = 1..Len(F) /\ Len(F) \in DOMAIN F
    BY <1>2, <2>1, LenProperties, FrontShape
  <2> QED BY <2>1, <2>2, ElementOfSeq DEF f, TopFrame, Last, Stale
<1>12. CASE Call(p)
  <2>1. PICK u \in {f.var, None} :
          prg' = [prg EXCEPT ![p].frames = Append(@, [var |-> u, sec |-> <<>>])]
    BY <1>12 DEF Call, Instruction, f
  <2> DEFINE e == [var |-> u, sec |-> <<>>]
             s == Append(F, e)
  <2>2. e \in Frame /\ (Lost(life, e) => Lost(life, f))
    <3>1. /\ <<>> \in Seq(Secure) /\ u \in Units \cup {None}
          /\ \A j \in DOMAIN <<>> : life[<<>>[j].unit] = "freed" => Lost(life, f)
      BY <1>3, <2>1
    <3>2. u \in Units /\ life[u] = "freed" => Lost(life, f)
      BY <1>4, <2>1, DilAssumption
    <3> QED BY <1>2, <3>1, <3>2, FrameShape
  <2>3. prg' = [prg EXCEPT ![p].frames = s]
    BY <2>1
  <2> HIDE DEF e
  <2>4. /\ s \in Seq(Frame) /\ s # << >> /\ DOMAIN s = 1..(Len(F) + 1)
        /\ \A i \in 1..Len(F) : s[i] = F[i]
        /\ s[Len(F) + 1] = e
    <3> HIDE DEF F
    <3>1. s \in Seq(Frame) /\ s # << >> /\ Len(s) = Len(F) + 1
          /\ (\A i \in 1..Len(F) : s[i] = F[i]) /\ s[Len(F) + 1] = e
      BY <1>11, <2>2, AppendProperties
    <3> HIDE DEF s
    <3> QED BY <3>1, LenProperties
  <2> HIDE DEF s
  <2>5. ASSUME NEW i \in DOMAIN s, Lost(life, s[i]) PROVE Stale(life, prg[p])
    <3>1. i \in 1..Len(F) \/ i = Len(F) + 1
      BY <1>11, <2>4
    <3> QED BY <1>2, <1>11, <2>2, <2>4, <2>5, <3>1
  <2> QED BY <1>1, <2>3, <2>4, <2>5, FramesKeepLInv
<1>13. CASE Return(p)
  <2> DEFINE n == Len(F) - 1
  <2>1. PICK u \in {f.var, F[n].var} :
          prg' = [prg EXCEPT ![p].frames = [Front(@) EXCEPT ![n].var = u]]
    BY <1>13 DEF Return, Instruction, f
  <2>2. n \in Nat /\ n \in 1..Len(F) /\ n \in 1..n /\ \A i \in 1..n : i \in 1..Len(F)
    <3>1. Len(F) > 1
      BY <1>13 DEF Return
    <3> QED BY <1>11, <3>1
  <2> DEFINE H == Front(F)
             e == [F[n] EXCEPT !.var = u]
             s == [H EXCEPT ![n] = e]
  <2>3. /\ H \in Seq(Frame) /\ Len(H) = n /\ DOMAIN H = 1..n
        /\ \A i \in 1..n : H[i] = F[i]
    <3>1. F \in Seq(Frame) /\ F # << >>
      BY <1>2, <1>11
    <3> HIDE DEF F
    <3>2. H \in Seq(Frame) /\ Len(H) = n /\ \A i \in DOMAIN H : H[i] = F[i]
      BY <3>1, FrontShape
    <3> HIDE DEF H
    <3> QED BY <3>2, LenProperties
  <2>4. prg' = [prg EXCEPT ![p].frames = s]
    <3>1. prg' = [prg EXCEPT ![p].frames = [H EXCEPT ![n].var = u]]
      BY <2>1
    <3>2. [H EXCEPT ![n].var = u] = [H EXCEPT ![n] = [H[n] EXCEPT !.var = u]]
      OBVIOUS
    <3>3. H[n] = F[n]
      BY <2>2, <2>3
    <3> HIDE DEF H, F, n
    <3> QED BY <3>1, <3>2, <3>3
  <2> HIDE DEF H
  <2>5. e \in Frame /\ (Lost(life, e) => Stale(life, prg[p]))
    <3>1. F[n] \in Frame /\ (Lost(life, F[n]) => Stale(life, prg[p]))
      BY <1>11, <2>2
    <3> DEFINE g == F[n]
    <3> HIDE DEF g
    <3>2. /\ g \in Frame /\ g.sec \in Seq(Secure) /\ g.var \in Units \cup {None}
          /\ (Lost(life, g) => Stale(life, prg[p]))
      BY <3>1 DEF g, Frame
    <3>3. [g EXCEPT !.var = u] = [var |-> u, sec |-> g.sec]
      BY <3>2 DEF Frame
    <3>4. u \in Units \cup {None} /\ (u \in Units /\ life[u] = "freed" => Stale(life, prg[p]))
      <4>1. g.var \in Units /\ life[g.var] = "freed" => Lost(life, g)
        BY DEF Lost
      <4> QED BY <1>2, <1>3, <1>4, <2>1, <3>2, <4>1 DEF g
    <3>5. [var |-> u, sec |-> g.sec] \in Frame
      BY <3>2, <3>4 DEF Frame
    <3>6. Lost(life, [var |-> u, sec |-> g.sec]) => Stale(life, prg[p])
      BY <3>2, <3>4 DEF Lost
    <3>7. e = [g EXCEPT !.var = u]
      BY DEF g
    <3> QED BY <3>3, <3>5, <3>6, <3>7
  <2> HIDE DEF e
  <2>6. s \in Seq(Frame) /\ Len(s) = n /\ DOMAIN s = 1..n
        /\ \A i \in 1..n : s[i] = IF i = n THEN e ELSE H[i]
    <3> HIDE DEF n, F
    <3>1. \A i \in 1..n : H[i] \in Frame
      BY <2>3, ElementOfSeq
    <3>2. H \in [1..n -> Frame]
      BY <2>2, <2>3, <3>1
    <3>3. s \in [1..n -> Frame] /\ n \in Nat
      BY <2>2, <2>5, <3>2
    <3>4. \A i \in 1..n : s[i] = IF i = n THEN e ELSE H[i]
      BY <3>2
    <3> HIDE DEF s
    <3> QED BY <3>3, <3>4
  <2> HIDE DEF s, n
  <2>7. ASSUME NEW i \in DOMAIN s, Lost(life, s[i]) PROVE Stale(life, prg[p])
    BY <1>11, <2>2, <2>3, <2>5, <2>6, <2>7
  <2>8. s # << >>
    BY <2>2, <2>6
  <2> QED BY <1>1, <2>4, <2>6, <2>7, <2>8, FramesKeepLInv
<1> QED BY <1>6, <1>7, <1>8, <1>9, <1>10, <1>12, <1>13

-----------------------------------------------------------------------------
(* How an activation ends.                                                 *)
LEMMA PopLeaves ==
  ASSUME IInv, NEW p \in Prgs, stack # << >>, p = Top, Pop
  PROVE  Range(stack') \subseteq Range(stack) /\ p \notin Range(stack')
<1>1. /\ \A i \in DOMAIN stack' : i \in DOMAIN stack /\ i < Len(stack) /\ stack'[i] = stack[i]
      /\ Len(stack) \in DOMAIN stack /\ Len(stack) \in Nat
  BY FrontShape, LenProperties DEF Pop, IInv, Shape
<1>2. p \notin Range(stack')
  <2> SUFFICES ASSUME p \in Range(stack') PROVE FALSE
    OBVIOUS
  <2>1. PICK i \in DOMAIN stack' : stack'[i] = p
    BY DEF Range
  <2>2. stack[i] = stack[Len(stack)] /\ i \in DOMAIN stack
    BY <1>1, <2>1 DEF Top
  <2>3. i = Len(stack)
    BY <1>1, <2>2 DEF IInv, RunningIsWhole
  <2> QED BY <1>1, <2>1, <2>3
<1> QED BY <1>1, <1>2 DEF Range

(* An activation that ends keeps the program, or frees it.                 *)
LEMMA PopKeepsLInv ==
  ASSUME IInv, LInv, NEW p \in Prgs, NEW Q, prg' = [prg EXCEPT ![p] = Q],
         stack # << >>, p = Top, Pop, UNCHANGED life,
         Q.owner # None => Q \in Program /\ Q.wait # "new" /\ (Q.frames = <<>> => Q.exec),
         \A q \in Prgs : q # p /\ q \in slack => q \in slack'
  PROVE  LInv'
<1>1. Range(stack') \subseteq Range(stack) /\ p \notin Range(stack')
  BY PopLeaves
<1>2. \A u \in Units : life'[u] = "freed" => life[u] = "freed"
  OBVIOUS
<1> QED BY <1>1, <1>2, PlaceKeepsLInv

LEMMA EndsKeepLInv ==
  ASSUME IInv, LInv, NEW p \in Prgs,
         Wait(p) \/ Stop(p) \/ EndlessLoop(p) \/ Quit(p) \/ CallDone(p) \/ CallOut(p)
  PROVE  LInv'
<1> DEFINE P == prg[p]
<1>1. stack # << >> /\ p = Top /\ UNCHANGED life
  BY DEF Wait, Stop, EndlessLoop, Quit, CallDone, CallOut, Running, Free, IInv, Shape
<1>2. /\ P \in Program /\ P.frames # << >> /\ p \in Range(stack) /\ P.exec
      /\ (Stale(life, P) => p \in slack) /\ P.owner # None
  BY <1>1, TopShape, ProgramEdits
<1>3. ASSUME NEW Q \in Program, Q.frames = <<>> PROVE Husk(Q) = Q
  BY <1>3 DEF Husk, Program
<1>e. << >> \in Seq(Frame)
  OBVIOUS
<1>4. ASSUME NEW Q \in Program
      PROVE  Husk(Q) \in Program /\ Husk(Q).exec = Q.exec /\ Husk(Q).wait = Q.wait
  <2>1. Husk(Q) \in Program
    BY <1>e, ProgramEdits DEF Husk
  <2> QED BY <2>1 DEF Husk, Program
<1>5. CASE Wait(p)
  <2> DEFINE A == [P EXCEPT !.wait = "idle"]
             Q == [A EXCEPT !.exec = FALSE]
  <2>1. prg' = [prg EXCEPT ![p] = Q] /\ Pop /\ slack' = slack
    BY <1>5 DEF Wait, IInv, Shape
  <2>2. A \in Program /\ A.wait = "idle" /\ A.frames = P.frames
    <3>1. A \in Program
      BY <1>2, ProgramEdits
    <3> QED BY <1>2, <3>1 DEF Program
  <2> HIDE DEF A
  <2>3. Q \in Program /\ Q.wait = "idle" /\ Q.frames = P.frames
    <3>1. Q \in Program
      BY <2>2, ProgramEdits
    <3> QED BY <2>2, <3>1 DEF Program
  <2> HIDE DEF Q
  <2> QED BY <1>1, <1>2, <2>1, <2>3, PopKeepsLInv
<1>6. CASE Stop(p)
  <2> DEFINE A == [P EXCEPT !.wait = "stop"]
             Q == Husk(A)
  <2>1. prg' = [prg EXCEPT ![p] = Q] /\ Pop /\ slack' = slack \ {p}
    BY <1>6 DEF Stop
  <2>2. A \in Program
    BY <1>2, ProgramEdits
  <2>3. A.wait = "stop" /\ A.exec
    BY <1>2 DEF Program
  <2> HIDE DEF A
  <2>4. Q \in Program /\ Q.exec /\ Q.wait = "stop"
    BY <1>4, <2>2, <2>3
  <2> HIDE DEF Q
  <2> QED BY <1>1, <2>1, <2>4, PopKeepsLInv
<1>7. CASE EndlessLoop(p)
  <2> DEFINE A == [P EXCEPT !.wait = "destroyed"]
             B == [A EXCEPT !.hooked = FALSE]
             Q == Husk(B)
  <2>1. prg' = [prg EXCEPT ![p] = Q] /\ Pop /\ slack' = slack \ {p}
    <3>1. [P EXCEPT !.wait = "destroyed", !.hooked = FALSE] = B
      OBVIOUS
    <3> QED BY <1>7, <3>1 DEF EndlessLoop
  <2>2. A \in Program /\ A.wait = "destroyed" /\ A.exec
    <3>1. A \in Program
      BY <1>2, ProgramEdits
    <3> QED BY <1>2, <3>1 DEF Program
  <2> HIDE DEF A
  <2>3. B \in Program /\ B.wait = "destroyed" /\ B.exec
    <3>1. B \in Program
      BY <2>2, ProgramEdits
    <3> QED BY <2>2, <3>1 DEF Program
  <2> HIDE DEF B
  <2>4. Q \in Program /\ Q.exec /\ Q.wait = "destroyed"
    BY <1>4, <2>3
  <2> HIDE DEF Q
  <2> QED BY <1>1, <2>1, <2>4, PopKeepsLInv
<1>8. CASE Free(p)
  BY <1>1, <1>8, NothingShape, PopKeepsLInv DEF Free
<1>9. CASE CallOut(p)
  <2>1. prg' = [prg EXCEPT ![p] = P] /\ UNCHANGED <<stack, slack>>
    BY <1>9 DEF CallOut, IInv, Shape
  <2>2. P.wait = "new" => Bare(P)
    BY <1>2 DEF LInv, Fresh, Is
  <2>3. \A u \in Units : life'[u] = "freed" => life[u] = "freed"
    BY <1>1
  <2> HIDE DEF P
  <2> QED BY <1>1, <1>2, <2>1, <2>2, <2>3, PlaceKeepsLInv
<1>10. CASE CallDone(p) /\ P.wait # "quit"
  <2> DEFINE Q == AfterTest(P)
  <2>1. prg' = [prg EXCEPT ![p] = Q] /\ stack' = stack /\ Noted(p, Q)
    BY <1>10 DEF CallDone
  <2>2. Thinner(Q, P) /\ Q \in Program
    BY <1>2, AfterTestThins DEF Thinner
  <2>3. Q.frames # << >> /\ (Stale(life, Q) => Stale(life, P))
    BY <1>2, <2>2, ThinnerShape
  <2>4. Q.wait = P.wait
    <3> DEFINE f == [i \in DOMAIN P.frames |-> Tested(P.owner, P.frames[i]).f]
    <3>1. Q = [P EXCEPT !.frames = f]
      BY DEF AfterTest
    <3> HIDE DEF f, Q
    <3> QED BY <1>2, <3>1 DEF Program
  <2>5. ASSUME P.wait = "new" PROVE Bare(Q)
    <3>1. Bare(P)
      BY <1>2, <2>5 DEF LInv, Fresh, Is
    <3>2. ASSUME NEW i \in DOMAIN Q.frames PROVE Q.frames[i] = [var |-> None, sec |-> <<>>]
      <4>1. Under(Q.frames[i], P.frames[i]) /\ P.frames[i] = [var |-> None, sec |-> <<>>]
        BY <2>2, <3>1, <3>2 DEF Bare, Thinner
      <4> DEFINE e == Q.frames[i]
      <4>2. e \in Frame /\ e.var \in {P.frames[i].var, None} /\ e.sec \in PartsOf(P.frames[i].sec)
        BY <4>1 DEF Under
      <4>3. e.var = None /\ e.sec \in PartsOf(<<>>)
        BY <4>1, <4>2
      <4> HIDE DEF e
      <4>4. e.sec \in Seq(Secure) /\ Len(e.sec) <= Len(<<>>)
        BY <4>3 DEF PartsOf
      <4>5. e.sec = <<>>
        <5>1. Len(<<>>) = 0 /\ Len(e.sec) \in Nat
          BY <4>4, LenProperties
        <5>2. Len(e.sec) = 0
          BY <4>4, <5>1
        <5> QED BY <4>4, <5>2, EmptySeq
      <4>6. e = [var |-> None, sec |-> <<>>]
        BY <4>2, <4>3, <4>5 DEF Frame
      <4> QED BY <4>6 DEF e
    <3> QED BY <3>2 DEF Bare
  <2>6. \A q \in slack : q \in slack'
    BY <2>1 DEF Noted
  <2>7. \A u \in Units : life'[u] = "freed" => life[u] = "freed"
    BY <1>1
  <2>8. Q.owner # None
    BY <2>2, ProgramEdits
  <2> HIDE DEF Q
  <2> QED BY <1>2, <2>1, <2>2, <2>3, <2>4, <2>5, <2>6, <2>7, <2>8, PlaceKeepsLInv
<1> QED BY <1>5, <1>6, <1>7, <1>8, <1>9, <1>10 DEF Quit, CallDone

-----------------------------------------------------------------------------
(* Units that go, and programs that come.                                  *)
LEMMA StaleBefore ==
  ASSUME NEW P \in Program, NEW l, NEW m, Stale(m, P),
         \A u \in Units : m[u] = "freed" => l[u] = "freed"
  PROVE  Stale(l, P)
<1>1. P.frames \in Seq(Frame)
  BY ProgramEdits
<1>2. PICK i \in DOMAIN P.frames : Lost(m, P.frames[i])
  BY DEF Stale
<1>3. P.frames[i] \in Frame
  BY <1>1, LenProperties, ElementOfSeq
<1> DEFINE f == P.frames[i]
<1> HIDE DEF f
<1>4. f.sec \in Seq(Secure)
  BY <1>3 DEF Frame, f
<1>5. \A j \in DOMAIN f.sec : f.sec[j].unit \in Units
  <2>1. \A j \in DOMAIN f.sec : f.sec[j] \in Secure
    BY <1>4, LenProperties, ElementOfSeq
  <2> QED BY <2>1 DEF Secure
<1>6. Lost(l, f)
  BY <1>2, <1>5 DEF Lost, f
<1> QED BY <1>2, <1>6 DEF Stale, f

(* What goes on with the units does not touch the frames.                  *)
LEMMA OthersKeepLInv ==
  ASSUME IInv, LInv,
         \A q \in Prgs : prg'[q].owner # None =>
           /\ prg[q].owner # None
           /\ prg'[q] \in Program /\ prg'[q].frames = prg[q].frames /\ prg'[q].exec = prg[q].exec
           /\ prg'[q].wait = "new" => prg[q].wait = "new",
         Range(stack') \subseteq Range(stack),
         \A q \in Range(stack') : prg'[q].owner # None /\ (q \in slack => q \in slack'),
         Range(stack') = {} \/ \A u \in Units : life'[u] = "freed" => life[u] = "freed"
  PROVE  LInv'
<1>1. Framed'
  BY DEF LInv, Framed, Is
<1>2. Fresh'
  BY DEF LInv, Fresh, Is, Bare
<1>3. Secured'
  <2> SUFFICES ASSUME NEW q \in Prgs, q \in Range(stack'), Stale(life', prg'[q])
               PROVE  q \in slack'
    BY DEF Secured
  <2>1. prg'[q] \in Program /\ prg'[q].frames = prg[q].frames
    OBVIOUS
  <2>2. Stale(life, prg'[q])
    BY <2>1, StaleBefore
  <2>3. Stale(life, prg[q])
    BY <2>1, <2>2 DEF Stale
  <2> QED BY <2>3 DEF LInv, Secured
<1> QED BY <1>1, <1>2, <1>3 DEF LInv

LEMMA AsleepShape ==
  ASSUME LInv, NEW u, NEW q \in Prgs
  PROVE  /\ Asleep(u)[q].owner = prg[q].owner
         /\ prg[q].owner # None =>
              /\ Asleep(u)[q] \in Program /\ Asleep(u)[q].frames = prg[q].frames
              /\ Asleep(u)[q].exec = prg[q].exec /\ Asleep(u)[q].wait = prg[q].wait
<1>1. CASE Is(q) /\ prg[q].hooked /\ prg[q].owner = u
  <2> DEFINE Q == [prg[q] EXCEPT !.deact = TRUE]
  <2>1. Asleep(u)[q] = Q
    BY <1>1 DEF Asleep
  <2>2. prg[q] \in Program
    BY <1>1 DEF LInv, Framed
  <2>3. Q \in Program
    BY <2>2, ProgramEdits
  <2>4. Q.owner = prg[q].owner /\ Q.frames = prg[q].frames /\ Q.exec = prg[q].exec /\ Q.wait = prg[q].wait
    BY <2>2 DEF Program
  <2> QED BY <2>1, <2>3, <2>4
<1>2. CASE ~(Is(q) /\ prg[q].hooked /\ prg[q].owner = u)
  BY <1>2 DEF Asleep, LInv, Framed, Is
<1> QED BY <1>1, <1>2

(* Units are freed when nothing is in an activation.                       *)
LEMMA UnitsKeepLInv ==
  ASSUME IInv, LInv,
         \/ Clear
         \/ \E u \in Units : Extract(u)
         \/ \E p \in Prgs : DestroySelf(p)
  PROVE  LInv'
<1>t. life \in [Units -> {"live", "gone", "freed"}]
  BY DEF IInv, Shape
<1>s. \A q \in Range(stack) : q \in Prgs /\ prg[q].owner # None
  <2>1. stack \in Seq(Prgs)
    BY DEF IInv, Shape
  <2>2. \A i \in DOMAIN stack : stack[i] \in Prgs
    BY <2>1, LenProperties, ElementOfSeq
  <2> QED BY <2>2 DEF IInv, RunningIsWhole, Range, Is
<1>1. ASSUME NEW u \in Units, Extract(u) PROVE LInv'
  <2>1. prg' = Asleep(u) /\ UNCHANGED <<stack, slack>> /\ life' = [life EXCEPT ![u] = "gone"]
    BY <1>1 DEF Extract, Gone
  <2>2. \A x \in Units : life'[x] = "freed" => life[x] = "freed"
    BY <1>t, <2>1
  <2> QED BY <1>s, <2>1, <2>2, AsleepShape, OthersKeepLInv
<1>2. ASSUME NEW p \in Prgs, DestroySelf(p) PROVE LInv'
  <2> DEFINE u == prg[p].owner
             F == Asleep(u)
  <2>1. /\ prg' = [F EXCEPT ![p] = Nothing] /\ Pop /\ slack' = slack \ {p} /\ stack # << >> /\ p = Top
        /\ life' = [life EXCEPT ![u] = "gone"]
    BY <1>2 DEF DestroySelf, Gone, Running, IInv, Shape
  <2>2. F = [q \in Prgs |-> F[q]]
    BY DEF Asleep
  <2>3. \A x \in Units : life'[x] = "freed" => life[x] = "freed"
    BY <1>t, <2>1
  <2>4. Range(stack') \subseteq Range(stack) /\ p \notin Range(stack')
    BY <2>1, PopLeaves
  <2> HIDE DEF F, u
  <2>5. prg'[p] = Nothing /\ \A q \in Prgs : q # p => prg'[q] = F[q]
    BY <2>1, <2>2
  <2>6. \A q \in Prgs : /\ F[q].owner = prg[q].owner
                        /\ prg[q].owner # None =>
                             /\ F[q] \in Program /\ F[q].frames = prg[q].frames
                             /\ F[q].exec = prg[q].exec /\ F[q].wait = prg[q].wait
    BY AsleepShape DEF F
  <2> QED BY <1>s, <2>1, <2>3, <2>4, <2>5, <2>6, NothingShape, OthersKeepLInv
<1>3. CASE Clear
  <2>1. /\ stack = << >> /\ stack' = stack
        /\ prg' = [p \in Prgs |->
             IF ~Is(p) \/ ~prg[p].hooked \/ Alive(prg[p].owner) THEN prg[p]
             ELSE IF prg[p].exec THEN [prg[p] EXCEPT !.wait = "destroyed", !.hooked = FALSE]
             ELSE Nothing]
    BY <1>3 DEF Clear
  <2>2. Range(stack') = {} /\ Range(stack) = {}
    <3>1. Range(<< >>) = {}
      BY DEF Range
    <3> QED BY <2>1, <3>1
  <2>3. ASSUME NEW q \in Prgs, prg'[q].owner # None
        PROVE  /\ prg[q].owner # None
               /\ prg'[q] \in Program /\ prg'[q].frames = prg[q].frames /\ prg'[q].exec = prg[q].exec
               /\ prg'[q].wait = "new" => prg[q].wait = "new"
    <3>1. CASE ~Is(q) \/ ~prg[q].hooked \/ Alive(prg[q].owner)
      BY <2>1, <2>3, <3>1 DEF LInv, Framed, Is
    <3>2. CASE Is(q) /\ prg[q].hooked /\ ~Alive(prg[q].owner) /\ prg[q].exec
      <4> DEFINE A == [prg[q] EXCEPT !.wait = "destroyed"]
                 B == [A EXCEPT !.hooked = FALSE]
      <4>1. prg'[q] = B
        BY <2>1, <3>2
      <4>2. prg[q] \in Program
        BY <3>2 DEF LInv, Framed
      <4>3. A \in Program
        BY <4>2, ProgramEdits
      <4>4. A.frames = prg[q].frames /\ A.exec = prg[q].exec /\ A.wait = "destroyed"
        BY <4>2 DEF Program
      <4> HIDE DEF A
      <4>5. B \in Program
        BY <4>3, ProgramEdits
      <4>6. B.frames = A.frames /\ B.exec = A.exec /\ B.wait = A.wait
        BY <4>3 DEF Program
      <4> HIDE DEF B
      <4> QED BY <3>2, <4>1, <4>4, <4>5, <4>6 DEF Is
    <3>3. CASE Is(q) /\ prg[q].hooked /\ ~Alive(prg[q].owner) /\ ~prg[q].exec
      BY <2>1, <2>3, <3>3, NothingShape
    <3> QED BY <3>1, <3>2, <3>3
  <2> QED BY <2>2, <2>3, OthersKeepLInv
<1> QED BY <1>1, <1>2, <1>3

LEMMA NewProgram ==
  ASSUME NEW u \in Units, NEW f \in Frame
  PROVE  /\ New(u, f) \in Program /\ New(u, f).frames = <<f>> /\ New(u, f).wait = "new"
         /\ <<f>> # << >> /\ DOMAIN <<f>> = {1} /\ New(u, f).owner = u
<1>1. <<f>> \in Seq(Frame) /\ <<f>> # << >> /\ DOMAIN <<f>> = {1}
  OBVIOUS
<1> QED BY <1>1 DEF New, Program

(* Activations begin with what is known.                                   *)
LEMMA ComingKeepsLInv ==
  ASSUME IInv, LInv, NEW p \in Prgs,
         \/ Activate(p)
         \/ \E u \in Units : Copy(p, u)
         \/ \E u, x \in Units : Cast(p, u, x)
         \/ \E q \in Prgs : DilDestroy(p, q)
  PROVE  LInv'
<1>e. << >> \in Seq(Secure)
  OBVIOUS
<1>1. CASE Activate(p)
  <2>1. Is(p) /\ ~prg[p].exec /\ Begin(p, prg[p]) /\ UNCHANGED life
    BY <1>1 DEF Activate, Busy
  <2>2. prg[p] \in Program /\ prg[p].frames # << >>
    BY <2>1 DEF LInv, Framed
  <2>3. prg[p].wait = "new" => ~Stale(life, prg[p])
    <3> SUFFICES ASSUME Bare(prg[p]) PROVE ~Stale(life, prg[p])
      BY <2>1 DEF LInv, Fresh
    <3> QED BY DilAssumption DEF Bare, Stale, Lost
  <2> QED BY <2>1, <2>2, <2>3, NotOnStack, BeginKeepsLInv
<1>2. ASSUME NEW u \in Units, Copy(p, u) PROVE LInv'
  <2> DEFINE f == [var |-> None, sec |-> <<>>]
             Q == New(u, f)
  <2>1. /\ ~Is(p) /\ UNCHANGED <<life, stack, inside, slack>>
        /\ prg' = [prg EXCEPT ![p] = Q]
    BY <1>2 DEF Copy
  <2>2. f \in Frame
    BY <1>e DEF Frame
  <2>3. Q \in Program /\ Q.frames = <<f>> /\ Q.frames # << >> /\ DOMAIN Q.frames = {1}
    BY <2>2, NewProgram
  <2>4. Bare(Q)
    BY <2>3 DEF Bare
  <2>5. p \notin Range(stack)
    BY <2>1, NotOnStack
  <2>6. \A x \in Units : life'[x] = "freed" => life[x] = "freed"
    BY <2>1
  <2> HIDE DEF Q, f
  <2> QED BY <2>1, <2>3, <2>4, <2>5, <2>6, PlaceKeepsLInv
<1>3. ASSUME NEW u \in Units, NEW x \in Units, Cast(p, u, x) PROVE LInv'
  <2> DEFINE e == [unit |-> x, lab |-> TRUE]
             f == [var |-> x, sec |-> <<e>>]
             P == New(u, f)
  <2>1. ~Is(p) /\ life[x] = "live" /\ Begin(p, P) /\ UNCHANGED life
    BY <1>3 DEF Cast, Alive
  <2>2. f \in Frame /\ ~Lost(life, f)
    <3>1. e \in Secure /\ e.unit = x
      BY NewEntry
    <3> HIDE DEF e
    <3>2. <<e>> \in Seq(Secure) /\ DOMAIN <<e>> = {1} /\ <<e>>[1] = e
      BY <3>1
    <3> QED BY <2>1, <3>1, <3>2 DEF Frame, Lost
  <2> HIDE DEF f
  <2>3. P \in Program /\ P.frames = <<f>> /\ P.frames # << >> /\ DOMAIN P.frames = {1}
    BY <2>2, NewProgram
  <2>4. ~Stale(life, P)
    BY <2>2, <2>3 DEF Stale
  <2>5. p \notin Range(stack)
    BY <2>1, NotOnStack
  <2> HIDE DEF P
  <2> QED BY <2>1, <2>3, <2>4, <2>5, BeginKeepsLInv
<1>4. ASSUME NEW q \in Prgs, DilDestroy(p, q) PROVE LInv'
  <2> DEFINE Q == [prg[q] EXCEPT !.wait = "quit"]
  <2>1. Is(q) /\ UNCHANGED life
    BY <1>4 DEF DilDestroy
  <2>2. prg[q] \in Program /\ (prg[q].frames = <<>> => prg[q].exec /\ q \notin Range(stack))
    BY <2>1 DEF LInv, Framed
  <2>3. Q \in Program
    BY <2>2, ProgramEdits
  <2>4. /\ Q.frames = prg[q].frames /\ Q.exec = prg[q].exec /\ Q.wait = "quit"
        /\ Q.owner = prg[q].owner
    BY <2>2 DEF Program
  <2>5. CASE Busy(Q)
    <3>1. prg' = [prg EXCEPT ![q] = Q] /\ UNCHANGED <<stack, inside, slack>>
      BY <1>4, <2>5 DEF DilDestroy
    <3> HIDE DEF Q
    <3>2. Stale(life, Q) => Stale(life, prg[q])
      BY <2>4 DEF Stale
    <3>3. q \in Range(stack) /\ Stale(life, prg[q]) => q \in slack
      BY DEF LInv, Secured
    <3>4. \A u \in Units : life'[u] = "freed" => life[u] = "freed"
      BY <2>1
    <3>5. Q.owner # None
      BY <2>1, <2>4 DEF Is
    <3> QED BY <2>2, <2>3, <2>4, <3>1, <3>2, <3>3, <3>4, <3>5, PlaceKeepsLInv
  <2>6. CASE ~Busy(Q)
    <3>1. Begin(q, Q) /\ ~Q.exec
      BY <1>4, <2>6 DEF DilDestroy, Busy
    <3>2. q \notin Range(stack) /\ Q.frames # << >>
      BY <2>2, <2>4, <3>1, NotOnStack
    <3> HIDE DEF Q
    <3> QED BY <2>1, <2>3, <2>4, <3>1, <3>2, BeginKeepsLInv
  <2> QED BY <2>5, <2>6
<1> QED BY <1>1, <1>2, <1>3, <1>4

-----------------------------------------------------------------------------
LEMMA InitKnown == Init => LInv
<1> SUFFICES ASSUME Init PROVE LInv
  OBVIOUS
<1>1. \A p \in Prgs : ~Is(p)
  BY NothingShape DEF Init, Is
<1>2. Range(stack) = {}
  BY DEF Init, Range
<1> QED BY <1>1, <1>2 DEF LInv, Framed, Fresh, Secured

LEMMA StepKeepsLInv == IInv /\ LInv /\ [Next]_vars => LInv'
<1> SUFFICES ASSUME IInv, LInv, [Next]_vars PROVE LInv'
  OBVIOUS
<1>1. ASSUME UNCHANGED <<life, prg, stack, slack>> PROVE LInv'
  BY <1>1 DEF LInv, Framed, Fresh, Secured, Is, Range, Stale, Lost, Bare
<1>2. CASE UNCHANGED vars
  BY <1>1, <1>2 DEF vars
<1>3. ASSUME NEW u \in Units, Move(u) PROVE LInv'
  BY <1>1, <1>3 DEF Move
<1>4. CASE Clear
  BY <1>4, UnitsKeepLInv
<1>5. ASSUME NEW u \in Units, Extract(u) PROVE LInv'
  BY <1>5, UnitsKeepLInv
<1>6. ASSUME NEW p \in Prgs, DestroySelf(p) PROVE LInv'
  BY <1>6, UnitsKeepLInv
<1>7. ASSUME NEW p \in Prgs,
             \/ Activate(p)
             \/ \E u \in Units : Copy(p, u)
             \/ \E u, x \in Units : Cast(p, u, x)
             \/ \E q \in Prgs : DilDestroy(p, q)
      PROVE  LInv'
  BY <1>7, ComingKeepsLInv
<1>8. ASSUME NEW p \in Prgs,
             \/ Foreach(p) \/ ForeachNext(p) \/ Call(p) \/ Return(p)
             \/ \E u \in Units : Assign(p, u) \/ SecureUnit(p, u) \/ Unsecure(p, u)
      PROVE  LInv'
  BY <1>8, InstructionsKeepLInv
<1>9. ASSUME NEW p \in Prgs,
             Wait(p) \/ Stop(p) \/ EndlessLoop(p) \/ Quit(p) \/ CallDone(p) \/ CallOut(p)
      PROVE  LInv'
  BY <1>9, EndsKeepLInv
<1> QED BY <1>2, <1>3, <1>4, <1>5, <1>6, <1>7, <1>8, <1>9 DEF Next

(* A program that runs with a pointer to a unit that has been freed has a  *)
(* unit on its list of secures that it had lost, or that a foreach holds:  *)
(* the pointers that are not secured are cleared in time, in every frame.  *)
THEOREM PointersHold == Spec => []LooseBySecureOnly
<1>1. IInv /\ LInv => LooseBySecureOnly
  <2> SUFFICES ASSUME IInv, LInv, NEW p \in Range(stack), Is(p), Loose(p) PROVE p \in slack
    BY DEF LooseBySecureOnly
  <2>1. p \in Prgs
    <3>1. stack \in Seq(Prgs)
      BY DEF IInv, Shape
    <3> QED BY <3>1, LenProperties, ElementOfSeq DEF Range
  <2>2. prg[p] \in Program
    BY <2>1 DEF LInv, Framed
  <2>3. PICK i \in DOMAIN prg[p].frames :
          prg[p].frames[i].var # None /\ Freed(prg[p].frames[i].var)
    BY DEF Loose
  <2>4. prg[p].frames[i] \in Frame
    <3>1. prg[p].frames \in Seq(Frame)
      BY <2>2, ProgramEdits
    <3> QED BY <2>3, <3>1, LenProperties, ElementOfSeq
  <2>5. prg[p].frames[i].var \in Units
    BY <2>3, <2>4 DEF Frame
  <2>6. Stale(life, prg[p])
    BY <2>3, <2>5 DEF Stale, Lost, Freed
  <2> QED BY <2>1, <2>6 DEF LInv, Secured
<1>2. Spec => [](IInv /\ LInv)
  BY InitHolds, StepKeepsIInv, InitKnown, StepKeepsLInv, PTL DEF Spec
<1> QED BY <1>1, <1>2, PTL

-----------------------------------------------------------------------------
(* The memory of the programs stays within its bound.                      *)
Roomy == \A p \in Prgs : Used(p) <= MaxMemory

(* Without frames nothing is used.                                         *)
LEMMA SizeOfNone == Size(<< >>) = 0 /\ 0 <= MaxMemory
<1>1. << >> \in Seq(Frame)
  OBVIOUS
<1> DEFINE e == << >>
<1>2. e \in Seq(Frame) /\ e = << >>
  BY <1>1
<1> HIDE DEF e
<1>3. Size(e) = 0
  BY <1>2, SizeProperties
<1> QED BY <1>2, <1>3, DilAssumption

LEMMA SizeOfOne ==
  ASSUME NEW f \in Frame
  PROVE  Size(<<f>>) = 1 + Len(f.sec)
<1> DEFINE s == <<f>>
<1>1. s \in Seq(Frame) /\ Len(s) = 1 /\ s[1] = f
  OBVIOUS
<1> HIDE DEF s
<1>2. Size(s) = 1 + Len(s[1].sec)
  BY <1>1, SizeProperties
<1> QED BY <1>1, <1>2 DEF s

LEMMA UsedIs ==
  \A r \in Prgs : Used(r) = IF prg[r].owner # None THEN Size(prg[r].frames) ELSE 0
BY DEF Used, Is, Size

(* What a program uses.                                                    *)
LEMMA UsedShape ==
  ASSUME LInv
  PROVE  \A p \in Prgs : /\ Used(p) \in Nat
                         /\ Is(p) => Used(p) = Size(prg[p].frames)
                         /\ ~Is(p) => Used(p) = 0
<1> SUFFICES ASSUME NEW p \in Prgs
             PROVE  /\ Used(p) \in Nat
                    /\ Is(p) => Used(p) = Size(prg[p].frames)
                    /\ ~Is(p) => Used(p) = 0
  OBVIOUS
<1>1. Used(p) = IF Is(p) THEN Size(prg[p].frames) ELSE 0
  BY UsedIs DEF Is
<1>2. Is(p) => Size(prg[p].frames) \in Nat
  <2> SUFFICES ASSUME Is(p) PROVE Size(prg[p].frames) \in Nat
    OBVIOUS
  <2>1. prg[p].frames \in Seq(Frame)
    BY ProgramEdits DEF LInv, Framed
  <2> QED BY <2>1, SizeProperties
<1> QED BY <1>1, <1>2

(* Waking, testing and clearing do not need more.                          *)
LEMMA ThinnerSize ==
  ASSUME NEW P \in Program, NEW Q, Thinner(Q, P)
  PROVE  Size(Q.frames) \in Nat /\ Size(P.frames) \in Nat /\ Size(Q.frames) <= Size(P.frames)
<1>1. /\ P.frames \in Seq(Frame) /\ Q.frames \in Seq(Frame)
      /\ DOMAIN P.frames = 1..Len(P.frames) /\ DOMAIN Q.frames = 1..Len(Q.frames)
      /\ Len(P.frames) \in Nat /\ Len(Q.frames) \in Nat
  BY ProgramEdits, LenProperties DEF Thinner
<1>2. Len(Q.frames) = Len(P.frames)
  <2> DEFINE m == Len(P.frames)
             n == Len(Q.frames)
  <2>1. m \in Nat /\ n \in Nat /\ 1..m = 1..n
    BY <1>1 DEF Thinner
  <2> HIDE DEF m, n
  <2>2. m = n
    BY <2>1
  <2> QED BY <2>2 DEF m, n
<1>3. \A i \in 1..Len(Q.frames) : Len(Q.frames[i].sec) <= Len(P.frames[i].sec)
  BY <1>1, <1>2 DEF Thinner, Under, PartsOf
<1>4. Size(Q.frames) <= Size(P.frames)
  BY <1>1, <1>2, <1>3, SizeProperties
<1> QED BY <1>1, <1>4, SizeProperties

(* One program changes, and stays within the bound.                        *)
LEMMA PlaceKeepsRoomy ==
  ASSUME IInv, LInv, Roomy, NEW p \in Prgs, NEW Q, prg' = [prg EXCEPT ![p] = Q],
         Q.owner # None => Size(Q.frames) <= MaxMemory
  PROVE  Roomy'
<1>1. prg'[p] = Q /\ \A q \in Prgs : q # p => prg'[q] = prg[q]
  BY DEF IInv, Shape
<1>0. (\A r \in Prgs : Used(r) = IF prg[r].owner # None THEN Size(prg[r].frames) ELSE 0)'
  BY UsedIs, PTL
<1> SUFFICES ASSUME NEW q \in Prgs PROVE Used(q)' <= MaxMemory
  BY DEF Roomy
<1>2. CASE q # p
  <2>1. Used(q)' = Used(q)
    BY <1>0, <1>1, <1>2, UsedIs
  <2> QED BY <2>1 DEF Roomy
<1>3. CASE q = p
  <2>1. Used(q)' = IF Q.owner # None THEN Size(Q.frames) ELSE 0
    BY <1>0, <1>1, <1>3
  <2> QED BY <2>1, SizeOfNone
<1> QED BY <1>2, <1>3

(* run_dil does not need more.                                             *)
LEMMA BeginKeepsRoomy ==
  ASSUME IInv, LInv, Roomy, NEW p \in Prgs, NEW P \in Program, Size(P.frames) <= MaxMemory,
         Begin(p, P)
  PROVE  Roomy'
<1> DEFINE w == Woken(P)
           x == [w EXCEPT !.exec = TRUE]
           h == Husk(x)
           r == [w EXCEPT !.exec = TRUE, !.wait = "run"]
<1>1. Thinner(w, P) /\ w \in Program
  BY WokenThins DEF Thinner
<1>2. \/ prg' = [prg EXCEPT ![p] = w]
      \/ prg' = [prg EXCEPT ![p] = h]
      \/ prg' = [prg EXCEPT ![p] = Nothing]
      \/ prg' = [prg EXCEPT ![p] = r]
  BY DEF Begin
<1>3. Size(w.frames) <= MaxMemory
  <2> DEFINE a == Size(w.frames)
             b == Size(P.frames)
  <2>1. a \in Nat /\ b \in Nat /\ a <= b /\ b <= MaxMemory /\ MaxMemory \in Nat
    BY <1>1, ThinnerSize, DilAssumption
  <2> HIDE DEF a, b
  <2>2. a <= MaxMemory
    BY <2>1
  <2> QED BY <2>2 DEF a
<1> HIDE DEF w
<1>4. x.frames = w.frames /\ r.frames = w.frames /\ h.frames = <<>>
  BY <1>1 DEF Program, Husk
<1> HIDE DEF x, h, r
<1>5. Size(h.frames) <= MaxMemory
  BY <1>4, SizeOfNone
<1>6. CASE prg' = [prg EXCEPT ![p] = w]
  BY <1>3, <1>6, PlaceKeepsRoomy
<1>7. CASE prg' = [prg EXCEPT ![p] = h]
  BY <1>5, <1>7, PlaceKeepsRoomy
<1>8. CASE prg' = [prg EXCEPT ![p] = Nothing]
  BY <1>8, NothingShape, PlaceKeepsRoomy
<1>9. CASE prg' = [prg EXCEPT ![p] = r]
  BY <1>3, <1>4, <1>9, PlaceKeepsRoomy
<1> QED BY <1>2, <1>6, <1>7, <1>8, <1>9

(* What leaves the frames as they are, or drops them.                      *)
LEMMA SameKeepsRoomy ==
  ASSUME LInv, Roomy,
         \A q \in Prgs : prg'[q].owner # None =>
           prg[q].owner # None /\ prg'[q].frames \in {prg[q].frames, << >>}
  PROVE  Roomy'
<1> SUFFICES ASSUME NEW q \in Prgs PROVE Used(q)' <= MaxMemory
  BY DEF Roomy
<1>3. (\A r \in Prgs : Used(r) = IF prg[r].owner # None THEN Size(prg[r].frames) ELSE 0)'
  BY UsedIs, PTL
<1>4. prg[q].owner # None => Size(prg[q].frames) <= MaxMemory
  BY UsedShape DEF Roomy, Is
<1> QED BY <1>3, <1>4, SizeOfNone

(* k more entries in the last frame, where k fit.                          *)
LEMMA SetTopKeepsRoomy ==
  ASSUME IInv, LInv, Roomy, NEW p \in Prgs, Running(p), NEW e \in Frame, NEW k \in Int,
         Len(e.sec) <= Len(TopFrame(p).sec) + k, Used(p) + k <= MaxMemory,
         prg' = SetTop(p, e)
  PROVE  Roomy'
<1> DEFINE P == prg[p]
           F == P.frames
           n == Len(F)
           s == [F EXCEPT ![n] = e]
           Q == [P EXCEPT !.frames = s]
<1>1. P \in Program /\ F # << >> /\ TopFrame(p) \in Frame
  BY RunningTop, TopShape
<1>2. F \in Seq(Frame) /\ n \in Nat /\ DOMAIN F = 1..n /\ n \in 1..n /\ P.owner # None
  BY <1>1, ProgramEdits, LenProperties, FrontShape
<1>3. prg' = [prg EXCEPT ![p] = Q]
  BY DEF SetTop
<1>4. s \in Seq(Frame) /\ Len(s) = n /\ s[n] = e /\ \A i \in 1..(n - 1) : s[i] = F[i]
  <2>1. F \in [1..n -> Frame]
    BY <1>2, ElementOfSeq
  <2> HIDE DEF F, n
  <2>2. s \in [1..n -> Frame] /\ s[n] = e /\ \A i \in 1..(n - 1) : s[i] = F[i]
    BY <1>2, <2>1
  <2> HIDE DEF s
  <2>3. s \in Seq(Frame) /\ Len(s) = n
    BY <1>2, <2>2
  <2> QED BY <2>2, <2>3
<1>5. Q.frames = s
  BY <1>1 DEF Program
<1>6. \A i \in 1..(n - 1) : Len(F[i].sec) \in Nat
  <2> SUFFICES ASSUME NEW i \in 1..(n - 1) PROVE Len(F[i].sec) \in Nat
    OBVIOUS
  <2>1. F[i] \in Frame
    BY <1>2, ElementOfSeq
  <2>2. F[i].sec \in Seq(Secure)
    BY <2>1 DEF Frame
  <2> QED BY <2>2, LenProperties
<1>7. Size(s) \in Nat /\ Size(F) \in Nat /\ Size(s) <= Size(F) + Len(e.sec) - Len(F[n].sec)
  <2> HIDE DEF s, F
  <2>1. \A i \in 1..(Len(s) - 1) : Len(s[i].sec) <= Len(F[i].sec)
    BY <1>4, <1>6
  <2>2. Len(s) = Len(F) /\ Len(s) # 0
    BY <1>2, <1>4
  <2> HIDE DEF n
  <2>3. Size(s) <= Size(F) + Len(s[Len(s)].sec) - Len(F[Len(s)].sec)
    BY <1>2, <1>4, <2>1, <2>2, SizeProperties
  <2>4. Size(s) \in Nat /\ Size(F) \in Nat
    BY <1>2, <1>4, SizeProperties
  <2> QED BY <1>4, <2>3, <2>4
<1>8. Used(p) = Size(F)
  BY <1>2, UsedShape DEF Is
<1>9. Len(e.sec) \in Nat /\ Len(F[n].sec) \in Nat /\ Len(e.sec) <= Len(F[n].sec) + k
  <2>1. F[n] = TopFrame(p)
    BY DEF TopFrame, Last
  <2>2. e.sec \in Seq(Secure) /\ TopFrame(p).sec \in Seq(Secure)
    BY <1>1 DEF Frame
  <2> QED BY <2>1, <2>2, LenProperties
<1>10. Size(s) <= MaxMemory
  <2> DEFINE a == Size(s)
             b == Size(F)
             c == Len(e.sec)
             d == Len(F[n].sec)
  <2>1. /\ a \in Nat /\ b \in Nat /\ c \in Nat /\ d \in Nat /\ MaxMemory \in Nat
        /\ a <= b + c - d /\ c <= d + k /\ b + k <= MaxMemory
    BY <1>7, <1>8, <1>9, DilAssumption
  <2> HIDE DEF a, b, c, d
  <2>2. a <= MaxMemory
    BY <2>1
  <2> QED BY <2>2 DEF a
<1> HIDE DEF Q, s, F, n
<1> QED BY <1>3, <1>5, <1>10, PlaceKeepsRoomy

LEMMA FitsLeaves ==
  ASSUME LInv, NEW n \in Int, Fits(n)
  PROVE  \A p \in Prgs : Used(p) + n <= MaxMemory
BY UsedShape, FitsProperties

(* The instructions ask for what they add.                                 *)
LEMMA InstructionsKeepRoomy ==
  ASSUME IInv, LInv, Roomy, NEW p \in Prgs,
         \/ Foreach(p) \/ ForeachNext(p) \/ Call(p) \/ Return(p)
         \/ \E u \in Units : Assign(p, u) \/ SecureUnit(p, u) \/ Unsecure(p, u)
  PROVE  Roomy'
<1> DEFINE f == TopFrame(p)
<1>1. /\ UNCHANGED <<life, loc, stack, inside, slack>> /\ Running(p)
  BY DEF Foreach, ForeachNext, Call, Return, Assign, SecureUnit, Unsecure, Instruction
<1>2. /\ prg[p] \in Program /\ prg[p].frames # << >> /\ f \in Frame
      /\ prg[p].owner \in Units /\ Is(p)
  BY <1>1, RunningTop, TopShape, ProgramEdits DEF Is
<1> HIDE DEF f
<1>3. /\ f.var \in Units \cup {None} /\ f.sec \in Seq(Secure) /\ f = [var |-> f.var, sec |-> f.sec]
      /\ f.sec \in PartsOf(f.sec) /\ Len(f.sec) \in Nat
  BY <1>2, PartsShrink, LenProperties DEF Frame
<1>4. Used(p) \in Nat /\ Used(p) <= MaxMemory /\ MaxMemory \in Nat /\ Used(p) = Size(prg[p].frames)
  BY <1>2, UsedShape, DilAssumption DEF Roomy
<1>5. ASSUME NEW v \in Units \cup {None}, NEW s \in Seq(Secure), NEW k \in Int,
             Len(s) <= Len(f.sec) + k, Used(p) + k <= MaxMemory,
             prg' = SetTop(p, [var |-> v, sec |-> s])
      PROVE  Roomy'
  <2> DEFINE e == [var |-> v, sec |-> s]
  <2>1. e \in Frame /\ e.sec = s
    BY DEF Frame
  <2>2. prg' = SetTop(p, e) /\ Len(e.sec) <= Len(TopFrame(p).sec) + k
    BY <1>5, <2>1 DEF f
  <2> HIDE DEF e
  <2> QED BY <1>1, <1>5, <2>1, <2>2, SetTopKeepsRoomy
<1>6. ASSUME NEW v \in Units \cup {None}, NEW s \in PartsOf(f.sec),
             prg' = SetTop(p, [var |-> v, sec |-> s])
      PROVE  Roomy'
  <2>1. s \in Seq(Secure) /\ Len(s) <= Len(f.sec)
    BY DEF PartsOf
  <2>2. Len(s) \in Nat
    BY <2>1, LenProperties
  <2>3. 0 \in Int /\ Len(s) <= Len(f.sec) + 0 /\ Used(p) + 0 <= MaxMemory
    BY <1>3, <1>4, <2>1, <2>2
  <2> QED BY <1>5, <1>6, <2>1, <2>3
<1>7. ASSUME NEW u \in Units, Assign(p, u) PROVE Roomy'
  <2>1. prg' = SetTop(p, [f EXCEPT !.var = u])
    BY <1>7 DEF Assign, Instruction, f
  <2>2. [f EXCEPT !.var = u] = [var |-> u, sec |-> f.sec]
    BY <1>3
  <2> QED BY <1>3, <1>6, <2>1, <2>2
<1>8. ASSUME NEW u \in Units, Unsecure(p, u) PROVE Roomy'
  <2> DEFINE s == Sub(f.sec, u, FALSE)
  <2>1. prg' = SetTop(p, [f EXCEPT !.sec = s]) /\ s \in PartsOf(f.sec)
    BY <1>3, <1>8, SubShape DEF Unsecure, Instruction, f
  <2> HIDE DEF s
  <2>2. [f EXCEPT !.sec = s] = [var |-> f.var, sec |-> s]
    BY <1>3
  <2> QED BY <1>3, <1>6, <2>1, <2>2
<1>9. ASSUME NEW u \in Units, SecureUnit(p, u) PROVE Roomy'
  <2> DEFINE q == Sub(f.sec, u, FALSE)
             e == [unit |-> u, lab |-> TRUE]
             s == Append(q, e)
  <2>1. prg' = SetTop(p, [f EXCEPT !.sec = s]) /\ Fits(1)
    BY <1>9 DEF SecureUnit, Instruction, f
  <2>2. q \in PartsOf(f.sec) /\ e \in Secure
    BY <1>3, SubShape, NewEntry
  <2> HIDE DEF q, e
  <2>3. s \in Seq(Secure) /\ Len(s) = Len(q) + 1 /\ Len(q) \in Nat /\ Len(q) <= Len(f.sec)
    <3>1. q \in Seq(Secure) /\ Len(q) <= Len(f.sec)
      BY <2>2 DEF PartsOf
    <3> QED BY <2>2, <3>1, AppendProperties, LenProperties
  <2> HIDE DEF s
  <2>4. [f EXCEPT !.sec = s] = [var |-> f.var, sec |-> s]
    BY <1>3
  <2>5. 1 \in Int /\ Len(s) <= Len(f.sec) + 1
    BY <1>3, <2>3
  <2>6. Used(p) + 1 <= MaxMemory
    BY <2>1, <2>5, FitsLeaves
  <2> QED BY <1>3, <1>5, <2>1, <2>3, <2>4, <2>5, <2>6
<1>10. CASE ForeachNext(p)
  <2> DEFINE J == {j \in DOMAIN f.sec : ~f.sec[j].lab}
             m == Min(J)
  <2>1. /\ J # {}
        /\ prg' = SetTop(p, [var |-> f.sec[m].unit, sec |-> Sub(f.sec, f.sec[m].unit, TRUE)])
    BY <1>10 DEF ForeachNext, Instruction, f
  <2>2. m \in DOMAIN f.sec
    <3>1. J \in SUBSET Nat /\ J \subseteq DOMAIN f.sec
      BY <1>3, LenProperties
    <3>2. m \in J
      <4> HIDE DEF J
      <4> QED BY <2>1, <3>1, MinThere
    <3> QED BY <3>2
  <2> HIDE DEF J, m
  <2> DEFINE u == f.sec[m].unit
             s == Sub(f.sec, u, TRUE)
  <2>3. u \in Units /\ s \in PartsOf(f.sec) /\ prg' = SetTop(p, [var |-> u, sec |-> s])
    BY <1>2, <1>3, <2>1, <2>2, PartLost, SubShape
  <2> HIDE DEF u, s
  <2> QED BY <1>6, <2>3
<1>11. CASE Foreach(p)
  <2> DEFINE o == prg[p].owner
             Kinds == {u \in Units : u # o /\ Visible(o, u)}
  <2>1. PICK S \in SUBSET Kinds : \E l \in SetToSeqs(S) :
          /\ Fits(Len(Labelled(f.sec)) + Len(Append(l, o)) - Len(f.sec))
          /\ prg' = SetTop(p, [f EXCEPT !.sec = Labelled(f.sec) \o
               [i \in DOMAIN Append(l, o) |-> [unit |-> Append(l, o)[i], lab |-> FALSE]]])
    BY <1>11 DEF Foreach, Instruction, f
  <2>2. PICK l \in SetToSeqs(S) :
          /\ Fits(Len(Labelled(f.sec)) + Len(Append(l, o)) - Len(f.sec))
          /\ prg' = SetTop(p, [f EXCEPT !.sec = Labelled(f.sec) \o
               [i \in DOMAIN Append(l, o) |-> [unit |-> Append(l, o)[i], lab |-> FALSE]]])
    BY <2>1
  <2>3. l \in Seq(Units)
    <3>1. IsFiniteSet(S) /\ S \subseteq Units
      BY DilAssumption, FS_Subset
    <3>2. Cardinality(S) \in Nat
      BY <3>1, FS_CardinalityType
    <3> DEFINE c == Cardinality(S)
    <3>3. l \in [1..c -> Units] /\ c \in Nat
      BY <3>1, <3>2 DEF SetToSeqs
    <3> HIDE DEF c
    <3> QED BY <3>3
  <2> DEFINE a == Append(l, o)
  <2>4. a \in Seq(Units) /\ DOMAIN a = 1..Len(a) /\ Len(a) \in Nat /\ \A i \in 1..Len(a) : a[i] \in Units
    <3>1. a \in Seq(Units)
      BY <1>2, <2>3, AppendProperties
    <3> HIDE DEF a
    <3> QED BY <3>1, LenProperties, ElementOfSeq
  <2> DEFINE r == [i \in DOMAIN a |-> [unit |-> a[i], lab |-> FALSE]]
             k == Labelled(f.sec)
             s == k \o r
  <2>5. prg' = SetTop(p, [f EXCEPT !.sec = s]) /\ Fits(Len(k) + Len(a) - Len(f.sec))
    BY <2>2
  <2> HIDE DEF a
  <2>6. r \in Seq(Secure) /\ Len(r) = Len(a)
    <3> DEFINE n == Len(a)
    <3>1. \A i \in 1..n : [unit |-> a[i], lab |-> FALSE] \in Secure
      BY <2>4, NewEntry
    <3>2. r \in [1..n -> Secure] /\ n \in Nat
      BY <2>4, <3>1
    <3> HIDE DEF r, n
    <3>3. r \in Seq(Secure) /\ Len(r) = n
      BY <3>2
    <3> QED BY <3>3 DEF n
  <2>7. k \in Seq(Secure) /\ Len(k) \in Nat
    <3>1. k \in Seq(Secure)
      BY <1>3, LabelledShape DEF PartsOf
    <3> HIDE DEF k
    <3> QED BY <3>1, LenProperties
  <2> HIDE DEF r, k
  <2>8. s \in Seq(Secure) /\ Len(s) = Len(k) + Len(a)
    BY <2>6, <2>7, ConcatProperties
  <2> HIDE DEF s
  <2>9. [f EXCEPT !.sec = s] = [var |-> f.var, sec |-> s]
    BY <1>3
  <2> DEFINE d == Len(k) + Len(a) - Len(f.sec)
  <2>10. d \in Int /\ Len(s) <= Len(f.sec) + d
    BY <1>3, <2>4, <2>7, <2>8
  <2>11. Fits(d)
    BY <2>5
  <2> HIDE DEF d
  <2>12. Used(p) + d <= MaxMemory
    BY <2>10, <2>11, FitsLeaves
  <2> QED BY <1>3, <1>5, <2>5, <2>8, <2>9, <2>10, <2>12
<1> DEFINE F == prg[p].frames
<1>12. /\ F \in Seq(Frame) /\ Len(F) \in Nat /\ DOMAIN F = 1..Len(F)
       /\ f = F[Len(F)] /\ Len(F) \in 1..Len(F)
       /\ \A i \in 1..Len(F) : F[i] \in Frame /\ Len(F[i].sec) \in Nat
  <2>1. F \in Seq(Frame)
    BY <1>2, ProgramEdits
  <2>2. Len(F) \in Nat /\ DOMAIN F = 1..Len(F) /\ Len(F) \in DOMAIN F
    BY <1>2, <2>1, LenProperties, FrontShape
  <2>3. ASSUME NEW i \in 1..Len(F) PROVE F[i] \in Frame /\ Len(F[i].sec) \in Nat
    <3>1. F[i] \in Frame
      BY <2>1, <2>3, ElementOfSeq
    <3>2. F[i].sec \in Seq(Secure)
      BY <3>1 DEF Frame
    <3> QED BY <3>1, <3>2, LenProperties
  <2> QED BY <2>1, <2>2, <2>3 DEF f, TopFrame, Last
<1>13. ASSUME NEW s \in Seq(Frame), prg' = [prg EXCEPT ![p].frames = s], Size(s) <= MaxMemory
       PROVE  Roomy'
  <2> DEFINE Q == [prg[p] EXCEPT !.frames = s]
  <2>1. prg' = [prg EXCEPT ![p] = Q] /\ Q.frames = s
    BY <1>2, <1>13 DEF Program
  <2> HIDE DEF Q
  <2> QED BY <1>13, <2>1, PlaceKeepsRoomy
<1>14. CASE Call(p)
  <2>1. PICK u \in {f.var, None} :
          prg' = [prg EXCEPT ![p].frames = Append(@, [var |-> u, sec |-> <<>>])]
    BY <1>14 DEF Call, Instruction, f
  <2> DEFINE e == [var |-> u, sec |-> <<>>]
             s == Append(F, e)
  <2>2. e \in Frame /\ Len(e.sec) = 0
    <3>1. <<>> \in Seq(Secure)
      OBVIOUS
    <3> QED BY <1>3, <2>1, <3>1 DEF Frame
  <2>3. prg' = [prg EXCEPT ![p].frames = s]
    BY <2>1
  <2> HIDE DEF e
  <2>4. /\ s \in Seq(Frame) /\ Len(s) = Len(F) + 1
        /\ \A i \in 1..Len(F) : s[i] = F[i]
        /\ s[Len(s)] = e
    BY <1>12, <2>2, AppendProperties
  <2> HIDE DEF s
  <2>5. Size(s) <= Size(F) + 1 + Len(s[Len(s)].sec)
    <3>1. \A i \in 1..Len(F) : Len(s[i].sec) <= Len(F[i].sec)
      BY <1>12, <2>4
    <3> QED BY <1>12, <2>4, <3>1, SizeProperties
  <2>6. Size(s) \in Nat /\ Size(F) \in Nat
    BY <1>12, <2>4, SizeProperties
  <2>7. Used(p) + 1 <= MaxMemory
    <3>1. 1 \in Int /\ Fits(1)
      BY <1>14 DEF Call
    <3> QED BY <3>1, FitsLeaves
  <2> HIDE DEF F
  <2>8. Size(s) <= MaxMemory
    BY <1>4, <2>2, <2>4, <2>5, <2>6, <2>7 DEF F
  <2> QED BY <1>13, <2>3, <2>4, <2>8 DEF F
<1>15. CASE Return(p)
  <2> DEFINE n == Len(F) - 1
  <2>1. PICK u \in {f.var, F[n].var} :
          prg' = [prg EXCEPT ![p].frames = [Front(@) EXCEPT ![n].var = u]]
    BY <1>15 DEF Return, Instruction, f
  <2>2. n \in Nat /\ n \in 1..Len(F) /\ n \in 1..n /\ \A i \in 1..n : i \in 1..Len(F)
    <3>1. Len(F) > 1
      BY <1>15 DEF Return
    <3> QED BY <1>12, <3>1
  <2> DEFINE H == Front(F)
             e == [F[n] EXCEPT !.var = u]
             s == [H EXCEPT ![n] = e]
  <2>3. /\ H \in Seq(Frame) /\ Len(H) = n /\ DOMAIN H = 1..n
        /\ \A i \in 1..n : H[i] = F[i]
    <3>1. F \in Seq(Frame) /\ F # << >>
      BY <1>2, <1>12
    <3> HIDE DEF F
    <3>2. H \in Seq(Frame) /\ Len(H) = n /\ \A i \in DOMAIN H : H[i] = F[i]
      BY <3>1, FrontShape
    <3> HIDE DEF H
    <3> QED BY <3>2, LenProperties
  <2>4. prg' = [prg EXCEPT ![p].frames = s]
    <3>1. prg' = [prg EXCEPT ![p].frames = [H EXCEPT ![n].var = u]]
      BY <2>1
    <3>2. [H EXCEPT ![n].var = u] = [H EXCEPT ![n] = [H[n] EXCEPT !.var = u]]
      OBVIOUS
    <3>3. H[n] = F[n]
      BY <2>2, <2>3
    <3> HIDE DEF H, F, n
    <3> QED BY <3>1, <3>2, <3>3
  <2> HIDE DEF H
  <2>5. e \in Frame /\ e.sec = F[n].sec
    <3> DEFINE g == F[n]
    <3>1. g \in Frame /\ u \in Units \cup {None}
      BY <1>3, <1>12, <2>1, <2>2 DEF Frame
    <3> HIDE DEF g
    <3>2. [g EXCEPT !.var = u] \in Frame /\ [g EXCEPT !.var = u].sec = g.sec
      BY <3>1 DEF Frame
    <3> QED BY <3>2 DEF g
  <2> HIDE DEF e
  <2>6. s \in Seq(Frame) /\ Len(s) = n /\ \A i \in 1..n : s[i] = IF i = n THEN e ELSE H[i]
    <3> HIDE DEF n, F
    <3>1. \A i \in 1..n : H[i] \in Frame
      BY <2>3, ElementOfSeq
    <3>2. H \in [1..n -> Frame]
      BY <2>2, <2>3, <3>1
    <3>3. s \in [1..n -> Frame] /\ n \in Nat
      BY <2>2, <2>5, <3>2
    <3>4. \A i \in 1..n : s[i] = IF i = n THEN e ELSE H[i]
      BY <3>2
    <3> HIDE DEF s
    <3> QED BY <3>3, <3>4
  <2> HIDE DEF s
  <2>7. Size(s) <= Size(F) /\ Size(F) \in Nat /\ Size(s) \in Nat
    <3>1. \A i \in 1..Len(s) : Len(s[i].sec) <= Len(F[i].sec)
      <4> SUFFICES ASSUME NEW i \in 1..n PROVE Len(s[i].sec) <= Len(F[i].sec)
        BY <2>6
      <4>1. s[i].sec = F[i].sec
        BY <2>3, <2>5, <2>6
      <4>2. Len(F[i].sec) \in Nat
        BY <1>12, <2>2
      <4> QED BY <4>1, <4>2
    <3>2. Len(F) = Len(s) + 1
      BY <1>12, <2>6
    <3> HIDE DEF F
    <3> QED BY <1>12, <2>6, <3>1, <3>2, SizeProperties
  <2> HIDE DEF F
  <2>8. Size(s) <= MaxMemory
    BY <1>4, <2>7 DEF F
  <2> QED BY <1>13, <2>4, <2>6, <2>8 DEF F
<1> QED BY <1>7, <1>8, <1>9, <1>10, <1>11, <1>14, <1>15

LEMMA StepKeepsRoomy == IInv /\ LInv /\ Roomy /\ [Next]_vars => Roomy'
<1> SUFFICES ASSUME IInv, LInv, Roomy, [Next]_vars PROVE Roomy'
  OBVIOUS
<1>1. ASSUME UNCHANGED prg PROVE Roomy'
  BY <1>1, SameKeepsRoomy
<1>2. CASE UNCHANGED vars \/ \E u \in Units : Move(u)
  BY <1>1, <1>2 DEF vars, Move
<1>3. CASE \E p \in Prgs : \/ Foreach(p) \/ ForeachNext(p) \/ Call(p) \/ Return(p)
                           \/ \E u \in Units : Assign(p, u) \/ SecureUnit(p, u) \/ Unsecure(p, u)
  BY <1>3, InstructionsKeepRoomy
<1>4. \A q \in Prgs : Is(q) => prg[q] \in Program /\ Size(prg[q].frames) <= MaxMemory
  BY UsedShape DEF LInv, Framed, Roomy
<1>5. ASSUME NEW p \in Prgs, NEW Q, prg' = [prg EXCEPT ![p] = Q], Q.owner # None => Is(p),
             Is(p) => Q.frames \in {prg[p].frames, << >>}
      PROVE  Roomy'
  <2>1. Is(p) => Size(Q.frames) <= MaxMemory
    BY <1>4, <1>5, SizeOfNone
  <2> QED BY <1>5, <2>1, PlaceKeepsRoomy
<1>6. ASSUME NEW p \in Prgs, Activate(p) PROVE Roomy'
  <2>1. Is(p) /\ Begin(p, prg[p])
    BY <1>6 DEF Activate
  <2> QED BY <1>4, <2>1, BeginKeepsRoomy
<1>7. ASSUME NEW p \in Prgs, Wait(p) \/ Stop(p) \/ EndlessLoop(p) PROVE Roomy'
  <2>1. stack # << >> /\ p = Top
    BY <1>7, RunningTop DEF Wait, Stop, EndlessLoop
  <2>2. prg[p] \in Program /\ Is(p)
    BY <2>1, TopShape, ProgramEdits DEF Is
  <2> DEFINE P == prg[p]
             A == [P EXCEPT !.wait = "idle", !.exec = FALSE]
             B == Husk([P EXCEPT !.wait = "stop"])
             C == Husk([P EXCEPT !.wait = "destroyed", !.hooked = FALSE])
  <2>3. A.frames = P.frames /\ B.frames = << >> /\ C.frames = << >>
    BY <2>2 DEF Program, Husk
  <2>4. \/ prg' = [prg EXCEPT ![p] = A]
        \/ prg' = [prg EXCEPT ![p] = B]
        \/ prg' = [prg EXCEPT ![p] = C]
    BY <1>7 DEF Wait, Stop, EndlessLoop, IInv, Shape
  <2> HIDE DEF A, B, C
  <2> QED BY <1>5, <2>2, <2>3, <2>4
<1>8. ASSUME NEW p \in Prgs, prg' = [prg EXCEPT ![p] = Nothing] PROVE Roomy'
  BY <1>8, NothingShape, PlaceKeepsRoomy
<1>9. ASSUME NEW p \in Prgs, Quit(p) PROVE Roomy'
  BY <1>8, <1>9 DEF Quit, Free
<1>10. ASSUME NEW p \in Prgs, CallOut(p) PROVE Roomy'
  BY <1>1, <1>10 DEF CallOut
<1>11. ASSUME NEW p \in Prgs, CallDone(p) PROVE Roomy'
  <2>1. CASE prg[p].wait = "quit"
    BY <1>8, <1>11, <2>1 DEF CallDone, Free
  <2>2. CASE prg[p].wait # "quit"
    <3> DEFINE Q == AfterTest(prg[p])
    <3>1. prg' = [prg EXCEPT ![p] = Q] /\ stack # << >> /\ p = Top
      BY <1>11, <2>2 DEF CallDone
    <3>2. prg[p] \in Program /\ Is(p)
      BY <3>1, TopShape, ProgramEdits DEF Is
    <3>3. Thinner(Q, prg[p])
      BY <3>2, AfterTestThins
    <3> HIDE DEF Q
    <3>4. Size(Q.frames) <= MaxMemory
      <4> DEFINE a == Size(Q.frames)
                 b == Size(prg[p].frames)
      <4>1. a \in Nat /\ b \in Nat /\ a <= b /\ b <= MaxMemory /\ MaxMemory \in Nat
        BY <1>4, <3>2, <3>3, ThinnerSize, DilAssumption
      <4> HIDE DEF a, b
      <4>2. a <= MaxMemory
        BY <4>1
      <4> QED BY <4>2 DEF a
    <3> QED BY <3>1, <3>4, PlaceKeepsRoomy
  <2> QED BY <2>1, <2>2
<1>12. ASSUME NEW u \in Units, Extract(u) PROVE Roomy'
  BY <1>12, AsleepShape, SameKeepsRoomy DEF Extract
<1>13. ASSUME NEW p \in Prgs, DestroySelf(p) PROVE Roomy'
  <2> DEFINE u == prg[p].owner
             F == Asleep(u)
  <2>1. prg' = [F EXCEPT ![p] = Nothing]
    BY <1>13 DEF DestroySelf
  <2>2. F = [q \in Prgs |-> F[q]]
    BY DEF Asleep
  <2>3. \A q \in Prgs : F[q].owner = prg[q].owner /\ (prg[q].owner # None => F[q].frames = prg[q].frames)
    BY AsleepShape
  <2> HIDE DEF F, u
  <2>4. prg'[p] = Nothing /\ \A q \in Prgs : q # p => prg'[q] = F[q]
    BY <2>1, <2>2
  <2> QED BY <2>3, <2>4, NothingShape, SameKeepsRoomy
<1>14. CASE Clear
  <2>1. ASSUME NEW q \in Prgs, prg'[q].owner # None
        PROVE  prg[q].owner # None /\ prg'[q].frames = prg[q].frames
    <3>1. \/ prg'[q] = prg[q]
          \/ Is(q) /\ prg'[q] = [prg[q] EXCEPT !.wait = "destroyed", !.hooked = FALSE]
          \/ prg'[q] = Nothing
      BY <1>14 DEF Clear
    <3>2. Is(q) => [prg[q] EXCEPT !.wait = "destroyed", !.hooked = FALSE].frames = prg[q].frames
      BY <1>4 DEF Program
    <3> QED BY <2>1, <3>1, <3>2, NothingShape DEF Is
  <2> QED BY <2>1, SameKeepsRoomy
<1>15. ASSUME NEW p \in Prgs, NEW u \in Units, Copy(p, u) PROVE Roomy'
  <2> DEFINE f == [var |-> None, sec |-> <<>>]
             Q == New(u, f)
  <2>1. ~Is(p) /\ Fits(1) /\ 1 \in Int /\ prg' = [prg EXCEPT ![p] = Q]
    BY <1>15 DEF Copy
  <2>2. f \in Frame /\ Len(f.sec) = 0
    <3>1. << >> \in Seq(Secure)
      OBVIOUS
    <3> QED BY <3>1 DEF Frame
  <2>3. Q.frames = <<f>>
    BY <2>2, NewProgram
  <2> HIDE DEF Q, f
  <2>5. Size(Q.frames) = 1
    BY <2>2, <2>3, SizeOfOne
  <2>6. 1 <= MaxMemory
    BY DilAssumption
  <2> QED BY <2>1, <2>5, <2>6, PlaceKeepsRoomy
<1>16. ASSUME NEW p \in Prgs, NEW u \in Units, NEW x \in Units, Cast(p, u, x) PROVE Roomy'
  <2> DEFINE e == [unit |-> x, lab |-> TRUE]
             f == [var |-> x, sec |-> <<e>>]
             P == New(u, f)
  <2>1. ~Is(p) /\ Begin(p, P) /\ Fits(2) /\ 2 \in Int
    BY <1>16 DEF Cast
  <2>2. f \in Frame /\ Len(f.sec) = 1
    <3>1. e \in Secure
      BY NewEntry
    <3> HIDE DEF e
    <3>2. <<e>> \in Seq(Secure) /\ Len(<<e>>) = 1
      BY <3>1
    <3> QED BY <3>2 DEF Frame
  <2> HIDE DEF f
  <2>3. P \in Program /\ P.frames = <<f>>
    BY <2>2, NewProgram
  <2> HIDE DEF P
  <2>5. Size(P.frames) = 2
    <3>1. Size(<<f>>) = 1 + Len(f.sec)
      BY <2>2, SizeOfOne
    <3>2. Size(<<f>>) = 1 + 1
      BY <2>2, <3>1
    <3> QED BY <2>3, <3>2
  <2>6. Used(p) + 2 <= MaxMemory /\ Used(p) = 0
    BY <2>1, FitsLeaves, UsedShape
  <2>7. Size(P.frames) <= MaxMemory
    BY <2>5, <2>6, DilAssumption
  <2> QED BY <2>1, <2>3, <2>7, BeginKeepsRoomy
<1>17. ASSUME NEW p \in Prgs, NEW q \in Prgs, DilDestroy(p, q) PROVE Roomy'
  <2> DEFINE Q == [prg[q] EXCEPT !.wait = "quit"]
  <2>1. Is(q) /\ prg[q] \in Program
    BY <1>4, <1>17 DEF DilDestroy
  <2>2. Q \in Program /\ Q.frames = prg[q].frames
    <3>1. Q \in Program
      BY <2>1, ProgramEdits
    <3> QED BY <2>1, <3>1 DEF Program
  <2>3. prg' = [prg EXCEPT ![q] = Q] \/ Begin(q, Q)
    BY <1>17 DEF DilDestroy
  <2> HIDE DEF Q
  <2>4. Size(Q.frames) <= MaxMemory
    BY <1>4, <2>1, <2>2
  <2> QED BY <2>1, <2>2, <2>3, <2>4, PlaceKeepsRoomy, BeginKeepsRoomy
<1> QED BY <1>2, <1>3, <1>6, <1>7, <1>9, <1>10, <1>11, <1>12, <1>13, <1>14, <1>15, <1>16, <1>17 DEF Next

-----------------------------------------------------------------------------
Placed == loc \in [Units -> {"here", "away", "void"}] /\ slack \subseteq Prgs

LEMMA StepKeepsPlaced == IInv /\ Placed /\ [Next]_vars => Placed'
<1> SUFFICES ASSUME IInv, Placed, [Next]_vars PROVE Placed'
  OBVIOUS
<1>1. loc \in [Units -> {"here", "away", "void"}] /\ slack \subseteq Prgs
  BY DEF Placed
<1>2. CASE UNCHANGED vars
  BY <1>1, <1>2 DEF vars, Placed
<1>3. ASSUME NEW p \in Prgs, NEW P, Begin(p, P) PROVE slack' \subseteq Prgs
  BY <1>1, <1>3 DEF Begin, Noted
<1>4. CASE Clear
  BY <1>1, <1>4 DEF Clear, Placed
<1>5. ASSUME NEW u \in Units, Extract(u) PROVE Placed'
  BY <1>1, <1>5 DEF Extract, Gone, Placed
<1>6. ASSUME NEW u \in Units, Move(u) PROVE Placed'
  BY <1>1, <1>6 DEF Move, Placed
<1>7. ASSUME NEW p \in Prgs, Activate(p) \/ (\E u, x \in Units : Cast(p, u, x)) PROVE Placed'
  BY <1>1, <1>3, <1>7 DEF Activate, Cast, Placed
<1>8. ASSUME NEW p \in Prgs, Wait(p) \/ Stop(p) \/ EndlessLoop(p) \/ Quit(p) \/ DestroySelf(p) PROVE Placed'
  BY <1>1, <1>8 DEF Wait, Stop, EndlessLoop, Quit, Free, DestroySelf, Gone, Placed
<1>9. ASSUME NEW p \in Prgs,
             \/ Foreach(p) \/ ForeachNext(p) \/ Call(p) \/ Return(p) \/ CallOut(p)
             \/ \E u \in Units : Copy(p, u) \/ Assign(p, u) \/ SecureUnit(p, u) \/ Unsecure(p, u)
      PROVE  Placed'
  <2>1. UNCHANGED <<loc, slack>>
    BY <1>9 DEF Foreach, ForeachNext, Call, Return, CallOut, Copy, Assign, SecureUnit, Unsecure,
                Instruction
  <2> QED BY <1>1, <2>1 DEF Placed
<1>10. ASSUME NEW p \in Prgs, CallDone(p) PROVE Placed'
  BY <1>1, <1>10 DEF CallDone, Free, Noted, Placed
<1>11. ASSUME NEW p \in Prgs, NEW q \in Prgs, DilDestroy(p, q) PROVE Placed'
  BY <1>1, <1>3, <1>11 DEF DilDestroy, Placed
<1> QED BY <1>2, <1>4, <1>5, <1>6, <1>7, <1>8, <1>9, <1>10, <1>11 DEF Next

(* Each variable has its type; the programs stay in their memory, and one  *)
(* without frames is marked as executing and is in no activation.          *)
THEOREM TypeCorrect == Spec => []TypeOK
<1>1. Init => Roomy /\ Placed
  <2> SUFFICES ASSUME Init PROVE Roomy /\ Placed
    OBVIOUS
  <2>1. \A p \in Prgs : Used(p) = 0
    BY NothingShape DEF Init, Used, Is
  <2>2. Roomy
    BY <2>1, SizeOfNone DEF Roomy
  <2> QED BY <2>2 DEF Init, Placed
<1>2. IInv /\ LInv /\ Roomy /\ Placed => TypeOK
  BY DEF IInv, Shape, LInv, Framed, Roomy, Placed, TypeOK
<1>3. Spec => [](IInv /\ LInv /\ Roomy /\ Placed)
  BY InitHolds, StepKeepsIInv, InitKnown, StepKeepsLInv, StepKeepsRoomy, StepKeepsPlaced, <1>1,
     PTL DEF Spec
<1> QED BY <1>2, <1>3, PTL
=============================================================================
