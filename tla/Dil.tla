-------------------------------- MODULE Dil --------------------------------
(***************************************************************************)
(* The DIL interpreter (dilrun.c, dilinst.c): programs on units, how they  *)
(* activate each other, call procedures, hold pointers to units and        *)
(* secure them, and how they end.                                          *)
(*                                                                         *)
(* An instruction that reaches outside (send, exec, cast, destroy ...)     *)
(* runs other handlers, which may move or extract units and activate or    *)
(* create programs, before it returns.  Units are freed between two        *)
(* events only, by clear_destructed.                                       *)
(*                                                                         *)
(* Abstracted: what a program computes, each of its instructions may be    *)
(* the next one; of the variables of a frame one unit pointer is kept.     *)
(***************************************************************************)
EXTENDS Naturals, SequencesExt

CONSTANTS
  Units,           \* units with programs
  Prgs,            \* bound: places for programs
  None,
  MaxMemory        \* bound: frames and secures, of all programs together

ASSUME DilAssumption ==
  /\ None \notin Units
  /\ IsFiniteSet(Units) /\ IsFiniteSet(Prgs)
  /\ MaxMemory \in Nat \ {0}

VARIABLES
  life,     \* of a unit: "live", "gone" (registered for destruction), "freed"
  loc,      \* "here" in a room, "away" in another, "void" in destroy_room
  prg,      \* the programs in dil_list; Nothing: memory that is free
  stack,    \* the activations of run_dil, the innermost last
  inside,   \* the innermost is in its loop, not in a call to the outside
  slack     \* history: programs that ran with a lost unit on a secure list

vars == <<life, loc, prg, stack, inside, slack>>

-----------------------------------------------------------------------------
(* lab: FALSE in the list of a foreach. *)
Secure == [unit : Units, lab : BOOLEAN]
Frame  == [var : Units \cup {None}, sec : Seq(Secure)]
(* wait: waitcmd.  "new" and "tested" are MAXINST - 1, "idle" is MAXINST.  *)
(* hooked: the function of the unit has it as its data.                    *)
Program ==
  [ owner : Units, exec : BOOLEAN, deact : BOOLEAN, hooked : BOOLEAN,
    wait : {"new", "idle", "tested", "run", "stop", "quit", "destroyed"},
    frames : Seq(Frame) ]

Nothing ==
  [ owner |-> None, exec |-> FALSE, deact |-> FALSE, hooked |-> FALSE,
    wait |-> "destroyed", frames |-> <<>> ]

Init ==
  /\ life = [u \in Units |-> "live"]
  /\ loc = [u \in Units |-> "here"]
  /\ prg = [p \in Prgs |-> Nothing]
  /\ stack = <<>>
  /\ inside = FALSE
  /\ slack = {}

Is(p)        == prg[p].owner # None
Top          == stack[Len(stack)]
Running(p)   == inside /\ p = Top /\ prg[p].wait = "run"
Outside      == ~inside
Alive(u)     == life[u] = "live"
Freed(u)     == life[u] = "freed"

(* scan4_ref *)
Visible(o, u) == ~Freed(u) /\ loc[o] = loc[u]

TopFrame(p)  == Last(prg[p].frames)
SetTop(p, f) == [prg EXCEPT ![p].frames[Len(prg[p].frames)] = f]
Used(p)      == IF Is(p) THEN FoldLeft(LAMBDA n, f : n + 1 + Len(f.sec), 0, prg[p].frames) ELSE 0
Fits(n)      == FoldSet(LAMBDA p, m : Used(p) + m, n, Prgs) <= MaxMemory

-----------------------------------------------------------------------------
(* Secures.                                                                *)

Upto(n)       == [i \in 1..n |-> i]
SwapOut(s, i) == [j \in 1..(Len(s) - 1) |-> IF j = i THEN Last(s) ELSE s[j]]

(* dil_sub_secure: the last entry comes to the place of the one that goes, *)
(* and is not looked at.                                                   *)
Sub(s, u, foreach) ==
  FoldLeft(LAMBDA t, i : IF i <= Len(t) /\ t[i].unit = u /\ t[i].lab # foreach
                           THEN SwapOut(t, i) ELSE t,
           s, Upto(Len(s)))

(* dil_test_secure of one frame: with an entry that is lost goes the       *)
(* pointer to its unit; of a foreach the entry itself stays.  hit: the     *)
(* program continues at a label.                                           *)
Tested(o, f) ==
  FoldLeft(LAMBDA t, i :
             IF i > Len(t.f.sec) \/ Visible(o, t.f.sec[i].unit) THEN t
             ELSE LET e == t.f.sec[i] IN
                  [ f |-> [ var |-> IF t.f.var = e.unit THEN None ELSE t.f.var,
                            sec |-> Sub(t.f.sec, e.unit, FALSE) ],
                    hit |-> t.hit \/ e.lab ],
           [f |-> f, hit |-> FALSE], Upto(Len(f.sec)))

AfterTest(P) == [P EXCEPT !.frames = [i \in DOMAIN @ |-> Tested(P.owner, @[i]).f]]
IsHit(P)     == \E i \in DOMAIN P.frames : Tested(P.owner, P.frames[i]).hit

(* dil_clear_non_secured *)
Kept(f) == \E j \in DOMAIN f.sec : f.sec[j].unit = f.var
ClearedTop(P) ==   \* mutant: only the innermost procedure is cleared
  [P EXCEPT !.frames[Len(P.frames)].var = IF Kept(Last(P.frames)) THEN @ ELSE None]
Cleared(P) ==
  [P EXCEPT !.frames = [i \in DOMAIN @ |-> IF Kept(@[i]) THEN @[i] ELSE [@[i] EXCEPT !.var = None]]]

(* A secure is lost and still on a list. *)
Slack(P) == \E i \in DOMAIN P.frames : \E j \in DOMAIN P.frames[i].sec :
              ~Visible(P.owner, P.frames[i].sec[j].unit)
Noted(p, P) == slack' = IF P.wait # "new" /\ Slack(P) THEN slack \cup {p} ELSE slack

-----------------------------------------------------------------------------
(* run_dil.                                                                *)

Woken(P) ==
  Cleared( IF P.wait # "idle" THEN P
           ELSE [AfterTest(P) EXCEPT !.wait = IF IsHit(P) THEN "tested" ELSE "idle"] )

(* A program that stays marked as executing never runs again: its frames   *)
(* are left out of the model.                                              *)
Husk(P) == [P EXCEPT !.frames = <<>>]

Pop == stack' = Front(stack) /\ inside' = FALSE

(* The program P in the place p is activated: an interrupt tells it to     *)
(* skip this activation, it is the 51st of them, it has been told to quit, *)
(* or it runs.  The programs that are not modelled count as well, so that  *)
(* any activation may be the 51st.                                         *)
Begin(p, P) ==
  LET w == Woken(P) IN
  \/ /\ P.wait # "new"
     /\ prg' = [prg EXCEPT ![p] = w]
     /\ Noted(p, w)
     /\ UNCHANGED <<stack, inside>>
  \/ /\ prg' = [prg EXCEPT ![p] = Husk([w EXCEPT !.exec = TRUE])]
     /\ slack' = slack \ {p}
     /\ UNCHANGED <<stack, inside>>
  \/ /\ P.wait = "quit"
     /\ prg' = [prg EXCEPT ![p] = Nothing]
     /\ slack' = slack \ {p}
     /\ UNCHANGED <<stack, inside>>
  \/ /\ P.wait # "quit"
     /\ prg' = [prg EXCEPT ![p] = [w EXCEPT !.exec = TRUE, !.wait = "run"]]
     /\ Noted(p, w)
     /\ stack' = Append(stack, p)
     /\ inside' = TRUE

BusyAsleep(P) == P.deact   \* mutant: without the test of DILFL_EXECUTING
Busy(P)       == P.exec \/ P.deact

Activate(p) ==
  /\ Outside /\ Is(p) /\ prg[p].hooked /\ ~Busy(prg[p])
  /\ Begin(p, prg[p])
  /\ UNCHANGED <<life, loc>>

(* The loop of p ends. *)
Wait(p) ==
  /\ Running(p)
  /\ prg' = [prg EXCEPT ![p].wait = "idle", ![p].exec = FALSE]
  /\ Pop
  /\ UNCHANGED <<life, loc, slack>>

(* WAITCMD_STOP: an external procedure does not exist. *)
Stop(p) ==
  /\ Running(p)
  /\ prg' = [prg EXCEPT ![p] = Husk([@ EXCEPT !.wait = "stop"])]
  /\ slack' = slack \ {p}
  /\ Pop
  /\ UNCHANGED <<life, loc>>

(* 2000 instructions: the function is destroyed, the program is not freed. *)
EndlessLoopAwake(p) ==   \* mutant: DILFL_EXECUTING is cleared
  /\ Running(p)
  /\ prg' = [prg EXCEPT ![p].wait = "destroyed", ![p].hooked = FALSE, ![p].exec = FALSE]
  /\ Pop
  /\ UNCHANGED <<life, loc, slack>>
EndlessLoop(p) ==
  /\ Running(p)
  /\ prg' = [prg EXCEPT ![p] = Husk([@ EXCEPT !.wait = "destroyed", !.hooked = FALSE])]
  /\ slack' = slack \ {p}
  /\ Pop
  /\ UNCHANGED <<life, loc>>

Free(p) ==
  /\ prg' = [prg EXCEPT ![p] = Nothing]
  /\ slack' = slack \ {p}
  /\ Pop

(* quit, the end of the first procedure, a type error; or it was told so.  *)
Quit(p) ==
  /\ inside /\ p = Top /\ prg[p].wait \in {"run", "quit"}
  /\ Free(p)
  /\ UNCHANGED <<life, loc>>

-----------------------------------------------------------------------------
(* Units.                                                                  *)
Gone(u)     == life' = [life EXCEPT ![u] = "gone"] /\ loc' = [loc EXCEPT ![u] = "void"]
Asleep(u)   == [p \in Prgs |-> IF Is(p) /\ prg[p].hooked /\ prg[p].owner = u
                                 THEN [prg[p] EXCEPT !.deact = TRUE] ELSE prg[p]]

(* extract_unit, by what runs outside. *)
Extract(u) ==
  /\ Outside /\ life[u] = "live"
  /\ Gone(u)
  /\ prg' = Asleep(u)
  /\ UNCHANGED <<stack, inside, slack>>

(* destroy(self) *)
DestroySelf(p) ==
  /\ Running(p)
  /\ LET u == prg[p].owner IN
     /\ Alive(u)
     /\ Gone(u)
     /\ prg' = [Asleep(u) EXCEPT ![p] = Nothing]
  /\ slack' = slack \ {p}
  /\ Pop

(* Somebody goes to another room, or a program links him there. *)
Names(p, u) == Alive(u) \/ (TopFrame(p).var = u /\ ~Freed(u))
Move(u) ==
  /\ \/ Outside /\ Alive(u)
     \/ inside /\ Running(Top) /\ Names(Top, u)
  /\ loc' = [loc EXCEPT ![u] = IF @ = "here" THEN "away" ELSE "here"]
  /\ UNCHANGED <<life, prg, stack, inside, slack>>

(* clear_destructed, between two events: destroy_fptr of each function.    *)
(* A program that is marked as executing only loses its function.          *)
Clear ==
  /\ stack = <<>>
  /\ \E u \in Units : life[u] = "gone"
  /\ life' = [u \in Units |-> IF life[u] = "gone" THEN "freed" ELSE life[u]]
  /\ prg' = [p \in Prgs |->
       IF ~Is(p) \/ ~prg[p].hooked \/ Alive(prg[p].owner) THEN prg[p]
       ELSE IF prg[p].exec THEN [prg[p] EXCEPT !.wait = "destroyed", !.hooked = FALSE]
       ELSE Nothing]
  /\ slack' = {p \in slack : Is(p)'}
  /\ UNCHANGED <<loc, stack, inside>>

-----------------------------------------------------------------------------
(* New programs.                                                           *)
New(u, f) == [ owner |-> u, exec |-> FALSE, deact |-> FALSE, hooked |-> TRUE,
               wait |-> "new", frames |-> <<f>> ]

(* dil_copy; by an instruction, also onto a unit that is gone. *)
Copy(p, u) ==
  /\ ~Is(p) /\ Fits(1)
  /\ \/ Outside /\ Alive(u)
     \/ inside /\ Running(Top) /\ Names(Top, u)
  /\ prg' = [prg EXCEPT ![p] = New(u, [var |-> None, sec |-> <<>>])]
  /\ UNCHANGED <<life, loc, stack, inside, slack>>

(* spell_perform: its target is secured, and it runs at once. *)
Cast(p, u, x) ==
  /\ Outside /\ ~Is(p) /\ Alive(u) /\ Alive(x) /\ Fits(2)
  /\ Begin(p, New(u, [var |-> x, sec |-> <<[unit |-> x, lab |-> TRUE]>>]))
  /\ UNCHANGED <<life, loc>>

-----------------------------------------------------------------------------
(* Instructions.                                                           *)
Instruction(p, P) ==
  /\ prg' = P
  /\ UNCHANGED <<life, loc, stack, inside, slack>>

Assign(p, u) ==
  /\ Running(p) /\ Alive(u)
  /\ Instruction(p, SetTop(p, [TopFrame(p) EXCEPT !.var = u]))

SecureUnit(p, u) ==
  /\ Running(p) /\ Names(p, u) /\ Fits(1)
  /\ LET f == TopFrame(p) IN
     Instruction(p, SetTop(p, [f EXCEPT
       !.sec = Append(Sub(f.sec, u, FALSE), [unit |-> u, lab |-> TRUE])]))

Unsecure(p, u) ==
  /\ Running(p) /\ Names(p, u)
  /\ LET f == TopFrame(p) IN Instruction(p, SetTop(p, [f EXCEPT !.sec = Sub(f.sec, u, FALSE)]))

(* foreach: the list of before goes, what is seen of a type, and self,     *)
(* come to the secures.                                                    *)
Labelled(s) ==
  LET Rest(t, i) == LET J == {j \in DOMAIN t : ~t[j].lab} IN
                    IF J = {} THEN t ELSE SwapOut(t, Min(J))
  IN FoldLeft(Rest, s, Upto(Len(s)))
Foreach(p) ==
  /\ Running(p)
  /\ \E S \in SUBSET {u \in Units : u # prg[p].owner /\ Visible(prg[p].owner, u)} :
     \E l \in SetToSeqs(S) :
       LET f    == TopFrame(p)
           seen == Append(l, prg[p].owner)
           kept == Labelled(f.sec) IN
       /\ Fits(Len(kept) + Len(seen) - Len(f.sec))
       /\ Instruction(p, SetTop(p, [f EXCEPT
            !.sec = kept \o [i \in DOMAIN seen |-> [unit |-> seen[i], lab |-> FALSE]]]))
ForeachNext(p) ==
  /\ Running(p)
  /\ LET f == TopFrame(p)
         J == {j \in DOMAIN f.sec : ~f.sec[j].lab} IN
     /\ J # {}
     /\ LET u == f.sec[Min(J)].unit IN
        Instruction(p, SetTop(p, [var |-> u, sec |-> Sub(f.sec, u, TRUE)]))

(* A procedure gets the pointer, or nothing; a function returns it. *)
Call(p) ==
  /\ Running(p) /\ Fits(1)
  /\ \E u \in {TopFrame(p).var, None} :
       Instruction(p, [prg EXCEPT ![p].frames = Append(@, [var |-> u, sec |-> <<>>])])
ReturnAlways(p) ==   \* mutant: the first frame is discarded as well
  /\ Running(p)
  /\ Instruction(p, [prg EXCEPT ![p].frames = Front(@)])
Return(p) ==
  /\ Running(p) /\ Len(prg[p].frames) > 1
  /\ LET n == Len(prg[p].frames) - 1 IN
     \E u \in {TopFrame(p).var, prg[p].frames[n].var} :
       Instruction(p, [prg EXCEPT ![p].frames = [Front(@) EXCEPT ![n].var = u]])

(* dildestroy: p, q or any other program. *)
DilDestroy(p, q) ==
  /\ Running(p) /\ Is(q) /\ prg[q].hooked
  /\ LET Q == [prg[q] EXCEPT !.wait = "quit"] IN
     IF Busy(Q)
       THEN prg' = [prg EXCEPT ![q] = Q] /\ UNCHANGED <<stack, inside, slack>>
       ELSE Begin(q, Q)
  /\ UNCHANGED <<life, loc>>

(* The call to the outside begins, and returns: the secures are tested,    *)
(* unless p has been told to quit meanwhile.                               *)
CallOut(p) ==
  /\ Running(p)
  /\ inside' = FALSE
  /\ UNCHANGED <<life, loc, prg, stack, slack>>
CallDone(p) ==
  /\ Outside /\ stack # <<>> /\ p = Top
  /\ IF prg[p].wait = "quit" THEN Free(p)
     ELSE /\ prg' = [prg EXCEPT ![p] = AfterTest(prg[p])]
          /\ Noted(p, AfterTest(prg[p]))
          /\ inside' = TRUE
          /\ UNCHANGED stack
  /\ UNCHANGED <<life, loc>>

-----------------------------------------------------------------------------
Next ==
  \/ Clear
  \/ \E u \in Units : Extract(u) \/ Move(u)
  \/ \E p \in Prgs :
       \/ Activate(p) \/ Wait(p) \/ Stop(p) \/ EndlessLoop(p) \/ Quit(p)
       \/ DestroySelf(p) \/ Foreach(p) \/ ForeachNext(p) \/ Call(p) \/ Return(p)
       \/ CallOut(p) \/ CallDone(p)
       \/ \E u \in Units : Copy(p, u) \/ Assign(p, u) \/ SecureUnit(p, u) \/ Unsecure(p, u)
       \/ \E u, x \in Units : Cast(p, u, x)
       \/ \E q \in Prgs : DilDestroy(p, q)

Spec == Init /\ [][Next]_vars

-----------------------------------------------------------------------------
TypeOK ==
  /\ life \in [Units -> {"live", "gone", "freed"}]
  /\ loc \in [Units -> {"here", "away", "void"}]
  /\ \A p \in Prgs : Is(p) =>
       /\ prg[p] \in Program /\ Used(p) <= MaxMemory
       /\ prg[p].frames = <<>> => prg[p].exec /\ p \notin Range(stack)
  /\ stack \in Seq(Prgs)
  /\ inside \in BOOLEAN
  /\ slack \subseteq Prgs

(* What runs is whole: a program in an activation of run_dil has not been  *)
(* freed by what runs inside it, its function is not destroyed yet, which  *)
(* destroy_fptr asserts when the program ends, and it is in no second      *)
(* activation.                                                             *)
RunningIsWhole ==
  /\ \A i \in DOMAIN stack : Is(stack[i]) /\ prg[stack[i]].hooked /\ prg[stack[i]].exec
  /\ \A i, j \in DOMAIN stack : stack[i] = stack[j] => i = j

(* A program that lost its function or its owner, but not its memory, does *)
(* not run any more.                                                       *)
OrphansStayAsleep ==
  \A p \in Prgs : Is(p) /\ (~prg[p].hooked \/ Freed(prg[p].owner)) =>
    prg[p].exec /\ p \notin Range(stack)

(* A program that runs has no pointer to a unit that has been freed, in    *)
(* none of its procedures.                                                 *)
Loose(p) == \E i \in DOMAIN prg[p].frames :
              prg[p].frames[i].var # None /\ Freed(prg[p].frames[i].var)
NoLoosePointer == \A p \in Range(stack) : Is(p) => ~Loose(p)

(* The same, but for a program that has run with a unit on its list that   *)
(* had left, or that is held by a foreach.                                 *)
LooseBySecureOnly == \A p \in Range(stack) : Is(p) /\ Loose(p) => p \in slack
=============================================================================
