--------------------------- MODULE PlanSearchProofs ---------------------------
(***************************************************************************)
(* Proofs about SlavaStrategy::run and maximize_score (PlanSearch): that   *)
(* the search keeps its types, that its stack always is one real plan, and *)
(* that what run() returns is the first action of a best plan. The         *)
(* inductive invariant is IInv; each of its parts is defined just before   *)
(* the lemma that shows a step keeps it.                                   *)
(***************************************************************************)
EXTENDS PlanSearch, PlansProofs, SequenceTheorems

(* The frames of the search in progress.                                   *)
Frames == Frame(Standable(c))

(* The step in which the top activation calls maximize_score for option j. *)
Calls(j) ==
    /\ stack # << >>
    /\ \A k \in Untried : j <= k
    /\ Activate(Waiting(j),
                NewState(c, Top.st, Options(c)[j]),
                PointsAfter(c, Top.st, Top.points, Options(c)[j]),
                FirstAction(Options(c)[j]))

(* A step of the search is run(), a call for the first option that is      *)
(* left, a return, or nothing.                                             *)
LEMMA StepCases ==
  ASSUME [Next]_vars
  PROVE  Run \/ (\E j \in Untried : Calls(j)) \/ Return \/ UNCHANGED vars
<1>1. ASSUME NEW act, Try(act) PROVE \E j \in Untried : Calls(j)
  BY <1>1 DEF Try, Calls
<1>. QED
  BY <1>1 DEF Next, UseMedikit, ThrowGrenade, Heal, Shoot, MoveTo,
              RaiseStance, LowerTheStance, EatFieldRation, Done

(* A sequence is empty exactly if its length is 0.                         *)
LEMMA EmptyIffNoLength == \A F : \A s \in Seq(F) : s = << >> <=> Len(s) = 0
  OBVIOUS

(* A sequence without its last element.                                    *)
LEMMA PopType ==
  ASSUME NEW S, NEW s \in Seq(S), Len(s) # 0
  PROVE  /\ SubSeq(s, 1, Len(s) - 1) \in Seq(S)
         /\ Len(SubSeq(s, 1, Len(s) - 1)) = Len(s) - 1
         /\ \A i \in 1 .. Len(s) - 1 : SubSeq(s, 1, Len(s) - 1)[i] = s[i]
<1>1. Len(s) - 1 \in Nat /\ \A i \in 1 .. Len(s) - 1 : s[i] \in S OBVIOUS
<1>. DEFINE n == Len(s) - 1
<1>. HIDE DEF n
<1>2. /\ SubSeq(s, 1, n) \in Seq(S)
      /\ Len(SubSeq(s, 1, n)) = IF 1 <= n THEN n - 1 + 1 ELSE 0
      /\ \A i \in 1 .. n - 1 + 1 : SubSeq(s, 1, n)[i] = s[1 + i - 1]
  BY <1>1, SubSeqProperties DEF n
<1>3. n \in Nat BY <1>1 DEF n
<1>4. Len(SubSeq(s, 1, n)) = n BY <1>2, <1>3
<1>5. ASSUME NEW i \in 1 .. n PROVE SubSeq(s, 1, n)[i] = s[i]
  <2>1. i \in 1 .. n - 1 + 1 /\ 1 + i - 1 = i BY <1>3
  <2>. QED BY <1>2, <2>1
<1>. QED BY <1>2, <1>4, <1>5 DEF n

(* A sequence whose last element is replaced.                              *)
LEMMA ReplaceLast ==
  ASSUME NEW S, NEW s \in Seq(S), Len(s) # 0, NEW e
  PROVE  /\ \A i \in 1 .. Len(s) - 1 : [s EXCEPT ![Len(s)] = e][i] = s[i]
         /\ [s EXCEPT ![Len(s)] = e][Len(s)] = e
<1>1. /\ Len(s) \in DOMAIN s
      /\ \A i \in 1 .. Len(s) - 1 : i \in DOMAIN s /\ i # Len(s)
  OBVIOUS
<1>. DEFINE n == Len(s)
<1>. HIDE DEF n
<1>2. /\ n \in DOMAIN s
      /\ \A i \in 1 .. n - 1 : i \in DOMAIN s /\ i # n
  BY <1>1 DEF n
<1>3. /\ \A i \in 1 .. n - 1 : [s EXCEPT ![n] = e][i] = s[i]
      /\ [s EXCEPT ![n] = e][n] = e
  BY <1>2
<1>. QED BY <1>3 DEF n

(* The object being searched is a valid context.                           *)
LEMMA HereValid == ASSUME TypeOK PROVE ValidContext(c)
BY ContextsValid DEF TypeOK, c

(* What a call tries is a continuation of Options.                         *)
LEMMA OptionType ==
  ASSUME TypeOK, NEW j \in DOMAIN Options(c)
  PROVE  Options(c)[j] \in OptionsOf(c) /\ Options(c)[j] \in Action
<1>1. Options(c) \in Seq(OptionsOf(c)) BY HereValid, OptionsType
<1>. QED BY <1>1 DEF OptionsOf

(* An activation keeps the types if its arguments have theirs. *)
LEMMA ActivateType ==
  ASSUME TypeOK, NEW callers \in Seq(Frames), Len(callers) < MaxActionNumber,
         NEW st \in State(Standable(c)), NEW points \in Nat,
         NEW first \in Action,
         Activate(callers, st, points, first)
  PROVE  TypeOK'
<1>1. ctx' = ctx /\ c' = c BY DEF Activate, c
<1>. DEFINE s == PickUp(c, st)
            f == [st |-> s, points |-> points, next |-> 1]
<1>2. s \in State(Standable(c)) BY PickUpType
<1>3. f \in Frames BY <1>2 DEF Frames, Frame
<1>4. Score(c, s) \in Int BY <1>2, ScoreType, HereValid
<1>5. stack' = Append(callers, f) BY DEF Activate
<1>. HIDE DEF s, f
<1>6. stack' \in Seq(Frames) /\ Len(stack') <= MaxActionNumber
  BY <1>3, <1>5, CutoffAssumption
<1>7. best_action' \in Action /\ best_score' \in Int
  BY <1>4 DEF TypeOK, Activate, s
<1>8. cur_action' \in Action /\ returned' \in BOOLEAN
  BY DEF TypeOK, Activate
<1>. QED BY <1>1, <1>6, <1>7, <1>8 DEF TypeOK, Frames

(* The variables have their types before run() is called.                  *)
LEMMA InitType == Init => TypeOK
<1>. SUFFICES ASSUME Init PROVE TypeOK OBVIOUS
<1>1. EndTurn \in Action BY DEF EndTurn, Action, ActionTypes
<1>2. -inf \in Int BY SMT DEF inf
<1>3. << >> \in Seq(Frames) /\ Len(<< >>) <= MaxActionNumber
  BY CutoffAssumption
<1>. QED BY <1>1, <1>2, <1>3 DEF Init, TypeOK, Frames

(* What a step of the search calls maximize_score with. *)
LEMMA TryType ==
  ASSUME TypeOK, stack # << >>, NEW j \in Untried
  PROVE  /\ Len(stack) \in Nat \ {0}
         /\ Len(stack) < MaxActionNumber
         /\ Top \in Frames
         /\ j \in DOMAIN Options(c)
         /\ j \in Nat \ {0}
         /\ Options(c)[j] \in OptionsOf(c)
         /\ Possible(c, Top.st, Top.points, Options(c)[j])
         /\ NewState(c, Top.st, Options(c)[j]) \in State(Standable(c))
         /\ PointsAfter(c, Top.st, Top.points, Options(c)[j]) \in Nat
         /\ Waiting(j) \in Seq(Frames)
         /\ Len(Waiting(j)) = Len(stack)
<1>1. stack \in Seq(Frames) /\ Len(stack) <= MaxActionNumber
  BY DEF TypeOK, Frames
<1>2. Len(stack) \in Nat \ {0} BY <1>1
<1>3. Len(stack) < MaxActionNumber BY <1>1, <1>2, CutoffAssumption DEF Untried
<1>4. Top \in Frames BY <1>1, <1>2 DEF Top
<1>5. Top.st \in State(Standable(c)) /\ Top.points \in Nat
      /\ Top.next \in Nat \ {0}
  BY <1>4 DEF Frames, Frame
<1>6. Options(c) \in Seq(OptionsOf(c)) BY HereValid, OptionsType
<1>7. j \in DOMAIN Options(c) /\ j \in Nat \ {0}
      /\ Possible(c, Top.st, Top.points, Options(c)[j])
  BY <1>3, <1>5, <1>6 DEF Untried
<1>8. Options(c)[j] \in OptionsOf(c) BY <1>7, OptionType
<1>9. NewState(c, Top.st, Options(c)[j]) \in State(Standable(c))
  BY <1>5, <1>7, <1>8, NewStateType, HereValid DEF Possible
<1>10. PointsAfter(c, Top.st, Top.points, Options(c)[j]) \in Nat
  BY <1>5, <1>7, <1>8, PointsAfterType, HereValid
<1>11. [st |-> Top.st, points |-> Top.points, next |-> j + 1] \in Frames
  BY <1>5, <1>7 DEF Frames, Frame
<1>12. Waiting(j) \in Seq(Frames) /\ Len(Waiting(j)) = Len(stack)
  BY <1>1, <1>2, <1>11 DEF Waiting
<1>. QED BY <1>2, <1>3, <1>4, <1>7, <1>8, <1>9, <1>10, <1>12

(* Every step of the search keeps the types.                               *)
LEMMA NextType == TypeOK /\ [Next]_vars => TypeOK'
<1>. SUFFICES ASSUME TypeOK, [Next]_vars PROVE TypeOK' OBVIOUS
<1>1. CASE Run
  <2>1. InitialState(c) \in State(Standable(c)) /\ c.self.actionPoints \in Nat
    BY InitialStateType, HereValid
  <2>2. << >> \in Seq(Frames) /\ Len(<< >>) < MaxActionNumber
    BY CutoffAssumption
  <2>. QED BY <1>1, <2>1, <2>2, ActivateType DEF Run, TypeOK
<1>2. ASSUME NEW j \in Untried, Calls(j) PROVE TypeOK'
  <2>1. FirstAction(Options(c)[j]) \in Action
    BY <1>2, TryType, OptionType DEF FirstAction, TypeOK, Calls
  <2>2. stack # << >> /\ Activate(Waiting(j),
                           NewState(c, Top.st, Options(c)[j]),
                           PointsAfter(c, Top.st, Top.points, Options(c)[j]),
                           FirstAction(Options(c)[j]))
    BY <1>2 DEF Calls
  <2>. QED BY <2>1, <2>2, TryType, ActivateType
<1>3. CASE Return
  <2>1. stack \in Seq(Frames) /\ Len(stack) \in Nat \ {0}
    BY <1>3 DEF Return, TypeOK, Frames
  <2>2. /\ SubSeq(stack, 1, Len(stack) - 1) \in Seq(Frames)
        /\ Len(SubSeq(stack, 1, Len(stack) - 1)) = Len(stack) - 1
    BY <2>1, PopType
  <2>3. c' = c /\ ctx' = ctx BY <1>3 DEF Return, c
  <2>4. stack' \in Seq(Frames) /\ Len(stack') <= MaxActionNumber
    BY <1>3, <2>1, <2>2, CutoffAssumption DEF Return, TypeOK
  <2>. QED BY <1>3, <2>3, <2>4 DEF Return, TypeOK, Frames
<1>4. CASE UNCHANGED vars
  BY <1>4 DEF vars, TypeOK, c
<1>. QED BY <1>1, <1>2, <1>3, <1>4, StepCases

(* The search never leaves the types of its variables. *)
THEOREM TypeCorrect == Spec => []TypeOK
BY InitType, NextType, PTL DEF Spec

----------------------------------------------------------------------------
(* How a step changes the plan on the stack *)

(* No continuation is END_TURN, the mark of the empty plan.                *)
LEMMA OptionNotEndTurn ==
  ASSUME TypeOK, NEW j \in DOMAIN Options(c)
  PROVE  Options(c)[j] # EndTurn
BY OptionType DEF OptionsOf, EndTurn

(* Once a plan is not empty, cur_action is its first action.               *)
LEMMA CurActionNotEndTurn ==
  ASSUME TypeOK, StackIsPlan, Len(stack) > 1
  PROVE  cur_action # EndTurn
<1>1. Len(stack) \in Nat BY DEF TypeOK
<1>2. 1 \in 1 .. Len(stack) - 1 /\ 1 + 1 = 2 BY <1>1
<1>. DEFINE j == stack[1].next - 1
<1>3. /\ j \in Candidates(c, NodeAt(1))
      /\ NodeAt(2) = Successor(c, NodeAt(1), Options(c)[j])
  BY <1>2 DEF StackIsPlan
<1>4. j \in DOMAIN Options(c) BY <1>3 DEF Candidates
<1>. HIDE DEF j
<1>5. NodeAt(2).first = cur_action BY DEF NodeAt
<1>6. NodeAt(1).first = EndTurn BY DEF NodeAt
<1>7. Successor(c, NodeAt(1), Options(c)[j]).first = Options(c)[j]
  BY <1>6 DEF Successor
<1>. QED BY <1>3, <1>4, <1>5, <1>7, OptionNotEndTurn

(* A call appends its node to the plan and leaves the others as they are.  *)
LEMMA TryShape ==
  ASSUME TypeOK, StackIsPlan, NEW j \in Untried, Calls(j)
  PROVE  /\ c' = c
         /\ Len(stack) \in Nat \ {0}
         /\ Len(stack') = Len(stack) + 1
         /\ j \in Candidates(c, NodeAt(Len(stack)))
         /\ \A i \in 1 .. Len(stack) : NodeAt(i)' = NodeAt(i)
         /\ \A i \in 1 .. Len(stack) - 1 : stack'[i].next = stack[i].next
         /\ stack'[Len(stack)].next = j + 1
         /\ stack'[Len(stack) + 1].next = 1
         /\ stack'[Len(stack) + 1].st =
               PickUp(c, NewState(c, Top.st, Options(c)[j]))
         /\ \A m : m = Len(stack) + 1 =>
               NodeAt(m)' = Successor(c, NodeAt(Len(stack)), Options(c)[j])
<1>. DEFINE n == Len(stack)
            o == Options(c)[j]
            f == [ st |-> PickUp(c, NewState(c, Top.st, o)),
                   points |-> PointsAfter(c, Top.st, Top.points, o),
                   next |-> 1 ]
            w == [st |-> Top.st, points |-> Top.points, next |-> j + 1]
<1>0. /\ stack # << >>
      /\ Activate(Waiting(j), NewState(c, Top.st, o),
                  PointsAfter(c, Top.st, Top.points, o), FirstAction(o))
  BY DEF Calls
<1>1. c' = c BY <1>0 DEF Activate, c
<1>2. /\ n \in Nat \ {0} /\ stack \in Seq(Frames)
      /\ Waiting(j) \in Seq(Frames) /\ Len(Waiting(j)) = n
  BY <1>0, TryType DEF TypeOK, Frames
<1>3. stack' = Append(Waiting(j), f) BY <1>0 DEF Activate
<1>4. Waiting(j) = [stack EXCEPT ![n] = w] BY DEF Waiting
<1>5. cur_action' = IF n = 1 THEN o ELSE cur_action
  BY <1>0 DEF Activate, FirstAction
<1>6. /\ NodeAt(n).st = Top.st /\ NodeAt(n).points = Top.points
      /\ NodeAt(n).first = IF n = 1 THEN EndTurn ELSE cur_action
  BY DEF NodeAt, Top
<1>7. j \in Candidates(c, NodeAt(n))
  BY <1>0, <1>6, TryType DEF Candidates
<1>. HIDE DEF f, w, o
<1>8. Len(stack') = n + 1 /\ stack'[n + 1] = f
      /\ \A i \in 1 .. n : stack'[i] = Waiting(j)[i]
  BY <1>2, <1>3
<1>. HIDE DEF n
<1>9. /\ \A i \in 1 .. n - 1 : Waiting(j)[i] = stack[i]
      /\ Waiting(j)[n] = w
  <2>1. stack \in Seq(Frames) /\ Len(stack) # 0 BY <1>2 DEF n
  <2>2. /\ \A i \in 1 .. Len(stack) - 1 :
             [stack EXCEPT ![Len(stack)] = w][i] = stack[i]
        /\ [stack EXCEPT ![Len(stack)] = w][Len(stack)] = w
    BY <2>1, ReplaceLast, Zenon
  <2>. QED BY <2>2, <1>4, Zenon DEF n
<1>10. /\ \A i \in 1 .. n - 1 : stack'[i] = stack[i]
       /\ stack'[n] = w
  BY <1>2, <1>8, <1>9
<1>11. ASSUME NEW i \in 1 .. n PROVE NodeAt(i)' = NodeAt(i)
  <2>1. stack'[i].st = stack[i].st /\ stack'[i].points = stack[i].points
    BY <1>2, <1>10 DEF w, Top, n
  <2>2. i # 1 => cur_action' = cur_action BY <1>2, <1>5
  <2>. QED BY <2>1, <2>2 DEF NodeAt
<1>12. ASSUME NEW m, m = n + 1 PROVE NodeAt(m)' = Successor(c, NodeAt(n), o)
  <2>1. stack'[m] = f /\ m # 1 BY <1>2, <1>8, <1>12
  <2>2. NodeAt(m)' = [st |-> f.st, points |-> f.points, first |-> cur_action']
    BY <2>1 DEF NodeAt
  <2>3. cur_action' = IF NodeAt(n).first = EndTurn THEN o ELSE NodeAt(n).first
    BY <1>2, <1>5, <1>6, CurActionNotEndTurn DEF n
  <2>. QED BY <2>2, <2>3, <1>6 DEF Successor, f
<1>. QED
  BY <1>1, <1>2, <1>7, <1>8, <1>10, <1>11, <1>12 DEF n, o, f, w

(* A return drops the last node of the plan.                               *)
LEMMA ReturnShape ==
  ASSUME TypeOK, Return
  PROVE  /\ c' = c
         /\ Len(stack) \in Nat \ {0}
         /\ Len(stack') = Len(stack) - 1
         /\ \A i \in 1 .. Len(stack) - 1 :
               stack'[i] = stack[i] /\ NodeAt(i)' = NodeAt(i)
<1>1. c' = c /\ cur_action' = cur_action BY DEF Return, c
<1>2. stack \in Seq(Frames) /\ Len(stack) \in Nat \ {0}
  BY DEF Return, TypeOK, Frames
<1>3. /\ Len(stack') = Len(stack) - 1
      /\ \A i \in 1 .. Len(stack) - 1 : stack'[i] = stack[i]
  BY <1>2, PopType DEF Return
<1>4. \A i \in 1 .. Len(stack) - 1 : NodeAt(i)' = NodeAt(i)
  BY <1>1, <1>3 DEF NodeAt
<1>. QED BY <1>1, <1>2, <1>3, <1>4

(* run() puts the empty plan on the stack.                                 *)
LEMMA RunShape ==
  ASSUME TypeOK, Run, cur_action = EndTurn
  PROVE  /\ c' = c
         /\ Len(stack') = 1 /\ stack'[1].next = 1
         /\ stack'[1].st = Root(c).st
         /\ NodeAt(1)' = Root(c)
<1>1. c' = c BY DEF Run, Activate, c
<1>2. stack' = << [ st |-> PickUp(c, InitialState(c)),
                    points |-> c.self.actionPoints, next |-> 1 ] >>
  BY DEF Run, Activate
<1>. QED BY <1>1, <1>2 DEF NodeAt, Root

----------------------------------------------------------------------------
(* The inductive invariant *)

(* Before run() has called maximize_score nothing has been found; once it  *)
(* has returned no activation is left.                                     *)
Endpoints ==
    /\ stack = << >> /\ ~returned =>
         /\ cur_action = EndTurn
         /\ best_score = -inf
    /\ returned => stack = << >>

(* The nodes of the plan on the stack are nodes of the plan tree, each at  *)
(* its level.                                                              *)
OnTree == \A i \in 1 .. Len(stack) : NodeAt(i) \in Level(c)[i]

(* best_score is the score of a plan that begins with best_action.         *)
Attained ==
    stack # << >> \/ returned =>
      \E d \in 1 .. MaxActionNumber : \E q \in Level(c)[d] :
          q.first = best_action /\ Score(c, q.st) = best_score

(* The continuations of frame i that have been searched to the end: those  *)
(* before its next one, except the one whose call has not returned.        *)
Searched(i) ==
    {j \in Candidates(c, NodeAt(i)) :
        j < stack[i].next /\ (i < Len(stack) => j # stack[i].next - 1)}

(* The nodes searched to the end: none of them beats best_score, with a    *)
(* node its successors belong to them, and so do the continuations each    *)
(* activation is through with.                                             *)
Finished(S) ==
    /\ \A r, d : <<r, d>> \in S =>
          Score(c, r.st) \in Int /\ Score(c, r.st) <= best_score
    /\ \A d \in 1 .. MaxActionNumber : \A r :
          <<r, d>> \in S /\ d < MaxActionNumber =>
            \A j \in Candidates(c, r) :
              <<Successor(c, r, Options(c)[j]), d + 1>> \in S
    /\ \A i \in 1 .. Len(stack) : \A j \in Searched(i) :
          <<Successor(c, NodeAt(i), Options(c)[j]), i + 1>> \in S
    /\ returned => <<Root(c), 1>> \in S

(* Every activation's own score has been compared with best_score.         *)
Compared ==
    \A i \in 1 .. Len(stack) :
        Score(c, stack[i].st) \in Int /\ Score(c, stack[i].st) <= best_score

(* The nodes searched to the end are the subtrees the stack has left       *)
(* behind: once run() has returned, the whole plan tree.                   *)
Covered == \E S : Finished(S)

(* best_action is END_TURN or possible in the state run() starts from.     *)
BestPossible ==
    stack # << >> \/ returned =>
      \/ best_action = EndTurn
      \/ \E j \in Candidates(c, Root(c)) : best_action = Options(c)[j]

(* Whoever has used up his grenade, or his ration, holds none.             *)
Spent(st) ==
    /\ st.used_grenade => ~st.has_grenade
    /\ st.used_field_ration => ~st.has_field_ration

(* The state knows that the action has been made.                          *)
Remembers(st, act) ==
    /\ act = "THROW_GRENADE" => st.used_grenade
    /\ act = "EAT_FIELD_RATION" => st.used_field_ration

(* Every state on the stack remembers the actions that have led to it.     *)
Remembered ==
    /\ \A k \in 1 .. Len(stack) : Spent(stack[k].st)
    /\ \A k \in 1 .. Len(stack) : \A i \in 1 .. k - 1 :
          Remembers(stack[k].st, Options(c)[stack[i].next - 1].act)

(* StackIsPlan alone is inductive; that the answer is best is not, unless  *)
(* one knows of every node searched so far that best_score is as high.     *)
IInv == /\ TypeOK /\ StackIsPlan /\ Endpoints /\ OnTree
        /\ Compared /\ Attained /\ Covered /\ BestPossible /\ Remembered

(* Every step keeps the stack a plan: a call extends it by an action that  *)
(* was possible, a return uncovers the caller with its own copy of the     *)
(* state.                                                                  *)
LEMMA StackIsPlanStep ==
  TypeOK /\ StackIsPlan /\ Endpoints /\ [Next]_vars => StackIsPlan'
<1>. SUFFICES ASSUME TypeOK, StackIsPlan, Endpoints, [Next]_vars
              PROVE  StackIsPlan'
  OBVIOUS
<1>1. CASE Run
  <2>1. cur_action = EndTurn BY <1>1 DEF Run, Endpoints
  <2>2. /\ c' = c /\ Len(stack') = 1 /\ NodeAt(1)' = Root(c)
    BY <1>1, <2>1, RunShape
  <2>3. Root(c)' = Root(c) BY <2>2
  <2>. QED BY <2>2, <2>3 DEF StackIsPlan
<1>2. ASSUME NEW j \in Untried, Calls(j) PROVE StackIsPlan'
  <2>. DEFINE n == Len(stack)
  <2>1. /\ c' = c /\ n \in Nat \ {0} /\ Len(stack') = n + 1
        /\ j \in Candidates(c, NodeAt(n))
        /\ \A i \in 1 .. n : NodeAt(i)' = NodeAt(i)
        /\ \A i \in 1 .. n - 1 : stack'[i].next = stack[i].next
        /\ stack'[n].next = j + 1
        /\ \A m : m = n + 1 =>
              NodeAt(m)' = Successor(c, NodeAt(n), Options(c)[j])
    BY <1>2, TryShape
  <2>2. j \in Nat BY <1>2, TryType DEF Calls
  <2>3. NodeAt(1)' = Root(c')
    BY <2>1, <1>2 DEF StackIsPlan, Calls
  <2>4. ASSUME NEW i \in 1 .. Len(stack') - 1
        PROVE  /\ stack'[i].next - 1 \in Candidates(c', NodeAt(i)')
               /\ NodeAt(i + 1)' = Successor(c', NodeAt(i)',
                                             Options(c')[stack'[i].next - 1])
    <3>1. CASE i = n
      BY <2>1, <2>2, <3>1
    <3>2. CASE i # n
      <4>1. i \in 1 .. n - 1 /\ i + 1 \in 1 .. n /\ i \in 1 .. n
        BY <2>1, <3>2
      <4>2. /\ NodeAt(i)' = NodeAt(i)
            /\ NodeAt(i + 1)' = NodeAt(i + 1)
            /\ stack'[i].next = stack[i].next
        BY <2>1, <4>1
      <4>. QED BY <2>1, <4>1, <4>2 DEF StackIsPlan
    <3>. QED BY <3>1, <3>2
  <2>. QED BY <2>3, <2>4 DEF StackIsPlan
<1>3. CASE Return
  <2>1. /\ c' = c /\ Len(stack) \in Nat \ {0}
        /\ Len(stack') = Len(stack) - 1
        /\ \A i \in 1 .. Len(stack) - 1 :
              stack'[i] = stack[i] /\ NodeAt(i)' = NodeAt(i)
    BY <1>3, ReturnShape
  <2>2. stack' # << >> => NodeAt(1)' = Root(c')
    <3>1. stack' \in Seq(Frames') BY NextType DEF TypeOK, Frames
    <3>. QED BY <2>1, <3>1, <1>3 DEF StackIsPlan, Return
  <2>3. ASSUME NEW i \in 1 .. Len(stack') - 1
        PROVE  /\ stack'[i].next - 1 \in Candidates(c', NodeAt(i)')
               /\ NodeAt(i + 1)' = Successor(c', NodeAt(i)',
                                             Options(c')[stack'[i].next - 1])
    <3>1. i \in 1 .. Len(stack) - 1 /\ i + 1 \in 1 .. Len(stack) - 1
      BY <2>1
    <3>. QED BY <2>1, <3>1 DEF StackIsPlan
  <2>. QED BY <2>2, <2>3 DEF StackIsPlan
<1>4. CASE UNCHANGED vars
  BY <1>4 DEF vars, StackIsPlan, NodeAt, c
<1>. QED BY <1>1, <1>2, <1>3, <1>4, StepCases

(* Every step keeps Endpoints: how the stack, cur_action and the answer    *)
(* look before, during and after run().                                    *)
LEMMA EndpointsStep ==
  TypeOK /\ Endpoints /\ [Next]_vars => Endpoints'
<1>. SUFFICES ASSUME TypeOK, Endpoints, [Next]_vars PROVE Endpoints'
  OBVIOUS
<1>1. CASE Run
  <2>1. cur_action = EndTurn BY <1>1 DEF Run, Endpoints
  <2>2. Len(stack') = 1 BY <1>1, <2>1, RunShape
  <2>3. stack' # << >> /\ returned' = FALSE
    BY <1>1, <2>2 DEF Run, Activate
  <2>. QED BY <2>3 DEF Endpoints
<1>2. ASSUME NEW j \in Untried, Calls(j) PROVE Endpoints'
  <2>1. returned' = FALSE BY <1>2 DEF Calls, Activate, Endpoints, TypeOK
  <2>2. stack' # << >>
    <3>1. Waiting(j) \in Seq(Frames) BY <1>2, TryType DEF Calls
    <3>2. PICK f : stack' = Append(Waiting(j), f)
      BY <1>2 DEF Calls, Activate
    <3>. QED BY <3>1, <3>2
  <2>. QED BY <2>1, <2>2 DEF Endpoints
<1>3. CASE Return
  <2>1. Len(stack) \in Nat \ {0} /\ Len(stack') = Len(stack) - 1
    BY <1>3, ReturnShape
  <2>2. stack' \in Seq(Frames') BY NextType DEF TypeOK, Frames
  <2>3. stack' = << >> <=> Len(stack) = 1
    <3>1. stack' = << >> <=> Len(stack') = 0 BY <2>2, EmptyIffNoLength, Zenon
    <3>2. Len(stack') = 0 <=> Len(stack) = 1 BY <2>1
    <3>. QED BY <3>1, <3>2
  <2>4. returned' = (Len(stack) = 1) BY <1>3 DEF Return
  <2>. QED BY <2>3, <2>4, Zenon DEF Endpoints
<1>4. CASE UNCHANGED vars
  BY <1>4 DEF vars, Endpoints
<1>. QED BY <1>1, <1>2, <1>3, <1>4, StepCases

(* The node of the empty plan has the type of a node.                      *)
LEMMA RootType ==
  ASSUME TypeOK
  PROVE  /\ Root(c).st \in State(Standable(c))
         /\ Score(c, Root(c).st) \in Int
         /\ Score(c, Root(c).st) > -inf
<1>1. InitialState(c) \in State(Standable(c)) BY HereValid, InitialStateType
<1>2. PickUp(c, InitialState(c)) \in State(Standable(c))
  BY <1>1, PickUpType
<1>3. Root(c).st = PickUp(c, InitialState(c)) BY DEF Root
<1>4. Score(c, Root(c).st) \in Int BY <1>2, <1>3, HereValid, ScoreType
<1>5. Score(c, Root(c).st) > -inf BY RootScoreAssumption DEF TypeOK, c
<1>. QED BY <1>2, <1>3, <1>4, <1>5

(* Every step keeps the stack on the plan tree, one level deeper per       *)
(* activation.                                                             *)
LEMMA OnTreeStep ==
  TypeOK /\ StackIsPlan /\ Endpoints /\ OnTree /\ [Next]_vars => OnTree'
<1>. SUFFICES ASSUME TypeOK, StackIsPlan, Endpoints, OnTree, [Next]_vars
              PROVE  OnTree'
  OBVIOUS
<1>1. CASE Run
  <2>1. cur_action = EndTurn BY <1>1 DEF Run, Endpoints
  <2>2. /\ c' = c /\ Len(stack') = 1 /\ NodeAt(1)' = Root(c)
    BY <1>1, <2>1, RunShape
  <2>. QED BY <2>2, LevelOne DEF OnTree
<1>2. ASSUME NEW j \in Untried, Calls(j) PROVE OnTree'
  <2>. DEFINE n == Len(stack)
  <2>1. /\ c' = c /\ n \in Nat \ {0} /\ Len(stack') = n + 1
        /\ j \in Candidates(c, NodeAt(n))
        /\ \A i \in 1 .. n : NodeAt(i)' = NodeAt(i)
        /\ \A m : m = n + 1 =>
              NodeAt(m)' = Successor(c, NodeAt(n), Options(c)[j])
    BY <1>2, TryShape
  <2>2. n < MaxActionNumber BY <1>2, TryType DEF Calls
  <2>3. NodeAt(n) \in Level(c)[n] BY <2>1 DEF OnTree
  <2>4. Successor(c, NodeAt(n), Options(c)[j]) \in Level(c)[n + 1]
    BY <2>1, <2>2, <2>3, LevelStep
  <2>5. ASSUME NEW i \in 1 .. Len(stack') PROVE NodeAt(i)' \in Level(c')[i]
    <3>1. CASE i = n + 1 BY <2>1, <2>4, <3>1
    <3>2. CASE i # n + 1
      <4>1. i \in 1 .. n BY <2>1, <3>2
      <4>. QED BY <2>1, <4>1 DEF OnTree
    <3>. QED BY <3>1, <3>2
  <2>. QED BY <2>5 DEF OnTree
<1>3. CASE Return
  <2>1. /\ c' = c /\ Len(stack) \in Nat \ {0}
        /\ Len(stack') = Len(stack) - 1
        /\ \A i \in 1 .. Len(stack) - 1 : NodeAt(i)' = NodeAt(i)
    BY <1>3, ReturnShape
  <2>2. \A i \in 1 .. Len(stack') :
          i \in 1 .. Len(stack) - 1 /\ i \in 1 .. Len(stack)
    BY <2>1
  <2>. QED BY <2>1, <2>2 DEF OnTree
<1>4. CASE UNCHANGED vars
  BY <1>4 DEF vars, OnTree, NodeAt, c
<1>. QED BY <1>1, <1>2, <1>3, <1>4, StepCases

(* best_score never falls, and an activation leaves it at least as high as *)
(* its own score.                                                          *)
LEMMA ActivateScore ==
  ASSUME TypeOK, NEW callers, NEW st, NEW points, NEW first,
         Score(c, PickUp(c, st)) \in Int,
         Activate(callers, st, points, first)
  PROVE  /\ best_score <= best_score'
         /\ Score(c, PickUp(c, st)) <= best_score'
         /\ \/ best_score' = best_score /\ best_action' = best_action
                /\ Score(c, PickUp(c, st)) <= best_score
            \/ best_score' = Score(c, PickUp(c, st)) /\ best_action' = first
<1>. DEFINE w == Score(c, PickUp(c, st))
<1>1. IF w > best_score
      THEN best_action' = first /\ best_score' = w
      ELSE best_action' = best_action /\ best_score' = best_score
  BY DEF Activate, Improves
<1>2. best_score \in Int /\ w \in Int BY DEF TypeOK
<1>. HIDE DEF w
<1>3. /\ best_score <= best_score' /\ w <= best_score'
      /\ \/ best_score' = best_score /\ best_action' = best_action
            /\ w <= best_score
         \/ best_score' = w /\ best_action' = first
  BY <1>1, <1>2
<1>. QED BY <1>3 DEF w

(* The score a call compares with best_score is an integer.                *)
LEMMA CallScore ==
  ASSUME TypeOK, NEW j \in Untried, Calls(j)
  PROVE  /\ Score(c, PickUp(c, NewState(c, Top.st, Options(c)[j]))) \in Int
<1>1. NewState(c, Top.st, Options(c)[j]) \in State(Standable(c))
  BY TryType DEF Calls
<1>. QED BY <1>1, PickUpType, ScoreType, HereValid

(* run() raises best_score above its sentinel: ending the turn at once     *)
(* always scores more.                                                     *)
LEMMA RunScore ==
  ASSUME TypeOK, Endpoints, Run
  PROVE  best_score' = Score(c, Root(c).st) /\ best_action' = EndTurn
<1>1. /\ best_score = -inf /\ cur_action = EndTurn
      /\ Activate(<< >>, InitialState(c), c.self.actionPoints, cur_action)
  BY DEF Run, Endpoints
<1>2. Root(c).st = PickUp(c, InitialState(c)) BY DEF Root
<1>3. Score(c, PickUp(c, InitialState(c))) > best_score
  BY <1>1, <1>2, RootType
<1>. QED BY <1>1, <1>2, <1>3 DEF Activate, Improves

(* A call leaves best_score at the score of its node or above.             *)
LEMMA CallBest ==
  ASSUME TypeOK, NEW j \in Untried, Calls(j)
  PROVE  LET s == Score(c, PickUp(c, NewState(c, Top.st, Options(c)[j])))
         IN  /\ best_score <= best_score'
             /\ s \in Int /\ s <= best_score'
             /\ \/ best_score' = best_score /\ best_action' = best_action
                \/ best_score' = s /\ best_action' = cur_action'
<1>1. Activate(Waiting(j), NewState(c, Top.st, Options(c)[j]),
               PointsAfter(c, Top.st, Top.points, Options(c)[j]),
               FirstAction(Options(c)[j]))
  BY DEF Calls
<1>2. cur_action' = FirstAction(Options(c)[j]) BY <1>1 DEF Activate
<1>. QED BY <1>1, <1>2, CallScore, ActivateScore

(* Every step keeps best_score at least as high as the scores of all the   *)
(* nodes on the stack.                                                     *)
LEMMA ComparedStep ==
  ASSUME TypeOK, TypeOK', StackIsPlan, Endpoints, Compared, [Next]_vars
  PROVE  Compared'
<1>1. CASE Run
  <2>1. cur_action = EndTurn BY <1>1 DEF Run, Endpoints
  <2>2. /\ c' = c /\ Len(stack') = 1 /\ stack'[1].st = Root(c).st
    BY <1>1, <2>1, RunShape
  <2>3. best_score' = Score(c, Root(c).st) /\ best_score' \in Int
    BY <1>1, RunScore, RootType
  <2>. QED BY <2>2, <2>3 DEF Compared
<1>2. ASSUME NEW j \in Untried, Calls(j) PROVE Compared'
  <2>. DEFINE n == Len(stack)
  <2>1. /\ c' = c /\ n \in Nat \ {0} /\ Len(stack') = n + 1
        /\ \A i \in 1 .. n : NodeAt(i)' = NodeAt(i)
        /\ stack'[n + 1].st = PickUp(c, NewState(c, Top.st, Options(c)[j]))
    BY <1>2, TryShape
  <2>2. best_score \in Int /\ best_score' \in Int BY DEF TypeOK
  <2>3. ASSUME NEW i \in 1 .. Len(stack')
        PROVE  /\ Score(c', stack'[i].st) \in Int
               /\ Score(c', stack'[i].st) <= best_score'
    <3>1. CASE i = n + 1 BY <1>2, <2>1, <3>1, CallBest
    <3>2. CASE i # n + 1
      <4>1. i \in 1 .. n BY <2>1, <3>2
      <4>2. NodeAt(i)'.st = stack'[i].st /\ NodeAt(i).st = stack[i].st
        BY DEF NodeAt
      <4>3. stack'[i].st = stack[i].st BY <2>1, <4>1, <4>2
      <4>4. /\ Score(c, stack[i].st) \in Int
            /\ Score(c, stack[i].st) <= best_score
        BY <4>1 DEF Compared
      <4>5. best_score <= best_score' BY <1>2, CallBest
      <4>. QED BY <2>1, <2>2, <4>3, <4>4, <4>5
    <3>. QED BY <3>1, <3>2
  <2>. QED BY <2>3 DEF Compared
<1>3. CASE Return
  <2>1. /\ c' = c /\ Len(stack) \in Nat \ {0}
        /\ Len(stack') = Len(stack) - 1
        /\ \A i \in 1 .. Len(stack) - 1 : stack'[i] = stack[i]
    BY <1>3, ReturnShape
  <2>2. best_score' = best_score BY <1>3 DEF Return
  <2>3. \A i \in 1 .. Len(stack') :
          i \in 1 .. Len(stack) - 1 /\ i \in 1 .. Len(stack)
    BY <2>1
  <2>. QED BY <2>1, <2>2, <2>3 DEF Compared
<1>4. CASE UNCHANGED vars
  BY <1>4 DEF vars, Compared, c
<1>. QED BY <1>1, <1>2, <1>3, <1>4, StepCases

(* Every step keeps best_score the score of a real plan, with best_action  *)
(* its first action.                                                       *)
LEMMA AttainedStep ==
  ASSUME TypeOK, StackIsPlan, Endpoints, OnTree, OnTree', Attained,
         [Next]_vars
  PROVE  Attained'
<1>1. CASE Run
  <2>1. cur_action = EndTurn BY <1>1 DEF Run, Endpoints
  <2>2. c' = c BY <1>1, <2>1, RunShape
  <2>3. best_score' = Score(c, Root(c).st) /\ best_action' = EndTurn
    BY <1>1, RunScore
  <2>4. 1 \in 1 .. MaxActionNumber /\ Root(c) \in Level(c)[1]
    BY LevelOne, CutoffAssumption
  <2>5. Root(c).first = EndTurn BY DEF Root
  <2>. QED BY <2>2, <2>3, <2>4, <2>5 DEF Attained
<1>2. ASSUME NEW j \in Untried, Calls(j) PROVE Attained'
  <2>. DEFINE n == Len(stack)
              q == Successor(c, NodeAt(n), Options(c)[j])
  <2>1. /\ c' = c /\ n \in Nat \ {0} /\ Len(stack') = n + 1
        /\ \A m : m = n + 1 => NodeAt(m)' = q
        /\ stack'[n + 1].st = PickUp(c, NewState(c, Top.st, Options(c)[j]))
    BY <1>2, TryShape
  <2>2. n + 1 \in 1 .. MaxActionNumber /\ n + 1 # 1
    BY <1>2, <2>1, TryType, CutoffAssumption DEF Calls
  <2>3. q \in Level(c)[n + 1]
    <3>1. PICK m \in 1 .. Len(stack') : m = n + 1 BY <2>1
    <3>2. NodeAt(m)' \in Level(c')[m] BY <3>1 DEF OnTree
    <3>. QED BY <2>1, <3>1, <3>2
  <2>4. /\ q.st = PickUp(c, NewState(c, Top.st, Options(c)[j]))
        /\ q.first = cur_action'
    <3>1. PICK m : m = n + 1 OBVIOUS
    <3>2. NodeAt(m)'.st = stack'[m].st /\ NodeAt(m)'.first = cur_action'
      BY <2>1, <3>1 DEF NodeAt
    <3>. QED BY <2>1, <3>1, <3>2
  <2>5. CASE best_score' = best_score /\ best_action' = best_action
    <3>1. stack # << >> BY <1>2 DEF Calls
    <3>. QED BY <2>1, <2>5, <3>1 DEF Attained
  <2>6. CASE /\ best_score' = Score(c, q.st) /\ best_action' = cur_action'
    <3>. HIDE DEF q
    <3>. QED BY <2>1, <2>2, <2>3, <2>4, <2>6 DEF Attained
  <2>. QED BY <1>2, <2>4, <2>5, <2>6, CallBest
<1>3. CASE Return
  <2>1. c' = c BY <1>3, ReturnShape
  <2>. QED BY <1>3, <2>1 DEF Return, Attained
<1>4. CASE UNCHANGED vars
  BY <1>4 DEF vars, Attained, c
<1>. QED BY <1>1, <1>2, <1>3, <1>4, StepCases

(* A candidate of a node is a position in Options whose continuation is    *)
(* possible there.                                                         *)
LEMMA CandidateType ==
  ASSUME TypeOK, NEW r, NEW j \in Candidates(c, r)
  PROVE  /\ j \in Nat \ {0} /\ j <= Len(Options(c))
         /\ Possible(c, r.st, r.points, Options(c)[j])
<1>1. Options(c) \in Seq(OptionsOf(c)) BY HereValid, OptionsType
<1>. QED BY <1>1 DEF Candidates

(* The parts of Finished that speak of the nodes alone survive a rise of   *)
(* best_score.                                                             *)
LEMMA CoveredStep ==
  ASSUME TypeOK, TypeOK', StackIsPlan, Endpoints, Compared, Covered,
         [Next]_vars
  PROVE  Covered'
<1>1. CASE Run
  <2>1. cur_action = EndTurn BY <1>1 DEF Run, Endpoints
  <2>2. c' = c /\ Len(stack') = 1 /\ stack'[1].next = 1
    BY <1>1, <2>1, RunShape
  <2>3. returned' = FALSE BY <1>1 DEF Run, Activate
  <2>4. \A i \in 1 .. Len(stack') : Searched(i)' = {}
    <3>1. SUFFICES ASSUME NEW i \in 1 .. Len(stack'), NEW j \in Searched(i)'
                   PROVE  FALSE
      OBVIOUS
    <3>2. i = 1 BY <2>2
    <3>3. j \in Candidates(c', NodeAt(i)') /\ j < stack'[i].next
      BY DEF Searched
    <3>4. j \in Nat \ {0} BY <2>2, <3>3, CandidateType
    <3>. QED BY <2>2, <3>2, <3>3, <3>4
  <2>5. Finished({})' BY <2>3, <2>4 DEF Finished
  <2>. QED BY <2>5 DEF Covered
<1>2. ASSUME NEW j \in Untried, Calls(j) PROVE Covered'
  <2>. DEFINE n == Len(stack)
  <2>1. /\ c' = c /\ n \in Nat \ {0} /\ Len(stack') = n + 1
        /\ \A i \in 1 .. n : NodeAt(i)' = NodeAt(i)
        /\ \A i \in 1 .. n - 1 : stack'[i].next = stack[i].next
        /\ stack'[n].next = j + 1
        /\ stack'[n + 1].next = 1
    BY <1>2, TryShape
  <2>2. PICK S : Finished(S) BY DEF Covered
  <2>3. best_score \in Int /\ best_score' \in Int /\ best_score <= best_score'
    BY <1>2, CallBest DEF TypeOK
  <2>4. returned' = FALSE BY <1>2 DEF Calls, Activate, Endpoints, TypeOK
  <2>5. j \in Nat /\ n < MaxActionNumber BY <1>2, TryType DEF Calls
  <2>6. ASSUME NEW i \in 1 .. Len(stack'), NEW k \in Searched(i)'
        PROVE  i \in 1 .. n /\ k \in Searched(i)
    <3>1. /\ k \in Candidates(c', NodeAt(i)') /\ k < stack'[i].next
          /\ i < Len(stack') => k # stack'[i].next - 1
      BY DEF Searched
    <3>2. k \in Nat \ {0} BY <2>1, <3>1, CandidateType
    <3>3. i # n + 1 BY <2>1, <3>1, <3>2
    <3>4. i \in 1 .. n /\ i < Len(stack') BY <2>1, <3>3
    <3>5. k \in Candidates(c, NodeAt(i)) BY <2>1, <3>1, <3>4
    <3>6. CASE i # n
      <4>1. i \in 1 .. n - 1 BY <2>1, <3>4, <3>6
      <4>. QED BY <2>1, <3>1, <3>4, <3>5, <4>1 DEF Searched
    <3>7. CASE i = n
      <4>1. k < j BY <2>1, <2>5, <3>1, <3>2, <3>4, <3>7
      <4>2. NodeAt(n).st = Top.st /\ NodeAt(n).points = Top.points
        BY DEF NodeAt, Top
      <4>3. k <= Len(Options(c)) /\ Possible(c, Top.st, Top.points, Options(c)[k])
        BY <3>5, <3>7, <4>2, CandidateType
      <4>4. k \notin Untried BY <1>2, <2>5, <3>2, <4>1 DEF Calls
      <4>5. Top.next \in Nat \ {0} BY <1>2, TryType DEF Calls, Frames, Frame
      <4>6. Options(c) \in Seq(OptionsOf(c)) BY HereValid, OptionsType
      <4>7. Untried = {m \in Top.next .. Len(Options(c)) :
                         Possible(c, Top.st, Top.points, Options(c)[m])}
        BY <2>5, <2>1, CutoffAssumption DEF Untried
      <4>8. k < Top.next BY <3>2, <4>3, <4>4, <4>5, <4>6, <4>7
      <4>. QED BY <3>4, <3>5, <3>7, <4>8 DEF Searched, Top
    <3>. QED BY <3>4, <3>6, <3>7
  <2>7. Finished(S)'
    <3>1. \A r, d : <<r, d>> \in S =>
            Score(c', r.st) \in Int /\ Score(c', r.st) <= best_score'
      BY <2>1, <2>2, <2>3 DEF Finished
    <3>2. \A d \in 1 .. MaxActionNumber : \A r :
            <<r, d>> \in S /\ d < MaxActionNumber =>
              \A k \in Candidates(c', r) :
                <<Successor(c', r, Options(c')[k]), d + 1>> \in S
      BY <2>1, <2>2 DEF Finished
    <3>3. ASSUME NEW i \in 1 .. Len(stack'), NEW k \in Searched(i)'
          PROVE  <<Successor(c', NodeAt(i)', Options(c')[k]), i + 1>> \in S
      <4>1. i \in 1 .. n /\ k \in Searched(i) BY <2>6
      <4>2. <<Successor(c, NodeAt(i), Options(c)[k]), i + 1>> \in S
        BY <2>2, <4>1 DEF Finished
      <4>. QED BY <2>1, <4>1, <4>2
    <3>. QED BY <2>4, <3>1, <3>2, <3>3 DEF Finished
  <2>. QED BY <2>7 DEF Covered
<1>3. CASE Return
  <2>. DEFINE n == Len(stack)
  <2>1. /\ c' = c /\ n \in Nat \ {0} /\ Len(stack') = n - 1
        /\ \A i \in 1 .. n - 1 :
              stack'[i] = stack[i] /\ NodeAt(i)' = NodeAt(i)
    BY <1>3, ReturnShape
  <2>2. PICK S : Finished(S) BY DEF Covered
  <2>3. best_score' = best_score BY <1>3 DEF Return
  <2>. PICK R : R = S \union {<<NodeAt(n), n>>} OBVIOUS
  <2>4. NodeAt(n).st = Top.st /\ NodeAt(n).points = Top.points
    BY DEF NodeAt, Top
  <2>5. ASSUME n < MaxActionNumber, NEW k \in Candidates(c, NodeAt(n))
        PROVE  <<Successor(c, NodeAt(n), Options(c)[k]), n + 1>> \in S
    <3>1. /\ k \in Nat \ {0} /\ k <= Len(Options(c))
          /\ Possible(c, Top.st, Top.points, Options(c)[k])
      BY <2>4, <2>5, CandidateType
    <3>2. stack \in Seq(Frames) BY DEF TypeOK, Frames
    <3>3. Top.next \in Nat \ {0}
      <4>1. Top \in Frames BY <2>1, <3>2 DEF Top
      <4>. QED BY <4>1 DEF Frames, Frame
    <3>4. Options(c) \in Seq(OptionsOf(c)) BY HereValid, OptionsType
    <3>5. {m \in Top.next .. Len(Options(c)) :
             Possible(c, Top.st, Top.points, Options(c)[m])} = {}
      BY <1>3, <2>1, <2>5, CutoffAssumption DEF Return, Untried
    <3>6. k < Top.next BY <3>1, <3>3, <3>4, <3>5
    <3>7. k \in Searched(n) BY <2>1, <2>5, <3>6 DEF Searched, Top
    <3>. QED BY <2>1, <2>2, <3>7 DEF Finished
  <2>6. \A r, d : <<r, d>> \in R =>
          Score(c', r.st) \in Int /\ Score(c', r.st) <= best_score'
    <3>1. Score(c, NodeAt(n).st) \in Int /\ Score(c, NodeAt(n).st) <= best_score
      BY <2>1 DEF Compared, NodeAt
    <3>. HIDE DEF n
    <3>. QED BY <2>1, <2>2, <2>3, <3>1 DEF Finished
  <2>7. ASSUME NEW d \in 1 .. MaxActionNumber, NEW r, <<r, d>> \in R,
               d < MaxActionNumber, NEW k \in Candidates(c', r)
        PROVE  <<Successor(c', r, Options(c')[k]), d + 1>> \in R
    <3>1. CASE <<r, d>> \in S
      BY <2>1, <2>2, <2>7, <3>1 DEF Finished
    <3>2. CASE r = NodeAt(n) /\ d = n
      BY <2>1, <2>5, <2>7, <3>2
    <3>. QED BY <2>7, <3>1, <3>2
  <2>8. ASSUME NEW i \in 1 .. Len(stack'), NEW k \in Searched(i)'
        PROVE  <<Successor(c', NodeAt(i)', Options(c')[k]), i + 1>> \in R
    <3>1. /\ k \in Candidates(c', NodeAt(i)') /\ k < stack'[i].next
          /\ i \in 1 .. n - 1 /\ i \in 1 .. n /\ i < n
      BY <2>1 DEF Searched
    <3>2. k \in Candidates(c, NodeAt(i)) /\ k < stack[i].next
      BY <2>1, <3>1
    <3>3. CASE k # stack[i].next - 1
      <4>1. k \in Searched(i) BY <3>2, <3>3 DEF Searched
      <4>. QED BY <2>1, <2>2, <3>1, <4>1 DEF Finished
    <3>4. CASE k = stack[i].next - 1 /\ i = n - 1
      <4>1. NodeAt(i + 1) = Successor(c, NodeAt(i), Options(c)[k])
        BY <3>1, <3>4 DEF StackIsPlan
      <4>2. i + 1 = n BY <2>1, <3>4
      <4>. QED BY <2>1, <3>1, <4>1, <4>2
    <3>5. CASE k = stack[i].next - 1 /\ i # n - 1
      <4>1. i < Len(stack') BY <2>1, <3>1, <3>5
      <4>2. k # stack'[i].next - 1 BY <4>1 DEF Searched
      <4>. QED BY <2>1, <3>1, <3>5, <4>2
    <3>. QED BY <3>3, <3>4, <3>5
  <2>9. returned' => <<Root(c'), 1>> \in R
    <3>1. returned' = (n = 1) BY <1>3 DEF Return
    <3>2. n = 1 => NodeAt(n) = Root(c) BY <1>3 DEF StackIsPlan, Return
    <3>3. n = 1 => <<Root(c'), 1>> \in R BY <2>1, <3>2
    <3>. HIDE DEF n
    <3>. QED BY <3>1, <3>3, Zenon
  <2>10. Finished(R)' BY <2>6, <2>7, <2>8, <2>9 DEF Finished
  <2>. QED BY <2>10 DEF Covered
<1>4. CASE UNCHANGED vars
  <2>1. PICK S : Finished(S) BY DEF Covered
  <2>2. Finished(S)' BY <1>4, <2>1 DEF vars, Finished, Searched, NodeAt, c
  <2>. QED BY <2>2 DEF Covered
<1>. QED BY <1>1, <1>2, <1>3, <1>4, StepCases

(* In a plan of two nodes or more cur_action is the option that leads from *)
(* the root to the second.                                                 *)
CurActionPossible ==
    Len(stack) > 1 =>
      \E j \in Candidates(c, Root(c)) : cur_action = Options(c)[j]

(* The plan on the stack begins with cur_action.                           *)
LEMMA PlanStartsWithCurAction ==
  TypeOK /\ StackIsPlan => CurActionPossible
<1>. SUFFICES ASSUME TypeOK, StackIsPlan, Len(stack) > 1
              PROVE  \E j \in Candidates(c, Root(c)) :
                        cur_action = Options(c)[j]
  BY DEF CurActionPossible
<1>1. Len(stack) \in Nat /\ stack # << >> BY DEF TypeOK
<1>2. 1 \in 1 .. Len(stack) - 1 /\ 1 + 1 = 2 BY <1>1
<1>. DEFINE j == stack[1].next - 1
<1>3. /\ NodeAt(1) = Root(c)
      /\ j \in Candidates(c, NodeAt(1))
      /\ NodeAt(2) = Successor(c, NodeAt(1), Options(c)[j])
  BY <1>1, <1>2 DEF StackIsPlan
<1>. HIDE DEF j
<1>4. NodeAt(2).first = cur_action BY DEF NodeAt
<1>5. NodeAt(1).first = EndTurn BY DEF NodeAt
<1>6. Successor(c, NodeAt(1), Options(c)[j]).first = Options(c)[j]
  BY <1>5 DEF Successor
<1>. QED BY <1>3, <1>4, <1>6

(* Every step keeps best_action END_TURN or an action that is possible at  *)
(* once.                                                                   *)
LEMMA BestPossibleStep ==
  ASSUME TypeOK, TypeOK', StackIsPlan, StackIsPlan', Endpoints, BestPossible,
         [Next]_vars
  PROVE  BestPossible'
<1>1. CASE Run
  <2>1. best_action' = EndTurn BY <1>1, RunScore
  <2>. QED BY <2>1 DEF BestPossible
<1>2. ASSUME NEW j \in Untried, Calls(j) PROVE BestPossible'
  <2>1. c' = c /\ Len(stack) \in Nat \ {0} /\ Len(stack') = Len(stack) + 1
    BY <1>2, TryShape
  <2>2. \/ best_action' = best_action
        \/ best_action' = cur_action'
    BY <1>2, CallBest
  <2>3. \E k \in Candidates(c', Root(c')) : cur_action' = Options(c')[k]
    <3>1. Len(stack') > 1 BY <2>1
    <3>2. CurActionPossible' BY PlanStartsWithCurAction, PTL
    <3>. QED BY <3>1, <3>2 DEF CurActionPossible
  <2>4. stack # << >> BY <1>2 DEF Calls
  <2>. QED BY <2>1, <2>2, <2>3, <2>4 DEF BestPossible
<1>3. CASE Return
  <2>1. c' = c BY <1>3, ReturnShape
  <2>. QED BY <1>3, <2>1 DEF Return, BestPossible
<1>4. CASE UNCHANGED vars
  BY <1>4 DEF vars, BestPossible, c
<1>. QED BY <1>1, <1>2, <1>3, <1>4, StepCases

(* What an action leaves in the trooper's hands, and what the bonuses of   *)
(* the next cell add to it.                                                *)
LEMMA SpentStays ==
  ASSUME NEW x, ValidContext(x), NEW st \in State(Standable(x)),
         NEW o \in OptionsOf(x), Allowed(x, st, o), Spent(st), NEW s,
         s = PickUp(x, NewState(x, st, o))
  PROVE  /\ Spent(s) /\ Remembers(s, o.act)
         /\ \A act : Remembers(st, act) => Remembers(s, act)
<1>. DEFINE n == NewState(x, st, o)
            grenade == o.act = "THROW_GRENADE"
            ration  == o.act = "EAT_FIELD_RATION"
<1>1. n \in State(Standable(x)) BY NewStateType
<1>2. /\ grenade => n.used_grenade /\ ~n.has_grenade
      /\ ~grenade => n.used_grenade = st.used_grenade
                      /\ n.has_grenade = st.has_grenade
      /\ ration => n.used_field_ration /\ ~n.has_field_ration
      /\ ~ration => n.used_field_ration = st.used_field_ration
                     /\ n.has_field_ration = st.has_field_ration
  <2>1. CASE o.act = "USE_MEDIKIT"
    BY <2>1 DEF NewState, AfterMedikit, State
  <2>2. CASE o.act = "THROW_GRENADE"
    BY <2>2 DEF NewState, AfterGrenade, State
  <2>3. CASE o.act = "HEAL"
    BY <2>3 DEF NewState, AfterHeal, State
  <2>4. CASE o.act = "SHOOT"
    BY <2>4 DEF NewState, AfterShot, State
  <2>5. CASE o.act = "MOVE"
    BY <2>5 DEF NewState, AfterMove, State
  <2>6. CASE o.act = "RAISE_STANCE" BY <2>6 DEF NewState, State
  <2>7. CASE o.act = "LOWER_STANCE" BY <2>7 DEF NewState, State
  <2>8. CASE o.act = "EAT_FIELD_RATION"
    BY <2>8 DEF NewState, AfterRation, State
  <2>. QED
    BY <2>1, <2>2, <2>3, <2>4, <2>5, <2>6, <2>7, <2>8
       DEF OptionsOf, Action, ActionTypes
<1>. HIDE DEF n
<1>3. /\ s.used_grenade = n.used_grenade
      /\ s.used_field_ration = n.used_field_ration
      /\ s.has_grenade => n.has_grenade \/ ~n.used_grenade
      /\ s.has_field_ration => n.has_field_ration \/ ~n.used_field_ration
  <2>. DEFINE m == BonusAt(x, n.pos, "MEDIKIT")
              g == BonusAt(x, n.pos, "GRENADE")
              f == BonusAt(x, n.pos, "FIELD_RATION")
  <2>1. s = [ n EXCEPT !.has_medkit = @ \/ m,
                       !.has_field_ration = @ \/ (f /\ ~n.used_field_ration),
                       !.has_grenade = @ \/ (g /\ ~n.used_grenade) ]
    BY DEF PickUp, n
  <2>2. m \in BOOLEAN /\ g \in BOOLEAN /\ f \in BOOLEAN BY DEF BonusAt
  <2>. HIDE DEF m, g, f
  <2>. QED BY <1>1, <2>1, <2>2 DEF State
<1>. QED BY <1>2, <1>3 DEF Spent, Remembers

(* Every step keeps Remembered: a call adds to what its state remembers,   *)
(* and a callee's memory is not its caller's.                              *)
LEMMA RememberedStep ==
  TypeOK /\ StackIsPlan /\ Endpoints /\ Remembered /\ [Next]_vars
    => Remembered'
<1>. SUFFICES ASSUME TypeOK, StackIsPlan, Endpoints, Remembered, [Next]_vars
              PROVE  Remembered'
  OBVIOUS
<1>1. CASE Run
  <2>1. cur_action = EndTurn BY <1>1 DEF Run, Endpoints
  <2>2. Len(stack') = 1 /\ stack'[1].st = Root(c).st
    BY <1>1, <2>1, RunShape
  <2>3. InitialState(c) \in State(Standable(c))
    BY HereValid, InitialStateType
  <2>4. /\ InitialState(c).used_grenade = FALSE
        /\ InitialState(c).used_field_ration = FALSE
    BY DEF InitialState
  <2>5. Spent(Root(c).st) BY <2>3, <2>4, PickUpType DEF Root, Spent
  <2>. QED BY <2>2, <2>5 DEF Remembered
<1>2. ASSUME NEW j \in Untried, Calls(j) PROVE Remembered'
  <2>. DEFINE n == Len(stack)
              o == Options(c)[j]
  <2>1. /\ c' = c /\ n \in Nat \ {0} /\ Len(stack') = n + 1
        /\ \A i \in 1 .. n : NodeAt(i)' = NodeAt(i)
        /\ \A i \in 1 .. n - 1 : stack'[i].next = stack[i].next
        /\ stack'[n].next = j + 1
        /\ stack'[n + 1].st = PickUp(c, NewState(c, Top.st, o))
    BY <1>2, TryShape
  <2>2. /\ Top \in Frames /\ j \in Nat /\ o \in OptionsOf(c)
        /\ Allowed(c, Top.st, o)
    BY <1>2, TryType DEF Calls, Possible
  <2>3. Top.st \in State(Standable(c)) /\ Top.st = stack[n].st
    BY <2>2 DEF Frames, Frame, Top
  <2>. DEFINE s == stack'[n + 1].st
  <2>. HIDE DEF o, n
  <2>4. Spent(Top.st) BY <2>1, <2>3 DEF Remembered, n
  <2>5. /\ Spent(s) /\ Remembers(s, o.act)
        /\ \A act : Remembers(Top.st, act) => Remembers(s, act)
    BY <2>1, <2>2, <2>3, <2>4, HereValid, SpentStays
  <2>6. \A i \in 1 .. n : stack'[i].st = stack[i].st
    <3>1. \A i \in 1 .. n : NodeAt(i).st = stack[i].st
                             /\ NodeAt(i)'.st = stack'[i].st
      BY DEF NodeAt
    <3>. QED BY <2>1, <3>1
  <2>7. ASSUME NEW k \in 1 .. n + 1 PROVE Spent(stack'[k].st)
    <3>1. CASE k = n + 1 BY <2>5, <3>1
    <3>2. CASE k # n + 1
      <4>1. k \in 1 .. n BY <2>1, <3>2
      <4>. QED BY <2>6, <4>1 DEF Remembered, n
    <3>. QED BY <3>1, <3>2
  <2>8. ASSUME NEW k \in 1 .. n + 1, NEW i \in 1 .. k - 1
        PROVE  Remembers(stack'[k].st, Options(c)[stack'[i].next - 1].act)
    <3>1. CASE k = n + 1 /\ i = n
      <4>1. stack'[i].next - 1 = j BY <2>1, <2>2, <3>1
      <4>. QED BY <2>5, <3>1, <4>1 DEF o
    <3>2. CASE k = n + 1 /\ i # n
      <4>1. i \in 1 .. n - 1 /\ n \in 1 .. n BY <2>1, <3>2
      <4>2. Remembers(Top.st, Options(c)[stack[i].next - 1].act)
        BY <2>3, <4>1 DEF Remembered, n
      <4>. QED BY <2>1, <2>5, <3>2, <4>1, <4>2
    <3>3. CASE k # n + 1
      <4>1. k \in 1 .. n /\ i \in 1 .. n - 1 BY <2>1, <3>3
      <4>2. Remembers(stack[k].st, Options(c)[stack[i].next - 1].act)
        BY <4>1 DEF Remembered, n
      <4>. QED BY <2>1, <2>6, <4>1, <4>2
    <3>. QED BY <3>1, <3>2, <3>3
  <2>. QED BY <2>1, <2>7, <2>8 DEF Remembered
<1>3. CASE Return
  <2>1. /\ c' = c /\ Len(stack) \in Nat \ {0}
        /\ Len(stack') = Len(stack) - 1
        /\ \A i \in 1 .. Len(stack) - 1 : stack'[i] = stack[i]
    BY <1>3, ReturnShape
  <2>2. ASSUME NEW k \in 1 .. Len(stack')
        PROVE  /\ Spent(stack'[k].st)
               /\ \A i \in 1 .. k - 1 :
                    Remembers(stack'[k].st,
                              Options(c)[stack'[i].next - 1].act)
    <3>1. k \in 1 .. Len(stack) - 1 /\ k \in 1 .. Len(stack) BY <2>1
    <3>2. \A i \in 1 .. k - 1 : i \in 1 .. Len(stack) - 1 BY <2>1, <3>1
    <3>. QED BY <2>1, <3>1, <3>2 DEF Remembered
  <2>. QED BY <2>1, <2>2 DEF Remembered
<1>4. CASE UNCHANGED vars
  BY <1>4 DEF vars, Remembered, c
<1>. QED BY <1>1, <1>2, <1>3, <1>4, StepCases

(* The inductive invariant holds before run() is called.                   *)
LEMMA InitInvariant == Init => IInv
<1>. SUFFICES ASSUME Init PROVE IInv OBVIOUS
<1>1. stack = << >> /\ Len(stack) = 0 /\ returned = FALSE BY DEF Init
<1>2. StackIsPlan BY <1>1 DEF StackIsPlan
<1>3. Endpoints BY DEF Init, Endpoints
<1>4. OnTree /\ Compared /\ Attained
  BY <1>1 DEF OnTree, Compared, Attained
<1>5. Finished({}) BY <1>1 DEF Finished
<1>6. BestPossible BY <1>1 DEF BestPossible
<1>7. Remembered BY <1>1 DEF Remembered
<1>. QED
  BY <1>2, <1>3, <1>4, <1>5, <1>6, <1>7, InitType DEF IInv, Covered

(* Every step keeps the inductive invariant.                               *)
LEMMA InvariantStep == IInv /\ [Next]_vars => IInv'
<1>. SUFFICES ASSUME IInv, [Next]_vars PROVE IInv' OBVIOUS
<1>1. TypeOK' /\ StackIsPlan' /\ Endpoints'
  BY NextType, StackIsPlanStep, EndpointsStep DEF IInv
<1>2. OnTree' BY OnTreeStep DEF IInv
<1>3. Compared' /\ Attained' /\ Covered'
  BY <1>1, <1>2, ComparedStep, AttainedStep, CoveredStep DEF IInv
<1>4. BestPossible' BY <1>1, BestPossibleStep DEF IInv
<1>5. Remembered' BY RememberedStep DEF IInv
<1>. QED BY <1>1, <1>2, <1>3, <1>4, <1>5 DEF IInv

(* The plan on the stack is a real one at every depth of the recursion.    *)
THEOREM StackAlwaysPlan == Spec => []StackIsPlan
<1>1. IInv => StackIsPlan BY DEF IInv
<1>. QED BY <1>1, InitInvariant, InvariantStep, PTL DEF Spec

(* A plan throws at most one grenade and eats at most one field ration,    *)
(* however many lie on its way: the second time it would not be allowed.   *)
THEOREM OneOfEach == Spec => []OneOfEachPerPlan
<1>1. ASSUME IInv, NEW i \in 1 .. Len(stack) - 1,
             NEW k \in 1 .. Len(stack) - 1, i < k,
             PlanInProgress[i].act = PlanInProgress[k].act,
             PlanInProgress[i].act \in {"THROW_GRENADE", "EAT_FIELD_RATION"}
      PROVE  FALSE
  <2>1. TypeOK /\ StackIsPlan /\ Remembered BY <1>1 DEF IInv
  <2>2. Len(stack) \in Nat BY <2>1 DEF TypeOK
  <2>. DEFINE p == Options(c)[stack[i].next - 1]
              q == Options(c)[stack[k].next - 1]
  <2>3. p = PlanInProgress[i] /\ q = PlanInProgress[k]
    BY DEF PlanInProgress
  <2>4. k \in 1 .. Len(stack) /\ i \in 1 .. k - 1 BY <1>1, <2>2
  <2>5. Spent(stack[k].st) /\ Remembers(stack[k].st, p.act)
    BY <2>1, <2>4 DEF Remembered
  <2>6. Allowed(c, stack[k].st, q)
    BY <2>1 DEF StackIsPlan, Candidates, Possible, NodeAt
  <2>. HIDE DEF p, q
  <2>7. q.act = p.act /\ q.act \in {"THROW_GRENADE", "EAT_FIELD_RATION"}
    BY <1>1, <2>3
  <2>8. CASE q.act = "THROW_GRENADE"
    BY <2>5, <2>6, <2>7, <2>8 DEF Allowed, Spent, Remembers
  <2>9. CASE q.act = "EAT_FIELD_RATION"
    BY <2>5, <2>6, <2>7, <2>9 DEF Allowed, Spent, Remembers
  <2>. QED BY <2>7, <2>8, <2>9
<1>2. ASSUME IInv PROVE OneOfEachPerPlan
  <2>1. DOMAIN PlanInProgress = 1 .. Len(stack) - 1 BY DEF PlanInProgress
  <2>2. Len(stack) \in Nat BY <1>2 DEF IInv, TypeOK
  <2>3. ASSUME NEW i \in DOMAIN PlanInProgress,
               NEW k \in DOMAIN PlanInProgress,
               PlanInProgress[i].act = PlanInProgress[k].act,
               PlanInProgress[i].act
                 \in {"THROW_GRENADE", "EAT_FIELD_RATION"}
        PROVE  i = k
    <3>1. i \in 1 .. Len(stack) - 1 /\ k \in 1 .. Len(stack) - 1 BY <2>1
    <3>2. ~(i < k) BY <1>1, <1>2, <2>3, <3>1
    <3>3. ~(k < i) BY <1>1, <1>2, <2>3, <3>1
    <3>. QED BY <2>2, <3>1, <3>2, <3>3
  <2>. QED BY <2>3 DEF OneOfEachPerPlan
<1>. QED BY <1>1, <1>2, InitInvariant, InvariantStep, PTL DEF Spec

(* What the invariant says of the answer.                                  *)
AnswerIsBest ==
    returned => /\ best_action \in BestFirstActions(c)
                /\ best_action # NoAction

(* When run() returns, the whole plan tree is covered: best_score is the   *)
(* greatest score in it and best_action begins a plan that has it.         *)
LEMMA ReturnedBest ==
  ASSUME IInv, returned
  PROVE  best_action \in BestFirstActions(c)
<1>1. PICK S : Finished(S) BY DEF IInv, Covered
<1>2. \A d \in 1 .. MaxActionNumber : \A r \in Level(c)[d] : <<r, d>> \in S
  <2>1. <<Root(c), 1>> \in S BY <1>1 DEF Finished
  <2>2. \A d \in 1 .. MaxActionNumber : \A r :
          <<r, d>> \in S /\ d < MaxActionNumber =>
            \A j \in Candidates(c, r) :
              <<Successor(c, r, Options(c)[j]), d + 1>> \in S
    BY <1>1 DEF Finished
  <2>. QED BY <2>1, <2>2, ClosedCoversLevels
<1>3. \A r \in Outcomes(c) :
        Score(c, r.st) \in Int /\ Score(c, r.st) <= best_score
  BY <1>1, <1>2 DEF Finished, Outcomes
<1>4. PICK q \in Outcomes(c) :
        q.first = best_action /\ Score(c, q.st) = best_score
  BY DEF IInv, Attained, Outcomes
<1>. DEFINE scores == {Score(c, o.st) : o \in Outcomes(c)}
            best   == CHOOSE s \in scores : \A t \in scores : t <= s
<1>5. /\ best_score \in scores /\ best_score \in Int
      /\ \A t \in scores : t \in Int /\ t <= best_score
  BY <1>3, <1>4
<1>. HIDE DEF scores
<1>6. best \in scores /\ \A t \in scores : t <= best BY <1>5
<1>7. best = best_score
  <2>1. best \in Int /\ best <= best_score /\ best_score <= best
    BY <1>5, <1>6
  <2>. HIDE DEF best
  <2>. QED BY <1>5, <2>1
<1>8. best_action \in
        {o.first : o \in {r \in Outcomes(c) : Score(c, r.st) = best}}
  BY <1>4, <1>7
<1>. QED BY <1>8 DEF BestFirstActions, scores

(* What run() returns is an action, never an unfilled Move.                *)
LEMMA ReturnedAction ==
  ASSUME IInv, returned
  PROVE  best_action # NoAction
<1>1. \/ best_action = EndTurn
      \/ \E j \in Candidates(c, Root(c)) : best_action = Options(c)[j]
  BY DEF IInv, BestPossible
<1>2. \A j \in Candidates(c, Root(c)) : Options(c)[j] \in Action
  BY OptionType DEF IInv, Candidates
<1>. QED BY <1>1, <1>2 DEF NoAction, EndTurn, Action, ActionTypes

(* The invariant makes the answer a best one.                              *)
LEMMA ReturnsBest == IInv => AnswerIsBest
BY ReturnedBest, ReturnedAction DEF AnswerIsBest

(* The search never changes the object it works on.                        *)
LEMMA CtxFixed == [Next]_vars => ctx' = ctx
BY StepCases DEF Run, Calls, Activate, Return, vars

(* Nothing changes once run() has returned.                                *)
LEMMA ReturnedStays ==
  ASSUME Endpoints, [Next]_vars, returned
  PROVE  UNCHANGED vars
<1>1. stack = << >> BY DEF Endpoints
<1>. QED BY <1>1, StepCases DEF Run, Calls, Return

(* run() returns only the first action of a plan that no plan within the   *)
(* cutoff beats: the search implements the safety part of BestPlan.        *)
THEOREM ImplementsBestPlan == Spec => AnswersWithBestPlan
<1>1. Init => BP!Init
  BY DEF Init, BP!Init, answer
<1>2. IInv /\ IInv' /\ [Next]_vars => [BP!Decide]_<<ctx, answer>>
  <2>. SUFFICES ASSUME IInv, IInv', [Next]_vars
                PROVE  [BP!Decide]_<<ctx, answer>>
    OBVIOUS
  <2>0. ctx' = ctx BY CtxFixed
  <2>1. CASE returned' /\ ~returned
    <3>1. answer = NoAction /\ answer' = best_action'
      BY <2>1 DEF answer
    <3>2. AnswerIsBest' BY ReturnsBest, PTL
    <3>3. /\ best_action' \in BestFirstActions(c')
          /\ best_action' # NoAction
      BY <2>1, <3>2 DEF AnswerIsBest
    <3>4. c' = Contexts[ctx] /\ ctx \in DOMAIN Contexts
      BY <2>0 DEF c, IInv, TypeOK
    <3>. QED BY <2>0, <3>1, <3>3, <3>4 DEF BP!Decide
  <2>2. CASE ~returned' /\ ~returned
    BY <2>0, <2>2 DEF answer
  <2>3. CASE returned
    <3>1. UNCHANGED vars BY <2>3, ReturnedStays DEF IInv
    <3>. QED BY <3>1 DEF vars, answer
  <2>. QED BY <2>1, <2>2, <2>3
<1>. QED
  BY <1>1, <1>2, InitInvariant, InvariantStep, PTL
     DEF Spec, AnswersWithBestPlan, BP!Safety
--------------------------------------------------------------------------
(* The answer can be executed *)

(* A neighbouring cell is at distance one.                                 *)
LEMMA NeighbourIsClose ==
  ASSUME NEW p \in Int \X Int, NEW q \in Int \X Int, HasNeigh(p, q)
  PROVE  SquaredDistance(p, q) <= 1
<1>. DEFINE dx == q[1] - p[1]
            dy == q[2] - p[2]
<1>1. /\ dx \in Int /\ dy \in Int
      /\ (dx = 0 /\ (dy = 1 \/ dy = -1)) \/ (dy = 0 /\ (dx = 1 \/ dx = -1))
  BY DEF HasNeigh, Magnitude
<1>2. SquaredDistance(p, q) = dx * dx + dy * dy BY DEF SquaredDistance
<1>. HIDE DEF dx, dy
<1>3. dx * dx + dy * dy = 1 BY <1>1
<1>. QED BY <1>2, <1>3

(* Picking up bonuses gives a plan what it held or what lies on its cell.  *)
LEMMA PickUpFields ==
  ASSUME NEW x, NEW P, NEW st \in State(P)
  PROVE  /\ PickUp(x, st).pos = st.pos
         /\ PickUp(x, st).stance = st.stance
         /\ PickUp(x, st).has_medkit =>
              st.has_medkit \/ BonusAt(x, st.pos, "MEDIKIT")
         /\ PickUp(x, st).has_grenade =>
              st.has_grenade \/ BonusAt(x, st.pos, "GRENADE")
         /\ PickUp(x, st).has_field_ration =>
              st.has_field_ration \/ BonusAt(x, st.pos, "FIELD_RATION")
<1>. DEFINE m == BonusAt(x, st.pos, "MEDIKIT")
            g == BonusAt(x, st.pos, "GRENADE")
            f == BonusAt(x, st.pos, "FIELD_RATION")
<1>1. m \in BOOLEAN /\ g \in BOOLEAN /\ f \in BOOLEAN BY DEF BonusAt
<1>2. PickUp(x, st) =
        [ st EXCEPT !.has_medkit = @ \/ m,
                    !.has_field_ration = @ \/ (f /\ ~st.used_field_ration),
                    !.has_grenade = @ \/ (g /\ ~st.used_grenade) ]
  BY DEF PickUp
<1>. HIDE DEF m, g, f
<1>3. /\ PickUp(x, st).pos = st.pos
      /\ PickUp(x, st).stance = st.stance
      /\ PickUp(x, st).has_medkit => st.has_medkit \/ m
      /\ PickUp(x, st).has_grenade => st.has_grenade \/ g
      /\ PickUp(x, st).has_field_ration => st.has_field_ration \/ f
  BY <1>1, <1>2 DEF State
<1>. QED BY <1>3 DEF m, g, f

(* What the empty plan's node says of the trooper that moves.              *)
LEMMA RootFields ==
  ASSUME TypeOK
  PROVE  /\ Root(c).st.pos = c.self.pos
         /\ Root(c).st.stance = c.self.stance
         /\ Root(c).points = c.self.actionPoints
         /\ Root(c).st.has_medkit => Holds(c.self.holdingMedikit, "MEDIKIT")
         /\ Root(c).st.has_grenade => Holds(c.self.holdingGrenade, "GRENADE")
         /\ Root(c).st.has_field_ration =>
              Holds(c.self.holdingFieldRation, "FIELD_RATION")
<1>1. InitialState(c) \in State(Standable(c)) BY HereValid, InitialStateType
<1>2. /\ InitialState(c).pos = c.self.pos
      /\ InitialState(c).stance = c.self.stance
      /\ InitialState(c).has_medkit = c.self.holdingMedikit
      /\ InitialState(c).has_grenade = c.self.holdingGrenade
      /\ InitialState(c).has_field_ration = c.self.holdingFieldRation
  BY DEF InitialState
<1>3. /\ Root(c).st = PickUp(c, InitialState(c))
      /\ Root(c).points = c.self.actionPoints
  BY DEF Root
<1>. QED BY <1>1, <1>2, <1>3, PickUpFields DEF Holds

(* A patient who would regain hit points has lost some.                    *)
LEMMA PatientIsHurt ==
  ASSUME TypeOK, NEW n \in 0 .. Len(c.teammates),
         MedikitHeal(c, n) > 0 \/ MedicHeal(c, n) > 0
  PROVE  Patient(c, n).hitpoints < Patient(c, n).maximalHitpoints
<1>1. Patient(c, n) \in Trooper(Cells(c)) BY HereValid, PatientType
<1>. DEFINE missing == Patient(c, n).maximalHitpoints - Patient(c, n).hitpoints
<1>2. /\ Patient(c, n).maximalHitpoints \in Int
      /\ Patient(c, n).hitpoints \in Int
  BY <1>1 DEF Trooper
<1>3. /\ Game.medikitBonusHitpoints \in Int
      /\ Game.medikitHealSelfBonusHitpoints \in Int
      /\ Game.fieldMedicHealBonusHitpoints \in Int
      /\ Game.fieldMedicHealSelfBonusHitpoints \in Int
  BY GameAssumption DEF GameParameters
<1>4. missing > 0
  BY <1>2, <1>3 DEF MedikitHeal, MedicHeal, Healed
<1>. QED BY <1>2, <1>4

(* Cells are pairs of integers.                                            *)
LEMMA CellType == ASSUME TypeOK PROVE Cells(c) \subseteq Int \X Int
<1>1. c.width \in Nat /\ c.height \in Nat BY HereValid DEF ValidContext
<1>. QED BY <1>1 DEF Cells, Points

(* A patient within reach of the trooper that moves is at most one cell    *)
(* away.                                                                   *)
LEMMA PatientIsClose ==
  ASSUME TypeOK, NEW n \in 0 .. Len(c.teammates), Reaches(c, Root(c).st, n)
  PROVE  SquaredDistance(c.self.pos, Patient(c, n).pos) <= 1
<1>1. c.self.pos \in Int \X Int
  BY HereValid, ContextFields, TrooperFields, CellType
<1>2. Patient(c, n).pos \in Int \X Int
  BY HereValid, PatientType, TrooperFields, CellType
<1>3. CASE n = 0
  <2>1. Patient(c, n) = c.self BY <1>3 DEF Patient
  <2>. QED BY <1>1, <2>1 DEF SquaredDistance
<1>4. CASE n # 0
  BY <1>1, <1>2, <1>4, NeighbourIsClose, RootFields DEF Reaches, Patient
<1>. QED BY <1>3, <1>4

(* What run() returns can be executed at once: the trooper holds what it   *)
(* uses, can pay for it, and is where it must be.                          *)
THEOREM FirstActionAlwaysLegal == Spec => []FirstActionLegal
<1>1. IInv => FirstActionLegal
  <2>. SUFFICES ASSUME IInv, returned, best_action # EndTurn
                PROVE  FirstActionLegal
    BY DEF FirstActionLegal
  <2>1. TypeOK BY DEF IInv
  <2>2. PICK j \in Candidates(c, Root(c)) : best_action = Options(c)[j]
    BY DEF IInv, BestPossible
  <2>. DEFINE o == Options(c)[j]
              st == Root(c).st
  <2>3. o \in OptionsOf(c) BY <2>1, HereValid, OptionsType DEF Candidates
  <2>4. Allowed(c, st, o) /\ c.self.actionPoints - Cost(c, st, o) >= 0
    BY <2>1, RootFields DEF Candidates, Possible
  <2>5. best_action = o BY <2>2
  <2>. HIDE DEF o
  <2>6. c.self.actionPoints \in Int /\ Cost(c, st, o) \in Int
    <3>1. c.self.actionPoints \in Nat
      BY <2>1, HereValid, ContextFields, TrooperFields
    <3>2. st \in State(Standable(c)) BY <2>1, RootType
    <3>3. Cost(c, st, o) \in Nat BY <2>1, <2>3, <3>2, HereValid, CostType
    <3>. QED BY <3>1, <3>3
  <2>7. Cost(c, st, o) <= c.self.actionPoints BY <2>4, <2>6
  <2>8. CASE o.act = "USE_MEDIKIT"
    <3>1. o.n \in 0 .. Len(c.teammates) BY <2>3, <2>8 DEF OptionsOf
    <3>2. /\ st.has_medkit /\ Reaches(c, st, o.n)
          /\ MedikitHeal(c, o.n) > 0
          /\ Cost(c, st, o) = Game.medikitUseCost
          /\ TargetCell(o) = Patient(c, o.n).pos
      BY <2>4, <2>8 DEF Allowed, Cost, TargetCell
    <3>3. Patient(c, o.n).hitpoints < Patient(c, o.n).maximalHitpoints
      BY <2>1, <3>1, <3>2, PatientIsHurt
    <3>4. SquaredDistance(c.self.pos, TargetCell(o)) <= 1
      BY <2>1, <3>1, <3>2, PatientIsClose
    <3>5. Holds(c.self.holdingMedikit, "MEDIKIT") BY <2>1, <3>2, RootFields
    <3>. QED
      BY <2>5, <2>7, <2>8, <3>2, <3>3, <3>4, <3>5 DEF FirstActionLegal
  <2>9. CASE o.act = "THROW_GRENADE"
    <3>1. /\ st.has_grenade
          /\ SquaredDistance(st.pos, c.enemies[o.n].pos)
                <= Game.grenadeThrowRange2
          /\ Cost(c, st, o) = Game.grenadeThrowCost
          /\ TargetCell(o) = c.enemies[o.n].pos
      BY <2>4, <2>9 DEF Allowed, Cost, TargetCell
    <3>2. Holds(c.self.holdingGrenade, "GRENADE") BY <2>1, <3>1, RootFields
    <3>3. st.pos = c.self.pos BY <2>1, RootFields
    <3>. QED
      BY <2>5, <2>7, <2>9, <3>1, <3>2, <3>3 DEF FirstActionLegal
  <2>10. CASE o.act = "HEAL"
    <3>1. o.n \in 0 .. Len(c.teammates) BY <2>3, <2>10 DEF OptionsOf
    <3>2. /\ c.self.type = "FIELD_MEDIC" /\ Reaches(c, st, o.n)
          /\ MedicHeal(c, o.n) > 0
          /\ Cost(c, st, o) = Game.fieldMedicHealCost
          /\ TargetCell(o) = Patient(c, o.n).pos
      BY <2>4, <2>10 DEF Allowed, Cost, TargetCell
    <3>3. Patient(c, o.n).hitpoints < Patient(c, o.n).maximalHitpoints
      BY <2>1, <3>1, <3>2, PatientIsHurt
    <3>4. SquaredDistance(c.self.pos, TargetCell(o)) <= 1
      BY <2>1, <3>1, <3>2, PatientIsClose
    <3>. QED
      BY <2>5, <2>7, <2>10, <3>2, <3>3, <3>4 DEF FirstActionLegal
  <2>11. CASE o.act = "SHOOT"
    <3>1. /\ IsVisible(c.visibilities, c.self.range2, st.pos, st.stance,
                       c.enemies[o.n].pos, c.enemies[o.n].stance)
          /\ Cost(c, st, o) = c.self.shootCost
          /\ TargetCell(o) = c.enemies[o.n].pos
      BY <2>4, <2>11 DEF Allowed, Cost, TargetCell
    <3>2. st.pos = c.self.pos /\ st.stance = c.self.stance
      BY <2>1, RootFields
    <3>. QED BY <2>5, <2>7, <2>11, <3>1, <3>2 DEF FirstActionLegal
  <2>12. CASE o.act = "MOVE"
    <3>1. st.pos = c.self.pos /\ st.stance = c.self.stance
      BY <2>1, RootFields
    <3>2. /\ TargetCell(o) \in Cells(c) /\ c.cells[TargetCell(o)] = "FREE"
          /\ Cost(c, st, o) = MoveCost(c.self.stance)
      BY <2>4, <2>12, <3>1 DEF Allowed, Cost, TargetCell
    <3>. QED BY <2>5, <2>7, <2>12, <3>2 DEF FirstActionLegal
  <2>13. CASE o.act \in {"RAISE_STANCE", "LOWER_STANCE"}
    <3>1. st.stance = c.self.stance /\ c.self.stance \in Stances
      BY <2>1, RootFields, HereValid, ContextFields, TrooperFields
    <3>2. Cost(c, st, o) = Game.stanceChangeCost BY <2>13 DEF Cost
    <3>3. \/ o.act = "RAISE_STANCE" /\ c.self.stance < STANDING
          \/ o.act = "LOWER_STANCE" /\ c.self.stance > PRONE
      <4>1. \/ o.act = "RAISE_STANCE" /\ c.self.stance # STANDING
            \/ o.act = "LOWER_STANCE" /\ c.self.stance # PRONE
        BY <2>4, <2>13, <3>1 DEF Allowed
      <4>. QED BY <3>1, <4>1 DEF Stances, PRONE, KNEELING, STANDING
    <3>. QED BY <2>5, <2>7, <3>2, <3>3 DEF FirstActionLegal
  <2>14. CASE o.act = "EAT_FIELD_RATION"
    <3>1. st.has_field_ration /\ Cost(c, st, o) = Game.fieldRationEatCost
      BY <2>4, <2>14 DEF Allowed, Cost
    <3>2. Holds(c.self.holdingFieldRation, "FIELD_RATION")
      BY <2>1, <3>1, RootFields
    <3>. QED BY <2>5, <2>7, <2>14, <3>1, <3>2 DEF FirstActionLegal
  <2>. QED
    BY <2>3, <2>8, <2>9, <2>10, <2>11, <2>12, <2>13, <2>14
       DEF OptionsOf, Action, ActionTypes
<1>. QED BY <1>1, InitInvariant, InvariantStep, PTL DEF Spec
===============================================================================
