------------------------------ MODULE PlanSearch ------------------------------
(***************************************************************************)
(* SlavaStrategy::run and SlavaStrategy::maximize_score: the depth-first   *)
(* search over the plans one trooper can make in one turn.  The recursion  *)
(* is modelled with its call stack: a frame is one activation of           *)
(* maximize_score, holding its by-value parameters and the place its loops *)
(* have got to.  best_action, best_score and cur_action are the members    *)
(* the activations share.                                                  *)
(*                                                                         *)
(* One activation tries its continuations in a fixed order; Options lists  *)
(* them in that order, and a step of the search takes the first of those   *)
(* not tried yet whose guards hold.  Frame i of the stack is the           *)
(* activation with action_number = i.                                      *)
(***************************************************************************)
EXTENDS Plans

VARIABLES
    ctx,              \* which strategy object this is; never changes
    stack,            \* the activations of maximize_score, outermost first
    best_action,      \* first action of the best plan found so far
    best_score,       \* its score
    cur_action,       \* first action of the plan being tried
    returned          \* TRUE once run() has returned best_action

vars == <<ctx, stack, best_action, best_score, cur_action, returned>>

(* The strategy object whose members the search reads.                     *)
c == Contexts[ctx]

(* "next" is the first option the activation has not tried.                *)
Frame(P) == [st: State(P), points: Nat, next: Nat \ {0}]

Init ==
    /\ ctx \in DOMAIN Contexts
    /\ stack = << >>
    /\ best_action = EndTurn
    /\ best_score = -inf
    /\ cur_action = EndTurn
    /\ returned = FALSE
----------------------------------------------------------------------------
Top == stack[Len(stack)]

(* score > best_score: an equally good plan found later is not taken.      *)
Improves(score) == score > best_score

(* Entering maximize_score: pick up the bonuses of the cell and compare    *)
(* the score of ending the turn here with the best so far.                 *)
Activate(callers, st, points, first) ==
    LET s == PickUp(c, st)
    IN  /\ stack' = Append(callers, [st |-> s, points |-> points, next |-> 1])
        /\ cur_action' = first
        /\ IF Improves(Score(c, s))
           THEN best_action' = first /\ best_score' = Score(c, s)
           ELSE UNCHANGED <<best_action, best_score>>
        /\ UNCHANGED <<ctx, returned>>

(* Mutants: the cutoff one action early, and none at all.                  *)
UntriedEarlyCutoff ==
    IF Len(stack) + 1 >= MaxActionNumber THEN {}
    ELSE {j \in Top.next .. Len(Options(c)) :
            Possible(c, Top.st, Top.points, Options(c)[j])}

UntriedNoCutoff ==
    {j \in Top.next .. Len(Options(c)) :
        Possible(c, Top.st, Top.points, Options(c)[j])}

(* The options the top activation has still to try.  The innermost one the *)
(* cutoff allows tries none.                                               *)
Untried ==
    IF Len(stack) = MaxActionNumber THEN {}
    ELSE {j \in Top.next .. Len(Options(c)) :
            Possible(c, Top.st, Top.points, Options(c)[j])}

(* Mutants: every activation sets cur_action; the two outermost ones do.   *)
FirstActionAlways(o) == o

FirstActionTwice(o) == IF Len(stack) <= 2 THEN o ELSE cur_action

(* Only the outermost activation sets cur_action.                          *)
FirstAction(o) == IF Len(stack) = 1 THEN o ELSE cur_action

(* Mutants: the loop steps over an option, or does not advance.            *)
WaitingSkips(j) ==
    [ stack EXCEPT ![Len(stack)] =
        [st |-> Top.st, points |-> Top.points, next |-> j + 2] ]

WaitingRepeats(j) ==
    [ stack EXCEPT ![Len(stack)] =
        [st |-> Top.st, points |-> Top.points, next |-> j] ]

(* The stack once its top activation has taken option j: it waits for the  *)
(* call to return and goes on with the option after j.                     *)
Waiting(j) ==
    [ stack EXCEPT ![Len(stack)] =
        [st |-> Top.st, points |-> Top.points, next |-> j + 1] ]

(* The top activation calls maximize_score for the next option it can      *)
(* take.                                                                   *)
Try(act) ==
    /\ stack # << >>
    /\ \E j \in Untried :
          /\ \A k \in Untried : j <= k
          /\ Options(c)[j].act = act
          /\ Activate(Waiting(j),
                      NewState(c, Top.st, Options(c)[j]),
                      PointsAfter(c, Top.st, Top.points, Options(c)[j]),
                      FirstAction(Options(c)[j]))

Run ==
    /\ stack = << >> /\ ~returned
    /\ Activate(<< >>, InitialState(c), c.self.actionPoints, cur_action)

UseMedikit     == Try("USE_MEDIKIT")
ThrowGrenade   == Try("THROW_GRENADE")
Heal           == Try("HEAL")
Shoot          == Try("SHOOT")
MoveTo         == Try("MOVE")
RaiseStance    == Try("RAISE_STANCE")
LowerTheStance == Try("LOWER_STANCE")
EatFieldRation == Try("EAT_FIELD_RATION")

(* The end of maximize_score, by its last line or by the cutoff.           *)
Return ==
    /\ stack # << >>
    /\ Untried = {}
    /\ stack' = SubSeq(stack, 1, Len(stack) - 1)
    /\ returned' = (Len(stack) = 1)
    /\ UNCHANGED <<ctx, best_action, best_score, cur_action>>

(* run() has returned; nothing more happens until the next move.           *)
Done == returned /\ UNCHANGED vars

Next ==
    \/ Run \/ UseMedikit \/ ThrowGrenade \/ Heal \/ Shoot \/ MoveTo
    \/ RaiseStance \/ LowerTheStance \/ EatFieldRation \/ Return \/ Done

(* A sequential program: the search keeps making its steps.                *)
Spec == Init /\ [][Next]_vars /\ WF_vars(Next)

----------------------------------------------------------------------------
(* Properties *)

(* The variables keep their types: plans stand only on cells the trooper   *)
(* could enter, never run out of action points, and are no deeper than the *)
(* cutoff.                                                                 *)
TypeOK ==
    /\ ctx \in DOMAIN Contexts
    /\ stack \in Seq(Frame(Standable(c)))
    /\ Len(stack) <= MaxActionNumber
    /\ best_action \in Action
    /\ best_score \in Int
    /\ cur_action \in Action
    /\ returned \in BOOLEAN

(* The plan being tried: the option each activation but the innermost is   *)
(* waiting for.                                                            *)
PlanInProgress ==
    [i \in 1 .. Len(stack) - 1 |-> Options(c)[stack[i].next - 1]]

(* A plan throws at most one grenade and eats at most one field ration,    *)
(* however many of them lie on the cells it walks over: used_grenade and   *)
(* used_field_ration stop it from picking up another.                      *)
OneOfEachPerPlan ==
    \A i, k \in DOMAIN PlanInProgress :
        /\ PlanInProgress[i].act = PlanInProgress[k].act
        /\ PlanInProgress[i].act \in {"THROW_GRENADE", "EAT_FIELD_RATION"}
        => i = k

(* The stack always is one plan: the outermost activation evaluates the    *)
(* empty plan, every other the plan of its caller and one more action that *)
(* was possible there, whatever the calls before it did to their copies of *)
(* the state; and cur_action, which they all share, is its first action.   *)
NodeAt(i) ==
    [ st |-> stack[i].st, points |-> stack[i].points,
      first |-> IF i = 1 THEN EndTurn ELSE cur_action ]

StackIsPlan ==
    /\ stack # << >> => NodeAt(1) = Root(c)
    /\ \A i \in 1 .. Len(stack) - 1 :
          /\ stack[i].next - 1 \in Candidates(c, NodeAt(i))
          /\ NodeAt(i + 1) =
               Successor(c, NodeAt(i), Options(c)[stack[i].next - 1])

(* What run() returns can be executed at once from where the trooper is,   *)
(* with what it holds or has under its feet and the points it has left.    *)
Holds(held, type) == held \/ BonusAt(c, c.self.pos, type)

TargetCell(a) ==
    CASE a.act \in {"USE_MEDIKIT", "HEAL"} -> Patient(c, a.n).pos
      [] a.act \in {"THROW_GRENADE", "SHOOT"} -> c.enemies[a.n].pos
      [] a.act = "MOVE" -> Neigh(c.self.pos, a.n)

FirstActionLegal ==
    returned =>
      LET a    == best_action
          self == c.self
      IN  \/ a = EndTurn
          \/ /\ a.act = "USE_MEDIKIT"
             /\ Holds(self.holdingMedikit, "MEDIKIT")
             /\ self.actionPoints >= Game.medikitUseCost
             /\ SquaredDistance(self.pos, TargetCell(a)) <= 1
             /\ Patient(c, a.n).hitpoints < Patient(c, a.n).maximalHitpoints
          \/ /\ a.act = "THROW_GRENADE"
             /\ Holds(self.holdingGrenade, "GRENADE")
             /\ self.actionPoints >= Game.grenadeThrowCost
             /\ SquaredDistance(self.pos, TargetCell(a))
                   <= Game.grenadeThrowRange2
          \/ /\ a.act = "HEAL" /\ self.type = "FIELD_MEDIC"
             /\ self.actionPoints >= Game.fieldMedicHealCost
             /\ SquaredDistance(self.pos, TargetCell(a)) <= 1
             /\ Patient(c, a.n).hitpoints < Patient(c, a.n).maximalHitpoints
          \/ /\ a.act = "SHOOT" /\ self.actionPoints >= self.shootCost
             /\ IsVisible(c.visibilities, self.range2, self.pos, self.stance,
                          TargetCell(a), c.enemies[a.n].stance)
          \/ /\ a.act = "MOVE"
             /\ self.actionPoints >= MoveCost(self.stance)
             /\ TargetCell(a) \in Cells(c) /\ c.cells[TargetCell(a)] = "FREE"
          \/ /\ self.actionPoints >= Game.stanceChangeCost
             /\ \/ a.act = "RAISE_STANCE" /\ self.stance < STANDING
                \/ a.act = "LOWER_STANCE" /\ self.stance > PRONE
          \/ /\ a.act = "EAT_FIELD_RATION"
             /\ Holds(self.holdingFieldRation, "FIELD_RATION")
             /\ self.actionPoints >= Game.fieldRationEatCost

(* run() has not returned yet.                                             *)
NoAction == [act |-> "NONE", n |-> 0]

answer == IF returned THEN best_action ELSE NoAction

BP == INSTANCE BestPlan WITH
        Objects     <- DOMAIN Contexts,
        BestAnswers <- [k \in DOMAIN Contexts |->
                          BestFirstActions(Contexts[k])],
        NoAnswer    <- NoAction

(* What run() returns is the first action of a plan that no plan within    *)
(* the cutoff beats: the safety part of BestPlan.                          *)
AnswersWithBestPlan == BP!Safety

(* The recursion ends and run() returns an action: the liveness part.      *)
Answers == BP!Answers
===============================================================================
