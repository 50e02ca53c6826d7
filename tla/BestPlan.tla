------------------------------- MODULE BestPlan -------------------------------
(***************************************************************************)
(* What SlavaStrategy::run promises: it returns the first action of a plan *)
(* that scores at least as well as every other plan the trooper could make *)
(* with fewer actions than the recursion cutoff.  It says nothing of how   *)
(* the plan is found, nor which of several equally good plans is taken.    *)
(***************************************************************************)

CONSTANTS
    Objects,      \* the strategy objects run() may be called on
    BestAnswers,  \* for each of them, the first actions of its best plans
    NoAnswer      \* stands for no answer yet

VARIABLES
    ctx,          \* the strategy object; never changes
    answer        \* the action returned, NoAnswer while there is none

Init ==
    /\ ctx \in Objects
    /\ answer = NoAnswer

(* Deciding is one step: the answer is an action, and a best one.          *)
Decide ==
    /\ answer = NoAnswer
    /\ answer' # NoAnswer
    /\ answer' \in BestAnswers[ctx]
    /\ UNCHANGED ctx

(* Decide is enabled until it is taken, so that the answer comes is weak   *)
(* fairness of it.                                                         *)
Answers == <>(answer # NoAnswer)

Safety == Init /\ [][Decide]_<<ctx, answer>>

Spec == Safety /\ Answers
===============================================================================
