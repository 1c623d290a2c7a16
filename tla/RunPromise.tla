----------------------------- MODULE RunPromise -----------------------------
(***************************************************************************)
(* What a WorkflowRunner (workflow/executor/base.py) promises of a run,    *)
(* whichever engine executes it: a step is given to an agent at most once, *)
(* its turn has come and its condition holds; a result that others may     *)
(* have used is not replaced; a run is reported completed when every step  *)
(* has a good result.  Locks, rows, tasks, crashes and cancels are the     *)
(* engines' business.  LocalRunner and AgentWorkflow both implement it.    *)
(***************************************************************************)
EXTENDS Naturals

CONSTANTS
    Step,       \* the steps of the run
    Outcome,    \* the results a step can have
    Good,       \* those after which the run goes on
    Answer,     \* those that an agent step has from its agent only
    Yes         \* the one on which a condition holds

VARIABLES
    plan,       \* gates, and those whose decision may be given again (redo); what
                \* comes before each step; steps without a condition (free); what
                \* the condition of the others names
    starts,     \* how often each step was given to an agent, retries aside
    result,     \* the result of each step, "none" while it has none
    reported    \* the run is reported completed, and no step failed

promiseVars == <<plan, starts, result, reported>>

PromiseInit ==
    /\ starts = [i \in Step |-> 0]
    /\ result = [i \in Step |-> "none"]
    /\ reported = FALSE

Holds(i) == i \in plan.free \/ \E j \in plan.cond[i] : result[j] = Yes

\* It is the turn of step i.
Reached(i) == \A j \in plan.before[i] : result[j] \in Good

\* Nothing after step i can have used its result.
Unused(i) == \A j \in Step : i \in plan.before[j] => starts[j] = 0 /\ result[j] = "none"

MayStart(i) ==
    /\ i \notin plan.gate /\ starts[i] = 0 /\ result[i] = "none"
    /\ Reached(i) /\ Holds(i)

\* A decision may be given again as long as nobody can have acted on it.
MaySet(i, r) ==
    /\ Reached(i)
    /\ result[i] = "none" \/ (i \in plan.redo /\ Unused(i))
    /\ r \in Outcome
    /\ r = "skipped" => ~Holds(i)
    /\ r \in Answer /\ i \notin plan.gate => starts[i] = 1

\* Some steps start or have their results set; those of a parallel group may
\* do so at once.
Advance ==
    /\ ~reported
    /\ starts' \in [Step -> Nat] /\ result' \in [Step -> Outcome \cup {"none"}]
    /\ \A i \in Step :
          /\ starts'[i] = starts[i] \/ (MayStart(i) /\ starts'[i] = 1)
          /\ result'[i] = result[i] \/ MaySet(i, result'[i])
    /\ UNCHANGED <<plan, reported>>

Report ==
    /\ ~reported /\ \A i \in Step : result[i] \in Good
    /\ reported' = TRUE
    /\ UNCHANGED <<plan, starts, result>>

\* A cancel or an error that comes later is reported instead.
Withdraw ==
    /\ reported
    /\ reported' = FALSE
    /\ UNCHANGED <<plan, starts, result>>

PromiseSpec == PromiseInit /\ [][Advance \/ Report \/ Withdraw]_promiseVars
=============================================================================
