--------------------------- MODULE AgentWorkflow ---------------------------
(***************************************************************************)
(* The durable engine: one execution of AgentWorkflow                      *)
(* (workflow/executor/temporal/workflow.py) with the retry loop and the    *)
(* grouping of workflow/core/execution.py.                                 *)
(*                                                                         *)
(* Temporal is external.  It is modelled by what the code relies on: the   *)
(* workflow's variables survive a worker crash, an awaited activity ends   *)
(* with a result or an ActivityError (a lost worker included, by its       *)
(* heartbeat timeout), signals are delivered at any time while the         *)
(* execution is open, and a cancel request cancels the main coroutine,     *)
(* which an activity call turns into an ActivityError.  Between two awaits *)
(* the workflow's coroutines run without interference.                     *)
(*                                                                         *)
(* The events and the transcripts the workflow collects are left out:      *)
(* nothing in it reads them back.                                          *)
(***************************************************************************)
EXTENDS Naturals

CONSTANTS
    N,          \* number of steps of a definition
    GroupName,  \* names used as parallel_group
    Flows,      \* the workflow inputs considered
    None

Step == 1..N

FlowType ==
    [gate     : SUBSET Step,                   \* steps of type human-approval
     auto     : SUBSET Step,                   \* gates the policy auto-approves
     invalid  : SUBSET Step,                   \* steps normalization rejects
     group    : [Step -> GroupName \cup {None}],
     refs     : [Step -> SUBSET Step],         \* steps.X in prompt or condition
     cond     : [Step -> Step \cup {0}],       \* the step a condition tests, or 0
     retries  : [Step -> Nat],                 \* max_retries
     advisory : BOOLEAN]

ASSUME FlowAssumption ==
    /\ N \in Nat \ {0}
    /\ None \notin GroupName
    /\ Flows \subseteq FlowType
    /\ \A f \in Flows, i \in Step : f.cond[i] # 0 => f.cond[i] \in f.refs[i]

\* A step result.  "met" and "unmet" are status "completed" with an output on
\* which the condition of a later step holds or does not hold; an approval is
\* "met" (output.approved).
Result == {"none", "met", "unmet", "skipped", "failed", "denied"}
Good == {"met", "unmet", "skipped"}

VARIABLES
    flow,       \* the input of the execution
    wf,         \* its status at the Temporal server
    current,    \* the first step of the unit being executed
    pc,         \* where each step's _execute_step coroutine is
    steps,      \* _steps
    decision,   \* _approval_decisions
    attempts,   \* attempt_number of each step
    escalated,  \* _steps["escalation"] is set
    cancelled   \* the unit a cancel request hit, 0 if there was none

vars == <<flow, wf, current, pc, steps, decision, attempts, escalated, cancelled>>

\* Program points at which a coroutine awaits something.
Awaiting == {"notify", "wait", "activity", "backoff", "escalate"}

TypeOK ==
    /\ flow \in Flows
    /\ wf \in {"running", "completed", "cancelled"}
    /\ current \in Step
    /\ pc \in [Step -> {"idle", "done"} \cup Awaiting]
    /\ steps \in [Step -> Result]
    /\ decision \in [Step -> {"none", "approved", "rejected"}]
    /\ attempts \in [Step -> Nat]
    /\ escalated \in BOOLEAN
    /\ cancelled \in Step \cup {0}

Init ==
    /\ flow \in Flows
    /\ wf = "running"
    /\ current = 1
    /\ pc = [i \in Step |-> "idle"]
    /\ steps = [i \in Step |-> "none"]
    /\ decision = [i \in Step |-> "none"]
    /\ attempts = [i \in Step |-> 0]
    /\ escalated = FALSE
    /\ cancelled = 0

-----------------------------------------------------------------------------
(* chunk_parallel_groups.  A definition whose name starts with Bug_ is a   *)
(* faulty variant of the one that follows it, used to show that a property *)
(* can fail.                                                               *)

\* The steps around i that carry i's group name without a gap.
Block(i) == {j \in Step : \A k \in Step :
                (i <= k /\ k <= j) \/ (j <= k /\ k <= i) =>
                    flow.group[k] = flow.group[i]}

Bug_InternalDependency(i) == FALSE
InternalDependency(i) == \E j \in Block(i) : flow.refs[j] \cap Block(i) # {}

\* asyncio.gather runs the unit of step i.
Gathered(i) == flow.group[i] # None /\ ~InternalDependency(i)

Unit(i) == IF Gathered(i) THEN Block(i) ELSE {i}

\* The step after the current unit.
NextStart == CHOOSE k \in 1..(N + 1) :
                /\ \A j \in Unit(current) : j < k
                /\ k - 1 \in Unit(current)

-----------------------------------------------------------------------------
(* _execute_step, up to its first await                                    *)

\* A condition that cannot be parsed fails closed: it never holds.
Bug_CondHolds(i) == flow.cond[i] = 0 \/ steps[flow.cond[i]] \in Good
CondHolds(i) == flow.cond[i] = 0 \/ steps[flow.cond[i]] = "met"

\* The result of a step that awaits nothing, "none" for the others.
ImmediateResult(i) ==
    IF ~CondHolds(i) THEN "skipped"
    ELSE IF i \in flow.gate
         THEN IF flow.advisory \/ i \in flow.auto THEN "met" ELSE "none"
         ELSE IF i \in flow.invalid THEN "failed" ELSE "none"

FirstAwait(i) ==
    IF ImmediateResult(i) # "none" THEN "done"
    ELSE IF i \in flow.gate THEN "notify" ELSE "activity"

\* Every member of the unit runs up to its first await.
StartUnit ==
    /\ wf = "running"
    /\ \A i \in Unit(current) : pc[i] = "idle"
    /\ pc' = [i \in Step |-> IF i \in Unit(current) THEN FirstAwait(i) ELSE pc[i]]
    /\ steps' = [i \in Step |-> IF i \in Unit(current) THEN ImmediateResult(i)
                                                       ELSE steps[i]]
    /\ attempts' = [i \in Step |->
                      IF i \in Unit(current) /\ FirstAwait(i) = "activity"
                      THEN 1 ELSE attempts[i]]
    /\ UNCHANGED <<flow, wf, current, decision, escalated, cancelled>>

Bug_Stops == {"failed"}
Stops == {"failed", "denied"}

\* A member failed or was denied, or this was the last unit.
UnitFailed == \E i \in Unit(current) : steps[i] \in Stops
Bug_RunOver == UnitFailed
RunOver == UnitFailed \/ NextStart = N + 1

\* All members are done: the run stops, ends, or goes to the next unit.  A
\* gather that was cancelled raises CancelledError even if no member did.
EndUnit ==
    /\ wf = "running"
    /\ \A i \in Unit(current) : pc[i] = "done"
    /\ IF Gathered(current) /\ cancelled = current
       THEN wf' = "cancelled" /\ UNCHANGED current
       ELSE IF RunOver
            THEN wf' = "completed" /\ UNCHANGED current
            ELSE current' = NextStart /\ UNCHANGED wf
    /\ UNCHANGED <<flow, pc, steps, decision, attempts, escalated, cancelled>>

-----------------------------------------------------------------------------
(* The steps of a coroutine                                                *)

Goto(i, at, next) ==
    /\ wf = "running" /\ pc[i] = at
    /\ pc' = [pc EXCEPT ![i] = next]

Record(i, r) == steps' = [steps EXCEPT ![i] = r]

\* _handle_approval: the notification was sent, or failed and is ignored.
NotifyDone(i) ==
    /\ Goto(i, "notify", "wait")
    /\ UNCHANGED <<flow, wf, current, steps, decision, attempts, escalated, cancelled>>

Bug_Decided(i) == wf = "running" /\ pc[i] \in {"wait", "done"}
                        /\ decision[i] # "none" /\ steps[i] \in {"none", "denied"}
\* wait_condition sees a decision for the step, sent before or after the pause.
Decided(i) == wf = "running" /\ pc[i] = "wait" /\ decision[i] # "none"

Decide(i) ==
    /\ Decided(i)
    /\ pc' = [pc EXCEPT ![i] = "done"]
    /\ Record(i, IF decision[i] = "approved" THEN "met" ELSE "denied")
    /\ UNCHANGED <<flow, wf, current, decision, attempts, escalated, cancelled>>

Bug_ApprovalTimeout(i) == FALSE /\ UNCHANGED vars
\* wait_condition times out.
ApprovalTimeout(i) ==
    /\ Goto(i, "wait", "done")
    /\ decision[i] = "none"
    /\ Record(i, "denied")
    /\ UNCHANGED <<flow, wf, current, decision, attempts, escalated, cancelled>>

Bug_RetriesLeft(i) == attempts[i] <= flow.retries[i] + 1
\* index + 1 < max_attempts_for(max_retries)
RetriesLeft(i) == attempts[i] < flow.retries[i] + 1

\* run_sandbox_step returns a completed result.
ActivityOk(i, r) ==
    /\ Goto(i, "activity", "done")
    /\ Record(i, r)
    /\ UNCHANGED <<flow, wf, current, decision, attempts, escalated, cancelled>>

\* A transient failure with retries left, returned or raised: retry_sleep.
ActivityRetry(i) ==
    /\ RetriesLeft(i)
    /\ Goto(i, "activity", "backoff")
    /\ UNCHANGED <<flow, wf, current, steps, decision, attempts, escalated, cancelled>>

Backoff(i) ==
    /\ Goto(i, "backoff", "activity")
    /\ attempts' = [attempts EXCEPT ![i] = @ + 1]
    /\ UNCHANGED <<flow, wf, current, steps, decision, escalated, cancelled>>

\* It returns a failed result that is not retried: the step failed ...
ActivityFailed(i) ==
    /\ Goto(i, "activity", "done")
    /\ Record(i, "failed")
    /\ UNCHANGED <<flow, wf, current, decision, attempts, escalated, cancelled>>

\* ... or an ActivityError that is not retried: an escalation package is built.
ActivityError(i) ==
    /\ Goto(i, "activity", "escalate")
    /\ Record(i, "failed")
    /\ UNCHANGED <<flow, wf, current, decision, attempts, escalated, cancelled>>

EscalationDone(i) ==
    /\ Goto(i, "escalate", "done")
    /\ escalated' = TRUE
    /\ UNCHANGED <<flow, wf, current, steps, decision, attempts, cancelled>>

-----------------------------------------------------------------------------
(* Signals and cancellation                                                *)

\* The approve signal: kept whatever the workflow is doing, the last one wins.
\* (A decision under a name that is no gate's is kept too and never read.)
Approve(i, d) ==
    /\ wf = "running" /\ i \in flow.gate
    /\ decision' = [decision EXCEPT ![i] = d]
    /\ UNCHANGED <<flow, wf, current, pc, steps, attempts, escalated, cancelled>>

\* A cancel request reaches every coroutine of the unit.  The timers and the
\* escalation activity let it through, which ends the execution.  The
\* notification's `except Exception` and the agent's `except ActivityError`
\* catch it.
Cancel ==
    /\ wf = "running" /\ cancelled = 0
    /\ \E i \in Unit(current) : pc[i] \in Awaiting
    /\ cancelled' = current
    /\ IF \E i \in Unit(current) : pc[i] \in {"wait", "backoff", "escalate"}
       THEN wf' = "cancelled" /\ UNCHANGED <<pc, steps>>
       ELSE /\ pc' = [i \in Step |-> CASE pc[i] = "notify" -> "wait"
                                       [] pc[i] = "activity" -> "escalate"
                                       [] OTHER -> pc[i]]
            /\ steps' = [i \in Step |-> IF pc[i] = "activity" THEN "failed"
                                                              ELSE steps[i]]
            /\ UNCHANGED wf
    /\ UNCHANGED <<flow, current, decision, attempts, escalated>>

-----------------------------------------------------------------------------
StepAction(i) ==
    \/ NotifyDone(i) \/ Decide(i) \/ ApprovalTimeout(i)
    \/ \E r \in {"met", "unmet"} : ActivityOk(i, r)
    \/ ActivityRetry(i) \/ Backoff(i) \/ ActivityFailed(i) \/ ActivityError(i)
    \/ EscalationDone(i)

Next ==
    \/ StartUnit \/ EndUnit
    \/ \E i \in Step : StepAction(i)
    \/ \E i \in Step, d \in {"approved", "rejected"} : Approve(i, d)
    \/ Cancel

Spec == Init /\ [][Next]_vars

\* Temporal runs a workflow that has something to do, every activity has a
\* start_to_close timeout, every timer fires, and the escalation activity is
\* retried until it succeeds.  Nobody has to approve or to cancel.
Fairness ==
    /\ WF_vars(StartUnit \/ EndUnit)
    /\ \A i \in Step : WF_vars(StepAction(i))

FairSpec == Spec /\ Fairness

-----------------------------------------------------------------------------
(* Properties                                                              *)

\* A step starts only after every earlier unit is over and good: no agent runs
\* past a gate that was denied or timed out, or past a failed step.
UnitsInOrder ==
    \A i, j \in Step :
        pc[i] # "idle" /\ j < i /\ j \notin Unit(i) =>
            pc[j] = "done" /\ steps[j] \in Good

\* A step's prompt and condition are evaluated when the earlier steps they
\* name have their results, also inside a parallel group.
RefsReady ==
    \A i \in Step : pc[i] # "idle" =>
        \A j \in flow.refs[i] : j < i => pc[j] = "done"

\* A recorded result is final: a decision that arrives after the timeout, a
\* retry or a cancel does not replace it.
ResultStable ==
    [][\A i \in Step : steps[i] # "none" => steps'[i] = steps[i]]_vars

\* An execution that completes without a failed or denied step has a good
\* result for every step, skipped only where the condition does not hold: it
\* holds on the result of an earlier step only, even if it names a later one
\* (which no validation refuses), and that result is the final one.
CompletedAccounted ==
    wf = "completed" /\ (\A i \in Step : steps[i] \notin {"failed", "denied"}) =>
        \A i \in Step :
            /\ steps[i] \in Good
            /\ steps[i] = "skipped" <=>
                  flow.cond[i] # 0 /\ ~(flow.cond[i] < i /\ steps[flow.cond[i]] = "met")

\* The execution as a client sees it: the members of a unit do not wait for
\* each other, retries are part of a start, and no decision is given twice.
Promise == INSTANCE RunPromise WITH
    Outcome <- Result \ {"none"}, Answer <- {"met", "unmet"}, Yes <- "met",
    plan <- [gate |-> flow.gate, redo |-> {},
             before |-> [i \in Step |-> {j \in Step : j < i /\ j \notin Unit(i)}],
             free |-> {i \in Step : flow.cond[i] = 0},
             cond |-> [i \in Step |-> {flow.cond[i]} \cap Step]],
    starts <- [i \in Step |-> IF attempts[i] = 0 THEN 0 ELSE 1],
    result <- steps,
    reported <- wf = "completed" /\ \A i \in Step : steps[i] \notin Stops

\* The durable engine keeps the promise of a run under every order of signals,
\* timeouts, retries and a cancel, also inside parallel groups.
KeepsPromise == Promise!PromiseSpec

\* A step is attempted at most max_retries + 1 times, however its attempts end
\* and whatever happens while it backs off.
AttemptBound == \A i \in Step : attempts[i] <= flow.retries[i] + 1

\* Every execution ends, even if nobody ever approves.
Terminates == <>(wf # "running")

\* POST /{workflow_id}/cancel answers {"status": "cancelled"}: an execution
\* that was asked to cancel does not complete normally.
CancelHonoured == cancelled # 0 => wf # "completed"
=============================================================================
