------------------------ MODULE AgentWorkflowProofs -------------------------
(***************************************************************************)
(* Theorems about AgentWorkflow, for any number of steps and any set of    *)
(* workflow inputs: units are executed in order, references are ready when *)
(* they are read, retries are bounded, a result is final, and a completed  *)
(* execution accounts for every step.                                      *)
(***************************************************************************)
EXTENDS AgentWorkflow, WellFoundedInduction, TLAPS

-----------------------------------------------------------------------------
(* chunk_parallel_groups.  Block, Gathered and Unit read the flow from the *)
(* state; here they are functions of it.                                   *)

BlockOf(f, i) == {j \in Step : \A k \in Step :
                     (i <= k /\ k <= j) \/ (j <= k /\ k <= i) => f.group[k] = f.group[i]}
GatheredIn(f, i) ==
    f.group[i] # None /\ ~(\E j \in BlockOf(f, i) : f.refs[j] \cap BlockOf(f, i) # {})
UnitOf(f, i) == IF GatheredIn(f, i) THEN BlockOf(f, i) ELSE {i}

\* Block, Gathered and Unit, in this state and in the next.
LEMMA UnitIs ==
    /\ \A i : Unit(i) = UnitOf(flow, i) /\ (Gathered(i) <=> GatheredIn(flow, i))
    /\ Unit(current)' = UnitOf(flow', current')
  BY DEF Unit, Gathered, InternalDependency, Block, UnitOf, GatheredIn, BlockOf

\* The steps with i's group name around i: an interval, the same one for each
\* of its members.
LEMMA BlockFacts ==
    ASSUME NEW f, NEW i \in Step
    PROVE  /\ BlockOf(f, i) \subseteq Step /\ i \in BlockOf(f, i)
           /\ \A j \in BlockOf(f, i) :
                 f.group[j] = f.group[i] /\ BlockOf(f, j) = BlockOf(f, i)
           /\ \A j, k \in BlockOf(f, i) : \A m \in Step :
                 j <= m /\ m <= k => m \in BlockOf(f, i)
  <1> USE FlowAssumption DEF Step
  <1>1. BlockOf(f, i) \subseteq Step /\ i \in BlockOf(f, i)
    BY DEF BlockOf
  <1>2. ASSUME NEW j \in BlockOf(f, i), NEW k \in Step,
               (i <= k /\ k <= j) \/ (j <= k /\ k <= i)
        PROVE  f.group[k] = f.group[i]
    BY <1>2 DEF BlockOf
  <1>3. ASSUME NEW j \in BlockOf(f, i) PROVE f.group[j] = f.group[i]
    BY <1>1, <1>2
  <1>4. ASSUME NEW j \in BlockOf(f, i) PROVE BlockOf(f, j) = BlockOf(f, i)
    <2>1. f.group[j] = f.group[i] /\ j \in Step
      BY <1>1, <1>3
    <2>2. ASSUME NEW m \in BlockOf(f, i) PROVE m \in BlockOf(f, j)
      <3> SUFFICES ASSUME NEW k \in Step, (j <= k /\ k <= m) \/ (m <= k /\ k <= j)
                   PROVE  f.group[k] = f.group[j]
        BY <1>1 DEF BlockOf
      <3>1. \/ (i <= k /\ k <= j) \/ (j <= k /\ k <= i)
            \/ (i <= k /\ k <= m) \/ (m <= k /\ k <= i)
        BY <1>1
      <3> QED BY <1>2, <2>1, <3>1
    <2>3. ASSUME NEW m \in BlockOf(f, j) PROVE m \in BlockOf(f, i)
      <3> SUFFICES ASSUME NEW k \in Step, (i <= k /\ k <= m) \/ (m <= k /\ k <= i)
                   PROVE  f.group[k] = f.group[i]
        BY DEF BlockOf
      <3>1. m \in Step
        BY DEF BlockOf
      <3>2. \/ (i <= k /\ k <= j) \/ (j <= k /\ k <= i)
            \/ (j <= k /\ k <= m) \/ (m <= k /\ k <= j)
        BY <1>1, <3>1
      <3>3. (j <= k /\ k <= m) \/ (m <= k /\ k <= j) => f.group[k] = f.group[j]
        BY DEF BlockOf
      <3> QED BY <1>2, <2>1, <3>2, <3>3
    <2> QED BY <2>2, <2>3
  <1>5. ASSUME NEW j \in BlockOf(f, i), NEW k \in BlockOf(f, i), NEW m \in Step, j <= m, m <= k
        PROVE  m \in BlockOf(f, i)
    <2> SUFFICES ASSUME NEW x \in Step, (i <= x /\ x <= m) \/ (m <= x /\ x <= i)
                 PROVE  f.group[x] = f.group[i]
      BY DEF BlockOf
    <2>1. (i <= x /\ x <= k) \/ (j <= x /\ x <= i)
      BY <1>1, <1>5
    <2> QED BY <1>2, <2>1
  <1> QED BY <1>1, <1>3, <1>4, <1>5

\* Units partition the steps into intervals; a step of a unit of several steps
\* refers to none of them.
LEMMA UnitFacts ==
    ASSUME NEW f, NEW i \in Step
    PROVE  /\ UnitOf(f, i) \subseteq Step /\ i \in UnitOf(f, i)
           /\ \A j \in UnitOf(f, i) : UnitOf(f, j) = UnitOf(f, i)
           /\ \A j, k \in UnitOf(f, i) : \A m \in Step :
                 j <= m /\ m <= k => m \in UnitOf(f, i)
           /\ \A j, k \in UnitOf(f, i) : k \in f.refs[j] => UnitOf(f, i) = {i}
  <1>1. CASE GatheredIn(f, i)
    <2>1. UnitOf(f, i) = BlockOf(f, i)
      BY <1>1 DEF UnitOf
    <2>2. ASSUME NEW j \in BlockOf(f, i) PROVE UnitOf(f, j) = BlockOf(f, i)
      <3>1. f.group[j] = f.group[i] /\ BlockOf(f, j) = BlockOf(f, i)
        BY BlockFacts
      <3>2. GatheredIn(f, j)
        BY <1>1, <3>1 DEF GatheredIn
      <3> QED BY <3>1, <3>2 DEF UnitOf
    <2>3. \A j, k \in BlockOf(f, i) : k \notin f.refs[j]
      BY <1>1 DEF GatheredIn
    <2> QED BY <2>1, <2>2, <2>3, BlockFacts
  <1>2. CASE ~GatheredIn(f, i)
    <2>1. UnitOf(f, i) = {i}
      BY <1>2 DEF UnitOf
    <2> QED BY <2>1, FlowAssumption DEF Step
  <1> QED BY <1>1, <1>2

NatLess == {xy \in Nat \X Nat : xy[1] < xy[2]}

\* A set of steps has a greatest one.
LEMMA GreatestStep ==
    ASSUME NEW S \in SUBSET Step, S # {}
    PROVE  \E m \in S : \A j \in S : j <= m
  <1> USE FlowAssumption DEF Step
  <1> DEFINE T == {N - j : j \in S}
  <1>1. T \subseteq Nat /\ T # {}
    <2>1. \A j \in S : N - j \in Nat
      OBVIOUS
    <2> QED BY <2>1
  <1>2. IsWellFoundedOn(NatLess, Nat)
    <2>1. NatLess = OpToRel(<, Nat)
      BY Zenon DEF NatLess, OpToRel
    <2> QED BY <2>1, NatLessThanWellFounded, Zenon
  <1> HIDE DEF T
  <1>3. PICK x \in T : \A y \in T : ~(<<y, x>> \in NatLess)
    BY <1>1, <1>2, WFMin
  <1>4. \A y \in T : ~(y < x)
    BY <1>1, <1>3 DEF NatLess
  <1>5. PICK m \in S : x = N - m
    BY DEF T
  <1>6. \A j \in S : ~(N - j < N - m)
    BY <1>4, <1>5 DEF T
  <1> QED BY <1>6

\* The next unit starts past the last step of the current one.
LEMMA NextFacts ==
    ASSUME current \in Step
    PROVE  /\ NextStart \in 2..(N + 1) /\ NextStart - 1 \in UnitOf(flow, current)
           /\ \A j \in UnitOf(flow, current) : j < NextStart
  <1> DEFINE U == UnitOf(flow, current)
             P(k) == (\A j \in U : j < k) /\ k - 1 \in U
  <1>1. U \subseteq Step /\ U # {}
    BY UnitFacts
  <1>2. PICK m \in U : \A j \in U : j <= m
    BY <1>1, GreatestStep
  <1>3. NextStart = CHOOSE k \in 1..(N + 1) : P(k)
    BY UnitIs DEF NextStart
  <1>4. m + 1 \in 1..(N + 1) /\ P(m + 1)
    BY <1>1, <1>2, FlowAssumption DEF Step
  <1>5. NextStart \in 1..(N + 1) /\ P(NextStart)
    BY <1>3, <1>4
  <1> QED BY <1>1, <1>5, FlowAssumption DEF Step

\* The next unit has none of the steps before it.
LEMMA NextUnit ==
    ASSUME current \in Step, NextStart # N + 1
    PROVE  /\ NextStart \in Step
           /\ \A j \in UnitOf(flow, NextStart) : NextStart <= j
  <1>1. NextStart \in Step
    BY NextFacts, FlowAssumption DEF Step
  <1>2. ASSUME NEW j \in UnitOf(flow, NextStart), ~(NextStart <= j) PROVE FALSE
    <2> DEFINE n == NextStart
    <2>1. /\ n \in Step /\ n - 1 \in UnitOf(flow, current)
          /\ \A k \in UnitOf(flow, current) : k < n
      BY <1>1, NextFacts
    <2> HIDE DEF n
    <2>2. j \in UnitOf(flow, n) /\ ~(n <= j)
      BY <1>2 DEF n
    <2>3. j \in Step /\ n - 1 \in Step
      BY <2>1, <2>2, UnitFacts
    <2>4. j <= n - 1 /\ n - 1 <= n /\ n \in UnitOf(flow, n)
      BY <2>1, <2>2, <2>3, UnitFacts, FlowAssumption DEF Step
    <2>5. n - 1 \in UnitOf(flow, n)
      BY <2>1, <2>2, <2>3, <2>4, UnitFacts
    <2>6. UnitOf(flow, n) = UnitOf(flow, current)
      BY <2>1, <2>5, UnitFacts
    <2>7. n < n
      BY <2>1, <2>4, <2>6
    <2> QED BY <2>1, <2>7, FlowAssumption DEF Step
  <1> QED BY <1>1, <1>2

-----------------------------------------------------------------------------
(* The inductive invariant                                                 *)

Cur == UnitOf(flow, current)

\* The units before the current one are over and good, those after it have not
\* begun, and the members of the current one begin together.
OrderInv ==
    /\ \A j \in Cur : current <= j
    /\ \A j \in Step : j < current => pc[j] = "done" /\ steps[j] \in Good
    /\ \A j \in Step : current < j /\ j \notin Cur => pc[j] = "idle"
    /\ (\A j \in Cur : pc[j] = "idle") \/ (\A j \in Cur : pc[j] # "idle")

\* A step has a result when it is done, or when its escalation is being built.
ResultInv ==
    \A i \in Step :
        /\ pc[i] \in {"idle", "notify", "wait", "activity", "backoff"} => steps[i] = "none"
        /\ pc[i] = "escalate" => steps[i] = "failed"
        /\ pc[i] = "done" => steps[i] # "none"

\* What a condition was evaluated on does not change.
SkipInv ==
    \A i \in Step : pc[i] # "idle" =>
        (steps[i] = "skipped" <=>
            flow.cond[i] # 0 /\ ~(flow.cond[i] < i /\ steps[flow.cond[i]] = "met"))

RetryInv == AttemptBound /\ \A i \in Step : pc[i] = "backoff" => RetriesLeft(i)

\* An execution completes with its last unit, or with one that failed.
EndInv ==
    wf = "completed" =>
        /\ \A i \in Cur : pc[i] = "done"
        /\ (\E i \in Cur : steps[i] \in Stops) \/ (\A j \in Step : j < current \/ j \in Cur)

FlowInv == TypeOK /\ OrderInv /\ ResultInv /\ SkipInv /\ RetryInv /\ EndInv

\* The fields of a workflow input.
LEMMA FlowFields ==
    ASSUME flow \in Flows, NEW i \in Step
    PROVE  /\ flow.cond[i] \in Step \cup {0} /\ flow.retries[i] \in Nat
           /\ flow.cond[i] # 0 => flow.cond[i] \in flow.refs[i]
           /\ i \in Nat \ {0}
  <1>1. flow \in FlowType
    BY FlowAssumption
  <1> QED BY <1>1, FlowAssumption DEF FlowType, Step

\* Units are executed in order.
LEMMA InOrder ==
    ASSUME TypeOK, OrderInv
    PROVE  UnitsInOrder
  <1> SUFFICES ASSUME NEW i \in Step, NEW j \in Step, pc[i] # "idle", j < i,
                      j \notin UnitOf(flow, i)
               PROVE  pc[j] = "done" /\ steps[j] \in Good
    BY UnitIs DEF UnitsInOrder
  <1> USE FlowAssumption DEF Step
  <1>0. current \in Step
    BY DEF TypeOK
  <1>1. CASE i \in Cur
    <2>1. j \notin Cur
      BY <1>0, <1>1, UnitFacts DEF Cur
    <2>2. current \in Cur
      BY <1>0, UnitFacts DEF Cur
    <2>3. ~(current <= j)
      BY <1>0, <1>1, <2>1, <2>2, UnitFacts DEF Cur
    <2> QED BY <1>0, <2>3 DEF OrderInv
  <1>2. CASE i \notin Cur
    <2>1. current \in Cur
      BY <1>0, UnitFacts DEF Cur
    <2>2. i < current
      BY <1>0, <1>2, <2>1 DEF OrderInv
    <2> QED BY <1>0, <2>2 DEF OrderInv
  <1> QED BY <1>1, <1>2

\* References to earlier steps are ready.
LEMMA Ready ==
    ASSUME TypeOK, OrderInv
    PROVE  RefsReady
  <1> SUFFICES ASSUME NEW i \in Step, pc[i] # "idle", NEW j \in flow.refs[i], j < i
               PROVE  pc[j] = "done"
    BY DEF RefsReady
  <1>1. j \in Step
    BY FlowAssumption DEF TypeOK, FlowType
  <1>2. j \notin UnitOf(flow, i)
    <2> SUFFICES ASSUME j \in UnitOf(flow, i) PROVE FALSE
      OBVIOUS
    <2>1. UnitOf(flow, i) = {i}
      BY UnitFacts
    <2> QED BY <2>1, FlowAssumption DEF Step
  <1> QED BY <1>1, <1>2, InOrder, UnitIs DEF UnitsInOrder

-----------------------------------------------------------------------------
(* Steps                                                                   *)

\* What a step that starts comes to before it awaits anything.
LEMMA StartFacts ==
    ASSUME NEW i
    PROVE  /\ ImmediateResult(i) \in {"none", "met", "skipped", "failed"}
           /\ ImmediateResult(i) = "skipped" <=> ~CondHolds(i)
           /\ FirstAwait(i) \in {"done", "notify", "activity"}
           /\ FirstAwait(i) = "done" <=> ImmediateResult(i) # "none"
  BY DEF ImmediateResult, FirstAwait

\* A step of one coroutine: it awaits something, and then something else or
\* nothing; a result is recorded once.
CoroutineStep(i) ==
    /\ wf = "running" /\ pc[i] \in Awaiting /\ UNCHANGED <<flow, wf, current, cancelled, decision>>
    /\ \E next \in Awaiting \cup {"done"} : pc' = [pc EXCEPT ![i] = next]
    /\ \/ /\ steps' = steps
          /\ \/ pc[i] = "escalate" /\ pc'[i] = "done"
             \/ pc[i] # "escalate" /\ pc'[i] \notin {"escalate", "done"}
       \/ /\ pc[i] \in {"wait", "activity"} /\ pc'[i] \in {"escalate", "done"}
          /\ \E r \in {"met", "unmet", "denied", "failed"} :
                steps' = [steps EXCEPT ![i] = r] /\ (pc'[i] = "escalate" => r = "failed")

\* Retries of one coroutine.
RetryStep(i) ==
    \/ attempts' = attempts /\ (pc'[i] = "backoff" => RetriesLeft(i))
    \/ /\ pc[i] = "backoff" /\ pc'[i] = "activity"
       /\ attempts' = [attempts EXCEPT ![i] = @ + 1]

\* Each step of a coroutine is one.
LEMMA CoroutineSteps ==
    ASSUME TypeOK, NEW i \in Step, StepAction(i)
    PROVE  CoroutineStep(i) /\ RetryStep(i) /\ escalated' \in BOOLEAN
  <1> USE DEF CoroutineStep, RetryStep, Awaiting, TypeOK
  <1>1. CASE NotifyDone(i)
    BY <1>1 DEF NotifyDone, Goto
  <1>2. CASE Decide(i)
    BY <1>2 DEF Decide, Decided, Record
  <1>3. CASE ApprovalTimeout(i)
    BY <1>3 DEF ApprovalTimeout, Goto, Record
  <1>4. CASE \E r \in {"met", "unmet"} : ActivityOk(i, r)
    BY <1>4 DEF ActivityOk, Goto, Record
  <1>5. CASE ActivityRetry(i)
    BY <1>5 DEF ActivityRetry, Goto
  <1>6. CASE Backoff(i)
    BY <1>6 DEF Backoff, Goto
  <1>7. CASE ActivityFailed(i)
    BY <1>7 DEF ActivityFailed, Goto, Record
  <1>8. CASE ActivityError(i)
    BY <1>8 DEF ActivityError, Goto, Record
  <1>9. CASE EscalationDone(i)
    <2>1. CoroutineStep(i) /\ RetryStep(i)
      BY <1>9 DEF EscalationDone, Goto
    <2>2. escalated' \in BOOLEAN
      BY <1>9, Zenon DEF EscalationDone
    <2> QED BY <2>1, <2>2
  <1> QED
    BY <1>1, <1>2, <1>3, <1>4, <1>5, <1>6, <1>7, <1>8, <1>9 DEF StepAction

\* A cancel request that the coroutines catch.
CancelCaught ==
    /\ wf' = wf
    /\ pc' = [i \in Step |-> CASE pc[i] = "notify" -> "wait"
                               [] pc[i] = "activity" -> "escalate"
                               [] OTHER -> pc[i]]
    /\ steps' = [i \in Step |-> IF pc[i] = "activity" THEN "failed" ELSE steps[i]]

\* A cancel request is caught by all, or ends the execution.
LEMMA CancelFacts ==
    ASSUME TypeOK, Cancel
    PROVE  /\ wf = "running" /\ cancelled' = current
           /\ UNCHANGED <<flow, current, decision, attempts, escalated>>
           /\ CancelCaught \/ (wf' = "cancelled" /\ UNCHANGED <<pc, steps>>)
           /\ CancelCaught => \A i \in Cur : pc[i] \notin {"wait", "backoff", "escalate"}
  <1>1. /\ wf = "running" /\ cancelled' = current
        /\ UNCHANGED <<flow, current, decision, attempts, escalated>>
    BY DEF Cancel
  <1>2. CASE \E i \in Unit(current) : pc[i] \in {"wait", "backoff", "escalate"}
    <2>1. wf' = "cancelled" /\ UNCHANGED <<pc, steps>>
      BY <1>2 DEF Cancel
    <2>2. ~CancelCaught
      BY <1>1, <2>1 DEF CancelCaught
    <2> QED BY <1>1, <2>1, <2>2
  <1>3. CASE ~(\E i \in Unit(current) : pc[i] \in {"wait", "backoff", "escalate"})
    <2>1. CancelCaught
      BY <1>3 DEF Cancel, CancelCaught
    <2> QED BY <1>1, <1>3, <2>1, UnitIs DEF Cur
  <1> QED BY <1>2, <1>3

\* The variables of the workflow have their types.
LEMMA TypeStep ==
    ASSUME TypeOK, [Next]_vars
    PROVE  TypeOK'
  <1> USE DEF TypeOK
  <1>1. CASE StartUnit
    <2>1. \A i \in Step : /\ FirstAwait(i) \in {"idle", "done"} \cup Awaiting
                          /\ ImmediateResult(i) \in Result
      BY StartFacts DEF Awaiting, Result
    <2>2. /\ UNCHANGED <<flow, wf, current, decision, escalated, cancelled>>
          /\ pc' = [i \in Step |-> IF i \in Unit(current) THEN FirstAwait(i) ELSE pc[i]]
          /\ steps' = [i \in Step |-> IF i \in Unit(current) THEN ImmediateResult(i)
                                                             ELSE steps[i]]
          /\ attempts' = [i \in Step |-> IF i \in Unit(current) /\ FirstAwait(i) = "activity"
                                         THEN 1 ELSE attempts[i]]
      BY <1>1 DEF StartUnit
    <2> QED BY <2>1, <2>2
  <1>2. CASE EndUnit
    <2>1. /\ wf' \in {"running", "completed", "cancelled"}
          /\ current' = current \/ (current' = NextStart /\ NextStart # N + 1)
          /\ UNCHANGED <<flow, pc, steps, decision, attempts, escalated, cancelled>>
      BY <1>2 DEF EndUnit, RunOver
    <2> QED BY <2>1, NextUnit
  <1>3. ASSUME NEW i \in Step, StepAction(i) PROVE TypeOK'
    <2>1. CoroutineStep(i) /\ RetryStep(i) /\ escalated' \in BOOLEAN
      BY <1>3, CoroutineSteps
    <2>2. pc' \in [Step -> {"idle", "done"} \cup Awaiting] /\ steps' \in [Step -> Result]
      BY <2>1 DEF CoroutineStep, Result
    <2>3. attempts' \in [Step -> Nat]
      BY <2>1 DEF RetryStep
    <2> QED BY <2>1, <2>2, <2>3 DEF CoroutineStep
  <1>4. ASSUME NEW i \in Step, NEW d \in {"approved", "rejected"}, Approve(i, d) PROVE TypeOK'
    BY <1>4 DEF Approve
  <1>5. CASE Cancel
    <2>1. pc' \in [Step -> {"idle", "done"} \cup Awaiting] /\ steps' \in [Step -> Result]
      BY <1>5, CancelFacts DEF CancelCaught, Awaiting, Result
    <2> QED BY <1>5, <2>1, CancelFacts DEF CancelCaught
  <1>6. CASE UNCHANGED vars
    BY <1>6 DEF vars
  <1> QED BY <1>1, <1>2, <1>3, <1>4, <1>5, <1>6 DEF Next

-----------------------------------------------------------------------------
(* Every conjunct of the invariant is preserved                            *)

\* What no step but the start of a unit does: a coroutine neither begins nor
\* resumes after its end, and a result is recorded by a coroutine that awaits
\* a decision or an activity.
Progress ==
    /\ flow' = flow
    /\ \A k \in Step :
          /\ pc'[k] = "idle" <=> pc[k] = "idle"
          /\ pc[k] = "done" => pc'[k] = "done"
          /\ \/ steps'[k] = steps[k]
             \/ /\ pc[k] \in {"wait", "activity"}
                /\ steps'[k] \in {"met", "unmet", "denied", "failed"}

\* A step starts the unit, ends it, or is made within it.
LEMMA StepKinds ==
    ASSUME TypeOK, [Next]_vars
    PROVE  \/ StartUnit
           \/ EndUnit /\ Progress
           \/ /\ Progress /\ current' = current
              /\ (wf = "running" /\ wf' # "completed") \/ UNCHANGED vars
  <1> USE DEF TypeOK
  <1>1. CASE EndUnit
    BY <1>1 DEF EndUnit, Progress
  <1>2. ASSUME NEW i \in Step, StepAction(i)
        PROVE  Progress /\ current' = current /\ wf = "running" /\ wf' # "completed"
    <2>1. CoroutineStep(i)
      BY <1>2, CoroutineSteps
    <2>2. wf = "running" /\ wf' # "completed" /\ current' = current /\ flow' = flow
      BY <2>1 DEF CoroutineStep
    <2>3. PICK next \in Awaiting \cup {"done"} : pc' = [pc EXCEPT ![i] = next]
      BY <2>1 DEF CoroutineStep
    <2>4. \A k \in Step : /\ pc'[k] = "idle" <=> pc[k] = "idle"
                          /\ pc[k] = "done" => pc'[k] = "done"
      BY <2>1, <2>3 DEF CoroutineStep, Awaiting
    <2>5. \A k \in Step : \/ steps'[k] = steps[k]
                          \/ /\ pc[k] \in {"wait", "activity"}
                             /\ steps'[k] \in {"met", "unmet", "denied", "failed"}
      BY <2>1 DEF CoroutineStep
    <2> QED BY <2>2, <2>4, <2>5 DEF Progress
  <1>3. ASSUME NEW i \in Step, NEW d \in {"approved", "rejected"}, Approve(i, d)
        PROVE  Progress /\ current' = current /\ wf = "running" /\ wf' # "completed"
    BY <1>3 DEF Approve, Progress
  <1>4. CASE Cancel
    BY <1>4, CancelFacts DEF CancelCaught, Progress
  <1>5. CASE UNCHANGED vars
    BY <1>5 DEF vars, Progress
  <1> QED BY <1>1, <1>2, <1>3, <1>4, <1>5 DEF Next

\* What the start of a unit does to each step.
LEMMA StartSteps ==
    ASSUME TypeOK, StartUnit
    PROVE  /\ wf = "running" /\ UNCHANGED <<flow, wf, current>>
           /\ Cur \subseteq Step /\ current \in Cur
           /\ \A k \in Cur : /\ pc[k] = "idle"
                             /\ pc'[k] = FirstAwait(k) /\ steps'[k] = ImmediateResult(k)
                             /\ attempts'[k] = IF FirstAwait(k) = "activity" THEN 1
                                               ELSE attempts[k]
           /\ \A k \in Step \ Cur : /\ pc'[k] = pc[k] /\ steps'[k] = steps[k]
                                    /\ attempts'[k] = attempts[k]
  <1>1. Unit(current) = Cur /\ Cur \subseteq Step /\ current \in Cur
    BY UnitIs, UnitFacts DEF Cur, TypeOK
  <1> QED BY <1>1 DEF StartUnit

LEMMA ResultStep ==
    ASSUME TypeOK, ResultInv, [Next]_vars
    PROVE  ResultInv'
  <1> USE DEF TypeOK
  <1>1. CASE StartUnit
    <2> SUFFICES ASSUME NEW i \in Step
                 PROVE  /\ pc'[i] \in {"idle", "notify", "wait", "activity", "backoff"}
                              => steps'[i] = "none"
                        /\ pc'[i] = "escalate" => steps'[i] = "failed"
                        /\ pc'[i] = "done" => steps'[i] # "none"
      BY DEF ResultInv
    <2>1. CASE i \in Cur
      BY <1>1, <2>1, StartSteps, StartFacts
    <2>2. CASE i \notin Cur
      BY <1>1, <2>2, StartSteps DEF ResultInv
    <2> QED BY <2>1, <2>2
  <1>2. CASE EndUnit
    BY <1>2 DEF EndUnit, ResultInv
  <1>3. ASSUME NEW i \in Step, StepAction(i) PROVE ResultInv'
    <2>1. CoroutineStep(i)
      BY <1>3, CoroutineSteps
    <2>2. PICK next \in Awaiting \cup {"done"} : pc' = [pc EXCEPT ![i] = next]
      BY <2>1 DEF CoroutineStep
    <2>3. CASE steps' = steps
      BY <2>1, <2>2, <2>3 DEF CoroutineStep, ResultInv, Awaiting
    <2>4. CASE steps' # steps
      BY <2>1, <2>2, <2>4 DEF CoroutineStep, ResultInv, Awaiting
    <2> QED BY <2>3, <2>4
  <1>4. ASSUME NEW i \in Step, NEW d \in {"approved", "rejected"}, Approve(i, d)
        PROVE  ResultInv'
    BY <1>4 DEF Approve, ResultInv
  <1>5. CASE Cancel
    BY <1>5, CancelFacts DEF CancelCaught, ResultInv
  <1>6. CASE UNCHANGED vars
    BY <1>6 DEF vars, ResultInv
  <1> QED BY <1>1, <1>2, <1>3, <1>4, <1>5, <1>6 DEF Next

LEMMA RetryInvStep ==
    ASSUME TypeOK, RetryInv, [Next]_vars
    PROVE  RetryInv'
  <1> SUFFICES ASSUME NEW k \in Step
               PROVE  /\ attempts'[k] <= flow'.retries[k] + 1
                      /\ pc'[k] = "backoff" => attempts'[k] < flow'.retries[k] + 1
    BY DEF RetryInv, AttemptBound, RetriesLeft
  <1> DEFINE r == flow.retries[k]
  <1>1. /\ r \in Nat /\ attempts[k] \in Nat /\ attempts[k] <= r + 1
        /\ pc[k] = "backoff" => attempts[k] < r + 1
    BY FlowFields DEF TypeOK, RetryInv, AttemptBound, RetriesLeft
  <1>2. CASE StartUnit
    <2>1. /\ flow' = flow
          /\ attempts'[k] \in {1, attempts[k]}
          /\ pc'[k] = "backoff" => pc[k] = "backoff" /\ attempts'[k] = attempts[k]
      BY <1>2, StartSteps, StartFacts
    <2> QED BY <1>1, <2>1
  <1>3. CASE EndUnit
    BY <1>1, <1>3 DEF EndUnit
  <1>4. ASSUME NEW i \in Step, StepAction(i)
        PROVE  /\ attempts'[k] <= flow'.retries[k] + 1
               /\ pc'[k] = "backoff" => attempts'[k] < flow'.retries[k] + 1
    <2>1. CoroutineStep(i) /\ RetryStep(i)
      BY <1>4, CoroutineSteps
    <2>2. flow' = flow /\ (k # i => pc'[k] = pc[k] /\ attempts'[k] = attempts[k])
      BY <2>1 DEF CoroutineStep, RetryStep, TypeOK
    <2>3. CASE k # i
      BY <1>1, <2>2, <2>3
    <2>4. CASE k = i
      <3>1. \/ attempts'[k] = attempts[k] /\ (pc'[k] = "backoff" => attempts[k] < r + 1)
            \/ /\ pc[k] = "backoff" /\ pc'[k] = "activity"
               /\ attempts'[k] = attempts[k] + 1
        BY <2>1, <2>4 DEF RetryStep, TypeOK, RetriesLeft
      <3> QED BY <1>1, <2>2, <3>1
    <2> QED BY <2>3, <2>4
  <1>5. ASSUME NEW i \in Step, NEW d \in {"approved", "rejected"}, Approve(i, d)
        PROVE  /\ attempts'[k] <= flow'.retries[k] + 1
               /\ pc'[k] = "backoff" => attempts'[k] < flow'.retries[k] + 1
    BY <1>1, <1>5 DEF Approve
  <1>6. CASE Cancel
    <2>1. flow' = flow /\ attempts' = attempts /\ (pc'[k] = "backoff" => pc[k] = "backoff")
      BY <1>6, CancelFacts DEF CancelCaught, TypeOK
    <2> QED BY <1>1, <2>1
  <1>7. CASE UNCHANGED vars
    BY <1>1, <1>7 DEF vars
  <1> QED BY <1>2, <1>3, <1>4, <1>5, <1>6, <1>7 DEF Next

\* The units stay in order.
LEMMA OrderStep ==
    ASSUME TypeOK, OrderInv, ResultInv, [Next]_vars
    PROVE  OrderInv'
  <1>0. current \in Step /\ Cur \subseteq Step /\ current \in Cur
    BY UnitFacts DEF TypeOK, Cur
  <1>1. CASE StartUnit
    <2>1. Cur' = Cur /\ current' = current
      BY <1>1, StartSteps DEF Cur
    <2>2. \A j \in Cur : pc'[j] # "idle"
      BY <1>1, StartSteps, StartFacts
    <2>3. \A j \in Step : j < current => j \notin Cur
      BY <1>0, FlowAssumption DEF OrderInv, Step
    <2>4. \A j \in Step \ Cur : pc'[j] = pc[j] /\ steps'[j] = steps[j]
      BY <1>1, StartSteps
    <2> QED BY <2>1, <2>2, <2>3, <2>4 DEF OrderInv
  <1>2. CASE EndUnit /\ Progress
    <2>1. CASE current' = current
      <3>1. Cur' = Cur
        BY <1>2, <2>1 DEF Cur, EndUnit
      <3>2. pc' = pc /\ steps' = steps
        BY <1>2 DEF EndUnit
      <3> QED BY <2>1, <3>1, <3>2 DEF OrderInv
    <2>2. CASE current' # current
      <3>1. /\ current' = NextStart /\ NextStart # N + 1 /\ ~UnitFailed
            /\ UNCHANGED <<flow, pc, steps>>
            /\ \A i \in Cur : pc[i] = "done" /\ steps[i] \notin Stops
        BY <1>2, <2>2, UnitIs DEF EndUnit, RunOver, UnitFailed, Cur
      <3> DEFINE n == NextStart
      <3>2. /\ n \in Step /\ n - 1 \in Cur
            /\ \A j \in Cur : j < n
            /\ \A j \in UnitOf(flow, n) : n <= j
        BY <1>0, <3>1, NextFacts, NextUnit DEF Cur
      <3>3. current' = n /\ Cur' = UnitOf(flow, n)
        BY <3>1 DEF Cur
      <3> HIDE DEF n
      <3>4. \A j \in Step : j < n => j < current \/ j \in Cur
        <4> SUFFICES ASSUME NEW j \in Step, j < n, ~(j < current) PROVE j \in Cur
          OBVIOUS
        <4>1. current <= j /\ j <= n - 1
          BY <1>0, <3>2, FlowAssumption DEF Step
        <4> QED BY <1>0, <3>2, <4>1, UnitFacts DEF Cur
      <3>5. \A j \in Cur : steps[j] \in Good
        BY <1>0, <3>1 DEF TypeOK, ResultInv, Stops, Good, Result
      <3>6. \A j \in Step : j < n => pc[j] = "done" /\ steps[j] \in Good
        BY <3>1, <3>4, <3>5 DEF OrderInv
      <3>7. \A j \in Step : n <= j => pc[j] = "idle"
        <4> SUFFICES ASSUME NEW j \in Step, n <= j PROVE current < j /\ j \notin Cur
          BY DEF OrderInv
        <4> QED BY <1>0, <3>2, FlowAssumption DEF Step
      <3>8. \A j \in UnitOf(flow, n) : j \in Step
        BY <3>2, UnitFacts
      <3>9. \A j \in Step : n < j => n <= j
        BY <3>2, FlowAssumption DEF Step
      <3> QED BY <3>1, <3>2, <3>3, <3>6, <3>7, <3>8, <3>9 DEF OrderInv
    <2> QED BY <2>1, <2>2
  <1>3. CASE Progress /\ current' = current
    <2>1. Cur' = Cur
      BY <1>3 DEF Cur, Progress
    <2> QED BY <1>0, <1>3, <2>1 DEF OrderInv, Progress
  <1> QED BY <1>1, <1>2, <1>3, StepKinds

\* A condition is evaluated once the step it names has its final result, or
\* before that step has any.
LEMMA SkipStep ==
    ASSUME TypeOK, OrderInv, ResultInv, SkipInv, [Next]_vars
    PROVE  SkipInv'
  <1> SUFFICES ASSUME NEW i \in Step, pc'[i] # "idle"
               PROVE  steps'[i] = "skipped" <=>
                        /\ flow'.cond[i] # 0
                        /\ ~(flow'.cond[i] < i /\ steps'[flow'.cond[i]] = "met")
    BY DEF SkipInv
  <1> DEFINE c == flow.cond[i]
  <1>1. /\ c \in Step \cup {0} /\ (c # 0 => c \in flow.refs[i])
        /\ i \in Nat /\ \A j \in Step : j \in Nat \ {0}
    BY FlowFields DEF TypeOK
  <1>2. pc[i] # "idle" /\ c \in Step /\ c < i => pc[c] = "done"
    BY <1>1, Ready DEF RefsReady
  <1>3. pc[i] # "idle" => (steps[i] = "skipped" <=> c # 0 /\ ~(c < i /\ steps[c] = "met"))
    BY DEF SkipInv
  <1>4. CASE StartUnit
    <2>1. /\ flow' = flow /\ Cur \subseteq Step /\ current \in Cur
          /\ \A k \in Cur : pc[k] = "idle" /\ steps'[k] = ImmediateResult(k)
          /\ \A k \in Step \ Cur : pc'[k] = pc[k] /\ steps'[k] = steps[k]
      BY <1>4, StartSteps
    <2>2. CASE i \notin Cur
      <3>1. pc[i] # "idle" /\ steps'[i] = steps[i]
        BY <2>1, <2>2
      <3>2. c \in Step /\ c < i => steps'[c] = steps[c]
        BY <1>2, <2>1, <3>1
      <3> QED BY <1>1, <1>3, <2>1, <3>1, <3>2
    <2>3. CASE i \in Cur
      <3>1. steps'[i] = "skipped" <=> c # 0 /\ steps[c] # "met"
        BY <2>1, <2>3, StartFacts DEF CondHolds
      <3>2. ASSUME c \in Step, c < i PROVE steps'[c] = steps[c]
        <4>1. c \notin Cur
          <5> SUFFICES ASSUME c \in Cur PROVE FALSE
            OBVIOUS
          <5>1. Cur = {current}
            <6>1. c \in flow.refs[i] /\ c \in Cur /\ current \in Step
              BY <1>1, <3>2 DEF TypeOK
            <6> QED BY <2>3, <6>1, UnitFacts DEF Cur
          <5> QED BY <1>1, <2>3, <3>2, <5>1
        <4> QED BY <2>1, <3>2, <4>1
      <3>3. ASSUME c \in Step, ~(c < i) PROVE steps[c] = "none"
        <4>1. c \in Cur \/ (current < c /\ c \notin Cur)
          <5> SUFFICES ASSUME c \notin Cur PROVE current < c
            OBVIOUS
          <5>1. current <= i /\ c # i /\ current \in Nat /\ c \in Nat /\ i \in Nat
            BY <1>1, <2>1, <2>3, <3>3 DEF OrderInv
          <5> HIDE DEF c
          <5> QED BY ONLY <3>3, <5>1
        <4>2. pc[c] = "idle"
          BY <2>1, <3>3, <4>1 DEF OrderInv
        <4> QED BY <3>3, <4>2 DEF ResultInv
      <3> QED BY <1>1, <2>1, <3>1, <3>2, <3>3
    <2> QED BY <2>2, <2>3
  <1>5. CASE Progress
    <2>1. flow' = flow /\ pc[i] # "idle"
      BY <1>5 DEF Progress
    <2>2. c \in Step /\ c < i => steps'[c] = steps[c]
      BY <1>2, <1>5, <2>1 DEF Progress
    <2>3. steps'[i] = "skipped" <=> steps[i] = "skipped"
      BY <1>5 DEF Progress, ResultInv
    <2> QED BY <1>1, <1>3, <2>1, <2>2, <2>3
  <1> QED BY <1>4, <1>5, StepKinds

\* An execution completes with the unit that is over.
LEMMA EndStep ==
    ASSUME TypeOK, OrderInv, EndInv, [Next]_vars
    PROVE  EndInv'
  <1>0. current \in Step /\ Cur \subseteq Step /\ current \in Cur
    BY UnitFacts DEF TypeOK, Cur
  <1>1. CASE StartUnit
    BY <1>1, StartSteps DEF EndInv
  <1>2. CASE EndUnit
    <2> SUFFICES ASSUME wf' = "completed" PROVE EndInv'
      BY DEF EndInv
    <2>1. /\ current' = current /\ UNCHANGED <<flow, pc, steps>>
          /\ RunOver /\ \A i \in Cur : pc[i] = "done"
      BY <1>2, UnitIs DEF EndUnit, Cur
    <2>2. Cur' = Cur
      BY <2>1 DEF Cur
    <2>3. (\E i \in Cur : steps[i] \in Stops) \/ NextStart = N + 1
      BY <2>1, UnitIs DEF RunOver, UnitFailed, Cur
    <2>4. ASSUME NextStart = N + 1, NEW j \in Step PROVE j < current \/ j \in Cur
      <3>1. N \in Cur
        BY <1>0, <2>4, NextFacts, FlowAssumption DEF Cur
      <3>2. j <= N /\ (j < current \/ current <= j)
        BY <1>0, FlowAssumption DEF Step
      <3> QED BY <1>0, <3>1, <3>2, UnitFacts DEF Cur
    <2> QED BY <2>1, <2>2, <2>3, <2>4 DEF EndInv
  <1>3. CASE wf' # "completed"
    BY <1>3 DEF EndInv
  <1>4. CASE UNCHANGED vars
    <2>1. Cur' = Cur
      BY <1>4 DEF vars, Cur
    <2> QED BY <1>4, <2>1 DEF vars, EndInv
  <1> QED BY <1>1, <1>2, <1>3, <1>4, StepKinds

-----------------------------------------------------------------------------
(* The theorems                                                            *)

\* The invariant of an execution: its units are executed one after another,
\* each condition is evaluated on a final result, and every step of a completed
\* execution without a failure is accounted for.
THEOREM FlowInvariance == Spec => []FlowInv
  <1>1. Init => FlowInv
    <2> SUFFICES ASSUME Init PROVE FlowInv
      OBVIOUS
    <2> USE DEF Init
    <2>1. TypeOK
      <3>1. escalated \in BOOLEAN
        BY Zenon
      <3>2. 1 \in Step
        BY FlowAssumption DEF Step
      <3> QED BY <3>1, <3>2 DEF TypeOK, Result
    <2>2. ResultInv /\ SkipInv /\ EndInv
      BY DEF ResultInv, SkipInv, EndInv
    <2>3. RetryInv
      BY <2>1, FlowFields DEF RetryInv, AttemptBound, RetriesLeft, TypeOK
    <2>4. OrderInv
      <3>1. Cur \subseteq Step
        BY <2>1, UnitFacts DEF Cur, TypeOK
      <3>2. \A j \in Step : 1 <= j /\ ~(j < 1)
        BY FlowAssumption DEF Step
      <3> QED BY <3>1, <3>2 DEF OrderInv
    <2> QED BY <2>1, <2>2, <2>3, <2>4 DEF FlowInv
  <1>2. FlowInv /\ [Next]_vars => FlowInv'
    BY TypeStep, OrderStep, ResultStep, SkipStep, RetryInvStep, EndStep DEF FlowInv
  <1> QED BY <1>1, <1>2, PTL DEF Spec

\* The variables of the workflow have their types.
THEOREM WorkflowTypeCorrect == Spec => []TypeOK
  <1>1. FlowInv => TypeOK
    BY DEF FlowInv
  <1> QED BY <1>1, FlowInvariance, PTL

\* Whatever the approvals, timeouts, retries and cancel requests, no step starts
\* before every earlier unit is over and good: chunk_parallel_groups and the loop
\* of run never let an agent run past a denied gate or a failed step.
THEOREM UnitsStayInOrder == Spec => []UnitsInOrder
  <1>1. FlowInv => UnitsInOrder
    BY InOrder DEF FlowInv
  <1> QED BY <1>1, FlowInvariance, PTL

\* The steps a prompt or a condition names have ended when it is read, also in a
\* parallel group: a group with an internal reference is not gathered.
THEOREM ReferencesReady == Spec => []RefsReady
  <1>1. FlowInv => RefsReady
    BY Ready DEF FlowInv
  <1> QED BY <1>1, FlowInvariance, PTL

\* execute_with_retries makes at most max_retries + 1 attempts at a step.
THEOREM AttemptsBounded == Spec => []AttemptBound
  <1>1. FlowInv => AttemptBound
    BY DEF FlowInv, RetryInv
  <1> QED BY <1>1, FlowInvariance, PTL

\* An execution that completes without a failed or a denied step has executed
\* every step.
LEMMA FlowAccounts ==
    ASSUME FlowInv
    PROVE  CompletedAccounted
  <1> SUFFICES ASSUME wf = "completed", NEW i \in Step,
                      \A k \in Step : steps[k] \notin {"failed", "denied"}
               PROVE  /\ steps[i] \in Good
                      /\ steps[i] = "skipped" <=>
                            /\ flow.cond[i] # 0
                            /\ ~(flow.cond[i] < i /\ steps[flow.cond[i]] = "met")
    BY DEF CompletedAccounted
  <1> USE DEF FlowInv
  <1>1. Cur \subseteq Step
    BY UnitFacts DEF Cur, TypeOK
  <1>2. pc[i] = "done"
    BY <1>1 DEF EndInv, OrderInv, Stops
  <1>3. steps[i] # "none" /\ steps[i] \in Result
    BY <1>2 DEF ResultInv, TypeOK
  <1> QED BY <1>2, <1>3 DEF SkipInv, Result, Good

\* An execution that completes without a failed or a denied step has executed
\* every step, and skipped exactly those whose condition does not hold on the
\* final results.
THEOREM CompletedIsAccounted == Spec => []CompletedAccounted
  BY FlowAccounts, FlowInvariance, PTL

\* A recorded result never changes: no late decision, retry, cancel request or
\* restart of a unit replaces it.
THEOREM ResultsAreStable == Spec => ResultStable
  <1>1. FlowInv /\ [Next]_vars => \A i \in Step : steps[i] # "none" => steps'[i] = steps[i]
    <2> SUFFICES ASSUME FlowInv, [Next]_vars, NEW i \in Step, steps[i] # "none"
                 PROVE  steps'[i] = steps[i]
      OBVIOUS
    <2> USE DEF FlowInv
    <2>1. pc[i] \notin {"idle", "wait", "activity"}
      BY DEF ResultInv
    <2>2. CASE StartUnit
      BY <2>1, <2>2, StartSteps
    <2>3. CASE Progress
      BY <2>1, <2>3 DEF Progress
    <2> QED BY <2>2, <2>3, StepKinds
  <1>2. FlowInv /\ [Next]_vars =>
            [\A i \in Step : steps[i] # "none" => steps'[i] = steps[i]]_vars
    BY <1>1
  <1> QED BY <1>2, FlowInvariance, PTL DEF Spec, ResultStable

-----------------------------------------------------------------------------
(* The promise of a run                                                    *)

\* Where a coroutine is says whether its step was given to an agent.
StartInv ==
    \A i \in Step :
        /\ pc[i] = "idle" => attempts[i] = 0
        /\ pc[i] \in {"activity", "backoff"} => attempts[i] # 0 /\ i \notin flow.gate
        /\ pc[i] \in {"notify", "wait"} => i \in flow.gate

\* No step but the start of a unit starts a step.
LEMMA StartStep ==
    ASSUME TypeOK, StartInv, [Next]_vars
    PROVE  /\ StartInv'
           /\ StartUnit \/ \A k \in Step : attempts'[k] = 0 <=> attempts[k] = 0
  <1> SUFFICES ASSUME NEW k \in Step
               PROVE  /\ pc'[k] = "idle" => attempts'[k] = 0
                      /\ pc'[k] \in {"activity", "backoff"} =>
                            attempts'[k] # 0 /\ k \notin flow'.gate
                      /\ pc'[k] \in {"notify", "wait"} => k \in flow'.gate
                      /\ StartUnit \/ (attempts'[k] = 0 <=> attempts[k] = 0)
    BY DEF StartInv
  <1>0. /\ pc[k] = "idle" => attempts[k] = 0
        /\ pc[k] \in {"activity", "backoff"} => attempts[k] # 0 /\ k \notin flow.gate
        /\ pc[k] \in {"notify", "wait"} => k \in flow.gate
        /\ attempts[k] \in Nat
    BY DEF StartInv, TypeOK
  <1>1. CASE StartUnit
    <2>1. FirstAwait(k) = "activity" => k \notin flow.gate
      BY DEF FirstAwait
    <2>2. FirstAwait(k) = "notify" => k \in flow.gate
      BY DEF FirstAwait
    <2>3. FirstAwait(k) \in {"done", "notify", "activity"}
      BY StartFacts
    <2>4. CASE k \in Cur
      <3>1. /\ flow' = flow /\ pc'[k] = FirstAwait(k)
            /\ FirstAwait(k) = "activity" => attempts'[k] = 1
        BY <1>1, <2>4, StartSteps
      <3> QED BY <1>1, <2>1, <2>2, <2>3, <3>1
    <2>5. CASE k \notin Cur
      BY <1>0, <1>1, <2>5, StartSteps
    <2> QED BY <2>4, <2>5
  <1>2. CASE EndUnit
    BY <1>0, <1>2 DEF EndUnit
  <1>3. ASSUME NEW i \in Step, StepAction(i)
        PROVE  /\ pc'[k] = "idle" => attempts'[k] = 0
               /\ pc'[k] \in {"activity", "backoff"} =>
                     attempts'[k] # 0 /\ k \notin flow'.gate
               /\ pc'[k] \in {"notify", "wait"} => k \in flow'.gate
               /\ attempts'[k] = 0 <=> attempts[k] = 0
    <2>1. flow' = flow /\ (k # i => pc'[k] = pc[k] /\ attempts'[k] = attempts[k])
      BY <1>3, CoroutineSteps DEF CoroutineStep, RetryStep, TypeOK
    <2>2. CASE k # i
      BY <1>0, <2>1, <2>2
    <2>3. CASE k = i
      <3>1. /\ \/ pc[k] = "notify" /\ pc'[k] = "wait"
               \/ pc[k] \in {"activity", "backoff"} /\ pc'[k] \in {"activity", "backoff"}
               \/ pc'[k] \in {"done", "escalate"}
            /\ \/ attempts'[k] = attempts[k]
               \/ attempts'[k] = attempts[k] + 1 /\ pc[k] = "backoff"
            /\ pc[k] # "idle"
        <4> USE <2>3 DEF TypeOK, Goto
        <4>1. CASE NotifyDone(i)
          BY <4>1 DEF NotifyDone
        <4>2. CASE Decide(i)
          BY <4>2 DEF Decide, Decided
        <4>3. CASE ApprovalTimeout(i)
          BY <4>3 DEF ApprovalTimeout
        <4>4. CASE \E r \in {"met", "unmet"} : ActivityOk(i, r)
          BY <4>4 DEF ActivityOk
        <4>5. CASE ActivityRetry(i)
          BY <4>5 DEF ActivityRetry
        <4>6. CASE Backoff(i)
          BY <4>6 DEF Backoff
        <4>7. CASE ActivityFailed(i) \/ ActivityError(i)
          BY <4>7 DEF ActivityFailed, ActivityError
        <4>8. CASE EscalationDone(i)
          BY <4>8 DEF EscalationDone
        <4> QED BY <1>3, <4>1, <4>2, <4>3, <4>4, <4>5, <4>6, <4>7, <4>8 DEF StepAction
      <3> QED BY <1>0, <2>1, <3>1
    <2> QED BY <2>2, <2>3
  <1>4. ASSUME NEW i \in Step, NEW d \in {"approved", "rejected"}, Approve(i, d)
        PROVE  UNCHANGED <<flow, pc, attempts>>
    BY <1>4 DEF Approve
  <1>5. CASE Cancel
    <2>1. /\ flow' = flow /\ attempts' = attempts
          /\ \/ pc'[k] = pc[k]
             \/ pc[k] = "notify" /\ pc'[k] = "wait"
             \/ pc'[k] = "escalate"
      BY <1>5, CancelFacts DEF CancelCaught, TypeOK
    <2>2. pc[k] = "idle" <=> pc'[k] = "idle"
      BY <1>5, CancelFacts DEF CancelCaught, TypeOK
    <2> QED BY <1>0, <2>1, <2>2
  <1>6. CASE UNCHANGED vars
    BY <1>0, <1>6 DEF vars
  <1> QED BY <1>0, <1>1, <1>2, <1>3, <1>4, <1>5, <1>6 DEF Next

\* The terms of the promise, in this workflow's.
LEMMA PromiseTerms ==
    ASSUME TypeOK, NEW i \in Step
    PROVE  /\ Promise!Reached(i) <=>
                 \A j \in Step : j < i /\ j \notin UnitOf(flow, i) => steps[j] \in Good
           /\ Promise!Holds(i) <=> CondHolds(i)
  <1>1. flow.cond[i] \in Step \cup {0} /\ 0 \notin Step
    BY FlowFields, FlowAssumption DEF TypeOK, Step
  <1>2. Promise!Holds(i) <=> CondHolds(i)
    BY <1>1 DEF Promise!Holds, CondHolds
  <1>3. Promise!Reached(i) <=>
           \A j \in Step : j < i /\ j \notin UnitOf(flow, i) => steps[j] \in Good
    BY UnitIs DEF Promise!Reached
  <1> QED BY <1>2, <1>3

\* The durable engine keeps the promise of a run: whatever the order of
\* signals, timeouts, retries and a cancel, also inside parallel groups, a step
\* is given to an agent at most once (its retries aside), when the units before
\* it are good and its condition holds, a result is not replaced, and a run is
\* reported completed when every step has a good result.
THEOREM TemporalKeepsPromise == Spec => KeepsPromise
  <1> DEFINE Inv == FlowInv /\ StartInv
             plan == [gate |-> flow.gate, redo |-> {},
                      before |-> [i \in Step |-> {j \in Step : j < i /\ j \notin Unit(i)}],
                      free |-> {i \in Step : flow.cond[i] = 0},
                      cond |-> [i \in Step |-> {flow.cond[i]} \cap Step]]
             starts == [i \in Step |-> IF attempts[i] = 0 THEN 0 ELSE 1]
             reported == wf = "completed" /\ \A i \in Step : steps[i] \notin Stops
  <1>1. Init => StartInv
    BY DEF Init, StartInv
  <1>2. Spec => []Inv
    <2>1. FlowInv /\ StartInv /\ [Next]_vars => StartInv'
      BY StartStep DEF FlowInv
    <2> QED BY <1>1, <2>1, FlowInvariance, PTL DEF Spec
  <1>3. Init => Promise!PromiseInit
    BY DEF Init, Promise!PromiseInit
  <1>4. Inv /\ [Next]_vars =>
            [Promise!Advance \/ Promise!Report \/ Promise!Withdraw]_(Promise!promiseVars)
    <2> SUFFICES ASSUME FlowInv, StartInv, [Next]_vars
                 PROVE  \/ Promise!Advance \/ Promise!Report
                        \/ UNCHANGED Promise!promiseVars
      OBVIOUS
    <2> USE DEF FlowInv
    <2>1. TypeOK' /\ FlowInv'
      BY TypeStep, OrderStep, ResultStep, SkipStep, RetryInvStep, EndStep DEF FlowInv
    <2>2. flow' = flow => plan' = plan
      BY DEF Unit, Gathered, InternalDependency, Block
    <2>3. ASSUME wf = "running" PROVE reported = FALSE
      BY <2>3
    <2>4. starts' \in [Step -> Nat] /\ steps' \in [Step -> (Result \ {"none"}) \cup {"none"}]
      BY <2>1 DEF TypeOK, Result
    <2>5. CASE StartUnit
      <3>1. wf = "running" /\ wf' = wf /\ flow' = flow
        BY <2>5, StartSteps
      <3>2. ASSUME NEW i \in Step
            PROVE  /\ starts'[i] = starts[i] \/ (Promise!MayStart(i) /\ starts'[i] = 1)
                   /\ steps'[i] = steps[i] \/ Promise!MaySet(i, steps'[i])
        <4>1. CASE i \notin Cur
          BY <2>5, <4>1, StartSteps
        <4>2. CASE i \in Cur
          <5>1. /\ pc[i] = "idle" /\ steps'[i] = ImmediateResult(i)
                /\ attempts'[i] = IF FirstAwait(i) = "activity" THEN 1 ELSE attempts[i]
            BY <2>5, <4>2, StartSteps
          <5>2. steps[i] = "none" /\ attempts[i] = 0
            BY <5>1 DEF ResultInv, StartInv
          <5>3. Promise!Reached(i)
            <6>1. current \in Step /\ Cur = UnitOf(flow, i)
              BY <4>2, UnitFacts DEF TypeOK, Cur
            <6>2. ASSUME NEW j \in Step, j < i, j \notin Cur PROVE j < current
              <7>1. current \in Cur
                BY <6>1, UnitFacts DEF Cur
              <7>2. ~(current <= j)
                BY <4>2, <6>1, <6>2, <7>1, UnitFacts, FlowAssumption DEF Cur, Step
              <7> QED BY <6>1, <7>2, FlowAssumption DEF Step
            <6> QED BY <6>1, <6>2, PromiseTerms DEF OrderInv
          <5>4. FirstAwait(i) = "activity" => i \notin flow.gate /\ CondHolds(i)
            BY DEF FirstAwait, ImmediateResult
          <5>5. ImmediateResult(i) = "skipped" => ~CondHolds(i)
            BY StartFacts
          <5>6. ImmediateResult(i) \in {"met", "unmet"} => i \in flow.gate
            BY DEF ImmediateResult
          <5>7. ImmediateResult(i) \in {"none"} \cup (Result \ {"none"})
            BY StartFacts DEF Result
          <5>8. FirstAwait(i) = "activity" => Promise!MayStart(i) /\ starts'[i] = 1
            BY <5>1, <5>2, <5>3, <5>4, PromiseTerms DEF Promise!MayStart
          <5>9. steps'[i] # "none" => Promise!MaySet(i, steps'[i])
            BY <5>1, <5>2, <5>3, <5>5, <5>6, <5>7, PromiseTerms DEF Promise!MaySet
          <5>10. FirstAwait(i) # "activity" => starts'[i] = starts[i]
            BY <5>1
          <5> QED BY <5>2, <5>8, <5>9, <5>10
        <4> QED BY <4>1, <4>2
      <3>3. reported' = FALSE
        BY <3>1
      <3> QED BY <2>2, <2>3, <2>4, <3>1, <3>2, <3>3 DEF Promise!Advance
    <2>6. CASE EndUnit
      <3>1. wf = "running" /\ UNCHANGED <<flow, steps, attempts>>
        BY <2>6 DEF EndUnit
      <3>2. plan' = plan /\ starts' = starts
        BY <2>2, <3>1
      <3>3. CASE reported'
        <4>1. CompletedAccounted'
          BY <2>1, FlowAccounts, PTL
        <4>2. \A i \in Step : steps[i] \in Good
          BY <3>1, <3>3, <4>1 DEF CompletedAccounted, Stops
        <4> QED BY <2>3, <3>1, <3>2, <3>3, <4>2 DEF Promise!Report
      <3>4. CASE ~reported'
        <4>1. reported' = reported
          BY <2>3, <3>1, <3>4
        <4> QED BY <3>1, <3>2, <4>1 DEF Promise!promiseVars
      <3> QED BY <3>3, <3>4
    <2>7. CASE Progress /\ wf = "running" /\ wf' # "completed" /\ ~StartUnit
      <3>1. starts' = starts
        BY <2>7, StartStep
      <3>2. ASSUME NEW i \in Step, steps'[i] # steps[i] PROVE Promise!MaySet(i, steps'[i])
        <4>1. /\ pc[i] \in {"wait", "activity"}
              /\ steps'[i] \in {"met", "unmet", "denied", "failed"}
          BY <2>7, <3>2 DEF Progress
        <4>2. /\ steps[i] = "none"
              /\ i \notin flow.gate => attempts[i] # 0
          BY <4>1 DEF ResultInv, StartInv
        <4>3. Promise!Reached(i)
          BY <4>1, InOrder, UnitIs, PromiseTerms DEF UnitsInOrder
        <4> QED BY <4>1, <4>2, <4>3 DEF Promise!MaySet, Result
      <3>3. reported' = FALSE /\ plan' = plan
        BY <2>2, <2>7 DEF Progress
      <3> QED BY <2>3, <2>4, <2>7, <3>1, <3>2, <3>3 DEF Promise!Advance
    <2>8. CASE UNCHANGED vars
      <3>1. UNCHANGED <<flow, steps, attempts, wf>>
        BY <2>8 DEF vars
      <3>2. plan' = plan /\ starts' = starts /\ steps' = steps
        BY <2>2, <3>1
      <3>3. reported' = reported
        BY <3>1
      <3> QED BY <3>2, <3>3 DEF Promise!promiseVars
    <2> QED BY <2>5, <2>6, <2>7, <2>8, StepKinds
  <1> QED BY <1>2, <1>3, <1>4, PTL DEF Spec, KeepsPromise, Promise!PromiseSpec
=============================================================================
