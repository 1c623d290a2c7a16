------------------------- MODULE LocalRunnerProofs -------------------------
(***************************************************************************)
(* LocalRunner for any definition, any number of approvals, cancels,       *)
(* crashes and store errors: type correctness, and, when one POST /run     *)
(* carries the id, mutual exclusion of approvals, at most one executing    *)
(* task, and quiet pauses.  For definitions whose conditions look back and *)
(* whose keys are no other step's name: no agent runs twice or before the  *)
(* gates that precede it, decisions that were used stay, and a completed   *)
(* run accounts for every step.                                            *)
(***************************************************************************)
EXTENDS LocalRunner, TLAPS

\* A task that can still run its graph, and an approval that holds the lock.
Inner == {"get", "update", "resume", "reget", "recheck", "launch"}
Decided == {"update", "resume", "reget", "recheck", "launch"}

\* What a task's program point says of its node and its pause.
PcInv ==
    \A t \in Task :
        /\ tpc[t] = "exec" => node[t] \in Step
        /\ tpc[t] = "persist" => node[t] # N + 1
        /\ tpc[t] = "pause" => pausedAt[t] # 0

TypeInv == TypeOK /\ PcInv

\* The lock object approvals in flight use is the current one and its holder
\* is the approval that is inside _approve_inner.
LockInv ==
    \A a \in Approver :
        /\ apc[a] \notin {"idle", "done"} => req[a].lock = lock /\ lock # None
        /\ apc[a] \in Inner => holder[lock] = a

\* Before the row exists nothing else does, and start() launches its task
\* before the run can be paused.
StartInv ==
    /\ row.status = "absent" =>
          /\ \A a \in Approver : apc[a] = "idle"
          /\ \A t \in Task : tpc[t] = "idle"
          /\ \A c \in Canceller : cpc[c] \notin {"decide", "mark"}
    /\ \A s \in Starter :
          /\ spc[s] \in {"idle", "create"} => row.status = "absent"
          /\ spc[s] = "context" =>
                /\ row.status \notin {"absent", "paused"}
                /\ \A t \in Task : tpc[t] = "idle"
                /\ \A a \in Approver : apc[a] \notin Decided

\* Between its look at a paused row and its launch, an approval has the run
\* to itself.
ApproveInv ==
    \A a \in Approver :
        /\ apc[a] \in Decided => \A t \in Task : ~Executing(t)
        /\ apc[a] \in {"reget", "recheck", "launch"} => row.status # "paused"

RunInv == LockInv /\ StartInv /\ ApproveInv /\ SingleExecutor /\ PausedIsQuiet

USE DEF Step, Task, Terminal, Status, Result, Completed, NoResults,
        TryPc, HandlerPc, LivePc

\* The program points of every reachable state are typed.
LEMMA TypeInvariance == Spec => []TypeInv
<1> USE RequestAssumption, DefinitionAssumption, BoundAssumption
<1>1. Init => TypeInv
  BY DEF Init, TypeInv, TypeOK, PcInv
<1>2. TypeInv /\ [Next]_vars => TypeInv'
  <2> SUFFICES ASSUME TypeInv, [Next]_vars PROVE TypeInv'
    OBVIOUS
  <2> USE DEF reqVars, taskVars, histVars
  <2>1. ASSUME NEW s \in Starter, StartRequest(s) PROVE TypeInv'
    BY <2>1 DEF TypeInv, TypeOK, PcInv, StartRequest
  <2>2. ASSUME NEW s \in Starter, StartCreate(s) PROVE TypeInv'
    <3>1. CASE row.status = "absent"
      <4>1. /\ row' = [row EXCEPT !.status = "running"]
            /\ spc' = [spc EXCEPT ![s] = "context"]
        BY <2>2, <3>1 DEF StartCreate
      <4> QED
        BY <2>2, <4>1 DEF TypeInv, TypeOK, PcInv, StartCreate
    <3>2. CASE row.status # "absent"
      <4>1. row' = row /\ spc' = [spc EXCEPT ![s] = "done"]
        BY <2>2, <3>2 DEF StartCreate
      <4> QED
        BY <2>2, <4>1 DEF TypeInv, TypeOK, PcInv, StartCreate
    <3> QED
      BY <3>1, <3>2
  <2>3. ASSUME NEW s \in Starter, StartLaunch(s) PROVE TypeInv'
    BY <2>3 DEF TypeInv, TypeOK, PcInv, StartLaunch, Launch
  <2>4. ASSUME NEW s \in Starter, StartFault(s) PROVE TypeInv'
    BY <2>4 DEF TypeInv, TypeOK, PcInv, StartFault, Fault
  <2>5. ASSUME NEW t \in Task, TaskBegin(t) PROVE TypeInv'
    BY <2>5 DEF TypeInv, TypeOK, PcInv, TaskBegin
  <2>6. ASSUME NEW t \in Task, NodeSync(t) PROVE TypeInv'
    <3>1. CASE node[t] \in Step
      <4> DEFINE r == SyncResult(t, node[t])
      <4>1. r \in Result
        BY <3>1 DEF TypeInv, TypeOK, SyncResult
      <4> HIDE DEF r
      <4>2. mem' = [mem EXCEPT ![t] = [mem[t] EXCEPT ![Key[node[t]]] = r]]
        BY <2>6, <3>1 DEF NodeSync, r
      <4>3. mem' \in [Task -> [Label -> Result]]
        BY <3>1, <4>1, <4>2 DEF TypeInv, TypeOK
      <4>4. pausedAt' \in [Task -> Step \cup {0}]
        BY <2>6, <3>1 DEF NodeSync, TypeInv, TypeOK
      <4>5. tpc' = [tpc EXCEPT ![t] = "persist"] /\ node[t] # N + 1
        BY <2>6 DEF NodeSync
      <4> QED
        BY <2>6, <4>3, <4>4, <4>5 DEF NodeSync, TypeInv, TypeOK, PcInv
    <3>2. CASE node[t] \notin Step
      BY <2>6, <3>2 DEF NodeSync, TypeInv, TypeOK, PcInv
    <3> QED
      BY <3>1, <3>2
  <2>7. ASSUME NEW t \in Task, NodeExec(t) PROVE TypeInv'
    BY <2>7 DEF TypeInv, TypeOK, PcInv, NodeExec
  <2>8. ASSUME NEW t \in Task, NodeEnd(t) PROVE TypeInv'
    BY <2>8 DEF TypeInv, TypeOK, PcInv, NodeEnd
  <2>9. ASSUME NEW t \in Task, NEW r \in {"completed", "failed"}, ExecReturn(t, r) PROVE TypeInv'
    BY <2>9 DEF TypeInv, TypeOK, PcInv, ExecReturn
  <2>10. ASSUME NEW t \in Task, ExecRaise(t) PROVE TypeInv'
    BY <2>10 DEF TypeInv, TypeOK, PcInv, ExecRaise
  <2>11. ASSUME NEW t \in Task, Persist(t) PROVE TypeInv'
    <3>1. row' \in [status : Status, current : Label \cup {None},
                    steps : [Label -> Result]]
      <4>1. CASE row' = row
        BY <4>1 DEF TypeInv, TypeOK
      <4>2. CASE \E k \in NewKeys(t) : UpdateStep(k, mem[t][k])
        <5>1. PICK k \in NewKeys(t) : UpdateStep(k, mem[t][k])
          BY <4>2
        <5>2. k \in Label /\ mem[t][k] \in Result
          BY <5>1 DEF TypeInv, TypeOK, NewKeys
        <5> QED
          BY <5>1, <5>2 DEF TypeInv, TypeOK, UpdateStep
      <4> QED
        BY <2>11, <4>1, <4>2 DEF Persist
    <3>2. saved' \in [Task -> SUBSET Label]
      BY <2>11 DEF TypeInv, TypeOK, Persist, NewKeys
    <3>3. \/ tpc' = [tpc EXCEPT ![t] = "fail"] /\ node' = node
          \/ pausedAt[t] # 0 /\ tpc' = [tpc EXCEPT ![t] = "pause"] /\ node' = node
          \/ /\ tpc' = [tpc EXCEPT ![t] = "node"]
             /\ node' = [node EXCEPT ![t] = node[t] + 1]
      BY <2>11 DEF Persist
    <3>4. /\ tpc' \in [Task -> {"idle", "done"} \cup LivePc]
          /\ node' \in [Task -> 0..(N + 1)]
      <4>1. node[t] + 1 \in 0..(N + 1)
        BY <2>11 DEF TypeInv, TypeOK, PcInv, Persist
      <4>2. tpc' \in [Task -> {"idle", "done"} \cup LivePc]
        BY <3>3 DEF TypeInv, TypeOK
      <4>3. node' = node \/ node' = [node EXCEPT ![t] = node[t] + 1]
        BY <3>3
      <4>4. node \in [Task -> 0..(N + 1)]
        BY DEF TypeInv, TypeOK
      <4>5. node' \in [Task -> 0..(N + 1)]
        BY <4>1, <4>3, <4>4
      <4> QED
        BY <4>2, <4>5
    <3>5. PcInv'
      BY <2>11, <3>3 DEF TypeInv, TypeOK, PcInv, Persist
    <3> QED
      BY <2>11, <3>1, <3>2, <3>4, <3>5 DEF TypeInv, TypeOK, Persist
  <2>12. ASSUME NEW t \in Task, Pause(t) PROVE TypeInv'
    <3>1. Name[pausedAt[t]] \in Label
      BY <2>12 DEF TypeInv, TypeOK, PcInv, Pause
    <3>2. row' \in [status : Status, current : Label \cup {None},
                    steps : [Label -> Result]]
      BY <2>12, <3>1 DEF TypeInv, TypeOK, Pause, SetPaused
    <3> QED
      BY <2>12, <3>2 DEF TypeInv, TypeOK, PcInv, Pause
  <2>13. ASSUME NEW t \in Task, MarkFailed(t) PROVE TypeInv'
    BY <2>13 DEF TypeInv, TypeOK, PcInv, MarkFailed, Mark, MarkTerminal
  <2>14. ASSUME NEW t \in Task, MarkCompleted(t) PROVE TypeInv'
    BY <2>14 DEF TypeInv, TypeOK, PcInv, MarkCompleted, Mark, MarkTerminal
  <2>15. ASSUME NEW t \in Task, MarkCancelled(t) PROVE TypeInv'
    BY <2>15 DEF TypeInv, TypeOK, PcInv, MarkCancelled, Mark, MarkTerminal
  <2>16. ASSUME NEW t \in Task, MarkExcFailed(t) PROVE TypeInv'
    BY <2>16 DEF TypeInv, TypeOK, PcInv, MarkExcFailed, Mark, MarkTerminal
  <2>17. ASSUME NEW t \in Task, Finally(t) PROVE TypeInv'
    BY <2>17 DEF TypeInv, TypeOK, PcInv, Finally
  <2>18. ASSUME NEW t \in Task, RaiseCancelled(t) PROVE TypeInv'
    <3>1. tpc' \in [Task -> {"idle", "done"} \cup LivePc]
      BY <2>18 DEF TypeInv, TypeOK, RaiseCancelled
    <3>2. strandings' \in Nat /\ killed' \in [Task -> BOOLEAN]
      BY <2>18 DEF TypeInv, TypeOK, RaiseCancelled
    <3>3. PcInv'
      BY <2>18 DEF TypeInv, TypeOK, PcInv, RaiseCancelled
    <3> QED
      BY <2>18, <3>1, <3>2, <3>3 DEF TypeInv, TypeOK, RaiseCancelled
  <2>19. ASSUME NEW t \in Task, TaskFault(t) PROVE TypeInv'
    BY <2>19 DEF TypeInv, TypeOK, PcInv, TaskFault, Fault
  <2>20. ASSUME NEW a \in Approver, NEW k \in Label, NEW d \in {"approved", "rejected"}, ApproveRequest(a, k, d) PROVE TypeInv'
    BY <2>20 DEF TypeInv, TypeOK, PcInv, ApproveRequest
  <2>21. ASSUME NEW a \in Approver, ApproveLock(a) PROVE TypeInv'
    BY <2>21 DEF TypeInv, TypeOK, PcInv, ApproveLock
  <2>22. ASSUME NEW a \in Approver, ApproveGet(a) PROVE TypeInv'
    BY <2>22 DEF TypeInv, TypeOK, PcInv, ApproveGet, Release
  <2>23. ASSUME NEW a \in Approver, ApproveUpdate(a) PROVE TypeInv'
    BY <2>23 DEF TypeInv, TypeOK, PcInv, ApproveUpdate, UpdateStep, OutputKey
  <2>24. ASSUME NEW a \in Approver, ApproveResume(a) PROVE TypeInv'
    BY <2>24 DEF TypeInv, TypeOK, PcInv, ApproveResume, Resume
  <2>25. ASSUME NEW a \in Approver, ResumeGet(a) PROVE TypeInv'
    <3>1. /\ row.steps \in [Label -> Result] /\ row.status \in Status
          /\ snap[a] \in [status : Status, steps : [Label -> Result]]
      BY DEF TypeInv, TypeOK
    <3>2. snap' = [snap EXCEPT ![a] = [snap[a] EXCEPT !.steps = row.steps]]
      BY <2>25 DEF ResumeGet
    <3>3. snap' \in [Approver -> [status : Status, steps : [Label -> Result]]]
      BY <3>1, <3>2 DEF TypeInv, TypeOK
    <3> QED
      BY <2>25, <3>3 DEF TypeInv, TypeOK, PcInv, ResumeGet
  <2>26. ASSUME NEW a \in Approver, ResumeRecheck(a) PROVE TypeInv'
    <3>1. /\ row.steps \in [Label -> Result] /\ row.status \in Status
          /\ snap[a] \in [status : Status, steps : [Label -> Result]]
      BY DEF TypeInv, TypeOK
    <3>2. snap' = [snap EXCEPT ![a] = [snap[a] EXCEPT !.status = row.status]]
      BY <2>26 DEF ResumeRecheck
    <3>3. snap' \in [Approver -> [status : Status, steps : [Label -> Result]]]
      BY <3>1, <3>2 DEF TypeInv, TypeOK
    <3> QED
      BY <2>26, <3>3 DEF TypeInv, TypeOK, PcInv, ResumeRecheck
  <2>27. ASSUME NEW a \in Approver, ResumeLaunch(a) PROVE TypeInv'
    <3>1. holder' \in [Task -> Approver \cup {None}]
      BY <2>27 DEF TypeInv, TypeOK, ResumeLaunch, Release
    <3>2. apc' \in [Approver -> {"idle", "lock", "get", "update", "resume",
                                "reget", "recheck", "launch", "done"}]
      BY <2>27 DEF TypeInv, TypeOK, ResumeLaunch, Release
    <3>3. CASE snap[a].status = "cancelled"
      BY <2>27, <3>1, <3>2, <3>3 DEF TypeInv, TypeOK, PcInv, ResumeLaunch
    <3>4. CASE Launch(a, Restored(a))
      <4>1. snap[a].steps \in [Label -> Result]
        BY DEF TypeInv, TypeOK
      <4> QED
        BY <2>27, <3>1, <3>2, <3>4, <4>1
        DEF TypeInv, TypeOK, PcInv, ResumeLaunch, Launch, Restored
    <3> QED
      BY <2>27, <3>3, <3>4 DEF ResumeLaunch
  <2>28. ASSUME NEW a \in Approver, ApproveFault(a) PROVE TypeInv'
    <3>1. holder' \in [Task -> Approver \cup {None}]
      BY <2>28 DEF TypeInv, TypeOK, ApproveFault, Release
    <3>2. apc' \in [Approver -> {"idle", "lock", "get", "update", "resume",
                                "reget", "recheck", "launch", "done"}]
      BY <2>28 DEF TypeInv, TypeOK, ApproveFault, Release
    <3>3. faults' \in Nat /\ strandings' \in Nat /\ crashes' \in Nat
      BY <2>28 DEF TypeInv, TypeOK, ApproveFault, Fault
    <3> QED
      BY <2>28, <3>1, <3>2, <3>3 DEF TypeInv, TypeOK, PcInv, ApproveFault
  <2>29. ASSUME NEW c \in Canceller, CancelRequest(c) PROVE TypeInv'
    BY <2>29 DEF TypeInv, TypeOK, PcInv, CancelRequest
  <2>30. ASSUME NEW c \in Canceller, CancelGet(c) PROVE TypeInv'
    BY <2>30 DEF TypeInv, TypeOK, PcInv, CancelGet
  <2>31. ASSUME NEW c \in Canceller, CancelDecide(c) PROVE TypeInv'
    BY <2>31 DEF TypeInv, TypeOK, PcInv, CancelDecide
  <2>32. ASSUME NEW c \in Canceller, CancelMark(c) PROVE TypeInv'
    BY <2>32 DEF TypeInv, TypeOK, PcInv, CancelMark, MarkTerminal
  <2>33. ASSUME NEW c \in Canceller, CancelFault(c) PROVE TypeInv'
    BY <2>33 DEF TypeInv, TypeOK, PcInv, CancelFault, Fault
  <2>34. ASSUME CrashRestart PROVE TypeInv'
    BY <2>34 DEF TypeInv, TypeOK, PcInv, CrashRestart, Started
  <2>35. CASE UNCHANGED vars
    BY <2>35 DEF TypeInv, TypeOK, PcInv, vars
  <2> QED
    BY <2>1, <2>2, <2>3, <2>4, <2>5, <2>6, <2>7, <2>8, <2>9,
       <2>10, <2>11, <2>12, <2>13, <2>14, <2>15, <2>16, <2>17, <2>18,
       <2>19, <2>20, <2>21, <2>22, <2>23, <2>24, <2>25, <2>26, <2>27,
       <2>28, <2>29, <2>30, <2>31, <2>32, <2>33, <2>34, <2>35
    DEF Next, StartStep, TaskStep, ApproveStep, CancelStep
<1>3. QED
  BY <1>1, <1>2, PTL DEF Spec

\* What the runner keeps has its type, for any definition and any requests.
THEOREM TypeCorrect == Spec => []TypeOK
<1>1. TypeInv => TypeOK
  BY DEF TypeInv
<1>2. QED
  BY <1>1, TypeInvariance, PTL

\* No step of a task starts a task, and only set_paused pauses the run, which
\* ends the executing part of the task that calls it.
TaskFacts(t) ==
    /\ UNCHANGED <<lock, holder, spc, apc, req, cpc>>
    /\ tpc[t] # "idle"
    /\ \A u \in Task : (tpc[u] = "idle" => tpc'[u] = "idle")
                      /\ (Executing(u)' => Executing(u))
    /\ row'.status = "absent" => row.status = "absent"
    /\ row'.status = "paused" =>
          row.status = "paused" \/ (Executing(t) /\ ~Executing(t)')

LEMMA TaskStepFacts ==
    ASSUME TypeInv, NEW t \in Task, TaskStep(t) \/ TaskFault(t)
    PROVE  TaskFacts(t)
<1> USE DefinitionAssumption DEF reqVars, taskVars, histVars
<1>1. CASE TaskBegin(t)
  BY <1>1 DEF TypeInv, TypeOK, TaskFacts, Executing, TaskBegin
<1>2. CASE NodeSync(t)
  BY <1>2 DEF TypeInv, TypeOK, TaskFacts, Executing, NodeSync
<1>3. CASE NodeExec(t)
  BY <1>3 DEF TypeInv, TypeOK, TaskFacts, Executing, NodeExec
<1>4. CASE NodeEnd(t)
  BY <1>4 DEF TypeInv, TypeOK, TaskFacts, Executing, NodeEnd
<1>5. CASE \E r \in {"completed", "failed"} : ExecReturn(t, r)
  BY <1>5 DEF TypeInv, TypeOK, TaskFacts, Executing, ExecReturn
<1>6. CASE ExecRaise(t)
  BY <1>6 DEF TypeInv, TypeOK, TaskFacts, Executing, ExecRaise
<1>7. CASE Persist(t)
  <2>1. row'.status = row.status
    <3>1. CASE row' = row
      BY <3>1
    <3>2. CASE \E k \in NewKeys(t) : UpdateStep(k, mem[t][k])
      BY <3>2 DEF TypeInv, TypeOK, UpdateStep
    <3> QED
      BY <1>7, <3>1, <3>2 DEF Persist
  <2>2. \E pc \in {"fail", "pause", "node"} : tpc' = [tpc EXCEPT ![t] = pc]
    BY <1>7 DEF Persist
  <2>3. tpc[t] = "persist" /\ UNCHANGED <<lock, holder, spc, apc, req, cpc>>
    BY <1>7 DEF Persist
  <2> QED
    BY <2>1, <2>2, <2>3 DEF TypeInv, TypeOK, TaskFacts, Executing
<1>8. CASE Pause(t)
  BY <1>8 DEF TypeInv, TypeOK, TaskFacts, Executing, Pause, SetPaused
<1>9. CASE MarkFailed(t)
  BY <1>9 DEF TypeInv, TypeOK, TaskFacts, Executing, MarkFailed, Mark, MarkTerminal
<1>10. CASE MarkCompleted(t)
  BY <1>10 DEF TypeInv, TypeOK, TaskFacts, Executing, MarkCompleted, Mark, MarkTerminal
<1>11. CASE MarkCancelled(t)
  BY <1>11 DEF TypeInv, TypeOK, TaskFacts, Executing, MarkCancelled, Mark, MarkTerminal
<1>12. CASE MarkExcFailed(t)
  BY <1>12 DEF TypeInv, TypeOK, TaskFacts, Executing, MarkExcFailed, Mark, MarkTerminal
<1>13. CASE Finally(t)
  BY <1>13 DEF TypeInv, TypeOK, TaskFacts, Executing, Finally
<1>14. CASE RaiseCancelled(t)
  BY <1>14 DEF TypeInv, TypeOK, TaskFacts, Executing, RaiseCancelled
<1>15. CASE TaskFault(t)
  BY <1>15 DEF TypeInv, TypeOK, TaskFacts, Executing, TaskFault
<1> QED
  BY <1>1, <1>2, <1>3, <1>4, <1>5, <1>6, <1>7, <1>8, <1>9, <1>10,
     <1>11, <1>12, <1>13, <1>14, <1>15 DEF TaskStep

\* The runner's steps preserve RunInv when one POST /run carries the id.
LEMMA RunInvStep ==
    ASSUME SingleStart, TypeInv, TypeInv', RunInv, [Next]_vars
    PROVE  RunInv'
<1> USE RequestAssumption DEF reqVars, taskVars, histVars
<1>1. ASSUME NEW t \in Task, TaskStep(t) \/ TaskFault(t)
      PROVE  RunInv'
  <2>1. TaskFacts(t)
    BY <1>1, TaskStepFacts
  <2>2. LockInv'
    BY <2>1 DEF RunInv, LockInv, TaskFacts
  <2>3. StartInv'
    BY <2>1 DEF RunInv, StartInv, TaskFacts
  <2>4. ApproveInv'
    BY <2>1 DEF RunInv, ApproveInv, Decided, TaskFacts
  <2>5. SingleExecutor'
    BY <2>1 DEF RunInv, SingleExecutor, TaskFacts
  <2>6. PausedIsQuiet'
    BY <2>1 DEF RunInv, PausedIsQuiet, SingleExecutor, TaskFacts
  <2> QED
    BY <2>2, <2>3, <2>4, <2>5, <2>6 DEF RunInv
<1> USE DEF RunInv, LockInv, StartInv, ApproveInv, SingleExecutor, PausedIsQuiet,
            SingleStart, TypeInv, TypeOK, Inner, Decided, Executing
<1>2. ASSUME NEW s \in Starter, StartRequest(s) PROVE RunInv'
  BY <1>2 DEF StartRequest
<1>3. ASSUME NEW s \in Starter, StartCreate(s) PROVE RunInv'
  BY <1>3 DEF StartCreate
<1>4. ASSUME NEW s \in Starter, StartLaunch(s) PROVE RunInv'
  <2>1. StartInv'
    BY <1>4 DEF StartLaunch, Launch
  <2>2. ApproveInv'
    BY <1>4 DEF StartLaunch, Launch
  <2>3. SingleExecutor'
    BY <1>4 DEF StartLaunch, Launch
  <2> QED
    BY <1>4, <2>1, <2>2, <2>3 DEF StartLaunch, Launch
<1>5. ASSUME NEW s \in Starter, StartFault(s) PROVE RunInv'
  BY <1>5 DEF StartFault
<1>6. ASSUME NEW a \in Approver, NEW k \in Label, NEW d \in {"approved", "rejected"}, ApproveRequest(a, k, d) PROVE RunInv'
  <2>1. LockInv'
    BY <1>6 DEF ApproveRequest
  <2>2. StartInv'
    BY <1>6 DEF ApproveRequest
  <2> QED
    BY <1>6, <2>1, <2>2 DEF ApproveRequest
<1>7. ASSUME NEW a \in Approver, ApproveLock(a) PROVE RunInv'
  BY <1>7 DEF ApproveLock, LockFree
<1>8. ASSUME NEW a \in Approver, ApproveGet(a) PROVE RunInv'
  <2>1. LockInv'
    BY <1>8 DEF ApproveGet, PausedHere, Release
  <2>2. StartInv'
    BY <1>8 DEF ApproveGet, PausedHere, Release
  <2>3. ApproveInv'
    BY <1>8 DEF ApproveGet, PausedHere, Release
  <2> QED
    BY <1>8, <2>1, <2>2, <2>3 DEF ApproveGet, PausedHere, Release
<1>9. ASSUME NEW a \in Approver, ApproveUpdate(a) PROVE RunInv'
  BY <1>9 DEF ApproveUpdate, UpdateStep
<1>10. ASSUME NEW a \in Approver, ApproveResume(a) PROVE RunInv'
  BY <1>10 DEF ApproveResume, Resume
<1>11. ASSUME NEW a \in Approver, ResumeGet(a) PROVE RunInv'
  <2>1. LockInv'
    BY <1>11 DEF ResumeGet
  <2>2. ApproveInv'
    BY <1>11 DEF ResumeGet
  <2> QED
    BY <1>11, <2>1, <2>2 DEF ResumeGet
<1>12. ASSUME NEW a \in Approver, ResumeRecheck(a) PROVE RunInv'
  BY <1>12 DEF ResumeRecheck
<1>13. ASSUME NEW a \in Approver, ResumeLaunch(a) PROVE RunInv'
  <2>1. LockInv'
    BY <1>13 DEF ResumeLaunch, Launch, Release
  <2>2. ApproveInv'
    BY <1>13 DEF ResumeLaunch, Launch, Release
  <2>3. SingleExecutor'
    BY <1>13 DEF ResumeLaunch, Launch, Release
  <2>4. PausedIsQuiet'
    BY <1>13 DEF ResumeLaunch, Launch, Release
  <2> QED
    BY <1>13, <2>1, <2>2, <2>3, <2>4 DEF ResumeLaunch, Launch, Release
<1>14. ASSUME NEW a \in Approver, ApproveFault(a) PROVE RunInv'
  BY <1>14 DEF ApproveFault, Release
<1>15. ASSUME NEW c \in Canceller, CancelRequest(c) PROVE RunInv'
  BY <1>15 DEF CancelRequest
<1>16. ASSUME NEW c \in Canceller, CancelGet(c) PROVE RunInv'
  BY <1>16 DEF CancelGet
<1>17. ASSUME NEW c \in Canceller, CancelDecide(c) PROVE RunInv'
  BY <1>17 DEF CancelDecide
<1>18. ASSUME NEW c \in Canceller, CancelMark(c) PROVE RunInv'
  BY <1>18 DEF CancelMark, MarkTerminal
<1>19. ASSUME NEW c \in Canceller, CancelFault(c) PROVE RunInv'
  BY <1>19 DEF CancelFault
<1>20. ASSUME CrashRestart PROVE RunInv'
  <2>1. LockInv'
    BY <1>20 DEF CrashRestart, Started
  <2>2. StartInv'
    BY <1>20 DEF CrashRestart, Started
  <2> QED
    BY <1>20, <2>1, <2>2 DEF CrashRestart, Started
<1>21. CASE UNCHANGED vars
  BY <1>21 DEF vars
<1> QED
  BY <1>1, <1>2, <1>3, <1>4, <1>5, <1>6, <1>7, <1>8, <1>9, <1>10,
     <1>11, <1>12, <1>13, <1>14, <1>15, <1>16, <1>17, <1>18, <1>19, <1>20,
     <1>21
  DEF Next, StartStep, ApproveStep, CancelStep

LEMMA RunInvariance ==
    ASSUME SingleStart
    PROVE  Spec => []RunInv
<1>1. Init => RunInv
  BY DEF Init, RunInv, LockInv, StartInv, ApproveInv, SingleExecutor,
         PausedIsQuiet, Executing, Inner, Decided
<1>2. RunInv /\ TypeInv /\ TypeInv' /\ [Next]_vars => RunInv'
  BY RunInvStep
<1>3. QED
  BY <1>1, <1>2, TypeInvariance, PTL DEF Spec

\* approve() serialises: with one POST /run for the id, no two approvals are
\* inside _approve_inner, through crashes that empty the lock dictionary too.
THEOREM ApproveMutualExclusion ==
    ASSUME SingleStart
    PROVE  Spec => []ApproveExclusive
<1>1. TypeInv /\ RunInv => ApproveExclusive
  <2> SUFFICES ASSUME TypeInv, RunInv, NEW a \in Approver, NEW b \in Approver,
                      apc[a] \notin {"idle", "lock", "done"},
                      apc[b] \notin {"idle", "lock", "done"}
               PROVE  a = b
    BY DEF ApproveExclusive
  <2>1. apc[a] \in Inner /\ apc[b] \in Inner
    BY DEF TypeInv, TypeOK, Inner
  <2> QED
    BY <2>1 DEF RunInv, LockInv
<1>2. QED
  BY <1>1, TypeInvariance, RunInvariance, PTL

\* With one POST /run for the id at most one task ever executes the run,
\* however many approvals, cancels, crashes and store errors there are.
THEOREM AtMostOneExecutor ==
    ASSUME SingleStart
    PROVE  Spec => []SingleExecutor
<1>1. RunInv => SingleExecutor
  BY DEF RunInv
<1>2. QED
  BY <1>1, RunInvariance, PTL

\* A paused run is quiet: no agent works on it before it is resumed.
THEOREM QuietPause ==
    ASSUME SingleStart
    PROVE  Spec => []PausedIsQuiet
<1>1. RunInv => PausedIsQuiet
  BY DEF RunInv
<1>2. QED
  BY <1>1, RunInvariance, PTL

-----------------------------------------------------------------------------
(* What the store and a task's memory say of each other.                   *)
(*                                                                         *)
(* The graph is executed again from its first node after every approval.   *)
(* That no agent runs twice rests on two facts about the definition, which *)
(* no validation checks.                                                   *)

\* A condition names the output of no step at or after its own.  Otherwise a
\* step that was skipped is executed after the approval it names, and its
\* result is not persisted, since its key already is: it is executed again
\* after the next approval.
ConditionsLookBack == \A i, j \in Step : i <= j => Cond[i] # Key[j]

\* No step's output key is another step's name.  Otherwise an approval that
\* fails between update_step, which sets current_step to the key, and resume
\* leaves the run paused at the other step.
NamesApart == \A i, j \in Step : i # j => Name[i] # Key[j]

Decision == {"approved", "rejected"}

\* Step i has its result in res, skipped only if its condition does not hold.
Accounted(i, res) ==
    IF i \in Gate THEN res[Key[i]] \in Decision
    ELSE res[Key[i]] = "completed" \/ (res[Key[i]] = "skipped" /\ ~CondHolds(i, res))

AllBefore(n, res) == \A i \in Step : i < n => Accounted(i, res)
NoneAfter(n, res) == \A i \in Step : n < i => res[Key[i]] = "none"

\* The steps with a result are the first ones, and all have their final one.
Prefix(res) == \A i \in Step : res[Key[i]] # "none" => AllBefore(i + 1, res)

\* The run is paused at gate p, decided or not.
PauseAt(p, res) ==
    /\ p \in Gate /\ res[Key[p]] \in Decision \cup {"awaiting_approval"}
    /\ AllBefore(p, res) /\ NoneAfter(p, res)

\* The node has set the result of its step, which is not stored if it is new.
PersistOk(n, m, st, pa) ==
    \/ n = 0 /\ m = st /\ Prefix(m) /\ pa = 0
    \/ /\ n \in Step /\ m[Key[n]] # "none"
       /\ \/ m = st
          \/ /\ st[Key[n]] = "none" /\ NoneAfter(n, m)
             /\ m = [st EXCEPT ![Key[n]] = m[Key[n]]]
       /\ \/ Accounted(n, m) /\ Prefix(m) /\ pa = 0
          \/ m[Key[n]] = "failed" /\ NoneAfter(n, m) /\ pa = 0
          \/ n \in Gate /\ m[Key[n]] = "awaiting_approval" /\ NoneAfter(n, m) /\ pa = n

\* A task at pc and node n, with step_results m, persisted_keys sv and
\* paused_at_step pa, over the stored results st.
TaskOk(pc, n, m, st, sv, pa) ==
    /\ AllBefore(n, m)
    /\ sv = {k \in Label : st[k] # "none"}
    /\ pc # "persist" => m = st
    /\ pc \in {"created", "node", "exec"} => Prefix(m) /\ pa = 0
    /\ pc = "exec" => n \in Step \ Gate /\ m[Key[n]] = "none" /\ CondHolds(n, m)
    /\ pc = "pause" => PauseAt(n, st) /\ pa = n
    /\ pc = "persist" => PersistOk(n, m, st, pa)

TaskInv ==
    \A t \in Task : Executing(t) =>
        TaskOk(tpc[t], node[t], mem[t], row.steps, saved[t], pausedAt[t])

\* Nothing will execute the run again.
Frozen ==
    /\ row.status # "paused"
    /\ \A a \in Approver : apc[a] \notin Decided
    /\ \A t \in Task : ~Executing(t)
    /\ \A s \in Starter : spc[s] = "done"

FreshInv ==
    row.status = "absent" \/ (\E s \in Starter : spc[s] = "context") =>
        row.steps = NoResults /\ \A i \in Step : execs[i] = 0

PauseInv ==
    row.status = "paused" =>
        \E p \in Gate : PauseAt(p, row.steps) /\ row.current \in {Name[p], Key[p]}

DecideInv ==
    \A a \in Approver :
        /\ apc[a] = "update" =>
              \E p \in Gate : PauseAt(p, row.steps) /\ req[a].step \in {Name[p], Key[p]}
        /\ apc[a] \in {"resume", "reget", "recheck", "launch"} => Prefix(row.steps)
        /\ apc[a] \in {"recheck", "launch"} => snap[a].steps = row.steps

InFlight(i) == \E t \in Task : tpc[t] \in {"exec", "persist"} /\ node[t] = i

\* The result of an agent that was started is stored, is on its way to the
\* store, or will never be asked for.
ExecInv ==
    \A i \in Step :
        /\ execs[i] <= 1
        /\ execs[i] = 1 => row.steps[Key[i]] # "none" \/ InFlight(i) \/ Frozen

EndInv ==
    row.status = "completed" \/ (\E t \in Task : tpc[t] = "complete") =>
        Frozen /\ AllBefore(N + 1, row.steps)

DataInv == FreshInv /\ TaskInv /\ PauseInv /\ DecideInv /\ ExecInv /\ EndInv

-----------------------------------------------------------------------------
(* Results                                                                 *)

\* new is res with another result under k.
Differ(res, new, k) == \A l \in Label \ {k} : new[l] = res[l]

\* A result set at node n leaves those before it alone.
LEMMA SetResult ==
    ASSUME ConditionsLookBack, NEW res, NEW new, NEW n \in Step, Differ(res, new, Key[n])
    PROVE  /\ AllBefore(n, res) => AllBefore(n, new)
           /\ NoneAfter(n, res) => NoneAfter(n, new)
           /\ Cond[n] # None => new[Cond[n]] = res[Cond[n]]
<1> USE DefinitionAssumption, RequestAssumption DEF Differ
<1>2. \A i \in Step : i # n => new[Key[i]] = res[Key[i]]
  BY UniqueAssumption
<1>3. \A i \in Step : i <= n /\ Cond[i] # None => new[Cond[i]] = res[Cond[i]]
  BY DEF ConditionsLookBack
<1>4. ASSUME NEW i \in Step, i < n, Accounted(i, res) PROVE Accounted(i, new)
  <2>1. i # n /\ i <= n
    BY <1>4
  <2>2. new[Key[i]] = res[Key[i]] /\ (Cond[i] # None => new[Cond[i]] = res[Cond[i]])
    BY <1>2, <1>3, <2>1
  <2> QED
    BY <1>4, <2>2 DEF Accounted, CondHolds
<1>5. NoneAfter(n, res) => NoneAfter(n, new)
  BY <1>2 DEF NoneAfter
<1>6. Cond[n] # None => new[Cond[n]] = res[Cond[n]]
  BY <1>3
<1> QED
  BY <1>4, <1>5, <1>6 DEF AllBefore

\* Steps that are accounted for have a result; the first step without one ends
\* the prefix.
LEMMA PrefixFacts ==
    ASSUME NEW res \in [Label -> Result], NEW n \in Step
    PROVE  /\ Accounted(n, res) => res[Key[n]] # "none"
           /\ Prefix(res) /\ res[Key[n]] # "none" => Accounted(n, res)
           /\ Prefix(res) /\ res[Key[n]] = "none" => NoneAfter(n, res)
           /\ AllBefore(n, res) /\ Accounted(n, res) => AllBefore(n + 1, res)
           /\ AllBefore(n + 1, res) /\ NoneAfter(n, res) => Prefix(res)
<1> USE DefinitionAssumption
<1>1. \A i \in Step : Accounted(i, res) => res[Key[i]] # "none"
  BY DEF Accounted, Decision
<1>2. Prefix(res) /\ res[Key[n]] # "none" => Accounted(n, res)
  BY DEF Prefix, AllBefore
<1>3. Prefix(res) /\ res[Key[n]] = "none" => NoneAfter(n, res)
  BY <1>1 DEF Prefix, AllBefore, NoneAfter
<1>4. AllBefore(n, res) /\ Accounted(n, res) => AllBefore(n + 1, res)
  BY DEF AllBefore
<1>5. AllBefore(n + 1, res) /\ NoneAfter(n, res) => Prefix(res)
  BY DEF AllBefore, NoneAfter, Prefix
<1> QED
  BY <1>1, <1>2, <1>3, <1>4, <1>5

\* The step an approval names is the gate the run is paused at.
LEMMA OutputKeyIs ==
    ASSUME NamesApart, NEW p \in Step, NEW k \in {Name[p], Key[p]}
    PROVE  OutputKey(k) = Key[p]
<1> USE DefinitionAssumption, UniqueAssumption
<1>1. CASE \E i \in Step : Name[i] = k
  <2>1. \A i \in Step : Name[i] = k => i = p
    BY DEF NamesApart
  <2>2. (CHOOSE i \in Step : Name[i] = k) = p
    BY <1>1, <2>1
  <2> QED
    BY <1>1, <2>2 DEF OutputKey
<1>2. CASE ~(\E i \in Step : Name[i] = k)
  BY <1>2 DEF OutputKey
<1> QED
  BY <1>1, <1>2

\* While a task executes the run nothing else acts on it.
LEMMA Alone ==
    ASSUME TypeInv, RunInv, EndInv, NEW t \in Task, Executing(t)
    PROVE  /\ \A u \in Task : u # t => ~Executing(u)
           /\ row.status \notin {"paused", "absent", "completed"}
           /\ \A a \in Approver : apc[a] \notin Decided
           /\ \A s \in Starter : spc[s] = "done"
           /\ \A u \in Task : tpc[u] # "complete"
           /\ ~Frozen
<1>1. (\A u \in Task : u # t => ~Executing(u)) /\ row.status # "paused"
  BY DEF RunInv, SingleExecutor, PausedIsQuiet
<1>2. \A a \in Approver : apc[a] \notin Decided
  BY DEF RunInv, ApproveInv
<1>3. tpc[t] # "idle"
  BY DEF Executing
<1>4. row.status # "absent" /\ \A s \in Starter : spc[s] = "done"
  BY <1>3 DEF RunInv, StartInv, TypeInv, TypeOK
<1>5. ~Frozen
  BY DEF Frozen
<1> QED
  BY <1>1, <1>2, <1>4, <1>5 DEF EndInv

-----------------------------------------------------------------------------
(* Steps that leave the stored results and the tasks' memories alone       *)

\* A task may begin, end or pause; an approval may move on, or begin if the
\* run is paused at the step it names.
QuietTasks ==
    /\ execs' = execs
    /\ \A t \in Task :
          /\ Executing(t)' =>
                /\ Executing(t)
                /\ tpc'[t] = tpc[t] \/ (tpc[t] = "created" /\ tpc'[t] = "node")
                /\ node'[t] = node[t] /\ mem'[t] = mem[t]
                /\ saved'[t] = saved[t] /\ pausedAt'[t] = pausedAt[t]
          /\ tpc'[t] = "complete" =>
                tpc[t] = "complete" \/ (tpc[t] = "node" /\ node[t] = N + 1)

QuietRow ==
    /\ row'.steps = row.steps
    /\ row'.status = "absent" => row.status = "absent"
    /\ row'.status = "completed" =>
          row.status = "completed" \/ \E t \in Task : tpc[t] = "complete"
    /\ row'.status = "paused" =>
          \/ row.status = "paused" /\ row'.current = row.current
          \/ \E t \in Task : tpc[t] = "pause" /\ row'.current = Name[pausedAt[t]]

QuietRequests ==
    /\ \A s \in Starter :
          /\ spc[s] = "done" => spc'[s] = "done"
          /\ spc'[s] = "context" => spc[s] = "context" \/ row.status = "absent"
    /\ \A a \in Approver :
          /\ apc'[a] = "update" => /\ req'[a] = req[a]
                                   /\ apc[a] = "update" \/ PausedHere(a)
          /\ apc'[a] \in Decided \ {"update"} => apc[a] \in Decided \ {"update"}
          /\ apc'[a] \in {"recheck", "launch"} =>
                \/ snap'[a].steps = row.steps
                \/ apc[a] \in {"recheck", "launch"} /\ snap'[a].steps = snap[a].steps

Quiet == QuietTasks /\ QuietRow /\ QuietRequests

\* The other steps: a task is launched, a node sets, stores or asks for a
\* result, an approval stores its decision.
Loud ==
    \/ \E s \in Starter : StartLaunch(s)
    \/ \E t \in Task : NodeSync(t) \/ NodeExec(t) \/ Persist(t)
    \/ \E t \in Task, r \in {"completed", "failed"} : ExecReturn(t, r)
    \/ \E a \in Approver : ApproveUpdate(a)
    \/ \E a \in Approver : ResumeLaunch(a) /\ snap[a].status # "cancelled"

LEMMA QuietSteps ==
    ASSUME TypeInv, [Next]_vars
    PROVE  Quiet \/ Loud
<1> USE RequestAssumption DEF reqVars, taskVars, histVars, Quiet, QuietTasks, QuietRow, QuietRequests,
        Decided, Executing, TypeInv, TypeOK
<1>1. ASSUME NEW s \in Starter, StartRequest(s) PROVE Quiet
  BY <1>1 DEF StartRequest
<1>2. ASSUME NEW s \in Starter, StartCreate(s) PROVE Quiet
  BY <1>2 DEF StartCreate
<1>3. ASSUME NEW s \in Starter, StartFault(s) PROVE Quiet
  BY <1>3 DEF StartFault
<1>4. ASSUME NEW t \in Task, TaskBegin(t) PROVE Quiet
  BY <1>4 DEF TaskBegin
<1>5. ASSUME NEW t \in Task, NodeEnd(t) PROVE Quiet
  BY <1>5 DEF NodeEnd
<1>6. ASSUME NEW t \in Task, ExecRaise(t) PROVE Quiet
  BY <1>6 DEF ExecRaise
<1>7. ASSUME NEW t \in Task, Pause(t) PROVE Quiet
  BY <1>7 DEF Pause, SetPaused
<1>8. ASSUME NEW t \in Task, NEW pc \in {"fail", "complete", "cancelling", "excfail"},
             NEW st \in Terminal, NEW next \in {"ended", "exit"}, Mark(t, pc, st, next),
             st = "completed" => pc = "complete"
      PROVE  Quiet
  <2>1. tpc[t] = pc /\ tpc' = [tpc EXCEPT ![t] = next]
    BY <1>8 DEF Mark
  <2>2. row'.steps = row.steps /\ row'.status = st
    BY <1>8 DEF Mark, MarkTerminal
  <2>3. UNCHANGED <<spc, apc, req, snap, node, mem, saved, pausedAt, execs>>
    BY <1>8 DEF Mark
  <2>4. QuietTasks
    BY <2>1, <2>3
  <2>5. QuietRow
    BY <1>8, <2>1, <2>2
  <2>6. QuietRequests
    BY <2>3
  <2> QED
    BY <2>4, <2>5, <2>6
<1>9. ASSUME NEW t \in Task,
             MarkFailed(t) \/ MarkCompleted(t) \/ MarkCancelled(t) \/ MarkExcFailed(t)
      PROVE  Quiet
  BY ONLY <1>8, <1>9 DEF MarkFailed, MarkCompleted, MarkCancelled, MarkExcFailed, Terminal
<1>10. ASSUME NEW t \in Task, Finally(t) PROVE Quiet
  BY <1>10 DEF Finally
<1>11. ASSUME NEW t \in Task, RaiseCancelled(t) PROVE Quiet
  BY <1>11 DEF RaiseCancelled
<1>12. ASSUME NEW t \in Task, TaskFault(t) PROVE Quiet
  BY <1>12 DEF TaskFault
<1>13. ASSUME NEW a \in Approver, NEW k \in Label, NEW d \in Decision, ApproveRequest(a, k, d)
       PROVE  Quiet
  BY <1>13 DEF ApproveRequest
<1>14. ASSUME NEW a \in Approver, ApproveLock(a) PROVE Quiet
  BY <1>14 DEF ApproveLock
<1>15. ASSUME NEW a \in Approver, ApproveGet(a) PROVE Quiet
  BY <1>15 DEF ApproveGet, Release
<1>16. ASSUME NEW a \in Approver, ApproveResume(a) PROVE Quiet
  BY <1>16 DEF ApproveResume, Resume
<1>17. ASSUME NEW a \in Approver, ResumeGet(a) PROVE Quiet
  BY <1>17 DEF ResumeGet
<1>18. ASSUME NEW a \in Approver, ResumeRecheck(a) PROVE Quiet
  BY <1>18 DEF ResumeRecheck
<1>19. ASSUME NEW a \in Approver, ResumeLaunch(a), snap[a].status = "cancelled" PROVE Quiet
  BY <1>19 DEF ResumeLaunch, Release
<1>20. ASSUME NEW a \in Approver, ApproveFault(a) PROVE Quiet
  BY <1>20 DEF ApproveFault, Release
<1>21. ASSUME NEW c \in Canceller, CancelRequest(c) \/ CancelGet(c) \/ CancelFault(c) PROVE Quiet
  BY <1>21 DEF CancelRequest, CancelGet, CancelFault
<1>22. ASSUME NEW c \in Canceller, CancelDecide(c) PROVE Quiet
  BY <1>22 DEF CancelDecide
<1>23. ASSUME NEW c \in Canceller, CancelMark(c) PROVE Quiet
  BY <1>23 DEF CancelMark, MarkTerminal
<1>24. ASSUME CrashRestart PROVE Quiet
  BY <1>24 DEF CrashRestart, Started
<1>25. CASE UNCHANGED vars
  BY <1>25 DEF vars
<1> HIDE DEF Quiet, QuietTasks, QuietRow, QuietRequests, Decided, Executing, TypeInv, TypeOK
<1> QED
  BY <1>1, <1>2, <1>3, <1>4, <1>5, <1>6, <1>7, <1>9, <1>10, <1>11, <1>12, <1>13,
     <1>14, <1>15, <1>16, <1>17, <1>18, <1>19, <1>20, <1>21, <1>22, <1>23, <1>24, <1>25
  DEF Next, StartStep, TaskStep, ApproveStep, CancelStep, Loud, Decision

\* Such a step preserves the invariant: a task that stops executing leaves a
\* paused run, or one that nothing executes again.
LEMMA QuietStep ==
    ASSUME SingleStart, TypeInv, TypeInv', RunInv, RunInv', DataInv, Quiet
    PROVE  DataInv'
<1> USE DefinitionAssumption
<1> DEFINE st == row.steps
<1>0. row'.steps = st /\ execs' = execs
  BY DEF Quiet, QuietTasks, QuietRow
<1>1. FreshInv'
  BY <1>0 DEF Quiet, QuietRow, QuietRequests, DataInv, FreshInv
<1>2. TaskInv'
  <2> SUFFICES ASSUME NEW t \in Task, Executing(t)'
               PROVE  TaskOk(tpc'[t], node'[t], mem'[t], row'.steps, saved'[t], pausedAt'[t])
    BY DEF TaskInv
  <2>1. /\ TaskOk(tpc[t], node[t], mem[t], row.steps, saved[t], pausedAt[t])
        /\ tpc'[t] = tpc[t] \/ (tpc[t] = "created" /\ tpc'[t] = "node")
        /\ node'[t] = node[t] /\ mem'[t] = mem[t]
        /\ saved'[t] = saved[t] /\ pausedAt'[t] = pausedAt[t]
    BY DEF Quiet, QuietTasks, DataInv, TaskInv
  <2> QED
    BY <1>0, <2>1 DEF TaskOk
<1>3. PauseInv'
  <2> SUFFICES ASSUME row'.status = "paused"
               PROVE  \E p \in Gate : PauseAt(p, st) /\ row'.current \in {Name[p], Key[p]}
    BY <1>0 DEF PauseInv
  <2>1. CASE row.status = "paused" /\ row'.current = row.current
    BY <2>1 DEF DataInv, PauseInv
  <2>2. ASSUME NEW t \in Task, tpc[t] = "pause", row'.current = Name[pausedAt[t]]
        PROVE  PauseAt(node[t], st) /\ row'.current = Name[node[t]]
    BY <2>2 DEF DataInv, TaskInv, TaskOk, Executing
  <2>3. \A p : PauseAt(p, st) => p \in Gate
    BY DEF PauseAt
  <2> QED
    BY <2>1, <2>2, <2>3 DEF Quiet, QuietRow
<1>4. DecideInv'
  <2> SUFFICES ASSUME NEW a \in Approver
               PROVE  /\ apc'[a] = "update" =>
                           \E p \in Gate : PauseAt(p, st) /\ req'[a].step \in {Name[p], Key[p]}
                      /\ apc'[a] \in {"resume", "reget", "recheck", "launch"} => Prefix(st)
                      /\ apc'[a] \in {"recheck", "launch"} => snap'[a].steps = st
    BY <1>0 DEF DecideInv
  <2>1. ASSUME apc'[a] = "update"
        PROVE  \E p \in Gate : PauseAt(p, st) /\ req'[a].step \in {Name[p], Key[p]}
    BY <2>1 DEF Quiet, QuietRequests, PausedHere, DataInv, DecideInv, PauseInv
  <2>2. apc'[a] \in {"resume", "reget", "recheck", "launch"} => Prefix(st)
    BY DEF Quiet, QuietRequests, Decided, DataInv, DecideInv
  <2>3. apc'[a] \in {"recheck", "launch"} => snap'[a].steps = st
    BY DEF Quiet, QuietRequests, DataInv, DecideInv
  <2> QED
    BY <2>1, <2>2, <2>3
<1>5. Frozen => Frozen'
  <2> SUFFICES ASSUME Frozen PROVE Frozen'
    OBVIOUS
  <2>1. \A t \in Task : ~Executing(t) /\ ~Executing(t)'
    BY DEF Frozen, Quiet, QuietTasks
  <2>2. row'.status # "paused"
    BY <2>1 DEF Frozen, Quiet, QuietRow, Executing
  <2>3. \A a \in Approver : apc'[a] \notin Decided
    BY DEF Frozen, Quiet, QuietRequests, PausedHere, Decided
  <2>4. \A s \in Starter : spc'[s] = "done"
    BY DEF Frozen, Quiet, QuietRequests
  <2> QED
    BY <2>1, <2>2, <2>3, <2>4 DEF Frozen
<1>6. ASSUME NEW t \in Task, Executing(t), ~Executing(t)', tpc[t] # "pause"
      PROVE  Frozen'
  <2>1. /\ \A u \in Task : u # t => ~Executing(u)
        /\ row.status # "paused"
        /\ \A a \in Approver : apc[a] \notin Decided
        /\ \A s \in Starter : spc[s] = "done"
    BY <1>6, Alone DEF DataInv
  <2>2. \A u \in Task : ~Executing(u)'
    BY <1>6, <2>1 DEF Quiet, QuietTasks
  <2>3. row'.status # "paused"
    BY <1>6, <2>1 DEF Quiet, QuietRow, Executing
  <2>4. \A a \in Approver : apc'[a] \notin Decided
    BY <2>1 DEF Quiet, QuietRequests, PausedHere, Decided
  <2>5. \A s \in Starter : spc'[s] = "done"
    BY <2>1 DEF Quiet, QuietRequests
  <2> QED
    BY <2>2, <2>3, <2>4, <2>5 DEF Frozen
<1>7. ExecInv'
  <2> SUFFICES ASSUME NEW i \in Step, execs[i] = 1, st[Key[i]] = "none", InFlight(i)
               PROVE  InFlight(i)' \/ Frozen'
    BY <1>0, <1>5 DEF DataInv, ExecInv
  <2>1. PICK t \in Task : tpc[t] \in {"exec", "persist"} /\ node[t] = i
    BY DEF InFlight
  <2>2. CASE Executing(t)'
    BY <2>1, <2>2 DEF Quiet, QuietTasks, InFlight
  <2>3. CASE ~Executing(t)'
    BY <1>6, <2>1, <2>3 DEF Executing
  <2> QED
    BY <2>2, <2>3
<1>8. EndInv'
  <2> SUFFICES ASSUME row'.status = "completed" \/ (\E t \in Task : tpc'[t] = "complete")
               PROVE  Frozen' /\ AllBefore(N + 1, st)
    BY <1>0 DEF EndInv
  <2>1. CASE row.status = "completed" \/ (\E t \in Task : tpc[t] = "complete")
    BY <1>5, <2>1 DEF DataInv, EndInv
  <2>2. ASSUME NEW t \in Task, tpc[t] = "node", node[t] = N + 1, tpc'[t] = "complete"
        PROVE  Frozen' /\ AllBefore(N + 1, st)
    <3>1. Frozen'
      BY <1>6, <2>2 DEF Executing
    <3>2. AllBefore(N + 1, st)
      BY <2>2 DEF DataInv, TaskInv, TaskOk, Executing
    <3> QED
      BY <3>1, <3>2
  <2> QED
    BY <2>1, <2>2 DEF Quiet, QuietTasks, QuietRow
<1> QED
  BY <1>1, <1>2, <1>3, <1>4, <1>7, <1>8 DEF DataInv

-----------------------------------------------------------------------------
(* Steps that launch a task, and steps of the executing one                *)

\* While a task executes the run, the rest of the invariant says nothing.
LEMMA TaskMove ==
    ASSUME TypeInv, RunInv, DataInv, NEW t \in Task, Executing(t),
           row'.status = row.status, UNCHANGED <<apc, spc>>,
           NEW pc \in {"node", "exec", "persist", "fail", "pause"},
           tpc' = [tpc EXCEPT ![t] = pc],
           \A u \in Task : u # t => node'[u] = node[u],
           TaskOk(pc, node'[t], mem'[t], row'.steps, saved'[t], pausedAt'[t]) \/ pc = "fail",
           ExecInv'
    PROVE  DataInv'
<1>1. /\ \A u \in Task : u # t => ~Executing(u)
      /\ row.status \notin {"paused", "absent", "completed"}
      /\ \A a \in Approver : apc[a] \notin Decided
      /\ \A s \in Starter : spc[s] = "done"
      /\ \A u \in Task : tpc[u] # "complete"
  BY Alone DEF DataInv
<1>2. FreshInv' /\ PauseInv' /\ DecideInv'
  BY <1>1 DEF FreshInv, PauseInv, DecideInv, Decided
<1>3. \A u \in Task : tpc'[u] = IF u = t THEN pc ELSE tpc[u]
  BY DEF TypeInv, TypeOK
<1>4. TaskInv'
  BY <1>1, <1>3 DEF TaskInv, Executing
<1>5. EndInv'
  BY <1>1, <1>3 DEF EndInv
<1> QED
  BY <1>2, <1>4, <1>5 DEF DataInv

\* run.next() at a node that needs no agent.
LEMMA NodeSyncStep ==
    ASSUME ConditionsLookBack, TypeInv, TypeInv', RunInv, DataInv, NEW t \in Task, NodeSync(t)
    PROVE  DataInv'
<1> USE DefinitionAssumption DEF reqVars, taskVars, histVars
<1> DEFINE n == node[t]
           m == mem[t]
           st == row.steps
<1>0. /\ tpc[t] = "node" /\ Executing(t) /\ n \in 0..(N + 1) /\ n # N + 1
      /\ m \in [Label -> Result] /\ st \in [Label -> Result]
      /\ tpc' = [tpc EXCEPT ![t] = "persist"]
      /\ UNCHANGED <<row, spc, apc, node, saved, execs>>
  BY DEF NodeSync, Executing, TypeInv, TypeOK
<1>1. AllBefore(n, m) /\ m = st /\ Prefix(m) /\ pausedAt[t] = 0
      /\ saved[t] = {k \in Label : st[k] # "none"}
  BY <1>0 DEF DataInv, TaskInv, TaskOk
<1>2. TaskOk("persist", node'[t], mem'[t], row'.steps, saved'[t], pausedAt'[t])
  <2>1. CASE n = 0
    <3>1. mem'[t] = m /\ pausedAt'[t] = pausedAt[t]
      BY <2>1 DEF NodeSync
    <3> QED
      BY <1>0, <1>1, <2>1, <3>1 DEF TaskOk, PersistOk
  <2>2. CASE n # 0
    <3> DEFINE r == SyncResult(t, n)
               new == mem'[t]
    <3>0. n \in Step
      BY <1>0, <2>2
    <3>1. /\ new = [m EXCEPT ![Key[n]] = r]
          /\ pausedAt'[t] = IF r = "awaiting_approval" THEN n ELSE 0
      <4>1. pausedAt' = [pausedAt EXCEPT ![t] = IF r = "awaiting_approval" THEN n
                                                                           ELSE pausedAt[t]]
        BY <3>0 DEF NodeSync
      <4>2. mem' = [mem EXCEPT ![t] = [mem[t] EXCEPT ![Key[n]] = r]]
        BY <3>0 DEF NodeSync
      <4> HIDE DEF r
      <4> QED
        BY <1>1, <4>1, <4>2 DEF TypeInv, TypeOK
    <3>2. n \in Gate \/ AgentSkips(t, n)
      BY <3>0 DEF NodeSync
    <3>3. CASE m[Key[n]] # "none"
      <4>1. Accounted(n, m)
        BY <1>0, <1>1, <3>0, <3>3, PrefixFacts
      <4>2. r = m[Key[n]] /\ r # "awaiting_approval"
        BY <3>2, <4>1 DEF SyncResult, Accounted, Decision, AgentSkips
      <4>3. new = m
        <5> HIDE DEF r, new, m
        <5> QED
          BY <1>0, <3>1, <4>2
      <4> QED
        BY <1>0, <1>1, <3>0, <3>1, <3>3, <4>1, <4>2, <4>3 DEF TaskOk, PersistOk
    <3>4. CASE m[Key[n]] = "none"
      <4>1. \/ n \in Gate /\ r \in {"approved", "awaiting_approval"}
            \/ n \notin Gate /\ r = "skipped" /\ ~CondHolds(n, m)
        BY <1>1, <3>2, <3>4 DEF SyncResult, AgentSkips
      <4>2. NoneAfter(n, m)
        BY <1>0, <1>1, <3>0, <3>4, PrefixFacts
      <4> HIDE DEF r, new, m, st
      <4>3. /\ new \in [Label -> Result] /\ new[Key[n]] = r
            /\ AllBefore(n, new) /\ NoneAfter(n, new)
            /\ Cond[n] # None => new[Cond[n]] = m[Cond[n]]
        <5>1. r \in Result /\ m \in [Label -> Result] /\ AllBefore(n, m)
          BY <1>0, <1>1, <4>1
        <5>2. new = [m EXCEPT ![Key[n]] = r] /\ Key[n] \in Label
          BY <3>0, <3>1
        <5>3. new \in [Label -> Result] /\ new[Key[n]] = r /\ Differ(m, new, Key[n])
          BY <5>1, <5>2 DEF Differ
        <5> QED
          BY <3>0, <4>2, <5>1, <5>3, SetResult
      <4>4. r # "awaiting_approval" => Accounted(n, new)
        BY <4>1, <4>3 DEF Accounted, Decision, CondHolds
      <4>5. r # "awaiting_approval" => Prefix(new)
        BY <3>0, <4>3, <4>4, PrefixFacts
      <4>6. PersistOk(n, new, st, pausedAt'[t])
        BY <1>1, <3>0, <3>1, <3>4, <4>1, <4>3, <4>4, <4>5 DEF PersistOk
      <4> QED
        BY <1>0, <1>1, <4>3, <4>6 DEF TaskOk, st, new
    <3> QED
      BY <3>3, <3>4
  <2> QED
    BY <2>1, <2>2
<1>3. ExecInv'
  <2> SUFFICES ASSUME NEW i \in Step, execs[i] = 1
               PROVE  st[Key[i]] # "none" \/ InFlight(i)' \/ Frozen'
    BY <1>0 DEF DataInv, ExecInv
  <2>1. ~Frozen
    BY <1>0, Alone DEF DataInv
  <2>2. InFlight(i) => InFlight(i)'
    BY <1>0 DEF InFlight, TypeInv, TypeOK
  <2> QED
    BY <2>1, <2>2 DEF DataInv, ExecInv
<1> QED
  BY <1>0, <1>2, <1>3, TaskMove

\* run.next() at an agent step: the agent was not started before.
LEMMA NodeExecStep ==
    ASSUME TypeInv, TypeInv', RunInv, DataInv, NEW t \in Task, NodeExec(t)
    PROVE  DataInv'
<1> USE DefinitionAssumption DEF reqVars, taskVars, histVars
<1> DEFINE n == node[t]
           m == mem[t]
<1>0. /\ tpc[t] = "node" /\ Executing(t) /\ n \in Step \ Gate /\ ~AgentSkips(t, n)
      /\ m \in [Label -> Result]
      /\ tpc' = [tpc EXCEPT ![t] = "exec"]
      /\ execs' = [execs EXCEPT ![n] = execs[n] + 1] /\ execs \in [Step -> Nat]
      /\ UNCHANGED <<row, spc, apc, node, mem, saved, pausedAt>>
  BY DEF NodeExec, Executing, TypeInv, TypeOK
<1>1. TaskOk("node", n, m, row.steps, saved[t], pausedAt[t])
  BY <1>0 DEF DataInv, TaskInv
<1>2. m = row.steps /\ Prefix(m)
  BY <1>1 DEF TaskOk
<1>3. m[Key[n]] = "none" /\ CondHolds(n, m)
  <2>1. CondHolds(n, m) /\ m[Key[n]] \notin Completed
    BY <1>0 DEF AgentSkips
  <2>2. m[Key[n]] # "none" => Accounted(n, m)
    BY <1>0, <1>2, PrefixFacts
  <2> QED
    BY <1>0, <2>1, <2>2 DEF Accounted, CondHolds
<1>4. TaskOk("exec", node'[t], mem'[t], row'.steps, saved'[t], pausedAt'[t])
  BY <1>0, <1>1, <1>3 DEF TaskOk
<1>5. ExecInv'
  <2>1. ~Frozen /\ \A u \in Task : u # t => ~Executing(u)
    BY <1>0, Alone DEF DataInv
  <2>2. \A i \in Step : ~InFlight(i)
    BY <1>0, <2>1 DEF InFlight, Executing
  <2>3. \A i \in Step : execs[i] <= 1 /\ (execs[i] = 1 => row.steps[Key[i]] # "none")
    BY <2>1, <2>2 DEF DataInv, ExecInv
  <2>4. execs[n] = 0
    BY <1>0, <1>2, <1>3, <2>3
  <2>5. InFlight(n)'
    BY <1>0 DEF InFlight, TypeInv, TypeOK
  <2>6. \A i \in Step : execs'[i] = IF i = n THEN 1 ELSE execs[i]
    BY <1>0, <2>4
  <2> QED
    BY <1>0, <2>3, <2>5, <2>6 DEF ExecInv
<1> QED
  BY <1>0, <1>4, <1>5, TaskMove

\* The agent returns: its result is on its way to the store.
LEMMA ExecReturnStep ==
    ASSUME ConditionsLookBack, TypeInv, TypeInv', RunInv, DataInv,
           NEW t \in Task, NEW r \in {"completed", "failed"}, ExecReturn(t, r)
    PROVE  DataInv'
<1> USE DefinitionAssumption DEF reqVars, taskVars, histVars
<1> DEFINE n == node[t]
           m == mem[t]
           st == row.steps
           new == mem'[t]
<1>0. /\ tpc[t] = "exec" /\ Executing(t)
      /\ m \in [Label -> Result] /\ new = [m EXCEPT ![Key[n]] = r]
      /\ tpc' = [tpc EXCEPT ![t] = "persist"]
      /\ UNCHANGED <<row, spc, apc, node, saved, pausedAt, execs>>
  BY DEF ExecReturn, Executing, TypeInv, TypeOK
<1>1. TaskOk("exec", n, m, st, saved[t], pausedAt[t])
  BY <1>0 DEF DataInv, TaskInv
<1>2. /\ n \in Step \ Gate /\ m = st /\ m[Key[n]] = "none" /\ AllBefore(n, m)
      /\ Prefix(m) /\ pausedAt[t] = 0 /\ saved[t] = {k \in Label : st[k] # "none"}
  BY <1>1 DEF TaskOk
<1>3. NoneAfter(n, m)
  BY <1>0, <1>2, PrefixFacts
<1>4. new \in [Label -> Result] /\ new[Key[n]] = r /\ Differ(m, new, Key[n])
  <2> HIDE DEF m, new
  <2> QED
    BY <1>0, <1>2 DEF Differ
<1>5. AllBefore(n, new) /\ NoneAfter(n, new)
  BY <1>2, <1>3, <1>4, SetResult
<1>6. r = "completed" => Accounted(n, new)
  BY <1>2, <1>4 DEF Accounted
<1>7. r = "completed" => Prefix(new)
  BY <1>2, <1>4, <1>5, <1>6, PrefixFacts
<1>8. PersistOk(n, new, st, 0)
  <2> HIDE DEF new, m, st, n
  <2> QED
    BY <1>0, <1>2, <1>4, <1>5, <1>6, <1>7 DEF PersistOk
<1>9. TaskOk("persist", node'[t], mem'[t], row'.steps, saved'[t], pausedAt'[t])
  BY <1>0, <1>2, <1>5, <1>8 DEF TaskOk
<1>10. ExecInv'
  <2>1. ~Frozen
    BY <1>0, Alone DEF DataInv
  <2>2. \A i \in Step : InFlight(i) => InFlight(i)'
    BY <1>0 DEF InFlight, TypeInv, TypeOK
  <2> QED
    BY <1>0, <2>1, <2>2 DEF DataInv, ExecInv
<1> QED
  BY <1>0, <1>9, <1>10, TaskMove

\* update_step: the store has what the task has.
LEMMA PersistFacts ==
    ASSUME TypeInv, DataInv, NEW t \in Task, Persist(t)
    PROVE  /\ row'.steps = mem[t] /\ row'.status = row.status
           /\ saved'[t] = {k \in Label : mem[t][k] # "none"}
<1> USE DefinitionAssumption
<1> DEFINE n == node[t]
           m == mem[t]
           st == row.steps
<1>0. /\ tpc[t] = "persist" /\ Executing(t)
      /\ m \in [Label -> Result] /\ st \in [Label -> Result]
      /\ saved' = [saved EXCEPT ![t] = saved[t] \cup NewKeys(t)]
  BY DEF Persist, Executing, TypeInv, TypeOK
<1>1. TaskOk("persist", n, m, st, saved[t], pausedAt[t])
  BY <1>0 DEF DataInv, TaskInv
<1>2. PersistOk(n, m, st, pausedAt[t]) /\ saved[t] = {k \in Label : st[k] # "none"}
  BY <1>1 DEF TaskOk
<1>3. NewKeys(t) = {k \in Label : m[k] # "none" /\ st[k] = "none"}
  BY <1>2 DEF NewKeys
<1>4. \A k \in Label : st[k] # "none" => m[k] = st[k]
  BY <1>0, <1>2 DEF PersistOk
<1>5. saved'[t] = {k \in Label : m[k] # "none"}
  BY <1>0, <1>2, <1>3, <1>4 DEF TypeInv, TypeOK
<1>6. CASE m = st
  <2>1. NewKeys(t) = {}
    BY <1>3, <1>6
  <2>2. row' = row
    BY <2>1 DEF Persist
  <2> QED
    BY <1>5, <1>6, <2>2
<1>7. CASE m # st
  <2>1. n \in Step /\ st[Key[n]] = "none" /\ m[Key[n]] # "none"
        /\ m = [st EXCEPT ![Key[n]] = m[Key[n]]]
    BY <1>2, <1>7 DEF PersistOk
  <2>2. NewKeys(t) = {Key[n]}
    <3> HIDE DEF m, st
    <3> QED
      BY <1>0, <1>3, <2>1
  <2>3. UpdateStep(Key[n], m[Key[n]])
    BY <2>2 DEF Persist
  <2>4. row'.steps = [st EXCEPT ![Key[n]] = m[Key[n]]] /\ row'.status = row.status
    BY <2>3 DEF UpdateStep, TypeInv, TypeOK
  <2> QED
    BY <1>5, <2>1, <2>4
<1> QED
  BY <1>6, <1>7

\* The task stores the new result, then fails, pauses or goes on.
LEMMA PersistStep ==
    ASSUME TypeInv, TypeInv', RunInv, DataInv, NEW t \in Task, Persist(t)
    PROVE  DataInv'
<1> USE DefinitionAssumption DEF reqVars, taskVars, histVars
<1> DEFINE n == node[t]
           m == mem[t]
           st == row.steps
<1>0. /\ tpc[t] = "persist" /\ Executing(t)
      /\ m \in [Label -> Result] /\ st \in [Label -> Result] /\ n \in 0..(N + 1)
      /\ UNCHANGED <<spc, apc, mem, pausedAt, execs>>
  BY DEF Persist, Executing, TypeInv, TypeOK
<1>1. TaskOk("persist", n, m, st, saved[t], pausedAt[t])
  BY <1>0 DEF DataInv, TaskInv
<1>2. PersistOk(n, m, st, pausedAt[t]) /\ AllBefore(n, m)
  BY <1>1 DEF TaskOk
<1>3. /\ row'.steps = m /\ row'.status = row.status
      /\ saved'[t] = {k \in Label : m[k] # "none"}
  BY PersistFacts
<1>4. ExecInv'
  <2>1. ~Frozen /\ \A u \in Task : u # t => ~Executing(u)
    BY <1>0, Alone DEF DataInv
  <2>2. \A k \in Label : st[k] # "none" => m[k] = st[k]
    BY <1>0, <1>2 DEF PersistOk
  <2>3. ASSUME NEW i \in Step, InFlight(i) PROVE i = n
    BY <2>1, <2>3 DEF InFlight, Executing
  <2>4. n \in Step => m[Key[n]] # "none"
    BY <1>2 DEF PersistOk
  <2> QED
    BY <1>0, <1>3, <2>1, <2>2, <2>3, <2>4 DEF DataInv, ExecInv
<1>5. \A u \in Task : u # t => node'[u] = node[u]
  BY DEF Persist, TypeInv, TypeOK
<1>6. CASE HasFailed(t)
  <2>1. tpc' = [tpc EXCEPT ![t] = "fail"]
    BY <1>6 DEF Persist
  <2> QED
    BY <1>0, <1>3, <1>4, <1>5, <2>1, TaskMove
<1>7. CASE ~HasFailed(t) /\ pausedAt[t] # 0
  <2>1. tpc' = [tpc EXCEPT ![t] = "pause"] /\ node' = node
    BY <1>7 DEF Persist
  <2>2. PauseAt(n, m) /\ pausedAt[t] = n
    BY <1>2, <1>7 DEF PersistOk, PauseAt
  <2>3. TaskOk("pause", node'[t], mem'[t], row'.steps, saved'[t], pausedAt'[t])
    BY <1>0, <1>2, <1>3, <2>1, <2>2 DEF TaskOk
  <2> QED
    BY <1>0, <1>3, <1>4, <1>5, <2>1, <2>3, TaskMove
<1>8. CASE ~HasFailed(t) /\ pausedAt[t] = 0
  <2>1. tpc' = [tpc EXCEPT ![t] = "node"] /\ node' = [node EXCEPT ![t] = n + 1]
    BY <1>8 DEF Persist
  <2>2. n # 0 => m[Key[n]] # "failed"
    BY <1>2, <1>8 DEF HasFailed, PersistOk
  <2>3. n = 0 \/ (n \in Step /\ Accounted(n, m))
    BY <1>2, <1>8, <2>2 DEF PersistOk
  <2>4. Prefix(m)
    BY <1>2, <1>8, <2>2 DEF PersistOk
  <2>5. AllBefore(n + 1, m)
    <3>1. CASE n = 0
      BY <3>1 DEF AllBefore
    <3>2. CASE n \in Step /\ Accounted(n, m)
      BY <1>0, <1>2, <3>2, PrefixFacts
    <3> QED
      BY <2>3, <3>1, <3>2
  <2>6. node'[t] = n + 1
    BY <2>1 DEF TypeInv, TypeOK
  <2>7. TaskOk("node", node'[t], mem'[t], row'.steps, saved'[t], pausedAt'[t])
    BY <1>0, <1>3, <1>8, <2>4, <2>5, <2>6 DEF TaskOk
  <2> QED
    BY <1>0, <1>3, <1>4, <1>5, <2>1, <2>7, TaskMove
<1> QED
  BY <1>6, <1>7, <1>8

\* An approval between its look at the row and its launch is the only one, and
\* nothing executes the run.
LEMMA ApprovalAlone ==
    ASSUME TypeInv, RunInv, DataInv, NEW a \in Approver, apc[a] \in Decided
    PROVE  /\ \A b \in Approver : b # a => apc[b] \notin Decided
           /\ \A t \in Task : ~Executing(t) /\ tpc[t] # "complete"
           /\ row.status \notin {"absent", "completed"}
           /\ \A s \in Starter : spc[s] = "done"
           /\ \A i \in Step : /\ ~InFlight(i)
                              /\ execs[i] <= 1
                              /\ execs[i] = 1 => row.steps[Key[i]] # "none"
<1>1. \A b \in Approver : apc[b] \in Decided => b = a
  BY DEF RunInv, LockInv, Decided, Inner
<1>2. \A t \in Task : ~Executing(t)
  BY DEF RunInv, ApproveInv
<1>3. row.status # "absent" /\ \A s \in Starter : spc[s] = "done"
  BY DEF RunInv, StartInv, TypeInv, TypeOK, Decided
<1>4. ~Frozen
  BY DEF Frozen
<1>5. row.status # "completed" /\ \A t \in Task : tpc[t] # "complete"
  BY <1>4 DEF DataInv, EndInv
<1>6. \A i \in Step : ~InFlight(i)
  BY <1>2 DEF InFlight, Executing
<1>7. \A i \in Step : execs[i] <= 1 /\ (execs[i] = 1 => row.steps[Key[i]] # "none")
  BY <1>4, <1>6 DEF DataInv, ExecInv
<1> QED
  BY <1>1, <1>2, <1>3, <1>5, <1>6, <1>7

\* The decision is stored for the gate the run is paused at.
LEMMA ApproveUpdateFacts ==
    ASSUME ConditionsLookBack, NamesApart, TypeInv, DataInv,
           NEW a \in Approver, ApproveUpdate(a)
    PROVE  \E p \in Gate :
             /\ row'.status = row.status /\ row'.current = Key[p]
             /\ row'.steps[Key[p]] \in Decision /\ Differ(row.steps, row'.steps, Key[p])
             /\ PauseAt(p, row.steps) /\ PauseAt(p, row'.steps) /\ Prefix(row'.steps)
<1> USE DefinitionAssumption
<1> DEFINE st == row.steps
           new == row'.steps
           d == req[a].decision
<1>1. PICK p \in Gate : PauseAt(p, st) /\ req[a].step \in {Name[p], Key[p]}
  BY DEF ApproveUpdate, DataInv, DecideInv
<1>2. p \in Step /\ OutputKey(req[a].step) = Key[p]
  BY <1>1, OutputKeyIs
<1>3. d \in Decision /\ st \in [Label -> Result] /\ Key[p] \in Label
  BY <1>2 DEF TypeInv, TypeOK, Decision
<1>4. /\ row'.status = row.status /\ row'.current = Key[p]
      /\ new = [st EXCEPT ![Key[p]] = d]
  BY <1>2 DEF ApproveUpdate, UpdateStep, TypeInv, TypeOK
<1>5. new \in [Label -> Result] /\ new[Key[p]] = d /\ Differ(st, new, Key[p])
  <2> HIDE DEF st, new, d
  <2> QED
    BY <1>3, <1>4 DEF Differ, Decision
<1>6. AllBefore(p, new) /\ NoneAfter(p, new)
  BY <1>1, <1>2, <1>5, SetResult DEF PauseAt
<1>7. Accounted(p, new)
  BY <1>1, <1>3, <1>5 DEF Accounted
<1>8. Prefix(new)
  BY <1>2, <1>5, <1>6, <1>7, PrefixFacts
<1>9. PauseAt(p, new)
  BY <1>1, <1>3, <1>5, <1>6 DEF PauseAt
<1> QED
  BY <1>1, <1>3, <1>4, <1>5, <1>8, <1>9

LEMMA ApproveUpdateStep ==
    ASSUME ConditionsLookBack, NamesApart, TypeInv, TypeInv', RunInv, DataInv,
           NEW a \in Approver, ApproveUpdate(a)
    PROVE  DataInv'
<1> USE DefinitionAssumption DEF reqVars, taskVars, histVars
<1>0. /\ apc[a] = "update" /\ apc' = [apc EXCEPT ![a] = "resume"]
      /\ UNCHANGED <<spc, req, snap, tpc, node, execs>>
  BY DEF ApproveUpdate
<1>1. /\ \A b \in Approver : b # a => apc[b] \notin Decided
      /\ \A t \in Task : ~Executing(t) /\ tpc[t] # "complete"
      /\ row.status \notin {"absent", "completed"}
      /\ \A s \in Starter : spc[s] = "done"
      /\ \A i \in Step : execs[i] <= 1 /\ (execs[i] = 1 => row.steps[Key[i]] # "none")
  BY <1>0, ApprovalAlone DEF Decided
<1>2. PICK p \in Gate :
             /\ row'.status = row.status /\ row'.current = Key[p]
             /\ row'.steps[Key[p]] \in Decision /\ Differ(row.steps, row'.steps, Key[p])
             /\ PauseAt(p, row'.steps) /\ Prefix(row'.steps)
  BY ApproveUpdateFacts
<1>3. FreshInv' /\ EndInv'
  BY <1>0, <1>1, <1>2 DEF FreshInv, EndInv
<1>4. TaskInv'
  BY <1>0, <1>1 DEF TaskInv, Executing
<1>5. PauseInv'
  BY <1>2 DEF PauseInv
<1>6. \A b \in Approver : apc'[b] = IF b = a THEN "resume" ELSE apc[b]
  BY <1>0 DEF TypeInv, TypeOK
<1>7. DecideInv'
  BY <1>1, <1>2, <1>6 DEF DecideInv, Decided
<1>8. ExecInv'
  BY <1>0, <1>1, <1>2 DEF ExecInv, Differ, Decision
<1> QED
  BY <1>3, <1>4, <1>5, <1>7, <1>8 DEF DataInv

\* A task that is launched on the stored results skips what already ran.
LEMMA LaunchStep ==
    ASSUME TypeInv, NEW t \in Task, Launch(t, row.steps), row' = row, Prefix(row.steps),
           row.status \notin {"absent", "paused", "completed"},
           \A u \in Task : ~Executing(u) /\ tpc[u] # "complete",
           \A s \in Starter : spc'[s] = "done",
           \A a \in Approver : apc'[a] \notin Decided,
           \A i \in Step : execs[i] <= 1 /\ (execs[i] = 1 => row.steps[Key[i]] # "none")
    PROVE  DataInv'
<1> USE DefinitionAssumption
<1>1. /\ \A u \in Task : tpc'[u] = IF u = t THEN "created" ELSE tpc[u]
      /\ node'[t] = 0 /\ mem'[t] = row.steps /\ pausedAt'[t] = 0
      /\ saved'[t] = {k \in Label : row.steps[k] # "none"} /\ execs' = execs
  BY DEF Launch, TypeInv, TypeOK
<1>2. FreshInv' /\ PauseInv' /\ DecideInv' /\ EndInv'
  BY <1>1 DEF FreshInv, PauseInv, DecideInv, EndInv, Decided
<1>3. AllBefore(0, row.steps)
  BY DEF AllBefore
<1>4. TaskInv'
  <2> SUFFICES ASSUME NEW u \in Task, Executing(u)'
               PROVE  TaskOk(tpc'[u], node'[u], mem'[u], row'.steps, saved'[u], pausedAt'[u])
    BY DEF TaskInv
  <2>1. u = t
    BY <1>1 DEF Executing
  <2> QED
    BY <1>1, <1>3, <2>1 DEF TaskOk
<1>5. ExecInv'
  BY <1>1 DEF ExecInv
<1> QED
  BY <1>2, <1>4, <1>5 DEF DataInv

LEMMA ResumeLaunchStep ==
    ASSUME TypeInv, TypeInv', RunInv, DataInv,
           NEW a \in Approver, ResumeLaunch(a), snap[a].status # "cancelled"
    PROVE  DataInv'
<1> USE DEF reqVars, taskVars, histVars
<1>1. /\ apc[a] = "launch" /\ Launch(a, Restored(a)) /\ apc' = [apc EXCEPT ![a] = "done"]
      /\ row' = row /\ spc' = spc
  BY DEF ResumeLaunch, Release
<1>2. Restored(a) = row.steps /\ Prefix(row.steps)
  BY <1>1 DEF Restored, DataInv, DecideInv
<1>3. /\ \A b \in Approver : b # a => apc[b] \notin Decided
      /\ \A t \in Task : ~Executing(t) /\ tpc[t] # "complete"
      /\ row.status \notin {"absent", "completed"}
      /\ \A s \in Starter : spc[s] = "done"
      /\ \A i \in Step : execs[i] <= 1 /\ (execs[i] = 1 => row.steps[Key[i]] # "none")
  BY <1>1, ApprovalAlone DEF Decided
<1>4. row.status # "paused"
  BY <1>1 DEF RunInv, ApproveInv
<1>5. \A b \in Approver : apc'[b] \notin Decided
  BY <1>1, <1>3 DEF TypeInv, TypeOK, Decided
<1> QED
  BY <1>1, <1>2, <1>3, <1>4, <1>5, LaunchStep

LEMMA StartLaunchStep ==
    ASSUME SingleStart, TypeInv, TypeInv', RunInv, DataInv, NEW s \in Starter, StartLaunch(s)
    PROVE  DataInv'
<1> USE DefinitionAssumption DEF reqVars, taskVars, histVars
<1>1. /\ spc[s] = "context" /\ Launch(s, NoResults) /\ spc' = [spc EXCEPT ![s] = "done"]
      /\ row' = row /\ apc' = apc
  BY DEF StartLaunch
<1>2. row.steps = NoResults /\ \A i \in Step : execs[i] = 0
  BY <1>1 DEF DataInv, FreshInv
<1>3. /\ row.status \notin {"absent", "paused"} /\ \A t \in Task : tpc[t] = "idle"
      /\ \A a \in Approver : apc[a] \notin Decided
  BY <1>1 DEF RunInv, StartInv
<1>4. row.status # "completed"
  BY <1>1 DEF DataInv, EndInv, Frozen
<1>5. \A u \in Starter : spc'[u] = "done"
  BY <1>1 DEF SingleStart, TypeInv, TypeOK
<1>6. Prefix(row.steps)
  BY <1>2 DEF Prefix
<1>7. \A t \in Task : ~Executing(t) /\ tpc[t] # "complete"
  BY <1>3 DEF Executing
<1>8. \A i \in Step : execs[i] <= 1 /\ (execs[i] = 1 => row.steps[Key[i]] # "none")
  BY <1>2
<1> QED
  BY <1>1, <1>2, <1>3, <1>4, <1>5, <1>6, <1>7, <1>8, LaunchStep

\* The invariant: the stored results are those of the first steps of the
\* definition, final, and a task's memory differs from them only by the result
\* it is about to store.
LEMMA DataInvariance ==
    ASSUME SingleStart, ConditionsLookBack, NamesApart
    PROVE  Spec => []DataInv
<1>1. Init => DataInv
  <2> SUFFICES ASSUME Init PROVE DataInv
    OBVIOUS
  <2>1. FreshInv /\ TaskInv /\ PauseInv /\ DecideInv /\ EndInv
    BY DEF Init, FreshInv, TaskInv, PauseInv, DecideInv, EndInv, Executing
  <2>2. ExecInv
    BY DefinitionAssumption DEF Init, ExecInv
  <2> QED
    BY <2>1, <2>2 DEF DataInv
<1>2. TypeInv /\ TypeInv' /\ RunInv /\ RunInv' /\ DataInv /\ [Next]_vars => DataInv'
  BY QuietSteps, QuietStep, NodeSyncStep, NodeExecStep, ExecReturnStep, PersistStep,
     ApproveUpdateStep, ResumeLaunchStep, StartLaunchStep DEF Loud
<1>3. QED
  BY <1>1, <1>2, TypeInvariance, RunInvariance, PTL DEF Spec

-----------------------------------------------------------------------------
(* The theorems about results                                              *)

\* No step's agent is started twice, although the graph is executed again from
\* its first node after every approval: _execute persists each result before it
\* pauses, and the task that _resume_from_store launches restores them all.
THEOREM AgentsRunOnce ==
    ASSUME SingleStart, ConditionsLookBack, NamesApart
    PROVE  Spec => []AtMostOnce
<1>1. DataInv => AtMostOnce
  BY DEF DataInv, ExecInv, AtMostOnce
<1>2. QED
  BY <1>1, DataInvariance, PTL

\* While an agent runs, every gate before its step is decided in the store, and
\* the approval its condition asks for is the stored one.
THEOREM GatesAreFirst ==
    ASSUME SingleStart, ConditionsLookBack, NamesApart
    PROVE  Spec => []GatesFirst
<1>1. DataInv => GatesFirst
  <2> SUFFICES ASSUME DataInv, NEW t \in Task, tpc[t] = "exec"
               PROVE  /\ \A g \in Gate : g < node[t] =>
                            row.steps[Key[g]] \in {"approved", "rejected"}
                      /\ Cond[node[t]] # None => row.steps[Cond[node[t]]] = "approved"
    BY DEF GatesFirst
  <2>1. TaskOk("exec", node[t], mem[t], row.steps, saved[t], pausedAt[t])
    BY DEF DataInv, TaskInv, Executing
  <2>2. AllBefore(node[t], row.steps) /\ CondHolds(node[t], row.steps)
    BY <2>1 DEF TaskOk
  <2> QED
    BY <2>2, DefinitionAssumption DEF AllBefore, Accounted, Decision, CondHolds
<1>2. QED
  BY <1>1, DataInvariance, PTL

\* A run is reported completed only when the store has a result for every step,
\* "skipped" only where the stored approval is not given.
THEOREM CompletedRunsAccounted ==
    ASSUME SingleStart, ConditionsLookBack, NamesApart
    PROVE  Spec => []CompletedAccounted
<1>1. DataInv => CompletedAccounted
  <2> SUFFICES ASSUME DataInv, row.status = "completed", NEW i \in Step
               PROVE  \/ row.steps[Key[i]] \in Completed
                      \/ row.steps[Key[i]] = "skipped" /\ ~CondHolds(i, row.steps)
    BY DEF CompletedAccounted
  <2>1. Accounted(i, row.steps)
    BY DefinitionAssumption DEF DataInv, EndInv, AllBefore
  <2> QED
    BY <2>1 DEF Accounted, Decision
<1>2. QED
  BY <1>1, DataInvariance, PTL

\* A decision that a later step has acted on is never replaced, by a late
\* approval, by the retry of one, or by a task that runs the graph again.
THEOREM DecisionsAreStable ==
    ASSUME SingleStart, ConditionsLookBack, NamesApart
    PROVE  Spec => DecisionStable
<1>1. ASSUME TypeInv, RunInv, DataInv, [Next]_vars, NEW g \in Gate, NEW i \in Step,
             i > g, execs[i] > 0
      PROVE  row'.steps[Key[g]] = row.steps[Key[g]]
  <2> USE DefinitionAssumption
  <2>0. g \in Step /\ execs[i] = 1 /\ row.steps \in [Label -> Result]
    BY <1>1 DEF DataInv, ExecInv, TypeInv, TypeOK
  <2>1. CASE Quiet
    BY <2>1 DEF Quiet, QuietRow
  <2>2. CASE row' = row
    BY <2>2
  <2>3. ASSUME NEW t \in Task, Persist(t) PROVE row'.steps[Key[g]] = row.steps[Key[g]]
    <3> DEFINE n == node[t]
               m == mem[t]
               st == row.steps
    <3>1. tpc[t] = "persist" /\ Executing(t)
      BY <2>3 DEF Executing, Persist
    <3>2. PersistOk(n, m, st, pausedAt[t])
      BY <1>1, <3>1 DEF DataInv, TaskInv, TaskOk
    <3>3. row'.steps = m
      BY <1>1, <2>3, PersistFacts
    <3>4. st[Key[i]] # "none" \/ i = n
      <4>1. ~Frozen /\ \A u \in Task : u # t => ~Executing(u)
        BY <1>1, <3>1, Alone DEF DataInv
      <4>2. InFlight(i) => i = n
        BY <4>1 DEF InFlight, Executing
      <4> QED
        BY <1>1, <2>0, <4>1, <4>2 DEF DataInv, ExecInv
    <3>5. CASE m = st
      BY <3>3, <3>5
    <3>6. CASE m # st
      <4>1. /\ n \in Step /\ st[Key[n]] = "none" /\ NoneAfter(n, m)
            /\ m = [st EXCEPT ![Key[n]] = m[Key[n]]]
        BY <3>2, <3>6 DEF PersistOk
      <4>2. \A j \in Step : j # n => m[Key[j]] = st[Key[j]]
        <5>1. st \in [Label -> Result]
          BY <2>0
        <5> HIDE DEF m, st
        <5> QED
          BY <4>1, <5>1, UniqueAssumption
      <4>3. g # n
        BY <1>1, <2>0, <3>4, <4>1, <4>2 DEF NoneAfter
      <4> QED
        BY <2>0, <3>3, <4>2, <4>3
    <3> QED
      BY <3>5, <3>6
  <2>4. ASSUME NEW a \in Approver, ApproveUpdate(a)
        PROVE  row'.steps[Key[g]] = row.steps[Key[g]]
    <3>1. row.steps[Key[i]] # "none"
      BY <1>1, <2>0, <2>4, ApprovalAlone DEF ApproveUpdate, Decided
    <3>2. PICK p \in Gate : PauseAt(p, row.steps) /\ Differ(row.steps, row'.steps, Key[p])
      BY <1>1, <2>4, ApproveUpdateFacts
    <3>3. ~(p < i)
      BY <3>1, <3>2 DEF PauseAt, NoneAfter
    <3>4. g # p
      BY <1>1, <2>0, <3>2, <3>3
    <3> QED
      BY <2>0, <3>2, <3>4, UniqueAssumption DEF Differ
  <2> QED
    BY <1>1, <2>1, <2>2, <2>3, <2>4, QuietSteps
    DEF Loud, StartLaunch, NodeSync, NodeExec, ExecReturn, ResumeLaunch
<1>2. TypeInv /\ RunInv /\ DataInv /\ [Next]_vars =>
        [\A g \in Gate : (\E i \in Step : i > g /\ execs[i] > 0) =>
            row'.steps[Key[g]] = row.steps[Key[g]]]_vars
  BY <1>1
<1>3. QED
  BY <1>2, TypeInvariance, RunInvariance, DataInvariance, PTL DEF Spec, DecisionStable

-----------------------------------------------------------------------------
(* The promise of a run                                                    *)

\* Where the results come from: what is stored is stored under the key of a
\* step, and "completed" is stored for an agent that was started.
KeyInv ==
    /\ \A k \in Label : row.steps[k] # "none" => \E i \in Step : Key[i] = k
    /\ \A i \in Step \ Gate : row.steps[Key[i]] = "completed" => execs[i] # 0

AgentInv ==
    \A t \in Task :
        /\ tpc[t] = "exec" => execs[node[t]] # 0
        /\ tpc[t] = "persist" /\ node[t] \in Step \ Gate
              /\ mem[t][Key[node[t]]] = "completed" => execs[node[t]] # 0

OriginInv == KeyInv /\ AgentInv

\* What the task stores: nothing, or the result of its node.
LEMMA PersistChange ==
    ASSUME TypeInv, DataInv, NEW t \in Task, Persist(t), row'.steps # row.steps
    PROVE  /\ node[t] \in Step /\ row.steps[Key[node[t]]] = "none"
           /\ Differ(row.steps, mem[t], Key[node[t]]) /\ row'.steps = mem[t]
           /\ AllBefore(node[t], mem[t])
           /\ \/ Accounted(node[t], mem[t])
              \/ mem[t][Key[node[t]]] = "failed"
              \/ node[t] \in Gate /\ mem[t][Key[node[t]]] = "awaiting_approval"
<1> DEFINE n == node[t]
           m == mem[t]
           st == row.steps
<1>1. /\ tpc[t] = "persist" /\ Executing(t) /\ st \in [Label -> Result]
  BY DEF Persist, Executing, TypeInv, TypeOK
<1>2. PersistOk(n, m, st, pausedAt[t]) /\ AllBefore(n, m)
  BY <1>1 DEF DataInv, TaskInv, TaskOk
<1>3. row'.steps = m
  BY PersistFacts
<1>4. m # st
  BY <1>3
<1>5. /\ n \in Step /\ st[Key[n]] = "none"
      /\ m = [st EXCEPT ![Key[n]] = m[Key[n]]]
      /\ \/ Accounted(n, m)
         \/ m[Key[n]] = "failed"
         \/ n \in Gate /\ m[Key[n]] = "awaiting_approval"
  BY <1>2, <1>4 DEF PersistOk
<1>6. Differ(st, m, Key[n])
  <2> HIDE DEF m, st, n
  <2> QED
    BY <1>1, <1>5 DEF Differ
<1> QED
  BY <1>2, <1>3, <1>5, <1>6

\* Steps keep track of where results come from.
LEMMA OriginStep ==
    ASSUME ConditionsLookBack, NamesApart, TypeInv, TypeInv', RunInv, DataInv, OriginInv,
           [Next]_vars
    PROVE  OriginInv'
<1> USE DefinitionAssumption DEF reqVars, taskVars, histVars, OriginInv
<1> DEFINE st == row.steps
<1>0. st \in [Label -> Result] /\ execs \in [Step -> Nat]
  BY DEF TypeInv, TypeOK
<1>1. CASE Quiet
  <2>1. row'.steps = st /\ execs' = execs
    BY <1>1 DEF Quiet, QuietTasks, QuietRow
  <2>2. \A t \in Task : tpc'[t] \in {"exec", "persist"} =>
           tpc'[t] = tpc[t] /\ node'[t] = node[t] /\ mem'[t] = mem[t]
    BY <1>1 DEF Quiet, QuietTasks, Executing
  <2> QED
    BY <2>1, <2>2 DEF KeyInv, AgentInv
<1>2. ASSUME NEW u \in Task, NEW results, Launch(u, results), row' = row
      PROVE  OriginInv'
  <2>1. execs' = execs /\ \A t \in Task : tpc'[t] \in {"exec", "persist"} =>
           tpc'[t] = tpc[t] /\ node'[t] = node[t] /\ mem'[t] = mem[t]
    BY <1>2 DEF Launch, TypeInv, TypeOK
  <2> QED
    BY <1>2, <2>1 DEF KeyInv, AgentInv
<1>3. ASSUME NEW u \in Task, NodeSync(u) PROVE OriginInv'
  <2>1. row' = row /\ execs' = execs /\ node' = node /\ tpc' = [tpc EXCEPT ![u] = "persist"]
    BY <1>3 DEF NodeSync
  <2>2. \A t \in Task : t # u => mem'[t] = mem[t]
    BY <1>3 DEF NodeSync, TypeInv, TypeOK
  <2>3. mem[u] = st
    BY <1>3 DEF NodeSync, DataInv, TaskInv, TaskOk, Executing
  <2>4. ASSUME node[u] \in Step \ Gate, mem'[u][Key[node[u]]] = "completed"
        PROVE  st[Key[node[u]]] = "completed"
    <3> DEFINE r == SyncResult(u, node[u])
    <3>1. mem' = [mem EXCEPT ![u] = [mem[u] EXCEPT ![Key[node[u]]] = r]]
      BY <1>3, <2>4 DEF NodeSync
    <3> HIDE DEF r
    <3>2. mem'[u][Key[node[u]]] = r
      BY <2>4, <3>1 DEF TypeInv, TypeOK
    <3>3. r = "completed" => mem[u][Key[node[u]]] = "completed"
      BY <2>4 DEF r, SyncResult
    <3> QED
      BY <2>3, <2>4, <3>2, <3>3
  <2>5. \A t \in Task : tpc'[t] = IF t = u THEN "persist" ELSE tpc[t]
    BY <2>1 DEF TypeInv, TypeOK
  <2>6. KeyInv'
    BY <2>1 DEF KeyInv
  <2>7. AgentInv'
    BY <2>1, <2>2, <2>4, <2>5 DEF KeyInv, AgentInv
  <2> QED
    BY <2>6, <2>7
<1>4. ASSUME NEW u \in Task, NodeExec(u) PROVE OriginInv'
  <2>1. /\ row' = row /\ node' = node /\ mem' = mem /\ node[u] \in Step
        /\ \A i \in Step : execs'[i] = IF i = node[u] THEN execs[i] + 1 ELSE execs[i]
        /\ \A t \in Task : tpc'[t] = IF t = u THEN "exec" ELSE tpc[t]
    BY <1>0, <1>4 DEF NodeExec, TypeInv, TypeOK
  <2>2. \A i \in Step : execs[i] # 0 => execs'[i] # 0
    BY <1>0, <2>1
  <2>3. execs'[node[u]] # 0
    BY <1>0, <2>1
  <2>4. \A t \in Task : tpc[t] = "exec" => node[t] \in Step
    BY DEF TypeInv, PcInv
  <2> QED
    BY <2>1, <2>2, <2>3, <2>4 DEF KeyInv, AgentInv
<1>5. ASSUME NEW u \in Task, NEW r \in {"completed", "failed"}, ExecReturn(u, r)
      PROVE  OriginInv'
  <2>1. /\ row' = row /\ node' = node /\ execs' = execs /\ tpc[u] = "exec"
        /\ \A t \in Task : tpc'[t] = IF t = u THEN "persist" ELSE tpc[t]
        /\ \A t \in Task : t # u => mem'[t] = mem[t]
    BY <1>5 DEF ExecReturn, TypeInv, TypeOK
  <2> QED
    BY <2>1 DEF KeyInv, AgentInv
<1>6. ASSUME NEW u \in Task, Persist(u) PROVE OriginInv'
  <2>1. /\ mem' = mem /\ execs' = execs /\ tpc[u] = "persist"
        /\ \A t \in Task : tpc'[t] \in {"exec", "persist"} =>
              tpc'[t] = tpc[t] /\ node'[t] = node[t]
    BY <1>6 DEF Persist, TypeInv, TypeOK
  <2>2. AgentInv'
    BY <2>1 DEF AgentInv
  <2>3. CASE row'.steps = st
    BY <2>1, <2>2, <2>3 DEF KeyInv
  <2>4. CASE row'.steps # st
    <3>1. /\ node[u] \in Step /\ Differ(st, mem[u], Key[node[u]]) /\ row'.steps = mem[u]
      BY <1>6, <2>4, PersistChange
    <3>2. \A k \in Label : row'.steps[k] # "none" => \E i \in Step : Key[i] = k
      BY <3>1 DEF KeyInv, Differ
    <3>3. ASSUME NEW i \in Step \ Gate, row'.steps[Key[i]] = "completed" PROVE execs[i] # 0
      <4>1. CASE i = node[u]
        BY <2>1, <3>1, <3>3, <4>1 DEF AgentInv
      <4>2. CASE i # node[u]
        BY <3>1, <3>3, <4>2, UniqueAssumption DEF KeyInv, Differ
      <4> QED
        BY <4>1, <4>2
    <3> QED
      BY <2>1, <2>2, <3>2, <3>3 DEF KeyInv
  <2> QED
    BY <2>3, <2>4
<1>7. ASSUME NEW a \in Approver, ApproveUpdate(a) PROVE OriginInv'
  <2>1. UNCHANGED <<tpc, node, mem, execs>>
    BY <1>7 DEF ApproveUpdate
  <2>2. PICK p \in Gate : row'.steps[Key[p]] \in Decision /\ Differ(st, row'.steps, Key[p])
    BY <1>7, ApproveUpdateFacts
  <2>3. KeyInv'
    BY <2>1, <2>2, UniqueAssumption DEF KeyInv, Differ, Decision
  <2> QED
    BY <2>1, <2>3 DEF AgentInv
<1> QED
  BY <1>1, <1>2, <1>3, <1>4, <1>5, <1>6, <1>7, QuietSteps
  DEF Loud, StartLaunch, ResumeLaunch

\* The result of step i as a client sees it.
Shown(i) == IF row.steps[Key[i]] = "awaiting_approval" THEN "none" ELSE row.steps[Key[i]]

\* The terms of the promise, in this runner's.
LEMMA PromiseTerms ==
    ASSUME TypeInv, KeyInv, NEW i \in Step
    PROVE  /\ AllBefore(i, row.steps) => Promise!Reached(i)
           /\ i \notin Gate => (Promise!Holds(i) <=> CondHolds(i, row.steps))
           /\ Promise!Unused(i) <=> \A j \in Step : i < j => execs[j] = 0 /\ Shown(j) = "none"
<1> USE DefinitionAssumption
<1>1. ASSUME AllBefore(i, row.steps) PROVE Promise!Reached(i)
  <2>1. \A j \in 1..(i - 1) : j \in Step /\ j < i
    OBVIOUS
  <2>2. \A j \in 1..(i - 1) : row.steps[Key[j]] \in Completed \cup {"skipped"}
    BY <1>1, <2>1 DEF AllBefore, Accounted, Decision
  <2> QED
    BY <2>1, <2>2 DEF Promise!Reached
<1>2. ASSUME i \notin Gate PROVE Promise!Holds(i) <=> CondHolds(i, row.steps)
  <2>1. Promise!Holds(i) <=> Cond[i] = None
                              \/ \E j \in Step : Key[j] = Cond[i] /\ Shown(j) = "approved"
    BY <1>2 DEF Promise!Holds, Shown
  <2>2. (\E j \in Step : Key[j] = Cond[i] /\ Shown(j) = "approved")
            => row.steps[Cond[i]] = "approved"
    BY DEF Shown
  <2>3. ASSUME Cond[i] # None, row.steps[Cond[i]] = "approved"
        PROVE  \E j \in Step : Key[j] = Cond[i] /\ Shown(j) = "approved"
    BY <2>3 DEF KeyInv, Shown
  <2> QED
    BY <2>1, <2>2, <2>3 DEF CondHolds
<1>3. Promise!Unused(i) <=> \A j \in Step : i < j => execs[j] = 0 /\ Shown(j) = "none"
  <2>1. \A j \in Step : i \in 1..(j - 1) <=> i < j
    OBVIOUS
  <2> QED
    BY <2>1 DEF Promise!Unused, Shown
<1> QED
  BY <1>1, <1>2, <1>3

\* The local engine keeps the promise of a run, whatever approvals, cancels,
\* crashes and store errors interleave and although the graph is executed again
\* after every approval: a step is given to an agent once, in its turn, on an
\* approval that is stored; a decision is replaced only while nothing after it
\* has started; a run reported completed has a good result for every step.
THEOREM LocalKeepsPromise ==
    ASSUME SingleStart, ConditionsLookBack, NamesApart
    PROVE  Spec => KeepsPromise
<1> USE DefinitionAssumption
<1> DEFINE result == [i \in Step |-> IF row.steps[Key[i]] = "awaiting_approval" THEN "none"
                                     ELSE row.steps[Key[i]]]
           reported == row.status = "completed"
           Move == Promise!Advance \/ Promise!Report \/ Promise!Withdraw
           Inv == TypeInv /\ RunInv /\ DataInv /\ OriginInv
<1>1. Spec => []Inv
  <2>1. Init => OriginInv
    BY DEF Init, OriginInv, KeyInv, AgentInv
  <2>2. OriginInv /\ TypeInv /\ TypeInv' /\ RunInv /\ DataInv /\ [Next]_vars => OriginInv'
    BY OriginStep
  <2> QED
    BY <2>1, <2>2, TypeInvariance, RunInvariance, DataInvariance, PTL DEF Spec
<1>2. Init => Promise!PromiseInit
  BY DEF Init, Promise!PromiseInit
<1>3. ASSUME Inv, Inv', [Next]_vars PROVE [Move]_(Promise!promiseVars)
  <2> USE <1>3
  <2> DEFINE st == row.steps
  <2>0. /\ st \in [Label -> Result] /\ execs \in [Step -> Nat] /\ execs' \in [Step -> Nat]
        /\ row'.steps \in [Label -> Result] /\ KeyInv
    BY DEF TypeInv, TypeOK, OriginInv
  <2>1. result' \in [Step -> (Result \ {"none", "awaiting_approval"}) \cup {"none"}]
    BY <2>0
  <2>2. CASE row'.steps = st /\ execs' = execs
    <3>1. result' = result
      BY <2>2
    <3>2. CASE reported' <=> reported
      <4>1. reported' = reported
        BY <3>2
      <4> QED
        BY <2>2, <3>1, <4>1 DEF Promise!promiseVars
    <3>3. CASE reported /\ ~reported'
      <4>1. reported' = FALSE
        BY <3>3
      <4> QED
        BY <2>2, <3>1, <3>3, <4>1 DEF Promise!Withdraw
    <3>4. CASE reported' /\ ~reported
      <4>1. reported' = TRUE
        BY <3>4
      <4>2. AllBefore(N + 1, st)
        BY <2>2, <3>4 DEF DataInv, EndInv
      <4>3. \A i \in Step : result[i] \in Completed \cup {"skipped"}
        BY <4>2 DEF AllBefore, Accounted, Decision
      <4> QED
        BY <2>2, <3>1, <3>4, <4>1, <4>3 DEF Promise!Report
    <3> QED
      BY <3>2, <3>3, <3>4
  <2>3. ASSUME NEW t \in Task, NodeExec(t) PROVE Promise!Advance
    <3> DEFINE n == node[t]
    <3>1. /\ n \in Step \ Gate /\ tpc[t] = "node" /\ Executing(t) /\ row' = row
          /\ execs' = [execs EXCEPT ![n] = execs[n] + 1] /\ tpc'[t] = "exec"
          /\ node' = node /\ mem' = mem
      BY <2>3 DEF NodeExec, Executing, TypeInv, TypeOK
    <3>2. /\ AllBefore(n, st) /\ st[Key[n]] = "none" /\ CondHolds(n, st)
      <4>1. TaskOk("exec", n, mem[t], st, saved'[t], pausedAt'[t])
        BY <3>1 DEF DataInv, TaskInv, Executing
      <4> QED
        BY <4>1 DEF TaskOk
    <3>3. execs[n] = 0
      <4>1. execs'[n] <= 1 /\ execs'[n] = execs[n] + 1 /\ execs[n] \in Nat
        BY <2>0, <3>1 DEF DataInv, ExecInv
      <4> QED
        BY <4>1
    <3>4. ~reported
      BY <3>1, Alone DEF DataInv
    <3>5. Promise!MayStart(n)
      BY <2>0, <3>1, <3>2, <3>3, PromiseTerms DEF Promise!MayStart
    <3>6. \A i \in Step : execs'[i] = execs[i] \/ (Promise!MayStart(i) /\ execs'[i] = 1)
      BY <2>0, <3>1, <3>3, <3>5
    <3>7. result' = result /\ reported' = reported
      BY <3>1
    <3> QED
      BY <2>0, <2>1, <3>4, <3>6, <3>7 DEF Promise!Advance
  <2>4. ASSUME execs' = execs, row'.status = row.status, ~reported, NEW n \in Step,
               Differ(st, row'.steps, Key[n]),
               result'[n] # result[n] => Promise!MaySet(n, result'[n])
        PROVE  Promise!Advance
    <3>1. \A i \in Step : i # n => result'[i] = result[i]
      BY <2>4, UniqueAssumption DEF Differ
    <3>2. \A i \in Step : result'[i] = result[i] \/ Promise!MaySet(i, result'[i])
      BY <2>4, <3>1
    <3>3. reported' = reported
      BY <2>4
    <3> HIDE DEF result
    <3> QED
      BY <2>0, <2>1, <2>4, <3>2, <3>3 DEF Promise!Advance, result
  <2>5. ASSUME NEW t \in Task, Persist(t), row'.steps # st PROVE Promise!Advance
    <3> DEFINE n == node[t]
               m == mem[t]
    <3>1. /\ n \in Step /\ st[Key[n]] = "none" /\ Differ(st, m, Key[n]) /\ row'.steps = m
          /\ AllBefore(n, m)
          /\ \/ Accounted(n, m)
             \/ m[Key[n]] = "failed"
             \/ n \in Gate /\ m[Key[n]] = "awaiting_approval"
      BY <2>5, PersistChange
    <3>2. /\ execs' = execs /\ row'.status = row.status /\ tpc[t] = "persist" /\ Executing(t)
      BY <2>5, PersistFacts DEF Persist, taskVars, Executing
    <3>3. ~reported
      BY <3>2, Alone DEF DataInv
    <3>4. Differ(m, st, Key[n])
      BY <3>1 DEF Differ
    <3>5. AllBefore(n, st) /\ (Cond[n] # None => st[Cond[n]] = m[Cond[n]])
      BY <3>1, <3>4, SetResult
    <3>6. ASSUME result'[n] # result[n] PROVE Promise!MaySet(n, result'[n])
      <4>1. /\ result[n] = "none" /\ result'[n] = m[Key[n]]
            /\ m[Key[n]] \in Result \ {"none", "awaiting_approval"}
        BY <2>0, <3>1, <3>6
      <4>2. m[Key[n]] = "skipped" => n \notin Gate /\ ~CondHolds(n, st)
        BY <3>1, <3>5 DEF Accounted, Decision, CondHolds
      <4>3. m[Key[n]] = "completed" /\ n \notin Gate => execs[n] = 1
        <5>1. m[Key[n]] = "completed" /\ n \notin Gate => execs[n] # 0
          BY <3>1, <3>2 DEF OriginInv, AgentInv
        <5>2. execs[n] \in Nat /\ execs[n] <= 1
          BY <2>0, <3>1 DEF DataInv, ExecInv
        <5> QED
          BY <5>1, <5>2
      <4>4. Promise!Reached(n) /\ (n \notin Gate => (Promise!Holds(n) <=> CondHolds(n, st)))
        BY <2>0, <3>1, <3>5, PromiseTerms
      <4> HIDE DEF m, n
      <4> QED
        BY <3>1, <4>1, <4>2, <4>3, <4>4 DEF Promise!MaySet
    <3> QED
      BY <2>4, <3>1, <3>2, <3>3, <3>6
  <2>6. ASSUME NEW a \in Approver, ApproveUpdate(a) PROVE Promise!Advance
    <3>1. PICK p \in Gate : /\ row'.status = row.status /\ row'.steps[Key[p]] \in Decision
                            /\ Differ(st, row'.steps, Key[p]) /\ PauseAt(p, st)
      BY <2>6, ApproveUpdateFacts
    <3>2. apc[a] \in Decided /\ execs' = execs
      BY <2>6 DEF ApproveUpdate, Decided, taskVars
    <3>3. ~reported /\ \A i \in Step : execs[i] \in Nat /\ execs[i] <= 1
                                      /\ (execs[i] = 1 => st[Key[i]] # "none")
      BY <2>0, <3>2, ApprovalAlone
    <3>4. p \in Step /\ Promise!Reached(p)
      BY <2>0, <3>1, PromiseTerms DEF PauseAt
    <3>5. Promise!Unused(p)
      <4>1. \A j \in Step : p < j => st[Key[j]] = "none"
        BY <3>1, <3>4 DEF PauseAt, NoneAfter
      <4>2. \A j \in Step : p < j => execs[j] = 0 /\ Shown(j) = "none"
        BY <3>3, <4>1 DEF Shown
      <4> QED
        BY <2>0, <3>4, <4>2, PromiseTerms
    <3>6. Promise!MaySet(p, result'[p])
      BY <3>1, <3>4, <3>5 DEF Promise!MaySet, Decision
    <3> QED
      BY <2>4, <3>1, <3>2, <3>3, <3>4, <3>6
  <2>7. Quiet => row'.steps = st /\ execs' = execs
    BY DEF Quiet, QuietTasks, QuietRow
  <2>8. (\E s \in Starter : StartLaunch(s)) \/ (\E t \in Task : NodeSync(t))
        \/ (\E t \in Task, r \in {"completed", "failed"} : ExecReturn(t, r))
        \/ (\E a \in Approver : ResumeLaunch(a) /\ snap[a].status # "cancelled")
        => row'.steps = st /\ execs' = execs
    BY DEF StartLaunch, NodeSync, ExecReturn, ResumeLaunch, Launch
  <2>9. ASSUME NEW t \in Task, Persist(t) PROVE execs' = execs
    BY <2>9 DEF Persist
  <2> HIDE DEF st, result, reported
  <2> QED
    BY <1>3, <2>2, <2>3, <2>5, <2>6, <2>7, <2>8, <2>9, QuietSteps DEF Loud
<1>4. QED
  BY <1>1, <1>2, <1>3, PTL DEF Spec, KeepsPromise, Promise!PromiseSpec
=============================================================================
