---------------------------- MODULE LocalRunner ----------------------------
(***************************************************************************)
(* The default workflow engine: LocalWorkflowRunner                        *)
(* (workflow/executor/local/executor.py), the graph it executes            *)
(* (workflow/executor/graph_translator.py) and the PostgreSQL row that     *)
(* RunStateStore keeps for a run (storage/run_state_store.py).             *)
(*                                                                         *)
(* The module follows ONE workflow id.  The runner is asyncio code: a      *)
(* coroutine runs without interference between two awaits, so every action *)
(* below is one awaited store call together with the local code that       *)
(* follows it up to the next await.  Local code that reads or writes the   *)
(* runner's shared dictionaries (_running, _locks) after a store call is   *)
(* an action of its own, because another coroutine can run between the     *)
(* moment PostgreSQL applies a statement and the moment its caller wakes.  *)
(*                                                                         *)
(* append_event writes only the event list, which nothing in the runner    *)
(* reads: such a call is the await point in front of the next store call   *)
(* and is merged with it.                                                  *)
(***************************************************************************)
EXTENDS Naturals, FiniteSets

CONSTANTS
    Starter,      \* POST /run requests that carry this workflow_id
    Approver,     \* POST /{id}/approve requests
    Canceller,    \* POST /{id}/cancel requests
    N,            \* number of steps of the definition
    Gate,         \* the steps of type human-approval
    Label,        \* strings used as step names and as output keys
    Name, Key,    \* the name and the output_key of each step
    Cond,         \* the key whose approval a step's condition tests, or None
    AutoApprove,  \* approval_policy.auto_approve
    KnownIds,     \* clients approve only a run whose row exists
    MaxCrashes,   \* bound: process crashes
    MaxFaults,    \* bound: store calls that raise
    None

Step == 1..N
Task == Starter \cup Approver   \* a request launches at most one task

ASSUME RequestAssumption ==
    /\ Starter \cap Approver = {}
    /\ None \notin Starter \cup Approver \cup Label

ASSUME DefinitionAssumption ==
    /\ N \in Nat \ {0}
    /\ Gate \subseteq Step
    /\ Name \in [Step -> Label]
    /\ Key \in [Step -> Label]
    /\ Cond \in [Step -> Label \cup {None}]
    /\ AutoApprove \in BOOLEAN
    /\ KnownIds \in BOOLEAN

\* validate_definition refuses duplicate step names and output keys.
ASSUME UniqueAssumption ==
    \A i, j \in Step : i # j => Name[i] # Name[j] /\ Key[i] # Key[j]

ASSUME BoundAssumption == MaxCrashes \in Nat /\ MaxFaults \in Nat

Terminal == {"completed", "failed", "cancelled"}
Status == {"absent", "running", "paused"} \cup Terminal

\* A step result.  "approved" and "rejected" stand for status "completed"
\* with output {approved: true} and {approved: false}.
Result == {"none", "completed", "approved", "rejected", "failed", "skipped",
           "awaiting_approval"}
Completed == {"completed", "approved", "rejected"}
NoResults == [k \in Label |-> "none"]

VARIABLES
    row,        \* the run's row: status, current_step, steps
    running,    \* _running[workflow_id]: the registered task
    lock,       \* _locks[workflow_id]: the lock object, named by its creator
    holder,     \* who holds each lock object
    spc,        \* where each start() request is
    apc,        \* where each approve() request is
    req,        \* the lock, step name and decision of each approve() request
    snap,       \* the row an approve() request has read
    cpc,        \* where each cancel() request is
    tpc,        \* where each _execute task is
    node,       \* the graph node a task is at: 0 start, 1..N steps, N+1 end
    mem,        \* a task's state.step_results
    saved,      \* a task's persisted_keys
    pausedAt,   \* a task's state.paused_at_step
    killed,     \* task.cancel() was called and CancelledError is not yet raised
    execs,      \* history: how often each step's agent was started
    crashes, faults, strandings   \* history: bounds and abnormal ends

reqVars   == <<spc, apc, req, snap, cpc>>
taskVars  == <<tpc, node, mem, saved, pausedAt, killed, execs>>
histVars  == <<crashes, faults, strandings>>
vars == <<row, running, lock, holder, reqVars, taskVars, histVars>>

\* Program points of _execute: inside the try block, and after it (an except
\* clause or the way to finally).
TryPc == {"node", "exec", "persist", "pause", "fail", "complete",
          "paused", "ended"}
HandlerPc == {"cancelling", "excfail", "exit"}
LivePc == {"created"} \cup TryPc \cup HandlerPc

TypeOK ==
    /\ row \in [status : Status, current : Label \cup {None},
                steps : [Label -> Result]]
    /\ running \in Task \cup {None}
    /\ lock \in Task \cup {None}
    /\ holder \in [Task -> Approver \cup {None}]
    /\ spc \in [Starter -> {"idle", "create", "context", "done"}]
    /\ apc \in [Approver -> {"idle", "lock", "get", "update", "resume",
                             "reget", "recheck", "launch", "done"}]
    /\ req \in [Approver -> [lock : Task \cup {None}, step : Label \cup {None},
                             decision : {"approved", "rejected"}]]
    /\ snap \in [Approver -> [status : Status, steps : [Label -> Result]]]
    /\ cpc \in [Canceller -> {"idle", "get", "decide", "mark", "done"}]
    /\ tpc \in [Task -> {"idle", "done"} \cup LivePc]
    /\ node \in [Task -> 0..(N + 1)]
    /\ mem \in [Task -> [Label -> Result]]
    /\ saved \in [Task -> SUBSET Label]
    /\ pausedAt \in [Task -> Step \cup {0}]
    /\ killed \in [Task -> BOOLEAN]
    /\ execs \in [Step -> Nat]
    /\ crashes \in Nat /\ faults \in Nat /\ strandings \in Nat

Init ==
    /\ row = [status |-> "absent", current |-> None, steps |-> NoResults]
    /\ running = None
    /\ lock = None
    /\ holder = [l \in Task |-> None]
    /\ spc = [s \in Starter |-> "idle"]
    /\ apc = [a \in Approver |-> "idle"]
    /\ req = [a \in Approver |-> [lock |-> None, step |-> None,
                                  decision |-> "approved"]]
    /\ snap = [a \in Approver |-> [status |-> "absent", steps |-> NoResults]]
    /\ cpc = [c \in Canceller |-> "idle"]
    /\ tpc = [t \in Task |-> "idle"]
    /\ node = [t \in Task |-> 0]
    /\ mem = [t \in Task |-> NoResults]
    /\ saved = [t \in Task |-> {}]
    /\ pausedAt = [t \in Task |-> 0]
    /\ killed = [t \in Task |-> FALSE]
    /\ execs = [i \in Step |-> 0]
    /\ crashes = 0 /\ faults = 0 /\ strandings = 0

-----------------------------------------------------------------------------
(* Mutations: a definition whose name starts with Bug_ is a faulty variant *)
(* of the definition that follows it, used to show that a property can     *)
(* fail; no action uses it.                                                *)

Bug_SetPaused(i)     == row' = [row EXCEPT !.status = "awaiting_approval"]
Bug_Resume           == row' = [row EXCEPT !.current = None]
Bug_MarkTerminal(st) == IF st = "cancelled" THEN UNCHANGED row
                        ELSE row' = [row EXCEPT !.status = st, !.current = None]

(* RunStateStore: none of these statements tests the current status.       *)

UpdateStep(k, r) == row' = [row EXCEPT !.steps[k] = r, !.current = k]
SetPaused(i)     == row' = [row EXCEPT !.status = "paused", !.current = Name[i]]
Resume           == row' = [row EXCEPT !.status = "running", !.current = None]
MarkTerminal(st) == row' = [row EXCEPT !.status = st, !.current = None]

-----------------------------------------------------------------------------
(* Launching an _execute task on the given restored results.               *)

Launch(t, results) ==
    /\ tpc' = [tpc EXCEPT ![t] = "created"]
    /\ node' = [node EXCEPT ![t] = 0]
    /\ mem' = [mem EXCEPT ![t] = results]
    /\ saved' = [saved EXCEPT ![t] = {k \in Label : results[k] # "none"}]
    /\ pausedAt' = [pausedAt EXCEPT ![t] = 0]
    /\ killed' = [killed EXCEPT ![t] = FALSE]
    /\ running' = t
    /\ UNCHANGED execs

(* start()                                                                 *)

\* A new lock object replaces the current one before the row is created.
StartRequest(s) ==
    /\ spc[s] = "idle"
    /\ spc' = [spc EXCEPT ![s] = "create"]
    /\ lock' = s
    /\ UNCHANGED <<row, running, holder, apc, req, snap, cpc, taskVars, histVars>>

\* store.create: the primary key refuses a duplicate (409 Conflict).
StartCreate(s) ==
    /\ spc[s] = "create"
    /\ IF row.status = "absent"
       THEN /\ row' = [row EXCEPT !.status = "running"]
            /\ spc' = [spc EXCEPT ![s] = "context"]
       ELSE /\ spc' = [spc EXCEPT ![s] = "done"]
            /\ UNCHANGED row
    /\ UNCHANGED <<running, lock, holder, apc, req, snap, cpc, taskVars, histVars>>

\* update_workflow_context, build_graph, create_task, _running[id] = task.
StartLaunch(s) ==
    /\ spc[s] = "context"
    /\ spc' = [spc EXCEPT ![s] = "done"]
    /\ Launch(s, NoResults)
    /\ UNCHANGED <<row, lock, holder, apc, req, snap, cpc, histVars>>

-----------------------------------------------------------------------------
(* _execute: the graph loop                                                *)

Bug_CondHolds(i, results) == Cond[i] = None \/ results[Cond[i]] \in Completed

\* evaluate_condition on `steps.K.approved`; a missing step is false.
CondHolds(i, results) == Cond[i] = None \/ results[Cond[i]] = "approved"

\* The first resumption of the task: persisted_keys := step_results.keys().
TaskBegin(t) ==
    /\ tpc[t] = "created" /\ ~killed[t]
    /\ tpc' = [tpc EXCEPT ![t] = "node"]
    /\ UNCHANGED <<row, running, lock, holder, reqVars, node, mem, saved,
                   pausedAt, killed, execs, histVars>>

\* What a node does with its step, before it awaits anything.
AgentSkips(t, i) ==
    \/ mem[t][Key[i]] \in Completed \cup {"failed"}
    \/ pausedAt[t] # 0
    \/ ~CondHolds(i, mem[t])

SyncResult(t, i) ==
    LET old == mem[t][Key[i]] IN
    IF i \in Gate
    THEN IF old \in Completed THEN old
         ELSE IF AutoApprove THEN "approved" ELSE "awaiting_approval"
    ELSE IF old \in Completed \cup {"failed"} THEN old ELSE "skipped"

\* run.next() at a node that needs no agent: the start node, a step whose
\* result was restored, a skipped step, an approval step.
NodeSync(t) ==
    /\ tpc[t] = "node" /\ ~killed[t]
    /\ node[t] \in Step => node[t] \in Gate \/ AgentSkips(t, node[t])
    /\ node[t] # N + 1
    /\ tpc' = [tpc EXCEPT ![t] = "persist"]
    /\ IF node[t] \in Step
       THEN LET r == SyncResult(t, node[t]) IN
            /\ mem' = [mem EXCEPT ![t][Key[node[t]]] = r]
            /\ pausedAt' = [pausedAt EXCEPT
                              ![t] = IF r = "awaiting_approval" THEN node[t]
                                                                ELSE @]
       ELSE UNCHANGED <<mem, pausedAt>>
    /\ UNCHANGED <<row, running, lock, holder, reqVars, node, saved, killed,
                   execs, histVars>>

\* run.next() at an agent step: the executor is called ...
NodeExec(t) ==
    /\ tpc[t] = "node" /\ ~killed[t]
    /\ node[t] \in Step \ Gate
    /\ ~AgentSkips(t, node[t])
    /\ tpc' = [tpc EXCEPT ![t] = "exec"]
    /\ execs' = [execs EXCEPT ![node[t]] = @ + 1]
    /\ UNCHANGED <<row, running, lock, holder, reqVars, node, mem, saved,
                   pausedAt, killed, histVars>>

\* ... and returns, retries included, with a completed or a failed result (a
\* step that cannot be normalized fails without a call) ...
ExecReturn(t, r) ==
    /\ tpc[t] = "exec" /\ ~killed[t]
    /\ mem' = [mem EXCEPT ![t][Key[node[t]]] = r]
    /\ tpc' = [tpc EXCEPT ![t] = "persist"]
    /\ UNCHANGED <<row, running, lock, holder, reqVars, node, saved, pausedAt,
                   killed, execs, histVars>>

\* ... or raises out of the graph.
ExecRaise(t) ==
    /\ tpc[t] = "exec" /\ ~killed[t]
    /\ tpc' = [tpc EXCEPT ![t] = "excfail"]
    /\ UNCHANGED <<row, running, lock, holder, reqVars, node, mem, saved,
                   pausedAt, killed, execs, histVars>>

\* run.next() at the end node returns EndMarker.
NodeEnd(t) ==
    /\ tpc[t] = "node" /\ ~killed[t]
    /\ node[t] = N + 1
    /\ tpc' = [tpc EXCEPT ![t] = "complete"]
    /\ UNCHANGED <<row, running, lock, holder, reqVars, node, mem, saved,
                   pausedAt, killed, execs, histVars>>

Bug_HasFailed(t) == FALSE
HasFailed(t) == \E k \in Label : mem[t][k] = "failed"

NewKeys(t) == {k \in Label : mem[t][k] # "none"} \ saved[t]

\* step.started of the next node, update_step for the keys not yet persisted
\* (one node adds at most one), then the failed and paused tests.
Persist(t) ==
    /\ tpc[t] = "persist" /\ ~killed[t]
    /\ IF NewKeys(t) = {} THEN UNCHANGED row
       ELSE \E k \in NewKeys(t) : UpdateStep(k, mem[t][k])
    /\ saved' = [saved EXCEPT ![t] = @ \cup NewKeys(t)]
    /\ IF HasFailed(t)
       THEN tpc' = [tpc EXCEPT ![t] = "fail"] /\ UNCHANGED node
       ELSE IF pausedAt[t] # 0
            THEN tpc' = [tpc EXCEPT ![t] = "pause"] /\ UNCHANGED node
            ELSE /\ tpc' = [tpc EXCEPT ![t] = "node"]
                 /\ node' = [node EXCEPT ![t] = @ + 1]
    /\ UNCHANGED <<running, lock, holder, reqVars, mem, pausedAt, killed,
                   execs, histVars>>

\* set_paused; then the workflow.paused event is still to be appended.
Pause(t) ==
    /\ tpc[t] = "pause" /\ ~killed[t]
    /\ SetPaused(pausedAt[t])
    /\ tpc' = [tpc EXCEPT ![t] = "paused"]
    /\ UNCHANGED <<running, lock, holder, reqVars, node, mem, saved, pausedAt,
                   killed, execs, histVars>>

\* The store call at pc marks the run terminal and leads to pc next.
Mark(t, pc, status, next) ==
    /\ tpc[t] = pc /\ ~killed[t]
    /\ MarkTerminal(status)
    /\ tpc' = [tpc EXCEPT ![t] = next]
    /\ UNCHANGED <<running, lock, holder, reqVars, node, mem, saved, pausedAt,
                   killed, execs, histVars>>

MarkFailed(t)    == Mark(t, "fail", "failed", "ended")
MarkCompleted(t) == Mark(t, "complete", "completed", "ended")
MarkCancelled(t) == Mark(t, "cancelling", "cancelled", "exit")
MarkExcFailed(t) == Mark(t, "excfail", "failed", "exit")

\* return (or the end of a handler) and finally: _running.pop(workflow_id).
Finally(t) ==
    /\ tpc[t] \in {"paused", "ended", "exit"} /\ ~killed[t]
    /\ tpc' = [tpc EXCEPT ![t] = "done"]
    /\ running' = None
    /\ UNCHANGED <<row, lock, holder, reqVars, node, mem, saved, pausedAt,
                   killed, execs, histVars>>

\* CancelledError is raised at the await the task is suspended in.  A task
\* that never ran just ends: not even its finally clause runs.  An except
\* clause is left for finally.
RaiseCancelled(t) ==
    /\ killed[t] /\ tpc[t] \in LivePc
    /\ killed' = [killed EXCEPT ![t] = FALSE]
    /\ tpc' = [tpc EXCEPT ![t] = CASE @ = "created" -> "done"
                                   [] @ \in TryPc -> "cancelling"
                                   [] @ \in HandlerPc -> "exit"]
    /\ strandings' = IF tpc[t] \in {"created", "cancelling", "excfail"}
                     THEN strandings + 1 ELSE strandings
    /\ UNCHANGED <<row, running, lock, holder, reqVars, node, mem, saved,
                   pausedAt, execs, crashes, faults>>

-----------------------------------------------------------------------------
(* approve()                                                               *)

\* The request takes the current lock object, or installs one.
ApproveRequest(a, k, d) ==
    /\ apc[a] = "idle"
    /\ KnownIds => row.status # "absent"
    /\ apc' = [apc EXCEPT ![a] = "lock"]
    /\ lock' = IF lock = None THEN a ELSE lock
    /\ req' = [req EXCEPT ![a] = [lock |-> lock', step |-> k, decision |-> d]]
    /\ UNCHANGED <<row, running, holder, spc, snap, cpc, taskVars, histVars>>

Bug_LockFree(a) == TRUE
LockFree(a) == holder[req[a].lock] = None

ApproveLock(a) ==
    /\ apc[a] = "lock"
    /\ LockFree(a)
    /\ holder' = [holder EXCEPT ![req[a].lock] = a]
    /\ apc' = [apc EXCEPT ![a] = "get"]
    /\ UNCHANGED <<row, running, lock, spc, req, snap, cpc, taskVars, histVars>>

\* The request returns or raises: async with releases the lock.
Release(a) ==
    /\ holder' = [holder EXCEPT ![req[a].lock] = None]
    /\ apc' = [apc EXCEPT ![a] = "done"]

PausedHere(a) == row.status = "paused" /\ row.current = req[a].step

\* store.get and the three refusals (unknown run, not paused, other step).
ApproveGet(a) ==
    /\ apc[a] = "get"
    /\ IF PausedHere(a)
       THEN apc' = [apc EXCEPT ![a] = "update"] /\ UNCHANGED holder
       ELSE Release(a)
    /\ UNCHANGED <<row, running, lock, spc, req, snap, cpc, taskVars, histVars>>

\* The output key of the step named k; k itself when no step has that name.
OutputKey(k) == IF \E i \in Step : Name[i] = k
                THEN Key[CHOOSE i \in Step : Name[i] = k]
                ELSE k

ApproveUpdate(a) ==
    /\ apc[a] = "update"
    /\ UpdateStep(OutputKey(req[a].step), req[a].decision)
    /\ apc' = [apc EXCEPT ![a] = "resume"]
    /\ UNCHANGED <<running, lock, holder, spc, req, snap, cpc, taskVars, histVars>>

\* step.approved event, then store.resume.
ApproveResume(a) ==
    /\ apc[a] = "resume"
    /\ Resume
    /\ apc' = [apc EXCEPT ![a] = "reget"]
    /\ UNCHANGED <<running, lock, holder, spc, req, snap, cpc, taskVars, histVars>>

\* _resume_from_store: the results to restore, ...
ResumeGet(a) ==
    /\ apc[a] = "reget"
    /\ snap' = [snap EXCEPT ![a].steps = row.steps]
    /\ apc' = [apc EXCEPT ![a] = "recheck"]
    /\ UNCHANGED <<row, running, lock, holder, spc, req, cpc, taskVars, histVars>>

\* ... the refreshed status, ...
ResumeRecheck(a) ==
    /\ apc[a] = "recheck"
    /\ snap' = [snap EXCEPT ![a].status = row.status]
    /\ apc' = [apc EXCEPT ![a] = "launch"]
    /\ UNCHANGED <<row, running, lock, holder, spc, req, cpc, taskVars, histVars>>

Bug_Restored(a) == NoResults
Restored(a) == snap[a].steps

\* ... and a new task unless the run was cancelled in between.
ResumeLaunch(a) ==
    /\ apc[a] = "launch"
    /\ IF snap[a].status = "cancelled"
       THEN UNCHANGED <<running, taskVars>>
       ELSE Launch(a, Restored(a))
    /\ Release(a)
    /\ UNCHANGED <<row, lock, spc, req, snap, cpc, histVars>>

-----------------------------------------------------------------------------
(* cancel()                                                                *)

CancelRequest(c) ==
    /\ cpc[c] = "idle"
    /\ cpc' = [cpc EXCEPT ![c] = "get"]
    /\ UNCHANGED <<row, running, lock, holder, spc, apc, req, snap, taskVars,
                   histVars>>

CancelGet(c) ==
    /\ cpc[c] = "get"
    /\ cpc' = [cpc EXCEPT ![c] = IF row.status = "absent" THEN "done"
                                                          ELSE "decide"]
    /\ UNCHANGED <<row, running, lock, holder, spc, apc, req, snap, taskVars,
                   histVars>>

\* The registered task is cancelled if it is not done.
CancelDecide(c) ==
    /\ cpc[c] = "decide"
    /\ IF running # None /\ tpc[running] # "done"
       THEN /\ killed' = [killed EXCEPT ![running] = TRUE]
            /\ cpc' = [cpc EXCEPT ![c] = "done"]
       ELSE /\ cpc' = [cpc EXCEPT ![c] = "mark"]
            /\ UNCHANGED killed
    /\ UNCHANGED <<row, running, lock, holder, spc, apc, req, snap, tpc, node,
                   mem, saved, pausedAt, execs, histVars>>

CancelMark(c) ==
    /\ cpc[c] = "mark"
    /\ MarkTerminal("cancelled")
    /\ cpc' = [cpc EXCEPT ![c] = "done"]
    /\ UNCHANGED <<running, lock, holder, spc, apc, req, snap, taskVars, histVars>>

-----------------------------------------------------------------------------
(* Failures: a store call raises, the process dies.  A call that raises    *)
(* because its reply was lost is a fault at the program point after it.    *)

\* strands: the run is left "running" with nobody to finish it.
Fault(strands) ==
    /\ faults < MaxFaults
    /\ faults' = faults + 1
    /\ strandings' = IF strands THEN strandings + 1 ELSE strandings
    /\ UNCHANGED crashes

StartFault(s) ==
    /\ spc[s] \in {"create", "context"}
    /\ Fault(spc[s] = "context")
    /\ spc' = [spc EXCEPT ![s] = "done"]
    /\ UNCHANGED <<row, running, lock, holder, apc, req, snap, cpc, taskVars>>

ApproveFault(a) ==
    /\ apc[a] \in {"get", "update", "resume", "reget", "recheck"}
    /\ Fault(apc[a] \in {"reget", "recheck"})
    /\ Release(a)
    /\ UNCHANGED <<row, running, lock, spc, req, snap, cpc, taskVars>>

CancelFault(c) ==
    /\ cpc[c] \in {"get", "mark"}
    /\ Fault(FALSE)
    /\ cpc' = [cpc EXCEPT ![c] = "done"]
    /\ UNCHANGED <<row, running, lock, holder, spc, apc, req, snap, taskVars>>

\* Inside the try block the exception reaches `except Exception`; inside an
\* except clause it leaves for finally.
TaskFault(t) ==
    /\ tpc[t] \in {"persist", "pause", "fail", "complete", "paused", "ended",
                   "cancelling", "excfail"}
    /\ ~killed[t]
    /\ Fault(tpc[t] \in HandlerPc)
    /\ tpc' = [tpc EXCEPT ![t] = IF @ \in TryPc THEN "excfail" ELSE "exit"]
    /\ UNCHANGED <<row, running, lock, holder, reqVars, node, mem, saved,
                   pausedAt, killed, execs>>

\* The process dies and starts again.  Requests and tasks in flight are gone,
\* the dictionaries are empty.  Startup connects the store and calls
\* recover_paused, which lists the paused runs and changes nothing.
Started(pc) == IF pc = "idle" THEN "idle" ELSE "done"

CrashRestart ==
    /\ crashes < MaxCrashes
    /\ crashes' = crashes + 1
    /\ strandings' = strandings + 1
    /\ running' = None
    /\ lock' = None
    /\ holder' = [l \in Task |-> None]
    /\ spc' = [s \in Starter |-> Started(spc[s])]
    /\ apc' = [a \in Approver |-> Started(apc[a])]
    /\ cpc' = [c \in Canceller |-> Started(cpc[c])]
    /\ tpc' = [t \in Task |-> Started(tpc[t])]
    /\ killed' = [t \in Task |-> FALSE]
    /\ UNCHANGED <<row, req, snap, node, mem, saved, pausedAt, execs, faults>>

-----------------------------------------------------------------------------
\* One POST /run carries this id, and clients approve only an existing run.
SingleStart == KnownIds /\ \A s, u \in Starter : s = u

StartStep(s) == StartRequest(s) \/ StartCreate(s) \/ StartLaunch(s)

TaskStep(t) ==
    \/ TaskBegin(t) \/ NodeSync(t) \/ NodeExec(t) \/ NodeEnd(t)
    \/ \E r \in {"completed", "failed"} : ExecReturn(t, r)
    \/ ExecRaise(t) \/ Persist(t) \/ Pause(t)
    \/ MarkFailed(t) \/ MarkCompleted(t) \/ MarkCancelled(t) \/ MarkExcFailed(t)
    \/ Finally(t) \/ RaiseCancelled(t)

ApproveStep(a) ==
    \/ ApproveLock(a) \/ ApproveGet(a) \/ ApproveUpdate(a) \/ ApproveResume(a)
    \/ ResumeGet(a) \/ ResumeRecheck(a) \/ ResumeLaunch(a)

CancelStep(c) == CancelGet(c) \/ CancelDecide(c) \/ CancelMark(c)

Next ==
    \/ \E s \in Starter : StartStep(s) \/ StartFault(s)
    \/ \E t \in Task : TaskStep(t) \/ TaskFault(t)
    \/ \E a \in Approver :
          \/ \E k \in Label, d \in {"approved", "rejected"} : ApproveRequest(a, k, d)
          \/ ApproveStep(a) \/ ApproveFault(a)
    \/ \E c \in Canceller : CancelRequest(c) \/ CancelStep(c) \/ CancelFault(c)
    \/ CrashRestart

Spec == Init /\ [][Next]_vars

\* The event loop resumes every ready coroutine, and each awaited call (the
\* store's, the step executor's, bounded by its timeout) ends.
Fairness ==
    /\ \A s \in Starter : WF_vars(spc[s] # "idle" /\ StartStep(s))
    /\ \A t \in Task : WF_vars(TaskStep(t))
    /\ \A a \in Approver : WF_vars(ApproveStep(a))
    /\ \A c \in Canceller : WF_vars(CancelStep(c))

FairSpec == Spec /\ Fairness

-----------------------------------------------------------------------------
(* Properties                                                              *)

\* Tasks that may still run an agent or write a step result.
Executing(t) == tpc[t] \in {"created", "node", "exec", "persist", "pause"}

\* At most one _execute task works on the run, whatever approvals, cancels,
\* crashes and store errors interleave: a second one would spawn sandboxes
\* for the same steps.  The lock of approve() and the order set_paused,
\* resume, create_task are there for this.
SingleExecutor ==
    \A t, u \in Task : Executing(t) /\ Executing(u) => t = u

\* No step's agent is started twice: _execute persists a result before it
\* pauses and _resume_from_store restores it, so the graph that is executed
\* again from its first node after an approval skips what already ran.
AtMostOnce == \A i \in Step : execs[i] <= 1

\* While an agent runs, every approval gate before its step has a decision in
\* the store, and the approval its condition asks for is the stored one.
GatesFirst ==
    \A t \in Task : tpc[t] = "exec" =>
        /\ \A g \in Gate : g < node[t] =>
               row.steps[Key[g]] \in {"approved", "rejected"}
        /\ Cond[node[t]] # None => row.steps[Cond[node[t]]] = "approved"

\* A decision that a later step has acted on is never replaced: an approval
\* that arrives late, or a retry of one, is refused.
DecisionStable ==
    [][\A g \in Gate : (\E i \in Step : i > g /\ execs[i] > 0) =>
          row'.steps[Key[g]] = row.steps[Key[g]]]_vars

\* A run reported paused is quiet: no agent runs and no result is written
\* until an approval has set it running again.
PausedIsQuiet == row.status = "paused" => \A t \in Task : ~Executing(t)

\* A run is reported completed only when the store accounts for every step:
\* completed, or skipped because the approval it depends on was not given.
CompletedAccounted ==
    row.status = "completed" =>
        \A i \in Step :
            \/ row.steps[Key[i]] \in Completed
            \/ row.steps[Key[i]] = "skipped" /\ ~CondHolds(i, row.steps)

\* A run that is running pauses or ends.  The exceptions are complete: the
\* process crashed, the store failed in start(), in _resume_from_store or in
\* an except clause of _execute, or a cancel hit a task before its first
\* instruction or inside an except clause.
Settles == row.status = "running" ~> row.status # "running" \/ strandings > 0

\* The run as a client sees it through the store.  A gate's condition is not
\* looked at; a gate that awaits its decision has no result yet; a decision is
\* given again when the store failed before the run was resumed.
Promise == INSTANCE RunPromise WITH
    Outcome <- Result \ {"none", "awaiting_approval"},
    Good <- Completed \cup {"skipped"}, Answer <- {"completed"}, Yes <- "approved",
    plan <- [gate |-> Gate, redo |-> Gate, before |-> [i \in Step |-> 1..(i - 1)],
             free |-> {i \in Step : i \in Gate \/ Cond[i] = None},
             cond |-> [i \in Step |-> {j \in Step : Key[j] = Cond[i]}]],
    starts <- execs,
    result <- [i \in Step |-> IF row.steps[Key[i]] = "awaiting_approval" THEN "none"
                              ELSE row.steps[Key[i]]],
    reported <- row.status = "completed"

\* The local engine keeps the promise of a run, whatever approvals, cancels,
\* crashes and store errors interleave: a step is given to an agent once, in
\* its turn, on an approval that is stored; a decision is replaced only while
\* nothing after it has started; completed means that all steps are.
KeepsPromise == Promise!PromiseSpec

\* What the interface says of a cancelled run (executor/base.py: "Whether the
\* workflow has reached a final state"): once the store says cancelled, the
\* status does not change again.
CancelledIsFinal == [][row.status = "cancelled" => row'.status = "cancelled"]_vars

\* "Inner approval logic -- called under per-workflow lock" (_approve_inner):
\* no two approvals of the run are inside it at once.
ApproveExclusive ==
    \A a, b \in Approver :
        apc[a] \notin {"idle", "lock", "done"} /\ apc[b] \notin {"idle", "lock", "done"}
            => a = b

\* "resets incomplete steps on restart" (docs/ARCHITECTURE.md): after a crash
\* a run that was executing does not stay "running" for ever.
ResetAfterCrash == (crashes > 0 /\ row.status = "running") ~> row.status # "running"
=============================================================================
