# Verification project: cloud-agents workflow runner

TLA+ models of the parts of `src/cloud_agents` that decide what happens to a
workflow run and to the sandboxes it uses, the TLC runs that check them on small
instances, and TLAPS proofs of the results that hold for every instance.

Paths below are relative to `src/src/cloud_agents/`.

## 1. Inventory

| Component | State | Operations | Interacts with |
|---|---|---|---|
| Local runner (`workflow/executor/local/executor.py`, `graph_translator.py`) | `_running` (task per id), `_locks` (lock per id), each task's graph state | `start`, `_execute`, `approve`, `_resume_from_store`, `cancel`, startup | run state store, step executors |
| Run state store (`storage/run_state_store.py`) | one PostgreSQL row per run: status, current_step, steps, events, context | unconditional UPDATEs and reads | local runner, chat runner |
| Temporal workflow (`workflow/executor/temporal/workflow.py`) | `_steps`, `_approval_decisions` (durable) | `run`, signals, activities | Temporal server, activities |
| Retry loop and grouping (`workflow/core/execution.py`) | none | `run_with_retries`, `chunk_parallel_groups`, normalization | both engines |
| Step attempt (`workflow/core/step_runner.py`, `temporal/activities.py`) | one sandbox | spawn, run, transcript, destroy | spawner, breaker, transcript store |
| Spawner (`spawner/base.py`, `openshell_spawner.py`) | `_active_count`, names of its sandboxes | `spawn`, `destroy`, `wait_ready` | OpenShell gateway |
| Sandbox lifetime (`spawner/lifetime.py`, `temporal/entrypoint.py`) | the `expires-at` label | `await_within`, stamping, `reconcile_orphaned_sandboxes` | other replicas |
| Circuit breaker (`runtime/circuit_breaker.py`) | failures per provider | `record_*`, `is_open` | step attempt |
| Gateway objects (`spawner/openshell_spawner.py`) | credential providers, provider profiles, sandboxes, one inference route | the gateway calls of spawn, cleanup and destroy | OpenShell gateway, other spawns |
| Chat runner (`workflow/executor/chat/`) | lock per conversation, turns in the transcript store | turn, stream, cancel | stores, step executors |
| CLI sessions (`workflow/cli_session.py`) | sessions, a session lock, a timeout task | launch, message, terminate, timeout | spawner |
| Alert trigger (`workflow/triggers/alert_trigger.py`) | fingerprints fired, in memory | webhook | definition store, Temporal client |
| Schedule trigger (`workflow/triggers/schedule_trigger.py`) | none of its own: schedules live at the Temporal server | create, delete, pause, resume | definition store, Temporal server |
| Definition store (`workflow/core/definition_store.py`) | versions of a definition, in memory | save, get, delete | APIs, triggers |
| Rate limiter (`runtime/rate_limiter.py`) | token buckets, last audit events | allow, cleanup, audit | HTTP middleware |
| Step executors (`workflow/executor/step/`, `middleware.py`) | a child process | run, after-hooks | provider, transcript store, breaker |
| Validation and normalization (`workflow/core/validation.py`, `definition.py`, `execution.py`) | none | validate, merge, build the step input | APIs, triggers, both engines |
| Authorization, conditions, interpolation | none | pure functions | APIs, engines |

What is hard in this code: the runner is asyncio code that reads a row with one
await and acts on it several awaits later; approvals, cancels and crashes arrive
in between; a sandbox outlives the call that created it; replicas with different
clocks delete each other's sandboxes by a label; cancellation is an exception
that ordinary handlers may catch. What makes the components correct:

- a run has one executor, executes no step twice, passes no undecided gate, and
  its reported status can be believed;
- a durable execution respects order, references and retry bounds, and ends;
- a sandbox is not reaped in use, is not leaked without a known cause, and the
  cap counts what exists; a failed spawn leaves nothing at the gateway;
- a conversation loses no turn it has shown, and its next turn sees it whole;
- an alert fires once per window and is not suppressed for ever;
- a bucket that forgets answers as one that never does;
- what an endpoint accepts can be run, with the provider and the credentials
  that were authorized, and to the same result in either in-process executor.

`PROJECT.json` lists every component, the hazards with the line where each
bites, and the properties that cover them.

## 2. Modules

| Module | Models | Proofs | TLC |
|---|---|---|---|
| `RunPromise` | what either engine promises of a run | `LocalRunnerProofs`, `AgentWorkflowProofs` | instance in `LocalRunner` and `AgentWorkflow` |
| `LocalRunner` | local runner, graph, row of the run | `LocalRunnerProofs` | `MCLocalRunner` |
| `AgentWorkflow` | one Temporal execution, retries, grouping | `AgentWorkflowProofs` | `MCAgentWorkflow` |
| `SandboxLifetime` | one sandbox, its label, reconcile of replicas | `SandboxLifetimeProofs` | `MCSandboxes` |
| `SandboxPool` | attempts sharing a spawner and a breaker, both engines | `SpawnerProofs` | `MCSandboxPool`, `MCSandboxes` |
| `GatewaySpawn` | the gateway calls of spawn, cleanup and destroy | `SpawnerProofs` | `MCServices` |
| `CliSessions` | CLI sessions, their lock and monitor, the spawner's count | `SessionProofs` | `MCServices`, `MCServicesLive` |
| `ChatRunner` | one conversation: turns, streams, history | `SessionProofs` | `MCServices` |
| `DefinitionStore` | versions of one definition | with the two triggers | with the two triggers |
| `AlertTrigger` | the webhook and its deduplication (EXTENDS `DefinitionStore`) | `TriggerProofs` | `MCServices`, `MCServicesLive` |
| `ScheduleTrigger` | schedules, submitted runs, the server (EXTENDS `DefinitionStore`) | `TriggerProofs` | `MCServices` |
| `TokenBucketSpec` | what a rate limiter promises | `RateLimiterProofs` | instance in `RateLimiter` |
| `RateLimiter` | lazy buckets, pruning, Retry-After, audit throttle | `RateLimiterProofs` | `MCServices`, itself (`rate_audit`) |
| `StepExecutors` | direct and subprocess executors, middleware, activity | `StepProofs` | `MCServices` |
| `Submission` | from a submitted definition to the input of a step | `StepProofs` | `MCServices` |

Definitions whose name starts with `Bug_` are faulty variants of the definition
that follows them. No action uses them; they show that a property can fail.

### RunPromise

The abstract specification of a run behind `WorkflowRunner` (`executor/base.py`):
how often each step was given to an agent, its result, and whether the run is
reported completed. A step starts once, in its turn and if its condition holds; it
is skipped only if the condition does not hold; a result is set once, and only a
decision of a gate in `plan.redo` may be given again, as long as nothing after it has
begun; `reported` needs a
good result of every step and may be withdrawn by a later cancel or error. Locks,
rows, tasks and crashes do not occur in it. Both engines instantiate it (`Promise`)
and `KeepsPromise` is its specification under their mapping:

| | `LocalRunner` | `AgentWorkflow` |
|---|---|---|
| `plan.before` | all earlier steps (the graph is a chain) | the earlier steps outside the step's unit |
| `plan.free` | gates (their condition is not looked at) and steps without one | steps without a condition |
| `plan.redo` | gates: an approval that failed before `resume` is repeated | none: a result is final |
| `starts` | `execs`, the calls of the step executor | 1 from the first attempt on, retries included |
| `result` | the row's results; `awaiting_approval` is none | `_steps` |
| `reported` | the row says completed | completed without a failed or denied step |

### LocalRunner

One workflow id. A coroutine runs without interference between two awaits, so an
action is one awaited store call with the local code after it up to the next
await; code that touches `_running` or `_locks` after a store call is an action
of its own, because other coroutines run between the moment PostgreSQL applies a
statement and the moment its caller wakes up.

- `row` is the database row (`status`, `current`, `steps`), `running` and `lock`
  are `_running[id]` and `_locks[id]`; a lock object is named by the request that
  created it and `holder` says who holds each.
- `spc`, `apc`, `cpc`, `tpc` are the program points of `start`, `approve`,
  `cancel` and `_execute`; `node`, `mem`, `saved`, `pausedAt` are a task's
  graph position, `step_results`, `persisted_keys` and `paused_at_step`.
- `killed` is `task.cancel()` that has not been raised yet; `RaiseCancelled` says
  where the exception goes (a task that never ran ends without its `finally`).
- `StartFault`, `ApproveFault`, `CancelFault`, `TaskFault` are store calls that
  raise; a lost reply is a fault at the point after the call. `CrashRestart` is
  the death of the process followed by the startup code.
- A result is `approved` or `rejected` where the code has status `completed` with
  `output.approved`; other outputs are abstracted. The agents' retries are inside
  `NodeExec`/`ExecReturn`. Parallel groups do not exist in this engine: the graph
  is a chain.

### AgentWorkflow

`flow` is the input; `Unit(i)` is what `chunk_parallel_groups` puts together;
`pc` is the await each `_execute_step` coroutine is in; `steps`, `decision` and
`attempts` are `_steps`, `_approval_decisions` and `attempt_number`. Temporal is
external and modelled by what the code relies on: durable variables, an awaited
activity ends with a result or an `ActivityError`, signals at any time, one
cancel request that reaches every coroutine of the unit at the await it is in
(an activity call turns it into `ActivityError`, timers into `CancelledError`,
and a cancelled `asyncio.gather` raises in the end even if its members did not).
An output is `met` or `unmet`: whether the condition of a later step holds on it.

### SandboxLifetime

Time in ticks, `PerSecond` ticks to the second. `Stamp`, `RunCall`, `RunReturn`,
`FetchCall`, `SaveCall` start the five waits that go through `await_within` or
`cancel_within`; `TimePasses` cannot pass the due time of the wait in progress.
Local work between waits takes at most `MaxLag` in total. `Create` may take effect
after the spawn was given up. `Reconcile(r)` is another replica's startup with a
clock `r` off. Sandboxes without a label (CLI sessions) have no deadline.

### SandboxPool

`count` is `_active_count`, `owns` the attempts that really hold a slot, `alive`
what exists at the gateway, `pending` the `CreateSandbox` calls abandoned in their
worker thread. `engine` is chosen at the start. The engines differ in two places:
`AfterSpawnError`, whether `destroy()` runs after a spawn that returned no endpoint,
and `FinallyCancelled`, the await of `cancel_within(heartbeat_task)` in the activity's
`finally`, where a cancellation ends the activity before its `destroy()` (recorded in
`skipped`). One provider, so one breaker.

### GatewaySpawn

One action per gateway call. `boxes`, `providers`, `attached`, `profiles` and
`route` are the gateway's state (external, modelled by the answers the code
handles); `names` and `credIds` are `_sandbox_names` and `_provider_ids`. A call
that raises may have been applied; `abandoned` are the `CreateSandbox` calls left
in their worker thread. `SandboxPool` counts attempts and slots and takes a spawn
as one step; this module looks inside that step and leaves the slots out. `Setup`
is the order of the calls made once the sandbox exists; any of them fails by
itself, by the spawn deadline or by a cancel, and the cleanup then detaches,
deletes the sandbox and deletes the provider. Between the route and the `try` of that
cleanup the policies are built; a request whose policies cannot be built raises there
(`PolicyFails`, recorded in `unbuilt`) and nothing is cleaned up. A call for the
agent's own objects whose effect its caller could not see is recorded in `mishap`,
and `NothingLeft` excuses exactly those and, for the provider alone, `unbuilt`.

### CliSessions

`launch`, `remove` and `send` are the requests, `loop` the timeout monitor.
`sessionLock` is `_session_lock`, which the monitor does not take. A destroy has
two steps, the gateway's and the caller's, because the slot is given back and the
status set only when the caller wakes up. A message file is the set of its
messages. `_do_write_file` does not look at the exit code of
its command, so a write (`SendWrite`) that is answered "sent" leaves any of
`WriteLeaves`: the new content, the old content, or a part of it (a file truncated and
filled in part); what it left out is in `lost`. `LoopHang` is a gateway call of the
monitor that never answers, because the detach has no deadline. `held` and `extra` say
who really holds a slot.

### ChatRunner

One conversation. `turn[m].at` is the await a message is in: lock, status, the
newest rows, the identity, the agent, the last stream event, the upsert, the step
of the run state. A transcript is a sequence of tool calls and results; an
event's `id` is what the stored event does not carry, so that `KeepEvent`
(`_save_turn`) and `ReplayMessage` (`_build_message_history`) pair by position,
as the code does, and `ReplayFaithful` can compare with the truth. The loops are
recursive functions: over the events of a turn, over the messages kept of it, over
the turns. `TranscriptAssumption` is the limit that the comment in `_save_turn`
states for its pairing ("sequential and order-preserving parallel calls",
`chat/runner.py:619`): every call has one answer after it, answers come in the
order of their calls, and a retry prompt that answers no call comes when no call
is open. An execution that fails records an error event and no calls.

### DefinitionStore, AlertTrigger, ScheduleTrigger

The entry point builds the store without persistence, so that a save is atomic
and a restart loses the definitions. `AlertTrigger`: `hook[h]` is a webhook
request and the alerts it still has to handle; `lastFired` holds ages, so that
time needs no clock; `should_fire` tests and records in one step, because it does
not await. `ScheduleTrigger`: `Fire`, `FireWaiting` and `Close` are the Temporal
server (external); a run carries the Temporal id, which the server keeps unique
among open runs, and the `workflow_id`, which it does not look at. An id is a prefix,
how the rest of it was made, and a number. `ClientId`, what clients ask for in
`request.workflow_id`, is an arbitrary set of ids, because the code takes any: it may
contain a schedule's `workflow_id` or the Temporal id of one of its runs.

### RateLimiter and TokenBucketSpec

Tokens in parts of `1/Unit`, ages in seconds. `TokenBucketSpec` keeps a bucket for
every key for ever and refills it all the time. `RateLimiter` refills lazily and
forgets keys; the refinement maps each key to what its bucket would hold if it
were refilled now, and a forgotten key to a full bucket. `BucketRefines` is the
abstract specification as a property of the detailed one: it holds because a
bucket is pruned only after twice the time it needs to fill. `gaps` are the times
between two audit events of a key that were shorter than the throttle; `AuditThrottled`
is what the comments of the code promise of them, `AuditSpaced` what the code does.

### StepExecutors

`case` is the step together with what the provider would answer to a native and
to a plain request; `DirectResult` and `ChildResult` translate the two copies of
the logic, each from its own file. `DirectHasTools` and `ChildHasTools` say which
tools each process has registered: the runner loads the built-in ones at its start, the
child only along with a tools module. The actions are the activity: dispatch, the
child process that answers, crashes, is timed out or cancelled, the after-hooks
and the report to the breaker.

### Submission

A definition is a workflow level and one step level of the same fields, the
provider, and a set of flaws. `Valid` is what the endpoints test,
`NormalizeError` the first reason for which `normalize_workflow_step` raises,
`LocalCredential` and `TemporalCredential` the two places that choose a credential
reference. `RunTriggered` are the triggers, which start a stored definition and
validate it again only under a content policy.

### MCSandboxes, MCServices and MCServicesLive

The services share nothing but the definition store (which each trigger extends).
Their composition is therefore the choice of `part`, the one that moves; the product would only
multiply the states. `MCSandboxes` puts `SandboxPool` and `SandboxLifetime` side by side
in the same way. `MCServicesLive` has the two parts with a liveness property.

## 3. Runs

| Run | Instance | Result |
|---|---|---|
| `local_safety` | agent, gate (output key differs from its name), agent whose condition asks for the approval; 1 start, 2 approvals, 1 cancel, 1 crash, 1 store error | 752,314 states, all properties hold |
| `local_liveness` | same definition; 1 approval, 2 cancels, 1 crash, 1 store error; fair | `Settles` holds |
| `local_cancel` | 1 approval, 1 cancel, no failures | `CancelledIsFinal` violated |
| `local_duplicate_start` | 2 starts with one id, 2 approvals | `ApproveExclusive` violated |
| `local_crash` | 1 crash; fair | `ResetAfterCrash` violated |
| `agent_workflow` | 218 definitions of three steps, some with a condition that names a later step or its own; fair | 69,980 states, all properties hold |
| `agent_cancel` | same | `CancelHonoured` violated |
| `sandboxes` | 4 attempts, 2 slots, threshold 2, both engines; one lifetime with 2 ticks to the second, a fractional run timeout and clocks apart by the whole skew | 726,410 states, all 5 properties hold |
| `sandbox_pool_cap` | 3 attempts, 1 slot | `CapRespected` violated |
| `services` | see below | 960,465 states, all 17 properties hold |
| `services_live` | 2 sessions, 1 DELETE, 1 message; 2 requests, 2 fingerprints, 1 failed start, 1 restart; fair | 80,821 states, `ExpiredEnds` and `AlertRuns` hold |
| `rate_audit` | the rate limiter of `services`, a throttle of 6 s and buckets kept for 3 s | `AuditThrottled` violated |

Why the bounds are enough. Two approvals are the least that can race, and a third
behaves like the second (requests share nothing but the row, the dictionaries and
the lock; the proofs cover any number). Two cancels are needed to hit the except
clause of the first. One crash and one store error at every point cover each
partial failure; a second one adds only a run that failed already. Three steps
give an agent before the gate, the gate, and an agent after it. In
`AgentWorkflow` three steps are the least with a parallel pair and a unit before
or after it. The clock bound of `sandboxes` is past the latest label.
`MaxPods + 2` attempts let refused attempts meet full slots. Symmetry is used on
approvals and attempts, and only for safety properties.

Bounds of `services`, part by part. Gateway: two spawns (the least that race for
the profile and the route), with everything or nothing asked for, and two failing
calls, so that a spawn and its cleanup both fail. CLI: two sessions on one slot,
two senders, one DELETE, the monitor. Chat: three messages, one of them a stream,
a context of one turn (so that a turn falls out of it), one store error, and
transcripts in which a result has no call, a call cannot be restored and two
calls overlap. Alerts: two requests, payloads of one and two alerts, one failed
start, one restart, a window of two ticks (ages are cut where no comparison tells
them apart, so time is unbounded). Schedules: one schedule with every overlap
policy the server treats differently and an unknown one (`cancel_other` differs from
`buffer_one` in when the open run closes, and it may close at any time), three runs, and
two client ids, one of them the `workflow_id` that the schedule draws first. Rate: two keys, two thirds
of a token per second, a burst of one, a clean-up on every second call; ages are
cut as well, so the run has no time bound. Executors: every combination of mode,
tools, tools module, conversation, schema and answers. Submission: every definition that
differs from a plain one in its flaws, providers, MCP servers, timeouts or
permissions, at either level.

`CHECK_DEADLOCK FALSE` everywhere: a run that ended, or waits for an approval
nobody gives, has nothing left to do.

Fairness. `local_liveness` and `local_crash` assume weak fairness of each
coroutine's next step: the event loop resumes ready coroutines, store calls
return or raise, and a step executor ends by its timeout. Nothing is assumed of
clients, faults or crashes. `agent_workflow` assumes weak fairness of the
workflow's own steps: Temporal runs a workflow that has work, every activity has
a start-to-close timeout, every timer fires, the escalation activity (default
retry policy) is retried until it succeeds. Nobody has to approve or cancel.
`services_live` assumes weak fairness of the monitor's steps (the event loop runs it), of
each webhook request and of time, and strong fairness of
Alertmanager's repeats of an alert that still fires (its `repeat_interval`; weak
fairness is not enough, because a repeat finds the modelled requests busy again
and again). Nothing is assumed of clients, shutdowns, failures, restarts, or that the
monitor's gateway calls end: `LoopHang` may happen at any of them, and then the monitor
does nothing any more.

### What the runs show

- The lock of `approve`, the order update_step, resume, create_task, and the
  results restored from the store give a local run one executor, no repeated
  agent and no agent past an undecided gate, under every interleaving, one crash
  and one store error, for a definition whose conditions look back and whose keys
  are no other step's name (section 4 says why it takes both) (`SingleExecutor`,
  `AtMostOnce`, `GatesFirst`, `PausedIsQuiet`, `CompletedAccounted`).
- Both engines implement one abstract run, although they share neither state nor
  scheduling: what a client may rely on does not depend on the engine
  (`KeepsPromise` of `local_safety` and of `agent_workflow`).
- `Settles` shows that the ways to strand a run are exactly these: a crash; a
  store error in `start` after `create`, in `_resume_from_store`, or in an except
  clause; a cancel of a task that has not run yet, or of one in an except clause.
- A durable execution keeps order and references also inside parallel groups,
  skips a step exactly where its condition does not hold on the final result of an
  earlier step, and ends without any approval.
- Deadlines, graces, rounding and skew add up: no sandbox is reaped in use.
- `_active_count` never loses a slot; in the local engine it may give away too
  many, by at most one for each failed or refused spawn; in the durable engine it
  counts the slots held exactly, so the cap holds there (`TemporalCapRespected`). A slot
  held by an attempt that has ended is held for the life of the process; only a cancel
  in the activity's `finally` does that (`DriftBounded`).
- A sandbox outlives its attempt only after a failed destroy, a creation that took
  effect after the attempt, or, in the durable engine, a failed spawn or that same
  cancel; the label is left to remove it (`SandboxGone`).
- A failed spawn leaves no provider and no sandbox, wherever it failed, except
  where a call for these objects was applied without an answer or the cleanup
  itself failed; a request whose policies cannot be built leaves its provider, and
  nothing else; concurrent imports of a profile do not fail each other
  (`NothingLeft`, `FailureHasCause`).
- The session lock makes messages and terminations safe against each other: a message
  answered "sent" is missing from the file only if a write command failed unnoticed
  (`MessagesKept`); the
  monitor is the only one that ends a session under a sender (`StateHeld`), the
  count errs only by destroys of sessions that were already over (`SlotDrift`),
  and a deletion that raises does not stop the monitor, only one that never answers
  does (`ExpiredEnds`).
- A conversation keeps every turn it has shown unless its stream or its save was
  cut short; at most one turn is saved after a cancel; the agent gets the latest
  turns with every tool call next to its own result, although the stored events
  carry no ids (`TurnsKept`, `OneLateTurn`, `ContextFaithful`).
- Deduplication lets a fingerprint through once per window and, by not renewing
  the entry of a suppressed alert, always lets it through again
  (`OncePerWindow`, `AlertRuns`).
- Open runs have different `workflow_id`s unless a schedule asks for `allow_all` or a
  client submits a run under the `workflow_id` of a schedule, which the server cannot
  refuse, because the scheduled runs have other Temporal ids. An unknown policy is taken
  as skip, which is the safe reading (`OpenRunsApart`).
- Lazy refill and pruning change no answer of the rate limiter, and Retry-After is
  enough (`BucketRefines`, `RetryHonoured`). Pruning does weaken the audit throttle
  (finding 6): what is left of it is that audit events of a key are further apart than a
  bucket is kept (`AuditSpaced`).
- The subprocess executor comes to the status and output of the direct one, except for
  conversations, failures of the child, and a step with a built-in tool where no tools
  module is set: the direct executor runs it, the child always fails it
  (`ExecutorsAgree`).
- An accepted definition fails in normalization only for a timeout, permissions
  or a provider boundary, which no endpoint tests; a step never gets the
  credential reference of a provider it does not use, with the exception that
  `BoundaryKept` names (`AcceptedNormalizes`, `BoundaryKept`).

### Findings

1. **A cancelled local run starts again** (`local_cancel`). `cancel` does not take
   the lock and no UPDATE tests the status: a cancel between an approval's read
   and its `resume` is overwritten, and the recheck in `_resume_from_store` sees
   `running`.
2. **A duplicate start breaks the approval lock** (`local_duplicate_start`).
   `start` replaces the lock object before `create` refuses the duplicate id.
3. **Running runs are not reset after a crash** (`local_crash`), although
   `docs/ARCHITECTURE.md` says so: startup only lists paused runs.
4. **The sandbox cap can be exceeded in the local engine** (`sandbox_pool_cap`):
   `destroy` after a refused or failed spawn gives back somebody else's slot.
5. **A cancelled durable execution can complete** (`agent_cancel`): the handlers
   of the step and of the notification catch the only cancellation there is.
6. **A key is audited twice within the throttle** (`rate_audit`), although
   `runtime/rate_limiter.py:147` and `:241` say at most once: the record of the last
   event is pruned with the key's bucket, after four seconds with the defaults.

Seen while modelling and not the subject of a run: a store error between
`update_step` and `resume` leaves `current_step` at the output key, so a repeated
approval is refused; the comment "Persist only new/changed step results" describes
more than the code does (a changed key is never written again); an unparseable
condition fails the run in the local engine and skips the step in the other; local
gates ignore their condition; two escalating members of a group overwrite one
`_steps["escalation"]`; run timeouts are not counted by the breaker.

Two more came from proof attempts that failed, and were confirmed with TLC on
instances that are not among the runs:

- a condition may name a gate that comes later, which no validation refuses. The
  step is skipped, then executed once that gate is approved and the graph runs
  again; its result is not written, because its key is in `persisted_keys`
  already, and so the agent is executed once more after the next approval (three
  steps, the first conditional on the second, gates 2 and 3: `AtMostOnce` fails);
- one step's output key may be another step's name. An approval that fails between
  `update_step`, which sets `current_step` to the key, and `resume` leaves the run
  paused at the other step, and an approval of that name replaces a decision that
  was used already (gates 1 and 3, the key of the third the name of the first,
  three approvals, one store error: `DecisionStable`, an action property of the
  module, fails, and with it `KeepsPromise`).

In the services:

- a successful destroy detaches the credential provider and never deletes it; a
  cancel in the provider or route phase leaves it too, because no except clause of
  that phase catches `CancelledError`; `start_server` registers its task under the
  sandbox id and `_do_destroy` looks it up under the sandbox name; there is one
  inference route, the last spawn has it, and it may name a deleted provider;
- `cleanup_expired` is called by nobody, although `storage/transcript_store.py:7`
  says that retention is enforced by it; a message to an unknown conversation runs
  the agent and saves the transcript before `update_step` raises; a stream whose
  client leaves while the last event is handed over loses its turn; a tool call
  without a result would shift the pairing of the turns after it;
- a schedule draws its `workflow_id` once, so that all its runs share it, although
  `core/models.py:276` calls it a unique run identifier; the schedule keeps the
  definition as it was; definitions are lost in a restart and schedules are not;
- a definition that names a provider `ProviderConfig` does not know passes
  validation, and an alert for it answers 500 and leaves the rest of the payload
  unread; with `fire_on_resolved` a resolved alert is suppressed by the window of
  the firing one;
- `write_file` answers as if it had written whatever its command's exit code is, although
  its docstring raises `RuntimeError` when a write fails;
- the Temporal workflow binds the definition's credential reference without
  comparing provider names, `build_step_input` compares, although its docstring
  says that both runners use it;
- a failed parse has the transcript `[error]` in the direct executor and the run's
  events followed by the error in the child; the child ignores conversations.

## 4. Proofs

All leaves are checked by TLAPS (Z3, Zenon, LS4). Every safety property of the runs
is a theorem, for every value of the constants, apart from those listed at the end of
this section; `PROJECT.json` names them. Each proof module states its inductive
invariant as a conjunction of named parts, one lemma for each part that an action
can disturb, and the theorems at its end. The inductive invariants were checked with
TLC before they were proved.

The assumptions are those of the modules, which TLC evaluates on every run: the
parameters are natural numbers, positive where the code divides by them or counts to
them; sets of requests that have different names are disjoint; a definition has
unique names and keys, because `validate_definition` refuses others. Ones that may
surprise: `PoolAssumption` wants finitely many attempts, because slots are counted;
`ScheduleAssumption` keeps the schedules apart from the other prefixes of an id, and
leaves clients free to ask for any id; `ChatAssumption` wants the empty transcript
among the transcripts, because an agent may call no tool; `TranscriptAssumption` wants
calls answered in order, which the code's own comment makes the condition of its pairing.

**LocalRunnerProofs.**

- `TypeCorrect`: `Spec => []TypeOK`. `TypeOK` is not inductive: `ExecReturn`
  writes the result of the task's node, `Persist` moves to the next node and
  `Pause` names the paused step, so `TypeInv` adds what a task's node and paused
  step are at those program points (`PcInv`).
- `ApproveMutualExclusion`, `AtMostOneExecutor`, `QuietPause`: `[]ApproveExclusive`,
  `[]SingleExecutor`, `[]PausedIsQuiet` under `SingleStart` (one start request
  carries the id, and clients approve only a run whose row exists; finding 2 is
  what happens without it). The inductive invariant `RunInv` says that every
  approval inside the critical section holds the one lock object of this process,
  that an executing task excludes an approval past its read, and that a row that
  says paused excludes both an executing task and a start that has not launched.
  The three are proved together because each needs the others: a task is
  launched by whoever saw the row paused, and only the lock makes that unique.
  `TaskStepFacts` collects what all steps of a task have in common.
- `AgentsRunOnce`, `GatesAreFirst`, `CompletedRunsAccounted`, `DecisionsAreStable`:
  `AtMostOnce`, `GatesFirst`, `CompletedAccounted`, `DecisionStable` under
  `SingleStart` and two hypotheses about the definition, `ConditionsLookBack` and
  `NamesApart`. Both are needed: without them the properties fail, in the two ways
  told in section 3, and the definition of the runs satisfies both. `DataInv`
  rests on `RunInv`: the stored results are final up to the place where the run
  stands (`Prefix`, `PauseInv`, `DecideInv`); the memory of the one executing task
  is the store, but for the result it is about to write (`TaskInv`); the result of
  an agent that was started is stored, is in flight, or the run is `Frozen`, that
  is, nothing will ever execute it again (`ExecInv`). The last case is what a
  crash or a store error between the agent's return and the write leaves. Most steps are
  `Quiet`: they leave the results, the tasks' data and the approvals' snapshots alone,
  or only take away, and one lemma covers them; the seven `Loud` steps have a lemma
  each.
- `LocalKeepsPromise`: `Spec => KeepsPromise`, under the same hypotheses. Besides
  `DataInv` the mapping of a step needs where a result comes from, which no earlier
  invariant says: the row has results under the steps' keys only, and an agent step's
  `completed`, in the row or in the memory of the task about to write it, has an
  execution behind it (`OriginInv`, with `OriginStep`). `PersistChange` says that a
  persist changes one result, and `PromiseTerms` what the abstract variables are in
  terms of the concrete ones; then each action maps to `Advance`, `Report`, `Withdraw`
  or a stutter.

**AgentWorkflowProofs.** For any number of steps and any inputs: `UnitsStayInOrder`,
`ReferencesReady`, `AttemptsBounded`, `CompletedIsAccounted`, `ResultsAreStable` and
the type invariant. The first part is about `chunk_parallel_groups` alone: units
are intervals that partition the steps (`BlockFacts`, `UnitFacts`), and the step
after the last of a unit is the first of the next (`NextFacts`; the greatest member
of a unit exists by well-founded induction on the natural numbers). `FlowInv` then
adds to the types that units before the current one are over and good, those after
it have not begun and the members of the current one begin together (`OrderInv`);
which program points have a result (`ResultInv`); that a step is skipped exactly
when its condition does not hold on a result that is final by then (`SkipInv`); that
a backoff is followed by an attempt that is left (`RetryInv`); and how an execution
ends (`EndInv`). `TemporalKeepsPromise` is the refinement of `RunPromise`, without
further hypotheses on the definition. It adds `StartInv`, at which program points a
step has been given to an agent and which of them only gates reach; `StartStep` shows
that only the start of a unit starts a step. The members of a
unit may move in one step, a cancel reaching all of them, which is why
`Advance` speaks of all steps at once.

**SandboxLifetimeProofs.** `MarginAssumption` says that local work fits in the
destroy grace and that clocks differ by at most the skew. `LabelCovers` proves
`[]LabelCoversUse`, `ReconcileSafe` proves `[]NotReapedInUse`, for all deadlines and
clocks. The inductive invariant bounds the present time, at each program point, by
the stamp plus the deadlines used so far plus the lag; `StampCovers` shows that the
label is later than the sum of all of them, `CeilBound` that rounding up costs
nothing, `LatestMonotone` that moving to the next phase keeps the bound.

**SpawnerProofs.** `SandboxPool`: `DriftIsBounded`, `TemporalCapHolds`,
`NoSandboxLost`. The bound on the drift is not inductive: a refused attempt has not
disturbed the count yet and will, so `LocalDrift` counts the `Unowned` attempts,
those that are going to run `destroy` without a slot, together with the drift so
far; `OwnerInv` says that outside an attempt only a cancel in the `finally` leaves a slot
held. In the durable engine there are none (`TemporalExact`), which is why the cap
holds there. `GatewaySpawn`: `NoSpuriousFailure`, `NothingIsLeft`. `GatewayInv` says
when an object may exist (`SpawnInv`, with the provider of a spawn whose policies could
not be built), that the cleanup deletes the sandbox before
the provider (`CleanupInv`), and that a destroy that has looked knows every sandbox
there is (`DestroyInv`).

**SessionProofs.** `CliSessions`, for any, even infinite, set of sessions:
`MessagesAreKept` needs that what a sender has read is what the file holds until it
writes (`FileInv`), so that a write leaves out only what it is charged with in `lost`;
`FileInv` needs the lock (`LockInv`); `StateIsHeld` needs the lock
too; `SlotDriftBounded` needs who holds a slot at each point of a launch
(`SlotInv`). `ChatRunner`: `TurnsAreKept`, `OneLateTurnHolds`, `ContextsAreFaithful`.
The turn's number comes from the newest rows only; `RowsInv` says that rows are
numbered upwards and that the turn under way is above them all, so that an upsert
never hits the row of another message. `ContextInv` carries what was there when
the lock was taken to the load. The rest of `ContextFaithful` is about the three loops
alone, for transcripts of any length. The library's induction theorem takes an operator,
so `Induction` is derived from the well-foundedness of `<` for a set instead, and
`FoldExists` from it: a recursive function over a list is defined. `TurnReplayed` follows
both loops along the events of a turn. `Lists` says that a queue names a set of calls in
their order; `_save_turn`'s queue lists the calls that are open (`OpenAt`), the replay's
queue the safe ones among them, and the pairs are those of the safe calls that are
answered. An answer belongs to the oldest open call (`OpenFacts`, from
`AnsweredInOrder`), which is the head of the first queue and, if it is safe, of the
second. At the end of a turn no call is open, so that turns do not disturb each other
(`HistoryFaithful`).

**TriggerProofs.** `OncePerWindowHolds`: within a window of a decision the table has
an entry of its age, whatever was pruned (`TableInv`). `OpenRunsStayApart`: a
schedule's `workflow_id` is drawn for it alone (`SchedulesInv`), an open run is a
submitted one, whose two ids are one, or a scheduled one that was asked for with the
schedule's policy, and open runs differ in their Temporal ids (`RunsInv`). Two open runs
with one `workflow_id` are then both of one schedule, whose policy lets the server start
a second run, or one is a schedule's and the other a client's that asked for that id; the
ids the code draws for submitted runs are never a schedule's (`KindsApart`).

**RateLimiterProofs.** `TokenBucketRefines` is the refinement: the initial states
map to the initial state of `TokenBucketSpec` and each action to an abstract step
(a clean-up to a stutter). It needs that an unknown key has the values of a new
bucket (`FreshInv`) and that a bucket old enough to be pruned is full, which is the
arithmetic at the start of the module. `RetryIsHonoured` needs that a refused
caller's bucket ages with its wait or is full (`WaitInv`), `AuditIsSpaced` that a missing
record means an event older than buckets get (`AuditInv`).

**StepProofs.** `AcceptedStepsNormalize`, `BoundaryIsKept`: whatever runs was
validated (`PassedInv`), and `ValidNormalizes` and `BuiltKeepsBoundary` say what
that implies for the merged fields. `ExecutorsDoAgree`: the two copies of the
executor agree case by case on the tools and the answers of the provider, where both
have the tools.

Only model-checked, because they are out of the prover's reach: the liveness
properties `Settles`, `Terminates`, `ExpiredEnds` and `AlertRuns`. `ServicesTypeOK` is
the conjunction of the parts' type invariants in the MC module; it has no theorem of its
own, and what the proofs need of it is in each inductive invariant.
`AutoApprove = TRUE` is not an instance of a run of `LocalRunner`; the theorems hold
for it.

## 5. Not modelled

The contents of policies, secrets and files, exec and log streaming of the
spawner; request building and redaction; tracing, audit records, metrics, TLS,
HTTP routing; what happens inside an agent (tools, skills, MCP sessions, tokens);
authorization, which is a stateless decision; escalation packages and notifiers;
migrations. `TemporalWorkflowRunner` is not reachable from an entry point, and
nothing constructs the definition store with persistence. `SKIP_SANDBOX_DESTROY` is
a debugging switch and is off. Events, transcripts and `session_result` are written
by the workflow and never read back. Two replicas that serve one conversation or
one session are not in the models: the locks, the sessions, the buckets and the
fingerprints are in the memory of one process and promise nothing beyond it.

## 6. Plan

Order: what decides about runs first, then what shares resources with them, then
the pure algorithms, then the proofs.

1. (done) `LocalRunner`, `SandboxLifetime`, `SandboxPool`, `AgentWorkflow`.
2. (done) The services: `GatewaySpawn`, `CliSessions`, `ChatRunner`,
   `DefinitionStore`, `AlertTrigger`, `ScheduleTrigger`, `RateLimiter` against
   `TokenBucketSpec`, `StepExecutors`, `Submission`.
3. (done) Proofs of the safety properties of all of them and of the refinement of
   `TokenBucketSpec`, for every value of the constants.
4. (done) `RunPromise`, implemented by both engines, checked and proved; the replay of a
   conversation proved for transcripts of any length.
5. Left for later: the condition evaluator's operators and splitting, policy
   authorization against a reference.
