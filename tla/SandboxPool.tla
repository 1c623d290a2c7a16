---------------------------- MODULE SandboxPool ----------------------------
(***************************************************************************)
(* Step attempts of one runner process sharing one spawner and one circuit *)
(* breaker:                                                                *)
(*   spawner/base.py                 spawn, destroy and _active_count      *)
(*   spawner/openshell_spawner.py    what _do_spawn and _do_destroy leave  *)
(*   workflow/core/step_runner.py    _run_step_inner around them (local)   *)
(*   executor/temporal/activities.py _run_sandbox_step_inner (temporal)    *)
(*   runtime/circuit_breaker.py      fail fast per provider                *)
(*                                                                         *)
(* The two engines differ in two things: whether destroy() runs after a    *)
(* spawn that did not return an endpoint, and whether anything is awaited  *)
(* before destroy() in the finally clause that calls it.                   *)
(*                                                                         *)
(* All attempts use the same provider.  The spawner's asyncio.Lock guards  *)
(* code without an await, so a locked section is one action.               *)
(***************************************************************************)
EXTENDS Integers, FiniteSets

CONSTANTS
    Attempt,    \* step attempts, each with a pod name of its own
    MaxPods,    \* _max_pods (MAX_SPAWNED_PODS)
    Threshold   \* failure_threshold of the circuit breaker

ASSUME PoolAssumption ==
    /\ IsFiniteSet(Attempt)
    /\ MaxPods \in Nat \ {0}
    /\ Threshold \in Nat \ {0}

VARIABLES
    engine,    \* WORKFLOW_ENGINE of the process
    pc,        \* where each attempt is
    alive,     \* the attempts whose sandbox exists at the gateway
    count,     \* _active_count
    failures,  \* the breaker's consecutive failures
    elapsed,   \* reset_seconds have passed since the last failure
    owns,      \* history: attempts admitted by the cap that have not given it back
    mishaps,   \* history: spawns that were refused or failed
    pending,   \* CreateSandbox calls abandoned in their worker thread
    left,      \* history: attempts whose failed spawn kept its sandbox
    late,      \* history: abandoned creations that ended after the attempt
    stuck,     \* history: attempts whose destroy failed
    skipped    \* history: attempts cancelled before their destroy

poolVars == <<engine, alive, count, owns, mishaps>>
breakerVars == <<failures, elapsed>>
traceVars == <<pending, left, late, stuck, skipped>>
vars == <<poolVars, breakerVars, traceVars, pc>>

TypeOK ==
    /\ engine \in {"local", "temporal"}
    /\ pc \in [Attempt -> {"idle", "spawn", "create", "ready", "run", "destroy",
                           "release", "done"}]
    /\ alive \subseteq Attempt
    /\ count \in Int
    /\ failures \in Nat
    /\ elapsed \in BOOLEAN
    /\ owns \subseteq Attempt
    /\ mishaps \in Nat
    /\ pending \subseteq Attempt
    /\ left \subseteq Attempt
    /\ late \subseteq Attempt
    /\ stuck \subseteq Attempt
    /\ skipped \subseteq Attempt

Init ==
    /\ engine \in {"local", "temporal"}
    /\ pc = [a \in Attempt |-> "idle"]
    /\ alive = {} /\ owns = {} /\ pending = {}
    /\ left = {} /\ late = {} /\ stuck = {} /\ skipped = {}
    /\ count = 0 /\ failures = 0 /\ mishaps = 0
    /\ elapsed = FALSE

Goto(a, at, next) == pc[a] = at /\ pc' = [pc EXCEPT ![a] = next]

-----------------------------------------------------------------------------
(* ProviderCircuitBreaker                                                  *)

IsOpen == failures >= Threshold /\ ~elapsed

RecordFailure == failures' = failures + 1 /\ elapsed' = FALSE
RecordSuccess == failures' = 0 /\ UNCHANGED elapsed

\* Time passes beyond reset_seconds.
ResetElapses ==
    /\ failures > 0 /\ ~elapsed
    /\ elapsed' = TRUE
    /\ UNCHANGED <<pc, poolVars, failures, traceVars>>

-----------------------------------------------------------------------------
(* _run_step_inner and _run_sandbox_step_inner.  A definition whose name   *)
(* starts with Bug_ is a faulty variant of the one that follows it, used   *)
(* to show that a property can fail.                                       *)

\* The breaker is open: a failed result, and no sandbox.
FailFast(a) ==
    /\ IsOpen
    /\ Goto(a, "idle", "done")
    /\ UNCHANGED <<poolVars, breakerVars, traceVars>>

\* is_open resets the counter once the timeout has elapsed.
Begin(a) ==
    /\ ~IsOpen
    /\ Goto(a, "idle", "spawn")
    /\ failures' = IF failures >= Threshold THEN 0 ELSE failures
    /\ UNCHANGED <<poolVars, elapsed, traceVars>>

\* The environment, the secrets and the certificates of the sandbox cannot be
\* prepared (a secret outside the allowlist), or there is no spawner.
PrepareFail(a) ==
    /\ Goto(a, "spawn", "done")
    /\ UNCHANGED <<poolVars, breakerVars, traceVars>>

\* The local engine sets spawn_attempted before spawn(), so destroy() runs even
\* after a spawn that was refused or failed.  The activity destroys only what
\* spawn() returned an endpoint for.
Bug_AfterSpawnError == IF engine = "local" THEN "done" ELSE "destroy"
AfterSpawnError == IF engine = "local" THEN "destroy" ELSE "done"

\* spawn(): the cap is tested and the slot taken under the lock.
SpawnAdmit(a) ==
    /\ count < MaxPods
    /\ Goto(a, "spawn", "create")
    /\ count' = count + 1
    /\ owns' = owns \cup {a}
    /\ UNCHANGED <<engine, alive, mishaps, breakerVars, traceVars>>

SpawnRefuse(a) ==
    /\ count >= MaxPods
    /\ Goto(a, "spawn", AfterSpawnError)
    /\ mishaps' = mishaps + 1
    /\ UNCHANGED <<engine, alive, count, owns, breakerVars, traceVars>>

\* _do_spawn returns an endpoint.
CreateOk(a) ==
    /\ Goto(a, "create", "ready")
    /\ alive' = alive \cup {a}
    /\ UNCHANGED <<engine, count, owns, mishaps, breakerVars, traceVars>>

\* _do_spawn raises or is cancelled.  Its own cleanup leaves no sandbox, or
\* fails to delete it, or knows none because CreateSandbox is still running in
\* a worker thread.  The except clause of spawn() gives the slot back.
CreateFail(a, sandbox) ==
    /\ Goto(a, "create", AfterSpawnError)
    /\ alive' = IF sandbox = "kept" THEN alive \cup {a} ELSE alive
    /\ left' = IF sandbox = "kept" THEN left \cup {a} ELSE left
    /\ pending' = IF sandbox = "pending" THEN pending \cup {a} ELSE pending
    /\ count' = count - 1
    /\ owns' = owns \ {a}
    /\ mishaps' = mishaps + 1
    /\ UNCHANGED <<engine, breakerVars, late, stuck, skipped>>

\* The abandoned CreateSandbox completes at the gateway.
LateCreate(a) ==
    /\ a \in pending
    /\ pending' = pending \ {a}
    /\ alive' = alive \cup {a}
    /\ late' = IF pc[a] = "destroy" THEN late ELSE late \cup {a}
    /\ UNCHANGED <<engine, count, owns, mishaps, breakerVars, left, stuck, skipped, pc>>

\* wait_ready; the pod may never become ready.
ReadyOk(a) ==
    /\ Goto(a, "ready", "run")
    /\ UNCHANGED <<poolVars, breakerVars, traceVars>>

ReadyTimeout(a) ==
    /\ Goto(a, "ready", "destroy")
    /\ RecordFailure
    /\ UNCHANGED <<poolVars, traceVars>>

RunOk(a) ==
    /\ Goto(a, "run", "destroy")
    /\ RecordSuccess
    /\ UNCHANGED <<poolVars, traceVars>>

\* HTTP 502 or success=false.
RunFail(a) ==
    /\ Goto(a, "run", "destroy")
    /\ RecordFailure
    /\ UNCHANGED <<poolVars, traceVars>>

\* A timeout, a transport error or a cancellation, while the pod becomes ready
\* or during the run: the breaker is not told.
RunRaise(a) ==
    /\ \E at \in {"ready", "run"} : Goto(a, at, "destroy")
    /\ UNCHANGED <<poolVars, breakerVars, traceVars>>

\* The activity's finally clause awaits cancel_within(heartbeat_task) before it
\* calls destroy().  A cancellation delivered at that await ends the activity:
\* the sandbox stays, and the slot is never given back.
FinallyCancelled(a) ==
    /\ engine = "temporal"
    /\ Goto(a, "destroy", "done")
    /\ skipped' = skipped \cup {a}
    /\ UNCHANGED <<poolVars, breakerVars, pending, left, late, stuck>>

\* finally: destroy().  _do_destroy deletes every sandbox that carries the
\* attempt's name, or the deletion fails and is logged.
DestroyPod(a, deleted) ==
    /\ Goto(a, "destroy", "release")
    /\ alive' = IF deleted THEN alive \ {a} ELSE alive
    /\ stuck' = IF deleted THEN stuck ELSE stuck \cup {a}
    /\ UNCHANGED <<engine, count, owns, mishaps, breakerVars, pending, left, late, skipped>>

\* destroy()'s own finally clause.
Bug_CountAfter(a) == IF a \in stuck THEN count
                     ELSE IF count > 0 THEN count - 1 ELSE 0
CountAfter(a) == IF count > 0 THEN count - 1 ELSE 0

Release(a) ==
    /\ Goto(a, "release", "done")
    /\ count' = CountAfter(a)
    /\ owns' = owns \ {a}
    /\ UNCHANGED <<engine, alive, mishaps, breakerVars, traceVars>>

Next ==
    \/ ResetElapses
    \/ \E a \in Attempt :
          \/ FailFast(a) \/ Begin(a) \/ PrepareFail(a)
          \/ SpawnAdmit(a) \/ SpawnRefuse(a) \/ CreateOk(a) \/ ReadyOk(a) \/ ReadyTimeout(a)
          \/ RunOk(a) \/ RunFail(a) \/ RunRaise(a) \/ FinallyCancelled(a) \/ Release(a)
          \/ \E sandbox \in {"clean", "kept", "pending"} : CreateFail(a, sandbox)
          \/ LateCreate(a)
          \/ \E deleted \in BOOLEAN : DestroyPod(a, deleted)

Spec == Init /\ [][Next]_vars

-----------------------------------------------------------------------------
\* _active_count never exceeds the attempts that hold a slot.  In the local
\* engine it falls short of them by at most one for every spawn that was
\* refused or failed (such a spawn is given back twice, or without having been
\* taken, in spawn() and in destroy()); in the durable engine it is exact.  An
\* attempt that has ended holds a slot, for as long as the process lives, only
\* if it was cancelled before its destroy().
DriftBounded ==
    /\ Cardinality(owns) - count \in 0..(IF engine = "local" THEN mishaps ELSE 0)
    /\ \A a \in owns : pc[a] = "done" => a \in skipped

\* An attempt leaves no sandbox behind unless the gateway refused to delete it,
\* an abandoned CreateSandbox completed after the attempt's destroy or, in the
\* durable engine, its spawn failed after the sandbox was created or it was
\* cancelled before its destroy (the expiry label is left to deal with these).
SandboxGone ==
    \A a \in Attempt : pc[a] = "done" /\ a \in alive =>
        \/ a \in stuck \/ a \in late
        \/ engine = "temporal" /\ a \in left \cup skipped

\* The attempts that have a sandbox, or are getting one, at this moment.
InUse == {a \in Attempt : pc[a] \in {"create", "ready", "run"}}

\* The cap holds in the durable engine, whatever fails.
TemporalCapRespected == engine = "temporal" => Cardinality(InUse) <= MaxPods

\* "Maximum concurrent spawned pods" (spawner/base.py): the cap holds.
CapRespected == Cardinality(InUse) <= MaxPods
=============================================================================
