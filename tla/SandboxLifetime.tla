-------------------------- MODULE SandboxLifetime --------------------------
(***************************************************************************)
(* One sandbox of one step attempt, its expires-at label and the startup   *)
(* reconcile of other runner replicas:                                     *)
(*   spawner/lifetime.py             the enforced deadlines and their sum  *)
(*   spawner/openshell_spawner.py    _do_spawn stamps the label            *)
(*   workflow/core/step_runner.py    the phases that use the sandbox       *)
(*   executor/temporal/entrypoint.py reconcile_orphaned_sandboxes          *)
(*                                                                         *)
(* Every constant is a number of ticks, PerSecond to the second, so that   *)
(* the rounding of the label and of a run timeout is visible.  A wait      *)
(* through await_within(work, d) ends within d plus the cancel grace:      *)
(* TimePasses cannot pass the due time of the wait in progress.  Work      *)
(* between two waits has no deadline of its own; all of it together takes  *)
(* at most MaxLag, which the destroy grace has to cover.                   *)
(***************************************************************************)
EXTENDS Integers

CONSTANTS
    PerSecond,      \* ticks in a second
    SpawnDeadline,  \* SANDBOX_SPAWN_DEADLINE_SECONDS
    RunTimeout,     \* run_timeout_seconds(step), a float
    FetchTimeout,   \* SANDBOX_TRANSCRIPT_TIMEOUT_SECONDS
    SaveTimeout,    \* SANDBOX_TRANSCRIPT_SAVE_TIMEOUT_SECONDS
    CancelGrace,    \* SANDBOX_CANCEL_GRACE_SECONDS
    DestroyGrace,   \* SANDBOX_DESTROY_GRACE_SECONDS
    MinLifetime,    \* min_lifetime_seconds of the spawner
    ExpirySkew,     \* expiry_skew_seconds of the spawner
    Offset,         \* how far, in ticks, a replica's clock may be off
    MaxLag,         \* ticks of work between the bounded waits
    MaxTime         \* bound: the clock stops here

ASSUME DeadlineAssumption ==
    /\ PerSecond \in Nat \ {0}
    /\ SpawnDeadline \in Nat /\ RunTimeout \in Nat /\ FetchTimeout \in Nat
    /\ SaveTimeout \in Nat /\ CancelGrace \in Nat /\ DestroyGrace \in Nat
    /\ MinLifetime \in Nat /\ ExpirySkew \in Nat
    /\ MaxLag \in Nat /\ MaxTime \in Nat

\* The label's margins cover what has no deadline: local work and clock skew.
ASSUME MarginAssumption ==
    /\ MaxLag <= DestroyGrace
    /\ Offset \subseteq Int
    /\ \A o, r \in Offset : r - o <= ExpirySkew

NoExpiry == -1

VARIABLES
    now,        \* real time
    phase,         \* where the step attempt is
    due,        \* latest end of the wait in progress
    lag,        \* ticks spent between waits so far
    sandbox,    \* "none", "alive" or "deleted" at the gateway
    expires,    \* the expires-at label in ticks, or NoExpiry
    stamped     \* history: when the label was stamped

lifetimeVars == <<now, phase, due, lag, sandbox, expires, stamped>>

\* Waits bounded by await_within or cancel_within, and the local work between.
Wait == {"spawn", "run", "progress", "fetch", "save"}
Work == {"spawned", "ran", "fetched"}
Using == Wait \cup Work

LifetimeTypeOK ==
    /\ now \in Nat /\ due \in Nat /\ lag \in Nat /\ stamped \in Nat
    /\ phase \in {"idle", "finally", "gone"} \cup Using
    /\ sandbox \in {"none", "alive", "deleted"}
    /\ expires \in Int

LifetimeInit ==
    /\ now = 0 /\ due = 0 /\ lag = 0 /\ stamped = 0
    /\ phase = "idle" /\ sandbox = "none" /\ expires = NoExpiry

Bug_Ceil(x) == x - (x % PerSecond)
\* math.ceil, as a number of ticks.
Ceil(x) == IF x % PerSecond = 0 THEN x ELSE x - (x % PerSecond) + PerSecond

Max2(a, b) == IF a >= b THEN a ELSE b

\* step_sandbox_lifetime_seconds(step), in ticks.
Lifetime == SpawnDeadline + Ceil(RunTimeout) + FetchTimeout + SaveTimeout
                + 5 * CancelGrace + DestroyGrace

\* The label _do_spawn writes when the owner's clock is o ahead.
ExpiresAt(o) ==
    Ceil(now + o) + Max2(Lifetime, MinLifetime) + ExpirySkew

\* await_within(work, ticks): returns or raises by due.
Await(wait, ticks) ==
    /\ phase' = wait
    /\ due' = now + ticks + CancelGrace

-----------------------------------------------------------------------------
\* Time passes, but no wait outlives its due time and the local work its lag.
\* A sandbox without a label belongs to a session with no enforced deadline.
TimePasses ==
    /\ now < MaxTime
    /\ phase \in Wait /\ expires # NoExpiry => now < due
    /\ phase \in Work /\ expires # NoExpiry => lag < MaxLag
    /\ now' = now + 1
    /\ lag' = IF phase \in Work THEN lag + 1 ELSE lag
    /\ UNCHANGED <<phase, due, sandbox, expires, stamped>>

\* spawn(): the label is stamped and the spawn budget starts.
Stamp(o, labelled) ==
    /\ phase = "idle"
    /\ now + o >= 0
    /\ Await("spawn", SpawnDeadline)
    /\ stamped' = now
    /\ expires' = IF labelled THEN ExpiresAt(o) ELSE NoExpiry
    /\ UNCHANGED <<now, lag, sandbox>>

\* CreateSandbox takes effect at the gateway: during the spawn, or late, after
\* the runner gave up on it or died.
Create ==
    /\ phase \in {"spawn", "finally", "gone"}
    /\ sandbox = "none"
    /\ sandbox' = "alive"
    /\ UNCHANGED <<now, phase, due, lag, expires, stamped>>

SpawnReturn ==
    /\ phase = "spawn" /\ sandbox # "none"
    /\ phase' = "spawned"
    /\ UNCHANGED <<now, due, lag, sandbox, expires, stamped>>

\* POST /v1/agent/run
RunCall ==
    /\ phase = "spawned"
    /\ Await("run", RunTimeout)
    /\ UNCHANGED <<now, lag, sandbox, expires, stamped>>

\* The run call returns, fails or times out; the progress stream is cancelled.
RunReturn ==
    /\ phase = "run"
    /\ Await("progress", 0)
    /\ UNCHANGED <<now, lag, sandbox, expires, stamped>>

ProgressEnd ==
    /\ phase = "progress"
    /\ phase' = "ran"
    /\ UNCHANGED <<now, due, lag, sandbox, expires, stamped>>

\* _collect_transcript
FetchCall ==
    /\ phase = "ran"
    /\ Await("fetch", FetchTimeout)
    /\ UNCHANGED <<now, lag, sandbox, expires, stamped>>

FetchReturn ==
    /\ phase = "fetch"
    /\ phase' = "fetched"
    /\ UNCHANGED <<now, due, lag, sandbox, expires, stamped>>

\* transcript_store.save, if there is a store and the transcript has events
SaveCall ==
    /\ phase = "fetched"
    /\ Await("save", SaveTimeout)
    /\ UNCHANGED <<now, lag, sandbox, expires, stamped>>

\* The attempt is over: the save returned or was not needed, the spawn or the
\* run failed, or the step was cancelled.
Leave ==
    /\ phase \in Using
    /\ phase' = "finally"
    /\ UNCHANGED <<now, due, lag, sandbox, expires, stamped>>

\* The destroy of the finally clause: deleted, or the failure is logged.
Destroy(deleted) ==
    /\ phase = "finally"
    /\ phase' = "gone"
    /\ sandbox' = IF deleted /\ sandbox = "alive" THEN "deleted" ELSE sandbox
    /\ UNCHANGED <<now, due, lag, expires, stamped>>

\* The runner dies: nothing uses the sandbox any more.
Crash ==
    /\ phase \in Using \cup {"finally"}
    /\ phase' = "gone"
    /\ UNCHANGED <<now, due, lag, sandbox, expires, stamped>>

\* Another replica starts, its clock r ahead: reconcile_orphaned_sandboxes.
Bug_Expired(r) == expires < now + r
Expired(r) == expires # NoExpiry /\ expires < now + r

Reconcile(r) ==
    /\ sandbox = "alive"
    /\ Expired(r)
    /\ sandbox' = "deleted"
    /\ UNCHANGED <<now, phase, due, lag, expires, stamped>>

LifetimeNext ==
    \/ TimePasses
    \/ \E o \in Offset, labelled \in BOOLEAN : Stamp(o, labelled)
    \/ Create \/ SpawnReturn \/ RunCall \/ RunReturn \/ ProgressEnd
    \/ FetchCall \/ FetchReturn \/ SaveCall \/ Leave \/ Crash
    \/ \E deleted \in BOOLEAN : Destroy(deleted)
    \/ \E r \in Offset : Reconcile(r)

LifetimeSpec == LifetimeInit /\ [][LifetimeNext]_lifetimeVars

-----------------------------------------------------------------------------
\* The label is never earlier than the sandbox's latest legitimate use, on any
\* replica's clock, whatever the phases take and however late they start.
LabelCoversUse ==
    phase \in Using /\ expires # NoExpiry => \A r \in Offset : now + r <= expires

\* A reconcile never destroys a sandbox its owner still uses, labelled or not
\* (sessions without an enforced deadline carry no label).
NotReapedInUse == phase \in Using => sandbox # "deleted"
=============================================================================
