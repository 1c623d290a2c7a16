---------------------------- MODULE AlertTrigger ----------------------------
(***************************************************************************)
(* The Alertmanager webhook (triggers/alert_trigger.py): several requests  *)
(* at once, each going through its alerts one by one, and the table of     *)
(* fingerprints that suppresses repeated alerts.                           *)
(*                                                                         *)
(* A request suspends at the authorization and at the start of the         *)
(* workflow; everything between is one step.  It counts errors and answers *)
(* 200, so that Alertmanager does not retry: it only repeats the alerts    *)
(* that still fire.  Time is kept as the age of each table entry.          *)
(***************************************************************************)
EXTENDS DefinitionStore

CONSTANTS
    Fingerprint,
    Hook,               \* webhook requests in flight
    Payload,            \* sequences of alerts that Alertmanager may send
    FireOnResolved,     \* fire_on_resolved
    Named,              \* fingerprints of alerts that map to a workflow: they carry
                        \* the workflow_name_label, or a default is configured
    Window,             \* dedup_window_seconds
    MaxStartFaults,     \* bound: starts and authorizations that fail
    MaxRestarts         \* bound: restarts of the process

\* An alert: the fingerprint, made from its labels, and whether it is resolved.
Alert == [fp : Fingerprint, resolved : BOOLEAN]

ASSUME AlertAssumption ==
    /\ Payload \subseteq Seq(Alert) /\ FireOnResolved \in BOOLEAN /\ Named \subseteq Fingerprint
    /\ Window \in Nat \ {0} /\ MaxStartFaults \in Nat /\ MaxRestarts \in Nat

VARIABLES
    lastFired,  \* _last_fired, as ages; Absent for no entry
    hook,       \* each request: point and alerts still to handle, the current first
    startFaults,
    restarts,
    recent,     \* history: age of the latest decision to start a run
    early,      \* history: fingerprints decided twice within a window
    unserved    \* history: fingerprints that fired and have no run since

alertVars == <<versions, lastFired, hook, startFaults, restarts, recent, early, unserved>>

Old == 2 * Window + 1       \* no comparison tells greater ages apart
Absent == Old + 1

AlertTypeOK ==
    /\ DefsTypeOK
    /\ lastFired \in [Fingerprint -> 0..Absent]
    /\ \A h \in Hook : hook[h].at \in {"idle", "next", "authorize", "start"}
                       /\ hook[h].todo \in Seq(Alert)
    /\ startFaults \in 0..MaxStartFaults /\ restarts \in 0..MaxRestarts
    /\ recent \in [Fingerprint -> 0..Window]
    /\ early \subseteq Fingerprint /\ unserved \subseteq Fingerprint

NoHook == [at |-> "idle", todo |-> <<>>]

AlertInit ==
    /\ DefsInit
    /\ lastFired = [f \in Fingerprint |-> Absent]
    /\ hook = [h \in Hook |-> NoHook]
    /\ startFaults = 0 /\ restarts = 0
    /\ recent = [f \in Fingerprint |-> Window]
    /\ early = {} /\ unserved = {}

-----------------------------------------------------------------------------
Tick ==
    /\ lastFired' = [f \in Fingerprint |-> IF lastFired[f] < Old THEN lastFired[f] + 1
                                           ELSE lastFired[f]]
    /\ recent' = [f \in Fingerprint |-> IF recent[f] < Window THEN recent[f] + 1 ELSE Window]
    /\ UNCHANGED <<versions, hook, startFaults, restarts, early, unserved>>

-----------------------------------------------------------------------------
(* AlertDedupTracker                                                       *)

Prune(table) == [f \in Fingerprint |-> IF table[f] > 2 * Window THEN Absent ELSE table[f]]

MayFire(f) == Prune(lastFired)[f] >= Window

\* The table after should_fire(f): the entry is written in the same step as
\* the test, before the workflow is started; an alert that is suppressed does
\* not extend the window.
Bug_NotRecorded(f) == Prune(lastFired)
Bug_Recorded(f) == [Prune(lastFired) EXCEPT ![f] = 0]
Recorded(f) == [Prune(lastFired) EXCEPT ![f] = IF MayFire(f) THEN 0 ELSE @]

-----------------------------------------------------------------------------
(* receive_alertmanager                                                    *)

Receive(h, payload) ==
    /\ hook[h].at = "idle"
    /\ hook' = [hook EXCEPT ![h] = [at |-> "next", todo |-> payload]]
    /\ unserved' = unserved \cup
          {f \in Named : \E i \in 1..Len(payload) : payload[i] = [fp |-> f, resolved |-> FALSE]}
    /\ UNCHANGED <<versions, lastFired, startFaults, restarts, recent, early>>

Current(h) == Head(hook[h].todo)

\* `continue`: on to the next alert.
SkipAlert(h) == hook' = [hook EXCEPT ![h] = [at |-> "next", todo |-> Tail(@.todo)]]

ShouldProcess(alert) == ~alert.resolved \/ FireOnResolved

SkipResolved(h) ==
    /\ hook[h].at = "next" /\ hook[h].todo # <<>> /\ ~ShouldProcess(Current(h))
    /\ SkipAlert(h)
    /\ UNCHANGED <<versions, lastFired, startFaults, restarts, recent, early, unserved>>

SkipDuplicate(h) ==
    /\ hook[h].at = "next" /\ hook[h].todo # <<>> /\ ShouldProcess(Current(h))
    /\ ~MayFire(Current(h).fp)
    /\ lastFired' = Recorded(Current(h).fp)
    /\ SkipAlert(h)
    /\ UNCHANGED <<versions, startFaults, restarts, recent, early, unserved>>

\* should_fire says yes; an alert that maps to no workflow is an error, but
\* its fingerprint is recorded.
Admit(h) ==
    LET f == Current(h).fp IN
    /\ hook[h].at = "next" /\ hook[h].todo # <<>> /\ ShouldProcess(Current(h))
    /\ MayFire(f)
    /\ lastFired' = Recorded(f)
    /\ recent' = [recent EXCEPT ![f] = 0]
    /\ early' = IF recent[f] < Window THEN early \cup {f} ELSE early
    /\ IF f \in Named
       THEN hook' = [hook EXCEPT ![h].at = "authorize"]
       ELSE SkipAlert(h)
    /\ UNCHANGED <<versions, startFaults, restarts, unserved>>

\* The authorizer answers; definition, content policy and provider are looked
\* at in the same step.  A provider that no run can have raises: the request
\* answers 500 and leaves its other alerts unread.
Authorized(h) ==
    /\ hook[h].at = "authorize"
    /\ CASE GetDefinition # 0 /\ versions[GetDefinition].provider = "config" ->
              hook' = [hook EXCEPT ![h].at = "start"]
         [] GetDefinition # 0 /\ versions[GetDefinition].provider = "other" ->
              hook' = [hook EXCEPT ![h] = NoHook]
         [] OTHER -> SkipAlert(h)
    /\ UNCHANGED <<versions, lastFired, startFaults, restarts, recent, early, unserved>>

RunStarted(h) ==
    /\ hook[h].at = "start"
    /\ SkipAlert(h)
    /\ unserved' = unserved \ {Current(h).fp}
    /\ UNCHANGED <<versions, lastFired, startFaults, restarts, recent, early>>

\* The authorizer denies, or start_workflow raises: an error is counted.
StartFails(h) ==
    /\ hook[h].at \in {"authorize", "start"} /\ startFaults < MaxStartFaults
    /\ startFaults' = startFaults + 1
    /\ SkipAlert(h)
    /\ UNCHANGED <<versions, lastFired, restarts, recent, early, unserved>>

AnswerHook(h) ==
    /\ hook[h].at = "next" /\ hook[h].todo = <<>>
    /\ hook' = [hook EXCEPT ![h] = NoHook]
    /\ UNCHANGED <<versions, lastFired, startFaults, restarts, recent, early, unserved>>

\* The process ends and starts again: the table, the requests and the
\* definitions were in its memory.
Restart ==
    /\ restarts < MaxRestarts
    /\ restarts' = restarts + 1
    /\ versions' = <<>>
    /\ lastFired' = [f \in Fingerprint |-> Absent]
    /\ hook' = [h \in Hook |-> NoHook]
    /\ recent' = [f \in Fingerprint |-> Window]
    /\ UNCHANGED <<startFaults, early, unserved>>

-----------------------------------------------------------------------------
HookStep(h) ==
    \/ SkipResolved(h) \/ SkipDuplicate(h) \/ Admit(h)
    \/ Authorized(h) \/ RunStarted(h) \/ AnswerHook(h)

AlertNext ==
    \/ \E h \in Hook : HookStep(h) \/ StartFails(h) \/ \E p \in Payload : Receive(h, p)
    \/ Tick \/ Restart
    \/ DefsNext /\ UNCHANGED <<lastFired, hook, startFaults, restarts, recent, early, unserved>>

AlertSpec == AlertInit /\ [][AlertNext]_alertVars

\* Alertmanager sends an alert that still fires again.
Repeats(f) ==
    \E h \in Hook, p \in Payload :
        /\ \E i \in 1..Len(p) : p[i] = [fp |-> f, resolved |-> FALSE]
        /\ Receive(h, p)

-----------------------------------------------------------------------------
(* Properties                                                              *)

\* A fingerprint is chosen for a start at most once per dedup window, however
\* the requests interleave and the table is pruned.
OncePerWindow == early = {}

\* An alert that goes on firing gets its run, as long as its definition can be
\* run: a start that failed, or an answer that was lost in a restart, only
\* costs the window that was recorded for it.
AlertRuns ==
    \A f \in Fingerprint :
        (f \in unserved /\ GetDefinition # 0)
            ~> \/ f \notin unserved
               \/ GetDefinition = 0 \/ versions[GetDefinition].provider # "config"
=============================================================================
