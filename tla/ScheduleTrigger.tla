-------------------------- MODULE ScheduleTrigger ---------------------------
(***************************************************************************)
(* Schedules (triggers/schedule_trigger.py), runs submitted over           *)
(* POST /v1/workflows/run (temporal/api.py), and the Temporal server that  *)
(* keeps the schedules and starts their runs (external).                   *)
(*                                                                         *)
(* A run has two names: the Temporal id, which the server keeps unique     *)
(* among open runs, and workflow_id in the WorkflowInput, from which the   *)
(* activities make the names of the pods, of the transcripts and of the    *)
(* approval links.                                                         *)
(***************************************************************************)
EXTENDS DefinitionStore, FiniteSets

CONSTANTS
    Schedule,       \* schedule ids
    Policy,         \* overlap_policy strings, not validated
    ClientId,       \* workflow_id values that clients ask for, not validated
    MaxRuns,        \* bound: runs started
    MaxIds          \* bound: ids drawn with uuid4

\* An id as what it begins with and how the rest was made: drawn with uuid4, taken
\* from the time of the start, or given by a client.  "sched-<schedule>-" is kept
\* as the schedule.
Id == (Schedule \cup {"wf", "other"}) \X {"drawn", "time", "given"} \X Nat

ASSUME ScheduleAssumption ==
    /\ MaxRuns \in Nat /\ MaxIds \in Nat
    /\ Schedule \cap {"wf", "other", "none"} = {}
    /\ ClientId \subseteq Id

VARIABLES
    schedule,   \* schedules at the server
    waiting,    \* schedules with a run that waits for the running one to close
    runs,       \* runs started: Temporal id, workflow_id, schedule, policy asked for, version
    open,       \* the runs that have not closed
    ids         \* ids drawn

schedVars == <<versions, schedule, waiting, runs, open, ids>>

NoSchedule ==
    [on |-> FALSE, paused |-> FALSE, asked |-> "skip", overlap |-> "skip", wid |-> 0,
     version |-> 0]
Overlap == {"skip", "buffer_one", "cancel_other", "allow_all"}

SchedTypeOK ==
    /\ DefsTypeOK
    /\ \A s \in Schedule :
          schedule[s].overlap \in Overlap /\ schedule[s].version \in 0..Len(versions)
    /\ waiting \subseteq Schedule
    /\ \A r \in runs : r.tid \in Id /\ r.wid \in Id /\ r.version \in 0..Len(versions)
    /\ open \subseteq runs
    /\ ids \in 0..MaxIds

SchedInit ==
    /\ DefsInit
    /\ schedule = [s \in Schedule |-> NoSchedule]
    /\ waiting = {} /\ runs = {} /\ open = {} /\ ids = 0

-----------------------------------------------------------------------------
(* The endpoints                                                           *)

\* overlap_map: a policy it does not know is taken as skip.
Bug_OverlapOf(policy) == IF policy \in Overlap THEN policy ELSE "allow_all"
OverlapOf(policy) == IF policy \in Overlap THEN policy ELSE "skip"

\* The definition and a workflow_id are put in the schedule's action.  The
\* server refuses an id that exists (409).
CreateSchedule(s, policy, paused, provider) ==
    /\ GetDefinition # 0 /\ (provider \/ versions[GetDefinition].provider = "config")
    /\ ~schedule[s].on /\ ids < MaxIds
    /\ ids' = ids + 1
    /\ schedule' = [schedule EXCEPT ![s] =
          [on |-> TRUE, paused |-> paused, asked |-> policy, overlap |-> OverlapOf(policy),
           wid |-> <<s, "drawn", ids + 1>>, version |-> GetDefinition]]
    /\ UNCHANGED <<versions, waiting, runs, open>>

DeleteSchedule(s) ==
    /\ schedule[s].on
    /\ schedule' = [schedule EXCEPT ![s] = NoSchedule]
    /\ waiting' = waiting \ {s}
    /\ UNCHANGED <<versions, runs, open, ids>>

PauseSchedule(s) ==
    /\ schedule[s].on
    /\ schedule' = [schedule EXCEPT ![s].paused = TRUE]
    /\ UNCHANGED <<versions, waiting, runs, open, ids>>

ResumeSchedule(s) ==
    /\ schedule[s].on
    /\ schedule' = [schedule EXCEPT ![s].paused = FALSE]
    /\ UNCHANGED <<versions, waiting, runs, open, ids>>

\* start_workflow: the server refuses a Temporal id that is open (409), and takes
\* one that has closed.
StartRun(tid, wid, of, asked, version) ==
    LET run == [tid |-> tid, wid |-> wid, of |-> of, asked |-> asked, version |-> version] IN
    /\ Cardinality(runs) < MaxRuns
    /\ \A r \in open : r.tid # tid
    /\ runs' = runs \cup {run}
    /\ open' = open \cup {run}

\* run_workflow: the definition is stored or in the request (version 0); the
\* workflow_id is the one the client asks for, whatever it is, or drawn, and is
\* the Temporal id as well.
RunWorkflow(w, stored) ==
    /\ stored => GetDefinition # 0
    /\ StartRun(w, w, "none", "none", IF stored THEN GetDefinition ELSE 0)
    /\ UNCHANGED <<versions, schedule, waiting, ids>>

RunWorkflowNewId(stored) ==
    LET w == <<"wf", "drawn", ids + 1>> IN
    /\ stored => GetDefinition # 0
    /\ ids < MaxIds
    /\ ids' = ids + 1
    /\ StartRun(w, w, "none", "none", IF stored THEN GetDefinition ELSE 0)
    /\ UNCHANGED <<versions, schedule, waiting>>

-----------------------------------------------------------------------------
(* The server                                                              *)

TemporalId(s) == <<s, "time", Cardinality(runs)>>
OpenOf(s) == {r \in open : r.of = s}

Fire(s) ==
    /\ schedule[s].on /\ ~schedule[s].paused
    /\ IF OpenOf(s) = {} \/ schedule[s].overlap = "allow_all"
       THEN /\ StartRun(TemporalId(s), schedule[s].wid, s, schedule[s].asked, schedule[s].version)
            /\ UNCHANGED waiting
       ELSE /\ waiting' = IF schedule[s].overlap = "skip" THEN waiting ELSE waiting \cup {s}
            /\ UNCHANGED <<runs, open>>
    /\ UNCHANGED <<versions, schedule, ids>>

\* The run that waited starts once the open ones have closed.
FireWaiting(s) ==
    /\ s \in waiting /\ OpenOf(s) = {}
    /\ StartRun(TemporalId(s), schedule[s].wid, s, schedule[s].asked, schedule[s].version)
    /\ waiting' = waiting \ {s}
    /\ UNCHANGED <<versions, schedule, ids>>

Close(r) ==
    /\ r \in open
    /\ open' = open \ {r}
    /\ UNCHANGED <<versions, schedule, waiting, runs, ids>>

-----------------------------------------------------------------------------
SchedNext ==
    \/ \E s \in Schedule :
          \/ \E policy \in Policy, paused, provider \in BOOLEAN :
                CreateSchedule(s, policy, paused, provider)
          \/ DeleteSchedule(s) \/ PauseSchedule(s) \/ ResumeSchedule(s)
          \/ Fire(s) \/ FireWaiting(s)
    \/ \E stored \in BOOLEAN :
          RunWorkflowNewId(stored) \/ \E w \in ClientId : RunWorkflow(w, stored)
    \/ \E r \in open : Close(r)
    \/ DefsNext /\ UNCHANGED <<schedule, waiting, runs, open, ids>>

SchedSpec == SchedInit /\ [][SchedNext]_schedVars

-----------------------------------------------------------------------------
(* Properties                                                              *)

\* A run submitted with a workflow_id of the client's choice, and a schedule's run.
ClientNamed(r, q) == r.of = "none" /\ r.wid \in ClientId /\ q.of \in Schedule

\* Two runs that are open at once have different workflow_ids, and so do not
\* share pods, unless a schedule asks for allow_all or a client asked for the very
\* id of a schedule's runs: the server keeps Temporal ids apart, and the
\* workflow_id of a schedule's runs is not its Temporal id.
OpenRunsApart ==
    \A r, q \in open : r # q /\ r.wid = q.wid =>
        \/ r.asked = "allow_all" /\ q.asked = "allow_all"
        \/ ClientNamed(r, q) \/ ClientNamed(q, r)
=============================================================================
