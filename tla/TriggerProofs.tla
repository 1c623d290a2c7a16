--------------------------- MODULE TriggerProofs ----------------------------
(***************************************************************************)
(* Theorems about the triggers.  AlertTrigger, for every set of requests,  *)
(* payloads and fingerprints and every dedup window: a fingerprint is      *)
(* chosen for a start once per window.  ScheduleTrigger, for every set of  *)
(* schedules, policies and client ids and any number of runs: open runs do *)
(* not share a workflow_id unless a schedule or a client asked for that.   *)
(***************************************************************************)
EXTENDS AlertTrigger, ScheduleTrigger, TLAPS

-----------------------------------------------------------------------------
(* AlertTrigger                                                            *)

HookRecord == [at : {"idle", "next", "authorize", "start"}, todo : Seq(Alert)]

\* While an alert is being handled it is the first of those to handle.
AlertTypes ==
    /\ lastFired \in [Fingerprint -> 0..Absent] /\ recent \in [Fingerprint -> 0..Window]
    /\ hook \in [Hook -> HookRecord]
    /\ \A h \in Hook : hook[h].at \in {"authorize", "start"} => hook[h].todo # <<>>

\* Within a window of a decision the table has an entry of its age.
TableInv == \A f \in Fingerprint : recent[f] < Window => lastFired[f] = recent[f]

AlertInv == AlertTypes /\ TableInv /\ OncePerWindow

USE AlertAssumption DEF Old, Absent

\* The dedup window is a positive number of seconds.
LEMMA WindowFacts == Window \in Nat \ {0} /\ Old \in Nat /\ Absent \in Nat /\ Absent > Window
  OBVIOUS

\* Pruning the table removes no entry of the last window, and should_fire says
\* no to each of those.
LEMMA PruneKeeps ==
    ASSUME AlertTypes, NEW f \in Fingerprint
    PROVE  /\ Prune(lastFired) \in [Fingerprint -> 0..Absent]
           /\ lastFired[f] < Window => Prune(lastFired)[f] = lastFired[f] /\ ~MayFire(f)
  BY DEF AlertTypes, Prune, MayFire

\* The alert under way has a fingerprint.
LEMMA CurrentFacts ==
    ASSUME AlertTypes, NEW h \in Hook, hook[h].todo # <<>>
    PROVE  /\ Current(h) \in Alert /\ Current(h).fp \in Fingerprint
           /\ Tail(hook[h].todo) \in Seq(Alert)
  <1>1. hook[h] \in HookRecord
    BY DEF AlertTypes
  <1>2. hook[h].todo \in Seq(Alert)
    BY <1>1 DEF HookRecord
  <1>3. Current(h) \in Alert /\ Tail(hook[h].todo) \in Seq(Alert)
    BY <1>2 DEF Current
  <1> QED BY <1>3 DEF Alert

\* A request goes on with well-formed alerts.
LEMMA SkipTypes ==
    ASSUME AlertTypes, NEW h \in Hook, hook[h].todo # <<>>, SkipAlert(h)
    PROVE  /\ hook' \in [Hook -> HookRecord]
           /\ \A k \in Hook : hook'[k].at \in {"authorize", "start"} => hook'[k].todo # <<>>
  <1> DEFINE r == [at |-> "next", todo |-> Tail(hook[h].todo)]
  <1>1. r \in HookRecord /\ r.at = "next"
    BY CurrentFacts DEF HookRecord
  <1>2. hook' = [hook EXCEPT ![h] = r]
    BY DEF SkipAlert
  <1> HIDE DEF r
  <1> QED BY <1>1, <1>2 DEF AlertTypes

\* A request that goes on with the same alert, or begins or ends.
LEMMA HookTypes ==
    ASSUME AlertTypes, NEW h \in Hook, NEW r \in HookRecord, hook' = [hook EXCEPT ![h] = r],
           r.at \in {"authorize", "start"} => r.todo # <<>>
    PROVE  /\ hook' \in [Hook -> HookRecord]
           /\ \A k \in Hook : hook'[k].at \in {"authorize", "start"} => hook'[k].todo # <<>>
  BY DEF AlertTypes

\* The table is written in the step that reads it.
LEMMA AlertStep ==
    ASSUME AlertInv, [AlertNext]_alertVars
    PROVE  AlertInv'
  <1> USE DEF AlertInv
  <1>0. NoHook \in HookRecord /\ NoHook.at = "idle"
    BY DEF NoHook, HookRecord
  <1>1. ASSUME NEW h \in Hook, SkipResolved(h) PROVE AlertInv'
    <2>1. hook[h].todo # <<>> /\ SkipAlert(h) /\ UNCHANGED <<lastFired, recent, early>>
      BY <1>1 DEF SkipResolved
    <2> QED BY <2>1, SkipTypes DEF AlertTypes, TableInv, OncePerWindow
  <1>2. ASSUME NEW h \in Hook, SkipDuplicate(h) PROVE AlertInv'
    <2> DEFINE f == Current(h).fp
    <2>1. /\ hook[h].todo # <<>> /\ SkipAlert(h) /\ UNCHANGED <<recent, early>>
          /\ ~MayFire(f) /\ lastFired' = Recorded(f)
      BY <1>2 DEF SkipDuplicate
    <2>2. f \in Fingerprint
      BY <2>1, CurrentFacts
    <2> HIDE DEF f
    <2>3. lastFired' = Prune(lastFired)
      BY <2>1, <2>2, PruneKeeps DEF Recorded
    <2>4. lastFired' \in [Fingerprint -> 0..Absent]
      BY <2>2, <2>3, PruneKeeps
    <2>5. TableInv'
      BY <2>1, <2>3, PruneKeeps DEF TableInv
    <2> QED BY <2>1, <2>4, <2>5, SkipTypes DEF AlertTypes, OncePerWindow
  <1>3. ASSUME NEW h \in Hook, Admit(h) PROVE AlertInv'
    <2> DEFINE f == Current(h).fp
    <2>1. /\ hook[h].todo # <<>> /\ MayFire(f) /\ lastFired' = Recorded(f)
          /\ recent' = [recent EXCEPT ![f] = 0]
          /\ early' = IF recent[f] < Window THEN early \cup {f} ELSE early
          /\ \/ hook' = [hook EXCEPT ![h].at = "authorize"]
             \/ SkipAlert(h)
      BY <1>3 DEF Admit
    <2>2. f \in Fingerprint
      BY <2>1, CurrentFacts
    <2> HIDE DEF f
    <2>3. ~(recent[f] < Window)
      BY <2>1, <2>2, PruneKeeps DEF TableInv
    <2>4. early' = {}
      BY <2>1, <2>3 DEF OncePerWindow
    <2>5. lastFired' = [Prune(lastFired) EXCEPT ![f] = 0]
      BY <2>1, <2>2 DEF Recorded
    <2>6. lastFired' \in [Fingerprint -> 0..Absent] /\ recent' \in [Fingerprint -> 0..Window]
      BY <2>1, <2>2, <2>5, PruneKeeps DEF AlertTypes
    <2>7. TableInv'
      <3> SUFFICES ASSUME NEW g \in Fingerprint, recent'[g] < Window
                   PROVE  lastFired'[g] = recent'[g]
        BY DEF TableInv
      <3>1. Prune(lastFired) \in [Fingerprint -> 0..Absent]
        BY <2>2, PruneKeeps
      <3>2. CASE g = f
        BY <2>1, <2>2, <2>5, <3>1, <3>2 DEF AlertTypes
      <3>3. CASE g # f
        <4>1. recent'[g] = recent[g] /\ lastFired'[g] = Prune(lastFired)[g]
          BY <2>1, <2>5, <3>1, <3>3 DEF AlertTypes
        <4>2. lastFired[g] = recent[g]
          BY <4>1 DEF TableInv
        <4> QED BY <4>1, <4>2, PruneKeeps
      <3> QED BY <3>2, <3>3
    <2>8. /\ hook' \in [Hook -> HookRecord]
          /\ \A k \in Hook : hook'[k].at \in {"authorize", "start"} => hook'[k].todo # <<>>
      <3>1. CASE hook' = [hook EXCEPT ![h].at = "authorize"]
        <4>1. hook[h] \in HookRecord
          BY DEF AlertTypes
        <4> DEFINE r == [hook[h] EXCEPT !.at = "authorize"]
        <4>2. r \in HookRecord /\ r.todo # <<>> /\ hook' = [hook EXCEPT ![h] = r]
          BY <2>1, <3>1, <4>1 DEF HookRecord
        <4> QED BY <4>2, HookTypes
      <3>2. CASE SkipAlert(h)
        BY <2>1, <3>2, SkipTypes
      <3> QED BY <2>1, <3>1, <3>2
    <2> QED BY <2>4, <2>6, <2>7, <2>8 DEF AlertTypes, OncePerWindow
  <1>4. ASSUME NEW h \in Hook, Authorized(h) PROVE AlertInv'
    <2>1. /\ hook[h].at = "authorize" /\ UNCHANGED <<lastFired, recent, early>>
          /\ \/ hook' = [hook EXCEPT ![h].at = "start"]
             \/ hook' = [hook EXCEPT ![h] = NoHook]
             \/ SkipAlert(h)
      BY <1>4 DEF Authorized
    <2>2. hook[h].todo # <<>> /\ hook[h] \in HookRecord
      BY <2>1 DEF AlertTypes
    <2>3. /\ hook' \in [Hook -> HookRecord]
          /\ \A k \in Hook : hook'[k].at \in {"authorize", "start"} => hook'[k].todo # <<>>
      <3>1. CASE hook' = [hook EXCEPT ![h].at = "start"]
        <4> DEFINE r == [hook[h] EXCEPT !.at = "start"]
        <4>1. r \in HookRecord /\ r.todo # <<>> /\ hook' = [hook EXCEPT ![h] = r]
          BY <2>2, <3>1 DEF HookRecord
        <4> QED BY <4>1, HookTypes
      <3>2. CASE hook' = [hook EXCEPT ![h] = NoHook]
        BY <1>0, <3>2, HookTypes
      <3>3. CASE SkipAlert(h)
        BY <2>2, <3>3, SkipTypes
      <3> QED BY <2>1, <3>1, <3>2, <3>3
    <2> QED BY <2>1, <2>3 DEF AlertTypes, TableInv, OncePerWindow
  <1>5. ASSUME NEW h \in Hook, RunStarted(h) \/ StartFails(h) PROVE AlertInv'
    <2>1. /\ hook[h].at \in {"authorize", "start"} /\ SkipAlert(h)
          /\ UNCHANGED <<lastFired, recent, early>>
      BY <1>5 DEF RunStarted, StartFails
    <2>2. hook[h].todo # <<>>
      BY <2>1 DEF AlertTypes
    <2> QED BY <2>1, <2>2, SkipTypes DEF AlertTypes, TableInv, OncePerWindow
  <1>6. ASSUME NEW h \in Hook, AnswerHook(h) PROVE AlertInv'
    <2>1. hook' = [hook EXCEPT ![h] = NoHook] /\ UNCHANGED <<lastFired, recent, early>>
      BY <1>6 DEF AnswerHook
    <2> QED BY <1>0, <2>1, HookTypes DEF AlertTypes, TableInv, OncePerWindow
  <1>7. ASSUME NEW h \in Hook, NEW p \in Payload, Receive(h, p) PROVE AlertInv'
    <2> DEFINE r == [at |-> "next", todo |-> p]
    <2>1. hook' = [hook EXCEPT ![h] = r] /\ UNCHANGED <<lastFired, recent, early>>
      BY <1>7 DEF Receive
    <2>2. r \in HookRecord /\ r.at = "next"
      BY DEF HookRecord
    <2> HIDE DEF r
    <2> QED BY <2>1, <2>2, HookTypes DEF AlertTypes, TableInv, OncePerWindow
  <1>8. CASE Tick
    <2>1. /\ hook' = hook /\ early' = early
          /\ lastFired' = [f \in Fingerprint |-> IF lastFired[f] < Old THEN lastFired[f] + 1
                                                 ELSE lastFired[f]]
          /\ recent' = [f \in Fingerprint |-> IF recent[f] < Window THEN recent[f] + 1
                                              ELSE Window]
      BY <1>8 DEF Tick
    <2>2. lastFired' \in [Fingerprint -> 0..Absent] /\ recent' \in [Fingerprint -> 0..Window]
      BY <2>1 DEF AlertTypes
    <2>3. TableInv'
      BY <2>1 DEF AlertTypes, TableInv
    <2> QED BY <2>1, <2>2, <2>3 DEF AlertTypes, OncePerWindow
  <1>9. CASE Restart
    <2>1. /\ lastFired' = [f \in Fingerprint |-> Absent] /\ hook' = [h \in Hook |-> NoHook]
          /\ recent' = [f \in Fingerprint |-> Window] /\ early' = early
      BY <1>9 DEF Restart
    <2>2. AlertTypes'
      BY <1>0, <2>1 DEF AlertTypes
    <2> QED BY <2>1, <2>2 DEF TableInv, OncePerWindow
  <1>10. CASE UNCHANGED <<lastFired, hook, recent, early>>
    BY <1>10 DEF AlertTypes, TableInv, OncePerWindow
  <1> QED
    BY <1>1, <1>2, <1>3, <1>4, <1>5, <1>6, <1>7, <1>8, <1>9, <1>10
       DEF AlertNext, HookStep, alertVars

\* AlertDedupTracker.should_fire: a fingerprint is chosen at most once per
\* window, however requests interleave and the table is pruned.
THEOREM OncePerWindowHolds == AlertSpec => []OncePerWindow
  <1>1. AlertInit => AlertInv
    <2> SUFFICES ASSUME AlertInit PROVE AlertInv
      OBVIOUS
    <2>1. NoHook \in HookRecord /\ NoHook.at = "idle"
      BY DEF NoHook, HookRecord
    <2>2. AlertTypes
      BY <2>1 DEF AlertInit, AlertTypes
    <2> QED BY <2>2 DEF AlertInit, AlertInv, TableInv, OncePerWindow
  <1>2. AlertInv /\ [AlertNext]_alertVars => AlertInv'
    BY AlertStep
  <1>3. AlertInv => OncePerWindow
    BY DEF AlertInv
  <1> QED BY <1>1, <1>2, <1>3, PTL DEF AlertSpec

-----------------------------------------------------------------------------
(* ScheduleTrigger                                                         *)

\* A schedule has a workflow_id of its own and the server's form of the policy
\* that was asked for; only a schedule that exists has a run that waits.
SchedulesInv ==
    /\ ids \in Nat /\ waiting \subseteq Schedule /\ DOMAIN schedule = Schedule
    /\ \A s \in Schedule : DOMAIN schedule[s] = DOMAIN NoSchedule
    /\ \A s \in Schedule :
          /\ schedule[s].overlap = OverlapOf(schedule[s].asked)
          /\ schedule[s].on => \E k \in 1..ids : schedule[s].wid = <<s, "drawn", k>>
          /\ s \in waiting => schedule[s].on

\* A run submitted over the API: its two ids are one.
Submitted(r) ==
    /\ r.of = "none" /\ r.tid = r.wid
    /\ r.wid \in ClientId \/ \E k \in Nat : r.wid = <<"wf", "drawn", k>>

\* A run that a schedule started.
Scheduled(r) == r.of \in Schedule /\ \E k \in 1..ids : r.wid = <<r.of, "drawn", k>>

\* Open runs differ in their Temporal ids, and a schedule's run was asked for as
\* the schedule is, and as the others with its workflow_id were.
RunsInv ==
    /\ \A r \in open : Submitted(r) \/ Scheduled(r)
    /\ \A r, q \in open : r # q => r.tid # q.tid
    /\ \A r \in open : \A s \in Schedule :
          Scheduled(r) /\ schedule[s].on /\ r.wid = schedule[s].wid
              => r.asked = schedule[s].asked
    /\ \A r, q \in open : Scheduled(r) /\ Scheduled(q) /\ r.wid = q.wid => r.asked = q.asked

SchedInv == SchedulesInv /\ RunsInv /\ OpenRunsApart

\* No run is of both kinds, and only a client's choice gives a submitted run the
\* workflow_id of a schedule's.
LEMMA KindsApart ==
    ASSUME NEW r, NEW q, Submitted(r), Scheduled(q)
    PROVE  ~Scheduled(r) /\ (r.wid = q.wid => ClientNamed(r, q))
  <1>1. ~Scheduled(r)
    BY ScheduleAssumption DEF Submitted, Scheduled
  <1>2. r.wid = q.wid => r.wid \in ClientId
    BY ScheduleAssumption DEF Submitted, Scheduled
  <1> QED BY <1>1, <1>2 DEF ClientNamed, Submitted, Scheduled

\* Ids are only drawn, so that a run keeps its description.
LEMMA RunsLater ==
    ASSUME NEW r, ids \in Nat, ids' \in Nat, ids <= ids', Submitted(r) \/ Scheduled(r)
    PROVE  (Submitted(r)' <=> Submitted(r)) /\ (Scheduled(r)' <=> Scheduled(r))
  BY ScheduleAssumption DEF Submitted, Scheduled

\* The start of a run whose Temporal id is not open, and which, if a schedule
\* starts it, is as the schedule is and comes when none of the schedule's runs is
\* open, unless it allows all.
LEMMA StartStep ==
    ASSUME SchedInv, SchedulesInv', UNCHANGED schedule, ids' \in Nat, ids <= ids', NEW new,
           open' = open \cup {new}, \A r \in open : r.tid # new.tid,
           Submitted(new) \/ (\E s \in Schedule :
              /\ schedule[s].on /\ new.of = s /\ new.wid = schedule[s].wid
              /\ new.asked = schedule[s].asked
              /\ OpenOf(s) = {} \/ new.asked = "allow_all")
    PROVE  SchedInv'
  <1>0. ids \in Nat
    BY DEF SchedInv, SchedulesInv
  <1>1. Submitted(new) \/ Scheduled(new)
    BY DEF SchedInv, SchedulesInv, Scheduled
  <1>2. \A r \in open' : Submitted(r) \/ Scheduled(r)
    BY <1>1 DEF SchedInv, RunsInv
  <1>3. \A r \in open' : (Submitted(r)' <=> Submitted(r)) /\ (Scheduled(r)' <=> Scheduled(r))
    BY <1>0, <1>2, RunsLater
  <1>4. ASSUME Scheduled(new)
        PROVE  /\ \A t \in Schedule : schedule[t].on /\ schedule[t].wid = new.wid
                     => new.asked = schedule[t].asked
               /\ \A r \in open : Scheduled(r) /\ r.wid = new.wid
                     => r.asked = new.asked /\ new.asked = "allow_all"
    <2>1. PICK s \in Schedule :
             /\ schedule[s].on /\ new.of = s /\ new.wid = schedule[s].wid
             /\ new.asked = schedule[s].asked
             /\ OpenOf(s) = {} \/ new.asked = "allow_all"
      BY <1>4, ScheduleAssumption DEF Submitted, Scheduled
    <2>2. PICK k \in 1..ids : new.wid = <<s, "drawn", k>>
      BY <2>1 DEF SchedInv, SchedulesInv
    <2>3. \A t \in Schedule : schedule[t].on /\ schedule[t].wid = new.wid => t = s
      BY <2>2 DEF SchedInv, SchedulesInv
    <2>4. \A r \in open : Scheduled(r) /\ r.wid = new.wid => r.of = s
      BY <2>2 DEF Scheduled
    <2>5. \A r \in open : Scheduled(r) /\ r.wid = new.wid => r.asked = new.asked
      BY <2>1 DEF SchedInv, RunsInv
    <2> QED BY <2>1, <2>3, <2>4, <2>5 DEF OpenOf
  <1>5. RunsInv'
    <2>1. \A r \in open' : Submitted(r)' \/ Scheduled(r)'
      BY <1>2, <1>3
    <2>2. \A r, q \in open' : r # q => r.tid # q.tid
      BY DEF SchedInv, RunsInv
    <2>3. \A r \in open' : \A t \in Schedule :
             Scheduled(r) /\ schedule'[t].on /\ r.wid = schedule'[t].wid
                 => r.asked = schedule'[t].asked
      BY <1>4 DEF SchedInv, RunsInv
    <2>4. \A r, q \in open' : Scheduled(r) /\ Scheduled(q) /\ r.wid = q.wid => r.asked = q.asked
      BY <1>4 DEF SchedInv, RunsInv
    <2> QED BY <1>3, <2>1, <2>2, <2>3, <2>4 DEF RunsInv
  <1>6. ASSUME NEW r \in open, r.wid = new.wid
        PROVE  \/ r.asked = "allow_all" /\ new.asked = "allow_all"
               \/ ClientNamed(r, new) \/ ClientNamed(new, r)
    <2>1. CASE Submitted(r) /\ Submitted(new)
      BY <1>6, <2>1 DEF Submitted
    <2>2. CASE Scheduled(r) /\ Scheduled(new)
      BY <1>4, <1>6, <2>2
    <2>3. CASE Submitted(r) /\ Scheduled(new)
      BY <1>6, <2>3, KindsApart
    <2>4. CASE Scheduled(r) /\ Submitted(new)
      BY <1>6, <2>4, KindsApart
    <2> QED BY <1>1, <1>2, <2>1, <2>2, <2>3, <2>4
  <1>7. OpenRunsApart'
    <2>1. \A r, q : ClientNamed(r, q)' <=> ClientNamed(r, q)
      BY DEF ClientNamed
    <2>2. SUFFICES ASSUME NEW r \in open', NEW q \in open', r # q, r.wid = q.wid
                   PROVE  \/ r.asked = "allow_all" /\ q.asked = "allow_all"
                          \/ ClientNamed(r, q) \/ ClientNamed(q, r)
      BY <2>1 DEF OpenRunsApart
    <2>3. CASE r \in open /\ q \in open
      BY <2>2, <2>3 DEF SchedInv, OpenRunsApart
    <2>4. CASE r = new /\ q \in open
      BY <1>6, <2>2, <2>4
    <2>5. CASE q = new /\ r \in open
      BY <1>6, <2>2, <2>5
    <2> QED BY <2>2, <2>3, <2>4, <2>5
  <1> QED BY <1>5, <1>7 DEF SchedInv

\* run_workflow, with the client's id or a drawn one.
LEMMA SubmittedStep ==
    ASSUME SchedInv, NEW id, NEW version, StartRun(id, id, "none", "none", version),
           UNCHANGED <<schedule, waiting>>, ids' \in Nat, ids <= ids',
           id \in ClientId \/ \E k \in Nat : id = <<"wf", "drawn", k>>
    PROVE  SchedInv'
  <1> DEFINE new == [tid |-> id, wid |-> id, of |-> "none", asked |-> "none",
                     version |-> version]
  <1>1. open' = open \cup {new} /\ \A r \in open : r.tid # id
    BY DEF StartRun
  <1>2. new.tid = id /\ new.wid = id /\ new.of = "none"
    OBVIOUS
  <1> HIDE DEF new
  <1>3. Submitted(new)
    BY <1>2 DEF Submitted
  <1>4. SchedulesInv'
    BY DEF SchedInv, SchedulesInv
  <1> QED BY <1>1, <1>2, <1>3, <1>4, StartStep

\* The start of a schedule's run: none of its runs is open, or it allows all.
LEMMA ScheduledStep ==
    ASSUME SchedInv, NEW s \in Schedule, schedule[s].on,
           StartRun(TemporalId(s), schedule[s].wid, s, schedule[s].asked, schedule[s].version),
           OpenOf(s) = {} \/ schedule[s].overlap = "allow_all",
           UNCHANGED <<schedule, ids>>, waiting' \subseteq waiting
    PROVE  SchedInv'
  <1> DEFINE new == [tid |-> TemporalId(s), wid |-> schedule[s].wid, of |-> s,
                     asked |-> schedule[s].asked, version |-> schedule[s].version]
  <1>1. open' = open \cup {new} /\ \A r \in open : r.tid # TemporalId(s)
    BY DEF StartRun
  <1>2. /\ new.tid = TemporalId(s) /\ new.wid = schedule[s].wid /\ new.of = s
        /\ new.asked = schedule[s].asked
    OBVIOUS
  <1> HIDE DEF new
  <1>3. schedule[s].overlap = "allow_all" => new.asked = "allow_all"
    BY <1>2 DEF SchedInv, SchedulesInv, OverlapOf
  <1>4. SchedulesInv'
    BY DEF SchedInv, SchedulesInv
  <1>5. ids \in Nat /\ ids' = ids
    BY DEF SchedInv, SchedulesInv
  <1> QED BY <1>1, <1>2, <1>3, <1>4, <1>5, StartStep

\* Schedules that change leave the runs as they were asked for.
LEMMA ScheduleChanges ==
    ASSUME SchedInv, NEW s \in Schedule, UNCHANGED open,
           ids' \in Nat, ids <= ids', waiting' \subseteq waiting,
           DOMAIN schedule' = Schedule, DOMAIN schedule'[s] = DOMAIN NoSchedule,
           \A t \in Schedule \ {s} : schedule'[t] = schedule[t],
           schedule'[s].overlap = OverlapOf(schedule'[s].asked),
           s \in waiting' => schedule'[s].on,
           schedule'[s].on =>
              \/ /\ schedule[s].on /\ schedule'[s].wid = schedule[s].wid
                 /\ schedule'[s].asked = schedule[s].asked
              \/ ids' = ids + 1 /\ schedule'[s].wid = <<s, "drawn", ids + 1>>
    PROVE  SchedInv'
  <1>0. ids \in Nat
    BY DEF SchedInv, SchedulesInv
  <1>1. \A t \in Schedule \ {s} :
           /\ schedule'[t] = schedule[t] /\ DOMAIN schedule'[t] = DOMAIN NoSchedule
           /\ schedule'[t].overlap = OverlapOf(schedule'[t].asked)
           /\ schedule'[t].on => \E k \in 1..ids' : schedule'[t].wid = <<t, "drawn", k>>
           /\ t \in waiting' => schedule'[t].on
    BY <1>0 DEF SchedInv, SchedulesInv
  <1>2. schedule'[s].on => \E k \in 1..ids' : schedule'[s].wid = <<s, "drawn", k>>
    BY <1>0 DEF SchedInv, SchedulesInv
  <1>3. SchedulesInv'
    <2>1. waiting' \subseteq Schedule
      BY DEF SchedInv, SchedulesInv
    <2>2. DOMAIN NoSchedule' = DOMAIN NoSchedule
      BY DEF NoSchedule
    <2>3. \A p : OverlapOf(p)' = OverlapOf(p)
      BY DEF OverlapOf, Overlap
    <2> QED BY <1>1, <1>2, <2>1, <2>2, <2>3 DEF SchedulesInv
  <1>4. \A r \in open : /\ Submitted(r) \/ Scheduled(r)
                        /\ Submitted(r)' <=> Submitted(r)
                        /\ Scheduled(r)' <=> Scheduled(r)
    BY <1>0, RunsLater DEF SchedInv, RunsInv
  <1>5. \A r \in open : Scheduled(r) => r.wid # <<s, "drawn", ids + 1>>
    BY <1>0 DEF Scheduled
  <1>6. \A r \in open : \A t \in Schedule :
           Scheduled(r) /\ schedule'[t].on /\ r.wid = schedule'[t].wid
               => r.asked = schedule'[t].asked
    <2>1. \A r \in open : Scheduled(r) /\ schedule'[s].on /\ r.wid = schedule'[s].wid
             => r.asked = schedule'[s].asked
      BY <1>5 DEF SchedInv, RunsInv
    <2> QED BY <1>1, <2>1 DEF SchedInv, RunsInv
  <1>7. RunsInv'
    BY <1>4, <1>6 DEF SchedInv, RunsInv
  <1>8. OpenRunsApart'
    BY DEF SchedInv, OpenRunsApart, ClientNamed
  <1> QED BY <1>3, <1>7, <1>8 DEF SchedInv

\* Every step keeps the open runs apart.
LEMMA SchedStep ==
    ASSUME SchedInv, [SchedNext]_schedVars
    PROVE  SchedInv'
  <1>0. /\ ids \in Nat /\ waiting \subseteq Schedule /\ DOMAIN schedule = Schedule
        /\ \A s \in Schedule : DOMAIN schedule[s] = DOMAIN NoSchedule
        /\ \A s \in Schedule : schedule[s].overlap = OverlapOf(schedule[s].asked)
        /\ \A s \in waiting : schedule[s].on
    BY DEF SchedInv, SchedulesInv
  <1>1. ASSUME NEW s \in Schedule, NEW policy, NEW paused, NEW provider,
               CreateSchedule(s, policy, paused, provider)
        PROVE  SchedInv'
    <2> DEFINE new == [on |-> TRUE, paused |-> paused, asked |-> policy,
                       overlap |-> OverlapOf(policy), wid |-> <<s, "drawn", ids + 1>>,
                       version |-> GetDefinition]
    <2>1. /\ ids' = ids + 1 /\ schedule' = [schedule EXCEPT ![s] = new]
          /\ UNCHANGED <<waiting, open>> /\ ~schedule[s].on
      BY <1>1 DEF CreateSchedule
    <2>2. /\ new.on /\ new.overlap = OverlapOf(new.asked)
          /\ new.wid = <<s, "drawn", ids + 1>> /\ DOMAIN new = DOMAIN NoSchedule
      BY DEF NoSchedule
    <2> HIDE DEF new
    <2>3. /\ schedule'[s] = new /\ DOMAIN schedule' = Schedule
          /\ \A t \in Schedule \ {s} : schedule'[t] = schedule[t]
      BY <1>0, <2>1
    <2> QED BY <1>0, <2>1, <2>2, <2>3, ScheduleChanges
  <1>2. ASSUME NEW s \in Schedule, DeleteSchedule(s) PROVE SchedInv'
    <2>1. /\ schedule' = [schedule EXCEPT ![s] = NoSchedule] /\ waiting' = waiting \ {s}
          /\ UNCHANGED <<open, ids>>
      BY <1>2 DEF DeleteSchedule
    <2>2. ~NoSchedule.on /\ NoSchedule.overlap = OverlapOf(NoSchedule.asked)
      BY DEF NoSchedule, OverlapOf
    <2>3. /\ schedule'[s] = NoSchedule /\ DOMAIN schedule' = Schedule
          /\ \A t \in Schedule \ {s} : schedule'[t] = schedule[t]
      BY <1>0, <2>1
    <2> QED BY <1>0, <2>1, <2>2, <2>3, ScheduleChanges
  <1>3. ASSUME NEW s \in Schedule, PauseSchedule(s) \/ ResumeSchedule(s) PROVE SchedInv'
    <2>1. PICK p \in BOOLEAN : schedule' = [schedule EXCEPT ![s].paused = p]
      BY <1>3 DEF PauseSchedule, ResumeSchedule
    <2>2. UNCHANGED <<waiting, open, ids>>
      BY <1>3 DEF PauseSchedule, ResumeSchedule
    <2> DEFINE new == [schedule[s] EXCEPT !.paused = p]
    <2>3. /\ new.on = schedule[s].on /\ new.overlap = schedule[s].overlap
          /\ new.asked = schedule[s].asked /\ new.wid = schedule[s].wid
          /\ DOMAIN new = DOMAIN NoSchedule
      BY <1>0 DEF NoSchedule
    <2>4. schedule' = [schedule EXCEPT ![s] = new]
      BY <2>1
    <2> HIDE DEF new
    <2>5. /\ schedule'[s] = new /\ DOMAIN schedule' = Schedule
          /\ \A t \in Schedule \ {s} : schedule'[t] = schedule[t]
      BY <1>0, <2>4
    <2> QED BY <1>0, <2>2, <2>3, <2>5, ScheduleChanges
  <1>4. ASSUME NEW s \in Schedule, Fire(s) PROVE SchedInv'
    <2>1. schedule[s].on /\ UNCHANGED <<schedule, ids>>
      BY <1>4 DEF Fire
    <2>2. CASE OpenOf(s) = {} \/ schedule[s].overlap = "allow_all"
      <3>1. /\ StartRun(TemporalId(s), schedule[s].wid, s, schedule[s].asked, schedule[s].version)
            /\ UNCHANGED waiting
        BY <1>4, <2>2 DEF Fire
      <3> QED BY <2>1, <2>2, <3>1, ScheduledStep
    <2>3. CASE ~(OpenOf(s) = {} \/ schedule[s].overlap = "allow_all")
      <3>1. UNCHANGED open /\ waiting' \subseteq waiting \cup {s}
        BY <1>4, <2>3 DEF Fire
      <3>2. SchedulesInv'
        BY <2>1, <3>1 DEF SchedInv, SchedulesInv, NoSchedule, OverlapOf, Overlap
      <3>3. \A x : (Submitted(x)' <=> Submitted(x)) /\ (Scheduled(x)' <=> Scheduled(x))
        BY <2>1 DEF Submitted, Scheduled
      <3> QED BY <2>1, <3>1, <3>2, <3>3 DEF SchedInv, RunsInv, OpenRunsApart, ClientNamed
    <2> QED BY <2>2, <2>3
  <1>5. ASSUME NEW s \in Schedule, FireWaiting(s) PROVE SchedInv'
    <2>1. /\ s \in waiting /\ OpenOf(s) = {} /\ waiting' = waiting \ {s}
          /\ StartRun(TemporalId(s), schedule[s].wid, s, schedule[s].asked, schedule[s].version)
          /\ UNCHANGED <<schedule, ids>>
      BY <1>5 DEF FireWaiting
    <2> QED BY <1>0, <2>1, ScheduledStep
  <1>6. ASSUME NEW stored, RunWorkflowNewId(stored) PROVE SchedInv'
    <2> DEFINE id == <<"wf", "drawn", ids + 1>>
               version == IF stored THEN GetDefinition ELSE 0
    <2>1. /\ ids' = ids + 1 /\ UNCHANGED <<schedule, waiting>>
          /\ StartRun(id, id, "none", "none", version)
      BY <1>6 DEF RunWorkflowNewId
    <2>2. \E k \in Nat : id = <<"wf", "drawn", k>>
      BY <1>0
    <2> HIDE DEF id, version
    <2> QED BY <1>0, <2>1, <2>2, SubmittedStep
  <1>7. ASSUME NEW stored, NEW w \in ClientId, RunWorkflow(w, stored) PROVE SchedInv'
    <2> DEFINE version == IF stored THEN GetDefinition ELSE 0
    <2>1. /\ UNCHANGED <<schedule, waiting, ids>>
          /\ StartRun(w, w, "none", "none", version)
      BY <1>7 DEF RunWorkflow
    <2> HIDE DEF version
    <2> QED BY <1>0, <2>1, SubmittedStep
  <1>8. CASE \/ \E r \in open : Close(r)
             \/ UNCHANGED <<schedule, waiting, open, ids>>
    <2>1. UNCHANGED <<schedule, waiting, ids>> /\ open' \subseteq open
      BY <1>8 DEF Close
    <2>2. SchedulesInv'
      BY <2>1 DEF SchedInv, SchedulesInv, NoSchedule, OverlapOf, Overlap
    <2>3. \A x : (Submitted(x)' <=> Submitted(x)) /\ (Scheduled(x)' <=> Scheduled(x))
      BY <2>1 DEF Submitted, Scheduled
    <2> QED BY <2>1, <2>2, <2>3 DEF SchedInv, RunsInv, OpenRunsApart, ClientNamed
  <1> QED
    BY <1>1, <1>2, <1>3, <1>4, <1>5, <1>6, <1>7, <1>8 DEF SchedNext, schedVars

\* Two runs that are open at once have different workflow_ids, and so do not
\* share pods, transcripts or approval links, unless their schedule asked for
\* allow_all or a client asked for the workflow_id of a schedule's runs.  Nothing
\* is assumed of the ids that clients ask for.
THEOREM OpenRunsStayApart == SchedSpec => []OpenRunsApart
  <1>1. SchedInit => SchedInv
    <2> SUFFICES ASSUME SchedInit PROVE SchedInv
      OBVIOUS
    <2>1. SchedulesInv
      BY DEF SchedInit, SchedulesInv, NoSchedule, OverlapOf, Overlap
    <2> QED BY <2>1 DEF SchedInit, SchedInv, RunsInv, OpenRunsApart
  <1>2. SchedInv /\ [SchedNext]_schedVars => SchedInv'
    BY SchedStep
  <1>3. SchedInv => OpenRunsApart
    BY DEF SchedInv
  <1> QED BY <1>1, <1>2, <1>3, PTL DEF SchedSpec
=============================================================================
