---------------------------- MODULE CliSessions -----------------------------
(***************************************************************************)
(* CLISessionLauncher (workflow/cli_session.py) with the endpoints that    *)
(* call it (temporal/api.py) and the slots it takes from the spawner       *)
(* (spawner/base.py).                                                      *)
(*                                                                         *)
(* launch, terminate and send_message are requests; the timeout monitor is *)
(* a task of its own.  terminate and send_message hold _session_lock, the  *)
(* monitor does not.  A destroy is two steps: the gateway deletes the      *)
(* sandbox, and the caller wakes up, gives the slot back and sets the      *)
(* status.                                                                 *)
(***************************************************************************)
EXTENDS Integers, FiniteSets

CONSTANTS
    Session,    \* escalations that launch a session
    Remover,    \* DELETE /v1/cli-sessions/{id} requests
    Sender,     \* POST /v1/cli-sessions/{id}/messages requests
    MaxSlots,   \* MAX_SPAWNED_PODS
    Nobody

ASSUME CliAssumption ==
    /\ MaxSlots \in Nat
    /\ Nobody \notin Session \cup Remover \cup Sender
    /\ Remover \cap Sender = {}

VARIABLES
    launch,     \* where each launch() is
    status,     \* _sessions[id].status, "none" before it is tracked
    box,        \* the session's sandbox at the gateway
    known,      \* sessions whose sandbox the spawner tracks
    slots,      \* _active_count
    sessionLock,\* the holder of _session_lock
    remove,     \* each DELETE request: point, session, outcome of the deletion
    send,       \* each message request: point, session, messages it has read
    file,       \* the message file in each sandbox, as the set of its messages
    sent,       \* requests answered {"status": "sent"}
    loop,       \* the timeout monitor: point, sessions to visit, current, outcome
    old,        \* sessions past max_session_seconds
    held,       \* history: sessions whose slot has not been given back
    extra,      \* history: slots given back for a session that held none
    timedOut,   \* history: sessions the monitor ended
    lost        \* history: messages that a failed write left out of the file

sessionVars == <<launch, status, box, known, slots, held, extra>>
cliVars == <<sessionVars, sessionLock, remove, send, file, sent, loop, old, timedOut, lost>>

\* How _do_destroy ends: the sandbox is deleted; the deletion is refused and
\* the refusal swallowed; or (not tracked) the gateway query raises.
Outcome == {"deleted", "swallowed", "raised"}

CliTypeOK ==
    /\ launch \in [Session -> {"idle", "create", "done"}]
    /\ status \in [Session -> {"none", "running", "terminated", "failed"}]
    /\ box \in [Session -> {"none", "up", "gone"}]
    /\ known \subseteq Session
    /\ slots \in (-Cardinality(Session))..MaxSlots
    /\ sessionLock \in Remover \cup Sender \cup {Nobody}
    /\ remove \in [Remover -> [at : {"idle", "lock", "delete", "finish", "done"},
                               s : Session \cup {Nobody}, out : Outcome]]
    /\ send \in [Sender -> [at : {"idle", "lock", "read", "write", "done"},
                            s : Session \cup {Nobody}, read : SUBSET Sender]]
    /\ file \in [Session -> SUBSET Sender]
    /\ sent \subseteq Sender
    /\ loop \in [at : {"sleep", "scan", "delete", "hung", "finish", "off"},
                 todo : SUBSET Session, s : Session \cup {Nobody}, out : Outcome]
    /\ old \subseteq Session /\ held \subseteq Session /\ timedOut \subseteq Session
    /\ lost \subseteq Sender
    /\ extra \in Nat

CliInit ==
    /\ launch = [s \in Session |-> "idle"]
    /\ status = [s \in Session |-> "none"]
    /\ box = [s \in Session |-> "none"]
    /\ known = {} /\ slots = 0 /\ sessionLock = Nobody
    /\ remove = [r \in Remover |-> [at |-> "idle", s |-> Nobody, out |-> "deleted"]]
    /\ send = [m \in Sender |-> [at |-> "idle", s |-> Nobody, read |-> {}]]
    /\ file = [s \in Session |-> {}]
    /\ sent = {} /\ old = {} /\ held = {} /\ timedOut = {} /\ lost = {} /\ extra = 0
    /\ loop = [at |-> "sleep", todo |-> {}, s |-> Nobody, out |-> "deleted"]

-----------------------------------------------------------------------------
(* launch()                                                                *)

LaunchAdmit(s) ==
    /\ launch[s] = "idle" /\ slots < MaxSlots
    /\ launch' = [launch EXCEPT ![s] = "create"]
    /\ slots' = slots + 1
    /\ held' = held \cup {s}
    /\ UNCHANGED <<status, box, known, extra, sessionLock, remove, send, file, sent,
                   loop, old, timedOut, lost>>

\* The cap is reached: launch() raises, and nothing was taken.
LaunchRefuse(s) ==
    /\ launch[s] = "idle" /\ slots >= MaxSlots
    /\ launch' = [launch EXCEPT ![s] = "done"]
    /\ UNCHANGED <<status, box, known, slots, held, extra, sessionLock, remove, send,
                   file, sent, loop, old, timedOut, lost>>

LaunchOk(s) ==
    /\ launch[s] = "create"
    /\ launch' = [launch EXCEPT ![s] = "done"]
    /\ status' = [status EXCEPT ![s] = "running"]
    /\ box' = [box EXCEPT ![s] = "up"]
    /\ known' = known \cup {s}
    /\ UNCHANGED <<slots, held, extra, sessionLock, remove, send, file, sent, loop,
                   old, timedOut, lost>>

\* spawn() raises, cleaned up, and gives the slot back itself.
LaunchFail(s) ==
    /\ launch[s] = "create"
    /\ launch' = [launch EXCEPT ![s] = "done"]
    /\ slots' = slots - 1
    /\ held' = held \ {s}
    /\ UNCHANGED <<status, box, known, extra, sessionLock, remove, send, file, sent,
                   loop, old, timedOut, lost>>

\* max_session_seconds pass.
GrowOld(s) ==
    /\ status[s] = "running" /\ s \notin old
    /\ old' = old \cup {s}
    /\ UNCHANGED <<sessionVars, sessionLock, remove, send, file, sent, loop, timedOut, lost>>

-----------------------------------------------------------------------------
(* AgentSpawner.destroy(), used by terminate() and by the monitor          *)

\* The gateway's part.  A query is only made for a sandbox nobody tracks.
DeleteBox(s, out) ==
    /\ out = "raised" => s \notin known
    /\ box' = IF out = "deleted" THEN [box EXCEPT ![s] = "gone"] ELSE box

\* destroy() gives a slot back however _do_destroy ended.
Bug_GiveBack(s) == slots' = slots /\ held' = held \ {s} /\ UNCHANGED extra
GiveBack(s) ==
    /\ slots' = IF slots > 0 THEN slots - 1 ELSE 0
    /\ held' = held \ {s}
    /\ extra' = IF s \in held THEN extra ELSE extra + 1

\* The caller's part: tracking, slot, status.
EndSession(s, out) ==
    /\ GiveBack(s)
    /\ known' = IF out = "deleted" THEN known \ {s} ELSE known
    /\ status' = [status EXCEPT ![s] = IF out = "raised" THEN "failed" ELSE "terminated"]

-----------------------------------------------------------------------------
(* terminate(): the session is known, its status is not looked at          *)

Bug_SessionLockFree(q) == TRUE
SessionLockFree(q) == sessionLock = Nobody

RemoveRequest(r, s) ==
    /\ remove[r].at = "idle" /\ status[s] # "none"
    /\ remove' = [remove EXCEPT ![r].at = "lock", ![r].s = s]
    /\ UNCHANGED <<sessionVars, sessionLock, send, file, sent, loop, old, timedOut, lost>>

RemoveLock(r) ==
    /\ remove[r].at = "lock" /\ SessionLockFree(r)
    /\ sessionLock' = r
    /\ remove' = [remove EXCEPT ![r].at = "delete"]
    /\ UNCHANGED <<sessionVars, send, file, sent, loop, old, timedOut, lost>>

RemoveDelete(r, out) ==
    /\ remove[r].at = "delete"
    /\ DeleteBox(remove[r].s, out)
    /\ remove' = [remove EXCEPT ![r].at = "finish", ![r].out = out]
    /\ UNCHANGED <<launch, status, known, slots, held, extra, sessionLock, send, file,
                   sent, loop, old, timedOut, lost>>

RemoveFinish(r) ==
    /\ remove[r].at = "finish"
    /\ EndSession(remove[r].s, remove[r].out)
    /\ remove' = [remove EXCEPT ![r].at = "done", ![r].out = "deleted"]
    /\ sessionLock' = Nobody
    /\ UNCHANGED <<launch, box, send, file, sent, loop, old, timedOut, lost>>

-----------------------------------------------------------------------------
(* send_message(): read the file, append, write it back                    *)

\* The endpoint answers 409 at once for a session that is not running.
SendRequest(m, s) ==
    /\ send[m].at = "idle" /\ status[s] = "running"
    /\ send' = [send EXCEPT ![m].at = "lock", ![m].s = s]
    /\ UNCHANGED <<sessionVars, sessionLock, remove, file, sent, loop, old, timedOut, lost>>

\* The status is tested again under the lock.
SendLock(m) ==
    /\ send[m].at = "lock" /\ SessionLockFree(m)
    /\ IF status[send[m].s] = "running"
       THEN /\ send' = [send EXCEPT ![m].at = "read"]
            /\ sessionLock' = m
       ELSE /\ send' = [send EXCEPT ![m].at = "done"]
            /\ UNCHANGED sessionLock
    /\ UNCHANGED <<sessionVars, remove, file, sent, loop, old, timedOut, lost>>

\* A missing file or sandbox reads as empty.
SendRead(m) ==
    /\ send[m].at = "read"
    /\ send' = [send EXCEPT ![m].at = "write",
                            ![m].read = IF box[send[m].s] = "up"
                                        THEN file[send[m].s] ELSE {}]
    /\ UNCHANGED <<sessionVars, sessionLock, remove, file, sent, loop, old, timedOut, lost>>

\* What the write command may leave in the file: the old content if it was not
\* run, or the new content, or its first lines, since the shell truncates the file
\* before it writes; the new message is the last line.
NewContent(m) == send[m].read \cup {m}
WriteLeaves(m) == {file[send[m].s], NewContent(m)} \cup SUBSET send[m].read

WriteFile(m, content, due) ==
    /\ content \in WriteLeaves(m)
    /\ file' = [file EXCEPT ![send[m].s] = content]
    /\ lost' = lost \cup (due \ content)

\* _do_write_file reads the command's output to its end and ignores its exit
\* code, so that the request is answered "sent" whatever the command left.
\* Writing to a sandbox that is gone raises.
SendWrite(m, content) ==
    /\ send[m].at = "write"
    /\ send' = [send EXCEPT ![m].at = "done", ![m].read = {}]
    /\ sessionLock' = Nobody
    /\ IF box[send[m].s] = "up"
       THEN WriteFile(m, content, NewContent(m)) /\ sent' = sent \cup {m}
       ELSE UNCHANGED <<file, sent, lost>>
    /\ UNCHANGED <<sessionVars, remove, loop, old, timedOut>>

\* The read or the write raises: the lock is released and nothing is sent, but
\* the command may have run in part or in full.
SendFail(m, content) ==
    /\ send[m].at \in {"read", "write"}
    /\ send' = [send EXCEPT ![m].at = "done", ![m].read = {}]
    /\ sessionLock' = Nobody
    /\ IF send[m].at = "write" /\ box[send[m].s] = "up"
       THEN WriteFile(m, content, send[m].read)
       ELSE UNCHANGED <<file, lost>>
    /\ UNCHANGED <<sessionVars, remove, sent, loop, old, timedOut>>

-----------------------------------------------------------------------------
(* _timeout_loop, without the session lock                                 *)

\* The sleep ends; ages are computed with the time of this moment.
LoopWake ==
    /\ loop.at = "sleep"
    /\ loop' = [loop EXCEPT !.at = "scan", !.todo = old]
    /\ UNCHANGED <<sessionVars, sessionLock, remove, send, file, sent, old, timedOut, lost>>

LoopVisit(s) ==
    /\ loop.at = "scan" /\ s \in loop.todo
    /\ loop' = IF status[s] = "running"
                THEN [loop EXCEPT !.todo = @ \ {s}, !.s = s, !.at = "delete"]
                ELSE [loop EXCEPT !.todo = @ \ {s}]
    /\ UNCHANGED <<sessionVars, sessionLock, remove, send, file, sent, old, timedOut, lost>>

LoopDelete(out) ==
    /\ loop.at = "delete"
    /\ DeleteBox(loop.s, out)
    /\ loop' = [loop EXCEPT !.at = "finish", !.out = out]
    /\ UNCHANGED <<launch, status, known, slots, held, extra, sessionLock, remove, send,
                   file, sent, old, timedOut, lost>>

\* The gateway calls of destroy() run in worker threads and have no deadline
\* (_detach_provider): one that never answers blocks the monitor there, whether
\* or not the gateway did what it was asked for.
LoopHang(applied) ==
    /\ loop.at = "delete"
    /\ loop' = [loop EXCEPT !.at = "hung"]
    /\ IF applied THEN DeleteBox(loop.s, "deleted") ELSE UNCHANGED box
    /\ UNCHANGED <<launch, status, known, slots, held, extra, sessionLock, remove, send,
                   file, sent, old, timedOut, lost>>

\* An exception of destroy() is caught inside the loop: the session is failed
\* and the loop goes on.
Bug_LoopNext(out) == IF out = "raised" THEN "dead" ELSE "scan"
LoopNext(out) == "scan"

LoopFinish ==
    /\ loop.at = "finish"
    /\ EndSession(loop.s, loop.out)
    /\ timedOut' = timedOut \cup {loop.s}
    /\ loop' = [loop EXCEPT !.at = LoopNext(loop.out), !.s = Nobody, !.out = "deleted"]
    /\ UNCHANGED <<launch, box, sessionLock, remove, send, file, sent, old, lost>>

LoopSleep ==
    /\ loop.at = "scan" /\ loop.todo = {}
    /\ loop' = [loop EXCEPT !.at = "sleep"]
    /\ UNCHANGED <<sessionVars, sessionLock, remove, send, file, sent, old, timedOut, lost>>

\* shutdown() cancels the task at an await.  destroy()'s finally clause still
\* gives the slot back, the status stays "running", and a deletion that was
\* under way may be applied by its thread.
Shutdown(applied) ==
    /\ loop.at \in {"sleep", "delete", "hung", "finish"}
    /\ loop' = [at |-> "off", todo |-> {}, s |-> Nobody, out |-> "deleted"]
    /\ IF loop.at = "sleep" THEN UNCHANGED <<slots, held, extra>> ELSE GiveBack(loop.s)
    /\ IF loop.at = "delete" /\ applied THEN DeleteBox(loop.s, "deleted") ELSE UNCHANGED box
    /\ UNCHANGED <<launch, status, known, sessionLock, remove, send, file, sent,
                   old, timedOut, lost>>

-----------------------------------------------------------------------------
LaunchStep(s) == LaunchAdmit(s) \/ LaunchRefuse(s) \/ LaunchOk(s) \/ LaunchFail(s)

RemoveStep(r) ==
    RemoveLock(r) \/ RemoveFinish(r) \/ \E out \in Outcome : RemoveDelete(r, out)

SendStep(m) ==
    \/ SendLock(m) \/ SendRead(m)
    \/ \E content \in SUBSET Sender : SendWrite(m, content) \/ SendFail(m, content)

LoopStep ==
    \/ LoopWake \/ LoopFinish \/ LoopSleep
    \/ \E s \in Session : LoopVisit(s)
    \/ \E out \in Outcome : LoopDelete(out)

CliNext ==
    \/ \E s \in Session : LaunchStep(s) \/ GrowOld(s)
    \/ \E r \in Remover : RemoveStep(r) \/ \E s \in Session : RemoveRequest(r, s)
    \/ \E m \in Sender : SendStep(m) \/ \E s \in Session : SendRequest(m, s)
    \/ LoopStep \/ \E applied \in BOOLEAN : LoopHang(applied) \/ Shutdown(applied)

CliSpec == CliInit /\ [][CliNext]_cliVars

-----------------------------------------------------------------------------
(* Properties                                                              *)

\* A message answered "sent" is in the sandbox's message file as long as the
\* sandbox exists, unless a write command that failed left it out: appending is
\* a read and a write, and two senders must not overwrite each other.
MessagesKept ==
    \A m \in sent : box[send[m].s] = "up" => m \in file[send[m].s] \cup lost

\* "a concurrent terminate() cannot change the session state between check and
\* write" (send_message): only the monitor, which takes no lock, can.
StateHeld ==
    \A m \in Sender : send[m].at \in {"read", "write"} =>
        status[send[m].s] = "running" \/ send[m].s \in timedOut

\* The spawner's count never exceeds the sessions that hold a slot, and falls
\* below them only by the destroys of sessions that had given theirs back: a
\* DELETE of an ended session, or one that races the monitor.
SlotDrift == Cardinality(held) - slots \in 0..extra

\* The monitor ends every session that has outlived its time, whatever its
\* deletions answer, unless it was shut down or a deletion never answers ("the
\* timeout monitor can stop or block", launch()).
ExpiredEnds ==
    \A s \in Session :
        s \in old /\ status[s] = "running" ~>
            status[s] # "running" \/ loop.at \in {"off", "hung"}
=============================================================================
