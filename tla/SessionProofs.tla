--------------------------- MODULE SessionProofs ----------------------------
(***************************************************************************)
(* Theorems about the two services that keep a session open.  CliSessions, *)
(* for every number of sessions, of requests and of slots: no message that *)
(* was answered "sent" is overwritten by another sender, unless a write    *)
(* command failed, only the monitor ends a session under a sender, and     *)
(* _active_count drifts by superfluous destroys only.                      *)
(* ChatRunner, for every set of messages and every size of the context:    *)
(* turns that clients were told of are kept, a turn's context is complete  *)
(* and the history rebuilt from it pairs each tool call with its own       *)
(* result, and a cancel lets one more turn through at most.                *)
(***************************************************************************)
EXTENDS ChatRunner, CliSessions, FiniteSetTheorems, WellFoundedInduction, TLAPS

-----------------------------------------------------------------------------
(* CliSessions                                                             *)

\* The part of CliTypeOK that the proof needs; the sessions may be infinitely
\* many, so that the number of slots is just an integer.
CliTypes ==
    /\ launch \in [Session -> {"idle", "create", "done"}]
    /\ status \in [Session -> {"none", "running", "terminated", "failed"}]
    /\ box \in [Session -> {"none", "up", "gone"}]
    /\ slots \in Int /\ extra \in Nat
    /\ sessionLock \in Remover \cup Sender \cup {Nobody}
    /\ remove \in [Remover -> [at : {"idle", "lock", "delete", "finish", "done"},
                               s : Session \cup {Nobody}, out : Outcome]]
    /\ send \in [Sender -> [at : {"idle", "lock", "read", "write", "done"},
                            s : Session \cup {Nobody}, read : SUBSET Sender]]
    /\ file \in [Session -> SUBSET Sender]
    /\ sent \subseteq Sender
    /\ loop \in [at : {"sleep", "scan", "delete", "hung", "finish", "off"},
                 todo : SUBSET Session, s : Session \cup {Nobody}, out : Outcome]
    /\ old \subseteq Session /\ held \subseteq Session /\ timedOut \subseteq Session
    /\ lost \subseteq Sender

\* Everybody who works on a session works on one whose launch() is over.
Launched ==
    /\ \A s \in Session : status[s] # "none" => launch[s] = "done"
    /\ \A r \in Remover : remove[r].at # "idle" =>
          remove[r].s \in Session /\ launch[remove[r].s] = "done"
    /\ \A m \in Sender : send[m].at # "idle" =>
          send[m].s \in Session /\ launch[send[m].s] = "done"
    /\ \A s \in old \cup loop.todo : launch[s] = "done"
    /\ loop.at \in {"delete", "hung", "finish"} => loop.s \in Session /\ launch[loop.s] = "done"

\* _session_lock admits one at a time.
LockInv ==
    /\ \A r \in Remover : remove[r].at \in {"delete", "finish"} => sessionLock = r
    /\ \A m \in Sender : send[m].at \in {"read", "write"} => sessionLock = m

\* What a sender has read is still what the file holds when it writes.
FileInv ==
    /\ \A m \in sent : send[m].at = "done"
    /\ \A m \in Sender : send[m].at = "write" /\ box[send[m].s] = "up" =>
          send[m].read = file[send[m].s]

\* A slot is held from its admission, and by every launch() under way.
SlotInv ==
    /\ IsFiniteSet(held)
    /\ \A s \in held : launch[s] # "idle"
    /\ \A s \in Session : launch[s] = "create" => s \in held
    /\ slots <= Cardinality(held) /\ Cardinality(held) <= slots + extra

CliInv ==
    CliTypes /\ Launched /\ LockInv /\ FileInv /\ MessagesKept /\ StateHeld /\ SlotInv
USE DEF sessionVars, cliVars, Outcome

\* Every variable keeps its type.
LEMMA CliTypesStep ==
    ASSUME CliTypes, Launched, [CliNext]_cliVars
    PROVE  CliTypes'
  <1> USE DEF CliTypes, Launched
  <1>1. CASE \E s \in Session : LaunchAdmit(s) \/ LaunchRefuse(s)
    BY <1>1 DEF LaunchAdmit, LaunchRefuse
  <1>2. CASE \E s \in Session : LaunchOk(s)
    BY <1>2 DEF LaunchOk
  <1>3. CASE \E s \in Session : LaunchFail(s)
    BY <1>3 DEF LaunchFail
  <1>4. CASE \E s \in Session : GrowOld(s)
    BY <1>4 DEF GrowOld
  <1>5. CASE \E r \in Remover, s \in Session : RemoveRequest(r, s)
    <2>1. PICK r \in Remover, s \in Session : RemoveRequest(r, s)
      BY <1>5
    <2>2. remove' \in [Remover -> [at : {"idle", "lock", "delete", "finish", "done"},
              s : Session \cup {Nobody}, out : Outcome]]
      <3>1. remove[r] \in [at : {"idle", "lock", "delete", "finish", "done"},
              s : Session \cup {Nobody}, out : Outcome]
        OBVIOUS
      <3>2. [remove[r] EXCEPT !.at = "lock", !.s = s] \in [at : {"idle", "lock", "delete", "finish", "done"},
              s : Session \cup {Nobody}, out : Outcome]
        BY <2>1, <3>1 DEF RemoveRequest
      <3>3. remove' = [remove EXCEPT ![r] = [remove[r] EXCEPT !.at = "lock", !.s = s]]
        BY <2>1 DEF RemoveRequest
      <3> QED BY <3>2, <3>3
    <2> QED BY <2>1, <2>2 DEF RemoveRequest
  <1>6. CASE \E r \in Remover : RemoveLock(r)
    BY <1>6 DEF RemoveLock, SessionLockFree
  <1>7. CASE \E r \in Remover, out \in Outcome : RemoveDelete(r, out)
    <2>1. PICK r \in Remover, out \in Outcome : RemoveDelete(r, out)
      BY <1>7
    <2>2. remove' \in [Remover -> [at : {"idle", "lock", "delete", "finish", "done"},
              s : Session \cup {Nobody}, out : Outcome]]
      <3>1. remove[r] \in [at : {"idle", "lock", "delete", "finish", "done"},
              s : Session \cup {Nobody}, out : Outcome]
        OBVIOUS
      <3>2. [remove[r] EXCEPT !.at = "finish", !.out = out] \in [at : {"idle", "lock", "delete", "finish", "done"},
              s : Session \cup {Nobody}, out : Outcome]
        BY <2>1, <3>1 DEF RemoveDelete, DeleteBox
      <3>3. remove' = [remove EXCEPT ![r] = [remove[r] EXCEPT !.at = "finish", !.out = out]]
        BY <2>1 DEF RemoveDelete, DeleteBox
      <3> QED BY <3>2, <3>3
    <2> QED BY <2>1, <2>2 DEF RemoveDelete, DeleteBox
  <1>8. CASE \E r \in Remover : RemoveFinish(r)
    <2>1. PICK r \in Remover : RemoveFinish(r)
      BY <1>8
    <2>2. remove' \in [Remover -> [at : {"idle", "lock", "delete", "finish", "done"},
              s : Session \cup {Nobody}, out : Outcome]]
      <3>0. remove[r] \in [at : {"idle", "lock", "delete", "finish", "done"},
                           s : Session \cup {Nobody}, out : Outcome]
        OBVIOUS
      <3>1. [remove[r] EXCEPT !.at = "done", !.out = "deleted"]
               \in [at : {"idle", "lock", "delete", "finish", "done"},
                    s : Session \cup {Nobody}, out : Outcome]
        BY <3>0 DEF Outcome
      <3>2. remove' = [remove EXCEPT ![r] = [remove[r] EXCEPT !.at = "done", !.out = "deleted"]]
        BY <2>1 DEF RemoveFinish
      <3> QED BY <3>1, <3>2
    <2> QED BY <2>1, <2>2 DEF RemoveFinish, EndSession, GiveBack
  <1>9. CASE \E m \in Sender, s \in Session : SendRequest(m, s)
    <2>1. PICK m \in Sender, s \in Session : SendRequest(m, s)
      BY <1>9
    <2>2. send' \in [Sender -> [at : {"idle", "lock", "read", "write", "done"},
              s : Session \cup {Nobody}, read : SUBSET Sender]]
      <3>1. send[m] \in [at : {"idle", "lock", "read", "write", "done"},
              s : Session \cup {Nobody}, read : SUBSET Sender]
        OBVIOUS
      <3>2. [send[m] EXCEPT !.at = "lock", !.s = s] \in [at : {"idle", "lock", "read", "write", "done"},
              s : Session \cup {Nobody}, read : SUBSET Sender]
        BY <2>1, <3>1 DEF SendRequest
      <3>3. send' = [send EXCEPT ![m] = [send[m] EXCEPT !.at = "lock", !.s = s]]
        BY <2>1 DEF SendRequest
      <3> QED BY <3>2, <3>3
    <2> QED BY <2>1, <2>2 DEF SendRequest
  <1>10. CASE \E m \in Sender : SendLock(m)
    BY <1>10 DEF SendLock, SessionLockFree
  <1>11. CASE \E m \in Sender : SendRead(m)
    <2>1. PICK m \in Sender : SendRead(m)
      BY <1>11
    <2>2. send' \in [Sender -> [at : {"idle", "lock", "read", "write", "done"},
              s : Session \cup {Nobody}, read : SUBSET Sender]]
      <3>1. send[m] \in [at : {"idle", "lock", "read", "write", "done"},
              s : Session \cup {Nobody}, read : SUBSET Sender]
        OBVIOUS
      <3>2. [send[m] EXCEPT !.at = "write",
               !.read = IF box[send[m].s] = "up" THEN file[send[m].s] ELSE {}] \in [at : {"idle", "lock", "read", "write", "done"},
              s : Session \cup {Nobody}, read : SUBSET Sender]
        BY <2>1, <3>1 DEF SendRead
      <3>3. send' = [send EXCEPT ![m] = [send[m] EXCEPT !.at = "write",
               !.read = IF box[send[m].s] = "up" THEN file[send[m].s] ELSE {}]]
        BY <2>1 DEF SendRead
      <3> QED BY <3>2, <3>3
    <2> QED BY <2>1, <2>2 DEF SendRead
  <1>12. CASE \E m \in Sender, content \in SUBSET Sender :
            SendWrite(m, content) \/ SendFail(m, content)
    <2>1. PICK m \in Sender, content \in SUBSET Sender :
             SendWrite(m, content) \/ SendFail(m, content)
      BY <1>12
    <2>2. send' \in [Sender -> [at : {"idle", "lock", "read", "write", "done"},
              s : Session \cup {Nobody}, read : SUBSET Sender]]
      <3>0. send[m] \in [at : {"idle", "lock", "read", "write", "done"},
                         s : Session \cup {Nobody}, read : SUBSET Sender]
        OBVIOUS
      <3>1. [send[m] EXCEPT !.at = "done", !.read = {}]
               \in [at : {"idle", "lock", "read", "write", "done"},
                    s : Session \cup {Nobody}, read : SUBSET Sender]
        BY <3>0
      <3>2. send' = [send EXCEPT ![m] = [send[m] EXCEPT !.at = "done", !.read = {}]]
        BY <2>1 DEF SendWrite, SendFail
      <3> QED BY <3>1, <3>2
    <2>3. /\ file' \in [Session -> SUBSET Sender] /\ lost' \subseteq Sender
          /\ sent' \subseteq Sender
      BY <2>1 DEF SendWrite, SendFail, WriteFile, WriteLeaves, NewContent
    <2> QED BY <2>1, <2>2, <2>3 DEF SendWrite, SendFail
  <1>14. CASE LoopWake
    BY <1>14 DEF LoopWake
  <1>15. CASE LoopSleep
    BY <1>15 DEF LoopSleep
  <1>16. CASE \E s \in Session : LoopVisit(s)
    <2>1. PICK s \in Session : LoopVisit(s)
      BY <1>16
    <2>2. loop' \in [at : {"sleep", "scan", "delete", "hung", "finish", "off"},
                    todo : SUBSET Session, s : Session \cup {Nobody}, out : Outcome]
      <3>1. \/ loop' = [loop EXCEPT !.todo = @ \ {s}, !.s = s, !.at = "delete"]
            \/ loop' = [loop EXCEPT !.todo = @ \ {s}]
        BY <2>1 DEF LoopVisit
      <3>2. loop.todo \ {s} \in SUBSET Session
        OBVIOUS
      <3> QED BY <3>1, <3>2
    <2> QED BY <2>1, <2>2 DEF LoopVisit
  <1>17. CASE \E out \in Outcome : LoopDelete(out)
    <2>1. PICK out \in Outcome : LoopDelete(out)
      BY <1>17
    <2>2. loop' = [loop EXCEPT !.at = "finish", !.out = out]
      BY <2>1 DEF LoopDelete
    <2>3. box' \in [Session -> {"none", "up", "gone"}]
      BY <2>1 DEF LoopDelete, DeleteBox
    <2> QED BY <2>1, <2>2, <2>3 DEF LoopDelete
  <1>18. CASE LoopFinish
    <2>1. loop' = [loop EXCEPT !.at = "scan", !.s = Nobody, !.out = "deleted"]
      BY <1>18 DEF LoopFinish, LoopNext
    <2>2. loop' \in [at : {"sleep", "scan", "delete", "hung", "finish", "off"},
                    todo : SUBSET Session, s : Session \cup {Nobody}, out : Outcome]
      BY <2>1 DEF Outcome
    <2> QED BY <1>18, <2>2 DEF LoopFinish, EndSession, GiveBack
  <1>19. CASE \E applied \in BOOLEAN : LoopHang(applied) \/ Shutdown(applied)
    BY <1>19 DEF LoopHang, Shutdown, DeleteBox, GiveBack
  <1>20. CASE UNCHANGED cliVars
    BY <1>20
  <1> QED
    BY <1>1, <1>2, <1>3, <1>4, <1>5, <1>6, <1>7, <1>8,
       <1>9, <1>10, <1>11, <1>12, <1>14, <1>15, <1>16, <1>17, <1>18, <1>19, <1>20
       DEF CliNext, LaunchStep, RemoveStep, SendStep, LoopStep

\* A launch() that is over stays so, and only such sessions are worked on.
LEMMA LaunchedStep ==
    ASSUME CliTypes, Launched, [CliNext]_cliVars
    PROVE  Launched'
  <1> USE DEF CliTypes, Launched
  <1>1. CASE \E s \in Session : LaunchAdmit(s) \/ LaunchRefuse(s)
    BY <1>1 DEF LaunchAdmit, LaunchRefuse
  <1>2. CASE \E s \in Session : LaunchOk(s)
    BY <1>2 DEF LaunchOk
  <1>3. CASE \E s \in Session : LaunchFail(s)
    BY <1>3 DEF LaunchFail
  <1>4. CASE \E s \in Session : GrowOld(s)
    BY <1>4 DEF GrowOld
  <1>5. CASE \E r \in Remover, s \in Session : RemoveRequest(r, s)
    BY <1>5 DEF RemoveRequest
  <1>6. CASE \E r \in Remover : RemoveLock(r)
    BY <1>6 DEF RemoveLock, SessionLockFree
  <1>7. CASE \E r \in Remover, out \in Outcome : RemoveDelete(r, out)
    BY <1>7 DEF RemoveDelete, DeleteBox
  <1>8. CASE \E r \in Remover : RemoveFinish(r)
    BY <1>8 DEF RemoveFinish, EndSession, GiveBack
  <1>9. CASE \E m \in Sender, s \in Session : SendRequest(m, s)
    BY <1>9 DEF SendRequest
  <1>10. CASE \E m \in Sender : SendLock(m)
    <2>1. PICK m \in Sender : SendLock(m)
      BY <1>10
    <2>2. CASE status[send[m].s] = "running"
      BY <2>1, <2>2 DEF SendLock, SessionLockFree
    <2>3. CASE status[send[m].s] # "running"
      BY <2>1, <2>3 DEF SendLock, SessionLockFree
    <2> QED BY <2>2, <2>3
  <1>11. CASE \E m \in Sender : SendRead(m)
    BY <1>11 DEF SendRead
  <1>12. CASE \E m \in Sender, content \in SUBSET Sender : SendWrite(m, content)
    BY <1>12 DEF SendWrite, WriteFile, WriteLeaves, NewContent
  <1>13. CASE \E m \in Sender, content \in SUBSET Sender : SendFail(m, content)
    BY <1>13 DEF SendFail, WriteFile, WriteLeaves, NewContent
  <1>14. CASE LoopWake
    BY <1>14 DEF LoopWake
  <1>15. CASE LoopSleep
    BY <1>15 DEF LoopSleep
  <1>16. CASE \E s \in Session : LoopVisit(s)
    BY <1>16 DEF LoopVisit
  <1>17. CASE \E out \in Outcome : LoopDelete(out)
    BY <1>17 DEF LoopDelete, DeleteBox
  <1>18. CASE LoopFinish
    BY <1>18 DEF LoopFinish, LoopNext, EndSession, GiveBack
  <1>19. CASE \E applied \in BOOLEAN : LoopHang(applied) \/ Shutdown(applied)
    BY <1>19 DEF LoopHang, Shutdown, DeleteBox, GiveBack
  <1>20. CASE UNCHANGED cliVars
    BY <1>20
  <1> QED
    BY <1>1, <1>2, <1>3, <1>4, <1>5, <1>6, <1>7, <1>8,
       <1>9, <1>10, <1>11, <1>12, <1>13, <1>14, <1>15, <1>16, <1>17, <1>18, <1>19, <1>20
       DEF CliNext, LaunchStep, RemoveStep, SendStep, LoopStep

\* The lock is taken when it is free, and given back by its holder.
LEMMA LockStep ==
    ASSUME CliTypes, LockInv, [CliNext]_cliVars
    PROVE  LockInv'
  <1> USE CliAssumption DEF CliTypes, LockInv
  <1>1. CASE \E s \in Session : LaunchAdmit(s) \/ LaunchRefuse(s)
    BY <1>1 DEF LaunchAdmit, LaunchRefuse
  <1>2. CASE \E s \in Session : LaunchOk(s)
    BY <1>2 DEF LaunchOk
  <1>3. CASE \E s \in Session : LaunchFail(s)
    BY <1>3 DEF LaunchFail
  <1>4. CASE \E s \in Session : GrowOld(s)
    BY <1>4 DEF GrowOld
  <1>5. CASE \E r \in Remover, s \in Session : RemoveRequest(r, s)
    BY <1>5 DEF RemoveRequest
  <1>6. CASE \E r \in Remover : RemoveLock(r)
    BY <1>6 DEF RemoveLock, SessionLockFree
  <1>7. CASE \E r \in Remover, out \in Outcome : RemoveDelete(r, out)
    BY <1>7 DEF RemoveDelete, DeleteBox
  <1>8. CASE \E r \in Remover : RemoveFinish(r)
    BY <1>8 DEF RemoveFinish, EndSession, GiveBack
  <1>9. CASE \E m \in Sender, s \in Session : SendRequest(m, s)
    BY <1>9 DEF SendRequest
  <1>10. CASE \E m \in Sender : SendLock(m)
    BY <1>10 DEF SendLock, SessionLockFree
  <1>11. CASE \E m \in Sender : SendRead(m)
    BY <1>11 DEF SendRead
  <1>12. CASE \E m \in Sender, content \in SUBSET Sender : SendWrite(m, content)
    BY <1>12 DEF SendWrite, WriteFile, WriteLeaves, NewContent
  <1>13. CASE \E m \in Sender, content \in SUBSET Sender : SendFail(m, content)
    BY <1>13 DEF SendFail, WriteFile, WriteLeaves, NewContent
  <1>14. CASE LoopWake
    BY <1>14 DEF LoopWake
  <1>15. CASE LoopSleep
    BY <1>15 DEF LoopSleep
  <1>16. CASE \E s \in Session : LoopVisit(s)
    BY <1>16 DEF LoopVisit
  <1>17. CASE \E out \in Outcome : LoopDelete(out)
    BY <1>17 DEF LoopDelete, DeleteBox
  <1>18. CASE LoopFinish
    BY <1>18 DEF LoopFinish, LoopNext, EndSession, GiveBack
  <1>19. CASE \E applied \in BOOLEAN : LoopHang(applied) \/ Shutdown(applied)
    BY <1>19 DEF LoopHang, Shutdown, DeleteBox, GiveBack
  <1>20. CASE UNCHANGED cliVars
    BY <1>20
  <1> QED
    BY <1>1, <1>2, <1>3, <1>4, <1>5, <1>6, <1>7, <1>8,
       <1>9, <1>10, <1>11, <1>12, <1>13, <1>14, <1>15, <1>16, <1>17, <1>18, <1>19, <1>20
       DEF CliNext, LaunchStep, RemoveStep, SendStep, LoopStep

\* Nobody writes the file between the read and the write of a sender, and no
\* sandbox appears between them either.
LEMMA FileStep ==
    ASSUME CliTypes, Launched, LockInv, FileInv, MessagesKept, [CliNext]_cliVars
    PROVE  FileInv' /\ MessagesKept'
  <1> USE CliAssumption DEF CliTypes, Launched, LockInv, FileInv, MessagesKept
  <1>1. CASE \E s \in Session : LaunchAdmit(s) \/ LaunchRefuse(s)
    BY <1>1 DEF LaunchAdmit, LaunchRefuse
  <1>2. CASE \E s \in Session : LaunchOk(s)
    BY <1>2 DEF LaunchOk
  <1>3. CASE \E s \in Session : LaunchFail(s)
    BY <1>3 DEF LaunchFail
  <1>4. CASE \E s \in Session : GrowOld(s)
    BY <1>4 DEF GrowOld
  <1>5. CASE \E r \in Remover, s \in Session : RemoveRequest(r, s)
    BY <1>5 DEF RemoveRequest
  <1>6. CASE \E r \in Remover : RemoveLock(r)
    BY <1>6 DEF RemoveLock, SessionLockFree
  <1>7. CASE \E r \in Remover, out \in Outcome : RemoveDelete(r, out)
    BY <1>7 DEF RemoveDelete, DeleteBox
  <1>8. CASE \E r \in Remover : RemoveFinish(r)
    BY <1>8 DEF RemoveFinish, EndSession, GiveBack
  <1>9. CASE \E m \in Sender, s \in Session : SendRequest(m, s)
    BY <1>9 DEF SendRequest
  <1>10. CASE \E m \in Sender : SendLock(m)
    <2>1. PICK m \in Sender : SendLock(m)
      BY <1>10
    <2>2. /\ send[m].at = "lock" /\ send'[m].at \in {"read", "done"}
          /\ send'[m].s = send[m].s
          /\ \A q \in Sender \ {m} : send'[q] = send[q]
          /\ UNCHANGED <<box, file, sent, lost>>
      BY <2>1 DEF SendLock
    <2> QED BY <2>2
  <1>11. CASE \E m \in Sender : SendRead(m)
    BY <1>11 DEF SendRead
  <1>12. CASE \E m \in Sender, content \in SUBSET Sender : SendWrite(m, content)
    BY <1>12 DEF SendWrite, WriteFile, WriteLeaves, NewContent
  <1>13. CASE \E m \in Sender, content \in SUBSET Sender : SendFail(m, content)
    BY <1>13 DEF SendFail, WriteFile, WriteLeaves, NewContent
  <1>14. CASE LoopWake
    BY <1>14 DEF LoopWake
  <1>15. CASE LoopSleep
    BY <1>15 DEF LoopSleep
  <1>16. CASE \E s \in Session : LoopVisit(s)
    BY <1>16 DEF LoopVisit
  <1>17. CASE \E out \in Outcome : LoopDelete(out)
    BY <1>17 DEF LoopDelete, DeleteBox
  <1>18. CASE LoopFinish
    BY <1>18 DEF LoopFinish, LoopNext, EndSession, GiveBack
  <1>19. CASE \E applied \in BOOLEAN : LoopHang(applied) \/ Shutdown(applied)
    BY <1>19 DEF LoopHang, Shutdown, DeleteBox, GiveBack
  <1>20. CASE UNCHANGED cliVars
    BY <1>20
  <1> QED
    BY <1>1, <1>2, <1>3, <1>4, <1>5, <1>6, <1>7, <1>8,
       <1>9, <1>10, <1>11, <1>12, <1>13, <1>14, <1>15, <1>16, <1>17, <1>18, <1>19, <1>20
       DEF CliNext, LaunchStep, RemoveStep, SendStep, LoopStep

\* A terminate() waits for the sender that holds the lock.
LEMMA HeldStep ==
    ASSUME CliTypes, Launched, LockInv, StateHeld, [CliNext]_cliVars
    PROVE  StateHeld'
  <1> USE CliAssumption DEF CliTypes, Launched, LockInv, StateHeld
  <1>1. CASE \E s \in Session : LaunchAdmit(s) \/ LaunchRefuse(s)
    BY <1>1 DEF LaunchAdmit, LaunchRefuse
  <1>2. CASE \E s \in Session : LaunchOk(s)
    BY <1>2 DEF LaunchOk
  <1>3. CASE \E s \in Session : LaunchFail(s)
    BY <1>3 DEF LaunchFail
  <1>4. CASE \E s \in Session : GrowOld(s)
    BY <1>4 DEF GrowOld
  <1>5. CASE \E r \in Remover, s \in Session : RemoveRequest(r, s)
    BY <1>5 DEF RemoveRequest
  <1>6. CASE \E r \in Remover : RemoveLock(r)
    BY <1>6 DEF RemoveLock, SessionLockFree
  <1>7. CASE \E r \in Remover, out \in Outcome : RemoveDelete(r, out)
    BY <1>7 DEF RemoveDelete, DeleteBox
  <1>8. CASE \E r \in Remover : RemoveFinish(r)
    BY <1>8 DEF RemoveFinish, EndSession, GiveBack
  <1>9. CASE \E m \in Sender, s \in Session : SendRequest(m, s)
    BY <1>9 DEF SendRequest
  <1>10. CASE \E m \in Sender : SendLock(m)
    <2>1. PICK m \in Sender : SendLock(m)
      BY <1>10
    <2>2. CASE status[send[m].s] = "running"
      BY <2>1, <2>2 DEF SendLock, SessionLockFree
    <2>3. CASE status[send[m].s] # "running"
      BY <2>1, <2>3 DEF SendLock, SessionLockFree
    <2> QED BY <2>2, <2>3
  <1>11. CASE \E m \in Sender : SendRead(m)
    BY <1>11 DEF SendRead
  <1>12. CASE \E m \in Sender, content \in SUBSET Sender : SendWrite(m, content)
    BY <1>12 DEF SendWrite, WriteFile, WriteLeaves, NewContent
  <1>13. CASE \E m \in Sender, content \in SUBSET Sender : SendFail(m, content)
    BY <1>13 DEF SendFail, WriteFile, WriteLeaves, NewContent
  <1>14. CASE LoopWake
    BY <1>14 DEF LoopWake
  <1>15. CASE LoopSleep
    BY <1>15 DEF LoopSleep
  <1>16. CASE \E s \in Session : LoopVisit(s)
    BY <1>16 DEF LoopVisit
  <1>17. CASE \E out \in Outcome : LoopDelete(out)
    BY <1>17 DEF LoopDelete, DeleteBox
  <1>18. CASE LoopFinish
    BY <1>18 DEF LoopFinish, LoopNext, EndSession, GiveBack
  <1>19. CASE \E applied \in BOOLEAN : LoopHang(applied) \/ Shutdown(applied)
    BY <1>19 DEF LoopHang, Shutdown, DeleteBox, GiveBack
  <1>20. CASE UNCHANGED cliVars
    BY <1>20
  <1> QED
    BY <1>1, <1>2, <1>3, <1>4, <1>5, <1>6, <1>7, <1>8,
       <1>9, <1>10, <1>11, <1>12, <1>13, <1>14, <1>15, <1>16, <1>17, <1>18, <1>19, <1>20
       DEF CliNext, LaunchStep, RemoveStep, SendStep, LoopStep

\* destroy() gives back the slot of its session; what it gives back besides is
\* counted in extra.
LEMMA GiveBackStep ==
    ASSUME CliTypes, SlotInv, NEW s \in Session, launch[s] = "done", GiveBack(s),
           UNCHANGED launch
    PROVE  SlotInv'
  <1>0. Cardinality(held) \in Nat /\ slots \in Int /\ extra \in Nat
    BY FS_CardinalityType DEF SlotInv, CliTypes
  <1>1. IsFiniteSet(held') /\ Cardinality(held') \in Nat
    BY FS_RemoveElement, FS_CardinalityType DEF SlotInv, GiveBack
  <1>2. Cardinality(held') = IF s \in held THEN Cardinality(held) - 1 ELSE Cardinality(held)
    BY FS_RemoveElement DEF SlotInv, GiveBack
  <1>3. /\ \A t \in held' : launch'[t] # "idle"
        /\ \A t \in Session : launch'[t] = "create" => t \in held'
    BY DEF SlotInv, GiveBack
  <1>4. slots' <= Cardinality(held') /\ Cardinality(held') <= slots' + extra'
    BY <1>0, <1>1, <1>2 DEF SlotInv, GiveBack
  <1> QED BY <1>1, <1>3, <1>4 DEF SlotInv

\* Slots are taken and given back one at a time.
LEMMA SlotStep ==
    ASSUME CliTypes, Launched, SlotInv, [CliNext]_cliVars
    PROVE  SlotInv'
  <1>0. Cardinality(held) \in Nat /\ slots \in Int /\ extra \in Nat
    BY FS_CardinalityType DEF SlotInv, CliTypes
  <1>1. CASE \E s \in Session : LaunchAdmit(s) \/ LaunchRefuse(s)
    <2>1. PICK s \in Session : LaunchAdmit(s) \/ LaunchRefuse(s)
      BY <1>1
    <2>2. CASE LaunchAdmit(s)
      <3>1. /\ launch[s] = "idle" /\ launch' = [launch EXCEPT ![s] = "create"]
            /\ slots' = slots + 1 /\ held' = held \cup {s} /\ extra' = extra
        BY <2>2 DEF LaunchAdmit
      <3>2. IsFiniteSet(held') /\ Cardinality(held') = Cardinality(held) + 1
        BY <3>1, FS_AddElement DEF SlotInv
      <3>3. \A t \in held' : launch'[t] # "idle"
        BY <3>1 DEF SlotInv, CliTypes
      <3>4. \A t \in Session : launch'[t] = "create" => t \in held'
        BY <3>1 DEF SlotInv, CliTypes
      <3> QED BY <1>0, <3>1, <3>2, <3>3, <3>4 DEF SlotInv
    <2>3. CASE LaunchRefuse(s)
      BY <2>3 DEF LaunchRefuse, SlotInv, CliTypes
    <2> QED BY <2>1, <2>2, <2>3
  <1>2. CASE \E s \in Session : LaunchOk(s)
    BY <1>2 DEF LaunchOk, SlotInv, CliTypes
  <1>3. CASE \E s \in Session : LaunchFail(s)
    <2>1. PICK s \in Session : LaunchFail(s)
      BY <1>3
    <2>2. /\ launch[s] = "create" /\ launch' = [launch EXCEPT ![s] = "done"]
          /\ slots' = slots - 1 /\ held' = held \ {s} /\ extra' = extra /\ s \in held
      BY <2>1 DEF LaunchFail, SlotInv
    <2>3. IsFiniteSet(held') /\ Cardinality(held') = Cardinality(held) - 1
      BY <2>2, FS_RemoveElement DEF SlotInv
    <2>4. \A t \in held' : launch'[t] # "idle"
      BY <2>2 DEF SlotInv, CliTypes
    <2>5. \A t \in Session : launch'[t] = "create" => t \in held'
      BY <2>2 DEF SlotInv, CliTypes
    <2> QED BY <1>0, <2>2, <2>3, <2>4, <2>5 DEF SlotInv
  <1>4. CASE \E s \in Session : GrowOld(s)
    BY <1>4 DEF GrowOld, SlotInv
  <1>5. CASE \E r \in Remover, s \in Session : RemoveRequest(r, s)
    BY <1>5 DEF RemoveRequest, SlotInv
  <1>6. CASE \E r \in Remover : RemoveLock(r)
    BY <1>6 DEF RemoveLock, SessionLockFree, SlotInv
  <1>7. CASE \E r \in Remover, out \in Outcome : RemoveDelete(r, out)
    BY <1>7 DEF RemoveDelete, DeleteBox, SlotInv
  <1>8. CASE \E r \in Remover : RemoveFinish(r)
    <2>1. PICK r \in Remover : RemoveFinish(r)
      BY <1>8
    <2>2. /\ remove[r].s \in Session /\ launch[remove[r].s] = "done"
          /\ GiveBack(remove[r].s) /\ UNCHANGED launch
      BY <2>1 DEF RemoveFinish, EndSession, Launched
    <2> QED BY <2>2, GiveBackStep
  <1>9. CASE \E m \in Sender, s \in Session : SendRequest(m, s)
    BY <1>9 DEF SendRequest, SlotInv
  <1>10. CASE \E m \in Sender : SendLock(m)
    BY <1>10 DEF SendLock, SessionLockFree, SlotInv
  <1>11. CASE \E m \in Sender : SendRead(m)
    BY <1>11 DEF SendRead, SlotInv
  <1>12. CASE \E m \in Sender, content \in SUBSET Sender : SendWrite(m, content)
    BY <1>12 DEF SendWrite, WriteFile, WriteLeaves, NewContent, SlotInv
  <1>13. CASE \E m \in Sender, content \in SUBSET Sender : SendFail(m, content)
    BY <1>13 DEF SendFail, WriteFile, WriteLeaves, NewContent, SlotInv
  <1>14. CASE LoopWake
    BY <1>14 DEF LoopWake, SlotInv
  <1>15. CASE LoopSleep
    BY <1>15 DEF LoopSleep, SlotInv
  <1>16. CASE \E s \in Session : LoopVisit(s)
    BY <1>16 DEF LoopVisit, SlotInv
  <1>17. CASE \E out \in Outcome : LoopDelete(out)
    BY <1>17 DEF LoopDelete, DeleteBox, SlotInv
  <1>18. CASE LoopFinish
    <2>1. /\ loop.s \in Session /\ launch[loop.s] = "done"
          /\ GiveBack(loop.s) /\ UNCHANGED launch
      BY <1>18 DEF LoopFinish, EndSession, Launched
    <2> QED BY <2>1, GiveBackStep
  <1>19. CASE \E applied \in BOOLEAN : LoopHang(applied) \/ Shutdown(applied)
    <2>1. CASE \E applied \in BOOLEAN : LoopHang(applied)
      BY <2>1 DEF LoopHang, SlotInv
    <2>2. CASE loop.at = "sleep" /\ \E applied \in BOOLEAN : Shutdown(applied)
      BY <2>2 DEF Shutdown, SlotInv
    <2>3. CASE loop.at # "sleep" /\ \E applied \in BOOLEAN : Shutdown(applied)
      <3>1. /\ loop.s \in Session /\ launch[loop.s] = "done"
            /\ GiveBack(loop.s) /\ UNCHANGED launch
        BY <2>3 DEF Shutdown, Launched
      <3> QED BY <3>1, GiveBackStep
    <2> QED BY <1>19, <2>1, <2>2, <2>3
  <1>20. CASE UNCHANGED cliVars
    BY <1>20 DEF SlotInv
  <1> QED
    BY <1>1, <1>2, <1>3, <1>4, <1>5, <1>6, <1>7, <1>8,
       <1>9, <1>10, <1>11, <1>12, <1>13, <1>14, <1>15, <1>16, <1>17, <1>18, <1>19, <1>20
       DEF CliNext, LaunchStep, RemoveStep, SendStep, LoopStep

\* CliInv is an invariant.
THEOREM CliInvariance == CliSpec => []CliInv
  <1>1. CliInit => CliInv
    <2> SUFFICES ASSUME CliInit PROVE CliInv
      OBVIOUS
    <2>1. CliTypes
      BY DEF CliInit, CliTypes
    <2>2. Launched /\ LockInv /\ FileInv /\ MessagesKept /\ StateHeld
      BY DEF CliInit, Launched, LockInv, FileInv, MessagesKept, StateHeld
    <2>3. SlotInv
      BY FS_EmptySet DEF CliInit, SlotInv
    <2> QED BY <2>1, <2>2, <2>3 DEF CliInv
  <1>2. CliInv /\ [CliNext]_cliVars => CliInv'
    BY CliTypesStep, LaunchedStep, LockStep, FileStep, HeldStep, SlotStep DEF CliInv
  <1> QED BY <1>1, <1>2, PTL DEF CliSpec

\* No message that was answered "sent" is overwritten by another while its sandbox
\* lives: one is missing only if a write command that failed left it out.
THEOREM MessagesAreKept == CliSpec => []MessagesKept
  <1>1. CliInv => MessagesKept
    BY DEF CliInv
  <1> QED BY <1>1, CliInvariance, PTL

\* Between a sender's test of the status and its write only the monitor can end
\* the session.
THEOREM StateIsHeld == CliSpec => []StateHeld
  <1>1. CliInv => StateHeld
    BY DEF CliInv
  <1> QED BY <1>1, CliInvariance, PTL

\* The spawner's count drifts from the slots that are held by the superfluous
\* destroys of sessions, and by nothing else.
THEOREM SlotDriftBounded == CliSpec => []SlotDrift
  <1>1. CliInv => SlotDrift
    <2> SUFFICES ASSUME CliInv PROVE SlotDrift
      OBVIOUS
    <2>1. Cardinality(held) \in Nat /\ slots \in Int /\ extra \in Nat
      BY FS_CardinalityType DEF CliInv, SlotInv, CliTypes
    <2>2. slots <= Cardinality(held) /\ Cardinality(held) <= slots + extra
      BY DEF CliInv, SlotInv
    <2> QED BY <2>1, <2>2 DEF SlotDrift
  <1> QED BY <1>1, CliInvariance, PTL

-----------------------------------------------------------------------------
(* ChatRunner                                                              *)

Row == [num : Nat, by : Message, events : Transcript]
TurnRecord == [at : TurnPoint, num : Nat, context : Seq(Row), events : Transcript]

ChatTypes ==
    /\ chatStatus \in {"none", "running", "cancelled"}
    /\ chatLock \in Message \cup {NoTurn}
    /\ turn \in [Message -> TurnRecord]
    /\ rows \in Seq(Row)
    /\ chatSteps \subseteq Nat \X Message
    /\ chatFaults \in 0..MaxChatFaults
    /\ told \subseteq Message /\ cut \subseteq Message
    /\ expired \subseteq Message /\ lateTurns \subseteq Message
    /\ before \in [Message -> SUBSET Message]

\* A message has a row, or had one that has expired.
HasRow(m) == \E i \in 1..Len(rows) : rows[i].by = m

\* The conversation lock is held from the test of the status to the end of the
\* turn.
TurnLock ==
    \A m \in Message :
        turn[m].at \in TurnPoint \ {"idle", "queued", "done"} => chatLock = m

\* Rows are numbered upwards, and the turn under way has a higher number; a row
\* belongs to a turn that has been saved, and such a turn has a row until it
\* expires.
RowsInv ==
    /\ \A i, j \in 1..Len(rows) : i < j => rows[i].num < rows[j].num
    /\ \A i \in 1..Len(rows) :
          /\ turn[rows[i].by].at \in {"update", "done"}
          /\ turn[rows[i].by].num = rows[i].num
          /\ \A m \in Message : turn[m].at \in {"identity", "run", "emit", "save"} =>
                rows[i].num < turn[m].num
          /\ \A m \in Message : turn[m].at = "update" =>
                rows[i].by = m \/ rows[i].num < turn[m].num
    /\ \A m \in Message : turn[m].at = "update" => m \in expired \/ HasRow(m)

\* A turn is saved after a cancel only if nobody is past the test of the status
\* any more.
LateInv ==
    /\ chatStatus # "cancelled" => lateTurns = {}
    /\ lateTurns # {} =>
          \A m \in Message : turn[m].at \notin {"load", "identity", "run", "emit", "save"}
    /\ \A m, k \in lateTurns : m = k

\* What there was when a turn took the lock is still there when it loads its
\* context, but for what has expired; the context is complete from then on.
ContextInv ==
    \A m \in Message :
        /\ \A e \in before[m] : turn[e].at \in {"update", "done"}
        /\ turn[m].at \in {"check", "load"} => \A e \in before[m] : e \in expired \/ HasRow(e)
        /\ turn[m].at \in {"identity", "run"} => ContextComplete(m)

ChatInv == ChatTypes /\ TurnLock /\ RowsInv /\ TurnsKept /\ LateInv /\ ContextInv
\* The rows that load_recent_turns returns start here.
First == IF Len(rows) > MaxContext THEN Len(rows) - MaxContext + 1 ELSE 1

\* load_recent_turns returns the newest rows, oldest first.
LEMMA RecentFacts ==
    ASSUME rows \in Seq(Row)
    PROVE  /\ First \in 1..(Len(rows) + 1)
           /\ RecentTurns \in Seq(Row) /\ Len(RecentTurns) = Len(rows) - First + 1
           /\ \A i \in 1..Len(RecentTurns) : RecentTurns[i] = rows[First + i - 1]
  <1>1. Len(rows) \in Nat /\ MaxContext \in Nat \ {0}
    BY ChatAssumption
  <1>2. First \in 1..(Len(rows) + 1)
    BY <1>1 DEF First
  <1>3. RecentTurns = SubSeq(rows, First, Len(rows))
    BY DEF RecentTurns, First
  <1> QED BY <1>1, <1>2, <1>3

\* What the fields of a row are.
LEMMA RowFields ==
    ASSUME rows \in Seq(Row)
    PROVE  \A i \in 1..Len(rows) : rows[i] \in Row /\ rows[i].num \in Nat /\ rows[i].by \in Message
  <1>1. \A i \in 1..Len(rows) : rows[i] \in Row
    OBVIOUS
  <1> QED BY <1>1 DEF Row

\* Rows are numbered upwards, so that the number past the window is past all of
\* them.
LEMMA NextNumber ==
    ASSUME rows \in Seq(Row),
           \A i, j \in 1..Len(rows) : i < j => rows[i].num < rows[j].num
    PROVE  /\ NextTurnNumber(RecentTurns) \in Nat
           /\ \A i \in 1..Len(rows) : rows[i].num < NextTurnNumber(RecentTurns)
  <1> DEFINE n == Len(rows)
             nums == {RecentTurns[i].num : i \in 1..Len(RecentTurns)}
             top == CHOOSE k \in nums : \A j \in nums : j <= k
  <1>1. /\ n \in Nat /\ First \in 1..(n + 1) /\ Len(RecentTurns) = n - First + 1
        /\ \A i \in 1..Len(RecentTurns) : RecentTurns[i] = rows[First + i - 1]
    BY RecentFacts
  <1>2. \A i \in 1..n : rows[i].num \in Nat
    BY RowFields
  <1>3. NextTurnNumber(RecentTurns) = IF nums = {} THEN 0 ELSE 1 + top
    BY DEF NextTurnNumber
  <1>4. CASE n = 0
    <2>1. nums = {}
      BY <1>1, <1>4
    <2> QED BY <1>1, <1>3, <1>4, <2>1
  <1>5. CASE n > 0
    <2>1. First <= n
      BY <1>1, <1>5, ChatAssumption DEF First
    <2>2. RecentTurns[Len(RecentTurns)] = rows[n] /\ Len(RecentTurns) \in 1..Len(RecentTurns)
      BY <1>1, <2>1
    <2>3. rows[n].num \in nums
      BY <2>2
    <2>4. \A j \in nums : j <= rows[n].num
      <3> SUFFICES ASSUME NEW i \in 1..Len(RecentTurns)
                   PROVE  RecentTurns[i].num <= rows[n].num
        OBVIOUS
      <3>1. First + i - 1 \in 1..n /\ RecentTurns[i] = rows[First + i - 1]
        BY <1>1
      <3> QED BY <1>1, <1>2, <1>5, <3>1
    <2>0. nums \subseteq Nat
      <3> SUFFICES ASSUME NEW i \in 1..Len(RecentTurns)
                   PROVE  RecentTurns[i].num \in Nat
        OBVIOUS
      <3>1. First + i - 1 \in 1..n /\ RecentTurns[i] = rows[First + i - 1]
        BY <1>1
      <3> QED BY <1>2, <3>1
    <2> HIDE DEF nums
    <2>5. top \in nums /\ \A j \in nums : j <= top
      BY <2>3, <2>4
    <2> HIDE DEF top
    <2>6. top = rows[n].num
      BY <1>1, <1>2, <1>5, <2>0, <2>3, <2>4, <2>5
    <2>7. \A i \in 1..n : rows[i].num <= rows[n].num
      BY <1>1, <1>2, <1>5
    <2>8. NextTurnNumber(RecentTurns) = 1 + rows[n].num
      BY <1>3, <2>3, <2>6
    <2> QED BY <1>1, <1>2, <1>5, <2>7, <2>8
  <1> QED BY <1>1, <1>4, <1>5

USE DEF chatHistory, chatStore, chatVars, Move

\* _save_turn adds a row: no row has the number of the turn under way.
LEMMA SaveAppends ==
    ASSUME ChatTypes, RowsInv, NEW m \in Message, SaveTranscript(m)
    PROVE  /\ rows' \in Seq(Row) /\ Len(rows') = Len(rows) + 1
           /\ \A i \in 1..Len(rows) : rows'[i] = rows[i]
           /\ rows'[Len(rows) + 1].num = turn[m].num /\ rows'[Len(rows) + 1].by = m
  <1> DEFINE row == [num |-> turn[m].num, by |-> m, events |-> turn[m].events]
             same == {i \in 1..Len(rows) : rows[i].num = row.num}
  <1>1. row \in Row /\ row.num = turn[m].num /\ row.by = m
    BY DEF ChatTypes, TurnRecord, Row
  <1>2. \A i \in 1..Len(rows) : rows[i].num < turn[m].num /\ rows[i].num \in Nat
    <2>1. turn[m].at = "save"
      BY DEF SaveTranscript
    <2> QED BY <2>1, RowFields DEF RowsInv, ChatTypes
  <1>3. same = {}
    BY <1>1, <1>2 DEF ChatTypes, TurnRecord
  <1>4. rows' = Append(rows, row)
    BY <1>3 DEF SaveTranscript
  <1> HIDE DEF row
  <1>5. rows \in Seq(Row)
    BY DEF ChatTypes
  <1>6. /\ rows' \in Seq(Row) /\ Len(rows') = Len(rows) + 1
        /\ \A i \in 1..Len(rows) : rows'[i] = rows[i]
        /\ rows'[Len(rows) + 1] = row
    BY <1>1, <1>4, <1>5
  <1> QED BY <1>1, <1>6

\* cleanup_expired keeps the newer rows, in their order.
LEMMA CleanupShifts ==
    ASSUME rows \in Seq(Row), NEW n \in Nat, CleanupExpired(n)
    PROVE  /\ n \in 1..Len(rows) /\ rows' \in Seq(Row) /\ Len(rows') = Len(rows) - n
           /\ \A i \in 1..Len(rows') : i + n \in 1..Len(rows) /\ rows'[i] = rows[i + n]
           /\ \A i \in 1..Len(rows) : i > n => i - n \in 1..Len(rows') /\ rows'[i - n] = rows[i]
           /\ expired = {} /\ expired' = {rows[i].by : i \in 1..n}
  <1>1. n \in 1..Len(rows) /\ rows' = SubSeq(rows, n + 1, Len(rows)) /\ Len(rows) \in Nat
    BY DEF CleanupExpired
  <1>2. rows' \in Seq(Row) /\ Len(rows') = Len(rows) - n
    BY <1>1
  <1>3. \A i \in 1..Len(rows') : i + n \in 1..Len(rows) /\ rows'[i] = rows[i + n]
    BY <1>1, <1>2
  <1>4. \A i \in 1..Len(rows) : i > n => i - n \in 1..Len(rows') /\ rows'[i - n] = rows[i]
    <2> SUFFICES ASSUME NEW i \in 1..Len(rows), i > n
                 PROVE  i - n \in 1..Len(rows') /\ rows'[i - n] = rows[i]
      OBVIOUS
    <2>1. i - n \in 1..Len(rows') /\ (i - n) + n = i
      BY <1>1, <1>2
    <2> QED BY <1>3, <2>1
  <1> QED BY <1>1, <1>2, <1>3, <1>4 DEF CleanupExpired

\* What moving a turn on changes.
LEMMA MoveFacts ==
    ASSUME turn \in [Message -> TurnRecord], NEW m \in Message,
           NEW from, NEW to \in TurnPoint, Move(m, from, to)
    PROVE  /\ turn' \in [Message -> TurnRecord] /\ turn[m].at = from /\ turn'[m].at = to
           /\ turn'[m].num = turn[m].num /\ turn'[m].context = turn[m].context
           /\ turn'[m].events = turn[m].events
           /\ \A k \in Message \ {m} : turn'[k] = turn[k]
  <1> DEFINE r == [turn[m] EXCEPT !.at = to]
  <1>1. turn' = [turn EXCEPT ![m] = r]
    BY DEF Move
  <1>2. turn[m] \in TurnRecord
    OBVIOUS
  <1>3. /\ r \in TurnRecord /\ r.at = to /\ r.num = turn[m].num
        /\ r.context = turn[m].context /\ r.events = turn[m].events
    BY <1>2 DEF TurnRecord
  <1> HIDE DEF r
  <1>4. turn[m].at = from
    BY DEF Move
  <1> QED BY <1>1, <1>3, <1>4

\* What loading the context changes.
LEMMA LoadFacts ==
    ASSUME turn \in [Message -> TurnRecord], rows \in Seq(Row),
           \A i, j \in 1..Len(rows) : i < j => rows[i].num < rows[j].num,
           NEW m \in Message, LoadTurns(m)
    PROVE  /\ turn' \in [Message -> TurnRecord]
           /\ turn[m].at = "load" /\ turn'[m].at = "identity"
           /\ turn'[m].num = NextTurnNumber(RecentTurns) /\ turn'[m].context = RecentTurns
           /\ \A k \in Message \ {m} : turn'[k] = turn[k]
           /\ \A i \in 1..Len(rows) : rows[i].num < turn'[m].num
  <1> DEFINE num == NextTurnNumber(RecentTurns)
             context == RecentTurns
             r == [turn[m] EXCEPT !.at = "identity", !.context = context, !.num = num]
  <1>1. num \in Nat /\ context \in Seq(Row) /\ \A i \in 1..Len(rows) : rows[i].num < num
    BY NextNumber, RecentFacts
  <1>2. turn' = [turn EXCEPT ![m] = r] /\ turn[m].at = "load"
    BY DEF LoadTurns
  <1> HIDE DEF num, context
  <1>3. turn[m] \in TurnRecord
    OBVIOUS
  <1>4. r \in TurnRecord /\ r.at = "identity" /\ r.num = num /\ r.context = context
    BY <1>1, <1>3 DEF TurnRecord, TurnPoint
  <1> HIDE DEF r
  <1>5. /\ turn' \in [Message -> TurnRecord] /\ turn'[m] = r
        /\ \A k \in Message \ {m} : turn'[k] = turn[k]
    BY <1>2, <1>4
  <1> QED BY <1>1, <1>2, <1>4, <1>5 DEF num, context

\* What the return of the agent changes.
LEMMA ReturnFacts ==
    ASSUME turn \in [Message -> TurnRecord], NEW m \in Message, NEW events \in Transcript,
           AgentReturns(m, events)
    PROVE  /\ turn' \in [Message -> TurnRecord] /\ turn[m].at = "run"
           /\ turn'[m].at = (IF m \in Streamed THEN "emit" ELSE "save")
           /\ turn'[m].num = turn[m].num /\ turn'[m].context = turn[m].context
           /\ \A k \in Message \ {m} : turn'[k] = turn[k]
  <1> DEFINE at == IF m \in Streamed THEN "emit" ELSE "save"
             r == [turn[m] EXCEPT !.at = at, !.events = events]
  <1>1. turn' = [turn EXCEPT ![m] = r] /\ turn[m].at = "run"
    BY DEF AgentReturns
  <1>2. turn[m] \in TurnRecord
    OBVIOUS
  <1>3. at \in TurnPoint
    BY DEF TurnPoint
  <1> HIDE DEF at
  <1>4. /\ r \in TurnRecord /\ r.at = at /\ r.num = turn[m].num
        /\ r.context = turn[m].context
    BY <1>2, <1>3 DEF TurnRecord
  <1> HIDE DEF r
  <1>5. /\ turn' \in [Message -> TurnRecord] /\ turn'[m] = r
        /\ \A k \in Message \ {m} : turn'[k] = turn[k]
    BY <1>1, <1>4
  <1> QED BY <1>1, <1>4, <1>5 DEF at

\* The lock is taken when it is free, and given back at the end of the turn.
LEMMA TurnLockStep ==
    ASSUME ChatTypes, TurnLock, [ChatNext]_chatVars
    PROVE  TurnLock'
  <1> USE ChatAssumption DEF ChatTypes, TurnRecord, TurnLock, TurnPoint
  <1>1. CASE StartChat \/ CancelChat
    BY <1>1 DEF StartChat, CancelChat
  <1>2. CASE \E n \in 1..Cardinality(Message) : CleanupExpired(n)
    BY <1>2 DEF CleanupExpired
  <1>3. CASE \E m \in Message : SendMessage(m)
    BY <1>3 DEF SendMessage
  <1>4. CASE \E m \in Message : TakeLock(m)
    BY <1>4 DEF TakeLock, ChatLockFree
  <1>5. CASE \E m \in Message : CheckNotTerminal(m)
    BY <1>5 DEF CheckNotTerminal, NotTerminal
  <1>6. CASE \E m \in Message : LoadTurns(m)
    BY <1>6 DEF LoadTurns
  <1>7. CASE \E m \in Message : LoadIdentity(m) \/ StreamResumed(m)
    BY <1>7 DEF LoadIdentity, StreamResumed
  <1>8. CASE \E m \in Message, events \in Transcript : AgentReturns(m, events)
    BY <1>8 DEF AgentReturns
  <1>9. CASE \E m \in Message : StreamClosed(m)
    <2>1. PICK m \in Message : StreamClosed(m)
      BY <1>9
    <2>2. chatLock = m
      BY <2>1 DEF StreamClosed
    <2>3. turn'[m].at = "done" /\ \A k \in Message \ {m} : turn'[k] = turn[k]
      BY <2>1 DEF StreamClosed
    <2> QED BY <2>2, <2>3
  <1>10. CASE \E m \in Message : AgentRaises(m)
    BY <1>10 DEF AgentRaises
  <1>11. CASE \E m \in Message : SaveTranscript(m)
    BY <1>11 DEF SaveTranscript
  <1>12. CASE \E m \in Message : UpdateTurnStep(m)
    <2>1. PICK m \in Message : UpdateTurnStep(m)
      BY <1>12
    <2>2. chatLock = m
      BY <2>1 DEF UpdateTurnStep
    <2>3. turn'[m].at = "done" /\ \A k \in Message \ {m} : turn'[k] = turn[k]
      BY <2>1 DEF UpdateTurnStep
    <2> QED BY <2>2, <2>3
  <1>13. CASE \E m \in Message : StoreRaises(m)
    <2>1. PICK m \in Message : StoreRaises(m)
      BY <1>13
    <2>2. chatLock = m
      BY <2>1 DEF StoreRaises
    <2>3. turn'[m].at = "done" /\ \A k \in Message \ {m} : turn'[k] = turn[k]
      BY <2>1 DEF StoreRaises
    <2> QED BY <2>2, <2>3
  <1>14. CASE UNCHANGED chatVars
    BY <1>14
  <1> QED
    BY <1>1, <1>2, <1>3, <1>4, <1>5, <1>6, <1>7, <1>8, <1>9,
       <1>10, <1>11, <1>12, <1>13, <1>14
       DEF ChatNext, TurnStep

\* After a cancel nobody passes the test of the status.
LEMMA LateStep ==
    ASSUME ChatTypes, TurnLock, LateInv, [ChatNext]_chatVars
    PROVE  LateInv'
  <1> USE ChatAssumption DEF ChatTypes, TurnRecord, TurnLock, LateInv, TurnPoint
  <1>1. CASE StartChat \/ CancelChat
    BY <1>1 DEF StartChat, CancelChat
  <1>2. CASE \E n \in 1..Cardinality(Message) : CleanupExpired(n)
    BY <1>2 DEF CleanupExpired
  <1>3. CASE \E m \in Message : SendMessage(m)
    BY <1>3 DEF SendMessage
  <1>4. CASE \E m \in Message : TakeLock(m)
    BY <1>4 DEF TakeLock, ChatLockFree
  <1>5. CASE \E m \in Message : CheckNotTerminal(m)
    BY <1>5 DEF CheckNotTerminal, NotTerminal
  <1>6. CASE \E m \in Message : LoadTurns(m)
    BY <1>6 DEF LoadTurns
  <1>7. CASE \E m \in Message : LoadIdentity(m) \/ StreamResumed(m)
    BY <1>7 DEF LoadIdentity, StreamResumed
  <1>8. CASE \E m \in Message, events \in Transcript : AgentReturns(m, events)
    BY <1>8 DEF AgentReturns
  <1>9. CASE \E m \in Message : StreamClosed(m)
    BY <1>9 DEF StreamClosed
  <1>10. CASE \E m \in Message : AgentRaises(m)
    BY <1>10 DEF AgentRaises
  <1>11. CASE \E m \in Message : SaveTranscript(m)
    <2>1. PICK m \in Message : SaveTranscript(m)
      BY <1>11
    <2>2. /\ turn[m].at = "save" /\ chatLock = m /\ lateTurns = {}
          /\ chatStatus' = chatStatus
      BY <2>1 DEF SaveTranscript
    <2>3. turn'[m].at = "update" /\ \A k \in Message \ {m} : turn'[k] = turn[k]
      BY <2>1 DEF SaveTranscript
    <2>4. lateTurns' = IF chatStatus = "cancelled" THEN {m} ELSE {}
      BY <2>1, <2>2 DEF SaveTranscript
    <2> QED BY <2>2, <2>3, <2>4
  <1>12. CASE \E m \in Message : UpdateTurnStep(m)
    BY <1>12 DEF UpdateTurnStep
  <1>13. CASE \E m \in Message : StoreRaises(m)
    BY <1>13 DEF StoreRaises
  <1>14. CASE UNCHANGED chatVars
    BY <1>14
  <1> QED
    BY <1>1, <1>2, <1>3, <1>4, <1>5, <1>6, <1>7, <1>8, <1>9,
       <1>10, <1>11, <1>12, <1>13, <1>14
       DEF ChatNext, TurnStep

HIDE DEF Move

\* Every variable keeps its type.
LEMMA ChatTypesStep ==
    ASSUME ChatTypes, RowsInv, [ChatNext]_chatVars
    PROVE  ChatTypes'
  <1> USE ChatAssumption DEF ChatTypes
  <1>1. CASE StartChat \/ CancelChat
    BY <1>1 DEF StartChat, CancelChat
  <1>2. CASE \E n \in 1..Cardinality(Message) : CleanupExpired(n)
    <2>1. PICK n \in 1..Cardinality(Message) : CleanupExpired(n)
      BY <1>2
    <2>2. n \in Nat
      OBVIOUS
    <2>3. rows' \in Seq(Row) /\ n \in 1..Len(rows) /\ expired' = {rows[i].by : i \in 1..n}
      BY <2>1, <2>2, CleanupShifts
    <2>4. expired' \subseteq Message
      BY <2>3, RowFields
    <2>5. UNCHANGED <<chatStatus, chatLock, turn, chatSteps, told, chatFaults, cut, before,
                      lateTurns>>
      BY <2>1 DEF CleanupExpired
    <2> QED BY <2>3, <2>4, <2>5
  <1>3. CASE \E m \in Message : SendMessage(m)
    <2>1. PICK m \in Message : SendMessage(m)
      BY <1>3
    <2>2. turn' \in [Message -> TurnRecord]
      BY <2>1, MoveFacts DEF SendMessage, TurnPoint
    <2>4. UNCHANGED <<chatStatus, chatLock, rows, chatSteps, told, chatFaults, cut, expired, before, lateTurns>>
      BY <2>1 DEF SendMessage
    <2> QED BY <2>2, <2>4
  <1>4. CASE \E m \in Message : TakeLock(m)
    <2>1. PICK m \in Message : TakeLock(m)
      BY <1>4
    <2>2. turn' \in [Message -> TurnRecord]
      BY <2>1, MoveFacts DEF TakeLock, TurnPoint
    <2>3. {rows[i].by : i \in 1..Len(rows)} \subseteq Message
      BY RowFields
    <2>4. chatLock' \in Message /\ before' \in [Message -> SUBSET Message]
      BY <2>1, <2>3 DEF TakeLock
    <2>5. UNCHANGED <<chatStatus, rows, chatSteps, told, chatFaults, cut, expired, lateTurns>>
      BY <2>1 DEF TakeLock
    <2> QED BY <2>2, <2>4, <2>5
  <1>5. CASE \E m \in Message : CheckNotTerminal(m)
    <2>1. PICK m \in Message : CheckNotTerminal(m)
      BY <1>5
    <2>2. turn' \in [Message -> TurnRecord]
      BY <2>1, MoveFacts DEF CheckNotTerminal, TurnPoint
    <2>3. chatLock' \in Message \cup {NoTurn}
      BY <2>1 DEF CheckNotTerminal
    <2>4. UNCHANGED <<chatStatus, rows, chatSteps, told, chatFaults, cut, expired, before, lateTurns>>
      BY <2>1 DEF CheckNotTerminal
    <2> QED BY <2>2, <2>3, <2>4
  <1>6. CASE \E m \in Message : LoadTurns(m)
    <2>1. PICK m \in Message : LoadTurns(m)
      BY <1>6
    <2>2. turn' \in [Message -> TurnRecord]
      BY <2>1, LoadFacts DEF RowsInv
    <2>4. UNCHANGED <<chatStatus, chatLock, rows, chatSteps, told, chatFaults, cut, expired, before, lateTurns>>
      BY <2>1 DEF LoadTurns
    <2> QED BY <2>2, <2>4
  <1>7. CASE \E m \in Message : LoadIdentity(m) \/ StreamResumed(m)
    <2>1. PICK m \in Message : LoadIdentity(m) \/ StreamResumed(m)
      BY <1>7
    <2>2. turn' \in [Message -> TurnRecord]
      <3>1. CASE LoadIdentity(m)
        BY <3>1, MoveFacts DEF LoadIdentity, TurnPoint
      <3>2. CASE StreamResumed(m)
        BY <3>2, MoveFacts DEF StreamResumed, TurnPoint
      <3> QED BY <2>1, <3>1, <3>2
    <2>3. UNCHANGED <<chatStatus, chatLock, rows, chatSteps, told, chatFaults, cut, expired,
                      before, lateTurns>>
      BY <2>1 DEF LoadIdentity, StreamResumed
    <2> QED BY <2>2, <2>3
  <1>8. CASE \E m \in Message, events \in Transcript : AgentReturns(m, events)
    <2>1. PICK m \in Message, events \in Transcript : AgentReturns(m, events)
      BY <1>8
    <2>2. turn' \in [Message -> TurnRecord]
      BY <2>1, ReturnFacts
    <2>3. told' \subseteq Message
      BY <2>1 DEF AgentReturns
    <2>4. UNCHANGED <<chatStatus, chatLock, rows, chatSteps, chatFaults, cut, expired, before, lateTurns>>
      BY <2>1 DEF AgentReturns
    <2> QED BY <2>2, <2>3, <2>4
  <1>9. CASE \E m \in Message : StreamClosed(m)
    <2>1. PICK m \in Message : StreamClosed(m)
      BY <1>9
    <2>2. turn' \in [Message -> TurnRecord]
      BY <2>1, MoveFacts DEF StreamClosed, TurnPoint
    <2>3. chatLock' = NoTurn /\ cut' \subseteq Message
      BY <2>1 DEF StreamClosed
    <2>4. UNCHANGED <<chatStatus, rows, chatSteps, told, chatFaults, expired, before, lateTurns>>
      BY <2>1 DEF StreamClosed
    <2> QED BY <2>2, <2>3, <2>4
  <1>10. CASE \E m \in Message : AgentRaises(m)
    <2>1. PICK m \in Message : AgentRaises(m)
      BY <1>10
    <2>0. Move(m, "run", IF m \in Streamed THEN "save" ELSE "done")
      BY <2>1 DEF AgentRaises, Move
    <2>2. turn' \in [Message -> TurnRecord]
      BY <2>0, MoveFacts DEF TurnPoint
    <2>3. chatLock' \in Message \cup {NoTurn} /\ told' \subseteq Message
      BY <2>1 DEF AgentRaises
    <2>4. UNCHANGED <<chatStatus, rows, chatSteps, chatFaults, cut, expired, before, lateTurns>>
      BY <2>1 DEF AgentRaises
    <2> QED BY <2>2, <2>3, <2>4
  <1>11. CASE \E m \in Message : SaveTranscript(m)
    <2>1. PICK m \in Message : SaveTranscript(m)
      BY <1>11
    <2>2. turn' \in [Message -> TurnRecord]
      BY <2>1, MoveFacts DEF SaveTranscript, TurnPoint
    <2>3. lateTurns' \subseteq Message
      BY <2>1 DEF SaveTranscript
    <2>4. UNCHANGED <<chatStatus, chatLock, chatSteps, told, chatFaults, cut, expired, before>>
      BY <2>1 DEF SaveTranscript
    <2>5. rows' \in Seq(Row)
      BY <2>1, SaveAppends
    <2> QED BY <2>2, <2>3, <2>4, <2>5
  <1>12. CASE \E m \in Message : UpdateTurnStep(m)
    <2>1. PICK m \in Message : UpdateTurnStep(m)
      BY <1>12
    <2>2. turn' \in [Message -> TurnRecord]
      BY <2>1, MoveFacts DEF UpdateTurnStep, TurnPoint
    <2>3. chatLock' = NoTurn /\ cut' \subseteq Message /\ told' \subseteq Message
      BY <2>1 DEF UpdateTurnStep
    <2>4. UNCHANGED <<chatStatus, rows, chatFaults, expired, before, lateTurns>>
      BY <2>1 DEF UpdateTurnStep
    <2>5. chatSteps' \subseteq Nat \X Message
      <3>1. turn[m].num \in Nat
        BY DEF TurnRecord
      <3> QED BY <2>1, <3>1 DEF UpdateTurnStep
    <2> QED BY <2>2, <2>3, <2>4, <2>5
  <1>13. CASE \E m \in Message : StoreRaises(m)
    <2>1. PICK m \in Message : StoreRaises(m)
      BY <1>13
    <2>2. turn' \in [Message -> TurnRecord]
      BY <2>1, MoveFacts DEF StoreRaises, TurnPoint
    <2>3. chatLock' = NoTurn /\ cut' \subseteq Message /\ chatFaults' \in 0..MaxChatFaults
      BY <2>1 DEF StoreRaises
    <2>4. UNCHANGED <<chatStatus, rows, chatSteps, told, expired, before, lateTurns>>
      BY <2>1 DEF StoreRaises
    <2> QED BY <2>2, <2>3, <2>4
  <1>14. CASE UNCHANGED chatVars
    BY <1>14
  <1> QED
    BY <1>1, <1>2, <1>3, <1>4, <1>5, <1>6, <1>7, <1>8, <1>9,
       <1>10, <1>11, <1>12, <1>13, <1>14
       DEF ChatNext, TurnStep

\* A step of a turn that neither loads its context nor saves it.
TurnMove(m) ==
    /\ UNCHANGED <<rows, expired>>
    /\ \A k \in Message \ {m} : turn'[k] = turn[k]
    /\ turn'[m].num = turn[m].num /\ turn'[m].context = turn[m].context
    /\ turn'[m].at \in {"identity", "run", "emit", "save"} =>
          turn[m].at \in {"identity", "run", "emit", "save"}
    /\ turn[m].at \in {"update", "done"} => turn'[m].at \in {"update", "done"}
    /\ turn'[m].at # "update"

\* It comes to the test of the status by taking the lock only, and to the agent
\* only with its context loaded.
BeforeMove(m) ==
    /\ TakeLock(m) \/ /\ before' = before
                      /\ turn'[m].at \in {"check", "load"} => turn[m].at \in {"check", "load"}
    /\ turn'[m].at \in {"identity", "run"} => turn[m].at \in {"identity", "run"}

\* Such a step tells the client no more than what is on its way to the store.
ToldMove(m) ==
    /\ told \subseteq told' /\ told' \subseteq told \cup {m} /\ cut \subseteq cut'
    /\ UNCHANGED chatSteps
    /\ m \in told' \ told => turn'[m].at \in {"emit", "save"}
    /\ turn[m].at \in {"emit", "save"} => turn'[m].at \in {"emit", "save"} \/ m \in cut'
    /\ turn[m].at = "update" => m \in cut'

\* The steps of a turn but for loading, saving and recording it.
LEMMA TurnMoves ==
    ASSUME ChatTypes, NEW m \in Message,
           \/ SendMessage(m) \/ TakeLock(m) \/ CheckNotTerminal(m) \/ LoadIdentity(m)
           \/ StreamResumed(m) \/ \E events \in Transcript : AgentReturns(m, events)
           \/ StreamClosed(m) \/ AgentRaises(m) \/ StoreRaises(m)
    PROVE  TurnMove(m) /\ ToldMove(m) /\ BeforeMove(m)
  <1>0. turn \in [Message -> TurnRecord]
    BY DEF ChatTypes
  <1>1. CASE SendMessage(m)
    <2>1. Move(m, "idle", "queued")
      BY <1>1 DEF SendMessage
    <2>2. UNCHANGED <<rows, chatSteps, told, cut, expired, before>>
      BY <1>1 DEF SendMessage
    <2> QED BY <1>0, <2>1, <2>2, MoveFacts DEF TurnMove, ToldMove, BeforeMove, TurnPoint
  <1>2. CASE TakeLock(m)
    <2>1. Move(m, "queued", "check")
      BY <1>2 DEF TakeLock
    <2>2. UNCHANGED <<rows, chatSteps, told, cut, expired>>
      BY <1>2 DEF TakeLock
    <2> QED BY <1>2, <1>0, <2>1, <2>2, MoveFacts DEF TurnMove, ToldMove, BeforeMove, TurnPoint
  <1>3. CASE CheckNotTerminal(m)
    <2>1. Move(m, "check", IF NotTerminal(m) THEN "load" ELSE "done")
      BY <1>3 DEF CheckNotTerminal
    <2>2. UNCHANGED <<rows, chatSteps, told, cut, expired, before>>
      BY <1>3 DEF CheckNotTerminal
    <2> QED BY <1>0, <2>1, <2>2, MoveFacts DEF TurnMove, ToldMove, BeforeMove, TurnPoint
  <1>4. CASE LoadIdentity(m)
    <2>1. Move(m, "identity", "run")
      BY <1>4 DEF LoadIdentity
    <2>2. UNCHANGED <<rows, chatSteps, told, cut, expired, before>>
      BY <1>4 DEF LoadIdentity
    <2> QED BY <1>0, <2>1, <2>2, MoveFacts DEF TurnMove, ToldMove, BeforeMove, TurnPoint
  <1>5. CASE StreamResumed(m)
    <2>1. Move(m, "emit", "save")
      BY <1>5 DEF StreamResumed
    <2>2. UNCHANGED <<rows, chatSteps, told, cut, expired, before>>
      BY <1>5 DEF StreamResumed
    <2> QED BY <1>0, <2>1, <2>2, MoveFacts DEF TurnMove, ToldMove, BeforeMove, TurnPoint
  <1>6. CASE \E events \in Transcript : AgentReturns(m, events)
    <2>1. PICK events \in Transcript : AgentReturns(m, events)
      BY <1>6
    <2>2. UNCHANGED <<rows, chatSteps, cut, expired, before>>
      BY <2>1 DEF AgentReturns
    <2>3. told' = IF m \in Streamed THEN told \cup {m} ELSE told
      BY <2>1 DEF AgentReturns
    <2>4. /\ turn[m].at = "run" /\ turn'[m].at = (IF m \in Streamed THEN "emit" ELSE "save")
          /\ turn'[m].num = turn[m].num /\ turn'[m].context = turn[m].context
          /\ \A k \in Message \ {m} : turn'[k] = turn[k]
      BY <1>0, <2>1, ReturnFacts
    <2> QED BY <2>2, <2>3, <2>4 DEF TurnMove, ToldMove, BeforeMove
  <1>7. CASE StreamClosed(m)
    <2>1. PICK p \in {"run", "emit"} : Move(m, p, "done")
      BY <1>7 DEF StreamClosed
    <2>2. UNCHANGED <<rows, chatSteps, told, expired, before>> /\ cut' = cut \cup {m}
      BY <1>7 DEF StreamClosed
    <2> QED BY <1>0, <2>1, <2>2, MoveFacts DEF TurnMove, ToldMove, BeforeMove, TurnPoint
  <1>8. CASE AgentRaises(m)
    <2>1. Move(m, "run", IF m \in Streamed THEN "save" ELSE "done")
      BY <1>8 DEF AgentRaises, Move
    <2>2. UNCHANGED <<rows, chatSteps, cut, expired, before>>
      BY <1>8 DEF AgentRaises
    <2>3. told' = IF m \in Streamed THEN told \cup {m} ELSE told
      BY <1>8 DEF AgentRaises
    <2> QED BY <1>0, <2>1, <2>2, <2>3, MoveFacts DEF TurnMove, ToldMove, BeforeMove, TurnPoint
  <1>9. CASE StoreRaises(m)
    <2>1. PICK p \in {"check", "load", "identity", "save", "update"} : Move(m, p, "done")
      BY <1>9 DEF StoreRaises
    <2>2. /\ UNCHANGED <<rows, chatSteps, told, expired, before>>
          /\ cut' = IF turn[m].at \in {"save", "update"} THEN cut \cup {m} ELSE cut
      BY <1>9 DEF StoreRaises
    <2> QED BY <1>0, <2>1, <2>2, MoveFacts DEF TurnMove, ToldMove, BeforeMove, TurnPoint
  <1> QED BY <1>1, <1>2, <1>3, <1>4, <1>5, <1>6, <1>7, <1>8, <1>9

\* Recording a turn in the run state is the end of it.
LEMMA UpdateMove ==
    ASSUME ChatTypes, NEW m \in Message, UpdateTurnStep(m)
    PROVE  TurnMove(m) /\ BeforeMove(m) /\ turn[m].at = "update" /\ turn'[m].at = "done"
  <1>1. turn \in [Message -> TurnRecord]
    BY DEF ChatTypes
  <1>2. Move(m, "update", "done") /\ UNCHANGED <<rows, expired, before>>
    BY DEF UpdateTurnStep
  <1> QED BY <1>1, <1>2, MoveFacts DEF TurnMove, BeforeMove, TurnPoint

\* The steps of a conversation.
LEMMA ChatCases ==
    ASSUME [ChatNext]_chatVars
    PROVE  \/ UNCHANGED <<rows, chatSteps, turn, told, cut, expired, before>>
           \/ \E n \in 1..Cardinality(Message) : CleanupExpired(n)
           \/ \E m \in Message :
                 \/ LoadTurns(m) \/ SaveTranscript(m) \/ UpdateTurnStep(m)
                 \/ SendMessage(m) \/ TakeLock(m) \/ CheckNotTerminal(m) \/ LoadIdentity(m)
                 \/ StreamResumed(m) \/ \E events \in Transcript : AgentReturns(m, events)
                 \/ StreamClosed(m) \/ AgentRaises(m) \/ StoreRaises(m)
  BY DEF ChatNext, TurnStep, StartChat, CancelChat

\* Under the lock, numbers go up and nothing is overwritten.
LEMMA RowsStep ==
    ASSUME ChatTypes, TurnLock, RowsInv, [ChatNext]_chatVars
    PROVE  RowsInv'
  <1>0. /\ \A i \in 1..Len(rows) : rows[i].num \in Nat /\ rows[i].by \in Message
        /\ turn \in [Message -> TurnRecord] /\ rows \in Seq(Row) /\ Len(rows) \in Nat
    BY RowFields DEF ChatTypes
  <1>1. CASE UNCHANGED <<rows, chatSteps, turn, told, cut, expired, before>>
    BY <1>1 DEF RowsInv, HasRow
  <1>2. CASE \E n \in 1..Cardinality(Message) : CleanupExpired(n)
    <2>1. PICK n \in Nat : CleanupExpired(n)
      BY <1>2
    <2>2. /\ n \in 1..Len(rows) /\ Len(rows') = Len(rows) - n
          /\ \A i \in 1..Len(rows') : i + n \in 1..Len(rows) /\ rows'[i] = rows[i + n]
          /\ \A i \in 1..Len(rows) : i > n => i - n \in 1..Len(rows') /\ rows'[i - n] = rows[i]
          /\ expired = {} /\ expired' = {rows[i].by : i \in 1..n} /\ turn' = turn
      BY <1>0, <2>1, CleanupShifts DEF CleanupExpired
    <2>3. ASSUME NEW i \in 1..Len(rows'), NEW j \in 1..Len(rows'), i < j
          PROVE  rows'[i].num < rows'[j].num
      <3>1. i + n < j + n /\ i + n \in 1..Len(rows) /\ j + n \in 1..Len(rows)
        BY <1>0, <2>2, <2>3
      <3>2. rows'[i] = rows[i + n] /\ rows'[j] = rows[j + n]
        BY <2>2
      <3> QED BY <3>1, <3>2 DEF RowsInv
    <2>4. \A i \in 1..Len(rows') :
             /\ turn'[rows'[i].by].at \in {"update", "done"}
             /\ turn'[rows'[i].by].num = rows'[i].num
             /\ \A m \in Message : turn'[m].at \in {"identity", "run", "emit", "save"} =>
                   rows'[i].num < turn'[m].num
             /\ \A m \in Message : turn'[m].at = "update" =>
                   rows'[i].by = m \/ rows'[i].num < turn'[m].num
      BY <2>2 DEF RowsInv
    <2>5. \A m \in Message : turn'[m].at = "update" => m \in expired' \/ HasRow(m)'
      <3> SUFFICES ASSUME NEW m \in Message, turn[m].at = "update"
                   PROVE  m \in expired' \/ HasRow(m)'
        BY <2>2
      <3>1. PICK i \in 1..Len(rows) : rows[i].by = m
        BY <2>2 DEF RowsInv, HasRow
      <3>2. CASE i <= n
        BY <2>2, <3>1, <3>2
      <3>3. CASE i > n
        BY <2>2, <3>1, <3>3 DEF HasRow
      <3> QED BY <2>2, <3>2, <3>3
    <2> QED BY <2>3, <2>4, <2>5 DEF RowsInv
  <1>3. ASSUME NEW m \in Message, LoadTurns(m) PROVE RowsInv'
    <2>1. UNCHANGED <<rows, expired>>
      BY <1>3 DEF LoadTurns
    <2>2. /\ turn[m].at = "load" /\ turn'[m].at = "identity"
          /\ \A k \in Message \ {m} : turn'[k] = turn[k]
          /\ \A i \in 1..Len(rows) : rows[i].num < turn'[m].num
      BY <1>0, <1>3, LoadFacts DEF RowsInv
    <2>3. \A i \in 1..Len(rows) : rows[i].by \in Message \ {m}
      BY <1>0, <2>2 DEF RowsInv
    <2> QED BY <2>1, <2>2, <2>3 DEF RowsInv, HasRow
  <1>4. ASSUME NEW m \in Message, SaveTranscript(m) PROVE RowsInv'
    <2>1. /\ turn[m].at = "save" /\ turn'[m].at = "update" /\ turn'[m].num = turn[m].num
          /\ \A k \in Message \ {m} : turn'[k] = turn[k]
      BY <1>0, <1>4, MoveFacts DEF SaveTranscript, TurnPoint
    <2>2. /\ Len(rows') = Len(rows) + 1 /\ \A i \in 1..Len(rows) : rows'[i] = rows[i]
          /\ rows'[Len(rows) + 1].num = turn[m].num /\ rows'[Len(rows) + 1].by = m
      BY <1>4, SaveAppends
    <2>3. UNCHANGED expired
      BY <1>4 DEF SaveTranscript
    <2>4. \A i \in 1..Len(rows) : rows[i].by # m /\ rows[i].num < turn[m].num
      BY <2>1 DEF RowsInv
    <2>5. \A k \in Message \ {m} : turn[k].at \in {"idle", "queued", "done"}
      BY <1>0, <2>1 DEF TurnLock, TurnPoint, TurnRecord
    <2>6. \A i, j \in 1..Len(rows') : i < j => rows'[i].num < rows'[j].num
      BY <1>0, <2>2, <2>4 DEF RowsInv
    <2>7. \A i \in 1..Len(rows') :
             /\ turn'[rows'[i].by].at \in {"update", "done"}
             /\ turn'[rows'[i].by].num = rows'[i].num
             /\ rows'[i].by = m \/ rows'[i].num < turn'[m].num
      BY <1>0, <2>1, <2>2, <2>4 DEF RowsInv
    <2>8. \A k \in Message : turn'[k].at \notin {"identity", "run", "emit", "save"}
      BY <2>1, <2>5
    <2>9. HasRow(m)' /\ \A k \in Message \ {m} : turn'[k].at # "update"
      BY <1>0, <2>1, <2>2, <2>5 DEF HasRow
    <2> QED BY <2>6, <2>7, <2>8, <2>9 DEF RowsInv
  <1>5. ASSUME NEW m \in Message, TurnMove(m) PROVE RowsInv'
    <2>1. UNCHANGED <<rows, expired>> /\ \A k \in Message \ {m} : turn'[k] = turn[k]
      BY <1>5 DEF TurnMove
    <2>2. \A k \in Message : turn'[k].num = turn[k].num /\ (turn'[k].at = "update" => turn'[k] = turn[k])
      BY <1>5 DEF TurnMove
    <2>3. \A k \in Message : turn'[k].at \in {"identity", "run", "emit", "save"} =>
             turn[k].at \in {"identity", "run", "emit", "save"}
      BY <1>5 DEF TurnMove
    <2>4. \A k \in Message : turn[k].at \in {"update", "done"} => turn'[k].at \in {"update", "done"}
      BY <1>5 DEF TurnMove
    <2>5. \A i \in 1..Len(rows) :
             /\ turn'[rows[i].by].at \in {"update", "done"}
             /\ turn'[rows[i].by].num = rows[i].num
      BY <1>0, <2>2, <2>4 DEF RowsInv
    <2>6. \A i \in 1..Len(rows) : \A k \in Message :
             /\ turn'[k].at \in {"identity", "run", "emit", "save"} => rows[i].num < turn'[k].num
             /\ turn'[k].at = "update" => rows[i].by = k \/ rows[i].num < turn'[k].num
      BY <2>2, <2>3 DEF RowsInv
    <2>7. \A k \in Message : turn'[k].at = "update" => k \in expired' \/ HasRow(k)'
      BY <2>1, <2>2 DEF RowsInv, HasRow
    <2> QED BY <2>1, <2>5, <2>6, <2>7 DEF RowsInv
  <1> QED BY <1>1, <1>2, <1>3, <1>4, <1>5, ChatCases, TurnMoves, UpdateMove

\* A turn that a client was told of keeps its row.
LEMMA KeptStep ==
    ASSUME ChatTypes, TurnLock, RowsInv, TurnsKept, [ChatNext]_chatVars
    PROVE  TurnsKept'
  <1>0. /\ \A i \in 1..Len(rows) : rows[i].num \in Nat /\ rows[i].by \in Message
        /\ turn \in [Message -> TurnRecord] /\ rows \in Seq(Row) /\ Len(rows) \in Nat
        /\ told \subseteq Message
    BY RowFields DEF ChatTypes
  <1>1. CASE UNCHANGED <<rows, chatSteps, turn, told, cut, expired, before>>
    BY <1>1 DEF TurnsKept
  <1>2. CASE \E n \in 1..Cardinality(Message) : CleanupExpired(n)
    <2>1. PICK n \in Nat : CleanupExpired(n)
      BY <1>2
    <2>2. /\ n \in 1..Len(rows) /\ Len(rows') = Len(rows) - n
          /\ \A i \in 1..Len(rows') : i + n \in 1..Len(rows) /\ rows'[i] = rows[i + n]
          /\ \A i \in 1..Len(rows) : i > n => i - n \in 1..Len(rows') /\ rows'[i - n] = rows[i]
          /\ expired = {} /\ expired' = {rows[i].by : i \in 1..n}
          /\ UNCHANGED <<turn, told, cut, chatSteps>>
      BY <1>0, <2>1, CleanupShifts DEF CleanupExpired
    <2>3. ASSUME NEW i \in 1..Len(rows')
          PROVE  \/ <<rows'[i].num, rows'[i].by>> \in chatSteps'
                 \/ rows'[i].by \in cut' \/ turn'[rows'[i].by].at = "update"
      <3>1. i + n \in 1..Len(rows) /\ rows'[i] = rows[i + n]
        BY <2>2
      <3> QED BY <2>2, <3>1 DEF TurnsKept
    <2>4. \A m \in told' : m \in cut' \cup expired' \/ turn'[m].at \in {"emit", "save"}
                           \/ \E i \in 1..Len(rows') : rows'[i].by = m
      <3> SUFFICES ASSUME NEW m \in told, m \notin cut, turn[m].at \notin {"emit", "save"}
                   PROVE  m \in expired' \/ \E i \in 1..Len(rows') : rows'[i].by = m
        BY <2>2
      <3>1. PICK i \in 1..Len(rows) : rows[i].by = m
        BY <2>2 DEF TurnsKept
      <3>2. CASE i <= n
        BY <2>2, <3>1, <3>2
      <3>3. CASE i > n
        BY <2>2, <3>1, <3>3
      <3> QED BY <2>2, <3>2, <3>3
    <2> QED BY <2>3, <2>4 DEF TurnsKept
  <1>3. ASSUME NEW m \in Message, LoadTurns(m) PROVE TurnsKept'
    <2>1. UNCHANGED <<rows, expired, told, cut, chatSteps>>
      BY <1>3 DEF LoadTurns
    <2>2. turn[m].at = "load" /\ \A k \in Message \ {m} : turn'[k] = turn[k]
      BY <1>0, <1>3, LoadFacts DEF RowsInv
    <2> QED BY <1>0, <2>1, <2>2 DEF TurnsKept
  <1>4. ASSUME NEW m \in Message, SaveTranscript(m) PROVE TurnsKept'
    <2>1. /\ turn[m].at = "save" /\ turn'[m].at = "update"
          /\ \A k \in Message \ {m} : turn'[k] = turn[k]
      BY <1>0, <1>4, MoveFacts DEF SaveTranscript, TurnPoint
    <2>2. /\ Len(rows') = Len(rows) + 1 /\ \A i \in 1..Len(rows) : rows'[i] = rows[i]
          /\ rows'[Len(rows) + 1].by = m
      BY <1>4, SaveAppends
    <2>3. UNCHANGED <<expired, told, cut, chatSteps>>
      BY <1>4 DEF SaveTranscript
    <2>4. \A k \in told' : k \in cut' \cup expired' \/ turn'[k].at \in {"emit", "save"}
                           \/ \E i \in 1..Len(rows') : rows'[i].by = k
      BY <1>0, <2>1, <2>2, <2>3 DEF TurnsKept
    <2>5. \A i \in 1..Len(rows') :
             \/ <<rows'[i].num, rows'[i].by>> \in chatSteps'
             \/ rows'[i].by \in cut' \/ turn'[rows'[i].by].at = "update"
      BY <1>0, <2>1, <2>2, <2>3 DEF TurnsKept
    <2> QED BY <2>4, <2>5 DEF TurnsKept
  <1>5. ASSUME NEW m \in Message, UpdateTurnStep(m) PROVE TurnsKept'
    <2>1. TurnMove(m) /\ turn[m].at = "update" /\ turn'[m].at = "done"
      BY <1>5, UpdateMove
    <2>2. CASE chatStatus = "none"
      <3>1. cut' = cut \cup {m} /\ UNCHANGED <<chatSteps, told>>
        BY <1>5, <2>2 DEF UpdateTurnStep
      <3> QED BY <1>0, <2>1, <3>1 DEF TurnsKept, TurnMove
    <2>3. CASE chatStatus # "none"
      <3>1. /\ UNCHANGED cut /\ told' = told \cup {m}
            /\ chatSteps' = {s \in chatSteps : s[1] # turn[m].num} \cup {<<turn[m].num, m>>}
        BY <1>5, <2>3 DEF UpdateTurnStep
      <3>2. m \in expired \/ \E i \in 1..Len(rows) : rows[i].by = m
        BY <2>1 DEF RowsInv, HasRow
      <3>3. \A k \in told' : k \in cut' \cup expired' \/ turn'[k].at \in {"emit", "save"}
                             \/ \E i \in 1..Len(rows') : rows'[i].by = k
        BY <1>0, <2>1, <3>1, <3>2 DEF TurnsKept, TurnMove
      <3>4. ASSUME NEW i \in 1..Len(rows)
            PROVE  \/ <<rows[i].num, rows[i].by>> \in chatSteps'
                   \/ rows[i].by \in cut' \/ turn'[rows[i].by].at = "update"
        <4>1. CASE rows[i].by = m
          <5>1. rows[i].num = turn[m].num
            BY <4>1 DEF RowsInv
          <5> QED BY <3>1, <4>1, <5>1
        <4>2. CASE rows[i].by # m
          <5>1. turn'[rows[i].by] = turn[rows[i].by]
            BY <1>0, <2>1, <4>2 DEF TurnMove
          <5>2. rows[i].num # turn[m].num
            BY <1>0, <2>1, <4>2 DEF RowsInv, TurnRecord
          <5>3. CASE <<rows[i].num, rows[i].by>> \in chatSteps
            BY <3>1, <5>2, <5>3
          <5> QED BY <3>1, <5>1, <5>3 DEF TurnsKept
        <4> QED BY <4>1, <4>2
      <3> QED BY <2>1, <3>3, <3>4 DEF TurnsKept, TurnMove
    <2> QED BY <2>2, <2>3
  <1>6. ASSUME NEW m \in Message, TurnMove(m), ToldMove(m) PROVE TurnsKept'
    BY <1>0, <1>6 DEF TurnMove, ToldMove, TurnsKept
  <1> QED BY <1>1, <1>2, <1>3, <1>4, <1>5, <1>6, ChatCases, TurnMoves

\* A context stays complete: what it misses has a number below its own, or has
\* expired.
LEMMA CompleteKept ==
    ASSUME NEW m \in Message, ContextComplete(m),
           turn'[m].context = turn[m].context, before'[m] = before[m],
           expired \subseteq expired', \A e \in before[m] : turn'[e].num = turn[e].num
    PROVE  ContextComplete(m)'
  BY DEF ContextComplete

\* The rows that load_recent_turns returns are complete: what it leaves out is
\* older than max_context_turns of them, each of a message of its own.
LEMMA LoadedComplete ==
    ASSUME ChatTypes, RowsInv, ContextInv, NEW m \in Message, LoadTurns(m)
    PROVE  ContextComplete(m)'
  <1> DEFINE n == Len(rows)
             seen == {RecentTurns[i].by : i \in 1..Len(RecentTurns)}
  <1>1. /\ \A i \in 1..n : rows[i].num \in Nat /\ rows[i].by \in Message
        /\ rows \in Seq(Row) /\ n \in Nat /\ MaxContext \in Nat \ {0}
    BY RowFields, ChatAssumption DEF ChatTypes
  <1>2. /\ First \in 1..(n + 1) /\ Len(RecentTurns) = n - First + 1
        /\ \A i \in 1..Len(RecentTurns) : RecentTurns[i] = rows[First + i - 1]
    BY <1>1, RecentFacts
  <1>3. /\ turn[m].at = "load" /\ turn'[m].context = RecentTurns
        /\ \A k \in Message \ {m} : turn'[k] = turn[k]
    BY <1>1, LoadFacts DEF ChatTypes, RowsInv
  <1>4. UNCHANGED <<rows, expired, before>>
    BY DEF LoadTurns
  <1>5. ASSUME NEW e \in before[m], e \notin seen, e \notin expired
        PROVE  /\ Cardinality(seen) = MaxContext
               /\ \A i \in 1..Len(RecentTurns) : turn'[e].num < RecentTurns[i].num
    <2>1. e \in Message /\ e # m
      BY <1>3 DEF ContextInv, ChatTypes
    <2>2. PICK j \in 1..n : rows[j].by = e
      BY <1>3, <1>5 DEF ContextInv, HasRow
    <2>3. j < First
      <3> SUFFICES ASSUME j >= First PROVE FALSE
        BY <1>1, <1>2
      <3>1. j - First + 1 \in 1..Len(RecentTurns) /\ First + (j - First + 1) - 1 = j
        BY <1>1, <1>2
      <3>2. RecentTurns[j - First + 1] = rows[j]
        BY <1>2, <3>1
      <3> QED BY <1>5, <2>2, <3>1, <3>2
    <2>4. Len(RecentTurns) = MaxContext
      BY <1>1, <1>2, <2>3 DEF First
    <2>5. turn'[e].num = rows[j].num
      BY <1>3, <2>1, <2>2 DEF RowsInv
    <2>6. ASSUME NEW i \in 1..Len(RecentTurns)
          PROVE  turn'[e].num < RecentTurns[i].num
      <3>1. First + i - 1 \in 1..n /\ j < First + i - 1 /\ RecentTurns[i] = rows[First + i - 1]
        BY <1>1, <1>2, <2>3
      <3> QED BY <1>1, <2>5, <3>1 DEF RowsInv
    <2>7. Cardinality(seen) = MaxContext
      <3> DEFINE f == [i \in 1..MaxContext |-> RecentTurns[i].by]
      <3>1. ASSUME NEW i \in 1..MaxContext, NEW k \in 1..MaxContext, f[i] = f[k]
            PROVE  i = k
        <4> DEFINE a == First + i - 1
                   b == First + k - 1
        <4>1. /\ a \in 1..n /\ b \in 1..n
              /\ RecentTurns[i] = rows[a] /\ RecentTurns[k] = rows[b]
          BY <1>1, <1>2, <2>4
        <4>2. rows[a].num = rows[b].num
          BY <3>1, <4>1 DEF RowsInv
        <4> HIDE DEF a, b
        <4>3. a = b
          <5>1. a \in Nat /\ b \in Nat /\ rows[a].num \in Nat
            BY <1>1, <4>1
          <5>2. ~(a < b) /\ ~(b < a)
            BY <4>1, <4>2, <5>1 DEF RowsInv
          <5> QED BY <5>1, <5>2
        <4> QED BY <1>1, <1>2, <4>3 DEF a, b
      <3>2. f \in [1..MaxContext -> seen] /\ \A x \in seen : \E i \in 1..MaxContext : f[i] = x
        BY <2>4
      <3> HIDE DEF f, seen
      <3>3. ExistsBijection(1..MaxContext, seen)
        BY <3>1, <3>2 DEF ExistsBijection, Bijection, Injection, Surjection, IsInjective
      <3> QED BY <1>1, <3>3, FS_CountingElements
    <2> QED BY <2>6, <2>7
  <1> HIDE DEF seen
  <1>6. seen = {turn'[m].context[i].by : i \in 1..Len(turn'[m].context)}
    BY <1>3 DEF seen
  <1> QED BY <1>3, <1>4, <1>5, <1>6 DEF ContextComplete

\* A context is loaded with what there was when the lock was taken.
LEMMA ContextStep ==
    ASSUME ChatTypes, TurnLock, RowsInv, ContextInv, [ChatNext]_chatVars
    PROVE  ContextInv'
  <1>0. /\ \A i \in 1..Len(rows) : rows[i].by \in Message
        /\ turn \in [Message -> TurnRecord] /\ rows \in Seq(Row) /\ Len(rows) \in Nat
        /\ before \in [Message -> SUBSET Message]
    BY RowFields DEF ChatTypes
  <1>1. CASE UNCHANGED <<rows, chatSteps, turn, told, cut, expired, before>>
    <2>1. \A m \in Message : ContextComplete(m) => ContextComplete(m)'
      BY <1>1, CompleteKept
    <2>2. \A e : HasRow(e)' <=> HasRow(e)
      BY <1>1 DEF HasRow
    <2> QED BY <1>1, <2>1, <2>2 DEF ContextInv
  <1>2. CASE \E n \in 1..Cardinality(Message) : CleanupExpired(n)
    <2>1. PICK n \in Nat : CleanupExpired(n)
      BY <1>2
    <2>2. /\ n \in 1..Len(rows)
          /\ \A i \in 1..Len(rows) : i > n => i - n \in 1..Len(rows') /\ rows'[i - n] = rows[i]
          /\ expired = {} /\ expired' = {rows[i].by : i \in 1..n}
          /\ UNCHANGED <<turn, before>>
      BY <1>0, <2>1, CleanupShifts DEF CleanupExpired
    <2>3. ASSUME NEW e, HasRow(e) PROVE e \in expired' \/ HasRow(e)'
      <3>1. PICK i \in 1..Len(rows) : rows[i].by = e
        BY <2>3 DEF HasRow
      <3>2. CASE i <= n
        BY <2>2, <3>1, <3>2
      <3>3. CASE i > n
        BY <2>2, <3>1, <3>3 DEF HasRow
      <3> QED BY <2>2, <3>2, <3>3
    <2>4. \A m \in Message : ContextComplete(m) => ContextComplete(m)'
      BY <2>2, CompleteKept
    <2> QED BY <2>2, <2>3, <2>4 DEF ContextInv
  <1>3. ASSUME NEW m \in Message, LoadTurns(m) PROVE ContextInv'
    <2>1. UNCHANGED <<rows, expired, before>>
      BY <1>3 DEF LoadTurns
    <2>2. /\ turn[m].at = "load" /\ turn'[m].at = "identity"
          /\ \A k \in Message \ {m} : turn'[k] = turn[k]
      BY <1>0, <1>3, LoadFacts DEF RowsInv
    <2>3. \A k \in Message : \A e \in before[k] : e \in Message \ {m} /\ turn'[e] = turn[e]
      BY <1>0, <2>2 DEF ContextInv
    <2>4. \A k \in Message \ {m} : ContextComplete(k) => ContextComplete(k)'
      BY <2>1, <2>2, <2>3, CompleteKept
    <2>5. ContextComplete(m)'
      BY <1>3, LoadedComplete
    <2>6. \A e : HasRow(e)' <=> HasRow(e)
      BY <2>1 DEF HasRow
    <2> QED BY <2>1, <2>2, <2>3, <2>4, <2>5, <2>6 DEF ContextInv
  <1>4. ASSUME NEW m \in Message, SaveTranscript(m) PROVE ContextInv'
    <2>1. /\ turn[m].at = "save" /\ turn'[m].at = "update" /\ turn'[m].num = turn[m].num
          /\ \A k \in Message \ {m} : turn'[k] = turn[k]
      BY <1>0, <1>4, MoveFacts DEF SaveTranscript, TurnPoint
    <2>2. UNCHANGED <<expired, before>>
      BY <1>4 DEF SaveTranscript
    <2>3. \A k \in Message \ {m} : turn'[k].at \in {"idle", "queued", "done"}
      BY <1>0, <2>1 DEF TurnLock, TurnPoint, TurnRecord
    <2>4. \A k \in Message : turn[k].at \in {"update", "done"} => turn'[k].at \in {"update", "done"}
      BY <2>1
    <2> QED BY <1>0, <2>1, <2>2, <2>3, <2>4 DEF ContextInv
  <1>5. ASSUME NEW m \in Message, TurnMove(m), BeforeMove(m) PROVE ContextInv'
    <2>1. UNCHANGED <<rows, expired>>
      BY <1>5 DEF TurnMove
    <2>2. /\ \A k \in Message : turn[k].at \in {"update", "done"} => turn'[k].at \in {"update", "done"}
          /\ \A k \in Message : turn'[k].num = turn[k].num /\ turn'[k].context = turn[k].context
          /\ \A k \in Message : turn'[k].at \in {"identity", "run"} => turn[k].at \in {"identity", "run"}
          /\ \A k \in Message \ {m} : turn'[k] = turn[k]
      BY <1>5 DEF TurnMove, BeforeMove
    <2>3. ASSUME NEW k \in Message, before'[k] = before[k], ContextComplete(k)
          PROVE  ContextComplete(k)'
      BY <1>0, <2>1, <2>2, <2>3, CompleteKept
    <2>4. \A e : HasRow(e)' <=> HasRow(e)
      BY <2>1 DEF HasRow
    <2>5. CASE TakeLock(m)
      <3>1. /\ before'[m] = {rows[i].by : i \in 1..Len(rows)}
            /\ \A k \in Message \ {m} : before'[k] = before[k]
        BY <1>0, <2>5 DEF TakeLock
      <3>2. turn'[m].at = "check"
        BY <1>0, <2>5, MoveFacts DEF TakeLock, TurnPoint
      <3>3. \A e \in before'[m] : HasRow(e)' /\ turn'[e].at \in {"update", "done"}
        <4> SUFFICES ASSUME NEW i \in 1..Len(rows), NEW e, e = rows[i].by
                     PROVE  HasRow(e)' /\ turn'[e].at \in {"update", "done"}
          BY <3>1
        <4>1. HasRow(e)
          BY DEF HasRow
        <4>2. e \in Message /\ turn[e].at \in {"update", "done"}
          BY <1>0 DEF RowsInv
        <4> QED BY <2>2, <2>4, <4>1, <4>2
      <3>4. \A k \in Message \ {m} :
               /\ \A e \in before'[k] : turn'[e].at \in {"update", "done"}
               /\ turn'[k].at \in {"check", "load"} => \A e \in before'[k] : e \in expired' \/ HasRow(e)'
               /\ turn'[k].at \in {"identity", "run"} => ContextComplete(k)'
        BY <1>0, <2>1, <2>2, <2>3, <2>4, <3>1 DEF ContextInv
      <3> QED BY <3>2, <3>3, <3>4 DEF ContextInv
    <2>6. CASE /\ before' = before
               /\ turn'[m].at \in {"check", "load"} => turn[m].at \in {"check", "load"}
      <3>1. \A k \in Message : ContextComplete(k) => ContextComplete(k)'
        BY <2>3, <2>6
      <3> QED BY <1>0, <2>1, <2>2, <2>4, <2>6, <3>1 DEF ContextInv
    <2> QED BY <1>5, <2>5, <2>6 DEF BeforeMove
  <1> QED BY <1>1, <1>2, <1>3, <1>4, <1>5, ChatCases, TurnMoves, UpdateMove

\* ChatInv holds in every reachable state.
THEOREM ChatInvariance == ChatSpec => []ChatInv
  <1>1. ChatInit => ChatInv
    <2> SUFFICES ASSUME ChatInit PROVE ChatInv
      OBVIOUS
    <2>1. \A m \in Message : turn[m] = [at |-> "idle", num |-> 0, context |-> <<>>, events |-> <<>>]
      BY DEF ChatInit
    <2>2. \A m \in Message : turn[m] \in TurnRecord /\ turn[m].at = "idle"
      <3>1. <<>> \in Seq(Row) /\ <<>> \in Transcript
        BY ChatAssumption
      <3>2. "idle" \in TurnPoint
        BY DEF TurnPoint
      <3>3. [at |-> "idle", num |-> 0, context |-> <<>>, events |-> <<>>] \in TurnRecord
        BY <3>1, <3>2 DEF TurnRecord
      <3> QED BY <2>1, <3>3
    <2>3. turn \in [Message -> TurnRecord]
      BY <2>2 DEF ChatInit
    <2>4. rows = <<>> /\ Len(rows) = 0 /\ rows \in Seq(Row)
      BY DEF ChatInit
    <2>5. ChatTypes
      BY <2>3, <2>4, ChatAssumption DEF ChatInit, ChatTypes
    <2>6. TurnLock /\ RowsInv /\ ContextInv /\ LateInv
      BY <2>2, <2>4 DEF ChatInit, TurnLock, RowsInv, ContextInv, LateInv
    <2>7. TurnsKept
      BY <2>4 DEF ChatInit, TurnsKept
    <2> QED BY <2>5, <2>6, <2>7 DEF ChatInv
  <1>2. ChatInv /\ [ChatNext]_chatVars => ChatInv'
    BY TurnLockStep, LateStep, ChatTypesStep, RowsStep, KeptStep, ContextStep DEF ChatInv
  <1> QED BY <1>1, <1>2, PTL DEF ChatSpec

\* _save_turn and update_step: what a client was told of stays in the transcript
\* store until it expires, under the number that the run state records.
THEOREM TurnsAreKept == ChatSpec => []TurnsKept
  <1>1. ChatInv => TurnsKept
    BY DEF ChatInv
  <1> QED BY <1>1, ChatInvariance, PTL

\* _check_not_terminal: a cancel lets at most one more turn be saved.
THEOREM OneLateTurnHolds == ChatSpec => []OneLateTurn
  <1>1. ChatInv => OneLateTurn
    <2> SUFFICES ASSUME ChatInv PROVE Cardinality(lateTurns) <= 1
      BY DEF OneLateTurn
    <2>1. CASE lateTurns = {}
      BY <2>1, FS_EmptySet
    <2>2. CASE lateTurns # {}
      <3>1. PICK m : m \in lateTurns
        BY <2>2
      <3>2. lateTurns = {m}
        BY <3>1 DEF ChatInv, LateInv
      <3>3. Cardinality({m}) = 1
        BY FS_Singleton
      <3> QED BY <3>2, <3>3
    <2> QED BY <2>1, <2>2
  <1> QED BY <1>1, ChatInvariance, PTL

-----------------------------------------------------------------------------
(* Folds.  What is true at 0 and stays true is true of every number; a     *)
(* function can be defined by what it is at 0 and from one number to the   *)
(* next.                                                                   *)

LessThan == {xy \in Nat \X Nat : xy[1] < xy[2]}

\* Induction over 0..n, for a set of numbers, from the least number outside it.
LEMMA Induction ==
    ASSUME NEW T \in SUBSET Nat, 0 \in T, NEW n \in Nat,
           \A k \in 0..n : k \in T /\ k # n => k + 1 \in T
    PROVE  n \in T
  <1> SUFFICES ASSUME n \notin T PROVE FALSE
    OBVIOUS
  <1> DEFINE Bad == (0..n) \ T
  <1>1. Bad \subseteq Nat /\ n \in Bad
    OBVIOUS
  <1>2. IsWellFoundedOn(LessThan, Nat)
    <2>1. LessThan = OpToRel(<, Nat)
      BY Zenon DEF LessThan, OpToRel
    <2> QED BY <2>1, NatLessThanWellFounded, Zenon
  <1>3. PICK x \in Bad : \A y \in Bad : ~(<<y, x>> \in LessThan)
    <2> HIDE DEF Bad
    <2> QED BY <1>1, <1>2, WFMin
  <1>4. x \in 0..n /\ x # 0 /\ x \notin T
    OBVIOUS
  <1>5. x - 1 \in 0..n /\ x - 1 \notin Bad
    <2>1. x \in Nat /\ x - 1 \in Nat /\ x - 1 \in 0..n /\ x - 1 < x
      BY <1>4
    <2>2. <<x - 1, x>> \in LessThan
      BY <2>1 DEF LessThan
    <2> HIDE DEF Bad
    <2> QED BY <1>3, <2>1, <2>2
  <1>6. x - 1 \in T /\ x - 1 # n
    BY <1>4, <1>5
  <1>7. (x - 1) + 1 \in T
    BY <1>5, <1>6
  <1> QED BY <1>4, <1>7

\* The steps 1..n of a fold over states in S, and the states it goes through.
FoldSteps(S, n) == [S \X (1..n) -> S]
IsFold(g, S, n, s, step) ==
    /\ g \in [0..n -> S]
    /\ g[0] = s /\ \A k \in 1..n : g[k] = step[<<g[k - 1], k>>]

\* Such a sequence of states exists: a fold over a list is defined.
LEMMA FoldExists ==
    ASSUME NEW S, NEW n \in Nat, NEW s \in S, NEW step \in FoldSteps(S, n)
    PROVE  \E g : IsFold(g, S, n, s, step)
  <1> USE DEF FoldSteps
  <1> DEFINE Good_(g, m) == /\ g \in [0..m -> S] /\ g[0] = s
                            /\ \A k \in 1..m : g[k] = step[<<g[k - 1], k>>]
             T == {m \in Nat : m <= n => \E g : Good_(g, m)}
  <1>1. 0 \in T
    <2>1. Good_([k \in 0..0 |-> s], 0)
      OBVIOUS
    <2> QED BY <2>1
  <1>2. ASSUME NEW m \in 0..n, m \in T, m # n PROVE m + 1 \in T
    <2>1. PICK g : Good_(g, m)
      BY <1>2
    <2> DEFINE h == [k \in 0..(m + 1) |-> IF k = m + 1 THEN step[<<g[m], m + 1>>] ELSE g[k]]
    <2>2. g[m] \in S /\ m + 1 \in 1..n
      BY <1>2, <2>1
    <2>3. step[<<g[m], m + 1>>] \in S
      BY <2>2
    <2>4. h \in [0..(m + 1) -> S] /\ h[0] = s
      BY <1>2, <2>1, <2>3
    <2>5. ASSUME NEW k \in 1..(m + 1) PROVE h[k] = step[<<h[k - 1], k>>]
      <3>1. CASE k = m + 1
        <4>1. h[k] = step[<<g[m], m + 1>>] /\ h[k - 1] = g[m]
          BY <1>2, <3>1
        <4> QED BY <3>1, <4>1
      <3>2. CASE k # m + 1
        <4>1. k \in 1..m /\ h[k] = g[k] /\ h[k - 1] = g[k - 1]
          BY <1>2, <3>2
        <4> QED BY <2>1, <4>1
      <3> QED BY <3>1, <3>2
    <2> HIDE DEF h
    <2>6. Good_(h, m + 1)
      BY <2>4, <2>5
    <2> QED BY <2>6
  <1>3. T \subseteq Nat
    OBVIOUS
  <1> HIDE DEF T
  <1>4. n \in T
    BY <1>1, <1>2, <1>3, Induction
  <1> QED BY <1>4 DEF T, IsFold

-----------------------------------------------------------------------------
(* Queues of open calls                                                    *)

\* The calls of tr that have no answer among its first n events.
OpenAt(tr, n) ==
    {c \in 1..n : tr[c].kind = "call"
                  /\ \A a \in 1..n : ~(tr[a].kind = "result" /\ tr[a].id = tr[c].id)}

\* The queue lists the calls in C in their order, each by its label.
Lists(queue, C, lab) ==
    \E pos \in [1..Len(queue) -> C] :
        /\ \A i, j \in 1..Len(queue) : i < j => pos[i] < pos[j]
        /\ \A c \in C : \E j \in 1..Len(queue) : pos[j] = c
        /\ \A j \in 1..Len(queue) : queue[j] = lab[pos[j]]

\* A call that is put into the queue becomes its last.
LEMMA ListsAppend ==
    ASSUME NEW L, NEW queue \in Seq(L), NEW n \in Nat, NEW C \in SUBSET (1..n), NEW lab,
           Lists(queue, C, lab), lab[n + 1] \in L
    PROVE  Lists(Append(queue, lab[n + 1]), C \cup {n + 1}, lab)
  <1> DEFINE q == Append(queue, lab[n + 1])
             l == Len(queue)
  <1>1. PICK pos \in [1..l -> C] :
           /\ \A i, j \in 1..l : i < j => pos[i] < pos[j]
           /\ \A c \in C : \E j \in 1..l : pos[j] = c
           /\ \A j \in 1..l : queue[j] = lab[pos[j]]
    BY DEF Lists
  <1> DEFINE new == [j \in 1..(l + 1) |-> IF j = l + 1 THEN n + 1 ELSE pos[j]]
  <1>2. l \in Nat /\ Len(q) = l + 1 /\ q[l + 1] = lab[n + 1] /\ \A j \in 1..l : q[j] = queue[j]
    OBVIOUS
  <1>3. new \in [1..(l + 1) -> C \cup {n + 1}]
    BY <1>2
  <1>4. ASSUME NEW i \in 1..(l + 1), NEW j \in 1..(l + 1), i < j PROVE new[i] < new[j]
    <2>1. i \in 1..l /\ pos[i] \in C
      BY <1>2, <1>4
    <2>2. pos[i] \in 1..n
      BY <2>1
    <2>3. CASE j = l + 1
      BY <1>2, <2>1, <2>2, <2>3
    <2>4. CASE j # l + 1
      BY <1>1, <1>2, <1>4, <2>1, <2>4
    <2> QED BY <2>3, <2>4
  <1>5. \A c \in C \cup {n + 1} : \E j \in 1..(l + 1) : new[j] = c
    BY <1>1, <1>2
  <1>6. \A j \in 1..(l + 1) : q[j] = lab[new[j]]
    BY <1>1, <1>2
  <1> HIDE DEF q, new
  <1> QED BY <1>2, <1>3, <1>4, <1>5, <1>6 DEF Lists, q

\* The answer to the oldest open call finds it at the head of the queue.
LEMMA ListsTail ==
    ASSUME NEW L, NEW queue \in Seq(L), NEW n \in Nat, NEW C \in SUBSET (1..n), NEW lab,
           Lists(queue, C, lab), NEW c \in C, \A d \in C : c <= d
    PROVE  /\ queue # <<>> /\ Head(queue) = lab[c]
           /\ Lists(Tail(queue), C \ {c}, lab)
  <1> DEFINE q == Tail(queue)
             l == Len(queue)
  <1>1. PICK pos \in [1..l -> C] :
           /\ \A i, j \in 1..l : i < j => pos[i] < pos[j]
           /\ \A d \in C : \E j \in 1..l : pos[j] = d
           /\ \A j \in 1..l : queue[j] = lab[pos[j]]
    BY DEF Lists
  <1>2. l \in Nat /\ l # 0 /\ 1 \in 1..l
    <2>1. PICK j \in 1..l : pos[j] = c
      BY <1>1, Zenon
    <2>2. l \in Nat
      OBVIOUS
    <2> HIDE DEF l
    <2> QED BY <2>1, <2>2
  <1>3. pos[1] = c
    <2>1. PICK j \in 1..l : pos[j] = c
      BY <1>1
    <2>2. pos[1] \in C /\ c <= pos[1]
      BY <1>2
    <2>3. pos[1] \in 1..n /\ c \in 1..n
      BY <2>2
    <2>4. j # 1 => pos[1] < pos[j]
      BY <1>1, <1>2
    <2> QED BY <2>1, <2>2, <2>3, <2>4
  <1>4. queue # <<>> /\ Head(queue) = lab[c]
    BY <1>1, <1>2, <1>3
  <1>5. Len(q) = l - 1 /\ \A j \in 1..(l - 1) : q[j] = queue[j + 1] /\ j + 1 \in 1..l
    BY <1>2, <1>4
  <1> DEFINE new == [j \in 1..(l - 1) |-> pos[j + 1]]
  <1>6. \A i, j \in 1..(l - 1) : i < j => new[i] < new[j]
    BY <1>1, <1>2
  <1>7. new \in [1..(l - 1) -> C \ {c}]
    <2>1. ASSUME NEW j \in 1..(l - 1) PROVE pos[j + 1] \in C \ {c}
      <3>1. j + 1 \in 1..l /\ 1 < j + 1
        BY <1>2
      <3>2. pos[j + 1] \in C /\ pos[1] < pos[j + 1]
        BY <1>1, <1>2, <3>1
      <3>3. pos[j + 1] \in 1..n
        BY <3>2
      <3> QED BY <1>3, <3>2, <3>3
    <2> QED BY <2>1
  <1>8. ASSUME NEW d \in C \ {c} PROVE \E j \in 1..(l - 1) : new[j] = d
    <2>1. PICK j \in 1..l : pos[j] = d
      BY <1>1
    <2>2. j - 1 \in 1..(l - 1) /\ (j - 1) + 1 = j
      BY <1>2, <1>3, <2>1
    <2> QED BY <2>1, <2>2
  <1>9. \A j \in 1..(l - 1) : q[j] = lab[new[j]]
    BY <1>1, <1>5
  <1>10. Lists(q, C \ {c}, lab)
    <2> DEFINE k == l - 1
    <2>1. /\ Len(q) = k /\ new \in [1..k -> C \ {c}]
          /\ \A i, j \in 1..k : i < j => new[i] < new[j]
          /\ \A d \in C \ {c} : \E j \in 1..k : new[j] = d
          /\ \A j \in 1..k : q[j] = lab[new[j]]
      BY <1>5, <1>6, <1>7, <1>8, <1>9
    <2> HIDE DEF q, new, k
    <2> QED BY <2>1 DEF Lists
  <1> QED BY <1>4, <1>10

\* An event changes the open calls as it changes the queue.
LEMMA OpenFacts ==
    ASSUME NEW tr \in Seq(ToolEvent), AnsweredInOrder(tr), NEW n \in 0..Len(tr), n # Len(tr)
    PROVE  /\ tr[n + 1].kind = "call" => OpenAt(tr, n + 1) = OpenAt(tr, n) \cup {n + 1}
           /\ tr[n + 1].kind = "result" /\ tr[n + 1].id = 0 =>
                 OpenAt(tr, n) = {} /\ OpenAt(tr, n + 1) = {}
           /\ tr[n + 1].kind = "result" /\ tr[n + 1].id # 0 =>
                 \E c \in OpenAt(tr, n) :
                     /\ tr[c].id = tr[n + 1].id /\ \A d \in OpenAt(tr, n) : c <= d
                     /\ OpenAt(tr, n + 1) = OpenAt(tr, n) \ {c}
  <1> DEFINE At == 1..Len(tr)
             Answered(c, a) == tr[c].kind = "call" /\ tr[a].kind = "result" /\ tr[c].id = tr[a].id
  <1>0. Len(tr) \in Nat /\ n \in Nat /\ n + 1 \in At /\ \A i \in 1..n : i \in At
    OBVIOUS
  <1>1. /\ \A c \in At : tr[c].kind = "call" =>
              tr[c].id # 0 /\ \E a \in At : c < a /\ Answered(c, a)
        /\ \A a \in At : tr[a].kind = "result" /\ tr[a].id # 0 => \E c \in At : Answered(c, a)
        /\ \A i, j \in At : tr[i].kind = tr[j].kind /\ tr[i].id = tr[j].id /\ tr[i].id # 0 => i = j
        /\ \A c, d, a, b \in At : Answered(c, a) /\ Answered(d, b) /\ c < d => a < b
        /\ \A r, c \in At : /\ tr[r].kind = "result" /\ tr[r].id = 0
                            /\ tr[c].kind = "call" /\ c < r
              => \E a \in At : a < r /\ Answered(c, a)
    BY DEF AnsweredInOrder
  <1>2. ASSUME NEW c \in At, NEW a \in At, Answered(c, a) PROVE c < a
    <2>1. PICK b \in At : c < b /\ Answered(c, b)
      BY <1>1, <1>2
    <2>2. /\ tr[b].kind = "result" /\ tr[a].kind = "result" /\ tr[a].id = tr[c].id
          /\ tr[b].id = tr[c].id /\ tr[c].kind = "call"
      BY <1>2, <2>1
    <2>3. tr[c].id # 0
      BY <1>1, <2>2
    <2>4. b = a
      BY <1>1, <2>2, <2>3
    <2> QED BY <2>1, <2>4
  <1>3. ASSUME tr[n + 1].kind = "call" PROVE OpenAt(tr, n + 1) = OpenAt(tr, n) \cup {n + 1}
    <2>1. \A a \in 1..(n + 1) : ~(tr[a].kind = "result" /\ tr[a].id = tr[n + 1].id)
      BY <1>0, <1>2, <1>3
    <2>2. ASSUME NEW c \in OpenAt(tr, n + 1) PROVE c \in OpenAt(tr, n) \cup {n + 1}
      BY <1>0 DEF OpenAt
    <2>3. ASSUME NEW c \in OpenAt(tr, n) PROVE c \in OpenAt(tr, n + 1)
      <3>1. \A a \in 1..(n + 1) : a \in 1..n \/ a = n + 1
        BY <1>0
      <3> QED BY <1>0, <1>3, <3>1 DEF OpenAt
    <2>4. n + 1 \in OpenAt(tr, n + 1)
      BY <1>0, <1>3, <2>1 DEF OpenAt
    <2> QED BY <2>2, <2>3, <2>4
  <1>4. ASSUME tr[n + 1].kind = "result", tr[n + 1].id = 0
        PROVE  OpenAt(tr, n) = {} /\ OpenAt(tr, n + 1) = {}
    <2>1. ASSUME NEW c \in 1..(n + 1), tr[c].kind = "call"
          PROVE  \E a \in 1..n : tr[a].kind = "result" /\ tr[a].id = tr[c].id
      <3>1. c \in At /\ c < n + 1
        BY <1>0, <1>4, <2>1
      <3>2. PICK a \in At : a < n + 1 /\ Answered(c, a)
        BY <1>0, <1>1, <1>4, <2>1, <3>1
      <3>3. a \in 1..n
        BY <1>0, <3>2
      <3> QED BY <3>2, <3>3
    <2>2. \A a \in 1..n : a \in 1..(n + 1)
      BY <1>0
    <2> QED BY <2>1, <2>2 DEF OpenAt
  <1>5. ASSUME tr[n + 1].kind = "result", tr[n + 1].id # 0
        PROVE  \E c \in OpenAt(tr, n) :
                   /\ tr[c].id = tr[n + 1].id /\ \A d \in OpenAt(tr, n) : c <= d
                   /\ OpenAt(tr, n + 1) = OpenAt(tr, n) \ {c}
    <2>1. PICK c \in At : Answered(c, n + 1)
      BY <1>0, <1>1, <1>5
    <2>2. c \in 1..n
      BY <1>0, <1>2, <2>1
    <2>3. c \in OpenAt(tr, n)
      <3>1. \A a \in 1..n : ~(tr[a].kind = "result" /\ tr[a].id = tr[c].id)
        <4> SUFFICES ASSUME NEW a \in 1..n, tr[a].kind = "result", tr[a].id = tr[c].id
                     PROVE  FALSE
          OBVIOUS
        <4>1. a \in At /\ a # n + 1 /\ tr[a].id = tr[n + 1].id
          BY <1>0, <2>1
        <4> QED BY <1>0, <1>1, <1>5, <4>1
      <3> QED BY <2>1, <2>2, <3>1 DEF OpenAt
    <2>4. ASSUME NEW d \in OpenAt(tr, n) PROVE c <= d
      <3>1. d \in 1..n /\ d \in At /\ tr[d].kind = "call"
        BY <1>0 DEF OpenAt
      <3>2. PICK b \in At : Answered(d, b)
        BY <1>1, <3>1
      <3>3. b \notin 1..n
        BY <3>2 DEF OpenAt
      <3>4. ~(b < n + 1)
        BY <1>0, <3>3
      <3>5. ~(d < c)
        BY <1>0, <1>1, <2>1, <3>1, <3>2, <3>4
      <3> QED BY <2>2, <3>1, <3>5
    <2>5. ASSUME NEW d \in 1..(n + 1)
          PROVE  d \in OpenAt(tr, n + 1) <=> d \in OpenAt(tr, n) /\ d # c
      <3>1. d = n + 1 => d \notin OpenAt(tr, n + 1) /\ d \notin OpenAt(tr, n)
        BY <1>0, <1>5 DEF OpenAt
      <3>2. ASSUME d \in 1..n, d \in OpenAt(tr, n + 1)
            PROVE  d \in OpenAt(tr, n) /\ d # c
        <4>1. n + 1 \in 1..(n + 1) /\ \A a \in 1..n : a \in 1..(n + 1)
          BY <1>0
        <4> QED BY <1>5, <2>1, <3>2, <4>1 DEF OpenAt
      <3>3. ASSUME d \in OpenAt(tr, n), d # c PROVE d \in OpenAt(tr, n + 1)
        <4>1. tr[d].kind = "call" /\ d \in At /\ tr[d].id # 0
          BY <1>0, <1>1, <3>3 DEF OpenAt
        <4>2. tr[d].id # tr[n + 1].id
          BY <1>1, <2>1, <3>3, <4>1
        <4>3. \A a \in 1..(n + 1) : a \in 1..n \/ a = n + 1
          BY <1>0
        <4> QED BY <3>3, <4>2, <4>3 DEF OpenAt
      <3>4. d = n + 1 \/ d \in 1..n
        BY <1>0
      <3> QED BY <3>1, <3>2, <3>3, <3>4
    <2>6. OpenAt(tr, n + 1) = OpenAt(tr, n) \ {c}
      <3>1. OpenAt(tr, n + 1) \subseteq 1..(n + 1) /\ OpenAt(tr, n) \subseteq 1..(n + 1)
        BY <1>0 DEF OpenAt
      <3> QED BY <2>5, <3>1
    <2> QED BY <2>1, <2>3, <2>4, <2>6
  <1> QED BY <1>3, <1>4, <1>5

-----------------------------------------------------------------------------
(* _save_turn                                                              *)

\* The states of _save_turn's loop over the events, and the loop.
Nothing == [queue |-> <<>>, msgs |-> <<>>]
KeptStates == [queue : Seq(Nat), msgs : Seq(ToolEvent)]
KeptFold(events) ==
    CHOOSE f : f = [n \in 0..Len(events) |->
                      IF n = 0 THEN Nothing ELSE KeepEvent(f[n - 1], events[n])]

\* An event leaves a queue of ids and a list of messages.
LEMMA KeepEventType ==
    ASSUME NEW s \in KeptStates, NEW e \in ToolEvent
    PROVE  KeepEvent(s, e) \in KeptStates
  <1>1. s.queue \in Seq(Nat) /\ s.msgs \in Seq(ToolEvent) /\ e.id \in Nat
    BY DEF KeptStates, ToolEvent
  <1>2. CASE e.kind = "call"
    <2>1. (IF e.safe THEN e.id ELSE 0) \in Nat
      BY <1>1
    <2>2. Append(s.queue, IF e.safe THEN e.id ELSE 0) \in Seq(Nat)
      BY <1>1, <2>1
    <2>3. (IF e.safe THEN Append(s.msgs, e) ELSE s.msgs) \in Seq(ToolEvent)
      BY <1>1
    <2> QED BY <1>2, <2>2, <2>3 DEF KeepEvent, KeptStates
  <1>3. CASE e.kind # "call" /\ s.queue = <<>>
    BY <1>3 DEF KeepEvent
  <1>4. CASE e.kind # "call" /\ s.queue # <<>>
    <2>1. Tail(s.queue) \in Seq(Nat)
      BY <1>1, <1>4
    <2>2. (IF Head(s.queue) = 0 THEN s.msgs ELSE Append(s.msgs, e)) \in Seq(ToolEvent)
      BY <1>1
    <2> QED BY <1>4, <2>1, <2>2 DEF KeepEvent, KeptStates
  <1> QED BY <1>2, <1>3, <1>4

\* KeptMessages is what the loop, event by event, ends with.
LEMMA KeptFacts ==
    ASSUME NEW events \in Seq(ToolEvent)
    PROVE  /\ KeptMessages(events) = KeptFold(events)[Len(events)].msgs
           /\ KeptFold(events) \in [0..Len(events) -> KeptStates]
           /\ KeptFold(events)[0] = Nothing
           /\ \A n \in 1..Len(events) :
                 KeptFold(events)[n] = KeepEvent(KeptFold(events)[n - 1], events[n])
  <1> DEFINE l == Len(events)
             step == [x \in KeptStates \X (1..l) |-> KeepEvent(x[1], events[x[2]])]
             Is(f) == f = [n \in 0..l |-> IF n = 0 THEN Nothing ELSE KeepEvent(f[n - 1], events[n])]
  <1>1. l \in Nat /\ \A n \in 1..l : events[n] \in ToolEvent
    OBVIOUS
  <1>2. step \in FoldSteps(KeptStates, l)
    BY <1>1, KeepEventType DEF FoldSteps
  <1>3. Nothing \in KeptStates
    BY DEF Nothing, KeptStates
  <1>4. PICK g : IsFold(g, KeptStates, l, Nothing, step)
    BY <1>1, <1>2, <1>3, FoldExists
  <1>5. Is(g)
    <2>0. /\ g \in [0..l -> KeptStates]
          /\ g[0] = Nothing /\ \A k \in 1..l : g[k] = step[<<g[k - 1], k>>]
      BY <1>4 DEF IsFold
    <2>1. ASSUME NEW n \in 0..l
          PROVE  g[n] = IF n = 0 THEN Nothing ELSE KeepEvent(g[n - 1], events[n])
      <3>1. CASE n = 0
        BY <2>0, <3>1
      <3>2. CASE n # 0
        <4>1. n \in 1..l /\ n - 1 \in 0..l
          BY <1>1, <3>2
        <4>2. <<g[n - 1], n>> \in KeptStates \X (1..l)
          BY <2>0, <4>1
        <4> QED BY <2>0, <3>2, <4>1, <4>2
      <3> QED BY <3>1, <3>2
    <2> QED BY <2>0, <2>1
  <1>6. KeptFold(events) = CHOOSE f : Is(f)
    BY DEF KeptFold
  <1> HIDE DEF Is
  <1>7. Is(KeptFold(events))
    BY <1>5, <1>6, Zenon
  <1>8. ASSUME NEW f, Is(f), NEW n \in 0..l
        PROVE  /\ f[n] = IF n = 0 THEN Nothing ELSE KeepEvent(f[n - 1], events[n])
               /\ DOMAIN f = 0..l
    BY <1>8 DEF Is
  <1> DEFINE K == KeptFold(events)
  <1> HIDE DEF K
  <1>9. K[0] = Nothing /\ \A n \in 1..l : K[n] = KeepEvent(K[n - 1], events[n])
    BY <1>1, <1>7, <1>8 DEF K
  <1>10. \A n \in 0..l : K[n] \in KeptStates
    <2> SUFFICES ASSUME NEW n \in 0..l PROVE K[n] \in KeptStates
      OBVIOUS
    <2> DEFINE T == {k \in Nat : k <= l => K[k] \in KeptStates}
    <2>1. 0 \in T
      BY <1>3, <1>9
    <2>2. ASSUME NEW k \in 0..n, k \in T, k # n PROVE k + 1 \in T
      <3>1. k + 1 \in 1..l /\ K[k] \in KeptStates /\ (k + 1) - 1 = k
        BY <1>1, <2>2
      <3>2. K[k + 1] = KeepEvent(K[k], events[k + 1])
        BY <1>9, <3>1
      <3> QED BY <1>1, <3>1, <3>2, KeepEventType
    <2>3. T \in SUBSET Nat /\ n \in Nat
      OBVIOUS
    <2>4. n \in T
      <3> HIDE DEF T
      <3> QED BY <2>1, <2>2, <2>3, Induction
    <2> QED BY <2>4
  <1>11. K \in [0..l -> KeptStates]
    <2>1. K = [n \in 0..l |-> K[n]]
      BY <1>7 DEF K, Is
    <2> QED BY <1>10, <2>1
  <1>12. KeptMessages(events) = K[l].msgs
    BY DEF KeptMessages, K, KeptFold, Nothing
  <1> QED BY <1>9, <1>11, <1>12 DEF K

\* What _save_turn keeps of a transcript is a list of events, too.
LEMMA KeptType ==
    ASSUME NEW events \in Seq(ToolEvent)
    PROVE  KeptMessages(events) \in Seq(ToolEvent)
  <1>1. /\ KeptMessages(events) = KeptFold(events)[Len(events)].msgs
        /\ KeptFold(events) \in [0..Len(events) -> KeptStates]
    BY KeptFacts
  <1>2. KeptFold(events)[Len(events)] \in KeptStates
    BY <1>1
  <1> QED BY <1>1, <1>2 DEF KeptStates

-----------------------------------------------------------------------------
(* _build_message_history                                                  *)

\* A call is told by its turn and its id; the states of the replay.
CallId == Nat \X Nat
ReplayStates == [open : Seq(CallId), pairs : SUBSET (CallId \X CallId)]

\* A message leaves a queue of calls and a set of pairs.
LEMMA ReplayMessageType ==
    ASSUME NEW h \in ReplayStates, NEW kind, NEW id \in CallId
    PROVE  ReplayMessage(h, kind, id) \in ReplayStates
  <1>1. h.open \in Seq(CallId) /\ h.pairs \in SUBSET (CallId \X CallId) /\ <<0, 0>> \in CallId
    BY DEF ReplayStates, CallId
  <1> HIDE DEF CallId
  <1>2. CASE kind = "call"
    <2>1. Append(h.open, id) \in Seq(CallId)
      BY <1>1
    <2>2. ReplayMessage(h, kind, id) = [h EXCEPT !.open = Append(h.open, id)]
      BY <1>2 DEF ReplayMessage
    <2> QED BY <2>1, <2>2 DEF ReplayStates
  <1>3. CASE kind # "call" /\ h.open = <<>>
    <2>1. h.pairs \cup {<<<<0, 0>>, id>>} \in SUBSET (CallId \X CallId)
      BY <1>1
    <2>2. ReplayMessage(h, kind, id) = [h EXCEPT !.pairs = h.pairs \cup {<<<<0, 0>>, id>>}]
      BY <1>3 DEF ReplayMessage
    <2> QED BY <2>1, <2>2 DEF ReplayStates
  <1>4. CASE kind # "call" /\ h.open # <<>>
    <2>1. Tail(h.open) \in Seq(CallId) /\ Head(h.open) \in CallId
      BY <1>1, <1>4
    <2>2. h.pairs \cup {<<Head(h.open), id>>} \in SUBSET (CallId \X CallId)
      BY <1>1, <2>1
    <2>3. ReplayMessage(h, kind, id) =
              [open |-> Tail(h.open), pairs |-> h.pairs \cup {<<Head(h.open), id>>}]
      BY <1>4 DEF ReplayMessage
    <2> QED BY <2>1, <2>2, <2>3 DEF ReplayStates
  <1> QED BY <1>2, <1>3, <1>4

\* The calls and answers of a turn have such ids.
LEMMA EventIds ==
    ASSUME NEW num \in Nat, NEW msgs \in Seq(ToolEvent)
    PROVE  Len(msgs) \in Nat /\ \A n \in 1..Len(msgs) : <<num, msgs[n].id>> \in CallId
  <1> SUFFICES ASSUME NEW n \in 1..Len(msgs) PROVE <<num, msgs[n].id>> \in CallId
    OBVIOUS
  <1>1. msgs[n] \in ToolEvent
    OBVIOUS
  <1>2. msgs[n].id \in Nat
    BY <1>1 DEF ToolEvent
  <1> QED BY <1>2 DEF CallId

\* The replay of a turn's messages from h, and what it is message by message.
ReplayFold(h, num, msgs) ==
    CHOOSE f : f = [n \in 0..Len(msgs) |->
                      IF n = 0 THEN h
                      ELSE ReplayMessage(f[n - 1], msgs[n].kind, <<num, msgs[n].id>>)]

\* ReplayTurn is what that fold ends with.
LEMMA ReplayFoldFacts ==
    ASSUME NEW h \in ReplayStates, NEW num \in Nat, NEW msgs \in Seq(ToolEvent)
    PROVE  /\ ReplayTurn(h, num, msgs) = ReplayFold(h, num, msgs)[Len(msgs)]
           /\ ReplayFold(h, num, msgs)[0] = h
           /\ \A n \in 1..Len(msgs) :
                 ReplayFold(h, num, msgs)[n] =
                     ReplayMessage(ReplayFold(h, num, msgs)[n - 1],
                                   msgs[n].kind, <<num, msgs[n].id>>)
  <1> DEFINE l == Len(msgs)
             step == [x \in ReplayStates \X (1..l) |->
                         ReplayMessage(x[1], msgs[x[2]].kind, <<num, msgs[x[2]].id>>)]
             Is(f) == f = [n \in 0..l |-> IF n = 0 THEN h
                              ELSE ReplayMessage(f[n - 1], msgs[n].kind, <<num, msgs[n].id>>)]
  <1>1. l \in Nat /\ \A n \in 1..l : <<num, msgs[n].id>> \in CallId
    BY EventIds
  <1>2. step \in FoldSteps(ReplayStates, l)
    BY <1>1, ReplayMessageType DEF FoldSteps
  <1>3. PICK g : IsFold(g, ReplayStates, l, h, step)
    BY <1>1, <1>2, FoldExists
  <1>4. Is(g)
    <2>1. /\ g \in [0..l -> ReplayStates]
          /\ g[0] = h /\ \A k \in 1..l : g[k] = step[<<g[k - 1], k>>]
      BY <1>3 DEF IsFold
    <2>2. ASSUME NEW n \in 0..l
          PROVE  g[n] = IF n = 0 THEN h
                        ELSE ReplayMessage(g[n - 1], msgs[n].kind, <<num, msgs[n].id>>)
      <3>1. CASE n = 0
        BY <2>1, <3>1
      <3>2. CASE n # 0
        <4>1. n \in 1..l /\ n - 1 \in 0..l
          BY <1>1, <3>2
        <4>2. <<g[n - 1], n>> \in ReplayStates \X (1..l)
          BY <2>1, <4>1
        <4> QED BY <2>1, <3>2, <4>1, <4>2
      <3> QED BY <3>1, <3>2
    <2> QED BY <2>1, <2>2
  <1>5. ReplayFold(h, num, msgs) = CHOOSE f : Is(f)
    BY DEF ReplayFold
  <1> HIDE DEF Is
  <1>6. Is(ReplayFold(h, num, msgs))
    BY <1>4, <1>5, Zenon
  <1>7. ASSUME NEW f, Is(f), NEW n \in 0..l
        PROVE  f[n] = IF n = 0 THEN h
                      ELSE ReplayMessage(f[n - 1], msgs[n].kind, <<num, msgs[n].id>>)
    BY <1>7 DEF Is
  <1>8. ReplayTurn(h, num, msgs) = ReplayFold(h, num, msgs)[l]
    BY DEF ReplayTurn, ReplayFold
  <1>9. 0 \in 0..l /\ \A n \in 1..l : n \in 0..l /\ n # 0
    BY <1>1
  <1> QED BY <1>6, <1>7, <1>8, <1>9

\* The replay of a turn follows the list of its messages.
LEMMA ReplayAppend ==
    ASSUME NEW h \in ReplayStates, NEW num \in Nat, NEW msgs \in Seq(ToolEvent)
    PROVE  /\ ReplayTurn(h, num, <<>>) = h
           /\ ReplayTurn(h, num, msgs) \in ReplayStates
           /\ \A e \in ToolEvent :
                 ReplayTurn(h, num, Append(msgs, e)) =
                     ReplayMessage(ReplayTurn(h, num, msgs), e.kind, <<num, e.id>>)
  <1> DEFINE l == Len(msgs)
             f == ReplayFold(h, num, msgs)
  <1>1. l \in Nat /\ \A n \in 1..l : <<num, msgs[n].id>> \in CallId
    BY EventIds
  <1>2. /\ ReplayTurn(h, num, msgs) = f[l] /\ f[0] = h
        /\ \A n \in 1..l : f[n] = ReplayMessage(f[n - 1], msgs[n].kind, <<num, msgs[n].id>>)
    BY ReplayFoldFacts
  <1>3. ReplayTurn(h, num, <<>>) = h
    <2>1. <<>> \in Seq(ToolEvent) /\ Len(<<>>) = 0
      OBVIOUS
    <2>2. /\ ReplayTurn(h, num, <<>>) = ReplayFold(h, num, <<>>)[Len(<<>>)]
          /\ ReplayFold(h, num, <<>>)[0] = h
      BY <2>1, ReplayFoldFacts, Zenon
    <2> QED BY <2>1, <2>2
  <1> HIDE DEF f
  <1>4. f[l] \in ReplayStates
    <2> DEFINE T == {k \in Nat : k <= l => f[k] \in ReplayStates}
    <2>1. 0 \in T
      BY <1>2
    <2>2. ASSUME NEW k \in 0..l, k \in T, k # l PROVE k + 1 \in T
      <3>1. k + 1 \in 1..l /\ f[k] \in ReplayStates /\ (k + 1) - 1 = k
        BY <1>1, <2>2
      <3>2. f[k + 1] = ReplayMessage(f[k], msgs[k + 1].kind, <<num, msgs[k + 1].id>>)
        BY <1>2, <3>1
      <3> QED BY <1>1, <3>1, <3>2, ReplayMessageType
    <2>3. T \in SUBSET Nat
      OBVIOUS
    <2>4. l \in T
      <3> HIDE DEF T
      <3> QED BY <1>1, <2>1, <2>2, <2>3, Induction
    <2> QED BY <1>1, <2>4
  <1>5. ASSUME NEW e \in ToolEvent
        PROVE  ReplayTurn(h, num, Append(msgs, e)) =
                   ReplayMessage(ReplayTurn(h, num, msgs), e.kind, <<num, e.id>>)
    <2> DEFINE longer == Append(msgs, e)
               g == ReplayFold(h, num, longer)
    <2>1. /\ longer \in Seq(ToolEvent) /\ Len(longer) = l + 1 /\ longer[l + 1] = e
          /\ \A n \in 1..l : longer[n] = msgs[n]
      OBVIOUS
    <2> HIDE DEF longer
    <2>2. /\ ReplayTurn(h, num, longer) = g[l + 1] /\ g[0] = h
          /\ \A n \in 1..(l + 1) :
                g[n] = ReplayMessage(g[n - 1], longer[n].kind, <<num, longer[n].id>>)
      <3>1. /\ ReplayTurn(h, num, longer) = g[Len(longer)] /\ g[0] = h
            /\ \A n \in 1..Len(longer) :
                  g[n] = ReplayMessage(g[n - 1], longer[n].kind, <<num, longer[n].id>>)
        BY <2>1, ReplayFoldFacts, Zenon
      <3> HIDE DEF g
      <3> QED BY <2>1, <3>1
    <2> HIDE DEF g
    <2>3. g[l] = f[l]
      <3> DEFINE T == {k \in Nat : k <= l => g[k] = f[k]}
      <3>1. 0 \in T
        BY <1>2, <2>2
      <3>2. ASSUME NEW k \in 0..l, k \in T, k # l PROVE k + 1 \in T
        <4>1. k + 1 \in 1..l /\ k + 1 \in 1..(l + 1) /\ g[k] = f[k] /\ (k + 1) - 1 = k
          BY <1>1, <3>2
        <4>2. f[k + 1] = ReplayMessage(f[k], msgs[k + 1].kind, <<num, msgs[k + 1].id>>)
          BY <1>2, <4>1
        <4>3. g[k + 1] = ReplayMessage(g[k], longer[k + 1].kind, <<num, longer[k + 1].id>>)
          BY <2>2, <4>1
        <4>4. longer[k + 1] = msgs[k + 1]
          BY <2>1, <4>1
        <4>5. g[k + 1] = f[k + 1]
          BY <4>1, <4>2, <4>3, <4>4
        <4> QED BY <4>1, <4>5
      <3>3. T \in SUBSET Nat
        OBVIOUS
      <3>4. l \in T
        <4> HIDE DEF T
        <4> QED BY <1>1, <3>1, <3>2, <3>3, Induction
      <3> QED BY <1>1, <3>4
    <2>4. l + 1 \in 1..(l + 1) /\ (l + 1) - 1 = l
      BY <1>1
    <2>5. g[l + 1] = ReplayMessage(g[l], e.kind, <<num, e.id>>)
      BY <2>1, <2>2, <2>4
    <2> QED BY <1>2, <2>2, <2>3, <2>5 DEF longer
  <1> QED BY <1>2, <1>3, <1>4, <1>5

\* The open calls and the answered ones that are safe.
SafeOpen(tr, n) == {c \in OpenAt(tr, n) : tr[c].safe}
SafeDone(tr, n) == {c \in 1..n : tr[c].kind = "call" /\ tr[c].safe /\ c \notin OpenAt(tr, n)}

\* How an event that changes the open calls changes those sets.
LEMMA SafeFacts ==
    ASSUME NEW tr \in Seq(ToolEvent), NEW n \in 0..Len(tr), n # Len(tr)
    PROVE  /\ tr[n + 1].kind = "call" /\ OpenAt(tr, n + 1) = OpenAt(tr, n) \cup {n + 1} =>
                 /\ SafeDone(tr, n + 1) = SafeDone(tr, n)
                 /\ SafeOpen(tr, n + 1) = IF tr[n + 1].safe THEN SafeOpen(tr, n) \cup {n + 1}
                                          ELSE SafeOpen(tr, n)
           /\ tr[n + 1].kind = "result" /\ OpenAt(tr, n + 1) = OpenAt(tr, n) =>
                 SafeDone(tr, n + 1) = SafeDone(tr, n) /\ SafeOpen(tr, n + 1) = SafeOpen(tr, n)
           /\ \A c \in OpenAt(tr, n) :
                 tr[n + 1].kind = "result" /\ OpenAt(tr, n + 1) = OpenAt(tr, n) \ {c} =>
                     /\ SafeDone(tr, n + 1) = IF tr[c].safe THEN SafeDone(tr, n) \cup {c}
                                              ELSE SafeDone(tr, n)
                     /\ SafeOpen(tr, n + 1) = IF tr[c].safe THEN SafeOpen(tr, n) \ {c}
                                              ELSE SafeOpen(tr, n)
  <1>1. /\ n \in Nat /\ 1..(n + 1) = (1..n) \cup {n + 1} /\ n + 1 \notin 1..n
        /\ OpenAt(tr, n) \subseteq 1..n /\ \A c \in OpenAt(tr, n) : tr[c].kind = "call"
    BY DEF OpenAt
  <1>2. ASSUME tr[n + 1].kind = "call", OpenAt(tr, n + 1) = OpenAt(tr, n) \cup {n + 1}
        PROVE  /\ SafeDone(tr, n + 1) = SafeDone(tr, n)
               /\ SafeOpen(tr, n + 1) = IF tr[n + 1].safe THEN SafeOpen(tr, n) \cup {n + 1}
                                        ELSE SafeOpen(tr, n)
    <2> HIDE DEF OpenAt
    <2>1. SafeDone(tr, n + 1) = SafeDone(tr, n)
      BY <1>1, <1>2 DEF SafeDone
    <2>2. SafeOpen(tr, n + 1) = IF tr[n + 1].safe THEN SafeOpen(tr, n) \cup {n + 1}
                                ELSE SafeOpen(tr, n)
      BY <1>1, <1>2 DEF SafeOpen
    <2> QED BY <2>1, <2>2
  <1>3. ASSUME tr[n + 1].kind = "result", OpenAt(tr, n + 1) = OpenAt(tr, n)
        PROVE  SafeDone(tr, n + 1) = SafeDone(tr, n) /\ SafeOpen(tr, n + 1) = SafeOpen(tr, n)
    BY <1>1, <1>3 DEF SafeDone, SafeOpen
  <1>4. ASSUME NEW c \in OpenAt(tr, n), tr[n + 1].kind = "result",
               OpenAt(tr, n + 1) = OpenAt(tr, n) \ {c}
        PROVE  /\ SafeDone(tr, n + 1) = IF tr[c].safe THEN SafeDone(tr, n) \cup {c}
                                        ELSE SafeDone(tr, n)
               /\ SafeOpen(tr, n + 1) = IF tr[c].safe THEN SafeOpen(tr, n) \ {c}
                                        ELSE SafeOpen(tr, n)
    <2>1. CASE tr[c].safe
      <3>1. SafeDone(tr, n + 1) = SafeDone(tr, n) \cup {c}
        BY <1>1, <1>4, <2>1 DEF SafeDone
      <3>2. SafeOpen(tr, n + 1) = SafeOpen(tr, n) \ {c}
        BY <1>1, <1>4, <2>1 DEF SafeOpen
      <3> QED BY <2>1, <3>1, <3>2
    <2>2. CASE ~tr[c].safe
      <3>1. SafeDone(tr, n + 1) = SafeDone(tr, n)
        BY <1>1, <1>4, <2>2 DEF SafeDone
      <3>2. SafeOpen(tr, n + 1) = SafeOpen(tr, n)
        BY <1>1, <1>4, <2>2 DEF SafeOpen
      <3> QED BY <2>2, <3>1, <3>2
    <2> QED BY <2>1, <2>2
  <1> QED BY <1>2, <1>3, <1>4

\* Only the empty queue lists no call.
LEMMA ListsEmpty ==
    ASSUME NEW L, NEW queue \in Seq(L), NEW lab, Lists(queue, {}, lab)
    PROVE  queue = <<>>
  <1>1. Len(queue) = 0
    <2> SUFFICES ASSUME Len(queue) # 0 PROVE FALSE
      OBVIOUS
    <2>1. 1 \in 1..Len(queue)
      OBVIOUS
    <2> QED BY <2>1 DEF Lists
  <1> QED BY <1>1

\* The empty queue lists no call.
LEMMA EmptyLists ==
    ASSUME NEW lab
    PROVE  Lists(<<>>, {}, lab)
  <1>1. [j \in 1..0 |-> 0] \in [1..0 -> {}]
    OBVIOUS
  <1> QED BY <1>1 DEF Lists

\* The ids of the calls that can be restored, as ReplayFaithful has them.
SafeIds(events) ==
    {events[i].id : i \in {j \in 1..Len(events) : events[j].kind = "call" /\ events[j].safe}}

\* A turn that is saved and replayed leaves no call open and pairs every call
\* that can be restored with its own answer.  Both loops go along the events:
\* _save_turn's queue lists the open calls, in order, with 0 for those that are
\* left out; the queue of the replay lists the safe ones among them; an answer
\* belongs to the oldest open call, which is at the head of both if it is safe.
LEMMA TurnReplayed ==
    ASSUME NEW events \in Seq(ToolEvent), AnsweredInOrder(events), NEW num \in Nat,
           NEW h \in ReplayStates, h.open = <<>>
    PROVE  ReplayTurn(h, num, KeptMessages(events)) =
               [open |-> <<>>,
                pairs |-> h.pairs \cup {<<<<num, id>>, <<num, id>>>> : id \in SafeIds(events)}]
  <1> DEFINE l == Len(events)
             K == KeptFold(events)
             R(n) == ReplayTurn(h, num, K[n].msgs)
             tag == [c \in 1..l |-> IF events[c].safe THEN events[c].id ELSE 0]
             lab == [c \in 1..l |-> <<num, events[c].id>>]
             Pairs(C) == {<<lab[c], lab[c]>> : c \in C}
             Queued(n) == Lists(K[n].queue, OpenAt(events, n), tag)
             Opened(n) == Lists(R(n).open, SafeOpen(events, n), lab)
             Paired(n) == R(n).pairs = h.pairs \cup Pairs(SafeDone(events, n))
             T == {n \in Nat : n <= l => Queued(n) /\ Opened(n) /\ Paired(n)}
  <1>1. /\ l \in Nat /\ \A n \in 1..l : events[n] \in ToolEvent
        /\ KeptMessages(events) = K[l].msgs
        /\ K[0] = Nothing /\ \A n \in 0..l : K[n] \in KeptStates
        /\ \A n \in 1..l : K[n] = KeepEvent(K[n - 1], events[n])
    <2>1. l \in Nat /\ \A n \in 1..l : events[n] \in ToolEvent
      OBVIOUS
    <2>2. /\ KeptMessages(events) = K[l].msgs
          /\ K \in [0..l -> KeptStates] /\ K[0] = Nothing
          /\ \A n \in 1..l : K[n] = KeepEvent(K[n - 1], events[n])
      BY KeptFacts, Zenon
    <2> HIDE DEF K
    <2>3. \A n \in 0..l : K[n] \in KeptStates
      BY <2>2
    <2> QED BY <2>1, <2>2, <2>3
  <1> HIDE DEF K
  <1>2. ASSUME NEW n \in 0..l
        PROVE  /\ K[n].queue \in Seq(Nat) /\ K[n].msgs \in Seq(ToolEvent)
               /\ R(n) \in ReplayStates /\ R(n).open \in Seq(CallId)
    <2>1. K[n].queue \in Seq(Nat) /\ K[n].msgs \in Seq(ToolEvent)
      BY <1>1 DEF KeptStates
    <2>2. R(n) \in ReplayStates
      BY <2>1, ReplayAppend
    <2> HIDE DEF R
    <2> QED BY <2>1, <2>2 DEF ReplayStates
  <1>3. Queued(0) /\ Opened(0) /\ Paired(0)
    <2>1. OpenAt(events, 0) = {} /\ SafeOpen(events, 0) = {} /\ SafeDone(events, 0) = {}
      BY DEF OpenAt, SafeOpen, SafeDone
    <2>2. K[0].queue = <<>> /\ K[0].msgs = <<>>
      BY <1>1 DEF Nothing
    <2>3. R(0) = h
      <3>1. <<>> \in Seq(ToolEvent)
        OBVIOUS
      <3> QED BY <2>2, <3>1, ReplayAppend
    <2> HIDE DEF R, tag, lab
    <2>4. Pairs({}) = {}
      OBVIOUS
    <2> QED BY <2>1, <2>2, <2>3, <2>4, EmptyLists
  <1>4. ASSUME NEW n \in 0..l, n # l, Queued(n), Opened(n), Paired(n)
        PROVE  Queued(n + 1) /\ Opened(n + 1) /\ Paired(n + 1)
    <2> DEFINE e == events[n + 1]
               C == OpenAt(events, n)
               D == SafeOpen(events, n)
    <2>1. /\ n \in Nat /\ n + 1 \in 1..l /\ n + 1 \in 0..l /\ (n + 1) - 1 = n
          /\ e \in ToolEvent
          /\ C \in SUBSET (1..n) /\ D \in SUBSET (1..n) /\ D \subseteq C
      BY <1>1, <1>4 DEF OpenAt, SafeOpen
    <2>2. e.kind \in {"call", "result"} /\ e.safe \in BOOLEAN /\ e.id \in Nat
      BY <2>1 DEF ToolEvent
    <2>3. K[n + 1] = KeepEvent(K[n], e)
      BY <1>1, <2>1
    <2>4. /\ K[n].queue \in Seq(Nat) /\ K[n].msgs \in Seq(ToolEvent)
          /\ R(n) \in ReplayStates /\ R(n).open \in Seq(CallId)
      BY <1>2, <2>1
    <2>5. \A x \in ToolEvent : ReplayTurn(h, num, Append(K[n].msgs, x)) =
                                   ReplayMessage(R(n), x.kind, <<num, x.id>>)
      BY <2>4, ReplayAppend
    <2>6. tag[n + 1] = (IF e.safe THEN e.id ELSE 0) /\ lab[n + 1] = <<num, e.id>>
      BY <2>1
    <2>7. tag[n + 1] \in Nat /\ lab[n + 1] \in CallId
      BY <2>2, <2>6 DEF CallId
    <2>8. \A c \in C : /\ c \in 1..l /\ tag[c] = (IF events[c].safe THEN events[c].id ELSE 0)
                       /\ lab[c] = <<num, events[c].id>>
      BY <1>1, <2>1
    <2> HIDE DEF R, tag, lab, C, D, Pairs
    <2>9. CASE e.kind = "call"
      <3>1. OpenAt(events, n + 1) = C \cup {n + 1}
        BY <1>4, <2>9, OpenFacts DEF C
      <3>2. /\ SafeDone(events, n + 1) = SafeDone(events, n)
            /\ SafeOpen(events, n + 1) = IF e.safe THEN D \cup {n + 1} ELSE D
        BY <1>4, <2>9, <3>1, SafeFacts DEF C, D
      <3>3. /\ K[n + 1].queue = Append(K[n].queue, tag[n + 1])
            /\ K[n + 1].msgs = IF e.safe THEN Append(K[n].msgs, e) ELSE K[n].msgs
        BY <2>3, <2>6, <2>9 DEF KeepEvent
      <3>4. Queued(n + 1)
        <4>1. Lists(Append(K[n].queue, tag[n + 1]), C \cup {n + 1}, tag)
          BY <1>4, <2>1, <2>4, <2>7, ListsAppend DEF C
        <4> QED BY <3>1, <3>3, <4>1
      <3>5. CASE e.safe
        <4>1. R(n + 1) = ReplayMessage(R(n), "call", <<num, e.id>>)
          BY <2>1, <2>5, <2>9, <3>3, <3>5 DEF R
        <4>2. /\ R(n + 1).open = Append(R(n).open, lab[n + 1])
              /\ R(n + 1).pairs = R(n).pairs
          BY <2>4, <2>6, <4>1 DEF ReplayMessage, ReplayStates
        <4>3. Lists(Append(R(n).open, lab[n + 1]), D \cup {n + 1}, lab)
          BY <1>4, <2>1, <2>4, <2>7, ListsAppend DEF D
        <4> QED BY <1>4, <3>2, <3>4, <3>5, <4>2, <4>3
      <3>6. CASE ~e.safe
        <4>1. R(n + 1) = R(n)
          BY <3>3, <3>6 DEF R
        <4> QED BY <1>4, <3>2, <3>4, <3>6, <4>1 DEF D
      <3> QED BY <3>5, <3>6
    <2>10. CASE e.kind = "result" /\ e.id = 0
      <3>1. C = {} /\ OpenAt(events, n + 1) = C
        <4>1. OpenAt(events, n) = {} /\ OpenAt(events, n + 1) = {}
          BY <1>4, <2>10, OpenFacts
        <4> QED BY <4>1 DEF C
      <3>2. SafeDone(events, n + 1) = SafeDone(events, n) /\ SafeOpen(events, n + 1) = D
        BY <1>4, <2>10, <3>1, SafeFacts DEF C, D
      <3>3. K[n].queue = <<>>
        BY <1>4, <2>4, <3>1, ListsEmpty DEF C
      <3>4. K[n + 1] = K[n]
        BY <2>3, <2>10, <3>3 DEF KeepEvent
      <3>5. R(n + 1) = R(n)
        BY <3>4 DEF R
      <3> QED BY <1>4, <3>1, <3>2, <3>4, <3>5 DEF C, D
    <2>11. CASE e.kind = "result" /\ e.id # 0
      <3>1. PICK c \in C : /\ events[c].id = e.id /\ \A d \in C : c <= d
                           /\ OpenAt(events, n + 1) = C \ {c}
        BY <1>4, <2>11, OpenFacts DEF C
      <3>2. /\ SafeDone(events, n + 1) = IF events[c].safe THEN SafeDone(events, n) \cup {c}
                                         ELSE SafeDone(events, n)
            /\ SafeOpen(events, n + 1) = IF events[c].safe THEN D \ {c} ELSE D
        BY <1>4, <2>11, <3>1, SafeFacts DEF C, D
      <3>3. /\ K[n].queue # <<>> /\ Head(K[n].queue) = tag[c]
            /\ Lists(Tail(K[n].queue), C \ {c}, tag)
        BY <1>4, <2>1, <2>4, <3>1, ListsTail DEF C
      <3>4. /\ K[n + 1].queue = Tail(K[n].queue)
            /\ K[n + 1].msgs = IF tag[c] = 0 THEN K[n].msgs ELSE Append(K[n].msgs, e)
        BY <2>3, <2>11, <3>3 DEF KeepEvent
      <3>5. Queued(n + 1)
        BY <3>1, <3>3, <3>4
      <3>6. CASE events[c].safe
        <4>1. tag[c] # 0 /\ lab[c] = <<num, e.id>>
          BY <2>8, <2>11, <3>1, <3>6
        <4>2. R(n + 1) = ReplayMessage(R(n), "result", <<num, e.id>>)
          BY <2>1, <2>5, <2>11, <3>4, <4>1 DEF R
        <4>3. c \in D /\ \A d \in D : c <= d
          BY <2>1, <3>1, <3>6 DEF C, D, SafeOpen
        <4>4. /\ R(n).open # <<>> /\ Head(R(n).open) = lab[c]
              /\ Lists(Tail(R(n).open), D \ {c}, lab)
          BY <1>4, <2>1, <2>4, <4>3, ListsTail DEF D
        <4>5. /\ R(n + 1).open = Tail(R(n).open)
              /\ R(n + 1).pairs = R(n).pairs \cup {<<lab[c], lab[c]>>}
          <5>1. R(n + 1) = [open  |-> Tail(R(n).open),
                            pairs |-> R(n).pairs \cup {<<Head(R(n).open), <<num, e.id>>>>}]
            BY <4>2, <4>4 DEF ReplayMessage
          <5>2. <<Head(R(n).open), <<num, e.id>>>> = <<lab[c], lab[c]>>
            BY <4>1, <4>4
          <5> HIDE DEF e
          <5>3. \A x, y : R(n + 1) = [open |-> x, pairs |-> y] =>
                    R(n + 1).open = x /\ R(n + 1).pairs = y
            OBVIOUS
          <5> QED BY <5>1, <5>2, <5>3, Zenon
        <4>6. Pairs(SafeDone(events, n) \cup {c}) =
                  Pairs(SafeDone(events, n)) \cup {<<lab[c], lab[c]>>}
          BY DEF Pairs
        <4> QED BY <1>4, <3>2, <3>5, <3>6, <4>4, <4>5, <4>6
      <3>7. CASE ~events[c].safe
        <4>1. tag[c] = 0
          BY <2>8, <3>7
        <4>2. R(n + 1) = R(n)
          BY <3>4, <4>1 DEF R
        <4> QED BY <1>4, <3>2, <3>5, <3>7, <4>2 DEF D
      <3> QED BY <3>6, <3>7
    <2> QED BY <2>2, <2>9, <2>10, <2>11
  <1>5. Queued(l) /\ Opened(l) /\ Paired(l)
    <2>1. T \in SUBSET Nat
      OBVIOUS
    <2> HIDE DEF Queued, Opened, Paired
    <2>2. 0 \in T
      BY <1>3
    <2>3. ASSUME NEW k \in 0..l, k \in T, k # l PROVE k + 1 \in T
      BY <1>1, <1>4, <2>3
    <2>4. l \in T
      <3> HIDE DEF T
      <3> QED BY <1>1, <2>1, <2>2, <2>3, Induction
    <2> QED BY <1>1, <2>4
  <1>6. /\ OpenAt(events, l) = {} /\ SafeOpen(events, l) = {}
        /\ SafeDone(events, l) = {j \in 1..l : events[j].kind = "call" /\ events[j].safe}
    <2>1. OpenAt(events, l) = {}
      BY DEF OpenAt, AnsweredInOrder
    <2> QED BY <2>1 DEF SafeOpen, SafeDone
  <1>7. R(l) \in ReplayStates /\ R(l).open \in Seq(CallId)
    BY <1>1, <1>2
  <1>8. R(l).open = <<>>
    <2> HIDE DEF R, lab
    <2> QED BY <1>5, <1>6, <1>7, ListsEmpty
  <1>9. Pairs(SafeDone(events, l)) = {<<<<num, id>>, <<num, id>>>> : id \in SafeIds(events)}
    BY <1>6 DEF SafeIds
  <1>10. R(l) = [open |-> R(l).open, pairs |-> R(l).pairs]
    <2> HIDE DEF R
    <2> QED BY <1>7 DEF ReplayStates
  <1>11. ReplayTurn(h, num, KeptMessages(events)) = R(l)
    BY <1>1
  <1> HIDE DEF R, Pairs
  <1> QED BY <1>5, <1>8, <1>9, <1>10, <1>11

\* The loop over the turns of the context.
HistoryFold(context) ==
    CHOOSE f : f = [n \in 0..Len(context) |->
                      IF n = 0 THEN [open |-> <<>>, pairs |-> {}]
                      ELSE ReplayTurn(f[n - 1], context[n].num, KeptMessages(context[n].events))]

\* BuildMessageHistory is what that loop ends with.
LEMMA HistoryFoldFacts ==
    ASSUME NEW context \in Seq(Row)
    PROVE  /\ BuildMessageHistory(context) = HistoryFold(context)[Len(context)]
           /\ HistoryFold(context)[0] = [open |-> <<>>, pairs |-> {}]
           /\ \A n \in 1..Len(context) :
                 /\ context[n].num \in Nat /\ context[n].events \in Transcript
                 /\ HistoryFold(context)[n] =
                        ReplayTurn(HistoryFold(context)[n - 1], context[n].num,
                                   KeptMessages(context[n].events))
  <1> DEFINE l == Len(context)
             s == [open |-> <<>>, pairs |-> {}]
             step == [x \in ReplayStates \X (1..l) |->
                         ReplayTurn(x[1], context[x[2]].num, KeptMessages(context[x[2]].events))]
             Is(f) == f = [n \in 0..l |-> IF n = 0 THEN s
                              ELSE ReplayTurn(f[n - 1], context[n].num,
                                              KeptMessages(context[n].events))]
  <1>1. l \in Nat /\ \A n \in 1..l : context[n].num \in Nat /\ context[n].events \in Transcript
    <2>1. \A n \in 1..l : context[n] \in Row
      OBVIOUS
    <2> QED BY <2>1 DEF Row
  <1>2. ASSUME NEW n \in 1..l, NEW h \in ReplayStates
        PROVE  ReplayTurn(h, context[n].num, KeptMessages(context[n].events)) \in ReplayStates
    <2>1. context[n].events \in Seq(ToolEvent)
      BY <1>1, TranscriptAssumption
    <2>2. KeptMessages(context[n].events) \in Seq(ToolEvent)
      BY <2>1, KeptType
    <2> QED BY <1>1, <2>2, ReplayAppend
  <1>3. step \in FoldSteps(ReplayStates, l) /\ s \in ReplayStates
    BY <1>2 DEF FoldSteps, ReplayStates
  <1>4. PICK g : IsFold(g, ReplayStates, l, s, step)
    BY <1>1, <1>3, FoldExists
  <1> HIDE DEF s
  <1>5. Is(g)
    <2>1. /\ g \in [0..l -> ReplayStates]
          /\ g[0] = s /\ \A k \in 1..l : g[k] = step[<<g[k - 1], k>>]
      BY <1>4 DEF IsFold
    <2>2. ASSUME NEW n \in 0..l
          PROVE  g[n] = IF n = 0 THEN s
                        ELSE ReplayTurn(g[n - 1], context[n].num, KeptMessages(context[n].events))
      <3>1. CASE n = 0
        BY <2>1, <3>1
      <3>2. CASE n # 0
        <4>1. n \in 1..l /\ n - 1 \in 0..l
          BY <1>1, <3>2
        <4>2. <<g[n - 1], n>> \in ReplayStates \X (1..l)
          BY <2>1, <4>1
        <4> QED BY <2>1, <3>2, <4>1, <4>2
      <3> QED BY <3>1, <3>2
    <2> QED BY <2>1, <2>2
  <1>6. HistoryFold(context) = CHOOSE f : Is(f)
    BY DEF HistoryFold, s
  <1> HIDE DEF Is
  <1>7. Is(HistoryFold(context))
    BY <1>5, <1>6, Zenon
  <1>8. ASSUME NEW f, Is(f), NEW n \in 0..l
        PROVE  f[n] = IF n = 0 THEN s
                      ELSE ReplayTurn(f[n - 1], context[n].num, KeptMessages(context[n].events))
    BY <1>8 DEF Is
  <1>9. BuildMessageHistory(context) = HistoryFold(context)[l]
    BY DEF BuildMessageHistory, HistoryFold
  <1>10. 0 \in 0..l /\ \A n \in 1..l : n \in 0..l /\ n # 0
    BY <1>1
  <1>11. HistoryFold(context)[0] = s
    BY <1>7, <1>8, <1>10
  <1> QED BY <1>1, <1>7, <1>8, <1>9, <1>10, <1>11 DEF s

\* Turn by turn, the history has the pairs of the turns before and of this one.
LEMMA HistoryFaithful ==
    ASSUME NEW context \in Seq(Row)
    PROVE  BuildMessageHistory(context) =
               [open |-> <<>>,
                pairs |-> UNION {{<<<<context[k].num, id>>, <<context[k].num, id>>>> :
                                     id \in SafeIds(context[k].events)} : k \in 1..Len(context)}]
  <1> DEFINE l == Len(context)
             F == HistoryFold(context)
             Pairs(k) == {<<<<context[k].num, id>>, <<context[k].num, id>>>> :
                             id \in SafeIds(context[k].events)}
             Upto(n) == UNION {Pairs(k) : k \in 1..n}
             Good_(n) == F[n] \in ReplayStates /\ F[n] = [open |-> <<>>, pairs |-> Upto(n)]
             T == {n \in Nat : n <= l => Good_(n)}
  <1>1. /\ l \in Nat /\ BuildMessageHistory(context) = F[l]
        /\ F[0] = [open |-> <<>>, pairs |-> {}]
        /\ \A n \in 1..l :
              /\ context[n].num \in Nat /\ context[n].events \in Transcript
              /\ F[n] = ReplayTurn(F[n - 1], context[n].num, KeptMessages(context[n].events))
    BY HistoryFoldFacts
  <1> HIDE DEF F
  <1>2. Good_(0)
    <2>1. Upto(0) = {}
      OBVIOUS
    <2>2. [open |-> <<>>, pairs |-> {}] \in ReplayStates
      BY DEF ReplayStates
    <2> QED BY <1>1, <2>1, <2>2
  <1>3. ASSUME NEW n \in 0..l, n # l, Good_(n) PROVE Good_(n + 1)
    <2> DEFINE num == context[n + 1].num
               events == context[n + 1].events
    <2>1. n + 1 \in 1..l /\ (n + 1) - 1 = n /\ 1..(n + 1) = (1..n) \cup {n + 1}
      BY <1>1, <1>3
    <2>2. /\ num \in Nat /\ events \in Transcript
          /\ F[n + 1] = ReplayTurn(F[n], num, KeptMessages(events))
      BY <1>1, <2>1
    <2>3. events \in Seq(ToolEvent) /\ AnsweredInOrder(events)
      BY <2>2, TranscriptAssumption
    <2>4. F[n] \in ReplayStates /\ F[n].open = <<>> /\ F[n].pairs = Upto(n)
      BY <1>3
    <2> HIDE DEF num, events, Upto, Pairs
    <2>5. F[n + 1] = [open  |-> <<>>,
                      pairs |-> F[n].pairs \cup
                                   {<<<<num, id>>, <<num, id>>>> : id \in SafeIds(events)}]
      BY <2>2, <2>3, <2>4, TurnReplayed
    <2>6. {<<<<num, id>>, <<num, id>>>> : id \in SafeIds(events)} = Pairs(n + 1)
      BY DEF Pairs, num, events
    <2>7. Upto(n + 1) = Upto(n) \cup Pairs(n + 1)
      BY <2>1 DEF Upto
    <2>8. F[n + 1] = [open |-> <<>>, pairs |-> Upto(n + 1)]
      BY <2>4, <2>5, <2>6, <2>7
    <2>9. F[n + 1] \in ReplayStates
      <3>1. KeptMessages(events) \in Seq(ToolEvent)
        BY <2>3, KeptType
      <3> QED BY <2>2, <2>4, <3>1, ReplayAppend
    <2> QED BY <2>8, <2>9
  <1>4. Good_(l)
    <2>1. T \in SUBSET Nat
      OBVIOUS
    <2> HIDE DEF Good_
    <2>2. 0 \in T
      BY <1>2
    <2>3. ASSUME NEW k \in 0..l, k \in T, k # l PROVE k + 1 \in T
      BY <1>1, <1>3, <2>3
    <2>4. l \in T
      <3> HIDE DEF T
      <3> QED BY <1>1, <2>1, <2>2, <2>3, Induction
    <2> QED BY <1>1, <2>4
  <1> QED BY <1>1, <1>4

\* The history rebuilt from any context of stored rows is faithful.
LEMMA ReplayIsFaithful ==
    ASSUME NEW m \in Message, turn[m].context \in Seq(Row)
    PROVE  ReplayFaithful(m)
  <1> DEFINE context == turn[m].context
             Calls(k) == {context[k].events[i].id : i \in {j \in 1..Len(context[k].events) :
                              context[k].events[j].kind = "call" /\ context[k].events[j].safe}}
  <1>1. UNION {{<<<<context[k].num, id>>, <<context[k].num, id>>>> :
                   id \in SafeIds(context[k].events)} : k \in 1..Len(context)}
      = UNION {{<<<<context[k].num, id>>, <<context[k].num, id>>>> :
                   id \in Calls(k)} : k \in 1..Len(context)}
    BY DEF SafeIds
  <1> QED BY <1>1, HistoryFaithful DEF ReplayFaithful

-----------------------------------------------------------------------------
\* The agent runs with every turn saved before its own that has not expired, but
\* for those older than max_context_turns others (load_recent_turns), and what
\* _save_turn and _build_message_history make of their events gives each tool
\* call that can be restored its own result, and nothing else.
THEOREM ContextsAreFaithful == ChatSpec => []ContextFaithful
  <1>1. ChatInv => ContextFaithful
    <2> SUFFICES ASSUME ChatInv, NEW m \in Message, turn[m].at = "run"
                 PROVE  ContextComplete(m) /\ ReplayFaithful(m)
      BY DEF ContextFaithful
    <2>1. turn[m] \in TurnRecord
      BY DEF ChatInv, ChatTypes
    <2>2. turn[m].context \in Seq(Row)
      BY <2>1 DEF TurnRecord
    <2>3. ReplayFaithful(m)
      BY <2>2, ReplayIsFaithful
    <2> QED BY <2>3 DEF ChatInv, ContextInv
  <1> QED BY <1>1, ChatInvariance, PTL
=============================================================================
