----------------------------- MODULE ChatRunner -----------------------------
(***************************************************************************)
(* One conversation of ChatWorkflowRunner (executor/chat/runner.py): its   *)
(* row in the run state store, its turns in the transcript store           *)
(* (storage/transcript_store.py) and the history that the next turn's      *)
(* agent is given (executor/step/direct.py).                               *)
(*                                                                         *)
(* Messages come over POST /chat/{id}/message (plain) or as a stream whose *)
(* client may leave.  The conversation lock covers a whole turn; cancel()  *)
(* and the clean-up of old transcripts take no lock.                       *)
(***************************************************************************)
EXTENDS Integers, Sequences, FiniteSets

CONSTANTS
    Message,        \* messages sent to the conversation
    Streamed,       \* the ones sent with send_message_stream
    Transcript,     \* what the agent may record in a turn: tool calls and results
    MaxContext,     \* max_context_turns
    MaxChatFaults,  \* bound: store calls that raise
    NoTurn

ASSUME ChatAssumption ==
    /\ Streamed \subseteq Message /\ NoTurn \notin Message
    /\ MaxContext \in Nat \ {0} /\ MaxChatFaults \in Nat
    /\ <<>> \in Transcript         \* an agent may call no tool

\* An event of a transcript.  A call whose arguments cannot be restored is not
\* safe; id tells which call a result really answers, 0 for a retry prompt that
\* answers none.  The stored events carry no id.
ToolEvent == [kind : {"call", "result"}, safe : BOOLEAN, id : Nat]

\* Every call is answered, in the order of the calls, and a retry prompt comes
\* when no call is open: "sequential and order-preserving parallel calls"
\* (_save_turn).
AnsweredInOrder(tr) ==
    LET At == 1..Len(tr)
        Answered(c, a) ==
            tr[c].kind = "call" /\ tr[a].kind = "result" /\ tr[c].id = tr[a].id
    IN
    /\ \A c \in At : tr[c].kind = "call" =>
          tr[c].id # 0 /\ \E a \in At : c < a /\ Answered(c, a)
    /\ \A a \in At : tr[a].kind = "result" /\ tr[a].id # 0 =>
          \E c \in At : Answered(c, a)
    /\ \A i, j \in At : tr[i].kind = tr[j].kind /\ tr[i].id = tr[j].id /\ tr[i].id # 0 => i = j
    /\ \A c, d, a, b \in At : Answered(c, a) /\ Answered(d, b) /\ c < d => a < b
    /\ \A r, c \in At : tr[r].kind = "result" /\ tr[r].id = 0 /\ tr[c].kind = "call" /\ c < r =>
          \E a \in At : a < r /\ Answered(c, a)

\* pydantic-ai answers the calls of a response before it asks again, and an
\* execution that fails leaves no calls in its transcript.
ASSUME TranscriptAssumption ==
    \A tr \in Transcript : tr \in Seq(ToolEvent) /\ AnsweredInOrder(tr)

VARIABLES
    chatStatus, \* status of the conversation in the run state store
    chatLock,   \* holder of the conversation's lock
    turn,       \* each message: point, turn number, context, agent's transcript
    rows,       \* step_transcripts of the conversation, ordered by created_at
    chatSteps,  \* steps recorded in the run state: number and message
    told,       \* messages whose result the client has received
    chatFaults, \* history: store calls that raised
    cut,        \* history: messages whose stream or saving was cut short
    expired,    \* history: messages whose row was cleaned up
    before,     \* history: messages with a row when a message took the lock
    lateTurns   \* history: turns saved after the conversation was cancelled

chatHistory == <<told, chatFaults, cut, expired, before, lateTurns>>
chatStore == <<chatStatus, rows, chatSteps>>
chatVars == <<chatStore, chatLock, turn, chatHistory>>

TurnPoint == {"idle", "queued", "check", "load", "identity", "run", "emit", "save",
              "update", "done"}

ChatTypeOK ==
    /\ chatStatus \in {"none", "running", "cancelled"}
    /\ chatLock \in Message \cup {NoTurn}
    /\ \A m \in Message :
          /\ turn[m].at \in TurnPoint /\ turn[m].num \in Nat
          /\ turn[m].context \in Seq([num : Nat, by : Message, events : Transcript])
          /\ turn[m].events \in Transcript
    /\ rows \in Seq([num : Nat, by : Message, events : Transcript])
    /\ chatSteps \subseteq Nat \X Message
    /\ chatFaults \in 0..MaxChatFaults
    /\ told \cup cut \cup expired \cup lateTurns \subseteq Message
    /\ before \in [Message -> SUBSET Message]

ChatInit ==
    /\ chatStatus = "none" /\ chatLock = NoTurn
    /\ turn = [m \in Message |-> [at |-> "idle", num |-> 0, context |-> <<>>, events |-> <<>>]]
    /\ rows = <<>> /\ chatSteps = {}
    /\ told = {} /\ chatFaults = 0 /\ cut = {} /\ expired = {} /\ lateTurns = {}
    /\ before = [m \in Message |-> {}]

-----------------------------------------------------------------------------
(* Messages kept of a turn, and the history rebuilt from them              *)

\* _save_turn: a result goes with the oldest call that has none; a call that
\* is left out keeps its place in the queue, so that its result is left out.
Bug_KeepEvent(kept, e) ==
    IF e.kind = "call"
    THEN IF e.safe THEN [queue |-> Append(kept.queue, e.id), msgs |-> Append(kept.msgs, e)]
         ELSE kept
    ELSE IF kept.queue = <<>> THEN kept
    ELSE [queue |-> Tail(kept.queue), msgs |-> Append(kept.msgs, e)]
KeepEvent(kept, e) ==
    IF e.kind = "call"
    THEN [queue |-> Append(kept.queue, IF e.safe THEN e.id ELSE 0),
          msgs  |-> IF e.safe THEN Append(kept.msgs, e) ELSE kept.msgs]
    ELSE IF kept.queue = <<>> THEN kept
    ELSE [queue |-> Tail(kept.queue),
          msgs  |-> IF Head(kept.queue) = 0 THEN kept.msgs ELSE Append(kept.msgs, e)]

KeptMessages(events) ==
    LET kept[n \in 0..Len(events)] ==
            IF n = 0 THEN [queue |-> <<>>, msgs |-> <<>>] ELSE KeepEvent(kept[n - 1], events[n])
    IN kept[Len(events)].msgs

\* _build_message_history: one queue of open calls over all the turns.  The
\* pairs are (call, answer) as the provider will see them, <<0, 0>> for none.
ReplayMessage(h, kind, id) ==
    IF kind = "call" THEN [h EXCEPT !.open = Append(@, id)]
    ELSE IF h.open = <<>> THEN [h EXCEPT !.pairs = @ \cup {<<<<0, 0>>, id>>}]
    ELSE [open |-> Tail(h.open), pairs |-> h.pairs \cup {<<Head(h.open), id>>}]

\* The messages kept of turn num; an id tells the turn, too.
ReplayTurn(h, num, msgs) ==
    LET replayed[n \in 0..Len(msgs)] ==
            IF n = 0 THEN h
            ELSE ReplayMessage(replayed[n - 1], msgs[n].kind, <<num, msgs[n].id>>)
    IN replayed[Len(msgs)]

BuildMessageHistory(context) ==
    LET history[n \in 0..Len(context)] ==
            IF n = 0 THEN [open |-> <<>>, pairs |-> {}]
            ELSE ReplayTurn(history[n - 1], context[n].num, KeptMessages(context[n].events))
    IN history[Len(context)]

-----------------------------------------------------------------------------
(* The conversation                                                        *)

StartChat ==
    /\ chatStatus = "none"
    /\ chatStatus' = "running"
    /\ UNCHANGED <<rows, chatSteps, chatLock, turn, chatHistory>>

\* cancel(): the row must exist; nothing else is looked at.
CancelChat ==
    /\ chatStatus # "none"
    /\ chatStatus' = "cancelled"
    /\ UNCHANGED <<rows, chatSteps, chatLock, turn, chatHistory>>

\* cleanup_expired() deletes the oldest rows.
CleanupExpired(n) ==
    /\ n \in 1..Len(rows) /\ expired = {}
    /\ rows' = SubSeq(rows, n + 1, Len(rows))
    /\ expired' = {rows[i].by : i \in 1..n}
    /\ UNCHANGED <<chatStatus, chatSteps, chatLock, turn, told, chatFaults, cut, before, lateTurns>>

-----------------------------------------------------------------------------
(* One turn                                                                *)

Move(m, from, to) == turn[m].at = from /\ turn' = [turn EXCEPT ![m].at = to]

SendMessage(m) ==
    /\ Move(m, "idle", "queued")
    /\ UNCHANGED <<chatStore, chatLock, chatHistory>>

Bug_ChatLockFree(m) == TRUE
ChatLockFree(m) == chatLock = NoTurn

TakeLock(m) ==
    /\ Move(m, "queued", "check") /\ ChatLockFree(m)
    /\ chatLock' = m
    /\ before' = [before EXCEPT ![m] = {rows[i].by : i \in 1..Len(rows)}]
    /\ UNCHANGED <<chatStore, told, chatFaults, cut, expired, lateTurns>>

\* _check_not_terminal; a conversation that does not exist passes.
Bug_NotTerminal(m) == TRUE
NotTerminal(m) == chatStatus # "cancelled"

CheckNotTerminal(m) ==
    /\ Move(m, "check", IF NotTerminal(m) THEN "load" ELSE "done")
    /\ chatLock' = IF NotTerminal(m) THEN chatLock ELSE NoTurn
    /\ UNCHANGED <<chatStore, chatHistory>>

\* load_recent_turns: the newest rows, oldest first.
RecentTurns ==
    SubSeq(rows, IF Len(rows) > MaxContext THEN Len(rows) - MaxContext + 1 ELSE 1, Len(rows))

\* _next_turn_number: past the highest number loaded, not their count.
NextTurnNumber(context) ==
    LET nums == {context[i].num : i \in 1..Len(context)}
    IN IF nums = {} THEN 0 ELSE 1 + CHOOSE n \in nums : \A k \in nums : k <= n

LoadTurns(m) ==
    /\ turn[m].at = "load"
    /\ turn' = [turn EXCEPT ![m].at = "identity", ![m].context = RecentTurns,
                            ![m].num = NextTurnNumber(RecentTurns)]
    /\ UNCHANGED <<chatStore, chatLock, chatHistory>>

LoadIdentity(m) ==
    /\ Move(m, "identity", "run")
    /\ UNCHANGED <<chatStore, chatLock, chatHistory>>

\* The executor returns, with completed or failed.  A stream hands its last
\* event to the client before the result is looked at.
AgentReturns(m, events) ==
    /\ turn[m].at = "run"
    /\ turn' = [turn EXCEPT ![m].at = IF m \in Streamed THEN "emit" ELSE "save",
                            ![m].events = events]
    /\ told' = IF m \in Streamed THEN told \cup {m} ELSE told
    /\ UNCHANGED <<chatStore, chatLock, chatFaults, cut, expired, before, lateTurns>>

StreamResumed(m) ==
    /\ Move(m, "emit", "save")
    /\ UNCHANGED <<chatStore, chatLock, chatHistory>>

\* The client leaves: the generator is closed where it is suspended, and
\* nothing is saved because no result was captured.
StreamClosed(m) ==
    /\ m \in Streamed
    /\ \E p \in {"run", "emit"} : Move(m, p, "done")
    /\ chatLock' = NoTurn
    /\ cut' = cut \cup {m}
    /\ UNCHANGED <<chatStore, told, chatFaults, expired, before, lateTurns>>

\* The executor or a middleware raises: plain requests end with the error, a
\* stream turns it into a failed result that is saved.
AgentRaises(m) ==
    /\ turn[m].at = "run"
    /\ turn' = [turn EXCEPT ![m].at = IF m \in Streamed THEN "save" ELSE "done"]
    /\ chatLock' = IF m \in Streamed THEN chatLock ELSE NoTurn
    /\ told' = IF m \in Streamed THEN told \cup {m} ELSE told
    /\ UNCHANGED <<chatStore, chatFaults, cut, expired, before, lateTurns>>

\* _save_turn: the upsert keeps the place of a row that exists.
SaveTranscript(m) ==
    LET row == [num |-> turn[m].num, by |-> m, events |-> turn[m].events]
        same == {i \in 1..Len(rows) : rows[i].num = row.num} IN
    /\ Move(m, "save", "update")
    /\ rows' = IF same = {} THEN Append(rows, row)
               ELSE [i \in 1..Len(rows) |-> IF i \in same THEN row ELSE rows[i]]
    /\ lateTurns' = IF chatStatus = "cancelled" THEN lateTurns \cup {m} ELSE lateTurns
    /\ UNCHANGED <<chatStatus, chatSteps, chatLock, told, chatFaults, cut, expired, before>>

\* update_step raises for a conversation that does not exist.
UpdateTurnStep(m) ==
    /\ Move(m, "update", "done")
    /\ chatLock' = NoTurn
    /\ IF chatStatus = "none"
       THEN cut' = cut \cup {m} /\ UNCHANGED <<chatSteps, told>>
       ELSE /\ UNCHANGED cut
            /\ chatSteps' = {s \in chatSteps : s[1] # turn[m].num} \cup {<<turn[m].num, m>>}
            /\ told' = told \cup {m}
    /\ UNCHANGED <<chatStatus, rows, chatFaults, expired, before, lateTurns>>

\* A store call raises: the lock is released, the client gets an error.
StoreRaises(m) ==
    /\ \E p \in {"check", "load", "identity", "save", "update"} : Move(m, p, "done")
    /\ chatFaults < MaxChatFaults
    /\ chatFaults' = chatFaults + 1
    /\ chatLock' = NoTurn
    /\ cut' = IF turn[m].at \in {"save", "update"} THEN cut \cup {m} ELSE cut
    /\ UNCHANGED <<chatStore, told, expired, before, lateTurns>>

-----------------------------------------------------------------------------
TurnStep(m) ==
    \/ TakeLock(m) \/ CheckNotTerminal(m) \/ LoadTurns(m) \/ LoadIdentity(m)
    \/ \E events \in Transcript : AgentReturns(m, events)
    \/ StreamResumed(m) \/ SaveTranscript(m) \/ UpdateTurnStep(m)

ChatNext ==
    \/ StartChat \/ CancelChat \/ \E n \in 1..Cardinality(Message) : CleanupExpired(n)
    \/ \E m \in Message :
          SendMessage(m) \/ TurnStep(m) \/ StreamClosed(m) \/ AgentRaises(m) \/ StoreRaises(m)

ChatSpec == ChatInit /\ [][ChatNext]_chatVars

-----------------------------------------------------------------------------
(* Properties                                                              *)

\* A turn whose result the client was given stays in the transcript store, as
\* its own row, until it expires; only a stream or a save that was cut short
\* loses one.  The run state records the same message under the same number.
\* Numbers come from a window of the rows, under a lock.
TurnsKept ==
    /\ \A m \in told :
          m \in cut \cup expired \/ turn[m].at \in {"emit", "save"}
          \/ \E i \in 1..Len(rows) : rows[i].by = m
    /\ \A i \in 1..Len(rows) :
          \/ <<rows[i].num, rows[i].by>> \in chatSteps
          \/ rows[i].by \in cut \/ turn[rows[i].by].at = "update"

\* The context of a turn holds every turn saved before it took the lock that
\* has not expired, but for those older than all of the max_context_turns it
\* holds.
ContextComplete(m) ==
    LET seen == {turn[m].context[i].by : i \in 1..Len(turn[m].context)} IN
    \A e \in before[m] \ (seen \cup expired) :
        /\ Cardinality(seen) = MaxContext
        /\ \A i \in 1..Len(turn[m].context) : turn[e].num < turn[m].context[i].num

\* The history rebuilt from it pairs each call with its own result, leaves out
\* the calls whose arguments were lost with their results, and nothing else.
ReplayFaithful(m) ==
    LET context == turn[m].context
        SafeCalls(row) == {row.events[i].id : i \in {j \in 1..Len(row.events) :
                              row.events[j].kind = "call" /\ row.events[j].safe}}
    IN BuildMessageHistory(context) =
          [open |-> <<>>,
           pairs |-> UNION {{<<<<context[k].num, id>>, <<context[k].num, id>>>> :
                                id \in SafeCalls(context[k])} : k \in 1..Len(context)}]

\* An agent runs with the conversation so far: the latest turns, none left out
\* by an interleaved send, and tool calls with their own results, since a
\* provider refuses ids that do not line up.
ContextFaithful ==
    \A m \in Message : turn[m].at = "run" => ContextComplete(m) /\ ReplayFaithful(m)

\* A cancel lets at most one more turn be saved, the one that had passed its
\* test of the status; the ones waiting for the lock see it.
OneLateTurn == Cardinality(lateTurns) <= 1
=============================================================================
