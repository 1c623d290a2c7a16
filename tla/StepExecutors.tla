--------------------------- MODULE StepExecutors ----------------------------
(***************************************************************************)
(* Steps that use no sandbox: DirectExecutor (spawn: none, direct.py) and  *)
(* SubprocessExecutor (spawn: local, subprocess_exec.py and its child      *)
(* subprocess_child.py), under the middleware (middleware.py) and the      *)
(* Temporal activity that calls them (activities.py).                      *)
(*                                                                         *)
(* The two executors are two copies of much the same logic: what the       *)
(* provider answers to a native and to a plain request is part of the      *)
(* case, and the copies are compared on it.  They differ in the tools they *)
(* know, since a child starts with an empty registry.  The process of the  *)
(* second one may crash, be timed out or be cancelled with the activity at *)
(* any moment.                                                             *)
(***************************************************************************)
EXTENDS Sequences

CONSTANT StoreFails     \* BOOLEAN: the transcript store may fail

ASSUME ExecutorAssumption == StoreFails \in BOOLEAN

\* What a request to the provider may come to: an exception, or content that is
\* absent, JSON text, JSON in a markdown fence, or other text.
Refusal == {"UserError", "HTTP 400"}
Exception == Refusal \cup {"HTTP 500"}
Content == {"null", "json", "fenced", "text"}
Answer == Exception \cup Content

\* tools: the step has none, MCP servers or skills but no named tools, only
\* built-in ones, or others too; module: CLOUD_AGENTS_TOOLS_MODULE names a module
\* that registers those; talk: its context is a conversation; schema: none, rooted
\* in an object, or other.
Case == [mode : {"none", "local"}, tools : {"none", "servers", "builtin", "other"},
         module : BOOLEAN, talk : BOOLEAN, schema : {"no", "object", "other"},
         native : Answer, plain : Answer]

VARIABLES
    case,       \* the step and the provider's answers
    exec,       \* where the activity is
    child,      \* the child process
    outcome,    \* StepResult
    kept,       \* the transcript store has a row for the step
    breaker,    \* what the circuit breaker was told
    fault       \* history: the process crashed, was timed out, or all was cancelled

execVars == <<case, exec, child, outcome, kept, breaker, fault>>

Result == [status : {"none", "completed", "failed"},
           output : {"none", "null", "value", "wrapped"},
           transcript : Seq({"tools", "result", "error"})]
NoResult == [status |-> "none", output |-> "none", transcript |-> <<>>]

ExecTypeOK ==
    /\ case \in Case
    /\ exec \in {"start", "run", "after", "record", "done", "cancelled"}
    /\ child \in {"none", "up", "answered", "crashed", "killed"}
    /\ outcome \in Result
    /\ kept \in BOOLEAN /\ breaker \in {"none", "success", "failure"} /\ fault \in BOOLEAN

ExecInit ==
    /\ case \in Case
    /\ exec = "start" /\ child = "none" /\ outcome = NoResult
    /\ kept = FALSE /\ breaker = "none" /\ fault = FALSE

-----------------------------------------------------------------------------
(* The two copies                                                          *)

Completed(output, transcript) ==
    [status |-> "completed", output |-> output, transcript |-> transcript]
Failed(transcript) == [status |-> "failed", output |-> "none", transcript |-> transcript]

\* _parse_output and _parse_content: the output, or "none" for an error.
ParseOutput(content, schema) ==
    CASE content = "null" -> IF schema = "no" THEN "null" ELSE "none"
      [] content \in {"json", "fenced"} -> "value"
      [] content = "text" -> IF schema = "no" THEN "wrapped" ELSE "none"

ParseContent(content, schema) ==
    CASE content = "null" -> IF schema = "no" THEN "null" ELSE "none"
      [] content \in {"json", "fenced"} -> "value"
      [] content = "text" -> IF schema = "no" THEN "wrapped" ELSE "none"

\* _call_llm and the child's _run_model_request: the native request is made for
\* an object schema, and the plain one when there was none or the provider
\* refused the schema; any other exception ends the step.
CallLlm(c) == IF c.schema = "object" /\ c.native \notin Refusal THEN c.native ELSE c.plain

Bug_ChildCall(c) ==
    IF c.schema = "object" /\ c.native # "UserError" THEN c.native ELSE c.plain
ChildCall(c) == IF c.schema = "object" /\ c.native \notin Refusal THEN c.native ELSE c.plain

\* get_tools: every named tool is registered.  The runner's process loads the
\* built-in tools when it starts, and both load a tools module, after the built-in
\* tools, before they look a name up.
DirectHasTools(c) == c.tools = "other" => c.module
ChildHasTools(c) == c.tools \in {"builtin", "other"} => c.module

\* What a run leaves in the transcript: an agent's tool calls, and the result.
RunEvents(agent) == IF agent THEN <<"tools", "result">> ELSE <<"result">>

\* DirectExecutor.run: an unknown tool, and an error in parsing, is an exception
\* like the others.
DirectResult(c) ==
    LET agent == c.tools # "none" \/ c.talk
        answer == IF agent THEN c.plain ELSE CallLlm(c)
    IN IF \/ ~DirectHasTools(c) \/ answer \in Exception
          \/ ParseOutput(answer, c.schema) = "none"
       THEN Failed(<<"error">>)
       ELSE Completed(ParseOutput(answer, c.schema), RunEvents(agent))

\* main() of the child: it knows no conversations, and an error in parsing is
\* added to the events of the run.
ChildResult(c) ==
    LET agent == c.tools # "none"
        answer == IF agent THEN c.plain ELSE ChildCall(c)
    IN IF ~ChildHasTools(c) \/ answer \in Exception THEN Failed(<<"error">>)
       ELSE IF ParseContent(answer, c.schema) = "none"
            THEN Failed(Append(RunEvents(agent), "error"))
       ELSE Completed(ParseContent(answer, c.schema), RunEvents(agent))

-----------------------------------------------------------------------------
(* The activity                                                            *)

\* get_step_executor; the subprocess executor starts its child.
Dispatch ==
    /\ exec = "start"
    /\ exec' = "run"
    /\ child' = IF case.mode = "local" THEN "up" ELSE "none"
    /\ UNCHANGED <<case, outcome, kept, breaker, fault>>

DirectRun ==
    /\ exec = "run" /\ case.mode = "none"
    /\ outcome' = DirectResult(case)
    /\ exec' = "after"
    /\ UNCHANGED <<case, child, kept, breaker, fault>>

\* The child writes its result to stdout and exits with 0.
ChildAnswers ==
    /\ child = "up"
    /\ child' = "answered"
    /\ UNCHANGED <<case, exec, outcome, kept, breaker, fault>>

\* The child exits with another code, or with something else on stdout.
ChildCrashes ==
    /\ child = "up"
    /\ child' = "crashed"
    /\ fault' = TRUE
    /\ UNCHANGED <<case, exec, outcome, kept, breaker>>

\* communicate() returns: the child's result, or a failure without events.
ParentReads ==
    /\ exec = "run" /\ child \in {"answered", "crashed"}
    /\ outcome' = IF child = "answered" THEN ChildResult(case) ELSE Failed(<<>>)
    /\ exec' = "after"
    /\ UNCHANGED <<case, child, kept, breaker, fault>>

\* proc.kill() and proc.wait()
Killed == IF child = "up" THEN "killed" ELSE child

\* timeout_seconds pass before communicate() returns.
TimesOut ==
    /\ exec = "run" /\ case.mode = "local"
    /\ child' = Killed
    /\ outcome' = Failed(<<>>)
    /\ exec' = "after"
    /\ fault' = TRUE
    /\ UNCHANGED <<case, kept, breaker>>

\* The activity is cancelled while the executor runs; CancelledError passes
\* through the middleware, and no breaker hears of it.
CancelStep ==
    /\ exec = "run"
    /\ child' = Killed
    /\ exec' = "cancelled"
    /\ fault' = TRUE
    /\ UNCHANGED <<case, outcome, kept, breaker>>

\* TranscriptMiddleware.after: a store that fails is only logged.
AfterHooks(ok) ==
    /\ exec = "after" /\ (ok \/ StoreFails)
    /\ kept' = ok
    /\ exec' = "record"
    /\ UNCHANGED <<case, child, outcome, breaker, fault>>

RecordStep ==
    /\ exec = "record"
    /\ breaker' = IF outcome.status = "completed" THEN "success" ELSE "failure"
    /\ exec' = "done"
    /\ UNCHANGED <<case, child, outcome, kept, fault>>

ExecNext ==
    \/ Dispatch \/ DirectRun \/ ChildAnswers \/ ChildCrashes \/ ParentReads
    \/ TimesOut \/ CancelStep \/ (\E ok \in BOOLEAN : AfterHooks(ok)) \/ RecordStep

ExecSpec == ExecInit /\ [][ExecNext]_execVars

-----------------------------------------------------------------------------
(* Properties                                                              *)

\* A built-in tool that only the runner's process has registered.
ToolsMissing(c) == c.mode = "local" /\ c.tools = "builtin" /\ ~c.module

\* A step comes to the same status and output under spawn: local as under
\* spawn: none, for every answer of the provider, unless it is part of a
\* conversation or its process failed.  The transcripts agree when it completes.
\* The exception is a step with a built-in tool when no tools module is set: it
\* runs under spawn: none and always fails under spawn: local.
ExecutorsAgree ==
    exec = "done" /\ ~fault /\ ~case.talk =>
        LET d == DirectResult(case) IN
        IF ToolsMissing(case) THEN outcome.status = "failed"
        ELSE /\ outcome.status = d.status /\ outcome.output = d.output
             /\ d.status = "completed" => outcome.transcript = d.transcript
=============================================================================
