----------------------------- MODULE MCServices -----------------------------
(***************************************************************************)
(* The services around the runners, side by side.  They share nothing but  *)
(* the definition store, so that a behaviour moves one of them: `part`,    *)
(* chosen at the start, names it, and the others stay as they began.       *)
(***************************************************************************)
EXTENDS GatewaySpawn, CliSessions, ChatRunner, AlertTrigger, ScheduleTrigger,
        RateLimiter, StepExecutors, Submission

VARIABLE part

triggerVars == <<versions, lastFired, hook, startFaults, restarts, recent, early, unserved,
                 schedule, waiting, runs, open, ids>>
serviceVars == <<part, gatewayVars, cliVars, chatVars, triggerVars, rateVars,
                 execVars, submitVars>>

-----------------------------------------------------------------------------
(* Instances                                                               *)

\* A transcript: nothing, or one in which a result has no call, a call is
\* unsafe to replay, and two calls overlap.
Event(kind, safe, id) == [kind |-> kind, safe |-> safe, id |-> id]
MCTranscript ==
    {<<>>,
     <<Event("result", TRUE, 0), Event("call", FALSE, 1), Event("call", TRUE, 2),
       Event("result", TRUE, 1), Event("result", TRUE, 2)>>}

Firing(f) == [fp |-> f, resolved |-> FALSE]
Resolved(f) == [fp |-> f, resolved |-> TRUE]
MCPayload == {<<Firing("a")>>, <<Firing("a"), Firing("b")>>, <<Resolved("b")>>}

\* A client's own id, and the first that a schedule may draw.
MCClientId == {<<"other", "given", 0>>} \cup (Schedule \X {"drawn"} \X {1})

\* Definitions that differ from a plain one in their flaws, their providers,
\* their MCP servers, their timeouts, or their permissions.
Plain == [provider |-> None, mcp |-> None, timeout |-> None, scope |-> None, account |-> None]
PlainDef == [provider |-> [name |-> "claude", credential |-> "key1"],
             spec |-> Plain, step |-> Plain, flaws |-> {}]
McpChoice == {None, {}, {"named", "inline"}, {"partial"}, {"secret"}}
MCSubmitted ==
    {[PlainDef EXCEPT !.flaws = f] : f \in SUBSET {"shape", "alias", "policy"}}
    \cup {[PlainDef EXCEPT !.provider = p, !.step.provider = q] :
             p \in ProviderSpec \cup {None}, q \in ProviderName \cup {None}}
    \cup {[PlainDef EXCEPT !.spec.mcp = m, !.step.mcp = n] : m, n \in McpChoice}
    \cup {[PlainDef EXCEPT !.spec.timeout = m, !.step.timeout = n] : m, n \in {None, 0, 1}}
    \cup {[PlainDef EXCEPT !.spec.scope = p, !.step.scope = q,
                           !.spec.account = a, !.step.account = b] :
             p, q \in {None, "any", "sa1"}, a, b \in {None, "sa1", "sa2"}}
MCRequested == [name : RunName, credential : {None, "key2"}] \cup {None}

-----------------------------------------------------------------------------
\* The definition of the part that does not move is a fixed one.
SubmitIdle ==
    /\ defn = PlainDef /\ asked = None /\ policy = FALSE /\ stage = "new"
    /\ runEngine = None /\ provider = None /\ stepInput = NoInput /\ reason = None

ExecIdle ==
    /\ case = CHOOSE c \in Case : TRUE
    /\ exec = "start" /\ child = "none" /\ outcome = NoResult
    /\ kept = FALSE /\ breaker = "none" /\ fault = FALSE

ServicesInit ==
    /\ part \in {"gateway", "cli", "chat", "alert", "schedule", "rate", "exec", "submit"}
    /\ GatewayInit /\ CliInit /\ ChatInit /\ AlertInit /\ SchedInit /\ RateInit
    /\ IF part = "exec" THEN ExecInit ELSE ExecIdle
    /\ IF part = "submit" THEN SubmitInit ELSE SubmitIdle

-----------------------------------------------------------------------------
NoGateway == UNCHANGED gatewayVars
NoCli == UNCHANGED cliVars
NoChat == UNCHANGED chatVars
NoTrigger == UNCHANGED triggerVars
NoRate == UNCHANGED rateVars
NoExec == UNCHANGED execVars
NoSubmit == UNCHANGED submitVars

GatewayPart ==
    part = "gateway" /\ GatewayNext
    /\ NoCli /\ NoChat /\ NoTrigger /\ NoRate /\ NoExec /\ NoSubmit

CliPart ==
    part = "cli" /\ CliNext
    /\ NoGateway /\ NoChat /\ NoTrigger /\ NoRate /\ NoExec /\ NoSubmit

ChatPart ==
    part = "chat" /\ ChatNext
    /\ NoGateway /\ NoCli /\ NoTrigger /\ NoRate /\ NoExec /\ NoSubmit

AlertPart ==
    part = "alert" /\ AlertNext /\ UNCHANGED <<schedule, waiting, runs, open, ids>>
    /\ NoGateway /\ NoCli /\ NoChat /\ NoRate /\ NoExec /\ NoSubmit

SchedulePart ==
    part = "schedule" /\ SchedNext
    /\ UNCHANGED <<lastFired, hook, startFaults, restarts, recent, early, unserved>>
    /\ NoGateway /\ NoCli /\ NoChat /\ NoRate /\ NoExec /\ NoSubmit

RatePart ==
    part = "rate" /\ RateNext
    /\ NoGateway /\ NoCli /\ NoChat /\ NoTrigger /\ NoExec /\ NoSubmit

ExecPart ==
    part = "exec" /\ ExecNext
    /\ NoGateway /\ NoCli /\ NoChat /\ NoTrigger /\ NoRate /\ NoSubmit

SubmitPart ==
    part = "submit" /\ SubmitNext
    /\ NoGateway /\ NoCli /\ NoChat /\ NoTrigger /\ NoRate /\ NoExec

ServicesNext ==
    /\ \/ GatewayPart \/ CliPart \/ ChatPart \/ AlertPart
       \/ SchedulePart \/ RatePart \/ ExecPart \/ SubmitPart
    /\ UNCHANGED part

ServicesSpec == ServicesInit /\ [][ServicesNext]_serviceVars

-----------------------------------------------------------------------------
\* Every service keeps its state within its types and its bounds: a bucket of
\* the rate limiter within its burst, the counts of the spawner and of the
\* triggers within their ranges.  The services that do not move are as they began.
ServicesTypeOK ==
    CASE part = "gateway"  -> GatewayTypeOK
      [] part = "cli"      -> CliTypeOK
      [] part = "chat"     -> ChatTypeOK
      [] part = "alert"    -> AlertTypeOK
      [] part = "schedule" -> SchedTypeOK
      [] part = "rate"     -> RateTypeOK
      [] part = "exec"     -> ExecTypeOK
      [] part = "submit"   -> SubmitTypeOK
=============================================================================
