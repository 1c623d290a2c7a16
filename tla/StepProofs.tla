----------------------------- MODULE StepProofs -----------------------------
(***************************************************************************)
(* Theorems about what a step is given and what it comes to.  Submission,  *)
(* for every set of definitions and requests: what an endpoint accepted is *)
(* not refused later for what it should have seen, and no step crosses the *)
(* provider boundary of its run.  StepExecutors: the two copies of the     *)
(* executor agree on every answer of the provider, but for built-in tools. *)
(***************************************************************************)
EXTENDS StepExecutors, Submission, TLAPS

-----------------------------------------------------------------------------
(* Submission                                                              *)

\* The engine of a run is known, and whatever got past an endpoint was
\* validated, by it or when the definition was stored.
PassedInv ==
    /\ stage \in {"stored", "running", "built", "failed"} => Valid(defn)
    /\ stage \in {"running", "built"} => runEngine \in {"local", "temporal"}

SubmitInv == PassedInv /\ AcceptedNormalizes /\ BoundaryKept

\* validate_definition looks at what normalize_workflow_step will look at: the
\* provider and the MCP servers after the merge.
LEMMA ValidNormalizes ==
    ASSUME NEW d, Valid(d)
    PROVE  NormalizeError(d) \in {None, "timeout", "permissions"}
  <1>1. ProviderApproved(Selected(d))
    BY DEF Valid, ValidateDefinition, Selected, Merged, DefaultProvider, ProviderApproved
  <1>2. ~SecretBearing(Merged(d.step.mcp, d.spec.mcp))
    BY DEF Valid, ValidateDefinition, CheckedMcp
  <1> QED BY <1>1, <1>2 DEF NormalizeError

\* A step that is built has the provider of its run, and no credential of
\* another one, but for the exception of the Temporal workflow.
LEMMA BuiltKeepsBoundary ==
    ASSUME PassedInv, BuildStepInput, stage' = "built"
    PROVE  BoundaryKept'
  <1> DEFINE credential == IF runEngine = "local" THEN LocalCredential(defn)
                           ELSE TemporalCredential(defn)
  <1>1. stage = "running" /\ UNCHANGED <<defn, runEngine, provider>>
    BY DEF BuildStepInput
  <1>2. NormalizeError(defn) = None /\ ~CrossesBoundary(defn)
    BY SubmissionAssumption DEF BuildStepInput
  <1>3. stepInput' = [name |-> Merged(Selected(defn), provider.name),
                      credential |-> credential,
                      mcp |-> ResolveMcpServers(Merged(defn.step.mcp, defn.spec.mcp)),
                      timeout |-> Merged(Timeout(defn), 600),
                      account |-> CollapsedAccount(defn)]
    BY <1>2 DEF BuildStepInput
  <1> HIDE DEF credential
  <1>4. /\ stepInput'.name = Merged(Selected(defn), provider.name)
        /\ stepInput'.credential = credential
        /\ stepInput'.account = CollapsedAccount(defn)
    BY <1>3
  <1>5. Selected(defn) \in {None, provider.name}
    BY <1>2 DEF CrossesBoundary
  <1>6. stepInput'.name = provider.name
    BY <1>4, <1>5 DEF Merged
  <1>7. Scope(defn) \notin {None, "any"} => stepInput'.account = Scope(defn)
    BY <1>4 DEF CollapsedAccount
  <1>8. \/ credential \in {None, provider.credential} \/ defn.provider.name = provider.name
        \/ runEngine = "temporal" /\ defn.step.provider = provider.name
    <2>1. CASE runEngine = "local"
      BY <1>5, <2>1 DEF credential, LocalCredential, DefaultProvider
    <2>2. CASE runEngine = "temporal"
      BY <1>5, <2>2 DEF credential, TemporalCredential, Selected, Merged, DefaultProvider
    <2> QED BY <1>1, <2>1, <2>2 DEF PassedInv
  <1> QED BY <1>1, <1>4, <1>6, <1>7, <1>8 DEF BoundaryKept, Scope, Merged

\* SubmitInv holds in every reachable state: the definition of a run does not
\* change after it was validated.
THEOREM SubmitInvariance == SubmitSpec => []SubmitInv
  <1>1. SubmitInit => SubmitInv
    BY DEF SubmitInit, SubmitInv, PassedInv, AcceptedNormalizes, BoundaryKept
  <1>2. SubmitInv /\ [SubmitNext]_submitVars => SubmitInv'
    <2> SUFFICES ASSUME SubmitInv, [SubmitNext]_submitVars PROVE SubmitInv'
      OBVIOUS
    <2>0. ASSUME UNCHANGED <<defn, policy>> PROVE Valid(defn)' <=> Valid(defn)
      BY <2>0 DEF Valid, ValidateDefinition, ModelValidate, WellShaped, PolicyKept, CheckedMcp,
                  Merged, SecretBearing, ProviderApproved, CredentialReference
    <2>1. CASE SubmitDefinition
      <3>1. /\ UNCHANGED <<defn, policy, runEngine, reason>>
            /\ stage' = IF Valid(defn) THEN "stored" ELSE "rejected"
        BY <2>1 DEF SubmitDefinition
      <3> QED BY <2>0, <3>1 DEF SubmitInv, PassedInv, AcceptedNormalizes, BoundaryKept
    <2>2. ASSUME NEW e \in {"local", "temporal"}, RunSubmitted(e) PROVE SubmitInv'
      <3>1. /\ UNCHANGED <<defn, policy, reason>>
            /\ \/ stage' = "running" /\ runEngine' = e /\ Valid(defn)
               \/ stage' = "rejected"
        BY <2>2 DEF RunSubmitted
      <3> QED BY <2>0, <3>1 DEF SubmitInv, PassedInv, AcceptedNormalizes, BoundaryKept
    <2>3. ASSUME NEW request, RunTriggered(request) PROVE SubmitInv'
      <3>1. /\ stage = "stored" /\ UNCHANGED <<defn, policy, reason>>
            /\ \/ stage' = "running" /\ runEngine' = "temporal"
               \/ stage' = "rejected"
        BY <2>3 DEF RunTriggered
      <3> QED BY <2>0, <3>1 DEF SubmitInv, PassedInv, AcceptedNormalizes, BoundaryKept
    <2>4. CASE BuildStepInput
      <3>1. /\ stage = "running" /\ stage' \in {"built", "failed"}
            /\ UNCHANGED <<defn, policy, runEngine>>
        BY <2>4 DEF BuildStepInput
      <3>2. Valid(defn) /\ PassedInv'
        BY <2>0, <3>1 DEF SubmitInv, PassedInv
      <3>3. AcceptedNormalizes'
        <4>1. reason' \in {reason, NormalizeError(defn), "boundary"}
          BY <2>4 DEF BuildStepInput
        <4> QED BY <3>2, <4>1, ValidNormalizes DEF SubmitInv, AcceptedNormalizes
      <3>4. BoundaryKept'
        <4>1. CASE stage' = "built"
          BY <2>4, <4>1, BuiltKeepsBoundary DEF SubmitInv
        <4>2. CASE stage' = "failed"
          BY <4>2 DEF BoundaryKept
        <4> QED BY <3>1, <4>1, <4>2
      <3> QED BY <3>2, <3>3, <3>4 DEF SubmitInv
    <2>5. CASE UNCHANGED submitVars
      <3>1. UNCHANGED <<defn, policy, stage, runEngine, provider, stepInput, reason>>
        BY <2>5 DEF submitVars
      <3> QED BY <2>0, <3>1 DEF SubmitInv, PassedInv, AcceptedNormalizes, BoundaryKept,
                                Scope, Merged
    <2> QED BY <2>1, <2>2, <2>3, <2>4, <2>5 DEF SubmitNext
  <1> QED BY <1>1, <1>2, PTL DEF SubmitSpec

\* validate_definition and normalize_workflow_step: what was accepted, once or
\* at an earlier submission, fails for its provider or its MCP servers no more.
THEOREM AcceptedStepsNormalize == SubmitSpec => []AcceptedNormalizes
  <1>1. SubmitInv => AcceptedNormalizes
    BY DEF SubmitInv
  <1> QED BY <1>1, SubmitInvariance, PTL

\* build_step_input and the Temporal workflow: the step runs with the provider,
\* the service account and the credential reference that are its own.
THEOREM BoundaryIsKept == SubmitSpec => []BoundaryKept
  <1>1. SubmitInv => BoundaryKept
    BY DEF SubmitInv
  <1> QED BY <1>1, SubmitInvariance, PTL

-----------------------------------------------------------------------------
(* StepExecutors                                                           *)

\* The child belongs to spawn: local, and what the activity got is the result
\* of one of the copies unless the process failed.
ExecInv ==
    /\ case \in Case
    /\ case.mode = "none" => child = "none"
    /\ child = "crashed" => fault
    /\ exec \in {"after", "record", "done"} /\ ~fault =>
          outcome = IF case.mode = "none" THEN DirectResult(case) ELSE ChildResult(case)

\* The two copies come to the same answer and parse it alike, unless the child
\* lacks a tool that the parent has.
LEMMA CopiesAgree ==
    ASSUME NEW c \in Case, ~c.talk, c.tools # "builtin" \/ c.module
    PROVE  LET d == DirectResult(c)
               l == ChildResult(c)
           IN /\ l.status = d.status /\ l.output = d.output
              /\ d.status = "completed" => l.transcript = d.transcript
  <1> DEFINE agent == c.tools # "none"
             answer == IF agent THEN c.plain ELSE CallLlm(c)
             parsed == ParseOutput(answer, c.schema)
             tools == DirectHasTools(c)
  <1>1. c.talk \in BOOLEAN /\ (agent \/ c.talk) = agent
    BY DEF Case
  <1>2. ChildCall(c) = CallLlm(c)
    BY DEF ChildCall, CallLlm
  <1>3. ParseContent(answer, c.schema) = parsed
    BY DEF ParseContent, ParseOutput
  <1>4. ChildHasTools(c) = tools
    BY DEF ChildHasTools, DirectHasTools, Case
  <1> HIDE DEF parsed, tools
  <1>5. DirectResult(c) = IF ~tools \/ answer \in Exception \/ parsed = "none"
                          THEN Failed(<<"error">>)
                          ELSE Completed(parsed, RunEvents(agent))
    BY <1>1 DEF DirectResult, parsed, tools
  <1>6. ChildResult(c) = IF ~tools \/ answer \in Exception THEN Failed(<<"error">>)
                         ELSE IF parsed = "none" THEN Failed(Append(RunEvents(agent), "error"))
                         ELSE Completed(parsed, RunEvents(agent))
    BY <1>2, <1>3, <1>4 DEF ChildResult
  <1> HIDE DEF answer, agent
  <1> QED BY <1>5, <1>6 DEF Failed, Completed

\* A step comes to the same status and output under spawn: local as under
\* spawn: none, unless its process failed, it is part of a conversation, or it
\* has a built-in tool that its process did not load.
THEOREM ExecutorsDoAgree == ExecSpec => []ExecutorsAgree
  <1>1. ExecInit => ExecInv
    BY DEF ExecInit, ExecInv
  <1>2. ExecInv /\ [ExecNext]_execVars => ExecInv'
    <2> SUFFICES ASSUME ExecInv, [ExecNext]_execVars PROVE ExecInv'
      OBVIOUS
    <2>0. ASSUME UNCHANGED case
          PROVE  DirectResult(case)' = DirectResult(case) /\ ChildResult(case)' = ChildResult(case)
      BY <2>0
    <2> HIDE DEF DirectResult, ChildResult
    <2>1. CASE Dispatch
      BY <2>1 DEF Dispatch, ExecInv
    <2>2. CASE DirectRun
      BY <2>2 DEF DirectRun, ExecInv
    <2>3. CASE ChildAnswers
      BY <2>3 DEF ChildAnswers, ExecInv
    <2>4. CASE ChildCrashes
      BY <2>4 DEF ChildCrashes, ExecInv
    <2>5. CASE ParentReads
      BY <2>5 DEF ParentReads, ExecInv
    <2>6. CASE TimesOut
      BY <2>6 DEF TimesOut, Killed, ExecInv
    <2>7. CASE CancelStep
      BY <2>7 DEF CancelStep, Killed, ExecInv
    <2>8. CASE \E ok \in BOOLEAN : AfterHooks(ok)
      BY <2>8 DEF AfterHooks, ExecInv
    <2>9. CASE RecordStep
      BY <2>9 DEF RecordStep, ExecInv
    <2>10. CASE UNCHANGED execVars
      BY <2>10 DEF execVars, ExecInv
    <2> QED
      BY <2>1, <2>2, <2>3, <2>4, <2>5, <2>6, <2>7, <2>8, <2>9, <2>10 DEF ExecNext
  <1>3. ExecInv => ExecutorsAgree
    <2> SUFFICES ASSUME ExecInv, exec = "done", ~fault, ~case.talk PROVE ExecutorsAgree
      BY DEF ExecutorsAgree
    <2>1. outcome = IF case.mode = "none" THEN DirectResult(case) ELSE ChildResult(case)
      BY DEF ExecInv
    <2>2. CASE ToolsMissing(case)
      <3>1. outcome = Failed(<<"error">>)
        BY <2>1, <2>2 DEF ToolsMissing, ChildResult, ChildHasTools
      <3> QED BY <2>2, <3>1 DEF ExecutorsAgree, Failed
    <2>3. CASE ~ToolsMissing(case)
      <3>1. case.mode = "none" \/ case.tools # "builtin" \/ case.module
        BY <2>3 DEF ToolsMissing, ExecInv, Case
      <3>2. CASE case.mode = "none"
        BY <2>1, <2>3, <3>2 DEF ExecutorsAgree
      <3>3. CASE case.mode # "none" /\ (case.tools # "builtin" \/ case.module)
        BY <2>1, <2>3, <3>3, CopiesAgree DEF ExecutorsAgree, ExecInv
      <3> QED BY <3>1, <3>2, <3>3
    <2> QED BY <2>2, <2>3
  <1> QED BY <1>1, <1>2, <1>3, PTL DEF ExecSpec
=============================================================================
