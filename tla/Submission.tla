----------------------------- MODULE Submission -----------------------------
(***************************************************************************)
(* From a submitted definition to the input of a step: the checks at the   *)
(* endpoints (core/validation.py, core/definition.py, the two APIs and the *)
(* triggers), the merge of step, workflow and run values                   *)
(* (core/execution.py), and the two places that build what an executor     *)
(* gets: build_step_input for the local runner, the workflow for Temporal. *)
(*                                                                         *)
(* The definition has one agent step.  A value that is not given is None:  *)
(* it inherits, while {} is explicitly empty.                              *)
(***************************************************************************)
EXTENDS Naturals

CONSTANTS
    Submitted,      \* definitions a caller may submit
    Requested,      \* providers a caller may ask for, None included
    None            \* a value that is not given

Approved == {"claude", "openai", "azure"}   \* some of SUPPORTED_PROVIDER_NAMES
RunName == {"claude", "openai"}             \* the names ProviderConfig allows
ProviderName == Approved \cup {"unknown"}

\* credentials_secret: the name of a secret, or a secret value.
Secret == {"key1", "key2"}
Credential == Secret \cup {"value"}
ProviderSpec == [name : ProviderName, credential : Credential \cup {None}]
ProviderConfig == [name : RunName, credential : Secret \cup {None}]

\* Entries of mcp_servers: a name of the catalog, an inline configuration, one
\* that lacks its url, and one that carries a secret.
Entry == {"named", "inline", "partial", "secret"}

\* scope: permissions, by the service account they name ("any": they name none).
Fields == [provider : ProviderName \cup {None}, mcp : SUBSET Entry \cup {None},
           timeout : {None, 0, 1}, scope : {None, "any", "sa1", "sa2"},
           account : {None, "sa1", "sa2"}]

\* flaws: the shape is wrong (unknown or missing fields, repeated names and
\* keys, references to later steps), the step uses the old key `provider`, or
\* the text breaks the content policy.
WorkflowDef == [provider : ProviderSpec \cup {None}, spec : Fields, step : Fields,
                flaws : SUBSET {"shape", "alias", "policy"}]

ASSUME SubmissionAssumption ==
    /\ Submitted \subseteq WorkflowDef
    /\ Requested \subseteq ProviderConfig \cup {None}
    /\ None # "boundary"

VARIABLES
    defn,       \* the definition
    asked,      \* the provider of the request
    policy,     \* a content policy is configured
    stage,      \* how far the submission got
    runEngine,  \* the engine that runs it
    provider,   \* the run's provider
    stepInput,  \* what the executor is given
    reason      \* why a step failed before its executor ran

submitVars == <<defn, asked, policy, stage, runEngine, provider, stepInput, reason>>

NoInput == [name |-> None, credential |-> None, mcp |-> {}, timeout |-> 0, account |-> None]

SubmitTypeOK ==
    /\ defn \in WorkflowDef /\ asked \in ProviderConfig \cup {None} /\ policy \in BOOLEAN
    /\ stage \in {"new", "stored", "running", "rejected", "built", "failed"}
    /\ runEngine \in {None, "local", "temporal"}
    /\ provider \in ProviderConfig \cup {None}
    /\ stepInput.name \in Approved \cup {None} /\ stepInput.credential \in Credential \cup {None}
    /\ stepInput.mcp \subseteq Entry /\ stepInput.timeout \in {0, 1, 600}
    /\ stepInput.account \in {None, "sa1", "sa2"}
    /\ reason \in {None, "timeout", "provider", "mcp", "permissions", "boundary"}

SubmitInit ==
    /\ defn \in Submitted /\ asked \in Requested /\ policy \in BOOLEAN
    /\ stage = "new" /\ runEngine = None /\ provider = None
    /\ stepInput = NoInput /\ reason = None

-----------------------------------------------------------------------------
(* Merging: a step's value, or the workflow's                              *)

Merged(value, default) == IF value = None THEN default ELSE value

\* The run catalog has the named server; an unknown name would be dropped.
ResolveMcpServers(mcp) == IF mcp = None THEN {} ELSE mcp

ProviderApproved(name) == name = None \/ name \in Approved
SecretBearing(mcp) == mcp # None /\ "secret" \in mcp
CredentialReference(credential) == credential # "value"

-----------------------------------------------------------------------------
(* validate_definition and WorkflowDefinition.model_validate               *)

Bug_CheckedMcp(d) == d.step.mcp
CheckedMcp(d) == Merged(d.step.mcp, d.spec.mcp)

WellShaped(d) == "shape" \notin d.flaws
PolicyKept(d) == policy => "policy" \notin d.flaws

ValidateDefinition(d) ==
    /\ WellShaped(d) /\ PolicyKept(d)
    /\ d.provider # None => ProviderApproved(d.provider.name)
                            /\ CredentialReference(d.provider.credential)
    /\ CheckedMcp(d) # None => "partial" \notin CheckedMcp(d)
    /\ ~SecretBearing(CheckedMcp(d))
    /\ ProviderApproved(d.step.provider)

\* extra="forbid" refuses the old key; both levels of mcp_servers are typed.
ModelValidate(d) ==
    /\ "alias" \notin d.flaws
    /\ \A mcp \in {d.step.mcp, d.spec.mcp} \ {None} : "partial" \notin mcp

Valid(d) == ValidateDefinition(d) /\ ModelValidate(d)

-----------------------------------------------------------------------------
(* The endpoints                                                           *)

\* request.provider, or else the definition's as a ProviderConfig.
RunProvider(request, d) ==
    IF request # None \/ d.provider = None \/ d.provider.name \notin RunName
    THEN request ELSE d.provider

\* POST /definitions
SubmitDefinition ==
    /\ stage = "new"
    /\ stage' = IF Valid(defn) THEN "stored" ELSE "rejected"
    /\ UNCHANGED <<defn, asked, policy, runEngine, provider, stepInput, reason>>

\* POST /run of either engine with the definition in the request, or, with
\* Temporal, by the name of a stored one.
RunSubmitted(e) ==
    /\ stage = "new" \/ (stage = "stored" /\ e = "temporal")
    /\ IF RunProvider(asked, defn) # None /\ Valid(defn)
       THEN stage' = "running" /\ runEngine' = e /\ provider' = RunProvider(asked, defn)
       ELSE stage' = "rejected" /\ UNCHANGED <<runEngine, provider>>
    /\ UNCHANGED <<defn, asked, policy, stepInput, reason>>

\* An alert has no provider of its own, a schedule may; the definition is
\* checked again only under a content policy.
RunTriggered(request) ==
    /\ stage = "stored"
    /\ IF RunProvider(request, defn) # None /\ (policy => ValidateDefinition(defn))
       THEN stage' = "running" /\ runEngine' = "temporal" /\ provider' = RunProvider(request, defn)
       ELSE stage' = "rejected" /\ UNCHANGED <<runEngine, provider>>
    /\ UNCHANGED <<defn, asked, policy, stepInput, reason>>

-----------------------------------------------------------------------------
(* Building the input of the step                                          *)

\* workflow_defaults_from_definition
DefaultProvider(d) == IF d.provider = None THEN None ELSE d.provider.name

Selected(d) == Merged(d.step.provider, DefaultProvider(d))
Timeout(d) == Merged(d.step.timeout, d.spec.timeout)
Scope(d) == Merged(d.step.scope, d.spec.scope)
Account(d) == Merged(d.step.account, d.spec.account)

\* collapse_permissions: the account fills a scope that names none.
PermissionsConflict(d) ==
    Account(d) # None /\ Scope(d) \notin {None, "any", Account(d)}
CollapsedAccount(d) == IF Scope(d) \in {None, "any"} THEN Account(d) ELSE Scope(d)

\* The first reason for which normalize_workflow_step raises.
NormalizeError(d) ==
    CASE Timeout(d) # None /\ Timeout(d) <= 0 -> "timeout"
      [] ~ProviderApproved(Selected(d)) -> "provider"
      [] SecretBearing(Merged(d.step.mcp, d.spec.mcp)) -> "mcp"
      [] PermissionsConflict(d) -> "permissions"
      [] OTHER -> None

Bug_CrossesBoundary(d) == FALSE
CrossesBoundary(d) == Selected(d) \notin {None, provider.name}

\* The credential reference, as build_step_input and as the workflow find it:
\* the run's, or that of the definition's provider.
LocalCredential(d) ==
    IF /\ Selected(d) # None /\ provider.credential = None
       /\ d.provider # None /\ DefaultProvider(d) = Selected(d)
    THEN d.provider.credential ELSE provider.credential

TemporalCredential(d) ==
    IF Selected(d) # None /\ provider.credential = None /\ d.provider # None
    THEN d.provider.credential ELSE provider.credential

BuildStepInput ==
    LET error == IF NormalizeError(defn) # None THEN NormalizeError(defn)
                 ELSE IF CrossesBoundary(defn) THEN "boundary" ELSE None
    IN
    /\ stage = "running"
    /\ IF error # None
       THEN stage' = "failed" /\ reason' = error /\ UNCHANGED stepInput
       ELSE /\ stage' = "built"
            /\ stepInput' =
                 [name |-> Merged(Selected(defn), provider.name),
                  credential |-> IF runEngine = "local" THEN LocalCredential(defn)
                                 ELSE TemporalCredential(defn),
                  mcp |-> ResolveMcpServers(Merged(defn.step.mcp, defn.spec.mcp)),
                  timeout |-> Merged(Timeout(defn), 600),
                  account |-> CollapsedAccount(defn)]
            /\ UNCHANGED reason
    /\ UNCHANGED <<defn, asked, policy, runEngine, provider>>

-----------------------------------------------------------------------------
SubmitNext ==
    \/ SubmitDefinition
    \/ \E e \in {"local", "temporal"} : RunSubmitted(e)
    \/ \E request \in {None, asked} : RunTriggered(request)
    \/ BuildStepInput

SubmitSpec == SubmitInit /\ [][SubmitNext]_submitVars

-----------------------------------------------------------------------------
(* Properties                                                              *)

\* What an endpoint accepted is not refused later for what the endpoint should
\* have seen: a step fails before its executor runs only for a timeout that is
\* not positive, permissions that contradict each other, or a provider other
\* than the run's.  Alerts and schedules, which do not validate again, included.
AcceptedNormalizes == reason \in {None, "timeout", "permissions", "boundary"}

\* A step runs with the provider its run was authorized for, with a service
\* account that its permissions do not contradict, and not with the credential
\* reference of another provider, whatever the layers say: the reference is the
\* run's, or that of the definition's provider when the step uses it.  The one
\* exception: the Temporal workflow does not compare the names, so that a step
\* which overrides the definition's provider with the run's still gets the
\* definition's reference when the run has none.
BoundaryKept ==
    stage = "built" =>
        /\ stepInput.name = provider.name
        /\ Scope(defn) \notin {None, "any"} => stepInput.account = Scope(defn)
        /\ \/ stepInput.credential \in {None, provider.credential}
           \/ defn.provider.name = stepInput.name
           \/ runEngine = "temporal" /\ defn.step.provider = provider.name
=============================================================================
