---------------------------- MODULE GatewaySpawn ----------------------------
(***************************************************************************)
(* OpenShellSpawner._do_spawn and _do_destroy                              *)
(* (spawner/openshell_spawner.py), one action per gateway call.  A spawn   *)
(* with credentials makes two objects at the gateway, a credential         *)
(* provider and a sandbox the provider is attached to, and the gateway     *)
(* refuses to delete a provider that is attached.                          *)
(*                                                                         *)
(* An agent name stands for its provider and its sandbox as well: names    *)
(* are never reused.  A gateway call that raises may have been applied     *)
(* (its reply was lost), and a call whose caller gave up goes on in its    *)
(* worker thread.                                                          *)
(***************************************************************************)
EXTENDS Naturals, Sequences

CONSTANTS
    Agent,             \* spawns, each with a name of its own
    Asked,             \* what callers ask for: sets of "cred", "mcp", "skills"
    MaxGatewayFaults   \* bound: gateway calls that raise

ASSUME GatewayAssumption ==
    /\ MaxGatewayFaults \in Nat
    /\ Asked \subseteq SUBSET {"cred", "mcp", "skills"}

VARIABLES
    gpc,        \* where each spawn or destroy is
    want,       \* what the caller asked for: credentials, MCP secrets, skills
    profiles,   \* gateway: the bundled ProviderProfile is registered
    listed,     \* the gateway reported the sandbox when destroy() asked for it
    providers,  \* gateway: credential providers
    route,      \* gateway: the agent whose provider the workspace's one inference route names
    boxes,      \* gateway: sandboxes
    attached,   \* gateway: sandboxes that still have their provider attached
    abandoned,  \* CreateSandbox calls whose caller has given up
    names,      \* _sandbox_names and _sandbox_ids
    credIds,    \* _provider_ids
    gfaults,    \* history: calls that raised
    mishap,     \* history: operations that lost a call for the agent's own objects
    raised,     \* history: spawns in which something was raised
    unbuilt     \* history: spawns whose policies could not be built

gatewayState == <<profiles, providers, route, boxes, attached, abandoned>>
spawnerState == <<want, listed, names, credIds>>
spawnHistory == <<gfaults, mishap, raised, unbuilt>>
gatewayVars == <<gpc, gatewayState, spawnerState, spawnHistory>>

\* The calls made for the sandbox once it exists, in their order.
Setup == <<"gwready", "mcp", "skills", "expose", "health">>
InSetup(p) == \E i \in 1..Len(Setup) : Setup[i] = p

GatewayTypeOK ==
    /\ gpc \in [Agent -> {"idle", "profile", "import", "provider", "route",
                          "unroute", "create", "gwready", "mcp", "skills",
                          "expose", "health", "up", "detach", "delbox",
                          "delprov", "failed", "dlist", "ddetach", "ddelete",
                          "gone"}]
    /\ want \in [Agent -> Asked \cup {{}}]
    /\ profiles \in BOOLEAN
    /\ listed \in [Agent -> BOOLEAN]
    /\ providers \subseteq Agent /\ boxes \subseteq Agent
    /\ route = {} \/ \E a \in Agent : route = {a}
    /\ attached \subseteq boxes /\ abandoned \subseteq Agent
    /\ names \subseteq Agent /\ credIds \subseteq Agent
    /\ gfaults \in 0..MaxGatewayFaults
    /\ mishap \subseteq Agent /\ raised \subseteq Agent /\ unbuilt \subseteq Agent

GatewayInit ==
    /\ gpc = [a \in Agent |-> "idle"]
    /\ want = [a \in Agent |-> {}]
    /\ profiles = FALSE
    /\ listed = [a \in Agent |-> FALSE]
    /\ providers = {} /\ route = {} /\ boxes = {} /\ attached = {} /\ abandoned = {}
    /\ names = {} /\ credIds = {}
    /\ gfaults = 0 /\ mishap = {} /\ raised = {} /\ unbuilt = {}

At(a, from, to) == gpc[a] = from /\ gpc' = [gpc EXCEPT ![a] = to]

\* A call raises; lost: it concerned the agent's own provider or sandbox.
Raise(a, lost) ==
    /\ gfaults < MaxGatewayFaults
    /\ gfaults' = gfaults + 1
    /\ raised' = raised \cup {a}
    /\ mishap' = IF lost THEN mishap \cup {a} ELSE mishap
    /\ UNCHANGED unbuilt

-----------------------------------------------------------------------------
(* The credential provider, before the sandbox exists                      *)

SpawnCall(a, w) ==
    /\ At(a, "idle", IF "cred" \in w THEN "profile" ELSE "create")
    /\ want' = [want EXCEPT ![a] = w]
    /\ UNCHANGED <<gatewayState, listed, names, credIds, spawnHistory>>

\* _ensure_provider_profile: ListProviderProfiles, then the import if missing.
ListProfiles(a) ==
    /\ At(a, "profile", IF profiles THEN "provider" ELSE "import")
    /\ UNCHANGED <<gatewayState, spawnerState, spawnHistory>>

\* The gateway answers imported, or "already exists" to the loser of a race.
Bug_ImportAccepted(a) == ~profiles
ImportAccepted(a) == TRUE

ImportProfile(a) ==
    /\ At(a, "import", IF ImportAccepted(a) THEN "provider" ELSE "failed")
    /\ profiles' = TRUE
    /\ UNCHANGED <<providers, route, boxes, attached, abandoned, spawnerState, spawnHistory>>

\* _create_provider; _provider_ids[agent_name] = provider_id.
CreateProvider(a) ==
    /\ At(a, "provider", "route")
    /\ providers' = providers \cup {a}
    /\ credIds' = credIds \cup {a}
    /\ UNCHANGED <<profiles, route, boxes, attached, abandoned, want, listed, names, spawnHistory>>

\* _set_inference_route: the gateway knows one route, and the last one to set
\* it has it.
RouteTo(a, applied) == route' = IF applied THEN {a} ELSE route

SetInferenceRoute(a) ==
    /\ At(a, "route", "create")
    /\ RouteTo(a, TRUE)
    /\ UNCHANGED <<profiles, providers, boxes, attached, abandoned, spawnerState, spawnHistory>>

\* The profile is rejected or the call raises.
ProfileFails(a) ==
    /\ \E p \in {"profile", "import"} : At(a, p, "failed")
    /\ Raise(a, FALSE)
    /\ UNCHANGED <<gatewayState, spawnerState>>

\* A provider whose name never arrives is known to nobody.
CreateProviderFails(a, applied) ==
    /\ At(a, "provider", "failed")
    /\ Raise(a, applied)
    /\ providers' = IF applied THEN providers \cup {a} ELSE providers
    /\ UNCHANGED <<profiles, route, boxes, attached, abandoned, spawnerState>>

\* The provider is forgotten and deleted, because no later code would do it.
RouteCleanup == "unroute"

RouteFails(a, applied) ==
    /\ At(a, "route", RouteCleanup)
    /\ Raise(a, FALSE)
    /\ RouteTo(a, applied)
    /\ credIds' = credIds \ {a}
    /\ UNCHANGED <<profiles, providers, boxes, attached, abandoned, want, listed, names>>

\* A cancelled spawn leaves by CancelledError, which no except clause of this
\* part catches.  The call in its thread may still be applied.
CancelEarly(a, applied) ==
    /\ \E p \in {"profile", "import", "provider", "route"} : At(a, p, "failed")
    /\ raised' = raised \cup {a}
    /\ mishap' = IF gpc[a] \in {"provider", "route"} THEN mishap \cup {a} ELSE mishap
    /\ providers' = IF gpc[a] = "provider" /\ applied THEN providers \cup {a} ELSE providers
    /\ RouteTo(a, gpc[a] = "route" /\ applied)
    /\ UNCHANGED <<profiles, boxes, attached, abandoned, spawnerState, gfaults, unbuilt>>

\* The sandbox's network and filesystem policies are built from the request
\* before the try that cleans up.  A request they refuse (an allowed_skills
\* entry that is not a bare name) raises here: nothing deletes the provider,
\* and _provider_ids keeps it.
PolicyFails(a) ==
    /\ At(a, "create", "failed")
    /\ raised' = raised \cup {a}
    /\ unbuilt' = unbuilt \cup {a}
    /\ UNCHANGED <<gatewayState, spawnerState, gfaults, mishap>>

-----------------------------------------------------------------------------
(* _create_and_start, within the spawn deadline                            *)

\* The gateway makes the sandbox and attaches the provider its spec names.
NewBox(a) ==
    /\ boxes' = boxes \cup {a}
    /\ attached' = IF "cred" \in want[a] THEN attached \cup {a} ELSE attached

\* Points of destroy() at which it has decided what to delete.
Decided(a) == gpc[a] \in {"ddetach", "ddelete", "gone"}

CreateSandbox(a) ==
    /\ At(a, "create", "gwready")
    /\ NewBox(a)
    /\ names' = names \cup {a}
    /\ UNCHANGED <<profiles, providers, route, abandoned, want, listed, credIds, spawnHistory>>

\* The next call of Setup that the request asks for; start_server only starts
\* a background task and comes with "expose".
Skipped(a, p) == p \in {"mcp", "skills"} /\ p \notin want[a]
AfterSetup(a, p) ==
    LET later == {i \in 1..Len(Setup) :
                    /\ ~Skipped(a, Setup[i])
                    /\ \E j \in 1..(i - 1) : Setup[j] = p}
    IN IF later = {} THEN "up"
       ELSE Setup[CHOOSE i \in later : \A j \in later : i <= j]

Proceed(a, p) ==
    /\ At(a, p, AfterSetup(a, p))
    /\ UNCHANGED <<gatewayState, spawnerState, spawnHistory>>

\* One action per call; the files they write are private to the sandbox.
GatewayReady(a)      == Proceed(a, "gwready")
InjectMcpSecrets(a)  == Proceed(a, "mcp")
MaterializeSkills(a) == Proceed(a, "skills")
ExposeService(a)     == Proceed(a, "expose")
WaitReady(a)         == Proceed(a, "health")

SetupCall(a) ==
    \/ GatewayReady(a) \/ InjectMcpSecrets(a) \/ MaterializeSkills(a)
    \/ ExposeService(a) \/ WaitReady(a)

\* A call raises, the health check never answers 200, the deadline passes or
\* the spawn is cancelled: the sandbox is cleaned up first, since a provider
\* cannot be deleted while it is attached.
Bug_FirstCleanup == "delprov"
FirstCleanup == "detach"

SetupFails(a) ==
    /\ InSetup(gpc[a])
    /\ gpc' = [gpc EXCEPT ![a] = FirstCleanup]
    /\ raised' = raised \cup {a}
    /\ UNCHANGED <<gatewayState, spawnerState, gfaults, mishap, unbuilt>>

\* CreateSandbox raises, or is given up and goes on in its thread: no sandbox
\* is known, so none is deleted; _provider_ids is popped.
CreateFails(a, givenUp) ==
    /\ At(a, "create", "delprov")
    /\ raised' = raised \cup {a}
    /\ abandoned' = IF givenUp THEN abandoned \cup {a} ELSE abandoned
    /\ mishap' = IF givenUp THEN mishap \cup {a} ELSE mishap
    /\ credIds' = credIds \ {a}
    /\ UNCHANGED <<profiles, providers, route, boxes, attached, want, listed, names, gfaults, unbuilt>>

\* ... where the gateway refuses it if its provider is gone.
LateSandbox(a) ==
    /\ a \in abandoned
    /\ abandoned' = abandoned \ {a}
    /\ IF "cred" \in want[a] /\ a \notin providers
       THEN UNCHANGED <<boxes, attached>>
       ELSE NewBox(a)
    /\ mishap' = IF Decided(a) THEN mishap \cup {a} ELSE mishap
    /\ UNCHANGED <<gpc, profiles, providers, route, spawnerState, gfaults, raised, unbuilt>>

-----------------------------------------------------------------------------
(* Cleanup of a failed spawn; every call may fail, be applied and lost, or *)
(* be cut off at its own time limit.                                       *)

Detached(a)   == attached' = attached \ {a} /\ UNCHANGED boxes
BoxDeleted(a) == boxes' = boxes \ {a} /\ attached' = attached \ {a}

\* _cleanup_sandbox pops _provider_ids first, and the names at its end.
CleanupDetach(a) ==
    /\ At(a, "detach", "delbox")
    /\ credIds' = credIds \ {a}
    /\ IF a \in credIds THEN Detached(a) ELSE UNCHANGED <<attached, boxes>>
    /\ UNCHANGED <<profiles, providers, route, abandoned, want, listed, names, spawnHistory>>

CleanupDelete(a) ==
    /\ At(a, "delbox", "delprov")
    /\ BoxDeleted(a)
    /\ names' = names \ {a}
    /\ UNCHANGED <<profiles, providers, route, abandoned, want, listed, credIds, spawnHistory>>

\* cut: the time limit of the cleanup, which leaves the names as they are.
CleanupFails(a, applied, cut) ==
    /\ gpc[a] = "delbox" \/ (gpc[a] = "detach" /\ a \in credIds)
    /\ gpc' = [gpc EXCEPT ![a] = IF @ = "detach" /\ ~cut THEN "delbox" ELSE "delprov"]
    /\ Raise(a, TRUE)
    /\ credIds' = credIds \ {a}
    /\ names' = IF gpc[a] = "delbox" /\ ~cut THEN names \ {a} ELSE names
    /\ IF ~applied THEN UNCHANGED <<attached, boxes>>
       ELSE IF gpc[a] = "detach" THEN Detached(a) ELSE BoxDeleted(a)
    /\ UNCHANGED <<profiles, providers, route, abandoned, want, listed>>

\* DeleteProvider, refused while the provider is attached.
DeleteProvider(a) ==
    /\ \E p \in {"delprov", "unroute"} : At(a, p, "failed")
    /\ providers' = IF a \in attached THEN providers ELSE providers \ {a}
    /\ UNCHANGED <<profiles, route, boxes, attached, abandoned, spawnerState, spawnHistory>>

DeleteProviderFails(a) ==
    /\ "cred" \in want[a]
    /\ \E p \in {"delprov", "unroute"} : At(a, p, "failed")
    /\ Raise(a, TRUE)
    /\ UNCHANGED <<gatewayState, spawnerState>>

-----------------------------------------------------------------------------
(* _do_destroy, after a spawn that returned or (step runner) that raised.  *)
(* The server task is looked up by the sandbox's name, and was registered  *)
(* by its id: it ends when its stream does.                                *)

DestroyCall(a) ==
    /\ gpc[a] \in {"up", "failed"}
    /\ gpc' = [gpc EXCEPT ![a] = IF a \in names THEN "ddetach" ELSE "dlist"]
    /\ mishap' = mishap \ {a}
    /\ UNCHANGED <<gatewayState, spawnerState, gfaults, raised, unbuilt>>

\* Not tracked: the gateway is asked for sandboxes that carry the agent's name.
DestroyList(a) ==
    /\ At(a, "dlist", "ddetach")
    /\ listed' = [listed EXCEPT ![a] = a \in boxes]
    /\ UNCHANGED <<gatewayState, want, names, credIds, spawnHistory>>

\* A name nobody knows is taken for the name of a sandbox, and finds none.
Found(a) == a \in names \/ listed[a]

DestroyListFails(a) ==
    /\ At(a, "dlist", "gone")
    /\ Raise(a, TRUE)
    /\ UNCHANGED <<gatewayState, spawnerState>>

\* A provider id that could not be detached is kept for a later destroy.
DestroyDetach(a) ==
    /\ At(a, "ddetach", "ddelete")
    /\ IF a \in credIds /\ Found(a)
       THEN Detached(a) /\ credIds' = credIds \ {a}
       ELSE UNCHANGED <<attached, boxes, credIds>>
    /\ UNCHANGED <<profiles, providers, route, abandoned, want, listed, names, spawnHistory>>

DestroyDetachFails(a) ==
    /\ At(a, "ddetach", "ddelete")
    /\ Raise(a, TRUE)
    /\ UNCHANGED <<gatewayState, spawnerState>>

DestroyDelete(a) ==
    /\ At(a, "ddelete", "gone")
    /\ IF Found(a)
       THEN BoxDeleted(a) /\ names' = names \ {a}
       ELSE UNCHANGED <<boxes, attached, names>>
    /\ UNCHANGED <<profiles, providers, route, abandoned, want, listed, credIds, spawnHistory>>

\* The deletion is logged and swallowed; the names stay.
DestroyDeleteFails(a, applied) ==
    /\ At(a, "ddelete", "gone")
    /\ Raise(a, TRUE)
    /\ IF applied THEN BoxDeleted(a) ELSE UNCHANGED <<boxes, attached>>
    /\ UNCHANGED <<profiles, providers, route, abandoned, spawnerState>>

-----------------------------------------------------------------------------
SpawnStep(a) ==
    \/ ListProfiles(a) \/ ImportProfile(a) \/ CreateProvider(a)
    \/ SetInferenceRoute(a) \/ CreateSandbox(a) \/ SetupCall(a)
    \/ CleanupDetach(a) \/ CleanupDelete(a) \/ DeleteProvider(a)

SpawnTrouble(a) ==
    \/ ProfileFails(a) \/ PolicyFails(a) \/ SetupFails(a) \/ DeleteProviderFails(a)
    \/ \E b \in BOOLEAN :
          \/ CreateProviderFails(a, b) \/ RouteFails(a, b) \/ CancelEarly(a, b) \/ CreateFails(a, b)
          \/ \E cut \in BOOLEAN : CleanupFails(a, b, cut)
    \/ LateSandbox(a)

DestroyStep(a) ==
    \/ DestroyCall(a) \/ DestroyList(a) \/ DestroyListFails(a)
    \/ DestroyDetach(a) \/ DestroyDetachFails(a) \/ DestroyDelete(a)
    \/ \E b \in BOOLEAN : DestroyDeleteFails(a, b)

GatewayNext ==
    \E a \in Agent :
        \/ \E w \in Asked : SpawnCall(a, w)
        \/ SpawnStep(a) \/ SpawnTrouble(a) \/ DestroyStep(a)

GatewaySpec == GatewayInit /\ [][GatewayNext]_gatewayVars

-----------------------------------------------------------------------------
(* Properties                                                              *)

\* A spawn fails only if something was raised in it: two spawns that import
\* the same provider profile at the same time do not fail each other.
FailureHasCause == \A a \in Agent : gpc[a] = "failed" => a \in raised

\* A failed spawn leaves no sandbox at the gateway, and no credential provider
\* unless the request's policies could not be built (see PolicyFails), and a
\* destroy() leaves no sandbox, whether or not this process still tracks it (a
\* cleanup that could not delete it has dropped its name); unless a call for
\* these very objects was lost: an early cancel, a lost reply of
\* CreateProvider, an abandoned CreateSandbox, or a failure of the cleanup
\* itself.
NothingLeft ==
    \A a \in Agent \ mishap :
        /\ gpc[a] = "failed" => a \notin boxes
        /\ gpc[a] = "failed" /\ a \in providers => a \in unbuilt
        /\ gpc[a] = "gone" => a \notin boxes
=============================================================================
