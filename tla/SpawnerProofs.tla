--------------------------- MODULE SpawnerProofs ----------------------------
(***************************************************************************)
(* Theorems about the spawner.  SandboxPool, for every number of step      *)
(* attempts, cap and breaker threshold: how far _active_count may drift,   *)
(* the cap of the durable engine, and the only ways in which a sandbox is  *)
(* left behind.  GatewaySpawn, for every number of spawns, request and     *)
(* number of calls that fail: what a failed spawn and a destroy leave at   *)
(* the gateway.                                                            *)
(***************************************************************************)
EXTENDS SandboxPool, GatewaySpawn, FiniteSetTheorems, TLAPS

-----------------------------------------------------------------------------
(* SandboxPool                                                             *)

\* Attempts that will run destroy() without holding a slot.
Unowned == {a \in Attempt : pc[a] \in {"destroy", "release"} /\ a \notin owns}

\* Who holds a slot: everybody with a sandbox, and outside an attempt only those
\* that were cancelled before their destroy().
OwnerInv ==
    \A a \in Attempt :
        /\ pc[a] \in {"create", "ready", "run"} => a \in owns
        /\ a \in owns => \/ pc[a] \in {"create", "ready", "run", "destroy", "release"}
                         \/ pc[a] = "done" /\ a \in skipped

\* The local engine: each mishap is paid for once, by a destroy() still to come
\* or by the drift of _active_count.
LocalDrift ==
    engine = "local" =>
        /\ count <= Cardinality(owns)
        /\ Cardinality(owns) - count + Cardinality(Unowned) <= mishaps

\* The durable engine: every destroy() gives back a slot that was taken.
TemporalExact ==
    engine = "temporal" =>
        /\ Unowned = {}
        /\ count = Cardinality(owns)
        /\ count <= MaxPods

\* A sandbox exists from its creation to its deletion, and what stays is
\* accounted for.
AliveInv ==
    /\ \A a \in alive :
          /\ pc[a] \in {"ready", "run", "destroy", "release", "done"}
          /\ pc[a] \in {"release", "done"} =>
                \/ a \in stuck \/ a \in late
                \/ engine = "temporal" /\ a \in left \cup skipped
    /\ \A a \in pending : pc[a] \in {"destroy", "release", "done"}

PoolInv == TypeOK /\ OwnerInv /\ LocalDrift /\ TemporalExact /\ AliveInv

\* Cardinalities of sets of attempts.
LEMMA AttemptSets ==
    ASSUME NEW S \in SUBSET Attempt
    PROVE  /\ IsFiniteSet(S) /\ Cardinality(S) \in Nat
           /\ Cardinality({}) = 0
           /\ \A a \in Attempt \ S : Cardinality(S \cup {a}) = Cardinality(S) + 1
           /\ \A a \in S : Cardinality(S \ {a}) = Cardinality(S) - 1
           /\ \A a \in S : Cardinality(S) >= 1
           /\ \A T \in SUBSET S : Cardinality(T) <= Cardinality(S)
  <1>1. IsFiniteSet(S) /\ Cardinality(S) \in Nat
    BY PoolAssumption, FS_Subset, FS_CardinalityType
  <1>2. \A a \in Attempt \ S : Cardinality(S \cup {a}) = Cardinality(S) + 1
    BY <1>1, FS_AddElement
  <1>3. ASSUME NEW a \in S
        PROVE  Cardinality(S \ {a}) = Cardinality(S) - 1 /\ Cardinality(S) >= 1
    <2>1. IsFiniteSet(S \ {a}) /\ Cardinality(S \ {a}) = Cardinality(S) - 1
      BY <1>1, FS_RemoveElement
    <2>2. Cardinality(S \ {a}) \in Nat
      BY <2>1, FS_CardinalityType
    <2> QED BY <1>1, <2>1, <2>2
  <1>4. \A T \in SUBSET S : Cardinality(T) <= Cardinality(S)
    BY <1>1, FS_Subset
  <1> QED BY <1>1, <1>2, <1>3, <1>4, FS_EmptySet

\* The actions of one attempt, in groups that have the same effect on the slots.
Silent(a) ==
    \/ FailFast(a) \/ Begin(a) \/ PrepareFail(a) \/ CreateOk(a) \/ ReadyOk(a)
    \/ ReadyTimeout(a) \/ RunOk(a) \/ RunFail(a) \/ RunRaise(a) \/ LateCreate(a)
    \/ FinallyCancelled(a)
    \/ \E deleted \in BOOLEAN : DestroyPod(a, deleted)
Mishap(a) ==
    SpawnRefuse(a) \/ \E sandbox \in {"clean", "kept", "pending"} : CreateFail(a, sandbox)

LEMMA NextCases ==
    Next <=> ResetElapses \/ \E a \in Attempt :
                Silent(a) \/ Mishap(a) \/ SpawnAdmit(a) \/ Release(a)
  BY DEF Next, Silent, Mishap

USE DEF Goto, poolVars, breakerVars, traceVars

\* Every variable keeps its type.
LEMMA PoolTypes ==
    ASSUME TypeOK, [Next]_vars
    PROVE  TypeOK'
  <1> USE DEF TypeOK
  <1>1. CASE ResetElapses
    BY <1>1 DEF ResetElapses
  <1>2. ASSUME NEW a \in Attempt, Silent(a)
        PROVE  TypeOK'
    <2> USE DEF FailFast, Begin, PrepareFail, CreateOk, ReadyOk, ReadyTimeout, RunOk,
               RunFail, RunRaise, LateCreate, FinallyCancelled, DestroyPod,
               RecordFailure, RecordSuccess
    <2>1. CASE FailFast(a) \/ Begin(a) \/ PrepareFail(a)
      BY <2>1
    <2>2. CASE CreateOk(a) \/ ReadyOk(a)
      BY <2>2
    <2>3. CASE ReadyTimeout(a) \/ RunFail(a)
      <3>1. elapsed' \in BOOLEAN
        BY <2>3, Zenon
      <3>2. failures' \in Nat
        BY <2>3
      <3>3. pc' \in [Attempt -> {"idle", "spawn", "create", "ready", "run", "destroy",
                                 "release", "done"}]
        BY <2>3
      <3> QED BY <2>3, <3>1, <3>2, <3>3, Zenon
    <2>4. CASE RunOk(a) \/ RunRaise(a) \/ FinallyCancelled(a)
      BY <2>4
    <2>5. CASE LateCreate(a) \/ \E deleted \in BOOLEAN : DestroyPod(a, deleted)
      BY <2>5
    <2> QED BY <1>2, <2>1, <2>2, <2>3, <2>4, <2>5 DEF Silent
  <1>3. ASSUME NEW a \in Attempt, Mishap(a) \/ SpawnAdmit(a) \/ Release(a)
        PROVE  TypeOK'
    BY <1>3 DEF Mishap, SpawnRefuse, CreateFail, AfterSpawnError, SpawnAdmit, Release, CountAfter
  <1>4. CASE UNCHANGED vars
    BY <1>4 DEF vars
  <1> QED BY <1>1, <1>2, <1>3, <1>4, NextCases

\* A slot is held from spawn() to destroy().
LEMMA OwnerStep ==
    ASSUME TypeOK, OwnerInv, [Next]_vars
    PROVE  OwnerInv'
  <1> USE DEF TypeOK, OwnerInv
  <1>1. CASE ResetElapses
    BY <1>1 DEF ResetElapses
  <1>2. ASSUME NEW a \in Attempt, Silent(a)
        PROVE  OwnerInv'
    BY <1>2 DEF Silent, FailFast, Begin, PrepareFail, CreateOk, ReadyOk, ReadyTimeout, RunOk,
       RunFail, RunRaise, LateCreate, FinallyCancelled, DestroyPod
  <1>3. ASSUME NEW a \in Attempt, Mishap(a) \/ SpawnAdmit(a) \/ Release(a)
        PROVE  OwnerInv'
    BY <1>3 DEF Mishap, SpawnRefuse, CreateFail, AfterSpawnError, SpawnAdmit, Release
  <1>4. CASE UNCHANGED vars
    BY <1>4 DEF vars
  <1> QED BY <1>1, <1>2, <1>3, <1>4, NextCases

\* A sandbox that outlives its attempt is stuck, late, left or skipped.
LEMMA AliveStep ==
    ASSUME TypeOK, AliveInv, [Next]_vars
    PROVE  AliveInv'
  <1> USE DEF TypeOK, AliveInv
  <1>1. CASE ResetElapses
    BY <1>1 DEF ResetElapses
  <1>2. ASSUME NEW a \in Attempt, Silent(a)
        PROVE  AliveInv'
    <2>1. CASE FailFast(a) \/ Begin(a) \/ PrepareFail(a) \/ CreateOk(a) \/ ReadyOk(a)
      BY <2>1 DEF FailFast, Begin, PrepareFail, CreateOk, ReadyOk
    <2>2. CASE ReadyTimeout(a) \/ RunOk(a) \/ RunFail(a) \/ RunRaise(a)
      BY <2>2 DEF ReadyTimeout, RunOk, RunFail, RunRaise
    <2>3. CASE LateCreate(a) \/ FinallyCancelled(a)
      BY <2>3 DEF LateCreate, FinallyCancelled
    <2>4. ASSUME NEW deleted \in BOOLEAN, DestroyPod(a, deleted)
          PROVE  AliveInv'
      BY <2>4 DEF DestroyPod
    <2> QED BY <1>2, <2>1, <2>2, <2>3, <2>4 DEF Silent
  <1>3. ASSUME NEW a \in Attempt, Mishap(a)
        PROVE  AliveInv'
    <2>1. CASE SpawnRefuse(a)
      BY <2>1 DEF SpawnRefuse, AfterSpawnError
    <2>2. ASSUME NEW sandbox \in {"clean", "kept", "pending"}, CreateFail(a, sandbox)
          PROVE  AliveInv'
      BY <2>2 DEF CreateFail, AfterSpawnError
    <2> QED BY <1>3, <2>1, <2>2 DEF Mishap
  <1>4. ASSUME NEW a \in Attempt, SpawnAdmit(a) \/ Release(a)
        PROVE  AliveInv'
    BY <1>4 DEF SpawnAdmit, Release
  <1>5. CASE UNCHANGED vars
    BY <1>5 DEF vars
  <1> QED BY <1>1, <1>2, <1>3, <1>4, <1>5, NextCases

\* The slots and the counter.
LEMMA CountStep ==
    ASSUME TypeOK, OwnerInv, LocalDrift, TemporalExact, [Next]_vars
    PROVE  LocalDrift' /\ TemporalExact'
  <1> DEFINE Same == UNCHANGED <<engine, count, owns, mishaps>> /\ Unowned' = Unowned
  <1>0. /\ owns \in SUBSET Attempt /\ Unowned \in SUBSET Attempt
        /\ engine \in {"local", "temporal"} /\ count \in Int /\ mishaps \in Nat
        /\ MaxPods \in Nat
    BY PoolAssumption DEF TypeOK, Unowned
  <1>1. /\ Cardinality(owns) \in Nat /\ Cardinality(Unowned) \in Nat /\ Cardinality({}) = 0
        /\ \A a \in Attempt \ owns : Cardinality(owns \cup {a}) = Cardinality(owns) + 1
        /\ \A a \in owns : /\ Cardinality(owns \ {a}) = Cardinality(owns) - 1
                           /\ Cardinality(owns) >= 1
        /\ \A a \in Attempt \ Unowned : Cardinality(Unowned \cup {a}) = Cardinality(Unowned) + 1
        /\ \A a \in Unowned : /\ Cardinality(Unowned \ {a}) = Cardinality(Unowned) - 1
                              /\ Cardinality(Unowned) >= 1
    BY <1>0, AttemptSets
  <1>2. Same => LocalDrift' /\ TemporalExact'
    BY DEF LocalDrift, TemporalExact
  <1>3. CASE ResetElapses \/ UNCHANGED vars
    <2>1. Same
      BY <1>3 DEF ResetElapses, vars, Unowned
    <2> QED BY <1>2, <2>1
  <1>4. ASSUME NEW a \in Attempt, Silent(a)
        PROVE  LocalDrift' /\ TemporalExact'
    <2> USE <1>4 DEF TypeOK, OwnerInv
    <2>1. UNCHANGED <<engine, count, owns, mishaps>>
      BY DEF Silent, FailFast, Begin, PrepareFail, CreateOk, ReadyOk, ReadyTimeout, RunOk,
         RunFail, RunRaise, LateCreate, FinallyCancelled, DestroyPod
    <2>2. Unowned' = Unowned
      <3>1. CASE FinallyCancelled(a)
        BY <3>1 DEF FinallyCancelled, TemporalExact, Unowned
      <3>2. CASE ~FinallyCancelled(a)
        BY <3>2 DEF Unowned, Silent, FailFast, Begin, PrepareFail, CreateOk, ReadyOk,
           ReadyTimeout, RunOk, RunFail, RunRaise, LateCreate, DestroyPod
      <3> QED BY <3>1, <3>2
    <2> QED BY <1>2, <2>1, <2>2
  \* A mishap costs a slot at most once, and only a local one leads to destroy().
  <1>5. ASSUME NEW a \in Attempt, Mishap(a)
        PROVE  LocalDrift' /\ TemporalExact'
    <2> USE <1>5 DEF TypeOK, OwnerInv
    <2>1. engine' = engine /\ mishaps' = mishaps + 1 /\ a \notin Unowned
      BY DEF Mishap, SpawnRefuse, CreateFail, Unowned
    <2>2. Unowned' = IF engine = "local" THEN Unowned \cup {a} ELSE Unowned
      <3>1. CASE SpawnRefuse(a)
        BY <3>1 DEF SpawnRefuse, AfterSpawnError, Unowned
      <3>2. CASE \E sandbox \in {"clean", "kept", "pending"} : CreateFail(a, sandbox)
        BY <3>2 DEF CreateFail, AfterSpawnError, Unowned
      <3> QED BY <3>1, <3>2 DEF Mishap
    <2>3. \/ count' = count /\ owns' = owns
          \/ count' = count - 1 /\ owns' = owns \ {a} /\ a \in owns
      BY DEF Mishap, SpawnRefuse, CreateFail
    <2>4. Cardinality(owns') - count' = Cardinality(owns) - count
          /\ Cardinality(owns') \in Nat /\ count' \in Int /\ count' <= count
      BY <1>0, <1>1, <2>3
    <2>5. CASE engine = "local"
      <3>1. Cardinality(Unowned') = Cardinality(Unowned) + 1
        BY <1>1, <2>1, <2>2, <2>5
      <3>2. TemporalExact'
        BY <2>1, <2>5 DEF TemporalExact
      <3>3. LocalDrift'
        BY ONLY <1>0, <1>1, <2>1, <2>4, <3>1, LocalDrift DEF LocalDrift
      <3> QED BY <3>2, <3>3
    <2>6. CASE engine = "temporal"
      <3>1. LocalDrift'
        BY <2>1, <2>6 DEF LocalDrift
      <3>2. Unowned' = Unowned
        BY <2>2, <2>6
      <3>3. TemporalExact'
        BY ONLY <1>0, <1>1, <2>1, <2>4, <3>2, TemporalExact DEF TemporalExact
      <3> QED BY <3>1, <3>3
    <2> QED BY <1>0, <2>5, <2>6
  <1>6. ASSUME NEW a \in Attempt, SpawnAdmit(a)
        PROVE  LocalDrift' /\ TemporalExact'
    <2> USE <1>6 DEF TypeOK, OwnerInv
    <2>1. /\ UNCHANGED <<engine, mishaps>> /\ count < MaxPods /\ count' = count + 1
          /\ owns' = owns \cup {a} /\ a \notin owns /\ Unowned' = Unowned
      BY DEF SpawnAdmit, Unowned
    <2>2. Cardinality(owns') = Cardinality(owns) + 1
      BY <1>1, <2>1
    <2> QED BY <1>0, <1>1, <2>1, <2>2 DEF LocalDrift, TemporalExact
  <1>7. ASSUME NEW a \in Attempt, Release(a)
        PROVE  LocalDrift' /\ TemporalExact'
    <2>1. /\ engine' = engine /\ mishaps' = mishaps /\ owns' = owns \ {a}
          /\ Unowned' = Unowned \ {a} /\ (a \in owns <=> a \notin Unowned)
      BY <1>7 DEF Release, Unowned, TypeOK, OwnerInv
    <2>2. count' = IF count > 0 THEN count - 1 ELSE 0
      BY <1>7 DEF Release, CountAfter
    <2>3. CASE a \in owns
      <3>1. Unowned' = Unowned /\ Cardinality(owns') = Cardinality(owns) - 1
        BY <1>1, <2>1, <2>3
      <3>2. Cardinality(owns) \in Nat /\ Cardinality(Unowned) \in Nat /\ Cardinality(owns) >= 1
        BY <1>1, <2>3
      <3>4. LocalDrift'
        BY ONLY <1>0, <2>1, <2>2, <3>1, <3>2, LocalDrift DEF LocalDrift
      <3>3. TemporalExact'
        BY <1>0, <1>1, <2>1, <2>2, <2>3, <3>1 DEF TemporalExact
      <3> QED BY <3>3, <3>4
    <2>4. CASE a \in Unowned
      <3>1. owns' = owns /\ Cardinality(Unowned') = Cardinality(Unowned) - 1
        BY <1>1, <2>1, <2>4
      <3>0. /\ Cardinality(owns) \in Nat /\ Cardinality(Unowned) \in Nat
            /\ Cardinality(owns') = Cardinality(owns)
            /\ engine' = engine /\ mishaps' = mishaps
        BY <1>1, <2>1, <3>1
      <3>2. LocalDrift'
        <4>1. Cardinality(Unowned') = Cardinality(Unowned) - 1
          BY <3>1
        <4> QED BY ONLY <1>0, <2>2, <3>0, <4>1, LocalDrift DEF LocalDrift
      <3>3. TemporalExact'
        BY <2>1, <2>4 DEF TemporalExact
      <3> QED BY <3>2, <3>3
    <2> QED BY <2>1, <2>3, <2>4
  <1> QED BY <1>3, <1>4, <1>5, <1>6, <1>7, NextCases

\* PoolInv is an invariant.
THEOREM PoolInvariance == Spec => []PoolInv
  <1>1. Init => PoolInv
    <2> SUFFICES ASSUME Init PROVE PoolInv
      OBVIOUS
    <2>1. TypeOK /\ OwnerInv /\ AliveInv
      <3>1. elapsed \in BOOLEAN
        BY Zenon DEF Init
      <3>2. TypeOK
        BY <3>1 DEF Init, TypeOK
      <3> QED BY <3>2 DEF Init, OwnerInv, AliveInv
    <2>2. Unowned = {} /\ owns = {} /\ count = 0 /\ mishaps = 0
      BY DEF Init, Unowned
    <2>3. LocalDrift /\ TemporalExact
      BY <2>2, FS_EmptySet, PoolAssumption DEF LocalDrift, TemporalExact
    <2> QED BY <2>1, <2>3 DEF PoolInv
  <1>2. PoolInv /\ [Next]_vars => PoolInv'
    BY PoolTypes, OwnerStep, CountStep, AliveStep DEF PoolInv
  <1> QED BY <1>1, <1>2, PTL DEF Spec

\* Every variable of the pool has its type.
THEOREM PoolTypeCorrect == Spec => []TypeOK
  BY PoolInvariance, PTL DEF PoolInv

\* _active_count never exceeds the slots that are held; it falls short of them by
\* at most one per refused or failed spawn (local), or not at all (durable); and
\* only an attempt cancelled before its destroy() never gives its slot back.
THEOREM DriftIsBounded == Spec => []DriftBounded
  <1>1. PoolInv => DriftBounded
    <2> SUFFICES ASSUME PoolInv PROVE DriftBounded
      OBVIOUS
    <2>1. /\ Cardinality(owns) \in Nat /\ Cardinality(Unowned) \in Nat
          /\ count \in Int /\ mishaps \in Nat /\ engine \in {"local", "temporal"}
      BY AttemptSets DEF PoolInv, TypeOK, Unowned
    <2>2. \A a \in owns : pc[a] = "done" => a \in skipped
      BY DEF PoolInv, TypeOK, OwnerInv
    <2> QED BY <2>1, <2>2 DEF PoolInv, LocalDrift, TemporalExact, DriftBounded
  <1> QED BY <1>1, PoolInvariance, PTL

\* No sandbox outlives its attempt except in the ways the code leaves to the
\* expiry label: a refused deletion, a late creation, a failed durable spawn, a
\* durable attempt cancelled before its destroy().
THEOREM NoSandboxLost == Spec => []SandboxGone
  <1>1. PoolInv => SandboxGone
    BY DEF PoolInv, AliveInv, SandboxGone
  <1> QED BY <1>1, PoolInvariance, PTL

\* The durable engine never has more than MaxPods sandboxes in use.
THEOREM TemporalCapHolds == Spec => []TemporalCapRespected
  <1>1. PoolInv => TemporalCapRespected
    <2> SUFFICES ASSUME PoolInv, engine = "temporal"
                 PROVE  Cardinality(InUse) <= MaxPods
      BY DEF TemporalCapRespected
    <2>1. InUse \subseteq owns /\ owns \in SUBSET Attempt /\ InUse \in SUBSET Attempt
      BY DEF PoolInv, TypeOK, OwnerInv, InUse
    <2>2. /\ Cardinality(InUse) \in Nat /\ Cardinality(owns) \in Nat
          /\ Cardinality(InUse) <= Cardinality(owns)
      BY <2>1, AttemptSets
    <2> QED BY <2>2, PoolAssumption DEF PoolInv, TemporalExact
  <1> QED BY <1>1, PoolInvariance, PTL

-----------------------------------------------------------------------------
(* GatewaySpawn                                                            *)

Early == {"idle", "profile", "import", "provider", "route", "unroute", "create"}
Working == {"gwready", "mcp", "skills", "expose", "health", "up", "detach", "delbox"}

\* A spawn is only cleaned up after something was raised in it.
CauseInv ==
    \A a \in Agent : gpc[a] \in {"unroute", "detach", "delbox", "delprov", "failed"} => a \in raised

\* Objects appear at the gateway with the calls that make them.
SpawnInv ==
    \A a \in Agent :
        /\ gpc[a] \in Early => a \notin boxes \cup abandoned
        /\ gpc[a] \in Early \ {"route", "unroute", "create"} => a \notin providers
        /\ gpc[a] \in Working => a \notin abandoned

\* The cleanup removes them in an order the gateway accepts: the sandbox is gone
\* before its provider is deleted.  A spawn whose policies could not be built is
\* not cleaned up.
CleanupInv ==
    \A a \in Agent \ mishap :
        /\ gpc[a] \in {"delprov", "failed"} => a \notin boxes \cup abandoned
        /\ gpc[a] = "failed" /\ a \in providers => a \in unbuilt

\* Once destroy() has looked, it knows every sandbox of the agent.
DestroyInv ==
    \A a \in Agent \ mishap :
        /\ gpc[a] \in {"ddetach", "ddelete"} /\ a \in boxes => Found(a)
        /\ gpc[a] = "gone" => a \notin boxes

GatewayInv == GatewayTypeOK /\ CauseInv /\ SpawnInv /\ CleanupInv /\ DestroyInv

\* AfterSetup names a later call of Setup, or the end of it.
LEMMA AfterSetupType ==
    ASSUME NEW a, NEW p
    PROVE  AfterSetup(a, p) \in {"gwready", "mcp", "skills", "expose", "health", "up"}
  <1> DEFINE later == {i \in 1..Len(Setup) :
                         /\ ~Skipped(a, Setup[i])
                         /\ \E j \in 1..(i - 1) : Setup[j] = p}
             first == CHOOSE i \in later : \A j \in later : i <= j
  <1>1. Len(Setup) = 5 /\ later \subseteq 1..5
    BY DEF Setup
  <1>2. AfterSetup(a, p) = IF later = {} THEN "up" ELSE Setup[first]
    BY DEF AfterSetup
  <1> HIDE DEF later
  <1>3. later # {} => first \in 1..5
    <2> SUFFICES ASSUME later # {} PROVE \E i \in later : \A j \in later : i <= j
      BY <1>1
    <2>1. CASE 1 \in later
      BY <1>1, <2>1
    <2>2. CASE 1 \notin later /\ 2 \in later
      BY <1>1, <2>2
    <2>3. CASE later \cap {1, 2} = {} /\ 3 \in later
      BY <1>1, <2>3
    <2>4. CASE later \cap {1, 2, 3} = {} /\ 4 \in later
      BY <1>1, <2>4
    <2>5. CASE later \cap {1, 2, 3, 4} = {}
      <3>1. \A i \in later : i = 5
        BY <1>1, <2>5
      <3> QED BY <3>1
    <2> QED BY <2>1, <2>2, <2>3, <2>4, <2>5
  <1> HIDE DEF first
  <1> QED BY <1>2, <1>3 DEF Setup

USE DEF At, Raise, gatewayState, spawnerState, spawnHistory, gatewayVars

\* Every variable keeps its type, and a provider is attached to a sandbox only.
LEMMA GatewayTypes ==
    ASSUME GatewayTypeOK, [GatewayNext]_gatewayVars
    PROVE  GatewayTypeOK'
  <1> USE GatewayAssumption, AfterSetupType DEF GatewayTypeOK
  <1> SUFFICES ASSUME NEW a \in Agent, GatewayNext,
                      \/ \E w \in Asked : SpawnCall(a, w)
                      \/ SpawnStep(a) \/ SpawnTrouble(a) \/ DestroyStep(a)
               PROVE  GatewayTypeOK'
    BY DEF GatewayNext, Found
  <1>1. CASE \E w \in Asked : SpawnCall(a, w)
    BY <1>1 DEF SpawnCall
  <1>2. CASE ListProfiles(a) \/ ImportProfile(a) \/ ProfileFails(a)
    <2>1. profiles' \in BOOLEAN
      BY <1>2, Zenon DEF ListProfiles, ImportProfile, ProfileFails
    <2>2. CASE ListProfiles(a)
      BY <2>2 DEF ListProfiles
    <2>3. CASE ImportProfile(a)
      BY <2>1, <2>3 DEF ImportProfile, ImportAccepted
    <2>4. CASE ProfileFails(a)
      BY <2>4 DEF ProfileFails
    <2> QED BY <1>2, <2>2, <2>3, <2>4
  <1>3. CASE CreateProvider(a) \/ \E b \in BOOLEAN : CreateProviderFails(a, b)
    BY <1>3 DEF CreateProvider, CreateProviderFails
  <1>4. CASE SetInferenceRoute(a) \/ \E b \in BOOLEAN : RouteFails(a, b)
    BY <1>4 DEF SetInferenceRoute, RouteFails, RouteTo, RouteCleanup
  <1>5. CASE PolicyFails(a) \/ \E b \in BOOLEAN : CancelEarly(a, b)
    BY <1>5 DEF CancelEarly, RouteTo, PolicyFails
  <1>6. CASE CreateSandbox(a) \/ \E b \in BOOLEAN : CreateFails(a, b)
    BY <1>6 DEF CreateSandbox, CreateFails, NewBox
  <1>7. CASE SetupCall(a)
    BY <1>7 DEF SetupCall, GatewayReady, InjectMcpSecrets, MaterializeSkills, ExposeService,
       WaitReady, Proceed
  <1>8. CASE SetupFails(a)
    BY <1>8 DEF SetupFails, InSetup, Setup, FirstCleanup
  <1>9. CASE LateSandbox(a)
    BY <1>9 DEF LateSandbox, NewBox, Decided
  <1>10. CASE CleanupDetach(a) \/ CleanupDelete(a)
    BY <1>10 DEF CleanupDetach, CleanupDelete, Detached, BoxDeleted
  <1>11. CASE \E b, cut \in BOOLEAN : CleanupFails(a, b, cut)
    BY <1>11 DEF CleanupFails, Detached, BoxDeleted
  <1>12. CASE DeleteProvider(a) \/ DeleteProviderFails(a)
    BY <1>12 DEF DeleteProvider, DeleteProviderFails
  <1>13. CASE DestroyCall(a) \/ DestroyList(a) \/ DestroyListFails(a)
    <2>1. CASE DestroyCall(a) \/ DestroyListFails(a)
      BY <2>1 DEF DestroyCall, DestroyListFails
    <2>2. CASE DestroyList(a)
      <3>1. listed' \in [Agent -> BOOLEAN]
        BY <2>2, (a \in boxes) \in BOOLEAN, Zenon DEF DestroyList
      <3>2. gpc'[a] = "ddetach" /\ gpc' = [gpc EXCEPT ![a] = "ddetach"]
        BY <2>2 DEF DestroyList
      <3> QED BY <2>2, <3>1, <3>2 DEF DestroyList
    <2> QED BY <1>13, <2>1, <2>2
  <1>14. CASE DestroyDetach(a) \/ DestroyDetachFails(a)
    BY <1>14 DEF DestroyDetach, DestroyDetachFails, Detached
  <1>15. CASE DestroyDelete(a) \/ \E b \in BOOLEAN : DestroyDeleteFails(a, b)
    BY <1>15 DEF DestroyDelete, DestroyDeleteFails, BoxDeleted
  <1> QED
    BY <1>1, <1>2, <1>3, <1>4, <1>5, <1>6, <1>7, <1>8,
         <1>9, <1>10, <1>11, <1>12, <1>13, <1>14, <1>15
       DEF SpawnStep, SpawnTrouble, DestroyStep

\* No spawn is cleaned up, and none fails, that raised nothing.
LEMMA CauseStep ==
    ASSUME GatewayTypeOK, CauseInv, [GatewayNext]_gatewayVars
    PROVE  CauseInv'
  <1> USE AfterSetupType DEF GatewayTypeOK, CauseInv
  <1> SUFFICES ASSUME NEW a \in Agent, GatewayNext,
                      \/ \E w \in Asked : SpawnCall(a, w)
                      \/ SpawnStep(a) \/ SpawnTrouble(a) \/ DestroyStep(a)
               PROVE  CauseInv'
    BY DEF GatewayNext, Found
  <1>1. CASE \E w \in Asked : SpawnCall(a, w)
    BY <1>1 DEF SpawnCall
  <1>2. CASE ListProfiles(a) \/ ImportProfile(a) \/ ProfileFails(a)
    BY <1>2 DEF ListProfiles, ImportProfile, ProfileFails, ImportAccepted
  <1>3. CASE CreateProvider(a) \/ \E b \in BOOLEAN : CreateProviderFails(a, b)
    BY <1>3 DEF CreateProvider, CreateProviderFails
  <1>4. CASE SetInferenceRoute(a) \/ \E b \in BOOLEAN : RouteFails(a, b)
    BY <1>4 DEF SetInferenceRoute, RouteFails, RouteTo, RouteCleanup
  <1>5. CASE PolicyFails(a) \/ \E b \in BOOLEAN : CancelEarly(a, b)
    BY <1>5 DEF CancelEarly, RouteTo, PolicyFails
  <1>6. CASE CreateSandbox(a) \/ \E b \in BOOLEAN : CreateFails(a, b)
    BY <1>6 DEF CreateSandbox, CreateFails, NewBox
  <1>7. CASE SetupCall(a)
    BY <1>7 DEF SetupCall, GatewayReady, InjectMcpSecrets, MaterializeSkills, ExposeService,
       WaitReady, Proceed
  <1>8. CASE SetupFails(a)
    BY <1>8 DEF SetupFails, InSetup, Setup, FirstCleanup
  <1>9. CASE LateSandbox(a)
    BY <1>9 DEF LateSandbox, NewBox, Decided
  <1>10. CASE CleanupDetach(a) \/ CleanupDelete(a)
    BY <1>10 DEF CleanupDetach, CleanupDelete, Detached, BoxDeleted
  <1>11. CASE \E b, cut \in BOOLEAN : CleanupFails(a, b, cut)
    BY <1>11 DEF CleanupFails, Detached, BoxDeleted
  <1>12. CASE DeleteProvider(a) \/ DeleteProviderFails(a)
    BY <1>12 DEF DeleteProvider, DeleteProviderFails
  <1>13. CASE DestroyCall(a) \/ DestroyList(a) \/ DestroyListFails(a)
    BY <1>13 DEF DestroyCall, DestroyList, DestroyListFails
  <1>14. CASE DestroyDetach(a) \/ DestroyDetachFails(a)
    BY <1>14 DEF DestroyDetach, DestroyDetachFails, Detached
  <1>15. CASE DestroyDelete(a) \/ \E b \in BOOLEAN : DestroyDeleteFails(a, b)
    BY <1>15 DEF DestroyDelete, DestroyDeleteFails, BoxDeleted
  <1> QED
    BY <1>1, <1>2, <1>3, <1>4, <1>5, <1>6, <1>7, <1>8,
         <1>9, <1>10, <1>11, <1>12, <1>13, <1>14, <1>15
       DEF SpawnStep, SpawnTrouble, DestroyStep

\* What exists at each point of a spawn, of its cleanup and of a destroy().
LEMMA LeftoverStep ==
    ASSUME GatewayTypeOK, SpawnInv, CleanupInv, DestroyInv, [GatewayNext]_gatewayVars
    PROVE  SpawnInv' /\ CleanupInv' /\ DestroyInv'
  <1> USE AfterSetupType DEF GatewayTypeOK, SpawnInv, CleanupInv, DestroyInv, Early, Working, Found
  <1> SUFFICES ASSUME NEW a \in Agent, GatewayNext,
                      \/ \E w \in Asked : SpawnCall(a, w)
                      \/ SpawnStep(a) \/ SpawnTrouble(a) \/ DestroyStep(a)
               PROVE  SpawnInv' /\ CleanupInv' /\ DestroyInv'
    BY DEF GatewayNext, Found
  <1>1. CASE \E w \in Asked : SpawnCall(a, w)
    BY <1>1 DEF SpawnCall
  <1>2. CASE ListProfiles(a) \/ ImportProfile(a) \/ ProfileFails(a)
    BY <1>2 DEF ListProfiles, ImportProfile, ProfileFails, ImportAccepted
  <1>3. CASE CreateProvider(a) \/ \E b \in BOOLEAN : CreateProviderFails(a, b)
    BY <1>3 DEF CreateProvider, CreateProviderFails
  <1>4. CASE SetInferenceRoute(a) \/ \E b \in BOOLEAN : RouteFails(a, b)
    BY <1>4 DEF SetInferenceRoute, RouteFails, RouteTo, RouteCleanup
  <1>5. CASE PolicyFails(a) \/ \E b \in BOOLEAN : CancelEarly(a, b)
    BY <1>5 DEF CancelEarly, RouteTo, PolicyFails
  <1>6. CASE CreateSandbox(a) \/ \E b \in BOOLEAN : CreateFails(a, b)
    BY <1>6 DEF CreateSandbox, CreateFails, NewBox
  <1>7. CASE SetupCall(a)
    BY <1>7 DEF SetupCall, GatewayReady, InjectMcpSecrets, MaterializeSkills, ExposeService,
       WaitReady, Proceed
  <1>8. CASE SetupFails(a)
    BY <1>8 DEF SetupFails, InSetup, Setup, FirstCleanup
  <1>9. CASE LateSandbox(a)
    BY <1>9 DEF LateSandbox, NewBox, Decided
  <1>10. CASE CleanupDetach(a) \/ CleanupDelete(a)
    BY <1>10 DEF CleanupDetach, CleanupDelete, Detached, BoxDeleted
  <1>11. CASE \E b, cut \in BOOLEAN : CleanupFails(a, b, cut)
    BY <1>11 DEF CleanupFails, Detached, BoxDeleted
  <1>12. CASE DeleteProvider(a) \/ DeleteProviderFails(a)
    BY <1>12 DEF DeleteProvider, DeleteProviderFails
  <1>13. CASE DestroyCall(a) \/ DestroyList(a) \/ DestroyListFails(a)
    <2>1. CASE DestroyCall(a) \/ DestroyListFails(a)
      BY <2>1 DEF DestroyCall, DestroyListFails
    <2>2. CASE DestroyList(a)
      <3>1. listed'[a] <=> a \in boxes
        BY <2>2 DEF DestroyList
      <3>2. \A b \in Agent \ {a} : listed'[b] = listed[b] /\ gpc'[b] = gpc[b]
        BY <2>2 DEF DestroyList
      <3>3. gpc'[a] = "ddetach"
        BY <2>2 DEF DestroyList
      <3> QED BY <2>2, <3>1, <3>2, <3>3 DEF DestroyList
    <2> QED BY <1>13, <2>1, <2>2
  <1>14. CASE DestroyDetach(a) \/ DestroyDetachFails(a)
    BY <1>14 DEF DestroyDetach, DestroyDetachFails, Detached
  <1>15. CASE DestroyDelete(a) \/ \E b \in BOOLEAN : DestroyDeleteFails(a, b)
    BY <1>15 DEF DestroyDelete, DestroyDeleteFails, BoxDeleted
  <1> QED
    BY <1>1, <1>2, <1>3, <1>4, <1>5, <1>6, <1>7, <1>8,
         <1>9, <1>10, <1>11, <1>12, <1>13, <1>14, <1>15
       DEF SpawnStep, SpawnTrouble, DestroyStep

\* GatewayInv is an invariant.
THEOREM GatewayInvariance == GatewaySpec => []GatewayInv
  <1>1. GatewayInit => GatewayInv
    <2> SUFFICES ASSUME GatewayInit PROVE GatewayInv
      OBVIOUS
    <2>1. profiles \in BOOLEAN /\ listed \in [Agent -> BOOLEAN]
      BY Zenon DEF GatewayInit
    <2>2. GatewayTypeOK
      BY <2>1, GatewayAssumption DEF GatewayInit, GatewayTypeOK
    <2>3. CauseInv /\ SpawnInv /\ CleanupInv /\ DestroyInv
      BY DEF GatewayInit, CauseInv, SpawnInv, CleanupInv, DestroyInv, Early, Working
    <2> QED BY <2>2, <2>3 DEF GatewayInv
  <1>2. GatewayInv /\ [GatewayNext]_gatewayVars => GatewayInv'
    BY GatewayTypes, CauseStep, LeftoverStep DEF GatewayInv
  <1> QED BY <1>1, <1>2, PTL DEF GatewaySpec

\* A spawn fails only if something was raised in it: spawns that race to import
\* the provider profile do not fail each other.
THEOREM NoSpuriousFailure == GatewaySpec => []FailureHasCause
  <1>1. GatewayInv => FailureHasCause
    BY DEF GatewayInv, CauseInv, FailureHasCause
  <1> QED BY <1>1, GatewayInvariance, PTL

\* A failed spawn leaves no sandbox, and a provider only if its policies could
\* not be built, and a destroy() leaves no sandbox, unless a call for these very
\* objects was lost.
THEOREM NothingIsLeft == GatewaySpec => []NothingLeft
  <1>1. GatewayInv => NothingLeft
    BY DEF GatewayInv, CleanupInv, DestroyInv, NothingLeft
  <1> QED BY <1>1, GatewayInvariance, PTL
=============================================================================
