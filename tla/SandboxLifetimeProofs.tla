----------------------- MODULE SandboxLifetimeProofs -----------------------
(***************************************************************************)
(* For every choice of the deadlines, of the clocks' errors within the     *)
(* skew margin and of the work between the waits within the destroy grace, *)
(* a startup reconcile never destroys a sandbox that is in use.            *)
(***************************************************************************)
EXTENDS SandboxLifetime, TLAPS

\* The latest end of each phase, counted from the stamp, lag not included.
Latest(p) ==
    CASE p \in {"spawn", "spawned"} -> SpawnDeadline + CancelGrace
      [] p = "run"                  -> SpawnDeadline + RunTimeout + 2 * CancelGrace
      [] p \in {"progress", "ran"}  -> SpawnDeadline + RunTimeout + 3 * CancelGrace
      [] p \in {"fetch", "fetched"} -> SpawnDeadline + RunTimeout + FetchTimeout
                                         + 4 * CancelGrace
      [] p = "save"                 -> SpawnDeadline + RunTimeout + FetchTimeout
                                         + SaveTimeout + 5 * CancelGrace

\* Before the stamp nothing is labelled or created.
IdleInv == phase = "idle" => sandbox = "none" /\ lag = 0

\* Each phase of a labelled attempt keeps to its share of the lifetime.
PhaseInv ==
    phase \in Using /\ expires # NoExpiry =>
        /\ lag <= MaxLag
        /\ now <= stamped + Latest(phase) + lag
        /\ phase \in Wait => now <= due /\ due <= stamped + Latest(phase) + lag

\* The label leaves room for all of them on every clock.
LabelInv ==
    phase \in Using /\ expires # NoExpiry =>
        \A r \in Offset : stamped + Latest("save") + MaxLag + r <= expires

IInv == LifetimeTypeOK /\ IdleInv /\ PhaseInv /\ LabelInv /\ NotReapedInUse

USE DEF Wait, Work, Using, NoExpiry

\* math.ceil never rounds down.
LEMMA CeilBound ==
    ASSUME NEW x \in Nat
    PROVE  Ceil(x) \in Nat /\ x <= Ceil(x)
<1>1. x % PerSecond \in 0..(PerSecond - 1)
  BY DeadlineAssumption
<1>2. QED
  BY <1>1, DeadlineAssumption DEF Ceil

\* What _do_spawn stamps covers the whole attempt on every replica's clock.
LEMMA StampCovers ==
    ASSUME LifetimeTypeOK, NEW o \in Offset, now + o >= 0
    PROVE  /\ ExpiresAt(o) \in Nat
           /\ \A r \in Offset : now + Latest("save") + MaxLag + r <= ExpiresAt(o)
<1> USE DeadlineAssumption, MarginAssumption
<1>1. now + o \in Nat
  BY DEF LifetimeTypeOK
<1>2. Ceil(now + o) \in Nat /\ now + o <= Ceil(now + o)
  BY <1>1, CeilBound
<1>3. Ceil(RunTimeout) \in Nat /\ RunTimeout <= Ceil(RunTimeout)
  BY CeilBound
<1>4. Lifetime \in Nat /\ Latest("save") + MaxLag <= Lifetime
  BY <1>3 DEF Lifetime, Latest
<1>5. ExpiresAt(o) \in Nat /\ ExpiresAt(o) >= now + o + Lifetime + ExpirySkew
  BY <1>2, <1>4 DEF ExpiresAt, Max2, LifetimeTypeOK
<1>6. Latest("save") \in Nat
  BY DEF Latest
<1> QED
  BY <1>4, <1>5, <1>6 DEF LifetimeTypeOK

LEMMA LatestMonotone ==
    ASSUME NEW p \in Using
    PROVE  Latest(p) \in Nat /\ Latest(p) <= Latest("save")
BY DeadlineAssumption DEF Latest

LEMMA IInvStep ==
    ASSUME IInv, [LifetimeNext]_lifetimeVars
    PROVE  IInv'
<1> USE DeadlineAssumption, MarginAssumption
<1>1. CASE TimePasses
  BY <1>1, LatestMonotone DEF IInv, LifetimeTypeOK, IdleInv, PhaseInv, LabelInv,
     NotReapedInUse, TimePasses
<1>2. ASSUME NEW o \in Offset, NEW labelled \in BOOLEAN, Stamp(o, labelled)
      PROVE  IInv'
  <2>1. ExpiresAt(o) \in Nat
    BY <1>2, StampCovers DEF IInv, Stamp
  <2>2. LabelInv'
    BY <1>2, StampCovers DEF IInv, LabelInv, Stamp
  <2> QED
    BY <1>2, <2>1, <2>2 DEF IInv, LifetimeTypeOK, IdleInv, PhaseInv, NotReapedInUse,
       Stamp, Await, Latest
<1>3. CASE Create
  BY <1>3 DEF IInv, LifetimeTypeOK, IdleInv, PhaseInv, LabelInv, NotReapedInUse, Create
<1>4. CASE SpawnReturn
  BY <1>4 DEF IInv, LifetimeTypeOK, IdleInv, PhaseInv, LabelInv, NotReapedInUse,
     SpawnReturn, Latest
<1>5. CASE RunCall
  BY <1>5 DEF IInv, LifetimeTypeOK, IdleInv, PhaseInv, LabelInv, NotReapedInUse,
     RunCall, Await, Latest
<1>6. CASE RunReturn
  BY <1>6 DEF IInv, LifetimeTypeOK, IdleInv, PhaseInv, LabelInv, NotReapedInUse,
     RunReturn, Await, Latest
<1>7. CASE ProgressEnd
  BY <1>7 DEF IInv, LifetimeTypeOK, IdleInv, PhaseInv, LabelInv, NotReapedInUse,
     ProgressEnd, Latest
<1>8. CASE FetchCall
  BY <1>8 DEF IInv, LifetimeTypeOK, IdleInv, PhaseInv, LabelInv, NotReapedInUse,
     FetchCall, Await, Latest
<1>9. CASE FetchReturn
  BY <1>9 DEF IInv, LifetimeTypeOK, IdleInv, PhaseInv, LabelInv, NotReapedInUse,
     FetchReturn, Latest
<1>10. CASE SaveCall
  BY <1>10 DEF IInv, LifetimeTypeOK, IdleInv, PhaseInv, LabelInv, NotReapedInUse,
     SaveCall, Await, Latest
<1>11. CASE Leave
  BY <1>11 DEF IInv, LifetimeTypeOK, IdleInv, PhaseInv, LabelInv, NotReapedInUse, Leave
<1>12. CASE Crash
  BY <1>12 DEF IInv, LifetimeTypeOK, IdleInv, PhaseInv, LabelInv, NotReapedInUse, Crash
<1>13. ASSUME NEW deleted \in BOOLEAN, Destroy(deleted)
       PROVE  IInv'
  BY <1>13 DEF IInv, LifetimeTypeOK, IdleInv, PhaseInv, LabelInv, NotReapedInUse, Destroy
<1>14. ASSUME NEW r \in Offset, Reconcile(r)
       PROVE  IInv'
  \* A sandbox that is in use is not expired on the reconciler's clock.
  <2>1. phase \notin Using
    <3> SUFFICES ASSUME phase \in Using PROVE FALSE
      OBVIOUS
    <3>1. expires # NoExpiry /\ expires < now + r
      BY <1>14 DEF Reconcile, Expired
    <3>2. now <= stamped + Latest(phase) + lag /\ lag <= MaxLag
      BY <3>1 DEF IInv, PhaseInv
    <3>3. stamped + Latest("save") + MaxLag + r <= expires
      BY <3>1 DEF IInv, LabelInv
    <3>4. Latest(phase) \in Nat /\ Latest(phase) <= Latest("save") /\ Latest("save") \in Nat
      BY LatestMonotone
    <3> QED
      BY <3>1, <3>2, <3>3, <3>4 DEF IInv, LifetimeTypeOK
  <2> QED
    BY <1>14, <2>1 DEF IInv, LifetimeTypeOK, IdleInv, PhaseInv, LabelInv,
       NotReapedInUse, Reconcile
<1>15. CASE UNCHANGED lifetimeVars
  BY <1>15 DEF IInv, LifetimeTypeOK, IdleInv, PhaseInv, LabelInv, NotReapedInUse, lifetimeVars
<1> QED
  BY <1>1, <1>2, <1>3, <1>4, <1>5, <1>6, <1>7, <1>8, <1>9, <1>10, <1>11, <1>12,
     <1>13, <1>14, <1>15 DEF LifetimeNext

LEMMA IInvariance == LifetimeSpec => []IInv
<1>1. LifetimeInit => IInv
  BY DEF LifetimeInit, IInv, LifetimeTypeOK, IdleInv, PhaseInv, LabelInv, NotReapedInUse
<1>2. IInv /\ [LifetimeNext]_lifetimeVars => IInv'
  BY IInvStep
<1>3. QED
  BY <1>1, <1>2, PTL DEF LifetimeSpec

\* The expires-at label is never earlier than the latest legitimate use, for
\* every choice of deadlines, margins and clock errors within the margins.
THEOREM LabelCovers == LifetimeSpec => []LabelCoversUse
<1>1. IInv => LabelCoversUse
  <2> SUFFICES ASSUME IInv, phase \in Using, expires # NoExpiry, NEW r \in Offset
               PROVE  now + r <= expires
    BY DEF LabelCoversUse
  <2>1. now <= stamped + Latest(phase) + lag /\ lag <= MaxLag
    BY DEF IInv, PhaseInv
  <2>2. stamped + Latest("save") + MaxLag + r <= expires
    BY DEF IInv, LabelInv
  <2>3. Latest(phase) \in Nat /\ Latest(phase) <= Latest("save") /\ Latest("save") \in Nat
    BY LatestMonotone
  <2> QED
    BY <2>1, <2>2, <2>3, DeadlineAssumption, MarginAssumption DEF IInv, LifetimeTypeOK
<1>2. QED
  BY <1>1, IInvariance, PTL

\* No startup reconcile destroys a sandbox that a live step or session uses.
THEOREM ReconcileSafe == LifetimeSpec => []NotReapedInUse
<1>1. IInv => NotReapedInUse
  BY DEF IInv
<1>2. QED
  BY <1>1, IInvariance, PTL
=============================================================================
