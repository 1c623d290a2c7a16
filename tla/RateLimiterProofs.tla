------------------------- MODULE RateLimiterProofs --------------------------
(***************************************************************************)
(* Theorems about RateLimiter, for every set of keys, rate, burst size,    *)
(* clean-up interval and audit throttle: what a refused caller is told is  *)
(* true, audit events that come sooner than the throttle are further apart *)
(* than a bucket is kept, and the lazily refilled, forgetful buckets       *)
(* implement TokenBucketSpec.                                              *)
(***************************************************************************)
EXTENDS RateLimiter, TLAPS

-----------------------------------------------------------------------------
(* Arithmetic                                                              *)

\* What \div is, in the form the other lemmas use.
LEMMA DivBounds ==
    ASSUME NEW a \in Nat, NEW b \in Nat \ {0}
    PROVE  /\ a \div b \in Nat
           /\ (a \div b) * b <= a
           /\ a < (a \div b) * b + b
  OBVIOUS

\* Multiplication is monotonic.
LEMMA TimesMonotone ==
    ASSUME NEW a \in Nat, NEW b \in Nat, NEW c \in Nat, a <= b
    PROVE  a * c <= b * c
  OBVIOUS

\* The constants are natural numbers, and the burst is at least a token.
LEMMA Constants ==
    /\ Unit \in Nat \ {0} /\ Rate \in Nat \ {0} /\ Burst \in Nat \ {0}
    /\ Interval \in Nat \ {0} /\ Throttle \in Nat \ {0}
    /\ Full \in Nat /\ Full >= Unit
    /\ MaxAge \in Nat /\ Never \in Nat
    /\ RetryAfter \in Nat \ {0}
  <1>1. /\ Unit \in Nat \ {0} /\ Rate \in Nat \ {0} /\ Burst \in Nat \ {0}
        /\ Interval \in Nat \ {0} /\ Throttle \in Nat \ {0}
    BY RateAssumption
  <1>2. Full \in Nat /\ Full >= Unit
    BY <1>1, TimesMonotone DEF Full
  <1>3. MaxAge \in Nat /\ Never \in Nat
    BY <1>1, <1>2, DivBounds DEF MaxAge, Never
  <1>4. RetryAfter \in Nat \ {0}
    BY <1>1, DivBounds DEF RetryAfter
  <1> QED BY <1>1, <1>2, <1>3, <1>4

\* A bucket older than MaxAge is full again: forgetting it loses nothing.
LEMMA OldIsFull ==
    ASSUME NEW age \in Nat, age > MaxAge
    PROVE  age * Rate >= Full
  <1> USE Constants
  <1>1. age >= MaxAge + 1
    OBVIOUS
  <1>2. age * Rate >= (MaxAge + 1) * Rate
    BY <1>1, TimesMonotone
  <1>3. (MaxAge + 1) * Rate = MaxAge * Rate + Rate
    OBVIOUS
  <1>4. 2 * Full < MaxAge * Rate + Rate
    BY DivBounds DEF MaxAge
  <1> QED BY <1>2, <1>3, <1>4

\* The Retry-After that a refused caller is told is long enough for a token.
LEMMA RetryIsEnough == RetryAfter * Rate >= Unit
  <1> USE Constants
  <1> DEFINE c == (Unit + Rate - 1) \div Rate
  <1>1. c \in Nat /\ Unit + Rate - 1 < c * Rate + Rate
    BY DivBounds
  <1>2. c * Rate >= Unit
    BY <1>1
  <1>3. RetryAfter \in Nat /\ RetryAfter >= c
    BY <1>1 DEF RetryAfter
  <1>4. RetryAfter * Rate >= c * Rate
    BY <1>1, <1>3, TimesMonotone
  <1> QED BY <1>1, <1>2, <1>3, <1>4

-----------------------------------------------------------------------------
(* The inductive invariant                                                 *)

\* A key without a bucket is treated as one whose bucket is full.
FreshInv == \A k \in Key : ~bucket[k].known => bucket[k] = NewBucket

\* Since a request of k was refused its bucket has aged with the caller's wait,
\* unless it is full anyway (it may have been forgotten meanwhile).
WaitInv ==
    \A k \in Key : waited[k] > 0 =>
        Refilled(k) = Full \/ bucket[k].age + 1 >= waited[k]

\* The audit record of k is no older than its last audit event; the event is no
\* younger than the bucket, and where the record or the bucket is gone it is as
\* old as buckets get.
AuditInv ==
    \A k \in Key :
        /\ audit[k] # Never => audit[k] <= sinceAudit[k]
        /\ audit[k] = Never \/ ~bucket[k].known =>
              sinceAudit[k] >= UpTo(MaxAge + 1, Throttle)
        /\ bucket[k].known => sinceAudit[k] >= UpTo(bucket[k].age, Never)

RateInv ==
    RateTypeOK /\ FreshInv /\ WaitInv /\ AuditInv /\ AuditSpaced

\* What a bucket holds once refilled: at most Full, and all of it when the key
\* is unknown or the bucket is old enough to be forgotten.
LEMMA RefilledFacts ==
    ASSUME RateTypeOK, FreshInv, NEW k \in Key
    PROVE  /\ Refilled(k) \in 0..Full
           /\ ~bucket[k].known \/ bucket[k].age > MaxAge => Refilled(k) = Full
  <1> USE Constants
  <1> DEFINE t == bucket[k].tokens
             g == bucket[k].age
  <1>1. t \in 0..Full /\ g \in Nat
    BY DEF RateTypeOK, Bucket
  <1>2. g * Rate \in Nat
    BY <1>1
  <1>3. Refilled(k) = IF t + g * Rate > Full THEN Full ELSE t + g * Rate
    BY DEF Refilled, UpTo
  <1>4. Refilled(k) \in 0..Full
    BY <1>1, <1>2, <1>3
  <1>5. CASE ~bucket[k].known
    <2>1. t = Full
      BY <1>5 DEF FreshInv, NewBucket
    <2> QED BY <1>1, <1>2, <1>3, <1>4, <1>5, <2>1, OldIsFull
  <1>6. CASE bucket[k].age > MaxAge
    <2>1. g * Rate >= Full
      BY <1>1, <1>6, OldIsFull
    <2> QED BY <1>1, <1>2, <1>3, <1>4, <2>1
  <1> QED BY <1>4, <1>5, <1>6

\* A second adds Rate to what every bucket holds, up to Full: the lazy refill
\* is the continuous one.
LEMMA SecondRefills ==
    ASSUME RateTypeOK, FreshInv, Second, NEW k \in Key
    PROVE  Refilled(k)' = UpTo(Refilled(k) + Rate, Full)
  <1> USE Constants
  <1> DEFINE t == bucket[k].tokens
             g == bucket[k].age
  <1>1. t \in 0..Full /\ g \in 0..(MaxAge + 1) /\ bucket[k].known \in BOOLEAN
    BY DEF RateTypeOK, Bucket
  <1>2. /\ bucket[k]'.tokens = t
        /\ bucket[k]'.known = bucket[k].known
        /\ bucket[k]'.age = IF bucket[k].known THEN UpTo(g + 1, MaxAge + 1) ELSE g
    BY DEF Second, RateTypeOK, Bucket
  <1>3. Refilled(k)' = UpTo(t + bucket[k]'.age * Rate, Full)
    BY <1>2 DEF Refilled, UpTo
  <1>4. CASE bucket[k].known /\ g <= MaxAge
    <2>1. bucket[k]'.age = g + 1
      BY <1>1, <1>2, <1>4 DEF UpTo
    <2>2. (g + 1) * Rate = g * Rate + Rate /\ g * Rate \in Nat
      BY <1>1
    <2> QED BY <1>1, <1>3, <2>1, <2>2 DEF Refilled, UpTo
  <1>5. CASE ~bucket[k].known
    <2>1. Refilled(k) = Full
      BY <1>5, RefilledFacts
    <2>2. Refilled(k)' = Refilled(k)
      BY <1>2, <1>3, <1>5 DEF Refilled
    <2> QED BY <2>1, <2>2 DEF UpTo
  <1>6. CASE bucket[k].known /\ g > MaxAge
    <2>1. Refilled(k) = Full
      BY <1>6, RefilledFacts
    <2>2. bucket[k]'.age = g
      BY <1>1, <1>2, <1>6 DEF UpTo
    <2>3. Refilled(k)' = Refilled(k)
      BY <1>2, <1>3, <2>2 DEF Refilled
    <2> QED BY <2>1, <2>3 DEF UpTo
  <1> QED BY <1>1, <1>4, <1>5, <1>6

\* A request sets the bucket of its key anew and never forgets it; another
\* bucket stays as it is, or is forgotten when it is old.
LEMMA RequestBuckets ==
    ASSUME RateTypeOK, NEW k \in Key, Request(k)
    PROVE  /\ bucket' \in [Key -> Bucket]
           /\ bucket'[k] = [known |-> TRUE, age |-> 0, tokens |->
                               Refilled(k) - (IF Refilled(k) >= Unit THEN Unit ELSE 0)]
           /\ \A j \in Key \ {k} :
                 bucket'[j] = bucket[j] \/ (bucket[j].age > MaxAge /\ bucket'[j] = NewBucket)
  <1> USE Constants
  <1> DEFINE ok == Refilled(k) >= Unit
             b == [known |-> TRUE, tokens |-> Refilled(k) - (IF ok THEN Unit ELSE 0), age |-> 0]
             taken == [bucket EXCEPT ![k] = b]
  <1>1. Refilled(k) \in 0..Full
    <2>1. bucket[k].tokens \in 0..Full /\ bucket[k].age \in Nat
      BY DEF RateTypeOK, Bucket
    <2>2. bucket[k].age * Rate \in Nat
      BY <2>1
    <2> QED BY <2>1, <2>2 DEF Refilled, UpTo
  <1>2. b \in Bucket
    BY <1>1 DEF Bucket
  <1>3. taken \in [Key -> Bucket] /\ taken[k] = b /\ \A j \in Key \ {k} : taken[j] = bucket[j]
    BY <1>2 DEF RateTypeOK
  <1>4. bucket' = taken \/ bucket' = CleanupStale(taken)
    BY DEF Request
  <1>5. NewBucket \in Bucket
    BY DEF NewBucket, Bucket
  <1>6. CASE bucket' = taken
    BY <1>3, <1>6
  <1>7. CASE bucket' = CleanupStale(taken)
    <2> HIDE DEF b, taken
    <2>1. bucket' = [j \in Key |-> IF taken[j].age > MaxAge THEN NewBucket ELSE taken[j]]
      BY <1>7 DEF CleanupStale
    <2>2. bucket' \in [Key -> Bucket]
      BY <1>3, <1>5, <2>1
    <2>3. b.age = 0
      BY DEF b
    <2>4. bucket'[k] = b
      BY <1>3, <2>1, <2>3
    <2>5. \A j \in Key \ {k} :
             bucket'[j] = bucket[j] \/ (bucket[j].age > MaxAge /\ bucket'[j] = NewBucket)
      BY <1>3, <2>1
    <2> QED BY <2>2, <2>4, <2>5 DEF b
  <1> QED BY <1>4, <1>6, <1>7

\* A request takes a token from its own key's bucket, if there is one, and none
\* from another's, the forgotten ones included.
LEMMA RequestTakes ==
    ASSUME RateTypeOK, FreshInv, NEW k \in Key, Request(k), NEW j \in Key
    PROVE  Refilled(j)' = IF j = k /\ Refilled(k) >= Unit THEN Refilled(k) - Unit
                          ELSE Refilled(j)
  <1> USE Constants
  <1>0. Refilled(k) \in 0..Full /\ Refilled(j) \in 0..Full
    BY RefilledFacts
  <1>1. CASE j = k
    <2>0. bucket'[k] = [known |-> TRUE, age |-> 0, tokens |->
                          Refilled(k) - (IF Refilled(k) >= Unit THEN Unit ELSE 0)]
      BY RequestBuckets
    <2>1. /\ bucket'[k].age = 0
          /\ bucket'[k].tokens = Refilled(k) - (IF Refilled(k) >= Unit THEN Unit ELSE 0)
      BY <2>0
    <2>2. Refilled(k)' = UpTo(bucket'[k].tokens + bucket'[k].age * Rate, Full)
      BY DEF Refilled, UpTo
    <2>3. bucket'[k].age * Rate = 0
      BY <2>1
    <2> HIDE DEF Refilled
    <2> QED BY <1>0, <1>1, <2>1, <2>2, <2>3 DEF UpTo
  <1>2. CASE j # k /\ bucket'[j] = bucket[j]
    BY <1>2 DEF Refilled
  <1>3. CASE j # k /\ bucket[j].age > MaxAge /\ bucket'[j] = NewBucket
    <2>1. Refilled(j) = Full
      BY <1>3, RefilledFacts
    <2>2. Refilled(j)' = UpTo(Full + 0 * Rate, Full)
      BY <1>3 DEF Refilled, UpTo, NewBucket
    <2> QED BY <1>3, <2>1, <2>2 DEF UpTo
  <1> QED BY <1>1, <1>2, <1>3, RequestBuckets

\* A second keeps the invariant: the bucket, the audit record, the history of
\* the last event and the caller's wait all age together.
LEMMA SecondKeeps ==
    ASSUME RateInv, Second
    PROVE  RateInv'
  <1> USE Constants DEF RateInv
  <1>1. RateTypeOK'
    <2>1. bucket' \in [Key -> Bucket]
      <3>1. ASSUME NEW k \in Key
            PROVE  [bucket[k] EXCEPT !.age =
                       IF bucket[k].known THEN UpTo(@ + 1, MaxAge + 1) ELSE @] \in Bucket
        <4>1. bucket[k] \in Bucket
          BY DEF RateTypeOK
        <4> QED BY <4>1 DEF Bucket, UpTo
      <3> QED BY <3>1 DEF Second
    <2>2. audit' \in [Key -> 0..Never] /\ sinceAudit' \in [Key -> 0..Never]
      BY DEF RateTypeOK, Second, UpTo, Never
    <2>3. waited' \in [Key -> 0..(RetryAfter + 1)]
      BY DEF RateTypeOK, Second, UpTo
    <2> QED BY <2>1, <2>2, <2>3 DEF RateTypeOK, Second
  <1>2. ASSUME NEW k \in Key
        PROVE  /\ bucket'[k].known = bucket[k].known
               /\ bucket'[k].tokens = bucket[k].tokens
               /\ bucket'[k].age = IF bucket[k].known THEN UpTo(bucket[k].age + 1, MaxAge + 1)
                                   ELSE bucket[k].age
               /\ bucket[k].age \in 0..(MaxAge + 1)
               /\ ~bucket[k].known => bucket'[k] = bucket[k]
    <2>1. bucket[k] \in Bucket
      BY DEF RateTypeOK
    <2>2. bucket'[k] = [bucket[k] EXCEPT !.age =
                           IF bucket[k].known THEN UpTo(@ + 1, MaxAge + 1) ELSE @]
      BY DEF Second
    <2> QED BY <2>1, <2>2 DEF Bucket
  <1>3. FreshInv'
    BY <1>2 DEF FreshInv, NewBucket
  <1>4. WaitInv'
    <2>1. SUFFICES ASSUME NEW k \in Key, waited'[k] > 0
                   PROVE  Refilled(k)' = Full \/ bucket'[k].age + 1 >= waited'[k]
      BY DEF WaitInv
    <2>2. /\ waited[k] \in 1..(RetryAfter + 1)
          /\ waited'[k] = UpTo(waited[k] + 1, RetryAfter + 1)
      BY <2>1 DEF Second, RateTypeOK
    <2>3. Refilled(k)' = UpTo(Refilled(k) + Rate, Full) /\ Refilled(k) \in 0..Full
      BY SecondRefills, RefilledFacts
    <2>4. CASE Refilled(k) = Full
      BY <2>3, <2>4 DEF UpTo
    <2>5. CASE Refilled(k) # Full
      <3>1. bucket[k].known /\ bucket[k].age <= MaxAge
        BY <1>2, <2>5, RefilledFacts
      <3>2. bucket'[k].age = bucket[k].age + 1
        BY <1>2, <3>1 DEF UpTo
      <3>3. bucket[k].age + 1 >= waited[k]
        BY <2>2, <2>5 DEF WaitInv
      <3> QED BY <1>2, <2>2, <3>2, <3>3 DEF UpTo
    <2> QED BY <2>4, <2>5
  <1>5. AuditInv' /\ AuditSpaced'
    <2>1. AuditSpaced'
      BY DEF Second, AuditSpaced
    <2>2. ASSUME NEW k \in Key
          PROVE  /\ audit'[k] # Never => audit'[k] <= sinceAudit'[k]
                 /\ audit'[k] = Never \/ ~bucket'[k].known =>
                       sinceAudit'[k] >= UpTo(MaxAge + 1, Throttle)
                 /\ bucket'[k].known => sinceAudit'[k] >= UpTo(bucket'[k].age, Never)
      <3>1. /\ audit[k] \in 0..Never /\ sinceAudit[k] \in 0..Never
            /\ audit'[k] = IF audit[k] < Throttle THEN audit[k] + 1 ELSE audit[k]
            /\ sinceAudit'[k] = UpTo(sinceAudit[k] + 1, Never)
        BY DEF RateTypeOK, Second
      <3>2. /\ audit[k] # Never => audit[k] <= sinceAudit[k]
            /\ audit[k] = Never \/ ~bucket[k].known =>
                  sinceAudit[k] >= UpTo(MaxAge + 1, Throttle)
            /\ bucket[k].known => sinceAudit[k] >= UpTo(bucket[k].age, Never)
        BY DEF AuditInv
      <3> QED BY <1>2, <3>1, <3>2 DEF UpTo, Never
    <2> QED BY <2>1, <2>2 DEF AuditInv, UpTo
  <1> QED BY <1>1, <1>3, <1>4, <1>5

\* A request keeps the invariant.  In particular an audit event is only emitted
\* without its record when the bucket it went with had grown old.
LEMMA RequestKeeps ==
    ASSUME RateInv, NEW k \in Key, Request(k)
    PROVE  RateInv'
  <1> USE Constants DEF RateInv
  <1> DEFINE ok == Refilled(k) >= Unit
             clean == calls + 1 >= Interval
             kept == IF clean THEN PruneStaleAudit(bucket') ELSE audit
             emit == ~ok /\ kept[k] >= Throttle
  <1>0. /\ bucket' \in [Key -> Bucket]
        /\ bucket'[k].known /\ bucket'[k].age = 0
        /\ \A j \in Key \ {k} :
              bucket'[j] = bucket[j] \/ (bucket[j].age > MaxAge /\ bucket'[j] = NewBucket)
    <2>1. bucket'[k] = [known |-> TRUE, age |-> 0, tokens |->
                          Refilled(k) - (IF Refilled(k) >= Unit THEN Unit ELSE 0)]
      BY RequestBuckets
    <2>2. bucket'[k].known /\ bucket'[k].age = 0
      BY <2>1
    <2> QED BY <2>2, RequestBuckets
  <1>1. /\ calls' = IF clean THEN 0 ELSE calls + 1
        /\ audit' = IF emit THEN [kept EXCEPT ![k] = 0] ELSE kept
        /\ sinceAudit' = IF emit THEN [sinceAudit EXCEPT ![k] = 0] ELSE sinceAudit
        /\ gaps' = IF emit /\ sinceAudit[k] < Throttle THEN gaps \cup {sinceAudit[k]}
                   ELSE gaps
        /\ waited' = [waited EXCEPT ![k] = IF ok THEN 0 ELSE 1]
    BY DEF Request
  <1>2. /\ kept \in [Key -> 0..Never]
        /\ \A j \in Key : kept[j] = audit[j] \/ (~bucket'[j].known /\ kept[j] = Never)
    BY DEF PruneStaleAudit, RateTypeOK
  <1> HIDE DEF kept, ok, clean
  <1>3. RateTypeOK'
    <2>1. calls' \in 0..(Interval - 1)
      BY <1>1 DEF RateTypeOK, clean
    <2>2. audit' \in [Key -> 0..Never] /\ sinceAudit' \in [Key -> 0..Never]
      <3> HIDE DEF emit
      <3>1. 0 \in 0..Never /\ sinceAudit \in [Key -> 0..Never]
        BY DEF RateTypeOK
      <3> QED BY <1>1, <1>2, <3>1
    <2>3. waited' \in [Key -> 0..(RetryAfter + 1)]
      BY <1>1 DEF RateTypeOK
    <2>4. gaps' \subseteq 0..(Throttle - 1)
      <3>1. sinceAudit[k] \in 0..Never /\ gaps \subseteq 0..(Throttle - 1)
        BY DEF RateTypeOK
      <3>2. sinceAudit[k] < Throttle => sinceAudit[k] \in 0..(Throttle - 1)
        BY <3>1
      <3> QED BY <1>1, <3>1, <3>2
    <2> QED BY <1>0, <2>1, <2>2, <2>3, <2>4 DEF RateTypeOK
  <1>4. FreshInv'
    BY <1>0 DEF FreshInv, NewBucket
  <1>5. WaitInv'
    <2>1. SUFFICES ASSUME NEW j \in Key, waited'[j] > 0
                   PROVE  Refilled(j)' = Full \/ bucket'[j].age + 1 >= waited'[j]
      BY DEF WaitInv
    <2>2. CASE j = k
      <3>1. waited'[j] = 1
        BY <1>1, <2>1, <2>2 DEF RateTypeOK
      <3> QED BY <1>0, <2>2, <3>1
    <2>3. CASE j # k
      <3>1. waited'[j] = waited[j]
        BY <1>1, <2>3 DEF RateTypeOK
      <3>2. Refilled(j)' = Refilled(j)
        BY <2>3, RequestTakes
      <3>3. Refilled(j) = Full \/ bucket[j].age + 1 >= waited[j]
        BY <2>1, <3>1 DEF WaitInv
      <3>4. bucket'[j] = bucket[j] \/ Refilled(j) = Full
        BY <1>0, <2>3, RefilledFacts
      <3> QED BY <3>1, <3>2, <3>3, <3>4
    <2> QED BY <2>2, <2>3
  \* The event of any key is old enough wherever its record is gone.
  <1>6. ASSUME NEW j \in Key, kept[j] = Never \/ ~bucket'[j].known
        PROVE  sinceAudit[j] >= UpTo(MaxAge + 1, Throttle)
    <2>1. /\ audit[j] = Never \/ ~bucket[j].known =>
                sinceAudit[j] >= UpTo(MaxAge + 1, Throttle)
          /\ bucket[j].known => sinceAudit[j] >= UpTo(bucket[j].age, Never)
          /\ sinceAudit[j] \in 0..Never /\ bucket[j].age \in 0..(MaxAge + 1)
      BY DEF AuditInv, RateTypeOK, Bucket
    <2>2. audit[j] = Never \/ ~bucket[j].known \/ bucket[j].age > MaxAge
      BY <1>0, <1>2, <1>6
    <2> QED BY <2>1, <2>2 DEF UpTo, Never
  <1>7. emit => sinceAudit[k] >= UpTo(MaxAge + 1, Throttle)
    <2>1. /\ audit[k] # Never => audit[k] <= sinceAudit[k]
          /\ sinceAudit[k] \in 0..Never /\ audit[k] \in 0..Never /\ kept[k] \in 0..Never
      BY <1>2 DEF AuditInv, RateTypeOK
    <2>2. kept[k] = audit[k] \/ kept[k] = Never
      BY <1>2
    <2> QED BY <1>6, <2>1, <2>2 DEF UpTo, Never
  <1>8. AuditSpaced'
    <2>1. sinceAudit[k] \in Nat /\ (emit /\ sinceAudit[k] < Throttle => sinceAudit[k] > MaxAge)
      BY <1>7 DEF UpTo, RateTypeOK
    <2> QED BY <1>1, <2>1 DEF AuditSpaced
  <1>9. AuditInv'
    <2>1. SUFFICES ASSUME NEW j \in Key
                   PROVE  /\ audit'[j] # Never => audit'[j] <= sinceAudit'[j]
                          /\ audit'[j] = Never \/ ~bucket'[j].known =>
                                sinceAudit'[j] >= UpTo(MaxAge + 1, Throttle)
                          /\ bucket'[j].known => sinceAudit'[j] >= UpTo(bucket'[j].age, Never)
      BY DEF AuditInv, UpTo
    <2>2. CASE j = k /\ emit
      <3>1. audit'[j] = 0 /\ sinceAudit'[j] = 0
        BY <1>1, <1>2, <2>2 DEF RateTypeOK
      <3> QED BY <1>0, <2>2, <3>1 DEF UpTo, Never
    <2>3. CASE ~(j = k /\ emit)
      <3>1. audit'[j] = kept[j] /\ sinceAudit'[j] = sinceAudit[j]
        BY <1>1, <1>2, <2>3 DEF RateTypeOK
      <3>2. /\ audit[j] # Never => audit[j] <= sinceAudit[j]
            /\ bucket[j].known => sinceAudit[j] >= UpTo(bucket[j].age, Never)
            /\ sinceAudit[j] \in 0..Never
            /\ kept[j] = audit[j] \/ kept[j] = Never
        BY <1>2 DEF AuditInv, RateTypeOK
      <3>3. bucket'[j].known => sinceAudit[j] >= UpTo(bucket'[j].age, Never)
        <4>1. bucket'[j].known => bucket'[j] = bucket[j] \/ bucket'[j].age = 0
          BY <1>0 DEF NewBucket
        <4> QED BY <3>2, <4>1 DEF UpTo, Never
      <3> QED BY <1>6, <3>1, <3>2, <3>3
    <2> QED BY <2>2, <2>3
  <1> QED BY <1>3, <1>4, <1>5, <1>8, <1>9

\* RateInv is an invariant: it contains the types, and AuditSpaced.
THEOREM RateInvariance == RateSpec => []RateInv
  <1> USE Constants
  <1>1. RateInit => RateInv
    <2> SUFFICES ASSUME RateInit PROVE RateInv
      OBVIOUS
    <2>1. RateTypeOK /\ FreshInv /\ AuditSpaced
      BY DEF RateInit, RateTypeOK, FreshInv, AuditSpaced, NewBucket, Bucket
    <2>2. WaitInv
      BY DEF RateInit, WaitInv
    <2>3. AuditInv
      <3>1. \A k \in Key : /\ audit[k] = Never /\ sinceAudit[k] = Never
                            /\ ~bucket[k].known
        BY DEF RateInit, NewBucket
      <3>2. Never >= UpTo(MaxAge + 1, Throttle)
        BY DEF UpTo, Never
      <3> QED BY <3>1, <3>2 DEF AuditInv
    <2> QED BY <2>1, <2>2, <2>3 DEF RateInv
  <1>2. RateInv /\ [RateNext]_rateVars => RateInv'
    <2>1. RateInv /\ UNCHANGED rateVars => RateInv'
      BY DEF RateInv, rateVars, RateTypeOK, FreshInv, WaitInv, AuditInv, AuditSpaced,
         Refilled, UpTo
    <2> QED BY <2>1, SecondKeeps, RequestKeeps DEF RateNext
  <1> QED BY <1>1, <1>2, PTL DEF RateSpec

\* A caller that was refused and comes back after the Retry-After it was told
\* finds a token, whatever was pruned meanwhile.
THEOREM RetryIsHonoured == RateSpec => []RetryHonoured
  <1> USE Constants
  <1>1. RateInv => RetryHonoured
    <2>1. SUFFICES ASSUME RateInv, NEW k \in Key, waited[k] > RetryAfter
                   PROVE  Refilled(k) >= Unit
      BY DEF RetryHonoured
    <2>2. Refilled(k) \in 0..Full
      BY <2>1, RefilledFacts DEF RateInv
    <2>3. CASE Refilled(k) = Full
      BY <2>3
    <2>4. CASE bucket[k].age + 1 >= waited[k]
      <3>1. /\ bucket[k].age \in Nat /\ bucket[k].age >= RetryAfter
            /\ bucket[k].tokens \in Nat
        BY <2>1, <2>4 DEF RateInv, RateTypeOK, Bucket
      <3>2. bucket[k].age * Rate >= RetryAfter * Rate
        BY <3>1, TimesMonotone
      <3>3. bucket[k].age * Rate \in Nat /\ RetryAfter * Rate \in Nat
        BY <3>1
      <3> QED BY <3>1, <3>2, <3>3, RetryIsEnough DEF Refilled, UpTo
    <2>5. waited[k] > 0
      BY <2>1 DEF RateInv, RateTypeOK
    <2> QED BY <2>1, <2>3, <2>4, <2>5 DEF RateInv, WaitInv
  <1> QED BY <1>1, RateInvariance, PTL

\* Audit events of a key that come sooner than _AUDIT_THROTTLE_SECONDS after one
\* another are further apart than a bucket is kept: _prune_stale_audit drops the
\* record of an event only with such a bucket.
THEOREM AuditIsSpaced == RateSpec => []AuditSpaced
  <1>1. RateInv => AuditSpaced
    BY DEF RateInv
  <1> QED BY <1>1, RateInvariance, PTL

\* TokenBucket implements TokenBucketSpec: refilling lazily and forgetting keys
\* on every Interval-th call changes no answer.
THEOREM TokenBucketRefines == RateSpec => BucketRefines
  <1> USE Constants
  <1> DEFINE tokens == [k \in Key |-> Refilled(k)]
  <1>1. RateInit => Ideal!BucketInit
    BY DEF RateInit, Ideal!BucketInit, Refilled, UpTo, NewBucket
  <1>2. RateInv /\ [RateNext]_rateVars
          => [Ideal!Refill \/ \E k \in Key : Ideal!Take(k)]_tokens
    <2> SUFFICES ASSUME RateInv, [RateNext]_rateVars
                 PROVE  [Ideal!Refill \/ \E k \in Key : Ideal!Take(k)]_tokens
      OBVIOUS
    <2> USE DEF RateInv
    <2>1. CASE Second
      <3>1. \A k \in Key : Refilled(k)' = UpTo(Refilled(k) + Rate, Full)
        BY <2>1, SecondRefills
      <3>2. Ideal!Refill
        BY <3>1 DEF Ideal!Refill, UpTo
      <3> QED BY <3>2
    <2>2. ASSUME NEW k \in Key, Request(k)
          PROVE  [Ideal!Refill \/ \E j \in Key : Ideal!Take(j)]_tokens
      <3>1. \A j \in Key : Refilled(j)' =
               IF j = k /\ Refilled(k) >= Unit THEN Refilled(k) - Unit ELSE Refilled(j)
        BY <2>2, RequestTakes
      <3>2. CASE Refilled(k) >= Unit
        <4>1. Ideal!Take(k)
          BY <3>1, <3>2 DEF Ideal!Take
        <4> QED BY <4>1
      <3>3. CASE ~(Refilled(k) >= Unit)
        <4>1. UNCHANGED tokens
          BY <3>1, <3>3
        <4> QED BY <4>1
      <3> QED BY <3>2, <3>3
    <2>3. CASE UNCHANGED rateVars
      BY <2>3 DEF rateVars, Refilled
    <2> QED BY <2>1, <2>2, <2>3 DEF RateNext
  <1> QED BY <1>1, <1>2, RateInvariance, PTL DEF RateSpec, BucketRefines, Ideal!BucketSpec
=============================================================================
