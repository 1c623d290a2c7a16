---------------------------- MODULE RateLimiter -----------------------------
(***************************************************************************)
(* TokenBucket and RateLimitMiddleware (runtime/rate_limiter.py): lazily   *)
(* refilled buckets, pruned on every Nth call, the Retry-After of a 429    *)
(* and the throttled audit event.                                          *)
(*                                                                         *)
(* Tokens are counted in parts of 1 / Unit, so that the rate is the whole  *)
(* number Rate of parts per second; ages are in seconds, cut where no      *)
(* comparison tells them apart.  The rate is not 0 (no limit).             *)
(***************************************************************************)
EXTENDS Integers

CONSTANTS
    Key,        \* hashed tokens or client addresses
    Unit,       \* parts in a token
    Rate,       \* parts added per second
    Burst,      \* tokens a bucket holds
    Interval,   \* _cleanup_interval
    Throttle    \* _AUDIT_THROTTLE_SECONDS

ASSUME RateAssumption == {Unit, Rate, Burst, Interval, Throttle} \subseteq Nat \ {0}

VARIABLES
    bucket,     \* _buckets: known, tokens at the last refill, its age
    calls,      \* _call_count
    audit,      \* _audit_last_emitted, as ages; Never for no entry
    sinceAudit, \* history: age of the last audit event, kept whatever is pruned
    gaps,       \* history: times between audit events of a key that are under Throttle
    waited      \* history: seconds since a request was refused, 0 if none was

rateVars == <<bucket, calls, audit, sinceAudit, gaps, waited>>

Full == Burst * Unit
MaxAge == (2 * Full) \div Rate      \* compared with >, so the fraction is immaterial
Never == Throttle + 1

\* max(1, ceil(1 / rate))
Bug_RetryAfter == IF Unit \div Rate > 1 THEN Unit \div Rate ELSE 1
RetryAfter == LET c == (Unit + Rate - 1) \div Rate IN IF c > 1 THEN c ELSE 1

Bucket == [known : BOOLEAN, tokens : 0..Full, age : 0..(MaxAge + 1)]
NewBucket == [known |-> FALSE, tokens |-> Full, age |-> 0]

RateTypeOK ==
    /\ bucket \in [Key -> Bucket]
    /\ calls \in 0..(Interval - 1)
    /\ audit \in [Key -> 0..Never] /\ sinceAudit \in [Key -> 0..Never]
    /\ gaps \subseteq 0..(Throttle - 1)
    /\ waited \in [Key -> 0..(RetryAfter + 1)]

RateInit ==
    /\ bucket = [k \in Key |-> NewBucket]
    /\ calls = 0
    /\ audit = [k \in Key |-> Never] /\ sinceAudit = [k \in Key |-> Never]
    /\ gaps = {} /\ waited = [k \in Key |-> 0]

-----------------------------------------------------------------------------
UpTo(n, bound) == IF n > bound THEN bound ELSE n

\* A second passes.
Second ==
    /\ bucket' = [k \in Key |-> [bucket[k] EXCEPT !.age =
                     IF bucket[k].known THEN UpTo(@ + 1, MaxAge + 1) ELSE @]]
    /\ audit' = [k \in Key |-> IF audit[k] < Throttle THEN audit[k] + 1 ELSE audit[k]]
    /\ sinceAudit' = [k \in Key |-> UpTo(sinceAudit[k] + 1, Never)]
    /\ waited' = [k \in Key |-> IF waited[k] = 0 THEN 0 ELSE UpTo(waited[k] + 1, RetryAfter + 1)]
    /\ UNCHANGED <<calls, gaps>>

\* The tokens of key k once refilled for the time that has passed.
Bug_Refilled(k) == bucket[k].tokens + bucket[k].age * Rate
Refilled(k) == UpTo(bucket[k].tokens + bucket[k].age * Rate, Full)

\* _cleanup_stale
Bug_CleanupStale(b) == [k \in Key |-> IF 4 * b[k].age > MaxAge THEN NewBucket ELSE b[k]]
CleanupStale(b) == [k \in Key |-> IF b[k].age > MaxAge THEN NewBucket ELSE b[k]]

\* _prune_stale_audit: entries go with their buckets.
Bug_PruneStaleAudit(b) == [k \in Key |-> Never]
PruneStaleAudit(b) == [k \in Key |-> IF b[k].known THEN audit[k] ELSE Never]

\* A request to a path that is not exempt: allow(), the clean-ups on every
\* Interval-th call, and for a refused request the throttled audit event.
Request(k) ==
    LET ok == Refilled(k) >= Unit
        taken == [bucket EXCEPT ![k] =
                    [known |-> TRUE, tokens |-> Refilled(k) - (IF ok THEN Unit ELSE 0), age |-> 0]]
        clean == calls + 1 >= Interval
        pruned == IF clean THEN CleanupStale(taken) ELSE taken
        kept == IF clean THEN PruneStaleAudit(pruned) ELSE audit
        emit == ~ok /\ kept[k] >= Throttle
    IN
    /\ bucket' = pruned
    /\ calls' = IF clean THEN 0 ELSE calls + 1
    /\ audit' = IF emit THEN [kept EXCEPT ![k] = 0] ELSE kept
    /\ sinceAudit' = IF emit THEN [sinceAudit EXCEPT ![k] = 0] ELSE sinceAudit
    /\ gaps' = IF emit /\ sinceAudit[k] < Throttle THEN gaps \cup {sinceAudit[k]} ELSE gaps
    /\ waited' = [waited EXCEPT ![k] = IF ok THEN 0 ELSE 1]

RateNext == Second \/ \E k \in Key : Request(k)

RateSpec == RateInit /\ [][RateNext]_rateVars

-----------------------------------------------------------------------------
(* Properties                                                              *)

\* Refilling lazily and forgetting keys changes no answer: every bucket, the
\* forgotten ones included, holds what one that is refilled all the time and
\* kept for ever would hold.
Ideal == INSTANCE TokenBucketSpec WITH tokens <- [k \in Key |-> Refilled(k)]
BucketRefines == Ideal!BucketSpec

\* A caller that was refused and waits the Retry-After it was told finds a
\* token: waited is one more than the seconds that passed.
RetryHonoured == \A k \in Key : waited[k] > RetryAfter => Refilled(k) >= Unit

\* "at most 1 per key per this many seconds" (_AUDIT_THROTTLE_SECONDS): two
\* audit events of a key are at least Throttle seconds apart.  It does not hold
\* where buckets are forgotten sooner than that.
AuditThrottled == gaps = {}

\* What the code does ensure: events of a key that come sooner than Throttle are
\* further apart than a bucket is kept, because a record of an event is dropped
\* only together with a bucket that has grown old.
AuditSpaced == \A g \in gaps : g > MaxAge
=============================================================================
