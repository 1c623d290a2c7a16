-------------------------- MODULE TokenBucketSpec ---------------------------
(***************************************************************************)
(* What TokenBucket (runtime/rate_limiter.py) promises its callers: a      *)
(* bucket of its own for every key, refilled all the time, from which a    *)
(* request takes one token or is refused.  No key is ever forgotten and    *)
(* nothing is computed lazily.                                             *)
(***************************************************************************)
EXTENDS Naturals

CONSTANTS Key, Unit, Rate, Full

VARIABLE tokens

BucketInit == tokens = [k \in Key |-> Full]

Refill ==
    tokens' = [k \in Key |-> IF tokens[k] + Rate > Full THEN Full ELSE tokens[k] + Rate]

\* A request that finds less than a token changes nothing.
Take(k) == tokens[k] >= Unit /\ tokens' = [tokens EXCEPT ![k] = @ - Unit]

BucketSpec == BucketInit /\ [][Refill \/ \E k \in Key : Take(k)]_tokens
=============================================================================
