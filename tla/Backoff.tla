------------------------------ MODULE Backoff ------------------------------
(***************************************************************************)
(* The retry policy of worker.go: isRetryable and calcBackoff.             *)
(*                                                                         *)
(* calcBackoff multiplies in float64 and converts the product to           *)
(* time.Duration, an int64.  The Go specification leaves the result of     *)
(* converting a float that does not fit to the implementation: amd64       *)
(* yields the smallest int64, arm64 saturates at the largest.  An          *)
(* operator of this module therefore returns a SET of results, which is a  *)
(* singleton as long as the product fits.                                  *)
(***************************************************************************)
EXTENDS Integers

CONSTANT MaxDuration    \* the largest time.Duration, 2^63 - 1 in the code

ASSUME MaxDurationAssumption == MaxDuration \in Nat

MinDuration == -MaxDuration - 1
Duration == MinDuration .. MaxDuration

(* The delays of a JobDef or of the pool: WithBackoff, WithBackoffBase and *)
(* WithBackoffCap, none of which looks at the sign.                        *)
Policy == [base: Duration, cap: Duration]

Durations(x) == IF x \in Duration THEN {x} ELSE {MaxDuration, MinDuration}

(* A positive setting of the JobDef overrides the pool's. *)
Override(def, pool) == IF def > 0 THEN def ELSE pool

(* math.Pow(2, n), as a recursive function: a proof can reason about it.   *)
Power2[n \in Nat] == IF n = 0 THEN 1 ELSE 2 * Power2[n - 1]

(* Seeded faults: no cap; a delay that grows by the base each time. *)
CalcBackoffUncapped(pool, def, attempt) ==
    {Override(def.base, pool.base) * Power2[attempt - 1]}

CalcBackoffLinear(pool, def, attempt) ==
    LET d == Override(def.base, pool.base) * attempt
        maxDelay == Override(def.cap, pool.cap) IN
    {IF d > maxDelay THEN maxDelay ELSE d}

CalcBackoff(pool, def, attempt) ==
    LET base == Override(def.base, pool.base)
        maxDelay == Override(def.cap, pool.cap) IN
    {IF d > maxDelay THEN maxDelay ELSE d :
        d \in Durations(base * Power2[attempt - 1])}

(* Seeded fault: one attempt too many. *)
IsRetryableOnceMore(attempt, maxAttempts) ==
    maxAttempts < 0 \/ attempt <= maxAttempts

(* maxAttempts < 0 means Unlimited. *)
IsRetryable(attempt, maxAttempts) ==
    maxAttempts < 0 \/ attempt < maxAttempts

=============================================================================
