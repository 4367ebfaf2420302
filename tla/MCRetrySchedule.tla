-------------------------- MODULE MCRetrySchedule --------------------------
(* RetrySchedule for TLC with a Duration of 7 value bits.                  *)
EXTENDS RetrySchedule

Policy2(b, c) == <<WithBackoffBase(b), WithBackoffCap(c)>>

(* Defaults, a base of zero, a cap below the base, a cap close to the      *)
(* largest Duration, delays below zero.                                    *)
MCQueues ==
    {<<>>, Policy2(0, 5), Policy2(4, 2), Policy2(1, 120), Policy2(-3, 50),
     Policy2(2, -4)}

(* No WithBackoff, only a base, only a cap, both; with and without attempts. *)
MCChains ==
    {backoff \o tries :
        backoff \in {<<>>, WithBackoff(2, 0), WithBackoff(0, 9), WithBackoff(5, 100),
                    WithBackoff(-1, -1)},
        tries \in {<<>>, WithAttempts(0), WithAttempts(2) \o WithAttempts(-1)}}

MCPushes ==
    {<<>>, <<Attempts(1)>>, <<Attempts(-1), After(1, 0), Attempts(4)>>,
     <<DedupKey("k"), Attempts(-1), DedupTTL(1)>>, <<Attempts(0), DedupReplace>>}

=============================================================================
