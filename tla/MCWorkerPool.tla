---------------------------- MODULE MCWorkerPool ----------------------------
(* WorkerPool for TLC.  Each configuration picks one set of requests.      *)
EXTENDS PoolProperties, PoolLock, TLC

CONSTANTS t1, t2, k1, k2

Req(t, k, ttl, attempts, mode) ==
    [type |-> t, key |-> k, ttl |-> ttl, maxAttempts |-> attempts,
     delay |-> 0, mode |-> mode]

(* Plain jobs: two attempts, and a type that nobody handles. *)
PlainRequests == {Req(t1, NoKey, 0, 2, "ignore"), Req(t2, NoKey, 0, 2, "ignore")}

(* k1 is used in Ignore mode with a TTL of a second, k2 in both modes. *)
KeyedRequests ==
    {Req(t1, k1, 1, 1, "ignore"), Req(t1, k2, 1, 2, "replace"),
     Req(t1, k2, 0, 1, "ignore")}

(* One job with two attempts; one that a Replace request may find running. *)
OneRequest == {Req(t1, NoKey, 0, 2, "ignore")}
ReplaceRequest == {Req(t1, k1, 0, 1, "replace")}

MCPolicy == [base |-> 1, cap |-> 1]
MCDefPolicy == [t \in JobType |-> [base |-> 0, cap |-> 0]]

MCSymmetry == Permutations(JobId) \cup Permutations(Worker)

=============================================================================
