------------------------------ MODULE PoolLock ------------------------------
(***************************************************************************)
(* The refinement mapping under which the worker pool on SqliteStore       *)
(* implements DedupLock: the holder of a key is the job whose row is in    *)
(* the table with that key, and the phase is read off the row's status     *)
(* and the clock.                                                          *)
(***************************************************************************)
EXTENDS WorkerPool

CONSTANT NoHolder
ASSUME NoHolderAssumption == NoHolder \notin JobId

KeyReplaceable(k) == \E r \in Request : r.key = k /\ r.mode = "replace"

HolderOf(k) ==
    IF Holders(jobs, k) = {} THEN NoHolder
    ELSE CHOOSE id \in Holders(jobs, k) : TRUE

PhaseOf(k) ==
    IF Holders(jobs, k) = {} THEN "free"
    ELSE LET row == jobs[HolderOf(k)] IN
         CASE row.status = "pending" -> "waiting"
           [] row.status = "running" -> "executing"
           [] row.status \in Completed /\ now < row.expiresAt -> "cooling"
           [] OTHER -> "lapsed"

Lock == INSTANCE DedupLock WITH
            Replaceable <- KeyReplaceable,
            holder <- [k \in Key |-> HolderOf(k)],
            phase <- [k \in Key |-> PhaseOf(k)]

(* Every behaviour of the queue is a behaviour of the lock: no key is ever *)
(* held by two jobs, passed on while its job executes, or given away       *)
(* before its TTL window has lapsed unless it is used in Replace mode.     *)
ImplementsLock == Lock!LockSpec

=============================================================================
