------------------------------ MODULE JobTable ------------------------------
(***************************************************************************)
(* The rows of the `jobs' table and the pure functions that gjobs applies  *)
(* to them.  The module has no state: SqliteStore.tla turns the functions  *)
(* into the operations of SQLiteStorage (sqlite.go).                       *)
(*                                                                         *)
(* A table is a total function from job ids to rows.  An id that no        *)
(* Enqueue has used yet maps to an "absent" row and one whose row was      *)
(* deleted to a "deleted" row, because uuid.New never hands out an id      *)
(* twice.  Payloads, error texts and created_at are left out: no decision  *)
(* of the code reads them; so is updated_at, which orders the dashboard's  *)
(* list and nothing else.                                                  *)
(***************************************************************************)
EXTENDS Integers, FiniteSets

CONSTANTS
    JobId,      \* the uuids that enqueueRaw may generate
    JobType,    \* the names of the JobDefs
    NoType,     \* the type of a row that is not in the table
    Key,        \* the non-empty deduplication keys
    NoKey,      \* the empty DedupKey (NULL in the column)
    Second,     \* clock units per second, the granularity of a stored TTL
    Request     \* the Enqueue calls the program makes

(***************************************************************************)
(* An Enqueue call after its options were applied.  maxAttempts is -1 for  *)
(* Unlimited; delay is what After or At add to the current time.           *)
(***************************************************************************)
RequestType ==
    [type: JobType, key: Key \cup {NoKey}, ttl: Nat,
     maxAttempts: Nat \cup {-1}, delay: Nat, mode: {"ignore", "replace"}]

ASSUME RequestAssumption == Request \subseteq RequestType
ASSUME KeyAssumption == NoKey \notin Key
ASSUME SecondAssumption == Second \in Nat \ {0}
ASSUME JobIdAssumption == IsFiniteSet(JobId)

Active == {"pending", "running"}
Completed == {"done", "failed"}
Stored == Active \cup Completed
Status == Stored \cup {"absent", "deleted"}

Row == [type: JobType \cup {NoType}, key: Key \cup {NoKey}, ttl: Nat,
        maxAttempts: Nat \cup {-1}, status: Status, attempts: Nat,
        runAt: Int, expiresAt: Nat]

(* A DedupKeyExpiresAt that is nil.  The clock starts after 0. *)
Never == 0

Blank(s) ==
    [type |-> NoType, key |-> NoKey, ttl |-> 0, maxAttempts |-> 0,
     status |-> s, attempts |-> 0, runAt |-> 0, expiresAt |-> Never]

(* A TTL is stored in whole seconds, rounded up. *)
WholeSeconds(ttl) == Second * ((ttl + Second - 1) \div Second)

NewRow(r, t) ==
    [type |-> r.type, key |-> r.key, ttl |-> WholeSeconds(r.ttl),
     maxAttempts |-> r.maxAttempts, status |-> "pending", attempts |-> 0,
     runAt |-> t + r.delay, expiresAt |-> Never]

Rescheduled(row, attempts, runAt) ==
    [row EXCEPT !.status = "pending", !.attempts = attempts, !.runAt = runAt]

Finished(row, status, attempts, expiresAt) ==
    [row EXCEPT !.status = status, !.attempts = attempts,
                !.expiresAt = expiresAt]

Ids(tbl, statuses) == {id \in JobId : tbl[id].status \in statuses}

Holders(tbl, k) == {id \in Ids(tbl, Stored) : tbl[id].key = k}

(* Seeded fault: the purge forgets the TTL window. *)
LapsedWithoutTTL(tbl, k, t) ==
    {id \in Holders(tbl, k) : tbl[id].status \in Completed}

(***************************************************************************)
(* EnqueueDedup, step 1: completed rows whose TTL is over, or that never   *)
(* had one, no longer hold the key and are deleted.                        *)
(***************************************************************************)
Lapsed(tbl, k, t) ==
    {id \in Holders(tbl, k) : /\ tbl[id].status \in Completed
                              /\ tbl[id].expiresAt <= t}

Purge(tbl, k, t) ==
    [id \in JobId |->
        IF id \in Lapsed(tbl, k, t) THEN Blank("deleted") ELSE tbl[id]]

(***************************************************************************)
(* EnqueueDedup, step 2: ORDER BY the status, LIMIT 1.  Rows of the same   *)
(* rank come in any order.                                                 *)
(***************************************************************************)
Rank(s) == CASE s = "running" -> 0
             [] s = "pending" -> 1
             [] OTHER -> 2

Blocking(tbl, k) ==
    {id \in Holders(tbl, k) :
        \A other \in Holders(tbl, k) :
            Rank(tbl[id].status) <= Rank(tbl[other].status)}

(***************************************************************************)
(* The row sets that Claim(limit) may pick: the due pending rows in run_at *)
(* order, at most limit of them, rows with equal run_at in any order.      *)
(***************************************************************************)
Due(tbl, t) == {id \in Ids(tbl, {"pending"}) : tbl[id].runAt <= t}

ClaimSets(tbl, t, limit) ==
    LET due == Due(tbl, t) IN
    {S \in SUBSET due :
        /\ Cardinality(S) <= limit
        /\ S = due \/ Cardinality(S) = limit
        /\ \A id \in S, other \in due \ S : tbl[id].runAt <= tbl[other].runAt}

(***************************************************************************)
(* idx_jobs_dedup_active: at most one pending or running row for each key. *)
(* SQLite refuses a statement that would break it.                         *)
(***************************************************************************)
ActiveKeysUnique(tbl) ==
    \A i, j \in Ids(tbl, Active) :
        tbl[i].key # NoKey /\ tbl[i].key = tbl[j].key => i = j

(* No two rows in the table, whatever their status, have the same key. *)
OneHolder(tbl) ==
    \A i, j \in Ids(tbl, Stored) :
        tbl[i].key # NoKey /\ tbl[i].key = tbl[j].key => i = j

=============================================================================
