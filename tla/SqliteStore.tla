---------------------------- MODULE SqliteStore ----------------------------
(***************************************************************************)
(* SQLiteStorage (sqlite.go) as a shared object: one action per storage    *)
(* operation.  The pool has one connection (SetMaxOpenConns(1)), so every  *)
(* statement and every transaction is atomic; a method that issues two     *)
(* statements outside a transaction (markCompleted) is two actions.        *)
(*                                                                         *)
(* The module has no next-state relation of its own.  AnyCaller.tla lets   *)
(* callers without discipline invoke the operations in any order;          *)
(* WorkerPool.tla composes them with the worker pool.                      *)
(***************************************************************************)
EXTENDS JobTable

CONSTANTS
    Caller,       \* goroutines that may be inside markCompleted
    MaxTime       \* bound on the clock

ASSUME MaxTimeAssumption == MaxTime \in Nat

VARIABLES
    jobs,      \* the jobs table
    now,       \* time.Now(), in clock units
    refused,   \* whether the unique index ever refused a statement
    reads      \* what each caller inside markCompleted has read so far

storeVars == <<jobs, now, refused, reads>>

NoRead == [status |-> "none"]
Read == [id: JobId, status: Completed, expiresAt: Nat]

StoreTypeOK ==
    /\ jobs \in [JobId -> Row]
    /\ now \in Nat \ {0}
    /\ refused \in BOOLEAN
    /\ reads \in [Caller -> Read \cup {NoRead}]

StoreInit ==
    /\ jobs = [id \in JobId |-> Blank("absent")]
    /\ now = 1
    /\ refused = FALSE
    /\ reads = [c \in Caller |-> NoRead]

-----------------------------------------------------------------------------
(* A statement takes effect unless it would break the unique index. *)
Write(tbl) ==
    /\ jobs' = IF ActiveKeysUnique(tbl) THEN tbl ELSE jobs
    /\ refused' = (refused \/ ~ActiveKeysUnique(tbl))
    /\ UNCHANGED <<now, reads>>

Fresh(id) == jobs[id].status = "absent"

(***************************************************************************)
(* Enqueue, one INSERT.  A key is stored with the row as it is, whoever    *)
(* else holds it; the queue sends jobs with a key to EnqueueDedup.         *)
(***************************************************************************)
Enqueue(id, r) ==
    /\ Fresh(id)
    /\ Write([jobs EXCEPT ![id] = NewRow(r, now)])

(* Seeded fault: only active rows count as holders of the key. *)
DedupInsertedBesideCompleted(id, r) ==
    LET kept == Purge(jobs, r.key, now) IN
    /\ r.key # NoKey
    /\ Fresh(id)
    /\ \A other \in Holders(kept, r.key) : kept[other].status \in Completed
    /\ Write([kept EXCEPT ![id] = NewRow(r, now)])

(***************************************************************************)
(* EnqueueDedup, one transaction.  The four outcomes are the four values   *)
(* of EnqueueAction; the purge is committed in each of them.               *)
(***************************************************************************)
DedupInserted(id, r) ==
    LET kept == Purge(jobs, r.key, now) IN
    /\ r.key # NoKey
    /\ Fresh(id)
    /\ Holders(kept, r.key) = {}
    /\ Write([kept EXCEPT ![id] = NewRow(r, now)])

(* Seeded fault: the row replaced is not deleted. *)
DedupReplacedWithoutDelete(id, r) ==
    LET kept == Purge(jobs, r.key, now) IN
    /\ r.key # NoKey
    /\ Fresh(id)
    /\ r.mode = "replace"
    /\ \E old \in Blocking(kept, r.key) : kept[old].status # "running"
    /\ Write([kept EXCEPT ![id] = NewRow(r, now)])

(* Seeded fault: a running row is replaced like any other. *)
DedupReplacedRunning(id, r) ==
    LET kept == Purge(jobs, r.key, now) IN
    /\ r.key # NoKey
    /\ Fresh(id)
    /\ r.mode = "replace"
    /\ \E old \in Blocking(kept, r.key) :
          Write([kept EXCEPT ![old] = Blank("deleted"),
                             ![id] = NewRow(r, now)])

DedupReplaced(id, r) ==
    LET kept == Purge(jobs, r.key, now) IN
    /\ r.key # NoKey
    /\ Fresh(id)
    /\ r.mode = "replace"
    /\ \E old \in Blocking(kept, r.key) :
          /\ kept[old].status # "running"
          /\ Write([kept EXCEPT ![old] = Blank("deleted"),
                                ![id] = NewRow(r, now)])

(* `by' is the row that the caller is told will cover its request. *)
DedupSkippedRunning(r, by) ==
    LET kept == Purge(jobs, r.key, now) IN
    /\ r.key # NoKey
    /\ r.mode = "replace"
    /\ by \in Blocking(kept, r.key)
    /\ kept[by].status = "running"
    /\ Write(kept)

DedupSkippedDuplicate(r) ==
    LET kept == Purge(jobs, r.key, now) IN
    /\ r.key # NoKey
    /\ r.mode = "ignore"
    /\ Blocking(kept, r.key) # {}
    /\ Write(kept)

(* Seeded fault: the rows are selected but not marked as running. *)
ClaimWithoutMark(S, limit) ==
    /\ S \in ClaimSets(jobs, now, limit)
    /\ UNCHANGED storeVars

(* Claim: one UPDATE ... RETURNING; S is the set of ids it returns. *)
Claim(S, limit) ==
    /\ S \in ClaimSets(jobs, now, limit)
    /\ Write([id \in JobId |->
                IF id \in S THEN [jobs[id] EXCEPT !.status = "running"]
                            ELSE jobs[id]])

(* Seeded fault: attempts counts down. *)
MarkRetryCountsDown(id, retryAt) ==
    Write(IF jobs[id].status \in Stored
          THEN [jobs EXCEPT ![id] = Rescheduled(@, @.attempts - 1, retryAt)]
          ELSE jobs)

(***************************************************************************)
(* MarkFailed with a retryAt.  An id that is not in the table matches no   *)
(* row.                                                                    *)
(***************************************************************************)
MarkRetry(id, retryAt) ==
    Write(IF jobs[id].status \in Stored
          THEN [jobs EXCEPT ![id] = Rescheduled(@, @.attempts + 1, retryAt)]
          ELSE jobs)

(***************************************************************************)
(* MarkDone and MarkFailed without a retryAt are markCompleted: a SELECT   *)
(* of the TTL and then an UPDATE, with the time read before both.  Other   *)
(* callers may run between the two.                                        *)
(***************************************************************************)
MarkCompletedSelect(c, id, status) ==
    /\ reads[c] = NoRead
    /\ jobs[id].status \in Stored
    /\ LET ttl == jobs[id].ttl IN
       reads' = [reads EXCEPT ![c] =
                    [id |-> id, status |-> status,
                     expiresAt |-> IF ttl > 0 THEN now + ttl ELSE Never]]
    /\ UNCHANGED <<jobs, now, refused>>

(* The SELECT finds no row: markCompleted is a no-op. *)
MarkCompletedMissing(id) ==
    /\ jobs[id].status \notin Stored
    /\ UNCHANGED storeVars

MarkCompletedUpdate(c) ==
    /\ reads[c] # NoRead
    /\ LET m == reads[c]
           row == jobs[m.id]
           failures == IF m.status = "failed" THEN 1 ELSE 0 IN
       jobs' = IF row.status \in Stored
               THEN [jobs EXCEPT ![m.id] =
                        Finished(row, m.status, row.attempts + failures,
                                 m.expiresAt)]
               ELSE jobs
    /\ reads' = [reads EXCEPT ![c] = NoRead]
    /\ UNCHANGED <<now, refused>>

(* Seeded fault: failed rows are recovered with the running ones. *)
RecoverFailedToo ==
    Write([id \in JobId |->
              IF jobs[id].status \in {"running", "failed"}
              THEN [jobs[id] EXCEPT !.status = "pending"] ELSE jobs[id]])

RecoverStuck ==
    Write([id \in JobId |->
              IF jobs[id].status = "running"
              THEN [jobs[id] EXCEPT !.status = "pending"] ELSE jobs[id]])

MarkPending(id, runAt) ==
    Write(IF jobs[id].status \in Stored
          THEN [jobs EXCEPT ![id] = Rescheduled(@, @.attempts, runAt)]
          ELSE jobs)

(* Seeded fault: a retry by hand takes MaxAttempts off the counter. *)
RetryJobRebate(id) ==
    Write(IF jobs[id].status = "failed"
          THEN [jobs EXCEPT ![id] =
                   Rescheduled(@, @.attempts - @.maxAttempts, now)]
          ELSE jobs)

(* RetryJob, the dashboard's button: only a failed row matches. *)
RetryJob(id) ==
    Write(IF jobs[id].status = "failed"
          THEN [jobs EXCEPT ![id] = Rescheduled(@, 0, now)]
          ELSE jobs)

Tick ==
    /\ now < MaxTime
    /\ now' = now + 1
    /\ UNCHANGED <<jobs, refused, reads>>

-----------------------------------------------------------------------------
(* A key has at most one row, whatever its status: a completed row that    *)
(* still holds the key excludes a new active row just as an active one     *)
(* does (EnqueueDedup; the unique index only covers active rows).          *)
OneRowPerKey == OneHolder(jobs)

=============================================================================
