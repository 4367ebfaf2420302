---------------------------- MODULE MemoryStore ----------------------------
(***************************************************************************)
(* MemoryStorage (memory.go): the operations of SQLiteStorage written over *)
(* again on a Go map under a mutex, so that every method is atomic.  The   *)
(* map is a function whose domain are the ids in it; t is the time.Now()   *)
(* that a method reads while it holds the mutex.                           *)
(*                                                                         *)
(* It differs from SqliteStore.tla in what it is made of: rows are deleted *)
(* from the map, completion is one step, TTLs are not rounded to seconds,  *)
(* expiresAt is never cleared, and no unique index backs EnqueueDedup.     *)
(***************************************************************************)
EXTENDS JobTable

VARIABLE memory    \* m.jobs

MemoryTypeOK ==
    /\ DOMAIN memory \subseteq JobId
    /\ \A id \in DOMAIN memory :
          memory[id] \in Row /\ memory[id].status \in Stored

MemoryInit == memory = [id \in {} |-> Blank("absent")]

(* The job that enqueueRaw builds, as it is copied into the map. *)
JobOf(r, t) ==
    [type |-> r.type, key |-> r.key, ttl |-> r.ttl,
     maxAttempts |-> r.maxAttempts, status |-> "pending", attempts |-> 0,
     runAt |-> t + r.delay, expiresAt |-> Never]

With(m, id, row) ==
    [x \in DOMAIN m \cup {id} |-> IF x = id THEN row ELSE m[x]]

Without(m, ids) == [x \in DOMAIN m \ ids |-> m[x]]

MemoryEnqueue(id, r, t) == memory' = With(memory, id, JobOf(r, t))

-----------------------------------------------------------------------------
(* EnqueueDedup. *)

HoldersIn(m, k) == {id \in DOMAIN m : m[id].key = k}

(* Step 1: completed entries without a window, or with one that is over.   *)
Expired(m, k, t) ==
    {id \in HoldersIn(m, k) :
        /\ m[id].status \in Completed
        /\ m[id].expiresAt = Never \/ ~(m[id].expiresAt > t)}

(* Step 2: the first entry of the best rank in the order of the map, which *)
(* is random.                                                              *)
Conflicts(m, k) ==
    {id \in HoldersIn(m, k) :
        \A other \in HoldersIn(m, k) :
            ~(Rank(m[other].status) < Rank(m[id].status))}

(***************************************************************************)
(* The possible outcomes: the EnqueueAction and the map afterwards.        *)
(***************************************************************************)
DedupOutcomes(id, r, t) ==
    LET kept == Without(memory, Expired(memory, r.key, t))
        inserted == With(kept, id, JobOf(r, t)) IN
    IF Conflicts(kept, r.key) = {}
    THEN {[action |-> "inserted", map |-> inserted]}
    ELSE {CASE r.mode = "ignore" ->
                  [action |-> "skipped_duplicate", map |-> kept]
            [] r.mode = "replace" /\ kept[old].status = "running" ->
                  [action |-> "skipped_running", map |-> kept]
            [] r.mode = "replace" /\ kept[old].status # "running" ->
                  [action |-> "replaced",
                   map |-> With(Without(kept, {old}), id, JobOf(r, t))]
          : old \in Conflicts(kept, r.key)}

-----------------------------------------------------------------------------
(* Seeded fault: an entry that is due now is not due yet. *)
ClaimableSetsLater(limit, t) ==
    LET due == {id \in DOMAIN memory :
                   memory[id].status = "pending" /\ memory[id].runAt < t} IN
    {S \in SUBSET due :
        /\ Cardinality(S) =
              IF Cardinality(due) > limit THEN limit ELSE Cardinality(due)
        /\ \A id \in S, other \in due \ S : memory[id].runAt <= memory[other].runAt}

(* Claim: the due entries, sorted by RunAt and cut off at the limit. *)
ClaimableSets(limit, t) ==
    LET due == {id \in DOMAIN memory :
                   memory[id].status = "pending" /\ ~(memory[id].runAt > t)} IN
    {S \in SUBSET due :
        /\ Cardinality(S) =
              IF Cardinality(due) > limit THEN limit ELSE Cardinality(due)
        /\ \A id \in S, other \in due \ S : memory[id].runAt <= memory[other].runAt}

MemoryClaim(S) ==
    memory' = [id \in DOMAIN memory |->
                  IF id \in S THEN [memory[id] EXCEPT !.status = "running"]
                              ELSE memory[id]]

(* A method that is given an id: an error if it is not in the map.  The    *)
(* replies are those to the call that is about to be made.                 *)
Reply(id) == IF id \in DOMAIN memory THEN "nil" ELSE "not found"

Modify(id, row) ==
    memory' = IF id \in DOMAIN memory
              THEN [memory EXCEPT ![id] = row] ELSE memory

(* MarkDone, and MarkFailed without a retryAt. *)
MemoryComplete(id, status, t) ==
    LET j == memory[id]
        failures == IF status = "failed" THEN 1 ELSE 0 IN
    Modify(id, [j EXCEPT !.status = status, !.attempts = @ + failures,
                         !.expiresAt = IF j.ttl > 0 THEN t + j.ttl ELSE @])

MemoryRetry(id, retryAt) ==
    LET j == memory[id] IN
    Modify(id, [j EXCEPT !.attempts = @ + 1, !.status = "pending",
                         !.runAt = retryAt])

MemoryRecoverStuck ==
    memory' = [id \in DOMAIN memory |->
                  IF memory[id].status = "running"
                  THEN [memory[id] EXCEPT !.status = "pending"]
                  ELSE memory[id]]

MemoryMarkPending(id, runAt) ==
    Modify(id, [memory[id] EXCEPT !.status = "pending", !.runAt = runAt])

(* The method RetryJob: only a failed job, an error otherwise. *)
RetryReply(id) ==
    IF id \in DOMAIN memory /\ memory[id].status # "failed"
    THEN "is not failed" ELSE Reply(id)

MemoryRetryJob(id, t) ==
    IF RetryReply(id) = "nil"
    THEN Modify(id, [memory[id] EXCEPT !.status = "pending", !.runAt = t,
                                       !.attempts = 0])
    ELSE UNCHANGED memory

=============================================================================
