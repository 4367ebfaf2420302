--------------------------- MODULE StorageMirror ---------------------------
(***************************************************************************)
(* SQLiteStorage and MemoryStorage side by side under the same calls.      *)
(* "EnqueueDedup mirrors SQLiteStorage.EnqueueDedup. See that method for   *)
(* the behavioral contract" (memory.go); the tests run one suite on both.  *)
(*                                                                         *)
(* Every call of AnyCaller is made on the map too, until one comes that    *)
(* the two storages treat differently:                                     *)
(*   - one that overlaps the two statements of markCompleted, which have   *)
(*     no counterpart in MemoryStorage, where completion is atomic;        *)
(*   - an EnqueueDedup after the end of a window in the map and before its *)
(*     end in the table, which rounds a TTL up to whole seconds.           *)
(* From then on the map is no longer followed.  All other calls are, and   *)
(* the model says of each what both storages answer.                       *)
(***************************************************************************)
EXTENDS AnyCaller, MemoryStore

VARIABLES
    followed,   \* no call so far is one that the storages treat differently
    sameReply   \* the storages have answered alike so far

mirrorVars == <<storeVars, memory, followed, sameReply>>

MirrorInit == StoreInit /\ MemoryInit /\ followed = TRUE /\ sameReply = TRUE

(* No caller is inside markCompleted. *)
Alone == followed /\ \A c \in Caller : reads[c] = NoRead

(* A completed job holds the key in the table but no longer in the map. *)
InGap(k) ==
    \E id \in HoldersIn(memory, k) :
        /\ memory[id].status \in Completed
        /\ id \in Expired(memory, k, now) \ Lapsed(jobs, k, now)

(* SQLite answers nil also where its UPDATE matches no row; that is where  *)
(* MemoryStorage answers with an error.                                    *)
Matches(id) == jobs[id].status \in Stored

Answer(reply, matched) == sameReply' = (sameReply /\ (reply = "nil" <=> matched))

BothEnqueue ==
    \E r \in Request, id \in JobId :
        \/ /\ r.key = NoKey
           /\ Enqueue(id, r) /\ MemoryEnqueue(id, r, now) /\ UNCHANGED sameReply
        \/ /\ r.key # NoKey /\ ~InGap(r.key)
           /\ \E out \in DedupOutcomes(id, r, now), action \in
                 {"inserted", "replaced", "skipped_duplicate", "skipped_running"} :
              /\ \/ action = "inserted" /\ DedupInserted(id, r)
                 \/ action = "replaced" /\ DedupReplaced(id, r)
                 \/ action = "skipped_duplicate" /\ DedupSkippedDuplicate(r)
                 \/ action = "skipped_running" /\ DedupSkippedRunning(r, id)
              /\ memory' = out.map
              /\ sameReply' = (sameReply /\ action = out.action)

BothClaim ==
    \E limit \in 1 .. Cardinality(JobId) : \E S \in ClaimSets(jobs, now, limit) :
        /\ Claim(S, limit)
        /\ MemoryClaim(S)
        /\ sameReply' = (sameReply /\ S \in ClaimableSets(limit, now))

(* The Go program sees markCompleted return after its second statement.    *)
BothMark ==
    \E id \in JobId :
        /\ jobs[id].attempts < MaxFailures
        /\ \/ /\ MarkRetry(id, now + 1) /\ MemoryRetry(id, now + 1)
              /\ Answer(Reply(id), Matches(id))
           \/ /\ \E c \in Caller, s \in Completed : MarkCompletedSelect(c, id, s)
              /\ UNCHANGED <<memory, sameReply>>
           \/ /\ MarkCompletedMissing(id)
              /\ \E s \in Completed : MemoryComplete(id, s, now)
              /\ Answer(Reply(id), FALSE)

BothUpdate ==
    /\ followed
    /\ \E c \in Caller :
          /\ MarkCompletedUpdate(c)
          /\ MemoryComplete(reads[c].id, reads[c].status, now)
          /\ Answer(Reply(reads[c].id), TRUE)
    /\ UNCHANGED followed

BothReset ==
    \/ RecoverStuck /\ MemoryRecoverStuck /\ UNCHANGED sameReply
    \/ \E id \in JobId :
          \/ /\ MarkPending(id, now) /\ MemoryMarkPending(id, now)
             /\ Answer(Reply(id), Matches(id))
          \/ /\ RetryJob(id) /\ MemoryRetryJob(id, now)
             /\ Answer(RetryReply(id), jobs[id].status = "failed")

Followed ==
    /\ Alone
    /\ \/ BothEnqueue \/ BothClaim \/ BothMark \/ BothReset
       \/ Tick /\ UNCHANGED <<memory, sameReply>>
    /\ UNCHANGED followed

(* The calls that the map is not followed through, and all later ones.     *)
Diverging ==
    \/ ~Alone /\ Begin
    \/ ~followed /\ AnyUpdate
    \/ \E r \in Request : InGap(r.key) /\ AnyDedup(r)

Unfollowed ==
    /\ Diverging
    /\ memory' = [id \in {} |-> Blank("absent")]
    /\ followed' = FALSE
    /\ UNCHANGED sameReply

MirrorNext == Followed \/ BothUpdate \/ Unfollowed

MirrorSpec == MirrorInit /\ [][MirrorNext]_mirrorVars

-----------------------------------------------------------------------------
(* MemoryStorage mirrors SQLiteStorage: after any sequence of calls that   *)
(* are followed the two hold the same jobs with the same contents, but for *)
(* a TTL and the end of its window, which are later in the table by what   *)
(* rounding to whole seconds adds; every EnqueueDedup and Claim had the    *)
(* same outcome in both; and MemoryStorage answered with an error exactly  *)
(* where the statement of SQLiteStorage matched no row.                    *)
Rounded(job) ==
    [job EXCEPT
        !.ttl = WholeSeconds(job.ttl),
        !.expiresAt = IF @ = Never THEN Never
                      ELSE @ + WholeSeconds(job.ttl) - job.ttl]

SameRows ==
    /\ DOMAIN memory = Ids(jobs, Stored)
    /\ \A id \in DOMAIN memory : jobs[id] = Rounded(memory[id])

StoragesAgree == followed => SameRows /\ sameReply

=============================================================================
