----------------------------- MODULE AnyCaller -----------------------------
(***************************************************************************)
(* SQLiteStorage under callers that keep one rule of the queue, to enqueue *)
(* a job with a key by EnqueueDedup (enqueueRaw, queue.go), and no other:  *)
(* any operation, with any id, at any time.  In particular MarkDone and    *)
(* MarkFailed may hit rows the caller does not own, as those of an         *)
(* abandoned worker or of a second process on the same file do, and        *)
(* MarkPending, which the queue never calls, is called.  What holds here   *)
(* the storage guarantees by itself to such callers.                       *)
(***************************************************************************)
EXTENDS SqliteStore

CONSTANT MaxFailures    \* bound on a row's attempts counter

ASSUME MaxFailuresAssumption == MaxFailures \in Nat

AnyDedup(r) ==
    \/ \E id \in JobId : DedupInserted(id, r)
    \/ \E id \in JobId : DedupReplaced(id, r)
    \/ \E by \in JobId : DedupSkippedRunning(r, by)
    \/ DedupSkippedDuplicate(r)

(* The rule; EnqueueDedup without a key is itself an Enqueue. *)
AnyEnqueue ==
    \E r \in Request :
        \/ r.key = NoKey /\ \E id \in JobId : Enqueue(id, r)
        \/ AnyDedup(r)

AnyClaim ==
    \E limit \in 1 .. Cardinality(JobId) :
        \E S \in ClaimSets(jobs, now, limit) : Claim(S, limit)

AnyMark ==
    \E id \in JobId :
        /\ jobs[id].attempts < MaxFailures
        /\ \/ MarkRetry(id, now + 1)
           \/ \E c \in Caller, s \in Completed : MarkCompletedSelect(c, id, s)
           \/ MarkCompletedMissing(id)

AnyUpdate == \E c \in Caller : MarkCompletedUpdate(c)

AnyReset ==
    \/ RecoverStuck
    \/ \E id \in JobId : MarkPending(id, now) \/ RetryJob(id)

(* A call begins, or time passes. *)
Begin == AnyEnqueue \/ AnyClaim \/ AnyMark \/ AnyReset \/ Tick

StoreNext == Begin \/ AnyUpdate

StoreSpec == StoreInit /\ [][StoreNext]_storeVars

(* As long as the rule is kept, no operation ever fails on the unique      *)
(* index: not RecoverStuck, RetryJob or MarkPending, which turn rows       *)
(* active without looking for another holder of the key, nor the INSERTs   *)
(* of EnqueueDedup.                                                        *)
NeverRefused == ~refused

(* The row of a job that a worker is executing is never deleted, by no     *)
(* mode of EnqueueDedup.                                                   *)
RunningNeverDeleted ==
    [][\A id \in JobId :
          jobs[id].status = "running" => jobs'[id].status # "deleted"]_storeVars

(* The key stays locked: a row that is active, or completed with its TTL   *)
(* window open, leaves the table only for the job of a request of its key  *)
(* that is made in Replace mode, never for one in Ignore mode, also where  *)
(* requests of both modes share the key.                                   *)
LockHonoured ==
    [][\A id \in JobId :
          /\ \/ jobs[id].status \in Active
             \/ jobs[id].status \in Completed /\ now < jobs[id].expiresAt
          /\ jobs'[id].status = "deleted"
          => \E r \in Request, new \in JobId :
                /\ r.key = jobs[id].key /\ r.mode = "replace"
                /\ Fresh(new) /\ jobs'[new] = NewRow(r, now)]_storeVars

=============================================================================
