------------------------- MODULE StorageMirrorProofs -------------------------
(***************************************************************************)
(* Theorems about SQLiteStorage under callers that only keep the rule of   *)
(* AnyCaller.tla, and about MemoryStorage beside it.                       *)
(*                                                                         *)
(* AnyCaller: StoreInv is inductive.  No operation puts two rows of one    *)
(* key into the table, hence the unique index never refuses one.           *)
(*                                                                         *)
(* StorageMirror: MirrorInv is inductive.  Every operation is shown to     *)
(* take a map that mirrors the table to one that mirrors the new table.    *)
(***************************************************************************)
EXTENDS StorageMirror, SqliteStoreProofs, FiniteSetTheorems

LEMMA StoreInvInductive == StoreInv /\ [StoreNext]_storeVars => StoreInv'
  <1> SUFFICES ASSUME StoreInv, [StoreNext]_storeVars PROVE StoreInv'
    OBVIOUS
  <1>0. now \in Int
    BY DEF StoreInv, StoreTypeOK
  <1>1. CASE AnyEnqueue
    BY <1>1, EnqueueInv, DedupInsertedInv, DedupReplacedInv, DedupSkippedInv
    DEF AnyEnqueue, AnyDedup
  <1>2. CASE AnyClaim
    BY <1>2, ClaimInv DEF AnyClaim
  <1>3. CASE AnyMark
    <2>1. ASSUME NEW id \in JobId, MarkRetry(id, now + 1)
          PROVE  StoreInv'
      BY <1>0, <2>1, MarkRetryInv
    <2>2. ASSUME NEW id \in JobId, MarkCompletedMissing(id)
          PROVE  StoreInv'
      BY <2>2
      DEF MarkCompletedMissing, StoreInv, StoreTypeOK, OneRowPerKey, OneHolder,
          Ids, storeVars
    <2> QED
      BY <1>3, <2>1, <2>2, MarkCompletedSelectInv DEF AnyMark
  <1>4. CASE AnyReset
    BY <1>0, <1>4, RecoverStuckInv, MarkPendingInv, RetryJobInv DEF AnyReset
  <1>5. CASE Tick
    BY <1>5, TickInv
  <1>6. CASE AnyUpdate
    BY <1>6, MarkCompletedUpdateInv DEF AnyUpdate
  <1>7. CASE UNCHANGED storeVars
    BY <1>7 DEF StoreInv, StoreTypeOK, OneRowPerKey, OneHolder, Ids, storeVars
  <1> QED
    BY <1>1, <1>2, <1>3, <1>4, <1>5, <1>6, <1>7 DEF StoreNext, Begin

LEMMA StoreInvariant == StoreSpec => []StoreInv
  <1>1. StoreInit => StoreInv
    BY StoreInitInv
  <1>2. StoreInv /\ [StoreNext]_storeVars => StoreInv'
    BY StoreInvInductive
  <1> QED
    BY <1>1, <1>2, PTL DEF StoreSpec

(* The storage keeps its rows well formed (sqlite.go), whoever calls it.   *)
THEOREM StoreTypeCorrect == StoreSpec => []StoreTypeOK
  <1>1. StoreInv => StoreTypeOK
    BY DEF StoreInv
  <1> QED
    BY <1>1, StoreInvariant, PTL

(* EnqueueDedup never lets two rows of one key coexist (sqlite.go) while   *)
(* it is the only way jobs with a key get into the table, in any order of  *)
(* calls and with any number of jobs, keys and callers.                    *)
THEOREM StoreOneRowPerKey == StoreSpec => []OneRowPerKey
  <1>1. StoreInv => OneRowPerKey
    BY DEF StoreInv
  <1> QED
    BY <1>1, StoreInvariant, PTL

(* While every job with a key is enqueued by EnqueueDedup, as enqueueRaw   *)
(* (queue.go) does, no statement of sqlite.go fails on                     *)
(* idx_jobs_dedup_active, whatever else is called with whatever id.        *)
THEOREM StoreNeverRefused == StoreSpec => []NeverRefused
  <1>1. StoreInv => NeverRefused
    BY DEF StoreInv, NeverRefused
  <1> QED
    BY <1>1, StoreInvariant, PTL

-----------------------------------------------------------------------------
(* A row that a step deletes is over, or gives way to the job of a request *)
(* in Replace mode.                                                        *)
LEMMA DeletedByEnqueue ==
    ASSUME StoreInv, [StoreNext]_storeVars, NEW id \in JobId,
           jobs[id].status # "deleted", jobs'[id].status = "deleted"
    PROVE  Over(id) \/ \E r \in Request, new \in JobId : ReplacedBy(id, r, new)
  <1>0. now \in Int /\ now + 1 \in Int
    BY DEF StoreInv, StoreTypeOK
  <1>1. CASE AnyEnqueue
    <2>1. PICK r \in Request :
             \/ \E other \in JobId : r.key = NoKey /\ Enqueue(other, r)
             \/ \E other \in JobId : DedupInserted(other, r)
             \/ \E other \in JobId : DedupReplaced(other, r)
             \/ \E by \in JobId : DedupSkippedRunning(r, by)
             \/ DedupSkippedDuplicate(r)
      BY <1>1 DEF AnyEnqueue, AnyDedup
    <2> QED
      BY <2>1, EnqueueDeletes
  <1>2. CASE AnyClaim
    BY <1>2, OthersDeleteNothing DEF AnyClaim
  <1>3. CASE AnyMark
    BY <1>0, <1>3, OthersDeleteNothing
    DEF AnyMark, MarkCompletedMissing, storeVars
  <1>4. CASE AnyReset
    BY <1>0, <1>4, OthersDeleteNothing DEF AnyReset
  <1>5. CASE AnyUpdate
    BY <1>5, OthersDeleteNothing DEF AnyUpdate
  <1>6. CASE Tick \/ UNCHANGED storeVars
    BY <1>6, OthersDeleteNothing DEF storeVars
  <1> QED
    BY <1>1, <1>2, <1>3, <1>4, <1>5, <1>6 DEF StoreNext, Begin

(* A row in status running is never deleted, whoever calls (EnqueueDedup). *)
THEOREM StoreRunningNeverDeleted == StoreSpec => RunningNeverDeleted
  <1>1. ASSUME StoreInv, [StoreNext]_storeVars
        PROVE  [\A id \in JobId :
                   jobs[id].status = "running"
                   => jobs'[id].status # "deleted"]_storeVars
    <2> SUFFICES ASSUME NEW id \in JobId, jobs[id].status = "running",
                        jobs'[id].status = "deleted"
                 PROVE  FALSE
      OBVIOUS
    <2>1. Over(id) \/ \E r \in Request, new \in JobId : ReplacedBy(id, r, new)
      BY <1>1, DeletedByEnqueue
    <2> QED
      BY <2>1 DEF Over, ReplacedBy, Completed
  <1> QED
    BY <1>1, StoreInvariant, PTL DEF StoreSpec, RunningNeverDeleted

(* The lock of an active row, or of a completed row inside its TTL window, *)
(* is only ever broken by a request of its key in Replace mode, in favour  *)
(* of the job of that request (EnqueueDedup).                              *)
THEOREM StoreLockHonoured == StoreSpec => LockHonoured
  <1>1. ASSUME StoreInv, [StoreNext]_storeVars
        PROVE  [\A id \in JobId :
                   /\ \/ jobs[id].status \in Active
                      \/ jobs[id].status \in Completed
                         /\ now < jobs[id].expiresAt
                   /\ jobs'[id].status = "deleted"
                   => \E r \in Request, new \in JobId :
                         /\ r.key = jobs[id].key /\ r.mode = "replace"
                         /\ Fresh(new) /\ jobs'[new] = NewRow(r, now)]_storeVars
    <2> SUFFICES ASSUME NEW id \in JobId,
                        \/ jobs[id].status \in Active
                        \/ jobs[id].status \in Completed
                           /\ now < jobs[id].expiresAt,
                        jobs'[id].status = "deleted"
                 PROVE  \E r \in Request, new \in JobId :
                           /\ r.key = jobs[id].key /\ r.mode = "replace"
                           /\ Fresh(new) /\ jobs'[new] = NewRow(r, now)
      OBVIOUS
    <2>1. jobs[id].status # "deleted"
      BY DEF Active, Completed
    <2>2. Over(id) \/ \E r \in Request, new \in JobId : ReplacedBy(id, r, new)
      BY <1>1, <2>1, DeletedByEnqueue
    <2>3. jobs[id].expiresAt \in Int /\ now \in Int
      BY <1>1 DEF StoreInv, StoreTypeOK, Row
    <2>4. ~Over(id)
      BY <2>3 DEF Over, Active, Completed
    <2> QED
      BY <2>2, <2>4 DEF ReplacedBy
  <1> QED
    BY <1>1, StoreInvariant, PTL DEF StoreSpec, LockHonoured

-----------------------------------------------------------------------------
(***************************************************************************)
(* The map and the table hold the same rows, but for rounded TTLs.         *)
(***************************************************************************)
Mirrors(m, tbl) ==
    /\ DOMAIN m = Ids(tbl, Stored)
    /\ \A id \in DOMAIN m : m[id] \in Row /\ tbl[id] = Rounded(m[id])

(* Rounding changes a TTL and the end of its window, nothing else. *)
LEMMA RoundedFields ==
    ASSUME NEW job \in Row
    PROVE  /\ Rounded(job).status = job.status
           /\ Rounded(job).key = job.key
           /\ Rounded(job).runAt = job.runAt
           /\ Rounded(job).attempts = job.attempts
           /\ Rounded(job).ttl = WholeSeconds(job.ttl)
           /\ job.ttl \in Nat /\ WholeSeconds(job.ttl) \in Nat
           /\ job.expiresAt \in Nat /\ Rounded(job).expiresAt \in Nat
           /\ job.expiresAt <= Rounded(job).expiresAt
           /\ Rounded(job).expiresAt = Never <=> job.expiresAt = Never
           /\ Rounded(job).ttl = 0 <=> job.ttl = 0
  <1>1. /\ job.ttl \in Nat /\ job.expiresAt \in Nat
        /\ WholeSeconds(job.ttl) \in Nat
        /\ job.ttl <= WholeSeconds(job.ttl)
        /\ WholeSeconds(job.ttl) = 0 <=> job.ttl = 0
    BY WholeSecondsRoundsUp DEF Row
  <1>2. /\ Rounded(job).status = job.status
        /\ Rounded(job).key = job.key
        /\ Rounded(job).runAt = job.runAt
        /\ Rounded(job).attempts = job.attempts
        /\ Rounded(job).ttl = WholeSeconds(job.ttl)
        /\ Rounded(job).expiresAt =
              IF job.expiresAt = Never THEN Never
              ELSE job.expiresAt + WholeSeconds(job.ttl) - job.ttl
    BY DEF Rounded, Row
  <1>3. /\ Rounded(job).expiresAt \in Nat
        /\ job.expiresAt <= Rounded(job).expiresAt
        /\ Rounded(job).expiresAt = Never <=> job.expiresAt = Never
    BY <1>1, <1>2 DEF Never
  <1> QED
    BY <1>1, <1>2, <1>3

(* A change of the other fields may come before or after the rounding.     *)
LEMMA RoundedRescheduled ==
    ASSUME NEW job \in Row, NEW n \in Nat, NEW t \in Int
    PROVE  /\ Rounded(Rescheduled(job, n, t)) = Rescheduled(Rounded(job), n, t)
           /\ Rescheduled(job, n, t) \in Row
  <1>1. Rescheduled(job, n, t) \in Row
    BY RescheduledType
  <1>2. Rounded(Rescheduled(job, n, t)) = Rescheduled(Rounded(job), n, t)
    BY DEF Rounded, Rescheduled, Row
  <1> QED
    BY <1>1, <1>2

LEMMA RoundedFinished ==
    ASSUME NEW job \in Row, NEW s \in Completed, NEW n \in Nat, NEW e \in Nat
    PROVE  /\ Rounded(Finished(job, s, n, e))
                 = Finished(Rounded(job), s, n,
                            IF e = Never THEN Never
                            ELSE e + WholeSeconds(job.ttl) - job.ttl)
           /\ Finished(job, s, n, e) \in Row
  <1>1. Finished(job, s, n, e) \in Row
    BY FinishedType
  <1>2. Rounded(Finished(job, s, n, e))
           = Finished(Rounded(job), s, n,
                      IF e = Never THEN Never
                      ELSE e + WholeSeconds(job.ttl) - job.ttl)
    BY DEF Rounded, Finished, Row
  <1> QED
    BY <1>1, <1>2

LEMMA RoundedStatus ==
    ASSUME NEW job \in Row, NEW s \in Stored
    PROVE  /\ Rounded([job EXCEPT !.status = s]) = [Rounded(job) EXCEPT !.status = s]
           /\ [job EXCEPT !.status = s] \in Row
  BY DEF Rounded, Row, Status

LEMMA MirrorsHolders ==
    ASSUME NEW m, NEW tbl, Mirrors(m, tbl), NEW k
    PROVE  HoldersIn(m, k) = Holders(tbl, k)
  <1>1. \A id \in DOMAIN m : tbl[id].key = m[id].key
    BY RoundedFields DEF Mirrors
  <1> QED
    BY <1>1 DEF Mirrors, HoldersIn, Holders

(* Outside the gap both find the same rows over: the window of the map     *)
(* never ends after that of the table.                                     *)
LEMMA MirrorsExpired ==
    ASSUME Mirrors(memory, jobs), NEW k, now \in Nat, ~InGap(k)
    PROVE  Expired(memory, k, now) = Lapsed(jobs, k, now)
  <1>1. \A id \in Holders(jobs, k) :
           /\ jobs[id].status = memory[id].status
           /\ jobs[id].expiresAt \in Nat /\ memory[id].expiresAt \in Nat
           /\ memory[id].expiresAt <= jobs[id].expiresAt
           /\ jobs[id].expiresAt = Never <=> memory[id].expiresAt = Never
    BY RoundedFields DEF Mirrors, Holders
  <1>2. HoldersIn(memory, k) = Holders(jobs, k)
    BY MirrorsHolders
  <1>3. Lapsed(jobs, k, now) \subseteq Expired(memory, k, now)
    BY <1>1, <1>2 DEF Expired, Lapsed, Never
  <1>4. \A id \in Expired(memory, k, now) :
           id \in HoldersIn(memory, k) /\ memory[id].status \in Completed
    BY DEF Expired
  <1>5. \A id \in Expired(memory, k, now) : id \in Lapsed(jobs, k, now)
    BY <1>4 DEF InGap
  <1> QED
    BY <1>3, <1>5

LEMMA MirrorsPurge ==
    ASSUME Mirrors(memory, jobs), NEW k, now \in Nat, ~InGap(k)
    PROVE  Mirrors(Without(memory, Expired(memory, k, now)), Purge(jobs, k, now))
  <1>1. Blank("deleted").status \notin Stored
    BY DEF Blank, Stored, Active, Completed
  <1>2. \A id \in JobId :
           Purge(jobs, k, now)[id] =
              IF id \in Lapsed(jobs, k, now) THEN Blank("deleted") ELSE jobs[id]
    BY DEF Purge
  <1> QED
    BY <1>1, <1>2, MirrorsExpired DEF Mirrors, Without, Ids

LEMMA MirrorsWith ==
    ASSUME NEW m, NEW tbl \in [JobId -> Row], Mirrors(m, tbl),
           NEW id \in JobId, NEW row \in Row, NEW job \in Row,
           row = Rounded(job), row.status \in Stored
    PROVE  Mirrors(With(m, id, job), [tbl EXCEPT ![id] = row])
  BY DEF Mirrors, With, Ids

LEMMA MirrorsWithout ==
    ASSUME NEW m, NEW tbl \in [JobId -> Row], Mirrors(m, tbl),
           NEW id \in JobId, NEW row, row.status \notin Stored
    PROVE  Mirrors(Without(m, {id}), [tbl EXCEPT ![id] = row])
  BY DEF Mirrors, Without, Ids

(* Both select the same rows as the holders that stand in the way. *)
LEMMA MirrorsBlocking ==
    ASSUME NEW m, NEW tbl, Mirrors(m, tbl), NEW k
    PROVE  Conflicts(m, k) = Blocking(tbl, k)
  <1>1. \A s : Rank(s) \in Int
    BY DEF Rank
  <1>2. \A id \in Holders(tbl, k) : m[id].status = tbl[id].status
    BY RoundedFields DEF Mirrors, Holders
  <1> QED
    BY <1>1, <1>2, MirrorsHolders DEF Conflicts, Blocking

(* Where a key has one holder, that one is what stands in the way. *)
LEMMA OneBlocking ==
    ASSUME NEW tbl, OneHolder(tbl), NEW k \in Key
    PROVE  /\ Blocking(tbl, k) = Holders(tbl, k)
           /\ \A x, y \in Blocking(tbl, k) : x = y
  <1>1. \A x, y \in Holders(tbl, k) : x = y
    BY KeyAssumption DEF OneHolder, Holders
  <1>2. \A s : Rank(s) \in Int
    BY DEF Rank
  <1> QED
    BY <1>1, <1>2 DEF Blocking

(* Both storages insert the same row, but for the rounding. *)
LEMMA SameNewRow ==
    ASSUME NEW r \in Request, NEW t \in Nat
    PROVE  /\ NewRow(r, t) = Rounded(JobOf(r, t))
           /\ JobOf(r, t) \in Row
  <1>1. r \in RequestType
    BY RequestAssumption
  <1>2. JobOf(r, t) \in Row
    BY <1>1 DEF JobOf, Row, RequestType, Status, Stored, Active, Never
  <1>3. /\ JobOf(r, t).ttl = r.ttl /\ JobOf(r, t).expiresAt = Never
        /\ Rounded(JobOf(r, t)) = [JobOf(r, t) EXCEPT !.ttl = WholeSeconds(r.ttl),
                                                      !.expiresAt = Never]
    BY DEF Rounded, JobOf
  <1>4. NewRow(r, t) = [JobOf(r, t) EXCEPT !.ttl = WholeSeconds(r.ttl),
                                           !.expiresAt = Never]
    <2>1. NewRow(r, t) \in Row
      BY NewRowType
    <2>2. /\ NewRow(r, t).ttl = WholeSeconds(r.ttl)
          /\ NewRow(r, t).expiresAt = Never
          /\ \A field \in {"type", "key", "maxAttempts", "status", "attempts",
                           "runAt"} : NewRow(r, t)[field] = JobOf(r, t)[field]
      BY DEF NewRow, JobOf
    <2> QED
      BY <1>2, <2>1, <2>2 DEF Row
  <1> QED
    BY <1>2, <1>3, <1>4

-----------------------------------------------------------------------------
(***************************************************************************)
(* The inductive invariant.  What a caller inside markCompleted has read   *)
(* is still what the row says, because the two statements of a call that   *)
(* no other overlaps see the same row at the same time; and a row without  *)
(* a TTL has never had a window, so that it does not matter that SQLite    *)
(* clears the window of such a row and memory keeps it.                    *)
(***************************************************************************)
NoWindowWithoutTTL ==
    \A id \in JobId : jobs[id].ttl = 0 => jobs[id].expiresAt = Never

ReadIsCurrent ==
    /\ \A c \in Caller : reads[c] # NoRead =>
          LET row == jobs[reads[c].id] IN
          /\ row.status \in Stored
          /\ reads[c].expiresAt = IF row.ttl > 0 THEN now + row.ttl ELSE Never
    /\ \A c, d \in Caller : reads[c] # NoRead /\ reads[d] # NoRead => c = d

MirrorInv ==
    /\ StoreInv
    /\ followed \in BOOLEAN
    /\ followed => /\ Mirrors(memory, jobs) /\ sameReply
                   /\ NoWindowWithoutTTL /\ ReadIsCurrent

LEMMA MirrorsIsPrimed == Mirrors(memory', jobs') => Mirrors(memory, jobs)'
  BY DEF Mirrors, Rounded, Ids

LEMMA MirrorsPrimed ==
    ASSUME UNCHANGED <<jobs, memory>>, Mirrors(memory, jobs)
    PROVE  Mirrors(memory, jobs)'
  BY DEF Mirrors, Rounded, Ids

LEMMA BothDedup ==
    ASSUME StoreInv, Mirrors(memory, jobs), NEW r \in Request,
           NEW id \in JobId, ~InGap(r.key),
           NEW out \in DedupOutcomes(id, r, now),
           NEW action \in {"inserted", "replaced", "skipped_duplicate",
                           "skipped_running"},
           \/ action = "inserted" /\ DedupInserted(id, r)
           \/ action = "replaced" /\ DedupReplaced(id, r)
           \/ action = "skipped_duplicate" /\ DedupSkippedDuplicate(r)
           \/ action = "skipped_running" /\ DedupSkippedRunning(r, id),
           memory' = out.map
    PROVE  Mirrors(memory', jobs') /\ action = out.action
  <1> DEFINE k == r.key
             kept == Purge(jobs, k, now)
             keptM == Without(memory, Expired(memory, k, now))
             row == NewRow(r, now)
             job == JobOf(r, now)
             Skip(old) == CASE r.mode = "ignore" ->
                                [action |-> "skipped_duplicate", map |-> keptM]
                            [] r.mode = "replace" /\ keptM[old].status = "running" ->
                                [action |-> "skipped_running", map |-> keptM]
                            [] r.mode = "replace" /\ keptM[old].status # "running" ->
                                [action |-> "replaced",
                                 map |-> With(Without(keptM, {old}), id, job)]
  <1>1. now \in Nat /\ jobs \in [JobId -> Row]
    BY DEF StoreInv, StoreTypeOK
  <1>2. k \in Key
    BY RequestAssumption
    DEF DedupInserted, DedupReplaced, DedupSkippedDuplicate,
        DedupSkippedRunning, RequestType
  <1>3. /\ kept \in [JobId -> Row]
        /\ OneHolder(kept)
        /\ Mirrors(keptM, kept)
    BY <1>1, PurgeType, MirrorsPurge
  <1>4. /\ row = Rounded(job) /\ job \in Row
        /\ row \in Row /\ row.status \in Stored
    BY <1>1, SameNewRow, NewRowType DEF Stored, Active
  <1>5. out \in IF Conflicts(keptM, k) = {}
                THEN {[action |-> "inserted", map |-> With(keptM, id, job)]}
                ELSE {Skip(old) : old \in Conflicts(keptM, k)}
    BY DEF DedupOutcomes
  <1>6. Blank("deleted").status \notin Stored
    BY DEF Blank, Stored, Active, Completed
  <1> HIDE DEF kept, keptM, row, job
  <1>7. /\ Conflicts(keptM, k) = Blocking(kept, k)
        /\ Blocking(kept, k) = Holders(kept, k)
        /\ \A x, y \in Blocking(kept, k) : x = y
        /\ \A x \in Blocking(kept, k) : keptM[x].status = kept[x].status
    <2>1. Conflicts(keptM, k) = Blocking(kept, k)
      BY <1>3, MirrorsBlocking
    <2>2. /\ Blocking(kept, k) = Holders(kept, k)
          /\ \A x, y \in Blocking(kept, k) : x = y
      BY <1>2, <1>3, OneBlocking
    <2>3. \A x \in Holders(kept, k) : keptM[x].status = kept[x].status
      BY <1>3, RoundedFields DEF Mirrors, Holders
    <2> QED
      BY <2>1, <2>2, <2>3
  <1>8. CASE action = "inserted" /\ DedupInserted(id, r)
    <2>1. Holders(kept, k) = {} /\ jobs' = [kept EXCEPT ![id] = row]
      BY <1>8, DedupInsertedInv DEF DedupInserted, kept, row
    <2>2. out = [action |-> "inserted", map |-> With(keptM, id, job)]
      BY <1>5, <1>7, <2>1
    <2>3. Mirrors(With(keptM, id, job), [kept EXCEPT ![id] = row])
      BY <1>3, <1>4, MirrorsWith
    <2> QED
      BY <1>8, <2>1, <2>2, <2>3
  <1>9. CASE action = "replaced" /\ DedupReplaced(id, r)
    <2>1. PICK old \in Holders(kept, k) :
             /\ kept[old].status # "running"
             /\ jobs' = [kept EXCEPT ![old] = Blank("deleted"), ![id] = row]
      BY <1>9, DedupReplacedInv DEF kept, row
    <2>2. r.mode = "replace" /\ old \in JobId
      BY <1>9 DEF DedupReplaced, Holders, Ids
    <2>3. out = Skip(old)
      BY <1>5, <1>7, <2>1
    <2>4. out = [action |-> "replaced",
                 map |-> With(Without(keptM, {old}), id, job)]
      BY <1>7, <2>1, <2>2, <2>3
    <2>5. /\ [kept EXCEPT ![old] = Blank("deleted")] \in [JobId -> Row]
          /\ Mirrors(Without(keptM, {old}),
                     [kept EXCEPT ![old] = Blank("deleted")])
      BY <1>3, <1>6, <2>2, MirrorsWithout, BlankType DEF Status
    <2>6. Mirrors(With(Without(keptM, {old}), id, job),
                  [[kept EXCEPT ![old] = Blank("deleted")] EXCEPT ![id] = row])
      BY <1>4, <2>5, MirrorsWith
    <2> QED
      BY <1>9, <2>1, <2>4, <2>6
  <1>10. CASE action = "skipped_duplicate" /\ DedupSkippedDuplicate(r)
    <2>1. /\ r.mode = "ignore"
          /\ Blocking(kept, k) # {}
          /\ jobs' = kept
      BY <1>10, DedupSkippedInv DEF DedupSkippedDuplicate, kept
    <2>2. out = [action |-> "skipped_duplicate", map |-> keptM]
      BY <1>5, <1>7, <2>1
    <2> QED
      BY <1>3, <1>10, <2>1, <2>2
  <1>11. CASE action = "skipped_running" /\ DedupSkippedRunning(r, id)
    <2>1. /\ r.mode = "replace"
          /\ id \in Blocking(kept, k)
          /\ kept[id].status = "running"
          /\ jobs' = kept
      BY <1>11, DedupSkippedInv DEF DedupSkippedRunning, kept
    <2>2. out = Skip(id)
      BY <1>5, <1>7, <2>1
    <2>3. out = [action |-> "skipped_running", map |-> keptM]
      BY <1>7, <2>1, <2>2
    <2> QED
      BY <1>3, <1>11, <2>1, <2>3
  <1> QED
    BY <1>8, <1>9, <1>10, <1>11

LEMMA SameDue ==
    ASSUME NEW m, NEW tbl \in [JobId -> Row], Mirrors(m, tbl), NEW t \in Nat
    PROVE  {id \in DOMAIN m : m[id].status = "pending" /\ ~(m[id].runAt > t)}
              = Due(tbl, t)
  <1>1. \A id \in DOMAIN m :
           /\ tbl[id].status = m[id].status
           /\ tbl[id].runAt = m[id].runAt
           /\ m[id].runAt \in Int
    BY RoundedFields DEF Mirrors, Row
  <1> QED
    BY <1>1 DEF Mirrors, Due, Ids, Stored, Active

(* The sets Claim may take are the ones memory may take. *)
LEMMA SameClaim ==
    ASSUME StoreInv, Mirrors(memory, jobs), NEW limit \in Nat,
           NEW S \in ClaimSets(jobs, now, limit)
    PROVE  S \in ClaimableSets(limit, now)
  <1> DEFINE due == Due(jobs, now)
  <1>1. now \in Nat /\ jobs \in [JobId -> Row]
    BY DEF StoreInv, StoreTypeOK
  <1>2. due = {id \in DOMAIN memory : memory[id].status = "pending"
                                      /\ ~(memory[id].runAt > now)}
    BY <1>1, SameDue
  <1>3. /\ S \subseteq due
        /\ Cardinality(S) <= limit
        /\ S = due \/ Cardinality(S) = limit
        /\ \A id \in S, other \in due \ S : jobs[id].runAt <= jobs[other].runAt
    BY DEF ClaimSets
  <1>4. due \subseteq JobId
    BY DEF Due, Ids
  <1>5. IsFiniteSet(due)
    BY <1>4, JobIdAssumption, FS_Subset
  <1>6. Cardinality(S) \in Nat /\ Cardinality(due) \in Nat
        /\ Cardinality(S) <= Cardinality(due)
    BY <1>3, <1>5, FS_Subset, FS_CardinalityType
  <1>7. Cardinality(S) =
           IF Cardinality(due) > limit THEN limit ELSE Cardinality(due)
    BY <1>3, <1>6
  <1>8. \A id \in due : memory[id].runAt = jobs[id].runAt
    BY <1>1, <1>2, RoundedFields DEF Mirrors
  <1> HIDE DEF due
  <1> QED
    BY <1>2, <1>3, <1>7, <1>8 DEF ClaimableSets

-----------------------------------------------------------------------------
(* What each call does to both storages. *)

LEMMA BothEnqueueAgree ==
    ASSUME StoreInv, Mirrors(memory, jobs), sameReply, NoWindowWithoutTTL,
           BothEnqueue
    PROVE  /\ StoreInv' /\ Mirrors(memory, jobs)' /\ sameReply'
           /\ NoWindowWithoutTTL' /\ UNCHANGED reads
  <1>1. now \in Nat /\ jobs \in [JobId -> Row]
    BY DEF StoreInv, StoreTypeOK
  <1>2. PICK r \in Request, id \in JobId :
           \/ /\ r.key = NoKey
              /\ Enqueue(id, r) /\ MemoryEnqueue(id, r, now) /\ UNCHANGED sameReply
           \/ /\ r.key # NoKey /\ ~InGap(r.key)
              /\ \E out \in DedupOutcomes(id, r, now), action \in
                    {"inserted", "replaced", "skipped_duplicate", "skipped_running"} :
                 /\ \/ action = "inserted" /\ DedupInserted(id, r)
                    \/ action = "replaced" /\ DedupReplaced(id, r)
                    \/ action = "skipped_duplicate" /\ DedupSkippedDuplicate(r)
                    \/ action = "skipped_running" /\ DedupSkippedRunning(r, id)
                 /\ memory' = out.map
                 /\ sameReply' = (sameReply /\ action = out.action)
    BY DEF BothEnqueue
  <1>3. /\ NewRow(r, now) \in Row /\ NewRow(r, now).status \in Stored
        /\ NewRow(r, now).expiresAt = Never
        /\ NewRow(r, now) = Rounded(JobOf(r, now)) /\ JobOf(r, now) \in Row
    BY <1>1, NewRowType, SameNewRow DEF NewRow, Stored, Active
  <1>4. Mirrors(memory, jobs)' /\ sameReply'
    <2>1. CASE /\ r.key = NoKey
               /\ Enqueue(id, r) /\ MemoryEnqueue(id, r, now) /\ UNCHANGED sameReply
      <3>1. jobs' = [jobs EXCEPT ![id] = NewRow(r, now)]
        BY <2>1, EnqueueInv
      <3>2. memory' = With(memory, id, JobOf(r, now))
        BY <2>1 DEF MemoryEnqueue
      <3>3. Mirrors(With(memory, id, JobOf(r, now)),
                    [jobs EXCEPT ![id] = NewRow(r, now)])
        BY <1>1, <1>3, MirrorsWith
      <3>4. Mirrors(memory', jobs')
        BY <3>1, <3>2, <3>3
      <3> QED
        BY <2>1, <3>4, MirrorsIsPrimed
    <2> QED
      BY <1>2, <2>1, BothDedup, MirrorsIsPrimed
  <1>5. StoreInv'
    BY <1>2, EnqueueInv, DedupInsertedInv, DedupReplacedInv, DedupSkippedInv
  <1>6. \A x \in JobId : \/ jobs'[x] = jobs[x]
                         \/ jobs'[x].expiresAt = Never
    <2> DEFINE kept == Purge(jobs, r.key, now)
    <2>1. /\ kept \in [JobId -> Row]
          /\ \A x \in JobId : kept[x] = jobs[x] \/ kept[x].expiresAt = Never
      BY PurgeType DEF Blank
    <2>2. \/ jobs' = [jobs EXCEPT ![id] = NewRow(r, now)]
          \/ jobs' = [kept EXCEPT ![id] = NewRow(r, now)]
          \/ \E old \in JobId :
                jobs' = [kept EXCEPT ![old] = Blank("deleted"),
                                     ![id] = NewRow(r, now)]
          \/ jobs' = kept
      <3>1. DedupReplaced(id, r) =>
               \E old \in JobId :
                  jobs' = [kept EXCEPT ![old] = Blank("deleted"),
                                       ![id] = NewRow(r, now)]
        BY DedupReplacedInv DEF Holders, Ids
      <3>2. r.key = NoKey /\ Enqueue(id, r) => jobs' = [jobs EXCEPT ![id] = NewRow(r, now)]
        BY EnqueueInv
      <3>3. DedupInserted(id, r) => jobs' = [kept EXCEPT ![id] = NewRow(r, now)]
        BY DedupInsertedInv
      <3>4. DedupSkippedDuplicate(r) \/ DedupSkippedRunning(r, id) => jobs' = kept
        BY DedupSkippedInv
      <3> HIDE DEF kept
      <3> QED
        BY <1>2, <3>1, <3>2, <3>3, <3>4
    <2>3. Blank("deleted").expiresAt = Never
      BY DEF Blank
    <2> HIDE DEF kept
    <2> QED
      BY <1>1, <1>3, <2>1, <2>2, <2>3
  <1>7. NoWindowWithoutTTL'
    BY <1>6 DEF NoWindowWithoutTTL
  <1>8. UNCHANGED reads
    BY <1>2 DEF Enqueue, DedupInserted, DedupReplaced, DedupSkippedDuplicate,
                DedupSkippedRunning, Write
  <1> QED
    BY <1>4, <1>5, <1>7, <1>8

LEMMA BothClaimAgree ==
    ASSUME StoreInv, Mirrors(memory, jobs), sameReply, NoWindowWithoutTTL,
           BothClaim
    PROVE  /\ StoreInv' /\ Mirrors(memory, jobs)' /\ sameReply'
           /\ NoWindowWithoutTTL' /\ UNCHANGED reads
  <1>0. PICK limit \in 1 .. Cardinality(JobId) :
           \E S \in ClaimSets(jobs, now, limit) :
              /\ Claim(S, limit)
              /\ MemoryClaim(S)
              /\ sameReply' = (sameReply /\ S \in ClaimableSets(limit, now))
    BY DEF BothClaim
  <1>1. PICK S \in ClaimSets(jobs, now, limit) :
           /\ Claim(S, limit)
           /\ MemoryClaim(S)
           /\ sameReply' = (sameReply /\ S \in ClaimableSets(limit, now))
    BY <1>0
  <1>2. /\ StoreInv'
        /\ S \subseteq Due(jobs, now)
        /\ jobs' = [id \in JobId |->
                      IF id \in S THEN [jobs[id] EXCEPT !.status = "running"]
                                  ELSE jobs[id]]
    BY <1>1, ClaimInv
  <1>3. limit \in Nat
    OBVIOUS
  <1>4. sameReply'
    BY <1>1, <1>3, SameClaim
  <1>5. jobs \in [JobId -> Row]
    BY DEF StoreInv, StoreTypeOK
  <1>6. \A id \in JobId :
           /\ jobs'[id].status \in Stored <=> jobs[id].status \in Stored
           /\ jobs'[id].ttl = jobs[id].ttl
           /\ jobs'[id].expiresAt = jobs[id].expiresAt
    BY <1>2, <1>5 DEF Due, Ids, Stored, Active, Row
  <1>7. memory' = [id \in DOMAIN memory |->
                     IF id \in S THEN [memory[id] EXCEPT !.status = "running"]
                                 ELSE memory[id]]
    BY <1>1 DEF MemoryClaim
  <1>8. Mirrors(memory, jobs)'
    <2>1. DOMAIN memory' = Ids(jobs', Stored)
      BY <1>6, <1>7 DEF Mirrors, Ids
    <2>2. ASSUME NEW id \in DOMAIN memory'
          PROVE  memory'[id] \in Row /\ jobs'[id] = Rounded(memory'[id])
      <3>1. /\ id \in JobId /\ id \in DOMAIN memory
            /\ memory[id] \in Row /\ jobs[id] = Rounded(memory[id])
        BY <1>7 DEF Mirrors, Ids
      <3>2. "running" \in Stored
        BY DEF Stored, Active
      <3>3. /\ Rounded([memory[id] EXCEPT !.status = "running"])
                  = [jobs[id] EXCEPT !.status = "running"]
            /\ [memory[id] EXCEPT !.status = "running"] \in Row
        BY <3>1, <3>2, RoundedStatus
      <3> QED
        BY <1>2, <1>7, <3>1, <3>3
    <2>3. Mirrors(memory', jobs')
      BY <2>1, <2>2 DEF Mirrors
    <2> QED
      BY <2>3, MirrorsIsPrimed
  <1>9. UNCHANGED reads /\ NoWindowWithoutTTL'
    BY <1>1, <1>6 DEF Claim, Write, NoWindowWithoutTTL
  <1> QED
    BY <1>2, <1>4, <1>8, <1>9

(* A call on one id: both change that row alike, or neither does. *)
LEMMA SameRowChanged ==
    ASSUME jobs \in [JobId -> Row], Mirrors(memory, jobs), NEW id \in JobId,
           NEW job \in Row, job.status \in Stored,
           \/ /\ jobs[id].status \in Stored
              /\ jobs' = [jobs EXCEPT ![id] = Rounded(job)]
              /\ memory' = [memory EXCEPT ![id] = job]
           \/ UNCHANGED <<jobs, memory>>
    PROVE  Mirrors(memory, jobs)'
  <1>1. Rounded(job).status \in Stored
    BY RoundedFields
  <1>2. Mirrors(memory', jobs')
    BY <1>1 DEF Mirrors, Ids
  <1> QED
    BY <1>2, MirrorsIsPrimed

(* An id is in the map exactly when a row matches, and its job is failed   *)
(* exactly when the row is.                                                *)
LEMMA RepliesTell ==
    ASSUME Mirrors(memory, jobs), NEW id \in JobId
    PROVE  /\ Reply(id) = "nil" <=> Matches(id)
           /\ RetryReply(id) = "nil" <=> jobs[id].status = "failed"
           /\ id \in DOMAIN memory <=> jobs[id].status \in Stored
  <1>1. id \in DOMAIN memory <=> jobs[id].status \in Stored
    BY DEF Mirrors, Ids
  <1>2. id \in DOMAIN memory => memory[id].status = jobs[id].status
    BY RoundedFields DEF Mirrors
  <1>3. "failed" \in Stored
    BY DEF Stored, Completed
  <1> QED
    BY <1>1, <1>2, <1>3 DEF Reply, RetryReply, Matches

LEMMA BothRetryAgree ==
    ASSUME StoreInv, Mirrors(memory, jobs), NEW id \in JobId, NEW t \in Int,
           \/ MarkRetry(id, t) /\ MemoryRetry(id, t)
           \/ MarkPending(id, t) /\ MemoryMarkPending(id, t)
           \/ t = now /\ RetryJob(id) /\ MemoryRetryJob(id, now)
    PROVE  /\ StoreInv' /\ Mirrors(memory, jobs)'
           /\ UNCHANGED <<reads, now>>
           /\ \A x \in JobId : /\ jobs'[x].ttl = jobs[x].ttl
                               /\ jobs'[x].expiresAt = jobs[x].expiresAt
  <1>1. /\ jobs \in [JobId -> Row] /\ jobs[id] \in Row /\ jobs[id].attempts \in Nat
        /\ id \in DOMAIN memory <=> jobs[id].status \in Stored
        /\ id \in DOMAIN memory =>
              /\ memory[id] \in Row /\ jobs[id] = Rounded(memory[id])
              /\ memory[id].attempts = jobs[id].attempts
        /\ RetryReply(id) = "nil" <=> jobs[id].status = "failed"
    BY RoundedFields, RepliesTell DEF StoreInv, StoreTypeOK, Mirrors, Row
  <1>2. StoreInv' /\ UNCHANGED <<reads, now>>
    BY MarkRetryInv, MarkPendingInv, RetryJobInv
    DEF MarkRetry, MarkPending, RetryJob, Write
  <1>3. \/ UNCHANGED <<jobs, memory>>
        \/ \E n \in Nat :
              /\ jobs[id].status \in Stored
              /\ jobs' = [jobs EXCEPT ![id] = Rescheduled(jobs[id], n, t)]
              /\ memory' = [memory EXCEPT ![id] = Rescheduled(memory[id], n, t)]
    <2>1. CASE MarkRetry(id, t) /\ MemoryRetry(id, t)
      <3> DEFINE n == jobs[id].attempts + 1
      <3>1. id \in DOMAIN memory =>
               Rescheduled(memory[id], n, t)
                  = [memory[id] EXCEPT !.attempts = @ + 1, !.status = "pending",
                                       !.runAt = t]
        BY <1>1 DEF Rescheduled, Row
      <3>2. n \in Nat
        BY <1>1
      <3>3. \/ jobs[id].status \notin Stored /\ jobs' = jobs
            \/ /\ jobs[id].status \in Stored
               /\ jobs' = [jobs EXCEPT ![id] = Rescheduled(jobs[id], n, t)]
        BY <2>1, MarkRetryInv
      <3>4. \/ id \notin DOMAIN memory /\ memory' = memory
            \/ /\ id \in DOMAIN memory
               /\ memory' = [memory EXCEPT ![id] = Rescheduled(memory[id], n, t)]
        BY <1>1, <2>1, <3>1 DEF MemoryRetry, Modify
      <3> HIDE DEF n
      <3> QED
        BY <1>1, <3>2, <3>3, <3>4
    <2>2. CASE MarkPending(id, t) /\ MemoryMarkPending(id, t)
      <3> DEFINE n == jobs[id].attempts
      <3>1. id \in DOMAIN memory =>
               Rescheduled(memory[id], n, t)
                  = [memory[id] EXCEPT !.status = "pending", !.runAt = t]
        BY <1>1 DEF Rescheduled, Row
      <3>2. n \in Nat
        BY <1>1
      <3>3. \/ jobs[id].status \notin Stored /\ jobs' = jobs
            \/ /\ jobs[id].status \in Stored
               /\ jobs' = [jobs EXCEPT ![id] = Rescheduled(jobs[id], n, t)]
        BY <2>2, MarkPendingInv
      <3>4. \/ id \notin DOMAIN memory /\ memory' = memory
            \/ /\ id \in DOMAIN memory
               /\ memory' = [memory EXCEPT ![id] = Rescheduled(memory[id], n, t)]
        BY <1>1, <2>2, <3>1 DEF MemoryMarkPending, Modify
      <3> HIDE DEF n
      <3> QED
        BY <1>1, <3>2, <3>3, <3>4
    <2>3. CASE t = now /\ RetryJob(id) /\ MemoryRetryJob(id, now)
      <3>1. id \in DOMAIN memory =>
               Rescheduled(memory[id], 0, now)
                  = [memory[id] EXCEPT !.status = "pending", !.runAt = now,
                                       !.attempts = 0]
        BY <1>1 DEF Rescheduled, Row
      <3>2. jobs[id].status = "failed" => jobs[id].status \in Stored
        BY DEF Stored, Completed
      <3>3. \/ jobs[id].status # "failed" /\ jobs' = jobs
            \/ /\ jobs[id].status = "failed"
               /\ jobs' = [jobs EXCEPT ![id] = Rescheduled(jobs[id], 0, now)]
        BY <2>3, RetryJobInv
      <3>4. \/ jobs[id].status # "failed" /\ memory' = memory
            \/ /\ jobs[id].status = "failed"
               /\ memory' = [memory EXCEPT ![id] = Rescheduled(memory[id], 0, now)]
        BY <1>1, <2>3, <3>1, <3>2 DEF MemoryRetryJob, Modify
      <3> QED
        BY <2>3, <3>2, <3>3, <3>4
    <2> QED
      BY <2>1, <2>2, <2>3
  <1>4. \A n \in Nat :
           /\ Rescheduled(jobs[id], n, t).status \in Stored
           /\ Rescheduled(jobs[id], n, t).ttl = jobs[id].ttl
           /\ Rescheduled(jobs[id], n, t).expiresAt = jobs[id].expiresAt
    BY <1>1 DEF Rescheduled, Row, Stored, Active
  <1>5. Mirrors(memory, jobs)'
    <2>1. CASE UNCHANGED <<jobs, memory>>
      BY <2>1, MirrorsPrimed
    <2>2. ASSUME NEW n \in Nat, jobs[id].status \in Stored,
                 jobs' = [jobs EXCEPT ![id] = Rescheduled(jobs[id], n, t)],
                 memory' = [memory EXCEPT ![id] = Rescheduled(memory[id], n, t)]
          PROVE  Mirrors(memory, jobs)'
      <3> DEFINE job == Rescheduled(memory[id], n, t)
      <3>1. /\ Rounded(job) = Rescheduled(jobs[id], n, t)
            /\ job \in Row
        BY <1>1, <2>2, RoundedRescheduled
      <3>2. job.status \in Stored
        BY <1>1, <2>2, RescheduledType DEF Stored, Active
      <3> HIDE DEF job
      <3>3. jobs' = [jobs EXCEPT ![id] = Rounded(job)]
        BY <2>2, <3>1
      <3>4. memory' = [memory EXCEPT ![id] = job]
        BY <2>2 DEF job
      <3> QED
        BY <1>1, <2>2, <3>1, <3>2, <3>3, <3>4, SameRowChanged
    <2> QED
      BY <1>3, <2>1, <2>2
  <1> QED
    BY <1>1, <1>2, <1>3, <1>4, <1>5

LEMMA BothRecoverAgree ==
    ASSUME StoreInv, Mirrors(memory, jobs), RecoverStuck, MemoryRecoverStuck
    PROVE  /\ StoreInv' /\ Mirrors(memory, jobs)'
           /\ UNCHANGED <<reads, now>>
           /\ \A x \in JobId : /\ jobs'[x].ttl = jobs[x].ttl
                               /\ jobs'[x].expiresAt = jobs[x].expiresAt
  <1>1. jobs \in [JobId -> Row]
    BY DEF StoreInv, StoreTypeOK
  <1>2. /\ StoreInv'
        /\ jobs' = [id \in JobId |->
                      IF jobs[id].status = "running"
                      THEN [jobs[id] EXCEPT !.status = "pending"] ELSE jobs[id]]
        /\ UNCHANGED <<reads, now>>
    BY RecoverStuckInv DEF RecoverStuck, Write
  <1>3. \A id \in JobId :
           /\ jobs'[id].status \in Stored <=> jobs[id].status \in Stored
           /\ jobs'[id].ttl = jobs[id].ttl
           /\ jobs'[id].expiresAt = jobs[id].expiresAt
    BY <1>1, <1>2 DEF Stored, Active, Row
  <1>4. Mirrors(memory', jobs')
    <2>1. DOMAIN memory' = Ids(jobs', Stored)
      BY <1>3 DEF Mirrors, Ids, MemoryRecoverStuck
    <2>2. ASSUME NEW id \in DOMAIN memory'
          PROVE  memory'[id] \in Row /\ jobs'[id] = Rounded(memory'[id])
      <3>1. /\ id \in JobId /\ id \in DOMAIN memory
            /\ memory[id] \in Row /\ jobs[id] = Rounded(memory[id])
            /\ jobs[id].status = memory[id].status
        BY RoundedFields DEF Mirrors, Ids, MemoryRecoverStuck
      <3>2. "pending" \in Stored
        BY DEF Stored, Active
      <3>3. /\ Rounded([memory[id] EXCEPT !.status = "pending"])
                  = [jobs[id] EXCEPT !.status = "pending"]
            /\ [memory[id] EXCEPT !.status = "pending"] \in Row
        BY <3>1, <3>2, RoundedStatus
      <3> QED
        BY <1>2, <3>1, <3>3 DEF MemoryRecoverStuck
    <2> QED
      BY <2>1, <2>2 DEF Mirrors
  <1> QED
    BY <1>2, <1>3, <1>4, MirrorsIsPrimed

(* The second statement of markCompleted writes what memory writes in one. *)
LEMMA BothUpdateAgree ==
    ASSUME StoreInv, Mirrors(memory, jobs), NoWindowWithoutTTL, ReadIsCurrent,
           NEW c \in Caller, MarkCompletedUpdate(c),
           MemoryComplete(reads[c].id, reads[c].status, now)
    PROVE  /\ StoreInv' /\ Mirrors(memory, jobs)' /\ NoWindowWithoutTTL'
           /\ ReadIsCurrent' /\ Reply(reads[c].id) = "nil"
  <1> DEFINE m == reads[c]
             row == jobs[m.id]
             old == memory[m.id]
             failures == IF m.status = "failed" THEN 1 ELSE 0
             new == Finished(row, m.status, row.attempts + failures, m.expiresAt)
             job == [old EXCEPT !.status = m.status,
                                !.attempts = @ + failures,
                                !.expiresAt = IF old.ttl > 0 THEN now + old.ttl
                                                             ELSE @]
  <1>1. /\ StoreInv' /\ m \in Read /\ m # NoRead
        /\ reads' = [reads EXCEPT ![c] = NoRead]
    BY MarkCompletedUpdateInv DEF MarkCompletedUpdate
  <1>2. /\ jobs \in [JobId -> Row] /\ m.id \in JobId /\ row \in Row
        /\ reads \in [Caller -> Read \cup {NoRead}]
        /\ m.status \in Completed /\ m.status \in Stored /\ now \in Nat \ {0}
    BY <1>1 DEF StoreInv, StoreTypeOK, Read, Stored
  <1>3. /\ row.status \in Stored
        /\ m.expiresAt = IF row.ttl > 0 THEN now + row.ttl ELSE Never
    BY <1>1 DEF ReadIsCurrent
  <1>4. jobs' = [jobs EXCEPT ![m.id] = new]
    BY <1>3 DEF MarkCompletedUpdate
  <1>5. /\ m.id \in DOMAIN memory /\ old \in Row /\ row = Rounded(old)
        /\ Reply(m.id) = "nil"
    BY <1>2, <1>3 DEF Mirrors, Ids, Reply
  <1>6. memory' = [memory EXCEPT ![m.id] = job]
    BY <1>5 DEF MemoryComplete, Modify
  <1>7. /\ row.attempts = old.attempts /\ row.ttl = WholeSeconds(old.ttl)
        /\ old.attempts \in Nat /\ old.ttl \in Nat /\ row.ttl \in Nat
        /\ old.expiresAt \in Nat
        /\ row.ttl = 0 <=> old.ttl = 0
        /\ row.expiresAt = Never <=> old.expiresAt = Never
    BY <1>5, RoundedFields DEF Row
  <1>8. old.ttl = 0 => row.expiresAt = Never /\ old.expiresAt = Never
    BY <1>2, <1>7 DEF NoWindowWithoutTTL
  <1>9. job \in Row /\ new = Rounded(job)
    <2> DEFINE n == old.attempts + failures
               e == IF old.ttl > 0 THEN now + old.ttl ELSE Never
    <2>1. n \in Nat /\ n = row.attempts + failures
      BY <1>7
    <2>2. e \in Nat /\ (old.ttl = 0 => old.expiresAt = Never)
      BY <1>2, <1>7, <1>8 DEF Never
    <2>3. m.expiresAt = IF e = Never THEN Never
                        ELSE e + WholeSeconds(old.ttl) - old.ttl
      BY <1>2, <1>3, <1>7 DEF Never
    <2>4. job = [old EXCEPT !.status = m.status, !.attempts = n, !.expiresAt = e]
      <3>1. (IF old.ttl > 0 THEN now + old.ttl ELSE old.expiresAt) = e
        BY <1>7, <2>2
      <3> HIDE DEF e
      <3> QED
        BY <3>1
    <2> HIDE DEF n, e, job, failures
    <2>5. job = Finished(old, m.status, n, e)
      BY <2>4 DEF Finished
    <2>6. Rounded(job) = Finished(row, m.status, n, m.expiresAt) /\ job \in Row
      BY <1>2, <1>5, <2>1, <2>2, <2>3, <2>5, RoundedFinished
    <2> QED
      BY <2>1, <2>6
  <1>10. /\ job.status \in Stored /\ new.ttl = row.ttl
         /\ (row.ttl = 0 => new.expiresAt = Never)
    <2>1. new.ttl = row.ttl /\ new.expiresAt = m.expiresAt
      BY <1>2 DEF Finished, Row
    <2>2. job.status = m.status
      BY <1>5 DEF Row
    <2> QED
      BY <1>2, <1>3, <2>1, <2>2
  <1> HIDE DEF new, job
  <1>11. Mirrors(memory, jobs)'
    BY <1>2, <1>3, <1>4, <1>6, <1>9, <1>10, SameRowChanged
  <1>12. NoWindowWithoutTTL'
    BY <1>2, <1>4, <1>10 DEF NoWindowWithoutTTL
  <1>13. \A d \in Caller : reads'[d] = NoRead
    BY <1>1, <1>2 DEF ReadIsCurrent
  <1>14. ReadIsCurrent'
    BY <1>13 DEF ReadIsCurrent
  <1> QED
    BY <1>1, <1>5, <1>11, <1>12, <1>14

(* Between the two statements nothing has happened to memory yet. *)
LEMMA BothSelectAgree ==
    ASSUME StoreInv, Mirrors(memory, jobs), NoWindowWithoutTTL,
           \A c \in Caller : reads[c] = NoRead,
           NEW c \in Caller, NEW id \in JobId, NEW s \in Completed,
           MarkCompletedSelect(c, id, s), UNCHANGED memory
    PROVE  /\ StoreInv' /\ Mirrors(memory, jobs)' /\ NoWindowWithoutTTL'
           /\ ReadIsCurrent'
  <1> DEFINE m == [id |-> id, status |-> s,
                   expiresAt |-> IF jobs[id].ttl > 0 THEN now + jobs[id].ttl
                                                     ELSE Never]
  <1>1. /\ jobs[id].status \in Stored
        /\ reads' = [reads EXCEPT ![c] = m]
        /\ UNCHANGED <<jobs, now>>
    BY DEF MarkCompletedSelect
  <1>2. StoreInv'
    BY MarkCompletedSelectInv
  <1>3. Mirrors(memory, jobs)'
    BY <1>1, MirrorsPrimed
  <1>4. NoWindowWithoutTTL'
    BY <1>1 DEF NoWindowWithoutTTL
  <1>5. \A d \in Caller : reads'[d] = IF d = c THEN m ELSE NoRead
    BY <1>1 DEF StoreInv, StoreTypeOK
  <1>6. m.id = id
        /\ m.expiresAt = IF jobs[id].ttl > 0 THEN now + jobs[id].ttl ELSE Never
    OBVIOUS
  <1> HIDE DEF m
  <1>7. ReadIsCurrent'
    BY <1>1, <1>5, <1>6 DEF ReadIsCurrent
  <1> QED
    BY <1>2, <1>3, <1>4, <1>7

(* Neither storage has the row: both calls do nothing. *)
LEMMA BothMissingAgree ==
    ASSUME StoreInv, Mirrors(memory, jobs), NEW id \in JobId,
           NEW s \in Completed,
           MarkCompletedMissing(id), MemoryComplete(id, s, now)
    PROVE  /\ UNCHANGED <<jobs, now, reads, refused, memory>>
           /\ Reply(id) # "nil"
  BY DEF MarkCompletedMissing, MemoryComplete, Modify, Mirrors, Ids, storeVars,
         Reply

-----------------------------------------------------------------------------
LEMMA MirrorInitInv == MirrorInit => MirrorInv
  <1> SUFFICES ASSUME MirrorInit PROVE MirrorInv
    OBVIOUS
  <1>1. StoreInv
    BY StoreInitInv DEF MirrorInit
  <1>2. \A id \in JobId : /\ jobs[id].status \notin Stored
                          /\ jobs[id].expiresAt = Never
    BY DEF MirrorInit, StoreInit, Blank, Stored, Active, Completed
  <1>3. Mirrors(memory, jobs)
    BY <1>2 DEF MirrorInit, MemoryInit, Mirrors, Ids
  <1>4. ReadIsCurrent
    BY DEF MirrorInit, StoreInit, ReadIsCurrent
  <1>5. NoWindowWithoutTTL
    BY <1>2 DEF NoWindowWithoutTTL
  <1> QED
    BY <1>1, <1>3, <1>4, <1>5 DEF MirrorInv, MirrorInit

(* No call that is followed breaks the agreement. *)
LEMMA FollowedAgree ==
    ASSUME MirrorInv, Followed
    PROVE  MirrorInv'
  <1>1. /\ StoreInv /\ Mirrors(memory, jobs) /\ sameReply /\ NoWindowWithoutTTL
        /\ followed = TRUE /\ followed' = TRUE
        /\ \A c \in Caller : reads[c] = NoRead
        /\ now \in Int /\ now + 1 \in Int
    BY DEF Followed, Alone, MirrorInv, StoreInv, StoreTypeOK
  <1>2. ASSUME StoreInv', Mirrors(memory, jobs)', sameReply', NoWindowWithoutTTL',
               \/ ReadIsCurrent'
               \/ UNCHANGED reads
        PROVE  MirrorInv'
    <2>1. ReadIsCurrent'
      BY <1>1, <1>2 DEF ReadIsCurrent
    <2> QED
      BY <1>1, <1>2, <2>1 DEF MirrorInv
  <1>3. CASE BothEnqueue
    BY <1>1, <1>2, <1>3, BothEnqueueAgree
  <1>4. CASE BothClaim
    BY <1>1, <1>2, <1>4, BothClaimAgree
  <1>5. ASSUME sameReply', StoreInv', Mirrors(memory, jobs)',
               UNCHANGED <<reads, now>>,
               \A x \in JobId : /\ jobs'[x].ttl = jobs[x].ttl
                                /\ jobs'[x].expiresAt = jobs[x].expiresAt
        PROVE  MirrorInv'
    <2>1. NoWindowWithoutTTL'
      BY <1>1, <1>5 DEF NoWindowWithoutTTL
    <2> QED
      BY <1>1, <1>2, <1>5, <2>1
  <1>6. CASE BothMark
    <2>1. PICK id \in JobId :
             \/ /\ MarkRetry(id, now + 1) /\ MemoryRetry(id, now + 1)
                /\ Answer(Reply(id), Matches(id))
             \/ /\ \E c \in Caller, s \in Completed : MarkCompletedSelect(c, id, s)
                /\ UNCHANGED <<memory, sameReply>>
             \/ /\ MarkCompletedMissing(id)
                /\ \E s \in Completed : MemoryComplete(id, s, now)
                /\ Answer(Reply(id), FALSE)
      BY <1>6 DEF BothMark
    <2>2. Reply(id) = "nil" <=> Matches(id)
      BY <1>1, RepliesTell
    <2>3. CASE /\ MarkRetry(id, now + 1) /\ MemoryRetry(id, now + 1)
               /\ Answer(Reply(id), Matches(id))
      <3>1. sameReply'
        BY <1>1, <2>2, <2>3 DEF Answer
      <3> QED
        BY <1>1, <1>5, <2>3, <3>1, BothRetryAgree
    <2>4. CASE /\ \E c \in Caller, s \in Completed : MarkCompletedSelect(c, id, s)
               /\ UNCHANGED <<memory, sameReply>>
      BY <1>1, <1>2, <2>4, BothSelectAgree
    <2>5. CASE /\ MarkCompletedMissing(id)
               /\ \E s \in Completed : MemoryComplete(id, s, now)
               /\ Answer(Reply(id), FALSE)
      <3>1. /\ UNCHANGED <<jobs, now, reads, refused, memory>>
            /\ Reply(id) # "nil"
        BY <1>1, <2>5, BothMissingAgree
      <3>2. sameReply'
        BY <1>1, <2>5, <3>1 DEF Answer
      <3>3. Mirrors(memory, jobs)'
        BY <1>1, <3>1, MirrorsPrimed
      <3>4. StoreInv'
        BY <1>1, <3>1
        DEF StoreInv, StoreTypeOK, OneRowPerKey, OneHolder, Ids
      <3> QED
        BY <1>5, <3>1, <3>2, <3>3, <3>4
    <2> QED
      BY <2>1, <2>3, <2>4, <2>5
  <1>7. CASE BothReset
    <2>1. CASE RecoverStuck /\ MemoryRecoverStuck /\ UNCHANGED sameReply
      BY <1>1, <1>5, <2>1, BothRecoverAgree
    <2>2. ASSUME NEW id \in JobId,
                 \/ /\ MarkPending(id, now) /\ MemoryMarkPending(id, now)
                    /\ Answer(Reply(id), Matches(id))
                 \/ /\ RetryJob(id) /\ MemoryRetryJob(id, now)
                    /\ Answer(RetryReply(id), jobs[id].status = "failed")
          PROVE  MirrorInv'
      <3>1. /\ Reply(id) = "nil" <=> Matches(id)
            /\ RetryReply(id) = "nil" <=> jobs[id].status = "failed"
        BY <1>1, RepliesTell
      <3>2. sameReply'
        BY <1>1, <2>2, <3>1 DEF Answer
      <3> QED
        BY <1>1, <1>5, <2>2, <3>2, BothRetryAgree
    <2> QED
      BY <1>7, <2>1, <2>2 DEF BothReset
  <1>8. CASE Tick /\ UNCHANGED <<memory, sameReply>>
    <2>1. StoreInv' /\ UNCHANGED <<jobs, reads>>
      BY <1>1, <1>8, TickInv
    <2>2. Mirrors(memory, jobs)'
      BY <1>1, <1>8, <2>1, MirrorsPrimed
    <2>3. NoWindowWithoutTTL'
      BY <1>1, <2>1 DEF NoWindowWithoutTTL
    <2> QED
      BY <1>1, <1>2, <1>8, <2>1, <2>2, <2>3
  <1> QED
    BY <1>3, <1>4, <1>6, <1>7, <1>8 DEF Followed

(***************************************************************************)
(* Seen without the map, both storages under the same calls are SQLite     *)
(* under the callers of AnyCaller.                                         *)
(***************************************************************************)
LEMMA MirrorStepIsStoreStep ==
    [MirrorNext]_mirrorVars => [StoreNext]_storeVars
  <1>1. BothEnqueue => AnyEnqueue
    BY DEF BothEnqueue, AnyEnqueue, AnyDedup
  <1>2. BothClaim => AnyClaim
    BY DEF BothClaim, AnyClaim
  <1>3. BothMark => AnyMark
    BY DEF BothMark, AnyMark
  <1>4. BothReset => AnyReset
    BY DEF BothReset, AnyReset
  <1>5. BothUpdate => AnyUpdate
    BY DEF BothUpdate, AnyUpdate
  <1>6. Followed => Begin
    BY <1>1, <1>2, <1>3, <1>4 DEF Followed, Begin
  <1>7. Unfollowed => StoreNext
    BY DEF Unfollowed, Diverging, StoreNext, Begin, AnyEnqueue
  <1>8. UNCHANGED mirrorVars => UNCHANGED storeVars
    BY DEF mirrorVars
  <1> QED
    BY <1>5, <1>6, <1>7, <1>8 DEF MirrorNext, StoreNext

LEMMA MirrorInvInductive == MirrorInv /\ [MirrorNext]_mirrorVars => MirrorInv'
  <1> SUFFICES ASSUME MirrorInv, [MirrorNext]_mirrorVars PROVE MirrorInv'
    OBVIOUS
  <1>1. StoreInv'
    BY MirrorStepIsStoreStep, StoreInvInductive DEF MirrorInv
  <1>2. CASE Followed
    BY <1>2, FollowedAgree
  <1>3. CASE BothUpdate
    <2>1. /\ StoreInv /\ Mirrors(memory, jobs) /\ sameReply
          /\ NoWindowWithoutTTL /\ ReadIsCurrent
          /\ followed' = followed /\ followed \in BOOLEAN
      BY <1>3 DEF BothUpdate, MirrorInv
    <2>2. PICK c \in Caller :
             /\ MarkCompletedUpdate(c)
             /\ MemoryComplete(reads[c].id, reads[c].status, now)
             /\ Answer(Reply(reads[c].id), TRUE)
      BY <1>3 DEF BothUpdate
    <2>3. /\ Mirrors(memory, jobs)' /\ NoWindowWithoutTTL' /\ ReadIsCurrent'
          /\ Reply(reads[c].id) = "nil"
      BY <2>1, <2>2, BothUpdateAgree
    <2>4. sameReply'
      BY <2>1, <2>2, <2>3 DEF Answer
    <2> QED
      BY <1>1, <2>1, <2>3, <2>4 DEF MirrorInv
  <1>4. CASE Unfollowed
    BY <1>1, <1>4 DEF Unfollowed, MirrorInv
  <1>5. CASE UNCHANGED mirrorVars
    <2>1. UNCHANGED <<jobs, now, reads, memory, followed, sameReply>>
      BY <1>5 DEF mirrorVars, storeVars
    <2>2. Mirrors(memory, jobs) => Mirrors(memory, jobs)'
      BY <2>1, MirrorsPrimed
    <2>3. /\ NoWindowWithoutTTL => NoWindowWithoutTTL'
          /\ ReadIsCurrent => ReadIsCurrent'
      BY <2>1 DEF NoWindowWithoutTTL, ReadIsCurrent
    <2> QED
      BY <1>1, <2>1, <2>2, <2>3 DEF MirrorInv
  <1> QED
    BY <1>2, <1>3, <1>4, <1>5 DEF MirrorNext

LEMMA MirrorInvariant == MirrorSpec => []MirrorInv
  <1> QED
    BY MirrorInitInv, MirrorInvInductive, PTL DEF MirrorSpec

(* What holds of SQLiteStorage under the callers of AnyCaller holds of it  *)
(* when its calls are made on the map of memory.go as well.                *)
THEOREM MirrorImplementsStore == MirrorSpec => StoreSpec
  <1>1. MirrorInit => StoreInit
    BY DEF MirrorInit
  <1> QED
    BY <1>1, MirrorStepIsStoreStep, PTL DEF MirrorSpec, StoreSpec

(* MemoryStorage mirrors SQLiteStorage (memory.go): as long as no two      *)
(* calls overlap and no EnqueueDedup falls into the time by which rounding *)
(* lengthens a window, both hold the same jobs with the same contents but  *)
(* for that rounding, every EnqueueDedup and Claim had the same outcome,   *)
(* and memory answered with an error exactly where SQLite matched no row;  *)
(* for any sequence of calls and any number of jobs, keys and TTLs.        *)
THEOREM MirrorStoragesAgree == MirrorSpec => []StoragesAgree
  <1>1. MirrorInv => StoragesAgree
    BY DEF MirrorInv, StoragesAgree, Mirrors, SameRows
  <1> QED
    BY <1>1, MirrorInvariant, PTL

(* MemoryStorage, which has no unique index, keeps its entries well formed *)
(* and holds no two of one key (EnqueueDedup of memory.go), as long as its *)
(* calls are followed.                                                     *)
MemoryOneHolder ==
    \A i, j \in DOMAIN memory :
        memory[i].key # NoKey /\ memory[i].key = memory[j].key => i = j

THEOREM MemoryOneEntryPerKey ==
    MirrorSpec => [](followed => MemoryTypeOK /\ MemoryOneHolder)
  <1>1. MirrorInv => (followed => MemoryTypeOK /\ MemoryOneHolder)
    <2> SUFFICES ASSUME MirrorInv, followed
                 PROVE  MemoryTypeOK /\ MemoryOneHolder
      OBVIOUS
    <2>1. Mirrors(memory, jobs) /\ OneHolder(jobs)
      BY DEF MirrorInv, StoreInv, OneRowPerKey
    <2>2. \A id \in DOMAIN memory :
             /\ memory[id] \in Row
             /\ jobs[id].status = memory[id].status
             /\ jobs[id].key = memory[id].key
      BY <2>1, RoundedFields DEF Mirrors
    <2> QED
      BY <2>1, <2>2 DEF Mirrors, OneHolder, MemoryTypeOK, MemoryOneHolder, Ids
  <1> QED
    BY <1>1, MirrorInvariant, PTL

=============================================================================
