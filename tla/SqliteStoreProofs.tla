-------------------------- MODULE SqliteStoreProofs --------------------------
(***************************************************************************)
(* What each operation of SqliteStore preserves, for every value of the    *)
(* constants.  The lemmas are about single operations, so that the proofs  *)
(* of AnyCaller and WorkerPool, which compose them, both cite them.        *)
(***************************************************************************)
EXTENDS SqliteStore, TLAPS

StoreInv == StoreTypeOK /\ OneRowPerKey /\ ~refused

(* Rounding a TTL up to whole seconds never shortens it and adds less than *)
(* a second; no TTL stays no TTL.                                          *)
LEMMA WholeSecondsRoundsUp ==
    ASSUME NEW ttl \in Nat
    PROVE  /\ WholeSeconds(ttl) \in Nat
           /\ ttl <= WholeSeconds(ttl)
           /\ WholeSeconds(ttl) < ttl + Second
           /\ WholeSeconds(ttl) = 0 <=> ttl = 0
  <1> DEFINE q == (ttl + Second - 1) \div Second
  <1>1. /\ q \in Nat
        /\ Second * q <= ttl + Second - 1
        /\ ttl + Second - 1 < Second * q + Second
    BY SecondAssumption, SMTT(30)
  <1> HIDE DEF q
  <1>2. WholeSeconds(ttl) = Second * q
    BY DEF WholeSeconds, q
  <1>3. Second * q \in Nat
    BY <1>1, SecondAssumption
  <1>4. ttl = 0 => q = 0
    <2>1. q >= 1 => Second * q >= Second
      BY <1>1, SecondAssumption
    <2> QED
      BY <1>1, <1>3, <2>1, SecondAssumption
  <1>5. ttl = 0 => Second * q = 0
    BY <1>4, SecondAssumption
  <1> QED
    BY <1>1, <1>2, <1>3, <1>5, SecondAssumption

LEMMA BlankType ==
    ASSUME NEW s \in Status
    PROVE  Blank(s) \in Row
  BY DEF Blank, Row, Never

LEMMA NewRowType ==
    ASSUME NEW r \in Request, NEW t \in Nat
    PROVE  /\ NewRow(r, t) \in Row
           /\ NewRow(r, t).status = "pending"
           /\ NewRow(r, t).key = r.key
  <1>1. r \in RequestType
    BY RequestAssumption
  <1>2. WholeSeconds(r.ttl) \in Nat
    BY <1>1, WholeSecondsRoundsUp DEF RequestType
  <1> QED
    BY <1>1, <1>2
    DEF NewRow, Row, RequestType, Status, Stored, Active, Never

LEMMA RescheduledType ==
    ASSUME NEW row \in Row, NEW n \in Nat, NEW t \in Int
    PROVE  /\ Rescheduled(row, n, t) \in Row
           /\ Rescheduled(row, n, t).status = "pending"
           /\ Rescheduled(row, n, t).key = row.key
  BY DEF Rescheduled, Row, Status, Stored, Active

LEMMA FinishedType ==
    ASSUME NEW row \in Row, NEW s \in Completed, NEW n \in Nat, NEW e \in Nat
    PROVE  /\ Finished(row, s, n, e) \in Row
           /\ Finished(row, s, n, e).status = s
           /\ Finished(row, s, n, e).key = row.key
  BY DEF Finished, Row, Status, Stored

(* One holder per key is more than the unique index asks for. *)
LEMMA OneHolderUnique ==
    ASSUME NEW tbl, OneHolder(tbl)
    PROVE  ActiveKeysUnique(tbl)
  BY DEF OneHolder, ActiveKeysUnique, Ids, Stored

(***************************************************************************)
(* A table with one holder per key is written, and not refused.            *)
(***************************************************************************)
LEMMA WriteOneHolder ==
    ASSUME StoreInv, NEW tbl \in [JobId -> Row], OneHolder(tbl), Write(tbl)
    PROVE  StoreInv' /\ jobs' = tbl
  BY OneHolderUnique
  DEF StoreInv, StoreTypeOK, OneRowPerKey, OneHolder, Ids, Write

(***************************************************************************)
(* A table whose rows are those of `jobs' with the same key, some of them  *)
(* deleted, has at most one holder per key.                                *)
(***************************************************************************)
LEMMA SameHolders ==
    ASSUME OneHolder(jobs), NEW tbl,
           \A id \in JobId :
              tbl[id].status \in Stored =>
                  jobs[id].status \in Stored /\ tbl[id].key = jobs[id].key
    PROVE  OneHolder(tbl)
  BY DEF OneHolder, Ids

LEMMA PurgeType ==
    ASSUME StoreInv, NEW k, NEW t
    PROVE  /\ Purge(jobs, k, t) \in [JobId -> Row]
           /\ OneHolder(Purge(jobs, k, t))
           /\ \A id \in JobId :
                 \/ Purge(jobs, k, t)[id] = jobs[id]
                 \/ /\ Purge(jobs, k, t)[id] = Blank("deleted")
                    /\ id \in Lapsed(jobs, k, t)
  <1> DEFINE tbl == Purge(jobs, k, t)
  <1>1. \A id \in JobId :
           tbl[id] = IF id \in Lapsed(jobs, k, t) THEN Blank("deleted")
                                                  ELSE jobs[id]
    BY DEF Purge
  <1>2. Blank("deleted") \in Row /\ Blank("deleted").status \notin Stored
    BY BlankType DEF Status, Blank, Stored, Active, Completed
  <1>3. tbl \in [JobId -> Row]
    BY <1>2 DEF Purge, StoreInv, StoreTypeOK
  <1>4. OneHolder(tbl)
    BY <1>1, <1>2, SameHolders DEF StoreInv, OneRowPerKey
  <1> QED
    BY <1>1, <1>3, <1>4

-----------------------------------------------------------------------------
LEMMA StoreInitInv == StoreInit => StoreInv
  <1> SUFFICES ASSUME StoreInit PROVE StoreInv
    OBVIOUS
  <1>1. Blank("absent") \in Row /\ Blank("absent").status \notin Stored
    BY BlankType DEF Status, Blank, Stored, Active, Completed
  <1>2. jobs \in [JobId -> Row]
    BY <1>1 DEF StoreInit
  <1>3. reads \in [Caller -> Read \cup {NoRead}]
    BY DEF StoreInit
  <1>4. now \in Nat \ {0}
    BY DEF StoreInit
  <1>5. OneRowPerKey
    BY <1>1 DEF StoreInit, OneRowPerKey, OneHolder, Ids
  <1>6. refused \in BOOLEAN /\ ~refused
    BY DEF StoreInit
  <1> QED
    BY <1>2, <1>3, <1>4, <1>5, <1>6 DEF StoreInv, StoreTypeOK

(* A job without a key; one with a key may be refused by the index. *)
LEMMA EnqueueInv ==
    ASSUME StoreInv, NEW id \in JobId, NEW r \in Request,
           r.key = NoKey, Enqueue(id, r)
    PROVE  StoreInv' /\ jobs' = [jobs EXCEPT ![id] = NewRow(r, now)]
  <1> DEFINE tbl == [jobs EXCEPT ![id] = NewRow(r, now)]
  <1>1. /\ NewRow(r, now) \in Row
        /\ NewRow(r, now).key = NoKey
    BY NewRowType DEF StoreInv, StoreTypeOK, Enqueue
  <1>2. tbl \in [JobId -> Row]
    BY <1>1 DEF StoreInv, StoreTypeOK
  <1>3. OneHolder(tbl)
    BY <1>1 DEF StoreInv, StoreTypeOK, OneRowPerKey, OneHolder, Ids
  <1> QED
    BY <1>2, <1>3, WriteOneHolder DEF Enqueue

LEMMA DedupInsertedInv ==
    ASSUME StoreInv, NEW id \in JobId, NEW r \in Request, DedupInserted(id, r)
    PROVE  /\ StoreInv'
           /\ jobs' = [Purge(jobs, r.key, now) EXCEPT ![id] = NewRow(r, now)]
  <1> DEFINE kept == Purge(jobs, r.key, now)
             tbl == [kept EXCEPT ![id] = NewRow(r, now)]
  <1>1. NewRow(r, now) \in Row /\ NewRow(r, now).key = r.key
    BY NewRowType DEF StoreInv, StoreTypeOK
  <1>2. kept \in [JobId -> Row] /\ OneHolder(kept)
    BY PurgeType
  <1>3. \A other \in JobId : kept[other].status \in Stored =>
                                kept[other].key # r.key
    BY DEF DedupInserted, Holders, Ids
  <1> HIDE DEF kept
  <1>4. tbl \in [JobId -> Row]
    BY <1>1, <1>2
  <1>5. OneHolder(tbl)
    BY <1>1, <1>2, <1>3 DEF OneHolder, Ids
  <1>6. Write(tbl)
    BY DEF DedupInserted, kept
  <1> QED
    BY <1>4, <1>5, <1>6, WriteOneHolder DEF kept

LEMMA DedupReplacedInv ==
    ASSUME StoreInv, NEW id \in JobId, NEW r \in Request, DedupReplaced(id, r)
    PROVE  /\ StoreInv'
           /\ \E old \in Holders(Purge(jobs, r.key, now), r.key) :
                 /\ Purge(jobs, r.key, now)[old].status # "running"
                 /\ jobs' = [Purge(jobs, r.key, now)
                                EXCEPT ![old] = Blank("deleted"),
                                       ![id] = NewRow(r, now)]
  <1> DEFINE kept == Purge(jobs, r.key, now)
  <1>1. NewRow(r, now) \in Row /\ NewRow(r, now).key = r.key
    BY NewRowType DEF StoreInv, StoreTypeOK
  <1>2. kept \in [JobId -> Row] /\ OneHolder(kept)
    BY PurgeType
  <1>3. PICK old \in Blocking(kept, r.key) :
           /\ kept[old].status # "running"
           /\ Write([kept EXCEPT ![old] = Blank("deleted"),
                                 ![id] = NewRow(r, now)])
    BY DEF DedupReplaced
  <1> DEFINE tbl == [kept EXCEPT ![old] = Blank("deleted"),
                                 ![id] = NewRow(r, now)]
  <1>4. /\ old \in Holders(kept, r.key)
        /\ old \in JobId
        /\ kept[old].status \in Stored
        /\ kept[old].key = r.key
    BY <1>3 DEF Blocking, Holders, Ids
  <1>5. r.key # NoKey
    BY DEF DedupReplaced
  <1>6. Blank("deleted") \in Row /\ Blank("deleted").status \notin Stored
    BY BlankType DEF Status, Blank, Stored, Active, Completed
  <1> HIDE DEF kept
  <1>7. tbl \in [JobId -> Row]
    BY <1>1, <1>2, <1>6
  <1>8. \A other \in JobId :
           tbl[other].status \in Stored /\ tbl[other].key = r.key
           => other = id
    BY <1>1, <1>2, <1>4, <1>5, <1>6 DEF OneHolder, Ids
  <1>9. \A other \in JobId \ {id} :
           tbl[other].status \in Stored =>
               kept[other].status \in Stored /\ tbl[other].key = kept[other].key
    BY <1>1, <1>2, <1>4, <1>6
  <1>10. tbl[id].key = r.key
    BY <1>1, <1>2
  <1>11. OneHolder(tbl)
    BY <1>2, <1>8, <1>9, <1>10 DEF OneHolder, Ids
  <1>12. StoreInv' /\ jobs' = tbl
    BY <1>3, <1>7, <1>11, WriteOneHolder
  <1> QED
    BY <1>3, <1>4, <1>12 DEF kept

LEMMA DedupSkippedInv ==
    ASSUME StoreInv, NEW r \in Request,
           \/ DedupSkippedDuplicate(r)
           \/ \E by \in JobId : DedupSkippedRunning(r, by)
    PROVE  StoreInv' /\ jobs' = Purge(jobs, r.key, now)
  <1> DEFINE kept == Purge(jobs, r.key, now)
  <1>1. kept \in [JobId -> Row] /\ OneHolder(kept)
    BY PurgeType
  <1>2. Write(kept)
    BY DEF DedupSkippedDuplicate, DedupSkippedRunning
  <1> HIDE DEF kept
  <1>3. StoreInv' /\ jobs' = kept
    BY <1>1, <1>2, WriteOneHolder
  <1> QED
    BY <1>3 DEF kept

LEMMA ClaimInv ==
    ASSUME StoreInv, NEW S, NEW limit, Claim(S, limit)
    PROVE  /\ StoreInv'
           /\ S \subseteq Due(jobs, now)
           /\ Cardinality(S) <= limit
           /\ jobs' = [id \in JobId |->
                         IF id \in S THEN [jobs[id] EXCEPT !.status = "running"]
                                     ELSE jobs[id]]
  <1> DEFINE tbl == [id \in JobId |->
                        IF id \in S THEN [jobs[id] EXCEPT !.status = "running"]
                                    ELSE jobs[id]]
  <1>1. S \subseteq Due(jobs, now) /\ Cardinality(S) <= limit
    BY DEF Claim, ClaimSets
  <1>2. tbl \in [JobId -> Row]
    BY DEF StoreInv, StoreTypeOK, Row, Status, Stored, Active
  <1>3. \A id \in JobId :
           tbl[id].status \in Stored =>
               jobs[id].status \in Stored /\ tbl[id].key = jobs[id].key
    BY <1>1 DEF Due, Ids, Stored, Active, StoreInv, StoreTypeOK, Row
  <1>4. OneHolder(tbl)
    BY <1>3, SameHolders DEF StoreInv, OneRowPerKey
  <1>5. Write(tbl)
    BY DEF Claim
  <1> QED
    BY <1>1, <1>2, <1>4, <1>5, WriteOneHolder

LEMMA OneRowChanged ==
    ASSUME StoreInv, NEW id \in JobId, NEW new \in Row,
           jobs[id].status \in Stored, new.key = jobs[id].key
    PROVE  /\ [jobs EXCEPT ![id] = new] \in [JobId -> Row]
           /\ OneHolder([jobs EXCEPT ![id] = new])
  <1> DEFINE tbl == [jobs EXCEPT ![id] = new]
  <1>1. tbl \in [JobId -> Row]
    BY DEF StoreInv, StoreTypeOK
  <1>2. \A other \in JobId :
           tbl[other].status \in Stored =>
              jobs[other].status \in Stored /\ tbl[other].key = jobs[other].key
    BY DEF StoreInv, StoreTypeOK
  <1> QED
    BY <1>1, <1>2, SameHolders DEF StoreInv, OneRowPerKey

LEMMA MarkRetryInv ==
    ASSUME StoreInv, NEW id \in JobId, NEW retryAt \in Int,
           MarkRetry(id, retryAt)
    PROVE  /\ StoreInv'
           /\ jobs' = IF jobs[id].status \in Stored
                      THEN [jobs EXCEPT ![id] = Rescheduled(@, @.attempts + 1, retryAt)]
                      ELSE jobs
  <1> DEFINE new == Rescheduled(jobs[id], jobs[id].attempts + 1, retryAt)
  <1>1. CASE jobs[id].status \in Stored
    <2>1. new \in Row /\ new.key = jobs[id].key
      <3>1. jobs[id] \in Row /\ now \in Int
        BY DEF StoreInv, StoreTypeOK
      <3>2. jobs[id].attempts \in Nat /\ jobs[id].attempts + 1 \in Nat
        BY <3>1 DEF Row
      <3> QED
        BY <3>1, <3>2, RescheduledType
    <2>2. Write([jobs EXCEPT ![id] = new])
      BY <1>1 DEF MarkRetry
    <2>3. jobs[id].status \in Stored
      BY <1>1 DEF Stored, Completed
    <2> HIDE DEF new
    <2>4. /\ [jobs EXCEPT ![id] = new] \in [JobId -> Row]
          /\ OneHolder([jobs EXCEPT ![id] = new])
      BY <2>1, <2>3, OneRowChanged
    <2>5. StoreInv' /\ jobs' = [jobs EXCEPT ![id] = new]
      BY <2>2, <2>4, WriteOneHolder
    <2> QED
      BY <1>1, <2>5 DEF new
  <1>2. CASE ~(jobs[id].status \in Stored)
    <2>1. Write(jobs)
      BY <1>2 DEF MarkRetry
    <2>2. jobs \in [JobId -> Row] /\ OneHolder(jobs)
      BY DEF StoreInv, StoreTypeOK, OneRowPerKey
    <2> QED
      BY <1>2, <2>1, <2>2, WriteOneHolder
  <1> QED
    BY <1>1, <1>2

LEMMA MarkPendingInv ==
    ASSUME StoreInv, NEW id \in JobId, NEW runAt \in Int,
           MarkPending(id, runAt)
    PROVE  /\ StoreInv'
           /\ jobs' = IF jobs[id].status \in Stored
                      THEN [jobs EXCEPT ![id] = Rescheduled(@, @.attempts, runAt)]
                      ELSE jobs
  <1> DEFINE new == Rescheduled(jobs[id], jobs[id].attempts, runAt)
  <1>1. CASE jobs[id].status \in Stored
    <2>1. new \in Row /\ new.key = jobs[id].key
      <3>1. jobs[id] \in Row /\ now \in Int
        BY DEF StoreInv, StoreTypeOK
      <3>2. jobs[id].attempts \in Nat /\ jobs[id].attempts + 1 \in Nat
        BY <3>1 DEF Row
      <3> QED
        BY <3>1, <3>2, RescheduledType
    <2>2. Write([jobs EXCEPT ![id] = new])
      BY <1>1 DEF MarkPending
    <2>3. jobs[id].status \in Stored
      BY <1>1 DEF Stored, Completed
    <2> HIDE DEF new
    <2>4. /\ [jobs EXCEPT ![id] = new] \in [JobId -> Row]
          /\ OneHolder([jobs EXCEPT ![id] = new])
      BY <2>1, <2>3, OneRowChanged
    <2>5. StoreInv' /\ jobs' = [jobs EXCEPT ![id] = new]
      BY <2>2, <2>4, WriteOneHolder
    <2> QED
      BY <1>1, <2>5 DEF new
  <1>2. CASE ~(jobs[id].status \in Stored)
    <2>1. Write(jobs)
      BY <1>2 DEF MarkPending
    <2>2. jobs \in [JobId -> Row] /\ OneHolder(jobs)
      BY DEF StoreInv, StoreTypeOK, OneRowPerKey
    <2> QED
      BY <1>2, <2>1, <2>2, WriteOneHolder
  <1> QED
    BY <1>1, <1>2

LEMMA RetryJobInv ==
    ASSUME StoreInv, NEW id \in JobId, RetryJob(id)
    PROVE  /\ StoreInv'
           /\ jobs' = IF jobs[id].status = "failed"
                      THEN [jobs EXCEPT ![id] = Rescheduled(@, 0, now)]
                      ELSE jobs
  <1> DEFINE new == Rescheduled(jobs[id], 0, now)
  <1>1. CASE jobs[id].status = "failed"
    <2>1. new \in Row /\ new.key = jobs[id].key
      <3>1. jobs[id] \in Row /\ now \in Int
        BY DEF StoreInv, StoreTypeOK
      <3>2. jobs[id].attempts \in Nat /\ jobs[id].attempts + 1 \in Nat
        BY <3>1 DEF Row
      <3> QED
        BY <3>1, <3>2, RescheduledType
    <2>2. Write([jobs EXCEPT ![id] = new])
      BY <1>1 DEF RetryJob
    <2>3. jobs[id].status \in Stored
      BY <1>1 DEF Stored, Completed
    <2> HIDE DEF new
    <2>4. /\ [jobs EXCEPT ![id] = new] \in [JobId -> Row]
          /\ OneHolder([jobs EXCEPT ![id] = new])
      BY <2>1, <2>3, OneRowChanged
    <2>5. StoreInv' /\ jobs' = [jobs EXCEPT ![id] = new]
      BY <2>2, <2>4, WriteOneHolder
    <2> QED
      BY <1>1, <2>5 DEF new
  <1>2. CASE ~(jobs[id].status = "failed")
    <2>1. Write(jobs)
      BY <1>2 DEF RetryJob
    <2>2. jobs \in [JobId -> Row] /\ OneHolder(jobs)
      BY DEF StoreInv, StoreTypeOK, OneRowPerKey
    <2> QED
      BY <1>2, <2>1, <2>2, WriteOneHolder
  <1> QED
    BY <1>1, <1>2

LEMMA RecoverStuckInv ==
    ASSUME StoreInv, RecoverStuck
    PROVE  /\ StoreInv'
           /\ jobs' = [id \in JobId |->
                         IF jobs[id].status = "running"
                         THEN [jobs[id] EXCEPT !.status = "pending"]
                         ELSE jobs[id]]
  <1> DEFINE tbl == [id \in JobId |->
                        IF jobs[id].status = "running"
                        THEN [jobs[id] EXCEPT !.status = "pending"]
                        ELSE jobs[id]]
  <1>1. tbl \in [JobId -> Row]
    BY DEF StoreInv, StoreTypeOK, Row, Status, Stored, Active
  <1>2. \A id \in JobId :
           tbl[id].status \in Stored =>
               jobs[id].status \in Stored /\ tbl[id].key = jobs[id].key
    BY DEF StoreInv, StoreTypeOK, Row, Stored, Active
  <1>3. OneHolder(tbl)
    BY <1>2, SameHolders DEF StoreInv, OneRowPerKey
  <1>4. Write(tbl)
    BY DEF RecoverStuck
  <1> QED
    BY <1>1, <1>3, <1>4, WriteOneHolder

LEMMA MarkCompletedSelectInv ==
    ASSUME StoreInv, NEW c \in Caller, NEW id \in JobId,
           NEW status \in Completed, MarkCompletedSelect(c, id, status)
    PROVE  /\ StoreInv'
           /\ UNCHANGED jobs
           /\ reads'[c].id = id /\ reads'[c].status = status
           /\ reads'[c] # NoRead
           /\ \A other \in Caller \ {c} : reads'[other] = reads[other]
  <1> DEFINE m == [id |-> id, status |-> status,
                   expiresAt |-> IF jobs[id].ttl > 0 THEN now + jobs[id].ttl
                                                     ELSE Never]
  <1>1. m \in Read
    BY DEF StoreInv, StoreTypeOK, Row, Read, Never
  <1>2. m # NoRead
    BY DEF NoRead, Completed
  <1>3. reads' = [reads EXCEPT ![c] = m]
    BY DEF MarkCompletedSelect
  <1> HIDE DEF m
  <1>4. reads' \in [Caller -> Read \cup {NoRead}] /\ reads'[c] = m
    BY <1>1, <1>3 DEF StoreInv, StoreTypeOK
  <1>5. UNCHANGED <<jobs, now, refused>>
    BY DEF MarkCompletedSelect
  <1>6. StoreInv'
    BY <1>4, <1>5
    DEF StoreInv, StoreTypeOK, OneRowPerKey, OneHolder, Ids
  <1>7. m.id = id /\ m.status = status
    BY DEF m
  <1> QED
    BY <1>2, <1>3, <1>4, <1>5, <1>6, <1>7 DEF StoreInv, StoreTypeOK

LEMMA MarkCompletedUpdateInv ==
    ASSUME StoreInv, NEW c \in Caller, MarkCompletedUpdate(c)
    PROVE  /\ StoreInv'
           /\ reads[c] \in Read
           /\ \A id \in JobId \ {reads[c].id} : jobs'[id] = jobs[id]
           /\ \/ /\ jobs[reads[c].id].status \notin Stored
                 /\ UNCHANGED jobs
              \/ /\ jobs[reads[c].id].status \in Stored
                 /\ jobs'[reads[c].id].status = reads[c].status
                 /\ jobs'[reads[c].id].maxAttempts = jobs[reads[c].id].maxAttempts
           /\ reads' = [reads EXCEPT ![c] = NoRead]
  <1> DEFINE m == reads[c]
             row == jobs[m.id]
             failures == IF m.status = "failed" THEN 1 ELSE 0
             new == Finished(row, m.status, row.attempts + failures,
                             m.expiresAt)
             tbl == IF row.status \in Stored THEN [jobs EXCEPT ![m.id] = new]
                                             ELSE jobs
  <1>1. /\ m \in Read
        /\ m.id \in JobId /\ m.status \in Completed /\ m.expiresAt \in Nat
    BY DEF MarkCompletedUpdate, StoreInv, StoreTypeOK, Read
  <1>2. /\ jobs' = tbl
        /\ reads' = [reads EXCEPT ![c] = NoRead]
        /\ UNCHANGED <<now, refused>>
    BY DEF MarkCompletedUpdate
  <1>3. row \in Row /\ row.attempts \in Nat
    BY <1>1 DEF StoreInv, StoreTypeOK, Row
  <1>4. row.attempts + failures \in Nat
    BY <1>3
  <1>5. /\ new \in Row /\ new.key = row.key /\ new.status = m.status
        /\ new.maxAttempts = row.maxAttempts
    <2>1. new.key = row.key /\ new.maxAttempts = row.maxAttempts
      BY <1>3 DEF Finished, Row
    <2>2. new \in Row
      BY <1>1, <1>3, <1>4, FinishedType
    <2>3. new.status = m.status
      BY <1>1, <1>3, <1>4, FinishedType
    <2> QED
      BY <2>1, <2>2, <2>3
  <1> HIDE DEF new
  <1>6. /\ tbl \in [JobId -> Row]
        /\ OneHolder(tbl)
    BY <1>1, <1>5, OneRowChanged DEF StoreInv, StoreTypeOK, OneRowPerKey
  <1>7. OneRowPerKey'
    BY <1>2, <1>6 DEF OneRowPerKey, OneHolder, Ids
  <1>8. StoreTypeOK'
    BY <1>2, <1>6 DEF StoreInv, StoreTypeOK
  <1>9. \A id \in JobId \ {m.id} : jobs'[id] = jobs[id]
    BY <1>1, <1>2 DEF StoreInv, StoreTypeOK
  <1>10. \/ row.status \notin Stored /\ UNCHANGED jobs
         \/ /\ row.status \in Stored /\ jobs'[m.id].status = m.status
            /\ jobs'[m.id].maxAttempts = row.maxAttempts
    BY <1>1, <1>2, <1>5 DEF StoreInv, StoreTypeOK
  <1> QED
    BY <1>1, <1>2, <1>7, <1>8, <1>9, <1>10 DEF StoreInv

LEMMA TickInv ==
    ASSUME StoreInv, Tick
    PROVE  StoreInv' /\ UNCHANGED <<jobs, reads>>
  BY DEF Tick, StoreInv, StoreTypeOK, OneRowPerKey, OneHolder, Ids

-----------------------------------------------------------------------------
(***************************************************************************)
(* The rows a step may delete: those the purge finds lapsed, and those     *)
(* that a request in Replace mode replaces by its own, of the same key.    *)
(***************************************************************************)
Over(id) == jobs[id].status \in Completed /\ jobs[id].expiresAt <= now

ReplacedBy(id, r, new) ==
    /\ jobs[id].status # "running" /\ jobs[id].key = r.key
    /\ r.mode = "replace"
    /\ Fresh(new) /\ jobs'[new] = NewRow(r, now)

LEMMA PurgeDeletes ==
    ASSUME NEW k, NEW id \in JobId,
           Purge(jobs, k, now)[id].status # jobs[id].status
    PROVE  Over(id)
  BY DEF Purge, Lapsed, Holders, Over

LEMMA EnqueueDeletes ==
    ASSUME StoreInv, NEW r \in Request, NEW id \in JobId,
           NEW other \in JobId,
           \/ r.key = NoKey /\ Enqueue(other, r)
           \/ DedupInserted(other, r)
           \/ DedupReplaced(other, r)
           \/ DedupSkippedRunning(r, other)
           \/ DedupSkippedDuplicate(r),
           jobs[id].status # "deleted", jobs'[id].status = "deleted"
    PROVE  Over(id) \/ ReplacedBy(id, r, other)
  <1> DEFINE kept == Purge(jobs, r.key, now)
  <1>1. NewRow(r, now).status = "pending"
    BY DEF NewRow
  <1>2. jobs \in [JobId -> Row] /\ kept \in [JobId -> Row]
    BY PurgeType DEF StoreInv, StoreTypeOK
  <1>3. kept[id].status # jobs[id].status => Over(id)
    BY PurgeDeletes
  <1>4. \A x \in JobId : kept[x] = jobs[x] \/ kept[x] = Blank("deleted")
    BY PurgeType
  <1>5. Blank("deleted").status = "deleted"
    BY DEF Blank
  <1> HIDE DEF kept
  <1>6. CASE r.key = NoKey /\ Enqueue(other, r)
    <2>1. jobs' = [jobs EXCEPT ![other] = NewRow(r, now)]
      BY <1>6, EnqueueInv
    <2> QED
      BY <1>1, <1>2, <2>1
  <1>7. CASE DedupInserted(other, r)
    <2>1. jobs' = [kept EXCEPT ![other] = NewRow(r, now)]
      BY <1>7, DedupInsertedInv DEF kept
    <2> QED
      BY <1>1, <1>2, <1>3, <2>1
  <1>8. CASE DedupReplaced(other, r)
    <2>1. PICK old \in Holders(kept, r.key) :
             /\ kept[old].status # "running"
             /\ jobs' = [kept EXCEPT ![old] = Blank("deleted"),
                                     ![other] = NewRow(r, now)]
      BY <1>8, DedupReplacedInv DEF kept
    <2>2. r.mode = "replace"
      BY <1>8 DEF DedupReplaced
    <2>3. /\ old \in JobId /\ kept[old].status \in Stored
          /\ kept[old].key = r.key
      BY DEF Holders, Ids
    <2>4. "deleted" \notin Stored
      BY DEF Stored, Active, Completed
    <2>5. kept[old] = jobs[old]
      BY <1>4, <1>5, <2>3, <2>4
    <2>6. CASE id = old
      <3>1. Fresh(other) /\ old # other
        BY <1>8, <2>3, <2>4, <2>5
        DEF DedupReplaced, Fresh, Stored, Active, Completed
      <3>2. jobs'[other] = NewRow(r, now)
        BY <1>2, <2>1
      <3> QED
        BY <2>1, <2>2, <2>3, <2>5, <2>6, <3>1, <3>2 DEF ReplacedBy
    <2>7. CASE id # old
      BY <1>1, <1>2, <1>3, <2>1, <2>7
    <2> QED
      BY <2>6, <2>7
  <1>9. CASE DedupSkippedRunning(r, other) \/ DedupSkippedDuplicate(r)
    <2>1. jobs' = kept
      BY <1>9, DedupSkippedInv DEF kept
    <2> QED
      BY <1>3, <2>1
  <1> QED
    BY <1>6, <1>7, <1>8, <1>9

(***************************************************************************)
(* No other operation deletes a row.                                       *)
(***************************************************************************)
LEMMA OthersDeleteNothing ==
    ASSUME StoreInv, NEW id \in JobId,
           \/ \E S, limit : Claim(S, limit)
           \/ \E j \in JobId, t \in Int : MarkRetry(j, t) \/ MarkPending(j, t)
           \/ \E c \in Caller, j \in JobId, s \in Completed :
                 MarkCompletedSelect(c, j, s)
           \/ \E c \in Caller : MarkCompletedUpdate(c)
           \/ RecoverStuck
           \/ \E j \in JobId : RetryJob(j)
           \/ Tick
           \/ UNCHANGED jobs,
           jobs[id].status # "deleted"
    PROVE  jobs'[id].status # "deleted"
  <1>1. jobs \in [JobId -> Row] /\ jobs[id] \in Row
    BY DEF StoreInv, StoreTypeOK
  <1>2. "deleted" \notin Completed
    BY DEF Completed
  <1>3. ASSUME NEW S, NEW limit, Claim(S, limit)
        PROVE  jobs'[id].status # "deleted"
    BY <1>1, <1>3, ClaimInv DEF Row
  <1>4. ASSUME NEW j \in JobId, NEW x, x \in Row, x.status = "pending",
               jobs' = [jobs EXCEPT ![j] = x] \/ jobs' = jobs
        PROVE  jobs'[id].status # "deleted"
    BY <1>1, <1>4
  <1>5. ASSUME NEW j \in JobId, NEW t \in Int, MarkRetry(j, t)
        PROVE  jobs'[id].status # "deleted"
    <2>1. jobs[j] \in Row /\ jobs[j].attempts + 1 \in Nat
      BY DEF StoreInv, StoreTypeOK, Row
    <2> DEFINE x == Rescheduled(jobs[j], jobs[j].attempts + 1, t)
    <2>2. x \in Row /\ x.status = "pending"
      BY <2>1, RescheduledType
    <2>3. jobs' = [jobs EXCEPT ![j] = x] \/ jobs' = jobs
      BY <1>5, MarkRetryInv
    <2> HIDE DEF x
    <2> QED
      BY <1>4, <2>2, <2>3
  <1>6. ASSUME NEW j \in JobId, NEW t \in Int, MarkPending(j, t)
        PROVE  jobs'[id].status # "deleted"
    <2>1. jobs[j] \in Row /\ jobs[j].attempts \in Nat
      BY DEF StoreInv, StoreTypeOK, Row
    <2> DEFINE x == Rescheduled(jobs[j], jobs[j].attempts, t)
    <2>2. x \in Row /\ x.status = "pending"
      BY <2>1, RescheduledType
    <2>3. jobs' = [jobs EXCEPT ![j] = x] \/ jobs' = jobs
      BY <1>6, MarkPendingInv
    <2> HIDE DEF x
    <2> QED
      BY <1>4, <2>2, <2>3
  <1>7. ASSUME NEW j \in JobId, RetryJob(j)
        PROVE  jobs'[id].status # "deleted"
    <2>1. jobs[j] \in Row /\ now \in Int
      BY DEF StoreInv, StoreTypeOK
    <2> QED
      BY <1>4, <1>7, <2>1, RetryJobInv, RescheduledType
  <1>8. ASSUME NEW c \in Caller, MarkCompletedUpdate(c)
        PROVE  jobs'[id].status # "deleted"
    <2>1. reads[c].status \in Completed
      BY <1>8, MarkCompletedUpdateInv DEF Read
    <2> QED
      BY <1>2, <1>8, <2>1, MarkCompletedUpdateInv
  <1>9. ASSUME RecoverStuck
        PROVE  jobs'[id].status # "deleted"
    BY <1>1, <1>9, RecoverStuckInv DEF Row
  <1> QED
    BY <1>3, <1>5, <1>6, <1>7, <1>8, <1>9, MarkCompletedSelectInv, TickInv

=============================================================================
