--------------------------- MODULE PoolLockProofs ---------------------------
(***************************************************************************)
(* The queue implements DedupLock, for every number of jobs, keys, workers *)
(* and processes.  A step is taken apart by what it does to the row that   *)
(* has a key (RowEffect says how its status moves); the row of a key may   *)
(* only go if the same step puts another one in its place.                 *)
(***************************************************************************)
EXTENDS PoolOutcomeProofs, PoolLock

(* Row x has gone, and another one has its key. *)
HandedOver(x) ==
    /\ jobs[x].status \in {"pending"} \cup Completed
    /\ \/ KeyReplaceable(jobs[x].key)
       \/ jobs[x].status \in Completed /\ jobs[x].expiresAt <= now
    /\ \E id \in JobId :
          Becomes(id, {"absent"}, {"pending"}) /\ jobs'[id].key = jobs[x].key

(* What a step may do to the row of a key. *)
KeyEffect(x) ==
    \/ jobs'[x].key = jobs[x].key /\ jobs'[x].status # "deleted"
    \/ jobs[x].status = "absent"
    \/ jobs[x].status = "deleted" /\ jobs'[x].status = "deleted"
    \/ jobs'[x].status = "deleted" /\ HandedOver(x)

LEMMA EnqueueKeys ==
    ASSUME StoreInv, NEW r \in Request, NEW id \in JobId,
           \/ r.key = NoKey /\ Enqueue(id, r)
           \/ DedupInserted(id, r)
           \/ DedupReplaced(id, r)
           \/ DedupSkippedRunning(r, id)
           \/ DedupSkippedDuplicate(r)
    PROVE  \A x \in JobId : KeyEffect(x)
  <1> DEFINE kept == Purge(jobs, r.key, now)
             new == NewRow(r, now)
  <1>1. new.status = "pending" /\ new.key = r.key
    BY DEF NewRow
  <1>2. Blank("deleted").status = "deleted"
    BY DEF Blank
  <1>3. jobs \in [JobId -> Row] /\ kept \in [JobId -> Row]
    BY PurgeType DEF StoreInv, StoreTypeOK
  <1>4. \A x \in JobId :
           \/ kept[x] = jobs[x]
           \/ kept[x].status = "deleted" /\ x \in Lapsed(jobs, r.key, now)
    BY <1>2, PurgeType
  <1>5. \A x \in Lapsed(jobs, r.key, now) :
           /\ jobs[x].status \in Completed /\ jobs[x].expiresAt <= now
           /\ jobs[x].key = r.key
    BY DEF Lapsed, Holders
  <1>6. ASSUME NEW x \in JobId, jobs'[x] = jobs[x]
        PROVE  KeyEffect(x)
    BY <1>6 DEF KeyEffect
  <1>7. ASSUME jobs[id].status = "absent", jobs'[id] = new,
               NEW x \in JobId, jobs'[x] = kept[x]
        PROVE  KeyEffect(x)
    <2>1. CASE kept[x] = jobs[x]
      BY <1>6, <1>7, <2>1
    <2>2. CASE kept[x].status = "deleted" /\ x \in Lapsed(jobs, r.key, now)
      <3>1. Becomes(id, {"absent"}, {"pending"}) /\ jobs'[id].key = jobs[x].key
        <4> HIDE DEF new
        <4> QED
          BY <1>1, <1>5, <1>7, <2>2 DEF Becomes
      <3> QED
        BY <1>5, <1>7, <2>2, <3>1 DEF KeyEffect, HandedOver
    <2> QED
      BY <1>4, <2>1, <2>2
  <1>8. ASSUME jobs[id].status = "absent" PROVE KeyEffect(id)
    BY <1>8 DEF KeyEffect
  <1>9. CASE r.key = NoKey /\ Enqueue(id, r)
    <2>1. jobs' = [jobs EXCEPT ![id] = new]
      BY <1>9, EnqueueInv
    <2>2. jobs[id].status = "absent"
      BY <1>9 DEF Enqueue, Fresh
    <2> HIDE DEF new
    <2>3. \A x \in JobId \ {id} : jobs'[x] = jobs[x]
      BY <1>3, <2>1
    <2> QED
      BY <1>6, <1>8, <2>2, <2>3
  <1>10. CASE DedupInserted(id, r)
    <2>1. jobs' = [kept EXCEPT ![id] = new]
      BY <1>10, DedupInsertedInv
    <2>2. jobs[id].status = "absent"
      BY <1>10 DEF DedupInserted, Fresh
    <2> HIDE DEF new, kept
    <2>3. jobs'[id] = new /\ \A x \in JobId \ {id} : jobs'[x] = kept[x]
      BY <1>3, <2>1
    <2> QED
      BY <1>7, <1>8, <2>2, <2>3
  <1>11. CASE DedupReplaced(id, r)
    <2>1. PICK old \in Holders(kept, r.key) :
             /\ kept[old].status # "running"
             /\ jobs' = [kept EXCEPT ![old] = Blank("deleted"), ![id] = new]
      BY <1>11, DedupReplacedInv
    <2>2. jobs[id].status = "absent" /\ r.mode = "replace"
      BY <1>11 DEF DedupReplaced, Fresh
    <2>3. /\ old \in JobId /\ kept[old].status \in Stored
          /\ kept[old].key = r.key
      BY DEF Holders, Ids
    <2>4. /\ kept[old] = jobs[old]
          /\ jobs[old].status \in {"pending"} \cup Completed
      BY <1>4, <2>1, <2>3 DEF Stored, Active, Completed
    <2>5. old # id
      BY <2>2, <2>4 DEF Completed
    <2> HIDE DEF new, kept
    <2>6. /\ jobs'[id] = new /\ jobs'[old] = Blank("deleted")
          /\ \A x \in JobId \ {id, old} : jobs'[x] = kept[x]
      BY <1>3, <2>1, <2>3, <2>5
    <2>7. KeyEffect(old)
      <3>1. Becomes(id, {"absent"}, {"pending"}) /\ jobs'[id].key = jobs[old].key
        BY <1>1, <2>2, <2>3, <2>4, <2>6 DEF Becomes
      <3>2. KeyReplaceable(jobs[old].key)
        BY <2>2, <2>3, <2>4 DEF KeyReplaceable
      <3> QED
        BY <1>2, <2>4, <2>6, <3>1, <3>2 DEF KeyEffect, HandedOver
    <2> QED
      BY <1>7, <1>8, <2>2, <2>6, <2>7
  <1>12. CASE DedupSkippedRunning(r, id) \/ DedupSkippedDuplicate(r)
    <2>1. jobs' = kept
      BY <1>12, DedupSkippedInv
    <2>2. r.key # NoKey /\ \E h \in Holders(kept, r.key) : TRUE
      BY <1>12 DEF DedupSkippedRunning, DedupSkippedDuplicate, Blocking
    <2>3. PICK h \in Holders(kept, r.key) : TRUE
      BY <2>2
    <2>4. h \in JobId /\ kept[h].status \in Stored /\ kept[h].key = r.key
      BY <2>3 DEF Holders, Ids
    <2>5. kept[h] = jobs[h]
      BY <1>4, <2>4 DEF Stored, Active, Completed
    <2>6. \A x \in Lapsed(jobs, r.key, now) : x = h
      <3>1. \A x \in Lapsed(jobs, r.key, now) : x \in Ids(jobs, Stored)
        BY DEF Lapsed, Holders
      <3>2. h \in Ids(jobs, Stored)
        BY <2>4, <2>5 DEF Ids
      <3> QED
        BY <1>5, <2>2, <2>4, <2>5, <3>1, <3>2
        DEF StoreInv, OneRowPerKey, OneHolder
    <2>7. \A x \in JobId : kept[x] = jobs[x]
      BY <1>4, <2>4, <2>5, <2>6 DEF Stored, Active, Completed
    <2> HIDE DEF kept
    <2> QED
      BY <1>6, <2>1, <2>7
  <1> QED
    BY <1>9, <1>10, <1>11, <1>12

(* The statements that a step of the pool may issue besides these. *)
OtherStatement ==
    \/ \E S, limit : Claim(S, limit)
    \/ \E j \in JobId, t \in Int : MarkRetry(j, t) \/ MarkPending(j, t)
    \/ \E c \in Caller : MarkCompletedUpdate(c)
    \/ RecoverStuck
    \/ \E j \in JobId : RetryJob(j)
    \/ UNCHANGED jobs

LEMMA OthersKeepKeys ==
    ASSUME StoreInv, OtherStatement, NEW x \in JobId
    PROVE  jobs'[x].key = jobs[x].key
  <1>1. jobs \in [JobId -> Row] /\ jobs[x] \in Row /\ now \in Int
    BY DEF StoreInv, StoreTypeOK
  <1>2. ASSUME NEW j \in JobId, NEW new, new.key = jobs[j].key,
               jobs' = [jobs EXCEPT ![j] = new] \/ jobs' = jobs
        PROVE  jobs'[x].key = jobs[x].key
    BY <1>1, <1>2
  <1>3. ASSUME NEW S, NEW limit, Claim(S, limit)
        PROVE  jobs'[x].key = jobs[x].key
    BY <1>1, <1>3, ClaimInv DEF Row
  <1>4. ASSUME NEW j \in JobId, NEW t \in Int, MarkRetry(j, t)
        PROVE  jobs'[x].key = jobs[x].key
    <2> DEFINE new == Rescheduled(jobs[j], jobs[j].attempts + 1, t)
    <2>1. jobs[j] \in Row /\ jobs[j].attempts + 1 \in Nat
      BY DEF StoreInv, StoreTypeOK, Row
    <2>2. new.key = jobs[j].key
      BY <2>1, RescheduledType
    <2>3. jobs' = [jobs EXCEPT ![j] = new] \/ jobs' = jobs
      BY <1>4, MarkRetryInv
    <2> HIDE DEF new
    <2> QED
      BY <1>2, <2>2, <2>3
  <1>5. ASSUME NEW j \in JobId, NEW t \in Int, MarkPending(j, t)
        PROVE  jobs'[x].key = jobs[x].key
    <2> DEFINE new == Rescheduled(jobs[j], jobs[j].attempts, t)
    <2>1. jobs[j] \in Row /\ jobs[j].attempts \in Nat
      BY DEF StoreInv, StoreTypeOK, Row
    <2>2. new.key = jobs[j].key
      BY <2>1, RescheduledType
    <2>3. jobs' = [jobs EXCEPT ![j] = new] \/ jobs' = jobs
      BY <1>5, MarkPendingInv
    <2> HIDE DEF new
    <2> QED
      BY <1>2, <2>2, <2>3
  <1>6. ASSUME NEW c \in Caller, MarkCompletedUpdate(c)
        PROVE  jobs'[x].key = jobs[x].key
    <2> DEFINE m == reads[c]
               row == jobs[m.id]
               failures == IF m.status = "failed" THEN 1 ELSE 0
               new == Finished(row, m.status, row.attempts + failures,
                               m.expiresAt)
    <2>1. m.id \in JobId
      BY <1>6, MarkCompletedUpdateInv DEF Read
    <2>2. new.key = row.key
      BY <2>1 DEF Finished, StoreInv, StoreTypeOK, Row
    <2>3. jobs' = [jobs EXCEPT ![m.id] = new] \/ jobs' = jobs
      BY <1>6 DEF MarkCompletedUpdate
    <2> HIDE DEF new
    <2> QED
      BY <1>2, <2>1, <2>2, <2>3
  <1>7. CASE RecoverStuck
    BY <1>1, <1>7, RecoverStuckInv DEF Row
  <1>8. ASSUME NEW j \in JobId, RetryJob(j)
        PROVE  jobs'[x].key = jobs[x].key
    <2> DEFINE new == Rescheduled(jobs[j], 0, now)
    <2>1. jobs[j] \in Row
      BY DEF StoreInv, StoreTypeOK
    <2>2. new.key = jobs[j].key
      BY <1>1, <2>1, RescheduledType
    <2>3. jobs' = [jobs EXCEPT ![j] = new] \/ jobs' = jobs
      BY <1>8, RetryJobInv
    <2> HIDE DEF new
    <2> QED
      BY <1>2, <2>2, <2>3
  <1> QED
    BY <1>3, <1>4, <1>5, <1>6, <1>7, <1>8 DEF OtherStatement

LEMMA OthersKeep ==
    ASSUME StoreInv, OtherStatement, NEW x \in JobId PROVE KeyEffect(x)
  <1>1. jobs[x].status # "deleted" => jobs'[x].status # "deleted"
    BY OthersDeleteNothing DEF OtherStatement
  <1>2. jobs'[x].key = jobs[x].key
    BY OthersKeepKeys
  <1> QED
    BY <1>1, <1>2 DEF KeyEffect

(* A step of the pool issues one statement at most. *)
LEMMA GoroutineStatement ==
    ASSUME TypeInv, NEW w \in Worker, Goroutine(w) PROVE OtherStatement
  <1>1. CASE ScheduleRetry(w)
    <2>1. task[w].job.id \in JobId /\ task[w].retryAt \in Int
      <3>1. task[w].pc # "idle"
        BY <1>1 DEF ScheduleRetry
      <3> QED
        BY <3>1, BusyTask DEF Task, TypeInv
    <2> QED
      BY <1>1, <2>1 DEF ScheduleRetry, OtherStatement, storeVars
  <1>2. CASE CompleteUpdate(w)
    BY <1>2 DEF CompleteUpdate, OtherStatement, Worker
  <1>3. CASE ~ScheduleRetry(w) /\ ~CompleteUpdate(w)
    BY <1>3
    DEF Goroutine, RunHandler, NoHandler, HandlerSucceeds, HandlerFails,
        CompleteSelect, MarkCompletedSelect, MarkCompletedMissing,
        BookkeepingFails, Finish, OtherStatement, storeVars
  <1> QED
    BY <1>1, <1>2, <1>3

LEMMA ProcessStatement ==
    ASSUME Process \/ PoolTick \/ UNCHANGED vars PROVE OtherStatement
  <1>1. CASE Start
    BY <1>1 DEF Start, OtherStatement
  <1>2. CASE UNCHANGED jobs
    BY <1>2 DEF OtherStatement
  <1>3. UNCHANGED jobs \/ Start
    BY DEF Process, StartUnrecovered, Shutdown, StopDrained, StopTimeout, Boot,
           ProcessStep, Exit, Crash, Gone, PoolTick, Tick, vars, storeVars
  <1> QED
    BY <1>1, <1>2, <1>3

LEMMA StepKeys ==
    ASSUME PoolInv, [PoolNext]_vars, NEW x \in JobId PROVE KeyEffect(x)
  <1>0. StoreInv /\ TypeInv
    BY DEF PoolInv, TypeInv
  <1>1. CASE Clients
    <2>1. ASSUME NEW r \in Request, ClientEnqueue(r) PROVE KeyEffect(x)
      <3>1. \/ \E id \in JobId :
                  \/ r.key = NoKey /\ Enqueue(id, r)
                  \/ DedupInserted(id, r) \/ DedupReplaced(id, r)
            \/ DedupSkippedDuplicate(r)
        BY <2>1 DEF ClientEnqueue
      <3> QED
        BY <1>0, <3>1, EnqueueKeys
    <2>2. ASSUME NEW r \in Request, NEW by \in JobId, ClientSkipped(r, by)
          PROVE  KeyEffect(x)
      BY <1>0, <2>2, EnqueueKeys DEF ClientSkipped
    <2>3. ASSUME NEW id \in JobId, ManualRetry(id) PROVE OtherStatement
      BY <2>3 DEF ManualRetry, OtherStatement
    <2>4. CASE ReadEvent \/ \E t \in JobType : CancelAll(t)
      <3>1. OtherStatement
        BY <2>4 DEF CancelAll, ReadEvent, OtherStatement, storeVars
      <3> QED
        BY <1>0, <3>1, OthersKeep
    <2> QED
      BY <1>0, <1>1, <2>1, <2>2, <2>3, <2>4, OthersKeep DEF Clients
  <1>2. CASE Poller
    <2>1. OtherStatement
      BY <1>2
      DEF Poller, PollTick, PollClaim, ClaimAborted, ClaimFails, Dispatch,
          PollExit, OtherStatement, storeVars
    <2> QED
      BY <1>0, <2>1, OthersKeep
  <1>3. ASSUME NEW w \in Worker, Goroutine(w) PROVE KeyEffect(x)
    BY <1>0, <1>3, GoroutineStatement, OthersKeep
  <1>4. CASE Process \/ PoolTick \/ UNCHANGED vars
    BY <1>0, <1>4, ProcessStatement, OthersKeep
  <1> QED
    BY <1>1, <1>2, <1>3, <1>4 DEF PoolNext

-----------------------------------------------------------------------------
(* The lock as the rows have it. *)

Holds(x, k) == jobs[x].status \in Stored /\ jobs[x].key = k

PhaseOfRow(x) ==
    CASE jobs[x].status = "pending" -> "waiting"
      [] jobs[x].status = "running" -> "executing"
      [] jobs[x].status \in Completed /\ now < jobs[x].expiresAt -> "cooling"
      [] OTHER -> "lapsed"

HolderKnown ==
    \A k \in Key, x \in JobId :
        Holds(x, k) => HolderOf(k) = x /\ PhaseOf(k) = PhaseOfRow(x)

FreeKnown ==
    \A k \in Key :
        (\A x \in JobId : ~Holds(x, k)) =>
            HolderOf(k) = NoHolder /\ PhaseOf(k) = "free"

LEMMA LockKnown == StoreInv => HolderKnown /\ FreeKnown
  <1> SUFFICES ASSUME StoreInv PROVE HolderKnown /\ FreeKnown
    OBVIOUS
  <1>1. \A k, x : x \in Holders(jobs, k) <=> x \in JobId /\ Holds(x, k)
    BY DEF Holders, Ids, Holds
  <1>2. ASSUME NEW k \in Key, NEW x \in JobId, Holds(x, k)
        PROVE  HolderOf(k) = x /\ PhaseOf(k) = PhaseOfRow(x)
    <2>1. Holders(jobs, k) = {x}
      <3>1. k # NoKey
        BY KeyAssumption
      <3>2. \A y \in Holders(jobs, k) : y = x
        BY <1>2, <3>1
        DEF StoreInv, OneRowPerKey, OneHolder, Holders, Holds, Ids
      <3> QED
        BY <1>1, <1>2, <3>2
    <2>2. HolderOf(k) = x
      BY <2>1 DEF HolderOf
    <2> QED
      BY <2>1, <2>2 DEF PhaseOf, PhaseOfRow
  <1>3. ASSUME NEW k \in Key, \A x \in JobId : ~Holds(x, k)
        PROVE  HolderOf(k) = NoHolder /\ PhaseOf(k) = "free"
    <2>1. Holders(jobs, k) = {}
      BY <1>1, <1>3 DEF Holders, Ids
    <2> QED
      BY <2>1 DEF HolderOf, PhaseOf
  <1> QED
    BY <1>2, <1>3 DEF HolderKnown, FreeKnown

LEMMA NextLockKnown == StoreInv' => HolderKnown' /\ FreeKnown'
  BY LockKnown, PTL

-----------------------------------------------------------------------------
(* What a step does to one key. *)

Unmoved(k) == HolderOf(k)' = HolderOf(k) /\ PhaseOf(k)' = PhaseOf(k)

Moves(k, from, to) ==
    PhaseOf(k) \in from /\ PhaseOf(k)' = to /\ HolderOf(k)' = HolderOf(k)

Passes(k, from) ==
    /\ PhaseOf(k) \in from /\ PhaseOf(k)' = "waiting"
    /\ HolderOf(k)' \in JobId \ {HolderOf(k)}

KeyMove(k) ==
    \/ Unmoved(k)
    \/ Passes(k, {"free", "lapsed"})
    \/ KeyReplaceable(k) /\ Passes(k, {"waiting", "cooling"})
    \/ Moves(k, {"waiting"}, "executing")
    \/ Moves(k, {"executing"}, "waiting")
    \/ Moves(k, {"executing"}, "cooling") \/ Moves(k, {"executing"}, "lapsed")
    \/ Moves(k, {"cooling"}, "lapsed")
    \/ Moves(k, {"cooling", "lapsed"}, "waiting")

(* The clock goes forward and the moments are numbers. *)
Moments ==
    /\ now \in Nat /\ now' \in Nat /\ now <= now'
    /\ \A x \in JobId : jobs[x].expiresAt \in Nat

(* A key that nobody holds is taken by a row that is enqueued. *)
LEMMA FreeKeyMoves ==
    ASSUME StoreInv, StoreInv', NEW k \in Key,
           \A x \in JobId : RowEffect(x) /\ KeyEffect(x),
           \A x \in JobId : ~Holds(x, k)
    PROVE  KeyMove(k)
  <1>1. HolderOf(k) = NoHolder /\ PhaseOf(k) = "free"
    BY LockKnown DEF FreeKnown
  <1>2. CASE \A x \in JobId : ~Holds(x, k)'
    BY <1>1, <1>2, NextLockKnown DEF FreeKnown, KeyMove, Unmoved
  <1>3. ASSUME NEW x \in JobId, Holds(x, k)' PROVE KeyMove(k)
    <2>1. HolderOf(k)' = x /\ PhaseOf(k)' = PhaseOfRow(x)'
      BY <1>3, NextLockKnown DEF HolderKnown
    <2>2. jobs'[x].status \in Stored /\ jobs'[x].key = k
      BY <1>3 DEF Holds
    <2>3. jobs'[x].status # "deleted"
      BY <2>2 DEF Stored, Active, Completed
    <2>4. jobs[x].status \in Stored => jobs[x].key # k
      BY DEF Holds
    <2>5. jobs[x].status \notin Stored
      BY <2>2, <2>3, <2>4 DEF KeyEffect, Stored, Active, Completed
    <2>6. Enqueued(x) \/ Kept(x) \/ Executed(x)
      BY <2>3, <2>5
      DEF RowEffect, Removed, Revived, Taken, GivenBack, Ended, Recovered,
          Becomes, Stored, Active, Completed
    <2>7. jobs'[x].status = "pending"
      BY <2>2, <2>5, <2>6 DEF Kept, Executed, Enqueued, Becomes
    <2>8. Passes(k, {"free", "lapsed"})
      BY <1>1, <2>1, <2>7, NoHolderAssumption
      DEF Passes, PhaseOfRow, Completed
    <2> QED
      BY <2>8 DEF KeyMove
  <1> QED
    BY <1>2, <1>3

(* The row that holds the key stays. *)
LEMMA HeldKeyMoves ==
    ASSUME StoreInv, StoreInv', Moments, NEW k \in Key, NEW h \in JobId,
           RowEffect(h), Holds(h, k), Holds(h, k)'
    PROVE  KeyMove(k)
  <1>1. HolderOf(k) = h /\ PhaseOf(k) = PhaseOfRow(h)
    BY LockKnown DEF HolderKnown
  <1>2. HolderOf(k)' = h /\ PhaseOf(k)' = PhaseOfRow(h)'
    BY NextLockKnown DEF HolderKnown
  <1>3. jobs[h].status \in Stored /\ jobs'[h].status \in Stored
    BY DEF Holds
  <1>4. jobs[h].status = "pending" => PhaseOf(k) = "waiting"
    BY <1>1 DEF PhaseOfRow, Completed
  <1>5. jobs[h].status = "running" => PhaseOf(k) = "executing"
    BY <1>1 DEF PhaseOfRow, Completed
  <1>6. jobs[h].status \in Completed => PhaseOf(k) \in {"cooling", "lapsed"}
    BY <1>1 DEF PhaseOfRow, Completed
  <1>7. jobs'[h].status = "pending" => PhaseOf(k)' = "waiting"
    BY <1>2 DEF PhaseOfRow, Completed
  <1>8. jobs'[h].status = "running" => PhaseOf(k)' = "executing"
    BY <1>2 DEF PhaseOfRow, Completed
  <1>9. jobs'[h].status \in Completed => PhaseOf(k)' \in {"cooling", "lapsed"}
    BY <1>2 DEF PhaseOfRow, Completed
  <1>10. CASE Kept(h) \/ Executed(h)
    <2>1. jobs'[h] = jobs[h]
      BY <1>10 DEF Kept, Executed
    <2>2. CASE jobs[h].status \notin Completed
      BY <1>1, <1>2, <1>3, <1>4, <1>5, <1>7, <1>8, <2>1, <2>2
      DEF KeyMove, Unmoved, Stored, Active
    <2>3. CASE jobs[h].status \in Completed
      <3>1. PhaseOf(k) = IF now < jobs[h].expiresAt THEN "cooling"
                                                    ELSE "lapsed"
        BY <1>1, <2>3 DEF PhaseOfRow, Completed
      <3>2. PhaseOf(k)' = IF now' < jobs[h].expiresAt THEN "cooling"
                                                      ELSE "lapsed"
        BY <1>2, <2>1, <2>3 DEF PhaseOfRow, Completed
      <3>3. now' < jobs[h].expiresAt => now < jobs[h].expiresAt
        BY DEF Moments
      <3> QED
        BY <1>1, <1>2, <3>1, <3>2, <3>3 DEF KeyMove, Unmoved, Moves
    <2> QED
      BY <2>2, <2>3
  <1>11. CASE Revived(h)
    BY <1>1, <1>2, <1>6, <1>7, <1>11
    DEF Revived, Becomes, Completed, KeyMove, Moves
  <1>12. CASE Taken(h)
    BY <1>1, <1>2, <1>4, <1>8, <1>12 DEF Taken, Becomes, KeyMove, Moves
  <1>13. CASE GivenBack(h) \/ Recovered(h)
    BY <1>1, <1>2, <1>5, <1>7, <1>13
    DEF GivenBack, Recovered, Becomes, KeyMove, Moves
  <1>14. CASE Ended(h)
    BY <1>1, <1>2, <1>5, <1>9, <1>14 DEF Ended, Becomes, KeyMove, Moves
  <1>15. ~Enqueued(h) /\ ~Removed(h)
    BY <1>3 DEF Enqueued, Removed, Becomes, Stored, Active, Completed
  <1> QED
    BY <1>10, <1>11, <1>12, <1>13, <1>14, <1>15 DEF RowEffect

(* The row that holds the key goes, and hands it over. *)
LEMMA HandedKeyMoves ==
    ASSUME StoreInv, StoreInv', Moments, NEW k \in Key, NEW h \in JobId,
           RowEffect(h), KeyEffect(h), Holds(h, k), ~Holds(h, k)'
    PROVE  KeyMove(k)
  <1>1. HolderOf(k) = h /\ PhaseOf(k) = PhaseOfRow(h)
    BY LockKnown DEF HolderKnown
  <1>2. jobs[h].status \in Stored /\ jobs[h].key = k
    BY DEF Holds
  <1>3. jobs'[h].status \in Stored => jobs'[h].key # k
    BY DEF Holds
  <1>4. jobs'[h].status \in Stored \cup {"deleted"}
    BY <1>2
    DEF RowEffect, Kept, Enqueued, Removed, Revived, Taken, Executed,
        GivenBack, Ended, Recovered, Becomes, Stored, Active, Completed
  <1>5. HandedOver(h)
    BY <1>2, <1>3, <1>4 DEF KeyEffect, Stored, Active, Completed
  <1>6. PICK id \in JobId :
           Becomes(id, {"absent"}, {"pending"}) /\ jobs'[id].key = k
    BY <1>2, <1>5 DEF HandedOver
  <1>7. id # h /\ Holds(id, k)' /\ jobs'[id].status = "pending"
    BY <1>2, <1>6 DEF Becomes, Holds, Stored, Active, Completed
  <1>8. HolderOf(k)' = id /\ PhaseOf(k)' = PhaseOfRow(id)'
    BY <1>7, NextLockKnown DEF HolderKnown
  <1>9. PhaseOf(k)' = "waiting"
    BY <1>7, <1>8 DEF PhaseOfRow, Completed
  <1>10. PhaseOf(k) \in {"waiting", "cooling", "lapsed"}
    BY <1>1, <1>5 DEF HandedOver, PhaseOfRow, Completed
  <1>11. CASE KeyReplaceable(k)
    BY <1>1, <1>7, <1>8, <1>9, <1>10, <1>11 DEF KeyMove, Passes
  <1>12. CASE jobs[h].status \in Completed /\ jobs[h].expiresAt <= now
    <2>1. ~(now < jobs[h].expiresAt)
      BY <1>12 DEF Moments
    <2>2. PhaseOf(k) = "lapsed"
      BY <1>1, <1>12, <2>1 DEF PhaseOfRow, Completed
    <2> QED
      BY <1>1, <1>7, <1>8, <1>9, <2>2 DEF KeyMove, Passes
  <1> QED
    BY <1>2, <1>5, <1>11, <1>12 DEF HandedOver

LEMMA StepClock ==
    ASSUME [PoolNext]_vars PROVE now' = now \/ now' = now + 1
  <1>1. CASE Clients
    BY <1>1
    DEF Clients, ClientEnqueue, ClientSkipped, ManualRetry, CancelAll,
        ReadEvent, Enqueue, DedupInserted, DedupReplaced, DedupSkippedRunning,
        DedupSkippedDuplicate, RetryJob, Write, storeVars
  <1>2. CASE Poller
    BY <1>2
    DEF Poller, PollTick, PollClaim, ClaimAborted, ClaimFails, Dispatch,
        PollExit, Claim, Write, storeVars
  <1>3. ASSUME NEW w \in Worker, Goroutine(w)
        PROVE  now' = now \/ now' = now + 1
    BY <1>3
    DEF Goroutine, RunHandler, NoHandler, HandlerSucceeds, HandlerFails,
        ScheduleRetry, CompleteSelect, CompleteUpdate, BookkeepingFails,
        Finish, MarkRetry, MarkCompletedSelect, MarkCompletedMissing,
        MarkCompletedUpdate, Write, storeVars
  <1>4. CASE Process
    BY <1>4
    DEF Process, Start, StartUnrecovered, Shutdown, StopDrained, StopTimeout,
        Boot, ProcessStep, Exit, Crash, Gone, RecoverStuck, Write, storeVars
  <1>5. CASE PoolTick \/ UNCHANGED vars
    BY <1>5 DEF PoolTick, Tick, vars, storeVars
  <1> QED
    BY <1>1, <1>2, <1>3, <1>4, <1>5 DEF PoolNext

LEMMA StepMoments == ASSUME PoolInv, PoolInv', [PoolNext]_vars PROVE Moments
  <1>1. now \in Nat /\ now' \in Nat
    BY DEF PoolInv, TypeInv, PoolTypeOK, StoreTypeOK
  <1>2. \A x \in JobId : jobs[x].expiresAt \in Nat
    BY DEF PoolInv, TypeInv, PoolTypeOK, StoreTypeOK, Row
  <1>3. now' = now \/ now' = now + 1
    BY StepClock
  <1> QED
    BY <1>1, <1>2, <1>3 DEF Moments

LEMMA StepMoves ==
    ASSUME PoolInv, PoolInv', [PoolNext]_vars, NEW k \in Key
    PROVE  KeyMove(k)
  <1>1. \A x \in JobId : RowEffect(x) /\ KeyEffect(x)
    BY StepEffects, StepKeys DEF Effects
  <1>2. StoreInv /\ StoreInv' /\ Moments
    BY StepMoments DEF PoolInv, TypeInv
  <1>3. CASE \A x \in JobId : ~Holds(x, k)
    BY <1>1, <1>2, <1>3, FreeKeyMoves
  <1>4. ASSUME NEW h \in JobId, Holds(h, k) PROVE KeyMove(k)
    <2>1. CASE Holds(h, k)'
      BY <1>1, <1>2, <1>4, <2>1, HeldKeyMoves
    <2>2. CASE ~Holds(h, k)'
      BY <1>1, <1>2, <1>4, <2>2, HandedKeyMoves
    <2> QED
      BY <2>1, <2>2
  <1> QED
    BY <1>3, <1>4

-----------------------------------------------------------------------------
(* Every behaviour of the queue is a behaviour of the lock (EnqueueDedup,  *)
(* Claim, markCompleted, RecoverStuck and RetryJob in sqlite.go, called    *)
(* from the poll loop, the goroutines and the dashboard).                  *)
THEOREM PoolImplementsLock == PoolSpec => ImplementsLock
  <1>1. PoolInit => Lock!LockInit
    <2> SUFFICES ASSUME PoolInit PROVE Lock!LockInit
      OBVIOUS
    <2>1. StoreInv
      BY StoreInitInv DEF PoolInit
    <2>2. \A x \in JobId : jobs[x].status = "absent"
      BY DEF PoolInit, StoreInit, Blank
    <2>3. \A k \in Key, x \in JobId : ~Holds(x, k)
      BY <2>2 DEF Holds, Stored, Active, Completed
    <2>4. \A k \in Key : HolderOf(k) = NoHolder /\ PhaseOf(k) = "free"
      BY <2>1, <2>3, LockKnown DEF FreeKnown
    <2> QED
      BY <2>4 DEF Lock!LockInit
  <1>2. ASSUME PoolInv, PoolInv', [PoolNext]_vars
        PROVE  [Lock!LockNext]_(Lock!lockVars)
    <2>1. ASSUME NEW k \in Key
          PROVE  \/ Lock!KeyStep(k)
                 \/ /\ [key \in Key |-> PhaseOf(key)]'[k]
                          = [key \in Key |-> PhaseOf(key)][k]
                    /\ [key \in Key |-> HolderOf(key)]'[k]
                          = [key \in Key |-> HolderOf(key)][k]
      <3>1. KeyMove(k)
        BY <1>2, StepMoves
      <3>2. CASE Unmoved(k)
        BY <3>2 DEF Unmoved
      <3>3. ASSUME NEW from, NEW to, Moves(k, from, to)
            PROVE  Lock!Move(k, from, to)
        BY <3>3 DEF Moves, Lock!Move
      <3>4. ASSUME NEW from, Passes(k, from) PROVE Lock!Pass(k, from)
        BY <3>4 DEF Passes, Lock!Pass
      <3> QED
        BY <3>1, <3>2, <3>3, <3>4
        DEF KeyMove, Lock!KeyStep, Lock!Acquire, Lock!Supersede, Lock!Begin,
            Lock!GoBack, Lock!Complete, Lock!Lapse, Lock!Revive
    <2> QED
      BY <2>1 DEF Lock!LockNext
  <1> QED
    BY <1>1, <1>2, PoolInvariant, PTL DEF PoolSpec, ImplementsLock, Lock!LockSpec

=============================================================================
