-------------------------- MODULE PoolOutcomeProofs --------------------------
(***************************************************************************)
(* What becomes of a job, over all its attempts and all the processes that *)
(* work on it: a completed job stays completed, a job reported as final is *)
(* not executed again by that process, and MaxAttempts bounds the          *)
(* executions.  For every number of jobs, workers, retries and crashes.    *)
(*                                                                         *)
(* The proofs take a step of the pool apart by what it does to one row     *)
(* (RowEffect), to one goroutine (WorkerEffect) and to the process.        *)
(***************************************************************************)
EXTENDS PoolExclusionProofs

(* What a step may do to the row of a job. *)

SameRuns(id) == runs'[id] = runs[id]

Kept(id) == jobs'[id] = jobs[id] /\ SameRuns(id)

Becomes(id, from, to) ==
    jobs[id].status \in from /\ jobs'[id].status \in to

Enqueued(id) ==
    /\ Becomes(id, {"absent"}, {"pending"}) /\ SameRuns(id)
    /\ jobs'[id].attempts = 0

Removed(id) ==
    Becomes(id, {"pending"} \cup Completed, {"deleted"}) /\ SameRuns(id)

Revived(id) ==
    /\ Becomes(id, {"failed"}, {"pending"})
    /\ manual' > manual /\ id \notin finals'
    /\ jobs'[id].attempts = 0 /\ runs'[id] = 0

Taken(id) ==
    /\ Becomes(id, {"pending"}, {"running"}) /\ SameRuns(id)
    /\ CopyOf(id)' = CopyOf(id)

Executed(id) ==
    /\ jobs'[id] = jobs[id] /\ runs'[id] = runs[id] + 1
    /\ \E w \in Worker :
          /\ task[w].pc = "start" /\ task[w].job.id = id
          /\ task'[w].pc = "handler" /\ task'[w].job = task[w].job

GivenBack(id) ==
    /\ Becomes(id, {"running"}, {"pending"}) /\ SameRuns(id)
    /\ jobs'[id].attempts = jobs[id].attempts + 1
    /\ jobs'[id].maxAttempts = jobs[id].maxAttempts
    /\ \E w \in Worker : task[w].pc = "retry" /\ task[w].job.id = id

Ended(id) ==
    /\ Becomes(id, {"running"}, Completed) /\ SameRuns(id)
    /\ jobs'[id].maxAttempts = jobs[id].maxAttempts

Recovered(id) ==
    /\ proc = "ready"
    /\ Becomes(id, {"running"}, {"pending"}) /\ SameRuns(id)
    /\ CopyOf(id)' = CopyOf(id)

RowEffect(id) ==
    \/ Kept(id) \/ Enqueued(id) \/ Removed(id) \/ Revived(id)
    \/ Taken(id) \/ Executed(id) \/ GivenBack(id) \/ Ended(id)
    \/ Recovered(id)

(* What a step may do to the goroutine in a slot. *)
WorkerEffect(w) ==
    \/ task'[w] = task[w]
    \/ ~Owner(w)'
    \/ task'[w].pc = "start" /\ task'[w].job \in batch
    \/ /\ task'[w].job = task[w].job
       /\ \/ task[w].pc = "start" /\ task'[w].pc \in {"handler", "dead"}
          \/ task[w].pc = "handler" /\ task'[w].pc \in {"done", "dead"}
          \/ /\ task[w].pc = "handler" /\ task'[w].pc = "retry"
             /\ IsRetryable(task[w].job.attempts + 1, task[w].job.maxAttempts)
          \/ task[w].pc \in {"done", "dead"} /\ task'[w].pc = "update"

(* The goroutine that reports a job as final. *)
Reports(w, id) ==
    /\ task[w].job.id = id /\ task'[w].job = task[w].job
    /\ task'[w].pc = "dead"

(* What a step may do to the rest. *)
ProcessEffect ==
    /\ \A id \in Claimed' : id \in Claimed \/ Taken(id)
    /\ \A id \in finals' : id \in finals \/ \E w \in Worker : Reports(w, id)
    /\ proc' \in {"ready", "down"} =>
          \/ finals' = {}
          \/ proc \in {"ready", "down"} /\ finals' \subseteq finals
    /\ lives' \in {lives, lives + 1}
    /\ proc' = "ready" => proc = "ready" \/ lives' = lives + 1

Effects ==
    /\ \A id \in JobId : RowEffect(id)
    /\ \A w \in Worker : WorkerEffect(w)
    /\ ProcessEffect

-----------------------------------------------------------------------------
(* Clients. *)

LEMMA EnqueueRows ==
    ASSUME StoreInv, NEW r \in Request, NEW id \in JobId, UNCHANGED runs,
           \/ r.key = NoKey /\ Enqueue(id, r)
           \/ DedupInserted(id, r)
           \/ DedupReplaced(id, r)
           \/ DedupSkippedRunning(r, id)
           \/ DedupSkippedDuplicate(r)
    PROVE  \A x \in JobId : Kept(x) \/ Enqueued(x) \/ Removed(x)
  <1> DEFINE kept == Purge(jobs, r.key, now)
             new == NewRow(r, now)
  <1>1. new.status = "pending" /\ new.attempts = 0
    BY DEF NewRow
  <1>2. Blank("deleted").status = "deleted"
    BY DEF Blank
  <1>3. jobs \in [JobId -> Row] /\ kept \in [JobId -> Row]
    BY PurgeType DEF StoreInv, StoreTypeOK
  <1>4. \A x \in JobId : \/ kept[x] = jobs[x]
                         \/ /\ jobs[x].status \in Completed
                            /\ kept[x].status = "deleted"
    BY <1>2, PurgeType DEF Lapsed
  <1>5. ASSUME NEW x \in JobId, jobs'[x] = kept[x]
        PROVE  Kept(x) \/ Removed(x)
    BY <1>4, <1>5 DEF Kept, Removed, Becomes, SameRuns
  <1>6. ASSUME jobs[id].status = "absent", jobs'[id] = new
        PROVE  Enqueued(id)
    <2> HIDE DEF new
    <2> QED
      BY <1>1, <1>6 DEF Enqueued, Becomes, SameRuns
  <1>7. CASE r.key = NoKey /\ Enqueue(id, r)
    <2>1. jobs' = [jobs EXCEPT ![id] = new]
      BY <1>7, EnqueueInv
    <2>2. jobs[id].status = "absent"
      BY <1>7 DEF Enqueue, Fresh
    <2> HIDE DEF new
    <2>3. jobs'[id] = new /\ \A x \in JobId \ {id} : jobs'[x] = jobs[x]
      BY <1>3, <2>1
    <2> QED
      BY <1>6, <2>2, <2>3 DEF Kept, SameRuns
  <1>8. CASE DedupInserted(id, r)
    <2>1. jobs' = [kept EXCEPT ![id] = new]
      BY <1>8, DedupInsertedInv
    <2>2. jobs[id].status = "absent"
      BY <1>8 DEF DedupInserted, Fresh
    <2> HIDE DEF new, kept
    <2>3. jobs'[id] = new /\ \A x \in JobId \ {id} : jobs'[x] = kept[x]
      BY <1>3, <2>1
    <2> QED
      BY <1>5, <1>6, <2>2, <2>3
  <1>9. CASE DedupReplaced(id, r)
    <2>1. PICK old \in Holders(kept, r.key) :
             /\ kept[old].status # "running"
             /\ jobs' = [kept EXCEPT ![old] = Blank("deleted"), ![id] = new]
      BY <1>9, DedupReplacedInv
    <2>2. jobs[id].status = "absent"
      BY <1>9 DEF DedupReplaced, Fresh
    <2>3. old \in JobId /\ kept[old].status \in Stored
      BY DEF Holders, Ids
    <2>4. /\ kept[old] = jobs[old]
          /\ jobs[old].status \in {"pending"} \cup Completed
      BY <1>4, <2>1, <2>3 DEF Stored, Active, Completed
    <2>5. old # id
      BY <2>2, <2>4 DEF Completed
    <2> HIDE DEF new, kept
    <2>6. /\ jobs'[id] = new /\ jobs'[old] = Blank("deleted")
          /\ \A x \in JobId \ {id, old} : jobs'[x] = kept[x]
      BY <1>3, <2>1, <2>3, <2>5
    <2>7. Removed(old)
      BY <1>2, <2>4, <2>6 DEF Removed, Becomes, SameRuns
    <2> QED
      BY <1>5, <1>6, <2>2, <2>6, <2>7
  <1>10. CASE DedupSkippedRunning(r, id) \/ DedupSkippedDuplicate(r)
    <2>1. jobs' = kept
      BY <1>10, DedupSkippedInv
    <2> QED
      BY <1>5, <2>1
  <1> QED
    BY <1>7, <1>8, <1>9, <1>10

LEMMA NothingDone ==
    ASSUME UNCHANGED <<jobs, runs, task, batch, finals, lives>>,
           proc' \in {"ready", "down"} => proc' = proc
    PROVE  Effects
  <1>1. \A id \in JobId : RowEffect(id)
    BY DEF RowEffect, Kept, SameRuns
  <1>2. \A w \in Worker : WorkerEffect(w)
    BY DEF WorkerEffect
  <1>3. ProcessEffect
    BY DEF ProcessEffect, Claimed
  <1> QED
    BY <1>1, <1>2, <1>3 DEF Effects

LEMMA ClientsEffects == ASSUME PoolInv, Clients PROVE Effects
  <1>0. StoreInv /\ PoolTypeOK
    BY DEF PoolInv, TypeInv
  <1>1. ASSUME UNCHANGED <<task, batch, proc, lives>>, finals' \subseteq finals,
               \A id \in JobId : RowEffect(id)
        PROVE  Effects
    <2>1. \A w \in Worker : WorkerEffect(w)
      BY <1>1 DEF WorkerEffect
    <2>2. ProcessEffect
      BY <1>1 DEF ProcessEffect, Claimed
    <2> QED
      BY <1>1, <2>1, <2>2 DEF Effects
  <1>2. ASSUME NEW r \in Request, ClientEnqueue(r) PROVE Effects
    <2>1. UNCHANGED <<task, batch, proc, lives, finals, runs>>
      BY <1>2 DEF ClientEnqueue, poolVars, pollVars, lifeVars, historyVars
    <2>2. CASE JobId = {}
      BY <1>1, <2>1, <2>2
    <2>3. CASE JobId # {}
      <3>1. \E id \in JobId :
               \/ r.key = NoKey /\ Enqueue(id, r)
               \/ DedupInserted(id, r) \/ DedupReplaced(id, r)
               \/ DedupSkippedDuplicate(r)
        BY <1>2, <2>3 DEF ClientEnqueue
      <3> QED
        BY <1>0, <1>1, <2>1, <3>1, EnqueueRows DEF RowEffect
    <2> QED
      BY <2>2, <2>3
  <1>3. ASSUME NEW r \in Request, NEW by \in JobId, ClientSkipped(r, by)
        PROVE  Effects
    <2>1. UNCHANGED <<task, batch, proc, lives, finals, runs>>
      BY <1>3 DEF ClientSkipped, pollVars, lifeVars
    <2>2. DedupSkippedRunning(r, by)
      BY <1>3 DEF ClientSkipped
    <2> QED
      BY <1>0, <1>1, <2>1, <2>2, EnqueueRows DEF RowEffect
  <1>4. ASSUME NEW id \in JobId, ManualRetry(id) PROVE Effects
    <2> DEFINE new == Rescheduled(jobs[id], 0, now)
    <2>1. /\ UNCHANGED <<task, batch, proc, lives>>
          /\ finals' = finals \ {id}
          /\ jobs[id].status = "failed"
          /\ manual' = manual + 1
          /\ runs' = [runs EXCEPT ![id] = 0]
          /\ RetryJob(id)
      BY <1>4 DEF ManualRetry, pollVars
    <2>2. jobs' = [jobs EXCEPT ![id] = new]
      BY <1>0, <2>1, RetryJobInv
    <2>3. /\ jobs \in [JobId -> Row] /\ runs \in [JobId -> Nat]
          /\ jobs[id] \in Row /\ manual \in Nat
      BY <1>0 DEF StoreInv, StoreTypeOK, PoolTypeOK
    <2>4. new.status = "pending" /\ new.attempts = 0
      BY <2>3 DEF Rescheduled, Row
    <2> HIDE DEF new
    <2>5. Revived(id)
      BY <2>1, <2>2, <2>3, <2>4 DEF Revived, Becomes
    <2>6. \A x \in JobId \ {id} : Kept(x)
      BY <2>1, <2>2, <2>3 DEF Kept, SameRuns
    <2>7. \A x \in JobId : RowEffect(x)
      BY <2>5, <2>6 DEF RowEffect
    <2> QED
      BY <1>1, <2>1, <2>7
  <1>5. ASSUME NEW t \in JobType, CancelAll(t) PROVE Effects
    BY <1>5, NothingDone
    DEF CancelAll, storeVars, lifeVars, pollVars, historyVars
  <1>6. CASE ReadEvent
    BY <1>6, NothingDone DEF ReadEvent, storeVars, lifeVars, pollVars
  <1> QED
    BY <1>2, <1>3, <1>4, <1>5, <1>6 DEF Clients

-----------------------------------------------------------------------------
(* The poll loop. *)

LEMMA ClaimRows ==
    ASSUME PoolInv, NEW S \in SUBSET JobId, NEW limit, Claim(S, limit),
           UNCHANGED runs
    PROVE  /\ \A id \in S : Taken(id)
           /\ \A id \in JobId \ S : Kept(id)
  BY ClaimTakesPending DEF Taken, Kept, Becomes, SameRuns

LEMMA PollerEffects == ASSUME PoolInv, Poller PROVE Effects
  <1>0. PoolTypeOK /\ BatchOfPoll
    BY DEF PoolInv, TypeInv, Work
  <1>1. CASE PollTick \/ PollExit \/ ClaimFails
    BY <1>1, NothingDone
    DEF PollTick, PollExit, ClaimFails, storeVars, lifeVars, historyVars
  <1>2. ASSUME NEW copies, AfterClaim(copies),
               \A id \in JobId : RowEffect(id),
               \A c \in copies : Taken(c.id)
        PROVE  Effects
    <2>1. /\ UNCHANGED <<task, proc, lives, finals>>
          /\ batch' = copies
      BY <1>2 DEF AfterClaim, lifeVars, historyVars
    <2>2. \A id \in Claimed' : Taken(id)
      BY <1>2, <2>1 DEF Claimed
    <2> QED
      BY <1>2, <2>1, <2>2 DEF Effects, WorkerEffect, ProcessEffect
  <1>3. CASE PollClaim
    <2>1. PICK S \in SUBSET JobId :
             Claim(S, free) /\ AfterClaim({CopyOf(id) : id \in S})
      BY <1>3 DEF PollClaim
    <2>2. /\ \A id \in S : Taken(id)
          /\ \A id \in JobId \ S : Kept(id)
      BY <2>1, ClaimRows DEF AfterClaim, historyVars
    <2>3. \A id \in S : CopyOf(id).id = id
      BY DEF CopyOf
    <2> QED
      BY <1>2, <2>1, <2>2, <2>3 DEF RowEffect
  <1>4. CASE ClaimAborted
    <2>1. AfterClaim({}) /\ UNCHANGED runs
      BY <1>4 DEF ClaimAborted, AfterClaim, historyVars
    <2>2. \A id \in JobId : RowEffect(id)
      <3>1. CASE \E S \in SUBSET JobId : Claim(S, free)
        BY <2>1, <3>1, ClaimRows DEF RowEffect
      <3>2. CASE UNCHANGED storeVars
        BY <2>1, <3>2 DEF RowEffect, Kept, SameRuns, storeVars
      <3> QED
        BY <1>4, <3>1, <3>2 DEF ClaimAborted
    <2> QED
      BY <1>2, <2>1, <2>2
  <1>5. ASSUME NEW w \in Worker, Dispatch(w) PROVE Effects
    <2>1. PICK c \in batch :
             /\ task' = [task EXCEPT ![w] =
                           [pc |-> "start", job |-> c, retryAt |-> 0]]
             /\ batch' = batch \ {c}
      BY <1>5 DEF Dispatch
    <2>2. UNCHANGED <<jobs, runs, proc, lives, finals>>
      BY <1>5 DEF Dispatch, storeVars, lifeVars, historyVars
    <2>3. \A v \in Worker : WorkerEffect(v)
      BY <1>0, <2>1 DEF WorkerEffect, PoolTypeOK
    <2>4. ProcessEffect
      BY <2>1, <2>2 DEF ProcessEffect, Claimed
    <2> QED
      BY <2>2, <2>3, <2>4 DEF Effects, RowEffect, Kept, SameRuns
  <1> QED
    BY <1>1, <1>3, <1>4, <1>5 DEF Poller

-----------------------------------------------------------------------------
(* The goroutines. *)

(* A step of goroutine w that reports nothing as final. *)
LEMMA QuietEffects ==
    ASSUME PoolTypeOK, NEW w \in Worker, WorkerEffect(w),
           \A v \in Worker \ {w} : task'[v] = task[v],
           UNCHANGED <<batch, proc, lives, finals>>,
           \A id \in JobId : RowEffect(id)
    PROVE  Effects
  <1>1. \A v \in Worker : WorkerEffect(v)
    BY DEF WorkerEffect
  <1>2. ProcessEffect
    BY DEF ProcessEffect, Claimed
  <1> QED
    BY <1>1, <1>2 DEF Effects

LEMMA HandlerEffects ==
    ASSUME PoolInv, NEW w \in Worker,
           \/ RunHandler(w) \/ NoHandler(w) \/ HandlerSucceeds(w)
           \/ HandlerFails(w)
    PROVE  Effects
  <1> DEFINE job == task[w].job
  <1>1. PoolTypeOK
    BY DEF PoolInv, TypeInv
  <1>2. task[w].pc \in {"start", "handler"} /\ Alive
    BY DEF RunHandler, NoHandler, HandlerSucceeds, HandlerFails
  <1>3. task[w] \in Task /\ task[w].pc # "idle" /\ job.id \in JobId
    BY <1>1, <1>2, BusyTask
  <1>4. UNCHANGED <<jobs, batch, proc, lives>>
    BY DEF RunHandler, NoHandler, HandlerSucceeds, HandlerFails, storeVars,
           lifeVars, pollVars
  <1>5. ASSUME NEW pc \in Owning, Goto(w, pc)
        PROVE  /\ \A v \in Worker \ {w} : task'[v] = task[v]
               /\ task'[w].pc = pc /\ task'[w].job = job
    BY <1>1, <1>3, <1>5, GotoType
  <1>6. {"handler", "done", "dead"} \subseteq Owning
    BY DEF Owning
  <1>7. UNCHANGED runs => \A id \in JobId : RowEffect(id)
    BY <1>4 DEF RowEffect, Kept, SameRuns
  <1>8. ASSUME Goto(w, "dead"), Emit(job.id, TRUE), UNCHANGED runs
        PROVE  Effects
    <2>1. /\ \A v \in Worker \ {w} : task'[v] = task[v]
          /\ task'[w].pc = "dead" /\ task'[w].job = job
      BY <1>5, <1>6, <1>8
    <2>2. WorkerEffect(w)
      BY <1>2, <2>1 DEF WorkerEffect
    <2>3. Reports(w, job.id)
      BY <2>1 DEF Reports
    <2>4. \A id \in finals' : id \in finals \/ id = job.id
      BY <1>8 DEF Emit
    <2>5. ProcessEffect
      BY <1>2, <1>4, <2>3, <2>4 DEF ProcessEffect, Claimed, Alive
    <2> QED
      BY <1>7, <1>8, <2>1, <2>2, <2>5 DEF Effects, WorkerEffect
  <1>9. CASE RunHandler(w)
    <2>1. /\ \A v \in Worker \ {w} : task'[v] = task[v]
          /\ task'[w].pc = "handler" /\ task'[w].job = job
          /\ task[w].pc = "start"
          /\ runs' = [runs EXCEPT ![job.id] = @ + 1]
          /\ UNCHANGED finals
      BY <1>5, <1>6, <1>9 DEF RunHandler
    <2>2. runs \in [JobId -> Nat]
      BY <1>1 DEF PoolTypeOK
    <2>3. Executed(job.id)
      BY <1>3, <1>4, <2>1, <2>2 DEF Executed
    <2>4. \A id \in JobId \ {job.id} : Kept(id)
      BY <1>4, <2>1, <2>2 DEF Kept, SameRuns
    <2>5. \A id \in JobId : RowEffect(id)
      BY <2>3, <2>4 DEF RowEffect
    <2>6. WorkerEffect(w)
      BY <2>1 DEF WorkerEffect
    <2> QED
      BY <1>1, <1>4, <2>1, <2>5, <2>6, QuietEffects
  <1>10. CASE NoHandler(w)
    BY <1>8, <1>10 DEF NoHandler
  <1>11. CASE HandlerSucceeds(w)
    <2>1. /\ \A v \in Worker \ {w} : task'[v] = task[v]
          /\ task'[w].pc = "done" /\ task'[w].job = job
          /\ task[w].pc = "handler"
          /\ UNCHANGED <<runs, finals>>
      BY <1>5, <1>6, <1>11 DEF HandlerSucceeds, historyVars
    <2>2. WorkerEffect(w)
      BY <2>1 DEF WorkerEffect
    <2> QED
      BY <1>1, <1>4, <1>7, <2>1, <2>2, QuietEffects
  <1>12. CASE HandlerFails(w)
    <2>1. UNCHANGED runs /\ task[w].pc = "handler"
      BY <1>12 DEF HandlerFails
    <2>2. ASSUME NEW t, IsRetryable(job.attempts + 1, job.maxAttempts),
                 task' = [task EXCEPT ![w] =
                             [@ EXCEPT !.pc = "retry", !.retryAt = t]],
                 Emit(job.id, FALSE)
          PROVE  Effects
      <3> DEFINE new == [task[w] EXCEPT !.pc = "retry", !.retryAt = t]
      <3>1. new.pc = "retry" /\ new.job = job
        BY <1>3 DEF Task
      <3>2. task' = [task EXCEPT ![w] = new] /\ UNCHANGED finals
        BY <2>2 DEF Emit
      <3> HIDE DEF new
      <3>3. /\ \A v \in Worker \ {w} : task'[v] = task[v]
            /\ task'[w].pc = "retry" /\ task'[w].job = job
        BY <1>1, <3>1, <3>2 DEF PoolTypeOK
      <3>4. WorkerEffect(w)
        BY <2>1, <2>2, <3>3 DEF WorkerEffect
      <3> QED
        BY <1>1, <1>4, <1>7, <2>1, <3>2, <3>3, <3>4, QuietEffects
    <2>3. CASE Goto(w, "dead") /\ Emit(job.id, TRUE)
      BY <1>8, <2>1, <2>3
    <2> QED
      BY <1>12, <2>2, <2>3 DEF HandlerFails
  <1> QED
    BY <1>9, <1>10, <1>11, <1>12

(* The bookkeeping calls. *)
LEMMA BookkeepingEffects ==
    ASSUME PoolInv, NEW w \in Worker,
           \/ ScheduleRetry(w) \/ CompleteSelect(w) \/ CompleteUpdate(w)
           \/ BookkeepingFails(w) \/ Finish(w)
    PROVE  Effects
  <1> DEFINE id == task[w].job.id
  <1>1. PoolTypeOK /\ StoreInv /\ ReadsMatch
    BY DEF PoolInv, TypeInv, Work
  <1>2. UNCHANGED <<batch, proc, lives, finals, runs>> /\ task[w].pc # "idle"
    BY DEF ScheduleRetry, CompleteSelect, CompleteUpdate, BookkeepingFails,
           Finish, TaskOnly, lifeVars, pollVars, historyVars
  <1>3. id \in JobId
    BY <1>1, <1>2, BusyTask
  <1>4. Owner(w) => jobs[id].status = "running"
    BY OwnsRunningRow
  <1>5. UNCHANGED jobs => \A x \in JobId : RowEffect(x)
    BY <1>2 DEF RowEffect, Kept, SameRuns
  <1>6. ASSUME NEW pc \in {"exit", "update"}, Goto(w, pc),
               pc = "update" => task[w].pc \in {"done", "dead"}
        PROVE  /\ \A v \in Worker \ {w} : task'[v] = task[v]
               /\ WorkerEffect(w)
    <2>1. pc \in Owning \cup {"exit"}
      BY DEF Owning
    <2>2. /\ \A v \in Worker \ {w} : task'[v] = task[v]
          /\ task'[w].pc = pc /\ task'[w].job = task[w].job
      BY <1>1, <1>2, <1>6, <2>1, GotoType
    <2>3. pc = "exit" => ~Owner(w)'
      BY <2>2 DEF Owner, Owning
    <2> QED
      BY <1>6, <2>2, <2>3 DEF WorkerEffect
  <1>7. ASSUME NEW pc \in {"exit", "update"}, Goto(w, pc),
               pc = "update" => task[w].pc \in {"done", "dead"},
               \A x \in JobId : RowEffect(x)
        PROVE  Effects
    BY <1>1, <1>2, <1>6, <1>7, QuietEffects
  <1>8. CASE ScheduleRetry(w)
    <2>1. task[w].pc = "retry" /\ Owner(w) /\ Goto(w, "exit")
      BY <1>8 DEF ScheduleRetry, TaskOnly, Owner, Owning
    <2>2. CASE MarkRetry(id, task[w].retryAt)
      <3> DEFINE new == Rescheduled(jobs[id], jobs[id].attempts + 1,
                                    task[w].retryAt)
      <3>1. task[w].retryAt \in Int
        BY <1>1, <1>2, BusyTask DEF Task
      <3>2. jobs[id].status \in Stored
        BY <1>4, <2>1 DEF Stored, Active
      <3>3. jobs' = [jobs EXCEPT ![id] = new]
        BY <1>1, <1>3, <2>2, <3>1, <3>2, MarkRetryInv
      <3>4. jobs \in [JobId -> Row] /\ jobs[id] \in Row
        BY <1>1, <1>3 DEF StoreInv, StoreTypeOK
      <3>5. /\ new.status = "pending"
            /\ new.attempts = jobs[id].attempts + 1
            /\ new.maxAttempts = jobs[id].maxAttempts
        BY <3>4 DEF Rescheduled, Row
      <3> HIDE DEF new
      <3>6. jobs'[id] = new /\ \A x \in JobId \ {id} : jobs'[x] = jobs[x]
        BY <1>3, <3>3, <3>4
      <3>7. GivenBack(id)
        BY <1>2, <1>4, <2>1, <3>5, <3>6
        DEF GivenBack, Becomes, SameRuns
      <3>8. \A x \in JobId : RowEffect(x)
        BY <1>2, <3>6, <3>7 DEF RowEffect, Kept, SameRuns
      <3> QED
        BY <1>7, <2>1, <3>8
    <2>3. CASE UNCHANGED storeVars
      BY <1>5, <1>7, <2>1, <2>3 DEF storeVars
    <2> QED
      BY <1>8, <2>2, <2>3 DEF ScheduleRetry
  <1>9. CASE CompleteSelect(w)
    <2>1. UNCHANGED jobs
      BY <1>9
      DEF CompleteSelect, MarkCompletedSelect, MarkCompletedMissing, storeVars
    <2>2. /\ task[w].pc \in {"done", "dead"}
          /\ Goto(w, "update") \/ Goto(w, "exit")
      BY <1>9 DEF CompleteSelect, TaskOnly
    <2> QED
      BY <1>5, <1>7, <2>1, <2>2
  <1>10. CASE CompleteUpdate(w)
    <2>1. task[w].pc = "update" /\ Owner(w) /\ Goto(w, "exit")
      BY <1>10 DEF CompleteUpdate, TaskOnly, Owner, Owning
    <2>2. CASE MarkCompletedUpdate(w)
      <3>1. reads[w].id = id
        BY <1>1, <2>2 DEF MarkCompletedUpdate, ReadsMatch
      <3>2. jobs[id].status \in Stored
        BY <1>4, <2>1 DEF Stored, Active
      <3>3. /\ reads[w] \in Read
            /\ \A x \in JobId \ {id} : jobs'[x] = jobs[x]
            /\ jobs'[id].status = reads[w].status
            /\ jobs'[id].maxAttempts = jobs[id].maxAttempts
        BY <1>1, <2>2, <3>1, <3>2, MarkCompletedUpdateInv DEF Worker
      <3>4. Ended(id)
        BY <1>2, <1>4, <2>1, <3>3 DEF Ended, Becomes, SameRuns, Read
      <3>5. \A x \in JobId : RowEffect(x)
        BY <1>2, <3>3, <3>4 DEF RowEffect, Kept, SameRuns
      <3> QED
        BY <1>7, <2>1, <3>5
    <2>3. CASE UNCHANGED jobs
      BY <1>5, <1>7, <2>1, <2>3
    <2> QED
      BY <1>10, <2>2, <2>3 DEF CompleteUpdate
  <1>11. CASE BookkeepingFails(w)
    BY <1>5, <1>7, <1>11 DEF BookkeepingFails
  <1>12. CASE Finish(w)
    <2>1. /\ \A v \in Worker \ {w} : task'[v] = task[v]
          /\ task'[w] = NoTask /\ UNCHANGED jobs
      BY <1>1, <1>12 DEF Finish, PoolTypeOK, storeVars
    <2>2. WorkerEffect(w)
      BY <2>1 DEF WorkerEffect, Owner, Owning, NoTask
    <2> QED
      BY <1>1, <1>2, <1>5, <2>1, <2>2, QuietEffects
  <1> QED
    BY <1>8, <1>9, <1>10, <1>11, <1>12

-----------------------------------------------------------------------------
(* The process. *)

LEMMA ProcessEffects == ASSUME PoolInv, Process \/ PoolTick PROVE Effects
  <1>0. PoolTypeOK /\ StoreInv
    BY DEF PoolInv, TypeInv
  <1>1. CASE Shutdown \/ StopDrained \/ StopTimeout \/ StartUnrecovered
    <2>1. /\ UNCHANGED <<jobs, runs, task, batch, finals, lives>>
          /\ proc' \notin {"ready", "down"}
      BY <1>1
      DEF Shutdown, StopDrained, StopTimeout, StartUnrecovered, ProcessStep,
          storeVars, pollVars, historyVars
    <2> QED
      BY <2>1, NothingDone
  <1>2. CASE PoolTick
    BY <1>2, NothingDone
    DEF PoolTick, Tick, poolVars, lifeVars, pollVars, historyVars
  <1>3. CASE Boot
    <2>1. /\ UNCHANGED <<jobs, runs, task, batch, finals>>
          /\ lives' = lives + 1 /\ proc = "down"
      BY <1>3 DEF Boot, storeVars, pollVars, historyVars
    <2> QED
      BY <2>1
      DEF Effects, RowEffect, Kept, SameRuns, WorkerEffect, ProcessEffect,
          Claimed
  <1>4. CASE Start
    <2>1. /\ UNCHANGED <<runs, task, batch, finals, lives>>
          /\ proc = "ready" /\ proc' = "up" /\ RecoverStuck
      BY <1>4 DEF Start
    <2>2. jobs' = [id \in JobId |-> IF jobs[id].status = "running"
                                    THEN [jobs[id] EXCEPT !.status = "pending"]
                                    ELSE jobs[id]]
      BY <1>0, <2>1, RecoverStuckInv
    <2>3. ASSUME NEW id \in JobId PROVE Kept(id) \/ Recovered(id)
      <3>1. CASE jobs[id].status # "running"
        BY <2>1, <2>2, <3>1 DEF Kept, SameRuns
      <3>2. CASE jobs[id].status = "running"
        <4>1. jobs'[id] = [jobs[id] EXCEPT !.status = "pending"]
          BY <2>2, <3>2
        <4>2. jobs[id] \in Row
          BY <1>0 DEF StoreInv, StoreTypeOK
        <4>3. jobs'[id].status = "pending" /\ CopyOf(id)' = CopyOf(id)
          BY <4>1, <4>2 DEF Row, CopyOf
        <4> QED
          BY <2>1, <3>2, <4>3 DEF Recovered, Becomes, SameRuns
      <3> QED
        BY <3>1, <3>2
    <2> QED
      BY <2>1, <2>3 DEF Effects, RowEffect, WorkerEffect, ProcessEffect, Claimed
  <1>5. CASE Gone
    <2>1. /\ UNCHANGED <<jobs, runs, lives>>
          /\ proc' = "down" /\ batch' = {} /\ finals' = {}
          /\ \A w \in Worker : task'[w] = NoTask
      BY <1>5 DEF Gone
    <2>2. \A w \in Worker : WorkerEffect(w)
      BY <2>1 DEF WorkerEffect, Owner, Owning, NoTask
    <2> QED
      BY <2>1, <2>2
      DEF Effects, RowEffect, Kept, SameRuns, ProcessEffect, Claimed
  <1> QED
    BY <1>1, <1>2, <1>3, <1>4, <1>5 DEF Process, Exit, Crash

LEMMA StepEffects == ASSUME PoolInv, [PoolNext]_vars PROVE Effects
  <1>1. CASE UNCHANGED vars
    BY <1>1, NothingDone
    DEF vars, storeVars, poolVars, lifeVars, pollVars, historyVars
  <1> QED
    BY <1>1, ClientsEffects, PollerEffects, HandlerEffects, BookkeepingEffects,
       ProcessEffects
    DEF PoolNext, Goroutine

-----------------------------------------------------------------------------
(* A completed job is not executed again and keeps its status, unless the  *)
(* dashboard revives a failed one (markCompleted, Claim, RecoverStuck,     *)
(* RetryJob in sqlite.go; dispatch in worker.go).                          *)
THEOREM PoolCompletedStays == PoolSpec => CompletedStays
  <1>1. ASSUME PoolInv, [PoolNext]_vars
        PROVE  [\A id \in Ids(jobs, Completed) :
                  /\ \/ jobs'[id].status \in {jobs[id].status, "deleted"}
                     \/ jobs[id].status = "failed" /\ manual' > manual
                  /\ runs'[id] <= runs[id]]_vars
    <2> SUFFICES ASSUME NEW id \in JobId, jobs[id].status \in Completed
                 PROVE  /\ \/ jobs'[id].status \in {jobs[id].status, "deleted"}
                           \/ jobs[id].status = "failed" /\ manual' > manual
                        /\ runs'[id] <= runs[id]
      BY DEF Ids
    <2>1. runs[id] \in Nat
      BY <1>1 DEF PoolInv, TypeInv, PoolTypeOK
    <2>2. ~Executed(id)
      <3>1. ASSUME NEW w \in Worker, task[w].pc = "start", task[w].job.id = id
            PROVE  FALSE
        <4>1. Owner(w)
          BY <3>1 DEF Owner, Owning
        <4>2. jobs[id].status = "running"
          BY <1>1, <3>1, <4>1, OwnsRunningRow
        <4> QED
          BY <4>2 DEF Completed
      <3> QED
        BY <3>1 DEF Executed
    <2>3. Kept(id) \/ Removed(id) \/ Revived(id)
      <3>1. RowEffect(id)
        BY <1>1, StepEffects DEF Effects
      <3> QED
        BY <2>2, <3>1
        DEF RowEffect, Enqueued, Taken, GivenBack, Ended, Recovered, Becomes,
            Completed
    <2> QED
      BY <2>1, <2>3 DEF Kept, Removed, Revived, Becomes, SameRuns
  <1> QED
    BY <1>1, PoolInvariant, PTL DEF PoolSpec, CompletedStays

-----------------------------------------------------------------------------
(***************************************************************************)
(* A job reported as final is with nobody, or on its way to MarkFailed,    *)
(* and its row is not pending, so it cannot be claimed: only a restart     *)
(* makes it pending again, and then the process that reported it is gone.  *)
(***************************************************************************)
FinalsInv ==
    /\ finals # {} => proc \notin {"ready", "down"}
    /\ \A id \in finals :
          /\ jobs[id].status \notin {"pending", "absent"}
          /\ id \notin Claimed
          /\ \A w \in Worker :
                Owner(w) /\ task[w].job.id = id => task[w].pc \in {"dead", "update"}

LEMMA FinalsInductive ==
    ASSUME PoolInv, PoolInv', FinalsInv, Effects PROVE FinalsInv'
  <1>1. finals' # {} => proc' \notin {"ready", "down"}
    BY DEF Effects, ProcessEffect, FinalsInv
  <1>2. ASSUME NEW id \in finals'
        PROVE  /\ jobs'[id].status \notin {"pending", "absent"}
               /\ id \notin Claimed'
               /\ \A w \in Worker :
                     Owner(w)' /\ task'[w].job.id = id
                     => task'[w].pc \in {"dead", "update"}
    <2>1. id \in JobId
      BY DEF PoolInv, TypeInv, PoolTypeOK
    <2>2. CASE \E w \in Worker : Reports(w, id)
      <3>1. PICK w \in Worker : Reports(w, id)
        BY <2>2
      <3>2. Owner(w)' /\ task'[w].job.id = id
        BY <3>1 DEF Reports, Owner, Owning
      <3>3. (ExclusiveExecution /\ OwnedRowsRunning)'
        BY DEF PoolInv, Work, Holding
      <3>4. id \in Owned'
        BY <3>2 DEF Owned
      <3>5. jobs'[id].status = "running" /\ id \notin Claimed'
        BY <3>3, <3>4 DEF OwnedRowsRunning, ExclusiveExecution
      <3>6. \A v \in Worker :
               Owner(v)' /\ task'[v].job.id = id => task'[v].pc = "dead"
        BY <3>1, <3>2, <3>3 DEF ExclusiveExecution, Reports
      <3> QED
        BY <3>5, <3>6
    <2>3. CASE id \in finals
      <3>1. /\ jobs[id].status \notin {"pending", "absent"}
            /\ id \notin Claimed
            /\ proc \notin {"ready", "down"}
            /\ \A w \in Worker : Owner(w) /\ task[w].job.id = id
                                 => task[w].pc \in {"dead", "update"}
        BY <2>3 DEF FinalsInv
      <3>2. /\ ~Enqueued(id) /\ ~Taken(id) /\ ~Revived(id) /\ ~Recovered(id)
        BY <1>2, <3>1 DEF Enqueued, Taken, Revived, Recovered, Becomes
      <3>3. ~GivenBack(id)
        BY <3>1 DEF GivenBack, Owner, Owning
      <3>4. jobs'[id].status \notin {"pending", "absent"}
        <4>1. RowEffect(id)
          BY <2>1 DEF Effects
        <4> QED
          BY <3>1, <3>2, <3>3, <4>1
          DEF RowEffect, Kept, Removed, Executed, Ended, Becomes, Completed
      <3>5. id \notin Claimed'
        BY <3>1, <3>2 DEF Effects, ProcessEffect
      <3>6. ASSUME NEW w \in Worker, Owner(w)', task'[w].job.id = id
            PROVE  task'[w].pc \in {"dead", "update"}
        <4>1. WorkerEffect(w)
          BY DEF Effects
        <4>2. task'[w].job \notin batch
          BY <3>1, <3>6 DEF Claimed
        <4>3. CASE task'[w] = task[w]
          BY <3>1, <3>6, <4>3 DEF Owner
        <4>4. CASE task'[w].job = task[w].job /\ Owner(w)
          BY <3>1, <3>6, <4>1, <4>2, <4>3, <4>4 DEF WorkerEffect
        <4> QED
          BY <3>6, <4>1, <4>2, <4>3, <4>4 DEF WorkerEffect, Owner, Owning
      <3> QED
        BY <3>4, <3>5, <3>6
    <2> QED
      BY <2>2, <2>3 DEF Effects, ProcessEffect
  <1> QED
    BY <1>1, <1>2 DEF FinalsInv

(* The process that has sent a job's final event does not execute the job  *)
(* again, whatever its clients, its clock and its errors do (dispatch and  *)
(* emit in worker.go, Claim in sqlite.go).                                 *)
THEOREM PoolFinalIsFinal == PoolSpec => []FinalIsFinal
  <1>1. PoolInit => FinalsInv
    BY DEF PoolInit, FinalsInv
  <1>2. PoolInv /\ PoolInv' /\ FinalsInv /\ [PoolNext]_vars => FinalsInv'
    BY FinalsInductive, StepEffects
  <1>3. FinalsInv => FinalIsFinal
    BY DEF FinalsInv, FinalIsFinal, Owner, Owning
  <1> QED
    BY <1>1, <1>2, <1>3, PoolInvariant, PTL DEF PoolSpec

-----------------------------------------------------------------------------
(***************************************************************************)
(* MaxAttempts bounds the executions.  A row counts its failed attempts,   *)
(* so the executions of a job that waits are its attempts, and at most one *)
(* more for each process that died; of a running one there may be one      *)
(* more, the current one.  A process that is about to start has been       *)
(* counted, so what it recovers has no current execution.                  *)
(***************************************************************************)
Counted(id) == jobs[id].attempts + lives - 1

(* The job is with somebody who has not called its handler yet. *)
NotYetRun(id) ==
    \/ id \in Claimed
    \/ \E w \in Worker : task[w].pc = "start" /\ task[w].job.id = id

RunsInv(id) ==
    /\ jobs[id].status = "absent" => runs[id] = 0
    /\ jobs[id].status = "pending" => runs[id] <= Counted(id)
    /\ jobs[id].status = "running" =>
          /\ runs[id] <= Counted(id) + 1
          /\ proc = "ready" \/ NotYetRun(id) => runs[id] <= Counted(id)
    /\ jobs[id].status \in Active /\ jobs[id].maxAttempts > 0 =>
          jobs[id].attempts < jobs[id].maxAttempts
    /\ jobs[id].status \in Completed /\ jobs[id].maxAttempts > 0 =>
          runs[id] <= jobs[id].maxAttempts + lives - 1

(* A goroutine that schedules a retry has attempts left. *)
RetriesLeft ==
    \A w \in Worker :
        task[w].pc = "retry" =>
            IsRetryable(task[w].job.attempts + 1, task[w].job.maxAttempts)

BudgetInv ==
    /\ lives >= 1
    /\ RetriesLeft
    /\ \A id \in JobId : RunsInv(id)

LEMMA RetriesLeftKept ==
    ASSUME PoolInv, RetriesLeft, Effects PROVE RetriesLeft'
  <1> SUFFICES ASSUME NEW w \in Worker, task'[w].pc = "retry"
               PROVE  IsRetryable(task'[w].job.attempts + 1,
                                  task'[w].job.maxAttempts)
    BY DEF RetriesLeft, IsRetryable
  <1>1. Owner(w)'
    BY DEF Owner, Owning
  <1>2. WorkerEffect(w)
    BY DEF Effects
  <1> QED
    BY <1>1, <1>2 DEF WorkerEffect, RetriesLeft

LEMMA NotYetRunKept ==
    ASSUME PoolInv, Effects, NEW id \in JobId, NotYetRun(id)'
    PROVE  NotYetRun(id) \/ Taken(id)
  <1>1. CASE id \in Claimed'
    BY <1>1 DEF Effects, ProcessEffect, NotYetRun
  <1>2. ASSUME NEW w \in Worker, task'[w].pc = "start", task'[w].job.id = id
        PROVE  NotYetRun(id)
    <2>1. WorkerEffect(w) /\ Owner(w)'
      BY <1>2 DEF Effects, Owner, Owning
    <2>2. task'[w] = task[w] \/ task'[w].job \in batch
      BY <1>2, <2>1 DEF WorkerEffect
    <2> QED
      BY <1>2, <2>2 DEF NotYetRun, Claimed
  <1> QED
    BY <1>1, <1>2 DEF NotYetRun

LEMMA RowNumbers ==
    ASSUME PoolInv, NEW id \in JobId
    PROVE  /\ jobs[id].attempts \in Nat /\ jobs[id].maxAttempts \in Int
           /\ jobs[id].status \in Status
           /\ runs[id] \in Nat /\ lives \in Nat
  BY DEF PoolInv, TypeInv, StoreInv, StoreTypeOK, PoolTypeOK, Row

(* The step of goroutine w that has called the handler of job id. *)
LEMMA ExecutedNotWaiting ==
    ASSUME PoolInv', NEW id \in JobId, Executed(id)
    PROVE  ~NotYetRun(id)' /\ proc' # "ready"
  <1>1. PICK w \in Worker : /\ task[w].job.id = id
                           /\ task'[w].pc = "handler" /\ task'[w].job = task[w].job
    BY DEF Executed
  <1>2. (ExclusiveExecution /\ Quiet)'
    BY DEF PoolInv, Work, Holding
  <1>3. Owner(w)' /\ id \in Owned'
    BY <1>1 DEF Owner, Owning, Owned
  <1>4. id \notin Claimed'
    BY <1>2, <1>3 DEF ExclusiveExecution
  <1>5. \A v \in Worker : task'[v].pc = "start" => task'[v].job.id # id
    BY <1>1, <1>2, <1>3 DEF ExclusiveExecution, Owner, Owning
  <1>6. proc' # "ready"
    <2>1. task'[w] # NoTask
      BY <1>1 DEF NoTask
    <2> QED
      BY <1>2, <2>1 DEF Quiet, Idle
  <1> QED
    BY <1>4, <1>5, <1>6 DEF NotYetRun

LEMMA RunsInvKept ==
    ASSUME PoolInv, PoolInv', BudgetInv, Effects, NEW id \in JobId
    PROVE  RunsInv(id)'
  <1> USE DEF Becomes, SameRuns, Counted
  <1>1. RunsInv(id) /\ RetriesLeft /\ lives >= 1
    BY DEF BudgetInv
  <1>2. /\ jobs[id].attempts \in Nat /\ jobs[id].maxAttempts \in Int
        /\ runs[id] \in Nat /\ lives \in Nat
        /\ jobs'[id].attempts \in Nat /\ jobs'[id].maxAttempts \in Int
        /\ runs'[id] \in Nat /\ lives' \in Nat
    <2>1. /\ jobs'[id] \in Row /\ runs'[id] \in Nat /\ lives' \in Nat
      BY DEF PoolInv, TypeInv, StoreInv, StoreTypeOK, PoolTypeOK
    <2>2. jobs'[id].attempts \in Nat /\ jobs'[id].maxAttempts \in Int
      BY <2>1 DEF Row
    <2> QED
      BY <2>1, <2>2, RowNumbers
  <1>3. /\ lives' \in {lives, lives + 1}
        /\ proc' = "ready" => proc = "ready" \/ lives' = lives + 1
    BY DEF Effects, ProcessEffect
  <1>4. NotYetRun(id)' => NotYetRun(id) \/ Taken(id)
    BY NotYetRunKept
  <1>5. CASE Kept(id)
    <2>1. Taken(id) => jobs[id].status = "pending" /\ jobs'[id].status = "running"
      BY DEF Taken
    <2> QED
      BY <1>1, <1>2, <1>3, <1>4, <1>5, <2>1 DEF RunsInv, Kept
  <1>6. CASE Enqueued(id)
    BY <1>1, <1>2, <1>3, <1>6 DEF RunsInv, Enqueued, Active, Completed
  <1>7. CASE Removed(id)
    BY <1>7 DEF RunsInv, Removed, Active, Completed
  <1>8. CASE Revived(id)
    <2>1. /\ jobs'[id].status = "pending" /\ jobs'[id].attempts = 0
          /\ runs'[id] = 0
      BY <1>8 DEF Revived
    <2>2. lives' >= 1
      BY <1>1, <1>2, <1>3
    <2>3. runs'[id] <= Counted(id)'
      BY <1>2, <2>1, <2>2
    <2>4. jobs'[id].maxAttempts > 0 => jobs'[id].attempts < jobs'[id].maxAttempts
      BY <2>1
    <2> HIDE DEF Counted
    <2> QED
      BY <2>1, <2>3, <2>4 DEF RunsInv, Completed
  <1>9. CASE Taken(id)
    <2>1. /\ jobs'[id].attempts = jobs[id].attempts
          /\ jobs'[id].maxAttempts = jobs[id].maxAttempts
      BY <1>9 DEF Taken, CopyOf
    <2> QED
      BY <1>1, <1>2, <1>3, <1>9, <2>1 DEF RunsInv, Taken, Active, Completed
  <1>10. CASE Executed(id)
    <2>1. /\ jobs'[id] = jobs[id] /\ runs'[id] = runs[id] + 1
          /\ NotYetRun(id)
      BY <1>10 DEF Executed, NotYetRun
    <2>2. jobs[id].status = "running"
      <3>1. PICK w \in Worker : task[w].pc = "start" /\ task[w].job.id = id
        BY <1>10 DEF Executed
      <3> QED
        BY <3>1, OwnsRunningRow DEF Owner, Owning
    <2>3. ~NotYetRun(id)' /\ proc' # "ready"
      BY <1>10, ExecutedNotWaiting
    <2> QED
      BY <1>1, <1>2, <1>3, <2>1, <2>2, <2>3 DEF RunsInv, Active, Completed
  <1>11. CASE GivenBack(id)
    <2>1. PICK w \in Worker : task[w].pc = "retry" /\ task[w].job.id = id
      BY <1>11 DEF GivenBack
    <2>2. task[w].job = CopyOf(id)
      BY <2>1 DEF PoolInv, Work, Holding, FreshCopy, Owner, Owning
    <2>3. IsRetryable(jobs[id].attempts + 1, jobs[id].maxAttempts)
      BY <1>1, <2>1, <2>2 DEF RetriesLeft, CopyOf
    <2> QED
      BY <1>1, <1>2, <1>3, <1>11, <2>3
      DEF RunsInv, GivenBack, IsRetryable, Active, Completed
  <1>12. CASE Ended(id)
    BY <1>1, <1>2, <1>3, <1>12 DEF RunsInv, Ended, Active, Completed
  <1>13. CASE Recovered(id)
    <2>1. /\ jobs'[id].attempts = jobs[id].attempts
          /\ jobs'[id].maxAttempts = jobs[id].maxAttempts
      BY <1>13 DEF Recovered, CopyOf
    <2> QED
      BY <1>1, <1>2, <1>3, <1>13, <2>1 DEF RunsInv, Recovered, Active, Completed
  <1>14. RowEffect(id)
    BY DEF Effects
  <1> QED
    BY <1>5, <1>6, <1>7, <1>8, <1>9, <1>10, <1>11, <1>12, <1>13, <1>14
    DEF RowEffect

LEMMA BudgetInductive ==
    ASSUME PoolInv, PoolInv', BudgetInv, Effects PROVE BudgetInv'
  <1>1. lives' >= 1
    BY DEF BudgetInv, Effects, ProcessEffect, PoolInv, TypeInv, PoolTypeOK
  <1> QED
    BY <1>1, RetriesLeftKept, RunsInvKept DEF BudgetInv

LEMMA BudgetInit == PoolInit => BudgetInv
  <1> SUFFICES ASSUME PoolInit PROVE BudgetInv
    OBVIOUS
  <1>1. /\ lives = 1 /\ \A w \in Worker : task[w].pc = "idle"
        /\ \A id \in JobId : jobs[id].status = "absent" /\ runs[id] = 0
    BY DEF PoolInit, StoreInit, ProcessInit, NoTask, Blank
  <1> QED
    BY <1>1 DEF BudgetInv, RetriesLeft, RunsInv, Active, Completed

(* MaxAttempts bounds the executions of a job, up to one for each process  *)
(* that died, whatever the retry policy and however the processes end      *)
(* (isRetryable in worker.go, MarkFailed and RecoverStuck in sqlite.go).   *)
THEOREM PoolExecutionsBounded == PoolSpec => []ExecutionsBounded
  <1>1. PoolInit => BudgetInv
    BY BudgetInit
  <1>2. PoolInv /\ PoolInv' /\ BudgetInv /\ [PoolNext]_vars => BudgetInv'
    BY BudgetInductive, StepEffects
  <1>3. PoolInv /\ BudgetInv => ExecutionsBounded
    <2> SUFFICES ASSUME PoolInv, BudgetInv, NEW id \in JobId,
                        jobs[id].status \in Stored, jobs[id].maxAttempts > 0
                 PROVE  runs[id] <= jobs[id].maxAttempts + lives - 1
      BY DEF ExecutionsBounded, Ids
    <2>1. RunsInv(id)
      BY DEF BudgetInv
    <2> QED
      BY <2>1, RowNumbers DEF RunsInv, Counted, Stored, Active, Completed
  <1> QED
    BY <1>1, <1>2, <1>3, PoolInvariant, PTL DEF PoolSpec

=============================================================================
