------------------------ MODULE PoolExclusionProofs ------------------------
(***************************************************************************)
(* No job is worked on twice at a time, every goroutine writes to the row  *)
(* it owns, and no row is stuck in running: theorems about the worker      *)
(* pool for every number of jobs and workers.                              *)
(*                                                                         *)
(* The invariants of PoolProperties depend on each other: a row is claimed *)
(* only while pending, hence not owned, because owned rows are running;    *)
(* and an owned row stays running because nobody but its owner writes to   *)
(* running rows.  Three more facts make their conjunction inductive.       *)
(***************************************************************************)
EXTENDS WorkerPoolProofs

(* A process that is not up yet, or is gone, has no work in its memory. *)
Quiet ==
    proc \in {"ready", "down"} => poller = "off" /\ Idle = Worker

(* The slice of claimed jobs exists only while poll dispatches it. *)
BatchOfPoll == poller # "dispatch" => batch = {}

(* What a goroutine has read in markCompleted is about its own job. *)
ReadsMatch ==
    \A w \in Worker :
        reads[w] # NoRead =>
            task[w].pc = "update" /\ reads[w].id = task[w].job.id

FreshBatch == \A c \in batch : c = CopyOf(c.id)

(* The jobs in the hands of a goroutine or of poll. *)
Held == Owned \cup Claimed

Holding ==
    /\ ExclusiveExecution
    /\ OwnedRowsRunning
    /\ FreshCopy
    /\ FreshBatch

Work ==
    /\ Quiet
    /\ BatchOfPoll
    /\ ReadsMatch
    /\ Holding
    /\ NoStuckRunning

PoolInv == TypeInv /\ Work

-----------------------------------------------------------------------------
LEMMA HeldIds ==
    ASSUME PoolTypeOK
    PROVE  /\ \A w \in Worker :
                 Owner(w) => /\ task[w].job.id \in Owned
                             /\ task[w].job.id \in JobId
           /\ \A c \in batch : c.id \in Claimed /\ c.id \in JobId
           /\ Held \subseteq JobId
  <1>1. \A c \in batch : c.id \in Claimed /\ c.id \in JobId
    BY DEF Claimed, PoolTypeOK, Copy
  <1>2. \A w \in Worker :
           Owner(w) => task[w].job.id \in Owned /\ task[w].job.id \in JobId
    <2>1. SUFFICES ASSUME NEW w \in Worker, Owner(w)
                   PROVE  task[w].job.id \in JobId
      BY DEF Owned
    <2>2. task[w].pc # "idle"
      BY <2>1 DEF Owner, Owning
    <2> QED
      BY <2>2, BusyTask
  <1>3. Owned \subseteq JobId
    BY <1>2 DEF Owned
  <1>4. Claimed \subseteq JobId
    BY <1>1 DEF Claimed
  <1> QED
    BY <1>1, <1>2, <1>3, <1>4 DEF Held

(* A step after which nobody holds a job that he did not hold before, and  *)
(* the rows of the jobs still held are as they were.                       *)
LEMMA HoldingKept ==
    ASSUME PoolTypeOK, Holding, batch' \subseteq batch,
           \A w \in Worker :
               Owner(w)' => Owner(w) /\ task'[w].job = task[w].job,
           \A id \in Held' : jobs'[id] = jobs[id]
    PROVE  Holding'
  <1>1. Owned' \subseteq Owned /\ Claimed' \subseteq Claimed
    BY DEF Owned, Claimed
  <1>2. Held' \subseteq Held
    BY <1>1 DEF Held
  <1>3. \A id \in Held' : CopyOf(id)' = CopyOf(id)
    BY DEF CopyOf
  <1>4. ExclusiveExecution'
    BY <1>1 DEF Holding, ExclusiveExecution
  <1>5. OwnedRowsRunning'
    BY <1>2 DEF Holding, OwnedRowsRunning, Held
  <1>6. FreshCopy'
    <2>1. \A w \in Worker : Owner(w)' => task'[w].job.id \in Held'
      BY DEF Held, Owned
    <2> QED
      BY <1>3, <2>1 DEF Holding, FreshCopy
  <1>7. FreshBatch'
    <2>1. \A c \in batch' : c.id \in Held'
      BY DEF Held, Claimed
    <2> QED
      BY <1>3, <2>1 DEF Holding, FreshBatch
  <1> QED
    BY <1>4, <1>5, <1>6, <1>7 DEF Holding

(* Running rows are left alone, and no row becomes running. *)
RunningKept ==
    \A id \in JobId :
        /\ jobs[id].status = "running" => jobs'[id] = jobs[id]
        /\ jobs'[id].status = "running" => jobs[id].status = "running"

LEMMA HoldersKept ==
    ASSUME PoolInv, UNCHANGED <<task, batch, lost>>, RunningKept
    PROVE  /\ Holding'
           /\ (proc' = "up" => proc = "up") => NoStuckRunning'
  <1>1. PoolTypeOK /\ Holding /\ NoStuckRunning
    BY DEF PoolInv, TypeInv, Work
  <1>2. \A w \in Worker : Owner(w)' <=> Owner(w)
    BY DEF Owner
  <1>3. Owned' = Owned /\ Claimed' = Claimed /\ Held' = Held
    BY DEF Owned, Claimed, Held, Owner
  <1>4. \A id \in Held : jobs'[id] = jobs[id]
    BY <1>1, HeldIds
    DEF Holding, OwnedRowsRunning, Held, RunningKept
  <1>5. Holding'
    BY <1>1, <1>2, <1>3, <1>4, HoldingKept
  <1>6. ASSUME proc' = "up" => proc = "up" PROVE NoStuckRunning'
    <2>1. lost \subseteq JobId
      BY <1>1 DEF PoolTypeOK
    <2> QED
      BY <1>1, <1>3, <1>6, <2>1 DEF NoStuckRunning, Ids, RunningKept
  <1> QED
    BY <1>5, <1>6

-----------------------------------------------------------------------------
(* What clients do to the table. *)

LEMMA PurgeKeepsRunning ==
    ASSUME StoreInv, NEW k, NEW id \in JobId
    PROVE  \/ Purge(jobs, k, now)[id] = jobs[id]
           \/ /\ jobs[id].status # "running"
              /\ Purge(jobs, k, now)[id].status # "running"
  BY PurgeDeletes, PurgeType DEF Over, Completed, Blank

LEMMA EnqueueKeepsRunning ==
    ASSUME StoreInv, NEW r \in Request, NEW id \in JobId,
           \/ r.key = NoKey /\ Enqueue(id, r)
           \/ DedupInserted(id, r)
           \/ DedupReplaced(id, r)
           \/ DedupSkippedRunning(r, id)
           \/ DedupSkippedDuplicate(r)
    PROVE  RunningKept
  <1> DEFINE kept == Purge(jobs, r.key, now)
             new == NewRow(r, now)
  <1>1. new.status = "pending"
    BY DEF NewRow
  <1>2. Blank("deleted").status = "deleted"
    BY DEF Blank
  <1>3. jobs \in [JobId -> Row] /\ kept \in [JobId -> Row]
    BY PurgeType DEF StoreInv, StoreTypeOK
  <1>4. \A x \in JobId : \/ kept[x] = jobs[x]
                         \/ /\ jobs[x].status # "running"
                            /\ kept[x].status # "running"
    BY PurgeKeepsRunning
  <1>5. CASE r.key = NoKey /\ Enqueue(id, r)
    <2>1. jobs' = [jobs EXCEPT ![id] = new]
      BY <1>5, EnqueueInv
    <2>2. jobs[id].status = "absent"
      BY <1>5 DEF Enqueue, Fresh
    <2> HIDE DEF new
    <2> QED
      BY <1>1, <1>3, <2>1, <2>2 DEF RunningKept
  <1>6. CASE DedupInserted(id, r)
    <2>1. jobs' = [kept EXCEPT ![id] = new]
      BY <1>6, DedupInsertedInv
    <2>2. jobs[id].status = "absent"
      BY <1>6 DEF DedupInserted, Fresh
    <2> HIDE DEF new, kept
    <2> QED
      BY <1>1, <1>3, <1>4, <2>1, <2>2 DEF RunningKept
  <1>7. CASE DedupReplaced(id, r)
    <2>1. PICK old \in Holders(kept, r.key) :
             /\ kept[old].status # "running"
             /\ jobs' = [kept EXCEPT ![old] = Blank("deleted"), ![id] = new]
      BY <1>7, DedupReplacedInv
    <2>2. jobs[id].status = "absent"
      BY <1>7 DEF DedupReplaced, Fresh
    <2>3. old \in JobId
      BY DEF Holders, Ids
    <2> HIDE DEF new, kept
    <2> QED
      BY <1>1, <1>2, <1>3, <1>4, <2>1, <2>2, <2>3 DEF RunningKept
  <1>8. CASE DedupSkippedRunning(r, id) \/ DedupSkippedDuplicate(r)
    <2>1. jobs' = kept
      BY <1>8, DedupSkippedInv
    <2> HIDE DEF kept
    <2> QED
      BY <1>4, <2>1 DEF RunningKept
  <1> QED
    BY <1>5, <1>6, <1>7, <1>8

LEMMA RetryJobKeepsRunning ==
    ASSUME StoreInv, NEW id \in JobId, RetryJob(id)
    PROVE  RunningKept
  <1> DEFINE new == Rescheduled(jobs[id], 0, now)
  <1>1. jobs \in [JobId -> Row] /\ jobs[id] \in Row /\ now \in Int
    BY DEF StoreInv, StoreTypeOK
  <1>2. new.status = "pending"
    BY <1>1, RescheduledType
  <1>3. jobs' = IF jobs[id].status = "failed" THEN [jobs EXCEPT ![id] = new]
                                              ELSE jobs
    BY RetryJobInv
  <1> HIDE DEF new
  <1> QED
    BY <1>1, <1>2, <1>3 DEF RunningKept

LEMMA ClientsKeep ==
    ASSUME TypeInv, Clients
    PROVE  RunningKept /\ UNCHANGED <<proc, poller, batch, task, reads, lost>>
  <1>0. StoreInv
    BY DEF TypeInv
  <1>1. ASSUME NEW r \in Request, ClientEnqueue(r)
        PROVE  /\ RunningKept
               /\ UNCHANGED <<proc, poller, batch, task, reads, lost>>
    <2>1. UNCHANGED <<proc, poller, batch, task, lost>>
      BY <1>1
      DEF ClientEnqueue, poolVars, lifeVars, pollVars, historyVars, faultVars
    <2>2. UNCHANGED reads
      BY <1>1
      DEF ClientEnqueue, Enqueue, DedupInserted, DedupReplaced,
          DedupSkippedDuplicate, Write
    <2>3. CASE \E id \in JobId :
                  \/ r.key = NoKey /\ Enqueue(id, r)
                  \/ DedupInserted(id, r) \/ DedupReplaced(id, r)
      BY <1>0, <2>1, <2>2, <2>3, EnqueueKeepsRunning
    <2>4. CASE DedupSkippedDuplicate(r)
      <3>1. CASE JobId = {}
        BY <2>1, <2>2, <3>1 DEF RunningKept
      <3>2. CASE JobId # {}
        BY <1>0, <2>1, <2>2, <2>4, <3>2, EnqueueKeepsRunning
      <3> QED
        BY <3>1, <3>2
    <2> QED
      BY <1>1, <2>3, <2>4 DEF ClientEnqueue
  <1>2. ASSUME NEW r \in Request, NEW by \in JobId, ClientSkipped(r, by)
        PROVE  /\ RunningKept
               /\ UNCHANGED <<proc, poller, batch, task, reads, lost>>
    BY <1>0, <1>2, EnqueueKeepsRunning
    DEF ClientSkipped, DedupSkippedRunning, Write, lifeVars, pollVars, faultVars
  <1>3. ASSUME NEW id \in JobId, ManualRetry(id)
        PROVE  /\ RunningKept
               /\ UNCHANGED <<proc, poller, batch, task, reads, lost>>
    BY <1>0, <1>3, RetryJobKeepsRunning
    DEF ManualRetry, RetryJob, Write, pollVars, faultVars
  <1>4. ASSUME NEW t \in JobType, CancelAll(t)
        PROVE  /\ RunningKept
               /\ UNCHANGED <<proc, poller, batch, task, reads, lost>>
    BY <1>4
    DEF CancelAll, RunningKept, storeVars, lifeVars, pollVars, historyVars,
        faultVars
  <1>5. CASE ReadEvent
    BY <1>5
    DEF ReadEvent, RunningKept, storeVars, lifeVars, pollVars, faultVars
  <1> QED
    BY <1>1, <1>2, <1>3, <1>4, <1>5 DEF Clients

LEMMA ClientsWork == ASSUME PoolInv, Clients PROVE Work'
  <1>1. RunningKept /\ UNCHANGED <<proc, poller, batch, task, reads, lost>>
    BY ClientsKeep DEF PoolInv
  <1>2. Holding' /\ NoStuckRunning'
    BY <1>1, HoldersKept
  <1>3. Quiet' /\ BatchOfPoll' /\ ReadsMatch'
    BY <1>1 DEF PoolInv, Work, Quiet, BatchOfPoll, ReadsMatch, Idle
  <1> QED
    BY <1>2, <1>3 DEF Work

-----------------------------------------------------------------------------
(* The poll loop. *)

(* What Claim does to rows that are held, and to those it takes. *)
LEMMA ClaimTakesPending ==
    ASSUME PoolInv, NEW S \in SUBSET JobId, NEW limit, Claim(S, limit)
    PROVE  /\ \A id \in S : jobs[id].status = "pending"
           /\ \A id \in JobId \ S : jobs'[id] = jobs[id]
           /\ \A id \in S : jobs'[id].status = "running" /\ CopyOf(id)' = CopyOf(id)
           /\ S \cap Held = {}
           /\ UNCHANGED reads
  <1>1. StoreInv
    BY DEF PoolInv, TypeInv
  <1>2. /\ S \subseteq Due(jobs, now)
        /\ jobs' = [id \in JobId |->
                      IF id \in S THEN [jobs[id] EXCEPT !.status = "running"]
                                  ELSE jobs[id]]
    BY <1>1, ClaimInv
  <1>3. \A id \in S : jobs[id].status = "pending"
    BY <1>2 DEF Due, Ids
  <1>4. \A id \in JobId \ S : jobs'[id] = jobs[id]
    BY <1>2
  <1>5. \A id \in S : jobs'[id].status = "running" /\ CopyOf(id)' = CopyOf(id)
    <2>1. SUFFICES ASSUME NEW id \in S
                   PROVE  /\ jobs'[id].status = "running"
                          /\ CopyOf(id)' = CopyOf(id)
      OBVIOUS
    <2>2. jobs'[id] = [jobs[id] EXCEPT !.status = "running"]
      BY <1>2
    <2>3. jobs[id] \in Row
      BY <1>1 DEF StoreInv, StoreTypeOK
    <2> QED
      BY <2>2, <2>3 DEF Row, CopyOf
  <1>6. S \cap Held = {}
    BY <1>3 DEF PoolInv, Work, Holding, OwnedRowsRunning, Held
  <1>7. UNCHANGED reads
    BY DEF Claim, Write
  <1> QED
    BY <1>3, <1>4, <1>5, <1>6, <1>7

LEMMA PollClaimWork == ASSUME PoolInv, PollClaim PROVE Work'
  <1> USE DEF PoolInv, Work
  <1>1. PICK S \in SUBSET JobId :
           Claim(S, free) /\ AfterClaim({CopyOf(id) : id \in S})
    BY DEF PollClaim
  <1> DEFINE copies == {CopyOf(id) : id \in S}
  <1>2. /\ proc' = proc /\ proc \in {"up", "stopping"}
        /\ batch = {} /\ batch' = copies /\ task' = task
        /\ poller' = IF copies = {} THEN "wait" ELSE "dispatch"
        /\ lost' = lost
    BY <1>1
    DEF PollClaim, BatchOfPoll, AfterClaim, lifeVars, historyVars, faultVars
  <1>3. /\ \A id \in S : jobs[id].status = "pending"
        /\ \A id \in JobId \ S : jobs'[id] = jobs[id]
        /\ \A id \in S : jobs'[id].status = "running" /\ CopyOf(id)' = CopyOf(id)
        /\ S \cap Held = {}
        /\ UNCHANGED reads
    BY <1>1, ClaimTakesPending
  <1>4. PoolTypeOK
    BY DEF TypeInv
  <1>5. \A id : CopyOf(id).id = id
    BY DEF CopyOf
  <1>6. Owned' = Owned /\ Claimed' = S /\ Claimed = {}
    BY <1>2, <1>5 DEF Owned, Owner, Claimed
  <1>7. Owned \subseteq JobId \ S
    BY <1>3, <1>4, HeldIds DEF Held
  <1>8. \A w \in Worker : Owner(w)' <=> Owner(w)
    BY <1>2 DEF Owner
  <1>9. ExclusiveExecution'
    <2>1. \A c, d \in batch' : c.id = d.id => c = d
      BY <1>2, <1>5
    <2>2. Owned' \cap Claimed' = {}
      BY <1>6, <1>7
    <2> QED
      BY <1>2, <1>8, <2>1, <2>2 DEF Holding, ExclusiveExecution
  <1>10. OwnedRowsRunning'
    BY <1>3, <1>6, <1>7 DEF Holding, OwnedRowsRunning
  <1>11. FreshCopy'
    <2>1. \A id \in Owned : CopyOf(id)' = CopyOf(id)
      BY <1>3, <1>7 DEF CopyOf
    <2>2. \A w \in Worker : Owner(w) => task[w].job.id \in Owned
      BY DEF Owned
    <2> QED
      BY <1>2, <1>8, <2>1, <2>2 DEF Holding, FreshCopy
  <1>12. FreshBatch'
    BY <1>2, <1>3, <1>5 DEF FreshBatch
  <1>13. NoStuckRunning'
    <2>1. lost \subseteq JobId \ S
      BY <1>3, <1>4 DEF NoStuckRunning, PoolTypeOK
    <2> QED
      BY <1>2, <1>3, <1>6, <2>1 DEF NoStuckRunning, Ids
  <1>14. Quiet' /\ BatchOfPoll' /\ ReadsMatch'
    BY <1>2, <1>3 DEF Quiet, BatchOfPoll, ReadsMatch
  <1> QED
    BY <1>9, <1>10, <1>11, <1>12, <1>13, <1>14 DEF Holding

LEMMA ClaimAbortedWork == ASSUME PoolInv, ClaimAborted PROVE Work'
  <1>1. PoolTypeOK /\ Holding /\ ReadsMatch /\ NoStuckRunning
    BY DEF PoolInv, TypeInv, Work
  <1>2. /\ proc' = proc /\ proc \in {"stopping", "closed"}
        /\ batch' = {} /\ task' = task /\ poller' = "wait" /\ lost' = lost
    BY DEF ClaimAborted, AfterClaim, lifeVars, historyVars, faultVars
  <1>3. /\ \A id \in Held \cup lost : jobs'[id] = jobs[id]
        /\ UNCHANGED reads
    <2>1. CASE \E S \in SUBSET JobId : Claim(S, free)
      <3>1. Held \subseteq JobId /\ lost \subseteq JobId
        BY <1>1, HeldIds DEF PoolTypeOK
      <3>2. \A id \in lost : jobs[id].status = "running"
        BY <1>1 DEF NoStuckRunning
      <3> QED
        BY <2>1, <3>1, <3>2, ClaimTakesPending
    <2>2. CASE UNCHANGED storeVars
      BY <2>2 DEF storeVars
    <2> QED
      BY <2>1, <2>2 DEF ClaimAborted
  <1>4. /\ \A w \in Worker : Owner(w)' <=> Owner(w)
        /\ Held' \subseteq Held
    BY <1>2 DEF Held, Owned, Claimed, Owner
  <1>5. Holding'
    BY <1>1, <1>2, <1>3, <1>4, HoldingKept
  <1>6. Quiet' /\ BatchOfPoll' /\ ReadsMatch'
    BY <1>1, <1>2, <1>3 DEF Quiet, BatchOfPoll, ReadsMatch
  <1>7. NoStuckRunning'
    BY <1>1, <1>2, <1>3, <1>4 DEF NoStuckRunning, Held
  <1> QED
    BY <1>5, <1>6, <1>7 DEF Work

LEMMA DispatchWork ==
    ASSUME PoolInv, NEW w \in Worker, Dispatch(w) PROVE Work'
  <1>1. PICK c \in batch :
           /\ task' = [task EXCEPT ![w] =
                         [pc |-> "start", job |-> c, retryAt |-> 0]]
           /\ batch' = batch \ {c}
           /\ poller' = IF batch = {c} THEN "wait" ELSE "dispatch"
    BY DEF Dispatch
  <1> DEFINE new == [pc |-> "start", job |-> c, retryAt |-> 0]
  <1>2. new.pc = "start" /\ new.job = c
    OBVIOUS
  <1>3. PoolTypeOK /\ Holding /\ ReadsMatch /\ NoStuckRunning
    BY DEF PoolInv, TypeInv, Work
  <1>4. /\ proc' = proc /\ jobs' = jobs /\ reads' = reads
        /\ proc \in {"up", "stopping", "closed"}
        /\ task[w] = NoTask /\ lost' = lost
    BY DEF Dispatch, Alive, Idle, storeVars, lifeVars, historyVars, faultVars
  <1>5. /\ task'[w] = new
        /\ \A v \in Worker \ {w} : task'[v] = task[v]
    BY <1>1, <1>3 DEF PoolTypeOK
  <1> HIDE DEF new
  <1>6. /\ Owner(w)' /\ ~Owner(w)
        /\ \A v \in Worker \ {w} : Owner(v)' <=> Owner(v)
    BY <1>2, <1>4, <1>5 DEF Owner, Owning, NoTask
  <1>7. Owned' = Owned \cup {c.id}
    BY <1>2, <1>5, <1>6 DEF Owned
  <1>8. /\ \A d, e \in batch : d.id = e.id => d = e
        /\ Owned \cap Claimed = {}
        /\ c.id \in Claimed
    BY DEF Holding, ExclusiveExecution, PoolInv, Work, Claimed
  <1>9. Claimed' = Claimed \ {c.id}
    BY <1>1, <1>8 DEF Claimed
  <1>10. ExclusiveExecution'
    <2>1. \A u, v \in Worker :
             Owner(u)' /\ Owner(v)' /\ task'[u].job.id = task'[v].job.id
             => u = v
      <3>1. \A v \in Worker \ {w} : Owner(v)' => task'[v].job.id # c.id
        BY <1>5, <1>6, <1>8 DEF Owned
      <3>2. task'[w].job.id = c.id
        BY <1>2, <1>5
      <3> QED
        BY <1>3, <1>5, <1>6, <3>1, <3>2 DEF Holding, ExclusiveExecution
    <2>2. Owned' \cap Claimed' = {}
      BY <1>7, <1>8, <1>9
    <2> QED
      BY <1>1, <1>8, <2>1, <2>2 DEF ExclusiveExecution
  <1>11. Owned' \cup Claimed' = Owned \cup Claimed
    BY <1>7, <1>8, <1>9
  <1>12. OwnedRowsRunning' /\ NoStuckRunning'
    BY <1>3, <1>4, <1>11
    DEF Holding, OwnedRowsRunning, NoStuckRunning, Ids
  <1>13. \A id : CopyOf(id)' = CopyOf(id)
    BY <1>4 DEF CopyOf
  <1>14. FreshCopy' /\ FreshBatch'
    BY <1>1, <1>2, <1>3, <1>5, <1>6, <1>13 DEF Holding, FreshCopy, FreshBatch
  <1>15. Quiet' /\ BatchOfPoll'
    BY <1>1, <1>4 DEF Quiet, BatchOfPoll
  <1>16. ReadsMatch'
    BY <1>3, <1>4, <1>5 DEF ReadsMatch, NoTask
  <1> QED
    BY <1>10, <1>12, <1>14, <1>15, <1>16 DEF Work, Holding

LEMMA PollerWork == ASSUME PoolInv, Poller PROVE Work'
  <1>1. CASE PollTick \/ PollExit \/ ClaimFails
    <2>1. /\ UNCHANGED <<jobs, reads, proc, task, batch, lost>>
          /\ proc \notin {"ready", "down"}
          /\ poller # "dispatch"
      BY <1>1
      DEF PollTick, PollExit, ClaimFails, storeVars, lifeVars, historyVars,
          faultVars
    <2>2. RunningKept
      BY <2>1 DEF RunningKept
    <2>3. Holding' /\ NoStuckRunning'
      BY <2>1, <2>2, HoldersKept
    <2>4. Quiet' /\ BatchOfPoll' /\ ReadsMatch'
      BY <2>1 DEF PoolInv, Work, Quiet, BatchOfPoll, ReadsMatch
    <2> QED
      BY <2>3, <2>4 DEF Work
  <1> QED
    BY <1>1, PollClaimWork, ClaimAbortedWork, DispatchWork DEF Poller

-----------------------------------------------------------------------------
(* The goroutines. *)

(* A step of goroutine w that changes no row, or gives its own row away.   *)
LEMMA GoroutineHolding ==
    ASSUME PoolInv, NEW w \in Worker, task[w].pc # "idle",
           UNCHANGED <<proc, poller, batch>>,
           \A v \in Worker \ {w} : task'[v] = task[v],
           Owner(w)' => Owner(w) /\ task'[w].job = task[w].job,
           \A id \in JobId :
               \/ jobs'[id] = jobs[id]
               \/ Owner(w) /\ ~Owner(w)' /\ id = task[w].job.id,
           proc = "up" /\ Owner(w) /\ ~Owner(w)' =>
               \/ jobs'[task[w].job.id].status # "running"
               \/ task[w].job.id \in lost',
           lost \subseteq lost',
           \A id \in lost' \ lost :
               /\ Owner(w) /\ ~Owner(w)' /\ id = task[w].job.id
               /\ jobs'[id].status = "running"
    PROVE  Quiet' /\ BatchOfPoll' /\ Holding' /\ NoStuckRunning'
  <1>1. PoolTypeOK /\ Holding /\ NoStuckRunning /\ Quiet /\ BatchOfPoll
    BY DEF PoolInv, TypeInv, Work
  <1>2. \A v \in Worker \ {w} : Owner(v)' <=> Owner(v)
    BY DEF Owner
  <1>3. \A v \in Worker :
           Owner(v)' => Owner(v) /\ task'[v].job = task[v].job
    BY <1>2
  <1>4. Owned' \subseteq Owned /\ Claimed' = Claimed
    BY <1>3 DEF Owned, Claimed
  <1>5. Held' \subseteq JobId
    BY <1>1, <1>4, HeldIds DEF Held
  <1>6. Owner(w) /\ ~Owner(w)' => task[w].job.id \notin Held'
    <2>1. SUFFICES ASSUME Owner(w), ~Owner(w)'
                   PROVE  task[w].job.id \notin Held'
      OBVIOUS
    <2>2. task[w].job.id \notin Claimed
      BY <1>1, <2>1, HeldIds DEF Holding, ExclusiveExecution
    <2>3. \A v \in Worker : Owner(v)' => task'[v].job.id # task[w].job.id
      BY <1>1, <1>3, <2>1 DEF Holding, ExclusiveExecution
    <2>4. task[w].job.id \notin Owned'
      BY <2>3 DEF Owned
    <2> QED
      BY <1>4, <2>2, <2>4 DEF Held
  <1>7. Holding'
    <2>1. \A id \in Held' : jobs'[id] = jobs[id]
      BY <1>5, <1>6
    <2> QED
      BY <1>1, <1>3, <2>1, HoldingKept
  <1>8. NoStuckRunning'
    <2>0. \A id \in lost' :
             jobs'[id].status = "running" /\ id \notin Owned' \cup Claimed'
      <3>1. ASSUME NEW id \in lost
            PROVE  jobs'[id].status = "running" /\ id \notin Owned' \cup Claimed'
        <4>1. id \in JobId /\ jobs[id].status = "running" /\ id \notin Held
          BY <1>1, <3>1 DEF NoStuckRunning, PoolTypeOK, Held
        <4>2. Owner(w) => id # task[w].job.id
          BY <1>1, <4>1, HeldIds DEF Held
        <4> QED
          BY <1>4, <4>1, <4>2 DEF Held
      <3> QED
        BY <1>6, <3>1 DEF Held
    <2>1. SUFFICES ASSUME proc = "up", NEW id \in JobId,
                          jobs'[id].status = "running", id \notin lost'
                   PROVE  id \in Owned' \cup Claimed'
      BY <2>0 DEF NoStuckRunning, Ids
    <2>2. jobs[id].status = "running"
      BY <2>1
    <2>3. id \in Owned \cup Claimed
      BY <1>1, <2>1, <2>2 DEF NoStuckRunning, Ids
    <2>4. CASE id \in Owned
      <3>1. PICK v \in Worker : Owner(v) /\ id = task[v].job.id
        BY <2>4 DEF Owned
      <3>2. Owner(v)' /\ task'[v].job = task[v].job
        BY <1>2, <1>3, <2>1, <3>1
      <3> QED
        BY <3>1, <3>2 DEF Owned
    <2> QED
      BY <1>4, <2>3, <2>4
  <1>9. Quiet' /\ BatchOfPoll'
    <2>1. proc \notin {"ready", "down"}
      BY <1>1 DEF Quiet, Idle, NoTask
    <2> QED
      BY <1>1, <2>1 DEF Quiet, BatchOfPoll
  <1> QED
    BY <1>7, <1>8, <1>9

LEMMA OwnsRunningRow ==
    ASSUME PoolInv, NEW w \in Worker, Owner(w)
    PROVE  /\ task[w].pc # "idle"
           /\ task[w].job.id \in JobId
           /\ jobs[task[w].job.id].status = "running"
  BY HeldIds
  DEF PoolInv, TypeInv, Work, Holding, OwnedRowsRunning, Owner, Owning

(* The handler, and what leads to it and away from it. *)
LEMMA HandlerWork ==
    ASSUME PoolInv, NEW w \in Worker,
           \/ RunHandler(w) \/ NoHandler(w) \/ HandlerSucceeds(w)
           \/ HandlerFails(w)
    PROVE  Work'
  <1>1. PoolTypeOK /\ ReadsMatch
    BY DEF PoolInv, TypeInv, Work
  <1>2. task[w].pc \in {"start", "handler"}
    BY DEF RunHandler, NoHandler, HandlerSucceeds, HandlerFails
  <1>3. /\ UNCHANGED <<proc, poller, batch, jobs, reads, lost>>
        /\ task[w].pc # "idle" /\ task[w].pc # "update" /\ Owner(w)
    BY <1>2
    DEF RunHandler, NoHandler, HandlerSucceeds, HandlerFails, storeVars,
        lifeVars, pollVars, historyVars, faultVars, Owner, Owning
  <1>4. /\ \A v \in Worker \ {w} : task'[v] = task[v]
        /\ task'[w].pc \in Owning /\ task'[w].job = task[w].job
    <2>1. ASSUME NEW pc \in Owning, Goto(w, pc)
          PROVE  /\ \A v \in Worker \ {w} : task'[v] = task[v]
                 /\ task'[w].pc \in Owning /\ task'[w].job = task[w].job
      BY <1>1, <1>3, <2>1, GotoType
    <2>2. ASSUME NEW t,
                 task' = [task EXCEPT ![w] =
                             [@ EXCEPT !.pc = "retry", !.retryAt = t]]
          PROVE  /\ \A v \in Worker \ {w} : task'[v] = task[v]
                 /\ task'[w].pc \in Owning /\ task'[w].job = task[w].job
      <3> DEFINE new == [task[w] EXCEPT !.pc = "retry", !.retryAt = t]
      <3>1. task[w] \in Task
        BY <1>1, <1>3, BusyTask
      <3>2. new.pc = "retry" /\ new.job = task[w].job
        BY <3>1 DEF Task
      <3>3. task' = [task EXCEPT ![w] = new]
        BY <2>2
      <3> HIDE DEF new
      <3> QED
        BY <1>1, <3>2, <3>3 DEF PoolTypeOK, Owning
    <2>3. {"handler", "done", "dead"} \subseteq Owning
      BY DEF Owning
    <2> QED
      BY <2>1, <2>2, <2>3
      DEF RunHandler, NoHandler, HandlerSucceeds, HandlerFails
  <1>5. Owner(w)'
    BY <1>4 DEF Owner
  <1>6. Quiet' /\ BatchOfPoll' /\ Holding' /\ NoStuckRunning'
    BY <1>3, <1>4, <1>5, GoroutineHolding
  <1>7. ReadsMatch'
    BY <1>1, <1>3, <1>4 DEF ReadsMatch
  <1> QED
    BY <1>6, <1>7 DEF Work

(* A bookkeeping call after which goroutine w is at pc. *)
LEMMA TaskOnlyKeeps ==
    ASSUME PoolInv, NEW w \in Worker, task[w].pc # "idle",
           NEW pc \in {"update", "exit"}, TaskOnly(w, pc)
    PROVE  /\ UNCHANGED <<proc, poller, batch, lost>>
           /\ \A v \in Worker \ {w} : task'[v] = task[v]
           /\ task'[w].pc = pc /\ task'[w].job = task[w].job
           /\ pc = "exit" => ~Owner(w)'
  <1>1. PoolTypeOK
    BY DEF PoolInv, TypeInv
  <1>2. pc \in Owning \cup {"exit"}
    BY DEF Owning
  <1>3. /\ \A v \in Worker \ {w} : task'[v] = task[v]
        /\ task'[w].pc = pc /\ task'[w].job = task[w].job
    BY <1>1, <1>2, GotoType DEF TaskOnly
  <1>4. pc = "exit" => ~Owner(w)'
    BY <1>3 DEF Owner, Owning
  <1> QED
    BY <1>3, <1>4 DEF TaskOnly, lifeVars, pollVars, historyVars, faultVars

LEMMA ScheduleRetryWork ==
    ASSUME PoolInv, NEW w \in Worker, ScheduleRetry(w) PROVE Work'
  <1> DEFINE id == task[w].job.id
             new == Rescheduled(jobs[id], jobs[id].attempts + 1, task[w].retryAt)
  <1>1. PoolTypeOK /\ ReadsMatch /\ StoreInv
    BY DEF PoolInv, TypeInv, Work
  <1>2. task[w].pc = "retry" /\ Owner(w)
    BY DEF ScheduleRetry, Owner, Owning
  <1>3. /\ task[w].pc # "idle" /\ id \in JobId
        /\ jobs[id].status = "running"
    BY <1>2, OwnsRunningRow
  <1>4. /\ UNCHANGED <<proc, poller, batch, lost>>
        /\ \A v \in Worker \ {w} : task'[v] = task[v]
        /\ ~Owner(w)'
    BY <1>3, TaskOnlyKeeps DEF ScheduleRetry
  <1>5. /\ \A other \in JobId \ {id} : jobs'[other] = jobs[other]
        /\ proc = "up" => jobs'[id].status # "running"
        /\ UNCHANGED reads
    <2>1. CASE MarkRetry(id, task[w].retryAt)
      <3>1. task[w].retryAt \in Int
        BY <1>1, <1>3, BusyTask DEF Task
      <3>2. jobs[id].status \in Stored
        BY <1>3 DEF Stored, Active
      <3>3. jobs' = [jobs EXCEPT ![id] = new]
        BY <1>1, <1>3, <2>1, <3>1, <3>2, MarkRetryInv
      <3>4. jobs \in [JobId -> Row] /\ jobs[id] \in Row
        BY <1>1, <1>3 DEF StoreInv, StoreTypeOK
      <3>5. jobs[id].attempts + 1 \in Nat
        BY <3>4 DEF Row
      <3>6. new.status = "pending"
        BY <3>1, <3>4, <3>5, RescheduledType
      <3>7. UNCHANGED reads
        BY <2>1 DEF MarkRetry, Write
      <3> HIDE DEF new, id
      <3> QED
        BY <1>3, <3>3, <3>4, <3>6, <3>7
    <2>2. CASE proc = "closed" /\ UNCHANGED storeVars
      BY <2>2 DEF storeVars
    <2> QED
      BY <2>1, <2>2 DEF ScheduleRetry
  <1>6. Quiet' /\ BatchOfPoll' /\ Holding' /\ NoStuckRunning'
    BY <1>2, <1>3, <1>4, <1>5, GoroutineHolding
  <1>7. ReadsMatch'
    BY <1>1, <1>2, <1>4, <1>5 DEF ReadsMatch
  <1> QED
    BY <1>6, <1>7 DEF Work

LEMMA CompleteSelectWork ==
    ASSUME PoolInv, NEW w \in Worker, CompleteSelect(w) PROVE Work'
  <1> DEFINE id == task[w].job.id
             status == IF task[w].pc = "done" THEN "done" ELSE "failed"
  <1>1. PoolTypeOK /\ ReadsMatch /\ StoreInv
    BY DEF PoolInv, TypeInv, Work
  <1>2. task[w].pc \in {"done", "dead"} /\ Owner(w)
    BY DEF CompleteSelect, Owner, Owning
  <1>3. /\ task[w].pc # "idle" /\ id \in JobId
        /\ jobs[id].status = "running"
    BY <1>2, OwnsRunningRow
  <1>4. status \in Completed /\ w \in Caller
    BY DEF Completed, Worker
  <1>5. CASE MarkCompletedSelect(w, id, status) /\ TaskOnly(w, "update")
    <2>1. /\ UNCHANGED <<proc, poller, batch, lost>>
          /\ \A v \in Worker \ {w} : task'[v] = task[v]
          /\ task'[w].pc = "update" /\ task'[w].job = task[w].job
      BY <1>3, <1>5, TaskOnlyKeeps
    <2>2. Owner(w)'
      BY <2>1 DEF Owner, Owning
    <2> HIDE DEF status
    <2>3. /\ UNCHANGED jobs
          /\ reads'[w].id = id
          /\ \A v \in Worker \ {w} : reads'[v] = reads[v]
      BY <1>1, <1>3, <1>4, <1>5, MarkCompletedSelectInv DEF Worker
    <2>4. Quiet' /\ BatchOfPoll' /\ Holding' /\ NoStuckRunning'
      BY <1>2, <1>3, <2>1, <2>2, <2>3, GoroutineHolding
    <2>5. ReadsMatch'
      BY <1>1, <2>1, <2>3 DEF ReadsMatch
    <2> QED
      BY <2>4, <2>5 DEF Work
  <1>6. CASE MarkCompletedMissing(id)
    BY <1>3, <1>6 DEF MarkCompletedMissing, Stored, Active
  <1>7. CASE proc = "closed" /\ UNCHANGED storeVars /\ TaskOnly(w, "exit")
    <2>1. /\ UNCHANGED <<proc, poller, batch, lost>>
          /\ \A v \in Worker \ {w} : task'[v] = task[v]
          /\ ~Owner(w)'
      BY <1>3, <1>7, TaskOnlyKeeps
    <2>2. UNCHANGED <<jobs, reads>>
      BY <1>7 DEF storeVars
    <2>3. Quiet' /\ BatchOfPoll' /\ Holding' /\ NoStuckRunning'
      BY <1>2, <1>3, <1>7, <2>1, <2>2, GoroutineHolding
    <2>4. ReadsMatch'
      BY <1>1, <1>2, <2>1, <2>2 DEF ReadsMatch
    <2> QED
      BY <2>3, <2>4 DEF Work
  <1> QED
    BY <1>5, <1>6, <1>7 DEF CompleteSelect

LEMMA CompleteUpdateWork ==
    ASSUME PoolInv, NEW w \in Worker, CompleteUpdate(w) PROVE Work'
  <1> DEFINE id == task[w].job.id
  <1>1. PoolTypeOK /\ ReadsMatch /\ StoreInv
    BY DEF PoolInv, TypeInv, Work
  <1>2. task[w].pc = "update" /\ Owner(w)
    BY DEF CompleteUpdate, Owner, Owning
  <1>3. /\ task[w].pc # "idle" /\ id \in JobId
        /\ jobs[id].status = "running"
    BY <1>2, OwnsRunningRow
  <1>4. /\ UNCHANGED <<proc, poller, batch, lost>>
        /\ \A v \in Worker \ {w} : task'[v] = task[v]
        /\ ~Owner(w)'
    BY <1>3, TaskOnlyKeeps DEF CompleteUpdate
  <1>5. /\ \A other \in JobId \ {id} : jobs'[other] = jobs[other]
        /\ proc = "up" => jobs'[id].status # "running"
        /\ reads' = [reads EXCEPT ![w] = NoRead]
    <2>1. CASE MarkCompletedUpdate(w)
      <3>1. reads[w].id = id
        BY <1>1, <2>1 DEF MarkCompletedUpdate, ReadsMatch
      <3>2. w \in Caller
        BY DEF Worker
      <3>3. jobs[id].status \in Stored
        BY <1>3 DEF Stored, Active
      <3>4. /\ reads[w] \in Read
            /\ \A other \in JobId \ {id} : jobs'[other] = jobs[other]
            /\ jobs'[id].status = reads[w].status
            /\ reads' = [reads EXCEPT ![w] = NoRead]
        BY <1>1, <2>1, <3>1, <3>2, <3>3, MarkCompletedUpdateInv
      <3>5. reads[w].status # "running"
        BY <3>4 DEF Read, Completed
      <3> QED
        BY <3>4, <3>5
    <2>2. CASE /\ proc = "closed"
               /\ reads' = [reads EXCEPT ![w] = NoRead]
               /\ UNCHANGED jobs
      BY <2>2
    <2> QED
      BY <2>1, <2>2 DEF CompleteUpdate
  <1>6. Quiet' /\ BatchOfPoll' /\ Holding' /\ NoStuckRunning'
    BY <1>2, <1>3, <1>4, <1>5, GoroutineHolding
  <1>7. ReadsMatch'
    <2>1. reads \in [Worker -> Read \cup {NoRead}]
      BY <1>1 DEF StoreInv, StoreTypeOK, Worker
    <2> QED
      BY <1>1, <1>4, <1>5, <2>1 DEF ReadsMatch
  <1> QED
    BY <1>6, <1>7 DEF Work

LEMMA BookkeepingFailsWork ==
    ASSUME PoolInv, NEW w \in Worker, BookkeepingFails(w) PROVE Work'
  <1> DEFINE id == task[w].job.id
  <1>1. PoolTypeOK /\ ReadsMatch /\ StoreInv
    BY DEF PoolInv, TypeInv, Work
  <1>2. Owner(w)
    BY DEF BookkeepingFails, Owner, Owning
  <1>3. /\ task[w].pc # "idle" /\ id \in JobId
        /\ jobs[id].status = "running"
    BY <1>2, OwnsRunningRow
  <1>4. /\ UNCHANGED <<proc, poller, batch, jobs>>
        /\ lost' = lost \cup {id}
        /\ reads' = [reads EXCEPT ![w] = NoRead]
    BY DEF BookkeepingFails, lifeVars, pollVars
  <1>5. /\ \A v \in Worker \ {w} : task'[v] = task[v]
        /\ ~Owner(w)'
    <2>1. /\ \A v \in Worker \ {w} : task'[v] = task[v]
          /\ task'[w].pc = "exit"
      BY <1>1, <1>3, GotoType DEF BookkeepingFails
    <2> QED
      BY <2>1 DEF Owner, Owning
  <1>6. Quiet' /\ BatchOfPoll' /\ Holding' /\ NoStuckRunning'
    BY <1>2, <1>3, <1>4, <1>5, GoroutineHolding
  <1>7. ReadsMatch'
    <2>1. reads \in [Worker -> Read \cup {NoRead}]
      BY <1>1 DEF StoreInv, StoreTypeOK, Worker
    <2> QED
      BY <1>1, <1>4, <1>5, <2>1 DEF ReadsMatch
  <1> QED
    BY <1>6, <1>7 DEF Work

LEMMA FinishWork ==
    ASSUME PoolInv, NEW w \in Worker, Finish(w) PROVE Work'
  <1>1. PoolTypeOK /\ ReadsMatch
    BY DEF PoolInv, TypeInv, Work
  <1>2. /\ task[w].pc = "exit"
        /\ task' = [task EXCEPT ![w] = NoTask]
        /\ UNCHANGED <<proc, poller, batch, jobs, reads, lost>>
    BY DEF Finish, storeVars, lifeVars, pollVars, historyVars, faultVars
  <1>3. /\ \A v \in Worker \ {w} : task'[v] = task[v]
        /\ task'[w] = NoTask
    BY <1>1, <1>2 DEF PoolTypeOK
  <1>4. ~Owner(w)' /\ ~Owner(w)
    BY <1>2, <1>3 DEF Owner, Owning, NoTask
  <1>5. Quiet' /\ BatchOfPoll' /\ Holding' /\ NoStuckRunning'
    BY <1>2, <1>3, <1>4, GoroutineHolding
  <1>6. ReadsMatch'
    BY <1>1, <1>2, <1>3 DEF ReadsMatch
  <1> QED
    BY <1>5, <1>6 DEF Work

LEMMA GoroutineWork ==
    ASSUME PoolInv, NEW w \in Worker, Goroutine(w) PROVE Work'
  BY HandlerWork, ScheduleRetryWork, CompleteSelectWork, CompleteUpdateWork,
     BookkeepingFailsWork, FinishWork
  DEF Goroutine

-----------------------------------------------------------------------------
(* The process. *)

LEMMA StartWork ==
    ASSUME PoolInv, Start \/ StartUnrecovered PROVE Work'
  <1>1. /\ PoolTypeOK /\ StoreInv /\ Holding
        /\ Quiet /\ BatchOfPoll /\ ReadsMatch
    BY DEF PoolInv, TypeInv, Work
  <1>2. /\ proc = "ready" /\ proc' = "up" /\ poller' = "wait"
        /\ UNCHANGED <<batch, task, reads>>
    BY DEF Start, StartUnrecovered, RecoverStuck, Write, storeVars
  <1>3. batch = {} /\ \A w \in Worker : task[w] = NoTask
    BY <1>1, <1>2 DEF Quiet, BatchOfPoll, Idle
  <1>4. \A w \in Worker : ~Owner(w)'
    BY <1>2, <1>3 DEF Owner, Owning, NoTask
  <1>5. Held' = {} /\ batch' = {}
    BY <1>2, <1>3, <1>4 DEF Held, Owned, Claimed
  <1>6. Holding'
    BY <1>1, <1>4, <1>5, HoldingKept
  <1>7. lost' = Ids(jobs', {"running"})
    <2>1. CASE Start
      <3>1. jobs' = [id \in JobId |->
                        IF jobs[id].status = "running"
                        THEN [jobs[id] EXCEPT !.status = "pending"]
                        ELSE jobs[id]]
        BY <1>1, <2>1, RecoverStuckInv DEF Start
      <3>2. \A id \in JobId : jobs[id] \in Row
        BY <1>1 DEF StoreInv, StoreTypeOK
      <3>3. \A id \in JobId : jobs'[id].status # "running"
        BY <3>1, <3>2 DEF Row
      <3> QED
        BY <2>1, <3>3 DEF Start, Ids
    <2>2. CASE StartUnrecovered
      BY <2>2 DEF StartUnrecovered, storeVars
    <2> QED
      BY <2>1, <2>2
  <1>8. NoStuckRunning'
    BY <1>5, <1>7 DEF NoStuckRunning, Ids, Held
  <1>9. Quiet' /\ BatchOfPoll' /\ ReadsMatch'
    BY <1>1, <1>2, <1>5 DEF Quiet, BatchOfPoll, ReadsMatch
  <1> QED
    BY <1>6, <1>8, <1>9 DEF Work

LEMMA GoneWork == ASSUME PoolInv, Gone PROVE Work'
  <1>1. PoolTypeOK /\ Holding /\ NoStuckRunning
    BY DEF PoolInv, TypeInv, Work
  <1>2. /\ proc' = "down" /\ poller' = "off" /\ batch' = {}
        /\ \A w \in Worker : task'[w] = NoTask /\ reads'[w] = NoRead
        /\ UNCHANGED <<jobs, lost>>
    BY DEF Gone, faultVars
  <1>3. \A w \in Worker : ~Owner(w)'
    BY <1>2 DEF Owner, Owning, NoTask
  <1>4. Held' = {}
    BY <1>2, <1>3 DEF Held, Owned, Claimed
  <1>5. Holding'
    BY <1>1, <1>2, <1>3, <1>4, HoldingKept
  <1>6. NoStuckRunning'
    BY <1>1, <1>2, <1>4 DEF NoStuckRunning, Held
  <1> QED
    BY <1>2, <1>5, <1>6 DEF Work, Quiet, BatchOfPoll, ReadsMatch, Idle

LEMMA ProcessWork == ASSUME PoolInv, Process \/ PoolTick PROVE Work'
  <1>1. CASE Shutdown \/ StopDrained \/ StopTimeout \/ Boot \/ PoolTick
    <2>1. UNCHANGED <<jobs, reads, poller, batch, task, lost>>
      BY <1>1
      DEF Shutdown, StopDrained, StopTimeout, Boot, ProcessStep, PoolTick,
          Tick, storeVars, poolVars, pollVars, historyVars, faultVars
    <2>2. /\ proc' = "up" => proc = "up"
          /\ proc' \in {"ready", "down"} => proc \in {"ready", "down"}
      BY <1>1
      DEF Shutdown, StopDrained, StopTimeout, Boot, ProcessStep, PoolTick,
          poolVars, lifeVars
    <2>3. RunningKept
      BY <2>1 DEF RunningKept
    <2>4. Holding' /\ NoStuckRunning'
      BY <2>1, <2>2, <2>3, HoldersKept
    <2>5. Quiet' /\ BatchOfPoll' /\ ReadsMatch'
      BY <2>1, <2>2
      DEF PoolInv, Work, Quiet, BatchOfPoll, ReadsMatch, Idle
    <2> QED
      BY <2>4, <2>5 DEF Work
  <1> QED
    BY <1>1, StartWork, GoneWork DEF Process, Exit, Crash

-----------------------------------------------------------------------------
LEMMA PoolInvInit == PoolInit => PoolInv
  <1> SUFFICES ASSUME PoolInit PROVE PoolInv
    OBVIOUS
  <1>1. TypeInv
    BY TypeInvInit
  <1>2. /\ proc = "ready" /\ poller = "off" /\ batch = {} /\ lost = {}
        /\ \A w \in Worker : task[w] = NoTask /\ reads[w] = NoRead
    BY DEF PoolInit, ProcessInit, StoreInit, Worker
  <1>3. \A w \in Worker : ~Owner(w)
    BY <1>2 DEF Owner, Owning, NoTask
  <1>4. Owned = {} /\ Claimed = {}
    BY <1>2, <1>3 DEF Owned, Claimed
  <1>5. Holding
    BY <1>2, <1>3, <1>4
    DEF Holding, ExclusiveExecution, OwnedRowsRunning, FreshCopy, FreshBatch
  <1> QED
    BY <1>1, <1>2, <1>5
    DEF PoolInv, Work, Quiet, BatchOfPoll, ReadsMatch, NoStuckRunning, Idle

LEMMA PoolInvInductive == PoolInv /\ [PoolNext]_vars => PoolInv'
  <1> SUFFICES ASSUME PoolInv, [PoolNext]_vars PROVE PoolInv'
    OBVIOUS
  <1>1. TypeInv'
    BY TypeInvInductive DEF PoolInv
  <1>2. CASE UNCHANGED vars
    <2>1. UNCHANGED <<jobs, reads, proc, poller, batch, task, lost>>
      BY <1>2
      DEF vars, storeVars, poolVars, lifeVars, pollVars, historyVars, faultVars
    <2>2. Holding' /\ NoStuckRunning'
      BY <2>1, HoldersKept DEF RunningKept
    <2>3. Quiet' /\ BatchOfPoll' /\ ReadsMatch'
      BY <2>1 DEF PoolInv, Work, Quiet, BatchOfPoll, ReadsMatch, Idle
    <2> QED
      BY <1>1, <2>2, <2>3 DEF PoolInv, Work
  <1>3. CASE PoolNext
    <2>1. Work'
      BY <1>3, ClientsWork, PollerWork, GoroutineWork, ProcessWork DEF PoolNext
    <2> QED
      BY <1>1, <2>1 DEF PoolInv
  <1> QED
    BY <1>2, <1>3

LEMMA PoolInvariant == PoolSpec => []PoolInv
  BY PoolInvInit, PoolInvInductive, PTL DEF PoolSpec

(* No job is ever in the hands of two goroutines, nor claimed while a      *)
(* goroutine has it, whatever retries, restarts and shutdowns there are    *)
(* (poll and dispatch in worker.go, Claim and RecoverStuck in sqlite.go).  *)
THEOREM PoolExclusiveExecution == PoolSpec => []ExclusiveExecution
  <1>1. PoolInv => ExclusiveExecution
    BY DEF PoolInv, Work, Holding
  <1> QED
    BY <1>1, PoolInvariant, PTL

(* The row that MarkDone or MarkFailed is going to write to is running, so *)
(* the write cannot hit a job that is pending, completed or replaced.      *)
THEOREM PoolOwnedRowsRunning == PoolSpec => []OwnedRowsRunning
  <1>1. PoolInv => OwnedRowsRunning
    BY DEF PoolInv, Work, Holding
  <1> QED
    BY <1>1, PoolInvariant, PTL

(* The copy on which dispatch decides between retry and dead letter agrees *)
(* with the row.                                                           *)
THEOREM PoolFreshCopy == PoolSpec => []FreshCopy
  <1>1. PoolInv => FreshCopy
    BY DEF PoolInv, Work, Holding
  <1> QED
    BY <1>1, PoolInvariant, PTL

(* While the queue is up every running row has somebody who works on it.   *)
THEOREM PoolNoStuckRunning == PoolSpec => []NoStuckRunning
  <1>1. PoolInv => NoStuckRunning
    BY DEF PoolInv, Work
  <1> QED
    BY <1>1, PoolInvariant, PTL

=============================================================================
