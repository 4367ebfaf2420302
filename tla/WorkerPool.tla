----------------------------- MODULE WorkerPool -----------------------------
(***************************************************************************)
(* One gjobs process after another on the same SQLite file: the life cycle *)
(* of the queue (queue.go), the poll loop, the worker goroutines and       *)
(* CancelAll (worker.go), clients that call Enqueue, and the dashboard's   *)
(* retry button.                                                           *)
(*                                                                         *)
(* A worker is a slot of the semaphore: dispatch takes a slot and starts a *)
(* goroutine, and the goroutine gives the slot back when it is finished,   *)
(* so at any time a slot stands for at most one goroutine.                 *)
(***************************************************************************)
EXTENDS SqliteStore, Backoff

CONSTANTS
    Handled,          \* the job types with a registered handler
    PoolPolicy,       \* WithBackoffBase and WithBackoffCap
    DefPolicy,        \* JobDef.WithBackoff of each type
    ShutdownTimeout,  \* whether WithShutdownTimeout is set
    NoWorker,         \* the value of a missing entry of a cancels map
    ErrorCap,         \* the capacity of the error channel, 0 without one
    MaxLives,         \* bound on the processes run one after another
    MaxManual,        \* bound on the uses of the dashboard's retry button
    MaxFaults         \* bound on the errors of an open database

ASSUME PoolAssumption ==
    /\ Handled \subseteq JobType
    /\ PoolPolicy \in Policy
    /\ DefPolicy \in [JobType -> Policy]
    /\ ShutdownTimeout \in BOOLEAN
    /\ NoWorker \notin Caller
    /\ IsFiniteSet(Caller)
    /\ ErrorCap \in Nat
    /\ MaxLives \in Nat /\ MaxManual \in Nat /\ MaxFaults \in Nat

(* The slots of the semaphore; cap(sem) is their number. *)
Worker == Caller

VARIABLES
    proc,        \* the process: "ready" after New, "up" after Start,
                 \* "stopping" inside Stop, "closed" after it, "down"
    poller,      \* the poll loop: "off", "wait", "claim", "dispatch"
    free,        \* the limit that poll computed before it calls Claim
    batch,       \* the jobs Claim returned and dispatch has not taken yet
    task,        \* the goroutine of each slot
    cancels,     \* the CancelFunc registered for a type and a job id
    cancelled,   \* the slots whose handler context has been cancelled
    lives,       \* the number of processes started so far
    manual,      \* the number of retries by hand so far
    events,      \* the number of events in the error channel
    faults,      \* the number of errors of the open database so far
    runs,        \* history: handler calls per job since it was enqueued
    finals,      \* history: jobs this process has reported as final
    covered,     \* history: jobs a client was told will cover its request
    lost         \* history: jobs whose bookkeeping call failed

pollVars == <<poller, free, batch>>
cancelVars == <<cancels, cancelled>>
lifeVars == <<proc, lives, manual>>
faultVars == <<faults, lost>>
historyVars == <<runs, events, finals, covered, faultVars>>
poolVars == <<lifeVars, pollVars, task, cancelVars, historyVars>>
vars == <<storeVars, poolVars>>

-----------------------------------------------------------------------------
(* A copy of a row, as Claim returns it. *)
Copy == [id: JobId, type: JobType \cup {NoType}, attempts: Nat,
         maxAttempts: Nat \cup {-1}]

CopyOf(id) == [id |-> id, type |-> jobs[id].type,
               attempts |-> jobs[id].attempts,
               maxAttempts |-> jobs[id].maxAttempts]

NoTask == [pc |-> "idle"]

(***************************************************************************)
(* Where a goroutine is: before it looks up the handler, in the handler,   *)
(* about to call MarkDone, MarkFailed(nil) or MarkFailed(retryAt), between *)
(* the two statements of markCompleted, in its deferred functions.         *)
(***************************************************************************)
Owning == {"start", "handler", "done", "dead", "retry", "update"}
Task == [pc: Owning \cup {"exit"}, job: Copy, retryAt: Int]

Idle == {w \in Worker : task[w] = NoTask}
Owner(w) == task[w].pc \in Owning

NoCancels == [id \in JobId |-> NoWorker]

PoolTypeOK ==
    /\ StoreTypeOK
    /\ proc \in {"ready", "up", "stopping", "closed", "down"}
    /\ poller \in {"off", "wait", "claim", "dispatch"}
    /\ free \in Nat
    /\ batch \in SUBSET Copy
    /\ task \in [Worker -> Task \cup {NoTask}]
    /\ cancels \in [JobType -> [JobId -> Worker \cup {NoWorker}]]
    /\ cancelled \in SUBSET Worker
    /\ lives \in Nat /\ manual \in Nat
    /\ runs \in [JobId -> Nat]
    /\ finals \in SUBSET JobId /\ covered \in SUBSET JobId
    /\ events \in Nat /\ faults \in Nat /\ lost \in SUBSET JobId

ProcessInit ==
    /\ poller = "off" /\ free = 0 /\ batch = {}
    /\ task = [w \in Worker |-> NoTask]
    /\ cancels = [t \in JobType |-> NoCancels]
    /\ cancelled = {}

PoolInit ==
    /\ StoreInit
    /\ ProcessInit
    /\ proc = "ready" /\ lives = 1 /\ manual = 0
    /\ runs = [id \in JobId |-> 0] /\ finals = {} /\ covered = {}
    /\ events = 0 /\ faults = 0 /\ lost = {}

-----------------------------------------------------------------------------
(* The storage is open from New to the end of Stop. *)
Open == proc \in {"ready", "up", "stopping"}

(* Goroutines run until the process ends, Stop or not. *)
Alive == proc \in {"up", "stopping", "closed"}

(* Queue.Enqueue: enqueueRaw and what it logs of the outcome. *)
ClientEnqueue(r) ==
    /\ Open
    /\ \/ \E id \in JobId :
             \/ r.key = NoKey /\ Enqueue(id, r)
             \/ DedupInserted(id, r)
             \/ DedupReplaced(id, r)
       \/ DedupSkippedDuplicate(r)
    /\ UNCHANGED poolVars

ClientSkipped(r, by) ==
    /\ Open
    /\ DedupSkippedRunning(r, by)
    /\ covered' = covered \cup {by}
    /\ UNCHANGED <<lifeVars, pollVars, task, cancelVars, runs, events, finals,
                   faultVars>>

(* The dashboard's retry button. *)
ManualRetry(id) ==
    /\ Open
    /\ manual < MaxManual
    /\ jobs[id].status = "failed"
    /\ RetryJob(id)
    /\ manual' = manual + 1
    /\ runs' = [runs EXCEPT ![id] = 0]
    /\ finals' = finals \ {id}
    /\ covered' = covered \ {id}
    /\ UNCHANGED <<proc, lives, pollVars, task, cancelVars, events, faultVars>>

(* The program reads an event from the error channel. *)
ReadEvent ==
    /\ Alive /\ events > 0
    /\ events' = events - 1
    /\ UNCHANGED <<storeVars, lifeVars, pollVars, task, cancelVars, runs, finals,
                   covered, faultVars>>

-----------------------------------------------------------------------------
(* The poll loop. *)

(* Seeded fault: the limit is the concurrency, not what is free of it. *)
PollTickFullLimit ==
    /\ proc = "up" /\ poller = "wait"
    /\ Idle # {}
    /\ free' = Cardinality(Worker)
    /\ poller' = "claim"
    /\ UNCHANGED <<storeVars, lifeVars, batch, task, cancelVars, historyVars>>

(***************************************************************************)
(* A tick with a free slot.  Once Stop has cancelled the pool's context a  *)
(* tick changes nothing, because Claim fails at once.                      *)
(***************************************************************************)
PollTick ==
    /\ proc = "up" /\ poller = "wait"
    /\ Idle # {}
    /\ free' = Cardinality(Idle)
    /\ poller' = "claim"
    /\ UNCHANGED <<storeVars, lifeVars, batch, task, cancelVars, historyVars>>

AfterClaim(copies) ==
    /\ batch' = copies
    /\ free' = 0
    /\ poller' = IF copies = {} THEN "wait" ELSE "dispatch"
    /\ UNCHANGED <<lifeVars, task, cancelVars, historyVars>>

(* Seeded fault: the attempts column is not read back. *)
PollClaimNoAttempts ==
    /\ proc \in {"up", "stopping"} /\ poller = "claim"
    /\ \E S \in SUBSET JobId :
          /\ Claim(S, free)
          /\ AfterClaim({[CopyOf(id) EXCEPT !.attempts = 0] : id \in S})

PollClaim ==
    /\ proc \in {"up", "stopping"} /\ poller = "claim"
    /\ \E S \in SUBSET JobId :
          /\ Claim(S, free)
          /\ AfterClaim({CopyOf(id) : id \in S})

(***************************************************************************)
(* Stop cancels the context of a Claim in progress: poll returns without   *)
(* dispatching, whether or not the UPDATE took effect.                     *)
(***************************************************************************)
ClaimAborted ==
    /\ poller = "claim"
    /\ \/ proc = "stopping" /\ \E S \in SUBSET JobId : Claim(S, free)
       \/ proc \in {"stopping", "closed"} /\ UNCHANGED storeVars
    /\ AfterClaim({})

(* Claim fails on the open database: the next tick tries again. *)
ClaimFails ==
    /\ proc = "up" /\ poller = "claim"
    /\ faults < MaxFaults
    /\ faults' = faults + 1
    /\ poller' = "wait" /\ free' = 0
    /\ UNCHANGED <<storeVars, lifeVars, batch, task, cancelVars, runs, events,
                   finals, covered, lost>>

(* dispatch: takes a slot, waiting for one if there is none. *)
Dispatch(w) ==
    /\ Alive /\ poller = "dispatch"
    /\ w \in Idle
    /\ \E c \in batch :
          /\ task' = [task EXCEPT ![w] =
                        [pc |-> "start", job |-> c, retryAt |-> 0]]
          /\ batch' = batch \ {c}
          /\ poller' = IF batch = {c} THEN "wait" ELSE "dispatch"
    /\ UNCHANGED <<storeVars, lifeVars, free, cancelVars, historyVars>>

PollExit ==
    /\ proc \in {"stopping", "closed"} /\ poller = "wait"
    /\ poller' = "off"
    /\ UNCHANGED <<storeVars, lifeVars, free, batch, task, cancelVars, historyVars>>

-----------------------------------------------------------------------------
(* The goroutine of slot w. *)

Goto(w, pc) == task' = [task EXCEPT ![w] = [@ EXCEPT !.pc = pc]]

(* Seeded fault: the send waits for room. *)
EmitBlocking(id, final) ==
    /\ events < ErrorCap
    /\ events' = events + 1
    /\ finals' = IF final THEN finals \cup {id} ELSE finals

(* emit: the send does not block; a full channel drops the event.          *)
Emit(id, final) ==
    IF events < ErrorCap
    THEN /\ events' = events + 1
         /\ finals' = IF final THEN finals \cup {id} ELSE finals
    ELSE UNCHANGED <<events, finals>>

(* Registers the CancelFunc and enters the handler. *)
RunHandler(w) ==
    LET job == task[w].job IN
    /\ Alive /\ task[w].pc = "start"
    /\ job.type \in Handled
    /\ cancels' = [cancels EXCEPT ![job.type][job.id] = w]
    /\ cancelled' = cancelled \ {w}
    /\ Goto(w, "handler")
    /\ runs' = [runs EXCEPT ![job.id] = @ + 1]
    /\ UNCHANGED <<storeVars, lifeVars, pollVars, events, finals, covered, faultVars>>

(* Seeded fault: a job without a handler is dropped without MarkFailed. *)
NoHandlerDropped(w) ==
    /\ Alive /\ task[w].pc = "start"
    /\ task[w].job.type \notin Handled
    /\ Goto(w, "exit")
    /\ Emit(task[w].job.id, TRUE)
    /\ UNCHANGED <<storeVars, lifeVars, pollVars, cancelVars, runs, covered,
                   faultVars>>

(* A type without a handler is dead-lettered whatever its MaxAttempts. *)
NoHandler(w) ==
    /\ Alive /\ task[w].pc = "start"
    /\ task[w].job.type \notin Handled
    /\ Goto(w, "dead")
    /\ Emit(task[w].job.id, TRUE)
    /\ UNCHANGED <<storeVars, lifeVars, pollVars, cancelVars, runs, covered,
                   faultVars>>

HandlerSucceeds(w) ==
    /\ Alive /\ task[w].pc = "handler"
    /\ Goto(w, "done")
    /\ UNCHANGED <<storeVars, lifeVars, pollVars, cancelVars, historyVars>>

(* Seeded fault: every failure is reported as final. *)
HandlerFailsFinally(w) ==
    LET job == task[w].job
        attempt == job.attempts + 1 IN
    /\ Alive /\ task[w].pc = "handler"
    /\ \/ /\ IsRetryable(attempt, job.maxAttempts)
          /\ \E d \in CalcBackoff(PoolPolicy, DefPolicy[job.type], attempt) :
                task' = [task EXCEPT ![w] = [@ EXCEPT !.pc = "retry",
                                                      !.retryAt = now + d]]
       \/ /\ ~IsRetryable(attempt, job.maxAttempts)
          /\ Goto(w, "dead")
    /\ Emit(job.id, TRUE)
    /\ UNCHANGED <<storeVars, lifeVars, pollVars, cancelVars, runs, covered,
                   faultVars>>

(***************************************************************************)
(* The handler returns an error or panics.  The decision is taken on the   *)
(* copy that Claim returned; the row may be written only later.            *)
(***************************************************************************)
HandlerFails(w) ==
    LET job == task[w].job
        attempt == job.attempts + 1 IN
    /\ Alive /\ task[w].pc = "handler"
    /\ \/ /\ IsRetryable(attempt, job.maxAttempts)
          /\ \E d \in CalcBackoff(PoolPolicy, DefPolicy[job.type], attempt) :
                task' = [task EXCEPT ![w] = [@ EXCEPT !.pc = "retry",
                                                      !.retryAt = now + d]]
          /\ Emit(job.id, FALSE)
       \/ /\ ~IsRetryable(attempt, job.maxAttempts)
          /\ Goto(w, "dead")
          /\ Emit(job.id, TRUE)
    /\ UNCHANGED <<storeVars, lifeVars, pollVars, cancelVars, runs, covered,
                   faultVars>>

(***************************************************************************)
(* The bookkeeping calls.  On a closed database they return an error that  *)
(* is only logged, so the goroutine ends and the row stays as it is.       *)
(***************************************************************************)
TaskOnly(w, pc) ==
    /\ Goto(w, pc)
    /\ UNCHANGED <<lifeVars, pollVars, cancelVars, historyVars>>

ScheduleRetry(w) ==
    /\ task[w].pc = "retry"
    /\ \/ Open /\ MarkRetry(task[w].job.id, task[w].retryAt)
       \/ proc = "closed" /\ UNCHANGED storeVars
    /\ TaskOnly(w, "exit")

CompleteSelect(w) ==
    LET status == IF task[w].pc = "done" THEN "done" ELSE "failed" IN
    /\ task[w].pc \in {"done", "dead"}
    /\ \/ /\ Open /\ MarkCompletedSelect(w, task[w].job.id, status)
          /\ TaskOnly(w, "update")
       \/ /\ Open /\ MarkCompletedMissing(task[w].job.id)
          /\ TaskOnly(w, "exit")
       \/ /\ proc = "closed" /\ UNCHANGED storeVars
          /\ TaskOnly(w, "exit")

CompleteUpdate(w) ==
    /\ task[w].pc = "update"
    /\ \/ Open /\ MarkCompletedUpdate(w)
       \/ /\ proc = "closed"
          /\ reads' = [reads EXCEPT ![w] = NoRead]
          /\ UNCHANGED <<jobs, now, refused>>
    /\ TaskOnly(w, "exit")

(***************************************************************************)
(* A bookkeeping call on the open database fails (a locked file, a full    *)
(* disk) and has no effect; the error is only logged.                      *)
(***************************************************************************)
BookkeepingFails(w) ==
    /\ Open /\ faults < MaxFaults
    /\ task[w].pc \in {"retry", "done", "dead", "update"}
    /\ Goto(w, "exit")
    /\ reads' = [reads EXCEPT ![w] = NoRead]
    /\ faults' = faults + 1
    /\ lost' = lost \cup {task[w].job.id}
    /\ UNCHANGED <<jobs, now, refused, lifeVars, pollVars, cancelVars, runs,
                   events, finals, covered>>

(* Seeded faults: the CancelFunc stays registered; the early return of a   *)
(* job without a handler skips the wait group and the semaphore.           *)
FinishRegistered(w) ==
    /\ Alive /\ task[w].pc = "exit"
    /\ cancelled' = cancelled \ {w}
    /\ task' = [task EXCEPT ![w] = NoTask]
    /\ UNCHANGED <<cancels, storeVars, lifeVars, pollVars, historyVars>>

FinishHandledOnly(w) ==
    LET job == task[w].job IN
    /\ Alive /\ task[w].pc = "exit"
    /\ job.type \in Handled
    /\ cancels' = [cancels EXCEPT ![job.type][job.id] = NoWorker]
    /\ cancelled' = cancelled \ {w}
    /\ task' = [task EXCEPT ![w] = NoTask]
    /\ UNCHANGED <<storeVars, lifeVars, pollVars, historyVars>>

(***************************************************************************)
(* The deferred functions: unregister by job id (a goroutine without a     *)
(* handler registered nothing), release the slot.                          *)
(***************************************************************************)
Finish(w) ==
    LET job == task[w].job IN
    /\ Alive /\ task[w].pc = "exit"
    /\ cancels' = IF job.type \in Handled
                  THEN [cancels EXCEPT ![job.type][job.id] = NoWorker]
                  ELSE cancels
    /\ cancelled' = cancelled \ {w}
    /\ task' = [task EXCEPT ![w] = NoTask]
    /\ UNCHANGED <<storeVars, lifeVars, pollVars, historyVars>>

(* CancelAll of type t: every registered context, then forget them. *)
CancelAll(t) ==
    /\ Alive
    /\ cancelled' =
          cancelled \cup ({cancels[t][id] : id \in JobId} \ {NoWorker})
    /\ cancels' = [cancels EXCEPT ![t] = NoCancels]
    /\ UNCHANGED <<storeVars, lifeVars, pollVars, task, historyVars>>

-----------------------------------------------------------------------------
(* The process. *)

(* Seeded fault: the rows of the process before are not recovered. *)
StartWithoutRecovery ==
    /\ proc = "ready"
    /\ proc' = "up" /\ poller' = "wait"
    /\ UNCHANGED <<storeVars, lives, manual, free, batch, task, cancelVars,
                   historyVars>>

(* Start: RecoverStuck, then the poll loop. *)
Start ==
    /\ proc = "ready"
    /\ RecoverStuck
    /\ proc' = "up" /\ poller' = "wait"
    /\ lost' = {}
    /\ UNCHANGED <<lives, manual, free, batch, task, cancelVars, runs, events,
                   finals, covered, faults>>

(* An error of RecoverStuck is logged, and Start goes on. *)
StartUnrecovered ==
    /\ proc = "ready" /\ faults < MaxFaults
    /\ proc' = "up" /\ poller' = "wait"
    /\ faults' = faults + 1
    /\ lost' = Ids(jobs, {"running"})
    /\ UNCHANGED <<storeVars, lives, manual, free, batch, task, cancelVars, runs,
                   events, finals, covered>>

(* Another process follows this one; MaxLives bounds how many. *)
Again == lives < MaxLives

ProcessStep(to) ==
    /\ proc' = to
    /\ UNCHANGED <<storeVars, lives, manual, pollVars, task, cancelVars,
                   historyVars>>

(* Start's context is cancelled and Stop runs. *)
Shutdown == proc = "up" /\ Again /\ ProcessStep("stopping")

(* The wait group: the poll loop and every goroutine have finished. *)
Drained == poller = "off" /\ Idle = Worker

StopDrained == proc = "stopping" /\ Drained /\ ProcessStep("closed")

(* Seeded fault: jobs of abandoned goroutines are made pending at once. *)
StopTimeoutRecovers ==
    /\ ShutdownTimeout /\ proc = "stopping" /\ ~Drained
    /\ RecoverStuck
    /\ proc' = "closed"
    /\ UNCHANGED <<lives, manual, pollVars, task, cancelVars, historyVars>>

(* The deadline passes first: the goroutines left are abandoned. *)
StopTimeout ==
    ShutdownTimeout /\ proc = "stopping" /\ ~Drained /\ ProcessStep("closed")

(* The process ends, after Stop or by a crash: its memory is gone. *)
Gone ==
    /\ proc' = "down"
    /\ poller' = "off" /\ free' = 0 /\ batch' = {}
    /\ task' = [w \in Worker |-> NoTask]
    /\ cancels' = [t \in JobType |-> NoCancels]
    /\ cancelled' = {}
    /\ reads' = [w \in Worker |-> NoRead]
    /\ finals' = {} /\ events' = 0
    /\ UNCHANGED <<jobs, now, refused, lives, manual, runs, covered, faultVars>>

Exit == proc = "closed" /\ Gone

Crash == proc \in {"ready", "up", "stopping"} /\ Again /\ Gone

Boot ==
    /\ proc = "down" /\ Again
    /\ proc' = "ready"
    /\ lives' = lives + 1
    /\ UNCHANGED <<storeVars, manual, pollVars, task, cancelVars, historyVars>>

(* Time passes; a moment no row waits for is not told apart. *)
SomeRowWaits ==
    \E id \in JobId :
        \/ jobs[id].status = "pending" /\ jobs[id].runAt > now
        \/ jobs[id].status \in Completed /\ jobs[id].expiresAt > now

PoolTick == SomeRowWaits /\ Tick /\ UNCHANGED poolVars

-----------------------------------------------------------------------------
Clients ==
    \/ \E r \in Request :
          ClientEnqueue(r) \/ \E by \in JobId : ClientSkipped(r, by)
    \/ \E id \in JobId : ManualRetry(id)
    \/ \E t \in JobType : CancelAll(t)
    \/ ReadEvent

Poller ==
    \/ PollTick
    \/ PollClaim
    \/ ClaimAborted
    \/ ClaimFails
    \/ \E w \in Worker : Dispatch(w)
    \/ PollExit

Goroutine(w) ==
    \/ RunHandler(w)
    \/ NoHandler(w)
    \/ HandlerSucceeds(w)
    \/ HandlerFails(w)
    \/ ScheduleRetry(w)
    \/ CompleteSelect(w)
    \/ CompleteUpdate(w)
    \/ BookkeepingFails(w)
    \/ Finish(w)

Process ==
    \/ Start
    \/ StartUnrecovered
    \/ Shutdown
    \/ StopDrained
    \/ StopTimeout
    \/ Exit
    \/ Crash
    \/ Boot

PoolNext ==
    \/ Clients
    \/ Poller
    \/ \E w \in Worker : Goroutine(w)
    \/ Process
    \/ PoolTick

PoolSpec == PoolInit /\ [][PoolNext]_vars

=============================================================================
