-------------------------- MODULE WorkerPoolProofs --------------------------
(***************************************************************************)
(* Theorems about the worker pool on SqliteStore, for every number of jobs *)
(* and workers, every set of requests and every retry policy.              *)
(***************************************************************************)
EXTENDS PoolProperties, SqliteStoreProofs, FiniteSetTheorems

(* The types, and what they need to be inductive: only a job with a        *)
(* registered handler is in its handler.                                   *)
HandlersRegistered ==
    \A w \in Worker :
        task[w].pc = "handler" => task[w].job.type \in Handled

TypeInv == StoreInv /\ PoolTypeOK /\ HandlersRegistered

LEMMA BusyTask ==
    ASSUME PoolTypeOK, NEW w \in Worker, task[w].pc # "idle"
    PROVE  /\ task[w] \in Task
           /\ task[w].job \in Copy
           /\ task[w].job.id \in JobId
  <1>1. task[w] \in Task \cup {NoTask}
    BY DEF PoolTypeOK
  <1>2. task[w] # NoTask
    BY DEF NoTask
  <1>3. task[w] \in Task
    BY <1>1, <1>2
  <1> QED
    BY <1>3 DEF Task, Copy

LEMMA GotoType ==
    ASSUME PoolTypeOK, NEW w \in Worker, task[w].pc # "idle",
           NEW pc \in Owning \cup {"exit"}, Goto(w, pc)
    PROVE  /\ task' \in [Worker -> Task \cup {NoTask}]
           /\ task'[w].pc = pc /\ task'[w].job = task[w].job
           /\ task'[w] \in Task
           /\ \A v \in Worker \ {w} : task'[v] = task[v]
  <1> DEFINE new == [task[w] EXCEPT !.pc = pc]
  <1>1. task[w] \in Task
    BY BusyTask
  <1>2. new \in Task /\ new.pc = pc /\ new.job = task[w].job
    BY <1>1 DEF Task
  <1>3. task' = [task EXCEPT ![w] = new]
    BY DEF Goto
  <1>4. task \in [Worker -> Task \cup {NoTask}]
    BY DEF PoolTypeOK
  <1> HIDE DEF new
  <1> QED
    BY <1>2, <1>3, <1>4

LEMMA RetryAtInt ==
    ASSUME NEW t \in JobType, NEW attempt \in Nat,
           NEW d \in CalcBackoff(PoolPolicy, DefPolicy[t], attempt)
    PROVE  d \in Int
  <1> DEFINE maxDelay == Override(DefPolicy[t].cap, PoolPolicy.cap)
             base == Override(DefPolicy[t].base, PoolPolicy.base)
             x == base * Power2[attempt - 1]
  <1>1. maxDelay \in Int
    BY PoolAssumption, MaxDurationAssumption
    DEF Policy, Duration, MinDuration, Override
  <1>2. \A y \in Durations(x) : y \in Int
    BY MaxDurationAssumption DEF Durations, Duration, MinDuration
  <1>3. PICK y \in Durations(x) : d = IF y > maxDelay THEN maxDelay ELSE y
    BY DEF CalcBackoff
  <1> HIDE DEF maxDelay, x
  <1> QED
    BY <1>1, <1>2, <1>3

-----------------------------------------------------------------------------
(* Every step of the pool keeps the table as SqliteStore leaves it. *)

LEMMA StoreUnchanged ==
    ASSUME StoreInv, UNCHANGED storeVars
    PROVE  StoreInv'
  BY DEF StoreInv, StoreTypeOK, OneRowPerKey, OneHolder, Ids, storeVars

LEMMA ForgetReads ==
    ASSUME StoreInv, UNCHANGED <<jobs, now, refused>>,
           reads' \in [Caller -> Read \cup {NoRead}]
    PROVE  StoreInv'
  BY DEF StoreInv, StoreTypeOK, OneRowPerKey, OneHolder, Ids

LEMMA ClientsStore ==
    ASSUME TypeInv, Clients PROVE StoreInv'
  <1>0. StoreInv
    BY DEF TypeInv
  <1>1. ASSUME NEW r \in Request, ClientEnqueue(r) PROVE StoreInv'
    BY <1>0, <1>1, EnqueueInv, DedupInsertedInv, DedupReplacedInv,
       DedupSkippedInv
    DEF ClientEnqueue
  <1>2. ASSUME NEW r \in Request, NEW by \in JobId, ClientSkipped(r, by)
        PROVE  StoreInv'
    BY <1>0, <1>2, DedupSkippedInv DEF ClientSkipped
  <1>3. ASSUME NEW id \in JobId, ManualRetry(id) PROVE StoreInv'
    BY <1>0, <1>3, RetryJobInv DEF ManualRetry
  <1>4. ASSUME NEW t \in JobType, CancelAll(t) PROVE StoreInv'
    BY <1>0, <1>4, StoreUnchanged DEF CancelAll
  <1>5. CASE ReadEvent
    BY <1>0, <1>5, StoreUnchanged DEF ReadEvent
  <1> QED
    BY <1>1, <1>2, <1>3, <1>4, <1>5 DEF Clients

LEMMA PollerStore ==
    ASSUME TypeInv, Poller PROVE StoreInv'
  <1>0. StoreInv
    BY DEF TypeInv
  <1>1. CASE PollTick
    BY <1>0, <1>1, StoreUnchanged DEF PollTick
  <1>2. CASE PollClaim
    BY <1>0, <1>2, ClaimInv DEF PollClaim
  <1>3. CASE ClaimAborted
    BY <1>0, <1>3, ClaimInv, StoreUnchanged DEF ClaimAborted
  <1>4. CASE \E w \in Worker : Dispatch(w)
    BY <1>0, <1>4, StoreUnchanged DEF Dispatch
  <1>5. CASE PollExit
    BY <1>0, <1>5, StoreUnchanged DEF PollExit
  <1>6. CASE ClaimFails
    BY <1>0, <1>6, StoreUnchanged DEF ClaimFails
  <1> QED
    BY <1>1, <1>2, <1>3, <1>4, <1>5, <1>6 DEF Poller

LEMMA GoroutineStore ==
    ASSUME TypeInv, NEW w \in Worker, Goroutine(w) PROVE StoreInv'
  <1>0. StoreInv /\ PoolTypeOK /\ w \in Caller
    BY DEF TypeInv, Worker
  <1>1. CASE ScheduleRetry(w)
    <2>1. task[w].job.id \in JobId /\ task[w].retryAt \in Int
      <3>1. task[w].pc # "idle"
        BY <1>1 DEF ScheduleRetry
      <3> QED
        BY <1>0, <3>1, BusyTask DEF Task
    <2> QED
      BY <1>0, <1>1, <2>1, MarkRetryInv, StoreUnchanged DEF ScheduleRetry
  <1>2. CASE CompleteSelect(w)
    <2>1. task[w].job.id \in JobId
      <3>1. task[w].pc # "idle"
        BY <1>2 DEF CompleteSelect
      <3> QED
        BY <1>0, <3>1, BusyTask
    <2> DEFINE status == IF task[w].pc = "done" THEN "done" ELSE "failed"
    <2>2. status \in Completed
      BY DEF Completed
    <2>3. \/ MarkCompletedSelect(w, task[w].job.id, status)
          \/ UNCHANGED storeVars
      BY <1>2 DEF CompleteSelect, MarkCompletedMissing
    <2> HIDE DEF status
    <2> QED
      BY <1>0, <2>1, <2>2, <2>3, MarkCompletedSelectInv, StoreUnchanged
  <1>3. CASE CompleteUpdate(w)
    <2>1. CASE MarkCompletedUpdate(w)
      BY <1>0, <2>1, MarkCompletedUpdateInv
    <2>2. CASE /\ reads' = [reads EXCEPT ![w] = NoRead]
               /\ UNCHANGED <<jobs, now, refused>>
      <3>1. reads' \in [Caller -> Read \cup {NoRead}]
        BY <1>0, <2>2 DEF StoreInv, StoreTypeOK
      <3> QED
        BY <1>0, <2>2, <3>1, ForgetReads
    <2> QED
      BY <1>3, <2>1, <2>2 DEF CompleteUpdate
  <1>4. CASE \/ RunHandler(w) \/ NoHandler(w) \/ HandlerSucceeds(w)
             \/ HandlerFails(w) \/ Finish(w)
    BY <1>0, <1>4, StoreUnchanged
    DEF RunHandler, NoHandler, HandlerSucceeds, HandlerFails, Finish
  <1>5. CASE BookkeepingFails(w)
    <2>1. reads' \in [Caller -> Read \cup {NoRead}]
      BY <1>0, <1>5 DEF BookkeepingFails, StoreInv, StoreTypeOK
    <2> QED
      BY <1>0, <1>5, <2>1, ForgetReads DEF BookkeepingFails
  <1> QED
    BY <1>1, <1>2, <1>3, <1>4, <1>5 DEF Goroutine

LEMMA ProcessStore ==
    ASSUME TypeInv, Process \/ PoolTick PROVE StoreInv'
  <1>0. StoreInv
    BY DEF TypeInv
  <1>1. CASE Start
    BY <1>0, <1>1, RecoverStuckInv DEF Start
  <1>2. CASE StartUnrecovered \/ Shutdown \/ StopDrained \/ StopTimeout \/ Boot
    BY <1>0, <1>2, StoreUnchanged
    DEF StartUnrecovered, Shutdown, StopDrained, StopTimeout, Boot, ProcessStep
  <1>3. CASE Exit \/ Crash
    <2>1. /\ reads' = [w \in Worker |-> NoRead]
          /\ UNCHANGED <<jobs, now, refused>>
      BY <1>3 DEF Exit, Crash, Gone
    <2>2. reads' \in [Caller -> Read \cup {NoRead}]
      BY <2>1 DEF Worker
    <2> QED
      BY <1>0, <2>1, <2>2, ForgetReads
  <1>4. CASE PoolTick
    BY <1>0, <1>4, TickInv DEF PoolTick
  <1> QED
    BY <1>1, <1>2, <1>3, <1>4 DEF Process

LEMMA StoreStep == ASSUME TypeInv, [PoolNext]_vars PROVE StoreInv'
  <1>1. CASE UNCHANGED vars
    BY <1>1, StoreUnchanged DEF TypeInv, vars
  <1> QED
    BY <1>1, ClientsStore, PollerStore, GoroutineStore, ProcessStore
    DEF PoolNext

-----------------------------------------------------------------------------
(* The types of the pool's own variables. *)

PoolTypes ==
    /\ proc \in {"ready", "up", "stopping", "closed", "down"}
    /\ poller \in {"off", "wait", "claim", "dispatch"}
    /\ free \in Nat
    /\ batch \in SUBSET Copy
    /\ task \in [Worker -> Task \cup {NoTask}]
    /\ cancels \in [JobType -> [JobId -> Worker \cup {NoWorker}]]
    /\ cancelled \in SUBSET Worker
    /\ lives \in Nat /\ manual \in Nat
    /\ runs \in [JobId -> Nat]
    /\ finals \in SUBSET JobId /\ covered \in SUBSET JobId
    /\ events \in Nat /\ faults \in Nat /\ lost \in SUBSET JobId

LEMMA TypeInvParts ==
    TypeInv <=> StoreInv /\ PoolTypes /\ HandlersRegistered
  BY DEF TypeInv, PoolTypes, PoolTypeOK, StoreInv

LEMMA ClientsTypes ==
    ASSUME TypeInv, Clients PROVE PoolTypes' /\ HandlersRegistered'
  <1>0. PoolTypes /\ HandlersRegistered
    BY TypeInvParts
  <1>1. ASSUME NEW r \in Request, ClientEnqueue(r)
        PROVE  PoolTypes' /\ HandlersRegistered'
    BY <1>0, <1>1
    DEF ClientEnqueue, PoolTypes, HandlersRegistered, poolVars, pollVars,
        cancelVars, lifeVars, historyVars, faultVars
  <1>2. ASSUME NEW r \in Request, NEW by \in JobId, ClientSkipped(r, by)
        PROVE  PoolTypes' /\ HandlersRegistered'
    BY <1>0, <1>2
    DEF ClientSkipped, PoolTypes, HandlersRegistered, pollVars, cancelVars,
        lifeVars, faultVars
  <1>3. ASSUME NEW id \in JobId, ManualRetry(id)
        PROVE  PoolTypes' /\ HandlersRegistered'
    BY <1>0, <1>3
    DEF ManualRetry, PoolTypes, HandlersRegistered, pollVars, cancelVars,
        faultVars
  <1>4. ASSUME NEW t \in JobType, CancelAll(t)
        PROVE  PoolTypes' /\ HandlersRegistered'
    <2>1. NoCancels \in [JobId -> Worker \cup {NoWorker}]
      BY DEF NoCancels
    <2>2. cancels' \in [JobType -> [JobId -> Worker \cup {NoWorker}]]
      BY <1>0, <1>4, <2>1 DEF CancelAll, PoolTypes
    <2>3. cancelled' \in SUBSET Worker
      BY <1>0, <1>4 DEF CancelAll, PoolTypes
    <2> QED
      BY <1>0, <1>4, <2>2, <2>3
      DEF CancelAll, PoolTypes, HandlersRegistered, pollVars, lifeVars,
          historyVars, faultVars
  <1>5. CASE ReadEvent
    <2>1. events' \in Nat
      BY <1>0, <1>5 DEF ReadEvent, PoolTypes
    <2> QED
      BY <1>0, <1>5, <2>1
      DEF ReadEvent, PoolTypes, HandlersRegistered, pollVars, cancelVars,
          lifeVars, faultVars
  <1> QED
    BY <1>1, <1>2, <1>3, <1>4, <1>5 DEF Clients

LEMMA CopyOfType ==
    ASSUME TypeInv, NEW id \in JobId
    PROVE  CopyOf(id) \in Copy /\ CopyOf(id).id = id
  <1>1. jobs[id] \in Row
    BY DEF TypeInv, StoreInv, StoreTypeOK
  <1> QED
    BY <1>1 DEF CopyOf, Copy, Row

LEMMA PollerTypes ==
    ASSUME TypeInv, Poller PROVE PoolTypes' /\ HandlersRegistered'
  <1>0. PoolTypes /\ HandlersRegistered
    BY TypeInvParts
  <1>1. CASE PollTick
    <2>1. IsFiniteSet(Idle) /\ Cardinality(Idle) \in Nat
      BY PoolAssumption, FS_Subset, FS_CardinalityType DEF Idle, Worker
    <2> QED
      BY <1>0, <1>1, <2>1
      DEF PollTick, PoolTypes, HandlersRegistered, cancelVars, lifeVars,
          historyVars, faultVars
  <1>2. ASSUME NEW copies \in SUBSET Copy, AfterClaim(copies)
        PROVE  PoolTypes' /\ HandlersRegistered'
    BY <1>0, <1>2
    DEF AfterClaim, PoolTypes, HandlersRegistered, cancelVars, lifeVars,
        historyVars, faultVars
  <1>3. CASE PollClaim
    <2>1. PICK S \in SUBSET JobId : AfterClaim({CopyOf(id) : id \in S})
      BY <1>3 DEF PollClaim
    <2>2. {CopyOf(id) : id \in S} \in SUBSET Copy
      BY CopyOfType
    <2> QED
      BY <1>2, <2>1, <2>2
  <1>4. CASE ClaimAborted
    BY <1>2, <1>4 DEF ClaimAborted
  <1>5. ASSUME NEW w \in Worker, Dispatch(w)
        PROVE  PoolTypes' /\ HandlersRegistered'
    <2>1. PICK c \in batch :
             /\ task' = [task EXCEPT ![w] =
                           [pc |-> "start", job |-> c, retryAt |-> 0]]
             /\ batch' = batch \ {c}
             /\ poller' = IF batch = {c} THEN "wait" ELSE "dispatch"
      BY <1>5 DEF Dispatch
    <2> DEFINE new == [pc |-> "start", job |-> c, retryAt |-> 0]
    <2>2. new \in Task /\ new.pc = "start"
      BY <1>0 DEF PoolTypes, Task, Owning
    <2> HIDE DEF new
    <2>3. /\ task' \in [Worker -> Task \cup {NoTask}]
          /\ \A v \in Worker : task'[v] = IF v = w THEN new ELSE task[v]
      BY <1>0, <2>1, <2>2 DEF PoolTypes, new
    <2>4. HandlersRegistered'
      BY <1>0, <2>2, <2>3 DEF HandlersRegistered
    <2> QED
      BY <1>0, <1>5, <2>1, <2>3, <2>4
      DEF Dispatch, PoolTypes, cancelVars, lifeVars, historyVars, faultVars
  <1>6. CASE PollExit
    BY <1>0, <1>6
    DEF PollExit, PoolTypes, HandlersRegistered, cancelVars, lifeVars,
        historyVars, faultVars
  <1>7. CASE ClaimFails
    BY <1>0, <1>7
    DEF ClaimFails, PoolTypes, HandlersRegistered, cancelVars, lifeVars
  <1> QED
    BY <1>1, <1>3, <1>4, <1>5, <1>6, <1>7 DEF Poller

(* A goroutine that only moves on, to a place that is not the handler.     *)
LEMMA GotoTypes ==
    ASSUME TypeInv, NEW w \in Worker, task[w].pc # "idle",
           NEW pc \in (Owning \cup {"exit"}) \ {"handler"}, Goto(w, pc)
    PROVE  /\ task' \in [Worker -> Task \cup {NoTask}]
           /\ HandlersRegistered'
  <1>1. PoolTypeOK /\ HandlersRegistered
    BY DEF TypeInv
  <1>2. pc \in Owning \cup {"exit"} /\ pc # "handler"
    OBVIOUS
  <1>3. /\ task' \in [Worker -> Task \cup {NoTask}]
        /\ task'[w].pc = pc
        /\ \A v \in Worker \ {w} : task'[v] = task[v]
    BY <1>1, <1>2, GotoType
  <1> QED
    BY <1>1, <1>2, <1>3 DEF HandlersRegistered

LEMMA EmitTypes ==
    ASSUME PoolTypes, NEW id \in JobId, NEW final \in BOOLEAN, Emit(id, final)
    PROVE  events' \in Nat /\ finals' \in SUBSET JobId
  BY DEF Emit, PoolTypes

LEMMA GoroutineTypes ==
    ASSUME TypeInv, NEW w \in Worker, Goroutine(w)
    PROVE  PoolTypes' /\ HandlersRegistered'
  <1>0. PoolTypes /\ HandlersRegistered /\ PoolTypeOK /\ StoreInv
    BY TypeInvParts DEF TypeInv
  <1>1. CASE RunHandler(w)
    <2>1. task[w].pc # "idle" /\ task[w].job.type \in Handled
      BY <1>1 DEF RunHandler
    <2>2. task[w].job \in Copy /\ task[w].job.id \in JobId
      BY <1>0, <2>1, BusyTask
    <2>3. /\ task' \in [Worker -> Task \cup {NoTask}]
          /\ task'[w].pc = "handler" /\ task'[w].job = task[w].job
          /\ \A v \in Worker \ {w} : task'[v] = task[v]
      BY <1>0, <1>1, <2>1, GotoType DEF RunHandler, Owning
    <2>4. HandlersRegistered'
      BY <1>0, <2>1, <2>3 DEF HandlersRegistered
    <2>5. cancels' \in [JobType -> [JobId -> Worker \cup {NoWorker}]]
      BY <1>0, <1>1, <2>1, <2>2, PoolAssumption DEF RunHandler, PoolTypes
    <2>6. runs' \in [JobId -> Nat]
      BY <1>0, <1>1, <2>2 DEF RunHandler, PoolTypes
    <2> QED
      BY <1>0, <1>1, <2>3, <2>4, <2>5, <2>6
      DEF RunHandler, PoolTypes, pollVars, lifeVars, faultVars
  <1>2. CASE NoHandler(w)
    <2>1. task[w].pc # "idle" /\ task[w].job.id \in JobId
      <3>1. task[w].pc # "idle"
        BY <1>2 DEF NoHandler
      <3> QED
        BY <1>0, <3>1, BusyTask
    <2>2. "dead" \in (Owning \cup {"exit"}) \ {"handler"}
      BY DEF Owning
    <2>3. task' \in [Worker -> Task \cup {NoTask}] /\ HandlersRegistered'
      BY <1>2, <2>1, <2>2, GotoTypes DEF NoHandler
    <2>4. events' \in Nat /\ finals' \in SUBSET JobId
      BY <1>0, <1>2, <2>1, EmitTypes DEF NoHandler
    <2> QED
      BY <1>0, <1>2, <2>3, <2>4
      DEF NoHandler, PoolTypes, pollVars, cancelVars, lifeVars, faultVars
  <1>3. CASE HandlerSucceeds(w)
    <2>1. task[w].pc # "idle"
      BY <1>3 DEF HandlerSucceeds
    <2>2. "done" \in (Owning \cup {"exit"}) \ {"handler"}
      BY DEF Owning
    <2>3. task' \in [Worker -> Task \cup {NoTask}] /\ HandlersRegistered'
      BY <1>3, <2>1, <2>2, GotoTypes DEF HandlerSucceeds
    <2> QED
      BY <1>0, <1>3, <2>3
      DEF HandlerSucceeds, PoolTypes, pollVars, cancelVars, lifeVars,
          historyVars, faultVars
  <1>4. CASE HandlerFails(w)
    <2> DEFINE job == task[w].job
    <2>1. /\ task[w].pc = "handler" /\ task[w] \in Task
          /\ job \in Copy /\ job.id \in JobId
      <3>1. task[w].pc = "handler"
        BY <1>4 DEF HandlerFails
      <3> QED
        BY <1>0, <3>1, BusyTask
    <2>2. job.type \in JobType /\ job.attempts + 1 \in Nat
      BY <1>0, <2>1, PoolAssumption DEF HandlersRegistered, Copy
    <2>3. /\ task' \in [Worker -> Task \cup {NoTask}]
          /\ HandlersRegistered'
      <3>1. ASSUME NEW d \in CalcBackoff(PoolPolicy, DefPolicy[job.type],
                                         job.attempts + 1),
                   task' = [task EXCEPT ![w] =
                               [@ EXCEPT !.pc = "retry", !.retryAt = now + d]]
            PROVE  <2>3!:
        <4> DEFINE new == [task[w] EXCEPT !.pc = "retry", !.retryAt = now + d]
        <4>1. now + d \in Int
          <5>1. d \in Int
            BY <2>2, <3>1, RetryAtInt
          <5> QED
            BY <1>0, <5>1 DEF StoreInv, StoreTypeOK
        <4>2. new \in Task /\ new.pc = "retry"
          BY <2>1, <4>1 DEF Task, Owning
        <4>3. task' = [task EXCEPT ![w] = new]
          BY <3>1
        <4> HIDE DEF new
        <4> QED
          BY <1>0, <3>1, <4>2, <4>3 DEF PoolTypes, HandlersRegistered
      <3>2. CASE Goto(w, "dead")
        <4>1. /\ task[w].pc # "idle"
              /\ "dead" \in (Owning \cup {"exit"}) \ {"handler"}
          BY <2>1 DEF Owning
        <4> QED
          BY <3>2, <4>1, GotoTypes
      <3> QED
        BY <1>4, <3>1, <3>2 DEF HandlerFails
    <2>4. events' \in Nat /\ finals' \in SUBSET JobId
      BY <1>0, <1>4, <2>1, EmitTypes DEF HandlerFails
    <2> QED
      BY <1>0, <1>4, <2>3, <2>4
      DEF HandlerFails, PoolTypes, pollVars, cancelVars, lifeVars, faultVars
  <1>5. ASSUME NEW pc \in {"exit", "update"}, TaskOnly(w, pc),
               task[w].pc # "idle"
        PROVE  PoolTypes' /\ HandlersRegistered'
    <2>1. pc \in (Owning \cup {"exit"}) \ {"handler"}
      BY DEF Owning
    <2>2. task' \in [Worker -> Task \cup {NoTask}] /\ HandlersRegistered'
      BY <1>5, <2>1, GotoTypes DEF TaskOnly
    <2> QED
      BY <1>0, <1>5, <2>2
      DEF TaskOnly, PoolTypes, pollVars, cancelVars, lifeVars, historyVars,
          faultVars
  <1>6. CASE ScheduleRetry(w) \/ CompleteSelect(w) \/ CompleteUpdate(w)
    <2>1. task[w].pc # "idle"
      BY <1>6 DEF ScheduleRetry, CompleteSelect, CompleteUpdate
    <2>2. TaskOnly(w, "exit") \/ TaskOnly(w, "update")
      BY <1>6 DEF ScheduleRetry, CompleteSelect, CompleteUpdate
    <2> QED
      BY <1>5, <2>1, <2>2
  <1>7. CASE Finish(w)
    <2>1. task[w].job.id \in JobId
      <3>1. task[w].pc # "idle"
        BY <1>7 DEF Finish
      <3> QED
        BY <1>0, <3>1, BusyTask
    <2>2. cancels' \in [JobType -> [JobId -> Worker \cup {NoWorker}]]
      BY <1>0, <1>7, <2>1, PoolAssumption DEF Finish, PoolTypes
    <2>3. /\ task' \in [Worker -> Task \cup {NoTask}]
          /\ task'[w] = NoTask
          /\ \A v \in Worker \ {w} : task'[v] = task[v]
      BY <1>0, <1>7 DEF Finish, PoolTypes
    <2>4. HandlersRegistered'
      BY <1>0, <2>3 DEF HandlersRegistered, NoTask
    <2> QED
      BY <1>0, <1>7, <2>2, <2>3, <2>4
      DEF Finish, PoolTypes, pollVars, lifeVars, historyVars, faultVars
  <1>8. CASE BookkeepingFails(w)
    <2>1. task[w].pc # "idle" /\ "exit" \in (Owning \cup {"exit"}) \ {"handler"}
      BY <1>8 DEF BookkeepingFails, Owning
    <2>2. task' \in [Worker -> Task \cup {NoTask}] /\ HandlersRegistered'
      BY <1>8, <2>1, GotoTypes DEF BookkeepingFails
    <2>3. lost' \in SUBSET JobId /\ faults' \in Nat
      BY <1>0, <1>8, <2>1, BusyTask DEF BookkeepingFails, PoolTypes
    <2> QED
      BY <1>0, <1>8, <2>2, <2>3
      DEF BookkeepingFails, PoolTypes, pollVars, cancelVars, lifeVars
  <1> QED
    BY <1>1, <1>2, <1>3, <1>4, <1>6, <1>7, <1>8 DEF Goroutine

LEMMA ProcessTypes ==
    ASSUME TypeInv, Process \/ PoolTick
    PROVE  PoolTypes' /\ HandlersRegistered'
  <1>0. PoolTypes /\ HandlersRegistered
    BY TypeInvParts
  <1>1. CASE Start
    BY <1>0, <1>1
    DEF Start, PoolTypes, HandlersRegistered, cancelVars
  <1>2. CASE Shutdown \/ StopDrained \/ StopTimeout
    BY <1>0, <1>2
    DEF Shutdown, StopDrained, StopTimeout, ProcessStep, PoolTypes,
        HandlersRegistered, pollVars, cancelVars, historyVars, faultVars
  <1>3. CASE Boot
    BY <1>0, <1>3
    DEF Boot, PoolTypes, HandlersRegistered, pollVars, cancelVars, historyVars,
        faultVars
  <1>4. CASE Exit \/ Crash
    <2>1. Gone
      BY <1>4 DEF Exit, Crash
    <2>2. cancels' \in [JobType -> [JobId -> Worker \cup {NoWorker}]]
      BY <2>1 DEF Gone, NoCancels
    <2>3. task' = [w \in Worker |-> NoTask]
      BY <2>1 DEF Gone
    <2>4. HandlersRegistered'
      BY <2>3 DEF HandlersRegistered, NoTask
    <2> QED
      BY <1>0, <2>1, <2>2, <2>3, <2>4 DEF Gone, PoolTypes, faultVars
  <1>5. CASE PoolTick
    BY <1>0, <1>5
    DEF PoolTick, PoolTypes, HandlersRegistered, poolVars, pollVars,
        cancelVars, lifeVars, historyVars, faultVars
  <1>6. CASE StartUnrecovered
    BY <1>0, <1>6
    DEF StartUnrecovered, PoolTypes, HandlersRegistered, cancelVars, Ids
  <1> QED
    BY <1>1, <1>2, <1>3, <1>4, <1>5, <1>6 DEF Process

LEMMA TypeInvInit == PoolInit => TypeInv
  <1> SUFFICES ASSUME PoolInit PROVE TypeInv
    OBVIOUS
  <1>1. StoreInv
    BY StoreInitInv DEF PoolInit
  <1>2. task = [w \in Worker |-> NoTask]
    BY DEF PoolInit, ProcessInit
  <1>3. HandlersRegistered
    BY <1>2 DEF HandlersRegistered, NoTask
  <1>4. cancels \in [JobType -> [JobId -> Worker \cup {NoWorker}]]
    BY DEF PoolInit, ProcessInit, NoCancels
  <1>5. PoolTypes
    BY <1>2, <1>4 DEF PoolInit, ProcessInit, PoolTypes
  <1> QED
    BY <1>1, <1>3, <1>5, TypeInvParts

LEMMA TypeInvInductive == TypeInv /\ [PoolNext]_vars => TypeInv'
  <1> SUFFICES ASSUME TypeInv, [PoolNext]_vars PROVE TypeInv'
    OBVIOUS
  <1>1. StoreInv'
    BY StoreStep
  <1>2. CASE UNCHANGED vars
    <2>1. PoolTypes /\ HandlersRegistered
      BY TypeInvParts
    <2>2. PoolTypes' /\ HandlersRegistered'
      BY <1>2, <2>1
      DEF PoolTypes, HandlersRegistered, vars, poolVars, pollVars, cancelVars,
          lifeVars, historyVars, faultVars
    <2> QED
      BY <1>1, <2>2 DEF TypeInv, PoolTypes, PoolTypeOK, StoreInv
  <1>3. CASE PoolNext
    <2>1. PoolTypes' /\ HandlersRegistered'
      BY <1>3, ClientsTypes, PollerTypes, GoroutineTypes, ProcessTypes
      DEF PoolNext
    <2> QED
      BY <1>1, <2>1 DEF TypeInv, PoolTypes, PoolTypeOK, StoreInv
  <1> QED
    BY <1>2, <1>3

LEMMA TypeInvariant == PoolSpec => []TypeInv
  <1>1. PoolInit => TypeInv
    BY TypeInvInit
  <1>2. TypeInv /\ [PoolNext]_vars => TypeInv'
    BY TypeInvInductive
  <1> QED
    BY <1>1, <1>2, PTL DEF PoolSpec

(* The state of the queue is well formed in every process (queue.go,       *)
(* worker.go, sqlite.go).                                                  *)
THEOREM PoolTypeCorrect == PoolSpec => []PoolTypeOK
  <1>1. TypeInv => PoolTypeOK
    BY DEF TypeInv
  <1> QED
    BY <1>1, TypeInvariant, PTL

-----------------------------------------------------------------------------
(***************************************************************************)
(* The slots of the semaphore: the count of free slots that poll takes     *)
(* before Claim is still good when it dispatches, and the map of           *)
(* CancelFuncs names only goroutines that work on the job they are         *)
(* registered for.                                                         *)
(***************************************************************************)

(* A goroutine without a handler unregisters nothing; it need not, as      *)
(* nothing was registered under its type.                                  *)
OnlyHandledRegistered ==
    \A t \in JobType \ Handled, id \in JobId : cancels[t][id] = NoWorker

CancelsInv == CancelsLive /\ OnlyHandledRegistered

(* The free slots cover poll's limit, and later the jobs it has claimed:   *)
(* only dispatch takes a slot.                                             *)
SlotsInv ==
    /\ IsFiniteSet(batch)
    /\ poller = "claim" => free <= Cardinality(Idle)
    /\ DispatchNeverBlocks

-----------------------------------------------------------------------------
(* The map of CancelFuncs. *)

Registrable(w) == task[w].pc \notin {"idle", "start"}

(* A step that registers nothing, and leaves the goroutines that stay      *)
(* registered at work on the same job.                                     *)
LEMMA CancelsKept ==
    ASSUME PoolTypeOK, CancelsInv,
           \A t \in JobType, id \in JobId :
               cancels'[t][id] \in {cancels[t][id], NoWorker},
           \A w \in Worker :
               \/ Registrable(w) =>
                      Registrable(w)' /\ task'[w].job = task[w].job
               \/ \A t \in JobType, id \in JobId : cancels'[t][id] # w
    PROVE  CancelsInv'
  <1>1. OnlyHandledRegistered'
    BY DEF CancelsInv, OnlyHandledRegistered
  <1>2. CancelsLive'
    <2>1. SUFFICES ASSUME NEW t \in JobType, NEW id \in JobId,
                          NEW w, w = cancels'[t][id], w # NoWorker
                   PROVE  /\ Registrable(w)'
                          /\ task'[w].job.id = id /\ task'[w].job.type = t
      BY DEF CancelsLive, Registrable
    <2>2. cancels[t][id] = w /\ w \in Worker
      BY <2>1 DEF PoolTypeOK
    <2>3. /\ Registrable(w)
          /\ task[w].job.id = id /\ task[w].job.type = t
      BY <2>1, <2>2 DEF CancelsInv, CancelsLive, Registrable
    <2> QED
      BY <2>1, <2>2, <2>3
  <1> QED
    BY <1>1, <1>2 DEF CancelsInv

LEMMA RunHandlerCancels ==
    ASSUME TypeInv, CancelsInv, NEW w \in Worker, RunHandler(w)
    PROVE  CancelsInv'
  <1> DEFINE job == task[w].job
  <1>1. /\ PoolTypeOK /\ task[w].pc = "start"
        /\ job.type \in Handled
        /\ cancels' = [cancels EXCEPT ![job.type][job.id] = w]
    BY DEF TypeInv, RunHandler
  <1>2. job.type \in JobType /\ job.id \in JobId
    BY <1>1, PoolAssumption, BusyTask
  <1>3. /\ task'[w].pc = "handler" /\ task'[w].job = job
        /\ \A v \in Worker \ {w} : task'[v] = task[v]
    BY <1>1, GotoType DEF RunHandler, Owning
  <1>4. /\ cancels'[job.type][job.id] = w
        /\ \A t \in JobType, id \in JobId :
              t # job.type \/ id # job.id => cancels'[t][id] = cancels[t][id]
    BY <1>1, <1>2 DEF PoolTypeOK
  <1>5. \A t \in JobType, id \in JobId : cancels[t][id] # w
    <2>1. w # NoWorker
      BY PoolAssumption DEF Worker
    <2> QED
      BY <1>1, <2>1 DEF CancelsInv, CancelsLive
  <1>6. CancelsLive'
    <2>1. SUFFICES ASSUME NEW t \in JobType, NEW id \in JobId,
                          NEW v, v = cancels'[t][id], v # NoWorker
                   PROVE  /\ task'[v].pc \notin {"idle", "start"}
                          /\ task'[v].job.id = id /\ task'[v].job.type = t
      BY DEF CancelsLive
    <2>2. CASE t = job.type /\ id = job.id
      BY <1>3, <1>4, <2>1, <2>2
    <2>3. CASE t # job.type \/ id # job.id
      <3>1. v = cancels[t][id]
        BY <1>4, <2>1, <2>3
      <3>2. v \in Worker \ {w}
        BY <1>1, <1>5, <2>1, <3>1 DEF PoolTypeOK
      <3> QED
        BY <1>3, <2>1, <3>1, <3>2 DEF CancelsInv, CancelsLive
    <2> QED
      BY <2>2, <2>3
  <1>7. OnlyHandledRegistered'
    BY <1>1, <1>4 DEF CancelsInv, OnlyHandledRegistered
  <1> QED
    BY <1>6, <1>7 DEF CancelsInv

LEMMA FinishCancels ==
    ASSUME TypeInv, CancelsInv, NEW w \in Worker, Finish(w)
    PROVE  CancelsInv'
  <1> DEFINE job == task[w].job
  <1>1. /\ PoolTypeOK /\ task[w].pc = "exit"
        /\ task' = [task EXCEPT ![w] = NoTask]
    BY DEF TypeInv, Finish
  <1>2. job.id \in JobId
    BY <1>1, BusyTask
  <1>3. \A t \in JobType, id \in JobId :
           cancels'[t][id] = IF t \in Handled /\ t = job.type /\ id = job.id
                             THEN NoWorker ELSE cancels[t][id]
    BY <1>1, <1>2, PoolAssumption DEF Finish, PoolTypeOK
  <1>4. \A t \in JobType, id \in JobId : cancels'[t][id] # w
    <2>1. SUFFICES ASSUME NEW t \in JobType, NEW id \in JobId,
                          cancels'[t][id] = w
                   PROVE  FALSE
      OBVIOUS
    <2>2. w # NoWorker
      BY PoolAssumption DEF Worker
    <2>3. cancels[t][id] = w
      BY <1>3, <2>1, <2>2
    <2>4. job.id = id /\ job.type = t
      BY <2>2, <2>3 DEF CancelsInv, CancelsLive
    <2>5. t \in Handled
      BY <2>2, <2>3 DEF CancelsInv, OnlyHandledRegistered
    <2> QED
      BY <1>3, <2>1, <2>2, <2>4, <2>5
  <1>5. \A v \in Worker \ {w} : task'[v] = task[v]
    BY <1>1 DEF PoolTypeOK
  <1> QED
    BY <1>1, <1>3, <1>4, <1>5, CancelsKept DEF Registrable

LEMMA GoroutineCancels ==
    ASSUME TypeInv, CancelsInv, NEW w \in Worker, Goroutine(w)
    PROVE  CancelsInv'
  <1>0. PoolTypeOK
    BY DEF TypeInv
  <1>1. ASSUME UNCHANGED cancels, task[w].pc # "idle",
               task'[w].pc \notin {"idle", "start"},
               task'[w].job = task[w].job,
               \A v \in Worker \ {w} : task'[v] = task[v]
        PROVE  CancelsInv'
    BY <1>0, <1>1, CancelsKept DEF Registrable
  <1>2. ASSUME UNCHANGED cancels, task[w].pc # "idle",
               NEW pc \in (Owning \cup {"exit"}) \ {"start"}, Goto(w, pc)
        PROVE  CancelsInv'
    <2>1. pc \in Owning \cup {"exit"} /\ pc \notin {"idle", "start"}
      BY DEF Owning
    <2> QED
      BY <1>0, <1>1, <1>2, <2>1, GotoType
  <1>3. {"done", "dead", "update", "exit"} \subseteq (Owning \cup {"exit"}) \ {"start"}
    BY DEF Owning
  <1>4. CASE HandlerFails(w)
    <2>1. /\ UNCHANGED cancels /\ task[w].pc = "handler"
          /\ task[w] \in Task
      <3>1. task[w].pc = "handler"
        BY <1>4 DEF HandlerFails
      <3> QED
        BY <1>0, <1>4, <3>1, BusyTask DEF HandlerFails, cancelVars
    <2>2. ASSUME NEW t, task' = [task EXCEPT ![w] =
                                   [@ EXCEPT !.pc = "retry", !.retryAt = t]]
          PROVE  CancelsInv'
      <3> DEFINE new == [task[w] EXCEPT !.pc = "retry", !.retryAt = t]
      <3>1. new.pc = "retry" /\ new.job = task[w].job
        BY <2>1 DEF Task
      <3>2. task' = [task EXCEPT ![w] = new]
        BY <2>2
      <3> HIDE DEF new
      <3>3. /\ task'[w] = new
            /\ \A v \in Worker \ {w} : task'[v] = task[v]
        BY <1>0, <3>2 DEF PoolTypeOK
      <3> QED
        BY <1>1, <2>1, <3>1, <3>3
    <2>3. CASE Goto(w, "dead")
      BY <1>2, <1>3, <2>1, <2>3
    <2> QED
      BY <1>4, <2>2, <2>3 DEF HandlerFails
  <1>5. CASE \/ NoHandler(w) \/ HandlerSucceeds(w) \/ ScheduleRetry(w)
             \/ CompleteSelect(w) \/ CompleteUpdate(w) \/ BookkeepingFails(w)
    <2>1. UNCHANGED cancels /\ task[w].pc # "idle"
      BY <1>5
      DEF NoHandler, HandlerSucceeds, ScheduleRetry, CompleteSelect,
          CompleteUpdate, BookkeepingFails, TaskOnly, cancelVars
    <2>2. \E pc \in {"done", "dead", "update", "exit"} : Goto(w, pc)
      BY <1>5
      DEF NoHandler, HandlerSucceeds, ScheduleRetry, CompleteSelect,
          CompleteUpdate, BookkeepingFails, TaskOnly
    <2> QED
      BY <1>2, <1>3, <2>1, <2>2
  <1> QED
    BY <1>4, <1>5, RunHandlerCancels, FinishCancels DEF Goroutine

LEMMA CancelsInductive ==
    ASSUME TypeInv, CancelsInv, [PoolNext]_vars PROVE CancelsInv'
  <1>0. PoolTypeOK
    BY DEF TypeInv
  <1>1. ASSUME UNCHANGED <<cancels, task>> PROVE CancelsInv'
    BY <1>0, <1>1, CancelsKept DEF Registrable
  <1>2. CASE UNCHANGED vars
    BY <1>1, <1>2 DEF vars, poolVars, cancelVars
  <1>3. CASE Clients
    <2>1. ASSUME NEW t \in JobType, CancelAll(t) PROVE CancelsInv'
      <3>1. /\ UNCHANGED task
            /\ \A u \in JobType, id \in JobId :
                  cancels'[u][id] \in {cancels[u][id], NoWorker}
        BY <1>0, <2>1 DEF CancelAll, NoCancels, PoolTypeOK
      <3> QED
        BY <1>0, <3>1, CancelsKept DEF Registrable
    <2> QED
      BY <1>1, <1>3, <2>1
      DEF Clients, ClientEnqueue, ClientSkipped, ManualRetry, ReadEvent,
          poolVars, cancelVars
  <1>4. CASE Poller
    <2>1. ASSUME NEW w \in Worker, Dispatch(w) PROVE CancelsInv'
      <3>1. /\ UNCHANGED cancels /\ task[w].pc = "idle"
            /\ \A v \in Worker \ {w} : task'[v] = task[v]
        BY <1>0, <2>1 DEF Dispatch, Idle, NoTask, cancelVars, PoolTypeOK
      <3> QED
        BY <1>0, <3>1, CancelsKept DEF Registrable
    <2> QED
      BY <1>1, <1>4, <2>1
      DEF Poller, PollTick, PollClaim, ClaimAborted, ClaimFails, AfterClaim,
          PollExit, cancelVars
  <1>5. CASE Process
    <2>1. CASE Gone
      <3>1. \A t \in JobType, id \in JobId : cancels'[t][id] = NoWorker
        BY <2>1 DEF Gone, NoCancels
      <3> QED
        BY <3>1 DEF CancelsInv, CancelsLive, OnlyHandledRegistered
    <2> QED
      BY <1>1, <1>5, <2>1
      DEF Process, Start, StartUnrecovered, Shutdown, StopDrained, StopTimeout,
          Exit, Crash, Boot, ProcessStep, cancelVars
  <1>6. CASE PoolTick
    BY <1>1, <1>6 DEF PoolTick, poolVars, cancelVars
  <1> QED
    BY <1>2, <1>3, <1>4, <1>5, <1>6, GoroutineCancels DEF PoolNext

(* Whatever retries, restarts and shutdowns there are, an entry of the map *)
(* belongs to a goroutine that still works on that job, although the       *)
(* deferred function unregisters by job id (dispatch in worker.go).        *)
THEOREM PoolCancelsLive == PoolSpec => []CancelsLive
  <1>1. PoolInit => CancelsInv
    BY DEF PoolInit, ProcessInit, NoCancels, CancelsInv, CancelsLive,
           OnlyHandledRegistered
  <1>2. TypeInv /\ CancelsInv /\ [PoolNext]_vars => CancelsInv'
    BY CancelsInductive
  <1>3. CancelsInv => CancelsLive
    BY DEF CancelsInv
  <1> QED
    BY <1>1, <1>2, <1>3, TypeInvariant, PTL DEF PoolSpec

-----------------------------------------------------------------------------
(* The free slots. *)

LEMMA IdleFinite ==
    /\ IsFiniteSet(Idle) /\ Cardinality(Idle) \in Nat
    /\ \A S \in SUBSET Idle : Cardinality(S) <= Cardinality(Idle)
  BY PoolAssumption, FS_Subset, FS_CardinalityType DEF Idle, Worker

(* A step that takes no slot and claims nothing. *)
LEMMA SlotsKept ==
    ASSUME PoolTypeOK, SlotsInv, batch' = batch, free' = free,
           poller' \in {poller, "off", "wait"}, Idle \subseteq Idle'
    PROVE  SlotsInv'
  <1>1. Cardinality(Idle) <= Cardinality(Idle')
    <2>1. IsFiniteSet(Idle')
      BY PoolAssumption, FS_Subset DEF Idle, Worker
    <2> QED
      BY <2>1, FS_Subset
  <1>2. /\ Cardinality(Idle) \in Nat /\ free \in Nat
        /\ Cardinality(batch) \in Nat
    BY IdleFinite, FS_CardinalityType DEF SlotsInv, PoolTypeOK
  <1>3. Cardinality(Idle') \in Nat
    BY PoolAssumption, FS_Subset, FS_CardinalityType DEF Idle, Worker
  <1> QED
    BY <1>1, <1>2, <1>3 DEF SlotsInv, DispatchNeverBlocks

LEMMA PollClaimSlots ==
    ASSUME TypeInv, SlotsInv, PollClaim PROVE SlotsInv'
  <1>1. PICK S \in SUBSET JobId :
           Claim(S, free) /\ AfterClaim({CopyOf(id) : id \in S})
    BY DEF PollClaim
  <1> DEFINE copies == {CopyOf(id) : id \in S}
             f == [id \in S |-> CopyOf(id)]
  <1>2. IsFiniteSet(S) /\ Cardinality(S) \in Nat
    BY JobIdAssumption, FS_Subset, FS_CardinalityType
  <1>3. Cardinality(S) <= free
    BY <1>1, ClaimInv DEF TypeInv
  <1>4. f \in Surjection(S, copies)
    BY DEF Surjection
  <1>5. IsFiniteSet(copies) /\ Cardinality(copies) <= Cardinality(S)
    BY <1>2, <1>4, FS_Surjection
  <1>6. free <= Cardinality(Idle) /\ free \in Nat
    BY DEF PollClaim, SlotsInv, TypeInv, PoolTypeOK
  <1>7. Cardinality(copies) <= Cardinality(Idle)
    BY <1>2, <1>3, <1>5, <1>6, IdleFinite, FS_CardinalityType
  <1>8. batch' = copies /\ Idle' = Idle /\ poller' \in {"wait", "dispatch"}
    BY <1>1 DEF AfterClaim, Idle
  <1> QED
    BY <1>5, <1>7, <1>8 DEF SlotsInv, DispatchNeverBlocks

LEMMA DispatchSlots ==
    ASSUME TypeInv, SlotsInv, NEW w \in Worker, Dispatch(w) PROVE SlotsInv'
  <1>1. PICK c \in batch :
           /\ task' = [task EXCEPT ![w] =
                         [pc |-> "start", job |-> c, retryAt |-> 0]]
           /\ batch' = batch \ {c}
    BY DEF Dispatch
  <1>2. /\ poller = "dispatch" /\ poller' \in {"wait", "dispatch"}
        /\ w \in Idle
    BY DEF Dispatch
  <1>3. Idle' = Idle \ {w}
    <2>1. task \in [Worker -> Task \cup {NoTask}]
      BY DEF TypeInv, PoolTypeOK
    <2>2. [pc |-> "start", job |-> c, retryAt |-> 0] # NoTask
      BY DEF NoTask
    <2> QED
      BY <1>1, <2>1, <2>2 DEF Idle
  <1>4. /\ IsFiniteSet(batch) /\ Cardinality(batch) \in Nat
        /\ IsFiniteSet(Idle) /\ Cardinality(Idle) \in Nat
    BY IdleFinite, FS_CardinalityType DEF SlotsInv
  <1>5. /\ IsFiniteSet(batch \ {c})
        /\ Cardinality(batch \ {c}) = Cardinality(batch) - 1
        /\ Cardinality(Idle \ {w}) = Cardinality(Idle) - 1
    BY <1>2, <1>4, FS_RemoveElement
  <1>6. Cardinality(batch) <= Cardinality(Idle)
    BY <1>2 DEF SlotsInv, DispatchNeverBlocks
  <1> QED
    BY <1>1, <1>2, <1>3, <1>4, <1>5, <1>6 DEF SlotsInv, DispatchNeverBlocks

LEMMA GoroutineSlots ==
    ASSUME TypeInv, SlotsInv, NEW w \in Worker, Goroutine(w) PROVE SlotsInv'
  <1>1. UNCHANGED <<batch, free, poller>>
    BY DEF Goroutine, RunHandler, NoHandler, HandlerSucceeds, HandlerFails,
           ScheduleRetry, CompleteSelect, CompleteUpdate, BookkeepingFails,
           Finish, TaskOnly, pollVars
  <1>2. task[w] # NoTask
    <2>1. task[w].pc # "idle"
      BY DEF Goroutine, RunHandler, NoHandler, HandlerSucceeds, HandlerFails,
             ScheduleRetry, CompleteSelect, CompleteUpdate, BookkeepingFails,
             Finish
    <2> QED
      BY <2>1 DEF NoTask
  <1>3. \E x : task' = [task EXCEPT ![w] = x]
    <2>1. CASE HandlerFails(w)
      <3>1. \/ \E t : task' = [task EXCEPT ![w] =
                                 [@ EXCEPT !.pc = "retry", !.retryAt = t]]
            \/ Goto(w, "dead")
        BY <2>1 DEF HandlerFails
      <3> QED
        BY <3>1 DEF Goto
    <2>2. CASE Finish(w)
      BY <2>2 DEF Finish
    <2>3. CASE ~HandlerFails(w) /\ ~Finish(w)
      <3>1. \E pc : Goto(w, pc)
        BY <2>3
        DEF Goroutine, RunHandler, NoHandler, HandlerSucceeds, ScheduleRetry,
            CompleteSelect, CompleteUpdate, BookkeepingFails, TaskOnly
      <3> QED
        BY <3>1 DEF Goto
    <2> QED
      BY <2>1, <2>2, <2>3
  <1>4. Idle \subseteq Idle'
    BY <1>2, <1>3 DEF Idle, TypeInv, PoolTypeOK
  <1> QED
    BY <1>1, <1>4, SlotsKept DEF TypeInv

LEMMA SlotsInductive ==
    ASSUME TypeInv, SlotsInv, [PoolNext]_vars PROVE SlotsInv'
  <1>0. PoolTypeOK
    BY DEF TypeInv
  <1>1. ASSUME UNCHANGED <<batch, free, task>>,
               poller' \in {poller, "off", "wait"}
        PROVE  SlotsInv'
    BY <1>0, <1>1, SlotsKept DEF Idle
  <1>2. CASE UNCHANGED vars
    BY <1>1, <1>2 DEF vars, poolVars, pollVars
  <1>3. CASE Clients
    BY <1>1, <1>3
    DEF Clients, ClientEnqueue, ClientSkipped, ManualRetry, CancelAll,
        ReadEvent, poolVars, pollVars
  <1>4. CASE Poller
    <2>1. CASE PollTick
      BY <2>1, IdleFinite DEF PollTick, SlotsInv, DispatchNeverBlocks, Idle
    <2>2. CASE ClaimAborted \/ ClaimFails
      BY <2>2, FS_EmptySet
      DEF ClaimAborted, ClaimFails, AfterClaim, SlotsInv, DispatchNeverBlocks
    <2>3. CASE PollExit
      BY <1>1, <2>3 DEF PollExit
    <2> QED
      BY <1>4, <2>1, <2>2, <2>3, PollClaimSlots, DispatchSlots DEF Poller
  <1>5. CASE Process
    <2>1. CASE Gone
      BY <2>1, FS_EmptySet DEF Gone, SlotsInv, DispatchNeverBlocks
    <2>2. CASE Start \/ StartUnrecovered
      BY <1>1, <2>2 DEF Start, StartUnrecovered
    <2> QED
      BY <1>1, <1>5, <2>1, <2>2
      DEF Process, Shutdown, StopDrained, StopTimeout, Exit, Crash, Boot,
          ProcessStep, pollVars
  <1>6. CASE PoolTick
    BY <1>1, <1>6 DEF PoolTick, poolVars, pollVars
  <1> QED
    BY <1>2, <1>3, <1>4, <1>5, <1>6, GoroutineSlots DEF PoolNext

(* A claimed job always finds a free slot, for every number of slots:      *)
(* poll's snapshot of len(sem) is never too optimistic (worker.go).        *)
THEOREM PoolDispatchNeverBlocks == PoolSpec => []DispatchNeverBlocks
  <1>1. PoolInit => SlotsInv
    BY FS_EmptySet
    DEF PoolInit, ProcessInit, SlotsInv, DispatchNeverBlocks
  <1>2. TypeInv /\ SlotsInv /\ [PoolNext]_vars => SlotsInv'
    BY SlotsInductive
  <1>3. SlotsInv => DispatchNeverBlocks
    BY DEF SlotsInv
  <1> QED
    BY <1>1, <1>2, <1>3, TypeInvariant, PTL DEF PoolSpec

=============================================================================
