--------------------------- MODULE PoolProperties ---------------------------
(***************************************************************************)
(* What the worker pool promises: the invariants and action properties of  *)
(* WorkerPool, its liveness under fair scheduling, and the claims of the   *)
(* documentation that the code does not keep.                              *)
(***************************************************************************)
EXTENDS WorkerPool

Owned == {task[w].job.id : w \in {v \in Worker : Owner(v)}}
Claimed == {c.id : c \in batch}

(* No two goroutines work on the same job, and none of the jobs waiting in *)
(* poll's slice is already with a goroutine (Claim, RecoverStuck, retry).  *)
ExclusiveExecution ==
    /\ \A v, w \in Worker :
          Owner(v) /\ Owner(w) /\ task[v].job.id = task[w].job.id => v = w
    /\ \A c, d \in batch : c.id = d.id => c = d
    /\ Owned \cap Claimed = {}

(* A goroutine that still has a bookkeeping call to make owns a running    *)
(* row, so its call cannot hit a job that is pending again, completed or   *)
(* replaced.                                                               *)
OwnedRowsRunning == \A id \in Owned \cup Claimed : jobs[id].status = "running"

(* While the queue is up each running row has a goroutine or waits to be   *)
(* dispatched, except those a failed storage call left behind: nobody      *)
(* works on these until the next Start.  The rows that a dead process left *)
(* in running were recovered.                                              *)
NoStuckRunning ==
    /\ proc = "up" =>
          Ids(jobs, {"running"}) \subseteq Owned \cup Claimed \cup lost
    /\ \A id \in lost : jobs[id].status = "running" /\ id \notin Owned \cup Claimed

(* The copy that a goroutine decides retry or dead letter on agrees with   *)
(* the row it will write to.                                               *)
FreshCopy ==
    \A w \in Worker :
        Owner(w) => task[w].job = CopyOf(task[w].job.id)

(* poll's count of free slots is a snapshot, but dispatch never has to     *)
(* wait for a slot: a claimed job is never held up behind a busy pool.     *)
DispatchNeverBlocks ==
    poller = "dispatch" => Cardinality(batch) <= Cardinality(Idle)

(* A registered CancelFunc belongs to a goroutine that is still working on *)
(* that job: no entry of the map outlives its goroutine.                   *)
CancelsLive ==
    \A t \in JobType, id \in JobId :
        LET w == cancels[t][id] IN
        w # NoWorker => /\ task[w].pc \notin {"idle", "start"}
                        /\ task[w].job.id = id /\ task[w].job.type = t

(* A job is executed at most MaxAttempts times, plus once for each time    *)
(* the process died.                                                       *)
ExecutionsBounded ==
    \A id \in Ids(jobs, Stored) :
        jobs[id].maxAttempts > 0 =>
            runs[id] <= jobs[id].maxAttempts + lives - 1

(* "Final: true if the job is now dead-lettered (no more retries left)"    *)
(* (job.go): the process that has reported a job as final does not execute *)
(* it again.  The event precedes MarkFailed, so after a crash the next     *)
(* process may.                                                            *)
FinalIsFinal ==
    \A w \in Worker : task[w].pc = "handler" => task[w].job.id \notin finals

(* A completed job is not executed again and keeps its status: only the    *)
(* dashboard revives it, and only when it failed.                          *)
CompletedStays ==
    [][\A id \in Ids(jobs, Completed) :
          /\ \/ jobs'[id].status \in {jobs[id].status, "deleted"}
             \/ jobs[id].status = "failed" /\ manual' > manual
          /\ runs'[id] <= runs[id]]_vars

-----------------------------------------------------------------------------
(* Liveness. *)

(***************************************************************************)
(* The Go scheduler runs every goroutine that can run; the poll ticker     *)
(* fires again and again and time passes; handlers return (an assumption   *)
(* on the program that uses the queue); a process that died is started     *)
(* again.  Clients, CancelAll, shutdowns, timeouts and crashes are under   *)
(* no obligation.                                                          *)
(***************************************************************************)
Fairness ==
    /\ WF_vars(PollTick) /\ WF_vars(PollClaim)
    /\ WF_vars(PollExit) /\ WF_vars(ClaimAborted)
    /\ WF_vars(\E w \in Worker : Dispatch(w))
    /\ \A w \in Worker : WF_vars(Goroutine(w))
    /\ WF_vars(Start) /\ WF_vars(Boot) /\ WF_vars(Exit)
    /\ WF_vars(StopDrained)
    /\ WF_vars(PoolTick)

FairSpec == PoolSpec /\ Fairness

(* Every job that is enqueued is done, dead-lettered or replaced in the    *)
(* end, whatever crashes, shutdowns and storage errors happen on the way   *)
(* and whether or not anybody reads the error channel.  Only a storage     *)
(* error while its outcome is recorded leaves a job in running.            *)
EveryJobSettles ==
    \A id \in JobId :
        jobs[id].status \in Active ~> jobs[id].status \notin Active \/ id \in lost

(* Stop returns, even without a shutdown timeout.                          *)
StopReturns == proc = "stopping" ~> proc \in {"closed", "down"}

-----------------------------------------------------------------------------
(* Claims of the documentation that do not hold. *)

(* "CancelAll cancels the context of every currently running job of the    *)
(* given type" (queue.go): whenever a handler runs, CancelAll would find   *)
(* its context or has already cancelled it.                                *)
RunningJobsCancellable ==
    \A w \in Worker :
        LET job == task[w].job IN
        task[w].pc = "handler" =>
            cancels[job.type][job.id] = w \/ w \in cancelled

(* "The running job will either succeed (no need to re-enqueue) or fail    *)
(* and retry (covers the new request automatically)" (options.go).         *)
CoveredRequestSurvives == \A id \in covered : jobs[id].status # "failed"

=============================================================================
