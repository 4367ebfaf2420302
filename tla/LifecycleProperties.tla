------------------------- MODULE LifecycleProperties -------------------------
(***************************************************************************)
(* What the queue's life cycle and the cron scheduler promise, and the     *)
(* claims of the documentation that the code does not keep.                *)
(***************************************************************************)
EXTENDS Lifecycle

(* Two runs of an entry are at least its interval apart, also across a     *)
(* restart that changed the interval: after downtime, however long, an     *)
(* entry does not catch up with a run for every interval it missed         *)
(* (cronScheduler.fire, UpdateCronRun).  Only a Schedule that overlaps     *)
(* Start could store a stale next_run over a newer one.                    *)
RunsSpaced ==
    [][\A n \in Name :
          stamps'[n] > stamps[n] /\ crons[n].last # 0 /\ ~q.overlapped
          => crons'[n].last >= crons[n].last + q.entries[n]]_lifeVars

(* A run that is recorded in the table is enqueued, and only once.         *)
(* UpdateCronRun comes before the enqueue (cronScheduler.fire), so each    *)
(* process before this one lost at most one run of an entry, if it died    *)
(* between the two, and each error of the storage at most one.  A process  *)
(* that runs on has lost no other: all its recorded runs are enqueued but  *)
(* the one at hand, until the storage is closed.                           *)
EachRunEnqueued ==
    \A n \in Name :
        LET between == Up /\ q.loop.pc = "enqueue" /\ q.loop.name = n
            lost == stamps[n] - enqueued[n] - (IF between THEN 1 ELSE 0)
        IN  lost \in 0 .. (lives - 1) + faults
                             + (IF between \/ (Up /\ q.open) THEN 0 ELSE 1)

(* The scheduler leaves alone the entries of the table that this process   *)
(* has not scheduled: a job that was removed from the program, or belongs  *)
(* to another program on the same file.                                    *)
ForeignCronsUntouched ==
    [][\A n \in Name :
          crons'[n] # crons[n] /\ Up' => q'.entries[n] # 0]_lifeVars

(* "Stop gracefully stops the queue, waiting for in-flight jobs to finish" *)
(* (queue.go): when Stop has returned no worker, poll loop or scheduler    *)
(* works on, least of all on the storage that it has closed.               *)
Quiet == q.pool = "off" /\ q.loop = Off

StopWaits == q.stop = "done" /\ ~ShutdownTimeout => Quiet

(* It does so in a program that calls Stop only once Start is serving.     *)
OrderlyStopWaits == ~q.overlapped => StopWaits

(* "The server shuts down automatically when the queue stops" (README.md): *)
(* Stop leaves no dashboard serving, and closes the storage only when no   *)
(* request is using it.  A Dashboard call that overlaps Stop may be missed.*)
DashboardStops ==
    q.stop = "done" /\ ~q.overlapped =>
        q.dash # "serving" /\ (q.request => ShutdownTimeout)

(* "Panics if called after Start - all handlers must be registered before  *)
(* starting" (queue.go): once Start serves, every Register that returned   *)
(* without a panic is among the handlers of the workers, and every         *)
(* Schedule has its entry in the scheduler.  What may be missing are the   *)
(* names whose own call ran beside Start, in the time from before its copy *)
(* until it sets started; they do not take others with them.               *)
RegisteredAreHandled ==
    q.start = "serving" =>
        \A n \in Name \ q.late :
            /\ n \in q.handlers => n \in q.copied
            /\ q.pending[n] # 0 => q.entries[n] # 0

(* "Missed runs fire once on restart" (README.md): a run that is due stays *)
(* due until the scheduler fires it.                                       *)
DueRunsNotSkipped ==
    [][\A n \in DueCrons :
          crons'[n].next > now => crons'[n].last # crons[n].last]_lifeVars

-----------------------------------------------------------------------------
(***************************************************************************)
(* The ticker fires again and again, every goroutine that can run does.    *)
(* A loop with closed done that is always due may be lucky enough for a    *)
(* while: select chooses among the ready cases at random, which is strong  *)
(* fairness for the exit.  Requests of the dashboard are answered.  Calls  *)
(* of the program, the clock, crashes and the end of the context are under *)
(* no obligation.                                                          *)
(***************************************************************************)
Fairness ==
    /\ WF_lifeVars(Begun) /\ WF_lifeVars(Starting)
    /\ WF_lifeVars(Stopping) /\ WF_lifeVars(q.start = "stopping" /\ CallStop)
    /\ WF_lifeVars(PoolEnds)
    /\ WF_lifeVars(Firing) /\ SF_lifeVars(LoopExit)

FairLifecycle == LifecycleSpec /\ Fairness

Serving == q.start = "serving" /\ q.stop = "no"

(* An entry that falls due while the queue serves is fired, whatever other *)
(* entries, scheduled by this process or not, are due with it.             *)
DueCronFires ==
    \A n \in Name :
        Serving /\ n \in DueCrons /\ q.entries[n] # 0
        ~> ~Serving \/ n \notin DueCrons

(* Once the context is done Start returns, unless the process dies: it     *)
(* waits for the scheduler, the pool and the dashboard, and none of them   *)
(* waits for it.                                                           *)
StartReturnsEventually ==
    q.start = "stopping" ~> q.start \in {"returned", "down"}

=============================================================================
