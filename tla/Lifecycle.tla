----------------------------- MODULE Lifecycle -----------------------------
(***************************************************************************)
(* The life of a Queue (queue.go) and its cron scheduler (cron.go), one    *)
(* process after another on the same database: Register and Schedule on a  *)
(* goroutine of the program, Start step by step, the scheduler's loop, and *)
(* Stop, which runs once, called by Start or by the program.  The worker   *)
(* pool is only on or off here; WorkerPool.tla models it.  The dashboard's *)
(* server (dashboard.go) serves one request at a time here.                *)
(*                                                                         *)
(* Start and the other goroutines share q.pool and q.scheduler without a   *)
(* lock.  A reader may see nil until the write reaches it, which is an     *)
(* interleaving in which it reads first.                                   *)
(***************************************************************************)
EXTENDS Integers

CONSTANTS
    Name,             \* names of JobDefs
    Interval,         \* the schedules that the program uses
    Overlap,          \* whether it registers or stops while Start is on its way
    ShutdownTimeout,  \* whether WithShutdownTimeout is set
    Dashboards,       \* whether it calls Dashboard, once
    Storages,         \* the storages it may be given
    MaxTime,          \* bound on the clock
    MaxLives,         \* bound on the processes run one after another
    MaxFaults         \* bound on the errors of an open database

ASSUME LifecycleAssumption ==
    /\ Interval \subseteq Nat \ {0}
    /\ Overlap \in BOOLEAN /\ ShutdownTimeout \in BOOLEAN
    /\ Dashboards \in BOOLEAN /\ Storages \subseteq {"sqlite", "memory"}
    /\ MaxTime \in Nat /\ MaxLives \in Nat /\ MaxFaults \in Nat

VARIABLES
    storage,    \* q.storage: SQLiteStorage or MemoryStorage
    crons,      \* the cron_jobs table, or the map of MemoryStorage
    now,        \* time.Now()
    lives,      \* the number of processes started so far
    faults,     \* the number of errors of the open database so far
    q,          \* the memory of the process
    stamps,     \* history: UpdateCronRun calls per name
    enqueued    \* history: jobs the scheduler enqueued per name

lifeVars == <<storage, crons, now, lives, faults, q, stamps, enqueued>>

CronRow == [stored: BOOLEAN, last: Nat, next: Nat]
NoRow == [stored |-> FALSE, last |-> 0, next |-> 0]

(* A schedule per name, 0 for a name that has none. *)
Schedules == [Name -> Interval \cup {0}]
NoSchedules == [n \in Name |-> 0]

(* The goroutine of the program inside Register (every = 0), Schedule or   *)
(* Dashboard.                                                              *)
Client == [pc: {"add", "cron"}, name: Name, every: Interval \cup {0}]
          \cup [pc: {"upsert"}, name: Name, next: Nat]
          \cup [pc: {"dash"}]

(* The scheduler's goroutine inside its loop; due is what is left of the   *)
(* names that DueCrons returned.                                           *)
Loop == [pc: {"wait"}]
        \cup [pc: {"fire"}, due: SUBSET Name]
        \cup [pc: {"update"}, due: SUBSET Name, name: Name, at: Nat, next: Nat]
        \cup [pc: {"enqueue"}, due: SUBSET Name, name: Name]

Off == [pc |-> "off"]
Parts == {"pool", "scheduler"}

Memory ==
    [open: BOOLEAN,                      \* the storage
     start: {"new", "pool", "scheduler", "register", "loop", "serving",
             "stopping", "returned", "failed", "down"},    \* where Start is
     stop: {"no", "scheduler", "wait", "pool", "drain", "dash", "shut",
            "close", "done"},
     handlers: SUBSET Name,              \* the keys of q.handlers
     pending: Schedules,                 \* q.pendingCrons, the last of a name
     copied: SUBSET Name,                \* the handlers Start has copied
     todo: Schedules,                    \* the schedules it has to register
     built: SUBSET Parts,                \* q.pool, q.scheduler are not nil
     halted: SUBSET Parts,               \* their done channel is closed
     client: Client \cup {Off},
     pool: {"on", "off"},                \* poll loop and workers
     entries: Schedules,                 \* of the scheduler
     loop: Loop \cup {Off},
     dash: {"off", "serving", "shut"},   \* the dashboard's server
     stopDash: BOOLEAN,                  \* q.stopDash is not nil
     request: BOOLEAN,                   \* a request is in its handler
     late: SUBSET Name,                  \* history: the names whose Register
                                         \* or Schedule overlapped Start
     overlapped: BOOLEAN]                \* history: a call overlapped
                                         \* Start or Stop

LifecycleTypeOK ==
    /\ storage \in Storages
    /\ crons \in [Name -> CronRow]
    /\ now \in Nat /\ lives \in Nat /\ faults \in Nat
    /\ q \in Memory
    /\ stamps \in [Name -> Nat] /\ enqueued \in [Name -> Nat]

(* New. *)
NewQueue ==
    [open |-> TRUE, start |-> "new", stop |-> "no",
     handlers |-> {}, pending |-> NoSchedules,
     copied |-> {}, todo |-> NoSchedules,
     built |-> {}, halted |-> {}, client |-> Off,
     pool |-> "off", entries |-> NoSchedules, loop |-> Off,
     dash |-> "off", stopDash |-> FALSE, request |-> FALSE,
     late |-> {}, overlapped |-> FALSE]

LifecycleInit ==
    /\ storage \in Storages
    /\ crons = [n \in Name |-> NoRow]
    /\ now = 1 /\ lives = 1 /\ faults = 0
    /\ q = NewQueue
    /\ stamps = [n \in Name |-> 0] /\ enqueued = [n \in Name |-> 0]

(* A step that changes the memory of the process only. *)
Memo(new) ==
    /\ q' = new
    /\ UNCHANGED <<storage, crons, now, lives, faults, stamps, enqueued>>

Up == q.start # "down"

-----------------------------------------------------------------------------
(* The table.  On a closed database every call returns an error, on an     *)
(* open one a call may (a locked file, a full disk).  MemoryStorage never  *)
(* refuses a call, and its Close does nothing.                             *)

CallWorks == q.open /\ UNCHANGED faults

CallFails ==
    /\ storage = "sqlite"
    /\ q.open => faults < MaxFaults
    /\ faults' = IF q.open THEN faults + 1 ELSE faults

SqliteUpsertCron(n, next) ==
    [crons EXCEPT ![n] = [@ EXCEPT !.stored = TRUE, !.next = next]]

(* MemoryStorage replaces the entry, and forgets its LastRun. *)
MemoryUpsertCron(n, next) ==
    [crons EXCEPT ![n] = [stored |-> TRUE, last |-> 0, next |-> next]]

UpsertCron(n, next) ==
    IF storage = "sqlite" THEN SqliteUpsertCron(n, next)
                          ELSE MemoryUpsertCron(n, next)

(* Seeded fault: only last_run is written. *)
UpdateCronRunLastOnly(n, last, next) ==
    [crons EXCEPT ![n] = [@ EXCEPT !.last = last]]

UpdateCronRun(n, last, next) ==
    [crons EXCEPT ![n] = [@ EXCEPT !.last = last, !.next = next]]

DueCrons == {n \in Name : crons[n].stored /\ crons[n].next <= now}

-----------------------------------------------------------------------------
(* The program. *)

(* q.started *)
Started == q.start \in {"loop", "serving", "stopping", "returned"}

(* Start has begun and has not set started; after an error it never will.  *)
Underway == q.start \in {"pool", "scheduler", "register", "failed"}

(* Seeded fault: a late Register does not panic. *)
RegisterAnyTime(n, every) ==
    /\ Up
    /\ Overlap \/ q.start = "new"
    /\ q.client = Off
    /\ Memo([q EXCEPT !.client = [pc |-> "add", name |-> n, every |-> every],
                      !.late = IF Underway THEN @ \cup {n} ELSE @,
                      !.overlapped = @ \/ Underway])

(* Register and Schedule; with started set they panic.  A program that     *)
(* does not overlap Start calls them before it.                            *)
Register(n, every) ==
    /\ Up /\ ~Started
    /\ Overlap \/ q.start = "new"
    /\ q.client = Off
    /\ Memo([q EXCEPT !.client = [pc |-> "add", name |-> n, every |-> every],
                      !.late = IF Underway THEN @ \cup {n} ELSE @,
                      !.overlapped = @ \/ Underway])

AddHandler ==
    /\ q.client.pc = "add"
    /\ Memo([q EXCEPT !.handlers = @ \cup {q.client.name},
                      !.client = IF q.client.every = 0 THEN Off
                                 ELSE [@ EXCEPT !.pc = "cron"]])

(* registerCron while there is no scheduler. *)
BufferCron ==
    /\ q.client.pc = "cron"
    /\ "scheduler" \notin q.built
    /\ Memo([q EXCEPT !.pending[q.client.name] = q.client.every,
                      !.client = Off])

(* registerCron when there is one: first the entry, then the row. *)
SetEntry ==
    LET c == q.client IN
    /\ c.pc = "cron"
    /\ "scheduler" \in q.built
    /\ Memo([q EXCEPT !.entries[c.name] = c.every,
                      !.client = [pc |-> "upsert", name |-> c.name,
                                  next |-> now + c.every]])

StoreEntry ==
    /\ q.client.pc = "upsert"
    /\ \/ CallWorks /\ crons' = UpsertCron(q.client.name, q.client.next)
       \/ CallFails /\ UNCHANGED crons
    /\ q' = [q EXCEPT !.client = Off]
    /\ UNCHANGED <<storage, now, lives, stamps, enqueued>>

(* Dashboard: the server is started, then stopDash is set.                 *)
Dashboard ==
    /\ Dashboards /\ Up /\ q.dash = "off"
    /\ Overlap \/ q.start = "new"
    /\ q.client = Off
    /\ Memo([q EXCEPT !.client = [pc |-> "dash"], !.dash = "serving",
                      !.overlapped = @ \/ q.stop # "no"])

SetStopDash ==
    /\ q.client.pc = "dash"
    /\ Memo([q EXCEPT !.client = Off, !.stopDash = TRUE])

(* A request reaches the server, and its handler returns.                  *)
Request ==
    /\ q.dash = "serving" /\ ~q.request
    /\ Memo([q EXCEPT !.request = TRUE])

RequestEnds == q.request /\ Memo([q EXCEPT !.request = FALSE])

-----------------------------------------------------------------------------
(* Start. *)

(* A call for n that has not finished with the handlers or the schedules.  *)
Registering(n) == q.client.pc \in {"add", "cron"} /\ q.client.name = n

(* Copies the handlers and the buffered schedules. *)
Begin ==
    /\ q.start = "new"
    /\ Overlap \/ q.client = Off
    /\ Memo([q EXCEPT !.start = "pool", !.copied = q.handlers,
                      !.todo = q.pending,
                      !.late = {n \in Name : Registering(n)},
                      !.overlapped = @ \/ q.client # Off])

(* RecoverStuck, an error of which is only logged, and newWorkerPool. *)
BuildPool ==
    /\ q.start = "pool"
    /\ Memo([q EXCEPT !.start = "scheduler", !.built = @ \cup {"pool"}])

BuildScheduler ==
    /\ q.start = "scheduler"
    /\ Memo([q EXCEPT !.start = "register", !.built = @ \cup {"scheduler"}])

(* A buffered schedule is registered; an error ends Start. *)
RegisterBuffered(n) ==
    LET every == q.todo[n] IN
    /\ q.start = "register"
    /\ every # 0
    /\ \/ /\ CallWorks
          /\ crons' = UpsertCron(n, now + every)
          /\ q' = [q EXCEPT !.entries[n] = every, !.todo[n] = 0]
       \/ /\ CallFails
          /\ q' = [q EXCEPT !.entries[n] = every, !.start = "failed"]
          /\ UNCHANGED crons
    /\ UNCHANGED <<storage, now, lives, stamps, enqueued>>

(* started is set, then the pool is started, then the scheduler. *)
StartPool ==
    /\ q.start = "register" /\ q.todo = NoSchedules
    /\ Memo([q EXCEPT !.start = "loop", !.pool = "on"])

StartLoop ==
    /\ q.start = "loop"
    /\ Memo([q EXCEPT !.start = "serving", !.loop = [pc |-> "wait"]])

(* The context is cancelled, and Start calls Stop. *)
ContextDone ==
    q.start = "serving" /\ Memo([q EXCEPT !.start = "stopping"])

StartReturns ==
    /\ q.start = "stopping" /\ q.stop = "done"
    /\ Memo([q EXCEPT !.start = "returned"])

-----------------------------------------------------------------------------
(* Stop.  Whoever calls it second waits for the first call. *)

CallStop ==
    /\ q.stop = "no"
    /\ \/ q.start \in {"serving", "stopping"}
       \/ Up /\ Overlap
    /\ Memo([q EXCEPT !.stop = "scheduler",
                      !.overlapped = \/ @
                                     \/ q.start \notin {"serving", "stopping"}
                                     \/ q.client.pc = "dash"])

(* Seeded fault: the done channel is not closed. *)
HaltWithoutClose(part, wait, next) ==
    Memo(IF part \in q.built THEN [q EXCEPT !.stop = wait]
                             ELSE [q EXCEPT !.stop = next])

(* Closes the done channel of a part that is not nil and waits for it, or  *)
(* goes on to the next part.                                               *)
Halt(part, wait, next) ==
    Memo(IF part \in q.built
         THEN [q EXCEPT !.stop = wait, !.halted = @ \cup {part}]
         ELSE [q EXCEPT !.stop = next])

StopScheduler == q.stop = "scheduler" /\ Halt("scheduler", "wait", "pool")

SchedulerStopped ==
    q.stop = "wait" /\ q.loop = Off /\ Memo([q EXCEPT !.stop = "pool"])

(* Seeded fault: the pool is told to stop but not waited for. *)
StopPoolNoWait == q.stop = "pool" /\ Halt("pool", "dash", "dash")

StopPool == q.stop = "pool" /\ Halt("pool", "drain", "dash")

(* The pool's goroutines are finished, or the deadline passes. *)
PoolStopped ==
    /\ q.stop = "drain"
    /\ q.pool = "off" \/ ShutdownTimeout
    /\ Memo([q EXCEPT !.stop = "dash"])

(* Seeded fault: the server is closed but its requests are not waited for. *)
StopDashNoWait ==
    /\ q.stop = "dash"
    /\ Memo(IF q.stopDash
            THEN [q EXCEPT !.stop = "close", !.dash = "shut"]
            ELSE [q EXCEPT !.stop = "close"])

(* stopDash, if it is set, is the server's Shutdown: no new requests, and  *)
(* those in flight are waited for until the deadline passes.               *)
StopDash ==
    /\ q.stop = "dash"
    /\ Memo(IF q.stopDash
            THEN [q EXCEPT !.stop = "shut", !.dash = "shut"]
            ELSE [q EXCEPT !.stop = "close"])

DashStopped ==
    /\ q.stop = "shut"
    /\ ~q.request \/ ShutdownTimeout
    /\ Memo([q EXCEPT !.stop = "close"])

CloseStorage ==
    /\ q.stop = "close"
    /\ Memo([q EXCEPT !.stop = "done", !.open = storage = "memory"])

(* The last goroutine of the pool ends. *)
PoolEnds ==
    /\ q.pool = "on" /\ "pool" \in q.halted
    /\ Memo([q EXCEPT !.pool = "off"])

-----------------------------------------------------------------------------
(* The scheduler's goroutine. *)

LoopExit ==
    /\ q.loop.pc = "wait" /\ "scheduler" \in q.halted
    /\ Memo([q EXCEPT !.loop = Off])

(* A tick that finds something due.  The select may choose it although     *)
(* done is closed.  A tick whose query fails changes nothing.              *)
FireQuery ==
    /\ q.loop.pc = "wait" /\ q.open
    /\ DueCrons # {}
    /\ Memo([q EXCEPT !.loop = [pc |-> "fire", due |-> DueCrons]])

FireEnd ==
    /\ q.loop.pc = "fire" /\ q.loop.due = {}
    /\ Memo([q EXCEPT !.loop = [pc |-> "wait"]])

(* Seeded fault: an unknown entry ends the round. *)
FireSkipAll(n) ==
    /\ q.loop.pc = "fire" /\ n \in q.loop.due
    /\ q.entries[n] = 0
    /\ Memo([q EXCEPT !.loop.due = {}])

(* An entry that this process has not registered is passed over. *)
FireSkip(n) ==
    /\ q.loop.pc = "fire" /\ n \in q.loop.due
    /\ q.entries[n] = 0
    /\ Memo([q EXCEPT !.loop.due = @ \ {n}])

(* Seeded faults: unknown entries fire too; the row is not updated. *)
FireLookupUnknown(n) ==
    /\ q.loop.pc = "fire" /\ n \in q.loop.due
    /\ Memo([q EXCEPT !.loop = [pc |-> "update", due |-> q.loop.due \ {n},
                                name |-> n, at |-> now,
                                next |-> now + q.entries[n]]])

FireLookupNoUpdate(n) ==
    /\ q.loop.pc = "fire" /\ n \in q.loop.due
    /\ q.entries[n] # 0
    /\ Memo([q EXCEPT !.loop = [pc |-> "enqueue", due |-> q.loop.due \ {n},
                                name |-> n]])

FireLookup(n) ==
    /\ q.loop.pc = "fire" /\ n \in q.loop.due
    /\ q.entries[n] # 0
    /\ Memo([q EXCEPT !.loop = [pc |-> "update", due |-> q.loop.due \ {n},
                                name |-> n, at |-> now,
                                next |-> now + q.entries[n]]])

(* Seeded fault: the loop goes on to the next entry when UpdateCronRun     *)
(* works, and enqueues when it fails.                                      *)
FireUpdateInverted ==
    LET l == q.loop IN
    /\ l.pc = "update"
    /\ \/ /\ CallWorks
          /\ crons' = UpdateCronRun(l.name, l.at, l.next)
          /\ stamps' = [stamps EXCEPT ![l.name] = @ + 1]
          /\ q' = [q EXCEPT !.loop = [pc |-> "fire", due |-> l.due]]
       \/ /\ CallFails
          /\ q' = [q EXCEPT !.loop =
                      [pc |-> "enqueue", due |-> l.due, name |-> l.name]]
          /\ UNCHANGED <<crons, stamps>>
    /\ UNCHANGED <<storage, now, lives, enqueued>>

FireUpdate ==
    LET l == q.loop IN
    /\ l.pc = "update"
    /\ \/ /\ CallWorks
          /\ crons' = UpdateCronRun(l.name, l.at, l.next)
          /\ stamps' = [stamps EXCEPT ![l.name] = @ + 1]
          /\ q' = [q EXCEPT !.loop =
                      [pc |-> "enqueue", due |-> l.due, name |-> l.name]]
       \/ /\ CallFails
          /\ q' = [q EXCEPT !.loop = [pc |-> "fire", due |-> l.due]]
          /\ UNCHANGED <<crons, stamps>>
    /\ UNCHANGED <<storage, now, lives, enqueued>>

(* enqueueRaw; an error is only logged. *)
FireEnqueue ==
    LET l == q.loop IN
    /\ l.pc = "enqueue"
    /\ \/ CallWorks /\ enqueued' = [enqueued EXCEPT ![l.name] = @ + 1]
       \/ CallFails /\ UNCHANGED enqueued
    /\ q' = [q EXCEPT !.loop = [pc |-> "fire", due |-> l.due]]
    /\ UNCHANGED <<storage, crons, now, lives, stamps>>

-----------------------------------------------------------------------------
(* The process ends: after Start has returned, or by a crash.  Only a file *)
(* outlives it.                                                            *)
Gone ==
    /\ q' = [NewQueue EXCEPT !.start = "down", !.open = FALSE]
    /\ crons' = IF storage = "sqlite" THEN crons ELSE [n \in Name |-> NoRow]
    /\ UNCHANGED <<storage, now, lives, faults, stamps, enqueued>>

(* Another process follows this one; MaxLives bounds how many. *)
Again == lives < MaxLives

Exit == q.start \in {"returned", "failed"} /\ Gone
Crash == Up /\ Again /\ Gone

Boot ==
    /\ q.start = "down" /\ Again
    /\ q' = NewQueue
    /\ lives' = lives + 1
    /\ UNCHANGED <<storage, crons, now, faults, stamps, enqueued>>

ClockTick ==
    /\ now < MaxTime
    /\ now' = now + 1
    /\ UNCHANGED <<storage, crons, lives, faults, q, stamps, enqueued>>

-----------------------------------------------------------------------------
Program ==
    \/ \E n \in Name, every \in Interval \cup {0} : Register(n, every)
    \/ Dashboard \/ Request

(* What the program or a request has begun. *)
Begun ==
    \/ AddHandler \/ BufferCron \/ SetEntry \/ StoreEntry
    \/ SetStopDash \/ RequestEnds

Starting ==
    \/ Begin \/ BuildPool \/ BuildScheduler
    \/ \E n \in Name : RegisterBuffered(n)
    \/ StartPool \/ StartLoop \/ StartReturns

Stopping ==
    \/ StopScheduler \/ SchedulerStopped
    \/ StopPool \/ PoolStopped \/ StopDash \/ DashStopped \/ CloseStorage

Firing ==
    \/ FireQuery \/ FireEnd
    \/ \E n \in Name : FireSkip(n) \/ FireLookup(n)
    \/ FireUpdate \/ FireEnqueue

LifecycleNext ==
    \/ Program \/ Begun \/ Starting \/ ContextDone
    \/ CallStop \/ Stopping \/ PoolEnds
    \/ Firing \/ LoopExit
    \/ Exit \/ Crash \/ Boot \/ ClockTick

LifecycleSpec == LifecycleInit /\ [][LifecycleNext]_lifeVars

=============================================================================
