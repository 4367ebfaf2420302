# gjobs in TLA+

A model of [gjobs](../src/README.md), a Go job queue on SQLite: its two
storages with their deduplication, the worker pool, the retry policy and the
options, the life cycle of a queue, its cron scheduler and its dashboard. TLC
checks the modules on small instances, TLAPS proves the safety properties for
every value of the constants.

## 1. The system

| component | code | state | operations |
|---|---|---|---|
| SQLite storage | `sqlite.go`, `storage.go` | tables `jobs` and `cron_jobs`; one connection (`SetMaxOpenConns(1)`) | `Enqueue`, `EnqueueDedup`, `Claim`, `MarkDone`, `MarkFailed`, `MarkPending`, `RecoverStuck`, `RetryJob`, `UpsertCron`, `DueCrons`, `UpdateCronRun` |
| deduplication | `EnqueueDedup` | the column `dedup_key`, its TTL window, a partial unique index on active rows | insert, replace, skip because running, skip as duplicate |
| worker pool | `worker.go` | the semaphore, the `cancels` map, the wait group, the copies of rows that `Claim` returned | `poll`, `dispatch` (a goroutine per job), `CancelAll`, `stop`, `wait` |
| retry policy | `worker.go`, `job.go`, `options.go` | none | `isRetryable`, `calcBackoff` |
| queue life cycle | `queue.go` | `handlers`, `pendingCrons`, `started`, `pool`, `scheduler`, `stopOnce` | `Register`, `Schedule`, `Start`, `Stop`, `Enqueue` |
| cron scheduler | `cron.go` | `entries` in memory, `cron_jobs` on disk | `register`, the loop, `fire` |
| memory storage | `memory.go` | jobs and cron entries as maps under a mutex; lost with the process | as SQLite, each method atomic |
| dashboard | `dashboard.go` | `stopDash` and the server | the index page with filter, paging and statistics, the retry button (`RetryJob`), start and shutdown of the server |
| options | `options.go`, `job.go` | none | options of `New` and of `Enqueue`, the `With*` chain of a `JobDef` |
| mock, examples | `testutil/`, `examples/` | | not part of the queue |

Clients call `Enqueue`, which goes straight to the storage. The poll loop counts
the free slots of the semaphore, claims that many rows with one
`UPDATE ... RETURNING`, and `dispatch` starts a goroutine for each. A goroutine
decides on its *copy* of the row what to do with the outcome of the handler and
then writes to the row by id, without checking that the row still is what it
was. `Start` makes every `running` row `pending` again (`RecoverStuck`), builds
pool and scheduler and starts them; `Stop` halts the scheduler, then the pool,
for which it may wait only until a deadline, and closes the storage. The
scheduler's loop selects due entries, writes the new `last_run`/`next_run` of
one and only then enqueues its job.

What makes this hard:

* two components share the table and nothing else, so "a job runs once at a
  time" rests on the order of their statements;
* `markCompleted` is a SELECT and an UPDATE that are not in a transaction;
* memory and table disagree after a crash, an aborted `Claim`, a `Stop` that
  gave up waiting;
* the deferred clean-up of a goroutine runs after its row was given back;
* `Stop`, `Register`, `Schedule` and `Dashboard` may run at any moment of
  `Start`;
* the error of a bookkeeping call, of `RecoverStuck` or of a cron write is only
  logged: everything else must go on as if nothing had happened;
* the error channel is bounded and may have no reader;
* programs are tested on `MemoryStorage` and run on SQLite, so the two must
  decide alike although they share no code;
* delays are computed in `float64` and converted to a 64-bit `Duration`.

Correct means: one row per key and a key that is locked as documented; a job in
at most one goroutine; every bookkeeping call hits the running row it is meant
for; nothing stays `running` without somebody working on it, but for the rows of
calls that failed; completed jobs stay completed; executions are bounded by
`MaxAttempts`; jobs settle, `Stop` and `Start` return; cron entries fire once
per interval and are not lost; both storages decide alike and hold the same
jobs.

## 2. The modules

| module | what it is | code |
|---|---|---|
| `JobTable` | rows and the pure functions on them: purge, blocking row, due rows, the unique index | `sqlite.go` |
| `SqliteStore` | one action per storage operation, no next-state relation | `sqlite.go` |
| `AnyCaller` | `SqliteStore` under callers that invoke anything with any id at any time, but enqueue jobs with a key by `EnqueueDedup` | `storage.go`, `queue.go` |
| `MemoryStore` | the maps of `MemoryStorage` as functions on a partial map | `memory.go` |
| `StorageMirror` | both storages under the same calls | `memory.go`, `sqlite.go` |
| `JobOptions` | functional options and job definitions | `options.go`, `job.go`, `queue.go` |
| `Backoff` | `isRetryable`, `calcBackoff` | `worker.go` |
| `RetrySchedule` | the attempts and delays of one job that always fails, from the options it was enqueued with | `worker.go`, `options.go` |
| `WorkerPool` | `SqliteStore` and `Backoff` composed with the poll loop, the goroutines, `CancelAll`, the error channel, clients, the retry button, and one process after another | `worker.go`, `queue.go` |
| `PoolProperties` | what the pool promises; fairness | |
| `DedupLock` | abstract specification: a key is a lock | |
| `PoolLock` | the refinement mapping from `WorkerPool` to `DedupLock` | |
| `Lifecycle` | `Register`, `Schedule`, `Start`, `Stop`, the cron loop, the dashboard's server, statement by statement | `queue.go`, `cron.go`, `dashboard.go` |
| `LifecycleProperties` | what life cycle and scheduler promise; fairness | |
| `SqliteStoreProofs` | lemmas: what each storage operation keeps | |
| `StorageMirrorProofs` | theorems about the storage under any callers and about `MemoryStorage` beside it | |
| `WorkerPoolProofs` | theorems: types, slots and cancel functions of the pool | |
| `PoolExclusionProofs` | theorems: who has a job | |
| `PoolOutcomeProofs` | theorems: what becomes of a job | |
| `PoolLockProofs` | theorem: the refinement of `DedupLock` | |
| `LifecycleProofs` | theorems about `Lifecycle` | |
| `RetryScheduleProofs` | theorems about option lists, powers of two and `RetrySchedule` | |
| `MC*` | instances for TLC | |

How state and actions correspond to the code:

* **The table** is a total function from job ids to rows. An id nobody used is
  `absent`, a deleted row is `deleted` for ever, since `uuid.New` does not
  repeat ids. A statement is one action, and so is the transaction of
  `EnqueueDedup`, because the pool of connections has one. `markCompleted` is
  `MarkCompletedSelect` and `MarkCompletedUpdate`; what the first has read is in
  `reads`. `Write` refuses a table that breaks the unique index and remembers
  that in `refused`.
* **A worker** is a slot of the semaphore. `task[w]` is the goroutine in it:
  `start` (looks up the handler), `handler`, `done`/`dead`/`retry` (about to
  call `MarkDone`, `MarkFailed(nil)`, `MarkFailed(retryAt)`), `update` (between
  the two statements of `markCompleted`), `exit` (deferred functions). Panics
  and errors of the handler are one action, as they are one branch in the code.
* **The poll loop** is three steps: count the free slots, `Claim`, dispatch one
  job after another. `ClaimAborted` is a `Claim` whose context `Stop` cancels:
  the UPDATE may have taken effect or not, and its rows are dropped.
* **Errors.** `emit` puts an event in a channel of `ErrorCap`, or drops it;
  `events` counts what is in it and `ReadEvent` is the program's reader, who may
  never come. A storage call of a goroutine (`BookkeepingFails`), a `Claim`
  (`ClaimFails`) and `RecoverStuck` (`StartUnrecovered`) may fail on the open
  database, `MaxFaults` times altogether, without effect and without anything
  but a log line; `lost` remembers the jobs whose row that left in `running`.
  An error of a database that `Stop` has closed is no such fault, it is certain.
* **A process** is `ready` after `New`, `up` after `Start`, `stopping` in
  `Stop`, `closed` after it, `down` when it ended. Abandoned goroutines go on
  while it is `closed`, and their calls fail, because the database is closed.
  A crash may come at any time and empties the memory; `Boot` is the next
  process. In `WorkerPool` `Start` is one step; `Lifecycle` takes it apart and
  has the pool only as on or off.
* **`Lifecycle`** keeps the memory of the process in one record `q`. `q.start`
  and `q.stop` are the program counters of `Start` and `Stop`, `q.client` of a
  goroutine in `Register`, `Schedule` or `Dashboard`, `q.loop` of the scheduler.
  `q.dash` is the dashboard's server, `q.stopDash` the function through which
  `Stop` finds it, `q.request` a request that it is serving. `storage` is the
  storage the queue was given: a map is gone when the process ends, its calls
  do not fail, and its `Close` does nothing, so that a scheduler that `Stop`
  left behind goes on writing to it. `q.overlapped` remembers that a call of the
  program ran beside `Start` or `Stop`, `q.late` the names whose `Register` or
  `Schedule` was in progress when `Start` made its copy or came after that and
  before `started` was set.
* **One rule of the queue.** `Enqueue` of the storage inserts a row with a key
  as it is (`sqlite.go:124`). The unique index refuses it if the key is active,
  and beside a completed row it makes a second row of the key, on which a later
  `RetryJob` fails. `enqueueRaw` sends every job with a key to `EnqueueDedup`
  instead (`queue.go:163`). The action `Enqueue` has no such guard; its callers,
  `AnyEnqueue` and `ClientEnqueue`, keep the rule, and what is claimed of keys
  (`OneRowPerKey`, `NeverRefused`, `LockHonoured`) is claimed for such callers.
* **Two storages.** `StorageMirror` makes every call on the table and on the
  map. Two kinds of calls are known to have different effects, and from the
  first of them on the map is not followed any more (`followed`, `Unfollowed`):
  a call that overlaps the two statements of `markCompleted`, which is atomic
  in the map, and an `EnqueueDedup` in the last part of a TTL window that exists
  only in the table (`InGap`), because SQLite rounds a TTL up to whole seconds
  and the map does not. The table goes on under all calls. The replies differ
  as well: where an UPDATE of SQLite matches no row it returns nil, and
  `MemoryStorage` an error (`Reply`, `RetryReply`). `StoragesAgree` says that
  this is all: same outcome of every `EnqueueDedup` and `Claim`, same rows up to
  the rounding, an error exactly where no row matches.
* **Options** are assignments applied in order; the requests of `storages` and
  the policies of `schedule` are made by applying them.
* **Conversions.** A TTL is stored in whole seconds, rounded up
  (`WholeSeconds`). A delay is a `Duration`, bounded by `MaxDuration`; a product
  that does not fit becomes the smallest or the largest one, as on amd64 and
  arm64 (Go leaves it to the implementation). `math.Pow(2, n)` is the recursive
  function `Power2`, which a proof can unfold where the built-in `^` has no
  properties. Delays below zero are allowed everywhere, since no option
  rejects them.

Left out: payloads, error texts, `created_at` (nothing reads it), `updated_at`
(it orders the dashboard's list and decides nothing else), parsing of schedules,
logging, the dashboard's pages.

Operators whose comment says *Seeded fault* are variants of the definition
below them with a plausible mistake in it. Nothing uses them; substituting one
for its definition breaks the property that `PROJECT.json` names under
`mutants`, which shows that the property depends on the code.

## 3. The runs

| run | configuration | shows |
|---|---|---|
| `storages` | `MCStorageMirror.cfg` | the storage keeps one row per key, never deletes a running row, honours TTL windows and never fails on its index, whoever calls it, as long as jobs with a key come by `EnqueueDedup`; `MemoryStorage` makes the same decisions and keeps the same rows, but for the rounding of TTLs and for overlapping completions, and its replies differ by errors only where SQLite matches no row |
| `schedule` | `MCRetrySchedule.cfg` | dead letter after exactly `MaxAttempts` attempts; delays double up to the cap as long as they fit |
| `overflow` | `MCRetrySchedule_overflow.cfg` | **violation**: the documented delay does not survive the overflow |
| `jobs` | `MCWorkerPool_jobs.cfg` | exclusive execution, owned rows running, fresh copies, no stuck rows but those of failed calls, a free slot for every claimed job, live cancel functions, bounded executions, final is final, completed jobs stay so |
| `lock` | `MCWorkerPool_lock.cfg` | the queue implements `DedupLock` |
| `live` | `MCWorkerPool_live.cfg` | every job settles or was left behind by a failed call, and `Stop` returns, whether or not anybody reads the error channel |
| `cancel` | `MCWorkerPool_cancel.cfg` | **violation**: `CancelAll` misses a running handler |
| `covered` | `MCWorkerPool_covered.cfg` | **violation**: a Replace request is lost with the running job that should cover it |
| `cron` | `MCLifecycle_cron.cfg` | with calls that overlap `Start` and `Stop`: entries of others untouched, no handler or schedule is missing but those whose own call ran beside `Start`; where nothing overlapped, `Stop` leaves nothing running and runs are an interval apart |
| `cron_live` | `MCLifecycle_live.cfg` | with a dashboard and failing storage calls: a recorded run is enqueued once; one may be lost per process that ended and per failure, and none by a process that runs on; `Stop` leaves no dashboard serving; due entries fire; `Start` returns |
| `missed` | `MCLifecycle_missed.cfg` | **violation**: a run missed while no process was up is skipped |
| `early_stop` | `MCLifecycle_early_stop.cfg` | **violation**: a `Stop` before `Start` is through leaves the pool running |

### Bounds

* `storages`: three jobs, so that a key can see a holder, its successor and a
  third request; one key, used in Ignore mode with a TTL and in Replace mode
  without, and jobs without a key; a second has two ticks and the TTL is one, so
  that it is rounded and the windows of the two storages differ; a clock on
  which both lapse; one failure per row, since `attempts` decides nothing in the
  storage. One caller inside `markCompleted` is enough for another caller's
  operation to come between its two statements, because all other operations
  are open to everybody.
* `jobs`: two jobs of which one type has no handler, two workers, so that two
  goroutines can meet on a job; two attempts, two processes (a crash or a
  shutdown with or without abandoned workers, then recovery), one retry by
  hand, one failed storage call, room for one event in the error channel, so
  that the second is dropped. `MaxTime` 3 lets each job become due again after
  each of its attempts.
* `lock`: two jobs on two keys and both modes; TTL windows open and lapse;
  a restart and a retry by hand. The theorem has no bounds.
* `live`: no symmetry, one worker (progress must not need a second one), and a
  clock that outlasts every retry; one failed storage call, at any place; a
  channel that is full after one event and may never be read.
* `cron`: one entry, two intervals, so that a restart can change the interval;
  two processes; `Overlap` allows every interleaving of the program with
  `Start`; both storages. Dashboard and failing calls are off here: they would
  only multiply the states, and `cron_live` has them, with one fault, one
  dashboard, and two entries, so that one may belong to another program.
  `MaxTime` is 3 in both: an entry with interval 1 is stored at 1 and runs at 2
  and at 3, so one process can record two runs, and a run of the first process
  can be followed by one of the second.
* `schedule`: a `Duration` of 7 value bits instead of 63 and nine attempts, so
  that the product overflows within the run; attempts given at no, one or two
  levels, delays that are zero, negative, above the cap or close to the largest.

Deadlock is not checked: the system may stop, when every job is completed, the
last process ended, or a bound is reached. Liveness says instead what must
happen.

### Fairness

Weak fairness on every step of a goroutine (the Go scheduler runs what can run),
on the ticker and on the clock, on `Start`, `Boot` and `Exit` (a process that
died is started again; needed for "settles in the end", an assumption on the
deployment), and on the return of handlers (an assumption on the program).
`LoopExit` has strong fairness: the `select` of the loop chooses at random
between the closed channel and a tick, so it does not choose the tick for ever.
A request of the dashboard is answered (`net/http` runs its handler, which only
reads). Clients, `CancelAll`, the reader of the error channel, shutdowns,
deadlines, crashes and failing calls are under no obligation; the number of
failures is bounded, since a storage that always fails lets nothing happen.

## 4. What is proved

Assumptions: those of the modules (`KeyAssumption`, `SecondAssumption`,
`JobIdAssumption`, `PoolAssumption`, `LifecycleAssumption`, ...). They say no
more than that the constants have the types their comments name and that sets of
ids and callers are finite; `OptionAssumption`, that an option list is a sequence
whose attempts are integers and whose delays are `Duration`s. The number of jobs, keys, requests, workers,
processes and failing calls, the TTLs, the retry policies and the schedules are
arbitrary.

* `StoreTypeCorrect`, `StoreOneRowPerKey`, `StoreNeverRefused`. The inductive
  invariant is `StoreInv` = types + `OneRowPerKey` + `~refused`. The unique
  index alone is *not* inductive: it covers active rows only, and `RetryJob`
  and `MarkPending` make a completed row active without looking at its key.
  That they never collide follows from the stronger fact that a key has at most
  one row of any status, which `EnqueueDedup` maintains because its purge and
  its insert look at all of them. `SqliteStoreProofs` has one lemma per
  operation, which both compositions cite.
  All this holds for callers that keep the rule of section 2; `EnqueueInv`, the
  lemma about the plain `Enqueue`, has it as an assumption.
* `StoreRunningNeverDeleted`, `StoreLockHonoured`: action properties from the
  same invariant; only `EnqueueDedup` deletes, and `EnqueueDeletes` says what:
  a row that is over (`Over`), or one that the job of a Replace request takes
  the place of in the same statement (`ReplacedBy`).
* `MirrorStoragesAgree`, `MemoryOneEntryPerKey`. `StoragesAgree` is not
  inductive: the two storages must also agree on what the *next* call reads.
  `MirrorInv` adds, as long as the map is followed, that it holds exactly the
  stored rows, with their TTLs and the ends of their windows rounded
  (`SameRows`), that what a caller inside `markCompleted` has read is still in
  its row (`ReadIsCurrent`; the map does in one step what the table does in
  two), and that a row without a TTL has no window (`NoWindowWithoutTTL`; the
  one storage tests the TTL where the other tests the window). There is one
  lemma per operation (`Both...Agree`) over the pure functions that both sides
  are made of; `BothDedup` compares the four outcomes of `EnqueueDedup`,
  `SameClaim` the choice of the due jobs.
* `MirrorImplementsStore`: every step of the mirror is a step of `AnyCaller` or
  a stutter, so the theorems about the storage hold of the mirror as well.
* `ApplyLeavesLast`: whatever list of options is applied, each field ends with
  the last value given to it. The library's fold is a recursive function on sets
  of positions; `LastOptionWins` shows that the closed form `Left` solves its
  equation, an induction that nothing else does. `LatestOfConcat` then says that
  two lists applied together are the second applied after the first, which is
  how `Enqueue` lets a caller's attempts win over those of the `JobDef`.
* `ScheduleTypeCorrect`, `ScheduleDeadAfterLimit`, `ScheduleDelayAsDocumented`,
  `ScheduleGrowsThenStays`, from `ScheduleInv`: the limit of the job is what its
  options ask for (`Made`), the job is below its limit until it is dead and at
  it when it is (`Counted`), and its delay is the documented one as long as
  `base * 2^(n-1)` fits (`Documented`). `ScheduleDelayAsDocumented` is the other
  half of the run `overflow`: that a product does not fit is the *only* way a
  delay can depart from the formula in `worker.go`'s and `options.go`'s
  comments. `Power2Doubles` gives the powers of two their equation.
  The inductions over positions and exponents are over *sets* of numbers: a set
  of naturals with 0 and all successors is `Nat` (`NatSetInduction`), because
  the order of the naturals is well-founded.
* `PoolTypeCorrect`: types of the worker pool, together with `StoreInv` (so the
  queue as a whole keeps one row per key) and the fact that only jobs with a
  registered handler are in their handler, without which the backoff policy of
  a type would be looked up outside its domain.
* `PoolExclusiveExecution`, `PoolOwnedRowsRunning`, `PoolFreshCopy`,
  `PoolNoStuckRunning` (`PoolExclusionProofs`). None of them is inductive by
  itself. A row is claimed only while pending, so nobody has it yet *because*
  every row somebody has is running; such a row stays running *because* all
  writes by id come from the one goroutine that has it, and `EnqueueDedup`,
  `RetryJob` and the clock leave running rows alone (`RunningKept`). `PoolInv`
  conjoins them with four facts: the slice of `poll` agrees with the table like
  the copies of the goroutines (`FreshBatch`), it is empty unless `poll` is
  dispatching (`BatchOfPoll`), what a goroutine has read in `markCompleted` is
  about its own job (`ReadsMatch`), and a process that has not started has no
  work in memory (`Quiet`), without which the `RecoverStuck` of `Start` would
  pull rows from under goroutines. The proof has a lemma per kind of step:
  steps that leave holders and running rows alone (`HoldersKept`), `Claim` and
  `Dispatch`, which hand a job over, the steps of a goroutine, which change at
  most the row it gives away (`GoroutineHolding`), and the ends of a process.

* `PoolNoStuckRunning` holds with failing calls because `lost` names their rows
  and no goroutine or batch has them any more: a row in `lost` can only be taken
  up again by the `RecoverStuck` of a later `Start`.
* `PoolCancelsLive` (`CancelsInv`): the map is keyed by job id, and a goroutine
  removes the entry of its id only in its last step. That no entry outlives its
  goroutine needs `OnlyHandledRegistered`: the early return of a job without a
  handler unregisters nothing, so nothing may be registered under its type.
* `PoolDispatchNeverBlocks` (`SlotsInv`): the limit passed to `Claim` stays at
  most the number of free slots until the jobs are dispatched, because
  goroutines only give slots back meanwhile. It is about cardinalities:
  `IdleFinite` and the library's facts on finite sets.
* `PoolCompletedStays`, `PoolFinalIsFinal`, `PoolExecutionsBounded`
  (`PoolOutcomeProofs`). One lemma, `StepEffects`, says what a step of the pool
  can do to a row (nine effects, each a change of status with its cause), to a
  goroutine and to the process; the theorems then argue about effects and not
  about actions. `FinalsInv`: a job reported as final is not pending, not
  claimed and with nobody but a goroutine on its way to `MarkFailed`.
  `BudgetInv`: the executions of a job are covered by the attempts in its row,
  plus one if it is being executed, plus one for each earlier process; a
  goroutine that gives a job back still had a retry left.
* `PoolImplementsLock` (`PoolLockProofs`): every behaviour of the queue is a
  behaviour of `DedupLock` under the mapping of `PoolLock`. The holder of a key
  is well defined because of `OneRowPerKey`; `StepEffects` gives the phase it
  moves to while it stays (`HeldKeyMoves`). A row that holds a key goes only in
  a statement that puts another row in its place (`EnqueueKeys`), and only if it
  had lapsed or the key is used in Replace mode (`HandedKeyMoves`); without the
  first half a purge whose transaction then skips the request would leave the
  key free, a step the lock does not have.
* `LifecycleTypeCorrect`, which no run checks (a type says nothing of the code),
  but on which the others rest; then `LifecycleRegisteredAreHandled`
  (`HandledInv`: a name that is not late is in no call, its handler is in the
  copy, and its schedule is in the list `Start` works through or has its entry;
  that the list is empty once `started` is set, and that no call begins after
  that, which is the panic of `Register`, makes it the property),
  `LifecycleStopWaits` (`StopInv`: what runs is reachable through
  `q.pool` and `q.scheduler`, and after each stage of `Stop` what it waited for
  is gone), `LifecycleDashboardStops` (`DashInv`: a server that serves is known
  to `Stop` once `Dashboard` has returned), `LifecycleForeignCrons`
  (`EntryInv`: whoever is about to write a row has its entry),
  `LifecycleEachRunEnqueued` (`LossInv`: a process that can still lose a run has
  not lost one yet), and `LifecycleRunsSpaced` (`AloneInv`, `QuietInv`,
  `ClockInv`, `SpacedInv`: `next_run` is an interval after the last run from the
  moment `Start` has registered an entry, and what `fire` still has in its list
  is due). The frame lemmas
  (`ProgramKeeps` to `FiringKeeps`) say once which fields of `q` each part of
  the next-state relation leaves alone.

Only model-checked: the four liveness properties (`EveryJobSettles`,
`StopReturns`, `DueCronFires`, `StartReturnsEventually`), since the prover does
not reason about fairness and `ENABLED`. Every invariant and every action
property of the passing runs is the statement of a theorem, and so is the
refinement of `DedupLock`.

## 5. Where documents and code differ

Five runs end in a counterexample that `PROJECT.json` quotes with the line it
contradicts: `overflow`, `cancel`, `covered`, `missed`, `early_stop`. Smaller
differences that the properties take as the code has them:

* executions that a crash cut off are not counted as attempts (`job.go:94`), so
  `ExecutionsBounded` allows one more for each process that died;
* the event with `Final` set leaves before `MarkFailed` (`worker.go:185`), so
  after a crash in between the next process executes the job again;
  `FinalIsFinal` speaks of one process;
* jobs of workers abandoned by the shutdown deadline stay `running` in the
  table until the next `Start` (`options.go:102`);
* `Register` panics after `Start` (`queue.go:64`), but one that overlaps `Start`
  may neither panic nor have an effect; `RegisteredAreHandled` says that it is
  the only one to suffer, other names are handled and scheduled all the same;
* "sub-second values round up to 1s" (`options.go:222`) is true of SQLite; a
  `MemoryStorage` opens and closes the window to the nanosecond
  (`memory.go:149`, `memory.go:173`). `InGap` is this difference;
* `MarkDone`, `MarkFailed`, `MarkPending` and `RetryJob` of an id that is not
  stored, and `RetryJob` of a job that has not failed, return an error from
  `MemoryStorage` and nil from SQLite. `StoragesAgree` has exactly this.

## 6. What is not modelled

* Two processes on one file at the same time, on the pool's level. The storage's
  half is `AnyCaller`, where any operation may come at any time; the pool's
  promises do not survive, since `RecoverStuck` cannot tell its own rows from
  those of a living neighbour.
* Migration of old files (`addColumnIfMissing`): it happens before the first
  state of the models.
* The pool on `MemoryStorage`. `StoragesAgree` says that calls which do not
  overlap have the same effect; the interleavings inside `markCompleted` that
  the pool's proofs deal with do not exist there.
* A plain `Enqueue` of a job with a key (section 2), which no part of the
  program calls.
* A second `Dashboard` call, which overwrites `stopDash`.
* The index page of the dashboard. It makes two calls, `Stats` and `Jobs`,
  between which the table may change, and each page is a listing of its own.
  `MemoryStorage.Jobs` even sorts a map in random order by `updated_at`, which
  `Claim` and `RecoverStuck` set alike in several jobs, so that on a table that
  does not change a job may be on two pages or on none. Nothing documented is
  broken by that, and nothing is left to state about the pages.
* Templates, formatting and basic authentication of the dashboard; loggers, the
  database path and the poll interval; `Def.Timeout`, since a handler may return
  at any time anyway; parsing of schedules.
* The mock and the examples. One example closes the error channel after
  `Start` has returned (`examples/errors/main.go:98`), which is too early if
  the shutdown deadline has abandoned goroutines that still emit; the library
  itself never closes the channel, and the models' program does not either.

## 7. Plan

Done, in this order: storage, deduplication, worker pool, retry policy, life
cycle and cron, with the abstract lock; then the memory storage beside SQLite,
failing storage calls, the bounded error channel, the dashboard's server, the
options; then the proofs of all safety properties of the pool and
of the life cycle, and of the refinement; then those of the storage mirror, the
options and the retry schedule.

Left: two processes on one file on the pool's level, with weaker promises that
can be kept.
