--------------------------- MODULE LifecycleProofs ---------------------------
(***************************************************************************)
(* Theorems about the life cycle of a queue and its cron scheduler, for    *)
(* every set of jobs and schedules, either storage, any number of          *)
(* processes and errors, and with or without calls that overlap Start:     *)
(* first that the state is well formed, then what the life cycle promises. *)
(***************************************************************************)
EXTENDS LifecycleProperties, TLAPS

(* The types of the program's goroutine and of the scheduler's. *)

LEMMA ClientShape ==
    ASSUME q \in Memory
    PROVE  /\ q.client.pc \in {"add", "cron"} =>
                 /\ q.client.name \in Name /\ q.client.every \in Interval \cup {0}
                 /\ q.client = [pc |-> q.client.pc, name |-> q.client.name,
                                every |-> q.client.every]
           /\ q.client.pc = "upsert" =>
                 q.client.name \in Name /\ q.client.next \in Nat
  <1>1. q.client \in Client \cup {Off}
    BY DEF Memory
  <1> QED
    BY <1>1 DEF Client, Off

LEMMA LoopShape ==
    ASSUME q \in Memory
    PROVE  /\ q.loop.pc = "fire" =>
                 /\ q.loop.due \in SUBSET Name
                 /\ q.loop = [pc |-> "fire", due |-> q.loop.due]
           /\ q.loop.pc = "update" =>
                 /\ q.loop.due \in SUBSET Name /\ q.loop.name \in Name
                 /\ q.loop.at \in Nat /\ q.loop.next \in Nat
           /\ q.loop.pc = "enqueue" =>
                 q.loop.due \in SUBSET Name /\ q.loop.name \in Name
  <1>1. q.loop \in Loop \cup {Off}
    BY DEF Memory
  <1> QED
    BY <1>1 DEF Loop, Off

LEMMA Fields ==
    ASSUME q \in Memory
    PROVE  /\ q.entries \in Schedules /\ q.todo \in Schedules
           /\ q.pending \in Schedules
           /\ q.handlers \in SUBSET Name /\ q.copied \in SUBSET Name
           /\ q.built \in SUBSET Parts /\ q.halted \in SUBSET Parts
           /\ q.open \in BOOLEAN /\ q.stopDash \in BOOLEAN
           /\ q.request \in BOOLEAN /\ q.overlapped \in BOOLEAN
           /\ q.late \in SUBSET Name
  BY DEF Memory

LEMMA ScheduleType ==
    ASSUME NEW s \in Schedules, NEW n \in Name, NEW every \in Interval \cup {0}
    PROVE  /\ s[n] \in Interval \cup {0} /\ s[n] \in Nat /\ every \in Nat
           /\ [s EXCEPT ![n] = every] \in Schedules
  <1>1. Interval \cup {0} \subseteq Nat
    BY LifecycleAssumption
  <1>2. s[n] \in Interval \cup {0}
    BY DEF Schedules
  <1>3. [s EXCEPT ![n] = every] \in Schedules
    BY DEF Schedules
  <1> QED
    BY <1>1, <1>2, <1>3

LEMMA NewQueueType ==
    /\ NewQueue \in Memory
    /\ [NewQueue EXCEPT !.start = "down", !.open = FALSE] \in Memory
  <1>1. NoSchedules \in Schedules
    BY DEF NoSchedules, Schedules
  <1> QED
    BY <1>1 DEF NewQueue, Memory, Off

LEMMA ProgramType ==
    ASSUME LifecycleTypeOK, Program PROVE q' \in Memory
  <1>1. q \in Memory
    BY DEF LifecycleTypeOK
  <1>2. ASSUME NEW n \in Name, NEW every \in Interval \cup {0},
               Register(n, every)
        PROVE  q' \in Memory
    <2>1. [pc |-> "add", name |-> n, every |-> every] \in Client
      BY DEF Client
    <2> DEFINE c == [pc |-> "add", name |-> n, every |-> every]
               l == IF Underway THEN q.late \cup {n} ELSE q.late
               o == q.overlapped \/ Underway
    <2>2. o \in BOOLEAN /\ l \in SUBSET Name
      BY <1>1, Fields
    <2> HIDE DEF c, l, o
    <2>3. q' = [q EXCEPT !.client = c, !.late = l, !.overlapped = o]
      BY <1>2 DEF Register, Memo, c, l, o
    <2> QED
      BY <1>1, <2>1, <2>2, <2>3 DEF Memory, c
  <1>3. CASE Dashboard
    <2>1. [pc |-> "dash"] \in Client
      BY DEF Client
    <2> DEFINE c == [pc |-> "dash"]
               o == q.overlapped \/ q.stop # "no"
    <2>2. o \in BOOLEAN
      OBVIOUS
    <2> HIDE DEF c, o
    <2>3. q' = [q EXCEPT !.client = c, !.dash = "serving", !.overlapped = o]
      BY <1>3 DEF Dashboard, Memo, c, o
    <2> QED
      BY <1>1, <2>1, <2>2, <2>3 DEF Memory, c
  <1>4. CASE Request
    BY <1>1, <1>4 DEF Request, Memo, Memory
  <1> QED
    BY <1>2, <1>3, <1>4 DEF Program

LEMMA BegunType ==
    ASSUME LifecycleTypeOK, Begun PROVE q' \in Memory
  <1>1. q \in Memory /\ now \in Nat
    BY DEF LifecycleTypeOK
  <1>2. CASE AddHandler
    <2> DEFINE c == [q.client EXCEPT !.pc = "cron"]
    <2>1. q.client.name \in Name /\ c \in Client
      BY <1>1, <1>2, ClientShape DEF AddHandler, Client
    <2> HIDE DEF c
    <2>2. q' = [q EXCEPT !.handlers = @ \cup {q.client.name},
                         !.client = IF q.client.every = 0 THEN Off ELSE c]
      BY <1>2 DEF AddHandler, Memo, c
    <2> QED
      BY <1>1, <2>1, <2>2 DEF Memory
  <1>3. CASE BufferCron
    <2>1. q.client.name \in Name /\ q.client.every \in Interval \cup {0}
      BY <1>1, <1>3, ClientShape DEF BufferCron
    <2> DEFINE p == [q.pending EXCEPT ![q.client.name] = q.client.every]
    <2>2. p \in Schedules
      BY <1>1, <2>1, Fields, ScheduleType
    <2> HIDE DEF p
    <2>3. q' = [q EXCEPT !.pending = p, !.client = Off]
      BY <1>3 DEF BufferCron, Memo, p
    <2> QED
      BY <1>1, <2>2, <2>3 DEF Memory
  <1>4. CASE SetEntry
    <2>1. q.client.name \in Name /\ q.client.every \in Interval \cup {0}
      BY <1>1, <1>4, ClientShape DEF SetEntry
    <2> DEFINE e == [q.entries EXCEPT ![q.client.name] = q.client.every]
               c == [pc |-> "upsert", name |-> q.client.name,
                     next |-> now + q.client.every]
    <2>2. q.client.every \in Nat /\ e \in Schedules
      BY <1>1, <2>1, Fields, ScheduleType
    <2>4. c \in Client
      BY <1>1, <2>1, <2>2 DEF Client
    <2> HIDE DEF e, c
    <2>3. q' = [q EXCEPT !.entries = e, !.client = c]
      BY <1>4 DEF SetEntry, Memo, e, c
    <2> QED
      BY <1>1, <2>2, <2>3, <2>4 DEF Memory
  <1>5. CASE StoreEntry
    BY <1>1, <1>5 DEF StoreEntry, Memory
  <1>6. CASE SetStopDash
    BY <1>1, <1>6 DEF SetStopDash, Memo, Memory
  <1>7. CASE RequestEnds
    BY <1>1, <1>7 DEF RequestEnds, Memo, Memory
  <1> QED
    BY <1>2, <1>3, <1>4, <1>5, <1>6, <1>7 DEF Begun

LEMMA StartingType ==
    ASSUME LifecycleTypeOK, Starting \/ ContextDone PROVE q' \in Memory
  <1>1. q \in Memory
    BY DEF LifecycleTypeOK
  <1>2. ASSUME NEW n \in Name, RegisterBuffered(n) PROVE q' \in Memory
    <2> DEFINE e == [q.entries EXCEPT ![n] = q.todo[n]]
               d == [q.todo EXCEPT ![n] = 0]
    <2>1. e \in Schedules /\ d \in Schedules
      BY <1>1, Fields, ScheduleType
    <2> HIDE DEF e, d
    <2>2. \/ q' = [q EXCEPT !.entries = e, !.todo = d]
          \/ q' = [q EXCEPT !.entries = e, !.start = "failed"]
      BY <1>2 DEF RegisterBuffered, e, d
    <2>3. CASE q' = [q EXCEPT !.entries = e, !.todo = d]
      BY <1>1, <2>1, <2>3 DEF Memory
    <2>4. CASE q' = [q EXCEPT !.entries = e, !.start = "failed"]
      BY <1>1, <2>1, <2>4 DEF Memory
    <2> QED
      BY <2>2, <2>3, <2>4
  <1>3. CASE BuildPool
    BY <1>1, <1>3 DEF BuildPool, Memo, Memory, Parts
  <1>6. CASE BuildScheduler
    BY <1>1, <1>6 DEF BuildScheduler, Memo, Memory, Parts
  <1>4. CASE Begin
    <2> DEFINE l == {n \in Name : Registering(n)}
               o == q.overlapped \/ q.client # Off
    <2>1. o \in BOOLEAN /\ l \in SUBSET Name
      OBVIOUS
    <2> HIDE DEF l, o
    <2>2. q' = [q EXCEPT !.start = "pool", !.copied = q.handlers,
                         !.todo = q.pending, !.late = l, !.overlapped = o]
      BY <1>4 DEF Begin, Memo, l, o
    <2> QED
      BY <1>1, <2>1, <2>2 DEF Memory
  <1>7. CASE StartPool
    BY <1>1, <1>7 DEF StartPool, Memo, Memory
  <1>8. CASE StartReturns
    BY <1>1, <1>8 DEF StartReturns, Memo, Memory
  <1>9. CASE ContextDone
    BY <1>1, <1>9 DEF ContextDone, Memo, Memory
  <1>5. CASE StartLoop
    <2>1. [pc |-> "wait"] \in Loop
      BY DEF Loop
    <2> QED
      BY <1>1, <1>5, <2>1 DEF StartLoop, Memo, Memory
  <1> QED
    BY <1>2, <1>3, <1>4, <1>5, <1>6, <1>7, <1>8, <1>9 DEF Starting

LEMMA StoppingType ==
    ASSUME LifecycleTypeOK, CallStop \/ Stopping \/ PoolEnds PROVE q' \in Memory
  <1>1. q \in Memory
    BY DEF LifecycleTypeOK
  <1>2. CASE CallStop
    <2> DEFINE o == \/ q.overlapped
                    \/ q.start \notin {"serving", "stopping"}
                    \/ q.client.pc = "dash"
    <2>1. o \in BOOLEAN
      OBVIOUS
    <2> HIDE DEF o
    <2>2. q' = [q EXCEPT !.stop = "scheduler", !.overlapped = o]
      BY <1>2 DEF CallStop, Memo, o
    <2> QED
      BY <1>1, <2>1, <2>2 DEF Memory
  <1>3. ASSUME NEW stop \in {"wait", "pool", "drain", "dash", "shut", "close"},
               \/ q' = [q EXCEPT !.stop = stop]
               \/ q' = [q EXCEPT !.stop = stop, !.dash = "shut"]
               \/ \E part \in Parts :
                     q' = [q EXCEPT !.stop = stop, !.halted = @ \cup {part}]
        PROVE  q' \in Memory
    <2>1. CASE q' = [q EXCEPT !.stop = stop]
      BY <1>1, <2>1 DEF Memory
    <2>2. CASE q' = [q EXCEPT !.stop = stop, !.dash = "shut"]
      BY <1>1, <2>2 DEF Memory
    <2>3. ASSUME NEW part \in Parts,
                 q' = [q EXCEPT !.stop = stop, !.halted = @ \cup {part}]
          PROVE  q' \in Memory
      BY <1>1, <2>3 DEF Memory
    <2> QED
      BY <1>3, <2>1, <2>2, <2>3
  <1>4. CASE SchedulerStopped \/ PoolStopped \/ StopDash \/ DashStopped
    BY <1>3, <1>4 DEF SchedulerStopped, PoolStopped, StopDash, DashStopped, Memo
  <1>5. CASE StopScheduler \/ StopPool
    BY <1>3, <1>5 DEF StopScheduler, StopPool, Halt, Memo, Parts
  <1>6. CASE CloseStorage
    <2> DEFINE o == storage = "memory"
    <2>1. o \in BOOLEAN
      OBVIOUS
    <2> HIDE DEF o
    <2>2. q' = [q EXCEPT !.stop = "done", !.open = o]
      BY <1>6 DEF CloseStorage, Memo, o
    <2> QED
      BY <1>1, <2>1, <2>2 DEF Memory
  <1>7. CASE PoolEnds
    BY <1>1, <1>7 DEF PoolEnds, Memo, Memory
  <1> QED
    BY <1>2, <1>4, <1>5, <1>6, <1>7 DEF Stopping

LEMMA FiringType ==
    ASSUME LifecycleTypeOK, Firing \/ LoopExit PROVE q' \in Memory
  <1>1. q \in Memory /\ now \in Nat
    BY DEF LifecycleTypeOK
  <1>2. ASSUME NEW l \in Loop \cup {Off}, q' = [q EXCEPT !.loop = l]
        PROVE  q' \in Memory
    BY <1>1, <1>2 DEF Memory
  <1>3. ASSUME NEW due \in SUBSET Name
        PROVE  [pc |-> "fire", due |-> due] \in Loop
    BY DEF Loop
  <1>4. CASE FireQuery \/ FireEnd \/ LoopExit
    <2>1. [pc |-> "wait"] \in Loop /\ DueCrons \in SUBSET Name
      BY DEF Loop, DueCrons
    <2> QED
      BY <1>2, <1>3, <1>4, <2>1 DEF FireQuery, FireEnd, LoopExit, Memo
  <1>5. ASSUME NEW n \in Name, FireSkip(n) PROVE q' \in Memory
    <2> DEFINE l == [q.loop EXCEPT !.due = @ \ {n}]
    <2>1. l \in Loop
      BY <1>1, <1>5, LoopShape DEF FireSkip, Loop
    <2> HIDE DEF l
    <2>2. q' = [q EXCEPT !.loop = l]
      BY <1>5 DEF FireSkip, Memo, l
    <2> QED
      BY <1>2, <2>1, <2>2
  <1>6. ASSUME NEW n \in Name, FireLookup(n) PROVE q' \in Memory
    <2> DEFINE l == [pc |-> "update", due |-> q.loop.due \ {n}, name |-> n,
                     at |-> now, next |-> now + q.entries[n]]
    <2>1. q.loop.due \in SUBSET Name
      BY <1>1, <1>6, LoopShape DEF FireLookup
    <2>2. q.entries \in Schedules /\ 0 \in Interval \cup {0}
      BY <1>1, Fields
    <2>5. q.entries[n] \in Nat
      BY <2>2, ScheduleType
    <2>3. l \in Loop
      BY <1>1, <2>1, <2>5 DEF Loop
    <2> HIDE DEF l
    <2>4. q' = [q EXCEPT !.loop = l]
      BY <1>6 DEF FireLookup, Memo, l
    <2> QED
      BY <1>2, <2>3, <2>4
  <1>7. CASE FireUpdate \/ FireEnqueue
    <2>1. q.loop.due \in SUBSET Name
      BY <1>1, <1>7, LoopShape DEF FireUpdate, FireEnqueue
    <2>2. FireUpdate => [pc |-> "enqueue", due |-> q.loop.due,
                         name |-> q.loop.name] \in Loop
      BY <1>1, LoopShape DEF FireUpdate, Loop
    <2> QED
      BY <1>2, <1>3, <1>7, <2>1, <2>2 DEF FireUpdate, FireEnqueue
  <1> QED
    BY <1>4, <1>5, <1>6, <1>7 DEF Firing

LEMMA MemoryType ==
    ASSUME LifecycleTypeOK, [LifecycleNext]_lifeVars PROVE q' \in Memory
  <1>1. CASE Exit \/ Crash \/ Boot \/ ClockTick \/ UNCHANGED lifeVars
    BY <1>1, NewQueueType
    DEF Exit, Crash, Gone, Boot, ClockTick, lifeVars, LifecycleTypeOK
  <1> QED
    BY <1>1, ProgramType, BegunType, StartingType, StoppingType, FiringType
    DEF LifecycleNext

-----------------------------------------------------------------------------
(* The table and the counters. *)

LEMMA UpsertType ==
    ASSUME crons \in [Name -> CronRow], NEW n \in Name, NEW next \in Nat
    PROVE  UpsertCron(n, next) \in [Name -> CronRow]
  BY DEF UpsertCron, SqliteUpsertCron, MemoryUpsertCron, CronRow

LEMMA TableType ==
    ASSUME LifecycleTypeOK, [LifecycleNext]_lifeVars
    PROVE  LifecycleTypeOK'
  <1>1. q' \in Memory
    BY MemoryType
  <1>2. q \in Memory /\ crons \in [Name -> CronRow] /\ now \in Nat
    BY DEF LifecycleTypeOK
  <1>3. ASSUME UNCHANGED <<storage, crons, now, lives, faults, stamps, enqueued>>
        PROVE  LifecycleTypeOK'
    BY <1>1, <1>3 DEF LifecycleTypeOK
  <1>4. CASE Program \/ ContextDone \/ CallStop \/ Stopping \/ PoolEnds
             \/ LoopExit \/ UNCHANGED lifeVars
    BY <1>3, <1>4
    DEF Program, Register, Dashboard, Request, ContextDone, CallStop, Stopping,
        StopScheduler, SchedulerStopped, StopPool, PoolStopped, StopDash,
        DashStopped, CloseStorage, Halt, PoolEnds, LoopExit, Memo, lifeVars
  <1>5. CASE Begun
    <2>1. CASE StoreEntry
      <3>1. q.client.name \in Name /\ q.client.next \in Nat
        BY <1>2, <2>1, ClientShape DEF StoreEntry
      <3>2. crons' \in [Name -> CronRow] /\ faults' \in Nat
        BY <1>2, <2>1, <3>1, UpsertType
        DEF StoreEntry, CallWorks, CallFails, LifecycleTypeOK
      <3> QED
        BY <1>1, <2>1, <3>2 DEF StoreEntry, LifecycleTypeOK
    <2> QED
      BY <1>3, <1>5, <2>1
      DEF Begun, AddHandler, BufferCron, SetEntry, SetStopDash, RequestEnds, Memo
  <1>6. CASE Starting
    <2>1. ASSUME NEW n \in Name, RegisterBuffered(n) PROVE LifecycleTypeOK'
      <3>1. q.todo[n] \in Nat /\ now + q.todo[n] \in Nat
        <4>1. q.todo[n] \in Nat
          <5>1. q.todo \in Schedules /\ 0 \in Interval \cup {0}
            BY <1>2, Fields
          <5> QED
            BY <5>1, ScheduleType
        <4> QED
          BY <1>2, <4>1
      <3>2. crons' \in [Name -> CronRow] /\ faults' \in Nat
        BY <1>2, <2>1, <3>1, UpsertType
        DEF RegisterBuffered, CallWorks, CallFails, LifecycleTypeOK
      <3> QED
        BY <1>1, <2>1, <3>2 DEF RegisterBuffered, LifecycleTypeOK
    <2> QED
      BY <1>3, <1>6, <2>1
      DEF Starting, Begin, BuildPool, BuildScheduler, StartPool, StartLoop,
          StartReturns, Memo
  <1>7. CASE Firing
    <2>1. CASE FireUpdate
      <3>1. q.loop.name \in Name /\ q.loop.at \in Nat /\ q.loop.next \in Nat
        BY <1>2, <2>1, LoopShape DEF FireUpdate
      <3>2. faults' \in Nat
        BY <2>1 DEF FireUpdate, CallWorks, CallFails, LifecycleTypeOK
      <3>4. crons' \in [Name -> CronRow]
        BY <1>2, <2>1, <3>1 DEF FireUpdate, UpdateCronRun, CronRow
      <3>3. stamps' \in [Name -> Nat]
        BY <2>1, <3>1 DEF FireUpdate, LifecycleTypeOK
      <3> QED
        BY <1>1, <2>1, <3>2, <3>3, <3>4 DEF FireUpdate, LifecycleTypeOK
    <2>2. CASE FireEnqueue
      <3>1. q.loop.name \in Name
        BY <1>2, <2>2, LoopShape DEF FireEnqueue
      <3> QED
        BY <1>1, <2>2, <3>1
        DEF FireEnqueue, CallWorks, CallFails, LifecycleTypeOK
    <2> QED
      BY <1>3, <1>7, <2>1, <2>2
      DEF Firing, FireQuery, FireEnd, FireSkip, FireLookup, Memo
  <1>8. CASE Exit \/ Crash
    <2>1. NoRow \in CronRow
      BY DEF CronRow, NoRow
    <2>2. crons' \in [Name -> CronRow]
      BY <1>2, <1>8, <2>1 DEF Exit, Crash, Gone
    <2> QED
      BY <1>1, <1>8, <2>2 DEF Exit, Crash, Gone, LifecycleTypeOK
  <1>9. CASE Boot \/ ClockTick
    BY <1>1, <1>9 DEF Boot, ClockTick, LifecycleTypeOK
  <1> QED
    BY <1>4, <1>5, <1>6, <1>7, <1>8, <1>9 DEF LifecycleNext

(* The state of the queue and its scheduler is well formed (queue.go,      *)
(* cron.go).                                                               *)
THEOREM LifecycleTypeCorrect == LifecycleSpec => []LifecycleTypeOK
  <1>1. LifecycleInit => LifecycleTypeOK
    BY NewQueueType DEF LifecycleInit, LifecycleTypeOK, CronRow, NoRow
  <1> QED
    BY <1>1, TableType, PTL DEF LifecycleSpec

-----------------------------------------------------------------------------
(* What each part of the next-state relation leaves alone. *)
Field == {"open", "start", "stop", "handlers", "pending", "copied", "todo",
          "built", "halted", "client", "pool", "entries", "loop", "dash",
          "stopDash", "request", "late", "overlapped"}

Keeps(changed) == \A f \in Field \ changed : q'[f] = q[f]

LEMMA Domain == ASSUME q \in Memory PROVE DOMAIN q = Field
  BY DEF Memory, Field

LEMMA ProgramKeeps ==
    ASSUME q \in Memory, Program
    PROVE  Keeps({"client", "dash", "request", "late", "overlapped"})
  <1>1. DOMAIN q = Field
    BY Domain
  <1>2. ASSUME NEW n \in Name, NEW every \in Interval \cup {0},
               Register(n, every)
        PROVE  Keeps({"client", "late", "overlapped"})
    BY <1>1, <1>2 DEF Register, Memo, Field, Keeps
  <1>3. CASE Dashboard
    BY <1>1, <1>3 DEF Dashboard, Memo, Field, Keeps
  <1>4. CASE Request
    BY <1>1, <1>4 DEF Request, Memo, Field, Keeps
  <1> QED
    BY <1>2, <1>3, <1>4 DEF Program, Keeps

LEMMA BegunKeeps ==
    ASSUME q \in Memory, Begun
    PROVE  Keeps({"client", "handlers", "pending", "entries", "stopDash",
                  "request"})
  <1>1. DOMAIN q = Field
    BY Domain
  <1>2. CASE AddHandler
    BY <1>1, <1>2 DEF AddHandler, Memo, Field, Keeps
  <1>3. CASE BufferCron
    BY <1>1, <1>3 DEF BufferCron, Memo, Field, Keeps
  <1>4. CASE SetEntry
    BY <1>1, <1>4 DEF SetEntry, Memo, Field, Keeps
  <1>5. CASE StoreEntry
    BY <1>1, <1>5 DEF StoreEntry, Field, Keeps
  <1>6. CASE SetStopDash \/ RequestEnds
    BY <1>1, <1>6 DEF SetStopDash, RequestEnds, Memo, Field, Keeps
  <1> QED
    BY <1>2, <1>3, <1>4, <1>5, <1>6 DEF Begun

LEMMA StartingKeeps ==
    ASSUME q \in Memory, Starting \/ ContextDone
    PROVE  Keeps({"start", "copied", "todo", "late", "overlapped", "built",
                  "entries", "pool", "loop"})
  <1>1. DOMAIN q = Field
    BY Domain
  <1>2. CASE Begin
    BY <1>1, <1>2 DEF Begin, Memo, Field, Keeps
  <1>3. CASE BuildPool \/ BuildScheduler
    BY <1>1, <1>3 DEF BuildPool, BuildScheduler, Memo, Field, Keeps
  <1>4. ASSUME NEW n \in Name, RegisterBuffered(n)
        PROVE  Keeps({"entries", "todo", "start"})
    BY <1>1, <1>4 DEF RegisterBuffered, Field, Keeps
  <1>5. CASE StartPool \/ StartLoop
    BY <1>1, <1>5 DEF StartPool, StartLoop, Memo, Field, Keeps
  <1>6. CASE StartReturns \/ ContextDone
    BY <1>1, <1>6 DEF StartReturns, ContextDone, Memo, Field, Keeps
  <1> QED
    BY <1>2, <1>3, <1>4, <1>5, <1>6 DEF Starting, Keeps

LEMMA StoppingKeeps ==
    ASSUME q \in Memory, CallStop \/ Stopping \/ PoolEnds
    PROVE  /\ Keeps({"stop", "overlapped", "halted", "dash", "open", "pool"})
           /\ CallStop \/ q'.overlapped = q.overlapped
  <1>1. DOMAIN q = Field
    BY Domain
  <1>2. CASE CallStop
    BY <1>1, <1>2 DEF CallStop, Memo, Field, Keeps
  <1>3. CASE StopScheduler \/ StopPool
    BY <1>1, <1>3 DEF StopScheduler, StopPool, Halt, Memo, Field, Keeps
  <1>4. CASE SchedulerStopped \/ PoolStopped \/ DashStopped \/ PoolEnds
    BY <1>1, <1>4
    DEF SchedulerStopped, PoolStopped, DashStopped, PoolEnds, Memo, Field, Keeps
  <1>5. CASE StopDash
    BY <1>1, <1>5 DEF StopDash, Memo, Field, Keeps
  <1>6. CASE CloseStorage
    BY <1>1, <1>6 DEF CloseStorage, Memo, Field, Keeps
  <1> QED
    BY <1>2, <1>3, <1>4, <1>5, <1>6 DEF Stopping, Keeps

LEMMA FiringKeeps ==
    ASSUME q \in Memory, Firing \/ LoopExit PROVE Keeps({"loop"})
  <1>1. DOMAIN q = Field
    BY Domain
  <1>2. CASE FireQuery \/ FireEnd \/ LoopExit
    BY <1>1, <1>2 DEF FireQuery, FireEnd, LoopExit, Memo, Field, Keeps
  <1>3. ASSUME NEW n \in Name, FireSkip(n) \/ FireLookup(n)
        PROVE  Keeps({"loop"})
    BY <1>1, <1>3 DEF FireSkip, FireLookup, Memo, Field, Keeps
  <1>4. CASE FireUpdate \/ FireEnqueue
    BY <1>1, <1>4 DEF FireUpdate, FireEnqueue, Field, Keeps
  <1> QED
    BY <1>2, <1>3, <1>4 DEF Firing

(* The memory of a process that is gone, or begins. *)
LEMMA FreshMemory ==
    ASSUME Exit \/ Crash \/ Boot
    PROVE  /\ q'.start = (IF Boot THEN "new" ELSE "down")
           /\ q'.stop = "no" /\ q'.handlers = {} /\ q'.built = {}
           /\ q'.client = Off /\ q'.loop = Off /\ q'.entries = NoSchedules
           /\ q'.pool = "off" /\ q'.dash = "off" /\ ~q'.request
  <1>1. CASE Boot
    BY <1>1 DEF Boot, NewQueue
  <1>2. CASE ~Boot
    BY <1>2 DEF Exit, Crash, Gone, NewQueue
  <1> QED
    BY <1>1, <1>2

(* A call that overlapped Start or Stop is not forgotten. *)
LEMMA OverlapStays ==
    ASSUME q \in Memory, [LifecycleNext]_lifeVars, ~(Exit \/ Crash \/ Boot),
           q.overlapped
    PROVE  q'.overlapped
  <1>1. DOMAIN q = Field
    BY Domain
  <1>2. ASSUME NEW n \in Name, NEW every \in Interval \cup {0},
               Register(n, every)
        PROVE  q'.overlapped
    BY <1>1, <1>2 DEF Register, Memo, Field
  <1>3. CASE Dashboard
    BY <1>1, <1>3 DEF Dashboard, Memo, Field
  <1>4. CASE Request
    BY <1>1, <1>4 DEF Request, Memo, Field
  <1>5. CASE Begun
    BY <1>5, BegunKeeps DEF Keeps, Field
  <1>6. CASE Begin
    BY <1>1, <1>6 DEF Begin, Memo, Field
  <1>7. CASE (Starting \/ ContextDone) /\ ~Begin
    BY <1>1, <1>7
    DEF Starting, ContextDone, BuildPool, BuildScheduler, RegisterBuffered,
        StartPool, StartLoop, StartReturns, Memo, Field
  <1>8. CASE CallStop
    BY <1>1, <1>8 DEF CallStop, Memo, Field
  <1>9. CASE (Stopping \/ PoolEnds) /\ ~CallStop
    BY <1>9, StoppingKeeps
  <1>10. CASE Firing \/ LoopExit
    BY <1>10, FiringKeeps DEF Keeps, Field
  <1>11. CASE ClockTick \/ UNCHANGED lifeVars
    BY <1>11 DEF ClockTick, lifeVars
  <1> QED
    BY <1>2, <1>3, <1>4, <1>5, <1>6, <1>7, <1>8, <1>9, <1>10, <1>11
    DEF LifecycleNext, Program

-----------------------------------------------------------------------------
(* Once Start has begun, only a call that overlaps it registers anything.  *)
AloneInv ==
    ~q.overlapped /\ q.start # "new" =>
        q.client.pc \notin {"add", "cron", "upsert"}

LEMMA AloneStep ==
    ASSUME LifecycleTypeOK, AloneInv, [LifecycleNext]_lifeVars
    PROVE  AloneInv'
  <1>1. q \in Memory /\ DOMAIN q = Field
    BY Domain DEF LifecycleTypeOK
  <1>2. CASE Program
    <2>1. q'.start = q.start
      BY <1>1, <1>2, ProgramKeeps DEF Keeps, Field
    <2>2. ASSUME NEW n \in Name, NEW every \in Interval \cup {0},
                 Register(n, every)
          PROVE  q'.overlapped \/ q.start = "new"
      BY <1>1, <2>2 DEF Register, Memo, Field, Memory, Up, Started, Underway
    <2>3. CASE Dashboard
      <3>1. q'.client.pc = "dash" /\ (q.overlapped => q'.overlapped)
        BY <1>1, <2>3 DEF Dashboard, Memo, Field
      <3> QED
        BY <2>1, <3>1 DEF AloneInv
    <2>4. CASE Request
      <3>1. q'.client = q.client /\ q'.overlapped = q.overlapped
        BY <1>1, <2>4 DEF Request, Memo, Field
      <3> QED
        BY <2>1, <3>1 DEF AloneInv
    <2> QED
      BY <1>2, <2>1, <2>2, <2>3, <2>4 DEF Program, AloneInv
  <1>3. CASE Begun
    <2>1. q'.start = q.start /\ q'.overlapped = q.overlapped
      BY <1>1, <1>3, BegunKeeps DEF Keeps, Field
    <2>2. CASE q.client.pc \in {"add", "cron", "upsert"}
      BY <2>1, <2>2 DEF AloneInv
    <2>3. CASE SetStopDash
      <3>1. q'.client = Off
        BY <1>1, <2>3 DEF SetStopDash, Memo, Field
      <3> QED
        BY <2>1, <3>1 DEF AloneInv, Off
    <2>4. CASE RequestEnds
      <3>1. q'.client = q.client
        BY <1>1, <2>4 DEF RequestEnds, Memo, Field
      <3> QED
        BY <2>1, <3>1 DEF AloneInv
    <2> QED
      BY <1>3, <2>2, <2>3, <2>4
      DEF Begun, AddHandler, BufferCron, SetEntry, StoreEntry
  <1>4. CASE Starting \/ ContextDone
    <2>1. q'.client = q.client
      BY <1>1, <1>4, StartingKeeps DEF Keeps, Field
    <2>2. CASE Begin
      <3>1. ~q'.overlapped => q.client = Off
        BY <1>1, <2>2 DEF Begin, Memo, Field
      <3> QED
        BY <2>1, <3>1 DEF AloneInv, Off
    <2>3. CASE ~Begin
      <3>1. q.start # "new" /\ q'.overlapped = q.overlapped
        BY <1>1, <1>4, <2>3
        DEF Starting, ContextDone, BuildPool, BuildScheduler, RegisterBuffered,
            StartPool, StartLoop, StartReturns, Memo, Field
      <3> QED
        BY <2>1, <3>1 DEF AloneInv
    <2> QED
      BY <2>2, <2>3
  <1>5. CASE CallStop \/ Stopping \/ PoolEnds
    <2>1. q'.start = q.start /\ q'.client = q.client
      BY <1>1, <1>5, StoppingKeeps DEF Keeps, Field
    <2>2. q.overlapped => q'.overlapped
      <3>1. CASE CallStop
        BY <1>1, <3>1 DEF CallStop, Memo, Field
      <3> QED
        BY <1>1, <1>5, <3>1, StoppingKeeps
    <2> QED
      BY <2>1, <2>2 DEF AloneInv
  <1>6. CASE Firing \/ LoopExit
    <2>1. /\ q'.start = q.start /\ q'.client = q.client
          /\ q'.overlapped = q.overlapped
      BY <1>1, <1>6, FiringKeeps DEF Keeps, Field
    <2> QED
      BY <2>1 DEF AloneInv
  <1>7. CASE Exit \/ Crash \/ Boot
    <2>1. q'.client = Off
      BY <1>7, FreshMemory
    <2> QED
      BY <2>1 DEF AloneInv, Off
  <1>8. CASE ClockTick \/ UNCHANGED lifeVars
    BY <1>8 DEF ClockTick, lifeVars, AloneInv
  <1> QED
    BY <1>2, <1>3, <1>4, <1>5, <1>6, <1>7, <1>8 DEF LifecycleNext

LEMMA AloneInitial == LifecycleInit => AloneInv
  BY DEF LifecycleInit, NewQueue, AloneInv

-----------------------------------------------------------------------------
(* Stop finds what Start has built, and waits for it.                      *)
StopInv ==
    /\ q.start = "scheduler" => "pool" \in q.built
    /\ q.start = "register" \/ Started => Parts \subseteq q.built
    /\ q.loop.pc # "off" => q.start \in {"serving", "stopping", "returned"}
    /\ ~q.overlapped =>
          /\ q.stop # "no" => q.start \in {"serving", "stopping", "returned"}
          /\ q.stop \notin {"no", "scheduler", "wait"} => q.loop = Off
          /\ q.stop \in {"dash", "shut", "close", "done"} =>
                ShutdownTimeout \/ q.pool = "off"

LEMMA StopStep ==
    ASSUME LifecycleTypeOK, StopInv, [LifecycleNext]_lifeVars
    PROVE  StopInv'
  <1>1. q \in Memory /\ DOMAIN q = Field
    BY Domain DEF LifecycleTypeOK
  <1>2. CASE Exit \/ Crash \/ Boot
    BY <1>2, FreshMemory DEF StopInv, Started, Off
  <1> SUFFICES ASSUME ~(Exit \/ Crash \/ Boot) PROVE StopInv'
    BY <1>2
  <1>3. q.overlapped => q'.overlapped
    BY <1>1, OverlapStays
  <1>4. CASE Program
    BY <1>1, <1>3, <1>4, ProgramKeeps DEF Keeps, Field, StopInv, Started
  <1>5. CASE Begun
    BY <1>1, <1>3, <1>5, BegunKeeps DEF Keeps, Field, StopInv, Started
  <1>6. CASE Starting \/ ContextDone
    <2>1. q'.stop = q.stop
      BY <1>1, <1>6, StartingKeeps DEF Keeps, Field
    <2>2. ASSUME q.start \in {"new", "pool", "scheduler", "register"},
                 q'.loop = q.loop,
                 \/ q'.start = "pool"
                 \/ q'.start = "scheduler" /\ "pool" \in q'.built
                 \/ q'.start \in {"register", "loop"} /\ Parts \subseteq q'.built
          PROVE  StopInv'
      BY <1>3, <2>1, <2>2 DEF StopInv, Started
    <2>6. CASE Begin
      <3>1. q.start = "new" /\ q'.start = "pool" /\ q'.loop = q.loop
        BY <1>1, <2>6 DEF Begin, Memo, Field
      <3> QED
        BY <2>2, <3>1 DEF StopInv
    <2>7. CASE BuildPool
      <3>1. /\ q.start = "pool" /\ q'.start = "scheduler"
            /\ q'.built = q.built \cup {"pool"} /\ q'.loop = q.loop
        BY <1>1, <2>7 DEF BuildPool, Memo, Field
      <3> QED
        BY <2>2, <3>1 DEF StopInv
    <2>8. CASE BuildScheduler
      <3>1. /\ q.start = "scheduler" /\ q'.start = "register"
            /\ q'.built = q.built \cup {"scheduler"} /\ q'.loop = q.loop
        BY <1>1, <2>8 DEF BuildScheduler, Memo, Field
      <3> QED
        BY <2>2, <3>1 DEF StopInv, Parts
    <2>9. CASE StartPool
      <3>1. /\ q.start = "register" /\ q'.start = "loop"
            /\ q'.built = q.built /\ q'.loop = q.loop
        BY <1>1, <2>9 DEF StartPool, Memo, Field
      <3> QED
        BY <2>2, <3>1 DEF StopInv
    <2>3. ASSUME NEW n \in Name, RegisterBuffered(n) PROVE StopInv'
      <3>1. /\ q.start = "register" /\ q'.start \in {"register", "failed"}
            /\ q'.built = q.built /\ q'.loop = q.loop
        BY <1>1, <2>3 DEF RegisterBuffered, Field
      <3> QED
        BY <1>3, <2>1, <3>1 DEF StopInv, Started
    <2>4. CASE StartLoop
      <3>1. q.start = "loop" /\ q'.start = "serving" /\ q'.built = q.built
        BY <1>1, <2>4 DEF StartLoop, Memo, Field
      <3> QED
        BY <1>3, <2>1, <3>1 DEF StopInv, Started
    <2>5. CASE StartReturns \/ ContextDone
      <3>1. /\ q.start \in {"serving", "stopping"}
            /\ q'.start \in {"stopping", "returned"}
            /\ q'.built = q.built /\ q'.loop = q.loop /\ q'.pool = q.pool
        BY <1>1, <2>5 DEF StartReturns, ContextDone, Memo, Field
      <3> QED
        BY <1>3, <2>1, <3>1 DEF StopInv, Started
    <2> QED
      BY <1>6, <2>3, <2>4, <2>5, <2>6, <2>7, <2>8, <2>9 DEF Starting
  <1>7. CASE CallStop \/ Stopping \/ PoolEnds
    <2>1. q'.start = q.start /\ q'.built = q.built /\ q'.loop = q.loop
      BY <1>1, <1>7, StoppingKeeps DEF Keeps, Field
    <2>2. CASE CallStop
      <3>1. /\ q'.stop = "scheduler"
            /\ q'.overlapped \/ q.start \in {"serving", "stopping"}
        BY <1>1, <2>2 DEF CallStop, Memo, Field
      <3> QED
        BY <1>3, <2>1, <3>1 DEF StopInv, Started
    <2>3. CASE PoolEnds
      <3>1. q'.stop = q.stop /\ q'.pool = "off"
        BY <1>1, <2>3 DEF PoolEnds, Memo, Field
      <3> QED
        BY <1>3, <2>1, <3>1 DEF StopInv, Started
    <2>4. CASE Stopping
      <3>1. q.stop # "no" /\ q'.pool = q.pool
        BY <1>1, <2>4
        DEF Stopping, StopScheduler, SchedulerStopped, StopPool, PoolStopped,
            StopDash, DashStopped, CloseStorage, Halt, Memo, Field
      <3>2. CASE StopScheduler
        <4>1. IF "scheduler" \in q.built THEN q'.stop = "wait"
                                         ELSE q'.stop = "pool"
          BY <1>1, <3>2 DEF StopScheduler, Halt, Memo, Field
        <4> QED
          BY <1>3, <2>1, <3>1, <4>1 DEF StopInv, Started, Parts
      <3>3. CASE SchedulerStopped
        <4>1. q.loop = Off /\ q'.stop = "pool"
          BY <1>1, <3>3 DEF SchedulerStopped, Memo, Field
        <4> QED
          BY <1>3, <2>1, <3>1, <4>1 DEF StopInv, Started
      <3>4. CASE StopPool
        <4>1. /\ q.stop = "pool"
              /\ IF "pool" \in q.built THEN q'.stop = "drain"
                                       ELSE q'.stop = "dash"
          BY <1>1, <3>4 DEF StopPool, Halt, Memo, Field
        <4> QED
          BY <1>3, <2>1, <3>1, <4>1 DEF StopInv, Started, Parts
      <3>5. CASE PoolStopped
        <4>1. /\ q.stop = "drain" /\ q'.stop = "dash"
              /\ ShutdownTimeout \/ q.pool = "off"
          BY <1>1, <3>5 DEF PoolStopped, Memo, Field
        <4> QED
          BY <1>3, <2>1, <3>1, <4>1 DEF StopInv, Started
      <3>6. CASE StopDash \/ DashStopped \/ CloseStorage
        <4>1. /\ q.stop \in {"dash", "shut", "close"}
              /\ q'.stop \in {"shut", "close", "done"}
          BY <1>1, <3>6 DEF StopDash, DashStopped, CloseStorage, Memo, Field
        <4> QED
          BY <1>3, <2>1, <3>1, <4>1 DEF StopInv, Started
      <3> QED
        BY <2>4, <3>2, <3>3, <3>4, <3>5, <3>6 DEF Stopping
    <2> QED
      BY <1>7, <2>2, <2>3, <2>4
  <1>8. CASE Firing \/ LoopExit
    <2>1. /\ q'.start = q.start /\ q'.built = q.built /\ q'.stop = q.stop
          /\ q'.pool = q.pool
      BY <1>1, <1>8, FiringKeeps DEF Keeps, Field
    <2>2. q.loop.pc # "off"
      BY <1>8
      DEF Firing, FireQuery, FireEnd, FireSkip, FireLookup, FireUpdate,
          FireEnqueue, LoopExit
    <2> QED
      BY <1>3, <2>1, <2>2 DEF StopInv, Started, Off
  <1>9. CASE ClockTick \/ UNCHANGED lifeVars
    BY <1>9 DEF ClockTick, lifeVars, StopInv, Started
  <1> QED
    BY <1>4, <1>5, <1>6, <1>7, <1>8, <1>9 DEF LifecycleNext

LEMMA StopInitial == LifecycleInit => StopInv
  BY DEF LifecycleInit, NewQueue, StopInv, Started, Off

(* Stop returns after the scheduler and, without a shutdown timeout, after *)
(* the pool (Queue.Stop, cronScheduler.stop, workerPool.stop).             *)
THEOREM LifecycleStopWaits == LifecycleSpec => []OrderlyStopWaits
  <1>1. StopInv => OrderlyStopWaits
    BY DEF StopInv, OrderlyStopWaits, StopWaits, Quiet
  <1> QED
    BY <1>1, StopInitial, StopStep, LifecycleTypeCorrect, PTL
    DEF LifecycleSpec

-----------------------------------------------------------------------------
(* A dashboard that serves is known to Stop, once Dashboard has returned.  *)
DashInv ==
    /\ q.dash # "off" /\ q.client.pc # "dash" => q.stopDash
    /\ q.request => q.dash # "off"
    /\ ~q.overlapped =>
          /\ q.stop # "no" => q.client.pc # "dash"
          /\ q.stop \in {"shut", "close", "done"} => q.dash # "serving"
          /\ q.stop \in {"close", "done"} /\ q.request => ShutdownTimeout

LEMMA DashStep ==
    ASSUME LifecycleTypeOK, DashInv, [LifecycleNext]_lifeVars
    PROVE  DashInv'
  <1>1. q \in Memory /\ DOMAIN q = Field
    BY Domain DEF LifecycleTypeOK
  <1>2. CASE Exit \/ Crash \/ Boot
    <2>1. q'.dash = "off" /\ ~q'.request /\ q'.stop = "no"
      BY <1>2, FreshMemory
    <2> QED
      BY <2>1 DEF DashInv
  <1> SUFFICES ASSUME ~(Exit \/ Crash \/ Boot) PROVE DashInv'
    BY <1>2
  <1>3. q.overlapped => q'.overlapped
    BY <1>1, OverlapStays
  <1>4. CASE Program
    <2>1. q'.stop = q.stop /\ q'.stopDash = q.stopDash
      BY <1>1, <1>4, ProgramKeeps DEF Keeps, Field
    <2>2. ASSUME NEW n \in Name, NEW every \in Interval \cup {0},
                 Register(n, every)
          PROVE  DashInv'
      <3>1. /\ q.client = Off /\ q'.client.pc = "add"
            /\ q'.dash = q.dash /\ q'.request = q.request
        BY <1>1, <2>2 DEF Register, Memo, Field
      <3> QED
        BY <1>3, <2>1, <3>1 DEF DashInv, Off
    <2>3. CASE Dashboard
      <3>1. /\ q.dash = "off" /\ q'.dash = "serving" /\ q'.client.pc = "dash"
            /\ q'.request = q.request
            /\ q.stop # "no" => q'.overlapped
        BY <1>1, <2>3 DEF Dashboard, Memo, Field
      <3> QED
        BY <1>3, <2>1, <3>1 DEF DashInv
    <2>4. CASE Request
      <3>1. q.dash = "serving" /\ q'.dash = q.dash /\ q'.client = q.client
        BY <1>1, <2>4 DEF Request, Memo, Field
      <3> QED
        BY <1>3, <2>1, <3>1 DEF DashInv
    <2> QED
      BY <1>4, <2>2, <2>3, <2>4 DEF Program
  <1>5. CASE Begun
    <2>1. /\ q'.stop = q.stop /\ q'.dash = q.dash
      BY <1>1, <1>5, BegunKeeps DEF Keeps, Field
    <2>2. CASE AddHandler \/ BufferCron \/ SetEntry \/ StoreEntry
      <3>1. /\ q.client.pc \in {"add", "cron", "upsert"}
            /\ q'.stopDash = q.stopDash /\ q'.request = q.request
        BY <1>1, <2>2
        DEF AddHandler, BufferCron, SetEntry, StoreEntry, Memo, Field
      <3>2. q'.client.pc \in {"off", "cron", "upsert"}
        <4>1. CASE AddHandler
          <5>1. q.client \in Client
            BY <1>1, <4>1 DEF AddHandler, Memory, Off
          <5>2. q.client.pc = "add" => "pc" \in DOMAIN q.client
            BY <5>1 DEF Client
          <5>3. \/ q'.client = Off
                \/ q'.client = [q.client EXCEPT !.pc = "cron"]
            BY <1>1, <4>1 DEF AddHandler, Memo, Field
          <5> QED
            BY <4>1, <5>2, <5>3 DEF AddHandler, Off
        <4>2. CASE BufferCron \/ StoreEntry
          <5>1. q'.client = Off
            BY <1>1, <4>2 DEF BufferCron, StoreEntry, Memo, Field
          <5> QED
            BY <5>1 DEF Off
        <4>3. CASE SetEntry
          BY <1>1, <4>3 DEF SetEntry, Memo, Field
        <4> QED
          BY <2>2, <4>1, <4>2, <4>3
      <3> QED
        BY <1>3, <2>1, <3>1, <3>2 DEF DashInv
    <2>3. CASE SetStopDash
      <3>1. q'.stopDash /\ q'.request = q.request /\ q'.client = Off
        BY <1>1, <2>3 DEF SetStopDash, Memo, Field
      <3> QED
        BY <1>3, <2>1, <3>1 DEF DashInv, Off
    <2>4. CASE RequestEnds
      <3>1. ~q'.request /\ q'.stopDash = q.stopDash /\ q'.client = q.client
        BY <1>1, <2>4 DEF RequestEnds, Memo, Field
      <3> QED
        BY <1>3, <2>1, <3>1 DEF DashInv
    <2> QED
      BY <1>5, <2>2, <2>3, <2>4 DEF Begun
  <1>6. CASE Starting \/ ContextDone
    BY <1>1, <1>3, <1>6, StartingKeeps DEF Keeps, Field, DashInv
  <1>7. CASE CallStop \/ Stopping \/ PoolEnds
    <2>1. /\ q'.client = q.client /\ q'.stopDash = q.stopDash
          /\ q'.request = q.request
      BY <1>1, <1>7, StoppingKeeps DEF Keeps, Field
    <2>2. CASE CallStop
      <3>1. /\ q'.stop = "scheduler" /\ q'.dash = q.dash
            /\ q'.overlapped \/ q.client.pc # "dash"
        BY <1>1, <2>2 DEF CallStop, Memo, Field
      <3> QED
        BY <1>3, <2>1, <3>1 DEF DashInv
    <2>3. CASE PoolEnds
      <3>1. q'.stop = q.stop /\ q'.dash = q.dash
        BY <1>1, <2>3 DEF PoolEnds, Memo, Field
      <3> QED
        BY <1>3, <2>1, <3>1 DEF DashInv
    <2>4. CASE StopScheduler \/ SchedulerStopped \/ StopPool \/ PoolStopped
      <3>1. /\ q.stop # "no" /\ q'.dash = q.dash
            /\ q'.stop \in {"wait", "pool", "drain", "dash"}
        BY <1>1, <2>4
        DEF StopScheduler, SchedulerStopped, StopPool, PoolStopped, Halt, Memo,
            Field
      <3> QED
        BY <1>3, <2>1, <3>1 DEF DashInv
    <2>5. CASE StopDash
      <3>1. /\ q.stop = "dash"
            /\ \/ q'.stop = "shut" /\ q'.dash = "shut" /\ q.stopDash
               \/ q'.stop = "close" /\ q'.dash = q.dash /\ ~q.stopDash
        BY <1>1, <2>5 DEF StopDash, Memo, Field
      <3> QED
        BY <1>3, <2>1, <3>1 DEF DashInv
    <2>6. CASE DashStopped
      <3>1. /\ q.stop = "shut" /\ q'.stop = "close" /\ q'.dash = q.dash
            /\ q.request => ShutdownTimeout
        BY <1>1, <2>6 DEF DashStopped, Memo, Field
      <3> QED
        BY <1>3, <2>1, <3>1 DEF DashInv
    <2>7. CASE CloseStorage
      <3>1. q.stop = "close" /\ q'.stop = "done" /\ q'.dash = q.dash
        BY <1>1, <2>7 DEF CloseStorage, Memo, Field
      <3> QED
        BY <1>3, <2>1, <3>1 DEF DashInv
    <2> QED
      BY <1>7, <2>2, <2>3, <2>4, <2>5, <2>6, <2>7 DEF Stopping
  <1>8. CASE Firing \/ LoopExit
    BY <1>1, <1>3, <1>8, FiringKeeps DEF Keeps, Field, DashInv
  <1>9. CASE ClockTick \/ UNCHANGED lifeVars
    BY <1>9 DEF ClockTick, lifeVars, DashInv
  <1> QED
    BY <1>4, <1>5, <1>6, <1>7, <1>8, <1>9 DEF LifecycleNext

(* Stop shuts down a dashboard that Dashboard has set up before it, and    *)
(* waits for its request (Queue.Dashboard, Queue.Stop).                    *)
THEOREM LifecycleDashboardStops == LifecycleSpec => []DashboardStops
  <1>1. LifecycleInit => DashInv
    BY DEF LifecycleInit, NewQueue, DashInv
  <1>2. DashInv => DashboardStops
    BY DEF DashInv, DashboardStops
  <1> QED
    BY <1>1, <1>2, DashStep, LifecycleTypeCorrect, PTL DEF LifecycleSpec

-----------------------------------------------------------------------------
(* Whatever writes to a row of the table has the entry in hand.            *)
EntryInv ==
    /\ q.client.pc = "cron" => q.client.every # 0
    /\ q.client.pc = "upsert" => q.entries[q.client.name] # 0
    /\ q.loop.pc = "update" => q.entries[q.loop.name] # 0

(* A process never forgets an entry. *)
LEMMA EntriesKept ==
    ASSUME LifecycleTypeOK, EntryInv, [LifecycleNext]_lifeVars,
           ~(Exit \/ Crash \/ Boot), NEW n \in Name, q.entries[n] # 0
    PROVE  q'.entries[n] # 0
  <1>1. q \in Memory /\ DOMAIN q = Field /\ q.entries \in Schedules
    BY Domain, Fields DEF LifecycleTypeOK
  <1>2. CASE SetEntry
    <2>1. /\ q.client.every # 0
          /\ q'.entries = [q.entries EXCEPT ![q.client.name] = q.client.every]
      BY <1>1, <1>2 DEF SetEntry, Memo, Field, EntryInv
    <2> QED
      BY <1>1, <2>1 DEF Schedules
  <1>3. ASSUME NEW m \in Name, RegisterBuffered(m) PROVE q'.entries[n] # 0
    <2>1. q.todo[m] # 0 /\ q'.entries = [q.entries EXCEPT ![m] = q.todo[m]]
      BY <1>1, <1>3 DEF RegisterBuffered, Field
    <2> QED
      BY <1>1, <2>1 DEF Schedules
  <1>4. CASE Program
    BY <1>1, <1>4, ProgramKeeps DEF Keeps, Field
  <1>5. CASE Begun /\ ~SetEntry
    BY <1>1, <1>5
    DEF Begun, AddHandler, BufferCron, StoreEntry, SetStopDash, RequestEnds,
        Memo, Field
  <1>6. CASE Begin \/ BuildPool \/ BuildScheduler \/ StartPool \/ StartLoop
             \/ StartReturns \/ ContextDone
    BY <1>1, <1>6
    DEF ContextDone, Begin, BuildPool, BuildScheduler, StartPool, StartLoop,
        StartReturns, Memo, Field
  <1>7. CASE CallStop \/ Stopping \/ PoolEnds
    BY <1>1, <1>7, StoppingKeeps DEF Keeps, Field
  <1>8. CASE Firing \/ LoopExit
    BY <1>1, <1>8, FiringKeeps DEF Keeps, Field
  <1>9. CASE ClockTick \/ UNCHANGED lifeVars
    BY <1>9 DEF ClockTick, lifeVars
  <1> QED
    BY <1>2, <1>3, <1>4, <1>5, <1>6, <1>7, <1>8, <1>9
    DEF LifecycleNext, Starting

(* What the steps of the program's goroutine make of it. *)
LEMMA ClientSteps ==
    ASSUME LifecycleTypeOK, Begun
    PROVE  \/ q'.client = q.client
           \/ q'.client = Off
           \/ AddHandler /\ q'.client.pc = "cron" /\ q'.client.every # 0
           \/ SetEntry /\ q'.client.pc = "upsert"
              /\ q'.client.name = q.client.name
  <1>1. q \in Memory /\ DOMAIN q = Field
    BY Domain DEF LifecycleTypeOK
  <1>2. CASE AddHandler
    <2>1. q'.client = IF q.client.every = 0 THEN Off
                      ELSE [q.client EXCEPT !.pc = "cron"]
      BY <1>1, <1>2 DEF AddHandler, Memo, Field
    <2>2. q.client = [pc |-> q.client.pc, name |-> q.client.name,
                      every |-> q.client.every]
      BY <1>1, <1>2, ClientShape DEF AddHandler
    <2>3. CASE q.client.every # 0
      <3>1. [q.client EXCEPT !.pc = "cron"].pc = "cron"
            /\ [q.client EXCEPT !.pc = "cron"].every = q.client.every
        BY <2>2
      <3> QED
        BY <1>2, <2>1, <2>3, <3>1
    <2> QED
      BY <2>1, <2>3
  <1>3. CASE BufferCron \/ StoreEntry \/ SetStopDash
    BY <1>1, <1>3 DEF BufferCron, StoreEntry, SetStopDash, Memo, Field
  <1>4. CASE SetEntry
    BY <1>1, <1>4 DEF SetEntry, Memo, Field
  <1>5. CASE RequestEnds
    BY <1>1, <1>5 DEF RequestEnds, Memo, Field
  <1> QED
    BY <1>2, <1>3, <1>4, <1>5 DEF Begun

(* What the steps of the scheduler's goroutine make of it. *)
LEMMA LoopSteps ==
    ASSUME q \in Memory, Firing \/ LoopExit
    PROVE  \/ FireQuery /\ q'.loop = [pc |-> "fire", due |-> DueCrons]
           \/ FireEnd /\ q'.loop = [pc |-> "wait"]
           \/ LoopExit /\ q'.loop = Off
           \/ q.loop.pc = "fire" /\ q'.loop.pc = "fire"
              /\ q'.loop.due \subseteq q.loop.due
              /\ UNCHANGED <<crons, now, stamps, enqueued, faults>>
           \/ \E n \in q.loop.due :
                 /\ FireLookup(n)
                 /\ q'.loop = [pc |-> "update", due |-> q.loop.due \ {n},
                               name |-> n, at |-> now,
                               next |-> now + q.entries[n]]
           \/ /\ FireUpdate /\ CallWorks
              /\ q'.loop = [pc |-> "enqueue", due |-> q.loop.due,
                            name |-> q.loop.name]
           \/ /\ FireUpdate /\ CallFails
              /\ UNCHANGED <<crons, stamps>>
              /\ q'.loop = [pc |-> "fire", due |-> q.loop.due]
           \/ FireEnqueue /\ q'.loop = [pc |-> "fire", due |-> q.loop.due]
  <1>1. DOMAIN q = Field
    BY Domain
  <1>2. CASE FireQuery \/ FireEnd \/ LoopExit
    BY <1>1, <1>2 DEF FireQuery, FireEnd, LoopExit, Memo, Field
  <1>3. ASSUME NEW n \in Name, FireSkip(n)
        PROVE  /\ q.loop.pc = "fire" /\ q'.loop.pc = "fire"
               /\ q'.loop.due \subseteq q.loop.due
               /\ UNCHANGED <<crons, now, stamps, enqueued, faults>>
    <2>1. /\ q.loop.pc = "fire" /\ q'.loop = [q.loop EXCEPT !.due = @ \ {n}]
          /\ UNCHANGED <<crons, now, stamps, enqueued, faults>>
      BY <1>1, <1>3 DEF FireSkip, Memo, Field
    <2>2. q.loop = [pc |-> "fire", due |-> q.loop.due]
      BY <2>1, LoopShape
    <2> QED
      BY <2>1, <2>2
  <1>4. ASSUME NEW n \in Name, FireLookup(n)
        PROVE  n \in q.loop.due /\
               q'.loop = [pc |-> "update", due |-> q.loop.due \ {n},
                          name |-> n, at |-> now, next |-> now + q.entries[n]]
    BY <1>1, <1>4 DEF FireLookup, Memo, Field
  <1>5. CASE FireUpdate
    BY <1>1, <1>5 DEF FireUpdate, Field
  <1>6. CASE FireEnqueue
    BY <1>1, <1>6 DEF FireEnqueue, Field
  <1> QED
    BY <1>2, <1>3, <1>4, <1>5, <1>6 DEF Firing

LEMMA EntryStep ==
    ASSUME LifecycleTypeOK, EntryInv, [LifecycleNext]_lifeVars
    PROVE  EntryInv'
  <1>1. q \in Memory /\ DOMAIN q = Field
    BY Domain DEF LifecycleTypeOK
  <1>2. CASE Exit \/ Crash \/ Boot
    <2>1. q'.client = Off /\ q'.loop = Off
      BY <1>2, FreshMemory
    <2> QED
      BY <2>1 DEF EntryInv, Off
  <1> SUFFICES ASSUME ~(Exit \/ Crash \/ Boot) PROVE EntryInv'
    BY <1>2
  <1>3. /\ q.client.pc = "upsert" => q.client.name \in Name
        /\ q.loop.pc = "update" => q.loop.name \in Name
    BY <1>1, ClientShape, LoopShape
  <1>4. \A n \in Name : q.entries[n] # 0 => q'.entries[n] # 0
    BY EntriesKept
  <1>5. ASSUME q'.client = q.client \/ q'.client.pc \in {"off", "add", "dash"},
               q'.loop = q.loop \/ q'.loop.pc # "update"
        PROVE  EntryInv'
    BY <1>3, <1>4, <1>5 DEF EntryInv
  <1>6. CASE Program
    <2>1. q'.loop = q.loop
      BY <1>1, <1>6, ProgramKeeps DEF Keeps, Field
    <2>2. q'.client = q.client \/ q'.client.pc \in {"off", "add", "dash"}
      <3>1. ASSUME NEW n \in Name, NEW every \in Interval \cup {0},
                   Register(n, every)
            PROVE  q'.client.pc = "add"
        BY <1>1, <3>1 DEF Register, Memo, Field
      <3>2. CASE Dashboard
        BY <1>1, <3>2 DEF Dashboard, Memo, Field
      <3>3. CASE Request
        BY <1>1, <3>3 DEF Request, Memo, Field
      <3> QED
        BY <1>6, <3>1, <3>2, <3>3 DEF Program
    <2> QED
      BY <1>5, <2>1, <2>2
  <1>7. CASE Begun
    <2>1. q'.loop = q.loop
      BY <1>1, <1>7, BegunKeeps DEF Keeps, Field
    <2>2. CASE q'.client = Off
      BY <1>5, <2>1, <2>2 DEF Off
    <2>3. CASE AddHandler /\ q'.client.pc = "cron" /\ q'.client.every # 0
      BY <1>3, <1>4, <2>1, <2>3 DEF EntryInv
    <2>4. CASE SetEntry /\ q'.client.pc = "upsert"
               /\ q'.client.name = q.client.name
      <3>1. /\ q.client.pc = "cron" /\ q.client.every # 0
            /\ q'.entries = [q.entries EXCEPT ![q.client.name] = q.client.every]
        BY <1>1, <2>4 DEF SetEntry, Memo, Field, EntryInv
      <3>2. q.entries \in Schedules /\ q.client.name \in Name
        BY <1>1, <3>1, Fields, ClientShape
      <3>3. q'.entries[q.client.name] # 0
        BY <3>1, <3>2 DEF Schedules
      <3> QED
        BY <1>3, <1>4, <2>1, <2>4, <3>3 DEF EntryInv
    <2> QED
      BY <1>5, <1>7, <2>1, <2>2, <2>3, <2>4, ClientSteps
  <1>8. CASE Starting \/ ContextDone
    <2>1. q'.client = q.client
      BY <1>1, <1>8, StartingKeeps DEF Keeps, Field
    <2>2. q'.loop = q.loop \/ q'.loop.pc = "wait"
      <3>1. CASE StartLoop
        BY <1>1, <3>1 DEF StartLoop, Memo, Field
      <3>2. CASE Begin \/ BuildPool \/ BuildScheduler \/ StartPool
                 \/ StartReturns \/ ContextDone
        BY <1>1, <3>2
        DEF ContextDone, Begin, BuildPool, BuildScheduler, StartPool,
            StartReturns, Memo, Field
      <3>3. ASSUME NEW n \in Name, RegisterBuffered(n)
            PROVE  q'.loop = q.loop
        BY <1>1, <3>3 DEF RegisterBuffered, Field
      <3> QED
        BY <1>8, <3>1, <3>2, <3>3 DEF Starting
    <2> QED
      BY <1>5, <2>1, <2>2
  <1>9. CASE CallStop \/ Stopping \/ PoolEnds
    BY <1>1, <1>5, <1>9, StoppingKeeps DEF Keeps, Field
  <1>10. CASE Firing \/ LoopExit
    <2>1. q'.client = q.client /\ q'.entries = q.entries
      BY <1>1, <1>10, FiringKeeps DEF Keeps, Field
    <2>2. CASE q'.loop.pc # "update"
      BY <1>5, <2>1, <2>2
    <2>3. ASSUME NEW n \in q.loop.due, FireLookup(n),
                 q'.loop = [pc |-> "update", due |-> q.loop.due \ {n},
                            name |-> n, at |-> now, next |-> now + q.entries[n]]
          PROVE  EntryInv'
      <3>1. q'.loop.name = n /\ q.entries[n] # 0
        BY <2>3 DEF FireLookup
      <3> QED
        BY <2>1, <3>1 DEF EntryInv
    <2> QED
      <3>1. \/ q'.loop.pc # "update"
            \/ \E n \in q.loop.due :
                  /\ FireLookup(n)
                  /\ q'.loop = [pc |-> "update", due |-> q.loop.due \ {n},
                                name |-> n, at |-> now,
                                next |-> now + q.entries[n]]
        BY <1>1, <1>10, LoopSteps DEF Off
      <3> QED
        BY <2>2, <2>3, <3>1
  <1>11. CASE ClockTick \/ UNCHANGED lifeVars
    BY <1>11 DEF ClockTick, lifeVars, EntryInv
  <1> QED
    BY <1>6, <1>7, <1>8, <1>9, <1>10, <1>11 DEF LifecycleNext

(* Who writes to the table, unless it goes with the process. *)
LEMMA TableSteps ==
    ASSUME LifecycleTypeOK, [LifecycleNext]_lifeVars, crons' # crons,
           ~(Exit \/ Crash)
    PROVE  \/ /\ StoreEntry /\ q.client.pc = "upsert"
              /\ crons' = UpsertCron(q.client.name, q.client.next)
           \/ \E n \in Name :
                 /\ RegisterBuffered(n) /\ q.todo[n] # 0
                 /\ crons' = UpsertCron(n, now + q.todo[n])
                 /\ q'.entries = [q.entries EXCEPT ![n] = q.todo[n]]
           \/ /\ FireUpdate /\ q.loop.pc = "update"
              /\ crons' = UpdateCronRun(q.loop.name, q.loop.at, q.loop.next)
  <1>1. q \in Memory /\ DOMAIN q = Field
    BY Domain DEF LifecycleTypeOK
  <1>2. CASE Boot
    BY <1>2 DEF Boot
  <1>3. CASE Program \/ ContextDone \/ CallStop \/ Stopping \/ PoolEnds
             \/ LoopExit \/ ClockTick \/ UNCHANGED lifeVars
    BY <1>3
    DEF Program, Register, Dashboard, Request, ContextDone, CallStop, Stopping,
        StopScheduler, SchedulerStopped, StopPool, PoolStopped, StopDash,
        DashStopped, CloseStorage, Halt, PoolEnds, LoopExit, ClockTick, Memo,
        lifeVars
  <1>4. CASE Begun
    <2>1. CASE StoreEntry
      BY <2>1 DEF StoreEntry
    <2> QED
      BY <1>4, <2>1
      DEF Begun, AddHandler, BufferCron, SetEntry, SetStopDash, RequestEnds, Memo
  <1>5. CASE Starting
    <2>1. ASSUME NEW n \in Name, RegisterBuffered(n)
          PROVE  /\ q.todo[n] # 0
                 /\ crons' = UpsertCron(n, now + q.todo[n])
                 /\ q'.entries = [q.entries EXCEPT ![n] = q.todo[n]]
      BY <1>1, <2>1 DEF RegisterBuffered, Field
    <2> QED
      BY <1>5, <2>1
      DEF Starting, Begin, BuildPool, BuildScheduler, StartPool, StartLoop,
          StartReturns, Memo
  <1>6. CASE Firing
    <2>1. CASE FireUpdate
      BY <2>1 DEF FireUpdate
    <2> QED
      BY <1>6, <2>1
      DEF Firing, FireQuery, FireEnd, FireSkip, FireLookup, FireEnqueue, Memo
  <1> QED
    BY <1>2, <1>3, <1>4, <1>5, <1>6 DEF LifecycleNext

LEMMA EntryInitial == LifecycleInit => EntryInv
  BY DEF LifecycleInit, NewQueue, EntryInv, Off

(* A process writes the rows of the cron table that it has an entry for, and *)
(* no others (cronScheduler.register, cronScheduler.fire).                 *)
THEOREM LifecycleForeignCrons == LifecycleSpec => ForeignCronsUntouched
  <1>1. ASSUME LifecycleTypeOK, EntryInv, [LifecycleNext]_lifeVars
        PROVE  [\A n \in Name :
                  crons'[n] # crons[n] /\ Up' => q'.entries[n] # 0]_lifeVars
    <2> SUFFICES ASSUME NEW n \in Name, crons'[n] # crons[n], Up'
                 PROVE  q'.entries[n] # 0
      OBVIOUS
    <2>1. /\ q \in Memory /\ q.entries \in Schedules
          /\ crons \in [Name -> CronRow] /\ crons' # crons
      BY <1>1, Fields DEF LifecycleTypeOK
    <2>2. q.entries[n] # 0 => q'.entries[n] # 0
      <3>1. CASE Exit \/ Crash
        BY <3>1, FreshMemory DEF Up, Boot, Exit, Crash
      <3>2. CASE Boot
        BY <2>1, <3>2 DEF Boot
      <3> QED
        BY <1>1, <3>1, <3>2, EntriesKept
    <2>3. CASE /\ StoreEntry /\ q.client.pc = "upsert"
               /\ crons' = UpsertCron(q.client.name, q.client.next)
      <3>1. n = q.client.name
        BY <2>1, <2>3 DEF UpsertCron, SqliteUpsertCron, MemoryUpsertCron
      <3> QED
        BY <1>1, <2>2, <2>3, <3>1 DEF EntryInv
    <2>4. ASSUME NEW m \in Name, q.todo[m] # 0,
                 crons' = UpsertCron(m, now + q.todo[m]),
                 q'.entries = [q.entries EXCEPT ![m] = q.todo[m]]
          PROVE  q'.entries[n] # 0
      <3>1. n = m
        BY <2>1, <2>4 DEF UpsertCron, SqliteUpsertCron, MemoryUpsertCron
      <3> QED
        BY <2>1, <2>4, <3>1 DEF Schedules
    <2>5. CASE /\ FireUpdate /\ q.loop.pc = "update"
               /\ crons' = UpdateCronRun(q.loop.name, q.loop.at, q.loop.next)
      <3>1. n = q.loop.name
        BY <2>1, <2>5 DEF UpdateCronRun
      <3> QED
        BY <1>1, <2>2, <2>5, <3>1 DEF EntryInv
    <2>6. ~(Exit \/ Crash)
      BY FreshMemory DEF Up, Boot, Exit, Crash
    <2> QED
      BY <1>1, <2>1, <2>3, <2>4, <2>5, <2>6, TableSteps
  <1> QED
    BY <1>1, EntryInitial, EntryStep, LifecycleTypeCorrect, PTL
    DEF LifecycleSpec, ForeignCronsUntouched

-----------------------------------------------------------------------------
(* What Start has to do with a name whose calls it does not race with: the *)
(* handler is in its copy, and a schedule is in its list or registered.    *)
Registered(n) ==
    /\ ~Registering(n)
    /\ n \in q.handlers => n \in q.copied
    /\ q.pending[n] # 0 => q.todo[n] # 0 \/ q.entries[n] # 0

HandledInv ==
    /\ Underway \/ Started => \A n \in Name \ q.late : Registered(n)
    /\ Started => q.todo = NoSchedules

(* The names of late calls are the only ones that the program adds.        *)
LEMMA HandledProgram ==
    ASSUME LifecycleTypeOK, HandledInv, Program PROVE HandledInv'
  <1>1. q \in Memory /\ DOMAIN q = Field
    BY Domain DEF LifecycleTypeOK
  <1>2. /\ q'.start = q.start /\ q'.handlers = q.handlers
        /\ q'.copied = q.copied /\ q'.pending = q.pending
        /\ q'.todo = q.todo /\ q'.entries = q.entries
    BY <1>1, ProgramKeeps DEF Keeps, Field
  <1>3. ASSUME NEW n \in Name, NEW every \in Interval \cup {0},
               Register(n, every)
        PROVE  HandledInv'
    <2>1. ~Started /\ q'.client.name = n
      BY <1>1, <1>3 DEF Register, Memo, Field
    <2>2. Underway => q'.late = q.late \cup {n}
      BY <1>1, <1>3 DEF Register, Memo, Field
    <2> QED
      BY <1>2, <2>1, <2>2
      DEF HandledInv, Registered, Registering, Underway, Started
  <1>4. CASE Dashboard \/ Request
    <2>1. q'.late = q.late
      BY <1>1, <1>4 DEF Dashboard, Request, Memo, Field
    <2>2. Dashboard => q'.client.pc = "dash"
      BY <1>1 DEF Dashboard, Memo, Field
    <2>3. Request => q'.client = q.client
      BY <1>1 DEF Request, Memo, Field
    <2> QED
      BY <1>2, <1>4, <2>1, <2>2, <2>3
      DEF HandledInv, Registered, Registering, Underway, Started
  <1> QED
    BY <1>3, <1>4 DEF Program

LEMMA HandledBegun ==
    ASSUME LifecycleTypeOK, EntryInv, HandledInv, Begun PROVE HandledInv'
  <1>1. q \in Memory /\ DOMAIN q = Field /\ q.pending \in Schedules
    BY Domain, Fields DEF LifecycleTypeOK
  <1>2. /\ q'.start = q.start /\ q'.copied = q.copied
        /\ q'.todo = q.todo /\ q'.late = q.late
    BY <1>1, BegunKeeps DEF Keeps, Field
  <1> SUFFICES ASSUME Underway \/ Started, NEW n \in Name \ q.late,
                      Registered(n)
               PROVE  Registered(n)'
    BY <1>2 DEF HandledInv, Underway, Started
  <1>3. q.entries[n] # 0 => q'.entries[n] # 0
    <2>1. ~(Exit \/ Crash \/ Boot)
      <3>1. q.start # "down" /\ q'.start = q.start
        BY <1>2 DEF Underway, Started
      <3>2. Exit \/ Crash \/ Boot => q'.start = "down" \/ q.start = "down"
        BY FreshMemory DEF Boot
      <3> QED
        BY <3>1, <3>2
    <2> QED
      BY <2>1, EntriesKept DEF LifecycleNext
  <1>4. Registering(n)' => Registering(n)
    <2>1. CASE AddHandler
      <3>1. q'.client = IF q.client.every = 0 THEN Off
                        ELSE [q.client EXCEPT !.pc = "cron"]
        BY <1>1, <2>1 DEF AddHandler, Memo, Field
      <3>2. q.client = [pc |-> q.client.pc, name |-> q.client.name,
                        every |-> q.client.every]
        BY <1>1, <2>1, ClientShape DEF AddHandler
      <3>3. [q.client EXCEPT !.pc = "cron"].name = q.client.name
        BY <3>2
      <3> QED
        BY <2>1, <3>1, <3>3 DEF AddHandler, Registering, Off
    <2>2. CASE ~AddHandler
      <3>1. q'.client \in {q.client, Off} \/ q'.client.pc = "upsert"
        BY <2>2, ClientSteps
      <3> QED
        BY <3>1 DEF Registering, Off
    <2> QED
      BY <2>1, <2>2
  <1>5. CASE AddHandler
    <2>1. /\ q'.handlers = q.handlers \cup {q.client.name}
          /\ q'.pending = q.pending /\ q.client.pc = "add"
      BY <1>1, <1>5 DEF AddHandler, Memo, Field
    <2> QED
      BY <1>2, <1>3, <1>4, <2>1 DEF Registered, Registering
  <1>6. CASE BufferCron
    <2>1. /\ q'.pending = [q.pending EXCEPT ![q.client.name] = q.client.every]
          /\ q'.handlers = q.handlers /\ q.client.pc = "cron"
      BY <1>1, <1>6 DEF BufferCron, Memo, Field
    <2>2. q'.pending[n] = q.pending[n]
      BY <1>1, <2>1 DEF Registered, Registering, Schedules
    <2> QED
      BY <1>2, <1>3, <1>4, <2>1, <2>2 DEF Registered
  <1>7. CASE SetEntry \/ StoreEntry \/ SetStopDash \/ RequestEnds
    <2>1. q'.handlers = q.handlers /\ q'.pending = q.pending
      BY <1>1, <1>7
      DEF SetEntry, StoreEntry, SetStopDash, RequestEnds, Memo, Field
    <2> QED
      BY <1>2, <1>3, <1>4, <2>1 DEF Registered
  <1> QED
    BY <1>5, <1>6, <1>7 DEF Begun

LEMMA HandledStarting ==
    ASSUME LifecycleTypeOK, HandledInv, Starting \/ ContextDone
    PROVE  HandledInv'
  <1>1. /\ q \in Memory /\ DOMAIN q = Field
        /\ q.todo \in Schedules /\ q.entries \in Schedules
    BY Domain, Fields DEF LifecycleTypeOK
  <1>2. /\ q'.handlers = q.handlers /\ q'.pending = q.pending
        /\ q'.client = q.client
    BY <1>1, StartingKeeps DEF Keeps, Field
  <1>3. CASE Begin
    <2>1. /\ q'.start = "pool" /\ q'.copied = q.handlers
          /\ q'.todo = q.pending /\ q'.late = {n \in Name : Registering(n)}
      BY <1>1, <1>3 DEF Begin, Memo, Field
    <2> QED
      BY <1>2, <2>1 DEF HandledInv, Registered, Registering, Started
  <1>4. ASSUME NEW m \in Name, RegisterBuffered(m) PROVE HandledInv'
    <2>1. /\ q.start = "register" /\ q'.start \in {"register", "failed"}
          /\ q'.copied = q.copied /\ q'.late = q.late /\ q.todo[m] # 0
          /\ q'.entries = [q.entries EXCEPT ![m] = q.todo[m]]
          /\ \/ q'.todo = q.todo
             \/ q'.todo = [q.todo EXCEPT ![m] = 0]
      <3>1. CASE q' = [q EXCEPT !.entries[m] = q.todo[m], !.todo[m] = 0]
        BY <1>1, <1>4, <3>1 DEF RegisterBuffered, Field
      <3>2. CASE q' = [q EXCEPT !.entries[m] = q.todo[m], !.start = "failed"]
        BY <1>1, <1>4, <3>2 DEF RegisterBuffered, Field
      <3> QED
        BY <1>4, <3>1, <3>2 DEF RegisterBuffered
    <2>2. ASSUME NEW n \in Name, q.todo[n] # 0 \/ q.entries[n] # 0
          PROVE  q'.todo[n] # 0 \/ q'.entries[n] # 0
      BY <1>1, <2>1, <2>2 DEF Schedules
    <2> QED
      BY <1>2, <2>1, <2>2
      DEF HandledInv, Registered, Registering, Underway, Started
  <1>5. CASE StartPool
    <2>1. /\ q.start = "register" /\ q.todo = NoSchedules
          /\ q'.copied = q.copied /\ q'.late = q.late
          /\ q'.todo = q.todo /\ q'.entries = q.entries
      BY <1>1, <1>5 DEF StartPool, Memo, Field
    <2> QED
      BY <1>2, <2>1 DEF HandledInv, Registered, Registering, Underway
  <1>6. CASE \/ BuildPool \/ BuildScheduler
             \/ StartLoop \/ StartReturns \/ ContextDone
    <2>1. /\ q'.copied = q.copied /\ q'.late = q.late
          /\ q'.todo = q.todo /\ q'.entries = q.entries
      BY <1>1, <1>6
      DEF BuildPool, BuildScheduler, StartLoop, StartReturns, ContextDone,
          Memo, Field
    <2>2. \/ Underway /\ ~Started'
          \/ Started
      BY <1>1, <1>6
      DEF BuildPool, BuildScheduler, StartLoop, StartReturns, ContextDone,
          Memo, Field, Underway, Started
    <2> QED
      BY <1>2, <2>1, <2>2 DEF HandledInv, Registered, Registering
  <1> QED
    BY <1>3, <1>4, <1>5, <1>6 DEF Starting

LEMMA HandledStep ==
    ASSUME LifecycleTypeOK, EntryInv, HandledInv, [LifecycleNext]_lifeVars
    PROVE  HandledInv'
  <1>1. q \in Memory /\ DOMAIN q = Field
    BY Domain DEF LifecycleTypeOK
  <1>2. ASSUME UNCHANGED <<q.start, q.handlers, q.copied, q.pending, q.todo,
                           q.entries, q.client, q.late>>
        PROVE  HandledInv'
    BY <1>2 DEF HandledInv, Registered, Registering, Underway, Started
  <1>3. CASE CallStop \/ Stopping \/ PoolEnds
    BY <1>1, <1>2, <1>3, StoppingKeeps DEF Keeps, Field
  <1>4. CASE Firing \/ LoopExit
    BY <1>1, <1>2, <1>4, FiringKeeps DEF Keeps, Field
  <1>5. CASE Exit \/ Crash \/ Boot
    BY <1>5, FreshMemory DEF HandledInv, Underway, Started
  <1>6. CASE ClockTick \/ UNCHANGED lifeVars
    BY <1>2, <1>6 DEF ClockTick, lifeVars
  <1> QED
    BY <1>3, <1>4, <1>5, <1>6, HandledProgram, HandledBegun, HandledStarting
    DEF LifecycleNext

LEMMA HandledInitial == LifecycleInit => HandledInv
  BY DEF LifecycleInit, NewQueue, HandledInv, Underway, Started

(* A Register or Schedule that does not race with Start is known to the    *)
(* workers and the scheduler once Start serves, whatever other calls do    *)
(* race with it: after Start has set started they panic (Queue.Register,   *)
(* Queue.registerCron, Queue.Start).                                       *)
THEOREM LifecycleRegisteredAreHandled ==
    LifecycleSpec => []RegisteredAreHandled
  <1>1. HandledInv => RegisteredAreHandled
    BY DEF HandledInv, Registered, RegisteredAreHandled, Started, NoSchedules
  <1> QED
    BY <1>1, EntryInitial, EntryStep, HandledInitial, HandledStep,
       LifecycleTypeCorrect, PTL
    DEF LifecycleSpec

-----------------------------------------------------------------------------
(* A process that still can lose a run of an entry has not lost one yet.   *)
Between(n) == Up /\ q.loop.pc = "enqueue" /\ q.loop.name = n

LossInv ==
    /\ Up /\ storage = "memory" => q.open
    /\ \A n \in Name :
        /\ stamps[n] - enqueued[n] >= IF Between(n) THEN 1 ELSE 0
        /\ stamps[n] - enqueued[n]
              <= lives + faults - IF Up /\ q.open /\ ~Between(n) THEN 1 ELSE 0

LEMMA LossStep ==
    ASSUME LifecycleTypeOK, LossInv, StopInv, [LifecycleNext]_lifeVars
    PROVE  LossInv'
  <1>1. q \in Memory /\ DOMAIN q = Field
    BY Domain DEF LifecycleTypeOK
  <1>2. /\ stamps \in [Name -> Nat] /\ enqueued \in [Name -> Nat]
        /\ lives \in Nat /\ faults \in Nat
    BY DEF LifecycleTypeOK
  <1>3. ASSUME UNCHANGED <<stamps, enqueued, lives>>,
               faults' \in Nat, faults' >= faults,
               storage' = storage, Up' => Up,
               Up' => \/ q'.open <=> q.open
                      \/ q'.open <=> storage = "memory",
               \/ q'.loop.pc = "enqueue" /\ q'.loop = q.loop /\ Up' = Up
               \/ q'.loop.pc # "enqueue" /\ (q.loop.pc # "enqueue" \/ ~Up')
        PROVE  LossInv'
    <2>3. /\ Up' /\ storage' = "memory" => q'.open
          /\ Up' /\ q'.open => q.open
      BY <1>3 DEF LossInv
    <2> SUFFICES ASSUME NEW n \in Name
                 PROVE  /\ stamps'[n] - enqueued'[n]
                             >= IF Between(n)' THEN 1 ELSE 0
                        /\ stamps'[n] - enqueued'[n]
                             <= lives' + faults'
                                - IF Up' /\ q'.open /\ ~Between(n)' THEN 1
                                  ELSE 0
      BY <2>3 DEF LossInv
    <2>1. Between(n)' => Between(n)
      BY <1>3 DEF Between
    <2>2. Up' /\ ~Between(n)' => ~Between(n)
      BY <1>3 DEF Between
    <2> HIDE DEF Between
    <2> QED
      BY <1>2, <1>3, <2>1, <2>2, <2>3 DEF LossInv
  <1>4. CASE Exit \/ Crash
    <2>1. q'.start = "down" /\ q'.loop = Off
      BY <1>4, FreshMemory DEF Boot, Exit, Crash, Up
    <2> QED
      BY <1>2, <1>3, <1>4, <2>1 DEF Exit, Crash, Gone, Up, Off
  <1>5. CASE Boot
    <2>1. /\ ~Up /\ q'.loop = Off /\ lives' = lives + 1
          /\ UNCHANGED <<storage, stamps, enqueued, faults>> /\ q'.open
      BY <1>5, FreshMemory DEF Boot, NewQueue, Up
    <2>2. \A n \in Name : ~Between(n) /\ ~Between(n)'
      BY <2>1 DEF Between, Off
    <2> HIDE DEF Between
    <2> QED
      BY <1>2, <2>1, <2>2 DEF LossInv
  <1>6. CASE Program
    <2>1. q'.start = q.start /\ q'.loop = q.loop /\ q'.open = q.open
      BY <1>1, <1>6, ProgramKeeps DEF Keeps, Field
    <2>2. UNCHANGED <<storage, stamps, enqueued, lives, faults>>
      BY <1>6 DEF Program, Register, Dashboard, Request, Memo
    <2> QED
      BY <1>2, <1>3, <2>1, <2>2 DEF Up
  <1>7. CASE Begun
    <2>1. q'.start = q.start /\ q'.loop = q.loop /\ q'.open = q.open
      BY <1>1, <1>7, BegunKeeps DEF Keeps, Field
    <2>2. /\ UNCHANGED <<storage, stamps, enqueued, lives>>
          /\ faults' \in {faults, faults + 1}
      BY <1>7
      DEF Begun, AddHandler, BufferCron, SetEntry, StoreEntry, SetStopDash,
          RequestEnds, Memo, CallWorks, CallFails
    <2> QED
      BY <1>2, <1>3, <2>1, <2>2 DEF Up
  <1>8. CASE Starting \/ ContextDone
    <2>1. q'.open = q.open
      BY <1>1, <1>8, StartingKeeps DEF Keeps, Field
    <2>2. ASSUME NEW n \in Name, RegisterBuffered(n) PROVE LossInv'
      <3>1. /\ q.start = "register" /\ q'.start \in {"register", "failed"}
            /\ q'.loop = q.loop
            /\ UNCHANGED <<storage, stamps, enqueued, lives>>
            /\ faults' \in {faults, faults + 1}
        BY <1>1, <2>2 DEF RegisterBuffered, CallWorks, CallFails, Field
      <3> QED
        BY <1>2, <1>3, <2>1, <3>1 DEF Up
    <2>3. CASE StartLoop
      <3>1. /\ q.start = "loop" /\ q'.start = "serving" /\ q'.loop.pc = "wait"
            /\ UNCHANGED <<storage, stamps, enqueued, lives, faults>>
        BY <1>1, <2>3 DEF StartLoop, Memo, Field
      <3>2. q.loop.pc # "enqueue"
        BY <3>1 DEF StopInv
      <3> QED
        BY <1>2, <1>3, <2>1, <3>1, <3>2 DEF Up
    <2>4. CASE Begin \/ BuildPool \/ BuildScheduler \/ StartPool
               \/ StartReturns \/ ContextDone
      <3>1. /\ q.start # "down" /\ q'.start # "down" /\ q'.loop = q.loop
            /\ UNCHANGED <<storage, stamps, enqueued, lives, faults>>
        BY <1>1, <2>4
        DEF ContextDone, Begin, BuildPool, BuildScheduler, StartPool,
            StartReturns, Memo, Field
      <3> QED
        BY <1>2, <1>3, <2>1, <3>1 DEF Up
    <2> QED
      BY <1>8, <2>2, <2>3, <2>4 DEF Starting
  <1>9. CASE CallStop \/ Stopping \/ PoolEnds
    <2>1. q'.start = q.start /\ q'.loop = q.loop
      BY <1>1, <1>9, StoppingKeeps DEF Keeps, Field
    <2>2. UNCHANGED <<storage, stamps, enqueued, lives, faults>>
      BY <1>9
      DEF CallStop, Stopping, StopScheduler, SchedulerStopped, StopPool,
          PoolStopped, StopDash, DashStopped, CloseStorage, Halt, PoolEnds, Memo
    <2>3. (q'.open <=> q.open) \/ (q'.open <=> storage = "memory")
      <3>1. CASE CloseStorage
        BY <1>1, <3>1 DEF CloseStorage, Memo, Field
      <3>2. CASE StopScheduler \/ StopPool
        BY <1>1, <3>2 DEF StopScheduler, StopPool, Halt, Memo, Field
      <3>3. CASE CallStop
        BY <1>1, <3>3 DEF CallStop, Memo, Field
      <3>4. CASE StopDash
        BY <1>1, <3>4 DEF StopDash, Memo, Field
      <3>5. CASE SchedulerStopped \/ PoolStopped \/ DashStopped \/ PoolEnds
        BY <1>1, <3>5
        DEF SchedulerStopped, PoolStopped, DashStopped, PoolEnds, Memo, Field
      <3> QED
        BY <1>9, <3>1, <3>2, <3>3, <3>4, <3>5 DEF Stopping
    <2> QED
      BY <1>2, <1>3, <2>1, <2>2, <2>3 DEF Up
  <1>10. CASE Firing \/ LoopExit
    <2>1. q'.start = q.start /\ q'.open = q.open
      BY <1>1, <1>10, FiringKeeps DEF Keeps, Field
    <2>2. ASSUME q.loop.pc # "enqueue", q'.loop.pc # "enqueue",
                 UNCHANGED <<storage, stamps, enqueued, lives>>,
                 faults' \in {faults, faults + 1}
          PROVE  LossInv'
      BY <1>2, <1>3, <2>1, <2>2 DEF Up
    <2>3. CASE FireQuery \/ FireEnd \/ LoopExit
      <3>1. /\ q.loop.pc # "enqueue" /\ q'.loop.pc \in {"fire", "wait", "off"}
            /\ UNCHANGED <<storage, stamps, enqueued, lives, faults>>
        BY <1>1, <2>3 DEF FireQuery, FireEnd, LoopExit, Off, Memo, Field
      <3> QED
        BY <2>2, <3>1
    <2>4. ASSUME NEW n \in Name, FireSkip(n) \/ FireLookup(n)
          PROVE  LossInv'
      <3>1. /\ q.loop.pc = "fire"
            /\ UNCHANGED <<storage, stamps, enqueued, lives, faults>>
        BY <2>4 DEF FireSkip, FireLookup, Memo
      <3>2. q'.loop.pc # "enqueue"
        <4>1. q.loop = [pc |-> "fire", due |-> q.loop.due]
          BY <1>1, <3>1, LoopShape
        <4>2. \/ q'.loop = [q.loop EXCEPT !.due = @ \ {n}]
              \/ q'.loop.pc = "update"
          BY <1>1, <2>4 DEF FireSkip, FireLookup, Memo, Field
        <4> QED
          BY <4>1, <4>2
      <3> QED
        BY <2>2, <3>1, <3>2
    <2>5. CASE FireUpdate
      <3>1. q.loop.pc = "update" /\ UNCHANGED <<storage, enqueued, lives>>
        BY <2>5 DEF FireUpdate
      <3>2. CASE /\ CallFails /\ UNCHANGED stamps
                 /\ q'.loop = [pc |-> "fire", due |-> q.loop.due]
        BY <2>2, <3>1, <3>2 DEF CallFails
      <3>3. CASE /\ CallWorks /\ stamps' = [stamps EXCEPT ![q.loop.name] = @ + 1]
                 /\ q'.loop = [pc |-> "enqueue", due |-> q.loop.due,
                               name |-> q.loop.name]
        <4>1. q.open /\ faults' = faults /\ q.loop.name \in Name
          BY <1>1, <3>1, <3>3, LoopShape DEF CallWorks
        <4>2. /\ \A n \in Name : ~Between(n)
              /\ \A n \in Name : Between(n)' <=> Up' /\ n = q.loop.name
          BY <3>1, <3>3 DEF Between
        <4>3. \A n \in Name :
                 stamps'[n] = stamps[n] + (IF n = q.loop.name THEN 1 ELSE 0)
          BY <1>2, <3>3, <4>1
        <4>4. Up /\ Up'
          BY <2>1, <3>1 DEF StopInv, Up
        <4> HIDE DEF Between
        <4> QED
          BY <1>2, <2>1, <3>1, <4>1, <4>2, <4>3, <4>4 DEF LossInv
      <3> QED
        BY <1>1, <2>5, <3>2, <3>3 DEF FireUpdate, Field
    <2>6. CASE FireEnqueue
      <3>1. /\ q.loop.pc = "enqueue" /\ q.loop.name \in Name
            /\ q'.loop.pc = "fire"
            /\ UNCHANGED <<storage, stamps, lives>>
        BY <1>1, <2>6, LoopShape DEF FireEnqueue, Field
      <3>2. Up /\ Up'
        BY <2>1, <3>1 DEF StopInv, Up
      <3>3. /\ \A n \in Name : Between(n) <=> n = q.loop.name
            /\ \A n \in Name : ~Between(n)'
        BY <3>1, <3>2 DEF Between
      <3>4. CASE /\ CallWorks
                 /\ enqueued' = [enqueued EXCEPT ![q.loop.name] = @ + 1]
        <4>1. q.open /\ faults' = faults
          BY <3>4 DEF CallWorks
        <4>2. \A n \in Name :
                 enqueued'[n]
                    = enqueued[n] + (IF n = q.loop.name THEN 1 ELSE 0)
          BY <1>2, <3>1, <3>4
        <4> HIDE DEF Between
        <4> QED
          BY <1>2, <2>1, <3>1, <3>2, <3>3, <4>1, <4>2 DEF LossInv
      <3>5. CASE CallFails /\ enqueued' = enqueued
        <4>1. faults' = IF q.open THEN faults + 1 ELSE faults
          BY <3>5 DEF CallFails
        <4> HIDE DEF Between
        <4> QED
          BY <1>2, <2>1, <3>1, <3>2, <3>3, <3>5, <4>1 DEF LossInv
      <3> QED
        BY <2>6, <3>4, <3>5 DEF FireEnqueue
    <2> QED
      BY <1>10, <2>3, <2>4, <2>5, <2>6 DEF Firing
  <1>11. CASE ClockTick \/ UNCHANGED lifeVars
    BY <1>2, <1>3, <1>11 DEF ClockTick, lifeVars, Up
  <1> QED
    BY <1>4, <1>5, <1>6, <1>7, <1>8, <1>9, <1>10, <1>11 DEF LifecycleNext

(* A run of an entry that the table records is enqueued, except for the    *)
(* runs that crashes and errors of the storage account for, one each.      *)
THEOREM LifecycleEachRunEnqueued == LifecycleSpec => []EachRunEnqueued
  <1>1. LifecycleInit => LossInv
    BY DEF LifecycleInit, NewQueue, LossInv, Between, Off
  <1>2. LifecycleTypeOK /\ LossInv => EachRunEnqueued
    <2> SUFFICES ASSUME LifecycleTypeOK, LossInv, NEW n \in Name
                 PROVE  stamps[n] - enqueued[n] - (IF Between(n) THEN 1 ELSE 0)
                           \in 0 .. (lives - 1) + faults
                                + (IF Between(n) \/ (Up /\ q.open) THEN 0 ELSE 1)
      BY DEF EachRunEnqueued, Between
    <2> HIDE DEF Between
    <2> QED
      BY DEF LossInv, LifecycleTypeOK
  <1> QED
    BY <1>1, <1>2, StopInitial, StopStep, LossStep, LifecycleTypeCorrect, PTL
    DEF LifecycleSpec

-----------------------------------------------------------------------------
(* No entry is about to be stored beside Start. *)
QuietInv ==
    /\ q.start = "new" => q.built = {}
    /\ ~q.overlapped => q.client.pc # "upsert"

(* No run is recorded ahead of its time. *)
ClockInv ==
    /\ \A n \in Name : crons[n].last <= now
    /\ q.loop.pc = "update" => q.loop.at <= now

(* An entry is due an interval after its last run at the earliest, and     *)
(* what the scheduler is about to fire is due.                             *)
SpacedInv ==
    ~q.overlapped =>
        /\ q.start # "failed" =>
              \A n \in Name : q.entries[n] # 0 =>
                  crons[n].next >= crons[n].last + q.entries[n]
        /\ q.loop.pc \in {"fire", "update", "enqueue"} =>
              \A n \in q.loop.due : crons[n].next <= now
        /\ q.loop.pc = "update" =>
              /\ q.loop.name \notin q.loop.due
              /\ crons[q.loop.name].next <= q.loop.at
              /\ q.loop.next = q.loop.at + q.entries[q.loop.name]

LEMMA NoLateEntry ==
    ASSUME AloneInv, QuietInv, ~q.overlapped
    PROVE  ~SetEntry /\ ~StoreEntry
  BY DEF AloneInv, QuietInv, SetEntry, StoreEntry

LEMMA QuietStep ==
    ASSUME LifecycleTypeOK, AloneInv, QuietInv, [LifecycleNext]_lifeVars
    PROVE  QuietInv'
  <1>1. q \in Memory /\ DOMAIN q = Field
    BY Domain DEF LifecycleTypeOK
  <1>2. CASE Exit \/ Crash \/ Boot
    BY <1>2, FreshMemory DEF QuietInv, Off
  <1> SUFFICES ASSUME ~(Exit \/ Crash \/ Boot) PROVE QuietInv'
    BY <1>2
  <1>3. q.overlapped => q'.overlapped
    BY <1>1, OverlapStays
  <1>4. CASE Program
    <2>1. q'.start = q.start /\ q'.built = q.built
      BY <1>1, <1>4, ProgramKeeps DEF Keeps, Field
    <2>2. ASSUME NEW n \in Name, NEW every \in Interval \cup {0},
                 Register(n, every)
          PROVE  q'.client.pc = "add"
      BY <1>1, <2>2 DEF Register, Memo, Field
    <2>3. CASE Dashboard
      <3>1. q'.client.pc = "dash"
        BY <1>1, <2>3 DEF Dashboard, Memo, Field
      <3> QED
        BY <1>3, <2>1, <3>1 DEF QuietInv
    <2>4. CASE Request
      <3>1. q'.client = q.client
        BY <1>1, <2>4 DEF Request, Memo, Field
      <3> QED
        BY <1>3, <2>1, <3>1 DEF QuietInv
    <2> QED
      BY <1>3, <1>4, <2>1, <2>2, <2>3, <2>4 DEF Program, QuietInv
  <1>5. CASE Begun
    <2>1. /\ q'.start = q.start /\ q'.built = q.built
          /\ q'.overlapped = q.overlapped
      BY <1>1, <1>5, BegunKeeps DEF Keeps, Field
    <2>2. q'.overlapped \/ ~SetEntry
      BY <2>1, NoLateEntry
    <2>3. SetEntry \/ q'.client = q.client \/ q'.client.pc \in {"off", "cron"}
      BY <1>5, ClientSteps DEF Off
    <2> QED
      BY <2>1, <2>2, <2>3 DEF QuietInv
  <1>6. CASE Starting \/ ContextDone
    <2>1. q'.client = q.client
      BY <1>1, <1>6, StartingKeeps DEF Keeps, Field
    <2>2. q'.start # "new"
      <3>1. ASSUME NEW n \in Name, RegisterBuffered(n) PROVE q'.start # "new"
        BY <1>1, <3>1 DEF RegisterBuffered, Field
      <3> QED
        BY <1>1, <1>6, <3>1
        DEF Starting, ContextDone, Begin, BuildPool, BuildScheduler,
            StartPool, StartLoop, StartReturns, Memo, Field
    <2> QED
      BY <1>3, <2>1, <2>2 DEF QuietInv
  <1>7. CASE CallStop \/ Stopping \/ PoolEnds
    BY <1>1, <1>3, <1>7, StoppingKeeps DEF Keeps, Field, QuietInv
  <1>8. CASE Firing \/ LoopExit
    BY <1>1, <1>3, <1>8, FiringKeeps DEF Keeps, Field, QuietInv
  <1>9. CASE ClockTick \/ UNCHANGED lifeVars
    BY <1>9 DEF ClockTick, lifeVars, QuietInv
  <1> QED
    BY <1>4, <1>5, <1>6, <1>7, <1>8, <1>9 DEF LifecycleNext

(* The scheduler's goroutine during a step of another part. *)
LEMMA LoopKept ==
    ASSUME LifecycleTypeOK, [LifecycleNext]_lifeVars, ~(Firing \/ LoopExit)
    PROVE  q'.loop = q.loop \/ q'.loop.pc \in {"off", "wait"}
  <1>1. q \in Memory /\ DOMAIN q = Field
    BY Domain DEF LifecycleTypeOK
  <1>2. CASE Exit \/ Crash \/ Boot
    BY <1>2, FreshMemory DEF Off
  <1>3. CASE Program
    BY <1>1, <1>3, ProgramKeeps DEF Keeps, Field
  <1>4. CASE Begun
    BY <1>1, <1>4, BegunKeeps DEF Keeps, Field
  <1>5. CASE StartLoop
    BY <1>1, <1>5 DEF StartLoop, Memo, Field
  <1>6. CASE (Starting \/ ContextDone) /\ ~StartLoop
    BY <1>1, <1>6
    DEF Starting, ContextDone, Begin, BuildPool, BuildScheduler,
        RegisterBuffered, StartPool, StartReturns, Memo, Field
  <1>7. CASE CallStop \/ Stopping \/ PoolEnds
    BY <1>1, <1>7, StoppingKeeps DEF Keeps, Field
  <1>8. CASE ClockTick \/ UNCHANGED lifeVars
    BY <1>8 DEF ClockTick, lifeVars
  <1> QED
    BY <1>2, <1>3, <1>4, <1>5, <1>6, <1>7, <1>8 DEF LifecycleNext

(* The clock never goes back. *)
LEMMA ClockSteps ==
    ASSUME LifecycleTypeOK, [LifecycleNext]_lifeVars
    PROVE  now' \in Nat /\ now' >= now
  <1>1. now \in Nat
    BY DEF LifecycleTypeOK
  <1>2. CASE ClockTick
    BY <1>1, <1>2 DEF ClockTick
  <1>3. ASSUME ~ClockTick PROVE now' = now
    <2>1. CASE Program \/ Begun
      BY <2>1
      DEF Program, Register, Dashboard, Request, Begun, AddHandler, BufferCron,
          SetEntry, StoreEntry, SetStopDash, RequestEnds, Memo
    <2>2. CASE Exit \/ Crash \/ Boot
      BY <2>2 DEF Exit, Crash, Gone, Boot
    <2>3. CASE Starting \/ ContextDone
      BY <2>3
      DEF Starting, ContextDone, Begin, BuildPool, BuildScheduler,
          RegisterBuffered, StartPool, StartLoop, StartReturns, Memo
    <2>4. CASE CallStop \/ Stopping \/ PoolEnds
      BY <2>4
      DEF CallStop, Stopping, StopScheduler, SchedulerStopped, StopPool,
          PoolStopped, StopDash, DashStopped, CloseStorage, Halt, PoolEnds, Memo
    <2>5. CASE Firing \/ LoopExit \/ UNCHANGED lifeVars
      BY <2>5
      DEF Firing, FireQuery, FireEnd, FireSkip, FireLookup, FireUpdate,
          FireEnqueue, LoopExit, Memo, lifeVars
    <2> QED
      BY <1>3, <2>1, <2>2, <2>3, <2>4, <2>5 DEF LifecycleNext
  <1> QED
    BY <1>1, <1>2, <1>3

LEMMA ClockStep ==
    ASSUME LifecycleTypeOK, ClockInv, [LifecycleNext]_lifeVars
    PROVE  ClockInv'
  <1>1. q \in Memory /\ crons \in [Name -> CronRow] /\ now \in Nat
    BY DEF LifecycleTypeOK
  <1>2. now' \in Nat /\ now' >= now
    BY ClockSteps
  <1>3. \A n \in Name : crons[n].last \in Nat
    BY <1>1 DEF CronRow
  <1>4. \A n \in Name : crons'[n].last <= now'
    <2>1. CASE crons' = crons
      BY <1>1, <1>2, <1>3, <2>1 DEF ClockInv
    <2>2. CASE Exit \/ Crash
      BY <1>1, <1>2, <1>3, <2>2 DEF Exit, Crash, Gone, NoRow, ClockInv
    <2>3. ASSUME NEW n \in Name, NEW next \in Nat,
                 crons' = UpsertCron(n, next)
          PROVE  \A m \in Name : crons'[m].last <= now'
      <3>1. \A m \in Name : crons'[m].last \in {crons[m].last, 0}
        BY <1>1, <2>3
        DEF UpsertCron, SqliteUpsertCron, MemoryUpsertCron, CronRow
      <3> QED
        BY <1>1, <1>2, <1>3, <3>1 DEF ClockInv
    <2>4. CASE FireUpdate /\ q.loop.pc = "update"
               /\ crons' = UpdateCronRun(q.loop.name, q.loop.at, q.loop.next)
      <3>1. q.loop.at \in Nat /\ q.loop.at <= now
        BY <1>1, <2>4, LoopShape DEF ClockInv
      <3>2. \A m \in Name : crons'[m].last \in {crons[m].last, q.loop.at}
        BY <1>1, <2>4 DEF UpdateCronRun, CronRow
      <3> QED
        BY <1>1, <1>2, <1>3, <3>1, <3>2 DEF ClockInv
    <2>5. CASE crons' # crons /\ ~(Exit \/ Crash)
      <3>1. ASSUME NEW n \in Name
            PROVE  now + q.todo[n] \in Nat
        <4>1. q.todo \in Schedules /\ 0 \in Interval \cup {0}
          BY <1>1, Fields
        <4>2. q.todo[n] \in Nat
          BY <4>1, ScheduleType
        <4> QED
          BY <1>1, <4>2
      <3>2. CASE /\ StoreEntry /\ q.client.pc = "upsert"
                 /\ crons' = UpsertCron(q.client.name, q.client.next)
        BY <1>1, <2>3, <3>2, ClientShape
      <3> QED
        BY <2>3, <2>4, <2>5, <3>1, <3>2, TableSteps
    <2> QED
      BY <2>1, <2>2, <2>5
  <1>5. q'.loop.pc = "update" => q'.loop.at <= now'
    <2>1. CASE ~(Firing \/ LoopExit)
      <3>1. q'.loop = q.loop \/ q'.loop.pc \in {"off", "wait"}
        BY <2>1, LoopKept
      <3> QED
        BY <1>1, <1>2, <3>1, LoopShape DEF ClockInv
    <2>2. CASE Firing \/ LoopExit
      <3>1. \/ q'.loop.pc # "update"
            \/ q'.loop.at = now
        <4>1. ASSUME NEW n \in q.loop.due,
                     q'.loop = [pc |-> "update", due |-> q.loop.due \ {n},
                                name |-> n, at |-> now,
                                next |-> now + q.entries[n]]
              PROVE  q'.loop.at = now
          BY <4>1
        <4>2. \/ q'.loop.pc # "update"
              \/ \E n \in q.loop.due :
                    /\ FireLookup(n)
                    /\ q'.loop = [pc |-> "update", due |-> q.loop.due \ {n},
                                  name |-> n, at |-> now,
                                  next |-> now + q.entries[n]]
          BY <1>1, <2>2, LoopSteps DEF Off
        <4> QED
          BY <4>1, <4>2
      <3> QED
        BY <1>1, <1>2, <3>1
    <2> QED
      BY <2>1, <2>2
  <1> QED
    BY <1>4, <1>5 DEF ClockInv

LEMMA SpacedStep ==
    ASSUME LifecycleTypeOK, AloneInv, StopInv, QuietInv, ClockInv, SpacedInv,
           [LifecycleNext]_lifeVars
    PROVE  SpacedInv'
  <1>1. /\ q \in Memory /\ DOMAIN q = Field /\ q.entries \in Schedules
        /\ crons \in [Name -> CronRow] /\ now \in Nat
    BY Domain, Fields DEF LifecycleTypeOK
  <1>2. CASE Exit \/ Crash \/ Boot
    <2>1. q'.loop = Off /\ q'.entries = NoSchedules
      BY <1>2, FreshMemory
    <2> QED
      BY <2>1 DEF SpacedInv, Off, NoSchedules
  <1> SUFFICES ASSUME ~(Exit \/ Crash \/ Boot), ~q'.overlapped PROVE SpacedInv'
    BY <1>2 DEF SpacedInv
  <1>3. ~q.overlapped
    BY <1>1, OverlapStays
  <1>4. now' \in Nat /\ now' >= now
    BY ClockSteps
  <1>5. \A n \in Name : crons[n].last \in Nat /\ crons[n].next \in Nat
    BY <1>1 DEF CronRow
  <1>6. ASSUME crons' = crons, q'.entries = q.entries,
               q'.start = "failed" \/ q.start # "failed",
               q'.loop = q.loop \/ q'.loop.pc \in {"off", "wait"}
        PROVE  SpacedInv'
    <2>1. q.loop.pc \in {"fire", "update", "enqueue"} => q.loop.due \in SUBSET Name
      BY <1>1, LoopShape
    <2> QED
      BY <1>1, <1>3, <1>4, <1>5, <1>6, <2>1 DEF SpacedInv
  <1>7. CASE Program \/ Begun \/ CallStop \/ Stopping \/ PoolEnds
    <2>1. q'.start = q.start /\ q'.loop = q.loop
      BY <1>1, <1>7, ProgramKeeps, BegunKeeps, StoppingKeeps DEF Keeps, Field
    <2>2. ~SetEntry /\ ~StoreEntry
      BY <1>3, NoLateEntry
    <2>3. q'.entries = q.entries
      <3>1. CASE Begun
        BY <1>1, <2>2, <3>1
        DEF Begun, AddHandler, BufferCron, SetStopDash, RequestEnds, Memo, Field
      <3> QED
        BY <1>1, <1>7, <3>1, ProgramKeeps, StoppingKeeps DEF Keeps, Field
    <2>4. crons' = crons
      <3>1. CASE Program \/ Begun
        BY <2>2, <3>1
        DEF Program, Register, Dashboard, Request, Begun, AddHandler,
            BufferCron, SetStopDash, RequestEnds, Memo
      <3>2. CASE CallStop \/ Stopping \/ PoolEnds
        BY <3>2
        DEF CallStop, Stopping, StopScheduler, SchedulerStopped, StopPool,
            PoolStopped, StopDash, DashStopped, CloseStorage, Halt, PoolEnds,
            Memo
      <3> QED
        BY <1>7, <3>1, <3>2
    <2> QED
      BY <1>6, <2>1, <2>3, <2>4
  <1>8. CASE Starting \/ ContextDone
    <2>1. ASSUME NEW n \in Name, RegisterBuffered(n) PROVE SpacedInv'
      <3>1. q.loop.pc = "off" /\ q'.loop = q.loop
        BY <1>1, <2>1 DEF RegisterBuffered, StopInv, Field
      <3>2. CASE q'.start = "failed"
        BY <3>1, <3>2 DEF SpacedInv
      <3>3. CASE q'.start # "failed"
        <4>1. /\ q.start = "register" /\ q.todo[n] # 0
              /\ crons' = UpsertCron(n, now + q.todo[n])
              /\ q'.entries = [q.entries EXCEPT ![n] = q.todo[n]]
          BY <1>1, <2>1, <3>3 DEF RegisterBuffered, Field
        <4>2. q.todo \in Schedules /\ 0 \in Interval \cup {0}
          BY <1>1, Fields
        <4>3. q.todo[n] \in Nat
          BY <4>2, ScheduleType
        <4>4. /\ crons'[n].next = now + q.todo[n]
              /\ crons'[n].last \in {crons[n].last, 0}
              /\ \A m \in Name \ {n} : crons'[m] = crons[m]
          BY <1>1, <4>1
          DEF UpsertCron, SqliteUpsertCron, MemoryUpsertCron, CronRow
        <4>5. /\ q'.entries[n] = q.todo[n]
              /\ \A m \in Name \ {n} : q'.entries[m] = q.entries[m]
          BY <1>1, <4>1 DEF Schedules
        <4>6. crons'[n].next >= crons'[n].last + q'.entries[n]
          BY <1>1, <1>5, <4>3, <4>4, <4>5 DEF ClockInv
        <4> QED
          BY <1>3, <3>1, <4>1, <4>4, <4>5, <4>6 DEF SpacedInv
      <3> QED
        BY <3>2, <3>3
    <2>2. CASE Begin \/ BuildPool \/ BuildScheduler \/ StartPool \/ StartLoop
               \/ StartReturns \/ ContextDone
      <3>1. crons' = crons /\ q'.entries = q.entries /\ q.start # "failed"
        BY <1>1, <2>2
        DEF ContextDone, Begin, BuildPool, BuildScheduler, StartPool, StartLoop,
            StartReturns, Memo, Field
      <3>2. q'.loop = q.loop \/ q'.loop.pc \in {"off", "wait"}
        <4>1. CASE StartLoop
          BY <1>1, <4>1 DEF StartLoop, Memo, Field
        <4> QED
          BY <1>1, <2>2, <4>1
          DEF ContextDone, Begin, BuildPool, BuildScheduler, StartPool,
              StartReturns, Memo, Field
      <3> QED
        BY <1>6, <3>1, <3>2
    <2> QED
      BY <1>8, <2>1, <2>2 DEF Starting
  <1>9. CASE ClockTick \/ UNCHANGED lifeVars
    BY <1>6, <1>9 DEF ClockTick, lifeVars
  <1>10. CASE Firing \/ LoopExit
    <2>1. q'.start = q.start /\ q'.entries = q.entries
      BY <1>1, <1>10, FiringKeeps DEF Keeps, Field
    <2>2. /\ q.loop.pc \in {"fire", "update", "enqueue"} =>
                q.loop.due \in SUBSET Name
          /\ q.loop.pc = "update" => q.loop.name \in Name /\ q.loop.at \in Nat
      BY <1>1, LoopShape
    <2>3. ASSUME crons' = crons,
                 q'.loop.pc \in {"off", "wait", "fire"},
                 q'.loop.pc = "fire" =>
                    \A n \in q'.loop.due : crons[n].next <= now /\ n \in Name
          PROVE  SpacedInv'
      BY <1>1, <1>3, <1>4, <1>5, <2>1, <2>3 DEF SpacedInv
    <2>4. CASE FireQuery \/ FireEnd \/ LoopExit
      <3>1. crons' = crons
        BY <2>4 DEF FireQuery, FireEnd, LoopExit, Memo
      <3>2. \/ q'.loop = [pc |-> "fire", due |-> DueCrons]
            \/ q'.loop = [pc |-> "wait"]
            \/ q'.loop = Off
        BY <1>1, <2>4 DEF FireQuery, FireEnd, LoopExit, Memo, Field
      <3>3. \A n \in DueCrons : crons[n].next <= now /\ n \in Name
        BY DEF DueCrons
      <3> QED
        BY <2>3, <3>1, <3>2, <3>3 DEF Off
    <2>5. CASE FireEnqueue
      <3>1. /\ q.loop.pc = "enqueue" /\ crons' = crons
            /\ q'.loop = [pc |-> "fire", due |-> q.loop.due]
        BY <1>1, <2>5 DEF FireEnqueue, Field
      <3> QED
        BY <1>3, <2>2, <2>3, <3>1 DEF SpacedInv
    <2>6. ASSUME NEW n \in Name, FireSkip(n) PROVE SpacedInv'
      <3>1. /\ q.loop.pc = "fire" /\ crons' = crons
            /\ q'.loop = [q.loop EXCEPT !.due = @ \ {n}]
        BY <1>1, <2>6 DEF FireSkip, Memo, Field
      <3>2. q.loop = [pc |-> "fire", due |-> q.loop.due]
        BY <1>1, <3>1, LoopShape
      <3>3. q'.loop.pc = "fire" /\ q'.loop.due = q.loop.due \ {n}
        BY <3>1, <3>2
      <3> QED
        BY <1>3, <2>2, <2>3, <3>1, <3>3 DEF SpacedInv
    <2>7. ASSUME NEW n \in Name, FireLookup(n) PROVE SpacedInv'
      <3>1. /\ q.loop.pc = "fire" /\ crons' = crons /\ n \in q.loop.due
            /\ now' = now
            /\ q'.loop = [pc |-> "update", due |-> q.loop.due \ {n},
                          name |-> n, at |-> now, next |-> now + q.entries[n]]
        BY <1>1, <2>7 DEF FireLookup, Memo, Field
      <3>2. \A m \in q.loop.due : crons[m].next <= now
        BY <1>3, <3>1 DEF SpacedInv
      <3>3. /\ q'.loop.pc = "update" /\ q'.loop.due = q.loop.due \ {n}
            /\ q'.loop.name = n /\ q'.loop.at = now
            /\ q'.loop.next = now + q.entries[n]
        BY <3>1
      <3> QED
        BY <1>3, <2>1, <3>1, <3>2, <3>3 DEF SpacedInv
    <2>8. CASE FireUpdate
      <3>1. CASE /\ crons' = crons
                 /\ q'.loop = [pc |-> "fire", due |-> q.loop.due]
        <4>1. q.loop.pc = "update"
          BY <2>8 DEF FireUpdate
        <4> QED
          BY <1>3, <2>2, <2>3, <3>1, <4>1 DEF SpacedInv
      <3>2. CASE /\ crons' = UpdateCronRun(q.loop.name, q.loop.at, q.loop.next)
                 /\ q'.loop = [pc |-> "enqueue", due |-> q.loop.due,
                               name |-> q.loop.name]
        <4> DEFINE m == q.loop.name
        <4>1. /\ q.loop.pc = "update" /\ now' = now
          BY <2>8 DEF FireUpdate
        <4>2. /\ m \in Name /\ q.loop.at \in Nat /\ q.loop.due \in SUBSET Name
              /\ m \notin q.loop.due
              /\ q.loop.next = q.loop.at + q.entries[m]
              /\ \A n \in q.loop.due : crons[n].next <= now
          BY <1>3, <2>2, <4>1 DEF SpacedInv
        <4>3. /\ crons'[m].last = q.loop.at /\ crons'[m].next = q.loop.next
              /\ \A n \in Name \ {m} : crons'[n] = crons[n]
          BY <1>1, <3>2, <4>2 DEF UpdateCronRun, CronRow
        <4>4. q.start # "failed"
          BY <4>1 DEF StopInv
        <4>5. crons'[m].next >= crons'[m].last + q.entries[m]
          <5>1. q.entries[m] \in Nat
            BY <1>1, <4>2, ScheduleType
          <5> QED
            BY <4>2, <4>3, <5>1
        <4>6. /\ q'.loop.pc = "enqueue" /\ q'.loop.due = q.loop.due
          BY <3>2
        <4> HIDE DEF m
        <4> QED
          BY <1>3, <2>1, <4>1, <4>2, <4>3, <4>4, <4>5, <4>6 DEF SpacedInv
      <3> QED
        BY <1>1, <2>8, <3>1, <3>2 DEF FireUpdate, Field
    <2> QED
      BY <1>10, <2>4, <2>5, <2>6, <2>7, <2>8 DEF Firing
  <1> QED
    BY <1>7, <1>8, <1>9, <1>10 DEF LifecycleNext
(* Who records a run. *)
LEMMA StampSteps ==
    ASSUME [LifecycleNext]_lifeVars, stamps' # stamps
    PROVE  /\ q.loop.pc = "update"
           /\ crons' = UpdateCronRun(q.loop.name, q.loop.at, q.loop.next)
           /\ stamps' = [stamps EXCEPT ![q.loop.name] = @ + 1]
  <1>1. CASE Program \/ Begun
    BY <1>1
    DEF Program, Register, Dashboard, Request, Begun, AddHandler, BufferCron,
        SetEntry, StoreEntry, SetStopDash, RequestEnds, Memo
  <1>2. CASE Exit \/ Crash \/ Boot \/ ClockTick \/ UNCHANGED lifeVars
    BY <1>2 DEF Exit, Crash, Gone, Boot, ClockTick, lifeVars
  <1>3. CASE Starting \/ ContextDone
    BY <1>3
    DEF Starting, ContextDone, Begin, BuildPool, BuildScheduler,
        RegisterBuffered, StartPool, StartLoop, StartReturns, Memo
  <1>4. CASE CallStop \/ Stopping \/ PoolEnds
    BY <1>4
    DEF CallStop, Stopping, StopScheduler, SchedulerStopped, StopPool,
        PoolStopped, StopDash, DashStopped, CloseStorage, Halt, PoolEnds, Memo
  <1>5. CASE Firing \/ LoopExit
    <2>1. CASE FireUpdate
      BY <2>1 DEF FireUpdate
    <2> QED
      BY <1>5, <2>1
      DEF Firing, FireQuery, FireEnd, FireSkip, FireLookup, FireEnqueue,
          LoopExit, Memo
  <1> QED
    BY <1>1, <1>2, <1>3, <1>4, <1>5 DEF LifecycleNext

(* Two runs of an entry are an interval apart, also across restarts that   *)
(* change the interval (cronScheduler.fire, UpdateCronRun).                *)
THEOREM LifecycleRunsSpaced == LifecycleSpec => RunsSpaced
  <1>1. LifecycleInit => QuietInv /\ ClockInv /\ SpacedInv
    BY DEF LifecycleInit, NewQueue, NoRow, NoSchedules, QuietInv, ClockInv,
           SpacedInv, Off
  <1>2. ASSUME LifecycleTypeOK, EntryInv, SpacedInv, StopInv,
               [LifecycleNext]_lifeVars
        PROVE  [\A n \in Name :
                  stamps'[n] > stamps[n] /\ crons[n].last # 0 /\ ~q.overlapped
                  => crons'[n].last >= crons[n].last + q.entries[n]]_lifeVars
    <2> SUFFICES ASSUME NEW n \in Name, stamps'[n] > stamps[n], ~q.overlapped
                 PROVE  crons'[n].last >= crons[n].last + q.entries[n]
      OBVIOUS
    <2>1. /\ q \in Memory /\ q.entries \in Schedules
          /\ crons \in [Name -> CronRow] /\ stamps \in [Name -> Nat]
      BY <1>2, Fields DEF LifecycleTypeOK
    <2>2. stamps' # stamps
      BY <2>1
    <2>3. /\ q.loop.pc = "update"
          /\ crons' = UpdateCronRun(q.loop.name, q.loop.at, q.loop.next)
          /\ stamps' = [stamps EXCEPT ![q.loop.name] = @ + 1]
      BY <1>2, <2>2, StampSteps
    <2>4. n = q.loop.name
      BY <2>1, <2>3
    <2>5. q.loop.at \in Nat /\ crons'[n].last = q.loop.at
      BY <2>1, <2>3, <2>4, LoopShape DEF UpdateCronRun, CronRow
    <2>6. q.start # "failed"
      BY <1>2, <2>3 DEF StopInv
    <2>7. /\ crons[n].next <= q.loop.at
          /\ crons[n].next >= crons[n].last + q.entries[n]
      BY <1>2, <2>3, <2>4, <2>6 DEF SpacedInv, EntryInv
    <2>8. crons[n].last \in Nat /\ crons[n].next \in Nat /\ q.entries[n] \in Nat
      <3>1. 0 \in Interval \cup {0}
        OBVIOUS
      <3>2. q.entries[n] \in Nat
        BY <2>1, <3>1, ScheduleType
      <3> QED
        BY <2>1, <3>2 DEF CronRow
    <2> QED
      BY <2>5, <2>7, <2>8
  <1> QED
    BY <1>1, <1>2, EntryInitial, EntryStep, AloneInitial, AloneStep,
       StopInitial, StopStep, QuietStep, ClockStep, SpacedStep, LifecycleTypeCorrect, PTL
    DEF LifecycleSpec, RunsSpaced

=============================================================================
