--------------------------- MODULE RetrySchedule ---------------------------
(***************************************************************************)
(* The delays that one job which always fails is given, attempt after      *)
(* attempt: the failure branch of dispatch (worker.go) for a job that is   *)
(* alone in the queue, with the limit and the policy that the options of   *)
(* New, of its JobDef and of its Enqueue leave.                            *)
(***************************************************************************)
EXTENDS Backoff, JobOptions

CONSTANTS
    Queues,       \* the option lists of New
    Chains,       \* the With* chains of the JobDef
    Pushes,       \* the option lists of Enqueue
    MaxAttempt    \* bound on the number of attempts followed

ASSUME ScheduleAssumption == MaxAttempt \in Nat

(* An option list, in which a number of attempts is an integer and a       *)
(* backoff is a Duration.                                                  *)
IsOptionList(options) ==
    /\ options \in Seq({options[n] : n \in DOMAIN options})
    /\ \A n \in DOMAIN options :
          /\ options[n].field = "maxAttempts" => options[n].value \in Int
          /\ options[n].field \in {"base", "cap"} =>
                options[n].value \in Duration

ASSUME OptionAssumption ==
    /\ \A options \in Queues \cup Chains \cup Pushes : IsOptionList(options)
    /\ DefaultBase \in Duration /\ DefaultCap \in Duration

VARIABLES
    pool, def,         \* the configuration of the queue and the JobDef
    chain, push,       \* the options they and the job were made with
    byCron,            \* whether the scheduler enqueued the job
    limit,             \* its MaxAttempts
    attempts, delay, dead

given == <<pool, def, chain, push, byCron, limit>>
scheduleVars == <<given, attempts, delay, dead>>

ScheduleTypeOK ==
    /\ pool \in {New(q) : q \in Queues}
    /\ chain \in Chains /\ push \in Pushes /\ byCron \in BOOLEAN
    /\ <<def.base, def.cap>> \in Duration \X Duration
    /\ limit \in Int
    /\ attempts \in Nat /\ dead \in BOOLEAN
    /\ delay \in Duration

ScheduleInit ==
    /\ pool \in {New(q) : q \in Queues}
    /\ chain \in Chains /\ push \in Pushes
    /\ byCron \in BOOLEAN /\ (byCron => push = <<>>)
    /\ def = Defined("job", chain)
    /\ limit = IF byCron THEN CronConfig(def, 0).maxAttempts
                         ELSE Pushed(def, push).maxAttempts
    /\ attempts = 0 /\ delay = 0 /\ dead = FALSE

(* The handler fails and the job is scheduled again. *)
Retry ==
    LET attempt == attempts + 1 IN
    /\ ~dead /\ attempt <= MaxAttempt
    /\ IsRetryable(attempt, limit)
    /\ delay' \in CalcBackoff(pool, def, attempt)
    /\ attempts' = attempt
    /\ UNCHANGED <<given, dead>>

DeadLetter ==
    LET attempt == attempts + 1 IN
    /\ ~dead /\ attempt <= MaxAttempt
    /\ ~IsRetryable(attempt, limit)
    /\ attempts' = attempt
    /\ dead' = TRUE
    /\ UNCHANGED <<given, delay>>

ScheduleNext == Retry \/ DeadLetter

ScheduleSpec == ScheduleInit /\ [][ScheduleNext]_scheduleVars

-----------------------------------------------------------------------------
Base == Override(def.base, pool.base)
Cap == Override(def.cap, pool.cap)

(* What the comment on WithBackoffBase promises of the delay after attempt *)
(* n: min(base * 2^(n-1), cap).                                            *)
Promised(n) ==
    LET d == Base * Power2[n - 1] IN IF d <= Cap THEN d ELSE Cap

(* The delay follows the documented formula, for every attempt.            *)
DelayAsDocumented == attempts > 0 /\ ~dead => delay = Promised(attempts)

(* "Backoff grows up to [the cap] and then stays constant" (job.go): as    *)
(* long as base * 2^(n-1) fits a Duration, each delay is twice the one     *)
(* before it until the cap is reached, and then the cap for good.  (Half   *)
(* of a cap below zero is above it: with one, no delay doubles into it.)   *)
Fits(n) == Base * Power2[n - 1] \in Duration

GrowsThenStays ==
    [][attempts > 0 /\ ~dead' /\ Fits(attempts') /\ Cap >= 0
       => delay' = IF 2 * delay <= Cap THEN 2 * delay ELSE Cap]_scheduleVars

(* A job is executed as often as its program asked for, then it is dead:   *)
(* the last Attempts option of the push, else the last WithAttempts, else  *)
(* 3.  A negative number is Unlimited and never dead; 0 means one          *)
(* execution when a caller enqueues the job but three when cron does.      *)
Asked ==
    LET options == chain \o push
        asking == {n \in DOMAIN options : options[n].field = "maxAttempts"} IN
    IF asking = {} THEN 3 ELSE options[Max(asking)].value

DeadAfterLimit ==
    dead => /\ Asked >= 0
            /\ attempts = IF Asked > 0 THEN Asked ELSE IF byCron THEN 3 ELSE 1

=============================================================================
