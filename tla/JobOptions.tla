----------------------------- MODULE JobOptions -----------------------------
(***************************************************************************)
(* Functional options (options.go) and JobDefs (job.go).  Every option is  *)
(* a closure that assigns one field of a configuration; New, Enqueue and   *)
(* the With* chain of a JobDef apply a list of them in order.              *)
(*                                                                         *)
(* Options without a field that a decision of the models reads (database   *)
(* path, storage, logger, poll interval, timeout of a handler) are left    *)
(* out.                                                                    *)
(***************************************************************************)
EXTENDS Integers, Sequences, SequencesExt

CONSTANTS
    NoKey,                      \* the empty DedupKey
    DefaultBase, DefaultCap     \* 30s and 1h, in clock units

Set(name, value) == [field |-> name, value |-> value]

Apply(options, cfg) ==
    FoldLeft(LAMBDA c, o : [c EXCEPT ![o.field] = o.value], cfg, options)

-----------------------------------------------------------------------------
(* The queue: New(opts...). *)
WithConcurrency(n) == Set("concurrency", n)
WithBackoffBase(d) == Set("base", d)
WithBackoffCap(d) == Set("cap", d)
WithShutdownTimeout(d) == Set("shutdownTimeout", d)

DefaultConfig ==
    [concurrency |-> 10, base |-> DefaultBase, cap |-> DefaultCap,
     shutdownTimeout |-> 0]

New(options) == Apply(options, DefaultConfig)

(* A JobDef: Def(name).With...().  WithBackoff assigns two fields; 0 means *)
(* that the queue's value is used.                                         *)
WithAttempts(n) == <<Set("maxAttempts", n)>>
WithBackoff(base, max) == <<Set("base", base), Set("cap", max)>>

Def(name) == [name |-> name, maxAttempts |-> 3, base |-> 0, cap |-> 0]

Defined(name, chain) == Apply(chain, Def(name))

-----------------------------------------------------------------------------
(* Push options; t is the time.Now() that After reads. *)
Attempts(n) == Set("maxAttempts", n)
After(d, t) == Set("runAt", t + d)
At(time) == Set("runAt", time)
DedupKey(k) == Set("dedupKey", k)
DedupReplace == Set("dedupMode", "replace")
DedupTTL(d) == Set("dedupTTL", d)

DefaultPushConfig(t) ==
    [maxAttempts |-> 3, runAt |-> t, dedupKey |-> NoKey,
     dedupMode |-> "ignore", dedupTTL |-> 0]

(* Seeded fault: the JobDef's attempts are applied after the caller's. *)
EnqueueConfigDefLast(def, options, t) ==
    Apply(options \o <<Attempts(def.maxAttempts)>>, DefaultPushConfig(t))

(* Enqueue: the JobDef's attempts come first, the caller's options after.  *)
EnqueueConfig(def, options, t) ==
    Apply(<<Attempts(def.maxAttempts)>> \o options, DefaultPushConfig(t))

(* The scheduler's enqueue: a JobDef without attempts gets three. *)
CronConfig(def, t) ==
    [DefaultPushConfig(t) EXCEPT
        !.maxAttempts = IF def.maxAttempts = 0 THEN 3 ELSE def.maxAttempts]

(* What enqueueRaw hands to the storage. *)
EnqueueRaw(name, cfg, t) ==
    [type |-> name, key |-> cfg.dedupKey, ttl |-> cfg.dedupTTL,
     maxAttempts |-> cfg.maxAttempts, delay |-> cfg.runAt - t,
     mode |-> cfg.dedupMode]

(* Enqueue(ctx, def, payload, options...), with delays counted from 0. *)
Pushed(def, options) ==
    EnqueueRaw(def.name, EnqueueConfig(def, options, 0), 0)

=============================================================================
