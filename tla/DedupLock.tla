----------------------------- MODULE DedupLock -----------------------------
(***************************************************************************)
(* What deduplication promises, without tables, clocks or workers: each    *)
(* key is a lock.  A job takes it when it is enqueued, keeps it through    *)
(* every execution and retry, and after its completion for as long as the  *)
(* TTL window is open.  Another job gets the key only when it is free or   *)
(* its window has lapsed, or by replacing the holder, which is allowed     *)
(* only for keys used in Replace mode and never while the holder executes. *)
(***************************************************************************)
CONSTANTS
    Key, JobId,
    Replaceable(_),   \* whether a key is used in Replace mode
    NoHolder          \* the holder of a key that no row names

VARIABLES
    holder,    \* the job that has each key
    phase      \* "free", "waiting", "executing", "cooling" or "lapsed"

lockVars == <<holder, phase>>

LockInit ==
    /\ holder = [k \in Key |-> NoHolder]
    /\ phase = [k \in Key |-> "free"]

(* Key k goes from one of the phases `from' to `to' with the same holder. *)
Move(k, from, to) ==
    /\ phase[k] \in from
    /\ phase'[k] = to
    /\ holder'[k] = holder[k]

(* Another job gets the key. *)
Pass(k, from) ==
    /\ phase[k] \in from
    /\ phase'[k] = "waiting"
    /\ holder'[k] \in JobId \ {holder[k]}

Acquire(k) == Pass(k, {"free", "lapsed"})
Supersede(k) == Replaceable(k) /\ Pass(k, {"waiting", "cooling"})
Begin(k) == Move(k, {"waiting"}, "executing")
GoBack(k) == Move(k, {"executing"}, "waiting")           \* retry, recovery
Complete(k) == \/ Move(k, {"executing"}, "cooling")
               \/ Move(k, {"executing"}, "lapsed")
Lapse(k) == Move(k, {"cooling"}, "lapsed")
Revive(k) == Move(k, {"cooling", "lapsed"}, "waiting")   \* retry by hand

KeyStep(k) ==
    \/ Acquire(k) \/ Supersede(k) \/ Begin(k) \/ GoBack(k)
    \/ Complete(k) \/ Lapse(k) \/ Revive(k)

(* One statement of the database, or one tick of the clock, may move       *)
(* several keys.                                                           *)
LockNext ==
    \A k \in Key : KeyStep(k) \/ (phase'[k] = phase[k] /\ holder'[k] = holder[k])

LockSpec == LockInit /\ [][LockNext]_lockVars

=============================================================================
