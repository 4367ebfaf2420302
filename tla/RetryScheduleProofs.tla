------------------------ MODULE RetryScheduleProofs ------------------------
(***************************************************************************)
(* Theorems about RetrySchedule, for every option list, every policy and   *)
(* every number of attempts.                                               *)
(*                                                                         *)
(* The module is about two computations that end somewhere: the options,   *)
(* applied one after the other, leave in each field the last value given   *)
(* to it (ApplyLeavesLast), and base * 2^(n-1), doubled attempt after      *)
(* attempt, is the documented delay.  Both are inductions on a number.     *)
(* They are done on SETS of numbers, not on formulas: NatSetInduction      *)
(* follows from the order of the naturals being well-founded.              *)
(***************************************************************************)
EXTENDS RetrySchedule, WellFoundedInduction, TLAPS

(* A set of naturals with 0 and the successors of its members is Nat. *)
LEMMA NatSetInduction ==
    ASSUME NEW S, 0 \in S, \A n \in Nat : n \in S => n + 1 \in S
    PROVE  Nat \subseteq S
  <1> SUFFICES ASSUME Nat \ S # {} PROVE FALSE
    OBVIOUS
  <1> DEFINE T == Nat \ S
  <1>1. T \subseteq Nat
    OBVIOUS
  <1>2. PICK x \in T : \A y \in T : <<y, x>> \notin OpToRel(<, Nat)
    BY <1>1, NatLessThanWellFounded, WFMin
  <1>3. \A y \in T : ~(y < x)
    BY <1>1, <1>2 DEF OpToRel
  <1>4. x # 0 /\ x - 1 \in Nat
    OBVIOUS
  <1>5. x - 1 \in S
    BY <1>3, <1>4
  <1> QED BY <1>4, <1>5

-----------------------------------------------------------------------------
(* The greatest element of a set of positions. *)

(* An upper bound of a set that belongs to it is its maximum. *)
LEMMA MaxIs ==
    ASSUME NEW s \in SUBSET Nat, NEW x \in s, \A y \in s : x >= y
    PROVE  Max(s) = x
  <1>1. Max(s) \in s /\ \A y \in s : Max(s) >= y
    BY DEF Max
  <1>2. Max(s) \in Nat /\ x \in Nat
    BY <1>1
  <1>3. Max(s) >= x /\ x >= Max(s)
    BY <1>1
  <1> QED BY <1>2, <1>3

(* A nonempty set of positions of a list has a maximum. *)
LEMMA MaxOfPositions ==
    ASSUME NEW N \in Nat, NEW s \in SUBSET (1 .. N), s # {}
    PROVE  Max(s) \in s /\ \A y \in s : Max(s) >= y
  <1> DEFINE below == {k \in Nat : \E y \in s : k = N - y}
  <1>1. below # {} /\ below \subseteq Nat
    <2>1. PICK y : y \in s
      OBVIOUS
    <2>2. N - y \in below
      BY <2>1
    <2> QED BY <2>2
  <1>2. PICK k \in below : \A j \in below : <<j, k>> \notin OpToRel(<, Nat)
    BY <1>1, NatLessThanWellFounded, WFMin
  <1>3. \A j \in below : ~(j < k)
    BY <1>1, <1>2 DEF OpToRel
  <1>4. PICK x \in s : k = N - x
    BY <1>2
  <1>5. ASSUME NEW y \in s PROVE x >= y
    <2>1. N - y \in below
      OBVIOUS
    <2>2. ~(N - y < N - x)
      BY <2>1, <1>3, <1>4
    <2>3. x \in 1 .. N /\ y \in 1 .. N
      OBVIOUS
    <2> QED BY <2>2, <2>3
  <1> QED BY <1>5 DEF Max

-----------------------------------------------------------------------------
(* What a list of options leaves in a configuration. *)

(* The value that the options at positions s leave in field f. *)
Latest(options, s, f, default) ==
    LET giving == {n \in s : options[n].field = f} IN
    IF giving = {} THEN default ELSE options[Max(giving)].value

(* The configuration after the options at positions s. *)
Left(options, s, cfg) ==
    [f \in DOMAIN cfg |-> Latest(options, s, f, cfg[f])]

(* The fold that Apply runs, on a set of positions. *)
Folded(options, cfg) ==
    LET iter[s \in SUBSET DOMAIN options] ==
            IF s = {} THEN cfg
            ELSE LET x == Max(s) IN
                 [iter[s \ {x}] EXCEPT ![options[x].field] = options[x].value]
    IN iter

LEMMA ApplyIsFolded ==
    ASSUME NEW options, NEW cfg
    PROVE  Apply(options, cfg) = Folded(options, cfg)[DOMAIN options]
  BY DEF Apply, FoldLeft, MapThenFoldSet, Folded

(* The last option of a set of positions is applied last: it wins its own  *)
(* field and leaves the others alone.                                      *)
LEMMA LastOptionWins ==
    ASSUME NEW options, NEW cfg, NEW N \in Nat,
           NEW s \in SUBSET (1 .. N), s # {}
    PROVE  Left(options, s, cfg)
           = [Left(options, s \ {Max(s)}, cfg) EXCEPT
                 ![options[Max(s)].field] = options[Max(s)].value]
  <1> DEFINE x == Max(s)
  <1>1. x \in s /\ \A y \in s : x >= y
    BY MaxOfPositions
  <1> HIDE DEF x
  <1>2. ASSUME NEW f \in DOMAIN cfg, f = options[x].field
        PROVE  Latest(options, s, f, cfg[f]) = options[x].value
    <2> DEFINE g == {n \in s : options[n].field = f}
    <2>1. x \in g
      BY <1>1, <1>2
    <2>2. Max(g) = x
      <3>1. g \subseteq s
        OBVIOUS
      <3> HIDE DEF g
      <3>2. g \in SUBSET Nat
        BY <3>1
      <3>3. \A y \in g : x >= y
        BY <3>1, <1>1
      <3> QED BY <2>1, <3>2, <3>3, MaxIs
    <2> QED BY <2>1, <2>2 DEF Latest
  <1>3. ASSUME NEW f \in DOMAIN cfg, f # options[x].field
        PROVE  Latest(options, s, f, cfg[f])
               = Latest(options, s \ {x}, f, cfg[f])
    <2>1. {n \in s : options[n].field = f}
          = {n \in s \ {x} : options[n].field = f}
      BY <1>3
    <2> QED BY <2>1 DEF Latest
  <1>4. Left(options, s, cfg)
        = [Left(options, s \ {x}, cfg) EXCEPT
              ![options[x].field] = options[x].value]
    BY <1>2, <1>3 DEF Left
  <1> QED BY <1>4 DEF x

(* The options at no position leave the configuration as it was. *)
LEMMA NoOptions ==
    ASSUME NEW options, NEW cfg, cfg = [f \in DOMAIN cfg |-> cfg[f]]
    PROVE  Left(options, {}, cfg) = cfg
  <1>1. \A f \in DOMAIN cfg : Latest(options, {}, f, cfg[f]) = cfg[f]
    BY DEF Latest
  <1> QED BY <1>1 DEF Left

(* Applying a list of options leaves in every field the last value that    *)
(* an option gives to it, and where none does what was there before.       *)
THEOREM ApplyLeavesLast ==
    ASSUME NEW O, NEW options \in Seq(O), NEW cfg,
           cfg = [f \in DOMAIN cfg |-> cfg[f]]
    PROVE  Apply(options, cfg) = Left(options, DOMAIN options, cfg)
  <1> DEFINE N == Len(options)
             D == DOMAIN options
             Step(g) == [s \in SUBSET D |->
                 IF s = {} THEN cfg
                 ELSE [g[s \ {Max(s)}] EXCEPT
                          ![options[Max(s)].field] = options[Max(s)].value]]
             result == [s \in SUBSET D |-> Left(options, s, cfg)]
             iter == Folded(options, cfg)
  <1>1. N \in Nat /\ D = 1 .. N
    OBVIOUS
  <1>2. result = Step(result)
    <2>1. ASSUME NEW s \in SUBSET D, s # {}
          PROVE  result[s]
                 = [result[s \ {Max(s)}] EXCEPT
                       ![options[Max(s)].field] = options[Max(s)].value]
      <3>1. s \ {Max(s)} \in SUBSET D
        OBVIOUS
      <3>2. s \in SUBSET (1 .. N)
        BY <1>1
      <3>3. result[s] = Left(options, s, cfg)
        OBVIOUS
      <3>4. result[s \ {Max(s)}] = Left(options, s \ {Max(s)}, cfg)
        BY <3>1
      <3> HIDE DEF result, N, D
      <3>5. Left(options, s, cfg)
            = [Left(options, s \ {Max(s)}, cfg) EXCEPT
                  ![options[Max(s)].field] = options[Max(s)].value]
        BY <3>2, <1>1, <2>1, LastOptionWins
      <3> QED BY <3>3, <3>4, <3>5, Zenon
    <2>2. result[{}] = cfg
      BY NoOptions
    <2> HIDE DEF D
    <2> QED BY <2>1, <2>2, Zenon
  <1>3. iter = CHOOSE g : g = Step(g)
    BY DEF Folded
  <1> HIDE DEF iter, result
  <1>4. iter = Step(iter)
    <2> HIDE DEF Step
    <2> QED BY <1>2, <1>3, Zenon
  <1> DEFINE S == {n \in Nat : \A s \in SUBSET D :
                      s \subseteq 1 .. n => iter[s] = Left(options, s, cfg)}
  <1>5. 0 \in S
    <2>1. iter[{}] = cfg
      BY <1>4, Zenon
    <2>2. \A s : s \subseteq 1 .. 0 => s = {}
      OBVIOUS
    <2> QED BY <2>1, <2>2, NoOptions, Zenon
  <1>6. ASSUME NEW n \in Nat, n \in S PROVE n + 1 \in S
    <2> SUFFICES ASSUME NEW s \in SUBSET D, s \subseteq 1 .. n + 1, s # {}
                 PROVE  iter[s] = Left(options, s, cfg)
      BY <1>5
    <2> DEFINE x == Max(s)
    <2>1. x \in s /\ \A y \in s : x >= y
      BY MaxOfPositions
    <2> HIDE DEF x
    <2>2. s \ {x} \in SUBSET D /\ s \ {x} \subseteq 1 .. n
      BY <2>1
    <2>3. iter[s \ {x}] = Left(options, s \ {x}, cfg)
      BY <2>2, <1>6
    <2>4. iter[s] = [iter[s \ {x}] EXCEPT
                        ![options[x].field] = options[x].value]
      BY <1>4 DEF x
    <2>5. Left(options, s, cfg)
          = [Left(options, s \ {x}, cfg) EXCEPT
                ![options[x].field] = options[x].value]
      BY LastOptionWins, n + 1 \in Nat DEF x
    <2> QED BY <2>3, <2>4, <2>5, Zenon
  <1>7. Nat \subseteq S
    <2> HIDE DEF S
    <2> QED BY <1>5, <1>6, NatSetInduction
  <1>8. iter[D] = Left(options, D, cfg)
    BY <1>1, <1>7
  <1> QED BY <1>8, ApplyIsFolded DEF iter

(* One list after the other: the second starts from what the first left. *)
LEMMA LatestOfConcat ==
    ASSUME NEW O, NEW a \in Seq(O), NEW b \in Seq(O), NEW f, NEW default
    PROVE  Latest(a \o b, DOMAIN (a \o b), f, default)
           = Latest(b, DOMAIN b, f, Latest(a, DOMAIN a, f, default))
  <1> DEFINE c == a \o b
             ga == {n \in DOMAIN a : a[n].field = f}
             gb == {n \in DOMAIN b : b[n].field = f}
             gc == {n \in DOMAIN c : c[n].field = f}
  <1>1. /\ DOMAIN a = 1 .. Len(a) /\ DOMAIN b = 1 .. Len(b)
        /\ DOMAIN c = 1 .. Len(a) + Len(b)
        /\ Len(a) \in Nat /\ Len(b) \in Nat
    OBVIOUS
  <1>2. \A n \in 1 .. Len(a) : c[n] = a[n]
    OBVIOUS
  <1>3. \A n \in 1 .. Len(b) : c[Len(a) + n] = b[n]
    OBVIOUS
  <1>4. \A n \in 1 .. Len(a) + Len(b) :
            n \in 1 .. Len(a) \/ n - Len(a) \in 1 .. Len(b)
    OBVIOUS
  <1>5. \A n \in 1 .. Len(a) + Len(b) :
            n - Len(a) \in 1 .. Len(b) => c[n] = b[n - Len(a)]
    BY <1>3
  <1> HIDE DEF c
  <1>6. CASE gb = {}
    <2>1. gc = ga
      <3>1. ASSUME NEW n \in gc PROVE n \in ga
        <4>1. n \in 1 .. Len(a) + Len(b) /\ c[n].field = f
          BY <1>1
        <4>2. n - Len(a) \notin 1 .. Len(b)
          BY <4>1, <1>1, <1>5, <1>6
        <4>3. n \in 1 .. Len(a)
          BY <4>1, <4>2, <1>4
        <4> QED BY <4>1, <4>3, <1>1, <1>2
      <3>2. ASSUME NEW n \in ga PROVE n \in gc
        BY <1>1, <1>2
      <3> QED BY <3>1, <3>2
    <2>2. CASE ga = {}
      BY <1>6, <2>1, <2>2 DEF Latest, c
    <2>3. CASE ga # {}
      <3>1. Max(ga) \in ga
        <4>1. ga \in SUBSET (1 .. Len(a))
          BY <1>1
        <4> HIDE DEF ga
        <4> QED BY <4>1, <2>3, <1>1, MaxOfPositions
      <3>2. c[Max(ga)].value = a[Max(ga)].value
        BY <3>1, <1>1, <1>2
      <3>3. Latest(c, DOMAIN c, f, default) = c[Max(ga)].value
        BY <2>1, <2>3 DEF Latest
      <3>4. Latest(a, DOMAIN a, f, default) = a[Max(ga)].value
        BY <2>3 DEF Latest
      <3>5. \A d : Latest(b, DOMAIN b, f, d) = d
        BY <1>6 DEF Latest
      <3> QED BY <3>2, <3>3, <3>4, <3>5 DEF c
    <2> QED BY <2>2, <2>3
  <1>7. CASE gb # {}
    <2> DEFINE m == Max(gb)
               x == Len(a) + m
    <2>1. m \in gb /\ \A n \in gb : m >= n
      <3>1. gb \in SUBSET (1 .. Len(b))
        BY <1>1
      <3> HIDE DEF gb
      <3> QED BY <3>1, <1>7, <1>1, MaxOfPositions
    <2> HIDE DEF m
    <2>2. x \in gc
      <3>1. m \in 1 .. Len(b) /\ b[m].field = f
        BY <2>1, <1>1
      <3>2. x \in 1 .. Len(a) + Len(b)
        BY <3>1, <1>1
      <3> QED BY <3>1, <3>2, <1>1, <1>3
    <2>3. ASSUME NEW n \in gc PROVE x >= n
      <3>1. n \in 1 .. Len(a) + Len(b) /\ c[n].field = f
        BY <1>1
      <3>2. m \in 1 .. Len(b)
        BY <2>1, <1>1
      <3>3. CASE n \in 1 .. Len(a)
        BY <3>3, <3>2, <1>1
      <3>4. CASE n - Len(a) \in 1 .. Len(b)
        <4>1. n - Len(a) \in gb
          BY <3>1, <3>4, <1>1, <1>5
        <4>2. m >= n - Len(a)
          BY <4>1, <2>1
        <4> QED BY <4>2, <3>1, <3>2, <1>1
      <3> QED BY <3>1, <3>3, <3>4, <1>4
    <2>4. gc \in SUBSET Nat
      BY <1>1
    <2>5. Max(gc) = x
      <3> HIDE DEF gc, x
      <3> QED BY <2>2, <2>3, <2>4, MaxIs
    <2>6. Latest(c, DOMAIN c, f, default) = c[x].value
      BY <2>2, <2>5 DEF Latest
    <2>7. \A d : Latest(b, DOMAIN b, f, d) = b[m].value
      BY <1>7 DEF Latest, m
    <2>8. c[x] = b[m]
      BY <2>1, <1>1, <1>3
    <2> QED BY <2>6, <2>7, <2>8 DEF c
  <1> QED BY <1>6, <1>7

(* The option list of one option leaves its value in its field. *)
LEMMA LatestOfOne ==
    ASSUME NEW name, NEW value, NEW default
    PROVE  Latest(<<Set(name, value)>>, DOMAIN <<Set(name, value)>>, name,
                  default) = value
  <1> DEFINE one == <<Set(name, value)>>
             g == {n \in DOMAIN one : one[n].field = name}
  <1>1. DOMAIN one = {1} /\ one[1].field = name /\ one[1].value = value
    BY DEF Set
  <1> HIDE DEF one
  <1>2. g = {1}
    BY <1>1
  <1>3. Max({1}) = 1
    BY MaxIs
  <1>4. Latest(one, DOMAIN one, name, default) = value
    BY <1>1, <1>2, <1>3 DEF Latest
  <1> QED BY <1>4 DEF one

(* The same for one field of the configuration. *)
LEMMA AppliedField ==
    ASSUME NEW O, NEW options \in Seq(O), NEW cfg,
           cfg = [f \in DOMAIN cfg |-> cfg[f]], NEW f \in DOMAIN cfg
    PROVE  Apply(options, cfg)[f] = Latest(options, DOMAIN options, f, cfg[f])
  BY ApplyLeavesLast DEF Left

(* The options of New: the policy of the pool. *)
LEMMA NewPolicy ==
    ASSUME NEW O, NEW q \in Seq(O)
    PROVE  /\ New(q).base = Latest(q, DOMAIN q, "base", DefaultBase)
           /\ New(q).cap = Latest(q, DOMAIN q, "cap", DefaultCap)
  <1>1. /\ DefaultConfig = [f \in DOMAIN DefaultConfig |-> DefaultConfig[f]]
        /\ "base" \in DOMAIN DefaultConfig /\ "cap" \in DOMAIN DefaultConfig
        /\ DefaultConfig["base"] = DefaultBase
        /\ DefaultConfig["cap"] = DefaultCap
    BY DEF DefaultConfig
  <1>2. /\ Apply(q, DefaultConfig)["base"]
           = Latest(q, DOMAIN q, "base", DefaultBase)
        /\ Apply(q, DefaultConfig)["cap"]
           = Latest(q, DOMAIN q, "cap", DefaultCap)
    BY <1>1, AppliedField
  <1> QED BY <1>2 DEF New

(* The With* chain of Def: the policy and the attempts of the JobDef. *)
LEMMA DefinedFields ==
    ASSUME NEW O, NEW list \in Seq(O), NEW name
    PROVE  /\ Defined(name, list).base = Latest(list, DOMAIN list, "base", 0)
           /\ Defined(name, list).cap = Latest(list, DOMAIN list, "cap", 0)
           /\ Defined(name, list).maxAttempts
              = Latest(list, DOMAIN list, "maxAttempts", 3)
  <1> DEFINE d == Def(name)
  <1>1. /\ d = [f \in DOMAIN d |-> d[f]]
        /\ "base" \in DOMAIN d /\ "cap" \in DOMAIN d
        /\ "maxAttempts" \in DOMAIN d
        /\ d["base"] = 0 /\ d["cap"] = 0 /\ d["maxAttempts"] = 3
    BY DEF Def
  <1> HIDE DEF d
  <1>2. /\ Apply(list, d)["base"] = Latest(list, DOMAIN list, "base", 0)
        /\ Apply(list, d)["cap"] = Latest(list, DOMAIN list, "cap", 0)
        /\ Apply(list, d)["maxAttempts"]
           = Latest(list, DOMAIN list, "maxAttempts", 3)
    BY <1>1, AppliedField
  <1> QED BY <1>2 DEF Defined, d

(* Enqueue applies the attempts of the JobDef first and the caller's after. *)
LEMMA PushedAttempts ==
    ASSUME NEW O, NEW options \in Seq(O), NEW jd
    PROVE  Pushed(jd, options).maxAttempts
           = Latest(options, DOMAIN options, "maxAttempts", jd.maxAttempts)
  <1> DEFINE first == <<Attempts(jd.maxAttempts)>>
             d == DefaultPushConfig(0)
             Both == O \cup {Attempts(jd.maxAttempts)}
  <1>1. /\ d = [f \in DOMAIN d |-> d[f]]
        /\ "maxAttempts" \in DOMAIN d /\ d["maxAttempts"] = 3
    BY DEF DefaultPushConfig
  <1>2. first \in Seq(Both) /\ options \in Seq(Both)
    OBVIOUS
  <1>3. first \o options \in Seq(Both)
    BY <1>2
  <1>4. Latest(first, DOMAIN first, "maxAttempts", 3) = jd.maxAttempts
    BY LatestOfOne DEF Attempts
  <1> HIDE DEF d, first, Both
  <1>5. Apply(first \o options, d)["maxAttempts"]
        = Latest(first \o options, DOMAIN (first \o options), "maxAttempts", 3)
    <2> DEFINE list == first \o options
    <2>1. list \in Seq(Both)
      BY <1>3
    <2> HIDE DEF list
    <2>2. Apply(list, d)["maxAttempts"]
          = Latest(list, DOMAIN list, "maxAttempts", d["maxAttempts"])
      BY <2>1, <1>1, AppliedField
    <2> QED BY <2>2, <1>1 DEF list
  <1>6. Latest(first \o options, DOMAIN (first \o options), "maxAttempts", 3)
        = Latest(options, DOMAIN options, "maxAttempts",
                 Latest(first, DOMAIN first, "maxAttempts", 3))
    BY <1>2, LatestOfConcat
  <1>7. Pushed(jd, options).maxAttempts
        = Apply(first \o options, d)["maxAttempts"]
    BY DEF Pushed, EnqueueRaw, EnqueueConfig, first, d
  <1> QED BY <1>4, <1>5, <1>6, <1>7

(* An option list is a sequence, and where it gives a number of attempts   *)
(* or a delay it gives one of the right type.                              *)
LEMMA ListTypes ==
    ASSUME NEW options \in Queues \cup Chains \cup Pushes
    PROVE  \E O :
        /\ options \in Seq(O)
        /\ \A d \in Int :
              Latest(options, DOMAIN options, "maxAttempts", d) \in Int
        /\ \A f \in {"base", "cap"} : \A d \in Duration :
              Latest(options, DOMAIN options, f, d) \in Duration
  <1> DEFINE O == {options[n] : n \in DOMAIN options}
             at(f) == {n \in DOMAIN options : options[n].field = f}
  <1>1. /\ options \in Seq(O)
        /\ \A n \in DOMAIN options :
              /\ options[n].field = "maxAttempts" => options[n].value \in Int
              /\ options[n].field \in {"base", "cap"} =>
                    options[n].value \in Duration
    BY OptionAssumption DEF IsOptionList
  <1> HIDE DEF O
  <1>2. ASSUME NEW f, at(f) # {} PROVE Max(at(f)) \in at(f)
    <2>1. DOMAIN options = 1 .. Len(options) /\ Len(options) \in Nat
      BY <1>1
    <2>2. at(f) \in SUBSET (1 .. Len(options))
      BY <2>1
    <2> HIDE DEF at
    <2> QED BY <2>1, <2>2, <1>2, MaxOfPositions
  <1>3. ASSUME NEW d \in Int
        PROVE  Latest(options, DOMAIN options, "maxAttempts", d) \in Int
    BY <1>1, <1>2 DEF Latest
  <1>4. ASSUME NEW f \in {"base", "cap"}, NEW d \in Duration
        PROVE  Latest(options, DOMAIN options, f, d) \in Duration
    <2>1. CASE at(f) = {}
      BY <2>1 DEF Latest
    <2>2. CASE at(f) # {}
      <3>1. Max(at(f)) \in at(f)
        BY <2>2, <1>2
      <3>2. options[Max(at(f))].value \in Duration
        BY <3>1, <1>1
      <3> QED BY <3>2, <2>2 DEF Latest
    <2> QED BY <2>1, <2>2
  <1> QED BY <1>1, <1>3, <1>4

-----------------------------------------------------------------------------
(* The powers of two that calcBackoff multiplies by. *)

(* The first n powers of two, by the equation that defines Power2. *)
Powers(n) ==
    {f \in [0 .. n -> Nat \ {0}] :
        \A i \in 0 .. n : f[i] = IF i = 0 THEN 1 ELSE 2 * f[i - 1]}

(* There are as many of them as wanted. *)
LEMMA PowersExist == \A n \in Nat : Powers(n) # {}
  <1> DEFINE S == {n \in Nat : Powers(n) # {}}
  <1>1. 0 \in S
    <2> DEFINE f == [i \in 0 .. 0 |-> 1]
    <2>1. f \in Powers(0)
      BY DEF Powers
    <2> QED BY <2>1
  <1>2. ASSUME NEW n \in Nat, n \in S PROVE n + 1 \in S
    <2>1. PICK f : f \in Powers(n)
      BY <1>2
    <2>2. /\ f \in [0 .. n -> Nat \ {0}]
          /\ \A i \in 0 .. n : f[i] = IF i = 0 THEN 1 ELSE 2 * f[i - 1]
      BY <2>1 DEF Powers
    <2> DEFINE g == [i \in 0 .. n + 1 |->
                        IF i \in 0 .. n THEN f[i] ELSE 2 * f[n]]
    <2>3. f[n] \in Nat \ {0}
      BY <2>2
    <2>4. g \in [0 .. n + 1 -> Nat \ {0}]
      BY <2>2, <2>3
    <2>5. ASSUME NEW i \in 0 .. n + 1
          PROVE  g[i] = IF i = 0 THEN 1 ELSE 2 * g[i - 1]
      <3>1. CASE i \in 0 .. n
        <4>1. i # 0 => i - 1 \in 0 .. n
          BY <3>1
        <4> QED BY <2>2, <3>1, <4>1
      <3>2. CASE i = n + 1
        <4>1. i - 1 \in 0 .. n /\ i - 1 = n /\ i \notin 0 .. n /\ i # 0
          BY <3>2
        <4> QED BY <4>1
      <3> QED BY <3>1, <3>2
    <2>6. g \in Powers(n + 1)
      <3> HIDE DEF g
      <3> QED BY <2>4, <2>5 DEF Powers
    <2> QED BY <2>6
  <1>3. Nat \subseteq S
    <2> HIDE DEF S
    <2> QED BY <1>1, <1>2, NatSetInduction
  <1> QED BY <1>3

(* Two such lists agree as far as both go. *)
LEMMA PowersAgree ==
    ASSUME NEW n \in Nat, NEW m \in Nat,
           NEW f \in Powers(n), NEW g \in Powers(m)
    PROVE  \A i \in Nat : i <= n /\ i <= m => f[i] = g[i]
  <1> DEFINE S == {i \in Nat : i <= n /\ i <= m => f[i] = g[i]}
  <1>0. /\ \A i \in 0 .. n : f[i] = IF i = 0 THEN 1 ELSE 2 * f[i - 1]
        /\ \A i \in 0 .. m : g[i] = IF i = 0 THEN 1 ELSE 2 * g[i - 1]
    BY DEF Powers
  <1>1. 0 \in S
    BY <1>0
  <1>2. ASSUME NEW i \in Nat, i \in S PROVE i + 1 \in S
    <2> SUFFICES ASSUME i + 1 <= n, i + 1 <= m PROVE f[i + 1] = g[i + 1]
      OBVIOUS
    <2>1. i + 1 \in 0 .. n /\ i + 1 \in 0 .. m /\ (i + 1) - 1 = i /\ i + 1 # 0
      OBVIOUS
    <2>2. f[i] = g[i]
      BY <1>2
    <2>3. f[i + 1] = 2 * f[i] /\ g[i + 1] = 2 * g[i]
      BY <1>0, <2>1
    <2> QED BY <2>2, <2>3
  <1>3. Nat \subseteq S
    <2> HIDE DEF S
    <2> QED BY <1>1, <1>2, NatSetInduction
  <1> QED BY <1>3

(* Power2 satisfies its equation: 2^0 = 1 and 2^n = 2 * 2^(n-1). *)
LEMMA Power2Equation ==
    Power2 = [n \in Nat |-> IF n = 0 THEN 1 ELSE 2 * Power2[n - 1]]
  <1> DEFINE Step(f) == [n \in Nat |-> IF n = 0 THEN 1 ELSE 2 * f[n - 1]]
             some(n) == CHOOSE f : f \in Powers(n)
             g == [n \in Nat |-> some(n)[n]]
  <1>1. \A n \in Nat : some(n) \in Powers(n)
    BY PowersExist
  <1> HIDE DEF some
  <1>2. ASSUME NEW n \in Nat
        PROVE  some(n)[n] = IF n = 0 THEN 1 ELSE 2 * some(n - 1)[n - 1]
    <2>1. some(n)[n] = IF n = 0 THEN 1 ELSE 2 * some(n)[n - 1]
      BY <1>1 DEF Powers
    <2>2. ASSUME n # 0 PROVE some(n)[n - 1] = some(n - 1)[n - 1]
      <3>1. n - 1 \in Nat /\ n - 1 <= n /\ n - 1 <= n - 1
        BY <2>2
      <3>2. some(n) \in Powers(n) /\ some(n - 1) \in Powers(n - 1)
        BY <1>1, <3>1
      <3> QED BY <3>1, <3>2, PowersAgree
    <2> QED BY <2>1, <2>2
  <1>3. \A n \in Nat : n # 0 => n - 1 \in Nat
    OBVIOUS
  <1>4. g = Step(g)
    BY <1>2, <1>3
  <1>5. Power2 = CHOOSE f : f = Step(f)
    BY DEF Power2
  <1> HIDE DEF g, Step
  <1>6. Power2 = Step(Power2)
    BY <1>4, <1>5, Zenon
  <1> QED BY <1>6 DEF Step

(* A power of two is twice the one before it, and positive. *)
LEMMA Power2Doubles ==
    /\ Power2[0] = 1
    /\ \A n \in Nat : Power2[n + 1] = 2 * Power2[n]
    /\ \A n \in Nat : Power2[n] \in Nat \ {0}
  <1>1. Power2[0] = 1
    BY Power2Equation
  <1>2. ASSUME NEW n \in Nat PROVE Power2[n + 1] = 2 * Power2[n]
    <2>1. n + 1 \in Nat /\ n + 1 # 0 /\ (n + 1) - 1 = n
      OBVIOUS
    <2>2. Power2[n + 1] = IF n + 1 = 0 THEN 1 ELSE 2 * Power2[(n + 1) - 1]
      BY <2>1, Power2Equation
    <2> QED BY <2>1, <2>2
  <1> DEFINE S == {n \in Nat : Power2[n] \in Nat \ {0}}
  <1>3. 0 \in S
    BY <1>1
  <1>4. ASSUME NEW n \in Nat, n \in S PROVE n + 1 \in S
    BY <1>2, <1>4
  <1>5. Nat \subseteq S
    <2> HIDE DEF S
    <2> QED BY <1>3, <1>4, NatSetInduction
  <1> QED BY <1>1, <1>2, <1>5

-----------------------------------------------------------------------------
(***************************************************************************)
(* The inductive invariant.  What the job was made with, and the limit     *)
(* and the policy that this left, never change (Made); the rest says how   *)
(* far the attempts have come.  DeadAfterLimit is not inductive by itself: *)
(* that the job dies AT its limit needs that it was below it before        *)
(* (Counted); and a delay is the double of the one before it only if that  *)
(* one was the documented delay (Documented).                              *)
(***************************************************************************)
Made ==
    /\ byCron => push = <<>>
    /\ def = Defined("job", chain)
    /\ limit = IF byCron /\ Asked = 0 THEN 3 ELSE Asked

Counted ==
    /\ ~dead /\ attempts > 0 => limit < 0 \/ attempts < limit
    /\ dead => /\ limit >= 0
               /\ attempts = IF limit > 0 THEN limit ELSE 1

Documented ==
    attempts > 0 /\ ~dead /\ Fits(attempts) => delay = Promised(attempts)

ScheduleInv == ScheduleTypeOK /\ Made /\ Counted /\ Documented

(* What was asked for, with the chain's attempts as the caller's default.  *)
LEMMA AskedIsLatest ==
    ASSUME chain \in Chains, push \in Pushes \cup {<<>>}
    PROVE  /\ Asked = Latest(push, DOMAIN push, "maxAttempts",
                             Latest(chain, DOMAIN chain, "maxAttempts", 3))
           /\ Asked \in Int
  <1>1. PICK C : /\ chain \in Seq(C)
                 /\ \A d \in Int :
                       Latest(chain, DOMAIN chain, "maxAttempts", d) \in Int
    BY ListTypes
  <1>2. PICK P : /\ push \in Seq(P)
                 /\ \A d \in Int :
                       Latest(push, DOMAIN push, "maxAttempts", d) \in Int
    <2>1. CASE push \in Pushes
      BY <2>1, ListTypes
    <2>2. CASE push = <<>>
      <3>1. push \in Seq({}) /\ DOMAIN push = {}
        BY <2>2
      <3>2. \A d : Latest(push, DOMAIN push, "maxAttempts", d) = d
        BY <3>1 DEF Latest
      <3> QED BY <3>1, <3>2
    <2> QED BY <2>1, <2>2
  <1> DEFINE O == C \cup P
  <1>3. chain \in Seq(O) /\ push \in Seq(O)
    <2>1. C \subseteq O /\ P \subseteq O
      OBVIOUS
    <2> HIDE DEF O
    <2>2. chain \in Seq(O)
      BY <1>1, <2>1
    <2>3. push \in Seq(O)
      BY <1>2, <2>1
    <2> QED BY <2>2, <2>3
  <1> HIDE DEF O
  <1>4. Asked = Latest(chain \o push, DOMAIN (chain \o push), "maxAttempts", 3)
    BY DEF Asked, Latest
  <1>5. Asked = Latest(push, DOMAIN push, "maxAttempts",
                       Latest(chain, DOMAIN chain, "maxAttempts", 3))
    BY <1>3, <1>4, LatestOfConcat
  <1> QED BY <1>1, <1>2, <1>5

(* The delays of the policy in force are Durations. *)
LEMMA PolicyTypes ==
    ASSUME ScheduleTypeOK
    PROVE  Base \in Duration /\ Cap \in Duration
  <1>1. PICK q \in Queues : pool = New(q)
    BY DEF ScheduleTypeOK
  <1>2. PICK O : /\ q \in Seq(O)
                 /\ \A f \in {"base", "cap"} : \A d \in Duration :
                       Latest(q, DOMAIN q, f, d) \in Duration
    BY ListTypes
  <1>3. /\ pool.base = Latest(q, DOMAIN q, "base", DefaultBase)
        /\ pool.cap = Latest(q, DOMAIN q, "cap", DefaultCap)
    BY <1>1, <1>2, NewPolicy
  <1>4. pool.base \in Duration /\ pool.cap \in Duration
    BY <1>2, <1>3, OptionAssumption
  <1>5. def.base \in Duration /\ def.cap \in Duration
    BY DEF ScheduleTypeOK
  <1> QED BY <1>4, <1>5 DEF Base, Cap, Override

(* The limit that Enqueue, or the scheduler, gives the job is what was    *)
(* asked for.                                                              *)
LEMMA ScheduleInitInv == ScheduleInit => ScheduleInv
  <1> SUFFICES ASSUME ScheduleInit PROVE ScheduleInv
    OBVIOUS
  <1>1. chain \in Chains /\ push \in Pushes /\ byCron \in BOOLEAN
        /\ (byCron => push = <<>>) /\ def = Defined("job", chain)
        /\ attempts = 0 /\ delay = 0 /\ dead = FALSE
        /\ pool \in {New(q) : q \in Queues}
    BY DEF ScheduleInit
  <1>2. PICK C :
            /\ chain \in Seq(C)
            /\ \A d \in Int :
                  Latest(chain, DOMAIN chain, "maxAttempts", d) \in Int
            /\ \A f \in {"base", "cap"} : \A d \in Duration :
                  Latest(chain, DOMAIN chain, f, d) \in Duration
    BY <1>1, ListTypes
  <1>3. def.base \in Duration /\ def.cap \in Duration
    <2>1. 0 \in Duration
      BY MaxDurationAssumption DEF Duration, MinDuration
    <2>2. /\ def.base = Latest(chain, DOMAIN chain, "base", 0)
          /\ def.cap = Latest(chain, DOMAIN chain, "cap", 0)
      BY <1>1, <1>2, DefinedFields
    <2> QED BY <1>2, <2>1, <2>2
  <1>4. def.maxAttempts = Latest(chain, DOMAIN chain, "maxAttempts", 3)
    BY <1>1, <1>2, DefinedFields
  <1>5. /\ Asked = Latest(push, DOMAIN push, "maxAttempts", def.maxAttempts)
        /\ Asked \in Int
    BY <1>1, <1>4, AskedIsLatest
  <1>6. ASSUME byCron
        PROVE  limit = IF Asked = 0 THEN 3 ELSE Asked
    <2>1. Asked = def.maxAttempts
      <3>1. DOMAIN push = {}
        BY <1>1, <1>6
      <3> QED BY <1>5, <3>1 DEF Latest
    <2>2. limit = CronConfig(def, 0).maxAttempts
      BY <1>6 DEF ScheduleInit
    <2>3. CronConfig(def, 0).maxAttempts
          = IF def.maxAttempts = 0 THEN 3 ELSE def.maxAttempts
      BY DEF CronConfig, DefaultPushConfig
    <2> QED BY <1>6, <2>1, <2>2, <2>3
  <1>7. ASSUME ~byCron PROVE limit = Asked
    <2>1. PICK P : push \in Seq(P)
      BY <1>1, ListTypes
    <2>2. limit = Pushed(def, push).maxAttempts
      BY <1>7 DEF ScheduleInit
    <2> QED BY <2>1, <2>2, <1>5, PushedAttempts
  <1>8. limit = (IF byCron /\ Asked = 0 THEN 3 ELSE Asked)
    BY <1>6, <1>7
  <1>9. limit \in Int
    BY <1>8, <1>5
  <1>10. delay \in Duration
    BY <1>1, MaxDurationAssumption DEF Duration, MinDuration
  <1>11. ScheduleTypeOK
    BY <1>1, <1>3, <1>9, <1>10 DEF ScheduleTypeOK
  <1>12. Made
    BY <1>1, <1>8 DEF Made
  <1>13. Counted /\ Documented
    BY <1>1 DEF Counted, Documented
  <1> QED BY <1>11, <1>12, <1>13 DEF ScheduleInv

(* calcBackoff answers with a Duration, and with the documented delay when *)
(* the product fits.                                                       *)
LEMMA DelayOfAttempt ==
    ASSUME ScheduleTypeOK, NEW n \in Nat \ {0},
           NEW d \in CalcBackoff(pool, def, n)
    PROVE  /\ d \in Duration
           /\ Fits(n) => d = Promised(n)
  <1> DEFINE x == Base * Power2[n - 1]
  <1>1. Base \in Int /\ Cap \in Duration
    BY PolicyTypes, MaxDurationAssumption DEF Duration, MinDuration
  <1>2. x \in Int
    <2>1. n - 1 \in Nat
      OBVIOUS
    <2>2. Power2[n - 1] \in Nat
      BY <2>1, Power2Doubles
    <2> QED BY <1>1, <2>2
  <1>3. PICK y \in Durations(x) : d = IF y > Cap THEN Cap ELSE y
    BY DEF CalcBackoff, Base, Cap
  <1>4. Fits(n) <=> x \in Duration
    BY DEF Fits
  <1>5. Promised(n) = IF x <= Cap THEN x ELSE Cap
    BY DEF Promised
  <1> HIDE DEF x
  <1>6. y \in Duration
    BY <1>2, MaxDurationAssumption DEF Durations, Duration, MinDuration
  <1>7. d \in Duration
    BY <1>1, <1>3, <1>6
  <1>8. ASSUME Fits(n) PROVE d = Promised(n)
    <2>1. y = x
      BY <1>4, <1>8 DEF Durations
    <2>2. Cap \in Int
      BY <1>1, MaxDurationAssumption DEF Duration, MinDuration
    <2> QED BY <2>1, <2>2, <1>2, <1>3, <1>5
  <1> QED BY <1>7, <1>8

(* The documented delay doubles until the cap, and a product that fits is  *)
(* the double of one that fits.                                            *)
LEMMA PromisedDoubles ==
    ASSUME ScheduleTypeOK, NEW n \in Nat \ {0}, Fits(n + 1)
    PROVE  /\ Fits(n)
           /\ Cap >= 0 =>
                Promised(n + 1)
                = IF 2 * Promised(n) <= Cap THEN 2 * Promised(n) ELSE Cap
  <1> DEFINE x == Base * Power2[n - 1]
             y == Base * Power2[(n + 1) - 1]
  <1>1. Base \in Int /\ Cap \in Int
    BY PolicyTypes, MaxDurationAssumption DEF Duration, MinDuration
  <1>2. x \in Int /\ y = 2 * x
    <2> DEFINE p == Power2[n - 1]
    <2>1. n - 1 \in Nat /\ (n - 1) + 1 = n /\ (n + 1) - 1 = n
      OBVIOUS
    <2>2. Power2[n] = 2 * p
      BY <2>1, Power2Doubles
    <2>3. p \in Nat
      BY <2>1, Power2Doubles
    <2>4. y = Base * (2 * p)
      BY <2>1, <2>2
    <2> HIDE DEF p
    <2>5. Base * (2 * p) = 2 * (Base * p) /\ Base * p \in Int
      BY <1>1, <2>3
    <2> QED BY <2>4, <2>5 DEF p
  <1>3. y \in Duration
    BY DEF Fits
  <1>4. Promised(n) = IF x <= Cap THEN x ELSE Cap
    BY DEF Promised
  <1>5. Promised(n + 1) = IF y <= Cap THEN y ELSE Cap
    BY DEF Promised
  <1>6. Fits(n) <=> x \in Duration
    BY DEF Fits
  <1> HIDE DEF x, y
  <1>7. Fits(n)
    BY <1>2, <1>3, <1>6, MaxDurationAssumption DEF Duration, MinDuration
  <1>8. ASSUME Cap >= 0
        PROVE  Promised(n + 1)
               = IF 2 * Promised(n) <= Cap THEN 2 * Promised(n) ELSE Cap
    BY <1>1, <1>2, <1>4, <1>5, <1>8
  <1> QED BY <1>7, <1>8

(* What the job was given does not change. *)
LEMMA GivenStays ==
    ASSUME UNCHANGED given
    PROVE  /\ Base' = Base /\ Cap' = Cap /\ Asked' = Asked
           /\ \A n : Promised(n)' = Promised(n)
           /\ \A n : Fits(n)' = Fits(n)
  <1>1. Base' = Base /\ Cap' = Cap
    BY DEF given, Base, Cap, Override
  <1>2. Asked' = Asked
    BY DEF given, Asked
  <1> QED BY <1>1, <1>2 DEF Promised, Fits

(* A failure with attempts left preserves the invariant. *)
LEMMA RetryInv == ScheduleInv /\ Retry => ScheduleInv'
  <1> SUFFICES ASSUME ScheduleInv, Retry PROVE ScheduleInv'
    OBVIOUS
  <1> DEFINE n == attempts + 1
  <1>1. /\ ~dead /\ IsRetryable(n, limit)
        /\ delay' \in CalcBackoff(pool, def, n)
        /\ attempts' = n
        /\ UNCHANGED given /\ dead' = dead
    BY DEF Retry
  <1>2. ScheduleTypeOK /\ n \in Nat \ {0}
    BY DEF ScheduleInv, ScheduleTypeOK
  <1> HIDE DEF n
  <1>3. /\ delay' \in Duration
        /\ Fits(n) => delay' = Promised(n)
    BY <1>1, <1>2, DelayOfAttempt
  <1>4. ScheduleTypeOK'
    BY <1>1, <1>2, <1>3 DEF ScheduleTypeOK, given, MinDuration
  <1>5. Made'
    BY <1>1, GivenStays DEF ScheduleInv, Made, given
  <1>6. Counted'
    BY <1>1, <1>2 DEF Counted, IsRetryable, given
  <1>7. Documented'
    <2>1. /\ Promised(attempts)' = Promised(attempts')
          /\ Fits(attempts)' = Fits(attempts')
      BY <1>1, GivenStays DEF Promised, Fits
    <2> QED BY <2>1, <1>1, <1>3 DEF Documented
  <1> QED BY <1>4, <1>5, <1>6, <1>7 DEF ScheduleInv

(* So does the last failure. *)
LEMMA DeadLetterInv == ScheduleInv /\ DeadLetter => ScheduleInv'
  <1> SUFFICES ASSUME ScheduleInv, DeadLetter PROVE ScheduleInv'
    OBVIOUS
  <1>1. /\ ~dead /\ ~IsRetryable(attempts + 1, limit)
        /\ attempts' = attempts + 1 /\ dead' = TRUE
        /\ UNCHANGED given /\ delay' = delay
    BY DEF DeadLetter
  <1>2. attempts \in Nat /\ limit \in Int
    BY DEF ScheduleInv, ScheduleTypeOK
  <1>3. ScheduleTypeOK'
    BY <1>1, <1>2 DEF ScheduleInv, ScheduleTypeOK, given, MinDuration
  <1>4. Made'
    BY <1>1, GivenStays DEF ScheduleInv, Made, given
  <1>5. Counted'
    BY <1>1, <1>2 DEF ScheduleInv, Counted, IsRetryable, given
  <1>6. Documented'
    BY <1>1 DEF Documented
  <1> QED BY <1>3, <1>4, <1>5, <1>6 DEF ScheduleInv

(* So does a step of somebody else. *)
LEMMA ScheduleStutterInv ==
    ScheduleInv /\ UNCHANGED scheduleVars => ScheduleInv'
  <1> SUFFICES ASSUME ScheduleInv, UNCHANGED scheduleVars PROVE ScheduleInv'
    OBVIOUS
  <1>1. /\ UNCHANGED given /\ attempts' = attempts
        /\ delay' = delay /\ dead' = dead
    BY DEF scheduleVars
  <1>2. ScheduleTypeOK'
    BY <1>1 DEF ScheduleInv, ScheduleTypeOK, given, MinDuration
  <1>3. Made'
    BY <1>1, GivenStays DEF ScheduleInv, Made, given
  <1>4. Counted'
    BY <1>1 DEF ScheduleInv, Counted, given
  <1>5. Documented'
    <2>1. /\ Promised(attempts)' = Promised(attempts')
          /\ Fits(attempts)' = Fits(attempts')
      BY <1>1, GivenStays DEF Promised, Fits
    <2> QED BY <2>1, <1>1 DEF ScheduleInv, Documented
  <1> QED BY <1>2, <1>3, <1>4, <1>5 DEF ScheduleInv

(* The invariant holds in every state of a schedule. *)
THEOREM ScheduleInvariant == ScheduleSpec => []ScheduleInv
  <1>1. ScheduleInv /\ [ScheduleNext]_scheduleVars => ScheduleInv'
    BY RetryInv, DeadLetterInv, ScheduleStutterInv DEF ScheduleNext
  <1> QED BY <1>1, ScheduleInitInv, PTL DEF ScheduleSpec

(* Every variable keeps its type: whatever the policy and the attempt, the *)
(* delay that calcBackoff returns is a Duration.                           *)
THEOREM ScheduleTypeCorrect == ScheduleSpec => []ScheduleTypeOK
  <1>1. ScheduleInv => ScheduleTypeOK
    BY DEF ScheduleInv
  <1> QED BY <1>1, ScheduleInvariant, PTL

(* A job that always fails is executed as often as the last Attempts, else *)
(* the last WithAttempts, asks, and is dead after that; Unlimited never.   *)
THEOREM ScheduleDeadAfterLimit == ScheduleSpec => []DeadAfterLimit
  <1>1. ScheduleInv => DeadAfterLimit
    <2> SUFFICES ASSUME ScheduleInv, dead PROVE DeadAfterLimit
      BY DEF DeadAfterLimit
    <2>1. Asked \in Int
      <3>1. chain \in Chains /\ push \in Pushes
        BY DEF ScheduleInv, ScheduleTypeOK
      <3> QED BY <3>1, AskedIsLatest
    <2>2. limit = (IF byCron /\ Asked = 0 THEN 3 ELSE Asked)
      BY DEF ScheduleInv, Made
    <2>3. limit >= 0 /\ attempts = IF limit > 0 THEN limit ELSE 1
      BY DEF ScheduleInv, Counted
    <2> QED BY <2>1, <2>2, <2>3 DEF DeadAfterLimit
  <1> QED BY <1>1, ScheduleInvariant, PTL

(* The delay follows the comment on WithBackoffBase, min(base * 2^(n-1),   *)
(* cap), at every attempt n whose product fits a Duration: the overflow    *)
(* that MCRetrySchedule_overflow shows is the only way out of it.          *)
THEOREM ScheduleDelayAsDocumented ==
    ScheduleSpec => [](Fits(attempts) => DelayAsDocumented)
  <1>1. ScheduleInv => (Fits(attempts) => DelayAsDocumented)
    BY DEF ScheduleInv, Documented, DelayAsDocumented
  <1> QED BY <1>1, ScheduleInvariant, PTL

(* From one attempt to the next the delay doubles until the cap is         *)
(* reached and then stays there, as long as the product fits a Duration.   *)
THEOREM ScheduleGrowsThenStays == ScheduleSpec => GrowsThenStays
  <1>1. ASSUME ScheduleInv, ScheduleNext, attempts > 0, ~dead',
               Fits(attempts'), Cap >= 0
        PROVE  delay' = IF 2 * delay <= Cap THEN 2 * delay ELSE Cap
    <2>1. Retry
      BY <1>1 DEF ScheduleNext, DeadLetter
    <2>2. /\ ~dead /\ attempts' = attempts + 1
          /\ delay' \in CalcBackoff(pool, def, attempts + 1)
      BY <2>1 DEF Retry
    <2>3. /\ ScheduleTypeOK
          /\ attempts \in Nat \ {0} /\ attempts + 1 \in Nat \ {0}
      BY <1>1 DEF ScheduleInv, ScheduleTypeOK
    <2>4. Fits(attempts + 1)
      BY <1>1, <2>2
    <2>5. delay' = Promised(attempts + 1)
      BY <2>2, <2>3, <2>4, DelayOfAttempt
    <2>6. /\ Fits(attempts)
          /\ Promised(attempts + 1)
             = IF 2 * Promised(attempts) <= Cap THEN 2 * Promised(attempts)
                                                ELSE Cap
      BY <1>1, <2>3, <2>4, PromisedDoubles
    <2>7. delay = Promised(attempts)
      BY <1>1, <2>2, <2>6 DEF ScheduleInv, Documented
    <2> QED BY <2>5, <2>6, <2>7
  <1>2. ScheduleInv /\ [ScheduleNext]_scheduleVars =>
            [attempts > 0 /\ ~dead' /\ Fits(attempts') /\ Cap >= 0
             => delay' = IF 2 * delay <= Cap THEN 2 * delay
                                             ELSE Cap]_scheduleVars
    BY <1>1
  <1> QED BY <1>2, ScheduleInvariant, PTL DEF ScheduleSpec, GrowsThenStays

=============================================================================
