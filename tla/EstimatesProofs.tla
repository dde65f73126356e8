--------------------------- MODULE EstimatesProofs ---------------------------
(***************************************************************************)
(* Theorems about Estimates and the cost engine under it, for any bodies,  *)
(* presets and prices the validators and the adapter let through.          *)
(***************************************************************************)
EXTENDS Estimates, RanksAndSums

USE WholeAssumption, PricingAssumption, NoneAssumption

-----------------------------------------------------------------------------
(***************************************************************************)
(* The arithmetic of Ranges: the invariant that Range's validator checks   *)
(* is never broken by a result, and on nonnegative quantities sorting      *)
(* moves nothing.                                                          *)
(***************************************************************************)
LEMMA ScalarIsNum == \A x \in Int : Scalar(x) \in Num
  BY DEF Scalar, Num

LEMMA NormalizedSorts ==
  ASSUME NEW r \in BOOLEAN, NEW x \in Int, NEW y \in Int, NEW z \in Int,
         ~r => x = y /\ y = z
  PROVE  /\ Normalized(r, x, y, z) \in Num
         /\ x <= y /\ y <= z =>
              Normalized(r, x, y, z) = [range |-> r, min |-> x, typical |-> y, max |-> z]
  BY DEF Normalized, Num, Least, Most

LEMMA NormalizedIsRange ==
  ASSUME NEW r, NEW x, NEW y, NEW z
  PROVE  Normalized(r, x, y, z).range = r
  BY DEF Normalized

LEMMA NumFields ==
  ASSUME NEW a \in Num
  PROVE  /\ a.range \in BOOLEAN /\ a.min \in Int /\ a.typical \in Int /\ a.max \in Int
         /\ a.min <= a.typical /\ a.typical <= a.max
         /\ ~a.range => a.min = a.typical /\ a.typical = a.max
  BY DEF Num

(* _normalized, as every operator of Range calls it: a sum, difference or  *)
(* product of Nums satisfies the invariant min <= typical <= max, and is a *)
(* Range exactly when an operand is.                                       *)
THEOREM ArithmeticKeepsRangesOrdered ==
  \A a, b \in Num :
    /\ Plus(a, b) \in Num /\ Minus(a, b) \in Num /\ Times(a, b) \in Num
    /\ \A n \in {Plus(a, b), Minus(a, b), Times(a, b)} : n.range = (a.range \/ b.range)
<1> SUFFICES ASSUME NEW a \in Num, NEW b \in Num
             PROVE  /\ Plus(a, b) \in Num /\ Minus(a, b) \in Num /\ Times(a, b) \in Num
                    /\ \A n \in {Plus(a, b), Minus(a, b), Times(a, b)} :
                         n.range = (a.range \/ b.range)
  OBVIOUS
<1>1. Plus(a, b) \in Num /\ Minus(a, b) \in Num
  BY NumFields, NormalizedSorts DEF Plus, Minus
<1>2. Times(a, b) \in Num
  <2>1. a.min * b.min \in Int /\ a.typical * b.typical \in Int /\ a.max * b.max \in Int
    BY NumFields
  <2>2. (a.range \/ b.range) \in BOOLEAN
    BY NumFields
  <2>3. ~(a.range \/ b.range) =>
          a.min * b.min = a.typical * b.typical /\ a.typical * b.typical = a.max * b.max
    BY NumFields
  <2> QED
    BY <2>1, <2>2, <2>3, NormalizedSorts DEF Times
<1>3. \A n \in {Plus(a, b), Minus(a, b), Times(a, b)} : n.range = (a.range \/ b.range)
  <2>1. /\ Plus(a, b).range = (a.range \/ b.range)
        /\ Minus(a, b).range = (a.range \/ b.range)
        /\ Times(a, b).range = (a.range \/ b.range)
    <3> DEFINE r == a.range \/ b.range
    <3>1. /\ Plus(a, b) = Normalized(r, a.min + b.min, a.typical + b.typical, a.max + b.max)
          /\ Minus(a, b) = Normalized(r, a.min - b.min, a.typical - b.typical, a.max - b.max)
          /\ Times(a, b) = Normalized(r, a.min * b.min, a.typical * b.typical, a.max * b.max)
      BY DEF Plus, Minus, Times
    <3> HIDE DEF r
    <3>2. Plus(a, b).range = r /\ Minus(a, b).range = r /\ Times(a, b).range = r
      BY <3>1, NormalizedIsRange
    <3> QED
      BY <3>2 DEF r
  <2> QED
    BY <2>1
<1> QED
  BY <1>1, <1>2, <1>3

LEMMA ProductsAreMonotone ==
  ASSUME NEW w \in Nat, NEW x \in Nat, NEW y \in Nat, NEW z \in Nat, w <= x, y <= z
  PROVE  w * y <= x * z
<1>1. x * z - w * y = x * (z - y) + (x - w) * y
  OBVIOUS
<1>2. x * (z - y) \in Nat /\ (x - w) * y \in Nat
  <2>1. z - y \in Nat /\ x - w \in Nat
    OBVIOUS
  <2>2. \A m, n \in Nat : m * n \in Nat
    OBVIOUS
  <2> QED
    BY <2>1, <2>2
<1>3. w * y \in Int /\ x * z \in Int
  OBVIOUS
<1> QED
  BY <1>1, <1>2, <1>3

(* What makes a cost band the costs of its scenarios: sums always, and     *)
(* products of nonnegative Nums, are taken point by point.                 *)
THEOREM ArithmeticIsPointwise ==
  /\ \A a, b \in Num : \A p \in Points : Plus(a, b)[p] = a[p] + b[p]
  /\ \A a, b \in NonNegative :
       Times(a, b) \in NonNegative /\ \A p \in Points : Times(a, b)[p] = a[p] * b[p]
<1>1. ASSUME NEW a \in Num, NEW b \in Num, NEW p \in Points
      PROVE  Plus(a, b)[p] = a[p] + b[p]
  <2>1. Plus(a, b) = [range |-> a.range \/ b.range, min |-> a.min + b.min,
                      typical |-> a.typical + b.typical, max |-> a.max + b.max]
    BY NumFields, NormalizedSorts DEF Plus
  <2> QED
    BY <2>1 DEF Points
<1>2. ASSUME NEW a \in NonNegative, NEW b \in NonNegative
      PROVE  /\ Times(a, b) \in NonNegative
             /\ \A p \in Points : Times(a, b)[p] = a[p] * b[p]
  <2>1. /\ a \in Num /\ b \in Num
        /\ a.min \in Nat /\ a.typical \in Nat /\ a.max \in Nat
        /\ b.min \in Nat /\ b.typical \in Nat /\ b.max \in Nat
    BY NumFields DEF NonNegative
  <2>2. /\ a.min * b.min <= a.typical * b.typical
        /\ a.typical * b.typical <= a.max * b.max
    BY <2>1, NumFields, ProductsAreMonotone
  <2>3. a.min * b.min \in Nat /\ a.typical * b.typical \in Nat /\ a.max * b.max \in Nat
    BY <2>1
  <2>4. Times(a, b) = [range |-> a.range \/ b.range, min |-> a.min * b.min,
                       typical |-> a.typical * b.typical, max |-> a.max * b.max]
    <3>1. ~(a.range \/ b.range) =>
            a.min * b.min = a.typical * b.typical /\ a.typical * b.typical = a.max * b.max
      BY <2>1, NumFields
    <3>2. (a.range \/ b.range) \in BOOLEAN
      BY <2>1, NumFields
    <3> DEFINE r == a.range \/ b.range
               lo == a.min * b.min
               mid == a.typical * b.typical
               hi == a.max * b.max
    <3>3. Times(a, b) = Normalized(r, lo, mid, hi)
      BY DEF Times
    <3>4. /\ r \in BOOLEAN /\ lo \in Int /\ mid \in Int /\ hi \in Int
          /\ ~r => lo = mid /\ mid = hi
          /\ lo <= mid /\ mid <= hi
      BY <2>2, <2>3, <3>1, <3>2
    <3> HIDE DEF r, lo, mid, hi
    <3>5. Normalized(r, lo, mid, hi) = [range |-> r, min |-> lo, typical |-> mid, max |-> hi]
      BY <3>4, NormalizedSorts
    <3> QED
      BY <3>3, <3>5 DEF r, lo, mid, hi
  <2>5. Times(a, b) \in NonNegative
    BY <2>1, <2>3, <2>4, ArithmeticKeepsRangesOrdered DEF NonNegative
  <2> QED
    BY <2>4, <2>5 DEF Points
<1> QED
  BY <1>1, <1>2

-----------------------------------------------------------------------------
(***************************************************************************)
(* Nonnegative bands.                                                      *)
(***************************************************************************)
Positive == {n \in NonNegative : n.min > 0}

LEMMA BandFields ==
  ASSUME NEW a \in NonNegative
  PROVE  /\ a \in Num /\ a.range \in BOOLEAN
         /\ a.min \in Nat /\ a.typical \in Nat /\ a.max \in Nat
         /\ a.min <= a.typical /\ a.typical <= a.max
         /\ ~a.range => a.min = a.typical /\ a.typical = a.max
         /\ \A point \in Points : a[point] \in Nat
  BY DEF NonNegative, Num, Points

LEMMA ScalarIsBand ==
  ASSUME NEW x \in Nat
  PROVE  /\ Scalar(x) \in NonNegative /\ \A point \in Points : Scalar(x)[point] = x
         /\ x > 0 => Scalar(x) \in Positive
  BY DEF Scalar, NonNegative, Num, Points, Positive

LEMMA PlusIsBand ==
  ASSUME NEW a \in NonNegative, NEW b \in NonNegative
  PROVE  Plus(a, b) \in NonNegative
<1>1. Plus(a, b) \in Num
  BY ArithmeticKeepsRangesOrdered, BandFields
<1>2. Plus(a, b).min = a.min + b.min
  BY ArithmeticIsPointwise, BandFields DEF Points
<1> QED
  BY <1>1, <1>2, BandFields DEF NonNegative

LEMMA TimesIsBand ==
  ASSUME NEW a \in NonNegative, NEW b \in NonNegative
  PROVE  /\ Times(a, b) \in NonNegative
         /\ \A point \in Points : Times(a, b)[point] = a[point] * b[point]
         /\ a \in Positive /\ b \in Positive => Times(a, b) \in Positive
<1>1. /\ Times(a, b) \in NonNegative
      /\ \A point \in Points : Times(a, b)[point] = a[point] * b[point]
  BY ArithmeticIsPointwise
<1>2. ASSUME a \in Positive, b \in Positive
      PROVE  Times(a, b).min > 0
  <2>1. Times(a, b).min = a.min * b.min
    BY <1>1 DEF Points
  <2>2. a.min \in Nat \ {0} /\ b.min \in Nat \ {0}
    BY <1>2, BandFields DEF Positive
  <2>3. \A x, y \in Nat \ {0} : x * y > 0
    OBVIOUS
  <2> QED
    BY <2>1, <2>2, <2>3
<1> QED
  BY <1>1, <1>2 DEF Positive

LEMMA OverIsBand ==
  ASSUME NEW a \in NonNegative, NEW b \in Positive
  PROVE  Over(a, b) \in NonNegative
<1> DEFINE r == a.range \/ b.range
           x == a.min \div b.min
           y == a.typical \div b.typical
           z == a.max \div b.max
<1>1. b \in NonNegative /\ b.min \in Nat \ {0} /\ b.typical \in Nat \ {0} /\ b.max \in Nat \ {0}
  BY BandFields DEF Positive
<1>2. x \in Nat /\ y \in Nat /\ z \in Nat /\ r \in BOOLEAN
  <2>1. \A m \in Nat, n \in Nat \ {0} : m \div n \in Nat
    OBVIOUS
  <2> QED
    BY <1>1, <2>1, BandFields
<1>3. ~r => x = y /\ y = z
  BY <1>1, BandFields
<1>4. Over(a, b) = Normalized(r, x, y, z)
  BY DEF Over
<1> HIDE DEF r, x, y, z
<1>5. Normalized(r, x, y, z) \in Num
  BY <1>2, <1>3, NormalizedSorts
<1>6. Normalized(r, x, y, z).min >= 0
  BY <1>2 DEF Normalized, Least
<1> QED
  BY <1>4, <1>5, <1>6 DEF NonNegative

LEMMA PartIsBand ==
  ASSUME NEW a \in NonNegative, NEW k \in Nat
  PROVE  Part(a, k) \in NonNegative
  BY ScalarIsBand, TimesIsBand, OverIsBand DEF Part

-----------------------------------------------------------------------------
(***************************************************************************)
(* The engine.                                                             *)
(***************************************************************************)
GoodWorkload(w) == w \in Workload /\ ValidFields(w)
GoodSchedule(s) == s \in Schedule /\ ValidSchedule(s)
Defaults == {"cacheRead", "cacheWrite", "reasoning", "image", "audio", "provider"}
CostFields == {"fresh", "cached", "write", "output", "reasoning", "fixed", "units"}

LEMMA PerMonthIsPositive ==
  ASSUME NEW s, GoodSchedule(s), NEW period \in {"hour", "day", "week", "month"}
  PROVE  PerMonth(period, s) \in Positive
<1>1. s.hours \in Positive /\ s.days \in Positive
  BY DEF GoodSchedule, ValidSchedule, Positive, NonNegative, Num
<1>2. Scalar(s.weeks) \in Positive /\ Scalar(1) \in Positive
  BY ScalarIsBand DEF GoodSchedule, ValidSchedule, Schedule
<1>3. Times(s.days, Scalar(s.weeks)) \in Positive
  BY <1>1, <1>2, TimesIsBand DEF Positive
<1>4. Times(s.hours, s.days) \in Positive
  BY <1>1, TimesIsBand DEF Positive
<1>5. HoursPerMonth(s) \in Positive
  BY <1>2, <1>4, TimesIsBand DEF HoursPerMonth, Positive
<1> QED
  BY <1>2, <1>3, <1>5 DEF PerMonth

LEMMA TotalsAreBands ==
  ASSUME NEW w, GoodWorkload(w), NEW s, GoodSchedule(s)
  PROVE  LET t == Totals(w, s)
         IN  /\ t.input \in NonNegative /\ t.output \in NonNegative
             /\ t.reasoning \in NonNegative /\ t.images \in NonNegative
             /\ t.requests \in NonNegative
             /\ t.actions = None \/ t.actions \in Positive
             /\ \E requests \in NonNegative : t.input = Times(w.input, requests)
<1> DEFINE things == Times(w.rate, PerMonth(w.period, s))
           requests == Times(w.each, things)
<1>1. w.rate \in Positive /\ w.each \in Positive
  BY DEF GoodWorkload, ValidFields, Positive
<1>2. things \in Positive
  BY <1>1, PerMonthIsPositive, TimesIsBand DEF GoodWorkload, Workload, Positive
<1> HIDE DEF things
<1>3. requests \in Positive
  BY <1>1, <1>2, TimesIsBand DEF Positive
<1> HIDE DEF requests
<1>4. /\ w.input \in NonNegative /\ w.output \in NonNegative /\ w.reasoning \in NonNegative
      /\ w.images \in NonNegative /\ requests \in NonNegative
  BY <1>3 DEF GoodWorkload, ValidFields, Positive
<1>5. /\ Times(w.input, requests) \in NonNegative /\ Times(w.output, requests) \in NonNegative
      /\ Times(w.reasoning, requests) \in NonNegative /\ Times(w.images, requests) \in NonNegative
  BY <1>4, TimesIsBand
<1>6. Totals(w, s) =
        [ input     |-> Times(w.input, requests),
          output    |-> Times(w.output, requests),
          reasoning |-> Times(w.reasoning, requests),
          images    |-> Times(w.images, requests),
          audio     |-> Times(w.audio, requests),
          requests  |-> IF w.kind = "continuous_stream" THEN Scalar(0) ELSE requests,
          actions   |-> CASE w.kind = "continuous_stream" -> None
                          [] w.kind = "build_action" -> things
                          [] OTHER -> requests ]
  BY DEF Totals, requests, things
<1>7. Scalar(0) \in NonNegative
  BY ScalarIsBand
<1> QED
  BY <1>2, <1>3, <1>4, <1>5, <1>6, <1>7

LEMMA PricesAreNatural ==
  ASSUME NEW p, ValidPricing(p)
  PROVE  /\ p.input \in Nat /\ p.output \in Nat /\ p.fixed \in Nat
         /\ CacheRead(p) \in Nat /\ WritePremium(p) \in Nat /\ Reasoning(p) \in Nat
         /\ p.image # None => p.image \in Nat
<1>1. /\ p.input \in Nat /\ p.output \in Nat /\ p.fixed \in Nat
      /\ p.reasoning \in Nat \cup {None} /\ p.cacheRead \in Nat \cup {None}
      /\ p.cacheWrite \in Nat \cup {None} /\ p.image \in Nat \cup {None}
  BY DEF ValidPricing, Optional
<1>2. p.input \div 10 \in Nat
  BY <1>1
<1>3. CacheRead(p) \in Nat /\ CacheWrite(p) \in Nat /\ Reasoning(p) \in Nat
  BY <1>1, <1>2 DEF CacheRead, CacheWrite, Reasoning, Or
<1>4. WritePremium(p) \in Nat
  BY <1>1, <1>3 DEF WritePremium, Most
<1> QED
  BY <1>1, <1>3, <1>4

LEMMA MultiplierIsNatural ==
  ASSUME NEW w, GoodWorkload(w)
  PROVE  Multiplier(w) \in Nat
<1>1. w.spawn \in Nat /\ w.overhead - Whole \in Nat
  BY DEF GoodWorkload, ValidFields, Workload
<1>2. w.spawn * (w.overhead - Whole) \in Nat
  <2>1. \A x, y \in Nat : x * y \in Nat
    OBVIOUS
  <2> QED
    BY <1>1, <2>1
<1>3. \A x \in Nat : x \div Whole \in Nat
  OBVIOUS
<1> QED
  BY <1>2, <1>3 DEF Multiplier

LEMMA SplitIsBand ==
  ASSUME NEW w, GoodWorkload(w), NEW s, GoodSchedule(s)
  PROVE  LET parts == Split(w, Totals(w, s))
         IN  /\ parts.fresh \in NonNegative /\ parts.cached \in NonNegative
             /\ parts.writes \in NonNegative
<1> PICK t : t = Totals(w, s)
  OBVIOUS
<1>1. t.input \in NonNegative
  BY TotalsAreBands
<1>2. w.cacheHit \in Nat /\ Whole - w.cacheHit \in Nat /\ w.cacheWrite \in Nat
  BY DEF GoodWorkload, ValidFields, Workload
<1>3. Part(t.input, Whole - w.cacheHit) \in NonNegative /\ Part(t.input, w.cacheHit) \in NonNegative
  BY <1>1, <1>2, PartIsBand
<1>4. Part(Part(t.input, Whole - w.cacheHit), w.cacheWrite) \in NonNegative
  BY <1>2, <1>3, PartIsBand
<1> QED
  BY <1>3, <1>4 DEF Split

LEMMA CostsAreBands ==
  ASSUME NEW w, GoodWorkload(w), NEW s, GoodSchedule(s), NEW p, ValidPricing(p)
  PROVE  Costs(w, s, p) \in [CostFields -> NonNegative]
<1> PICK t : t = Totals(w, s)
  OBVIOUS
<1> PICK parts : parts = Split(w, t)
  OBVIOUS
<1> DEFINE Tokens(n, price) == Part(Times(n, Scalar(price)), Multiplier(w))
<1>1. /\ t.output \in NonNegative /\ t.reasoning \in NonNegative
      /\ t.images \in NonNegative /\ t.requests \in NonNegative
  BY TotalsAreBands
<1>2. parts.fresh \in NonNegative /\ parts.cached \in NonNegative /\ parts.writes \in NonNegative
  BY SplitIsBand
<1>3. /\ p.input \in Nat /\ p.output \in Nat /\ p.fixed \in Nat
      /\ CacheRead(p) \in Nat /\ WritePremium(p) \in Nat /\ Reasoning(p) \in Nat
      /\ p.image # None => p.image \in Nat
  BY PricesAreNatural
<1>4. ASSUME NEW n \in NonNegative, NEW price \in Nat
      PROVE  Tokens(n, price) \in NonNegative
  BY ScalarIsBand, TimesIsBand, MultiplierIsNatural, PartIsBand
<1>5. Costs(w, s, p) =
        [ fresh     |-> Tokens(parts.fresh, p.input),
          cached    |-> Tokens(parts.cached, CacheRead(p)),
          write     |-> Tokens(parts.writes, WritePremium(p)),
          output    |-> Tokens(t.output, p.output),
          reasoning |-> Tokens(t.reasoning, Reasoning(p)),
          fixed     |-> Times(t.requests, Scalar(p.fixed)),
          units     |-> IF t.images.typical > 0 /\ p.image # None
                          THEN Times(t.images, Scalar(p.image)) ELSE Scalar(0) ]
  BY DEF Costs
<1> HIDE DEF Tokens
<1>6. Times(t.requests, Scalar(p.fixed)) \in NonNegative
  BY <1>1, <1>3, ScalarIsBand, TimesIsBand
<1>7. (IF t.images.typical > 0 /\ p.image # None
         THEN Times(t.images, Scalar(p.image)) ELSE Scalar(0)) \in NonNegative
  BY <1>1, <1>3, ScalarIsBand, TimesIsBand
<1> PICK fresh \in NonNegative : fresh = Tokens(parts.fresh, p.input)
  BY <1>2, <1>3, <1>4
<1> PICK cached \in NonNegative : cached = Tokens(parts.cached, CacheRead(p))
  BY <1>2, <1>3, <1>4
<1> PICK write \in NonNegative : write = Tokens(parts.writes, WritePremium(p))
  BY <1>2, <1>3, <1>4
<1> PICK output \in NonNegative : output = Tokens(t.output, p.output)
  BY <1>1, <1>3, <1>4
<1> PICK reasoning \in NonNegative : reasoning = Tokens(t.reasoning, Reasoning(p))
  BY <1>1, <1>3, <1>4
<1> PICK fixed \in NonNegative : fixed = Times(t.requests, Scalar(p.fixed))
  BY <1>6
<1> PICK units \in NonNegative :
      units = IF t.images.typical > 0 /\ p.image # None
                THEN Times(t.images, Scalar(p.image)) ELSE Scalar(0)
  BY <1>7
<1>8. Costs(w, s, p) = [fresh |-> fresh, cached |-> cached, write |-> write, output |-> output,
                        reasoning |-> reasoning, fixed |-> fixed, units |-> units]
  BY <1>5
<1> QED
  BY <1>8 DEF CostFields

LEMMA TotalIsBand ==
  ASSUME NEW costs \in [CostFields -> NonNegative]
  PROVE  Total(costs) \in NonNegative
<1>1. /\ costs.fresh \in NonNegative /\ costs.cached \in NonNegative
      /\ costs.write \in NonNegative /\ costs.output \in NonNegative
      /\ costs.reasoning \in NonNegative /\ costs.fixed \in NonNegative
      /\ costs.units \in NonNegative
  BY DEF CostFields
<1> QED
  BY <1>1, PlusIsBand DEF Total

LEMMA AddedIsBand ==
  ASSUME NEW a \in [CostFields -> NonNegative], NEW b \in [CostFields -> NonNegative],
         NEW weight \in Nat
  PROVE  Added(a, Scaled(b, weight)) \in [CostFields -> NonNegative]
<1>1. Scaled(b, weight) \in [CostFields -> NonNegative]
  BY PartIsBand DEF Scaled
<1> QED
  BY <1>1, PlusIsBand DEF Added

-----------------------------------------------------------------------------
(***************************************************************************)
(* The inductive invariant.  The engine works on the first job that has no *)
(* breakdown yet, and the models of the jobs before it and the targets     *)
(* before the next one are known.                                          *)
(***************************************************************************)
Targets == [model : STRING, weight : Int]
JobType == [workload : Workload, override : {None} \cup STRING]
Breakdown ==
  [ of : Workload, targets : Seq(Targets), fresh : NonNegative, cached : NonNegative,
    costs : [CostFields -> NonNegative], total : NonNegative,
    perAction : {None} \cup NonNegative, estimated : SUBSET (STRING \X Defaults) ]

(* TokenAssumption, of one workload. *)
Exact(w) ==
  \A point \in Points :
    /\ w.input[point] % (Whole * Whole * Whole * Whole) = 0
    /\ w.output[point] % (Whole * Whole) = 0
    /\ w.reasoning[point] % (Whole * Whole) = 0

JobModels(job) ==
  IF job.override # None THEN {job.override}
  ELSE IF job.workload.modelId # None THEN {job.workload.modelId}
  ELSE {job.workload.mix[i].model : i \in DOMAIN job.workload.mix}

GoodJob(job) ==
  /\ job \in JobType /\ GoodWorkload(job.workload) /\ Exact(job.workload)
  /\ HasOneTarget(job.workload)

EngineInv ==
  /\ targets \in Seq(Targets) /\ \A i \in 1..Len(targets) : targets[i].weight \in Nat
  /\ priced \in 0..Len(targets)
  /\ combined \in [CostFields -> NonNegative]
  /\ estimated \in SUBSET (STRING \X Defaults)
  /\ component = None => targets = <<>>
  /\ component # None => targets # <<>>
  /\ component # None /\ priced > 0 => tokens = Counted
  /\ component # None => GoodWorkload(component) /\ Exact(component) /\ GoodSchedule(schedule)

(* A breakdown has the split of its own workload under the schedule. *)
SplitOfItsOwn(b) ==
  /\ GoodWorkload(b.of) /\ Exact(b.of) /\ GoodSchedule(schedule)
  /\ b.fresh = Split(b.of, Totals(b.of, schedule)).fresh
  /\ b.cached = Split(b.of, Totals(b.of, schedule)).cached

DoneInv ==
  /\ breakdowns \in Seq(Breakdown)
  /\ \A i \in 1..Len(breakdowns) : SplitOfItsOwn(breakdowns[i])

RequestInv ==
  /\ Idle => component = None
  /\ ~Idle =>
       /\ body \in Bodies /\ ValidBody(body) /\ KnownSchedule(body)
       /\ jobs = JobsOf(body) /\ schedule = Resolved(body)
       /\ Len(breakdowns) <= Len(jobs)
       /\ \A i \in 1..Len(breakdowns) : JobModels(jobs[i]) \subseteq DOMAIN Pricing
       /\ component # None =>
            /\ Len(breakdowns) < Len(jobs)
            /\ {targets[i].model : i \in 1..Len(targets)} = JobModels(jobs[Len(breakdowns) + 1])
            /\ \A i \in 1..priced : targets[i].model \in DOMAIN Pricing

IInv == EngineInv /\ DoneInv /\ RequestInv /\ MissingModelsAreNamed

-----------------------------------------------------------------------------
(***************************************************************************)
(* The jobs of a body.                                                     *)
(***************************************************************************)
LEMMA InputsAreGood ==
  ASSUME NEW b \in Bodies, ValidBody(b), NEW i \in DOMAIN b.workloads
  PROVE  LET w == Inputs(b)[i]
         IN  /\ w \in Workload /\ GoodWorkload(w) /\ Exact(w) /\ HasOneTarget(w)
             /\ b.models = None => w = b.workloads[i]
<1> PICK u : u = b.workloads[i]
  OBVIOUS
<1>1. b \in BodyType
  BY BodyAssumption
<1>2. u \in Workload /\ (b.models = None \/ b.models \in Seq(STRING))
  BY <1>1 DEF BodyType
<1> PICK w : w = Completed(u, b.models)
  OBVIOUS
<1>3. /\ w \in Workload /\ w.input = u.input /\ w.output = u.output
      /\ w.reasoning = u.reasoning /\ (b.models = None => w = u)
  <2>1. CASE w = u
    BY <1>2, <2>1
  <2>2. CASE w # u
    <3>1. ~NoList(b.models) /\ w = [u EXCEPT !.modelId = b.models[1]]
      BY <2>2 DEF Completed
    <3>2. b.models \in Seq(STRING) /\ b.models # <<>>
      BY <1>2, <3>1 DEF NoList
    <3>3. b.models[1] \in STRING
      BY <3>2
    <3>4. b.models # None
      BY <3>1 DEF NoList
    <3> QED
      BY <1>2, <3>1, <3>3, <3>4 DEF Workload
  <2> QED
    BY <2>1, <2>2
<1>4. Inputs(b)[i] = w
  BY DEF Inputs
<1>5. ValidFields(w) /\ HasOneTarget(w)
  BY <1>4 DEF ValidBody, Valid
<1>6. Exact(w)
  BY <1>3, TokenAssumption DEF Exact
<1> QED
  BY <1>3, <1>4, <1>5, <1>6 DEF GoodWorkload

LEMMA MapIsSequence ==
  ASSUME NEW S, NEW n \in Nat, NEW f \in [1..n -> S]
  PROVE  f \in Seq(S) /\ Len(f) = n
  OBVIOUS

LEMMA JobsAreGood ==
  ASSUME NEW b \in Bodies, ValidBody(b)
  PROVE  LET list == JobsOf(b)
         IN  /\ list \in Seq(JobType)
             /\ \A i \in 1..Len(list) : GoodJob(list[i])
             /\ Needed(b) = UNION {JobModels(list[i]) : i \in 1..Len(list)}
<1> DEFINE list == JobsOf(b)
<1>1. /\ b \in BodyType
      /\ b.endpoint = "pipeline" => b.models = None
      /\ b.endpoint # "pipeline" => Len(b.workloads) = 1
  BY BodyAssumption
<1>2. b.workloads \in Seq(Workload) /\ (b.models = None \/ b.models \in Seq(STRING))
  BY <1>1 DEF BodyType
<1>3. CASE b.models = None
  <2>1. list = [i \in 1..Len(b.workloads) |-> [workload |-> Inputs(b)[i], override |-> None]]
    BY <1>2, <1>3 DEF JobsOf
  <2>2. ASSUME NEW i \in 1..Len(b.workloads)
        PROVE  /\ list[i] \in JobType /\ GoodJob(list[i])
               /\ list[i].workload = b.workloads[i] /\ list[i].override = None
    <3>1. i \in DOMAIN b.workloads
      BY <1>2
    <3> QED
      BY <1>3, <2>1, <3>1, InputsAreGood DEF JobType, GoodJob
  <2>3. list \in Seq(JobType) /\ Len(list) = Len(b.workloads)
    <3> PICK n \in Nat : n = Len(b.workloads)
      BY <1>2
    <3> HIDE DEF list
    <3>1. list \in [1..n -> JobType]
      BY <2>1, <2>2
    <3> QED
      BY <3>1, MapIsSequence
  <2>4. Needed(b) = UNION {JobModels(list[i]) : i \in 1..Len(list)}
    <3> DEFINE Named(w) == IF w.modelId # None THEN {w.modelId}
                           ELSE {w.mix[i].model : i \in DOMAIN w.mix}
    <3>1. Needed(b) = UNION {Named(w) : w \in ToSet(b.workloads)}
      BY <1>3 DEF Needed
    <3>2. \A i \in 1..Len(b.workloads) : JobModels(list[i]) = Named(b.workloads[i])
      BY <2>2 DEF JobModels
    <3>3. ToSet(b.workloads) = {b.workloads[i] : i \in 1..Len(b.workloads)}
      BY <1>2 DEF ToSet
    <3> HIDE DEF Named, list
    <3> QED
      BY <2>3, <3>1, <3>2, <3>3
  <2> QED
    BY <2>2, <2>3, <2>4
<1>4. CASE b.models # None
  <2>1. list = [i \in 1..Len(b.models) |-> [workload |-> Inputs(b)[1], override |-> b.models[i]]]
    BY <1>2, <1>4 DEF JobsOf
  <2>2. ASSUME NEW i \in 1..Len(b.models)
        PROVE  list[i] \in JobType /\ GoodJob(list[i]) /\ JobModels(list[i]) = {b.models[i]}
    <3>1. 1 \in DOMAIN b.workloads
      BY <1>1, <1>2, <1>4
    <3>2. b.models[i] \in STRING
      BY <1>2, <1>4
    <3> QED
      BY <2>1, <3>1, <3>2, InputsAreGood DEF JobType, GoodJob, JobModels
  <2>3. list \in Seq(JobType) /\ Len(list) = Len(b.models)
    <3> PICK n \in Nat : n = Len(b.models)
      BY <1>2, <1>4
    <3> HIDE DEF list
    <3>1. list \in [1..n -> JobType]
      BY <2>1, <2>2
    <3> QED
      BY <3>1, MapIsSequence
  <2>4. Needed(b) = {b.models[i] : i \in 1..Len(b.models)}
    BY <1>2, <1>4 DEF Needed, ToSet
  <2> HIDE DEF list
  <2>5. UNION {JobModels(list[i]) : i \in 1..Len(list)} = {b.models[i] : i \in 1..Len(b.models)}
    <3>1. \A i \in 1..Len(list) : JobModels(list[i]) = {b.models[i]}
      BY <2>2, <2>3
    <3>2. ASSUME NEW i \in 1..Len(list), NEW x
          PROVE  x \in JobModels(list[i]) <=> x = b.models[i]
      BY <3>1
    <3> HIDE <3>1
    <3>3. ASSUME NEW x
          PROVE  x \in UNION {JobModels(list[i]) : i \in 1..Len(list)}
                   <=> \E i \in 1..Len(list) : x = b.models[i]
      BY ONLY <3>2, Zenon
    <3> QED
      BY <2>3, <3>3
  <2> QED
    BY <2>2, <2>3, <2>4, <2>5 DEF list
<1> QED
  BY <1>3, <1>4

(* The targets Begin takes for a job.                                     *)
TargetsOf(job) ==
  IF job.override # None THEN Only(job.override)
  ELSE IF job.workload.modelId # None THEN Only(job.workload.modelId)
  ELSE job.workload.mix

LEMMA TargetsOfJob ==
  ASSUME NEW job, GoodJob(job), NEW list, list = TargetsOf(job)
  PROVE  /\ list \in Seq(Targets) /\ \A i \in 1..Len(list) : list[i].weight \in Nat
         /\ {list[i].model : i \in 1..Len(list)} = JobModels(job)
<1>1. /\ job.override \in {None} \cup STRING /\ job.workload \in Workload
      /\ HasOneTarget(job.workload)
  BY DEF GoodJob, JobType
<1>2. ASSUME NEW m \in STRING, list = Only(m), JobModels(job) = {m}
      PROVE  /\ list \in Seq(Targets) /\ \A i \in 1..Len(list) : list[i].weight \in Nat
             /\ {list[i].model : i \in 1..Len(list)} = JobModels(job)
  <2> PICK r : r = [model |-> m, weight |-> Whole]
    OBVIOUS
  <2>3. r \in Targets
    BY DEF Targets
  <2>4. list = <<r>>
    BY <1>2 DEF Only
  <2> HIDE DEF Targets
  <2>5. list \in [1..1 -> Targets]
    BY <2>3, <2>4
  <2>1. list \in Seq(Targets) /\ Len(list) = 1
    BY <2>5, MapIsSequence
  <2>2. list[1].model = m /\ list[1].weight \in Nat
    BY <1>2 DEF Only
  <2> QED
    BY <1>2, <2>1, <2>2
<1>3. CASE job.override # None
  <2> PICK m \in STRING : m = job.override
    BY <1>1, <1>3
  <2>1. list = Only(m) /\ JobModels(job) = {m}
    BY <1>3 DEF JobModels, TargetsOf
  <2> QED
    BY <1>2, <2>1
<1>4. CASE job.override = None /\ job.workload.modelId # None
  <2> PICK m \in STRING : m = job.workload.modelId
    BY <1>1, <1>4 DEF Workload
  <2>1. list = Only(m) /\ JobModels(job) = {m}
    BY <1>4 DEF JobModels, TargetsOf
  <2> QED
    BY <1>2, <2>1
<1>5. CASE job.override = None /\ job.workload.modelId = None
  <2> PICK mix : mix = job.workload.mix
    OBVIOUS
  <2>1. mix # None /\ \A i \in DOMAIN mix : mix[i].weight \in 1..Whole
    BY <1>1, <1>5 DEF HasOneTarget
  <2>2. mix \in Seq(Targets)
    BY <1>1, <2>1 DEF Workload, Targets
  <2> QED
    BY <1>5, <2>1, <2>2 DEF JobModels, TargetsOf
<1> QED
  BY <1>3, <1>4, <1>5

LEMMA JobsHaveTargets ==
  ASSUME NEW job, GoodJob(job)
  PROVE  TargetsOf(job) # <<>>
<1>1. HasOneTarget(job.workload)
  BY DEF GoodJob
<1>2. \A m : Only(m) # <<>>
  BY DEF Only
<1>3. job.workload.modelId = None => job.workload.mix # <<>>
  BY <1>1 DEF HasOneTarget
<1> QED
  BY <1>2, <1>3 DEF TargetsOf

LEMMA ScheduleIsGood ==
  ASSUME NEW b \in Bodies, ValidBody(b), KnownSchedule(b)
  PROVE  GoodSchedule(Resolved(b))
<1>1. b \in BodyType /\ (b.preset = None) # (b.inline = None)
  BY BodyAssumption
<1>2. CASE b.preset = None
  <2>1. b.inline \in Schedule /\ ValidSchedule(b.inline)
    BY <1>1, <1>2 DEF BodyType, ValidBody
  <2> QED
    BY <1>2, <2>1 DEF Resolved, GoodSchedule
<1>3. CASE b.preset # None
  BY <1>3, PresetAssumption DEF KnownSchedule, Resolved, GoodSchedule
<1> QED
  BY <1>2, <1>3

-----------------------------------------------------------------------------
(***************************************************************************)
(* Every step keeps the invariant.                                         *)
(***************************************************************************)
LEMMA InitIInv == Init => IInv
<1> SUFFICES ASSUME Init PROVE IInv
  OBVIOUS
<1> USE DEF Init, EngineInit
<1>1. NoCosts \in [CostFields -> NonNegative]
  BY ScalarIsBand DEF NoCosts, CostFields
<1>2. EngineInv
  BY <1>1 DEF EngineInv
<1>3. DoneInv
  BY DEF DoneInv
<1>4. RequestInv
  BY DEF RequestInv, Idle
<1>5. MissingModelsAreNamed
  BY DEF MissingModelsAreNamed, Answered
<1> QED
  BY <1>2, <1>3, <1>4, <1>5 DEF IInv

(* The engine works only for a request that is not answered. *)
LEMMA Working ==
  ASSUME IInv
  PROVE  /\ component = None => priced = 0 /\ targets = <<>>
         /\ component # None => ~Idle
         /\ priced < Len(targets) => component # None
         /\ ~Idle => body # None /\ answer = None
  BY DEF IInv, EngineInv, RequestInv, Idle

ErrorType ==
  [ status : {404, 422, 500}, model : {None} \cup STRING,
    error  : {"detail", "unknown_schedule_preset", "model_not_found", "internal"} ]

LEMMA ErrorsAreSome == \A error \in ErrorType : error # None
  BY AnswerAssumption DEF ErrorType

LEMMA ReceiveStep ==
  ASSUME IInv, NEW b \in Bodies, Receive(b)
  PROVE  IInv'
<1>1. /\ component' = None /\ targets' = <<>> /\ priced' = 0
      /\ combined' = combined /\ estimated' = estimated /\ breakdowns' = <<>> /\ body' = b
  BY Working DEF IInv, RequestInv, Receive, Refuse, Accept
<1>2. EngineInv'
  BY <1>1 DEF IInv, EngineInv
<1>3. DoneInv'
  BY <1>1 DEF DoneInv
<1>4. b # None
  BY BodyAssumption
<1>5. ASSUME NEW status \in {422, 500}, NEW what \in {"detail", "unknown_schedule_preset", "internal"},
             Refuse(b, Error(status, what, None)),
             ~(ValidBody(b) /\ KnownSchedule(b)) \/ Error(status, what, None) = NoCatalog
      PROVE  RequestInv' /\ MissingModelsAreNamed'
  <2> PICK error : error = Error(status, what, None)
    OBVIOUS
  <2>1. error \in ErrorType
    BY DEF Error, ErrorType
  <2>2. error # None /\ answer' = error
    BY <1>5, <2>1, ErrorsAreSome DEF Refuse
  <2>3. Outcome(error) = "TokenomicsAPIError"
    BY <1>5 DEF Outcome, Error
  <2>4. RequestInv'
    BY <1>1, <2>2 DEF RequestInv, Idle
  <2>5. MissingModelsAreNamed'
    BY <1>1, <1>5, <2>2, <2>3 DEF MissingModelsAreNamed
  <2> QED
    BY <2>4, <2>5
<1>6. CASE Accept(b)
  <2>1. /\ ValidBody(b) /\ KnownSchedule(b) /\ answer' = None
        /\ jobs' = JobsOf(b) /\ schedule' = Resolved(b)
    BY <1>6 DEF Accept
  <2>2. JobsOf(b) \in Seq(JobType)
    BY <2>1, JobsAreGood
  <2>3. Len(JobsOf(b)) \in Nat
    BY <2>2
  <2>4. RequestInv'
    BY <1>1, <1>4, <2>1, <2>3 DEF RequestInv, Idle
  <2>5. MissingModelsAreNamed'
    BY <2>1 DEF MissingModelsAreNamed, Answered
  <2> QED
    BY <1>2, <1>3, <2>4, <2>5 DEF IInv
<1> QED
  BY <1>2, <1>3, <1>5, <1>6 DEF IInv, Receive, NoCatalog

LEMMA NextJobStep ==
  ASSUME IInv, NextJob
  PROVE  IInv'
<1> PICK n \in Nat : n = Len(breakdowns)
  BY DEF IInv, DoneInv
<1> PICK job : job = jobs[n + 1]
  OBVIOUS
<1>1. /\ ~Idle /\ n < Len(jobs) /\ component = None
      /\ component' = job.workload
      /\ targets' = IF job.override # None THEN Only(job.override)
                    ELSE IF job.workload.modelId # None THEN Only(job.workload.modelId)
                    ELSE job.workload.mix
      /\ schedule' = schedule /\ priced' = priced /\ combined' = combined
      /\ estimated' = estimated /\ breakdowns' = breakdowns
      /\ body' = body /\ jobs' = jobs /\ answer' = answer
  BY DEF NextJob, Begin
<1>2. /\ body \in Bodies /\ ValidBody(body) /\ KnownSchedule(body)
      /\ jobs = JobsOf(body) /\ schedule = Resolved(body)
  BY <1>1 DEF IInv, RequestInv
<1>3. jobs \in Seq(JobType) /\ \A i \in 1..Len(jobs) : GoodJob(jobs[i])
  BY <1>2, JobsAreGood
<1>4. GoodJob(job)
  BY <1>1, <1>3
<1> PICK list : list = targets'
  OBVIOUS
<1>5. /\ list \in Seq(Targets) /\ \A i \in 1..Len(list) : list[i].weight \in Nat
      /\ {list[i].model : i \in 1..Len(list)} = JobModels(job)
  <2>1. list = TargetsOf(job)
    BY <1>1 DEF TargetsOf
  <2> QED
    BY ONLY <1>4, <2>1, TargetsOfJob
<1>6. component' # None
  BY <1>1, <1>4, NoneAssumption DEF GoodJob, JobType
<1>7. priced = 0
  BY <1>1, Working
<1>8. EngineInv'
  <2>1. GoodWorkload(component') /\ Exact(component') /\ GoodSchedule(schedule)
    BY <1>1, <1>2, <1>4, ScheduleIsGood DEF GoodJob
  <2>2. combined \in [CostFields -> NonNegative] /\ estimated \in SUBSET (STRING \X Defaults)
    BY DEF IInv, EngineInv
  <2>3. priced' \in 0..Len(targets') /\ ~(priced' > 0)
    BY <1>1, <1>5, <1>7
  <2>4. targets' # <<>>
    BY <1>1, <1>4, JobsHaveTargets DEF TargetsOf
  <2> QED
    BY <1>1, <1>5, <1>6, <2>1, <2>2, <2>3, <2>4 DEF EngineInv
<1>9. DoneInv'
  BY <1>1 DEF IInv, DoneInv, SplitOfItsOwn
<1>10. RequestInv'
  <2>1. {targets'[i].model : i \in 1..Len(targets')} = JobModels(jobs'[Len(breakdowns') + 1])
    BY <1>1, <1>5
  <2>2. \A i \in 1..priced' : targets'[i].model \in DOMAIN Pricing
    BY <1>1, <1>7
  <2>3. ~Idle' /\ Len(breakdowns') < Len(jobs')
    BY <1>1 DEF Idle
  <2>4. \A i \in 1..Len(breakdowns) : JobModels(jobs[i]) \subseteq DOMAIN Pricing
    BY <1>1 DEF IInv, RequestInv
  <2>5. Len(breakdowns') <= Len(jobs')
    BY <1>1, <1>3
  <2> QED
    BY <1>1, <1>2, <2>1, <2>2, <2>3, <2>4, <2>5 DEF RequestInv
<1>11. MissingModelsAreNamed'
  BY <1>1, Working DEF MissingModelsAreNamed, Answered
<1> QED
  BY <1>8, <1>9, <1>10, <1>11 DEF IInv

LEMMA PriceTargetStep ==
  ASSUME IInv, PriceTarget, UNCHANGED <<body, jobs, answer>>
  PROVE  IInv'
<1> PICK n \in Nat : n = priced
  BY DEF IInv, EngineInv
<1> PICK target : target = targets[n + 1]
  OBVIOUS
<1> PICK p : p = Pricing[target.model]
  OBVIOUS
<1>1. /\ n < Len(targets) /\ target.model \in DOMAIN Pricing
      /\ combined' = Added(combined, Scaled(Costs(component, schedule, p), target.weight))
      /\ estimated' = estimated \cup
           {<<target.model, field>> : field \in Fallbacks(component, schedule, p)}
      /\ priced' = n + 1 /\ tokens' = Counted
      /\ schedule' = schedule /\ component' = component /\ targets' = targets
      /\ breakdowns' = breakdowns /\ body' = body /\ jobs' = jobs /\ answer' = answer
  BY DEF PriceTarget, Known, Target
<1>2. component # None /\ ~Idle /\ answer = None
  BY <1>1, Working
<1>3. /\ GoodWorkload(component) /\ GoodSchedule(schedule) /\ targets \in Seq(Targets)
      /\ combined \in [CostFields -> NonNegative] /\ estimated \in SUBSET (STRING \X Defaults)
      /\ \A i \in 1..Len(targets) : targets[i].weight \in Nat
  BY <1>2 DEF IInv, EngineInv
<1>4. n + 1 \in 1..Len(targets)
  BY <1>1, <1>3
<1>5. target.model \in STRING /\ target.weight \in Nat
  <2>1. target \in Targets /\ targets[n + 1].weight \in Nat
    BY <1>3, <1>4
  <2> QED
    BY <2>1 DEF Targets
<1>6. EngineInv'
  <2>1. ValidPricing(p)
    BY <1>1, PricingAssumption
  <2>2. Costs(component, schedule, p) \in [CostFields -> NonNegative]
    BY <1>3, <2>1, CostsAreBands
  <2>3. combined' \in [CostFields -> NonNegative]
    BY <1>1, <1>3, <1>5, <2>2, AddedIsBand
  <2>4. Fallbacks(component, schedule, p) \subseteq Defaults
    <3>1. DOMAIN Volume(component, schedule) \subseteq Defaults
      BY DEF Volume, Defaults
    <3>2. "provider" \in Defaults
      BY DEF Defaults
    <3> QED
      BY <3>1, <3>2 DEF Fallbacks
  <2>5. estimated' \in SUBSET (STRING \X Defaults)
    BY <1>1, <1>3, <1>5, <2>4
  <2>6. tokens' = Counted'
    BY <1>1 DEF Counted
  <2> QED
    BY <1>1, <1>3, <1>4, <2>3, <2>5, <2>6 DEF IInv, EngineInv
<1>7. DoneInv'
  BY <1>1 DEF IInv, DoneInv, SplitOfItsOwn
<1>8. RequestInv'
  <2>1. ASSUME NEW i \in 1..priced'
        PROVE  targets'[i].model \in DOMAIN Pricing
    <3>1. CASE i = n + 1
      BY <1>1, <3>1
    <3>2. CASE i # n + 1
      <4>1. i \in 1..priced
        BY <1>1, <3>2
      <4> QED
        BY <1>1, <1>2, <4>1 DEF IInv, RequestInv
    <3> QED
      BY <3>1, <3>2
  <2>2. ~Idle'
    BY <1>1, <1>2 DEF Idle
  <2> QED
    BY <1>1, <1>2, <2>1, <2>2 DEF IInv, RequestInv
<1>9. MissingModelsAreNamed'
  BY <1>1, <1>2 DEF MissingModelsAreNamed, Answered
<1> QED
  BY <1>6, <1>7, <1>8, <1>9 DEF IInv

LEMMA PerActionIsBand ==
  ASSUME NEW total \in NonNegative, NEW actions, actions = None \/ actions \in Positive
  PROVE  PerAction(total, actions) \in {None} \cup NonNegative
  BY OverIsBand DEF PerAction

LEMMA EndComponentStep ==
  ASSUME IInv, EndComponent, UNCHANGED <<body, jobs, answer>>
  PROVE  IInv'
<1> PICK n \in Nat : n = Len(breakdowns)
  BY DEF IInv, DoneInv
<1> PICK t : t = Totals(component, schedule)
  OBVIOUS
<1> PICK parts : parts = tokens
  OBVIOUS
<1> PICK total : total = Total(combined)
  OBVIOUS
<1> PICK perAction : perAction = PerAction(total, t.actions)
  OBVIOUS
<1> PICK b : b = [ of |-> component, targets |-> targets, fresh |-> parts.fresh,
                   cached |-> parts.cached, costs |-> combined, total |-> total,
                   perAction |-> perAction, estimated |-> estimated ]
  OBVIOUS
<1>1. /\ component # None /\ priced = Len(targets)
      /\ breakdowns' = Append(breakdowns, b)
      /\ component' = None /\ targets' = <<>> /\ priced' = 0
      /\ combined' = NoCosts /\ estimated' = {} /\ schedule' = schedule
      /\ body' = body /\ jobs' = jobs /\ answer' = answer
  BY DEF EndComponent, NoComponent
<1>2. ~Idle /\ answer = None
  BY <1>1, Working
<1>3. /\ GoodWorkload(component) /\ Exact(component) /\ GoodSchedule(schedule)
      /\ targets \in Seq(Targets) /\ combined \in [CostFields -> NonNegative]
      /\ estimated \in SUBSET (STRING \X Defaults)
  BY <1>1 DEF IInv, EngineInv
<1>0. parts = Split(component, t)
  <2>1. priced > 0
    <3>1. targets # <<>> /\ targets \in Seq(Targets)
      BY <1>1 DEF IInv, EngineInv
    <3>2. Len(targets) > 0
      BY ONLY <3>1
    <3> QED
      BY <1>1, <3>2
  <2> QED
    BY <1>1, <2>1 DEF IInv, EngineInv, Counted
<1>4. b \in Breakdown
  <2>1. parts.fresh \in NonNegative /\ parts.cached \in NonNegative
    BY <1>0, <1>3, SplitIsBand
  <2>2. total \in NonNegative
    BY <1>3, TotalIsBand
  <2>3. t.actions = None \/ t.actions \in Positive
    BY <1>3, TotalsAreBands
  <2>4. perAction \in {None} \cup NonNegative
    BY <2>2, <2>3, PerActionIsBand
  <2>5. component \in Workload
    BY <1>3 DEF GoodWorkload
  <2> QED
    BY <1>3, <2>1, <2>2, <2>4, <2>5 DEF Breakdown
<1>5. SplitOfItsOwn(b)
  BY <1>0, <1>3 DEF SplitOfItsOwn
<1>6. breakdowns \in Seq(Breakdown) /\ \A i \in 1..n : SplitOfItsOwn(breakdowns[i])
  BY DEF IInv, DoneInv
<1>7. /\ breakdowns' \in Seq(Breakdown) /\ Len(breakdowns') = n + 1
      /\ \A i \in 1..n : breakdowns'[i] = breakdowns[i]
      /\ breakdowns'[n + 1] = b
  BY <1>1, <1>4, <1>6
<1>8. EngineInv'
  <2>1. NoCosts \in [CostFields -> NonNegative]
    BY ScalarIsBand DEF NoCosts, CostFields
  <2> QED
    BY <1>1, <2>1 DEF EngineInv
<1>9. DoneInv'
  <2>1. ASSUME NEW i \in 1..n + 1
        PROVE  SplitOfItsOwn(breakdowns'[i])
    BY <1>5, <1>6, <1>7
  <2>2. ASSUME NEW i \in 1..n + 1
        PROVE  SplitOfItsOwn(breakdowns[i])'
    BY <1>1, <2>1 DEF SplitOfItsOwn
  <2> QED
    BY <1>7, <2>2 DEF DoneInv
<1>10. RequestInv'
  <2>1. /\ n < Len(jobs) /\ {targets[i].model : i \in 1..Len(targets)} = JobModels(jobs[n + 1])
        /\ \A i \in 1..Len(targets) : targets[i].model \in DOMAIN Pricing
        /\ \A i \in 1..n : JobModels(jobs[i]) \subseteq DOMAIN Pricing
    BY <1>1, <1>2 DEF IInv, RequestInv
  <2>2. JobModels(jobs[n + 1]) \subseteq DOMAIN Pricing
    BY <2>1
  <2>3. \A i \in 1..n + 1 : JobModels(jobs[i]) \subseteq DOMAIN Pricing
    BY <2>1, <2>2
  <2>4. body \in Bodies /\ ValidBody(body) /\ jobs = JobsOf(body)
    BY <1>2 DEF IInv, RequestInv
  <2>5. n + 1 <= Len(jobs)
    <3>1. jobs \in Seq(JobType)
      BY <2>4, JobsAreGood
    <3>2. Len(jobs) \in Nat
      BY <3>1
    <3> QED
      BY <2>1, <3>2
  <2>6. ~Idle'
    BY <1>1, <1>2 DEF Idle
  <2> QED
    BY <1>1, <1>2, <1>7, <2>3, <2>5, <2>6 DEF IInv, RequestInv
<1>11. MissingModelsAreNamed'
  BY <1>1, <1>2 DEF MissingModelsAreNamed, Answered
<1> QED
  BY <1>8, <1>9, <1>10, <1>11 DEF IInv

LEMMA NotFoundStep ==
  ASSUME IInv, NotFound
  PROVE  IInv'
<1> PICK n \in Nat : n = Len(breakdowns)
  BY DEF IInv, DoneInv
<1> PICK k \in Nat : k = priced
  BY DEF IInv, EngineInv
<1> PICK m : m = targets[k + 1].model
  OBVIOUS
<1> PICK error : error = Error(404, "model_not_found", m)
  OBVIOUS
<1>1. /\ k < Len(targets) /\ m \notin DOMAIN Pricing
      /\ answer' = error /\ breakdowns' = <<>> /\ body' = body
      /\ component' = None /\ targets' = <<>> /\ priced' = 0
      /\ combined' = NoCosts /\ estimated' = {}
  BY DEF NotFound, UnknownModel, NoComponent, Known, Target
<1>2. component # None /\ ~Idle
  BY <1>1, Working
<1>3. targets \in Seq(Targets)
  BY DEF IInv, EngineInv
<1>4. k + 1 \in 1..Len(targets)
  BY <1>1, <1>3
<1>5. m \in STRING
  <2>1. targets[k + 1] \in Targets
    BY <1>3, <1>4
  <2> QED
    BY <2>1 DEF Targets
<1>6. /\ body \in Bodies /\ ValidBody(body) /\ KnownSchedule(body) /\ jobs = JobsOf(body)
      /\ n < Len(jobs) /\ {targets[i].model : i \in 1..Len(targets)} = JobModels(jobs[n + 1])
  BY <1>2 DEF IInv, RequestInv
<1>7. m \in Needed(body)
  <2>1. jobs \in Seq(JobType) /\ Needed(body) = UNION {JobModels(jobs[i]) : i \in 1..Len(jobs)}
    BY <1>6, JobsAreGood
  <2>2. n + 1 \in 1..Len(jobs)
    BY <1>6, <2>1
  <2>3. m \in JobModels(jobs[n + 1])
    BY <1>4, <1>6
  <2> QED
    BY <2>1, <2>2, <2>3
<1>8. error # None
  <2>1. error \in ErrorType
    BY <1>5 DEF Error, ErrorType
  <2> QED
    BY <2>1, ErrorsAreSome
<1>9. EngineInv' /\ DoneInv'
  <2>1. NoCosts \in [CostFields -> NonNegative]
    BY ScalarIsBand DEF NoCosts, CostFields
  <2> QED
    BY <1>1, <2>1 DEF EngineInv, DoneInv
<1>10. RequestInv'
  BY <1>1, <1>8 DEF RequestInv, Idle
<1>11. MissingModelsAreNamed'
  <2>1. Outcome(error) = "ModelNotFoundError" /\ error.model = m /\ error # NoCatalog
    BY DEF Outcome, Error, NoCatalog
  <2> QED
    BY <1>1, <1>6, <1>7, <2>1 DEF MissingModelsAreNamed
<1> QED
  BY <1>9, <1>10, <1>11 DEF IInv

LEMMA StutterStep ==
  ASSUME IInv, UNCHANGED vars
  PROVE  IInv'
<1>1. EngineInv' /\ DoneInv' /\ RequestInv'
  BY DEF IInv, vars, engineVars, EngineInv, Counted, DoneInv, SplitOfItsOwn, RequestInv, Idle
<1>2. MissingModelsAreNamed'
  BY DEF IInv, vars, engineVars, MissingModelsAreNamed, Answered
<1> QED
  BY <1>1, <1>2 DEF IInv

LEMMA FinishStep ==
  ASSUME IInv, Finish
  PROVE  IInv'
<1> PICK reply : reply = Reply
  OBVIOUS
<1>1. /\ ~Idle /\ component = None /\ Len(breakdowns) = Len(jobs)
      /\ answer' = reply
      /\ UNCHANGED engineVars /\ body' = body /\ jobs' = jobs
  BY DEF Finish
<1>2. reply.status = 200
  BY DEF Reply
<1>3. CASE reply = None
  <2>1. answer = None
    BY <1>1, Working
  <2>2. UNCHANGED vars
    BY <1>1, <1>3, <2>1 DEF vars
  <2> QED
    BY <2>2, StutterStep
<1>4. CASE reply # None
  <2>1. EngineInv' /\ DoneInv'
    BY <1>1 DEF IInv, engineVars, EngineInv, Counted, DoneInv, SplitOfItsOwn
  <2>2. RequestInv'
    BY <1>1, <1>4 DEF engineVars, RequestInv, Idle
  <2>3. Needed(body) \subseteq DOMAIN Pricing
    <3>1. /\ body \in Bodies /\ ValidBody(body) /\ jobs = JobsOf(body)
          /\ \A i \in 1..Len(jobs) : JobModels(jobs[i]) \subseteq DOMAIN Pricing
      BY <1>1 DEF IInv, RequestInv
    <3>2. Needed(body) = UNION {JobModels(jobs[i]) : i \in 1..Len(jobs)}
      BY <3>1, JobsAreGood
    <3> QED
      BY <3>1, <3>2
  <2>4. Outcome(reply) = "result"
    BY <1>2 DEF Outcome
  <2>5. MissingModelsAreNamed'
    BY <1>1, <2>3, <2>4 DEF MissingModelsAreNamed
  <2> QED
    BY <2>1, <2>2, <2>5 DEF IInv
<1> QED
  BY <1>3, <1>4

LEMMA NextIInv == IInv /\ [Next]_vars => IInv'
<1> SUFFICES ASSUME IInv, [Next]_vars PROVE IInv'
  OBVIOUS
<1>1. ASSUME NEW b \in Bodies, Receive(b) PROVE IInv'
  BY <1>1, ReceiveStep
<1>2. CASE NextJob
  BY <1>2, NextJobStep
<1>3. CASE NotFound
  BY <1>3, NotFoundStep
<1>4. CASE Finish
  BY <1>4, FinishStep
<1>5. CASE PriceTarget /\ UNCHANGED <<body, jobs, answer>>
  BY <1>5, PriceTargetStep
<1>6. CASE EndComponent /\ UNCHANGED <<body, jobs, answer>>
  BY <1>6, EndComponentStep
<1>7. CASE UNCHANGED vars
  BY <1>7, StutterStep
<1> QED
  BY <1>1, <1>2, <1>3, <1>4, <1>5, <1>6, <1>7 DEF Next

LEMMA IInvHolds == Spec => []IInv
  BY InitIInv, NextIInv, PTL DEF Spec

-----------------------------------------------------------------------------
(***************************************************************************)
(* The cache split.  Whole divides the prompt tokens of a workload (its    *)
(* fourth power does), hence those of the month, and both parts of them    *)
(* are exact.                                                              *)
(***************************************************************************)
LEMMA DivisionIsMonotone ==
  ASSUME NEW x \in Nat, NEW y \in Nat, x <= y
  PROVE  x \div Whole <= y \div Whole /\ x \div Whole \in Nat
  OBVIOUS

LEMMA DivisionUndoesTimes ==
  ASSUME NEW q \in Nat
  PROVE  (Whole * q) \div Whole = q
  OBVIOUS

LEMMA PartIsPointwise ==
  ASSUME NEW a \in NonNegative, NEW k \in Nat, NEW point \in Points
  PROVE  Part(a, k)[point] = (a[point] * k) \div Whole
<1> PICK c : c = Times(a, Scalar(k))
  OBVIOUS
<1>1. c \in NonNegative /\ \A p \in Points : c[p] = a[p] * k
  BY ScalarIsBand, TimesIsBand
<1>2. /\ c.range \in BOOLEAN /\ c.min \in Nat /\ c.typical \in Nat /\ c.max \in Nat
      /\ c.min <= c.typical /\ c.typical <= c.max
      /\ ~c.range => c.min = c.typical /\ c.typical = c.max
  BY <1>1, BandFields
<1> PICK x \in Nat : x = c.min \div Whole
  BY <1>2, DivisionIsMonotone
<1> PICK y \in Nat : y = c.typical \div Whole
  BY <1>2, DivisionIsMonotone
<1> PICK z \in Nat : z = c.max \div Whole
  BY <1>2, DivisionIsMonotone
<1>3. x <= y /\ y <= z /\ (~c.range => x = y /\ y = z)
  BY <1>2, DivisionIsMonotone
<1>4. Part(a, k) = Normalized(c.range, x, y, z)
  BY <1>2 DEF Part, Over, Scalar
<1>5. Part(a, k) = [range |-> c.range, min |-> x, typical |-> y, max |-> z]
  BY <1>2, <1>3, <1>4, NormalizedSorts
<1>6. Part(a, k)[point] = c[point] \div Whole
  BY <1>5 DEF Points
<1> QED
  BY <1>1, <1>6

LEMMA MultipleOf ==
  ASSUME NEW d \in Nat \ {0}, NEW x \in Nat, x % d = 0
  PROVE  \E k \in Nat : x = d * k
<1>1. x = d * (x \div d) /\ x \div d \in Nat
  OBVIOUS
<1> QED
  BY <1>1

LEMMA ExactIsMultiple ==
  ASSUME NEW w, Exact(w), NEW point \in Points, w.input[point] \in Nat
  PROVE  \E k \in Nat : w.input[point] = Whole * k
<1> PICK x \in Nat : x = w.input[point]
  OBVIOUS
<1> PICK v \in Nat \ {0} : v = Whole
  OBVIOUS
<1> PICK u \in Nat \ {0} : u = v * v * v
  OBVIOUS
<1>1. v * v * v * v = v * u /\ v * u \in Nat \ {0}
  OBVIOUS
<1>2. x % (v * u) = 0
  BY <1>1 DEF Exact
<1> PICK d \in Nat \ {0} : d = v * u
  BY <1>1
<1>3. x % d = 0
  BY <1>2
<1> PICK k \in Nat : x = d * k
  BY ONLY <1>3, MultipleOf
<1>4. (v * u) * k = v * (u * k) /\ u * k \in Nat
  BY ONLY TRUE
<1> QED
  BY <1>4

LEMMA SplitConserves ==
  ASSUME NEW w, GoodWorkload(w), Exact(w), NEW s, GoodSchedule(s), NEW point \in Points
  PROVE  Split(w, Totals(w, s)).fresh[point] + Split(w, Totals(w, s)).cached[point]
           = Totals(w, s).input[point]
<1> PICK t : t = Totals(w, s)
  OBVIOUS
<1>1. /\ t.input \in NonNegative
      /\ \E requests \in NonNegative : t.input = Times(w.input, requests)
  BY TotalsAreBands
<1> PICK requests \in NonNegative : t.input = Times(w.input, requests)
  BY <1>1
<1> PICK hit : hit = w.cacheHit
  OBVIOUS
<1>2. w.input \in NonNegative /\ hit \in 0..Whole
  BY DEF GoodWorkload, ValidFields
<1>3. t.input[point] = w.input[point] * requests[point]
  BY <1>2, TimesIsBand
<1>4. w.input[point] \in Nat /\ requests[point] \in Nat
  BY <1>2, BandFields
<1> PICK k \in Nat : w.input[point] = Whole * k
  BY <1>4, ExactIsMultiple
<1> PICK r \in Nat : r = requests[point]
  BY <1>4
<1> PICK m \in Nat : m = k * r
  <2>1. \A x, y \in Nat : x * y \in Nat
    OBVIOUS
  <2> QED
    BY <2>1
<1>5. t.input[point] = Whole * m
  BY <1>3
<1>6. Split(w, t).fresh = Part(t.input, Whole - hit) /\ Split(w, t).cached = Part(t.input, hit)
  BY DEF Split
<1>7. ASSUME NEW c \in Nat
      PROVE  Part(t.input, c)[point] = m * c
  <2>1. Part(t.input, c)[point] = (t.input[point] * c) \div Whole
    BY <1>1, PartIsPointwise
  <2>2. m * c \in Nat
    <3>1. \A x, y \in Nat : x * y \in Nat
      OBVIOUS
    <3> QED
      BY <3>1
  <2>3. t.input[point] * c = Whole * (m * c)
    BY <1>5
  <2> QED
    BY <2>1, <2>2, <2>3, DivisionUndoesTimes
<1>8. hit \in Nat /\ Whole - hit \in Nat
  BY <1>2
<1>9. Split(w, t).fresh[point] = m * (Whole - hit) /\ Split(w, t).cached[point] = m * hit
  BY <1>6, <1>7, <1>8
<1>10. m * (Whole - hit) + m * hit = Whole * m
  <2> PICK rest \in Nat : rest = Whole - hit
    BY <1>8
  <2>1. rest + hit = Whole
    BY <1>8
  <2>2. m \in Nat /\ rest \in Nat /\ hit \in Nat
    BY <1>8
  <2>3. m * rest + m * hit = (rest + hit) * m
    BY ONLY <2>2
  <2> QED
    BY <2>1, <2>3
<1> QED
  BY <1>5, <1>9, <1>10

-----------------------------------------------------------------------------
(***************************************************************************)
(* The theorems.                                                           *)
(***************************************************************************)
(* Every cost, every breakdown's total and every cost per action is a      *)
(* nonnegative band, min <= typical <= max, for any mix, discount and      *)
(* default (estimate_workload, Range._normalized).                         *)
THEOREM CostsAreNonNegativeBands == Spec => []TypeOK
<1>1. IInv => TypeOK
  <2> SUFFICES ASSUME IInv PROVE TypeOK
    OBVIOUS
  <2>1. /\ priced \in 0..Len(targets) /\ combined \in [CostFields -> NonNegative]
        /\ breakdowns \in Seq(Breakdown)
    BY DEF IInv, EngineInv, DoneInv
  <2>2. \A b \in Done : b \in Breakdown
    BY <2>1 DEF Done
  <2> QED
    BY <2>1, <2>2 DEF TypeOK, Breakdown
<1> QED
  BY <1>1, IInvHolds, PTL

(* The fresh and the cached prompt tokens reported for a component, those  *)
(* of the last target in the loop, add up to its prompt tokens, in each of *)
(* the three scenarios (_price_for_model, estimate_workload), however      *)
(* uncertain the traffic is.                                               *)
THEOREM NoTokenIsLost == Spec => []TokensConserved
<1>1. IInv => TokensConserved
  <2> SUFFICES ASSUME IInv, NEW b \in Done, NEW point \in Points
               PROVE  b.fresh[point] + b.cached[point] = Totals(b.of, schedule).input[point]
    BY DEF TokensConserved
  <2>1. SplitOfItsOwn(b)
    BY DEF IInv, DoneInv, Done
  <2> QED
    BY <2>1, SplitConserves DEF SplitOfItsOwn
<1> QED
  BY <1>1, IInvHolds, PTL

(* The client is told of a missing model exactly when the request is in    *)
(* order and needs one that the catalog lacks, and of such a one; and it   *)
(* gets a whole answer or none; all this wherever there is a catalog at    *)
(* all (estimate_workload, ModelNotFoundError).                            *)
THEOREM ErrorsNameMissingModels == Spec => []MissingModelsAreNamed
<1>1. IInv => MissingModelsAreNamed
  BY DEF IInv
<1> QED
  BY <1>1, IInvHolds, PTL
-----------------------------------------------------------------------------
(***************************************************************************)
(* Comparisons.  A job with an override is priced at that model alone, so  *)
(* its costs are not scaled, and what it costs does not depend on what     *)
(* the workload names itself.                                              *)
(***************************************************************************)
OverrideInv ==
  body # None /\ ~(body.models = None) =>
    /\ \A i \in 1..Len(breakdowns) :
         /\ breakdowns[i].targets = Only(body.models[i])
         /\ breakdowns[i].total =
              Total(Costs(Inputs(body)[1], schedule, Pricing[body.models[i]]))
    /\ component # None =>
         /\ component = Inputs(body)[1]
         /\ targets = Only(body.models[Len(breakdowns) + 1])
         /\ combined = IF priced = 0 THEN NoCosts
                       ELSE Costs(component, schedule, Pricing[body.models[Len(breakdowns) + 1]])

CompareInv ==
  /\ component = None => combined = NoCosts
  /\ OverrideInv
  /\ ComparisonIsFair

LEMMA PartOfWhole ==
  ASSUME NEW a \in NonNegative
  PROVE  Plus(Scalar(0), Part(a, Whole)) = a
<1>1. /\ a.range \in BOOLEAN /\ a.min \in Nat /\ a.typical \in Nat /\ a.max \in Nat
      /\ a.min <= a.typical /\ a.typical <= a.max
      /\ ~a.range => a.min = a.typical /\ a.typical = a.max
  BY BandFields
<1> PICK b : b = Part(a, Whole)
  OBVIOUS
<1>2. b \in NonNegative /\ \A point \in Points : b[point] = (a[point] * Whole) \div Whole
  BY PartIsBand, PartIsPointwise
<1>3. \A x \in Nat : (x * Whole) \div Whole = x
  <2>1. \A x \in Nat : x * Whole = Whole * x
    OBVIOUS
  <2> QED
    BY <2>1, DivisionUndoesTimes
<1>4. b.min = a.min /\ b.typical = a.typical /\ b.max = a.max
  BY <1>1, <1>2, <1>3 DEF Points
<1>5. b.range = a.range
  <2>1. Times(a, Scalar(Whole)).range = (a.range \/ FALSE)
    BY NormalizedIsRange DEF Times, Scalar
  <2>2. b.range = (Times(a, Scalar(Whole)).range \/ FALSE)
    BY NormalizedIsRange DEF Part, Over, Scalar
  <2> QED
    BY <1>1, <2>1, <2>2
<1>6. Plus(Scalar(0), b) = Normalized(b.range, b.min, b.typical, b.max)
  <2>1. b.range \in BOOLEAN /\ b.min \in Nat /\ b.typical \in Nat /\ b.max \in Nat
    BY <1>1, <1>4, <1>5
  <2>2. (FALSE \/ b.range) = b.range
    BY <2>1
  <2>3. 0 + b.min = b.min /\ 0 + b.typical = b.typical /\ 0 + b.max = b.max
    BY <2>1
  <2> QED
    BY <2>2, <2>3 DEF Plus, Scalar
<1>7. Plus(Scalar(0), b) =
        [range |-> a.range, min |-> a.min, typical |-> a.typical, max |-> a.max]
  BY <1>1, <1>4, <1>5, <1>6, NormalizedSorts
<1>8. a = [range |-> a.range, min |-> a.min, typical |-> a.typical, max |-> a.max]
  BY DEF NonNegative, Num
<1> QED
  BY <1>7, <1>8

LEMMA AloneInFull ==
  ASSUME NEW costs \in [CostFields -> NonNegative]
  PROVE  Added(NoCosts, Scaled(costs, Whole)) = costs
<1>1. NoCosts = [field \in CostFields |-> Scalar(0)]
  BY DEF NoCosts, CostFields
<1>2. Scaled(costs, Whole) = [field \in CostFields |-> Part(costs[field], Whole)]
  BY DEF Scaled
<1>3. Added(NoCosts, Scaled(costs, Whole)) =
        [field \in CostFields |-> Plus(Scalar(0), Part(costs[field], Whole))]
  BY <1>1, <1>2 DEF Added
<1>4. \A field \in CostFields : Plus(Scalar(0), Part(costs[field], Whole)) = costs[field]
  BY PartOfWhole
<1> QED
  BY <1>3, <1>4

LEMMA CompletionCostsNothing ==
  ASSUME NEW b \in Bodies, ValidBody(b), NEW i \in DOMAIN b.workloads, NEW s, NEW p
  PROVE  Costs(Inputs(b)[i], s, p) = Costs(b.workloads[i], s, p)
<1> PICK u : u = b.workloads[i]
  OBVIOUS
<1> PICK w : w = Inputs(b)[i]
  OBVIOUS
<1>1. u \in Workload
  BY BodyAssumption DEF BodyType
<1>2. w = u \/ w = [u EXCEPT !.modelId = b.models[1]]
  BY DEF Inputs, Completed
<1>3. /\ w.kind = u.kind /\ w.period = u.period /\ w.rate = u.rate /\ w.each = u.each
      /\ w.input = u.input /\ w.output = u.output /\ w.reasoning = u.reasoning
      /\ w.images = u.images /\ w.audio = u.audio /\ w.cacheHit = u.cacheHit
      /\ w.cacheWrite = u.cacheWrite /\ w.spawn = u.spawn /\ w.overhead = u.overhead
  BY <1>1, <1>2 DEF Workload
<1>4. Totals(w, s) = Totals(u, s)
  BY <1>3 DEF Totals
<1>5. Split(w, Totals(w, s)) = Split(u, Totals(u, s)) /\ Multiplier(w) = Multiplier(u)
  BY <1>3, <1>4 DEF Split, Multiplier
<1> QED
  BY <1>4, <1>5 DEF Costs

(* The ranking has every estimate once, in the order of Cheaper. *)
LEMMA RankingIsSorted ==
  ASSUME IInv, NEW n, n = Len(breakdowns), NEW at, at = Ranking
  PROVE  /\ n \in Nat /\ DOMAIN breakdowns = 1..n
         /\ at \in [1..n -> 1..n] /\ Len(at) = n
         /\ \A i \in 1..n : \E k \in 1..n : at[k] = i
         /\ \A i, j \in 1..n : i < j => Cheaper(at[i], at[j])
<1>1. breakdowns \in Seq(Breakdown)
  BY DEF IInv, DoneInv
<1>2. n \in Nat /\ DOMAIN breakdowns = 1..n
  BY <1>1
<1> PICK S : S = 1..n
  OBVIOUS
<1>3. IsFiniteSet(S) /\ Cardinality(S) = n /\ S \in SUBSET Int
  <2>1. IsFiniteSet(1..n) /\ Cardinality(1..n) = n
    BY ONLY <1>2, FS_Interval
  <2>2. 1..n \in SUBSET Int
    BY <1>2
  <2> QED
    BY <2>1, <2>2
<1> PICK p \in [S -> Int] : p = [i \in S |-> breakdowns[i].total.typical]
  <2>1. ASSUME NEW i \in S
        PROVE  breakdowns[i].total \in NonNegative
    <3>1. breakdowns[i] \in Breakdown
      BY <1>1, <1>2
    <3> QED
      BY <3>1 DEF Breakdown
  <2>2. \A i \in S : breakdowns[i].total.typical \in Int
    BY <2>1, BandFields
  <2> QED
    BY <2>2
<1> PICK R : R = {q \in S \X S : Cheaper(q[1], q[2])}
  OBVIOUS
<1>4. \A i, j \in S : <<i, j>> \in R <=> Cheaper(i, j)
  OBVIOUS
<1>5. Linear(R, S)
  <2>1. \A i, j \in S : <<i, j>> \in R <=> p[i] < p[j] \/ (p[i] = p[j] /\ i < j)
    BY <1>4 DEF Cheaper
  <2> QED
    BY <1>3, <2>1, LexIsLinear
<1>6. ASSUME NEW i \in S
      PROVE  {j \in S : Cheaper(j, i)} = Before(R, S, i)
  BY <1>4 DEF Before
<1>7. at = [k \in S |-> CHOOSE i \in S : Cardinality({j \in S : Cheaper(j, i)}) = k - 1]
  BY <1>2 DEF Ranking
<1>8. ASSUME NEW k \in S
      PROVE  at[k] \in S /\ Cardinality(Before(R, S, at[k])) = k - 1
  <2>0. k \in 1..Cardinality(S)
    BY <1>3
  <2>1. PICK x \in S : Cardinality(Before(R, S, x)) = k - 1
    BY ONLY <1>3, <1>5, <2>0, EachRankIsTaken
  <2>2. Cardinality({j \in S : Cheaper(j, x)}) = k - 1
    BY <1>6, <2>1
  <2>3. at[k] \in S /\ Cardinality({j \in S : Cheaper(j, at[k])}) = k - 1
    BY <1>7, <2>2
  <2> QED
    BY <1>6, <2>3
<1>9. at \in [1..n -> 1..n] /\ Len(at) = n
  <2>1. at \in [1..n -> 1..n]
    BY <1>7, <1>8
  <2> QED
    BY <1>2, <2>1, MapIsSequence
<1>10. ASSUME NEW i \in 1..n
       PROVE  \E k \in 1..n : at[k] = i
  <2>1. Cardinality(Before(R, S, i)) + 1 \in 1..n /\ IsFiniteSet(Before(R, S, i))
    BY <1>3, <1>5, RankIsBounded
  <2> PICK c \in Nat : c = Cardinality(Before(R, S, i))
    BY <2>1, FS_CardinalityType
  <2> PICK k \in S : k = c + 1
    BY <2>1
  <2>3. at[k] \in S /\ Cardinality(Before(R, S, at[k])) = c
    <3>1. at[k] \in S /\ Cardinality(Before(R, S, at[k])) = k - 1
      BY <1>8
    <3>2. k - 1 = c
      OBVIOUS
    <3> QED
      BY <3>1, <3>2
  <2>4. at[k] = i
    BY <1>3, <1>5, <2>3, EqualRanks
  <2> QED
    BY <2>4
<1>11. ASSUME NEW i \in 1..n, NEW j \in 1..n, i < j
       PROVE  Cheaper(at[i], at[j])
  <2> PICK x \in S : x = at[i]
    BY <1>8
  <2> PICK y \in S : y = at[j]
    BY <1>8
  <2>1. Cardinality(Before(R, S, x)) = i - 1 /\ Cardinality(Before(R, S, y)) = j - 1
    BY <1>8
  <2>2. x # y
    BY <1>11, <2>1
  <2>3. ~(<<y, x>> \in R)
    <3>1. ASSUME <<y, x>> \in R
          PROVE  FALSE
      <4>1. Cardinality(Before(R, S, y)) < Cardinality(Before(R, S, x))
        BY <1>3, <1>5, <3>1, RanksFollowTheOrder
      <4> QED
        BY <1>11, <2>1, <4>1
    <3> QED
      BY <3>1
  <2>4. <<x, y>> \in R
    BY <1>5, <2>2, <2>3 DEF Linear
  <2> QED
    BY <1>4, <2>4
<1> QED
  BY <1>2, <1>9, <1>10, <1>11

-----------------------------------------------------------------------------
LEMMA InitCompare == Init => CompareInv
  BY DEF Init, EngineInit, CompareInv, OverrideInv, ComparisonIsFair, Answered

LEMMA ReceiveCompares ==
  ASSUME IInv, CompareInv, NEW b \in Bodies, Receive(b)
  PROVE  CompareInv'
<1>1. component' = None /\ combined' = NoCosts /\ breakdowns' = <<>>
  BY DEF IInv, RequestInv, CompareInv, Receive, Refuse, Accept
<1>2. OverrideInv'
  BY <1>1 DEF OverrideInv
<1>3. ComparisonIsFair'
  <2>1. \/ answer' = None \/ answer' = Error(422, "detail", None)
        \/ answer' = Error(422, "unknown_schedule_preset", None) \/ answer' = NoCatalog
    BY DEF Receive, Refuse, Accept
  <2> PICK a : a = answer'
    OBVIOUS
  <2>2. a = None \/ Outcome(a) = "TokenomicsAPIError"
    BY <2>1 DEF NoCatalog, Error, Outcome
  <2> QED
    BY <2>2 DEF ComparisonIsFair, Answered
<1> QED
  BY <1>1, <1>2, <1>3 DEF CompareInv

LEMMA NextJobCompares ==
  ASSUME IInv, CompareInv, NextJob
  PROVE  CompareInv'
<1> PICK n \in Nat : n = Len(breakdowns)
  BY DEF IInv, DoneInv
<1> PICK job : job = jobs[n + 1]
  OBVIOUS
<1>1. /\ ~Idle /\ n < Len(jobs) /\ component = None
      /\ component' = job.workload
      /\ targets' = IF job.override # None THEN Only(job.override)
                    ELSE IF job.workload.modelId # None THEN Only(job.workload.modelId)
                    ELSE job.workload.mix
      /\ schedule' = schedule /\ priced' = priced /\ combined' = combined
      /\ breakdowns' = breakdowns /\ body' = body /\ jobs' = jobs /\ answer' = answer
  BY DEF NextJob, Begin
<1>2. priced = 0 /\ combined = NoCosts /\ answer = None
  BY <1>1, Working DEF CompareInv
<1>3. body \in Bodies /\ ValidBody(body) /\ jobs = JobsOf(body)
  BY <1>1 DEF IInv, RequestInv
<1>4. component' # None
  <2>1. jobs \in Seq(JobType) /\ \A i \in 1..Len(jobs) : GoodJob(jobs[i])
    BY <1>3, JobsAreGood
  <2>2. n + 1 \in 1..Len(jobs)
    BY <1>1, <2>1
  <2>3. job \in JobType
    BY <2>1, <2>2
  <2>4. job.workload \in Workload
    BY <2>3 DEF JobType
  <2> QED
    BY <1>1, <2>4, NoneAssumption
<1>5. ASSUME ~(body.models = None)
      PROVE  component' = Inputs(body)[1] /\ targets' = Only(body.models[n + 1])
  <2>1. body.models \in Seq(STRING)
    BY <1>3, <1>5, BodyAssumption DEF BodyType
  <2>2. jobs = [i \in 1..Len(body.models) |->
                  [workload |-> Inputs(body)[1], override |-> body.models[i]]]
    BY <1>3, <1>5, <2>1 DEF JobsOf
  <2>3. n + 1 \in 1..Len(body.models)
    <3> PICK k \in Nat : k = Len(body.models)
      BY <2>1
    <3>1. Len(jobs) = k
      <4>1. jobs \in [1..k -> {jobs[i] : i \in 1..k}]
        BY <2>2
      <4> QED
        BY <4>1, MapIsSequence
    <3> QED
      BY <1>1, <3>1
  <2>4. job = [workload |-> Inputs(body)[1], override |-> body.models[n + 1]]
    BY <2>2, <2>3
  <2>5. body.models[n + 1] \in STRING
    BY <2>1, <2>3
  <2>6. body.models[n + 1] # None
    BY <2>5
  <2> QED
    BY <1>1, <2>4, <2>6
<1>6. OverrideInv'
  <2>1. ASSUME body # None, ~(body.models = None), NEW i \in 1..Len(breakdowns)
        PROVE  /\ breakdowns[i].targets = Only(body.models[i])
               /\ breakdowns[i].total =
                    Total(Costs(Inputs(body)[1], schedule, Pricing[body.models[i]]))
    BY <2>1 DEF CompareInv, OverrideInv
  <2> QED
    BY <1>1, <1>2, <1>5, <2>1 DEF OverrideInv
<1> QED
  BY <1>1, <1>2, <1>4, <1>6 DEF CompareInv, ComparisonIsFair, Answered

(* The targets of a job with an override. *)
LEMMA OnlyHasOne ==
  ASSUME NEW m
  PROVE  Len(Only(m)) = 1 /\ Only(m)[1].model = m /\ Only(m)[1].weight = Whole
  BY DEF Only

LEMMA PriceTargetCompares ==
  ASSUME IInv, CompareInv, PriceTarget, UNCHANGED <<body, jobs, answer>>
  PROVE  CompareInv'
<1> PICK n \in Nat : n = Len(breakdowns)
  BY DEF IInv, DoneInv
<1> PICK k \in Nat : k = priced
  BY DEF IInv, EngineInv
<1>1. /\ k < Len(targets) /\ targets[k + 1].model \in DOMAIN Pricing
      /\ combined' = Added(combined, Scaled(Costs(component, schedule,
                       Pricing[targets[k + 1].model]), targets[k + 1].weight))
      /\ priced' = k + 1
      /\ schedule' = schedule /\ component' = component /\ targets' = targets
      /\ breakdowns' = breakdowns /\ body' = body /\ jobs' = jobs /\ answer' = answer
  BY DEF PriceTarget, Known, Target
<1>2. component # None /\ answer = None
  BY <1>1, Working
<1>3. ASSUME body # None, ~(body.models = None)
      PROVE  combined' = Costs(component, schedule, Pricing[body.models[n + 1]])
  <2> PICK m : m = body.models[n + 1]
    OBVIOUS
  <2>1. targets = Only(m) /\ (k = 0 => combined = NoCosts)
    BY <1>2, <1>3 DEF CompareInv, OverrideInv
  <2>2. k = 0 /\ targets[1].model = m /\ targets[1].weight = Whole
    BY <1>1, <2>1, OnlyHasOne
  <2>3. m \in DOMAIN Pricing /\ ValidPricing(Pricing[m])
    BY <1>1, <2>2, PricingAssumption
  <2>4. GoodWorkload(component) /\ GoodSchedule(schedule)
    BY <1>2 DEF IInv, EngineInv
  <2>5. Costs(component, schedule, Pricing[m]) \in [CostFields -> NonNegative]
    BY <2>3, <2>4, CostsAreBands
  <2>6. combined' = Added(NoCosts, Scaled(Costs(component, schedule, Pricing[m]), Whole))
    BY <1>1, <2>1, <2>2
  <2> QED
    BY <2>5, <2>6, AloneInFull
<1>4. OverrideInv'
  <2>1. ASSUME body # None, ~(body.models = None)
        PROVE  /\ \A i \in 1..Len(breakdowns) :
                    /\ breakdowns[i].targets = Only(body.models[i])
                    /\ breakdowns[i].total =
                         Total(Costs(Inputs(body)[1], schedule, Pricing[body.models[i]]))
               /\ component = Inputs(body)[1]
               /\ targets = Only(body.models[n + 1])
    BY <1>2, <2>1 DEF CompareInv, OverrideInv
  <2> QED
    BY <1>1, <1>3, <2>1 DEF OverrideInv
<1> QED
  BY <1>1, <1>2, <1>4 DEF CompareInv, ComparisonIsFair, Answered

LEMMA EndComponentCompares ==
  ASSUME IInv, CompareInv, EndComponent, UNCHANGED <<body, jobs, answer>>
  PROVE  CompareInv'
<1> PICK n \in Nat : n = Len(breakdowns)
  BY DEF IInv, DoneInv
<1>1. /\ component # None /\ priced = Len(targets)
      /\ component' = None /\ combined' = NoCosts /\ schedule' = schedule
      /\ body' = body /\ jobs' = jobs /\ answer' = answer
  BY DEF EndComponent, NoComponent
<1> PICK b : /\ breakdowns' = Append(breakdowns, b)
             /\ b.targets = targets /\ b.total = Total(combined)
  BY DEF EndComponent
<1>2. answer = None
  BY <1>1, Working
<1>3. /\ Len(breakdowns') = n + 1 /\ breakdowns'[n + 1] = b
      /\ \A i \in 1..n : breakdowns'[i] = breakdowns[i]
  BY DEF IInv, DoneInv
<1>4. ASSUME body # None, ~(body.models = None), NEW i \in 1..n + 1
      PROVE  /\ breakdowns'[i].targets = Only(body.models[i])
             /\ breakdowns'[i].total =
                  Total(Costs(Inputs(body)[1], schedule, Pricing[body.models[i]]))
  <2>1. CASE i \in 1..n
    BY <1>3, <1>4, <2>1 DEF CompareInv, OverrideInv
  <2>2. CASE i = n + 1
    <3> PICK m : m = body.models[n + 1]
      OBVIOUS
    <3>1. /\ component = Inputs(body)[1] /\ targets = Only(m)
          /\ combined = IF priced = 0 THEN NoCosts ELSE Costs(component, schedule, Pricing[m])
      BY <1>1, <1>4 DEF CompareInv, OverrideInv
    <3>2. priced = 1
      BY <1>1, <3>1, OnlyHasOne
    <3> QED
      BY <1>3, <2>2, <3>1, <3>2
  <2> QED
    BY <2>1, <2>2
<1>5. OverrideInv'
  BY <1>1, <1>3, <1>4 DEF OverrideInv
<1> QED
  BY <1>1, <1>2, <1>5 DEF CompareInv, ComparisonIsFair, Answered

LEMMA NotFoundCompares ==
  ASSUME IInv, CompareInv, NotFound
  PROVE  CompareInv'
<1>1. component' = None /\ combined' = NoCosts /\ breakdowns' = <<>>
  BY DEF NotFound, UnknownModel, NoComponent
<1>2. OverrideInv'
  BY <1>1 DEF OverrideInv
<1> PICK a : a = answer'
  OBVIOUS
<1>3. Outcome(a) = "ModelNotFoundError"
  BY DEF NotFound, Error, Outcome
<1>4. ComparisonIsFair'
  BY <1>3 DEF ComparisonIsFair
<1> QED
  BY <1>1, <1>2, <1>4 DEF CompareInv

LEMMA StutterCompares ==
  ASSUME CompareInv, UNCHANGED vars
  PROVE  CompareInv'
  BY DEF vars, engineVars, CompareInv, OverrideInv, ComparisonIsFair, Answered

LEMMA FinishCompares ==
  ASSUME IInv, CompareInv, Finish
  PROVE  CompareInv'
<1> PICK reply : reply = Reply
  OBVIOUS
<1> PICK n \in Nat : n = Len(breakdowns)
  BY DEF IInv, DoneInv
<1>1. /\ ~Idle /\ component = None /\ Len(breakdowns) = Len(jobs)
      /\ answer' = reply
      /\ schedule' = schedule /\ component' = component /\ targets' = targets
      /\ priced' = priced /\ combined' = combined /\ breakdowns' = breakdowns
      /\ body' = body /\ jobs' = jobs
  BY DEF Finish, engineVars
<1>2. /\ reply.results = breakdowns
      /\ body.endpoint = "compare" => reply.ranked = Ranking
  BY DEF Reply
<1>3. OverrideInv'
  BY <1>1 DEF CompareInv, OverrideInv
<1>4. ASSUME body.endpoint = "compare"
      PROVE  LET r == breakdowns
                 at == Ranking
             IN  /\ [i \in DOMAIN r |-> r[i].targets]
                      = [i \in DOMAIN body.models |-> Only(body.models[i])]
                 /\ \A i \in DOMAIN r :
                      r[i].total
                        = Total(Costs(body.workloads[1], schedule, Pricing[body.models[i]]))
                 /\ ToSet(at) = DOMAIN r /\ Len(at) = Len(r)
                 /\ \A i, j \in DOMAIN at : i < j =>
                      /\ r[at[i]].total.typical <= r[at[j]].total.typical
                      /\ r[at[i]].total.typical = r[at[j]].total.typical => at[i] < at[j]
  <2> PICK at : at = Ranking
    OBVIOUS
  <2>1. /\ body \in Bodies /\ ValidBody(body) /\ jobs = JobsOf(body)
        /\ body # None /\ ~(body.models = None) /\ 1 \in DOMAIN body.workloads
    <3>1. body \in Bodies /\ ValidBody(body) /\ jobs = JobsOf(body)
      BY <1>1 DEF IInv, RequestInv
    <3>2. body \in BodyType /\ body # None /\ ~(body.models = None) /\ Len(body.workloads) = 1
      BY <1>4, <3>1, BodyAssumption
    <3>3. body.workloads \in Seq(Workload)
      BY <3>2 DEF BodyType
    <3> QED
      BY <3>1, <3>2, <3>3
  <2>2. /\ DOMAIN breakdowns = 1..n
        /\ at \in [1..n -> 1..n] /\ Len(at) = n
        /\ \A i \in 1..n : \E k \in 1..n : at[k] = i
        /\ \A i, j \in 1..n : i < j => Cheaper(at[i], at[j])
    BY RankingIsSorted
  <2>3. DOMAIN body.models = 1..n
    <3>1. body.models \in Seq(STRING)
      BY <2>1, BodyAssumption DEF BodyType
    <3> PICK k \in Nat : k = Len(body.models)
      BY <3>1
    <3>2. jobs = [i \in 1..k |-> [workload |-> Inputs(body)[1], override |-> body.models[i]]]
      BY <2>1, <3>1 DEF JobsOf
    <3>3. Len(jobs) = k
      <4>1. jobs \in [1..k -> {jobs[i] : i \in 1..k}]
        BY <3>2
      <4> QED
        BY <4>1, MapIsSequence
    <3> QED
      BY <1>1, <3>1, <3>3
  <2>4. ASSUME NEW i \in 1..n
        PROVE  /\ breakdowns[i].targets = Only(body.models[i])
               /\ breakdowns[i].total
                    = Total(Costs(body.workloads[1], schedule, Pricing[body.models[i]]))
    <3>1. /\ breakdowns[i].targets = Only(body.models[i])
          /\ breakdowns[i].total =
               Total(Costs(Inputs(body)[1], schedule, Pricing[body.models[i]]))
      BY <2>1 DEF CompareInv, OverrideInv
    <3>2. Costs(Inputs(body)[1], schedule, Pricing[body.models[i]])
            = Costs(body.workloads[1], schedule, Pricing[body.models[i]])
      BY <2>1, CompletionCostsNothing
    <3> QED
      BY <3>1, <3>2
  <2>5. ToSet(at) = 1..n
    BY <2>2 DEF ToSet
  <2>6. ASSUME NEW i \in 1..n, NEW j \in 1..n, i < j
        PROVE  /\ breakdowns[at[i]].total.typical <= breakdowns[at[j]].total.typical
               /\ breakdowns[at[i]].total.typical = breakdowns[at[j]].total.typical
                    => at[i] < at[j]
    <3> PICK a \in 1..n : a = at[i]
      BY <2>2
    <3> PICK b \in 1..n : b = at[j]
      BY <2>2
    <3>1. Cheaper(a, b)
      BY <2>2, <2>6
    <3>2. ASSUME NEW c \in 1..n
          PROVE  breakdowns[c].total.typical \in Int
      <4>1. breakdowns[c] \in Breakdown
        BY DEF IInv, DoneInv
      <4>2. breakdowns[c].total \in NonNegative
        BY <4>1 DEF Breakdown
      <4> QED
        BY <4>2, BandFields
    <3>3. breakdowns[a].total.typical \in Int /\ breakdowns[b].total.typical \in Int
      BY <3>2
    <3> QED
      BY <3>1, <3>3 DEF Cheaper
  <2> QED
    BY <2>2, <2>3, <2>4, <2>5, <2>6
<1>5. ComparisonIsFair'
  BY <1>1, <1>2, <1>4 DEF ComparisonIsFair
<1> QED
  BY <1>1, <1>3, <1>5 DEF CompareInv

LEMMA CompareInvHolds == Spec => []CompareInv
<1>1. IInv /\ CompareInv /\ [Next]_vars => CompareInv'
  <2> SUFFICES ASSUME IInv, CompareInv, [Next]_vars PROVE CompareInv'
    OBVIOUS
  <2>1. ASSUME NEW b \in Bodies, Receive(b) PROVE CompareInv'
    BY <2>1, ReceiveCompares
  <2>2. CASE NextJob
    BY <2>2, NextJobCompares
  <2>3. CASE NotFound
    BY <2>3, NotFoundCompares
  <2>4. CASE Finish
    BY <2>4, FinishCompares
  <2>5. CASE PriceTarget /\ UNCHANGED <<body, jobs, answer>>
    BY <2>5, PriceTargetCompares
  <2>6. CASE EndComponent /\ UNCHANGED <<body, jobs, answer>>
    BY <2>6, EndComponentCompares
  <2>7. CASE UNCHANGED vars
    BY <2>7, StutterCompares
  <2> QED
    BY <2>1, <2>2, <2>3, <2>4, <2>5, <2>6, <2>7 DEF Next
<1> QED
  BY <1>1, InitCompare, IInvHolds, PTL DEF Spec

(* A comparison prices the same workload at every model asked for, in that *)
(* order and whatever the workload names itself, each as if it were alone; *)
(* and ranks each of them once, cheaper ones first and equals as asked     *)
(* for (compare, sorted).                                                  *)
THEOREM ComparisonsAreFair == Spec => []ComparisonIsFair
<1>1. CompareInv => ComparisonIsFair
  BY DEF CompareInv
<1> QED
  BY <1>1, CompareInvHolds, PTL
=============================================================================
