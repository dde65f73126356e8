---------------------------- MODULE FormulaProofs ----------------------------
(***************************************************************************)
(* Proofs about what estimates come to, for any prices, bodies and         *)
(* schedules, mixes of any length and pipelines of any length.             *)
(*                                                                         *)
(* The argument: with units so fine that nothing is rounded, every cost of *)
(* a month is the requests of the month times what one request costs       *)
(* (UnitCost), and so is the documented formula.  A target then adds its   *)
(* weight's share of what it costs alone (TargetAdds), and the costs of    *)
(* the first k targets have every property of interest at once (CostsOf):  *)
(* this is kept while the targets are priced (FormulaInv), next to IInv of *)
(* EstimatesProofs.  The theorems read it at the last target.              *)
(***************************************************************************)
EXTENDS EstimatesProofs

USE WholeAssumption, PricingAssumption, NoneAssumption

(* What happens in a month, and what the engine asks for it, in a scenario. *)
Happens(w, s, point) ==
  w.rate[point] *
    (CASE w.period = "hour"  -> s.hours[point] * s.days[point] * s.weeks
       [] w.period = "day"   -> s.days[point] * s.weeks
       [] w.period = "week"  -> s.weeks
       [] w.period = "month" -> 1)

Requested(w, s, point) == w.each[point] * Happens(w, s, point)

LEMMA PositivePoints ==
  ASSUME NEW a \in Positive, NEW point \in Points
  PROVE  a[point] \in Nat \ {0}
<1>1. a \in NonNegative /\ a.min > 0
  BY DEF Positive
<1> QED
  BY <1>1, BandFields DEF Points

LEMMA PerMonthAtPoint ==
  ASSUME NEW s, GoodSchedule(s), NEW period \in {"hour", "day", "week", "month"},
         NEW point \in Points
  PROVE  PerMonth(period, s)[point] =
           CASE period = "hour"  -> s.hours[point] * s.days[point] * s.weeks
             [] period = "day"   -> s.days[point] * s.weeks
             [] period = "week"  -> s.weeks
             [] period = "month" -> 1
<1>1. s.hours \in NonNegative /\ s.days \in NonNegative /\ s.weeks \in Nat
  BY DEF GoodSchedule, ValidSchedule, NonNegative, Num, Schedule
<1>2. /\ Scalar(s.weeks) \in NonNegative /\ Scalar(s.weeks)[point] = s.weeks
      /\ Scalar(1)[point] = 1
  BY <1>1, ScalarIsBand
<1>3. Times(s.days, Scalar(s.weeks))[point] = s.days[point] * s.weeks
  BY <1>1, <1>2, TimesIsBand
<1>4. /\ Times(s.hours, s.days) \in NonNegative
      /\ Times(s.hours, s.days)[point] = s.hours[point] * s.days[point]
  BY <1>1, TimesIsBand
<1>5. HoursPerMonth(s)[point] = s.hours[point] * s.days[point] * s.weeks
  BY <1>2, <1>4, TimesIsBand DEF HoursPerMonth
<1> QED
  BY <1>2, <1>3, <1>5 DEF PerMonth

LEMMA TotalsAtPoint ==
  ASSUME NEW w, GoodWorkload(w), NEW s, GoodSchedule(s), NEW point \in Points
  PROVE  LET t == Totals(w, s)
             n == Requested(w, s, point)
         IN  /\ n \in Nat \ {0} /\ Happens(w, s, point) \in Nat \ {0}
             /\ t.input[point] = w.input[point] * n
             /\ t.output[point] = w.output[point] * n
             /\ t.reasoning[point] = w.reasoning[point] * n
             /\ t.images[point] = w.images[point] * n
             /\ t.requests[point] = IF w.kind = "continuous_stream" THEN 0 ELSE n
<1> DEFINE things == Times(w.rate, PerMonth(w.period, s))
           requests == Times(w.each, things)
<1>1. w.rate \in Positive /\ w.each \in Positive /\ w.period \in {"hour", "day", "week", "month"}
  BY DEF GoodWorkload, ValidFields, Positive, Workload
<1>2. PerMonth(w.period, s) \in Positive
  BY <1>1, PerMonthIsPositive
<1>3. things \in Positive /\ things[point] = Happens(w, s, point)
  <2>1. things \in Positive /\ things[point] = w.rate[point] * PerMonth(w.period, s)[point]
    BY <1>1, <1>2, TimesIsBand DEF Positive
  <2> QED
    BY <1>1, <2>1, PerMonthAtPoint DEF Happens
<1> HIDE DEF things
<1>4. requests \in Positive /\ requests[point] = Requested(w, s, point)
  BY <1>1, <1>3, TimesIsBand DEF Positive, Requested
<1> HIDE DEF requests
<1>5. Requested(w, s, point) \in Nat \ {0} /\ Happens(w, s, point) \in Nat \ {0}
  BY <1>3, <1>4, PositivePoints
<1>6. /\ w.input \in NonNegative /\ w.output \in NonNegative /\ w.reasoning \in NonNegative
      /\ w.images \in NonNegative /\ requests \in NonNegative
  BY <1>4 DEF GoodWorkload, ValidFields, Positive
<1>7. /\ Times(w.input, requests)[point] = w.input[point] * Requested(w, s, point)
      /\ Times(w.output, requests)[point] = w.output[point] * Requested(w, s, point)
      /\ Times(w.reasoning, requests)[point] = w.reasoning[point] * Requested(w, s, point)
      /\ Times(w.images, requests)[point] = w.images[point] * Requested(w, s, point)
  BY <1>4, <1>6, TimesIsBand
<1>8. Totals(w, s) =
        [ input     |-> Times(w.input, requests),
          output    |-> Times(w.output, requests),
          reasoning |-> Times(w.reasoning, requests),
          images    |-> Times(w.images, requests),
          audio     |-> Times(w.audio, requests),
          requests  |-> IF w.kind = "continuous_stream" THEN Scalar(0) ELSE requests,
          actions   |-> CASE w.kind = "continuous_stream" -> None
                          [] w.kind = "build_action" -> things
                          [] OTHER -> requests ]
  BY DEF Totals, requests, things
<1>9. Scalar(0)[point] = 0
  BY ScalarIsBand
<1> QED
  BY <1>3, <1>4, <1>5, <1>7, <1>8, <1>9

(* Every action takes as many requests. *)
LEMMA ActionsShareRequests ==
  ASSUME NEW w, GoodWorkload(w), NEW s, GoodSchedule(s), NEW actions, actions = Totals(w, s).actions
  PROVE  \/ actions = None
         \/ /\ actions \in Positive
            /\ \E each \in NonNegative :
                 \A point \in Points : Requested(w, s, point) = actions[point] * each[point]
<1> DEFINE things == Times(w.rate, PerMonth(w.period, s))
           requests == Times(w.each, things)
<1>1. w.rate \in Positive /\ w.each \in Positive /\ w.period \in {"hour", "day", "week", "month"}
  BY DEF GoodWorkload, ValidFields, Positive, Workload
<1>2. PerMonth(w.period, s) \in Positive
  BY <1>1, PerMonthIsPositive
<1>3. things \in Positive /\ \A point \in Points : things[point] = Happens(w, s, point)
  <2>1. /\ things \in Positive
        /\ \A point \in Points : things[point] = w.rate[point] * PerMonth(w.period, s)[point]
    BY <1>1, <1>2, TimesIsBand DEF Positive
  <2> QED
    BY <1>1, <2>1, PerMonthAtPoint DEF Happens
<1> HIDE DEF things
<1>4. /\ requests \in Positive
      /\ \A point \in Points : requests[point] = Requested(w, s, point)
  BY <1>1, <1>3, TimesIsBand DEF Positive, Requested
<1> HIDE DEF requests
<1>5. actions = CASE w.kind = "continuous_stream" -> None
                  [] w.kind = "build_action" -> things
                  [] OTHER -> requests
  BY DEF Totals, requests, things
<1>6. CASE actions = things
  <2>1. w.each \in NonNegative
    BY <1>1 DEF Positive
  <2>2. \A point \in Points : Requested(w, s, point) = things[point] * w.each[point]
    <3> SUFFICES ASSUME NEW point \in Points
                 PROVE  Requested(w, s, point) = things[point] * w.each[point]
      OBVIOUS
    <3> PICK x \in Nat : x = things[point]
      BY <1>3, PositivePoints
    <3> PICK y \in Nat : y = w.each[point]
      BY <1>1, PositivePoints
    <3>1. Requested(w, s, point) = y * x
      BY <1>3 DEF Requested
    <3> QED
      BY <3>1
  <2> QED
    BY <1>3, <1>6, <2>1, <2>2
<1>7. CASE actions = requests
  <2>1. Scalar(1) \in NonNegative /\ \A point \in Points : Scalar(1)[point] = 1
    BY ScalarIsBand
  <2>2. \A point \in Points : Requested(w, s, point) = requests[point] * Scalar(1)[point]
    <3> SUFFICES ASSUME NEW point \in Points
                 PROVE  Requested(w, s, point) = requests[point] * Scalar(1)[point]
      OBVIOUS
    <3> PICK x \in Nat : x = requests[point]
      BY <1>4, PositivePoints
    <3> QED
      BY <1>4, <2>1
  <2> QED
    BY <1>4, <1>7, <2>1, <2>2
<1> QED
  BY <1>5, <1>6, <1>7

LEMMA QuotientBand ==
  ASSUME NEW x \in NonNegative, NEW d \in Nat \ {0}, \A point \in Points : x[point] % d = 0
  PROVE  \E a \in NonNegative : \A point \in Points : x[point] = d * a[point]
<1>1. /\ x.range \in BOOLEAN /\ x.min \in Nat /\ x.typical \in Nat /\ x.max \in Nat
      /\ x.min <= x.typical /\ x.typical <= x.max
      /\ ~x.range => x.min = x.typical /\ x.typical = x.max
  BY BandFields
<1>2. x.min % d = 0 /\ x.typical % d = 0 /\ x.max % d = 0
  BY DEF Points
<1> PICK i \in Nat : x.min = d * i
  BY <1>1, <1>2, MultipleOf
<1> PICK j \in Nat : x.typical = d * j
  BY <1>1, <1>2, MultipleOf
<1> PICK k \in Nat : x.max = d * k
  BY <1>1, <1>2, MultipleOf
<1>3. \A m, n \in Nat : d * m <= d * n => m <= n
  <2> SUFFICES ASSUME NEW m \in Nat, NEW n \in Nat, n < m PROVE d * n < d * m
    OBVIOUS
  <2>1. d * m = d * n + d * (m - n) /\ d * (m - n) > 0
    BY ONLY n < m
  <2> QED
    BY <2>1
<1>4. i <= j /\ j <= k
  BY <1>1, <1>3
<1> PICK a : a = [range |-> x.range, min |-> i, typical |-> j, max |-> k]
  OBVIOUS
<1>5. a \in NonNegative
  <2>1. ~x.range => i = k
    <3>1. \A m, n \in Nat : d * m = d * n => m = n
      <4> SUFFICES ASSUME NEW m \in Nat, NEW n \in Nat, d * m = d * n PROVE m = n
        OBVIOUS
      <4>1. d * m <= d * n /\ d * n <= d * m
        OBVIOUS
      <4> QED
        BY <1>3, <4>1
    <3> QED
      BY <1>1, <3>1
  <2> QED
    BY <1>1, <1>4, <2>1 DEF NonNegative, Num
<1>6. \A point \in Points : x[point] = d * a[point]
  BY DEF Points
<1> QED
  BY <1>5, <1>6

LEMMA ExactBands ==
  ASSUME NEW w, GoodWorkload(w), Exact(w), NEW v \in Nat \ {0}, v = Whole
  PROVE  \E a, b, c \in NonNegative : \A point \in Points :
           /\ w.input[point] = v * v * v * v * a[point]
           /\ w.output[point] = v * v * b[point]
           /\ w.reasoning[point] = v * v * c[point]
<1>1. w.input \in NonNegative /\ w.output \in NonNegative /\ w.reasoning \in NonNegative
  BY DEF GoodWorkload, ValidFields
<1> PICK d \in Nat \ {0} : d = v * v * v * v
  <2>1. v * v * v * v \in Nat \ {0}
    OBVIOUS
  <2> QED
    BY <2>1
<1> PICK e \in Nat \ {0} : e = v * v
  <2>1. v * v \in Nat \ {0}
    OBVIOUS
  <2> QED
    BY <2>1
<1>2. \A point \in Points : /\ w.input[point] % d = 0 /\ w.output[point] % e = 0
                            /\ w.reasoning[point] % e = 0
  BY DEF Exact
<1> PICK a \in NonNegative : \A point \in Points : w.input[point] = d * a[point]
  BY <1>1, <1>2, QuotientBand
<1> PICK b \in NonNegative : \A point \in Points : w.output[point] = e * b[point]
  BY <1>1, <1>2, QuotientBand
<1> PICK c \in NonNegative : \A point \in Points : w.reasoning[point] = e * c[point]
  BY <1>1, <1>2, QuotientBand
<1> QED
  OBVIOUS

(* What a token's price comes to, when nothing is lost by rounding. *)
LEMMA PricesExactly ==
  ASSUME NEW v \in Nat \ {0}, v = Whole, NEW x \in Nat, NEW price \in Nat, NEW k \in Nat
  PROVE  (v * x * price * k) \div Whole = x * price * k
<1>1. v * x * price * k = v * (x * price * k) /\ x * price * k \in Nat
  BY ONLY TRUE
<1> QED
  BY <1>1, DivisionUndoesTimes

LEMMA PartExactly ==
  ASSUME NEW v \in Nat \ {0}, v = Whole, NEW x \in Nat, NEW k \in Nat
  PROVE  (v * x * k) \div Whole = x * k
<1>1. v * x * k = v * (x * k) /\ x * k \in Nat
  BY ONLY TRUE
<1> QED
  BY <1>1, DivisionUndoesTimes

LEMMA PricedPart ==
  ASSUME NEW n \in NonNegative, NEW price \in Nat, NEW k \in Nat, NEW point \in Points
  PROVE  Part(Times(n, Scalar(price)), k)[point] = (n[point] * price * k) \div Whole
<1>1. /\ Times(n, Scalar(price)) \in NonNegative
      /\ Times(n, Scalar(price))[point] = n[point] * price
  BY ScalarIsBand, TimesIsBand
<1> QED
  BY <1>1, PartIsPointwise

(* The tokens of a month, when nothing is lost by rounding. *)
LEMMA SplitExactly ==
  ASSUME NEW w, GoodWorkload(w), NEW s, GoodSchedule(s), NEW point \in Points,
         NEW v \in Nat \ {0}, v = Whole, NEW a \in Nat,
         w.input[point] = v * v * v * v * a
  PROVE  LET parts == Split(w, Totals(w, s))
             n == Requested(w, s, point)
         IN  /\ parts.fresh[point] = v * v * v * (a * n * (v - w.cacheHit))
             /\ parts.cached[point] = v * v * v * (a * n * w.cacheHit)
             /\ parts.writes[point] = v * v * (a * n * (v - w.cacheHit) * w.cacheWrite)
<1> PICK t : t = Totals(w, s)
  OBVIOUS
<1> PICK n \in Nat : n = Requested(w, s, point)
  BY TotalsAtPoint
<1> PICK hit \in Nat : hit = w.cacheHit
  BY DEF GoodWorkload, ValidFields
<1> PICK rest \in Nat : rest = v - hit
  BY DEF GoodWorkload, ValidFields
<1> PICK writes \in Nat : writes = w.cacheWrite
  BY DEF GoodWorkload, ValidFields, Workload
<1>1. t.input \in NonNegative /\ t.input[point] = w.input[point] * n
  BY TotalsAreBands, TotalsAtPoint
<1>2. t.input[point] = v * (v * v * v * (a * n))
  <2>1. v * v * v * v * a * n = v * (v * v * v * (a * n))
    BY ONLY TRUE
  <2> QED
    BY <1>1, <2>1
<1> PICK x \in Nat : x = v * v * v * (a * n)
  <2>1. v * v * v * (a * n) \in Nat
    BY ONLY TRUE
  <2> QED
    BY <2>1
<1>3. ASSUME NEW k \in Nat
      PROVE  Part(t.input, k) \in NonNegative /\ Part(t.input, k)[point] = x * k
  <2>1. Part(t.input, k)[point] = (t.input[point] * k) \div Whole
    BY <1>1, PartIsPointwise
  <2>2. t.input[point] * k = v * x * k
    BY <1>2
  <2> QED
    BY <1>1, <2>1, <2>2, PartExactly, PartIsBand
<1>4. ASSUME NEW k \in Nat
      PROVE  x * k = v * v * v * (a * n * k)
  BY ONLY x = v * v * v * (a * n)
<1> PICK fresh \in NonNegative : fresh = Part(t.input, rest)
  BY <1>3
<1>5. fresh[point] = v * (v * v * (a * n * rest))
  <2>1. v * v * v * (a * n * rest) = v * (v * v * (a * n * rest))
    BY ONLY TRUE
  <2> QED
    BY <1>3, <1>4, <2>1
<1>6. Part(fresh, writes)[point] = v * v * (a * n * rest * writes)
  <2> PICK y \in Nat : y = v * v * (a * n * rest)
    <3>1. v * v * (a * n * rest) \in Nat
      BY ONLY TRUE
    <3> QED
      BY <3>1
  <2>1. Part(fresh, writes)[point] = (fresh[point] * writes) \div Whole
    BY PartIsPointwise
  <2>2. fresh[point] * writes = v * y * writes
    BY <1>5
  <2>3. Part(fresh, writes)[point] = y * writes
    BY <2>1, <2>2, PartExactly
  <2>4. y * writes = v * v * (a * n * rest * writes)
    BY ONLY y = v * v * (a * n * rest)
  <2> QED
    BY <2>3, <2>4
<1>7. /\ Split(w, t).fresh = fresh /\ Split(w, t).cached = Part(t.input, hit)
      /\ Split(w, t).writes = Part(fresh, writes)
  BY DEF Split
<1>8. fresh[point] = v * v * v * (a * n * rest)
  BY <1>3, <1>4
<1>9. Part(t.input, hit)[point] = v * v * v * (a * n * hit)
  BY <1>3, <1>4
<1> QED
  BY <1>6, <1>7, <1>8, <1>9

(* What one request costs, in parts of Whole, when its tokens are counted  *)
(* by a, b and c.                                                          *)
CountsTokens(w, a, b, c) ==
  /\ a \in NonNegative /\ b \in NonNegative /\ c \in NonNegative
  /\ \A point \in Points :
       /\ w.input[point] = Whole * Whole * Whole * Whole * a[point]
       /\ w.output[point] = Whole * Whole * b[point]
       /\ w.reasoning[point] = Whole * Whole * c[point]

ExactPrices(p) ==
  p.fixed % Whole = 0 /\ (p.image # None => p.image % Whole = 0)

PerCall(w, p) == IF w.kind = "continuous_stream" THEN 0 ELSE p.fixed \div Whole
PerImage(w, p) ==
  IF w.images.typical > 0 /\ p.image # None THEN p.image \div Whole ELSE 0

UnitCost(w, p, a, b, c) ==
  LET rest == Whole - w.cacheHit
      k == Multiplier(w)
  IN  [ fresh     |-> Times(a, Scalar(Whole * (rest * p.input * k))),
        cached    |-> Times(a, Scalar(Whole * (w.cacheHit * CacheRead(p) * k))),
        write     |-> Times(a, Scalar(rest * w.cacheWrite * WritePremium(p) * k)),
        output    |-> Times(b, Scalar(p.output * k)),
        reasoning |-> Times(c, Scalar(Reasoning(p) * k)),
        fixed     |-> Scalar(PerCall(w, p)),
        units     |-> Times(w.images, Scalar(PerImage(w, p))) ]

LEMMA FactorsAreNatural ==
  ASSUME NEW w, GoodWorkload(w), NEW p, ValidPricing(p)
  PROVE  /\ w.cacheHit \in Nat /\ Whole - w.cacheHit \in Nat /\ w.cacheWrite \in Nat
         /\ Multiplier(w) \in Nat /\ w.images \in NonNegative
         /\ p.input \in Nat /\ p.output \in Nat /\ p.fixed \in Nat
         /\ CacheRead(p) \in Nat /\ WritePremium(p) \in Nat /\ Reasoning(p) \in Nat
         /\ PerCall(w, p) \in Nat /\ PerImage(w, p) \in Nat
<1>1. w.cacheHit \in Nat /\ Whole - w.cacheHit \in Nat /\ w.cacheWrite \in Nat
  BY DEF GoodWorkload, ValidFields, Workload
<1>2. \A x \in Nat : x \div Whole \in Nat
  OBVIOUS
<1>3. PerCall(w, p) \in Nat /\ PerImage(w, p) \in Nat
  BY <1>2, PricesAreNatural DEF PerCall, PerImage
<1> QED
  BY <1>1, <1>3, PricesAreNatural, MultiplierIsNatural DEF GoodWorkload, ValidFields

LEMMA UnitCostAtPoint ==
  ASSUME NEW w, GoodWorkload(w), NEW p, ValidPricing(p), NEW a, NEW b, NEW c,
         CountsTokens(w, a, b, c), NEW u, u = UnitCost(w, p, a, b, c), NEW point \in Points
  PROVE  LET rest == Whole - w.cacheHit
             k == Multiplier(w)
         IN  /\ u \in [CostFields -> NonNegative]
             /\ u.fresh[point] = a[point] * (Whole * (rest * p.input * k))
             /\ u.cached[point] = a[point] * (Whole * (w.cacheHit * CacheRead(p) * k))
             /\ u.write[point] = a[point] * (rest * w.cacheWrite * WritePremium(p) * k)
             /\ u.output[point] = b[point] * (p.output * k)
             /\ u.reasoning[point] = c[point] * (Reasoning(p) * k)
             /\ u.fixed[point] = PerCall(w, p)
             /\ u.units[point] = w.images[point] * PerImage(w, p)
<1> PICK rest \in Nat : rest = Whole - w.cacheHit
  BY FactorsAreNatural
<1> PICK k \in Nat : k = Multiplier(w)
  BY FactorsAreNatural
<1> PICK f1 \in Nat : f1 = Whole * (rest * p.input * k)
  <2>1. \A v, x, y, z \in Nat : v * (x * y * z) \in Nat
    BY ONLY TRUE
  <2> QED
    BY <2>1, FactorsAreNatural
<1> PICK f2 \in Nat : f2 = Whole * (w.cacheHit * CacheRead(p) * k)
  <2>1. \A v, x, y, z \in Nat : v * (x * y * z) \in Nat
    BY ONLY TRUE
  <2> QED
    BY <2>1, FactorsAreNatural
<1> PICK f3 \in Nat : f3 = rest * w.cacheWrite * WritePremium(p) * k
  <2>1. \A v, x, y, z \in Nat : v * x * y * z \in Nat
    BY ONLY TRUE
  <2> QED
    BY <2>1, FactorsAreNatural
<1> PICK f4 \in Nat : f4 = p.output * k
  <2>1. \A x, y \in Nat : x * y \in Nat
    BY ONLY TRUE
  <2> QED
    BY <2>1, FactorsAreNatural
<1> PICK f5 \in Nat : f5 = Reasoning(p) * k
  <2>1. \A x, y \in Nat : x * y \in Nat
    BY ONLY TRUE
  <2> QED
    BY <2>1, FactorsAreNatural
<1> PICK f6 \in Nat : f6 = PerCall(w, p)
  BY FactorsAreNatural
<1> PICK f7 \in Nat : f7 = PerImage(w, p)
  BY FactorsAreNatural
<1>1. u = [ fresh |-> Times(a, Scalar(f1)), cached |-> Times(a, Scalar(f2)),
            write |-> Times(a, Scalar(f3)), output |-> Times(b, Scalar(f4)),
            reasoning |-> Times(c, Scalar(f5)), fixed |-> Scalar(f6),
            units |-> Times(w.images, Scalar(f7)) ]
  BY DEF UnitCost
<1>2. /\ a \in NonNegative /\ b \in NonNegative /\ c \in NonNegative /\ w.images \in NonNegative
  BY FactorsAreNatural DEF CountsTokens
<1>3. ASSUME NEW x \in NonNegative, NEW f \in Nat
      PROVE  \E y \in NonNegative : y = Times(x, Scalar(f)) /\ y[point] = x[point] * f
  BY ScalarIsBand, TimesIsBand
<1>4. Scalar(f6) \in NonNegative /\ Scalar(f6)[point] = f6
  BY ScalarIsBand
<1> PICK u1 \in NonNegative : u1 = Times(a, Scalar(f1)) /\ u1[point] = a[point] * f1
  BY ONLY <1>2, <1>3
<1> PICK u2 \in NonNegative : u2 = Times(a, Scalar(f2)) /\ u2[point] = a[point] * f2
  BY ONLY <1>2, <1>3
<1> PICK u3 \in NonNegative : u3 = Times(a, Scalar(f3)) /\ u3[point] = a[point] * f3
  BY ONLY <1>2, <1>3
<1> PICK u4 \in NonNegative : u4 = Times(b, Scalar(f4)) /\ u4[point] = b[point] * f4
  BY ONLY <1>2, <1>3
<1> PICK u5 \in NonNegative : u5 = Times(c, Scalar(f5)) /\ u5[point] = c[point] * f5
  BY ONLY <1>2, <1>3
<1> PICK u6 \in NonNegative : u6 = Scalar(f6) /\ u6[point] = f6
  BY <1>4
<1> PICK u7 \in NonNegative : u7 = Times(w.images, Scalar(f7)) /\ u7[point] = w.images[point] * f7
  BY ONLY <1>2, <1>3
<1>5. u = [ fresh |-> u1, cached |-> u2, write |-> u3, output |-> u4, reasoning |-> u5,
            fixed |-> u6, units |-> u7 ]
  BY <1>1
<1>6. u \in [CostFields -> NonNegative]
  BY ONLY <1>5 DEF CostFields
<1>7. /\ u.fresh[point] = a[point] * f1 /\ u.cached[point] = a[point] * f2
      /\ u.write[point] = a[point] * f3 /\ u.output[point] = b[point] * f4
      /\ u.reasoning[point] = c[point] * f5 /\ u.fixed[point] = f6
      /\ u.units[point] = w.images[point] * f7
  BY <1>5
<1> QED
  BY <1>6, <1>7

LEMMA ProductIsNatural == \A x, y \in Nat : x * y \in Nat
  OBVIOUS

(* Every cost of a month is what the requests of the month cost.           *)
LEMMA CostsAreUnitCosts ==
  ASSUME NEW w, GoodWorkload(w), NEW s, GoodSchedule(s),
         NEW p, ValidPricing(p), ExactPrices(p),
         NEW a, NEW b, NEW c, CountsTokens(w, a, b, c), NEW u, u = UnitCost(w, p, a, b, c),
         NEW point \in Points
  PROVE  \A field \in CostFields :
           Costs(w, s, p)[field][point] = Whole * (Requested(w, s, point) * u[field][point])
<1> PICK v \in Nat \ {0} : v = Whole
  OBVIOUS
<1> PICK t : t = Totals(w, s)
  OBVIOUS
<1> PICK parts : parts = Split(w, t)
  OBVIOUS
<1> PICK n \in Nat : n = Requested(w, s, point)
  BY TotalsAtPoint
<1> PICK k \in Nat : k = Multiplier(w)
  BY FactorsAreNatural
<1> PICK hit \in Nat : hit = w.cacheHit
  BY FactorsAreNatural
<1> PICK rest \in Nat : rest = Whole - w.cacheHit
  BY FactorsAreNatural
<1> PICK writes \in Nat : writes = w.cacheWrite
  BY FactorsAreNatural
<1> PICK A \in Nat : A = a[point]
  BY BandFields DEF CountsTokens
<1> PICK B \in Nat : B = b[point]
  BY BandFields DEF CountsTokens
<1> PICK C \in Nat : C = c[point]
  BY BandFields DEF CountsTokens
<1> PICK images \in Nat : images = w.images[point]
  BY FactorsAreNatural, BandFields
<1>1. /\ w.input[point] = v * v * v * v * A /\ w.output[point] = v * v * B
      /\ w.reasoning[point] = v * v * C
  BY DEF CountsTokens
<1>2. /\ parts.fresh[point] = v * v * v * (A * n * rest)
      /\ parts.cached[point] = v * v * v * (A * n * hit)
      /\ parts.writes[point] = v * v * (A * n * rest * writes)
  BY <1>1, SplitExactly
<1>3. /\ t.output[point] = v * v * B * n /\ t.reasoning[point] = v * v * C * n
      /\ t.images[point] = images * n
      /\ t.requests[point] = IF w.kind = "continuous_stream" THEN 0 ELSE n
  BY <1>1, TotalsAtPoint
<1>4. /\ parts.fresh \in NonNegative /\ parts.cached \in NonNegative /\ parts.writes \in NonNegative
      /\ t.output \in NonNegative /\ t.reasoning \in NonNegative
      /\ t.images \in NonNegative /\ t.requests \in NonNegative
  BY SplitIsBand, TotalsAreBands
<1>5. Costs(w, s, p) =
        [ fresh     |-> Part(Times(parts.fresh, Scalar(p.input)), k),
          cached    |-> Part(Times(parts.cached, Scalar(CacheRead(p))), k),
          write     |-> Part(Times(parts.writes, Scalar(WritePremium(p))), k),
          output    |-> Part(Times(t.output, Scalar(p.output)), k),
          reasoning |-> Part(Times(t.reasoning, Scalar(Reasoning(p))), k),
          fixed     |-> Times(t.requests, Scalar(p.fixed)),
          units     |-> IF t.images.typical > 0 /\ p.image # None
                          THEN Times(t.images, Scalar(p.image)) ELSE Scalar(0) ]
  BY DEF Costs
<1>6. ASSUME NEW count \in NonNegative, NEW price \in Nat, NEW x \in Nat,
             count[point] = v * x
      PROVE  Part(Times(count, Scalar(price)), k)[point] = x * price * k
  <2>1. Part(Times(count, Scalar(price)), k)[point] = (count[point] * price * k) \div Whole
    BY PricedPart
  <2>2. count[point] * price * k = v * x * price * k
    BY <1>6
  <2> QED
    BY <2>1, <2>2, PricesExactly
<1>7. Costs(w, s, p).fresh[point] = Whole * (n * u.fresh[point])
  <2> PICK price \in Nat : price = p.input
    BY FactorsAreNatural
  <2> PICK x \in Nat : x = v * v * (A * n * rest)
    BY ProductIsNatural
  <2>1. parts.fresh[point] = v * x
    <3>1. v * v * v * (A * n * rest) = v * (v * v * (A * n * rest))
      BY ONLY TRUE
    <3> QED
      BY <1>2, <3>1
  <2>2. Costs(w, s, p).fresh[point] = x * price * k
    <3> PICK count \in NonNegative : count = parts.fresh
      BY <1>4
    <3>1. Costs(w, s, p).fresh = Part(Times(count, Scalar(price)), k)
      BY <1>5
    <3>2. count[point] = v * x
      BY <2>1
    <3>3. Part(Times(count, Scalar(price)), k)[point] = x * price * k
      BY ONLY <1>6, <3>2
    <3> QED
      BY <3>1, <3>3
  <2>3. u.fresh[point] = A * (v * (rest * price * k))
    BY UnitCostAtPoint
  <2>4. x * price * k = v * (n * (A * (v * (rest * price * k))))
    BY ONLY x = v * v * (A * n * rest)
  <2> QED
    BY <2>2, <2>3, <2>4
<1>8. Costs(w, s, p).cached[point] = Whole * (n * u.cached[point])
  <2> PICK price \in Nat : price = CacheRead(p)
    BY FactorsAreNatural
  <2> PICK x \in Nat : x = v * v * (A * n * hit)
    BY ProductIsNatural
  <2>1. parts.cached[point] = v * x
    <3>1. v * v * v * (A * n * hit) = v * (v * v * (A * n * hit))
      BY ONLY TRUE
    <3> QED
      BY <1>2, <3>1
  <2>2. Costs(w, s, p).cached[point] = x * price * k
    <3> PICK count \in NonNegative : count = parts.cached
      BY <1>4
    <3>1. Costs(w, s, p).cached = Part(Times(count, Scalar(price)), k)
      BY <1>5
    <3>2. count[point] = v * x
      BY <2>1
    <3>3. Part(Times(count, Scalar(price)), k)[point] = x * price * k
      BY ONLY <1>6, <3>2
    <3> QED
      BY <3>1, <3>3
  <2>3. u.cached[point] = A * (v * (hit * price * k))
    BY UnitCostAtPoint
  <2>4. x * price * k = v * (n * (A * (v * (hit * price * k))))
    BY ONLY x = v * v * (A * n * hit)
  <2> QED
    BY <2>2, <2>3, <2>4
<1>9. Costs(w, s, p).write[point] = Whole * (n * u.write[point])
  <2> PICK price \in Nat : price = WritePremium(p)
    BY FactorsAreNatural
  <2> PICK x \in Nat : x = v * (A * n * rest * writes)
    BY ProductIsNatural
  <2>1. parts.writes[point] = v * x
    <3>1. v * v * (A * n * rest * writes) = v * (v * (A * n * rest * writes))
      BY ONLY TRUE
    <3> QED
      BY <1>2, <3>1
  <2>2. Costs(w, s, p).write[point] = x * price * k
    <3> PICK count \in NonNegative : count = parts.writes
      BY <1>4
    <3>1. Costs(w, s, p).write = Part(Times(count, Scalar(price)), k)
      BY <1>5
    <3>2. count[point] = v * x
      BY <2>1
    <3>3. Part(Times(count, Scalar(price)), k)[point] = x * price * k
      BY ONLY <1>6, <3>2
    <3> QED
      BY <3>1, <3>3
  <2>3. u.write[point] = A * (rest * writes * price * k)
    BY UnitCostAtPoint
  <2>4. x * price * k = v * (n * (A * (rest * writes * price * k)))
    BY ONLY x = v * (A * n * rest * writes)
  <2> QED
    BY <2>2, <2>3, <2>4
<1>10. Costs(w, s, p).output[point] = Whole * (n * u.output[point])
  <2> PICK price \in Nat : price = p.output
    BY FactorsAreNatural
  <2> PICK x \in Nat : x = v * B * n
    BY ProductIsNatural
  <2>1. t.output[point] = v * x
    <3>1. v * v * B * n = v * (v * B * n)
      BY ONLY TRUE
    <3> QED
      BY <1>3, <3>1
  <2>2. Costs(w, s, p).output[point] = x * price * k
    <3> PICK count \in NonNegative : count = t.output
      BY <1>4
    <3>1. Costs(w, s, p).output = Part(Times(count, Scalar(price)), k)
      BY <1>5
    <3>2. count[point] = v * x
      BY <2>1
    <3>3. Part(Times(count, Scalar(price)), k)[point] = x * price * k
      BY ONLY <1>6, <3>2
    <3> QED
      BY <3>1, <3>3
  <2>3. u.output[point] = B * (price * k)
    BY UnitCostAtPoint
  <2>4. x * price * k = v * (n * (B * (price * k)))
    BY ONLY x = v * B * n
  <2> QED
    BY <2>2, <2>3, <2>4
<1>11. Costs(w, s, p).reasoning[point] = Whole * (n * u.reasoning[point])
  <2> PICK price \in Nat : price = Reasoning(p)
    BY FactorsAreNatural
  <2> PICK x \in Nat : x = v * C * n
    BY ProductIsNatural
  <2>1. t.reasoning[point] = v * x
    <3>1. v * v * C * n = v * (v * C * n)
      BY ONLY TRUE
    <3> QED
      BY <1>3, <3>1
  <2>2. Costs(w, s, p).reasoning[point] = x * price * k
    <3> PICK count \in NonNegative : count = t.reasoning
      BY <1>4
    <3>1. Costs(w, s, p).reasoning = Part(Times(count, Scalar(price)), k)
      BY <1>5
    <3>2. count[point] = v * x
      BY <2>1
    <3>3. Part(Times(count, Scalar(price)), k)[point] = x * price * k
      BY ONLY <1>6, <3>2
    <3> QED
      BY <3>1, <3>3
  <2>3. u.reasoning[point] = C * (price * k)
    BY UnitCostAtPoint
  <2>4. x * price * k = v * (n * (C * (price * k)))
    BY ONLY x = v * C * n
  <2> QED
    BY <2>2, <2>3, <2>4
<1>12. Costs(w, s, p).fixed[point] = Whole * (n * u.fixed[point])
  <2>0. p.fixed \in Nat /\ p.fixed % v = 0
    BY FactorsAreNatural DEF ExactPrices
  <2> PICK price \in Nat : p.fixed = v * price
    BY ONLY <2>0, MultipleOf
  <2>4. p.fixed \div Whole = price
    BY DivisionUndoesTimes
  <2>1. Costs(w, s, p).fixed[point] = t.requests[point] * (v * price)
    <3>1. p.fixed \in Nat
      BY FactorsAreNatural
    <3>2. Scalar(p.fixed) \in NonNegative /\ Scalar(p.fixed)[point] = p.fixed
      BY <3>1, ScalarIsBand
    <3> QED
      BY <1>4, <1>5, <3>2, TimesIsBand
  <2>2. u.fixed[point] = IF w.kind = "continuous_stream" THEN 0 ELSE price
    BY <2>4, UnitCostAtPoint DEF PerCall
  <2>3. n * (v * price) = v * (n * price) /\ 0 * (v * price) = v * (n * 0)
    BY ONLY TRUE
  <2> QED
    BY <1>3, <2>1, <2>2, <2>3
<1>13. Costs(w, s, p).units[point] = Whole * (n * u.units[point])
  <2>1. u.units[point] = images * PerImage(w, p)
    BY UnitCostAtPoint
  <2>2. t.images.typical > 0 <=> w.images.typical > 0
    <3> PICK m \in Nat \ {0} : m = Requested(w, s, "typical")
      BY TotalsAtPoint DEF Points
    <3> PICK x \in Nat : x = w.images.typical
      BY FactorsAreNatural, BandFields
    <3>1. t.images.typical = x * m
      BY TotalsAtPoint DEF Points
    <3>2. x * m > 0 <=> x > 0
      BY ONLY TRUE
    <3> QED
      BY <3>1, <3>2
  <2>3. CASE t.images.typical > 0 /\ p.image # None
    <3>1. p.image \in Nat /\ p.image % v = 0
      BY <2>3, PricesAreNatural DEF ExactPrices
    <3> PICK price \in Nat : p.image = v * price
      BY ONLY <3>1, MultipleOf
    <3>5. p.image \div Whole = price
      BY DivisionUndoesTimes
    <3>2. Costs(w, s, p).units[point] = images * n * (v * price)
      <4>1. Scalar(p.image) \in NonNegative /\ Scalar(p.image)[point] = p.image
        BY <3>1, ScalarIsBand
      <4> QED
        BY <1>3, <1>4, <1>5, <2>3, <4>1, TimesIsBand
    <3>3. PerImage(w, p) = price
      BY <2>2, <2>3, <3>5 DEF PerImage
    <3>4. images * n * (v * price) = v * (n * (images * price))
      BY ONLY TRUE
    <3> QED
      BY <2>1, <3>2, <3>3, <3>4
  <2>4. CASE ~(t.images.typical > 0 /\ p.image # None)
    <3>1. Costs(w, s, p).units[point] = 0
      BY <1>5, <2>4, ScalarIsBand
    <3>2. PerImage(w, p) = 0
      BY <2>2, <2>4 DEF PerImage
    <3>3. v * (n * (images * 0)) = 0
      BY ONLY TRUE
    <3> QED
      BY <2>1, <3>1, <3>2, <3>3
  <2> QED
    BY <2>3, <2>4
<1> QED
  BY <1>7, <1>8, <1>9, <1>10, <1>11, <1>12, <1>13 DEF CostFields

LEMMA TotalAtPoint ==
  ASSUME NEW costs \in [CostFields -> NonNegative], NEW point \in Points
  PROVE  /\ \A field \in CostFields : costs[field][point] \in Nat
         /\ Total(costs) \in NonNegative
         /\ Total(costs)[point] =
              costs.fresh[point] + (costs.cached[point] + (costs.write[point]
                + (costs.output[point] + (costs.reasoning[point]
                + (costs.fixed[point] + costs.units[point])))))
<1>1. /\ costs.fresh \in NonNegative /\ costs.cached \in NonNegative
      /\ costs.write \in NonNegative /\ costs.output \in NonNegative
      /\ costs.reasoning \in NonNegative /\ costs.fixed \in NonNegative
      /\ costs.units \in NonNegative
  BY DEF CostFields
<1>2. ASSUME NEW a \in NonNegative, NEW b \in NonNegative
      PROVE  \E c \in NonNegative : c = Plus(a, b) /\ c[point] = a[point] + b[point]
  BY PlusIsBand, ArithmeticIsPointwise, BandFields
<1> PICK c1 \in NonNegative : /\ c1 = Plus(costs.fixed, costs.units)
                              /\ c1[point] = costs.fixed[point] + costs.units[point]
  BY ONLY <1>1, <1>2
<1> PICK c2 \in NonNegative : /\ c2 = Plus(costs.reasoning, c1)
                              /\ c2[point] = costs.reasoning[point] + c1[point]
  BY ONLY <1>1, <1>2
<1> PICK c3 \in NonNegative : /\ c3 = Plus(costs.output, c2)
                              /\ c3[point] = costs.output[point] + c2[point]
  BY ONLY <1>1, <1>2
<1> PICK c4 \in NonNegative : /\ c4 = Plus(costs.write, c3)
                              /\ c4[point] = costs.write[point] + c3[point]
  BY ONLY <1>1, <1>2
<1> PICK c5 \in NonNegative : /\ c5 = Plus(costs.cached, c4)
                              /\ c5[point] = costs.cached[point] + c4[point]
  BY ONLY <1>1, <1>2
<1> PICK c6 \in NonNegative : /\ c6 = Plus(costs.fresh, c5)
                              /\ c6[point] = costs.fresh[point] + c5[point]
  BY ONLY <1>1, <1>2
<1>3. Total(costs) = c6
  BY DEF Total
<1>4. \A field \in CostFields : costs[field][point] \in Nat
  BY BandFields
<1> QED
  BY <1>3, <1>4

(* So is their total.                                                      *)
AreMultiples(costs, v, n, u, point) ==
  \A field \in CostFields : costs[field][point] = v * (n * u[field][point])

LEMMA TotalIsUnitCost ==
  ASSUME NEW costs \in [CostFields -> NonNegative], NEW u \in [CostFields -> NonNegative],
         NEW point \in Points, NEW v \in Nat, NEW n \in Nat,
         AreMultiples(costs, v, n, u, point)
  PROVE  Total(costs)[point] = v * (n * Total(u)[point])
<1> USE DEF AreMultiples
<1>1. \A x, y \in Nat : v * (n * x) + v * (n * y) = v * (n * (x + y)) /\ x + y \in Nat
  BY ONLY TRUE
<1> PICK u1 \in Nat : u1 = u.fresh[point] /\ costs.fresh[point] = v * (n * u1)
  BY TotalAtPoint DEF CostFields
<1> PICK u2 \in Nat : u2 = u.cached[point] /\ costs.cached[point] = v * (n * u2)
  BY TotalAtPoint DEF CostFields
<1> PICK u3 \in Nat : u3 = u.write[point] /\ costs.write[point] = v * (n * u3)
  BY TotalAtPoint DEF CostFields
<1> PICK u4 \in Nat : u4 = u.output[point] /\ costs.output[point] = v * (n * u4)
  BY TotalAtPoint DEF CostFields
<1> PICK u5 \in Nat : u5 = u.reasoning[point] /\ costs.reasoning[point] = v * (n * u5)
  BY TotalAtPoint DEF CostFields
<1> PICK u6 \in Nat : u6 = u.fixed[point] /\ costs.fixed[point] = v * (n * u6)
  BY TotalAtPoint DEF CostFields
<1> PICK u7 \in Nat : u7 = u.units[point] /\ costs.units[point] = v * (n * u7)
  BY TotalAtPoint DEF CostFields
<1>2. Total(u)[point] = u1 + (u2 + (u3 + (u4 + (u5 + (u6 + u7)))))
  BY TotalAtPoint
<1>3. Total(costs)[point] =
        v * (n * u1) + (v * (n * u2) + (v * (n * u3) + (v * (n * u4) + (v * (n * u5)
          + (v * (n * u6) + v * (n * u7))))))
  BY TotalAtPoint
<1>4. v * (n * u1) + (v * (n * u2) + (v * (n * u3) + (v * (n * u4) + (v * (n * u5)
        + (v * (n * u6) + v * (n * u7))))))
        = v * (n * (u1 + (u2 + (u3 + (u4 + (u5 + (u6 + u7)))))))
  BY ONLY TRUE
<1> QED
  BY <1>2, <1>3, <1>4

(* The formula, with what is requested as its first factor.                *)
LEMMA FormulaOpened ==
  ASSUME NEW w, GoodWorkload(w), NEW s, GoodSchedule(s), NEW p, NEW point \in Points,
         NEW n, n = Requested(w, s, point)
  PROVE  Formula(w, s, p, point) =
           LET tin    == n * w.input[point]
               cached == (tin * w.cacheHit) \div Whole
               writes == ((tin - cached) * w.cacheWrite) \div Whole
               fees == (tin - cached) * p.input + cached * CacheRead(p)
                           + (IF CacheWrite(p) > p.input
                                THEN writes * (CacheWrite(p) - p.input) ELSE 0)
                           + n * w.output[point] * p.output
                           + n * w.reasoning[point] * Reasoning(p)
           IN  (fees * Multiplier(w)) \div Whole
                 + (IF w.kind = "continuous_stream" THEN 0 ELSE n * p.fixed)
                 + n * w.images[point] * Or(p.image, 0)
<1> DEFINE times == CASE w.period = "hour"  -> s.hours[point] * s.days[point] * s.weeks
                      [] w.period = "day"   -> s.days[point] * s.weeks
                      [] w.period = "week"  -> s.weeks
                      [] w.period = "month" -> 1
<1>1. w.each[point] * w.rate[point] * times = n
  <2>1. w.rate \in Positive /\ w.each \in Positive /\ w.period \in {"hour", "day", "week", "month"}
    BY DEF GoodWorkload, ValidFields, Positive, Workload
  <2> PICK x \in Nat : x = w.each[point]
    BY <2>1, PositivePoints
  <2> PICK y \in Nat : y = w.rate[point]
    BY <2>1, PositivePoints
  <2> PICK z \in Nat : z = times
    BY <2>1, PerMonthAtPoint, PerMonthIsPositive, PositivePoints
  <2>2. n = x * (y * z)
    BY DEF Requested, Happens
  <2>3. x * y * z = x * (y * z)
    BY ONLY TRUE
  <2> QED
    BY <2>2, <2>3
<1>2. Formula(w, s, p, point) =
        LET m == w.each[point] * w.rate[point] * times
            total == m * w.input[point]
            read == (total * w.cacheHit) \div Whole
            wrote == ((total - read) * w.cacheWrite) \div Whole
            all == (total - read) * p.input + read * CacheRead(p)
                     + (IF CacheWrite(p) > p.input
                          THEN wrote * (CacheWrite(p) - p.input) ELSE 0)
                     + m * w.output[point] * p.output + m * w.reasoning[point] * Reasoning(p)
        IN  (all * Multiplier(w)) \div Whole
              + (IF w.kind = "continuous_stream" THEN 0 ELSE m * p.fixed)
              + m * w.images[point] * Or(p.image, 0)
  BY DEF Formula
<1> HIDE DEF times
<1> QED
  BY <1>1, <1>2

(* The formula gives the same.                                             *)
LEMMA FormulaIsUnitCost ==
  ASSUME NEW w, GoodWorkload(w), NEW s, GoodSchedule(s),
         NEW p, ValidPricing(p), ExactPrices(p),
         NEW a, NEW b, NEW c, CountsTokens(w, a, b, c), NEW u, u = UnitCost(w, p, a, b, c),
         NEW point \in Points, PricedInFull(w) \/ point = "typical"
  PROVE  Formula(w, s, p, point) = Whole * (Requested(w, s, point) * Total(u)[point])
<1> PICK v \in Nat \ {0} : v = Whole
  OBVIOUS
<1> PICK n \in Nat : n = Requested(w, s, point)
  BY TotalsAtPoint
<1> PICK k \in Nat : k = Multiplier(w)
  BY FactorsAreNatural
<1> PICK hit \in Nat : hit = w.cacheHit
  BY FactorsAreNatural
<1> PICK rest \in Nat : rest = Whole - w.cacheHit /\ rest + hit = v
  BY FactorsAreNatural
<1> PICK writes \in Nat : writes = w.cacheWrite
  BY FactorsAreNatural
<1> PICK A \in Nat : A = a[point]
  BY BandFields DEF CountsTokens
<1> PICK B \in Nat : B = b[point]
  BY BandFields DEF CountsTokens
<1> PICK C \in Nat : C = c[point]
  BY BandFields DEF CountsTokens
<1> PICK images \in Nat : images = w.images[point]
  BY FactorsAreNatural, BandFields
<1> PICK q1 \in Nat : q1 = p.input
  BY FactorsAreNatural
<1> PICK q2 \in Nat : q2 = CacheRead(p)
  BY FactorsAreNatural
<1> PICK q3 \in Nat : q3 = WritePremium(p)
  BY FactorsAreNatural
<1> PICK q4 \in Nat : q4 = p.output
  BY FactorsAreNatural
<1> PICK q5 \in Nat : q5 = Reasoning(p)
  BY FactorsAreNatural
<1> PICK q6 \in Nat : q6 = PerCall(w, p)
  BY FactorsAreNatural
<1> PICK q7 \in Nat : q7 = PerImage(w, p)
  BY FactorsAreNatural
<1> DEFINE tin == n * w.input[point]
           cached == (tin * hit) \div Whole
           written == ((tin - cached) * writes) \div Whole
           fees == (tin - cached) * q1 + cached * q2
                       + (IF CacheWrite(p) > p.input
                            THEN written * (CacheWrite(p) - p.input) ELSE 0)
                       + n * w.output[point] * q4 + n * w.reasoning[point] * q5
           fixed == IF w.kind = "continuous_stream" THEN 0 ELSE n * p.fixed
           units == n * images * Or(p.image, 0)
<1>1. Formula(w, s, p, point) = (fees * k) \div Whole + fixed + units
  BY FormulaOpened
<1>2. /\ w.input[point] = v * v * v * v * A /\ w.output[point] = v * v * B
      /\ w.reasoning[point] = v * v * C
  BY DEF CountsTokens
<1>3. cached = v * v * v * (A * n * hit)
  <2> PICK x \in Nat : x = v * v * v * (A * n)
    BY ProductIsNatural
  <2>1. n * (v * v * v * v * A) = v * (v * v * v * (A * n))
    BY ONLY TRUE
  <2>2. tin * hit = v * x * hit
    BY <1>2, <2>1
  <2>3. x * hit = v * v * v * (A * n * hit)
    BY ONLY x = v * v * v * (A * n)
  <2>4. (v * x * hit) \div Whole = x * hit
    BY PartExactly
  <2> QED
    BY <2>2, <2>3, <2>4
<1>4. tin - cached = v * v * v * (A * n * rest)
  <2>1. n * (v * v * v * v * A) = v * v * v * (A * n * (rest + hit))
    <3>1. n * (v * v * v * v * A) = v * v * v * (A * n * v)
      BY ONLY TRUE
    <3> QED
      BY <3>1
  <2>2. v * v * v * (A * n * (rest + hit)) - v * v * v * (A * n * hit)
          = v * v * v * (A * n * rest)
    BY ONLY TRUE
  <2> QED
    BY <1>2, <1>3, <2>1, <2>2
<1>5. written = v * v * (A * n * rest * writes)
  <2> PICK x \in Nat : x = v * v * (A * n * rest)
    BY ProductIsNatural
  <2>1. v * v * v * (A * n * rest) = v * (v * v * (A * n * rest))
    BY ONLY TRUE
  <2>2. (tin - cached) * writes = v * x * writes
    BY <1>4, <2>1
  <2>3. x * writes = v * v * (A * n * rest * writes)
    BY ONLY x = v * v * (A * n * rest)
  <2> QED
    BY <2>2, <2>3, PartExactly
<1> HIDE DEF tin, cached, written
<1>6. (IF CacheWrite(p) > p.input THEN written * (CacheWrite(p) - p.input) ELSE 0)
        = v * v * (A * n * rest * writes) * q3
  <2>1. CacheWrite(p) \in Int /\ p.input \in Int
    BY FactorsAreNatural DEF CacheWrite, Or, ValidPricing, Optional
  <2>2. q3 = IF CacheWrite(p) > p.input THEN CacheWrite(p) - p.input ELSE 0
    BY <2>1 DEF WritePremium, Most
  <2>3. v * v * (A * n * rest * writes) * 0 = 0
    BY ONLY TRUE
  <2> QED
    BY <1>5, <2>2, <2>3
<1> PICK S \in Nat : S = v * (A * n * rest * q1) + v * (A * n * hit * q2)
                           + A * n * rest * writes * q3 + B * n * q4 + C * n * q5
  <2>1. v * (A * n * rest * q1) + v * (A * n * hit * q2)
          + A * n * rest * writes * q3 + B * n * q4 + C * n * q5 \in Nat
    BY ONLY TRUE
  <2> QED
    BY <2>1
<1>7. fees = v * (v * S)
  <2>1. v * v * v * (A * n * rest) * q1 + v * v * v * (A * n * hit) * q2
          + v * v * (A * n * rest * writes) * q3
          + n * (v * v * B) * q4 + n * (v * v * C) * q5
          = v * (v * (v * (A * n * rest * q1) + v * (A * n * hit * q2)
                        + A * n * rest * writes * q3 + B * n * q4 + C * n * q5))
    BY ONLY TRUE
  <2> QED
    BY <1>2, <1>3, <1>4, <1>6, <2>1
<1> HIDE DEF fees
<1>8. (fees * k) \div Whole = v * (S * k)
  <2> PICK x \in Nat : x = v * S
    BY ProductIsNatural
  <2>1. fees * k = v * x * k
    BY <1>7
  <2>2. x * k = v * (S * k)
    BY ONLY x = v * S
  <2> QED
    BY <2>1, <2>2, PartExactly
<1>9. fixed = v * (n * q6)
  <2>0. p.fixed \in Nat /\ p.fixed % v = 0
    BY FactorsAreNatural DEF ExactPrices
  <2> PICK price \in Nat : p.fixed = v * price
    BY ONLY <2>0, MultipleOf
  <2>1. p.fixed \div Whole = price
    BY DivisionUndoesTimes
  <2>2. q6 = IF w.kind = "continuous_stream" THEN 0 ELSE price
    BY <2>1 DEF PerCall
  <2>3. n * (v * price) = v * (n * price) /\ v * (n * 0) = 0
    BY ONLY TRUE
  <2> QED
    BY <2>2, <2>3
<1>10. units = v * (n * (images * q7))
  <2>1. CASE w.images.typical > 0 /\ p.image # None
    <3>1. p.image \in Nat /\ p.image % v = 0
      BY <2>1, PricesAreNatural DEF ExactPrices
    <3> PICK price \in Nat : p.image = v * price
      BY ONLY <3>1, MultipleOf
    <3>2. p.image \div Whole = price
      BY DivisionUndoesTimes
    <3>3. q7 = price /\ Or(p.image, 0) = v * price
      BY <2>1, <3>2 DEF PerImage, Or
    <3>4. n * images * (v * price) = v * (n * (images * price))
      BY ONLY TRUE
    <3> QED
      BY <3>3, <3>4
  <2>2. CASE ~(w.images.typical > 0 /\ p.image # None)
    <3>1. q7 = 0
      BY <2>2 DEF PerImage
    <3>2. images = 0 \/ Or(p.image, 0) = 0
      <4>1. CASE p.image = None
        BY <4>1 DEF Or
      <4>2. CASE ~(w.images.typical > 0)
        <5>1. /\ w.images.min \in Nat /\ w.images.typical \in Nat /\ w.images.max \in Nat
              /\ w.images.min <= w.images.typical
          BY FactorsAreNatural, BandFields
        <5>2. point = "typical" \/ w.images.max = 0
          BY <4>2 DEF PricedInFull
        <5>3. w.images.typical <= w.images.max
          BY FactorsAreNatural, BandFields
        <5>4. w.images.typical = 0
          BY ONLY <4>2, <5>1
        <5>5. CASE point = "typical"
          BY <5>4, <5>5
        <5>6. CASE w.images.max = 0
          <6>1. w.images.min = 0 /\ w.images.typical = 0 /\ w.images.max = 0
            BY <5>1, <5>4, <5>6
          <6> QED
            BY <6>1 DEF Points
        <5> QED
          BY <5>2, <5>5, <5>6
      <4> QED
        BY <2>2, <4>1, <4>2
    <3>3. Or(p.image, 0) \in Nat
      BY PricesAreNatural DEF Or
    <3> PICK x \in Nat : x = Or(p.image, 0)
      BY <3>3
    <3>4. n * images * 0 = 0 /\ n * 0 * x = 0 /\ v * (n * (images * 0)) = 0
      BY ONLY TRUE
    <3>5. n * images * x = 0
      BY <3>2, <3>4
    <3> QED
      BY <3>1, <3>4, <3>5
  <2> QED
    BY <2>1, <2>2
<1> HIDE DEF fixed, units
<1>11. Total(u)[point] =
         A * (v * (rest * q1 * k)) + (A * (v * (hit * q2 * k)) + (A * (rest * writes * q3 * k)
           + (B * (q4 * k) + (C * (q5 * k) + (q6 + images * q7)))))
  <2>1. /\ u \in [CostFields -> NonNegative]
        /\ u.fresh[point] = A * (v * (rest * q1 * k))
        /\ u.cached[point] = A * (v * (hit * q2 * k))
        /\ u.write[point] = A * (rest * writes * q3 * k)
        /\ u.output[point] = B * (q4 * k)
        /\ u.reasoning[point] = C * (q5 * k)
        /\ u.fixed[point] = q6
        /\ u.units[point] = images * q7
    <3>1. /\ u \in [CostFields -> NonNegative]
          /\ u.fresh[point]
               = a[point] * (Whole * ((Whole - w.cacheHit) * p.input * Multiplier(w)))
          /\ u.cached[point] = a[point] * (Whole * (w.cacheHit * CacheRead(p) * Multiplier(w)))
          /\ u.write[point] = a[point] * ((Whole - w.cacheHit) * w.cacheWrite
                                           * WritePremium(p) * Multiplier(w))
          /\ u.output[point] = b[point] * (p.output * Multiplier(w))
          /\ u.reasoning[point] = c[point] * (Reasoning(p) * Multiplier(w))
          /\ u.fixed[point] = PerCall(w, p)
          /\ u.units[point] = w.images[point] * PerImage(w, p)
      BY ONLY GoodWorkload(w), ValidPricing(p), CountsTokens(w, a, b, c),
              u = UnitCost(w, p, a, b, c), UnitCostAtPoint
    <3> QED
      BY <3>1
  <2> QED
    BY <2>1, TotalAtPoint
<1>12. v * (n * (A * (v * (rest * q1 * k)) + (A * (v * (hit * q2 * k))
           + (A * (rest * writes * q3 * k)
           + (B * (q4 * k) + (C * (q5 * k) + (q6 + images * q7)))))))
         = v * ((v * (A * n * rest * q1) + v * (A * n * hit * q2)
                   + A * n * rest * writes * q3 + B * n * q4 + C * n * q5) * k)
             + v * (n * q6) + v * (n * (images * q7))
  BY ONLY TRUE
<1> QED
  BY <1>1, <1>8, <1>9, <1>10, <1>11, <1>12

LEMMA TokensAreCounted ==
  ASSUME NEW w, GoodWorkload(w), Exact(w)
  PROVE  \E a, b, c : CountsTokens(w, a, b, c)
<1> PICK v \in Nat \ {0} : v = Whole
  OBVIOUS
<1> PICK a \in NonNegative, b \in NonNegative, c \in NonNegative :
      \A point \in Points :
        /\ w.input[point] = v * v * v * v * a[point]
        /\ w.output[point] = v * v * b[point]
        /\ w.reasoning[point] = v * v * c[point]
  BY ExactBands
<1> QED
  BY DEF CountsTokens

LEMMA TotalOfAdded ==
  ASSUME NEW x \in [CostFields -> NonNegative], NEW y \in [CostFields -> NonNegative],
         NEW point \in Points
  PROVE  Total(Added(x, y))[point] = Total(x)[point] + Total(y)[point]
<1> PICK z : z = Added(x, y)
  OBVIOUS
<1>1. z = [field \in CostFields |-> Plus(x[field], y[field])]
  BY DEF Added
<1>2. z \in [CostFields -> NonNegative]
  BY <1>1, PlusIsBand
<1>3. \A field \in CostFields : z[field][point] = x[field][point] + y[field][point]
  BY <1>1, ArithmeticIsPointwise, BandFields
<1>4. \A field \in CostFields : x[field][point] \in Nat /\ y[field][point] \in Nat
  BY BandFields
<1>5. \A costs \in [CostFields -> NonNegative] :
        Total(costs)[point] =
          costs.fresh[point] + (costs.cached[point] + (costs.write[point]
            + (costs.output[point] + (costs.reasoning[point]
            + (costs.fixed[point] + costs.units[point])))))
  BY TotalAtPoint
<1> PICK x1 \in Nat : x1 = x.fresh[point]
  BY <1>4 DEF CostFields
<1> PICK y1 \in Nat : y1 = y.fresh[point]
  BY <1>4 DEF CostFields
<1> PICK x2 \in Nat : x2 = x.cached[point]
  BY <1>4 DEF CostFields
<1> PICK y2 \in Nat : y2 = y.cached[point]
  BY <1>4 DEF CostFields
<1> PICK x3 \in Nat : x3 = x.write[point]
  BY <1>4 DEF CostFields
<1> PICK y3 \in Nat : y3 = y.write[point]
  BY <1>4 DEF CostFields
<1> PICK x4 \in Nat : x4 = x.output[point]
  BY <1>4 DEF CostFields
<1> PICK y4 \in Nat : y4 = y.output[point]
  BY <1>4 DEF CostFields
<1> PICK x5 \in Nat : x5 = x.reasoning[point]
  BY <1>4 DEF CostFields
<1> PICK y5 \in Nat : y5 = y.reasoning[point]
  BY <1>4 DEF CostFields
<1> PICK x6 \in Nat : x6 = x.fixed[point]
  BY <1>4 DEF CostFields
<1> PICK y6 \in Nat : y6 = y.fixed[point]
  BY <1>4 DEF CostFields
<1> PICK x7 \in Nat : x7 = x.units[point]
  BY <1>4 DEF CostFields
<1> PICK y7 \in Nat : y7 = y.units[point]
  BY <1>4 DEF CostFields
<1>6. /\ z.fresh[point] = x1 + y1
      /\ z.cached[point] = x2 + y2
      /\ z.write[point] = x3 + y3
      /\ z.output[point] = x4 + y4
      /\ z.reasoning[point] = x5 + y5
      /\ z.fixed[point] = x6 + y6
      /\ z.units[point] = x7 + y7
  BY <1>3 DEF CostFields
<1>7. /\ Total(z)[point] = (x1 + y1) + ((x2 + y2) + ((x3 + y3) + ((x4 + y4) + ((x5 + y5) + ((x6 + y6) + (x7 + y7))))))
      /\ Total(x)[point] = x1 + (x2 + (x3 + (x4 + (x5 + (x6 + (x7))))))
      /\ Total(y)[point] = y1 + (y2 + (y3 + (y4 + (y5 + (y6 + (y7))))))
  BY <1>2, <1>5, <1>6
<1>8. (x1 + y1) + ((x2 + y2) + ((x3 + y3) + ((x4 + y4) + ((x5 + y5) + ((x6 + y6) + (x7 + y7))))))
        = (x1 + (x2 + (x3 + (x4 + (x5 + (x6 + (x7)))))))
            + (y1 + (y2 + (y3 + (y4 + (y5 + (y6 + (y7)))))))
  BY ONLY TRUE
<1> QED
  BY <1>7, <1>8

(* What a target adds to a total: its weight's share of what it costs alone. *)
LEMMA TargetAdds ==
  ASSUME NEW w, GoodWorkload(w), Exact(w), NEW s, GoodSchedule(s), NEW m \in DOMAIN Pricing,
         NEW cs \in [CostFields -> NonNegative], NEW weight \in Nat,
         NEW costs, costs = Costs(w, s, Pricing[m])
  PROVE  \E u \in NonNegative : \A point \in Points :
           LET n == Requested(w, s, point)
           IN  /\ Total(costs)[point] = Whole * (n * u[point])
               /\ PricedInFull(w) \/ point = "typical" =>
                    (Formula(w, s, Pricing[m], point) * weight) \div Whole = n * u[point] * weight
               /\ Total(Added(cs, Scaled(costs, weight)))[point]
                    = Total(cs)[point] + n * u[point] * weight
<1> PICK p : p = Pricing[m]
  OBVIOUS
<1>1. ValidPricing(p) /\ ExactPrices(p)
  BY UnitAssumption DEF ExactPrices
<1> PICK a, b, c : CountsTokens(w, a, b, c)
  BY TokensAreCounted
<1> PICK unit : unit = UnitCost(w, p, a, b, c)
  OBVIOUS
<1>2. unit \in [CostFields -> NonNegative]
  BY <1>1, UnitCostAtPoint DEF Points
<1>3. costs \in [CostFields -> NonNegative]
  BY <1>1, CostsAreBands
<1> PICK scaled : scaled = Scaled(costs, weight)
  OBVIOUS
<1>4. scaled = [field \in CostFields |-> Part(costs[field], weight)]
  BY <1>3 DEF Scaled
<1>5. scaled \in [CostFields -> NonNegative]
  BY <1>3, <1>4, PartIsBand
<1> PICK u \in NonNegative : u = Total(unit)
  BY <1>2, TotalIsBand
<1>6. ASSUME NEW point \in Points
      PROVE  LET n == Requested(w, s, point)
             IN  /\ Total(costs)[point] = Whole * (n * u[point])
                 /\ PricedInFull(w) \/ point = "typical" =>
                      (Formula(w, s, p, point) * weight) \div Whole = n * u[point] * weight
                 /\ Total(Added(cs, scaled))[point] = Total(cs)[point] + n * u[point] * weight
  <2> PICK v \in Nat \ {0} : v = Whole
    OBVIOUS
  <2> PICK n \in Nat : n = Requested(w, s, point)
    BY TotalsAtPoint
  <2> PICK x \in Nat : x = u[point]
    BY BandFields
  <2>1. \A field \in CostFields : costs[field][point] = v * (n * unit[field][point])
    BY <1>1, CostsAreUnitCosts
  <2>2. Total(costs)[point] = v * (n * x)
    <3>1. AreMultiples(costs, v, n, unit, point)
      BY <2>1 DEF AreMultiples
    <3>2. Total(costs)[point] = v * (n * Total(unit)[point])
      BY ONLY <1>2, <1>3, <3>1, v \in Nat, n \in Nat, point \in Points, TotalIsUnitCost
    <3> QED
      BY <3>2
  <2>3. ASSUME NEW y \in Nat
        PROVE  (v * (n * y) * weight) \div Whole = n * y * weight
    <3> PICK z \in Nat : z = n * y
      BY ProductIsNatural
    <3> QED
      BY PartExactly
  <2>4. PricedInFull(w) \/ point = "typical" =>
          (Formula(w, s, p, point) * weight) \div Whole = n * x * weight
    BY <1>1, <2>3, FormulaIsUnitCost
  <2>5. Total(scaled)[point] = n * x * weight
    <3> PICK k \in Nat : k = n * weight
      BY ProductIsNatural
    <3>1. ASSUME NEW field \in CostFields
          PROVE  scaled[field][point] = 1 * (k * unit[field][point])
      <4> PICK y \in Nat : y = unit[field][point]
        BY <1>2, BandFields
      <4>1. scaled[field][point] = (costs[field][point] * weight) \div Whole
        BY <1>3, <1>4, PartIsPointwise
      <4>2. scaled[field][point] = n * y * weight
        BY <2>1, <2>3, <4>1
      <4>3. n * y * weight = 1 * (n * weight * y)
        BY ONLY TRUE
      <4> QED
        BY <4>2, <4>3
    <3>2. Total(scaled)[point] = 1 * (k * x)
      <4> PICK one \in Nat : one = 1
        OBVIOUS
      <4>1. AreMultiples(scaled, one, k, unit, point)
        BY <3>1 DEF AreMultiples
      <4>2. Total(scaled)[point] = one * (k * Total(unit)[point])
        BY ONLY <1>2, <1>5, <4>1, one \in Nat, k \in Nat, point \in Points, TotalIsUnitCost
      <4> QED
        BY <4>2
    <3>3. 1 * (n * weight * x) = n * x * weight
      BY ONLY TRUE
    <3> QED
      BY <3>2, <3>3
  <2>6. Total(Added(cs, scaled))[point] = Total(cs)[point] + Total(scaled)[point]
    BY <1>5, TotalOfAdded
  <2> QED
    BY <2>2, <2>4, <2>5, <2>6
<1> QED
  BY <1>6

-----------------------------------------------------------------------------
(***************************************************************************)
(* The costs of the first k targets of a list.                             *)
(***************************************************************************)
Shares(w, s, list, point) ==
  [i \in DOMAIN list |->
     (Formula(w, s, Pricing[list[i].model], point) * list[i].weight) \div Whole]

Weights(list) == [i \in DOMAIN list |-> list[i].weight]

Alone(w, s, target, point) == Total(Costs(w, s, Pricing[target.model]))[point]

FollowsFormula(w, s, list, k, total) ==
  \A point \in Points : PricedInFull(w) \/ point = "typical" =>
    total[point] = SumFunctionOnSet(Shares(w, s, list, point), 1..k)

IsPerRequest(w, s, total) ==
  \E u \in NonNegative : \A point \in Points : total[point] = Requested(w, s, point) * u[point]

IsBetween(w, s, list, k, total) ==
  \A point \in Points :
    LET weights == SumFunctionOnSet(Weights(list), 1..k)
    IN  /\ weights \in Nat
        /\ \E i \in 1..k : Alone(w, s, list[i], point) * weights <= total[point] * Whole
        /\ \E i \in 1..k : Alone(w, s, list[i], point) * weights >= total[point] * Whole

Lists(w, s, list, k, listed) ==
  \A i \in 1..k : \A field \in Fallbacks(w, s, Pricing[list[i].model]) :
    <<list[i].model, field>> \in listed

CostsOf(w, s, list, k, total, listed) ==
  /\ FollowsFormula(w, s, list, k, total) /\ IsPerRequest(w, s, total)
  /\ IF k = 0 THEN \A point \in Points : total[point] = 0
     ELSE IsBetween(w, s, list, k, total)
  /\ Lists(w, s, list, k, listed)

KnownTargets(list, k) ==
  /\ list \in Seq(Targets) /\ k \in 0..Len(list)
  /\ \A i \in 1..Len(list) : list[i].weight \in Nat
  /\ \A i \in 1..k : list[i].model \in DOMAIN Pricing

LEMMA CostsOfNone ==
  ASSUME NEW w, GoodWorkload(w), NEW s, GoodSchedule(s), NEW list, NEW listed
  PROVE  CostsOf(w, s, list, 0, Total(NoCosts), listed)
<1>1. NoCosts = [field \in CostFields |-> Scalar(0)]
  BY DEF NoCosts, CostFields
<1>2. Scalar(0) \in NonNegative /\ \A point \in Points : Scalar(0)[point] = 0
  BY ScalarIsBand
<1>3. NoCosts \in [CostFields -> NonNegative]
  BY <1>1, <1>2
<1>4. ASSUME NEW point \in Points
      PROVE  Total(NoCosts)[point] = 0
  <2>1. /\ NoCosts.fresh[point] = 0 /\ NoCosts.cached[point] = 0 /\ NoCosts.write[point] = 0
        /\ NoCosts.output[point] = 0 /\ NoCosts.reasoning[point] = 0
        /\ NoCosts.fixed[point] = 0 /\ NoCosts.units[point] = 0
    BY <1>1, <1>2 DEF CostFields
  <2> QED
    BY <1>3, <2>1, TotalAtPoint
<1>5. FollowsFormula(w, s, list, 0, Total(NoCosts))
  <2>1. 1..0 = {}
    OBVIOUS
  <2>2. \A f : SumFunctionOnSet(f, {}) = 0
    BY SumOfNone
  <2> QED
    BY <1>4, <2>1, <2>2 DEF FollowsFormula
<1>6. IsPerRequest(w, s, Total(NoCosts))
  <2>1. \A point \in Points : Requested(w, s, point) * Scalar(0)[point] = 0
    BY <1>2, TotalsAtPoint
  <2> QED
    BY <1>2, <1>4, <2>1 DEF IsPerRequest
<1> QED
  BY <1>4, <1>5, <1>6 DEF CostsOf, Lists

(* A target that joins a mix is dearer than the cheapest, or is it.        *)
LEMMA CheapestStays ==
  ASSUME NEW old \in Nat, NEW new \in Nat, NEW sum \in Nat, NEW weight \in Nat, NEW t \in Nat,
         old * sum <= t
  PROVE  \/ old * (sum + weight) <= t + new * weight
         \/ new * (sum + weight) <= t + new * weight
<1>1. old * (sum + weight) = old * sum + old * weight
  BY ONLY TRUE
<1>2. new * (sum + weight) = new * sum + new * weight
  BY ONLY TRUE
<1>3. CASE old <= new
  <2>1. old * weight <= new * weight
    BY <1>3, ProductsAreMonotone
  <2> QED
    BY <1>1, <2>1
<1>4. CASE new <= old
  <2>1. new * sum <= old * sum
    BY <1>4, ProductsAreMonotone
  <2> QED
    BY <1>2, <2>1
<1> QED
  BY <1>3, <1>4

LEMMA DearestStays ==
  ASSUME NEW old \in Nat, NEW new \in Nat, NEW sum \in Nat, NEW weight \in Nat, NEW t \in Nat,
         old * sum >= t
  PROVE  \/ old * (sum + weight) >= t + new * weight
         \/ new * (sum + weight) >= t + new * weight
<1>1. old * (sum + weight) = old * sum + old * weight
  BY ONLY TRUE
<1>2. new * (sum + weight) = new * sum + new * weight
  BY ONLY TRUE
<1>3. CASE new <= old
  <2>1. new * weight <= old * weight
    BY <1>3, ProductsAreMonotone
  <2> QED
    BY <1>1, <2>1
<1>4. CASE old <= new
  <2>1. old * sum <= new * sum
    BY <1>4, ProductsAreMonotone
  <2> QED
    BY <1>2, <2>1
<1> QED
  BY <1>3, <1>4

LEMMA CostsOfOneMore ==
  ASSUME NEW w, GoodWorkload(w), Exact(w), NEW s, GoodSchedule(s), NEW list, NEW k \in Nat,
         KnownTargets(list, k + 1), NEW cs \in [CostFields -> NonNegative], NEW listed,
         CostsOf(w, s, list, k, Total(cs), listed),
         NEW m, m = list[k + 1].model, NEW more,
         more = Added(cs, Scaled(Costs(w, s, Pricing[m]), list[k + 1].weight))
  PROVE  CostsOf(w, s, list, k + 1, Total(more),
                 listed \cup {<<m, field>> : field \in Fallbacks(w, s, Pricing[m])})
<1>1. /\ k + 1 \in 1..Len(list) /\ Len(list) \in Nat /\ DOMAIN list = 1..Len(list)
      /\ \A i \in 1..k + 1 : list[i].model \in DOMAIN Pricing /\ list[i].weight \in Nat
  BY DEF KnownTargets
<1>2. 1..k \subseteq 1..k + 1 /\ k + 1 \in 1..k + 1
  OBVIOUS
<1> PICK weight \in Nat : weight = list[k + 1].weight
  BY <1>1, <1>2
<1> PICK costs : costs = Costs(w, s, Pricing[m])
  OBVIOUS
<1>3. m \in DOMAIN Pricing
  BY <1>1, <1>2
<1> PICK u \in NonNegative : \A point \in Points :
      LET n == Requested(w, s, point)
      IN  /\ Total(costs)[point] = Whole * (n * u[point])
          /\ PricedInFull(w) \/ point = "typical" =>
               (Formula(w, s, Pricing[m], point) * weight) \div Whole = n * u[point] * weight
          /\ Total(Added(cs, Scaled(costs, weight)))[point]
               = Total(cs)[point] + n * u[point] * weight
  BY <1>3, TargetAdds
<1>4. \A point \in Points : /\ Requested(w, s, point) \in Nat /\ u[point] \in Nat
                            /\ Total(cs)[point] \in Nat
  BY TotalsAtPoint, TotalIsBand, BandFields
<1>5. FollowsFormula(w, s, list, k + 1, Total(more))
  <2> SUFFICES ASSUME NEW point \in Points, PricedInFull(w) \/ point = "typical"
               PROVE  Total(more)[point] = SumFunctionOnSet(Shares(w, s, list, point), 1..k + 1)
    BY DEF FollowsFormula
  <2> PICK f : f = Shares(w, s, list, point)
    OBVIOUS
  <2>1. Total(cs)[point] = SumFunctionOnSet(f, 1..k)
    BY DEF CostsOf, FollowsFormula
  <2>2. ASSUME NEW i \in 1..k + 1
        PROVE  f[i] \in Int
    <3>1. list[i].model \in DOMAIN Pricing /\ list[i].weight \in Nat /\ i \in DOMAIN list
      BY <1>1
    <3>2. f[i] = (Formula(w, s, Pricing[list[i].model], point) * list[i].weight) \div Whole
      BY <3>1 DEF Shares
    <3> PICK v \in NonNegative :
          (Formula(w, s, Pricing[list[i].model], point) * list[i].weight) \div Whole
            = Requested(w, s, point) * v[point] * list[i].weight
      BY <3>1, TargetAdds
    <3>3. v[point] \in Nat
      BY BandFields
    <3> QED
      BY <1>4, <3>1, <3>2, <3>3
  <2>3. SumFunctionOnSet(f, 1..k + 1) = SumFunctionOnSet(f, 1..k) + f[k + 1]
    BY ONLY <2>2, SumOfNextOne
  <2>4. f[k + 1] = (Formula(w, s, Pricing[m], point) * weight) \div Whole
    BY <1>1 DEF Shares
  <2>5. Total(more)[point] = Total(cs)[point] + f[k + 1]
    BY <2>4
  <2> QED
    BY <2>1, <2>3, <2>5
<1>6. IsPerRequest(w, s, Total(more))
  <2> PICK v \in NonNegative : \A point \in Points :
        Total(cs)[point] = Requested(w, s, point) * v[point]
    BY DEF CostsOf, IsPerRequest
  <2>1. /\ Times(u, Scalar(weight)) \in NonNegative
        /\ \A point \in Points : Times(u, Scalar(weight))[point] = u[point] * weight
    BY ScalarIsBand, TimesIsBand
  <2> PICK x \in NonNegative : \A point \in Points : x[point] = u[point] * weight
    BY <2>1
  <2> PICK y \in NonNegative : \A point \in Points : y[point] = v[point] + x[point]
    BY PlusIsBand, ArithmeticIsPointwise, BandFields
  <2>2. ASSUME NEW point \in Points
        PROVE  Total(more)[point] = Requested(w, s, point) * y[point]
    <3> PICK n \in Nat : n = Requested(w, s, point)
      BY <1>4
    <3> PICK i \in Nat : i = u[point]
      BY <1>4
    <3> PICK j \in Nat : j = v[point]
      BY BandFields
    <3>1. Total(more)[point] = n * j + n * i * weight
      OBVIOUS
    <3>2. n * j + n * i * weight = n * (j + i * weight)
      BY ONLY TRUE
    <3> QED
      BY <3>1, <3>2
  <2> QED
    BY <2>2 DEF IsPerRequest
<1>7. Lists(w, s, list, k + 1,
            listed \cup {<<m, field>> : field \in Fallbacks(w, s, Pricing[m])})
  <2> SUFFICES ASSUME NEW i \in 1..k + 1, NEW field \in Fallbacks(w, s, Pricing[list[i].model])
               PROVE  <<list[i].model, field>> \in
                        listed \cup {<<m, g>> : g \in Fallbacks(w, s, Pricing[m])}
    BY DEF Lists
  <2>1. CASE i \in 1..k
    BY <2>1 DEF CostsOf, Lists
  <2>2. CASE i = k + 1
    BY <2>2
  <2> QED
    BY <2>1, <2>2
<1>8. IsBetween(w, s, list, k + 1, Total(more))
  <2> SUFFICES ASSUME NEW point \in Points
               PROVE  LET weights == SumFunctionOnSet(Weights(list), 1..k + 1)
                          total == Total(more)[point] * Whole
                      IN  /\ weights \in Nat
                          /\ \E i \in 1..k + 1 : Alone(w, s, list[i], point) * weights <= total
                          /\ \E i \in 1..k + 1 : Alone(w, s, list[i], point) * weights >= total
    BY DEF IsBetween
  <2> PICK g : g = Weights(list)
    OBVIOUS
  <2>1. \A i \in 1..k + 1 : g[i] \in Nat /\ g[i] = list[i].weight
    BY <1>1 DEF Weights
  <2>2. SumFunctionOnSet(g, 1..k + 1) = SumFunctionOnSet(g, 1..k) + g[k + 1]
    <3>1. \A i \in 1..k + 1 : g[i] \in Int
      BY <2>1
    <3> QED
      BY ONLY <3>1, SumOfNextOne
  <2> PICK n \in Nat : n = Requested(w, s, point)
    BY <1>4
  <2> PICK i \in Nat : i = u[point]
    BY <1>4
  <2> PICK t \in Nat : t = Total(cs)[point]
    BY <1>4
  <2> PICK v \in Nat \ {0} : v = Whole
    OBVIOUS
  <2> PICK new \in Nat : new = v * (n * i)
    BY ProductIsNatural
  <2>3. Alone(w, s, list[k + 1], point) = new
    BY DEF Alone
  <2>4. Total(more)[point] * Whole = t * v + new * weight
    <3>1. (t + n * i * weight) * v = t * v + v * (n * i) * weight
      BY ONLY TRUE
    <3> QED
      BY <3>1
  <2>5. CASE k = 0
    <3>1. SumFunctionOnSet(g, 1..k) = 0
      <4>1. 1..k = {}
        BY <2>5
      <4> QED
        BY <4>1, SumOfNone
    <3>2. SumFunctionOnSet(g, 1..k + 1) = weight
      BY <1>2, <2>1, <2>2, <3>1
    <3>3. t = 0
      BY <2>5 DEF CostsOf
    <3>4. 0 * v + new * weight = new * weight
      BY ONLY TRUE
    <3> PICK all \in Nat : all = new * weight
      BY ProductIsNatural
    <3>5. Total(more)[point] * Whole = all
      BY <2>4, <3>3, <3>4
    <3>6. Alone(w, s, list[k + 1], point) * weight = all
      BY <2>3
    <3>7. SumFunctionOnSet(Weights(list), 1..k + 1) = weight
      BY <3>2
    <3> QED
      BY ONLY <1>2, <3>5, <3>6, <3>7
  <2>6. CASE k > 0
    <3> PICK sum \in Nat : sum = SumFunctionOnSet(g, 1..k)
      BY <2>6 DEF CostsOf, IsBetween
    <3> PICK total \in Nat : total = Total(more)[point] * Whole
      <4>1. t * v + new * weight \in Nat
        BY ONLY TRUE
      <4> QED
        BY <2>4, <4>1
    <3>1. SumFunctionOnSet(g, 1..k + 1) = sum + weight
      BY <1>2, <2>1, <2>2
    <3>2. ASSUME NEW j \in 1..k
          PROVE  Alone(w, s, list[j], point) \in Nat
      <4>1. list[j].model \in DOMAIN Pricing
        BY <1>1, <1>2
      <4>2. ValidPricing(Pricing[list[j].model])
        BY <4>1, PricingAssumption
      <4> QED
        BY <4>2, CostsAreBands, TotalIsBand, BandFields DEF Alone
    <3>3. \E j \in 1..k + 1 : Alone(w, s, list[j], point) * (sum + weight) <= total
      <4> PICK j \in 1..k : Alone(w, s, list[j], point) * sum <= t * v
        BY <2>6 DEF CostsOf, IsBetween
      <4> PICK old \in Nat : old = Alone(w, s, list[j], point)
        BY <3>2
      <4> PICK before \in Nat : before = t * v
        BY ProductIsNatural
      <4>1. old * sum <= before
        OBVIOUS
      <4>2. \/ old * (sum + weight) <= before + new * weight
            \/ new * (sum + weight) <= before + new * weight
        BY ONLY <4>1, CheapestStays
      <4>3. total = before + new * weight
        BY <2>4
      <4> QED
        BY <1>2, <2>3, <4>2, <4>3
    <3>4. \E j \in 1..k + 1 : Alone(w, s, list[j], point) * (sum + weight) >= total
      <4> PICK j \in 1..k : Alone(w, s, list[j], point) * sum >= t * v
        BY <2>6 DEF CostsOf, IsBetween
      <4> PICK old \in Nat : old = Alone(w, s, list[j], point)
        BY <3>2
      <4> PICK before \in Nat : before = t * v
        BY ProductIsNatural
      <4>1. old * sum >= before
        OBVIOUS
      <4>2. \/ old * (sum + weight) >= before + new * weight
            \/ new * (sum + weight) >= before + new * weight
        BY ONLY <4>1, DearestStays
      <4>3. total = before + new * weight
        BY <2>4
      <4> QED
        BY <1>2, <2>3, <4>2, <4>3
    <3>5. sum + weight \in Nat
      BY ONLY TRUE
    <3>6. /\ sum + weight = SumFunctionOnSet(Weights(list), 1..k + 1)
          /\ total = Total(more)[point] * Whole
      BY <3>1
    <3> QED
      BY ONLY <3>3, <3>4, <3>5, <3>6
  <2> QED
    BY <2>5, <2>6
<1> QED
  BY <1>5, <1>6, <1>7, <1>8 DEF CostsOf

-----------------------------------------------------------------------------
(***************************************************************************)
(* The invariant: what is combined is the costs of the targets priced so   *)
(* far, and a breakdown has those of all its targets.                      *)
(***************************************************************************)
WellPriced(b, s) ==
  /\ b.targets # <<>> /\ KnownTargets(b.targets, Len(b.targets))
  /\ CostsOf(b.of, s, b.targets, Len(b.targets), b.total, b.estimated)
  /\ b.perAction = PerAction(b.total, Totals(b.of, s).actions)

FormulaInv ==
  /\ component # None =>
       targets # <<>> /\ CostsOf(component, schedule, targets, priced, Total(combined), estimated)
  /\ \A i \in 1..Len(breakdowns) : WellPriced(breakdowns[i], schedule)

LEMMA InitPrices == Init => FormulaInv
  BY DEF Init, EngineInit, FormulaInv

LEMMA ReceivePrices ==
  ASSUME IInv, NEW b \in Bodies, Receive(b)
  PROVE  FormulaInv'
<1>1. component' = None /\ breakdowns' = <<>>
  BY DEF IInv, RequestInv, Receive, Refuse, Accept
<1> QED
  BY <1>1 DEF FormulaInv

LEMMA NotFoundPrices ==
  ASSUME NotFound
  PROVE  FormulaInv'
<1>1. component' = None /\ breakdowns' = <<>>
  BY DEF NotFound, UnknownModel, NoComponent
<1> QED
  BY <1>1 DEF FormulaInv

LEMMA StutterPrices ==
  ASSUME FormulaInv, UNCHANGED engineVars
  PROVE  FormulaInv'
  BY DEF FormulaInv, engineVars

LEMMA NextJobPrices ==
  ASSUME IInv, CompareInv, FormulaInv, NextJob
  PROVE  FormulaInv'
<1> PICK n \in Nat : n = Len(breakdowns)
  BY DEF IInv, DoneInv
<1> PICK job : job = jobs[n + 1]
  OBVIOUS
<1>1. /\ ~Idle /\ n < Len(jobs) /\ component = None
      /\ component' = job.workload
      /\ targets' = TargetsOf(job)
      /\ schedule' = schedule /\ priced' = priced /\ combined' = combined
      /\ estimated' = estimated /\ breakdowns' = breakdowns
  BY DEF NextJob, Begin, TargetsOf
<1>2. priced = 0 /\ combined = NoCosts
  BY <1>1, Working DEF CompareInv
<1>3. /\ body \in Bodies /\ ValidBody(body) /\ KnownSchedule(body)
      /\ jobs = JobsOf(body) /\ schedule = Resolved(body)
  BY <1>1 DEF IInv, RequestInv
<1>4. GoodJob(job) /\ GoodSchedule(schedule)
  <2>1. jobs \in Seq(JobType) /\ \A i \in 1..Len(jobs) : GoodJob(jobs[i])
    BY <1>3, JobsAreGood
  <2> QED
    BY <1>1, <1>3, <2>1, ScheduleIsGood
<1>5. GoodWorkload(job.workload)
  BY <1>4 DEF GoodJob
<1>6. CostsOf(job.workload, schedule, TargetsOf(job), 0, Total(NoCosts), estimated)
  BY <1>4, <1>5, CostsOfNone
<1> QED
  BY <1>1, <1>2, <1>4, <1>6, JobsHaveTargets DEF FormulaInv

(* The targets priced so far are known.                                    *)
LEMMA TargetsAreKnown ==
  ASSUME IInv, component # None
  PROVE  KnownTargets(targets, priced)
<1>1. ~Idle
  BY Working
<1> QED
  BY <1>1 DEF IInv, EngineInv, RequestInv, KnownTargets

LEMMA PriceTargetPrices ==
  ASSUME IInv, FormulaInv, PriceTarget
  PROVE  FormulaInv'
<1> PICK k \in Nat : k = priced
  BY DEF IInv, EngineInv
<1> PICK m : m = targets[k + 1].model
  OBVIOUS
<1>1. /\ k < Len(targets) /\ m \in DOMAIN Pricing
      /\ combined' = Added(combined, Scaled(Costs(component, schedule, Pricing[m]),
                                            targets[k + 1].weight))
      /\ estimated' = estimated \cup
           {<<m, field>> : field \in Fallbacks(component, schedule, Pricing[m])}
      /\ priced' = k + 1
      /\ schedule' = schedule /\ component' = component /\ targets' = targets
      /\ breakdowns' = breakdowns
  BY DEF PriceTarget, Known, Target
<1>2. component # None
  BY <1>1, Working
<1>3. /\ GoodWorkload(component) /\ Exact(component) /\ GoodSchedule(schedule)
      /\ combined \in [CostFields -> NonNegative]
  BY <1>2 DEF IInv, EngineInv
<1>4. KnownTargets(targets, k + 1)
  <2>1. KnownTargets(targets, k)
    BY <1>2, TargetsAreKnown
  <2>2. ASSUME NEW i \in 1..k + 1
        PROVE  targets[i].model \in DOMAIN Pricing
    <3>1. CASE i = k + 1
      BY <1>1, <3>1
    <3>2. CASE i \in 1..k
      BY <2>1, <3>2 DEF KnownTargets
    <3> QED
      BY <3>1, <3>2
  <2>3. k + 1 \in 0..Len(targets)
    BY <1>1, <2>1 DEF KnownTargets
  <2> QED
    BY <2>1, <2>2, <2>3 DEF KnownTargets
<1>5. CostsOf(component, schedule, targets, k, Total(combined), estimated)
  BY <1>2 DEF FormulaInv
<1> PICK w : w = component
  OBVIOUS
<1> PICK s : s = schedule
  OBVIOUS
<1> PICK list : list = targets
  OBVIOUS
<1> PICK cs : cs = combined
  OBVIOUS
<1> PICK listed : listed = estimated
  OBVIOUS
<1> PICK more : more = Added(cs, Scaled(Costs(w, s, Pricing[m]), list[k + 1].weight))
  OBVIOUS
<1>6. CostsOf(w, s, list, k + 1, Total(more),
              listed \cup {<<m, field>> : field \in Fallbacks(w, s, Pricing[m])})
  <2>1. /\ GoodWorkload(w) /\ Exact(w) /\ GoodSchedule(s)
        /\ cs \in [CostFields -> NonNegative] /\ m = list[k + 1].model
    BY <1>3
  <2>2. KnownTargets(list, k + 1)
    BY <1>4
  <2>3. CostsOf(w, s, list, k, Total(cs), listed)
    BY <1>5
  <2>4. more = Added(cs, Scaled(Costs(w, s, Pricing[m]), list[k + 1].weight))
    OBVIOUS
  <2> QED
    BY ONLY k \in Nat, <2>1, <2>2, <2>3, <2>4, CostsOfOneMore
<1>7. combined' = more /\ component' = w /\ schedule' = s /\ targets' = list
  BY <1>1, <1>2
<1>8. estimated' = listed \cup {<<m, field>> : field \in Fallbacks(w, s, Pricing[m])}
  BY <1>1
<1>9. CostsOf(component', schedule', targets', priced', Total(combined'), estimated')
  BY <1>1, <1>6, <1>7, <1>8
<1>10. targets' # <<>> /\ breakdowns' = breakdowns /\ schedule' = schedule
  BY <1>1, <1>2 DEF FormulaInv
<1> QED
  BY <1>9, <1>10 DEF FormulaInv

LEMMA EndComponentPrices ==
  ASSUME IInv, FormulaInv, EndComponent
  PROVE  FormulaInv'
<1> PICK n \in Nat : n = Len(breakdowns)
  BY DEF IInv, DoneInv
<1>1. /\ component # None /\ priced = Len(targets)
      /\ component' = None /\ schedule' = schedule
  BY DEF EndComponent, NoComponent
<1> PICK b : /\ breakdowns' = Append(breakdowns, b)
             /\ b.of = component /\ b.targets = targets /\ b.total = Total(combined)
             /\ b.perAction = PerAction(Total(combined), Totals(component, schedule).actions)
             /\ b.estimated = estimated
  BY DEF EndComponent
<1>2. /\ Len(breakdowns') = n + 1 /\ breakdowns'[n + 1] = b
      /\ \A i \in 1..n : breakdowns'[i] = breakdowns[i]
  BY DEF IInv, DoneInv
<1>3. WellPriced(b, schedule)
  BY <1>1, TargetsAreKnown DEF FormulaInv, WellPriced
<1>4. ASSUME NEW i \in 1..n + 1
      PROVE  WellPriced(breakdowns'[i], schedule)
  BY <1>2, <1>3 DEF FormulaInv
<1> QED
  BY <1>1, <1>2, <1>4 DEF FormulaInv

LEMMA NextPrices == IInv /\ CompareInv /\ FormulaInv /\ [Next]_vars => FormulaInv'
<1> SUFFICES ASSUME IInv, CompareInv, FormulaInv, [Next]_vars PROVE FormulaInv'
  OBVIOUS
<1>1. ASSUME NEW b \in Bodies, Receive(b) PROVE FormulaInv'
  BY <1>1, ReceivePrices
<1>2. CASE NextJob
  BY <1>2, NextJobPrices
<1>3. CASE NotFound
  BY <1>3, NotFoundPrices
<1>4. CASE Finish
  BY <1>4, StutterPrices DEF Finish
<1>5. CASE PriceTarget
  BY <1>5, PriceTargetPrices
<1>6. CASE EndComponent
  BY <1>6, EndComponentPrices
<1>7. CASE UNCHANGED vars
  BY <1>7, StutterPrices DEF vars
<1> QED
  BY <1>1, <1>2, <1>3, <1>4, <1>5, <1>6, <1>7 DEF Next

LEMMA FormulaInvHolds == Spec => []FormulaInv
  BY InitPrices, NextPrices, IInvHolds, CompareInvHolds, PTL DEF Spec


-----------------------------------------------------------------------------
(***************************************************************************)
(* The theorems.                                                           *)
(***************************************************************************)
LEMMA DoneIsPriced ==
  ASSUME IInv, FormulaInv, NEW b \in Done
  PROVE  /\ b \in Breakdown /\ GoodWorkload(b.of) /\ Exact(b.of) /\ GoodSchedule(schedule)
         /\ WellPriced(b, schedule)
         /\ Len(b.targets) \in Nat \ {0} /\ DOMAIN b.targets = 1..Len(b.targets)
<1>1. b \in Breakdown /\ SplitOfItsOwn(b) /\ WellPriced(b, schedule)
  BY DEF IInv, DoneInv, FormulaInv, Done
<1>2. b.targets \in Seq(Targets) /\ b.targets # <<>>
  BY <1>1 DEF WellPriced, KnownTargets
<1>3. Len(b.targets) \in Nat \ {0} /\ DOMAIN b.targets = 1..Len(b.targets)
  BY ONLY <1>2
<1> QED
  BY <1>1, <1>3 DEF SplitOfItsOwn

(* min, typical and max of a breakdown's total are what the documented     *)
(* formula gives when every Range of the request stands at its min,        *)
(* typical or max, weighted over the targets, with nothing left over from  *)
(* another component (estimate_workload, _price_for_model, _blend_mix).    *)
THEOREM TotalsFollowTheFormula == Spec => []BandsFollowFormula
<1>1. IInv /\ FormulaInv => BandsFollowFormula
  <2> SUFFICES ASSUME IInv, FormulaInv, NEW b \in Done, PricedInFull(b.of), NEW point \in Points
               PROVE  b.total[point] = SumFunction(Shares(b.of, schedule, b.targets, point))
    BY DEF BandsFollowFormula, Shares
  <2> PICK f : f = Shares(b.of, schedule, b.targets, point)
    OBVIOUS
  <2>1. DOMAIN f = 1..Len(b.targets)
    BY DoneIsPriced DEF Shares
  <2>2. FollowsFormula(b.of, schedule, b.targets, Len(b.targets), b.total)
    BY DoneIsPriced DEF WellPriced, CostsOf
  <2>3. b.total[point] = SumFunctionOnSet(f, 1..Len(b.targets))
    BY <2>2 DEF FollowsFormula
  <2> QED
    BY <2>1, <2>3 DEF SumFunction
<1> QED
  BY <1>1, IInvHolds, FormulaInvHolds, PTL

LEMMA OverUndoesTimes ==
  ASSUME NEW x \in NonNegative, NEW a \in Positive, NEW q \in NonNegative,
         \A point \in Points : x[point] = a[point] * q[point]
  PROVE  \A point \in Points : Over(x, a)[point] = q[point]
<1> DEFINE r == x.range \/ a.range
<1>0. r \in BOOLEAN
  BY BandFields DEF Positive
<1>1. /\ q.min \in Nat /\ q.typical \in Nat /\ q.max \in Nat
      /\ q.min <= q.typical /\ q.typical <= q.max
  BY BandFields
<1>2. \A d \in Nat \ {0}, y \in Nat : (d * y) \div d = y
  OBVIOUS
<1>3. \A point \in Points : x[point] \div a[point] = q[point]
  <2> SUFFICES ASSUME NEW point \in Points PROVE x[point] \div a[point] = q[point]
    OBVIOUS
  <2> PICK d \in Nat \ {0} : d = a[point]
    BY PositivePoints
  <2> PICK y \in Nat : y = q[point]
    BY BandFields
  <2> QED
    BY <1>2
<1>4. /\ x.min \div a.min = q.min /\ x.typical \div a.typical = q.typical
      /\ x.max \div a.max = q.max
  BY <1>3 DEF Points
<1>5. ~r => q.min = q.typical /\ q.typical = q.max
  <2> SUFFICES ASSUME ~r PROVE q.min = q.typical /\ q.typical = q.max
    OBVIOUS
  <2>1. /\ x.min = x.typical /\ x.typical = x.max
        /\ a.min = a.typical /\ a.typical = a.max
    BY BandFields DEF Positive
  <2> QED
    BY <1>4, <2>1
<1>6. Over(x, a) = Normalized(r, q.min, q.typical, q.max)
  BY <1>4 DEF Over
<1> HIDE DEF r
<1>7. Over(x, a) = [range |-> r, min |-> q.min, typical |-> q.typical, max |-> q.max]
  BY <1>0, <1>1, <1>5, <1>6, NormalizedSorts
<1> QED
  BY <1>7 DEF Points

(* The cost per action, times the actions of the month, is the total in    *)
(* each scenario, although both are uncertain, and the division is never   *)
(* by zero (WorkloadBreakdown.per_action, Range.__truediv__).              *)
THEOREM PerActionTimesActions == Spec => []PerActionRecoversTotal
<1>1. IInv /\ FormulaInv => PerActionRecoversTotal
  <2> SUFFICES ASSUME IInv, FormulaInv, NEW b \in Done, b.perAction # None, NEW point \in Points
               PROVE  b.perAction[point] * Totals(b.of, schedule).actions[point] = b.total[point]
    BY DEF PerActionRecoversTotal
  <2> PICK actions : actions = Totals(b.of, schedule).actions
    OBVIOUS
  <2> PICK x \in NonNegative : x = b.total
    BY DoneIsPriced DEF Breakdown
  <2>1. b.perAction = PerAction(x, actions) /\ IsPerRequest(b.of, schedule, x)
    BY DoneIsPriced DEF WellPriced, CostsOf
  <2>2. actions # None
    BY <2>1 DEF PerAction
  <2>3. actions \in Positive
    BY <2>2, DoneIsPriced, ActionsShareRequests
  <2> PICK each \in NonNegative :
        \A p \in Points : Requested(b.of, schedule, p) = actions[p] * each[p]
    BY <2>2, DoneIsPriced, ActionsShareRequests
  <2> PICK u \in NonNegative : \A p \in Points : x[p] = Requested(b.of, schedule, p) * u[p]
    BY <2>1 DEF IsPerRequest
  <2> PICK q \in NonNegative : \A p \in Points : q[p] = each[p] * u[p]
    BY TimesIsBand
  <2>4. \A p \in Points : x[p] = actions[p] * q[p]
    <3> SUFFICES ASSUME NEW p \in Points PROVE x[p] = actions[p] * q[p]
      OBVIOUS
    <3> PICK i \in Nat : i = actions[p]
      BY <2>3, PositivePoints
    <3> PICK j \in Nat : j = each[p]
      BY BandFields
    <3> PICK k \in Nat : k = u[p]
      BY BandFields
    <3>1. i * j * k = i * (j * k)
      BY ONLY TRUE
    <3> QED
      BY <3>1
  <2>5. b.perAction = Over(x, actions)
    BY <2>1, <2>2 DEF PerAction
  <2>6. b.perAction[point] = q[point]
    BY <2>3, <2>4, <2>5, OverUndoesTimes
  <2> PICK i \in Nat : i = actions[point]
    BY <2>3, PositivePoints
  <2> PICK j \in Nat : j = q[point]
    BY BandFields
  <2>7. x[point] = i * j
    BY <2>4
  <2> QED
    BY <2>6, <2>7
<1> QED
  BY <1>1, IInvHolds, FormulaInvHolds, PTL

(* A mix costs no less than the cheapest of its models alone and no more   *)
(* than the dearest, for as much as its weights add up to (_blend_mix).    *)
THEOREM MixesAreBetween == Spec => []MixIsBetween
<1>1. IInv /\ FormulaInv => MixIsBetween
  <2> SUFFICES ASSUME IInv, FormulaInv, NEW b \in Done, NEW point \in Points
               PROVE  LET weights == SumFunction(Weights(b.targets))
                          alone == {Alone(b.of, schedule, b.targets[i], point) :
                                      i \in DOMAIN b.targets}
                      IN  /\ \E cost \in alone : cost * weights <= b.total[point] * Whole
                          /\ \E cost \in alone : cost * weights >= b.total[point] * Whole
    BY DEF MixIsBetween, Weights, Alone
  <2> PICK n \in Nat \ {0} : n = Len(b.targets)
    BY DoneIsPriced
  <2>1. DOMAIN b.targets = 1..n /\ IsBetween(b.of, schedule, b.targets, n, b.total)
    BY DoneIsPriced DEF WellPriced, CostsOf
  <2>2. SumFunction(Weights(b.targets)) = SumFunctionOnSet(Weights(b.targets), 1..n)
    BY <2>1 DEF SumFunction, Weights
  <2> QED
    BY <2>1, <2>2 DEF IsBetween
<1> QED
  BY <1>1, IInvHolds, FormulaInvHolds, PTL

-----------------------------------------------------------------------------
(* The volumes that the optional prices apply to, as the formula has them. *)
LEMMA VolumesAtPoint ==
  ASSUME NEW w, GoodWorkload(w), Exact(w), NEW s, GoodSchedule(s), NEW point \in Points,
         NEW n, n = Requested(w, s, point)
  PROVE  LET t      == Totals(w, s)
             tin    == n * w.input[point]
             cached == (tin * w.cacheHit) \div Whole
             writes == ((tin - cached) * w.cacheWrite) \div Whole
         IN  /\ cached \in Nat /\ Split(w, t).cached[point] = cached
             /\ writes \in Nat /\ Split(w, t).writes[point] = writes
             /\ t.reasoning[point] = w.reasoning[point] * n
             /\ t.images[point] = w.images[point] * n
<1> PICK t : t = Totals(w, s)
  OBVIOUS
<1> PICK parts : parts = Split(w, t)
  OBVIOUS
<1> DEFINE tin == n * w.input[point]
           cached == (tin * w.cacheHit) \div Whole
           writes == ((tin - cached) * w.cacheWrite) \div Whole
<1>1. /\ parts.fresh \in NonNegative /\ parts.cached \in NonNegative
      /\ parts.writes \in NonNegative /\ t.input \in NonNegative
  BY SplitIsBand, TotalsAreBands
<1>2. t.input[point] = tin
  <2>1. t.input[point] = w.input[point] * n /\ n \in Nat
    BY TotalsAtPoint
  <2> PICK x \in Nat : x = w.input[point]
    BY BandFields DEF GoodWorkload, ValidFields
  <2> QED
    BY <2>1
<1> HIDE DEF tin
<1>3. w.cacheHit \in Nat /\ w.cacheWrite \in Nat
  BY FactorsAreNatural, PartIsBand DEF GoodWorkload, ValidFields, Workload
<1>4. parts.cached[point] = cached
  <2>1. parts.cached = Part(t.input, w.cacheHit)
    BY DEF Split
  <2> QED
    BY <1>1, <1>2, <1>3, <2>1, PartIsPointwise
<1> HIDE DEF cached
<1>5. parts.fresh[point] = tin - cached
  <2>1. parts.fresh[point] + parts.cached[point] = t.input[point]
    BY SplitConserves
  <2>2. parts.fresh[point] \in Nat /\ parts.cached[point] \in Nat /\ t.input[point] \in Nat
    BY <1>1, BandFields
  <2> QED
    BY <1>2, <1>4, <2>1, <2>2
<1>6. parts.writes[point] = writes
  <2>1. parts.writes = Part(parts.fresh, w.cacheWrite)
    BY DEF Split
  <2> QED
    BY <1>1, <1>3, <1>5, <2>1, PartIsPointwise
<1>7. cached \in Nat /\ writes \in Nat
  BY <1>1, <1>4, <1>6, BandFields
<1>8. t.reasoning[point] = w.reasoning[point] * n /\ t.images[point] = w.images[point] * n
  BY TotalsAtPoint
<1> QED
  BY <1>4, <1>6, <1>7, <1>8 DEF cached, tin

(* A price that applies to nothing may be anything. *)
LEMMA UnusedPrices ==
  ASSUME NEW w, GoodWorkload(w), Exact(w), NEW s, GoodSchedule(s),
         NEW p, ValidPricing(p), NEW any \in Nat, NEW U,
         \A field \in U : /\ field \in {"cacheRead", "cacheWrite", "reasoning", "image", "audio"}
                          /\ ~(Volume(w, s)[field].typical > 0),
         NEW q, q = [field \in DOMAIN p |-> IF field \in U THEN any ELSE p[field]]
  PROVE  Formula(w, s, q, "typical") = Formula(w, s, p, "typical")
<1> PICK point \in Points : point = "typical"
  BY DEF Points
<1> PICK n \in Nat : n = Requested(w, s, point)
  BY TotalsAtPoint
<1>1. /\ DOMAIN p = { "input", "output", "fixed", "reasoning", "cacheRead", "cacheWrite",
                      "image", "audio", "guessed" }
      /\ p.input \in Nat /\ p.output \in Nat /\ p.fixed \in Nat
      /\ p.cacheRead \in Nat \cup {None} /\ p.cacheWrite \in Nat \cup {None}
      /\ p.reasoning \in Nat \cup {None} /\ p.image \in Nat \cup {None}
  BY DEF ValidPricing, Optional
<1>2. /\ q.input = p.input /\ q.output = p.output /\ q.fixed = p.fixed
      /\ q.cacheRead = IF "cacheRead" \in U THEN any ELSE p.cacheRead
      /\ q.cacheWrite = IF "cacheWrite" \in U THEN any ELSE p.cacheWrite
      /\ q.reasoning = IF "reasoning" \in U THEN any ELSE p.reasoning
      /\ q.image = IF "image" \in U THEN any ELSE p.image
  BY <1>1
<1> DEFINE tin    == n * w.input[point]
           cached == (tin * w.cacheHit) \div Whole
           writes == ((tin - cached) * w.cacheWrite) \div Whole
<1> PICK reasoning \in Nat : reasoning = w.reasoning[point]
  BY BandFields DEF GoodWorkload, ValidFields
<1> PICK images \in Nat : images = w.images[point]
  BY FactorsAreNatural, BandFields
<1>3. /\ cached \in Nat /\ Volume(w, s).cacheRead[point] = cached
      /\ writes \in Nat /\ Volume(w, s).cacheWrite[point] = writes
      /\ Volume(w, s).reasoning[point] = reasoning * n
      /\ Volume(w, s).image[point] = images * n
  BY VolumesAtPoint DEF Volume
<1> HIDE DEF tin, cached, writes
<1>4. \A i \in Nat : i \div 10 \in Nat
  OBVIOUS
<1> PICK read \in Nat : read = CacheRead(p)
  BY <1>1, <1>4 DEF CacheRead, Or
<1> PICK read2 \in Nat : read2 = CacheRead(q)
  BY <1>1, <1>2, <1>4 DEF CacheRead, Or
<1>5. cached * read2 = cached * read
  <2>1. CASE "cacheRead" \in U
    <3>1. cached = 0
      BY <1>3, <2>1
    <3> QED
      BY <3>1
  <2>2. CASE "cacheRead" \notin U
    BY <1>2, <2>2 DEF CacheRead
  <2> QED
    BY <2>1, <2>2
<1>6. (IF CacheWrite(q) > q.input THEN writes * (CacheWrite(q) - q.input) ELSE 0)
        = IF CacheWrite(p) > p.input THEN writes * (CacheWrite(p) - p.input) ELSE 0
  <2>1. CASE "cacheWrite" \in U
    <3>1. writes = 0
      BY <1>3, <2>1
    <3>2. CacheWrite(q) \in Int /\ CacheWrite(p) \in Int /\ q.input \in Int /\ p.input \in Int
      BY <1>1, <1>2 DEF CacheWrite, Or
    <3>3. \A x, y \in Int : 0 * (x - y) = 0
      OBVIOUS
    <3> QED
      BY <3>1, <3>2, <3>3
  <2>2. CASE "cacheWrite" \notin U
    BY <1>2, <2>2 DEF CacheWrite
  <2> QED
    BY <2>1, <2>2
<1> PICK thought \in Nat : thought = Reasoning(p)
  BY <1>1 DEF Reasoning, Or
<1> PICK thought2 \in Nat : thought2 = Reasoning(q)
  BY <1>1, <1>2 DEF Reasoning, Or
<1>7. n * reasoning * thought2 = n * reasoning * thought
  <2>1. CASE "reasoning" \in U
    <3>1. reasoning * n = 0
      <4>1. reasoning * n \in Nat
        BY ONLY TRUE
      <4> QED
        BY <1>3, <2>1, <4>1
    <3>2. n * reasoning = 0
      BY <3>1
    <3> QED
      BY <3>2
  <2>2. CASE "reasoning" \notin U
    BY <1>2, <2>2 DEF Reasoning
  <2> QED
    BY <2>1, <2>2
<1> PICK price \in Nat : price = Or(p.image, 0)
  BY <1>1 DEF Or
<1> PICK price2 \in Nat : price2 = Or(q.image, 0)
  BY <1>1, <1>2 DEF Or
<1>8. n * images * price2 = n * images * price
  <2>1. CASE "image" \in U
    <3>1. images * n = 0
      <4>1. images * n \in Nat
        BY ONLY TRUE
      <4> QED
        BY <1>3, <2>1, <4>1
    <3>2. n * images = 0
      BY <3>1
    <3> QED
      BY <3>2
  <2>2. CASE "image" \notin U
    BY <1>2, <2>2
  <2> QED
    BY <2>1, <2>2
<1>9. \A r : Formula(w, s, r, point) =
        LET fees == (tin - cached) * r.input + cached * CacheRead(r)
                        + (IF CacheWrite(r) > r.input
                             THEN writes * (CacheWrite(r) - r.input) ELSE 0)
                        + n * w.output[point] * r.output
                        + n * reasoning * Reasoning(r)
        IN  (fees * Multiplier(w)) \div Whole
              + (IF w.kind = "continuous_stream" THEN 0 ELSE n * r.fixed)
              + n * images * Or(r.image, 0)
  BY FormulaOpened DEF tin, cached, writes
<1> QED
  BY <1>2, <1>5, <1>6, <1>7, <1>8, <1>9

(* The prices of a model that are neither published nor listed. *)
Unlisted(m, listed) ==
  {field \in DOMAIN Pricing[m] \ {"guessed"} :
     Pricing[m][field] = None /\ <<m, field>> \notin listed}
    \cup IF Pricing[m].guessed /\ <<m, "provider">> \notin listed
           THEN {"input", "output"} ELSE {}

Changed(m, listed, any) ==
  [field \in DOMAIN Pricing[m] |->
     IF field \in Unlisted(m, listed) THEN any ELSE Pricing[m][field]]

LEMMA UnlistedIsUnused ==
  ASSUME NEW w, NEW s, NEW m \in DOMAIN Pricing, NEW listed,
         \A field \in Fallbacks(w, s, Pricing[m]) : <<m, field>> \in listed
  PROVE  \A field \in Unlisted(m, listed) :
           /\ field \in {"cacheRead", "cacheWrite", "reasoning", "image", "audio"}
           /\ ~(Volume(w, s)[field].typical > 0)
<1> PICK p : p = Pricing[m]
  OBVIOUS
<1>1. /\ DOMAIN p = { "input", "output", "fixed", "reasoning", "cacheRead", "cacheWrite",
                      "image", "audio", "guessed" }
      /\ p.input # None /\ p.output # None /\ p.fixed # None
  BY DEF ValidPricing
<1>2. ~(p.guessed /\ <<m, "provider">> \notin listed)
  BY DEF Fallbacks
<1>3. DOMAIN Volume(w, s) = {"cacheRead", "cacheWrite", "reasoning", "image", "audio"}
  BY DEF Volume
<1> SUFFICES ASSUME NEW field \in Unlisted(m, listed)
             PROVE  /\ field \in {"cacheRead", "cacheWrite", "reasoning", "image", "audio"}
                    /\ ~(Volume(w, s)[field].typical > 0)
  OBVIOUS
<1>4. /\ field \in DOMAIN p \ {"guessed"} /\ p[field] = None /\ <<m, field>> \notin listed
  BY <1>2 DEF Unlisted
<1>5. field \in {"cacheRead", "cacheWrite", "reasoning", "image", "audio"}
  BY <1>1, <1>4
<1>6. field \notin Fallbacks(w, s, p)
  BY <1>4
<1>7. ~(Volume(w, s)[field].typical > 0)
  BY <1>3, <1>4, <1>5, <1>6 DEF Fallbacks
<1> QED
  BY <1>5, <1>7

(* The typical total rests on no default and no guess of the provider but  *)
(* those that estimated_fields lists: it is the formula's whatever else    *)
(* the unpublished prices are (_pricing_fallbacks, estimate_workload).     *)
THEOREM TypicalTotalsRestOnTheListed == Spec => []TypicalRestsOnListed
<1>1. IInv /\ FormulaInv => TypicalRestsOnListed
  <2> SUFFICES ASSUME IInv, FormulaInv, NEW b \in Done, NEW any \in {0, 1000}
               PROVE  b.total.typical =
                        SumFunction([i \in DOMAIN b.targets |->
                          (Formula(b.of, schedule,
                                   Changed(b.targets[i].model, b.estimated, any), "typical")
                            * b.targets[i].weight) \div Whole])
    BY DEF TypicalRestsOnListed, Changed, Unlisted
  <2>1. /\ DOMAIN b.targets = 1..Len(b.targets)
        /\ KnownTargets(b.targets, Len(b.targets))
        /\ FollowsFormula(b.of, schedule, b.targets, Len(b.targets), b.total)
        /\ Lists(b.of, schedule, b.targets, Len(b.targets), b.estimated)
    BY DoneIsPriced DEF WellPriced, CostsOf
  <2>2. ASSUME NEW i \in DOMAIN b.targets
        PROVE  Formula(b.of, schedule, Changed(b.targets[i].model, b.estimated, any), "typical")
                 = Formula(b.of, schedule, Pricing[b.targets[i].model], "typical")
    <3> PICK m \in DOMAIN Pricing : m = b.targets[i].model
      BY <2>1 DEF KnownTargets
    <3> PICK w : w = b.of
      OBVIOUS
    <3> PICK s : s = schedule
      OBVIOUS
    <3> PICK p : p = Pricing[m]
      OBVIOUS
    <3> PICK U : U = Unlisted(m, b.estimated)
      OBVIOUS
    <3> PICK q : q = Changed(m, b.estimated, any)
      OBVIOUS
    <3>1. \A field \in U :
            /\ field \in {"cacheRead", "cacheWrite", "reasoning", "image", "audio"}
            /\ ~(Volume(w, s)[field].typical > 0)
      <4> PICK listed : listed = b.estimated
        OBVIOUS
      <4>1. \A field \in Fallbacks(w, s, Pricing[m]) : <<m, field>> \in listed
        BY <2>1 DEF Lists
      <4>2. \A field \in Unlisted(m, listed) :
              /\ field \in {"cacheRead", "cacheWrite", "reasoning", "image", "audio"}
              /\ ~(Volume(w, s)[field].typical > 0)
        BY ONLY m \in DOMAIN Pricing, <4>1, UnlistedIsUnused
      <4> QED
        BY <4>2
    <3>2. GoodWorkload(w) /\ Exact(w) /\ GoodSchedule(s) /\ ValidPricing(p) /\ any \in Nat
      BY DoneIsPriced
    <3>3. q = [field \in DOMAIN p |-> IF field \in U THEN any ELSE p[field]]
      BY DEF Changed
    <3>4. Formula(w, s, q, "typical") = Formula(w, s, p, "typical")
      BY ONLY <3>1, <3>2, <3>3, UnusedPrices
    <3> QED
      BY <3>4
  <2>3. "typical" \in Points
    BY DEF Points
  <2>4. b.total["typical"] = SumFunction(Shares(b.of, schedule, b.targets, "typical"))
    BY <2>1, <2>3 DEF FollowsFormula, Shares, SumFunction
  <2>5. Shares(b.of, schedule, b.targets, "typical") =
          [i \in DOMAIN b.targets |->
             (Formula(b.of, schedule, Changed(b.targets[i].model, b.estimated, any), "typical")
               * b.targets[i].weight) \div Whole]
    BY <2>2 DEF Shares
  <2> QED
    BY <2>4, <2>5
<1> QED
  BY <1>1, IInvHolds, FormulaInvHolds, PTL

-----------------------------------------------------------------------------
(***************************************************************************)
(* The sum of bands is the band of the sums.                               *)
(***************************************************************************)
AddingBands(f, S) == [p \in S \X NonNegative |-> Plus(f[p[1]], p[2])]

LEMMA BandSumIsFold ==
  ASSUME NEW S, IsFiniteSet(S), NEW f \in [S -> NonNegative]
  PROVE  \E g : /\ IsFold(g, S, NonNegative, AddingBands(f, S), Scalar(0))
                /\ FoldFunction(Plus, Scalar(0), f) = g[S]
<1> PICK zero \in NonNegative : zero = Scalar(0)
  BY ScalarIsBand
<1> PICK F : F = AddingBands(f, S)
  OBVIOUS
<1>1. F \in [S \X NonNegative -> NonNegative]
  BY PlusIsBand DEF AddingBands
<1>2. PICK h : IsFold(h, S, NonNegative, F, zero)
  BY <1>1, FoldExists
<1> DEFINE Folded(g) == [s \in SUBSET S |-> IF s = {} THEN zero
                                            ELSE Plus(f[Pick(s)], g[s \ {Pick(s)}])]
<1>3. \A s \in SUBSET S : s # {} => Pick(s) \in s
  BY DEF Pick
<1>4. h = Folded(h)
  <2>1. h \in [SUBSET S -> NonNegative] /\ h[{}] = zero
    BY <1>2 DEF IsFold
  <2>2. ASSUME NEW s \in SUBSET S
        PROVE  h[s] = IF s = {} THEN zero ELSE Plus(f[Pick(s)], h[s \ {Pick(s)}])
    <3>1. CASE s = {}
      BY <2>1, <3>1
    <3>2. CASE s # {}
      <4> PICK x \in S : x = Pick(s)
        BY <1>3, <3>2
      <4>1. h[s] = F[<<x, h[s \ {x}]>>]
        BY <1>2, <3>2 DEF IsFold
      <4>2. h[s \ {x}] \in NonNegative
        BY <2>1
      <4>3. F[<<x, h[s \ {x}]>>] = Plus(f[x], h[s \ {x}])
        BY <4>2 DEF AddingBands
      <4> QED
        BY <3>2, <4>1, <4>3
    <3> QED
      BY <3>1, <3>2
  <2> QED
    BY <2>1, <2>2
<1> DEFINE g == CHOOSE i : i = Folded(i)
<1>5. g = Folded(g)
  BY <1>4
<1>6. FoldFunction(Plus, Scalar(0), f) = g[S]
  BY DEF FoldFunction, FoldFunctionOnSet, MapThenFoldSet, Pick
<1> PICK k : k = g
  OBVIOUS
<1>7. k = Folded(k)
  BY <1>5
<1> HIDE DEF g
<1> PICK V : V = NonNegative \cup {k[s] : s \in SUBSET S}
  OBVIOUS
<1> PICK G : G = [p \in S \X V |-> Plus(f[p[1]], p[2])]
  OBVIOUS
<1>8. IsFold(k, S, V, G, zero)
  <2>1. k \in [SUBSET S -> V] /\ k[{}] = zero
    BY <1>7
  <2>2. ASSUME NEW s \in SUBSET S, s # {}
        PROVE  k[s] = G[<<Pick(s), k[s \ {Pick(s)}]>>]
    <3> PICK x \in S : x = Pick(s)
      BY <1>3, <2>2
    <3>1. k[s] = Plus(f[x], k[s \ {x}])
      BY <1>7, <2>2
    <3>2. k[s \ {x}] \in V
      BY <2>1
    <3> QED
      BY <3>1, <3>2
  <2> QED
    BY <2>1, <2>2 DEF IsFold
<1>9. \A x \in S, y \in NonNegative : F[<<x, y>>] = G[<<x, y>>]
  BY DEF AddingBands
<1>10. h[S] = k[S]
  <2>1. S \subseteq S
    OBVIOUS
  <2> QED
    BY ONLY <1>2, <1>8, <1>9, <2>1, IsFiniteSet(S), FoldsAgree
<1> QED
  BY <1>2, <1>6, <1>10

LEMMA BandsAddUp ==
  ASSUME NEW S, IsFiniteSet(S), NEW f \in [S -> NonNegative], NEW point \in Points,
         NEW h, h = [i \in S |-> f[i][point]]
  PROVE  FoldFunction(Plus, Scalar(0), f)[point] = SumFunction(h)
<1>1. PICK g : /\ IsFold(g, S, NonNegative, AddingBands(f, S), Scalar(0))
               /\ FoldFunction(Plus, Scalar(0), f) = g[S]
  BY BandSumIsFold
<1>2. \A x \in S : h[x] \in Int
  BY BandFields
<1>3. PICK k : IsFold(k, S, Int, Adding(h, S), 0) /\ SumFunctionOnSet(h, S) = k[S]
  BY <1>2, SumIsFold
<1> PICK p : p = [s \in SUBSET S |-> g[s][point]]
  OBVIOUS
<1>4. IsFold(p, S, Int, Adding(h, S), 0)
  <2>1. g \in [SUBSET S -> NonNegative] /\ g[{}] = Scalar(0)
    BY <1>1 DEF IsFold
  <2>2. p \in [SUBSET S -> Int] /\ p[{}] = 0
    BY <2>1, ScalarIsBand, BandFields
  <2>3. ASSUME NEW s \in SUBSET S, s # {}
        PROVE  p[s] = Adding(h, S)[<<Pick(s), p[s \ {Pick(s)}]>>]
    <3> PICK x \in S : x = Pick(s)
      BY <2>3 DEF Pick
    <3> PICK rest \in SUBSET S : rest = s \ {x}
      OBVIOUS
    <3>1. g[s] = AddingBands(f, S)[<<x, g[rest]>>]
      BY <1>1, <2>3 DEF IsFold
    <3>2. g[rest] \in NonNegative /\ f[x] \in NonNegative
      BY <2>1
    <3>3. g[s] = Plus(f[x], g[rest])
      BY <3>1, <3>2 DEF AddingBands
    <3>4. g[s][point] = f[x][point] + g[rest][point]
      BY <3>2, <3>3, ArithmeticIsPointwise, BandFields
    <3>5. p[s] = h[x] + p[rest] /\ p[rest] \in Int
      BY <2>2, <3>4
    <3> QED
      BY <3>5 DEF Adding
  <2> QED
    BY <2>2, <2>3 DEF IsFold
<1>5. p[S] = k[S]
  <2>1. S \subseteq S /\ \A x \in S, y \in Int : Adding(h, S)[<<x, y>>] = Adding(h, S)[<<x, y>>]
    OBVIOUS
  <2> QED
    BY ONLY <1>3, <1>4, <2>1, IsFiniteSet(S), FoldsAgree
<1> QED
  BY <1>1, <1>3, <1>5 DEF SumFunction

(* The engine works at the jobs one after the other, each at its own. *)
IsFor(b, job) == b.of = job.workload /\ b.targets = TargetsOf(job)

WorkInv ==
  /\ ~Idle =>
       /\ \A i \in 1..Len(breakdowns) : IsFor(breakdowns[i], jobs[i])
       /\ component # None =>
            /\ component = jobs[Len(breakdowns) + 1].workload
            /\ targets = TargetsOf(jobs[Len(breakdowns) + 1])
  /\ PipelineAddsUp

(* While a request is worked at, nothing is answered.                      *)
LEMMA NotAnswered ==
  ASSUME IInv, ~Idle, WorkInv, answer' = answer
  PROVE  PipelineAddsUp'
  BY Working DEF PipelineAddsUp, Answered

LEMMA ErrorsAddNothing ==
  ASSUME NEW status \in {404, 422, 500}, NEW what, NEW model, answer' = Error(status, what, model)
  PROVE  PipelineAddsUp'
<1> PICK a : a = Error(status, what, model)
  OBVIOUS
<1>1. Outcome(a) # "result"
  BY DEF Error, Outcome
<1> QED
  BY <1>1 DEF PipelineAddsUp

LEMMA ReceiveWorks ==
  ASSUME IInv, WorkInv, NEW b \in Bodies, Receive(b)
  PROVE  WorkInv'
<1>1. component' = None /\ breakdowns' = <<>>
  BY DEF IInv, RequestInv, Receive, Refuse, Accept
<1>2. PipelineAddsUp'
  <2>1. \/ answer' = None \/ answer' = Error(422, "detail", None)
        \/ answer' = Error(422, "unknown_schedule_preset", None)
        \/ answer' = Error(500, "internal", None)
    BY DEF Receive, Refuse, Accept, NoCatalog
  <2>2. CASE answer' = None
    BY <2>2 DEF PipelineAddsUp, Answered
  <2> QED
    BY <2>1, <2>2, ErrorsAddNothing
<1> QED
  BY <1>1, <1>2 DEF WorkInv

LEMMA NextJobWorks ==
  ASSUME IInv, WorkInv, NextJob
  PROVE  WorkInv'
<1>1. /\ ~Idle /\ component' = jobs[Len(breakdowns) + 1].workload
      /\ targets' = TargetsOf(jobs[Len(breakdowns) + 1])
      /\ breakdowns' = breakdowns /\ body' = body /\ jobs' = jobs /\ answer' = answer
  BY DEF NextJob, Begin, TargetsOf
<1>2. PipelineAddsUp'
  BY <1>1, NotAnswered
<1> QED
  BY <1>1, <1>2 DEF WorkInv, Idle

LEMMA NotFoundWorks ==
  ASSUME IInv, WorkInv, NotFound
  PROVE  WorkInv'
<1>1. component' = None /\ breakdowns' = <<>>
  BY DEF NotFound, UnknownModel, NoComponent
<1>2. PipelineAddsUp'
  <2> PICK model : model = Target.model
    OBVIOUS
  <2>1. answer' = Error(404, "model_not_found", model)
    BY DEF NotFound
  <2>2. 404 \in {404, 422, 500}
    OBVIOUS
  <2> QED
    BY ONLY <2>1, <2>2, ErrorsAddNothing
<1> QED
  BY <1>1, <1>2 DEF WorkInv

LEMMA PriceTargetWorks ==
  ASSUME IInv, WorkInv, PriceTarget, UNCHANGED <<body, jobs, answer>>
  PROVE  WorkInv'
<1>1. ~Idle
  BY Working DEF PriceTarget
<1>2. PipelineAddsUp'
  BY <1>1, NotAnswered
<1> QED
  BY <1>1, <1>2 DEF WorkInv, PriceTarget, Idle

LEMMA EndComponentWorks ==
  ASSUME IInv, WorkInv, EndComponent, UNCHANGED <<body, jobs, answer>>
  PROVE  WorkInv'
<1> PICK n \in Nat : n = Len(breakdowns)
  BY DEF IInv, DoneInv
<1>1. ~Idle /\ component # None /\ component' = None
  BY Working DEF EndComponent, NoComponent
<1>2. PipelineAddsUp'
  BY <1>1, NotAnswered
<1> PICK b : breakdowns' = Append(breakdowns, b) /\ b.of = component /\ b.targets = targets
  BY DEF EndComponent
<1>3. /\ Len(breakdowns') = n + 1 /\ breakdowns'[n + 1] = b
      /\ \A i \in 1..n : breakdowns'[i] = breakdowns[i]
  BY DEF IInv, DoneInv
<1>4. ASSUME NEW i \in 1..n + 1
      PROVE  IsFor(breakdowns'[i], jobs[i])
  BY <1>1, <1>3 DEF WorkInv, IsFor
<1> QED
  BY <1>1, <1>2, <1>3, <1>4 DEF WorkInv

LEMMA FinishWorks ==
  ASSUME IInv, WorkInv, Finish
  PROVE  WorkInv'
<1> PICK n \in Nat : n = Len(breakdowns)
  BY DEF IInv, DoneInv
<1> PICK reply : reply = Reply
  OBVIOUS
<1>1. /\ ~Idle /\ component = None /\ n = Len(jobs) /\ answer' = reply
      /\ breakdowns' = breakdowns /\ component' = component /\ body' = body /\ jobs' = jobs
  BY DEF Finish, engineVars
<1>2. /\ reply.results = breakdowns
      /\ body.endpoint = "pipeline" => reply.total = PipelineTotal
  BY DEF Reply
<1>3. ASSUME body.endpoint = "pipeline"
      PROVE  /\ [i \in DOMAIN breakdowns |-> breakdowns[i].of] = body.workloads
             /\ [i \in DOMAIN breakdowns |-> breakdowns[i].targets]
                  = [i \in DOMAIN body.workloads |-> OwnTargets(body.workloads[i])]
             /\ \A point \in Points :
                  PipelineTotal[point] =
                    SumFunction([i \in DOMAIN body.workloads |-> breakdowns[i].total[point]])
  <2>1. /\ body \in Bodies /\ ValidBody(body) /\ jobs = JobsOf(body)
    BY <1>1 DEF IInv, RequestInv
  <2>2. body.models = None /\ body.workloads \in Seq(Workload)
    BY <1>3, <2>1, BodyAssumption DEF BodyType
  <2> PICK k \in Nat : k = Len(body.workloads)
    BY <2>2
  <2>3. jobs = [i \in 1..k |-> [workload |-> Inputs(body)[i], override |-> None]]
    BY <2>1, <2>2 DEF JobsOf
  <2>4. k = n
    <3>1. jobs \in [1..k -> {jobs[i] : i \in 1..k}]
      BY <2>3
    <3> QED
      BY <1>1, <3>1, MapIsSequence
  <2>5. \A i \in 1..n : jobs[i].workload = body.workloads[i] /\ jobs[i].override = None
    <3>1. \A i \in 1..k : Inputs(body)[i] = body.workloads[i]
      BY <2>1, <2>2, InputsAreGood
    <3> QED
      BY <2>3, <2>4, <3>1
  <2>6. DOMAIN breakdowns = 1..n /\ DOMAIN body.workloads = 1..n
    <3>1. DOMAIN body.workloads = 1..k
      BY ONLY <2>2, k = Len(body.workloads)
    <3>2. breakdowns \in Seq(Breakdown)
      BY DEF IInv, DoneInv
    <3>3. DOMAIN breakdowns = 1..n
      BY ONLY <3>2, n = Len(breakdowns)
    <3> QED
      BY <2>4, <3>1, <3>3
  <2>7. \A i \in 1..n : /\ breakdowns[i].of = body.workloads[i]
                        /\ breakdowns[i].targets = OwnTargets(body.workloads[i])
    BY <1>1, <2>5 DEF WorkInv, IsFor, TargetsOf, OwnTargets
  <2>8. [i \in DOMAIN breakdowns |-> breakdowns[i].of] = body.workloads
    BY <2>2, <2>6, <2>7
  <2>9. [i \in DOMAIN breakdowns |-> breakdowns[i].targets]
           = [i \in DOMAIN body.workloads |-> OwnTargets(body.workloads[i])]
    BY <2>6, <2>7
  <2>10. ASSUME NEW point \in Points
        PROVE  PipelineTotal[point] =
                 SumFunction([i \in DOMAIN body.workloads |-> breakdowns[i].total[point]])
    <3> PICK S : S = 1..n
      OBVIOUS
    <3> PICK f : f = [i \in S |-> breakdowns[i].total]
      OBVIOUS
    <3> PICK h : h = [i \in S |-> f[i][point]]
      OBVIOUS
    <3>1. f \in [S -> NonNegative]
      <4>1. \A i \in 1..n : breakdowns[i] \in Breakdown
        BY DEF IInv, DoneInv
      <4> QED
        BY <4>1 DEF Breakdown
    <3>2. IsFiniteSet(S)
      BY FS_Interval
    <3>3. FoldFunction(Plus, Scalar(0), f)[point] = SumFunction(h)
      BY ONLY <3>1, <3>2, point \in Points, h = [i \in S |-> f[i][point]], BandsAddUp
    <3>4. PipelineTotal = FoldFunction(Plus, Scalar(0), f)
      BY <2>6 DEF PipelineTotal
    <3>5. h = [i \in DOMAIN body.workloads |-> breakdowns[i].total[point]]
      BY <2>6
    <3> QED
      BY <3>3, <3>4, <3>5
  <2> QED
    BY <2>8, <2>9, <2>10
<1>4. PipelineAddsUp'
  <2> PICK b : b = body
    OBVIOUS
  <2> PICK r : r = breakdowns
    OBVIOUS
  <2> PICK total : total = PipelineTotal
    OBVIOUS
  <2>1. body' = b /\ answer' = reply /\ reply.results = r
    BY <1>1, <1>2
  <2>2. b.endpoint = "pipeline" => reply.total = total
    BY <1>2
  <2>3. b.endpoint = "pipeline" =>
          /\ [i \in DOMAIN r |-> r[i].of] = b.workloads
          /\ [i \in DOMAIN r |-> r[i].targets]
               = [i \in DOMAIN b.workloads |-> OwnTargets(b.workloads[i])]
          /\ \A point \in Points :
               total[point] = SumFunction([i \in DOMAIN b.workloads |-> r[i].total[point]])
    BY <1>3
  <2> QED
    BY ONLY <2>1, <2>2, <2>3 DEF PipelineAddsUp
<1>5. \A i \in 1..Len(breakdowns) : IsFor(breakdowns[i], jobs[i])
  BY <1>1 DEF WorkInv
<1> QED
  BY <1>1, <1>4, <1>5 DEF WorkInv

LEMMA WorkInvHolds == Spec => []WorkInv
<1>1. Init => WorkInv
  BY DEF Init, EngineInit, WorkInv, Idle, PipelineAddsUp, Answered
<1>2. IInv /\ WorkInv /\ [Next]_vars => WorkInv'
  <2> SUFFICES ASSUME IInv, WorkInv, [Next]_vars PROVE WorkInv'
    OBVIOUS
  <2>1. ASSUME NEW b \in Bodies, Receive(b) PROVE WorkInv'
    BY <2>1, ReceiveWorks
  <2>2. CASE NextJob
    BY <2>2, NextJobWorks
  <2>3. CASE NotFound
    BY <2>3, NotFoundWorks
  <2>4. CASE Finish
    BY <2>4, FinishWorks
  <2>5. CASE PriceTarget /\ UNCHANGED <<body, jobs, answer>>
    BY <2>5, PriceTargetWorks
  <2>6. CASE EndComponent /\ UNCHANGED <<body, jobs, answer>>
    BY <2>6, EndComponentWorks
  <2>7. CASE UNCHANGED vars
    BY <2>7 DEF vars, engineVars, WorkInv, Idle, PipelineAddsUp, Answered
  <2> QED
    BY <2>1, <2>2, <2>3, <2>4, <2>5, <2>6, <2>7 DEF Next
<1> QED
  BY <1>1, <1>2, IInvHolds, PTL DEF Spec

(* The answer for a pipeline has a breakdown per component, each of its    *)
(* own workload and priced at that workload's own model or mix, in the     *)
(* order of the request, and in each scenario its total is the sum of      *)
(* theirs (estimate_pipeline).                                             *)
THEOREM PipelinesAddUp == Spec => []PipelineAddsUp
<1>1. WorkInv => PipelineAddsUp
  BY DEF WorkInv
<1> QED
  BY <1>1, WorkInvHolds, PTL
=============================================================================
