----------------------------- MODULE CostEngine -----------------------------
(***************************************************************************)
(* The cost engine (cost/engine.py, cost/conversions.py) over the schemas  *)
(* it reads: the traffic of a workload component is converted to monthly   *)
(* totals under a schedule and priced at every model it is routed to; the  *)
(* weighted costs add up to a breakdown.  Estimates says which components  *)
(* a request has the engine work on.                                       *)
(*                                                                         *)
(* Ratios, weights and the multiplier are in parts of Whole.  The seven    *)
(* workload types have the same fields here: `rate` things happen per      *)
(* `period`, each made of `each` requests, each with its tokens and media. *)
(* Types without a field hold 0, or 1 for rate and each.  Token prices and *)
(* unit prices are in one unit, so the factor 1e-6 is gone.                *)
(***************************************************************************)
EXTENDS RangeNum, Sequences, FiniteSetsExt

CONSTANTS Pricing,  \* the catalog's prices: model -> price record
          Whole,    \* what 1.0 is, for ratios and weights
          None

Schedule == [hours : Num, days : Num, weeks : Int]
Workload ==
  [ kind : STRING, role : STRING, period : {"hour", "day", "week", "month"},
    rate : Num, each : Num, input : Num, output : Num, reasoning : Num, images : Num, audio : Num,
    cacheHit : Int, cacheWrite : Int, spawn : Int, overhead : Int,
    modelId : {None} \cup STRING, mix : {None} \cup Seq([model : STRING, weight : Int]) ]

ASSUME WholeAssumption == Whole \in Nat \ {0}
ASSUME NoneAssumption  == None \notin STRING /\ None \notin Int /\ None \notin Workload

VARIABLES
  schedule,    \* the schedule of the estimates
  component,   \* the workload being estimated, or None
  targets,     \* the models it is routed to, each with its weight
  priced,      \* how many of them are priced
  tokens,      \* the prompt tokens of the month, as the last of them had them
  combined,    \* the costs so far
  estimated,   \* the fallback prices they used
  breakdowns   \* the components estimated so far

engineVars == <<schedule, component, targets, priced, tokens, combined, estimated, breakdowns>>

Part(a, k) == Over(Times(a, Scalar(k)), Scalar(Whole))

Total(costs) ==
  Plus(costs.fresh, Plus(costs.cached, Plus(costs.write, Plus(costs.output,
    Plus(costs.reasoning, Plus(costs.fixed, costs.units))))))

(***************************************************************************)
(* What the validators let through: something happens at all, nothing is   *)
(* negative, and either one model or a mix is named, whose weights make a  *)
(* whole up to a thousandth.                                               *)
(***************************************************************************)
HasOneTarget(w) ==
  /\ (w.modelId = None) # (w.mix = None)
  /\ w.mix # None =>
       /\ w.mix # <<>>
       /\ \A i \in DOMAIN w.mix : w.mix[i].model # "" /\ w.mix[i].weight \in 1..Whole
       /\ 1000 * (SumFunction([i \in DOMAIN w.mix |-> w.mix[i].weight]) - Whole)
            \in -Whole..Whole

ValidFields(w) ==
  /\ \A n \in {w.rate, w.each} : n \in NonNegative /\ n.min > 0
  /\ {w.input, w.output, w.reasoning, w.images, w.audio} \subseteq NonNegative
  /\ w.cacheHit \in 0..Whole /\ w.cacheWrite >= 0
  /\ w.spawn \in 0..Whole /\ w.overhead >= Whole

Valid(w) == ValidFields(w) /\ HasOneTarget(w)

ValidSchedule(s) ==
  /\ s.hours \in Num /\ 0 < s.hours.min /\ s.hours.max <= 24
  /\ s.days \in Num /\ 0 < s.days.min /\ s.days.max <= 7
  /\ s.weeks > 0

(* Prices are nonnegative; those the provider does not publish are None.   *)
Optional == Nat \cup {None}
ValidPricing(p) ==
  p \in [ input : Nat, output : Nat, fixed : Nat, reasoning : Optional, cacheRead : Optional,
          cacheWrite : Optional, image : Optional, audio : {None}, guessed : BOOLEAN ]

ASSUME PricingAssumption == \A m \in DOMAIN Pricing : ValidPricing(Pricing[m])

(* Unit prices are in units so fine that weights leave no fraction.        *)
ASSUME UnitAssumption ==
  \A m \in DOMAIN Pricing :
    Pricing[m].fixed % Whole = 0 /\ (Pricing[m].image # None => Pricing[m].image % Whole = 0)

(***************************************************************************)
(* Monthly totals.                                                         *)
(***************************************************************************)
HoursPerMonth(s) == Times(Times(s.hours, s.days), Scalar(s.weeks))

PerMonth(period, s) ==
  CASE period = "hour"  -> HoursPerMonth(s)
    [] period = "day"   -> Times(s.days, Scalar(s.weeks))
    [] period = "week"  -> Scalar(s.weeks)
    [] period = "month" -> Scalar(1)

Totals(w, s) ==
  LET things == Times(w.rate, PerMonth(w.period, s))
      requests == Times(w.each, things)
  IN  [ input     |-> Times(w.input, requests),
        output    |-> Times(w.output, requests),
        reasoning |-> Times(w.reasoning, requests),
        images    |-> Times(w.images, requests),
        audio     |-> Times(w.audio, requests),
        requests  |-> IF w.kind = "continuous_stream" THEN Scalar(0) ELSE requests,
        actions   |-> CASE w.kind = "continuous_stream" -> None
                        [] w.kind = "build_action" -> things
                        [] OTHER -> requests ]

(* Subagents make tokens dearer: 1 + probability * (overhead - 1). *)
Multiplier(w) == Whole + (w.spawn * (w.overhead - Whole)) \div Whole

(***************************************************************************)
(* Prices, and the defaults for those the provider does not publish.       *)
(***************************************************************************)
Or(price, default) == IF price # None THEN price ELSE default
CacheRead(p)  == Or(p.cacheRead, p.input \div 10)
CacheWrite(p) == Or(p.cacheWrite, p.input)
Reasoning(p)  == Or(p.reasoning, p.output)

WritePremium_Unclamped(p) == CacheWrite(p) - p.input

(* Writing costs only what it costs over fresh input, and never less. *)
WritePremium(p) == Most(CacheWrite(p) - p.input, 0)

Split(w, t) ==
  LET fresh == Part(t.input, Whole - w.cacheHit)
  IN  [fresh |-> fresh, cached |-> Part(t.input, w.cacheHit),
       writes |-> Part(fresh, w.cacheWrite)]

Costs(w, s, p) ==
  LET t == Totals(w, s)
      Tokens(n, price) == Part(Times(n, Scalar(price)), Multiplier(w))
  IN  [ fresh     |-> Tokens(Split(w, t).fresh, p.input),
        cached    |-> Tokens(Split(w, t).cached, CacheRead(p)),
        write     |-> Tokens(Split(w, t).writes, WritePremium(p)),
        output    |-> Tokens(t.output, p.output),
        reasoning |-> Tokens(t.reasoning, Reasoning(p)),
        fixed     |-> Times(t.requests, Scalar(p.fixed)),
        units     |-> IF t.images.typical > 0 /\ p.image # None
                        THEN Times(t.images, Scalar(p.image)) ELSE Scalar(0) ]

(* The volume each price applies to, for the prices that may be missing.   *)
(* There is no price of audio at all.                                      *)
Volume(w, s) ==
  LET t == Totals(w, s)
  IN  [cacheRead |-> Split(w, t).cached, cacheWrite |-> Split(w, t).writes,
       reasoning |-> t.reasoning, image |-> t.images, audio |-> t.audio]

Fallbacks_PremiumsForgotten(w, s, p) ==
  {field \in {"cacheRead", "reasoning", "image", "audio"} :
     Volume(w, s)[field].typical > 0 /\ p[field] = None}
    \cup {field \in {"provider"} : p.guessed}

(* The prices that defaults stand for, and the provider's own guesses. *)
Fallbacks(w, s, p) ==
  {field \in DOMAIN Volume(w, s) : Volume(w, s)[field].typical > 0 /\ p[field] = None}
    \cup {field \in {"provider"} : p.guessed}

NoCosts == [field \in {"fresh", "cached", "write", "output", "reasoning", "fixed", "units"}
              |-> Scalar(0)]

NoTokens == [part \in {"fresh", "cached", "writes"} |-> Scalar(0)]

Scaled_WeightIgnored(costs, weight) == costs

Scaled(costs, weight) == [field \in DOMAIN costs |-> Part(costs[field], weight)]
Added(a, b) == [field \in DOMAIN a |-> Plus(a[field], b[field])]

PerAction(total, actions) ==
  IF actions = None THEN None
  ELSE IF actions.typical > 0 THEN Over(total, actions) ELSE None

-----------------------------------------------------------------------------
EngineInit ==
  /\ schedule = None /\ breakdowns = <<>>
  /\ component = None /\ targets = <<>> /\ priced = 0
  /\ tokens = NoTokens /\ combined = NoCosts /\ estimated = {}

NoComponent ==
  /\ component' = None /\ targets' = <<>> /\ priced' = 0
  /\ tokens' = NoTokens /\ combined' = NoCosts /\ estimated' = {}

Only(m) == <<[model |-> m, weight |-> Whole]>>

(* The next component, with its own targets or the model to take instead,  *)
(* which wins even if it is the empty string.                              *)
Begin(w, override) ==
  /\ component = None
  /\ component' = w
  /\ targets' = IF override # None THEN Only(override)
                ELSE IF w.modelId # None THEN Only(w.modelId) ELSE w.mix
  /\ UNCHANGED <<schedule, priced, tokens, combined, estimated, breakdowns>>

Target == targets[priced + 1]
Known  == Target.model \in DOMAIN Pricing

Counted == Split(component, Totals(component, schedule))

PriceTarget_Replaces ==
  /\ priced < Len(targets) /\ Known
  /\ LET p == Pricing[Target.model] IN
       /\ combined' = Scaled(Costs(component, schedule, p), Target.weight)
       /\ estimated' = estimated \cup
            {<<Target.model, field>> : field \in Fallbacks(component, schedule, p)}
  /\ tokens' = Counted /\ priced' = priced + 1
  /\ UNCHANGED <<schedule, component, targets, breakdowns>>

PriceTarget_TokensShared ==
  /\ priced < Len(targets) /\ Known
  /\ LET p == Pricing[Target.model] IN
       /\ combined' = Added(combined, Scaled(Costs(component, schedule, p), Target.weight))
       /\ estimated' = estimated \cup
            {<<Target.model, field>> : field \in Fallbacks(component, schedule, p)}
  /\ tokens' = Scaled(Counted, Target.weight) /\ priced' = priced + 1
  /\ UNCHANGED <<schedule, component, targets, breakdowns>>

(* Costs add up over the targets; the tokens of one replace the last one's. *)
PriceTarget ==
  /\ priced < Len(targets) /\ Known
  /\ LET p == Pricing[Target.model] IN
       /\ combined' = Added(combined, Scaled(Costs(component, schedule, p), Target.weight))
       /\ estimated' = estimated \cup
            {<<Target.model, field>> : field \in Fallbacks(component, schedule, p)}
  /\ tokens' = Counted /\ priced' = priced + 1
  /\ UNCHANGED <<schedule, component, targets, breakdowns>>

(* One unknown model fails the whole, and what was estimated is lost. *)
UnknownModel ==
  /\ priced < Len(targets) /\ ~Known
  /\ breakdowns' = <<>>
  /\ NoComponent
  /\ UNCHANGED schedule

EndComponent ==
  /\ component # None /\ priced = Len(targets)
  /\ breakdowns' = Append(breakdowns,
       [ of        |-> component,
         targets   |-> targets,
         fresh     |-> tokens.fresh,
         cached    |-> tokens.cached,
         costs     |-> combined,
         total     |-> Total(combined),
         perAction |-> PerAction(Total(combined), Totals(component, schedule).actions),
         estimated |-> estimated ])
  /\ NoComponent
  /\ UNCHANGED schedule

-----------------------------------------------------------------------------
(***************************************************************************)
(* Properties.  Done are the breakdowns the request has so far.            *)
(***************************************************************************)
Done == {breakdowns[i] : i \in DOMAIN breakdowns}

(* Types: every cost is a nonnegative band, whatever discounts the         *)
(* provider gives on cache writes.                                         *)
TypeOK ==
  /\ priced \in 0..Len(targets)
  /\ \A field \in DOMAIN combined : combined[field] \in NonNegative
  /\ \A b \in Done : b.total \in NonNegative /\ b.perAction \in NonNegative \cup {None}

(* The formula of the engine's documentation, for one of the three         *)
(* scenarios of a request: all its Ranges at their min, typical or max.    *)
Formula(w, s, p, point) ==
  LET hours == s.hours[point] * s.days[point] * s.weeks
      times == CASE w.period = "hour"  -> hours
                 [] w.period = "day"   -> s.days[point] * s.weeks
                 [] w.period = "week"  -> s.weeks
                 [] w.period = "month" -> 1
      n      == w.each[point] * w.rate[point] * times
      tin    == n * w.input[point]
      cached == (tin * w.cacheHit) \div Whole
      writes == ((tin - cached) * w.cacheWrite) \div Whole
      fees   == (tin - cached) * p.input + cached * CacheRead(p)
                  + (IF CacheWrite(p) > p.input
                       THEN writes * (CacheWrite(p) - p.input) ELSE 0)
                  + n * w.output[point] * p.output + n * w.reasoning[point] * Reasoning(p)
  IN  (fees * Multiplier(w)) \div Whole
        + (IF w.kind = "continuous_stream" THEN 0 ELSE n * p.fixed)
        + n * w.images[point] * Or(p.image, 0)

(* A media volume that is 0 typically but not at most is not priced: see   *)
(* RangesPropagate.                                                        *)
PricedInFull(w) == w.images.typical > 0 \/ w.images.max = 0

(* A Range in the request comes out as the band of its three scenarios:    *)
(* the min, typical and max of each total are what the formula gives when  *)
(* every Range of the request stands at its min, typical or max; for a     *)
(* mix, weighted; and with nothing left over from other components.        *)
BandsFollowFormula ==
  \A b \in Done : PricedInFull(b.of) =>
    \A point \in Points :
      b.total[point] =
        SumFunction([i \in DOMAIN b.targets |->
          (Formula(b.of, schedule, Pricing[b.targets[i].model], point) * b.targets[i].weight)
            \div Whole])

(* The fresh and the cached tokens reported are all the prompt tokens of   *)
(* the workload, in every scenario: those of the last target stand for     *)
(* all, whatever its weight, and none are left of another component.       *)
TokensConserved ==
  \A b \in Done : \A point \in Points :
    b.fresh[point] + b.cached[point] = Totals(b.of, schedule).input[point]

(* The cost per action, times the actions, is the total, in each scenario: *)
(* sorting the quotients never moves one to another scenario, although the *)
(* total and the actions are both uncertain; and nothing divides by 0.     *)
PerActionRecoversTotal ==
  \A b \in Done : b.perAction # None =>
    \A point \in Points :
      b.perAction[point] * Totals(b.of, schedule).actions[point] = b.total[point]

(* A mix costs no less than the cheapest and no more than the dearest of   *)
(* its models would, for as much as its weights add up to.                 *)
MixIsBetween ==
  \A b \in Done : \A point \in Points :
    LET alone == {Total(Costs(b.of, schedule, Pricing[b.targets[i].model]))[point] :
                    i \in DOMAIN b.targets}
        weights == SumFunction([i \in DOMAIN b.targets |-> b.targets[i].weight])
    IN  /\ \E cost \in alone : cost * weights <= b.total[point] * Whole
        /\ \E cost \in alone : cost * weights >= b.total[point] * Whole

(* The typical total rests on no default and no guess of the provider but  *)
(* the listed ones: a price that is neither published nor in               *)
(* estimated_fields may be anything.  In the max scenario it may not: the  *)
(* code lists a fallback when its typical volume is positive.              *)
TypicalRestsOnListed ==
  \A b \in Done, any \in {0, 1000} :
    LET Unknown(m) ==
          {field \in DOMAIN Pricing[m] \ {"guessed"} :
             Pricing[m][field] = None /\ <<m, field>> \notin b.estimated}
            \cup IF Pricing[m].guessed /\ <<m, "provider">> \notin b.estimated
                   THEN {"input", "output"} ELSE {}
        Priced(m) == [field \in DOMAIN Pricing[m] |->
                        IF field \in Unknown(m) THEN any ELSE Pricing[m][field]]
    IN  b.total.typical =
          SumFunction([i \in DOMAIN b.targets |->
            (Formula(b.of, schedule, Priced(b.targets[i].model), "typical")
              * b.targets[i].weight) \div Whole])

(* What the engine says of its arithmetic: any Range input yields Range    *)
(* outputs.  Media with a typical volume of 0 are dropped instead.         *)
RangesPropagate ==
  \A b \in Done :
    (\E n \in {b.of.input, b.of.output, b.of.reasoning, b.of.images, b.of.rate, b.of.each} :
        n.range)
      => b.total.range
=============================================================================
