---------------------------- MODULE MCEstimates ----------------------------
(* Instances of Estimates for TLC: Whole is 2, so ratios, weights and the *)
(* multiplier come in halves, and token counts are multiples of 16, so     *)
(* that every division of the engine is exact.                             *)
EXTENDS Estimates, TLC

R(x, y, z) == [range |-> TRUE, min |-> x, typical |-> y, max |-> z]
S(x) == Scalar(x)

Preset == [hours |-> S(4), days |-> S(6), weeks |-> 2]
Varied == [hours |-> R(1, 2, 4), days |-> R(1, 1, 2), weeks |-> 2]
SomePresets == "light" :> Preset

(* b publishes little, and discounts cache writes where it publishes them. *)
SomePricing ==
  "a" :> [input |-> 10, output |-> 30, reasoning |-> 40, cacheRead |-> 2, cacheWrite |-> 15,
          fixed |-> 16, image |-> 16, audio |-> None, guessed |-> FALSE] @@
  "b" :> [input |-> 20, output |-> 0, reasoning |-> None, cacheRead |-> None,
          cacheWrite |-> 5, fixed |-> 0, image |-> None, audio |-> None, guessed |-> FALSE] @@
  "c" :> [input |-> 10, output |-> 10, reasoning |-> None, cacheRead |-> None,
          cacheWrite |-> None, fixed |-> 8, image |-> 8, audio |-> None, guessed |-> TRUE]

PublishedPricing == "a" :> SomePricing["a"]

Mix(m, n) == <<[model |-> m, weight |-> 1], [model |-> n, weight |-> 1]>>

Plain(kind, period) ==
  [ kind |-> kind, role |-> kind, period |-> period, rate |-> S(1), each |-> S(1),
    input |-> S(16), output |-> S(0), reasoning |-> S(0), images |-> S(0), audio |-> S(0),
    cacheHit |-> 0, cacheWrite |-> 2, spawn |-> 0, overhead |-> 3,
    modelId |-> "a", mix |-> None ]

Mixed(w, m, n) == [w EXCEPT !.modelId = None, !.mix = Mix(m, n)]

SomeWorkloads ==
  { [Plain("continuous_stream", "hour") EXCEPT !.input = R(16, 32, 48), !.cacheHit = 1],
    [Mixed(Plain("triggered_action", "hour"), "a", "b") EXCEPT
       !.rate = R(1, 2, 5), !.output = S(32), !.cacheHit = 1],
    [Mixed(Plain("per_request", "day"), "b", "c") EXCEPT
       !.rate = R(1, 1, 3), !.input = R(0, 16, 16), !.reasoning = R(0, 16, 32)],
    [Plain("per_request", "month") EXCEPT !.input = S(0), !.output = S(16),
       !.modelId = "unknown"],
    [Plain("batch", "week") EXCEPT !.rate = S(3), !.each = R(2, 3, 4), !.cacheHit = 2],
    [Mixed(Plain("multimodal", "day"), "c", "a") EXCEPT !.images = R(0, 2, 4)],
    [Mixed(Plain("multimodal", "month"), "a", "unknown") EXCEPT
       !.images = S(2), !.audio = R(0, 0, 3)],
    [Plain("build_action", "week") EXCEPT !.rate = R(1, 2, 2), !.each = R(1, 4, 8),
       !.spawn = 1, !.overhead = 4, !.reasoning = S(16), !.cacheHit = 1],
    [Plain("recurring_job", "hour") EXCEPT !.output = R(0, 16, 48), !.modelId = "b"],
    [Mixed(Plain("recurring_job", "month"), "c", "b") EXCEPT !.cacheHit = 1] }

(* Workloads the validators have to judge: no target, an empty id, no mix, *)
(* an empty mix, both, weights that are no whole, less than nothing.       *)
Unusual ==
  LET w == Plain("batch", "week")
  IN  { [w EXCEPT !.modelId = None], [w EXCEPT !.modelId = ""],
        [w EXCEPT !.modelId = None, !.mix = <<>>], [w EXCEPT !.mix = Mix("a", "b")],
        [w EXCEPT !.modelId = None, !.mix = Mix("a", "b") \o Mix("c", "b")],
        [w EXCEPT !.output = R(-4, 0, 8)] }

Named(name) == [preset |-> name, inline |-> None]
Inline(s) == [preset |-> None, inline |-> s]
Body(endpoint, workloads, models, s) ==
  [ endpoint |-> endpoint, workloads |-> workloads, models |-> models,
    preset |-> s.preset, inline |-> s.inline ]

Tops == {None, <<"a">>, <<"b">>, <<"unknown">>, <<"">>}
Lists == { <<>>, <<"a">>, <<"c", "b", "a">>, <<"b", "c", "b">>, <<"a", "unknown">>, <<"", "a">> }
Usual == {Named("light"), Inline(Varied)}

SomeBodies ==
  {Body("cost", <<w>>, m, s) : w \in SomeWorkloads, m \in Tops, s \in Usual}
    \cup {Body("compare", <<w>>, l, s) : w \in SomeWorkloads, l \in Lists, s \in Usual}
    \cup {Body("pipeline", <<v, w>>, None, s) : v, w \in SomeWorkloads, s \in Usual}
    \cup {Body("cost", <<w>>, m, Named("light")) : w \in Unusual, m \in Tops}
    \cup {Body("compare", <<w>>, l, Named("light")) : w \in Unusual, l \in Lists}
    \cup {Body("pipeline", <<w>>, None, Inline(Varied)) : w \in Unusual}
    \cup {Body("cost", <<Plain("batch", "week")>>, None, s) :
             s \in {Named("heavy"), Inline([Varied EXCEPT !.hours = R(20, 24, 25)])}}
    \cup {Body("pipeline", <<>>, None, Named("light"))}

(* A volume that is 0 typically but not always. *)
RareImages ==
  {Body("cost", <<[Plain("multimodal", "month") EXCEPT !.images = R(0, 0, 5)]>>, m, Named("light")) :
     m \in Tops}
=============================================================================
