----------------------------- MODULE Estimates -----------------------------
(***************************************************************************)
(* The three estimate routes (app.py, service.py): a body is completed,    *)
(* validated, given a schedule and turned into the jobs the engine does    *)
(* one after the other; the answer is a breakdown, a pipeline's total, a   *)
(* comparison, or an error.  Outcome is what the Python client makes of it *)
(* (client.py).  A route does not await anything between the catalog's     *)
(* prices and its answer, so requests do not interleave here.              *)
(***************************************************************************)
EXTENDS CostEngine, SequencesExt

CONSTANTS Bodies,   \* the bodies clients may send
          Presets   \* the named schedules

(***************************************************************************)
(* A body has the workloads it names (one, except for a pipeline); the     *)
(* models it wants them priced at instead: <<id>> or None for a cost       *)
(* estimate, model_ids for a comparison; and the name of a schedule, or a  *)
(* schedule inline.                                                        *)
(***************************************************************************)
BodyType ==
  [ endpoint : {"cost", "pipeline", "compare"}, workloads : Seq(Workload),
    models : {None} \cup Seq(STRING), preset : {None} \cup STRING, inline : {None} \cup Schedule ]

ASSUME BodyAssumption ==
  \A b \in Bodies : /\ b \in BodyType /\ b # None
                    /\ b.endpoint = "pipeline" => b.models = None
                    /\ b.endpoint # "pipeline" => Len(b.workloads) = 1
                    /\ b.endpoint = "compare" => b.models # None
                    /\ (b.preset = None) # (b.inline = None)
ASSUME PresetAssumption ==
  \A name \in DOMAIN Presets : Presets[name] \in Schedule /\ ValidSchedule(Presets[name])

(* Tokens are counted in units so fine that the ratios, the multiplier and *)
(* the weights of a mix leave no fraction.                                 *)
ASSUME TokenAssumption ==
  \A b \in Bodies : \A i \in DOMAIN b.workloads : \A point \in Points :
    LET w == b.workloads[i]
    IN  /\ w.input[point] % (Whole * Whole * Whole * Whole) = 0
        /\ w.output[point] % (Whole * Whole) = 0
        /\ w.reasoning[point] % (Whole * Whole) = 0

VARIABLES body,   \* the latest request, or None
          jobs,   \* what it has the engine estimate
          answer  \* the answer to it, None while there is none

vars == <<engineVars, body, jobs, answer>>

(***************************************************************************)
(* Completing and validating a body.                                       *)
(***************************************************************************)
NoId(m)   == m \in {None, ""}
NoList(l) == l \in {None, <<>>}

(* A workload without a target is given the first of the models. *)
Completed(w, models) ==
  IF ~NoList(models) /\ ~NoId(models[1]) /\ NoId(w.modelId) /\ NoList(w.mix)
    THEN [w EXCEPT !.modelId = models[1]] ELSE w

Inputs(b) == [i \in DOMAIN b.workloads |-> Completed(b.workloads[i], b.models)]

ValidBody(b) ==
  /\ b.workloads # <<>> /\ b.models # <<>>
  /\ \A i \in DOMAIN b.workloads : Valid(Inputs(b)[i])
  /\ \A i, j \in DOMAIN b.workloads : i # j => b.workloads[i].role # b.workloads[j].role
  /\ b.inline # None => ValidSchedule(b.inline)

KnownSchedule(b) == b.preset \in DOMAIN Presets \cup {None}

Resolved(b) == IF b.preset = None THEN b.inline ELSE Presets[b.preset]

JobsOf_TruthyOverride(b) ==
  IF b.models \in {None, <<"">>}
    THEN [i \in DOMAIN b.workloads |-> [workload |-> Inputs(b)[i], override |-> None]]
    ELSE [i \in DOMAIN b.models |-> [workload |-> Inputs(b)[1], override |-> b.models[i]]]

JobsOf_OneModel(b) ==
  IF b.models = None
    THEN [i \in DOMAIN b.workloads |->
            [workload |-> Inputs(b)[i], override |-> Inputs(b)[1].modelId]]
    ELSE [i \in DOMAIN b.models |-> [workload |-> Inputs(b)[1], override |-> b.models[i]]]

(* A job per workload, or per model that takes the place of its targets. *)
JobsOf(b) ==
  IF b.models = None
    THEN [i \in DOMAIN b.workloads |-> [workload |-> Inputs(b)[i], override |-> None]]
    ELSE [i \in DOMAIN b.models |-> [workload |-> Inputs(b)[1], override |-> b.models[i]]]

(***************************************************************************)
(* Answers.                                                                *)
(***************************************************************************)
Error(status, what, model) == [status |-> status, error |-> what, model |-> model]

ASSUME AnswerAssumption ==
  None \notin [ status : {404, 422, 500}, model : {None} \cup STRING,
                error  : {"detail", "unknown_schedule_preset", "model_not_found", "internal"} ]

(* The catalog cannot be built, its overrides file not being readable.     *)
NoCatalog == Error(500, "internal", None)

PipelineTotal == FoldFunction(Plus, Scalar(0), [i \in DOMAIN breakdowns |-> breakdowns[i].total])

Cheaper_AtMost(i, j) ==
  LET a == breakdowns[i].total.max
      b == breakdowns[j].total.max
  IN  a < b \/ (a = b /\ i < j)

(* The order of the ranking, which keeps the order asked for among equals. *)
Cheaper(i, j) ==
  LET a == breakdowns[i].total.typical
      b == breakdowns[j].total.typical
  IN  a < b \/ (a = b /\ i < j)

(* The estimates in that order, each in the place of its rank. *)
Ranking ==
  LET Rank(i) == Cardinality({j \in DOMAIN breakdowns : Cheaper(j, i)})
  IN  [k \in DOMAIN breakdowns |-> CHOOSE i \in DOMAIN breakdowns : Rank(i) = k - 1]

(* The answer when every job is done. *)
Reply ==
  [ status  |-> 200, error |-> None,
    results |-> breakdowns,
    total   |-> IF body.endpoint = "pipeline" THEN PipelineTotal ELSE None,
    ranked  |-> IF body.endpoint = "compare" THEN Ranking ELSE None ]

(* What the client raises or returns. *)
Outcome(a) ==
  IF a.status < 400 THEN "result"
  ELSE IF a.error = "model_not_found" THEN "ModelNotFoundError" ELSE "TokenomicsAPIError"

-----------------------------------------------------------------------------
Init ==
  /\ EngineInit
  /\ body = None /\ jobs = <<>> /\ answer = None

Idle == body = None \/ answer # None

Refuse(b, error) ==
  /\ body' = b /\ jobs' = <<>> /\ answer' = error
  /\ schedule' = None /\ breakdowns' = <<>>
  /\ UNCHANGED <<component, targets, priced, tokens, combined, estimated>>

Accept(b) ==
  /\ ValidBody(b) /\ KnownSchedule(b)
  /\ body' = b /\ jobs' = JobsOf(b) /\ answer' = None
  /\ schedule' = Resolved(b) /\ breakdowns' = <<>>
  /\ UNCHANGED <<component, targets, priced, tokens, combined, estimated>>

Receive(b) ==
  /\ Idle
  /\ \/ ~ValidBody(b) /\ Refuse(b, Error(422, "detail", None))
     \/ ValidBody(b) /\ ~KnownSchedule(b)
          /\ Refuse(b, Error(422, "unknown_schedule_preset", None))
     \/ ValidBody(b) /\ KnownSchedule(b) /\ Refuse(b, NoCatalog)
     \/ Accept(b)

NextJob ==
  /\ ~Idle /\ Len(breakdowns) < Len(jobs)
  /\ LET job == jobs[Len(breakdowns) + 1] IN Begin(job.workload, job.override)
  /\ UNCHANGED <<body, jobs, answer>>

NotFound ==
  /\ UnknownModel
  /\ answer' = Error(404, "model_not_found", Target.model)
  /\ UNCHANGED <<body, jobs>>

Finish ==
  /\ ~Idle /\ component = None /\ Len(breakdowns) = Len(jobs)
  /\ answer' = Reply
  /\ UNCHANGED <<engineVars, body, jobs>>

Next ==
  \/ \E b \in Bodies : Receive(b)
  \/ NextJob \/ NotFound \/ Finish
  \/ (PriceTarget \/ EndComponent) /\ UNCHANGED <<body, jobs, answer>>

Spec == Init /\ [][Next]_vars

-----------------------------------------------------------------------------
(***************************************************************************)
(* Properties.                                                             *)
(***************************************************************************)
Answered == ~(answer = None)

(* The models whose prices the documentation of a body says it needs: ids  *)
(* beside the workload win over those in it, also the empty one.           *)
Needed(b) ==
  IF b.models # None THEN ToSet(b.models)
  ELSE UNION { IF w.modelId # None THEN {w.modelId} ELSE {w.mix[i].model : i \in DOMAIN w.mix} :
                 w \in ToSet(b.workloads) }

(* Wherever there is a catalog, a client is told of a missing model        *)
(* exactly when the request itself is in order and needs one the catalog   *)
(* does not have, and then it is told of such a one; it never gets part of *)
(* an answer.                                                              *)
MissingModelsAreNamed ==
  Answered =>
    LET missing == IF ValidBody(body) /\ KnownSchedule(body) /\ answer # NoCatalog
                     THEN Needed(body) \ DOMAIN Pricing ELSE {}
    IN  /\ Outcome(answer) = "ModelNotFoundError" <=> missing # {}
        /\ missing # {} => answer.model \in missing /\ breakdowns = <<>>

(* The models a workload of a pipeline names: one, or a mix.               *)
OwnTargets(w) == IF w.modelId # None THEN Only(w.modelId) ELSE w.mix

(* A pipeline has its components one by one, each priced at its own model  *)
(* or mix and none at another's, and costs what they cost together, in     *)
(* every scenario.                                                         *)
PipelineAddsUp ==
  Answered /\ body.endpoint = "pipeline" /\ Outcome(answer) = "result" =>
    /\ [i \in DOMAIN answer.results |-> answer.results[i].of] = body.workloads
    /\ [i \in DOMAIN answer.results |-> answer.results[i].targets]
         = [i \in DOMAIN body.workloads |-> OwnTargets(body.workloads[i])]
    /\ \A point \in Points :
         answer.total[point] =
           SumFunction([i \in DOMAIN body.workloads |-> answer.results[i].total[point]])

(* A comparison prices the same workload at every model asked for, in that *)
(* order and whatever the workload names itself, each as if it were alone; *)
(* the ranking has each of them once, a cheaper one always first, and      *)
(* equals as they were asked for.                                          *)
ComparisonIsFair ==
  Answered /\ body.endpoint = "compare" /\ Outcome(answer) = "result" =>
    LET r == answer.results
        at == answer.ranked
    IN  /\ [i \in DOMAIN r |-> r[i].targets] = [i \in DOMAIN body.models |-> Only(body.models[i])]
        /\ \A i \in DOMAIN r :
             r[i].total = Total(Costs(body.workloads[1], schedule, Pricing[body.models[i]]))
        /\ ToSet(at) = DOMAIN r /\ Len(at) = Len(r)
        /\ \A i, j \in DOMAIN at : i < j =>
             /\ r[at[i]].total.typical <= r[at[j]].total.typical
             /\ r[at[i]].total.typical = r[at[j]].total.typical => at[i] < at[j]
=============================================================================
