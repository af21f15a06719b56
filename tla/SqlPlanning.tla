--------------------------- MODULE SqlPlanning ---------------------------
(* A request on its way from the parsed spec to compiled SQL: what the spec  *)
(* leaves open is filled in, its joins are planned, and it is built in one   *)
(* of the three ways Pipeline.execute takes: compute steps, a chain of       *)
(* joins, one plan (api/pipeline.py).  Every stage is an action; a stage     *)
(* that finds the spec wanting ends the request.                             *)
EXTENDS SqlCompiler, SpecEnrichment, SqlPlanValidator

CONSTANTS Requests,     \* [spec, model : is there a language model, heard]
          Answers       \* what the language model may infer about joins

VARIABLES spec,         \* the parsed spec, as the stages change it
          request,      \* as it came in
          stage,        \* the next stage, or how the request ended
          hops,         \* the join candidates
          asked,        \* the questions raised so far
          todo,         \* compute steps not yet looked at, or not yet built
          schemas,      \* what the validator expects of every step
          passed,          \* the columns every built step passes on
          plans, bridges, program,
          compiled      \* the layers of every statement, in order

vars == <<spec, request, stage, hops, asked, todo, schemas, passed, plans, bridges, program, compiled>>

(* What the planner, the enricher and the extractor are told, if asked.      *)
heard == request.heard          \* [plan, enrich, extract]
model == request.model

(* What comes in: lists are sequences, and no two tables share a name, not   *)
(* even one that a table has in a join with itself.                          *)
Under(a) == {a, SelfLeft(a), SelfRight(a)}
NamesApart(tables) ==
    \A t, u \in ToSet(tables) : t.alias # u.alias => Under(t.alias) \cap Under(u.alias) = {}

StepShape(cs) ==
    /\ {"name", "source", "metrics", "joins"} \subseteq DOMAIN cs
    /\ IsSeq(cs.source) /\ IsSeq(cs.metrics) /\ IsSeq(cs.joins)

SpecShape(s) ==
    /\ {"tables", "joins", "metrics", "labels", "cases", "after", "toldAfter", "outputs", "hints", "steps"} \subseteq DOMAIN s
    /\ IsSeq(s.tables) /\ \A t \in ToSet(s.tables) : IsSeq(t.keys) /\ IsSeq(t.biz) /\ IsSeq(t.filters)
    /\ IsSeq(s.joins) /\ IsSeq(s.metrics) /\ IsSeq(s.labels) /\ IsSeq(s.cases)
    /\ IsSeq(s.after) /\ IsSeq(s.toldAfter) /\ IsSeq(s.outputs)
    /\ \A o \in DOMAIN s.hints : s.hints[o].kind = "computed" => IsSeq(s.hints[o].decl.deps)
    /\ IsSeq(s.steps) /\ \A cs \in ToSet(s.steps) : StepShape(cs)

HeardShape(h) ==
    /\ IsSeq(h.plan.metrics) /\ IsSeq(h.plan.rules)
    /\ IsSeq(h.enrich.metrics) /\ IsSeq(h.enrich.after) /\ IsSeq(h.enrich.rules)
    /\ IsSeq(h.extract.rules)

ASSUME RequestsAssumption ==
    \A q \in Requests : SpecShape(q.spec) /\ HeardShape(q.heard) /\ NamesApart(q.spec.tables)
ASSUME AnswersAssumption == \A answer \in Answers : IsSeq(answer)

Named(steps, n) == CHOOSE s \in ToSet(steps) : s.name = n
Empty == [err |-> FALSE, statements |-> <<>>, cleanup |-> <<>>]

Init == /\ request \in Requests
        /\ spec = request.spec
        /\ stage = "parse"
        /\ hops = <<>> /\ asked = {} /\ todo = <<>> /\ schemas = <<>>
        /\ passed = [n \in {"input"} |-> <<>>] /\ plans = <<>> /\ bridges = <<>>
        /\ program = NoProgram /\ compiled = Empty

Ends(how) == /\ stage' = how
             /\ UNCHANGED <<spec, request, hops, asked, todo, schemas, passed, plans, bridges, program, compiled>>

Parse == /\ stage = "parse"
         /\ IF ParseAccepts(spec)
            THEN /\ stage' = "require"
                 /\ UNCHANGED <<spec, request, hops, asked, todo, schemas, passed, plans, bridges, program, compiled>>
            ELSE Ends("rejected")

(* The spec after a stage, and what the stage asks.                          *)
Becomes(next, questions, then) ==
    /\ spec' = next
    /\ asked' = asked \cup questions
    /\ stage' = then
    /\ UNCHANGED <<request, hops, todo, schemas, passed, plans, bridges, program, compiled>>

(* _enrich_and_plan: the planner is asked if there is a model and something  *)
(* to explain; a call of it that fails ends the request.                     *)
Require ==
    /\ stage = "require"
    /\ CASE ~model \/ Unresolved(spec) = <<>> -> Becomes(spec, {}, "enrich")
         [] model /\ Unresolved(spec) # <<>> /\ heard.plan.fails -> Ends("failed")
         [] OTHER -> Becomes(Planned(spec, heard.plan), PlannerQuestions(spec, heard.plan), "enrich")

Enrich ==
    /\ stage = "enrich"
    /\ \E applied \in {Applied(spec, Enriched(spec, model, heard.enrich))} :
           Becomes(applied.spec, applied.asked, "label")

(* A label table needs the extractor for what is marked as a label.          *)
PrepareLabels ==
    /\ stage = "label"
    /\ \E asks \in {LabelCandidates(spec) # <<>>} :
           IF asks /\ (~heard.extract.there \/ heard.extract.fails) THEN Ends("failed")
           ELSE \E labelled \in {WithLabels(spec, IF asks THEN heard.extract.rules ELSE <<>>)} :
                    Becomes(labelled, LabelConflicts(labelled), "settle")

(* What is left open is a human's in a label table and an error elsewhere.   *)
Settle ==
    /\ stage = "settle"
    /\ IF Unexplained(spec) /\ spec.type # "label" THEN Ends("failed")
       ELSE Becomes(spec, HumanReview(spec), "relate")

(* What the planner and the cross checks ask is kept, and nothing stops on   *)
(* it.                                                                       *)
Relate(answer) ==
    /\ stage = "relate"
    /\ hops' = Hops(spec, model, answer)
    /\ asked' = asked \cup JoinQuestions(spec, model, answer)
    /\ todo' = spec.steps
    /\ stage' = IF spec.steps # <<>> THEN "check" ELSE "plan"
    /\ UNCHANGED <<spec, request, schemas, passed, plans, bridges, program, compiled>>

(* A blocked step has no schema, the steps behind it are looked at as well;  *)
(* then one blocked step ends the request.                                   *)
CheckStep ==
    /\ stage = "check" /\ todo # <<>>
    /\ LET cs == Head(todo)
       IN  IF StepBlocked(spec, cs, schemas)
           THEN asked' = asked \cup {Question("step", cs.name, TRUE)} /\ UNCHANGED schemas
           ELSE schemas' = Put(schemas, cs.name, OutputSchema(cs, schemas)) /\ UNCHANGED asked
    /\ todo' = Tail(todo)
    /\ UNCHANGED <<spec, request, stage, hops, passed, plans, bridges, program, compiled>>

SortSteps ==
    /\ stage = "check" /\ todo = <<>>
    /\ IF \E q \in asked : q.kind = "step"
       THEN Ends("blocked")
       ELSE /\ todo' = SeqMap(LAMBDA n : Named(spec.steps, n), TopoSortSteps(spec.steps))
            /\ stage' = "build"
            /\ UNCHANGED <<spec, request, hops, asked, schemas, passed, plans, bridges, program, compiled>>

(* A bridge is built first, and the step in the spec then reads it too.      *)
NotedBridge(s, n) == [s EXCEPT !.steps = SeqMap(LAMBDA x : IF x.name = n THEN Bridged(x) ELSE x, @)]

BuildBridge ==
    /\ stage = "build" /\ todo # <<>>
    /\ Bridgeable(Head(todo), passed, spec) # <<>>
    /\ \E cs \in {Head(todo)}, bridge \in {BridgePlan(Head(todo), passed, spec)} :
           /\ bridges' = Append(bridges, bridge)
           /\ passed' = Put(passed, bridge.id, OutputsOf(bridge))
           /\ todo' = <<Bridged(cs)>> \o Tail(todo)
           /\ spec' = NotedBridge(spec, cs.name)
    /\ UNCHANGED <<request, stage, hops, asked, schemas, plans, program, compiled>>

BuildNext ==
    /\ stage = "build" /\ todo # <<>>
    /\ Bridgeable(Head(todo), passed, spec) = <<>>
    /\ \E cs \in {Head(todo)}, plan \in {BuildStep(Head(todo), Len(todo) = 1, passed, spec)} :
           IF plan.err THEN Ends("failed")
           ELSE /\ plans' = Put(plans, cs.name, plan)
                /\ passed' = Put(passed, cs.name, OutputsOf(plan))
                /\ todo' = Tail(todo)
                /\ UNCHANGED <<spec, request, stage, hops, asked, schemas, bridges, program, compiled>>

Compiles(p, blocked) ==
    /\ program' = p
    /\ stage' = IF blocked THEN "blocked" ELSE "compile"
    /\ UNCHANGED <<spec, request, hops, asked, todo, schemas, passed, plans, bridges, compiled>>

Assemble ==
    /\ stage = "build" /\ todo = <<>>
    /\ \E p \in {StepsProgram(spec.steps, plans, bridges)} :
           IF p = NoProgram THEN Ends("failed") ELSE Compiles(p, ChainBlocked(p))

(* More than one candidate: a chain of plans.                                *)
PlanChain ==
    /\ stage = "plan" /\ Len(hops) > 1
    /\ \E built \in {ChainPlans(spec, hops)} : \E p \in {ChainProgram(built)} :
           IF \E x \in ToSet(built) : x.err THEN Ends("failed") ELSE Compiles(p, ChainBlocked(p))

PlanOne ==
    /\ stage = "plan" /\ Len(hops) <= 1
    /\ \E plan \in {SinglePlan(spec, hops)} :
           IF plan.err THEN Ends("failed") ELSE Compiles(SingleProgram(plan), PlanBlocked(plan, spec))

Compile ==
    /\ stage = "compile"
    /\ compiled' = CompiledProgram(program, spec.ratios)
    /\ stage' = IF compiled'.err THEN "failed" ELSE "execute"
    /\ UNCHANGED <<spec, request, hops, asked, todo, schemas, passed, plans, bridges, program>>

Next == \/ Parse \/ Require \/ Enrich \/ PrepareLabels \/ Settle
        \/ \E answer \in Answers : Relate(answer)
        \/ CheckStep \/ SortSteps \/ BuildBridge \/ BuildNext \/ Assemble
        \/ PlanChain \/ PlanOne \/ Compile

Spec == Init /\ [][Next]_vars

---------------------------------------------------------------------------
Executes == stage = "execute"

(* The joins grow one tree: every hop leaves a table already joined for a    *)
(* new one.                                                                  *)
Grows(chain) ==
    \A i \in 2..Len(chain) :
        LET seen == {chain[1].left} \cup {chain[k].right : k \in 1..(i-1)}
        IN  chain[i].left \in seen /\ chain[i].right \notin seen

(* What a statement may name: the spec's tables and the temps created before.*)
BaseTables == [a \in TableNames(spec) |-> ToSet(ColumnsOf(TableNamed(spec, a)))]
NamesAt(i) ==
    LET before == {s \in {compiled.statements[j] : j \in 1..(i-1)} : s.creates # ""}
        made(t) == CHOOSE s \in before : s.creates = t
    IN  [t \in {s.creates : s \in before} |-> ToSet(Aliases(Last(made(t).layers).select))] @@ BaseTables

(* Every table and column a compiled statement names exists when it runs:    *)
(* three planning paths, two optimisations and three layouts of the SQL      *)
(* agree on where each column has got to.                                    *)
StatementsBind ==
    Executes /\ Grows(ChainOrder(hops)) =>
        \A i \in DOMAIN compiled.statements : LayersBind(compiled.statements[i].layers, NamesAt(i))

(* A table's declared filters hold wherever the table is read, on whichever  *)
(* of the five paths a plan reads it, under the name it has there.           *)
FiltersKept ==
    Executes =>
        \A s \in ToSet(compiled.statements) : \A x \in Scope(s.layers[1]), a \in TableNames(spec) :
            x \in Under(a) =>
                \A c \in ToSet(TableNamed(spec, a).filters) : Ref(x, c) \in s.layers[1].where

(* The statement whose rows are returned delivers every declared output.     *)
OutputsDelivered ==
    Executes /\ Grows(ChainOrder(hops)) =>
        LET final == CHOOSE s \in ToSet(compiled.statements) : s.id = program.final
        IN  ToSet(spec.outputs) \subseteq ToSet(Aliases(Last(final.layers).select))

(* A metric the spec declares is computed as declared, once, whatever the    *)
(* three models said about the same name, and whatever was added to the spec *)
(* around it.  (A dimension in the enricher's reply may take the name.)      *)
DeclaredWins ==
    Executes /\ spec.steps = <<>> /\ Grows(ChainOrder(hops)) =>
        LET final == CHOOSE s \in ToSet(compiled.statements) : s.id = program.final
            columns(a) == Only(final.layers[1].select, LAMBDA o : o.alias = a)
        IN  \A m \in ToSet(request.spec.metrics) :
                \/ m.alias \in DimNames(heard.enrich.dims)
                \/ /\ Len(columns(m.alias)) = 1 /\ columns(m.alias)[1].over
                   /\ {r.c : r \in columns(m.alias)[1].refs} = {m.ref.c}

(* What the validator promised later steps a step would output, the plan     *)
(* built for the step does output.                                           *)
SchemaPromise ==
    \A s \in DOMAIN schemas \cap DOMAIN plans :
        Len(todo) > 0 => DOMAIN schemas[s].type \subseteq ToSet(passed[s])

(* The checks nobody makes on this path would pass: plans keep to the grain, *)
(* the metrics and the evidence they were built from.                        *)
StrictChecksPass ==
    Executes /\ spec.steps = <<>> /\ Len(hops) <= 1 =>
        \A s \in ToSet(program.statements) : AgainstSpec(s.plan, spec, hops) = {}
==========================================================================
