-------------------------- MODULE SparkPlanning --------------------------
(* The Spark side of a request whose SQL is compiled: contract, plan,        *)
(* annotations, code, static check and comparison, in the order run_all_full *)
(* asks for them.  SparkStages has the same stages under any interleaving;   *)
(* here is what they compute.                                                *)
EXTENDS SqlPlanning, SparkCompiler, SparkCompare

CONSTANT MaxTries       \* max_llm_retries + 1

VARIABLES turn,         \* the next stage, or how the Spark side ended
          contract, splan,
          tries,        \* calls of the model that annotates
          marks,        \* the ids of the steps it annotated, in order
          code,
          verdict       \* of the comparator

sparkVars == <<turn, contract, splan, tries, marks, code, verdict>>
allVars == <<vars, sparkVars>>

NoCode == [err |-> TRUE, stages |-> <<>>]
TimedDims == [trunc |-> {d.name : d \in ToSet(spec.derived)},
              hours |-> {d.name : d \in {x \in ToSet(spec.dims) : x.part}}]

SparkInit == /\ turn = "contract" /\ contract = NoContract /\ splan = NoSparkPlan
             /\ tries = 0 /\ marks = <<>> /\ code = NoCode /\ verdict = ""

\* What DataTransformContractExtractor makes of the executed program.
ExtractContract ==
    /\ Executes /\ turn = "contract"
    /\ contract' = Extracted(program, TimedDims)
    /\ turn' = IF contract'.err THEN "failed" ELSE "MAPPER"
    /\ UNCHANGED <<splan, tries, marks, code, verdict>>

Map == /\ turn = "MAPPER"
       /\ splan' = Mapped(contract)
       /\ turn' = IF splan'.err THEN "failed" ELSE "DEVELOPER"
       /\ UNCHANGED <<contract, tries, marks, code, verdict>>

(* _adapter_llm_call and annotate: a call that fails is made again, anything *)
(* else that is wrong ends the stage; the stages behind it run in any case.  *)
AnnotationsValid(ids, valid) ==
    Len(ids) = Cardinality(valid) /\ ToSet(ids) \subseteq valid /\ IsInjective(ids)

Unanswered == /\ turn = "DEVELOPER"
              /\ tries' = tries + 1
              /\ turn' = IF tries' < MaxTries THEN "DEVELOPER" ELSE "COMPILER"
              /\ UNCHANGED <<contract, splan, marks, code, verdict>>
Annotate(ids) ==
    /\ turn = "DEVELOPER"
    /\ tries' = tries + 1
    /\ marks' = IF AnnotationsValid(ids, ToSet(IdsOf(splan))) THEN ids ELSE <<>>
    /\ turn' = "COMPILER"
    /\ UNCHANGED <<contract, splan, code, verdict>>

Generate == /\ turn = "COMPILER"
            /\ code' = CompiledSpark(splan)
            /\ turn' = IF code'.err THEN "failed" ELSE "VALIDATOR"
            /\ UNCHANGED <<contract, splan, tries, marks, verdict>>

(* SparkStaticValidator: what the generated code calls.  A forbidden name is *)
(* allowed on the functions module alone, as F.count, F.first are.           *)
ForbiddenActions == {"collect", "count", "first", "head", "take", "show", "toPandas", "toDF", "cache", "persist",
                     "unpersist", "foreach", "foreachPartition"}
ForbiddenSinks == {"write", "writeStream", "save", "saveAsTable", "insertInto", "insertIntoJDBC"}
On(receiver, names) == {[on |-> receiver, name |-> n] : n \in names}
Calls(step) ==
    CASE step.op = "read"      -> On("df", {"alias"})
      [] step.op = "filter"    -> On("df", {"filter"}) \cup On("F", {"col"}) \cup On("col", {"isin", "between", "like"})
      [] step.op = "join"      -> On("df", {"join"}) \cup On("F", {"upper"})
      [] step.op = "case"      -> On("df", {"withColumn"}) \cup On("F", {"lit", "when"}) \cup On("col", {"otherwise"})
      [] step.op = "aggregate" -> On("df", {"groupBy", "agg", "withColumn"}) \cup On("col", {"alias", "cast"})
                                  \cup On("F", {"count", "countDistinct", "sum", "avg", "min", "max", "when", "hour"})
      [] step.op = "window"    -> On("df", {"withColumn"}) \cup On("col", {"over", "asc", "desc"})
                                  \cup On("F", {"rank", "row_number", "ntile", "lag", "lead", "sum", "count"})
                                  \cup On("Window", {"partitionBy", "orderBy", "rowsBetween"})
      [] step.op = "project"   -> On("df", {"select"}) \cup On("col", {"alias", "isNull"}) \cup On("F", {"col", "lit"})
      [] step.op = "sort"      -> On("df", {"orderBy"}) \cup On("F", {"asc", "desc"})
      [] OTHER                 -> On("df", {"limit"})
\* Mutant of Harmless: a function is told from an action by its name alone.
HarmlessByName(call) == call.name \notin ForbiddenActions \cup ForbiddenSinks
Harmless(call) == (call.on = "F" \/ call.name \notin ForbiddenActions) /\ call.name \notin ForbiddenSinks
Vetted(c) == \A s \in ToSet(c.stages) : \A l \in ToSet(s.lines) : \A call \in Calls(l.step) : Harmless(call)

Validate == /\ turn = "VALIDATOR"
            /\ turn' = IF Vetted(code) THEN "COMPARATOR" ELSE "failed"
            /\ UNCHANGED <<contract, splan, tries, marks, code, verdict>>

Compare == /\ turn = "COMPARATOR"
           /\ verdict' = Compared(program, splan, GrainOf(contract), TimedDims)
           /\ turn' = "done"
           /\ UNCHANGED <<contract, splan, tries, marks, code>>

(* What the model may answer: an annotation per step, one short, one twice,  *)
(* one for a step that is not there.                                         *)
Answered(ids) == {ids, Tail(ids), <<ids[1]>> \o ids, <<<<0, "none", 1>>>> \o Tail(ids)}

SparkNext == \/ ExtractContract \/ Map \/ Unanswered \/ Generate \/ Validate \/ Compare
             \/ turn = "DEVELOPER" /\ \E ids \in Answered(IdsOf(splan)) : Annotate(ids)

PlanningInit == Init /\ SparkInit
PlanningNext == \/ Next /\ UNCHANGED sparkVars
                \/ SparkNext /\ UNCHANGED vars
PlanningSpec == PlanningInit /\ [][PlanningNext]_allVars

---------------------------------------------------------------------------
OneTree == Grows(ChainOrder(hops))
FinalStatement == CHOOSE s \in ToSet(compiled.statements) : s.id = program.final
Frames == ResultFrame(code, [a \in TableNames(spec) |-> ColumnsOf(TableNamed(spec, a))], spec.ratios)
Generated == turn \in {"VALIDATOR", "COMPARATOR", "done"}

(* Spark finds every table and column the generated program names, and the   *)
(* program returns the columns of the last SQL statement, in their order:    *)
(* two compilers that share nothing but the plans agree.                     *)
Returns(frame, columns) == frame.ok /\ SeqMap(LAMBDA x : x.c, frame.cols) = columns
SparkAgrees ==
    turn = "done" /\ OneTree => Returns(Frames, Aliases(Last(FinalStatement.layers).select))

(* A program that runs in SQL gets through the Spark side, except where it   *)
(* has a join without a key or delivers a date part it does not group by.    *)
RunsTranslate ==
    turn = "failed" /\ OneTree =>
        \/ \E s \in ToSet(program.statements) : \E j \in ToSet(Steps(s.plan, "join")) : j.keys = {}
        \/ \E d \in ToSet(spec.dims) : d.part /\ spec.metrics = <<>>

(* The joins a chain's contract tells name the tables of the spec, though    *)
(* the chain joins its temps, as long as the joins grow one tree.            *)
ChainsTraced ==
    turn # "contract" /\ OneTree /\ spec.steps = <<>> =>
        \A j \in ToSet(contract.joins) :
            /\ {j.left, j.right} \subseteq TableNames(spec) \cup {SelfLeft(a) : a \in TableNames(spec)}
                                                           \cup {SelfRight(a) : a \in TableNames(spec)}
            /\ j.left \in TableNames(spec) => j.lk \in ToSet(ColumnsOf(TableNamed(spec, j.left)))

(* One statement that differs in nothing the two sides spell differently is  *)
(* never called a mismatch.                                                  *)
PlainStatementsAgree ==
    verdict = "NOT_EQUIVALENT" =>
        \/ Len(program.statements) > 1
        \/ spec.windows # <<>> \/ spec.sort # <<>> \/ Rules(spec) # <<>> \/ \E d \in ToSet(spec.dims) : d.part

(* What plan_equivalence.py and plan_comparator.py say and the code does not *)
(* keep.  Equivalent plans mean the same: a table SQL filters behind an      *)
(* outer join that may leave it empty is not filtered before the join.       *)
EquivalentMeansEqual ==
    verdict = "EQUIVALENT" =>
        ~\E j \in ToSet(Ops(splan.main, "join")), f \in ToSet(Ops(splan.main, "filter")) :
            /\ j.type = "LEFT" /\ f.in = j.right
            /\ \E s \in ToSet(compiled.statements) : f.ref \in s.layers[1].where
==========================================================================
