-------------------------- MODULE SparkCompare ---------------------------
(* PlanComparator.compare_program and compare_plans: do the program's SQL    *)
(* plans and the Spark plan say the same (spark/plan_comparator.py,          *)
(* plan_equivalence.py).  Only the Spark plan's main steps are looked at,    *)
(* and not their order.  Functions, operators and literals, which both sides *)
(* copy from the same place, are left out; columns are compared by their     *)
(* bare names.                                                               *)
EXTENDS SparkMapper

CONSTANT Descending     \* the columns a sort takes in descending order

SameBag(s, t) == ToBag(s) = ToBag(t)
AllOf(f(_), seq) == FlattenSeq(SeqMap(f, seq))

\* Mutant of JoinSignature: the two sides of the key are taken the other way round.
JoinSignatureSwapped(j) ==
    LET k == FirstKey(j.keys)
    IN  [left |-> j.right, right |-> k[1].t, lk |-> k[2], rk |-> k[1].c, type |-> j.type]

(* _flatten_sql_program_steps: scans of temps and joins with one are left    *)
(* out; the left table of a join is the one of its first key.                *)
JoinSignature(j) ==
    LET k == FirstKey(j.keys)
    IN  [left |-> k[1].t, right |-> j.right, lk |-> k[1].c, rk |-> k[2], type |-> j.type]
LeavesOut(s) == \/ s.op = "scan" /\ s.t \in Temps
                \/ s.op = "join" /\ (s.right \in Temps \/ (s.keys # {} /\ JoinSignature(s).left \in Temps))
FlatSteps(p) ==
    LET ids == IF p.order # <<>> THEN p.order ELSE SeqMap(LAMBDA s : s.id, p.statements)
        named(n) == CHOOSE s \in ToSet(p.statements) : s.id = n
    IN  SelectSeq(AllOf(LAMBDA n : named(n).plan.steps, ids), LAMBDA s : ~LeavesOut(s))

(* The contract's grouping keys as the comparator is given them; a qualified *)
(* one equals no bare name.                                                  *)
GrainOf(contract) == {IF k.t = "" THEN k.c ELSE k.t \o "." \o k.c : k \in ToSet(contract.keys)}

(* _normalize_dag_steps, aggregates: one per set of keys; of the grain, if   *)
(* some have exactly it; else all in one, if they stay within it.            *)
NameOfKey(k, timed) == IF IsHour(k, timed) THEN k.alias ELSE k.ref.c
KeysOfStep(s, timed) == {NameOfKey(k, timed) : k \in {x \in ToSet(s.by) : ~IsTime(x, timed)}}
MetricSignatures(metrics) ==
    LET first(i) == \A j \in 1..(i-1) : metrics[j].alias # metrics[i].alias
        kept == SelectSeq([i \in DOMAIN metrics |-> i], first)
    IN  {<<metrics[i].ref.c, metrics[i].alias>> : i \in ToSet(kept)}
AggregatesOf(steps, grain, timed) ==
    LET all == SelectSeq(steps, LAMBDA s : s.op = "aggregate")
        grains == {KeysOfStep(s, timed) : s \in ToSet(all)}
        of(g) == [keys |-> g, metrics |-> MetricSignatures(AllOf(LAMBDA s : s.metrics,
                                SelectSeq(all, LAMBDA s : KeysOfStep(s, timed) = g)))]
    IN  CASE grain # {} /\ grain \in grains -> {of(grain)}
          [] grain # {} /\ grain \notin grains /\ grains # {} /\ \A g \in grains : g \subseteq grain ->
                {[keys |-> UNION grains, metrics |-> MetricSignatures(AllOf(LAMBDA s : s.metrics, all))]}
          [] OTHER -> {of(g) : g \in grains}

(* Projects: the last one, a column without a name under the name an earlier *)
(* one gave it; without a grain all of them, once per alias.                 *)
SqlColumn(i, timed) ==
    [alias |-> i.alias,
     name |-> CASE IsRatio(i) -> i.alias
                [] IsRaw(i) \/ (i.alias \in timed.hours /\ i.ref.c # i.alias) -> ""
                [] OTHER -> i.ref.c]
SqlColumns(steps, grain, timed) ==
    LET projects == SeqMap(LAMBDA s : SeqMap(LAMBDA i : SqlColumn(i, timed), s.cols),
                           SelectSeq(steps, LAMBDA s : s.op = "project"))
        all == FlattenSeq(projects)
        before == FlattenSeq(Front(projects))
        named(x) == LET hit == SelectSeq(before, LAMBDA y : y.alias = x.alias /\ y.name # "")
                    IN  IF x.name = "" /\ hit # <<>> THEN hit[1] ELSE x
    IN  IF projects = <<>> THEN {}
        ELSE IF grain # {} THEN {named(x) : x \in ToSet(Last(projects))}
        ELSE {all[i] : i \in {k \in DOMAIN all : \A j \in 1..(k-1) : all[j].alias # all[k].alias}}

---------------------------------------------------------------------------
(* A verdict per type of step; a type only one side has is a difference.     *)
Verdict(same) == IF same THEN "EQUIVALENT" ELSE "NOT_EQUIVALENT"
ByType(sql, spark, compared) ==
    IF sql = <<>> /\ spark = <<>> THEN "EQUIVALENT"
    ELSE IF sql = <<>> \/ spark = <<>> THEN "NOT_EQUIVALENT" ELSE compared

ScanVerdict(sql, spark) == Verdict(SameBag(SeqMap(LAMBDA s : s.t, sql), Aliases(spark)))

SqlFilter(s) == (CHOOSE r \in s.refs : TRUE).c
FilterVerdict(sql, spark) == Verdict(SameBag(SeqMap(SqlFilter, sql), SeqMap(LAMBDA s : s.ref.c, spark)))

SparkColumn(c) == [alias |-> c.alias, name |-> IF c.kind = "text" THEN "text" ELSE c.ref.c]
ProjectVerdict(columns, spark) == Verdict(columns = {SparkColumn(c) : c \in ToSet(AllOf(LAMBDA s : s.cols, spark))})

JoinVerdict(sql, spark) ==
    LET sides(j) == [left |-> j.left, right |-> j.right, lk |-> j.lk, rk |-> j.rk, type |-> j.type]
    IN  CASE Len(sql) # Len(spark) -> "NOT_EQUIVALENT"
          [] Len(sql) = Len(spark) /\ (\E j \in ToSet(sql) : Cardinality(j.keys) > 1) -> "UNSUPPORTED"
          [] OTHER -> Verdict(SameBag(SeqMap(JoinSignature, sql), SeqMap(sides, spark)))

(* CASE steps in their order; their conditions cannot be compared.           *)
CaseVerdict(sql, spark) == IF Aliases(sql) = Aliases(spark) THEN "UNSUPPORTED" ELSE "NOT_EQUIVALENT"

(* Spark's frame is spelled out, SQL's is not; they agree when the window is *)
(* a total of its partition.                                                 *)
SqlWindows(sql) == WindowsIn([steps |-> sql])
WindowVerdict(sql, spark) ==
    LET exprs == SqlWindows(sql)
    IN  Verdict(/\ Len(sql) = Len(spark)
                /\ ToSet(exprs) = ToSet(AllOf(LAMBDA s : s.exprs, spark))
                /\ \A e \in ToSet(exprs) : e.order = <<>> /\ e.input # {})

(* SQL puts nulls last, Spark only when descending.                          *)
SortVerdict(sql, spark) ==
    LET columns(s) == AllOf(LAMBDA x : x.order, s)
    IN  Verdict(/\ Len(sql) = Len(spark) /\ columns(sql) = columns(spark)
                /\ ToSet(columns(sql)) \subseteq Descending)

LimitVerdict(sql, spark) == IF Len(sql) > 1 \/ Len(spark) > 1 THEN "UNSUPPORTED" ELSE "EQUIVALENT"

AggregateVerdict(aggs, spark, timed) ==
    LET s == spark[1]
        keys == {k.c : k \in ToSet(s.keys)}
    IN  Verdict(/\ Cardinality(aggs) = 1 /\ Len(spark) = 1
                /\ aggs = {[keys |-> keys, metrics |-> {<<m.ref.c, m.alias>> : m \in ToSet(s.metrics)}]})

(* compare_plans without check_order.  What cannot be compared outranks what *)
(* differs.                                                                  *)
Judged(verdicts) == CASE "UNSUPPORTED" \in verdicts -> "UNSUPPORTED"
                      [] "UNSUPPORTED" \notin verdicts /\ "NOT_EQUIVALENT" \in verdicts -> "NOT_EQUIVALENT"
                      [] OTHER -> "EQUIVALENT"
Compared(p, plan, grain, timed) ==
    LET steps == FlatSteps(p)
        sql(op) == SelectSeq(steps, LAMBDA s : s.op = op)
        spark(op) == SelectSeq(plan.main, LAMBDA s : s.op = op)
        aggs == AggregatesOf(steps, grain, timed)
        by(op, of(_, _)) == ByType(sql(op), spark(op), of(sql(op), spark(op)))
    IN  Judged({ ByType(sql("scan"), spark("read"), ScanVerdict(sql("scan"), spark("read"))),
                 ByType(SetToSeq(aggs), spark("aggregate"), AggregateVerdict(aggs, spark("aggregate"), timed)),
                 ByType(sql("project"), spark("project"),
                        ProjectVerdict(SqlColumns(steps, grain, timed), spark("project"))),
                 by("filter", FilterVerdict), by("join", JoinVerdict), by("case", CaseVerdict),
                 by("window", WindowVerdict), by("sort", SortVerdict), by("limit", LimitVerdict) })
==========================================================================
