------------------------ MODULE SqlPlanValidator ------------------------
(* SqlBuildPlanValidator.validate: the questions about one plan that block   *)
(* it (sql/validator.py, validation/window_validator.py,                     *)
(* validation/label_validator.py, sql/models.py).  The pipeline passes it    *)
(* neither the join candidates nor the spec, so the checks that need them    *)
(* are stated apart, in AgainstSpec.  Questions are named by their kind.     *)
EXTENDS ComputeSteps

CONSTANTS TimeNamed,    \* columns whose name holds a time word
          Large,        \* tables of a million rows or more
          Enums         \* the enumeration values declared for any column

Manifest(spec, t) == IF t \in TableNames(spec) THEN ToSet(ColumnsOf(TableNamed(spec, t))) ELSE {}

UnknownTables(plan, spec) == {s \in ToSet(Steps(plan, "scan")) : s.t \notin TableNames(spec)}
UnknownColumns(plan, spec) ==
    {s \in ToSet(Steps(plan, "scan")) : s.t \in TableNames(spec) /\ ~(s.cols \subseteq Manifest(spec, s.t))}

(* types_are_compatible: unknown types agree with every type.                *)
TypeGroups == {{"bigint", "integer"}, {"varchar", "text"}, {"double"}, {"decimal"}, {"date", "timestamp"}}
Alike(a, b) == a = b \/ "" \in {a, b} \/ \E g \in TypeGroups : {a, b} \subseteq g

KeyTypesDiffer(plan, spec) ==
    {j \in ToSet(Steps(plan, "join")) : \E k \in j.keys :
        /\ k[1].c \in Manifest(spec, k[1].t) /\ k[2] \in Manifest(spec, j.right)
        /\ ~Alike(TypeOf[k[1].c], TypeOf[k[2]])}

(* A CASE result outside every declared enumeration, when there is any.      *)
UndeclaredValues(plan) ==
    {s \in ToSet(Steps(plan, "case")) : Enums # {} /\ ~(s.values \subseteq Enums)}

(* A large table is scanned with a filter on a column of it that looks like  *)
(* a time.                                                                   *)
TimeFiltered(plan, t) ==
    \E s \in ToSet(Steps(plan, "filter")) : \E r \in s.refs : r.t = t /\ r.c \in TimeNamed
FullScans(plan, spec) ==
    {s \in ToSet(Steps(plan, "scan")) : s.t \in Large \cap TableNames(spec) /\ ~TimeFiltered(plan, s.t)}

(* A window partitioned by a column of a table that is not registered.       *)
WindowTables(plan, spec) ==
    {s \in ToSet(Steps(plan, "window")) : \E e \in ToSet(s.exprs) :
        \E r \in e.by : r.t # "" /\ r.t \notin TableNames(spec)}

(* What the projections behind an aggregation may name; a ratio needs its    *)
(* two terms, and is itself available afterwards.                            *)
Available(step, avail) ==
    CASE step.op = "aggregate" -> ToSet(Aliases(step.by)) \cup ToSet(Aliases(step.metrics))
      [] step.op = "case"    -> avail \cup {step.alias}
      [] step.op = "window"  -> avail \cup ToSet(Aliases(step.exprs))
      [] OTHER -> avail

Terms(ratios, a) == UNION {{r.num, r.den} : r \in {x \in ToSet(ratios) : x.alias = a}}

UngroupedColumns(plan, ratios) ==
    LET at == {i \in DOMAIN plan.steps : plan.steps[i].op = "aggregate"}
        before(i) == FoldLeft(LAMBDA acc, s : Available(s, acc), {}, SubSeq(plan.steps, 1, i - 1))
        missing(item, avail) == IF item.ref.t = "ratio" THEN ~(Terms(ratios, item.alias) \subseteq avail)
                                ELSE item.ref.t # "raw" /\ {item.ref.c, item.alias} \cap avail = {}
    IN  {i \in DOMAIN plan.steps :
            /\ plan.steps[i].op = "project" /\ \E j \in at : j < i
            /\ \E item \in ToSet(plan.steps[i].cols) : missing(item, before(i))}

(* The checks made with the spec at hand: every dimension is a group key,    *)
(* every metric is aggregated as declared.                                   *)
MissingDimensions(plan, spec) ==
    LET declared == {IF d.part THEN d.name ELSE d.col : d \in ToSet(spec.dims)}
    IN  {s \in ToSet(Steps(plan, "aggregate")) : ~(declared \subseteq ToSet(Aliases(s.by)))}

ChangedMetrics(plan, spec) ==
    {s \in ToSet(Steps(plan, "aggregate")) : \E m \in ToSet(s.metrics), d \in ToSet(spec.metrics) :
        m.alias = d.alias /\ d.ref.c # "" /\ m.ref.c # d.ref.c}

(* The evidence gate: a join whose candidate is unknown, weak or without     *)
(* evidence.                                                                 *)
Ungated(plan, hops) ==
    {j \in ToSet(Steps(plan, "join")) :
        ~\E h \in ToSet(hops) : h.id = j.ref /\ h.level \in {"STRONG", "MEDIUM"}}

AgainstSpec(plan, spec, hops) == MissingDimensions(plan, spec) \cup ChangedMetrics(plan, spec) \cup Ungated(plan, hops)

PlanBlocked(plan, spec) ==
    \/ plan.steps = <<>>
    \/ Len(Steps(plan, "join")) > 1
    \/ UnknownTables(plan, spec) \cup UnknownColumns(plan, spec) \cup KeyTypesDiffer(plan, spec)
       \cup UndeclaredValues(plan) \cup FullScans(plan, spec) \cup WindowTables(plan, spec) # {}
    \/ UngroupedColumns(plan, spec.ratios) # {}
==========================================================================
