-------------------------- MODULE ComputeSteps --------------------------
(* A spec's compute steps: what the parser accepts, what the validator lets  *)
(* through and the plan SqlBuildPlanBuilder makes of each step               *)
(* (developer_spec/parser.py, planning/compute_step_validator.py,            *)
(* planning/step_output_schema.py, planning/sql_build_plan.py).              *)
(*   step    [name, source : seq of names, listed : is the source a list,    *)
(*            by : seq of refs, metrics : items with agg, case : column or   *)
(*            "", when : seq of its condition columns, phase : is its phase  *)
(*            decided, exprs : seq of columns,                               *)
(*            joins : seq of [lt, rt, lk, rk, type]]                         *)
(* A spec has these in its field steps.                                      *)
(* FkOf[c] is the set of columns k such that the name of c ends in "_" k;    *)
(* TypeOf[c] is a column's declared type or "", ExprType[c] that of the      *)
(* expression named c.                                                       *)
EXTENDS SqlBuildPlan

CONSTANTS FkOf, TypeOf, ExprType

Bridge(name) == "__bridge_" \o name

---------------------------------------------------------------------------
(* DeveloperSpecParser._parse_compute_steps: a step refers to earlier steps  *)
(* only, so the declared order is a topological one.                         *)
Declared(steps, i) == {steps[j].name : j \in 1..(i-1)}

SourceAccepted(steps, i) ==
    /\ steps[i].source # <<>>
    /\ Cardinality(ToSet(steps[i].source)) = Len(steps[i].source)
    /\ ToSet(steps[i].source) \subseteq {"input"} \cup Declared(steps, i)

InputColumnsDeclared(spec, cs) ==
    "input" \in ToSet(cs.source) =>
        \A m \in ToSet(cs.metrics) : \E t \in ToSet(spec.tables) : m.ref.c \in ToSet(ColumnsOf(t))

ParseAccepts(spec) ==
    /\ spec.tables # <<>>
    /\ \A i, j \in DOMAIN spec.tables : i # j => spec.tables[i].alias # spec.tables[j].alias
    /\ \A i, j \in DOMAIN spec.steps : i # j => spec.steps[i].name # spec.steps[j].name
    /\ \A i \in DOMAIN spec.steps : SourceAccepted(spec.steps, i)
                                 /\ InputColumnsDeclared(spec, spec.steps[i])
    /\ \A j \in ToSet(spec.joins) :
           {j.lt, j.rt} \subseteq TableNames(spec) \cup {s.name : s \in ToSet(spec.steps)}

(* The six allowances: gaps the parser lets through with a warning.          *)
ParseWarnings(spec) ==
    {<<"W001", t.alias, c>> : t \in ToSet(spec.tables), c \in {x \in DOMAIN TypeOf : TypeOf[x] = ""}}

---------------------------------------------------------------------------
(* ComputeStepValidator and the output schemas it accumulates: a schema is   *)
(* a set of columns with their types and the groups of columns unique in it. *)
NoSchema == [type |-> <<>>, unique |-> {}]

AggregateType(m, upstream) ==
    CASE m.agg = "COUNT" -> "bigint"
      [] m.agg = "AVG"   -> "double"
      [] OTHER -> IF TypeOf[m.ref.c] # "" THEN TypeOf[m.ref.c]
                  ELSE IF m.ref.c \in DOMAIN upstream THEN upstream[m.ref.c] ELSE ""

UpstreamType(cs, c, schemas) ==
    LET holders == Only(cs.source, LAMBDA s : s \in DOMAIN schemas /\ c \in DOMAIN schemas[s].type)
    IN  IF holders # <<>> /\ schemas[holders[1]].type[c] # "" THEN schemas[holders[1]].type[c]
        ELSE TypeOf[c]

OutputSchema(cs, schemas) ==
    LET by == {r.c : r \in ToSet(cs.by)}
        up == IF ~cs.listed /\ cs.source[1] \in DOMAIN schemas THEN schemas[cs.source[1]].type ELSE <<>>
        metric(a) == CHOOSE m \in ToSet(cs.metrics) : m.alias = a
        aliases == ToSet(Aliases(cs.metrics))
        case == IF cs.case = "" THEN {} ELSE {cs.case}
    IN  [type |-> [c \in by \cup aliases \cup case \cup ToSet(cs.exprs) |->
                      CASE c \in ToSet(cs.exprs) -> ExprType[c]
                        [] c \in case            -> "varchar"
                        [] c \in aliases         -> AggregateType(metric(c), up)
                        [] OTHER                 -> UpstreamType(cs, c, schemas)],
         unique |-> IF by = {} THEN {} ELSE {by}]

(* The columns a join side offers: an earlier step's schema (under its name  *)
(* or its temp's) or a table of the manifest; the left side asks the steps   *)
(* first, the right side the manifest.  The schema of a step that passes all *)
(* columns on is empty, not unknown.                                         *)
KnownStep(name, schemas) == \E s \in DOMAIN schemas : name \in {s, Temp(s)}
KnownSide(spec, a, schemas) == a \in TableNames(spec) \/ KnownStep(a, schemas)

StepSchema(name, schemas) ==
    CASE name \in DOMAIN schemas -> schemas[name]
      [] name \notin DOMAIN schemas /\ KnownStep(name, schemas) ->
             schemas[CHOOSE s \in DOMAIN schemas : name = Temp(s)]
      [] OTHER -> NoSchema

TableSchema(spec, a) ==
    IF a \notin TableNames(spec) THEN NoSchema
    ELSE LET t == TableNamed(spec, a)
         IN  [type |-> [c \in ToSet(ColumnsOf(t)) |-> TypeOf[c]], unique |-> t.unique]

LeftSide(spec, j, schemas) ==
    IF KnownStep(j.lt, schemas) THEN StepSchema(j.lt, schemas) ELSE TableSchema(spec, j.lt)
RightSide(spec, j, schemas) ==
    IF j.rt \in TableNames(spec) THEN TableSchema(spec, j.rt) ELSE StepSchema(j.rt, schemas)

Compatible(a, b) ==
    a = b \/ {a, b} \in {{"bigint", "integer"}, {"varchar", "text"}, {"decimal", "double"}}

(* A known right side without the key is a warning and ends the checks of    *)
(* the join; every other failure blocks, an unknown type among them.         *)
JoinBlocked(spec, j, schemas) ==
    LET l == LeftSide(spec, j, schemas)
        r == RightSide(spec, j, schemas)
        lacks(a, side, key) == KnownSide(spec, a, schemas) /\ key \notin DOMAIN side.type
        typed(side, key) == IF key \in DOMAIN side.type THEN side.type[key] ELSE ""
        unique == TableSchema(spec, j.rt).unique \cup StepSchema(j.rt, schemas).unique
    IN  \/ lacks(j.lt, l, j.lk)
        \/ /\ ~lacks(j.rt, r, j.rk)
           /\ \/ "" \in {typed(l, j.lk), typed(r, j.rk)}
              \/ ~Compatible(typed(l, j.lk), typed(r, j.rk))
              \/ j.type # "LEFT" /\ {j.rk} \notin unique

StepBlocked(spec, cs, schemas) ==
    \/ \E j \in ToSet(cs.joins) : JoinBlocked(spec, j, schemas)
    \/ cs.case # "" /\ ~cs.phase

---------------------------------------------------------------------------
(* SqlBuildPlanBuilder.build_from_steps.                                     *)
TopoSortSteps(steps) ==
    LET names == {s.name : s \in ToSet(steps)}
        step(n) == CHOOSE s \in ToSet(steps) : s.name = n
    IN  KahnOrder(names, [n \in names |-> ToSet(step(n).source) \cap names])

(* Join keys between a table and the columns of an upstream temp: all common *)
(* columns, else the first declared join with a key on the other side.       *)
AutoJoinKeys(table, up, spec) ==
    LET common == ToSet(ColumnsOf(table)) \cap up
        usable == Only(spec.joins, LAMBDA j :
                     \/ j.lt = table.alias /\ j.rk \in up
                     \/ j.lt # table.alias /\ j.rt = table.alias /\ j.lk \in up)
        j1 == usable[1]
    IN  IF common # {} THEN {<<c, c>> : c \in common}
        ELSE IF usable = <<>> THEN {}
        ELSE {IF j1.lt = table.alias THEN <<j1.rk, j1.lk>> ELSE <<j1.lk, j1.rk>>}

FkCandidates(source, target) ==
    Only(ColumnsOf(source), LAMBDA c : \E k \in ToSet(target.keys) : k # c /\ k \in FkOf[c])

BridgeCandidates(table, up, spec) ==
    Only(spec.tables, LAMBDA b : /\ b.alias # table.alias
                                      /\ ToSet(ColumnsOf(b)) \cap up # {}
                                      /\ FkCandidates(table, b) # <<>>)

(* The metrics of a single-upstream step whose table has no join path to the *)
(* upstream but a bridge table; only the first one is bridged.               *)
Bridgeable(cs, out, spec) ==
    LET up == ToSet(out[cs.source[1]])
    IN  IF Len(cs.source) # 1 \/ cs.source[1] = "input" THEN <<>>
        ELSE Only(cs.metrics, LAMBDA m :
                 /\ m.ref.t \in TableNames(spec) /\ m.ref.c \notin up
                 /\ AutoJoinKeys(TableNamed(spec, m.ref.t), up, spec) = {}
                 /\ BridgeCandidates(TableNamed(spec, m.ref.t), up, spec) # <<>>)

\* Mutant of Filters: compute steps forget the tables' filters.
FiltersNone(t) == <<>>
Filters(t) == TableFilters(t, t.alias)

BridgePlan(cs, out, spec) ==
    LET up == ToSet(out[cs.source[1]])
        needed == TableNamed(spec, Bridgeable(cs, out, spec)[1].ref.t)
        b == BridgeCandidates(needed, up, spec)[1]
        fk == FkCandidates(needed, b)[1]
        key == CHOOSE k \in ToSet(b.keys) : k \in FkOf[fk]
        common == Only(ColumnsOf(b), LAMBDA c : c \in up)
        cols == {m.ref.c : m \in {x \in ToSet(cs.metrics) : x.ref.t = needed.alias}}
        project == SeqMap(LAMBDA c : Item(c, Ref(b.alias, c)), common)
                   \o SeqMap(LAMBDA c : Item(c, Ref(needed.alias, c)), Sorted(cols))
    IN  [id |-> Bridge(cs.name), final |-> FALSE, err |-> FALSE,
         steps |-> <<Scan(needed.alias, {fk} \cup cols)>> \o Filters(needed)
                   \o <<Scan(b.alias, {key} \cup ToSet(common))>> \o Filters(b)
                   \o << Join("INNER", b.alias, {<<Ref(needed.alias, fk), key>>}),
                         [op |-> "project", cols |-> project] >>]

Bridged(cs) == [cs EXCEPT !.source = <<cs.source[1], Bridge(cs.name)>>, !.listed = TRUE]

(* The columns a step takes from a table: what it names of them, plus keys.  *)
NamedColumns(cs) == ({r.c : r \in ToSet(cs.by)} \cup {m.ref.c : m \in ToSet(cs.metrics)}) \ {""}
ColumnsForTable(cs, t, extra) == (NamedColumns(cs) \cup extra) \cap ToSet(ColumnsOf(t))

(* The table of an input step without joins: the first with the most of the  *)
(* step's names.                                                             *)
MatchTable(cs, spec) ==
    LET named == {r.c : r \in {x \in ToSet(cs.by) : x.t = ""}}
                 \cup {m.ref.c : m \in {x \in ToSet(cs.metrics) : x.ref.t = ""}}
        score(t) == Cardinality(named \cap ToSet(ColumnsOf(t)))
        best == CHOOSE i \in DOMAIN spec.tables :
                    /\ \A j \in DOMAIN spec.tables : score(spec.tables[j]) <= score(spec.tables[i])
                    /\ \A j \in 1..(i-1) : score(spec.tables[j]) < score(spec.tables[i])
    IN  spec.tables[best]

(* Source is the input: scan and join the tables of the step's joins (or     *)
(* the spec's joins between tables), or scan the matching table.             *)
InputSource(cs, spec) ==
    LET declared == Only(spec.joins, LAMBDA j : {j.lt, j.rt} \subseteq TableNames(spec))
        joins == IF cs.joins # <<>> THEN cs.joins ELSE declared
        scan(a, key) == <<Scan(a, ColumnsForTable(cs, TableNamed(spec, a), {key}))>>
                        \o Filters(TableNamed(spec, a))
        join(j) == Join(j.type, j.rt, {<<Ref(j.lt, j.lk), j.rk>>})
        only == MatchTable(cs, spec)
    IN  IF joins = <<>> THEN Built(<<Scan(only.alias, NamedColumns(cs))>> \o Filters(only))
        ELSE IF \E j \in ToSet(joins) : ~({j.lt, j.rt} \subseteq TableNames(spec)) THEN Failed
        ELSE Built(scan(joins[1].lt, joins[1].lk)
                   \o FlattenSeq(SeqMap(LAMBDA j : scan(j.rt, j.rk) \o <<join(j)>>, joins)))

(* One upstream step: its temp, joined to the tables its metrics need (or to *)
(* the declared one).                                                        *)
UpstreamSource(cs, out, spec) ==
    LET src == cs.source[1]
        up == ToSet(out[src])
        temp == Temp(src)
        missing == Only(cs.metrics, LAMBDA m : m.ref.c \notin up /\ m.ref.t \in TableNames(spec))
        needed == Dedup(SeqMap(LAMBDA m : m.ref.t, missing))
        keys(a) == AutoJoinKeys(TableNamed(spec, a), up, spec)
        cols(a) == {m.ref.c : m \in {x \in ToSet(missing) : x.ref.t = a}}
        read == NamedColumns(cs) \cap up
        scan == Scan(temp, IF read = {} /\ needed = <<>> THEN up ELSE read)
        auto(a) == <<Scan(a, cols(a) \cup {k[2] : k \in keys(a)})>> \o Filters(TableNamed(spec, a))
                   \o <<Join("INNER", a, {<<Ref(temp, k[1]), k[2]>> : k \in keys(a)})>>
        j == cs.joins[1]
    IN  CASE cs.joins # <<>> ->
              IF Len(cs.joins) # 1 \/ j.rt \notin TableNames(spec) THEN Failed
              ELSE Built(<<scan, Scan(j.rt, ColumnsForTable(cs, TableNamed(spec, j.rt), {j.rk}))>>
                         \o Filters(TableNamed(spec, j.rt)) \o <<Join(j.type, j.rt, {<<Ref(temp, j.lk), j.rk>>})>>)
          [] cs.joins = <<>> /\ \E a \in ToSet(needed) : keys(a) = {} -> Failed
          [] OTHER -> Built(<<scan>> \o FlattenSeq(SeqMap(auto, needed)))

(* Several sources: every temp, joined pairwise by a declared join of these  *)
(* names that has keys, else over a bridge by the first common column, else  *)
(* CROSS JOIN.                                                               *)
DeclaredKeys(spec, l, r) ==
    LET hits == Only(spec.joins, LAMBDA j : {j.lt, j.rt} = {l, r})
        j == Last(hits)
    IN  IF hits = <<>> \/ "" \in {j.lk, j.rk} THEN {} ELSE {IF j.lt = l THEN <<j.lk, j.rk>> ELSE <<j.rk, j.lk>>}

BridgeKeys(cs, out, l, r) ==
    LET common == ToSet(out[l]) \cap ToSet(out[r])
    IN  IF Bridge(cs.name) \notin {l, r} \/ common = {} THEN {} ELSE {<<Least(common), Least(common)>>}

ConfluenceSource(cs, out, spec) ==
    LET scans == SeqMap(LAMBDA s : Scan(Temp(s), ToSet(out[s])), cs.source)
        keys(i) == LET d == DeclaredKeys(spec, cs.source[i-1], cs.source[i])
                   IN  IF d # {} THEN d ELSE BridgeKeys(cs, out, cs.source[i-1], cs.source[i])
        join(i) == Join(IF keys(i) = {} THEN "CROSS" ELSE "INNER", Temp(cs.source[i]),
                        {<<Ref(Temp(cs.source[1]), k[1]), k[2]>> : k \in keys(i)})
    IN  Built(scans \o [i \in 1..(Len(cs.source) - 1) |-> join(i+1)])

(* The sources of a confluence that output a column.                         *)
Holders(cs, out, c) == Only(cs.source, LAMBDA s : c \in ToSet(out[s]))

(* _bind_confluence_aggregate: a metric reads the only source that has its   *)
(* column; an output column only one source has is added to the group keys.  *)
ConfluenceAggregate(cs, out, spec) ==
    LET by == SeqMap(LAMBDA r : Ref(IF Len(Holders(cs, out, r.c)) > 1
                                    THEN Temp(Holders(cs, out, r.c)[1]) ELSE "", r.c), cs.by)
        named(m) == Only(Holders(cs, out, m.ref.c), LAMBDA s : m.ref.t \in {s, Temp(s)})
        holder(m) == LET h == Holders(cs, out, m.ref.c)
                     IN  IF Len(h) = 1 THEN h ELSE named(m)
        key(r) == Item(r.c, r)
        taken == {r.c : r \in ToSet(by)} \cup ToSet(Aliases(cs.metrics))
        passed == Only(spec.outputs, LAMBDA c : c \notin taken /\ Holders(cs, out, c) # <<>>)
        ambiguous == \/ \E m \in ToSet(cs.metrics) : Len(Holders(cs, out, m.ref.c)) > 1 /\ Len(named(m)) # 1
                     \/ \E c \in ToSet(passed) : Len(Holders(cs, out, c)) > 1
        bound(m) == Item(m.alias, Ref(IF holder(m) = <<>> THEN m.ref.t ELSE Temp(holder(m)[1]), m.ref.c))
    IN  IF ambiguous THEN Failed
        ELSE Built(<<[op |-> "aggregate", metrics |-> SeqMap(bound, cs.metrics),
                      by |-> SeqMap(key, by) \o SeqMap(LAMBDA c : Item(c, Ref(Temp(Holders(cs, out, c)[1]), c)), passed)]>>)

(* A metric's prefix counts only where the step reads the input or the table *)
(* was joined in automatically; otherwise its column is looked up in source. *)
StepAggregate(cs, source, joined) ==
    LET in(r) == IF r.t # "" /\ (source = "" \/ r.t \in joined) THEN r.t ELSE source
    IN  [op |-> "aggregate",
         by |-> SeqMap(LAMBDA r : Item(r.c, Ref(IF r.t # "" THEN r.t ELSE source, r.c)), cs.by),
         metrics |-> SeqMap(LAMBDA m : Item(m.alias, Ref(in(m.ref), m.ref.c)), cs.metrics)]

(* Raw conditions are text; the others are columns of the first source.      *)
CaseStep(cs) ==
    LET t == IF cs.listed THEN Temp(cs.source[1]) ELSE ""
    IN  When(cs.case # "", <<[op |-> "case", alias |-> cs.case, pre |-> FALSE, values |-> {},
                              refs |-> {Ref(t, c) : c \in ToSet(cs.when)}]>>)

\* Mutant of Passthrough: the case column is not passed on.
PassthroughNoCase(cs) == SeqMap(LAMBDA c : Item(c, Ref("", c)), Dedup(SeqMap(LAMBDA r : r.c, cs.by) \o Aliases(cs.metrics)))

(* _build_compute_step_passthrough: group keys, metrics, case column.        *)
Passthrough(cs) ==
    SeqMap(LAMBDA c : Item(c, Ref("", c)),
           Dedup(SeqMap(LAMBDA r : r.c, cs.by) \o Aliases(cs.metrics) \o When(cs.case # "", <<cs.case>>)))

(* A step that computes nothing passes all upstream columns on, the first    *)
(* source of an ambiguous one.                                               *)
UpstreamColumns(cs, out) ==
    SeqMap(LAMBDA c : Item(c, Ref(IF Len(Holders(cs, out, c)) > 1 THEN Temp(Holders(cs, out, c)[1]) ELSE "", c)),
           Dedup(FlattenSeq(SeqMap(LAMBDA s : out[s], cs.source))))

Raw(alias) == Ref("raw", alias)         \* an expression kept as text

IntermediateProject(cs, out) ==
    [op |-> "project",
     cols |-> (IF cs.metrics = <<>> /\ cs.case = "" /\ cs.source # <<"input">>
               THEN UpstreamColumns(cs, out) ELSE Passthrough(cs))
              \o SeqMap(LAMBDA c : Item(c, Raw(c)), cs.exprs)]

(* The final step projects the spec's outputs; CASE and window columns are   *)
(* left to the expressions the compiler appends.                             *)
FinalTail(cs, spec) ==
    LET window == WindowStep(spec, "")
        drop == IF spec.ratios = <<>> THEN WindowAliases(window) \cup {cs.case} ELSE {}
    IN  window \o When(window # <<>>, AfterWindow(spec))
        \o <<Project(spec, IF cs.listed THEN Temp(cs.source[1]) ELSE "", NoOverrides, drop)>>
        \o SortAndLimit(spec)

(* The body of the loop over the sorted steps, once bridged.                 *)
StepSource(cs, out, spec) ==
    CASE cs.source = <<"input">> -> InputSource(cs, spec)
      [] Len(cs.source) = 1 /\ cs.source # <<"input">> -> UpstreamSource(cs, out, spec)
      [] OTHER -> ConfluenceSource(cs, out, spec)

StepMetrics(cs, source, out, spec) ==
    LET joined == {s.right : s \in {x \in ToSet(source.steps) : x.op = "join"}}
        temp == IF cs.source = <<"input">> THEN "" ELSE Temp(cs.source[1])
    IN  CASE cs.metrics = <<>> -> Built(<<>>)
          [] cs.metrics # <<>> /\ cs.listed -> ConfluenceAggregate(cs, out, spec)
          [] OTHER -> Built(<<StepAggregate(cs, temp, IF cs.joins = <<>> THEN joined ELSE {})>>)

StepPlan(cs, isFinal, source, agg, tail) ==
    [id |-> cs.name, final |-> isFinal, err |-> source.err \/ agg.err,
     steps |-> IF source.err \/ agg.err THEN <<>>
               ELSE source.steps \o CaseStep(cs) \o agg.steps \o tail]

StepFrom(cs, isFinal, source, out, spec) ==
    StepPlan(cs, isFinal, source, StepMetrics(cs, source, out, spec),
             IF isFinal THEN FinalTail(cs, spec) ELSE <<IntermediateProject(cs, out)>>)

BuildStep(cs, isFinal, out, spec) == StepFrom(cs, isFinal, StepSource(cs, out, spec), out, spec)

OutputsOf(plan) == Aliases(Last(Steps(plan, "project")).cols)
==========================================================================
