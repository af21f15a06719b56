--------------------------- MODULE SqlCompiler ---------------------------
(* The SQL a plan is compiled to, as layers of queries, innermost first      *)
(* (sql/compiler.py, sql/compiler_passes.py).  The text is left out; what is *)
(* kept is every name in it and where it stands.                             *)
(*   layer  [select : seq of out, from : seq of tables, joins : seq of join  *)
(*          steps, where : refs, group : seq of refs, grouped, order : refs, *)
(*          limit]                                                           *)
(*   out    [alias, refs, named : written with AS, over : an aggregate, which*)
(*          may read ungrouped columns]                                      *)
(* An outer layer reads the table Sub, the one before it.                    *)
EXTENDS ComputeSteps, SqlProgramPlan

Sub == "_sub"
Out(alias, refs, named, over) == [alias |-> alias, refs |-> refs, named |-> named, over |-> over]

(* column_pruning: a scan keeps the columns some other step refers to.       *)
(* Metric inputs and sort columns are plain names, not references.           *)
Referenced(step) ==
    CASE step.op \in {"filter", "case"} -> {r.c : r \in step.refs}
      [] step.op = "join"      -> UNION {{k[1].c, k[2]} : k \in step.keys}
      [] step.op = "aggregate" -> {k.ref.c : k \in ToSet(step.by)}
      [] step.op = "project"   -> {i.ref.c : i \in ToSet(step.cols)}
      [] step.op = "window"    -> UNION {{r.c : r \in e.refs} : e \in ToSet(step.exprs)}
      [] OTHER -> {}

ColumnPruning(steps) ==
    LET used == UNION {Referenced(s) : s \in ToSet(steps)}
    IN  SeqMap(LAMBDA s : IF s.op = "scan" THEN Scan(s.t, s.cols \cap used) ELSE s, steps)

(* sort_elimination: a full sort goes when the plan has no limit.            *)
SortElimination(steps) ==
    LET limited == \E s \in ToSet(steps) : s.op = "limit"
    IN  Only(steps, LAMBDA s : ~(s.op = "sort" /\ s.full /\ ~limited))

Optimized(steps) == SortElimination(ColumnPruning(steps))

---------------------------------------------------------------------------
(* _render_flat_sql.                                                         *)
Ops(steps, op) == Only(steps, LAMBDA s : s.op = op)

IsRatio(item) == item.ref.t = "ratio"
IsRaw(item) == item.ref.t = "raw"

(* A key is written t.c or c, a derived one as an expression with AS.        *)
KeyOut(k) == Out(k.alias, {k.ref}, k.alias # k.ref.c, FALSE)

(* A metric over a CASE column inlines the CASE expression.                  *)
MetricOut(m, cases) ==
    LET hit == Only(cases, LAMBDA s : s.alias = m.ref.c)
    IN  Out(m.alias, IF hit # <<>> THEN Last(hit).refs ELSE IF m.ref.c = "" THEN {} ELSE {m.ref}, TRUE, TRUE)

AggregateOuts(agg, cases) ==
    SeqMap(KeyOut, agg.by) \o SeqMap(LAMBDA m : MetricOut(m, cases), agg.metrics)

ProjectOut(i) == IF IsRaw(i) THEN Out(i.alias, {}, TRUE, FALSE)
                 ELSE Out(i.alias, {i.ref}, i.alias # i.ref.c, FALSE)

\* Mutant of Reordered: a column the aggregate does not write is dropped.
ReorderedFound(cols, outs) ==
    Only(outs, LAMBDA o : \E i \in ToSet(cols) : o.alias = i.alias /\ (o.named \/ \E r \in o.refs : r.t # ""))

(* _reorder_aggregation_cols: the aggregate's column of that name, found     *)
(* only where it is written t.c or with AS; else the bare column.            *)
Reordered(cols, outs) ==
    LET found(i) == Only(outs, LAMBDA o : o.alias = i.alias /\ (o.named \/ \E r \in o.refs : r.t # ""))
        bare(i) == IF IsRaw(i) THEN ProjectOut(i) ELSE ProjectOut(Item(i.alias, Ref("", i.ref.c)))
    IN  SeqMap(LAMBDA i : IF found(i) # <<>> THEN found(i)[1] ELSE bare(i), cols)

WindowOut(e) == Out(e.alias, e.refs \cup {Ref("", c) : c \in ToSet(e.order)}, TRUE, FALSE)

Flat(steps) ==
    LET scans == Ops(steps, "scan")
        joins == Ops(steps, "join")
        joined == {j.right : j \in ToSet(joins)}
        agg == Ops(steps, "aggregate")
        project == Ops(steps, "project")
        cases == Ops(steps, "case")
        scanned == Only(scans, LAMBDA s : s.cols # {})
        base == CASE agg # <<>> /\ project # <<>> ->
                       Reordered(Last(project).cols, AggregateOuts(agg[1], cases))
                  [] agg # <<>> /\ project = <<>> -> AggregateOuts(agg[1], cases)
                  [] agg = <<>> /\ project # <<>> -> SeqMap(ProjectOut, Last(project).cols)
                  [] OTHER -> IF scanned = <<>> THEN <<>>
                              ELSE SeqMap(LAMBDA c : Out(c, {Ref(scanned[1].t, c)}, FALSE, FALSE), Sorted(scanned[1].cols))
        extra == SeqMap(LAMBDA s : Out(s.alias, s.refs, TRUE, FALSE), cases)
                 \o FlattenSeq(SeqMap(LAMBDA s : SeqMap(WindowOut, s.exprs), Ops(steps, "window")))
        again(o) == /\ o.alias \in ToSet(Aliases(extra))
                    /\ o.named \/ \A r \in o.refs : r.t = ""
    IN  [select |-> Only(base, LAMBDA o : ~again(o)) \o extra,
         from |-> Only(SeqMap(LAMBDA s : s.t, scans), LAMBDA t : t \notin joined),
         joins |-> joins,
         where |-> UNION {s.refs : s \in ToSet(Ops(steps, "filter"))},
         group |-> IF agg = <<>> THEN <<>> ELSE SeqMap(LAMBDA k : k.ref, agg[1].by),
         grouped |-> agg # <<>>,
         order |-> UNION {{Ref("", c) : c \in ToSet(s.order)} : s \in ToSet(Ops(steps, "sort"))},
         limit |-> \E s \in ToSet(steps) : s.op = "limit"]

Over(select, where, order, limit) ==
    [select |-> select, from |-> <<Sub>>, joins |-> <<>>, where |-> where, group |-> <<>>,
     grouped |-> FALSE, order |-> order, limit |-> limit]

(* SELECT * of a layer.                                                      *)
Star(layer) == SeqMap(LAMBDA o : Out(o.alias, {Ref(Sub, o.alias)}, FALSE, FALSE), layer.select)
\* Mutant of OnSub: references keep the table they had inside.
OnSubKept(refs) == refs
OnSub(refs) == {Ref(Sub, r.c) : r \in refs}

(* _render_window_wrapped_sql: everything up to the window inside; filters,  *)
(* sort and limit outside; the projection is not written at all.             *)
WindowWrapped(steps) ==
    LET at == CHOOSE i \in DOMAIN steps : steps[i].op = "window"
                                       /\ \A j \in (i+1)..Len(steps) : steps[j].op # "window"
        inner == Flat(SubSeq(steps, 1, at))
        rest == SubSeq(steps, at + 1, Len(steps))
    IN  << inner, Over(Star(inner), OnSub(UNION {s.refs : s \in ToSet(Ops(rest, "filter"))}),
                       UNION {{Ref(Sub, c) : c \in ToSet(s.order)} : s \in ToSet(Ops(rest, "sort"))},
                       \E s \in ToSet(rest) : s.op = "limit") >>

NeedsWindowWrap(steps) ==
    LET aliases == UNION {ToSet(Aliases(s.exprs)) : s \in ToSet(Ops(steps, "window"))}
    IN  \E s \in ToSet(Ops(steps, "filter")) : \E r \in s.refs : r.c \in aliases

PlainLayers(steps) == IF NeedsWindowWrap(steps) THEN WindowWrapped(steps) ELSE <<Flat(steps)>>

(* _render_ratio_wrapped_sql: the projection with ratios becomes the outer   *)
(* query, sort and limit behind it too; windows over metrics a layer between.*)
RatioWrapped(steps, ratios) ==
    LET at == CHOOSE i \in DOMAIN steps : steps[i].op = "project"
        metrics == UNION {ToSet(Aliases(s.metrics)) : s \in ToSet(Ops(steps, "aggregate"))}
        late(e) == \E r \in e.refs : r.c \in metrics
        early(s) == IF s.op = "window" THEN [op |-> "window", exprs |-> Only(s.exprs, LAMBDA e : ~late(e))] ELSE s
        lates == Only(FlattenSeq(SeqMap(LAMBDA s : s.exprs, Ops(steps, "window"))), late)
        rest == SubSeq(steps, at + 1, Len(steps))
        inside == Only(SeqMap(early, SubSeq(steps, 1, at - 1)), LAMBDA s : s.op # "window" \/ s.exprs # <<>>)
        onSub(e) == Out(e.alias, OnSub(e.refs) \cup {Ref("", c) : c \in ToSet(e.order)}, TRUE, FALSE)
        middle(inner) == When(lates # <<>>, <<Over(Star(Last(inner)) \o SeqMap(onSub, lates), {}, {}, FALSE)>>)
        under(inner) == inner \o middle(inner)
        ratio(a) == CHOOSE r \in ToSet(ratios) : r.alias = a
        outer(i) == IF IsRatio(i) THEN Out(i.alias, {Ref(Sub, ratio(i.alias).num), Ref(Sub, ratio(i.alias).den)}, TRUE, FALSE)
                    ELSE Out(i.alias, {Ref(Sub, i.ref.c)}, i.alias # i.ref.c, FALSE)
    IN  under(PlainLayers(inside))
        \o << Over(SeqMap(outer, steps[at].cols), {},
                   UNION {{Ref(Sub, c) : c \in ToSet(s.order)} : s \in ToSet(Ops(rest, "sort"))},
                   \E s \in ToSet(rest) : s.op = "limit") >>

(* _compile_core.                                                            *)
LayersOf(steps, ratios) ==
    IF \E s \in ToSet(Ops(steps, "project")) : \E i \in ToSet(s.cols) : IsRatio(i)
    THEN RatioWrapped(steps, ratios) ELSE PlainLayers(steps)
Layers(plan, ratios) == LayersOf(Optimized(plan.steps), ratios)

(* compile_program: refused when the DAG check has a question or there is no *)
(* order; producers create their temp, which is dropped at the end.          *)
CompiledProgram(p, ratios) ==
    IF DagQuestions(p) # {} \/ p.order = <<>> THEN [err |-> TRUE, statements |-> <<>>, cleanup |-> <<>>]
    ELSE LET creates(s) == IF s.kind = "PRODUCER" THEN s.produces ELSE ""
             compiled(s) == [id |-> s.id, layers |-> Layers(s.plan, ratios), creates |-> creates(s)]
         IN  [err |-> FALSE, statements |-> [i \in DOMAIN p.order |-> compiled(Statement(p, p.order[i]))],
              cleanup |-> Only(SeqMap(LAMBDA id : creates(Statement(p, id)), p.order), LAMBDA t : t # "")]

---------------------------------------------------------------------------
(* What DuckDB makes of the names (external): env gives every table's        *)
(* columns.  A qualified name needs its table in scope; a bare one is a      *)
(* column of exactly one table, or the alias of another column of the SELECT.*)
Base(t, env) == IF t \in DOMAIN env THEN t
                ELSE CHOOSE b \in DOMAIN env : t \in {SelfLeft(b), SelfRight(b)}
Known(t, env) == \E b \in DOMAIN env : t \in {b, SelfLeft(b), SelfRight(b)}
Scope(layer) == ToSet(layer.from) \cup {j.right : j \in ToSet(layer.joins)}
TablesWith(layer, env, c) == {t \in Scope(layer) : Known(t, env) /\ c \in env[Base(t, env)]}

Binds(layer, env, r, own) ==
    IF r.t # "" THEN r.t \in Scope(layer) /\ Known(r.t, env) /\ r.c \in env[Base(r.t, env)]
    ELSE \/ Cardinality(TablesWith(layer, env, r.c)) = 1
         \/ TablesWith(layer, env, r.c) = {} /\ r.c \in ToSet(Aliases(layer.select)) \ own

(* In a grouped query a column outside an aggregate is a group key, by its   *)
(* name or by the alias it is selected under.                                *)
Grouped(layer, o) ==
    \/ ~layer.grouped \/ o.over \/ Ref("", o.alias) \in ToSet(layer.group)
    \/ \A r \in o.refs : \/ \E g \in ToSet(layer.group) : g.c = r.c
                         \/ \E x \in ToSet(layer.select) : x.over /\ x.alias = r.c /\ r.t = ""

LayerBinds(layer, env) ==
    /\ \A t \in Scope(layer) : Known(t, env)
    /\ \A o \in ToSet(layer.select) : (\A r \in o.refs : Binds(layer, env, r, {o.alias})) /\ Grouped(layer, o)
    /\ \A r \in layer.where \cup ToSet(layer.group) \cup layer.order : Binds(layer, env, r, {})
    /\ \A j \in ToSet(layer.joins) : \A k \in j.keys : Binds(layer, env, k[1], {}) /\ k[2] \in env[Base(j.right, env)]

LayersBind(layers, env) ==
    \A i \in DOMAIN layers :
        LayerBinds(layers[i], IF i = 1 THEN env ELSE (Sub :> ToSet(Aliases(layers[i-1].select))) @@ env)
==========================================================================
