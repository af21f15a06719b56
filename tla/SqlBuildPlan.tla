-------------------------- MODULE SqlBuildPlan --------------------------
(* SqlBuildPlanBuilder without compute steps: the plan of one table, of one  *)
(* join and of a chain of joins (planning/sql_build_plan.py).  Names are in  *)
(* normalised form; literals and operators of predicates are left out.       *)
(*   table  [alias, source, keys, biz : seqs of columns, unique : set of     *)
(*           sets, filters : seq of columns, time : time field or ""]        *)
(*   item   [alias, ref] : a metric, a group key or a projected column       *)
(*   rule   [out, tree : "leaf" | "and" | "or" | "not", leaves : seq of      *)
(*           [c, kind : "cmp" | "null" | "part"], pre : before aggregation,   *)
(*           values : set of results]                                        *)
(*   spec   [tables, joins, metrics : items with agg, dims : [name, col,     *)
(*           table or "", part], derived : [name, col, table], labels, cases *)
(*           : rules, windows : [alias, fn, by, order, input], after : seq   *)
(*           of columns, ratios : [alias, num, den], outputs, grain, sort,   *)
(*           limit, range : "none", a column or "" (the table's own)]        *)
(*   hop    [id, left, right, lk, rk, type, level] : a join candidate        *)
EXTENDS SqlPlanBase

Item(alias, ref) == [alias |-> alias, ref |-> ref]
Filter(refs) == [op |-> "filter", refs |-> refs]
Failed == [err |-> TRUE, steps |-> <<>>]
Built(steps) == [err |-> FALSE, steps |-> steps]
When(cond, s) == IF cond THEN s ELSE <<>>

ColumnsOf(t) == t.keys \o t.biz
TableNamed(spec, a) == CHOOSE t \in ToSet(spec.tables) : t.alias = a
TableNames(spec) == {t.alias : t \in ToSet(spec.tables)}
DimsNamed(spec, n) == Only(spec.dims, LAMBDA d : d.name = n)
Rules(spec) == spec.labels \o spec.cases
RuleOutputs(spec) == {r.out : r \in ToSet(Rules(spec))}

(* A derived dimension may name its table by alias or by its real name.      *)
Resolve(spec, name) ==
    LET hit == Only(spec.tables, LAMBDA t : t.source = name)
    IN  IF hit = <<>> THEN name ELSE hit[1].alias
OwnerOf(spec, c) ==
    LET hit == Only(spec.tables, LAMBDA t : c \in ToSet(ColumnsOf(t)))
    IN  IF hit = <<>> THEN "" ELSE hit[1].alias

RequiredColumns(spec, alias, t) ==
    LET mapped(o) == IF DimsNamed(spec, o) = <<>> THEN o ELSE Last(DimsNamed(spec, o)).col
        wanted == {m.ref.c : m \in ToSet(spec.metrics)} \cup ToSet(spec.sort)
                  \cup {d.col : d \in {x \in ToSet(spec.dims) : x.table \in {"", alias}}}
                  \cup {mapped(o) : o \in ToSet(spec.outputs)}
    IN  wanted \cap ToSet(ColumnsOf(t))

DerivedColumns(spec, alias) == {d.col : d \in {x \in ToSet(spec.derived) : x.table = alias}}

TableFilters(t, alias) == SeqMap(LAMBDA c : Filter({Ref(alias, c)}), t.filters)

(* _build_time_range_filter: one or two filters on the declared column or    *)
(* the table's time field; none when there is no column.                     *)
TimeRange(spec, alias) ==
    LET own == Only(spec.tables, LAMBDA t : t.alias = alias)
        c == IF spec.range # "" THEN spec.range ELSE IF own = <<>> THEN "" ELSE own[1].time
    IN  When(spec.range # "none" /\ c # "", <<Filter({Ref(alias, c)})>>)

---------------------------------------------------------------------------
(* CASE steps of label rules and case rules.  A column that is an output is  *)
(* referred to by its name alone, any other as one of the first table.       *)
OutputNames(spec) == ToSet(spec.outputs) \cup ToSet(Aliases(spec.metrics))

LeafRef(spec, leaf, fromDict) ==
    LET first == spec.tables[1].alias
        hit == Only(spec.derived, LAMBDA d : d.name = leaf.c)
    IN  CASE leaf.kind = "part" -> Ref(first, leaf.c)
          [] leaf.kind # "part" /\ hit # <<>> /\ (fromDict \/ leaf.kind = "cmp") ->
                Ref(Resolve(spec, Last(hit).table), Last(hit).col)
          [] OTHER -> Ref(IF leaf.c \in OutputNames(spec) THEN "" ELSE first, leaf.c)

Unbuildable(rule) == rule.tree = "not" \/ (rule.tree \in {"and", "or"} /\ Len(rule.leaves) < 2)

CaseSteps(spec) ==
    LET step(r, dict) == [op |-> "case", alias |-> r.out, pre |-> ~dict /\ r.pre, values |-> r.values,
                          refs |-> {LeafRef(spec, l, dict) : l \in ToSet(r.leaves)}]
        all == SeqMap(LAMBDA r : step(r, FALSE), spec.labels) \o SeqMap(LAMBDA r : step(r, TRUE), spec.cases)
    IN  Kept(all, {i \in DOMAIN all : \A j \in 1..(i-1) : all[j].alias # all[i].alias})

PreCases(spec) == Only(CaseSteps(spec), LAMBDA s : s.pre)
PostCases(spec) == Only(CaseSteps(spec), LAMBDA s : ~s.pre)

(* _build_window_step: functions outside the enumeration are skipped, and a  *)
(* ranking gets the grain appended as tie-breaker.                           *)
RankFunctions == {"ROW_NUMBER", "RANK", "DENSE_RANK"}
WindowFunctions == RankFunctions \cup {"NTILE", "LAG", "LEAD", "SUM", "AVG", "COUNT"}

WindowStep(spec, table) ==
    LET order(w) == w.order \o When(w.fn \in RankFunctions,
                        Only(spec.grain, LAMBDA g : g \notin ToSet(w.order) \cup ToSet(w.by)))
        input(w) == IF w.fn \in RankFunctions \cup {"NTILE"} \/ w.input = "" THEN {} ELSE {Ref(table, w.input)}
        expr(w) == [alias |-> w.alias, order |-> order(w), by |-> {Ref(table, c) : c \in ToSet(w.by)},
                    refs |-> {Ref(table, c) : c \in ToSet(w.by)} \cup input(w)]
        known == Only(spec.windows, LAMBDA w : w.fn \in WindowFunctions)
    IN  When(known # <<>>, <<[op |-> "window", exprs |-> SeqMap(expr, known)]>>)

AfterWindow(spec) ==
    LET aliases == ToSet(Aliases(spec.windows))
    IN  SeqMap(LAMBDA c : Filter({Ref("", c)}), Only(spec.after, LAMBDA c : c \in aliases))

WindowAliases(window) == IF window = <<>> THEN {} ELSE ToSet(Aliases(window[1].exprs))

---------------------------------------------------------------------------
(* _build_aggregate_step.  pre holds the CASE columns computed before it,    *)
(* valid the tables a key may name (every table, when it is ANY).            *)
AnyTable == {"*"}
GroupKeys(spec, primary, pre, valid) ==
    LET ok(t) == valid = AnyTable \/ t \in valid
        placed(c, named) ==
            LET a == IF named # "" /\ ok(Resolve(spec, named)) THEN Resolve(spec, named) ELSE primary
            IN  IF a = primary /\ OwnerOf(spec, c) # "" /\ ok(OwnerOf(spec, c)) THEN OwnerOf(spec, c) ELSE a
        dim(d) == Item(IF d.part THEN d.name ELSE d.col, Ref(placed(d.col, d.table), d.col))
        dims == SeqMap(dim, Only(spec.dims, LAMBDA d : d.name \notin pre))
        parts == {d.name : d \in {x \in ToSet(spec.dims) : x.part /\ x.name \notin pre}}
        under(d) == IF ok(Resolve(spec, d.table)) THEN Resolve(spec, d.table) ELSE primary
        derived == SeqMap(LAMBDA d : Item(d.name, Ref(under(d), d.col)),
                          Only(spec.derived, LAMBDA d : d.name \notin parts))
        grain(g) == LET d == DimsNamed(spec, g)
                        named == IF d = <<>> THEN "" ELSE d[1].table
                    IN  IF d # <<>> /\ d[1].part
                        THEN Item(g, Ref(IF named = "" THEN primary ELSE Resolve(spec, named), d[1].col))
                        ELSE Item(g, Ref(placed(g, named), g))
        keys == dims \o derived
        grains == SeqMap(grain, Dedup(Only(spec.grain, LAMBDA g : g \notin pre \cup ToSet(Aliases(keys)))))
        extra == Sorted(pre \ ToSet(Aliases(keys \o grains)))
    IN  keys \o grains \o SeqMap(LAMBDA c : Item(c, Ref("", c)), extra)

\* Mutant of Aggregate: a metric reads the column it is named after.
AggregateByAlias(spec, primary, pre, valid) ==
    When(spec.metrics # <<>>,
         <<[op |-> "aggregate", by |-> GroupKeys(spec, primary, pre, valid),
            metrics |-> SeqMap(LAMBDA m : Item(m.alias, Ref(primary, m.alias)), spec.metrics)]>>)

(* _expand_metric_to_agg_specs: the prefix of the input column counts only   *)
(* where there is no primary table.                                          *)
Aggregate(spec, primary, pre, valid) ==
    LET from(r) == IF primary = "" THEN r.t ELSE primary
    IN  When(spec.metrics # <<>>,
             <<[op |-> "aggregate", by |-> GroupKeys(spec, primary, pre, valid),
                metrics |-> SeqMap(LAMBDA m : Item(m.alias, Ref(from(m.ref), m.ref.c)), spec.metrics)]>>)

(* _build_project_step.                                                      *)
Ratio(alias) == Ref("ratio", alias)
Project(spec, table, overrides, drop) ==
    LET ratio(o) == o \in {r.alias : r \in ToSet(spec.ratios)}
        dim(o) == Last(DimsNamed(spec, o))
        first(o) == DimsNamed(spec, o)[1]
        place(o, t) == IF o \in DOMAIN overrides THEN overrides[o] ELSE t
        source(o) ==
            CASE o \in RuleOutputs(spec) -> Ref("", o)
              [] DimsNamed(spec, o) # <<>> /\ o \notin RuleOutputs(spec) ->
                    Ref(place(o, IF dim(o).table = "" THEN table ELSE Resolve(spec, dim(o).table)), dim(o).col)
              [] OTHER -> Ref(place(o, table), o)
        col(o) == CASE ratio(o) -> Item(o, Ratio(o))
                    [] ~ratio(o) /\ DimsNamed(spec, o) # <<>> /\ first(o).part /\ spec.metrics # <<>> ->
                          Item(o, Ref("", o))
                    [] OTHER -> Item(o, source(o))
    IN  [op |-> "project", cols |-> SeqMap(col, Only(spec.outputs, LAMBDA o : o \notin drop))]

(* requires_full_sort is set exactly when there is no limit.                 *)
SortAndLimit(spec) ==
    When(spec.sort # <<>>, <<[op |-> "sort", order |-> spec.sort, full |-> ~spec.limit]>>)
    \o When(spec.limit, <<[op |-> "limit"]>>)

---------------------------------------------------------------------------
(* _assert_all_output_columns_resolved.                                      *)
ResolvedNames(spec) ==
    UNION {ToSet(ColumnsOf(t)) : t \in ToSet(spec.tables)} \cup ToSet(Aliases(spec.metrics))
    \cup {d.name : d \in ToSet(spec.dims) \cup ToSet(spec.derived)} \cup ToSet(Aliases(spec.windows))
    \cup RuleOutputs(spec) \cup {r.alias : r \in ToSet(spec.ratios)}

CanBuild(spec) == \A r \in ToSet(Rules(spec)) : ~Unbuildable(r)
NoOverrides == <<>>

(* _build_single_table.                                                      *)
SingleTable(spec) ==
    LET t == spec.tables[1]
        leaves(rules) == UNION {{l.c : l \in ToSet(r.leaves)} : r \in ToSet(rules)}
        physical(c) == LET hit == Only(spec.derived, LAMBDA d : d.name = c)
                       IN  IF hit = <<>> THEN c ELSE Last(hit).col
        labelled == {r.out : r \in ToSet(spec.labels)}
        cols == (RequiredColumns(spec, t.alias, t) \ labelled) \cup leaves(spec.labels)
                \cup DerivedColumns(spec, t.alias) \cup {physical(c) : c \in leaves(spec.cases)}
        pre == {s.alias : s \in ToSet(PreCases(spec))}
        window == WindowStep(spec, t.alias)
        drop == IF spec.ratios = <<>> THEN WindowAliases(window) \cup RuleOutputs(spec) ELSE {}
    IN  IF ~CanBuild(spec) \/ ~(ToSet(spec.outputs) \subseteq ResolvedNames(spec)) THEN Failed
        ELSE Built(<<Scan(t.alias, cols)>> \o TableFilters(t, t.alias) \o TimeRange(spec, t.alias)
                   \o PreCases(spec) \o Aggregate(spec, t.alias, pre, AnyTable) \o PostCases(spec)
                   \o window \o When(window # <<>>, AfterWindow(spec))
                   \o <<Project(spec, "", NoOverrides, drop)>> \o SortAndLimit(spec))

SelfLeft(a) == a \o "_self_left"
SelfRight(a) == a \o "_self_right"

(* _build_multi_table: the first candidate only; without any, the spec may   *)
(* degrade to its first table if no output is declared by the others alone.  *)
DegradationSafe(spec) ==
    LET first == ToSet(ColumnsOf(spec.tables[1]))
        others == UNION {ToSet(ColumnsOf(spec.tables[i])) : i \in 2..Len(spec.tables)}
    IN  \A o \in ToSet(spec.outputs) : o \in first \/ o \notin others

JoinStep(l, r, hop) == [Join(hop.type, r, {<<Ref(l, hop.lk), hop.rk>>}) EXCEPT !.ref = hop.id]

OneJoin(spec, hop) ==
    LET self == hop.left = hop.right
        l == IF self THEN SelfLeft(hop.left) ELSE hop.left
        r == IF self THEN SelfRight(hop.right) ELSE hop.right
        lt == TableNamed(spec, hop.left)
        rt == TableNamed(spec, hop.right)
        scan(a, t) == Scan(a, RequiredColumns(spec, a, t) \cup DerivedColumns(spec, a))
        pre == {s.alias : s \in ToSet(PreCases(spec))}
        primary == IF self THEN l ELSE ""
        window == WindowStep(spec, "")
        labelled == {x.out : x \in ToSet(spec.labels)}
        drop == IF spec.ratios = <<>> THEN WindowAliases(window) \cup labelled ELSE {}
    IN  IF ~CanBuild(spec) THEN Failed
        ELSE Built(<<scan(l, lt), scan(r, rt)>> \o TableFilters(lt, l) \o TableFilters(rt, r)
                   \o TimeRange(spec, l) \o <<JoinStep(l, r, hop)>>
                   \o PreCases(spec) \o Aggregate(spec, primary, pre, AnyTable) \o PostCases(spec)
                   \o window \o When(window # <<>>, AfterWindow(spec))
                   \o <<Project(spec, primary, NoOverrides, drop)>> \o SortAndLimit(spec))

(* build.                                                                    *)
Plan(id, built) == [id |-> id, final |-> TRUE, err |-> built.err, steps |-> built.steps]

SinglePlan(spec, hops) ==
    LET multi == Len(spec.tables) > 1 \/ \E h \in ToSet(hops) : h.left = h.right
    IN  Plan("plan", CASE ~multi -> SingleTable(spec)
                       [] multi /\ hops = <<>> -> IF DegradationSafe(spec) THEN SingleTable(spec) ELSE Failed
                       [] OTHER -> OneJoin(spec, hops[1]))

---------------------------------------------------------------------------
(* build_multi: candidates in the order of the chain they form, the rest     *)
(* behind, each a plan of its own over the temp of the plan before.          *)
ChainOrder(hops) ==
    LET chain[n \in 1..Len(hops)] ==
            LET before == chain[n-1]
                next == {i \in DOMAIN hops \ ToSet(before) : hops[i].left = hops[Last(before)].right}
            IN  IF n = 1 THEN <<1>> ELSE IF next = {} THEN before
                ELSE Append(before, CHOOSE i \in next : \A j \in next : i <= j)
        main == chain[Len(hops)]
    IN  IF Len(hops) <= 1 THEN hops
        ELSE SeqMap(LAMBDA i : hops[i], main) \o Kept(hops, DOMAIN hops \ ToSet(main))

(* Every column the joined tables declare, the first of equal names.         *)
DeclaredColumns(spec, tables) ==
    Dedup(FlattenSeq(SeqMap(LAMBDA a : ColumnsOf(TableNamed(spec, a)), tables)))
HolderOf(spec, tables, c) ==
    Only(tables, LAMBDA a : c \in ToSet(ColumnsOf(TableNamed(spec, a))))[1]

ChainStep(spec, chain, i) ==
    LET hop == chain[i]
        final == i = Len(chain)
        self == i = 1 /\ hop.left = hop.right
        l == IF i > 1 THEN ChainTemp(i - 1) ELSE IF self THEN SelfLeft(hop.left) ELSE hop.left
        r == IF self THEN SelfRight(hop.right) ELSE hop.right
        lt == TableNamed(spec, hop.left)
        rt == TableNamed(spec, hop.right)
        joined == <<chain[1].left>> \o [k \in 1..i |-> chain[k].right]
        left == IF i = 1 THEN RequiredColumns(spec, l, lt) \cup {hop.lk}
                ELSE ToSet(DeclaredColumns(spec, Front(joined)))
        source == <<Scan(l, left), Scan(r, RequiredColumns(spec, r, rt) \cup {hop.rk})>>
                  \o When(i = 1, TableFilters(lt, l)) \o TableFilters(rt, r) \o <<JoinStep(l, r, hop)>>
        through == [op |-> "project",
                    cols |-> SeqMap(LAMBDA c : Item(c, Ref(HolderOf(spec, joined, c), c)),
                                    DeclaredColumns(spec, joined))]
        pre == {s.alias : s \in ToSet(PreCases(spec))}
        named == {d \in ToSet(spec.dims) : d.table # ""}
        overrides == [n \in {d.name : d \in named} |->
                         IF Last(DimsNamed(spec, n)).table = r THEN r ELSE l]
        window == WindowStep(spec, l)
        tail == PreCases(spec) \o Aggregate(spec, l, pre, {r}) \o PostCases(spec)
                \o When(spec.ratios = <<>>, window \o When(window # <<>>, AfterWindow(spec)))
                \o <<Project(spec, l, overrides, WindowAliases(window))>> \o SortAndLimit(spec)
    IN  IF final /\ ~CanBuild(spec) THEN Failed
        ELSE Built(source \o (IF final THEN tail ELSE <<through>>))

ChainPlans(spec, hops) ==
    LET chain == ChainOrder(hops)
    IN  IF Len(chain) <= 1 THEN <<SinglePlan(spec, hops)>>
        ELSE [i \in DOMAIN chain |->
                 [Plan("plan" \o ToString(i), ChainStep(spec, chain, i)) EXCEPT !.final = i = Len(chain)]]
==========================================================================
