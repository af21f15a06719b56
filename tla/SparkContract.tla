-------------------------- MODULE SparkContract --------------------------
(* What DataTransformContractExtractor reads out of plans for the Spark side *)
(* (artifacts/contract_extractor.py).                                        *)
(*   part  [id, deps, makes : temp or "", reads, temps : seqs of tables,     *)
(*          filters : seq of [ref, late : behind a window], joins : seq of   *)
(*          [left, right, lk, rk, type], keys : seq of refs, times : items,  *)
(*          hours : seq of [out, src], metrics : items, cases : seq of       *)
(*          [alias, pre, cols], windows : seq of [alias, by, order, input],  *)
(*          outs : seq of [alias, ref, kind : "col" | "ratio" | "raw" |      *)
(*          "text"], sort, limit]                                            *)
(*   contract : the part of the whole program, with its parts : one per      *)
(*          statement                                                        *)
(* timed [trunc, hours] names the derived time dimensions and the date parts.*)
EXTENDS SqlCompiler

(* _record_temp_column_lineage: the physical column behind every plain       *)
(* column a producer projects.  What is recorded is already traced.          *)
Traced(ref, lineage) ==
    IF ref.t \in DOMAIN lineage /\ ref.c \in DOMAIN lineage[ref.t] THEN lineage[ref.t][ref.c] ELSE ref

\* Mutant of Recorded: what a temp's columns stand for is forgotten.
RecordedNothing(makes, plan, lineage) == lineage
Recorded(makes, plan, lineage) ==
    IF makes = "" \/ Steps(plan, "project") = <<>> THEN lineage
    ELSE LET cols == Only(Last(Steps(plan, "project")).cols, LAMBDA i : ~IsRatio(i) /\ ~IsRaw(i))
             last(a) == Last(Only(cols, LAMBDA i : i.alias = a))
         IN  Put(lineage, makes, [a \in ToSet(Aliases(cols)) |-> Traced(last(a).ref, lineage)])

(* _extract_join: the first key pair only; a join without keys is left out.  *)
FirstKey(keys) == CHOOSE k \in keys : \A o \in keys : Rank(k[2]) <= Rank(o[2])
JoinTold(j, lineage) ==
    LET left == Traced(FirstKey(j.keys)[1], lineage)
        right == Traced(Ref(j.right, FirstKey(j.keys)[2]), lineage)
    IN  [left |-> left.t, right |-> IF right.t = "" THEN j.right ELSE right.t,
         lk |-> left.c, rk |-> right.c, type |-> j.type]
JoinsIn(plan, lineage) == SeqMap(LAMBDA j : JoinTold(j, lineage), Only(Steps(plan, "join"), LAMBDA j : j.keys # {}))

FiltersIn(plan) ==
    LET late(i) == \E j \in 1..(i-1) : plan.steps[j].op = "window"
        at == SelectSeq([i \in DOMAIN plan.steps |-> i], LAMBDA i : plan.steps[i].op = "filter")
    IN  SeqMap(LAMBDA i : [ref |-> CHOOSE r \in plan.steps[i].refs : TRUE, late |-> late(i)], at)

(* _extract_aggregate: keys once per name; those of a temp lose its name.    *)
Aggregates(plan) == Steps(plan, "aggregate")
GroupItems(plan) == FlattenSeq(SeqMap(LAMBDA s : s.by, Aggregates(plan)))
IsTime(k, timed) == k.alias \in timed.trunc
IsHour(k, timed) == k.alias \in timed.hours \ timed.trunc
Untemped(ref) == IF ref.t \in Temps THEN Ref("", ref.c) ELSE ref
KeysIn(plan, timed) ==
    LET all == GroupItems(plan)
        first(i) == \A j \in 1..(i-1) : all[j].alias # all[i].alias
        named(k) == IF IsTime(k, timed) \/ IsHour(k, timed) THEN Ref("", k.alias) ELSE Untemped(k.ref)
    IN  SeqMap(LAMBDA i : named(all[i]), SelectSeq([i \in DOMAIN all |-> i], first))

(* The keys of a statement get their temp back, by their place among all the *)
(* keys of the plan.                                                         *)
KeysOfTemps(plan, timed) ==
    LET all == GroupItems(plan)
        again(i) == /\ i <= Len(all) /\ all[i].ref.t \in Temps
                    /\ ~IsTime(all[i], timed) /\ ~IsHour(all[i], timed)
    IN  [i \in DOMAIN KeysIn(plan, timed) |-> IF again(i) THEN all[i].ref ELSE KeysIn(plan, timed)[i]]

(* _extract_project.  A date part in a projection is only its text.          *)
OutputsIn(plan, timed, lineage) ==
    LET out(i) == CASE IsRatio(i) -> [alias |-> i.alias, ref |-> Ref("", i.alias), kind |-> "ratio"]
                    [] IsRaw(i)   -> [alias |-> i.alias, ref |-> Ref("", i.alias), kind |-> "raw"]
                    [] i.alias \in timed.hours /\ i.ref.c # i.alias -> [alias |-> i.alias, ref |-> Ref("", ""), kind |-> "text"]
                    [] OTHER      -> [alias |-> i.alias, ref |-> Traced(i.ref, lineage), kind |-> "col"]
    IN  IF Steps(plan, "project") = <<>> THEN <<>> ELSE SeqMap(out, Last(Steps(plan, "project")).cols)

(* A condition on a derived dimension names the dimension.                   *)
ConditionColumn(r, times) ==
    LET hit == SelectSeq(times, LAMBDA k : k.ref = r) IN IF hit = <<>> THEN r.c ELSE Last(hit).alias
CasesIn(plan, timed) ==
    LET times == SelectSeq(GroupItems(plan), LAMBDA k : IsTime(k, timed))
        columns(s) == {ConditionColumn(r, times) : r \in s.refs}
    IN  SeqMap(LAMBDA s : [alias |-> s.alias, pre |-> s.pre, cols |-> columns(s)], Steps(plan, "case"))

WindowsIn(plan) ==
    LET one(e) == [alias |-> e.alias, by |-> {r.c : r \in e.by}, order |-> e.order,
                   input |-> {r.c : r \in e.refs} \ {r.c : r \in e.by}]
    IN  FlattenSeq(SeqMap(LAMBDA s : SeqMap(one, s.exprs), Steps(plan, "window")))

(* _merge_derived_output_columns and _clear_post_aggregate_qualifiers.       *)
Delivered(outs, cases, windows, grouped) ==
    LET new == SelectSeq(Dedup(Aliases(cases) \o Aliases(windows)), LAMBDA a : a \notin ToSet(Aliases(outs)))
        ratios == \E o \in ToSet(outs) : o.kind = "ratio"
        all == outs \o When(~ratios, SeqMap(LAMBDA a : [alias |-> a, ref |-> Ref("", a), kind |-> "col"], new))
    IN  SeqMap(LAMBDA o : IF grouped THEN [o EXCEPT !.ref.t = ""] ELSE o, all)

---------------------------------------------------------------------------
(* extract: what one plan does, its temps taken for tables.                  *)
Lite(plan, timed) ==
    LET keys == GroupItems(plan)
    IN  [filters |-> FiltersIn(plan), joins |-> JoinsIn(plan, <<>>),
         times |-> SelectSeq(keys, LAMBDA k : IsTime(k, timed)),
         hours |-> SeqMap(LAMBDA k : [out |-> k.alias, src |-> k.ref.c], SelectSeq(keys, LAMBDA k : IsHour(k, timed))),
         metrics |-> SeqMap(LAMBDA m : Item(m.alias, Untemped(m.ref)),
                            FlattenSeq(SeqMap(LAMBDA a : a.metrics, Aggregates(plan)))),
         cases |-> CasesIn(plan, timed), windows |-> WindowsIn(plan),
         outs |-> Delivered(OutputsIn(plan, timed, <<>>), CasesIn(plan, timed), WindowsIn(plan), Aggregates(plan) # <<>>),
         sort |-> FlattenSeq(SeqMap(LAMBDA x : x.order, Steps(plan, "sort"))),
         limit |-> Steps(plan, "limit") # <<>>]

(* _extract_statement_contract: a statement by itself.                       *)
PartOf(s, timed) ==
    LET read(temps) == Dedup(SelectSeq(Scanned(s.plan), LAMBDA t : (t \in Temps) = temps))
    IN  [id |-> s.id, deps |-> s.deps, makes |-> s.produces, reads |-> read(FALSE), temps |-> read(TRUE),
         keys |-> KeysOfTemps(s.plan, timed)] @@ Lite(s.plan, timed)

(* extract_v1: everything of all statements in the program's order, joins    *)
(* and outputs traced through the temps made so far.                         *)
NoContract == [err |-> TRUE, joins |-> <<>>, keys |-> <<>>, outs |-> <<>>, parts |-> <<>>]
Gathered(all, parts) ==
    LET each(f(_)) == FlattenSeq(SeqMap(f, parts))
    IN  [err |-> FALSE, joins |-> all.joins, keys |-> all.keys, parts |-> parts,
         outs |-> Delivered(all.outs, each(LAMBDA x : x.cases), each(LAMBDA x : x.windows),
                            each(LAMBDA x : x.metrics) # <<>>)]
(* The contract so far, with one statement more.                             *)
Adding(c, s, timed) ==
    [joins |-> c.joins \o JoinsIn(s.plan, c.lineage), keys |-> c.keys \o KeysIn(s.plan, timed),
     outs |-> IF Steps(s.plan, "project") = <<>> THEN c.outs ELSE OutputsIn(s.plan, timed, c.lineage),
     lineage |-> Recorded(s.produces, s.plan, c.lineage)]
Extracted(p, timed) ==
    LET upto[i \in 0..Len(p.statements)] ==
            IF i = 0 THEN [joins |-> <<>>, keys |-> <<>>, outs |-> <<>>, lineage |-> <<>>]
            ELSE Adding(upto[i-1], p.statements[i], timed)
        all == upto[Len(p.statements)]
    IN  IF p.statements = <<>> THEN NoContract
        ELSE Gathered(all, SeqMap(LAMBDA s : PartOf(s, timed), p.statements))
==========================================================================
