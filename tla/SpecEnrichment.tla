-------------------------- MODULE SpecEnrichment --------------------------
(* What becomes of a parsed spec before its joins are planned: the           *)
(* requirement planner, the spec enricher with a language model and without, *)
(* the label extractor, and the checks between what a model says and what    *)
(* the spec takes from it (planning/requirement_planner.py,                  *)
(* planning/proposal_*.py, planning/spec_enricher.py, labels/).              *)
(* A spec has besides                                                        *)
(*   type    "label", "detail" or "aggregate"                                *)
(*   hints   [output -> [kind : "metric" | "window" | "computed",            *)
(*           text : is it read from a description, decl]]; a computed one    *)
(*           declares [alias, deps]                                          *)
(*   told, toldAfter : windows and filters on them the business text spells  *)
(*   unsure  seq of [ref, out, kind] : what the planner could not tell       *)
(* A rule in a reply is [out, tree ("none" : it does not parse), leaves of   *)
(* [c, kind, lit : "number" | "string", eq], phase : "pre" | "post" | "",    *)
(* values, else : BOOLEAN, domain, evidence : "anchored" | "loose" | "none"].*)
(* The replies:                                                              *)
(*   planner    [fails, dims, derived, metrics, rules, unsure]               *)
(*   enricher   [fails, metrics, dims, windows, after, computed : aliases,   *)
(*              ratios : [alias, num, den, sure], rules]                     *)
(*   extractor  [there, fails, rules]                                        *)
EXTENDS ComputeSteps, JoinPlanning

CONSTANTS Within,       \* pairs <<c, o>> : the name of column c occurs in o
          Echo,         \* [<<name, o>> -> how many words of the name occur in o]
          Likeness,     \* [<<o, c>> -> how well column c suits output o]
          AggOf         \* [o -> the aggregate the words suggest]

At(f, x, default) == IF x \in DOMAIN f THEN f[x] ELSE default
NotAmong(items, names) == Only(items, LAMBDA x : x.alias \notin names)
SourceColumns(spec) == Dedup(FlattenSeq(SeqMap(ColumnsOf, spec.tables)))
DimNames(dims) == {d.name : d \in ToSet(dims)}
LeafColumns(r) == {l.c : l \in ToSet(r.leaves)}
AsRule(r, pre) == [out |-> r.out, tree |-> r.tree, leaves |-> r.leaves, pre |-> pre, values |-> r.values]

(* _find_unresolved_derived_columns.                                         *)
StepOutputs(cs) == ToSet(Aliases(cs.metrics)) \cup ToSet(cs.exprs) \cup {cs.case}
Unresolved(spec) ==
    LET known == ToSet(SourceColumns(spec)) \cup DimNames(spec.dims \o spec.derived)
                 \cup ToSet(Aliases(spec.metrics) \o Aliases(spec.windows) \o Aliases(spec.ratios))
                 \cup UNION {StepOutputs(cs) : cs \in ToSet(spec.steps)} \cup RuleOutputs(spec)
    IN  Only(spec.outputs, LAMBDA o : o \notin known)

---------------------------------------------------------------------------
(* RequirementPlanner._parse_response and _merge_uncertainties: a CASE rule  *)
(* that does not parse is an uncertainty of its own.                         *)
Garbled(r) == r.tree = "none"
Uncertain(reply) ==
    SeqMap(LAMBDA r : [ref |-> "parse_error", out |-> r.out, kind |-> "LABEL"], Only(reply.rules, Garbled))
    \o reply.unsure

Merged(old, new) ==
    LET key(u) == <<u.out, u.ref>>
        last(k) == Last(Only(old \o new, LAMBDA u : key(u) = k))
    IN  SeqMap(last, Dedup(SeqMap(key, old \o new)))

OutputKind(spec, o) ==
    LET about == Only(spec.unsure, LAMBDA u : u.out = o)
    IN  IF about = <<>> THEN "UNKNOWN" ELSE about[1].kind

(* ProposalValidator, V1 to V11: each objection is a blocking question.      *)
AvailableNames(spec, reply) ==
    ToSet(SourceColumns(spec)) \cup ToSet(spec.outputs)
    \cup DimNames(spec.dims \o spec.derived \o reply.dims \o reply.derived)
    \cup ToSet(Aliases(spec.metrics \o reply.metrics))

Repeated(names) == {x \in ToSet(names) : Cardinality({i \in DOMAIN names : names[i] = x}) > 1}

Objections(spec, reply) ==
    LET columns == ToSet(SourceColumns(spec))
        rules(bad(_)) == {r.out : r \in {x \in ToSet(reply.rules) : bad(x)}}
        unknown(r) == \E l \in ToSet(r.leaves) :
                          l.kind # "part" /\ l.c \notin AvailableNames(spec, reply)
        about(kind, names) == {Question(kind, n, TRUE) : n \in names}
    IN  about("V1", {d.name : d \in {x \in ToSet(reply.dims) : x.col \notin columns}})
        \cup about("V2", {d.name : d \in {x \in ToSet(reply.derived) : x.col \notin columns}})
        \cup about("V4", {""} \cap ToSet(Aliases(reply.metrics)))
        \cup about("V5", Repeated(Aliases(reply.metrics)))
        \cup about("V6", Repeated(SeqMap(LAMBDA d : d.name, reply.derived)))
        \cup about("V7", rules(LAMBDA r : r.leaves = <<>>))
        \cup about("V8", rules(LAMBDA r : ~r.else))
        \cup about("V9", rules(unknown))
        \cup about("V10b", rules(LAMBDA r : r.tree = "not"))
        \cup about("V11", DimNames(reply.dims) \cap DimNames(spec.dims))

PlannerQuestions(spec, reply) ==
    IF \E r \in ToSet(reply.rules) : Garbled(r)
    THEN {Question("CW_PARSE_ERROR", r.out, TRUE) : r \in {x \in ToSet(reply.rules) : Garbled(x)}}
    ELSE Objections(spec, reply)

(* ProposalPromotion.promote: what the spec declares is never replaced.      *)
AppendNew(seq, new, name(_)) ==
    seq \o Kept(new, {i \in DOMAIN new : /\ \A x \in ToSet(seq) : name(x) # name(new[i])
                                        /\ \A j \in 1..(i-1) : name(new[j]) # name(new[i])})

\* Mutant of Promoted: what the model says replaces what the spec declares.
PromotedOver(spec, reply) ==
    [spec EXCEPT !.dims = IF reply.dims = <<>> THEN @ ELSE reply.dims,
                 !.metrics = IF reply.metrics = <<>> THEN @ ELSE reply.metrics,
                 !.cases = AppendNew(@, SeqMap(LAMBDA r : AsRule(r, FALSE), reply.rules), LAMBDA r : r.out),
                 !.unsure = Merged(@, Uncertain(reply))]

Promoted(spec, reply) ==
    [spec EXCEPT !.dims = IF @ = <<>> THEN reply.dims ELSE @,
                 !.metrics = IF @ = <<>> THEN reply.metrics ELSE @,
                 !.derived = AppendNew(@, reply.derived, LAMBDA d : d.name),
                 !.cases = AppendNew(@, SeqMap(LAMBDA r : AsRule(r, FALSE), reply.rules), LAMBDA r : r.out),
                 !.unsure = Merged(@, Uncertain(reply))]

(* _run_requirement_planner: one objection, and of the reply only what it is *)
(* unsure of is kept.                                                        *)
Planned(spec, reply) ==
    IF PlannerQuestions(spec, reply) = {} THEN Promoted(spec, reply)
    ELSE [spec EXCEPT !.unsure = Merged(@, Uncertain(reply))]

---------------------------------------------------------------------------
(* LabelRuleValidator and Promotion.  The enricher fills an empty domain,    *)
(* the extractor does not.                                                   *)
Numbers == {"bigint", "integer", "double", "decimal"}
Temporal == {"date", "datetime", "timestamp"}

LeafTyped(l) ==
    /\ l.kind = "part" => At(TypeOf, l.c, "") \in Temporal
    /\ l.lit = "string" => l.eq /\ l.kind # "part" /\ At(TypeOf, l.c, "") \notin Numbers

RuleValid(spec, r, strict) ==
    /\ LeafColumns(r) \subseteq ToSet(SourceColumns(spec)) \cup ToSet(spec.outputs)
                                \cup ToSet(Aliases(spec.metrics)) \cup DimNames(spec.dims \o spec.derived)
    /\ \A l \in ToSet(r.leaves) : LeafTyped(l)
    /\ ~Unbuildable(r)
    /\ r.values \subseteq r.domain
    /\ strict => r.evidence = "anchored"

RulePromoted(spec, r, strict) == RuleValid(spec, r, strict) /\ r.evidence # "none"

(* _wrap_case_when_proposal.                                                 *)
WithDomain(r) == [r EXCEPT !.domain = IF @ = {} THEN r.values ELSE @]

(* _resolve_evaluation_phase: "" is left to a human.                         *)
PhaseOf(spec, out, cols) ==
    LET early == out \in DimNames(spec.dims) \cup ToSet(spec.grain)
        late == cols \cap ToSet(Aliases(spec.metrics)) # {}
        physical == cols # {} /\ cols \subseteq ToSet(SourceColumns(spec))
        computed == cols \cap UNION {ToSet(cs.exprs) : cs \in ToSet(spec.steps)} # {}
    IN  CASE early \/ (~late /\ physical) -> "pre"
          [] ~early /\ (late \/ (~physical /\ computed)) -> "post"
          [] OTHER -> ""

---------------------------------------------------------------------------
(* FakeSpecEnricher._infer_dimensions: an output that is a column of one     *)
(* table, else the likeliest of the columns whose names occur in its name.   *)
PlacesOf(spec, c) == SeqMap(LAMBDA t : Ref(t.alias, c), Only(spec.tables, LAMBDA t : c \in ToSet(ColumnsOf(t))))

DimScore(spec, o, ref) ==
    LET keys == Only(spec.joins, LAMBDA j : j.rt = ref.t)
    IN  3 * At(Echo, <<ref.t, o>>, 0) + (IF keys = <<>> THEN 0 ELSE 5 * At(Echo, <<Last(keys).lk, o>>, 0))

(* _disambiguate_by_join: the first of the highest score, if it has any.     *)
BestPlace(spec, o, places) ==
    LET score(i) == DimScore(spec, o, places[i])
        best == {i \in DOMAIN places : score(i) > 0 /\ \A k \in DOMAIN places : score(k) <= score(i)}
    IN  IF best = {} THEN <<>> ELSE <<places[CHOOSE i \in best : \A k \in best : i <= k]>>

SourceOf(spec, o) ==
    LET parts == Only(SourceColumns(spec), LAMBDA c : <<c, o>> \in Within)
        places == PlacesOf(spec, o)
    IN  IF places # <<>> THEN When(Len(places) = 1, places)
        ELSE BestPlace(spec, o, FlattenSeq(SeqMap(LAMBDA c : PlacesOf(spec, c), parts)))

InferDims(spec, excluded) ==
    LET open == Only(spec.outputs, LAMBDA o : o \notin excluded \cup DimNames(spec.dims))
        dim(o, ref) == [name |-> o, col |-> ref.c, table |-> ref.t, part |-> FALSE]
    IN  FlattenSeq(SeqMap(LAMBDA o : SeqMap(LAMBDA ref : dim(o, ref), SourceOf(spec, o)), open))

(* _find_matching_columns: the columns by their likeness, the first of equal *)
(* ones first; only the best is ever taken.                                  *)
Likeliest(spec, o, used) ==
    LET score(c) == At(Likeness, <<o, c>>, 0)
        alike == Only(SourceColumns(spec), LAMBDA c : c \notin used /\ score(c) > 0)
        best == Only(alike, LAMBDA c : \A x \in ToSet(alike) : score(x) <= score(c))
    IN  IF best = <<>> THEN "" ELSE best[1]

Hinted(spec, kind, o) == o \in DOMAIN spec.hints /\ spec.hints[o].kind = kind
Structured(spec, o) == o \in DOMAIN spec.hints /\ ~spec.hints[o].text
Decls(spec, kind, outs) == SeqMap(LAMBDA o : spec.hints[o].decl, Only(outs, LAMBDA o : Hinted(spec, kind, o)))
InputColumns(spec) == {m.ref.c : m \in ToSet(spec.metrics)} \ {""}

(* The metric of an output nobody declared: its hint, its description, else  *)
(* a guess; COUNT alone may do without a column.                             *)
GuessedMetric(spec, o) ==
    LET c == Likeliest(spec, o, InputColumns(spec))
    IN  When(c # "" \/ AggOf[o] = "COUNT", <<[alias |-> o, agg |-> AggOf[o], ref |-> Ref("", c)]>>)

FakeMetric(spec, o) ==
    CASE Hinted(spec, "metric", o) -> <<spec.hints[o].decl>>
      [] Structured(spec, o) /\ ~Hinted(spec, "metric", o) -> <<>>
      [] OTHER -> When(spec.metrics # <<>> \/ spec.type = "aggregate", GuessedMetric(spec, o))

(* _detect_cross_grain_dependency: an output computed of metrics nobody      *)
(* declared gets a step per missing one, a step of the declared ones at the  *)
(* grain, and a step that joins them.                                        *)
GlobalName(dep) == "global_" \o dep
GroupedName(spec) ==
    "grouped_" \o (IF spec.grain = <<>> THEN "global" ELSE FoldLeft(LAMBDA a, g : a \o "_" \o g, spec.grain[1], Tail(spec.grain)))
PlainStep(name, source, listed, by, metrics) ==
    [name |-> name, source |-> source, listed |-> listed, by |-> SeqMap(LAMBDA c : Ref("", c), by), metrics |-> metrics,
     case |-> "", when |-> <<>>, phase |-> TRUE, exprs |-> <<>>, joins |-> <<>>]

MissingDeps(spec, cm) == Only(cm.deps, LAMBDA d : d \notin ToSet(Aliases(spec.metrics)))
CrossGrain(spec, computed) == Only(computed, LAMBDA cm : Len(cm.deps) > 1 /\ MissingDeps(spec, cm) # <<>>)

GlobalStep(spec, dep) ==
    LET fed == Only(spec.metrics, LAMBDA m : m.ref.c # "")
        agg == IF AggOf[dep] # "COUNT" THEN AggOf[dep] ELSE IF fed = <<>> THEN "SUM" ELSE fed[1].agg
        c == IF fed = <<>> THEN Likeliest(spec, dep, {}) ELSE fed[1].ref.c
    IN  PlainStep(GlobalName(dep), <<"input">>, FALSE, <<>>, <<[alias |-> dep, agg |-> agg, ref |-> Ref("", c)]>>)

CrossSteps(spec, cm) ==
    LET globals == SeqMap(GlobalName, MissingDeps(spec, cm))
        bare == SeqMap(LAMBDA m : [m EXCEPT !.ref = Ref("", m.ref.c)], spec.metrics)
        ratio == [alias |-> cm.alias, agg |-> "SUM", ref |-> Ref("", "")]
    IN  SeqMap(LAMBDA d : GlobalStep(spec, d), MissingDeps(spec, cm))
        \o << PlainStep(GroupedName(spec), <<"input">>, FALSE, spec.grain, bare),
              PlainStep("merged_" \o cm.alias, <<GroupedName(spec)>> \o globals, TRUE, Dedup(spec.grain \o cm.deps), <<ratio>>) >>

CrossJoins(spec, cm) ==
    SeqMap(LAMBDA d : [lt |-> GroupedName(spec), rt |-> GlobalName(d), lk |-> "", rk |-> "", type |-> "INNER"],
           MissingDeps(spec, cm))

(* FakeSpecEnricher.enrich.                                                  *)
FakeEnriched(spec) ==
    LET hinted == Decls(spec, "window", spec.outputs)
        windows == AppendNew(hinted, spec.told, LAMBDA w : w.alias)
        declared == ToSet(Aliases(spec.metrics)) \cup ToSet(Aliases(windows))
        dims == InferDims(spec, declared \cup {o \in DOMAIN spec.hints : Structured(spec, o) /\ ~Hinted(spec, "window", o)})
        open == Only(spec.outputs, LAMBDA o : o \notin declared \cup ToSet(spec.grain) \cup DimNames(spec.dims \o dims))
        cross == CrossGrain(spec, Decls(spec, "computed", open))
    IN  [metrics |-> FlattenSeq(SeqMap(LAMBDA o : FakeMetric(spec, o), open)), windows |-> windows,
         after |-> spec.toldAfter, dims |-> dims, ratios |-> <<>>, rules |-> <<>>, rejected |-> {},
         steps |-> FlattenSeq(SeqMap(LAMBDA cm : CrossSteps(spec, cm), cross)),
         joins |-> FlattenSeq(SeqMap(LAMBDA cm : CrossJoins(spec, cm), cross))]

---------------------------------------------------------------------------
(* _parse_llm_response: what a reply may add.                                *)
AggregateKinds == {"COUNT", "COUNT_DISTINCT", "SUM", "AVG", "MIN", "MAX"}

SaidDim(spec, d) ==
    LET places == PlacesOf(spec, d.col)
    IN  CASE d.name \notin ToSet(spec.outputs) -> <<>>
          [] d.name \in ToSet(spec.outputs) /\ d.table # "" -> When(Ref(d.table, d.col) \in ToSet(places), <<d>>)
          [] OTHER -> When(Len(places) = 1, <<[d EXCEPT !.table = places[1].t]>>)

ParsedReply(spec, reply) ==
    LET metrics == Only(reply.metrics, LAMBDA m : m.agg \in AggregateKinds /\ (m.agg = "COUNT" \/ m.ref.c # ""))
        windows == Only(reply.windows, LAMBDA w : w.fn \in WindowFunctions)
        said == FlattenSeq(SeqMap(LAMBDA d : SaidDim(spec, d), reply.dims))
        taken == ToSet(Aliases(spec.metrics \o metrics) \o Aliases(windows) \o reply.computed \o Aliases(reply.ratios))
        found == Only(InferDims(spec, taken), LAMBDA d : d.name \notin DimNames(said))
        rules == SeqMap(WithDomain, reply.rules)
        good(r) == ~Garbled(r) /\ RulePromoted(spec, r, spec.type = "label")
    IN  [metrics |-> metrics, windows |-> windows,
         after |-> Only(reply.after, LAMBDA c : c \in ToSet(Aliases(windows))),
         dims |-> said \o found, ratios |-> reply.ratios, rules |-> Only(rules, good),
         rejected |-> {r.out : r \in {x \in ToSet(rules) : ~good(x)}}, steps |-> <<>>, joins |-> <<>>]

(* SpecEnricher.enrich: no model, or a call that fails, and the rules guess. *)
Enriched(spec, model, reply) ==
    IF model /\ ~reply.fails THEN ParsedReply(spec, reply) ELSE FakeEnriched(spec)

(* RatioProposalValidator: what a ratio divides is computed before it.       *)
NumericOutput(spec, a) ==
    LET metrics == Only(spec.metrics, LAMBDA m : m.alias = a)
        windows == Only(spec.windows, LAMBDA w : w.alias = a)
        number(c) == At(TypeOf, c, "") \in Numbers
    IN  \/ a \in ToSet(Aliases(spec.ratios))
        \/ metrics # <<>> /\ (Last(metrics).agg \in {"COUNT", "COUNT_DISTINCT"} \/ number(Last(metrics).ref.c))
        \/ /\ metrics = <<>> /\ windows # <<>>
           /\ Last(windows).fn \in WindowFunctions \ {"LAG", "LEAD"} \/ number(Last(windows).input)

RatioObjections(spec, declaredDims, p) ==
    LET computed == ToSet(Aliases(spec.metrics) \o Aliases(spec.windows) \o Aliases(spec.ratios))
        about(kind, bad) == IF bad THEN {Question(kind, p.alias, TRUE)} ELSE {}
    IN  about("RATIO-OUTPUT", p.alias \notin ToSet(spec.outputs))
        \cup about("RATIO-CONFLICT", p.alias \in computed \cup declaredDims)
        \cup about("RATIO-DEPENDENCY", ~({p.num, p.den} \subseteq computed))
        \cup about("RATIO-DENOMINATOR_TYPE", p.den \in computed /\ ~NumericOutput(spec, p.den))
        \cup about("RATIO-CONFIDENCE", ~p.sure)

(* apply_enrichment, its three passes: the lists, the ratios one by one, the *)
(* CASE rules one by one.  Each returns [spec, asked].                       *)
WithLists(spec, e) ==
    [spec EXCEPT !.metrics = @ \o NotAmong(e.metrics, ToSet(Aliases(@))),
                 !.windows = @ \o NotAmong(e.windows, ToSet(Aliases(@))),
                 !.after = @ \o Only(e.after, LAMBDA c : c \notin ToSet(spec.after)),
                 !.dims = @ \o Only(e.dims, LAMBDA d : d.name \notin DimNames(spec.dims)),
                 !.joins = @ \o e.joins,
                 !.steps = SeqMap(LAMBDA cs : [cs EXCEPT !.phase = @ \/ PhaseOf(spec, cs.case, ToSet(cs.when)) # ""], @)
                           \o e.steps]

WithRatio(spec, declaredDims, acc, p) ==
    LET objections == RatioObjections([spec EXCEPT !.ratios = acc.ratios], declaredDims, p)
    IN  IF p.alias \in ToSet(Aliases(acc.ratios)) THEN acc
        ELSE IF objections # {} THEN [acc EXCEPT !.asked = @ \cup objections]
        ELSE [acc EXCEPT !.ratios = Append(@, [alias |-> p.alias, num |-> p.num, den |-> p.den])]

RulePhase(declared, r) == IF r.phase = "" THEN PhaseOf(declared, r.out, LeafColumns(r)) ELSE r.phase
NewRules(spec, declared, rules) ==
    {i \in DOMAIN rules : /\ rules[i].out \notin RuleOutputs(spec)
                          /\ \A j \in 1..(i-1) : rules[j].out = rules[i].out => RulePhase(declared, rules[j]) = ""}

Applied(spec, e) ==
    LET lists == WithLists(spec, e)
        ratios == FoldLeft(LAMBDA acc, p : WithRatio(lists, DimNames(spec.dims \o spec.derived), acc, p),
                           [ratios |-> lists.ratios, asked |-> {}], e.ratios)
        new == NewRules(lists, spec, e.rules)
        placed == {i \in new : RulePhase(spec, e.rules[i]) # ""}
        rule(r) == AsRule(r, RulePhase(spec, r) = "pre")
    IN  [spec |-> [lists EXCEPT !.ratios = ratios.ratios, !.labels = @ \o SeqMap(rule, Kept(e.rules, placed))],
         asked |-> ratios.asked \cup {Question("CASE_WHEN", o, FALSE) :
                                          o \in e.rejected \cup {e.rules[i].out : i \in new \ placed}}]

---------------------------------------------------------------------------
(* Pipeline._prepare_labels: the outputs of a label table that are left to   *)
(* the extractor, and what it says of them.                                  *)
LabelCandidates(spec) ==
    LET open == Unresolved(spec)
        marked == Only(open, LAMBDA o : OutputKind(spec, o) = "LABEL")
    IN  CASE spec.type # "label" -> <<>>
          [] spec.type = "label" /\ marked = <<>> /\ Rules(spec) = <<>> -> open
          [] OTHER -> marked

WithLabels(spec, rules) ==
    [spec EXCEPT !.labels = @ \o SeqMap(LAMBDA r : AsRule(r, FALSE), Only(rules, LAMBDA r :
                                            r.domain # {} /\ RulePromoted(spec, r, TRUE)))]

(* _check_label_rule_conflicts.                                              *)
LabelConflicts(spec) ==
    {Question("LABEL_CONFLICT", o, TRUE) : o \in {r.out : r \in ToSet(spec.labels)} \cap {r.out : r \in ToSet(spec.cases)}}

(* _enrich_and_plan: of a label table the outputs nothing explains are asked *)
(* about, of any other they end the request, unless it has compute steps.    *)
Unexplained(spec) == Unresolved(spec) # <<>> /\ spec.steps = <<>>

HumanReview(spec) ==
    IF spec.type # "label" THEN {}
    ELSE {Question("HUMAN_REVIEW", o, TRUE) : o \in IF spec.steps = <<>> THEN ToSet(Unresolved(spec)) ELSE {}}
         \cup (IF Rules(spec) = <<>> /\ Unresolved(spec) # <<>> THEN {Question("LABEL_TABLE_NO_RULES", "", TRUE)} ELSE {})
==========================================================================
