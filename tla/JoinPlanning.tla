--------------------------- MODULE JoinPlanning ---------------------------
(* Which joins a spec gets: the manifest's keys, the relationship planners,  *)
(* with and without a language model, and the cross checks                   *)
(* (developer_spec/source_manifest.py, planning/relationship_planner.py,     *)
(* planning/relationship_validator.py, planning/cross_validator.py).         *)
(* A declared join is [lt, rt, lk, rk, type], an inferred one has a          *)
(* confidence conf besides.  A question is [kind, about, blocking].          *)
EXTENDS SqlBuildPlan

CONSTANT Close      \* pairs {a, b} of names at an edit distance of 1 or 2

Question(kind, about, blocking) == [kind |-> kind, about |-> about, blocking |-> blocking]

(* The unique groups of a table: the declared ones and, as one group, the    *)
(* key columns flagged unique.                                               *)
UniqueKeys(t) == t.unique \cup (IF t.flagged = {} THEN {} ELSE {t.flagged})

Candidate(j, level) ==
    [id |-> j.lt \o "." \o j.lk \o "->" \o j.rt \o "." \o j.rk, left |-> j.lt, right |-> j.rt,
     lk |-> j.lk, rk |-> j.rk, type |-> j.type, level |-> level]

(* RelationshipValidator.rate, with types taken as compatible and no index.  *)
Rate(declared, j, distinct) ==
    CASE declared -> "STRONG"
      [] ~declared /\ j.lk = j.rk /\ distinct -> "MEDIUM"
      [] ~declared /\ ~(j.lk = j.rk /\ distinct) /\ (j.lk = j.rk \/ {j.lk, j.rk} \in Close) -> "WEAK"
      [] OTHER -> "NONE"

(* check_left_join_safety: the right key alone is a unique group.            *)
LeftJoinSafe(spec, j) ==
    j.rt \in TableNames(spec) /\ {j.rk} \in UniqueKeys(TableNamed(spec, j.rt))

(* FakeRelationshipPlanner: a declared join is adopted unless it is a LEFT   *)
(* join that may fan out, which is a blocking question instead.              *)
Unsafe(spec, j) == j.type = "LEFT" /\ ~LeftJoinSafe(spec, j)
Adopted(spec) == Only(spec.joins, LAMBDA j : ~Unsafe(spec, j))
DeclaredCandidates(spec) == SeqMap(LAMBDA j : Candidate(j, "STRONG"), Adopted(spec))
DeclaredQuestions(spec) ==
    {Question("join_safety", j.rt \o "." \o j.rk, TRUE) : j \in {x \in ToSet(spec.joins) : Unsafe(spec, x)}}

(* RelationshipPlanner with a model: of the adopted joins the last of each   *)
(* pair of tables, then what the model infers for other pairs.               *)
OnePerPair(spec) ==
    LET pair(j) == <<j.lt, j.rt>>
        adopted == Adopted(spec)
        last(p) == Last(Only(adopted, LAMBDA j : pair(j) = p))
    IN  SeqMap(last, Dedup(SeqMap(pair, adopted)))

Usable(spec, j) ==
    /\ {j.lt, j.rt} \subseteq TableNames(spec) /\ j.lt # j.rt
    /\ j.lk \in ToSet(ColumnsOf(TableNamed(spec, j.lt))) /\ j.rk \in ToSet(ColumnsOf(TableNamed(spec, j.rt)))

Inferred(spec, answer) ==
    LET taken == {<<j.lt, j.rt>> : j \in ToSet(OnePerPair(spec))}
    IN  Only(answer, LAMBDA j : Usable(spec, j) /\ <<j.lt, j.rt>> \notin taken)

InferredLevel(j) == Rate(FALSE, j, j.conf = "high")

InferredCandidates(spec, answer) ==
    SeqMap(LAMBDA j : Candidate(j, "MEDIUM"), Only(Inferred(spec, answer), LAMBDA j : InferredLevel(j) = "MEDIUM"))

InferredQuestions(spec, answer) ==
    {Question("inferred_join", j.lt \o "." \o j.rt, InferredLevel(j) = "WEAK") : j \in ToSet(Inferred(spec, answer))}

(* _enrich_and_plan: relationships are planned for several tables only.      *)
(* model says whether there is a language model, answer is what it says: <<>> *)
(* when the call failed.                                                     *)
Hops(spec, model, answer) ==
    IF Len(spec.tables) < 2 THEN <<>>
    ELSE IF model THEN SeqMap(LAMBDA j : Candidate(j, "STRONG"), OnePerPair(spec)) \o InferredCandidates(spec, answer)
    ELSE DeclaredCandidates(spec)

---------------------------------------------------------------------------
(* cross_validate, with the first table as the fact table.                   *)
TablesOf(spec, c) == {t.alias : t \in {x \in ToSet(spec.tables) : c \in ToSet(ColumnsOf(x))}}

Reachable(spec, hops) ==
    LET succ == [t \in TableNames(spec) |-> {h.left : h \in {x \in ToSet(hops) : x.right = t}}
                                         \cup {h.right : h \in {x \in ToSet(hops) : x.left = t}}]
    IN  {t \in TableNames(spec) : IsReachable(TableNames(spec), succ, spec.tables[1].alias, t)}

MetricColumns(spec) ==
    ({m.ref.c : m \in ToSet(spec.metrics)} \cup {w.input : w \in ToSet(spec.windows)}) \ {""}

CrossQuestions(spec, hops) ==
    LET near == Reachable(spec, hops)
        cut(c) == TablesOf(spec, c) # {} /\ TablesOf(spec, c) \cap near = {}
        joined(a, b) == \E h \in ToSet(hops) : {h.left, h.right} = {a, b}
        ambiguous(c) == \E a, b \in TablesOf(spec, c) \cap near : a # b /\ ~joined(a, b)
        rightOnly(h) == ToSet(ColumnsOf(TableNamed(spec, h.right))) \ ToSet(ColumnsOf(TableNamed(spec, h.left)))
    IN  IF hops = <<>> THEN {}
        ELSE {Question("CV1", c, FALSE) : c \in {x \in MetricColumns(spec) : cut(x)}}
             \cup {Question("CV2", h.id, FALSE) : h \in {x \in ToSet(hops) :
                       x.level # "STRONG" /\ rightOnly(x) \cap MetricColumns(spec) = {}}}
             \cup {Question("CV3", c, TRUE) : c \in {x \in MetricColumns(spec) : ambiguous(x)}}
             \cup {Question("CV4", g, TRUE) : g \in {x \in ToSet(spec.grain) : cut(x)}}

JoinQuestions(spec, model, answer) ==
    IF Len(spec.tables) < 2 THEN {}
    ELSE DeclaredQuestions(spec) \cup (IF model THEN InferredQuestions(spec, answer) ELSE {})
         \cup CrossQuestions(spec, Hops(spec, model, answer))
==========================================================================
