-------------------------- MODULE SparkCompiler --------------------------
(* The PySpark program of a Spark plan (spark/compiler.py, renderer.py,      *)
(* _alias_resolver.py, step_ids.py) and what Spark makes of its names.       *)
(*   line    [id, step, ins : the variables it reads, var : the one it sets] *)
(*   stage   [label, steps, deps : labels of stages it is given, lines,      *)
(*           out : the variable returned, main]                              *)
(* A variable is <<"t", i>> for a table read, <<"f", i>> for a result of the *)
(* i-th step, or <<"s", k>> for the stage k; a step id is the same shape.    *)
EXTENDS SparkMapper

StageVar(k) == <<"s", k>>
Label(k) == "s" \o ToString(k)

(* iter_plan_steps: every step's id, branches first, numbered within each.   *)
IdsOf(plan) ==
    FlattenSeq([k \in DOMAIN plan.branches |->
                   [i \in DOMAIN plan.branches[k].steps |-> <<k, plan.branches[k].steps[i].op, i>>]])
    \o [i \in DOMAIN plan.main |-> <<0, plan.main[i].op, i>>]

(* resolve_codegen_aliases: latest holds the variable a name stands for now. *)
(* A join's result is known by its left name only.                           *)
Resolved(steps, stages) ==
    LET known(acc, a) == a \in DOMAIN acc.latest \cup DOMAIN stages
        look(acc, a) == IF a \in DOMAIN acc.latest THEN acc.latest[a] ELSE stages[a]
        fails(acc) == [acc EXCEPT !.err = TRUE]
        goes(acc, name, ins, var) ==
            [acc EXCEPT !.lines = Append(@, [step |-> steps[Len(@) + 1], ins |-> ins, var |-> var]),
                        !.latest = IF name = "" THEN @ ELSE (name :> var) @@ @,
                        !.prev = var]
        next(acc, s) ==
            LET i == Len(acc.lines) + 1
            IN  CASE acc.err -> acc
                  [] ~acc.err /\ s.op = "read" -> goes(acc, s.alias, <<>>, <<"t", i>>)
                  [] ~acc.err /\ s.op = "join" ->
                        IF known(acc, s.left) /\ known(acc, s.right)
                        THEN goes(acc, s.left, <<look(acc, s.left), look(acc, s.right)>>, <<"f", i>>) ELSE fails(acc)
                  [] OTHER ->
                        IF s.in = "" /\ acc.prev # <<>> THEN goes(acc, "", <<acc.prev>>, <<"f", i>>)
                        ELSE IF known(acc, s.in) THEN goes(acc, s.in, <<look(acc, s.in)>>, <<"f", i>>) ELSE fails(acc)
    IN  FoldLeft(next, [err |-> steps = <<>>, lines |-> <<>>, latest |-> <<>>, prev |-> <<>>], steps)

(* _remap_external_aliases: a temp's name becomes the label of its stage, in *)
(* every name and in front of every column.                                  *)
Remapped(step, stages) ==
    LET name(t) == IF t \in DOMAIN stages THEN Label(stages[t][2]) ELSE t
        ref(r) == Ref(name(r.t), r.c)
        item(i) == [i EXCEPT !.ref = ref(@)]
    IN  CASE step.op = "read" -> step
          [] step.op = "join" -> [step EXCEPT !.left = name(@), !.right = name(@)]
          [] step.op = "filter" -> [step EXCEPT !.ref = ref(@)]
          [] step.op = "aggregate" -> [step EXCEPT !.keys = SeqMap(ref, @), !.metrics = SeqMap(item, @),
                                                   !.times = SeqMap(item, @)]
          [] step.op = "project" -> [step EXCEPT !.cols = SeqMap(item, @)]
          [] OTHER -> step

(* _stage_dependencies: the stages a stage's steps name, in their order.     *)
DependsOn(steps, stages) ==
    LET used == {stages[a][2] : a \in DOMAIN stages \cap UNION {AliasesOf(s) : s \in ToSet(steps)}}
    IN  SetToSortSeq(used, <)

(* A projected date part is no column name.                                  *)
Unrendered(steps) == \E s \in ToSet(Ops(steps, "project")) : \E c \in ToSet(s.cols) : c.kind = "text"

Stage(k, steps, stages, main) ==
    LET resolved == Resolved(steps, stages)
        id(i) == <<IF main THEN 0 ELSE k, steps[i].op, i>>
    IN  [label |-> k, main |-> main, deps |-> DependsOn(steps, stages),
         err |-> resolved.err \/ Unrendered(steps), out |-> resolved.prev,
         lines |-> [i \in DOMAIN resolved.lines |->
                       [id |-> id(i), step |-> Remapped(resolved.lines[i].step, stages),
                        ins |-> resolved.lines[i].ins, var |-> resolved.lines[i].var]]]

(* compile: one function; or _compile_multistage: a function per branch, in  *)
(* their order, then the main one.  Each sees the stages before it.          *)
OneFunction(plan) == <<Stage(1, plan.main, <<>>, TRUE)>>
Multistage(plan) ==
    LET n == Len(plan.branches)
        made(k) == [t \in {plan.branches[i].makes : i \in 1..(k-1)} |->
                       StageVar(CHOOSE i \in 1..(k-1) : plan.branches[i].makes = t)]
    IN  [k \in 1..n |-> Stage(k, plan.branches[k].steps, made(k), FALSE)]
        \o <<Stage(n + 1, plan.main, made(n + 1), TRUE)>>
CompiledSpark(plan) ==
    LET stages == IF plan.branches = <<>> THEN OneFunction(plan) ELSE Multistage(plan)
    IN  [err |-> \E s \in ToSet(stages) : s.err, stages |-> stages]

StepIds(code) == FlattenSeq(SeqMap(LAMBDA s : SeqMap(LAMBDA l : l.id, s.lines), code.stages))

---------------------------------------------------------------------------
(* What Spark makes of the program (external).  A frame has columns, each    *)
(* with the alias it can be qualified by, and columns a join on one name has *)
(* hidden, which only a qualified name reaches.  NoFrame is an analysis      *)
(* error.                                                                    *)
NoFrame == [ok |-> FALSE, cols |-> <<>>, hidden |-> {}]
Frame(cols, hidden) == [ok |-> TRUE, cols |-> cols, hidden |-> hidden]
Reaches(f, r) ==
    LET hits == SelectSeq(f.cols, LAMBDA x : x.c = r.c /\ r.t \in {"", x.t})
    IN  Len(hits) = 1 \/ (hits = <<>> /\ r.t # "" /\ r \in f.hidden)
Found(f, r) == LET hits == SelectSeq(f.cols, LAMBDA x : x.c = r.c /\ r.t \in {"", x.t})
               IN  IF hits = <<>> THEN r ELSE hits[1]
Bare(c) == Ref("", c)
Without(cols, c) == SelectSeq(cols, LAMBDA x : x.c # c)
Plus(f, c) == Frame(Append(Without(f.cols, c), Bare(c)), f.hidden)
Aliased(f, a) == Frame(SeqMap(LAMBDA x : Ref(a, x.c), f.cols), {})

(* on="key" joins by name and hides a key, a condition keeps both columns;   *)
(* a key of an earlier join's result is qualified (_compile_join).           *)
JoinedFrame(l, r, j, lq, rq) ==
    LET lref == Ref(IF lq THEN j.left ELSE "", j.lk)
        rref == Ref(IF rq THEN j.right ELSE "", j.rk)
        hides == l.hidden \cup r.hidden
        byName == Reaches(l, Bare(j.lk)) /\ Reaches(r, Bare(j.lk))
        lkey == Found(l, Bare(j.lk))
        rkey == Found(r, Bare(j.lk))
        rest == Without(l.cols, j.lk) \o Without(r.cols, j.lk)
    IN  CASE j.lk # j.rk -> IF Reaches(l, lref) /\ Reaches(r, rref) THEN Frame(l.cols \o r.cols, hides) ELSE NoFrame
          [] j.lk = j.rk /\ ~byName -> NoFrame
          [] OTHER -> CASE j.type = "RIGHT" -> Frame(<<rkey>> \o rest, hides \cup {lkey})
                        [] j.type = "FULL"  -> Frame(<<Bare(j.lk)>> \o rest, hides \cup {lkey, rkey})
                        [] OTHER            -> Frame(<<lkey>> \o rest, hides \cup {rkey})

GroupedFrame(f, s) ==
    LET hours == FoldLeft(LAMBDA g, h : IF g.ok /\ Reaches(g, Bare(h.src)) THEN Plus(g, h.out) ELSE NoFrame, f, s.hours)
        reads == ToSet(s.keys) \cup {m.ref : m \in {x \in ToSet(s.metrics) : x.ref.c # ""}} \cup {t.ref : t \in ToSet(s.times)}
    IN  IF hours.ok /\ \A r \in reads : Reaches(hours, r)
        THEN Frame(SeqMap(LAMBDA k : Found(hours, k), s.keys)
                   \o SeqMap(LAMBDA x : Bare(x.alias), s.times \o s.metrics), {})
        ELSE NoFrame

SelectedFrame(f, cols, ratios) ==
    LET needs(c) == CASE c.kind = "raw"   -> {}
                      [] c.kind = "ratio" -> UNION {{Bare(r.num), Bare(r.den)} : r \in {x \in ToSet(ratios) : x.alias = c.alias}}
                      [] OTHER            -> {c.ref}
        gives(c) == IF c.kind = "col" /\ c.alias = c.ref.c THEN Found(f, c.ref) ELSE Bare(c.alias)
    IN  IF \A c \in ToSet(cols) : \A r \in needs(c) : Reaches(f, r) THEN Frame(SeqMap(gives, cols), {}) ELSE NoFrame

Windowed(f, exprs) ==
    FoldLeft(LAMBDA g, e : IF g.ok /\ \A c \in e.by \cup e.input \cup ToSet(e.order) : Reaches(g, Bare(c))
                           THEN Plus(g, e.alias) ELSE NoFrame, f, exprs)

LineFrame(line, frames, joins, tables, ratios) ==
    LET s == line.step
        f == frames[line.ins[1]]
        all(S) == \A c \in S : Reaches(f, Bare(c))
    IN  IF \E v \in ToSet(line.ins) : v \notin DOMAIN frames \/ ~frames[v].ok THEN NoFrame
        ELSE CASE s.op = "read"   -> Frame(SeqMap(LAMBDA c : Ref(s.alias, c), tables[s.alias]), {})
               [] s.op = "join"   -> JoinedFrame(f, frames[line.ins[2]], s, line.ins[1] \in joins, line.ins[2] \in joins)
               [] s.op = "filter" -> IF all({s.ref.c}) THEN f ELSE NoFrame
               [] s.op = "case"   -> IF all(s.cols) THEN Plus(f, s.alias) ELSE NoFrame
               [] s.op = "aggregate" -> GroupedFrame(f, s)
               [] s.op = "window"  -> Windowed(f, s.exprs)
               [] s.op = "project" -> SelectedFrame(f, s.cols, ratios)
               [] s.op = "sort"    -> IF all(ToSet(s.order)) THEN f ELSE NoFrame
               [] OTHER -> f

(* A stage sees the stages it is given, under their labels; the last one's   *)
(* result is the program's.                                                  *)
StageFrame(stage, given, tables, ratios) ==
    LET joins == {l.var : l \in {x \in ToSet(stage.lines) : x.step.op = "join"}}
        upTo[i \in 0..Len(stage.lines)] ==
            IF i = 0 THEN [v \in {StageVar(k) : k \in ToSet(stage.deps)} |-> given[v]]
            ELSE (stage.lines[i].var :> LineFrame(stage.lines[i], upTo[i-1], joins, tables, ratios)) @@ upTo[i-1]
        result(frames) == IF \A v \in DOMAIN frames : frames[v].ok THEN frames[stage.out] ELSE NoFrame
    IN  result(upTo[Len(stage.lines)])

ResultFrame(code, tables, ratios) ==
    LET named(s, f) == StageVar(s.label) :> IF f.ok /\ ~s.main THEN Aliased(f, Label(s.label)) ELSE f
        upTo[i \in 0..Len(code.stages)] ==
            IF i = 0 THEN <<>>
            ELSE named(code.stages[i], StageFrame(code.stages[i], upTo[i-1], tables, ratios)) @@ upTo[i-1]
    IN  upTo[Len(code.stages)][StageVar(Len(code.stages))]
==========================================================================
