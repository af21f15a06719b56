--------------------------- MODULE SparkMapper ---------------------------
(* The Spark plan of a contract (spark/mapper.py): steps [op, in : the table *)
(* a step works on, ...], joins [left, right, lk, rk, type].  Statements     *)
(* that make a temp are branches, the other one is the main part.  Names of  *)
(* the form t1 or f1, which the code keeps for its variables, are left out.  *)
EXTENDS SparkContract

JoinTypes == {"INNER", "LEFT", "RIGHT", "FULL"}

ReadSteps(part) == SeqMap(LAMBDA t : [op |-> "read", alias |-> t], part.reads)
FilterSteps(part, late) ==
    SeqMap(LAMBDA f : [op |-> "filter", in |-> f.ref.t, ref |-> f.ref],
           SelectSeq(part.filters, LAMBDA f : f.late = late))
JoinSteps(part) ==
    SeqMap(LAMBDA j : [op |-> "join", left |-> j.left, right |-> j.right, lk |-> j.lk, rk |-> j.rk, type |-> j.type],
           part.joins)
LabelSteps(part, pre) ==
    SeqMap(LAMBDA c : [op |-> "case", in |-> "", alias |-> c.alias, cols |-> c.cols],
           SelectSeq(part.cases, LAMBDA c : c.pre = pre))

(* _map_aggregations: derived dimensions are no group keys, and a date part  *)
(* is computed only where it is one.                                         *)
AggregateStep(part) ==
    LET times == ToSet(Aliases(part.times))
        keyed == {k.c : k \in {x \in ToSet(part.keys) : x.t = ""}}
    IN  When(part.metrics # <<>>,
             <<[op |-> "aggregate", in |-> "", metrics |-> part.metrics, times |-> part.times,
                keys |-> SelectSeq(part.keys, LAMBDA k : ~(k.t = "" /\ k.c \in times)),
                hours |-> SelectSeq(part.hours, LAMBDA h : h.out \in keyed)]>>)

WindowSteps(part) == When(part.windows # <<>>, <<[op |-> "window", in |-> "", exprs |-> part.windows]>>)
TailSteps(part) == When(part.sort # <<>>, <<[op |-> "sort", in |-> "", order |-> part.sort]>>)
                   \o When(part.limit, <<[op |-> "limit", in |-> ""]>>)

(* The order in which a statement's steps are laid out.  Filters come before *)
(* every join, on the table they name.                                       *)
Laid(part) ==
    ReadSteps(part) \o FilterSteps(part, FALSE) \o JoinSteps(part) \o LabelSteps(part, TRUE) \o AggregateStep(part)
    \o WindowSteps(part)
    \o LabelSteps(part, FALSE) \o FilterSteps(part, TRUE)
    \o <<[op |-> "project", in |-> "", cols |-> part.outs]>>
    \o TailSteps(part)

\* Mutant of Chained: after a join the right name goes on.
ChainedRight(steps) ==
    LET next(acc, s) ==
            CASE s.op = "read" -> [steps |-> Append(acc.steps, s), prev |-> s.alias]
              [] s.op = "join" -> [steps |-> Append(acc.steps, s), prev |-> s.right]
              [] OTHER -> LET in == IF s.in = "" THEN acc.prev ELSE s.in
                          IN  [steps |-> Append(acc.steps, [s EXCEPT !.in = in]), prev |-> in]
    IN  FoldLeft(next, [steps |-> <<>>, prev |-> ""], steps).steps

(* _chain_input_aliases: a step without a table works on the one before it;  *)
(* a join goes on under its left name.                                       *)
Chained(steps) ==
    LET next(acc, s) ==
            CASE s.op = "read" -> [steps |-> Append(acc.steps, s), prev |-> s.alias]
              [] s.op = "join" -> [steps |-> Append(acc.steps, s), prev |-> s.left]
              [] OTHER -> LET in == IF s.in = "" THEN acc.prev ELSE s.in
                          IN  [steps |-> Append(acc.steps, [s EXCEPT !.in = in]), prev |-> in]
    IN  FoldLeft(next, [steps |-> <<>>, prev |-> ""], steps).steps

(* A statement that only reads one temp starts on it.                        *)
StepsOf(part) ==
    LET steps == Chained(Laid(part))
        onTemp == Len(part.temps) = 1 /\ steps[1].op \notin {"read", "join"} /\ steps[1].in = ""
    IN  IF onTemp THEN Chained([steps EXCEPT ![1].in = part.temps[1]]) ELSE steps

(* _validate_step_aliases.                                                   *)
AliasesOf(step) == CASE step.op = "read" -> {} [] step.op = "join" -> {step.left, step.right} [] OTHER -> {step.in}
AliasesKnown(steps, known) == \A s \in ToSet(steps) : AliasesOf(s) \subseteq known \cup {""}

MappingGaps(part, temps) ==
    \/ part.outs = <<>>
    \/ \E j \in ToSet(part.joins) : j.type \notin JoinTypes
    \/ ~AliasesKnown(StepsOf(part), ToSet(part.reads) \cup temps)

(* map_contract_to_spark_plan.  Of several statements exactly one makes no   *)
(* temp, and each stands behind those it depends on.                         *)
NoSparkPlan == [err |-> TRUE, branches |-> <<>>, main |-> <<>>]

Mapped(contract) ==
    LET parts == contract.parts
        made == SelectSeq(parts, LAMBDA x : x.makes # "")
        last == SelectSeq(parts, LAMBDA x : x.makes = "")
        temps == {x.makes : x \in ToSet(made)}
        inOrder == \A i \in DOMAIN parts : ToSet(parts[i].deps) \subseteq {parts[j].id : j \in 1..(i-1)}
    IN  CASE Len(parts) <= 1 ->
               IF parts = <<>> \/ parts[1].reads = <<>> \/ MappingGaps(parts[1], {}) THEN NoSparkPlan
               ELSE [err |-> FALSE, branches |-> <<>>, main |-> StepsOf(parts[1])]
          [] OTHER ->
               IF Len(last) # 1 \/ ~inOrder \/ \E x \in ToSet(parts) : MappingGaps(x, temps) THEN NoSparkPlan
               ELSE [err |-> FALSE, main |-> StepsOf(last[1]),
                     branches |-> SeqMap(LAMBDA x : [makes |-> x.makes, steps |-> StepsOf(x)], made)]
==========================================================================
