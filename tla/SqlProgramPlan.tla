------------------------- MODULE SqlProgramPlan -------------------------
(* The program of statements made of a list of plans, its temp tables and    *)
(* its DAG check (planning/sql_program.py, planning/temp_table.py).          *)
(*   statement [id, plan, kind, deps : seq of ids, produces : temp or ""]    *)
(*   temp      [id, by : producer, for : seq of consumers, cols : seq]       *)
(*   program   [statements, temps, order, final]                             *)
EXTENDS SqlPlanBase

Ids(statements) == {s.id : s \in ToSet(statements)}
Statement(p, id) == CHOOSE s \in ToSet(p.statements) : s.id = id

Scanned(plan) == SeqMap(LAMBDA s : s.t, Steps(plan, "scan"))
JoinedTo(plan) == SeqMap(LAMBDA s : s.right, Steps(plan, "join"))
TempRefs(plan, temps) == (ToSet(Scanned(plan)) \cup ToSet(JoinedTo(plan))) \cap temps

(* _extract_output_columns: the aliases of the last projection.              *)
ProjectedColumns(plan) ==
    IF Steps(plan, "project") = <<>> THEN <<>>
    ELSE SeqMap(LAMBDA c : c.alias, Last(Steps(plan, "project")).cols)

(* topological_sort: a missing dependency is ignored, a cycle is an error,   *)
(* which build_from_statements turns into an empty order.                    *)
ProgramOrder(statements) ==
    LET ids == Ids(statements)
        deps(i) == ToSet((CHOOSE s \in ToSet(statements) : s.id = i).deps) \cap ids
        order == KahnOrder(ids, [i \in ids |-> deps(i)])
    IN  IF Len(order) = Len(statements) THEN order ELSE <<>>

(* _derive_temp_tables_from_statements, for a program given without any.     *)
DerivedTemps(statements) ==
    LET producers == Only(statements, LAMBDA s : s.produces # "")
        temps == {s.produces : s \in ToSet(producers)}
        readers(t) == Only(statements, LAMBDA s : t \in TempRefs(s.plan, temps))
    IN  SeqMap(LAMBDA s : [id |-> s.produces, by |-> s.id, cols |-> ProjectedColumns(s.plan),
                           for |-> SeqMap(LAMBDA r : r.id, readers(s.produces))], producers)

FromStatements(statements, temps, final) ==
    [statements |-> statements, order |-> ProgramOrder(statements), final |-> final,
     temps |-> IF temps = <<>> THEN DerivedTemps(statements) ELSE temps]

SingleProgram(plan) ==
    FromStatements(<<[id |-> plan.id, plan |-> plan, kind |-> "STANDALONE", deps |-> <<>>,
                      produces |-> ""]>>, <<>>, plan.id)

(* build_chain: every plan but the last produces the temp its successor      *)
(* reads.                                                                    *)
ChainProgram(plans) ==
    LET n == Len(plans)
        statement(i) == [id |-> plans[i].id, plan |-> plans[i],
                         kind |-> IF i = n THEN "FINAL" ELSE "PRODUCER",
                         deps |-> IF i = 1 THEN <<>> ELSE <<plans[i-1].id>>,
                         produces |-> IF i = n THEN "" ELSE ChainTemp(i)]
        temp(i) == [id |-> ChainTemp(i), by |-> plans[i].id, for |-> <<plans[i+1].id>>,
                    cols |-> ProjectedColumns(plans[i])]
    IN  FromStatements([i \in 1..n |-> statement(i)], [i \in 1..(n-1) |-> temp(i)], plans[n].id)

(* build_from_compute_steps: bridge plans first, then the steps as declared. *)
(* A step nobody reads is FINAL; the program's output is the first FINAL.    *)
(* A step or a source without a plan is an error: the empty program.         *)
NoProgram == [statements |-> <<>>, temps |-> <<>>, order |-> <<>>, final |-> ""]

StepsProgram(steps, plans, bridges) ==
    LET names == {s.name : s \in ToSet(steps)}
        consumed == names \cap UNION {ToSet(s.source) : s \in ToSet(steps)}
        readers(n) == Only(steps, LAMBDA s : n \in ToSet(s.source))
        produced(id, plan, for) == [id |-> Temp(id), by |-> plan.id, for |-> for, cols |-> ProjectedColumns(plan)]
        bridge(b) == [id |-> b.id, plan |-> b, kind |-> "PRODUCER", deps |-> <<>>, produces |-> Temp(b.id)]
        statement(s) == [id |-> s.name, plan |-> plans[s.name],
                         kind |-> IF s.name \in consumed THEN "PRODUCER" ELSE "FINAL",
                         deps |-> Only(s.source, LAMBDA x : x # "input"),
                         produces |-> IF s.name \in consumed THEN Temp(s.name) ELSE ""]
        statements == SeqMap(bridge, bridges) \o SeqMap(statement, steps)
        temps == SeqMap(LAMBDA b : produced(b.id, b, SeqMap(LAMBDA s : s.name, readers(b.id))), bridges)
                 \o SeqMap(LAMBDA s : produced(s.name, plans[s.name], SeqMap(LAMBDA r : r.name, readers(s.name))),
                           Only(steps, LAMBDA s : s.name \in consumed))
        finals == Only(statements, LAMBDA s : s.kind = "FINAL")
        built == \A s \in ToSet(steps) : s.name \in DOMAIN plans
        sourced == \A s \in ToSet(steps) : ToSet(s.source) \subseteq {"input"} \cup Ids(statements)
    IN  IF ~built \/ ~sourced THEN NoProgram
        ELSE FromStatements(statements, temps, IF finals = <<>> THEN Last(statements).id ELSE finals[1].id)

---------------------------------------------------------------------------
(* validate_program_dag: the blocking questions, by kind.                     *)
TempSpec(p, t) == CHOOSE x \in ToSet(p.temps) : x.id = t
DeclaredTemps(p) == {t.id : t \in ToSet(p.temps)}

ConsumerDeclared(p, id, t) ==
    t \in DeclaredTemps(p) /\ (TempSpec(p, t).by = id \/ id \in ToSet(TempSpec(p, t).for))

ProducerReaches(p, id, t) ==
    LET ids == Ids(p.statements)
        succ == [i \in ids |-> {s.id : s \in {x \in ToSet(p.statements) : i \in ToSet(x.deps)}}]
    IN  IsReachable(ids, succ, TempSpec(p, t).by, id)

DagQuestions(p) ==
    LET ids == Ids(p.statements)
        stmts == ToSet(p.statements)
        reads(s) == TempRefs(s.plan, Temps)
    IN  IF p.statements = <<>> THEN {"empty"}
        ELSE {"missing_dep" : s \in {x \in stmts : ~(ToSet(x.deps) \subseteq ids)}}
        \cup (IF ProgramOrder(p.statements) = <<>> THEN {"circular"} ELSE {})
        \cup {"temp_ref" : t \in {x \in ToSet(p.temps) : ~({x.by} \cup ToSet(x.for) \subseteq ids)}}
        \cup {"undeclared" : s \in {x \in stmts : x.produces # "" /\ x.produces \notin DeclaredTemps(p)}}
        \cup {"producer_mismatch" : s \in {x \in stmts : \E t \in ToSet(p.temps) :
                                              t.id = x.produces /\ t.by # x.id}}
        \cup {"unauthorized" : s \in {x \in stmts : \E t \in reads(x) : ~ConsumerDeclared(p, x.id, t)}}
        \cup {"no_producer_dep" : s \in {x \in stmts : \E t \in reads(x) \cap DeclaredTemps(p) :
                                            TempSpec(p, t).by # x.id /\ ~ProducerReaches(p, x.id, t)}}
        \cup (IF p.final # "" /\ p.final \notin ids THEN {"final_missing"} ELSE {})
        \cup (IF p.order # <<>> /\ p.order # ProgramOrder(p.statements) THEN {"topo_mismatch"} ELSE {})

---------------------------------------------------------------------------
(* SqlBuildPlanValidator.validate_multi_hop_chain (sql/validator.py): more   *)
(* than MaxHops joins in all, or a base table joined twice along one path of *)
(* statements, blocks.                                                       *)
MaxHops == 5

PathsTo(p) ==
    LET refs(s) == Only(JoinedTo(s.plan), LAMBDA t : t \notin Temps)
        extend(paths, s) ==
            LET from == FlattenSeq(SeqMap(LAMBDA d : paths[d], s.deps))
            IN  SeqMap(LAMBDA q : q \o refs(s), IF from = <<>> THEN << <<>> >> ELSE from)
    IN  FoldLeft(LAMBDA paths, id : (id :> extend(paths, Statement(p, id))) @@ paths, <<>>, p.order)

ChainBlocked(p) ==
    LET hops == FoldLeft(LAMBDA n, s : n + Len(JoinedTo(s.plan)), 0, p.statements)
        paths == UNION {ToSet(PathsTo(p)[id]) : id \in ToSet(p.order)}
    IN  hops > MaxHops \/ \E q \in paths : Cardinality(ToSet(q)) # Len(q)
==========================================================================
