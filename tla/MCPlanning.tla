--------------------------- MODULE MCPlanning ---------------------------
(* Families of small specs over orders o, customers c, regions r and         *)
(* payments p: one table, one join, a chain of joins, compute steps; and     *)
(* specs that leave outputs open, with what the models say of them.          *)
EXTENDS SparkPlanning

MCLex == << "__bridge_s2", "__bridge_s3", "_temp_0", "_temp_1", "_temp_2", "_temp_3", "_temp___bridge_s2", "_temp___bridge_s3",
            "_temp_global_whole", "_temp_grouped_cid", "_temp_merged_rt", "_temp_s1", "_temp_s2", "_temp_s3", "amt", "bill_oid",
            "c", "cid", "cnt", "cust_name", "fee", "fees", "global_whole", "grouped_cid", "input", "level", "merged_rt", "mon",
            "name", "o", "oid", "p", "pid", "plan", "plan1", "plan2", "plan3", "plan4", "r", "region", "rid", "rk",
            "rt", "s1", "s2", "s3", "tier", "total", "ts", "whole" >>

MCWithin == {<<"name", "cust_name">>}
MCEcho == <<"c", "cust_name">> :> 1
MCLikeness == [x \in ToSet(MCLex) \X {"amt", "oid", "fee", "name"} |-> 1]
MCAggOf == [x \in ToSet(MCLex) |-> IF x = "total" THEN "SUM" ELSE "COUNT"]

MCFkOf == [x \in ToSet(MCLex) |-> IF x = "bill_oid" THEN {"oid"} ELSE {}]
MCTypeOf == [x \in ToSet(MCLex) \cup {""} |->
                CASE x \in {"oid", "cid", "rid", "pid", "bill_oid"} -> "bigint"
                  [] x \in {"amt", "fee"} -> "decimal"
                  [] x = "ts" -> "timestamp"
                  [] x \in {"name", "region"} -> "varchar"
                  [] OTHER -> ""]

MCExprType == [x \in {"rt"} |-> "double"]

T(alias, keys, biz, flagged, filters, time) ==
    [alias |-> alias, source |-> "t_" \o alias, keys |-> keys, biz |-> biz, flagged |-> flagged,
     unique |-> {}, filters |-> filters, time |-> time]
Orders == T("o", <<"oid", "cid">>, <<"amt", "ts">>, {}, <<"amt">>, "ts")
Customers(unique) == T("c", <<"cid">>, <<"name", "rid">>, IF unique THEN {"cid"} ELSE {}, <<>>, "")
Regions == T("r", <<"rid">>, <<"region">>, {"rid"}, <<"region">>, "")
Payments == T("p", <<"pid">>, <<"bill_oid", "fee">>, {"pid"}, <<>>, "")

Agg(alias, fn, t, c) == [alias |-> alias, agg |-> fn, ref |-> Ref(t, c)]
Total == Agg("total", "SUM", "", "amt")
Count == Agg("cnt", "COUNT", "", "oid")
Dim(name, col, table, part) == [name |-> name, col |-> col, table |-> table, part |-> part]
Rule(out, c, pre) == [out |-> out, tree |-> "leaf", leaves |-> <<[c |-> c, kind |-> "cmp", lit |-> "number", eq |-> TRUE]>>,
                       pre |-> pre, values |-> {}]
Window(by, order) == [alias |-> "rk", fn |-> "RANK", by |-> by, order |-> order, input |-> ""]
Running(by, c) == [alias |-> "rk", fn |-> "SUM", by |-> by, order |-> <<>>, input |-> c]
J(lt, rt, key, type) == [lt |-> lt, rt |-> rt, lk |-> key, rk |-> key, type |-> type]

Blank == [tables |-> <<>>, joins |-> <<>>, metrics |-> <<>>, dims |-> <<>>, derived |-> <<>>, labels |-> <<>>,
          cases |-> <<>>, windows |-> <<>>, after |-> <<>>, ratios |-> <<>>, outputs |-> <<>>, grain |-> <<>>,
          sort |-> <<>>, limit |-> FALSE, range |-> "none", steps |-> <<>>,
          type |-> "aggregate", hints |-> <<>>, told |-> <<>>, toldAfter |-> <<>>, unsure |-> <<>>]

(* The answers of a model that has nothing to say.                           *)
NoPlan == [fails |-> FALSE, dims |-> <<>>, derived |-> <<>>, metrics |-> <<>>, rules |-> <<>>, unsure |-> <<>>]
NoReply == [fails |-> FALSE, metrics |-> <<>>, dims |-> <<>>, windows |-> <<>>, after |-> <<>>, computed |-> <<>>,
            ratios |-> <<>>, rules |-> <<>>]
NoLabels == [there |-> FALSE, fails |-> FALSE, rules |-> <<>>]
Silent == [plan |-> NoPlan, enrich |-> NoReply, extract |-> NoLabels]
Hearing(s, h) == [spec |-> s, model |-> TRUE, heard |-> h]
Alone(s) == [spec |-> s, model |-> FALSE, heard |-> Silent]
Enriching(s, reply) == Hearing(s, [Silent EXCEPT !.enrich = reply])

(* A rule as a model writes it.                                              *)
Said(r) == [out |-> r.out, tree |-> r.tree, leaves |-> r.leaves, phase |-> IF r.pre THEN "pre" ELSE "post",
            values |-> r.values, else |-> TRUE, domain |-> {}, evidence |-> "anchored"]

(* What a parsed spec declares of s, and a model that answers the rest.      *)
Declaring(s) ==
    [s EXCEPT !.labels = <<>>, !.windows = <<>>, !.after = <<>>, !.ratios = <<>>,
              !.dims = SelectSeq(@, LAMBDA d : ~d.part), !.told = s.windows, !.toldAfter = s.after]
Filling(s) ==
    [NoReply EXCEPT !.dims = SelectSeq(s.dims, LAMBDA d : d.part), !.windows = s.windows, !.after = s.after,
                    !.ratios = SeqMap(LAMBDA r : r @@ [sure |-> TRUE], s.ratios), !.rules = SeqMap(Said, s.labels)]
Answering(s) == Enriching(Declaring(s), Filling(s))
Filled(specs) == {Answering(s) : s \in specs} \cup {Alone(Declaring(s)) : s \in specs}

(* The outputs a spec asks for: all it computes.                             *)
Asking(s) == [s EXCEPT !.outputs = SeqMap(LAMBDA d : d.name, s.dims) \o Aliases(s.metrics)
                                   \o SeqMap(LAMBDA r : r.out, s.labels) \o Aliases(s.windows) \o Aliases(s.ratios),
                       !.grain = SeqMap(LAMBDA d : d.name, s.dims)]

OneTable ==
    {Asking([Blank EXCEPT !.tables = <<Orders>>, !.metrics = ms, !.dims = ds, !.labels = ls,
                          !.windows = IF ms = <<>> \/ ds[1].part THEN <<>> ELSE ws,
                          !.after = IF ms # <<>> /\ ~ds[1].part /\ ws # <<>> /\ tail THEN <<"rk">> ELSE <<>>,
                          !.ratios = IF ratio /\ ms # <<>> THEN <<[alias |-> "rt", num |-> "total", den |-> "cnt"]>> ELSE <<>>,
                          !.sort = IF tail THEN <<ds[1].name>> ELSE <<>>, !.limit = tail,
                          !.range = IF tail THEN "" ELSE "none"]) :
        ms \in {<<>>, <<Total, Count>>}, ds \in {<<Dim("cid", "cid", "", FALSE)>>, <<Dim("mon", "ts", "", TRUE)>>},
        ls \in {<<>>, <<Rule("level", "amt", TRUE)>>, <<Rule("level", "total", FALSE)>>},
        ws \in {<<>>, <<Window(<<"cid">>, <<"total">>)>>}, ratio \in BOOLEAN, tail \in BOOLEAN}

(* A window over a metric, which only the layout with ratios can place.      *)
Layered == [CHOOSE s \in OneTable : s.ratios # <<>> /\ s.labels = <<>> /\ ~s.limit /\ s.dims[1].col = "cid"
            EXCEPT !.windows = <<Running(<<"cid">>, "total")>>, !.outputs = <<"cid", "total", "cnt", "rk", "rt">>,
                   !.range = ""]

OneJoined ==
    {Asking([Blank EXCEPT !.tables = <<Orders, Customers(u)>>, !.joins = js,
                          !.metrics = <<Total>>, !.dims = <<Dim("name", "name", t, FALSE)>>, !.range = range]) :
        u \in BOOLEAN, js \in {<<>>, <<J("o", "c", "cid", "INNER")>>, <<J("o", "c", "cid", "LEFT")>>},
        t \in {"", "c"}, range \in {"none", "ts"}}

(* The table on the right of a LEFT join has a filter of its own.            *)
Outer == {[s EXCEPT !.tables[2].filters = <<"name">>] :
              s \in {x \in OneJoined : x.joins # <<>> /\ x.joins[1].type = "LEFT" /\ x.range = "ts"}}

ChainJoined ==
    {Asking([Blank EXCEPT !.tables = <<Orders, Customers(TRUE), Regions>>,
                          !.joins = IF swap THEN <<J("c", "r", "rid", type), J("o", "c", "cid", type)>>
                                            ELSE <<J("o", "c", "cid", type), J("c", "r", "rid", type)>>,
                          !.metrics = <<m>>, !.dims = <<Dim("region", "region", t, FALSE)>>, !.range = range]) :
        swap \in BOOLEAN, type \in {"INNER", "LEFT"}, m \in {Total, Agg("cnt", "COUNT", "", "rid")},
        t \in {"", "r"}, range \in {"none", "ts"}}

Step(name, source, by, metrics) ==
    [name |-> name, source |-> source, listed |-> Len(source) > 1, by |-> by, metrics |-> metrics,
     case |-> "", when |-> <<>>, phase |-> TRUE, exprs |-> <<>>, joins |-> <<>>]
By(c) == <<Ref("", c)>>

(* The first step takes a total per customer or per order; what later steps  *)
(* read of it, it has.                                                       *)
Fees == Agg("fees", "SUM", "p", "fee")
Totals(c) == Step("s1", <<"input">>, By(c), <<Total>>)
Labelled == [Step("s2", <<"s1">>, <<>>, <<>>) EXCEPT !.case = "level", !.when = <<"total">>]
Rated == [Labelled EXCEPT !.exprs = <<"rt">>]
Joined == [Step("s2", <<"s1">>, By("cid"), <<Agg("cnt", "COUNT", "", "total")>>) EXCEPT !.joins = <<J("_temp_s1", "c", "cid", "LEFT")>>]
(* Joins of a confluence that the validator looks at: with a step that       *)
(* passes all on and so has an empty schema, and by an expression's type.    *)
Confluence(j) == [Step("s3", <<"s1", "s2">>, By("cid"), <<>>) EXCEPT !.joins = <<j>>]
Passing == Step("s2", <<"s1">>, <<>>, <<>>)
ByRate == [lt |-> "s2", rt |-> "s1", lk |-> "rt", rk |-> "total", type |-> "LEFT"]
Flow(steps, outs) == [steps |-> steps, outs |-> outs]

Flows ==
    { Flow(<<Totals("cid")>>, <<"cid", "total">>),
      Flow(<<Totals("cid"), Step("s2", <<"s1">>, By("cid"), <<>>)>>, <<"cid">>),
      Flow(<<Totals("cid"), Labelled>>, <<"total", "level">>),
      Flow(<<Totals("cid"), Rated, Step("s3", <<"s2">>, By("level"), <<Agg("cnt", "COUNT", "", "rt")>>)>>, <<"level", "cnt">>),
      Flow(<<Totals("oid"), Step("s2", <<"s1">>, By("oid"), <<Fees>>)>>, <<"oid", "fees">>),
      Flow(<<Totals("cid"), Step("s2", <<"s1">>, By("cid"), <<Fees>>)>>, <<"cid", "fees">>),
      Flow(<<Totals("cid"), Joined>>, <<"cid", "cnt">>),
      Flow(<<Totals("cid"), Step("s2", <<"input">>, By("cid"), <<Count>>),
             Step("s3", <<"s1", "s2">>, By("cid"), <<Agg("fees", "SUM", "", "total")>>)>>, <<"cid", "fees">>),
      Flow(<<Totals("cid"), Step("s2", <<"input">>, By("cid"), <<Count>>),
             Step("s3", <<"s1", "s2">>, By("cid"), <<Agg("fees", "SUM", "", "total")>>)>>, <<"cid", "fees", "cnt">>),
      Flow(<<Totals("oid"), Step("s2", <<"s1">>, By("oid"), <<Fees>>),
             Step("s3", <<"s2">>, By("oid"), <<Agg("total", "SUM", "", "fees")>>)>>, <<"oid", "total">>),
      Flow(<<Totals("cid"), Passing, Confluence(J("s1", "s2", "cid", "INNER"))>>, <<"cid">>),
      Flow(<<Totals("cid"), Passing, Confluence(J("s2", "s1", "cid", "INNER"))>>, <<"cid">>),
      Flow(<<Totals("cid"), Step("s2", <<"s3">>, By("cid"), <<>>)>>, <<"cid">>) }

WithSteps(flows) ==
    {[Blank EXCEPT !.tables = <<Orders, Customers(u), Payments>>, !.joins = js, !.steps = f.steps,
                   !.outputs = f.outs, !.sort = <<f.outs[1]>>, !.range = "ts"] :
        f \in flows, u \in BOOLEAN, js \in {<<>>, <<J("s1", "s2", "cid", "INNER")>>}}

(* What a spec leaves open, and what a model may say of it.                  *)
Open(tables, outs) == [Blank EXCEPT !.tables = tables, !.outputs = outs, !.range = "ts"]
PerCustomer == [Open(<<Orders>>, <<"cid", "total">>) EXCEPT !.dims = <<Dim("cid", "cid", "", FALSE)>>, !.grain = <<"cid">>]
TotalEach == [PerCustomer EXCEPT !.metrics = <<Total>>]
Planner(reply) == [Silent EXCEPT !.plan = reply]

(* Dimensions nobody declares: a column of one table, one found by its       *)
(* table's name (in a join that is made: nothing misses a table that only    *)
(* such a dimension needs).                                                  *)
Inferring ==
    {[s EXCEPT !.dims = <<>>, !.grain = <<>>] : s \in OneJoined \cup {x \in ChainJoined : x.joins[1].type = "INNER"}}
    \cup {[s EXCEPT !.dims = <<>>, !.grain = <<>>, !.outputs = <<"cust_name", "total">>] :
        s \in {x \in OneJoined : x.joins # <<>> /\ ~Unsafe(x, x.joins[1])}}

(* A label table: what the planner marks and says, what the extractor does.  *)
Tier == [Said(Rule("tier", "amt", TRUE)) EXCEPT !.domain = {"high", "low"}, !.values = {"high"}]
Level == [Tier EXCEPT !.out = "level"]
LabelTable == [Open(<<Orders>>, <<"cid", "level", "tier">>) EXCEPT
                  !.type = "label", !.dims = <<Dim("cid", "cid", "", FALSE)>>, !.grain = <<"cid">>]
Mark(o) == [ref |-> "u_" \o o, out |-> o, kind |-> "LABEL"]
Extractors ==
    {NoLabels, [NoLabels EXCEPT !.there = TRUE, !.fails = TRUE]}
    \cup {[there |-> TRUE, fails |-> FALSE, rules |-> rs] :
            rs \in {<<>>, <<Tier, Level>>, <<Tier, [Tier EXCEPT !.evidence = "loose"]>>,
                     <<[Level EXCEPT !.domain = {}], [Tier EXCEPT !.leaves[1].c = "fee"]>>,
                     <<[Level EXCEPT !.leaves[1].lit = "string"], [Tier EXCEPT !.leaves[1].kind = "part"]>>}}
Labelling ==
    {Hearing(LabelTable, [plan |-> [NoPlan EXCEPT !.rules = rs, !.unsure = us], enrich |-> NoReply, extract |-> x]) :
        rs \in {<<>>, <<Level>>}, us \in {<<>>, <<Mark("tier")>>, <<Mark("level"), Mark("tier")>>}, x \in Extractors}

(* Replies of the planner: proposals a spec takes, and every objection.  Its *)
(* rules come after the aggregation, whatever they read.                     *)
High == [Level EXCEPT !.leaves[1].c = "total"]
Plans ==
    {NoPlan, [NoPlan EXCEPT !.fails = TRUE]}
    \cup {[NoPlan EXCEPT !.metrics = ms, !.dims = ds] :
            ms \in {<<Total>>, <<Agg("total", "MAX", "", "oid")>>, <<Total, Total>>, <<Agg("", "SUM", "", "amt")>>},
            ds \in {<<>>, <<Dim("oid", "oid", "", FALSE)>>, <<Dim("cid", "cid", "", FALSE)>>, <<Dim("mon", "fee", "", TRUE)>>}}
    \cup {[NoPlan EXCEPT !.metrics = <<Total>>, !.derived = d] :
            d \in {<<Dim("mon", "ts", "", TRUE)>>, <<Dim("mon", "fee", "", TRUE)>>,
                    <<Dim("mon", "ts", "", TRUE), Dim("mon", "ts", "", TRUE)>>}}
    \cup {[NoPlan EXCEPT !.metrics = <<Total>>, !.rules = <<r>>] :
            r \in {High, [High EXCEPT !.leaves[1].c = "fee"], [High EXCEPT !.leaves = <<>>], [High EXCEPT !.else = FALSE],
                    [High EXCEPT !.tree = "none"], [High EXCEPT !.tree = "not"]}}
Planning ==
    {Hearing(s, Planner(p)) : p \in Plans,
        s \in {[PerCustomer EXCEPT !.dims = <<>>, !.grain = <<>>], [TotalEach EXCEPT !.outputs = <<"cid", "total", "level">>],
               [PerCustomer EXCEPT !.outputs = <<"cid", "total", "level", "mon">>]}}

(* Replies of the enricher to a spec with a metric, or to one without.       *)
Rater(num, den, sure) == [alias |-> "rt", num |-> num, den |-> den, sure |-> sure]
Replies ==
    {NoReply, [NoReply EXCEPT !.fails = TRUE], [NoReply EXCEPT !.computed = <<"cnt">>]}
    \cup {[NoReply EXCEPT !.metrics = ms, !.ratios = rs] :
            ms \in {<<>>, <<Count>>, <<[Count EXCEPT !.agg = "MEDIAN"]>>, <<Count, Agg("total", "MAX", "", "oid")>>, <<Agg("cnt", "MAX", "", "ts")>>},
            rs \in {<<>>, <<Rater("total", "cnt", TRUE)>>, <<Rater("total", "cnt", FALSE)>>, <<Rater("cnt", "name", TRUE)>>,
                    <<[Rater("total", "cnt", TRUE) EXCEPT !.alias = "total"]>>}}
    \cup {[NoReply EXCEPT !.metrics = <<Count>>, !.dims = <<d>>] :
            d \in {Dim("mon", "ts", "o", TRUE), Dim("mon", "fee", "o", TRUE), Dim("tier", "ts", "", TRUE), Dim("total", "oid", "", FALSE)}}
    \cup {[NoReply EXCEPT !.metrics = <<Count>>, !.windows = <<w>>, !.after = <<"rk">>] :
            w \in {Window(<<"cid">>, <<"total">>), [Window(<<"cid">>, <<"total">>) EXCEPT !.fn = "MODE"]}}
    \cup {[NoReply EXCEPT !.metrics = <<Count>>, !.rules = <<r>>] :
            r \in {[Level EXCEPT !.phase = ""], [Level EXCEPT !.phase = "", !.leaves[1].c = "total"],
                    [Level EXCEPT !.phase = "", !.leaves[1].c = "level"], [Level EXCEPT !.evidence = "none"],
                    [Level EXCEPT !.tree = "none"], [Level EXCEPT !.values = {"other"}]}}
Asks(s, extra) == [s EXCEPT !.outputs = @ \o extra]
Completing ==
    {Enriching(Asks(s, extra), r) : s \in {TotalEach, [PerCustomer EXCEPT !.type = "detail"]}, r \in Replies,
        extra \in {<<"cnt">>, <<"cnt", "level">>, <<"cnt", "rt">>, <<"cnt", "mon">>, <<"cnt", "rk">>}}
    \cup {Hearing(Asks(TotalEach, <<"cnt">>), [Planner(p) EXCEPT !.enrich = [NoReply EXCEPT !.metrics = <<Count>>]]) :
            p \in Plans}

(* Hints of descriptions: a metric, and a ratio across grains.               *)
Hint(kind, text, decl) == [kind |-> kind, text |-> text, decl |-> decl]
Hinting ==
    {Alone([Asks(TotalEach, <<"cnt">>) EXCEPT !.hints = "cnt" :> Hint("metric", text, Count)]) : text \in BOOLEAN}
    \cup {Alone([Asks(TotalEach, <<"rt">>) EXCEPT
                !.hints = "rt" :> Hint("computed", FALSE, [alias |-> "rt", deps |-> deps])]) :
            deps \in {<<"total", "whole">>, <<"total">>}}

(* Compute steps whose rules nothing places before or after the aggregation. *)
Placeless == [Labelled EXCEPT !.phase = FALSE]
OverExpr == [Step("s3", <<"s2">>, <<>>, <<>>) EXCEPT !.case = "tier", !.when = <<"rt">>, !.phase = FALSE]
Unplaced ==
    { Flow(<<Totals("cid"), [Placeless EXCEPT !.when = <<"total">>]>>, <<"total", "level">>),
      Flow(<<Totals("cid"), Rated, OverExpr>>, <<"level", "tier">>) }

(* Step s2 has no column cid, so no join of the spec may name it.            *)
Crossed == {s \in WithSteps({Flow(<<Totals("cid"), Rated, Confluence(ByRate)>>, <<"cid">>)}) : s.joins = <<>>}

MCRequests ==
    {Answering(Layered)} \cup Filled(Outer \cup OneTable \cup OneJoined \cup ChainJoined \cup WithSteps(Flows \cup Unplaced) \cup Crossed)
    \cup {Alone(s) : s \in Inferring} \cup {Enriching(s, NoReply) : s \in Inferring}
    \cup Labelling \cup Planning \cup Completing \cup Hinting
Guess(lt, rt, conf) == [lt |-> lt, rt |-> rt, lk |-> "cid", rk |-> "cid", type |-> "INNER", conf |-> conf]
MCAnswers == {<<>>, <<Guess("o", "c", "high")>>, <<Guess("c", "o", "high"), Guess("o", "c", "low")>>}
==========================================================================
