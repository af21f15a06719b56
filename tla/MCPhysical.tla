---------------------------- MODULE MCPhysical ----------------------------
(* Two runs.  Most instances have one run with the snapshot in place and a   *)
(* pair of results: every pair of up to two rows, every type, and larger     *)
(* results, above the limit, that share, lack or change a row.  The others   *)
(* have two runs that build, of one contract or of two.                      *)
EXTENDS PhysicalVerify

MCAscending == <<"null", "nan", "blank", "", "1", "1r", "1~", "2", "NaN", "a", "a|b", "a|||b", "b", "b|c", "b|||c", "c", "d", "d.iso", "e", "e.iso", "float">>

(* The order of strings, character by character, on all texts of two keys.   *)
Letters == ".12Nabcdefiklnorstu|~"
Code(x, n) == CHOOSE m \in 1..Len(Letters) : SubSeq(Letters, m, m) = SubSeq(x, n, n)
Before(x, y) == \E n \in 1..Len(y) :
                    /\ Len(x) >= n - 1 /\ SubSeq(x, 1, n - 1) = SubSeq(y, 1, n - 1)
                    /\ Len(x) < n \/ Code(x, n) < Code(y, n)
SortTexts == {Joined("|||", x) : x \in SeqOf(ToSet(MCAscending), 2)}
Places == [x \in SortTexts |-> Cardinality({y \in SortTexts : Before(y, x)})]
MCPlace(x) == Places[x]
MCTables == <<"anchor", "joined">>
MCForeign(j, seen) == IF "none" \in seen THEN <<[k |-> "b", v |-> "2"]>> ELSE <<[k |-> "a", v |-> "2"]>>

Results(ks, vs, n) == SeqOf([k : ks, v : vs], n)
Job(contract, filter, has, order, pks, k, v, declared, D, S) ==
    [active |-> TRUE, contract |-> contract, filter |-> filter, held |-> has, order |-> order, pks |-> pks,
     types |-> [k |-> k, v |-> v, z |-> ""], declared |-> declared, unsupported |-> FALSE, rounds |-> 1, duck |-> D, spark |-> S]
Idle == [Job("i1", "f1", FALSE, <<>>, <<>>, "varchar", "varchar", TRUE, <<>>, <<>>) EXCEPT !.active = FALSE]
Solo(order, pks, k, v, D, S) == Job("i1", "f1", TRUE, order, pks, k, v, TRUE, D, S)

(* Every pair of results of up to two rows; and of two rows whose keys or    *)
(* values are numbers written at another scale, or close to each other.      *)
Small == {Solo(<<"k">>, <<"k">>, "varchar", "double", D, S) :
             D \in Results({"a", "b"}, {"null", "1", "1~"}, 2), S \in Results({"a", "b"}, {"null", "1", "1~"}, 2)}
Scaled == {<<x, y>> : x, y \in [k : {"1", "1r", "1~"}, v : {"1", "1~"}]}
Decimals == {Solo(<<"k">>, <<"k">>, "decimal", v, D, S) : v \in {"varchar", "decimal", "double"}, D \in Scaled, S \in Scaled}
(* One row on either side, every type and value.                             *)
TypedValues == [varchar |-> {"blank", "null", "a"}, double |-> {"nan", "1", "1~"},
                decimal |-> {"1", "1r", "2"}, date |-> {"d", "e"}, timestamp |-> {"a"}]
Single == UNION {{Solo(order, pks, k, v, <<[k |-> kx, v |-> x]>>, <<[k |-> kx, v |-> y]>>) :
                       order \in {<<>>, <<"k">>}, pks \in {<<>>, <<"k">>}, kx \in TypedValues[k],
                       x \in TypedValues[v], y \in TypedValues[v]} : k \in {"varchar", "date"}, v \in DOMAIN TypedValues}
(* Two rows, matched by the keys of the contract, the sort column, a column  *)
(* that is not delivered, or not at all.                                     *)
Row(k, v) == [k |-> k, v |-> v]
Two == {<<Row("a", "1"), Row("b", "2")>>, <<Row("b", "2"), Row("a", "1")>>, <<Row("a", "1"), Row("a", "2")>>,
        <<Row("a", "2"), Row("a", "1")>>, <<Row("a", "1"), Row("b", "1")>>, <<Row("a", "null"), Row("b", "null")>>}
Keyed == {[Solo(order, pks, "varchar", "double", D, S) EXCEPT !.declared = declared, !.unsupported = unsupported] :
             order \in {<<>>, <<"v">>, <<"k", "v">>, <<"z">>}, pks \in {<<>>, <<"k">>}, D \in Two, S \in Two,
             declared \in {TRUE, FALSE}, unsupported \in {FALSE}}
         \cup {[Solo(<<>>, <<>>, "varchar", "double", <<>>, <<>>) EXCEPT !.unsupported = TRUE]}
(* Above the limit of two rows; four rows are above that of the sample.  The *)
(* first key takes values that text, or the way it is printed, confuses.     *)
Three == {<<Row("a", "1"), Row("b", "1"), Row("a", "2")>>, <<Row("c", "1"), Row("a", "2"), Row("b", "null")>>,
          <<Row("b", "null"), Row("c", "1"), Row("a", "2")>>, <<Row("a", "null"), Row("b", "null"), Row("c", "1")>>,
          <<Row("a", "1"), Row("a", "2"), Row("a", "1")>>, <<Row("a", "1"), Row("b", "1")>>,
          <<Row("a", "1"), Row("b", "2"), Row("b", "1"), Row("a", "2")>>,
          <<Row("null", "1"), Row("a", "1"), Row("b", "1")>>, <<Row("blank", "1"), Row("null", "2"), Row("a", "2")>>}
Large == {[Solo(order, <<>>, "varchar", "double", D, S) EXCEPT !.declared = declared] :
             order \in {<<"k">>, <<"k", "v">>, <<"v">>}, declared \in BOOLEAN, D \in Three, S \in Three}
Numbers == {<<Row("1", "1"), Row("1~", "1"), Row("2", "1")>>, <<Row("2", "1"), Row("1", "1"), Row("b", "1")>>,
            <<Row("1~", "1"), Row("a", "2"), Row("b", "1")>>, <<Row("2", "1"), Row("1~", "1"), Row("1", "1")>>}
Printable == {Solo(<<"k">>, <<>>, k, "double", D, S) : k \in {"double", "varchar"}, D \in Numbers, S \in Numbers}

(* Two runs: of one contract or of two, with one filter or two; the first    *)
(* has a snapshot or builds it, and is verified twice.                       *)
(* Two keys, whose texts contain the separators.                             *)
Piped == {<<Row("a|b", "c"), Row("a", "b|c")>>, <<Row("a", "b|c"), Row("a|b", "c")>>, <<Row("a", "b|c"), Row("b", "c")>>,
          <<Row("a|b", "c"), Row("b", "c")>>, <<Row("a|||b", "c"), Row("a", "b|||c"), Row("b", "c")>>,
          <<Row("b", "c"), Row("a", "b|||c"), Row("a|||b", "c")>>}
Separated == {Solo(<<"k", "v">>, <<"k", "v">>, "varchar", "varchar", D, S) : D \in Piped, S \in Piped}
Good == <<Row("a", "1"), Row("b", "1")>>
Builders(c, f, has) == {[Job(c, f, has, <<"k">>, <<"k">>, "varchar", "double", TRUE, Good, Good) EXCEPT !.rounds = 2]}
Alone(jobs) == {[r1 |-> j, r2 |-> Idle] : j \in jobs}
MCAssignments == Alone(Small \cup Decimals \cup Single \cup Keyed \cup Large \cup Printable \cup Separated)
                 \cup UNION {{[r1 |-> x, r2 |-> y] : x \in Builders("i1", "f1", has), y \in Builders(c, f, FALSE)} :
                              c \in {"i1", "i2"}, f \in {"f1", "f2"}, has \in BOOLEAN}
(* A plan that sorts by a column with equal values.                          *)
Tied == {<<Row("a", "1"), Row("b", "1")>>, <<Row("b", "1"), Row("a", "1")>>, <<Row("a", "1"), Row("a", "1")>>,
         <<Row("a", "1"), Row("b", "2")>>}
MCTies == Alone({Solo(<<"v">>, <<"k">>, "varchar", "double", D, S) : D \in Tied, S \in Tied})
==========================================================================
