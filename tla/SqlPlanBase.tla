--------------------------- MODULE SqlPlanBase ---------------------------
(* What the SQL planning modules share: the shape of plans and the two       *)
(* sorts the source repeats.  Names of steps, tables and columns are         *)
(* strings; Lex lists them in text order, for the code's sorted() and its    *)
(* heaps of names.  A plan is a sequence of step records with an "op" field, *)
(* a column reference is [t |-> table or "", c |-> column].                  *)
EXTENDS Naturals, Sequences, SequencesExt, FiniteSets, TLC

CONSTANT Lex            \* every name, in text order
ASSUME LexAssumption == Lex \in Seq(STRING)

IsSeq(s) == s \in Seq(ToSet(s))         \* a sequence, of whatever it holds

Rank(x) == IF x \in ToSet(Lex) THEN CHOOSE i \in DOMAIN Lex : Lex[i] = x ELSE Len(Lex) + 1
Least(S) == CHOOSE x \in S : \A y \in S : Rank(x) <= Rank(y)

(* The elements of s at the indices in I, in order; those that pass a test   *)
(* (SelectSeq, written so that proofs can expand it); the first of equal     *)
(* ones (the code's "seen" sets).                                            *)
Kept(s, I) ==
    LET upto[i \in 0..Len(s)] ==
            IF i = 0 THEN <<>> ELSE IF i \in I THEN Append(upto[i-1], s[i]) ELSE upto[i-1]
    IN  upto[Len(s)]
Only(s, Test(_)) == Kept(s, {i \in DOMAIN s : Test(s[i])})
Dedup(s) == Kept(s, {i \in DOMAIN s : \A j \in 1..(i-1) : s[j] # s[i]})
Sorted(S) == Only(Lex, LAMBDA x : x \in S)       \* the names of S in text order

(* Kahn's algorithm with a heap of names.  Members of a cycle never become   *)
(* ready and are missing from the result.                                    *)
KahnOrder(nodes, preds) ==
    LET order[n \in 0..Cardinality(nodes)] ==
            LET before == order[n-1]
                ready == {x \in nodes \ ToSet(before) : preds[x] \subseteq ToSet(before)}
            IN  IF n = 0 THEN <<>> ELSE IF ready = {} THEN before ELSE Append(before, Least(ready))
    IN  order[Cardinality(nodes)]

(* Whether target is reachable along succ from source.                       *)
IsReachable(nodes, succ, source, target) ==
    LET reach[n \in 0..Cardinality(nodes)] ==
            IF n = 0 THEN {source}
            ELSE reach[n-1] \cup UNION {succ[x] : x \in reach[n-1] \cap nodes}
    IN  target \in reach[Cardinality(nodes)]

Temp(name) == "_temp_" \o name          \* make_temp_name, the chain's id left out
ChainTemp(i) == Temp(ToString(i - 1))   \* of the i-th plan of a chain
Temps == ToSet(Lex) \cap ({Temp(y) : y \in ToSet(Lex)} \cup {ChainTemp(i) : i \in DOMAIN Lex})
Ref(t, c) == [t |-> t, c |-> c]
Scan(t, cols) == [op |-> "scan", t |-> t, cols |-> cols]
Join(type, right, keys) == [op |-> "join", type |-> type, right |-> right, keys |-> keys, ref |-> ""]
Steps(plan, op) == Only(plan.steps, LAMBDA s : s.op = op)
\* A dict with one more entry, or another in its place.
Put(dict, k, v) == [x \in DOMAIN dict \cup {k} |-> IF x = k THEN v ELSE dict[x]]
SeqMap(f(_), s) == [i \in DOMAIN s |-> f(s[i])]
Aliases(s) == [i \in DOMAIN s |-> s[i].alias]
==========================================================================
