-------------------------- MODULE ResultCompare --------------------------
(* How the rows of two engines are compared (spark/physical_verifier.py):    *)
(* canonical text, the order of the rows, equivalent values, the status; and *)
(* the sampled comparison of a result that is too large to be collected.     *)
(* A result is a sequence of rows [k, v]; what Python holds of a row leaves  *)
(* out the columns Spark's JSON leaves out.  A job tells the types of the    *)
(* columns, the sort keys of its Spark plan, the keys of its contract and    *)
(* whether the contract declares its output.                                 *)
EXTENDS Integers, Sequences, FiniteSets, SequencesExt

CONSTANTS Ascending,    \* the values and their texts, in ascending order
          MaxKeys,      \* a result has no more sort keys
          Place(_),     \* how many texts come before this one in the order of strings
          MaxRows,      \* a result with more rows is not collected
          DimCount,     \* values of the first key that are sampled
          SampleCap     \* a larger sample is given up

ASSUME ValueAssumption ==
    /\ Ascending \in Seq(ToSet(Ascending))
    /\ \A m, n \in DOMAIN Ascending : Ascending[m] = Ascending[n] => m = n

Columns == {"k", "v"}
Missing == {"null", "nan", "blank"}
Iso == [d |-> "d.iso", e |-> "e.iso"]

(* Spark's JSON has no field for a NULL, and text for a date and for NaN.    *)
Spelled(x) == IF x \in DOMAIN Iso THEN Iso[x] ELSE IF x = "nan" THEN "NaN" ELSE x
Json(r) == [c \in {c \in DOMAIN r : r[c] # "null"} |-> Spelled(r[c])]
Parsed(rows) == [i \in DOMAIN rows |-> Json(rows[i])]

At(r, c) == IF c \in DOMAIN r THEN r[c] ELSE ""
Raw(r, c) == IF c \in DOMAIN r THEN r[c] ELSE "null"
Text(x) == IF x \in Missing THEN "" ELSE IF x \in DOMAIN Iso THEN Iso[x] ELSE x
ASSUME TextAssumption ==
    /\ "" \in ToSet(Ascending) /\ \A x \in ToSet(Ascending) : {Text(x), Spelled(x)} \subseteq ToSet(Ascending)
    /\ DimCount \in Nat /\ SampleCap \in Nat /\ MaxRows \in Nat
Fill(r, cols) == [c \in cols \cup DOMAIN r |-> At(r, c)]
Present(rows) == UNION {DOMAIN rows[i] : i \in DOMAIN rows}

Rank == [x \in ToSet(Ascending) |-> CHOOSE n \in DOMAIN Ascending : Ascending[n] = x]

(* Rows are sorted, and matched, by one string: the texts of the keys joined *)
(* by a separator, which a text may contain as well.                         *)
Joined(separator, x) == IF x = <<>> THEN ""
                        ELSE FoldLeft(LAMBDA s, t : s \o separator \o t, x[1], Tail(x))
Parts(r, keys) == [i \in DOMAIN keys |-> At(r, keys[i])]
KeyOf(r, keys) == Joined("|", Parts(r, keys))
SortPlace(r, keys) == Place(Joined("|||", Parts(r, keys)))
ASSUME PlaceAssumption == MaxKeys \in Nat /\ \A n \in 0..MaxKeys : \A x \in [1..n -> ToSet(Ascending)] :
                              Place(Joined("|||", x)) \in Nat

Ahead(rows, keys, i) == {j \in DOMAIN rows : \/ SortPlace(rows[j], keys) < SortPlace(rows[i], keys)
                                             \/ j < i /\ SortPlace(rows[j], keys) = SortPlace(rows[i], keys)}
Sorted(rows, keys) == [n \in DOMAIN rows |->
                           rows[CHOOSE i \in DOMAIN rows : Cardinality(Ahead(rows, keys, i)) = n - 1]]
Texts(rows, cols) == [i \in DOMAIN rows |-> Fill([c \in DOMAIN rows[i] |-> Text(rows[i][c])], cols)]
Unordered(rows, keys) == keys = <<>> /\ Len(rows) > 1
CanonicalM(rows, keys) == Texts(rows, Present(rows))
Canonical(rows, keys) == Sorted(Texts(rows, Present(rows)), keys)

(* Both empty, the same text, close as floats; a decimal may also agree at   *)
(* the scale of its column.  Numbers contain no separator.                   *)
Equivalent(x, y, type) == \/ x = y
                          \/ {x, y} = {"1", "1~"}
                          \/ type = "decimal" /\ {x, y} = {"1", "1r"}
ASSUME NumberAssumption ==
    \A n \in 0..MaxKeys : \A x, y \in [1..n -> ToSet(Ascending)] :
        (\A i \in 1..n : Equivalent(x[i], y[i], "decimal")) /\ Joined("|", x) = Joined("|", y) => x = y
Unlike(d, s, types) == \E c \in DOMAIN d \cup DOMAIN s : ~Equivalent(At(d, c), At(s, c), types[c])

KeysOf(rows, keys) == {KeyOf(rows[i], keys) : i \in DOMAIN rows}
FirstWith(rows, keys, key) ==
    rows[CHOOSE i \in DOMAIN rows : KeyOf(rows[i], keys) = key /\ \A j \in 1..i-1 : KeyOf(rows[j], keys) # key]

(* With keys every Spark row meets the first DuckDB row of its key, without  *)
(* them rows meet by position.                                               *)
DiffersByKey(D, S, keys, types) ==
    \/ KeysOf(D, keys) # KeysOf(S, keys)
    \/ \E i \in DOMAIN S : Unlike(FirstWith(D, keys, KeyOf(S[i], keys)), S[i], types)
DiffersByPosition(D, S, types) ==
    \/ Len(D) # Len(S)
    \/ \E i \in DOMAIN S : Unlike(D[i], S[i], types)
Differs(D, S, keys, types) == IF keys # <<>> THEN DiffersByKey(D, S, keys, types)
                                             ELSE DiffersByPosition(D, S, types)

Verdict(D, S, keys, types) ==
    IF D = <<>> /\ S = <<>> THEN "HUMAN_REVIEW"
    ELSE IF Len(D) = Len(S) /\ Present(D) = Present(S) /\ ~Differs(D, S, keys, types) THEN "RESULT_CONSISTENT"
    ELSE IF (D = <<>>) # (S = <<>>) /\ Present(D) = Present(S) THEN "HUMAN_REVIEW" ELSE "RESULT_MISMATCH"

FillAll(rows) == [i \in DOMAIN rows |-> Fill(rows[i], Columns)]
Compared(D, S, keys, job) ==
    IF Present(D) = Present(S) THEN Verdict(D, S, keys, job.types)
    ELSE IF job.declared THEN Verdict(FillAll(D), FillAll(S), keys, job.types)
    ELSE "HUMAN_REVIEW"

---------------------------------------------------------------------------
(* What the sandbox prints of a result above the limit: the count, and the   *)
(* rows with the smallest values of the first sort key; a NULL takes one of  *)
(* the places and is dropped.                                                *)
Kept(rows, S) == [n \in 1..Cardinality(S) |-> rows[CHOOSE i \in S : Cardinality({j \in S : j < i}) = n - 1]]

Dim(keys) == IF keys # <<>> THEN keys[1] ELSE "none"
Distinct(rows, c) == {rows[i][c] : i \in DOMAIN rows}
DimValues(rows, c) ==
    {x \in Distinct(rows, c) : Cardinality({y \in Distinct(rows, c) : Rank[y] < Rank[x]}) < DimCount} \ {"null"}
Group(rows, keys) == IF Dim(keys) \notin Columns THEN <<>>
                     ELSE Kept(rows, {i \in DOMAIN rows : rows[i][keys[1]] \in DimValues(rows, keys[1])})
Sample(rows, keys) == IF Len(Group(rows, keys)) > SampleCap THEN <<>> ELSE Group(rows, keys)
(* str() of a whole number, of a NaN is not its canonical text.              *)
Printed(x, type) == IF type \in {"double", "decimal"} /\ x \in {"1", "2", "nan"} THEN "float" ELSE Text(x)
Counts(rows, c, keys) == [x \in keys |-> Cardinality({i \in DOMAIN rows : At(rows[i], c) = x})]

SampledVerdict(subset, sample, c, types) ==
    IF subset = <<>> THEN "NOT_EXECUTED"
    ELSE IF /\ Counts(subset, c, ToSet(Ascending)) = Counts(sample, c, ToSet(Ascending))
            /\ Present(subset) = Present(sample) /\ ~DiffersByPosition(subset, sample, types)
    THEN "SAMPLED_CONSISTENT" ELSE "RESULT_MISMATCH"

Sharing(D, c, values) == Kept(D, {i \in DOMAIN D : At(D[i], c) \in values})
FillDeclared(rows, job) == IF job.declared THEN FillAll(rows) ELSE rows
Degraded(D, spark, keys, job) ==
    IF spark.total # Len(D) THEN "RESULT_MISMATCH"
    ELSE IF spark.rows = <<>> \/ keys = <<>> THEN "NOT_EXECUTED"
    ELSE SampledVerdict(FillDeclared(Sharing(D, keys[1], spark.values), job),
                        FillDeclared(spark.canonical, job), keys[1], job.types)

(* A result above the limit is looked at before anyone asks how DuckDB did.  *)
Status(duck, spark, keys, job) ==
    IF spark.overflow THEN Degraded(duck.canonical, spark, keys, job)
    ELSE IF spark.ok /\ Unordered(spark.rows, keys) THEN "CANONICALIZATION_NEEDED"
    ELSE IF ~duck.ok \/ ~spark.ok THEN "EXECUTION_ERROR"
    ELSE Compared(duck.canonical, spark.canonical, keys, job)

Keys(duck, job) == IF job.order = <<>> /\ duck.rows # <<>> THEN job.pks ELSE job.order
==========================================================================
