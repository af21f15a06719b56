-------------------------- MODULE PhysicalVerify --------------------------
(* Physical verification: a snapshot of the tables is built in a directory   *)
(* that belongs to the contract and not to the run (spark/snapshot.py), both *)
(* engines read it, Spark in a process of its own that may hang              *)
(* (spark/executor.py), and the results are compared (physical_verifier.py). *)
(* Runs of one server share the directories and interleave.                  *)
EXTENDS CreCompare

CONSTANTS Run, Ids,
          Assignments,  \* the job every run brings: its data and its keys
          Tables,       \* the order in which the tables are copied
          Keep,         \* the directories that survive a build
          Foreign(_, _) \* the result of a job on other data than its own

(* A snapshot that a run brings along is the one in its directory; there is  *)
(* always an anchor table.                                                   *)
ASSUME JobAssumption ==
    /\ Tables \in Seq(ToSet(Tables)) /\ Tables # <<>>
    /\ \A a \in Assignments : \A r \in Run :
           /\ a[r].contract \in Ids /\ a[r].held \in BOOLEAN
           /\ \A q \in Run : a[q].held /\ a[r].held /\ a[q].contract = a[r].contract => a[q].filter = a[r].filter

(* What the engines return for a job: rows of known values, dates only in a  *)
(* date column.  Empty text is a value of its own and no number prints as a  *)
(* value does.                                                               *)
Outside == {"none"} \cup {a[r].filter : a \in Assignments, r \in Run}
Typing(rows, types) ==
    /\ rows \in Seq([Columns -> ToSet(Ascending) \ {"", "float"}])
    /\ \A i \in DOMAIN rows, c \in Columns : rows[i][c] \in DOMAIN Iso => types[c] = "date"
ASSUME ResultAssumption ==
    \A a \in Assignments : \A r \in Run :
        /\ \A ks \in {a[r].order, a[r].pks} : ks \in Seq(STRING) /\ Len(ks) <= MaxKeys
        /\ a[r].declared \in BOOLEAN
        /\ Typing(a[r].duck, a[r].types) /\ Typing(a[r].spark, a[r].types)
        /\ \A seen \in SUBSET Outside : Typing(Foreign(a[r], seen), a[r].types)

VARIABLES job, pc, held, todo,     \* held: the run has the manifest of a snapshot
          dirs, ages,              \* whose rows each file holds; the directories by their last change
          touched,                 \* someone else changed the directory
          duck, keys, proc, spark, report, round

vars == <<job, pc, held, todo, dirs, ages, touched, duck, keys, proc, spark, report, round>>
engines == <<duck, keys, proc, spark, report>>

Files == Tables \o <<"index">>
NoFiles == [f \in ToSet(Files) |-> "none"]
NoDuck == [ok |-> FALSE, rows |-> <<>>, canonical |-> <<>>]
NoSpark == [ok |-> FALSE, overflow |-> FALSE, total |-> 0, rows |-> <<>>, canonical |-> <<>>,
            values |-> {}, cut |-> FALSE]
NoReport == [status |-> "none", cre |-> "none", cdp |-> "none", stage |-> "NOT_EXECUTED"]

Init == /\ job \in Assignments
        /\ pc = [r \in Run |-> IF job[r].active THEN "snapshot" ELSE "done"]
        /\ held = [r \in Run |-> job[r].held]
        /\ todo = [r \in Run |-> <<>>]
        /\ dirs = [i \in Ids |-> IF \E r \in Run : job[r].held /\ job[r].contract = i
                                 THEN [f \in ToSet(Files) |-> job[CHOOSE r \in Run : job[r].held /\ job[r].contract = i].filter]
                                 ELSE NoFiles]
        /\ ages = SetToSeq({i \in Ids : dirs[i] # NoFiles})
        /\ touched = [r \in Run |-> FALSE]
        /\ duck = [r \in Run |-> NoDuck] /\ keys = [r \in Run |-> <<>>]
        /\ proc = [r \in Run |-> "none"] /\ spark = [r \in Run |-> NoSpark]
        /\ report = [r \in Run |-> NoReport]
        /\ round = [r \in Run |-> 1]

Go(r, where) == pc' = [pc EXCEPT ![r] = where]
Newest(i) == ages' = Append(SelectSeq(ages, LAMBDA x : x # i), i)
Disturb(r, ids) == touched' = [x \in Run |-> touched[x] \/ (x # r /\ job[x].contract \in ids)]

---------------------------------------------------------------------------
(* A manifest of an earlier run of the request is used as it is.             *)
Reuse(r) == /\ pc[r] = "snapshot" /\ held[r]
            /\ Go(r, "duckdb")
            /\ UNCHANGED <<job, held, todo, dirs, ages, touched, engines, round>>

(* The directory is removed and made again, whoever reads it.                *)
Clear(r) == /\ pc[r] = "snapshot" /\ ~held[r]
            /\ dirs' = [dirs EXCEPT ![job[r].contract] = NoFiles]
            /\ Newest(job[r].contract)
            /\ todo' = [todo EXCEPT ![r] = Files]
            /\ touched' = [x \in Run |-> x # r /\ (touched[x] \/ job[x].contract = job[r].contract)]
            /\ Go(r, "copy")
            /\ UNCHANGED <<job, held, engines, round>>

(* One table after the other, the index at last; each needs the directory.   *)
Copy(r) == /\ pc[r] = "copy" /\ todo[r] # <<>> /\ job[r].contract \in ToSet(ages)
           /\ dirs' = [dirs EXCEPT ![job[r].contract][Head(todo[r])] = job[r].filter]
           /\ Newest(job[r].contract)
           /\ todo' = [todo EXCEPT ![r] = Tail(@)]
           /\ Disturb(r, {job[r].contract})
           /\ UNCHANGED <<job, pc, held, engines, round>>

(* Any failure takes the directory with it: an empty anchor table, a group   *)
(* of rows above the budget, a file system that is full.                     *)
Abandon(r) == /\ pc[r] = "copy"
              /\ dirs' = [dirs EXCEPT ![job[r].contract] = NoFiles]
              /\ ages' = SelectSeq(ages, LAMBDA i : i # job[r].contract)
              /\ Disturb(r, {job[r].contract})
              /\ report' = [report EXCEPT ![r].stage = "SNAPSHOT_NOT_READY"]
              /\ Go(r, "done")
              /\ UNCHANGED <<job, held, todo, duck, keys, proc, spark, round>>

(* The other directories beyond the newest are removed.                      *)
Others(i) == ToSet(ages) \ {i}
Newer(x, y) == \E m, n \in DOMAIN ages : m < n /\ ages[m] = y /\ ages[n] = x
Pruned(i) == {y \in Others(i) : Cardinality({x \in Others(i) : Newer(x, y)}) >= Keep - 1}
Prune(r) == /\ pc[r] = "copy" /\ todo[r] = <<>>
            /\ \E gone \in {Pruned(job[r].contract)} :
                   /\ dirs' = [i \in Ids |-> IF i \in gone THEN NoFiles ELSE dirs[i]]
                   /\ ages' = SelectSeq(ages, LAMBDA i : i \notin gone)
                   /\ Disturb(r, gone)
            /\ held' = [held EXCEPT ![r] = TRUE]
            /\ Go(r, "duckdb")
            /\ UNCHANGED <<job, todo, engines, round>>

---------------------------------------------------------------------------
Ends(r, status) == /\ report' = [report EXCEPT ![r].status = status, ![r].stage = "FAILURE"]
                   /\ Go(r, "done")

Unsupported(r) == /\ pc[r] = "duckdb" /\ job[r].unsupported
                  /\ Ends(r, "UNSUPPORTED_SEMANTICS")
                  /\ UNCHANGED <<job, held, todo, dirs, ages, touched, duck, keys, proc, spark, round>>

(* DuckDB takes a table that is not in the directory from the warehouse.     *)
Seen(r) == {dirs[job[r].contract][t] : t \in ToSet(Tables)}
Result(r, rows) == IF Seen(r) = {job[r].filter} THEN rows ELSE Foreign(job[r], Seen(r))
DuckDb(r) ==
    /\ pc[r] = "duckdb" /\ ~job[r].unsupported
    /\ \E d \in {NoDuck, [NoDuck EXCEPT !.ok = TRUE, !.rows = Result(r, job[r].duck)]} :
           /\ keys' = [keys EXCEPT ![r] = Keys(d, job[r])]
           /\ duck' = [duck EXCEPT ![r] = [d EXCEPT !.canonical = Canonical(d.rows, Keys(d, job[r]))]]
           /\ IF Unordered(d.rows, Keys(d, job[r]))
              THEN Ends(r, "CANONICALIZATION_NEEDED")
              ELSE Go(r, "launch") /\ UNCHANGED report
    /\ UNCHANGED <<job, held, todo, dirs, ages, touched, proc, spark, round>>

Launch(r) == /\ pc[r] = "launch"
             /\ \/ Go(r, "spark") /\ proc' = [proc EXCEPT ![r] = "running"]
                \/ Go(r, "compare") /\ UNCHANGED proc
             /\ UNCHANGED <<job, held, todo, dirs, ages, touched, duck, keys, spark, report, round>>

(* The process prints all rows, or of too many rows the count and a sample;  *)
(* the sample may be cut, by a death or by the limit of the output.          *)
Overflow(r, rows) == Len(duck[r].rows) > MaxRows \/ Len(rows) > MaxRows
Printout(r, rows, ks, n) ==
    [NoSpark EXCEPT !.ok = TRUE, !.overflow = TRUE, !.total = Len(rows),
     !.rows = SubSeq(Parsed(Sample(rows, ks)), 1, n), !.cut = n < Len(Sample(rows, ks)),
     !.values = IF Sample(rows, ks) = <<>> THEN {}
                ELSE {Printed(x, job[r].types[ks[1]]) : x \in DimValues(rows, ks[1])}]
Collected(rows) == [NoSpark EXCEPT !.ok = TRUE, !.total = Len(rows), !.rows = Parsed(rows)]

Exit(r, s) == /\ pc[r] = "spark" /\ proc[r] = "running"
              /\ spark' = [spark EXCEPT ![r] = [s EXCEPT !.canonical = Canonical(s.rows, keys[r])]]
              /\ Go(r, "compare")
              /\ UNCHANGED <<job, held, todo, dirs, ages, touched, duck, keys, report, round>>
Finish(r) ==
    /\ pc[r] = "spark" /\ "none" \notin {dirs[job[r].contract][f] : f \in ToSet(Files)}
    /\ proc' = [proc EXCEPT ![r] = "ended"]
    /\ \E rows \in {Result(r, job[r].spark)} :
           IF Overflow(r, rows)
           THEN \E n \in 0..SampleCap : /\ n <= Len(Sample(rows, keys[r]))
                                        /\ Exit(r, Printout(r, rows, keys[r], n))
           ELSE Exit(r, Collected(rows))
Fail(r) == Exit(r, NoSpark) /\ proc' = [proc EXCEPT ![r] = "ended"]
TimeoutM(r) == pc[r] = "spark" /\ proc[r] = "ended" /\ UNCHANGED vars
(* Whoever waits for the process kills it when its time is over.             *)
Timeout(r) == Exit(r, NoSpark) /\ proc' = [proc EXCEPT ![r] = "killed"]

(* The digests of the result are compared on the side, failures are          *)
(* swallowed; a date column has no digest.                                   *)
Digestible(r) == \A c \in Columns : job[r].types[c] # "date"
Cre(r, status) == IF spark[r].overflow \/ status \in {"CANONICALIZATION_NEEDED", "EXECUTION_ERROR"}
                     \/ (~job[r].declared /\ Present(duck[r].rows) # Present(spark[r].rows))
                  THEN "none" ELSE Shadow(duck[r].rows, spark[r].rows, job[r])
Passes(status) == status \in {"RESULT_CONSISTENT", "SAMPLED_CONSISTENT"}
Compare(r) ==
    /\ pc[r] = "compare"
    /\ \E status \in {Status(duck[r], spark[r], keys[r], job[r])}, cdp \in {"none", "compared"} :
           /\ cdp = "compared" => Digestible(r) /\ Cre(r, status) # "none" /\ "none" \notin Seen(r)
           /\ report' = [report EXCEPT ![r] = [status |-> status, cre |-> Cre(r, status), cdp |-> cdp,
                                               stage |-> IF Passes(status) THEN "SUCCESS" ELSE "FAILURE"]]
    /\ Go(r, "done")
    /\ UNCHANGED <<job, held, todo, dirs, ages, touched, duck, keys, proc, spark, round>>

Again(r) == /\ pc[r] = "done" /\ round[r] < job[r].rounds
            /\ round' = [round EXCEPT ![r] = @ + 1]
            /\ report' = [report EXCEPT ![r] = NoReport]
            /\ spark' = [spark EXCEPT ![r] = NoSpark] /\ proc' = [proc EXCEPT ![r] = "none"]
            /\ Go(r, "snapshot")
            /\ UNCHANGED <<job, held, todo, dirs, ages, touched, duck, keys>>

Step(r) == \/ Reuse(r) \/ Clear(r) \/ Copy(r) \/ Abandon(r) \/ Prune(r)
           \/ Unsupported(r) \/ DuckDb(r) \/ Launch(r) \/ Timeout(r) \/ Compare(r)
Next == \E r \in Run : Step(r) \/ Finish(r) \/ Fail(r) \/ Again(r)

Spec == Init /\ [][Next]_vars
(* The request's own thread goes on; the process need not end by itself.     *)
FairSpec == Spec /\ \A r \in Run : WF_vars(Step(r))

---------------------------------------------------------------------------
Values(rows) == {rows[i][c] : i \in DOMAIN rows, c \in Columns}
Read(r) == [D |-> duck[r].rows, S |-> spark[r].rows]
Unique(rows, ks) == Cardinality(KeysOf(Texts(rows, Columns), ks)) = Len(rows)
ToldApart(rows, ks) == LET T == Texts(rows, Columns) IN
                       \A i, j \in DOMAIN T : SortPlace(T[i], ks) = SortPlace(T[j], ks) => i = j
Alike(x, y) == x = y \/ {x, y} \subseteq Missing \/ {x, y} \in {{"1", "1~"}, {"1", "1r"}}
SameRows(D, S) == /\ Len(D) = Len(S)
                  /\ \A i \in DOMAIN D : \E j \in DOMAIN S :
                         \A c \in Columns : Alike(Text(Raw(D[i], c)), Text(Raw(S[j], c)))
Done(r) == pc[r] = "done" /\ report[r].status # "none"

(* When the joined keys the rows are matched by are unique, a result that is *)
(* RESULT_CONSISTENT means that both engines returned the same rows; and two *)
(* engines that return the same rows are not reported as different, in       *)
(* whatever order they return them, when nobody else touched their snapshot: *)
(* then the files are all there, and the run's own.  Different keys may join *)
(* to one string, ("a|b", "c") and ("a", "b|c"): such rows are matched with  *)
(* each other, and nothing is promised of them.  A sampled comparison keeps  *)
(* the promise where every column has a value in the sample and DuckDB's     *)
(* rows can be told apart by the string they are sorted by and by the        *)
(* printed values: no NULL beside empty text, no whole numbers beside others.*)
ConsistentIsSame(r) ==
    report[r].status = "RESULT_CONSISTENT" /\ Unique(Read(r).D, keys[r]) /\ Unique(Read(r).S, keys[r])
        => SameRows(Read(r).D, Read(r).S)
Canonically(x, r) == Printed(x, job[r].types[keys[r][1]]) = Text(x)
SampledFairly(r) ==
    /\ job[r].declared \/ Present(spark[r].rows) = Columns
    /\ ToldApart(job[r].duck, keys[r])
    /\ Dim(keys[r]) \in Columns =>
           \A x \in DimValues(job[r].duck, keys[r][1]) :
               /\ \A y \in Distinct(job[r].duck, keys[r][1]) : Text(x) = Text(y) => x = y
               /\ \A y \in DimValues(job[r].duck, keys[r][1]) : Canonically(x, r) <=> Canonically(y, r)
SameIsConsistent(r) ==
    /\ duck[r].ok /\ spark[r].ok /\ ~touched[r] /\ ~spark[r].cut /\ Unique(job[r].duck, keys[r])
    /\ Len(job[r].duck) = Len(job[r].spark) /\ ToSet(job[r].duck) = ToSet(job[r].spark)
    /\ "nan" \notin Values(job[r].duck) /\ (spark[r].overflow => SampledFairly(r))
    => report[r].status # "RESULT_MISMATCH"
ReadsItsOwn(r) == pc[r] \in {"duckdb", "launch", "spark", "compare"} /\ ~touched[r] =>
                      \A f \in ToSet(Files) : dirs[job[r].contract][f] = job[r].filter
VerdictIsRight == \A r \in Run : /\ ReadsItsOwn(r)
                                 /\ Done(r) => ConsistentIsSame(r) /\ SameIsConsistent(r)

(* The two comparisons contradict each other only where they read a value    *)
(* differently: NaN, a decimal key at another scale, a NULL that is empty    *)
(* text to the older one, a date, text of close numbers.  The newer one does *)
(* not join the keys: where two keys join to one string they may disagree.   *)
CloseText(r) == \E c \in Columns : /\ job[r].types[c] # "double"
                                  /\ \E d \in ToSet(Read(r).D), s \in ToSet(Read(r).S) :
                                         {d[c], Raw(s, c)} = {"1", "1~"}
ShadowAgrees ==
    \A r \in Run : Done(r) /\ keys[r] = job[r].pks /\ Unique(Read(r).D, keys[r]) /\ Unique(Read(r).S, keys[r]) =>
        /\ report[r].cre \in {"CONSISTENT", "CONSISTENT_WITH_WARN"} /\ report[r].status = "RESULT_MISMATCH"
               => "nan" \in Values(Read(r).D) \/ \E c \in ToSet(keys[r]) : job[r].types[c] = "decimal"
        /\ report[r].cre = "MISMATCH" /\ report[r].status = "RESULT_CONSISTENT"
               => \/ Values(Read(r).D) \cap Missing # {}
                  \/ \E c \in Columns : job[r].types[c] = "date"
                  \/ CloseText(r)

(* Every verification ends, also when Spark hangs.                           *)
VerificationEnds == \A r \in Run : pc[r] # "done" ~> pc[r] = "done"

(* What the docstring of physical_verifier.py says of RESULT_CONSISTENT.     *)
ConsistentMeansEqual ==
    \A r \in Run : report[r].status = "RESULT_CONSISTENT" => SameRows(Read(r).D, Read(r).S)
==========================================================================
