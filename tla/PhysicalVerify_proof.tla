------------------------ MODULE PhysicalVerify_proof ------------------------
(***************************************************************************)
(* For any number of runs, contracts, tables and rows, however builds,     *)
(* prunings, failures and engines interleave: a run that reads a directory *)
(* nobody else has touched since it was made reads the rows it was made of *)
(* (ReadsAreOwn); a verdict is right about the rows that were read         *)
(* (VerdictsAreRight); and the newer comparison contradicts it only where  *)
(* the two are known to read a value differently (ShadowsAgree).           *)
(***************************************************************************)
EXTENDS PhysicalVerify, SequenceTheorems, FiniteSetTheorems, FunctionTheorems, WellFoundedInduction, NaturalsInduction, TLAPS

---------------------------------------------------------------------------
(* Comparing results of any length: sorting rearranges the rows and a sample *)
(* keeps their order, rows whose keys are unique have one place only, and    *)
(* comparing two results tells whether they hold the same rows.              *)

Below == {p \in Nat \X Nat : p[1] < p[2]}

\* Numbers have no infinite descent.
LEMMA BelowWellFounded == IsWellFoundedOn(Below, Nat)
<1>1. Below = OpToRel(<, Nat)
  BY SMT DEF Below, OpToRel
<1> QED BY <1>1, NatLessThanWellFounded, Zenon

\* A set of numbers that is not empty has a least one.
LEMMA LeastNumber == ASSUME NEW T \in SUBSET Nat, T # {} PROVE \E n \in T : \A m \in T : n <= m
<1>1. PICK x \in T : \A y \in T : ~(<<y, x>> \in Below)
  BY BelowWellFounded, WFMin
<1>2. \A y \in T : y \in Nat /\ x \in Nat
  OBVIOUS
<1>3. \A y \in T : ~(y < x)
  BY <1>1, <1>2 DEF Below
<1> QED BY <1>1, <1>2, <1>3

-----------------------------------------------------------------------------
\* The elements of a finite set T in the order in which each comes after the
\* elements of before[i]: the n-th is the one with n - 1 before it.
LEMMA Ranking ==
    ASSUME NEW T, IsFiniteSet(T), NEW before \in [T -> SUBSET T],
           \A i \in T : i \notin before[i],
           \A i, j, k \in T : i \in before[j] /\ j \in before[k] => i \in before[k],
           \A i, j \in T : i = j \/ i \in before[j] \/ j \in before[i],
           NEW place,
           \A n \in 1..Cardinality(T) : (\E i \in T : Cardinality(before[i]) = n - 1) =>
               place[n] \in T /\ Cardinality(before[place[n]]) = n - 1
    PROVE  /\ Cardinality(T) \in Nat /\ \A n \in 1..Cardinality(T) : place[n] \in T
           /\ \A i \in T : \E n \in 1..Cardinality(T) : place[n] = i
           /\ \A m, n \in 1..Cardinality(T) : m < n => place[m] \in before[place[n]]
<1> DEFINE N == Cardinality(T)
           count == [i \in T |-> Cardinality(before[i])]
<1>1. N \in Nat
  BY FS_CardinalityType
<1>2. \A i \in T : IsFiniteSet(before[i]) /\ Cardinality(before[i]) \in Nat /\ Cardinality(before[i]) <= N /\ Cardinality(before[i]) # N
  <2> TAKE i \in T
  <2>1. before[i] \in SUBSET T /\ before[i] # T
    OBVIOUS
  <2>2. IsFiniteSet(before[i]) /\ Cardinality(before[i]) <= N /\ (N = Cardinality(before[i]) => T = before[i])
    BY <2>1, FS_Subset
  <2>3. Cardinality(before[i]) \in Nat
    BY <2>2, FS_CardinalityType
  <2> QED BY <2>1, <2>2, <2>3
<1>3. ASSUME NEW i \in T, NEW j \in T, i \in before[j] PROVE count[i] < count[j]
  <2>1. before[i] \in SUBSET before[j] /\ before[i] # before[j]
    BY <1>3
  <2>2. Cardinality(before[i]) <= Cardinality(before[j]) /\ Cardinality(before[i]) # Cardinality(before[j])
    BY <1>2, <2>1, FS_Subset
  <2> QED BY <1>2, <2>2
<1>4. count \in [T -> 0..N-1]
  BY <1>1, <1>2
<1> HIDE DEF N, count
<1>5. \A i, j \in T : count[i] = count[j] => i = j
  <2> SUFFICES ASSUME NEW i \in T, NEW j \in T, i # j PROVE count[i] # count[j]
    OBVIOUS
  <2>1. count[i] \in Nat /\ count[j] \in Nat
    BY <1>1, <1>4
  <2>2. count[i] < count[j] \/ count[j] < count[i]
    BY <1>3
  <2> QED BY <2>1, <2>2
<1>6. \A k \in 0..N-1 : \E i \in T : count[i] = k
  <2>1. count \in Injection(T, 0..N-1)
    BY <1>4, <1>5 DEF Injection, IsInjective
  <2>2. IsFiniteSet(0..N-1) /\ Cardinality(0..N-1) = N
    <3>1. N - 1 \in Int /\ 0 \in Int
      BY <1>1
    <3>2. IsFiniteSet(0..N-1) /\ Cardinality(0..N-1) = IF 0 > N-1 THEN 0 ELSE (N-1) - 0 + 1
      BY <3>1, FS_Interval
    <3> QED BY <1>1, <3>2
  <2>3. count \in Surjection(T, 0..N-1)
    BY <2>1, <2>2, FS_Injection DEF N
  <2> QED BY <2>3 DEF Surjection
<1>7. \A n \in 1..N : place[n] \in T /\ count[place[n]] = n - 1
  <2> TAKE n \in 1..N
  <2>1. n - 1 \in 0..N-1
    BY <1>1
  <2>2. \E i \in T : count[i] = n - 1
    BY <1>6, <2>1
  <2>3. \E i \in T : Cardinality(before[i]) = n - 1
    BY <2>2 DEF count
  <2>5. place[n] \in T /\ Cardinality(before[place[n]]) = n - 1
    BY <2>3 DEF N
  <2> QED BY <2>5 DEF count
<1>9. ASSUME NEW i \in T PROVE \E n \in 1..N : place[n] = i
  <2>1. count[i] + 1 \in 1..N /\ (count[i] + 1) - 1 = count[i]
    BY <1>1, <1>4
  <2>2. place[count[i] + 1] \in T /\ count[place[count[i] + 1]] = count[i]
    BY <1>7, <2>1
  <2>3. place[count[i] + 1] = i
    BY <1>5, <2>2
  <2> QED BY <2>1, <2>3
<1>10. ASSUME NEW m \in 1..N, NEW n \in 1..N, m < n PROVE place[m] \in before[place[n]]
  <2>1. place[m] \in T /\ place[n] \in T /\ count[place[m]] = m - 1 /\ count[place[n]] = n - 1
    BY <1>7
  <2>2. m - 1 < n - 1 /\ m - 1 # n - 1 /\ ~(n - 1 < m - 1)
    BY <1>1, <1>10
  <2>3. place[m] # place[n] /\ place[n] \notin before[place[m]]
    BY <1>3, <2>1, <2>2
  <2> QED BY <2>1, <2>3
<1> QED BY <1>1, <1>7, <1>9, <1>10 DEF N
-----------------------------------------------------------------------------
Texted == ToSet(Ascending)

LEMMA SegmentSize == ASSUME NEW n \in Nat PROVE IsFiniteSet(1..n) /\ Cardinality(1..n) = n
<1>1. IsFiniteSet(1..n) /\ Cardinality(1..n) = IF 1 > n THEN 0 ELSE n - 1 + 1
  BY FS_Interval
<1> QED BY <1>1

\* A sample is a selection of rows that keeps their order.
Selection(f, S) == /\ f \in [1..Cardinality(S) -> S]
                   /\ \A i \in S : \E n \in 1..Cardinality(S) : f[n] = i
                   /\ \A m, n \in 1..Cardinality(S) : m < n => f[m] < f[n]

\* The selected rows are kept, each once, in the order they had.
LEMMA KeptRows ==
    ASSUME NEW X, NEW rows \in Seq(X), NEW S \in SUBSET DOMAIN rows
    PROVE  /\ Cardinality(S) \in Nat
           /\ \E f : Selection(f, S) /\ Kept(rows, S) = [n \in 1..Cardinality(S) |-> rows[f[n]]]
<1> DEFINE before == [i \in S |-> {j \in S : j < i}]
           f == [n \in 1..Cardinality(S) |-> CHOOSE i \in S : Cardinality({j \in S : j < i}) = n - 1]
<1>1. DOMAIN rows = 1..Len(rows) /\ Len(rows) \in Nat
  OBVIOUS
<1>2. IsFiniteSet(S) /\ \A i \in S : i \in Nat
  BY <1>1, SegmentSize, FS_Subset
<1>3. before \in [S -> SUBSET S]
  OBVIOUS
<1>4. /\ \A i \in S : i \notin before[i]
      /\ \A i, j, k \in S : i \in before[j] /\ j \in before[k] => i \in before[k]
      /\ \A i, j \in S : i = j \/ i \in before[j] \/ j \in before[i]
  BY <1>2
<1>5. Kept(rows, S) = [n \in 1..Cardinality(S) |-> rows[f[n]]]
  BY DEF Kept
<1>9. \A n \in 1..Cardinality(S) : (\E i \in S : Cardinality(before[i]) = n - 1) =>
          f[n] \in S /\ Cardinality(before[f[n]]) = n - 1
  <2> SUFFICES ASSUME NEW n \in 1..Cardinality(S), NEW i \in S, Cardinality(before[i]) = n - 1
               PROVE  f[n] \in S /\ Cardinality(before[f[n]]) = n - 1
    OBVIOUS
  <2>1. Cardinality({j \in S : j < i}) = n - 1
    OBVIOUS
  <2>2. f[n] = CHOOSE k \in S : Cardinality({j \in S : j < k}) = n - 1
    OBVIOUS
  <2>3. f[n] \in S /\ Cardinality({j \in S : j < f[n]}) = n - 1
    BY <2>1, <2>2
  <2> QED BY <2>3
<1> HIDE DEF before, f
<1>6. /\ Cardinality(S) \in Nat /\ \A n \in 1..Cardinality(S) : f[n] \in S
      /\ \A i \in S : \E n \in 1..Cardinality(S) : f[n] = i
      /\ \A m, n \in 1..Cardinality(S) : m < n => f[m] \in before[f[n]]
  BY <1>2, <1>3, <1>4, <1>9, Ranking
<1>7. \A m, n \in 1..Cardinality(S) : m < n => f[m] < f[n]
  BY <1>6 DEF before
<1>10. f \in [1..Cardinality(S) -> S]
  BY <1>6 DEF f
<1>8. Selection(f, S)
  BY <1>6, <1>7, <1>10 DEF Selection
<1> QED BY <1>5, <1>6, <1>8

\* Sorting rearranges rows by the places of their keys.
Keyed(rows, sortBy) == \A i \in DOMAIN rows : SortPlace(rows[i], sortBy) \in Nat

\* Sorting is a rearrangement: each row comes once, after those with a smaller
\* place, and rows with the same place keep their order.
Rearranges(f, rows, sortBy) ==
    /\ f \in [1..Len(rows) -> 1..Len(rows)]
    /\ \A i \in 1..Len(rows) : \E n \in 1..Len(rows) : f[n] = i
    /\ Sorted(rows, sortBy) = [n \in 1..Len(rows) |-> rows[f[n]]]
    /\ \A m, n \in 1..Len(rows) : m < n =>
           \/ SortPlace(rows[f[m]], sortBy) < SortPlace(rows[f[n]], sortBy)
           \/ f[m] < f[n] /\ SortPlace(rows[f[m]], sortBy) = SortPlace(rows[f[n]], sortBy)

\* Rows whose keys have places are rearranged.
LEMMA SortedRows ==
    ASSUME NEW X, NEW rows \in Seq(X), NEW sortBy \in Seq(STRING), Keyed(rows, sortBy)
    PROVE  \E f : Rearranges(f, rows, sortBy)
<1> DEFINE D == 1..Len(rows)
           before == [i \in D |-> Ahead(rows, sortBy, i)]
           f == [n \in D |-> CHOOSE i \in D : Cardinality(Ahead(rows, sortBy, i)) = n - 1]
           key == [i \in D |-> SortPlace(rows[i], sortBy)]
<1>1. DOMAIN rows = D /\ Len(rows) \in Nat
  OBVIOUS
<1>2. IsFiniteSet(D) /\ Cardinality(D) = Len(rows)
  BY <1>1, SegmentSize
<1>3. \A i \in D : before[i] = {j \in D : key[j] < key[i] \/ (j < i /\ key[j] = key[i])}
  BY <1>1 DEF Ahead
<1>4. \A i \in D : key[i] \in Nat
  BY <1>1 DEF Keyed
<1>5. Sorted(rows, sortBy) = [n \in D |-> rows[f[n]]]
  BY <1>1 DEF Sorted
<1>7. before \in [D -> SUBSET D]
  BY <1>3
<1>8. DOMAIN before = D /\ \A i \in D : i \in Nat
  BY <1>1
<1>16. \A n \in D : (\E i \in D : Cardinality(before[i]) = n - 1) =>
           f[n] \in D /\ Cardinality(before[f[n]]) = n - 1
  <2> SUFFICES ASSUME NEW n \in D, NEW i \in D, Cardinality(before[i]) = n - 1
               PROVE  f[n] \in D /\ Cardinality(before[f[n]]) = n - 1
    OBVIOUS
  <2>1. Cardinality(Ahead(rows, sortBy, i)) = n - 1
    OBVIOUS
  <2>2. f[n] = CHOOSE k \in D : Cardinality(Ahead(rows, sortBy, k)) = n - 1
    OBVIOUS
  <2>3. f[n] \in D /\ Cardinality(Ahead(rows, sortBy, f[n])) = n - 1
    BY <2>1, <2>2
  <2> QED BY <2>3
<1>13. 1..Cardinality(D) = D
  BY <1>2
<1> HIDE DEF before, key, D, f
<1>9. \A i \in D : i \notin before[i]
  BY <1>3, <1>4, <1>8
<1>10. ASSUME NEW i \in D, NEW j \in D, NEW k \in D, i \in before[j], j \in before[k] PROVE i \in before[k]
  <2>1. key[i] < key[j] \/ (i < j /\ key[i] = key[j])
    BY <1>3, <1>10
  <2>2. key[j] < key[k] \/ (j < k /\ key[j] = key[k])
    BY <1>3, <1>10
  <2>3. i < j /\ j < k => i < k
    BY <1>8
  <2>4. key[i] < key[k] \/ (i < k /\ key[i] = key[k])
    BY <1>4, <2>1, <2>2, <2>3
  <2> QED BY <1>3, <2>4
<1>11. ASSUME NEW i \in D, NEW j \in D PROVE i = j \/ i \in before[j] \/ j \in before[i]
  <2>1. key[i] = key[j] \/ key[i] < key[j] \/ key[j] < key[i]
    BY <1>4
  <2>2. i = j \/ i < j \/ j < i
    BY <1>8
  <2> QED BY <1>3, <2>1, <2>2
<1>12. /\ \A n \in D : f[n] \in D
       /\ \A i \in D : \E n \in D : f[n] = i
       /\ \A m, n \in D : m < n => f[m] \in before[f[n]]
  <2>1. \A n \in 1..Cardinality(D) : (\E i \in D : Cardinality(before[i]) = n - 1) =>
            f[n] \in D /\ Cardinality(before[f[n]]) = n - 1
    BY <1>13, <1>16
  <2>2. /\ Cardinality(D) \in Nat /\ \A n \in 1..Cardinality(D) : f[n] \in D
        /\ \A i \in D : \E n \in 1..Cardinality(D) : f[n] = i
        /\ \A m, n \in 1..Cardinality(D) : m < n => f[m] \in before[f[n]]
    BY <1>2, <1>7, <1>9, <1>10, <1>11, <2>1, Ranking
  <2> QED BY <1>13, <2>2
<1>17. f \in [D -> D]
  BY <1>12 DEF f
<1>14. ASSUME NEW m \in D, NEW n \in D, m < n
       PROVE  \/ SortPlace(rows[f[m]], sortBy) < SortPlace(rows[f[n]], sortBy)
              \/ f[m] < f[n] /\ SortPlace(rows[f[m]], sortBy) = SortPlace(rows[f[n]], sortBy)
  <2>1. f[m] \in D /\ f[n] \in D /\ f[m] \in before[f[n]]
    BY <1>12, <1>14
  <2>2. key[f[m]] < key[f[n]] \/ (f[m] < f[n] /\ key[f[m]] = key[f[n]])
    BY <1>3, <2>1
  <2>3. key[f[m]] = SortPlace(rows[f[m]], sortBy) /\ key[f[n]] = SortPlace(rows[f[n]], sortBy)
    BY <2>1 DEF key
  <2> QED BY <2>2, <2>3
<1> QED BY <1>5, <1>12, <1>14, <1>17 DEF D, Rearranges

-----------------------------------------------------------------------------
\* Rows that leave out columns; the text of a cell, and of the keys.
AnyRow == UNION {[C -> Texted] : C \in SUBSET Columns}
Cell(r, c) == Text(Raw(r, c))
TextParts(r, sortBy) == [i \in DOMAIN sortBy |-> Cell(r, sortBy[i])]
TextKey(r, sortBy) == Joined("|", TextParts(r, sortBy))
TextPlace(r, sortBy) == Place(Joined("|||", TextParts(r, sortBy)))

\* What a cell reads as is a value that has a rank.
LEMMA RowFacts ==
    ASSUME NEW r \in AnyRow
    PROVE  /\ r = [c \in DOMAIN r |-> r[c]] /\ DOMAIN r \subseteq Columns
           /\ \A c \in DOMAIN r : r[c] \in Texted /\ Text(r[c]) \in Texted
           /\ \A c : At(r, c) \in Texted /\ Cell(r, c) \in Texted
           /\ \A c : Cell(r, c) = IF c \in DOMAIN r THEN Text(r[c]) ELSE ""
<1>1. PICK C \in SUBSET Columns : r \in [C -> Texted]
  BY DEF AnyRow
<1>2. "" \in Texted /\ \A x \in Texted : Text(x) \in Texted
  BY TextAssumption DEF TextAssumption, Texted
<1>3. Text("null") = ""
  BY DEF Text, Missing
<1>4. \A c \in DOMAIN r : r[c] \in Texted /\ Text(r[c]) \in Texted
  BY <1>1, <1>2
<1>5. \A c : Cell(r, c) = IF c \in DOMAIN r THEN Text(r[c]) ELSE ""
  BY <1>3 DEF Cell, Raw
<1>6. \A c : At(r, c) \in Texted /\ Cell(r, c) \in Texted
  BY <1>2, <1>4, <1>5 DEF At
<1> QED BY <1>1, <1>4, <1>5, <1>6

\* The keys of a row have a place.
LEMMA KeyType ==
    ASSUME NEW sortBy \in Seq(STRING), NEW r \in AnyRow
    PROVE  /\ TextParts(r, sortBy) \in [1..Len(sortBy) -> Texted]
           /\ Len(sortBy) <= MaxKeys => SortPlace(r, sortBy) \in Nat
<1>1. DOMAIN sortBy = 1..Len(sortBy)
  OBVIOUS
<1>2. \A c : At(r, c) \in Texted /\ Cell(r, c) \in Texted
  BY RowFacts
<1>3. \A i \in 1..Len(sortBy) : At(r, sortBy[i]) \in Texted /\ Cell(r, sortBy[i]) \in Texted
  BY <1>1, <1>2
<1>4. Parts(r, sortBy) \in [1..Len(sortBy) -> Texted] /\ TextParts(r, sortBy) \in [1..Len(sortBy) -> Texted]
  BY <1>1, <1>3 DEF Parts, TextParts
<1>5. ASSUME Len(sortBy) <= MaxKeys PROVE SortPlace(r, sortBy) \in Nat
  <2>1. Len(sortBy) \in 0..MaxKeys
    BY <1>5, PlaceAssumption DEF PlaceAssumption
  <2>2. \A n \in 0..MaxKeys : \A x \in [1..n -> Texted] : Place(Joined("|||", x)) \in Nat
    BY PlaceAssumption DEF PlaceAssumption, Texted
  <2> QED BY <1>4, <2>1, <2>2 DEF SortPlace
<1> QED BY <1>4, <1>5

\* Filling in the missing columns changes no cell.
LEMMA FillRow ==
    ASSUME NEW r \in AnyRow, NEW cols \in SUBSET Columns
    PROVE  /\ Fill(r, cols) \in AnyRow /\ DOMAIN Fill(r, cols) = cols \cup DOMAIN r
           /\ \A c : At(Fill(r, cols), c) = At(r, c)
<1>1. cols \cup DOMAIN r \in SUBSET Columns
  BY RowFacts
<1>2. Fill(r, cols) \in [cols \cup DOMAIN r -> Texted]
  BY <1>1, RowFacts DEF Fill
<1>3. \A c : At(Fill(r, cols), c) = At(r, c)
  BY DEF Fill, At
<1> QED BY <1>1, <1>2, <1>3 DEF AnyRow, Fill

\* Every row becomes text, cell by cell.
LEMMA TextRows ==
    ASSUME NEW rows \in Seq(AnyRow), NEW cols \in SUBSET Columns
    PROVE  /\ Texts(rows, cols) \in Seq(AnyRow) /\ Len(Texts(rows, cols)) = Len(rows)
           /\ \A i \in 1..Len(rows) : /\ DOMAIN Texts(rows, cols)[i] = cols \cup DOMAIN rows[i]
                                      /\ \A c : At(Texts(rows, cols)[i], c) = Cell(rows[i], c)
<1> DEFINE text(r) == [c \in DOMAIN r |-> Text(r[c])]
<1>1. \A i \in 1..Len(rows) : rows[i] \in AnyRow
  OBVIOUS
<1>2. ASSUME NEW i \in 1..Len(rows)
      PROVE  /\ text(rows[i]) \in AnyRow /\ DOMAIN text(rows[i]) = DOMAIN rows[i]
             /\ \A c : At(text(rows[i]), c) = Cell(rows[i], c)
  <2>1. rows[i] \in AnyRow
    OBVIOUS
  <2>2. DOMAIN rows[i] \in SUBSET Columns /\ \A c \in DOMAIN rows[i] : Text(rows[i][c]) \in Texted
    BY <2>1, RowFacts
  <2>3. text(rows[i]) \in [DOMAIN rows[i] -> Texted]
    BY <2>2
  <2>4. \A c : Cell(rows[i], c) = IF c \in DOMAIN rows[i] THEN Text(rows[i][c]) ELSE ""
    BY <2>1, RowFacts
  <2> QED BY <2>2, <2>3, <2>4 DEF AnyRow, At
<1>3. Texts(rows, cols) = [i \in 1..Len(rows) |-> Fill(text(rows[i]), cols)]
  BY DEF Texts
<1> HIDE DEF text
<1>4. \A i \in 1..Len(rows) : /\ Fill(text(rows[i]), cols) \in AnyRow
                              /\ DOMAIN Fill(text(rows[i]), cols) = cols \cup DOMAIN rows[i]
                              /\ \A c : At(Fill(text(rows[i]), cols), c) = Cell(rows[i], c)
  <2> TAKE i \in 1..Len(rows)
  <2>1. /\ text(rows[i]) \in AnyRow /\ DOMAIN text(rows[i]) = DOMAIN rows[i]
        /\ \A c : At(text(rows[i]), c) = Cell(rows[i], c)
    BY <1>2
  <2>2. /\ Fill(text(rows[i]), cols) \in AnyRow /\ DOMAIN Fill(text(rows[i]), cols) = cols \cup DOMAIN text(rows[i])
        /\ \A c : At(Fill(text(rows[i]), cols), c) = At(text(rows[i]), c)
    BY <2>1, FillRow
  <2> QED BY <2>1, <2>2
<1>5. Texts(rows, cols) \in [1..Len(rows) -> AnyRow] /\ Len(rows) \in Nat
  <2>1. Len(rows) \in Nat
    OBVIOUS
  <2>2. \A i \in 1..Len(rows) : Fill(text(rows[i]), cols) \in AnyRow
    BY <1>4
  <2>3. Texts(rows, cols) \in [1..Len(rows) -> AnyRow]
    BY <1>3, <2>2
  <2> QED BY <2>1, <2>3
<1>6. Texts(rows, cols) \in Seq(AnyRow) /\ Len(Texts(rows, cols)) = Len(rows)
  BY <1>5, LenProperties, SeqDef
<1> QED BY <1>3, <1>4, <1>6

\* A result as the comparison sees it: the rows in some order, every column
\* read as text.
Renders(X, rows) ==
    /\ X \in Seq(AnyRow) /\ Len(X) = Len(rows)
    /\ \E f \in [1..Len(rows) -> 1..Len(rows)] :
           /\ \A i \in 1..Len(rows) : \E n \in 1..Len(rows) : f[n] = i
           /\ \A n \in 1..Len(rows) : \A c : At(X[n], c) = Cell(rows[f[n]], c)

\* The key of a row of text is the text of the key.
LEMMA RenderedKey ==
    ASSUME NEW sortBy \in Seq(STRING), NEW x, NEW r, \A c : At(x, c) = Cell(r, c)
    PROVE  KeyOf(x, sortBy) = TextKey(r, sortBy) /\ SortPlace(x, sortBy) = TextPlace(r, sortBy)
<1>1. Parts(x, sortBy) = TextParts(r, sortBy)
  BY DEF Parts, TextParts
<1> QED BY <1>1 DEF KeyOf, TextKey, SortPlace, TextPlace

\* A canonical result has the same rows as text, in the order of their keys.
LEMMA CanonicalRows ==
    ASSUME NEW rows \in Seq(AnyRow), NEW sortBy \in Seq(STRING), Len(sortBy) <= MaxKeys
    PROVE  /\ Canonical(rows, sortBy) \in Seq(AnyRow) /\ Len(Canonical(rows, sortBy)) = Len(rows)
           /\ \A n \in 1..Len(rows) : DOMAIN Canonical(rows, sortBy)[n] = Present(rows)
           /\ \E f \in [1..Len(rows) -> 1..Len(rows)] :
                  /\ \A i \in 1..Len(rows) : \E n \in 1..Len(rows) : f[n] = i
                  /\ \A n \in 1..Len(rows) : \A c : At(Canonical(rows, sortBy)[n], c) = Cell(rows[f[n]], c)
                  /\ \A m, n \in 1..Len(rows) : m < n =>
                         \/ TextPlace(rows[f[m]], sortBy) < TextPlace(rows[f[n]], sortBy)
                         \/ f[m] < f[n] /\ TextPlace(rows[f[m]], sortBy) = TextPlace(rows[f[n]], sortBy)
<1> DEFINE T == Texts(rows, Present(rows))
           L == 1..Len(rows)
<1>1. Present(rows) \in SUBSET Columns /\ \A i \in L : DOMAIN rows[i] \subseteq Present(rows)
  <2>1. \A i \in L : rows[i] \in AnyRow
    OBVIOUS
  <2>2. \A i \in L : DOMAIN rows[i] \subseteq Columns
    BY <2>1, RowFacts
  <2> QED BY <2>2 DEF Present
<1>2. /\ T \in Seq(AnyRow) /\ Len(T) = Len(rows)
      /\ \A i \in L : DOMAIN T[i] = Present(rows) \cup DOMAIN rows[i]
      /\ \A i \in L : \A c : At(T[i], c) = Cell(rows[i], c)
  BY <1>1, TextRows
<1> HIDE DEF T
<1>3. Canonical(rows, sortBy) = Sorted(T, sortBy)
  BY DEF Canonical, T
<1>4. Keyed(T, sortBy)
  <2>1. \A i \in DOMAIN T : T[i] \in AnyRow
    BY <1>2
  <2> QED BY <2>1, KeyType DEF Keyed
<1>5. PICK f : Rearranges(f, T, sortBy)
  <2>1. T \in Seq(AnyRow)
    BY <1>2
  <2> QED BY <1>4, <2>1, SortedRows
<1>6. /\ f \in [L -> L] /\ \A i \in L : \E n \in L : f[n] = i
      /\ Canonical(rows, sortBy) = [n \in L |-> T[f[n]]]
  BY <1>2, <1>3, <1>5 DEF Rearranges
<1>7. Canonical(rows, sortBy) \in Seq(AnyRow) /\ Len(Canonical(rows, sortBy)) = Len(rows)
  <2>1. \A i \in L : T[i] \in AnyRow
    BY <1>2
  <2>2. Canonical(rows, sortBy) \in [L -> AnyRow]
    <3>1. \A n \in L : f[n] \in L
      BY <1>6
    <3>2. \A n \in L : T[f[n]] \in AnyRow
      BY <2>1, <3>1
    <3>3. Canonical(rows, sortBy) = [n \in L |-> T[f[n]]]
      BY <1>6
    <3> QED BY <3>2, <3>3
  <2>3. Len(rows) \in Nat
    OBVIOUS
  <2> QED BY <2>2, <2>3, LenProperties, SeqDef
<1>8. \A n \in L : DOMAIN Canonical(rows, sortBy)[n] = Present(rows)
  <2>1. \A i \in L : DOMAIN T[i] = Present(rows)
    BY <1>1, <1>2
  <2>2. \A n \in L : f[n] \in L /\ Canonical(rows, sortBy)[n] = T[f[n]]
    BY <1>6
  <2> QED BY <2>1, <2>2
<1>9. \A n \in L : \A c : At(Canonical(rows, sortBy)[n], c) = Cell(rows[f[n]], c)
  BY <1>2, <1>6
<1>10. \A i \in L : SortPlace(T[i], sortBy) = TextPlace(rows[i], sortBy)
  BY <1>2, RenderedKey
<1>11. \A m, n \in L : m < n => \/ TextPlace(rows[f[m]], sortBy) < TextPlace(rows[f[n]], sortBy)
                                \/ f[m] < f[n] /\ TextPlace(rows[f[m]], sortBy) = TextPlace(rows[f[n]], sortBy)
  <2> SUFFICES ASSUME NEW m \in L, NEW n \in L, m < n
               PROVE  \/ TextPlace(rows[f[m]], sortBy) < TextPlace(rows[f[n]], sortBy)
                      \/ f[m] < f[n] /\ TextPlace(rows[f[m]], sortBy) = TextPlace(rows[f[n]], sortBy)
    OBVIOUS
  <2>1. f[m] \in L /\ f[n] \in L /\ m \in 1..Len(T) /\ n \in 1..Len(T)
    BY <1>2, <1>6
  <2>2. \/ SortPlace(T[f[m]], sortBy) < SortPlace(T[f[n]], sortBy)
        \/ f[m] < f[n] /\ SortPlace(T[f[m]], sortBy) = SortPlace(T[f[n]], sortBy)
    BY <1>5, <2>1 DEF Rearranges
  <2> QED BY <1>10, <2>1, <2>2
<1> QED BY <1>6, <1>7, <1>8, <1>9, <1>11

\* A canonical result renders the result.
LEMMA CanonicalRenders ==
    ASSUME NEW rows \in Seq(AnyRow), NEW sortBy \in Seq(STRING), Len(sortBy) <= MaxKeys
    PROVE  Renders(Canonical(rows, sortBy), rows)
BY CanonicalRows DEF Renders

\* Filling in keeps the number of rows and every cell.
LEMMA FilledRows ==
    ASSUME NEW X \in Seq(AnyRow)
    PROVE  /\ FillAll(X) \in Seq(AnyRow) /\ Len(FillAll(X)) = Len(X)
           /\ \A n \in 1..Len(X) : /\ DOMAIN FillAll(X)[n] = Columns
                                   /\ \A c : At(FillAll(X)[n], c) = At(X[n], c)
<1>1. Columns \in SUBSET Columns /\ Len(X) \in Nat /\ DOMAIN X = 1..Len(X)
  OBVIOUS
<1>2. ASSUME NEW n \in 1..Len(X)
      PROVE  /\ Fill(X[n], Columns) \in AnyRow /\ DOMAIN Fill(X[n], Columns) = Columns
             /\ \A c : At(Fill(X[n], Columns), c) = At(X[n], c)
  <2>1. X[n] \in AnyRow
    OBVIOUS
  <2>2. DOMAIN X[n] \subseteq Columns
    BY <2>1, RowFacts
  <2> QED BY <1>1, <2>1, <2>2, FillRow
<1>3. FillAll(X) = [n \in 1..Len(X) |-> Fill(X[n], Columns)]
  BY <1>1 DEF FillAll
<1>4. FillAll(X) \in [1..Len(X) -> AnyRow]
  BY <1>2, <1>3
<1>5. FillAll(X) \in Seq(AnyRow) /\ Len(FillAll(X)) = Len(X)
  BY <1>1, <1>4, LenProperties, SeqDef
<1> QED BY <1>2, <1>3, <1>5

\* So does filling in a rendering.
LEMMA FilledRenders ==
    ASSUME NEW rows, NEW X, Renders(X, rows)
    PROVE  Renders(FillAll(X), rows)
<1>1. X \in Seq(AnyRow) /\ Len(X) = Len(rows)
  BY DEF Renders
<1>2. /\ FillAll(X) \in Seq(AnyRow) /\ Len(FillAll(X)) = Len(rows)
      /\ \A n \in 1..Len(rows) : \A c : At(FillAll(X)[n], c) = At(X[n], c)
  BY <1>1, FilledRows
<1>3. PICK f \in [1..Len(rows) -> 1..Len(rows)] :
          /\ \A i \in 1..Len(rows) : \E n \in 1..Len(rows) : f[n] = i
          /\ \A n \in 1..Len(rows) : \A c : At(X[n], c) = Cell(rows[f[n]], c)
  BY DEF Renders
<1>4. \A n \in 1..Len(rows) : \A c : At(FillAll(X)[n], c) = Cell(rows[f[n]], c)
  BY <1>2, <1>3
<1> QED BY <1>2, <1>3, <1>4 DEF Renders

\* What the comparison means for the rows the engines returned: with the
\* same number of rows, every row has one of the other engine with the text
\* of its keys, whose other cells it can be taken for.
KeysUnique(rows, sortBy) == \A i, j \in 1..Len(rows) : TextKey(rows[i], sortBy) = TextKey(rows[j], sortBy) => i = j
Taken(d, s, types) == \A c \in Columns : Equivalent(Cell(d, c), Cell(s, c), types[c])
Matches(D, S, sortBy, types) ==
    /\ Len(D) = Len(S)
    /\ \A i \in 1..Len(D) : \E j \in 1..Len(S) : TextKey(D[i], sortBy) = TextKey(S[j], sortBy)
    /\ \A j \in 1..Len(S) : \E i \in 1..Len(D) :
           TextKey(D[i], sortBy) = TextKey(S[j], sortBy) /\ Taken(D[i], S[j], types)

\* Rows of text differ where the rows are not taken for each other.
LEMMA UnlikeRows ==
    ASSUME NEW x \in AnyRow, NEW y \in AnyRow, NEW d, NEW s, NEW types,
           \A c : At(x, c) = Cell(d, c) /\ At(y, c) = Cell(s, c)
    PROVE  Unlike(x, y, types) <=> ~Taken(d, s, types)
<1>1. DOMAIN x \cup DOMAIN y \subseteq Columns
  BY RowFacts
<1>2. ASSUME NEW c \in Columns, c \notin DOMAIN x \cup DOMAIN y PROVE Equivalent(Cell(d, c), Cell(s, c), types[c])
  <2>1. At(x, c) = At(y, c)
    BY <1>2 DEF At
  <2>2. Cell(d, c) = Cell(s, c)
    BY <2>1
  <2> QED BY <2>2 DEF Equivalent
<1> QED BY <1>1, <1>2 DEF Unlike, Taken

\* The first row with a key is the row with that key.
LEMMA FirstRow ==
    ASSUME NEW sortBy, NEW X \in Seq(AnyRow), NEW n \in 1..Len(X)
    PROVE  \E m \in 1..Len(X) : /\ FirstWith(X, sortBy, KeyOf(X[n], sortBy)) = X[m]
                                /\ KeyOf(X[m], sortBy) = KeyOf(X[n], sortBy)
<1> DEFINE key == KeyOf(X[n], sortBy)
           With == {i \in 1..Len(X) : KeyOf(X[i], sortBy) = key}
<1>1. Len(X) \in Nat /\ DOMAIN X = 1..Len(X)
  OBVIOUS
<1>2. With # {} /\ With \in SUBSET Nat
  BY <1>1
<1>3. PICK m \in With : \A i \in With : m <= i
  BY <1>2, LeastNumber
<1>4. m \in 1..Len(X) /\ KeyOf(X[m], sortBy) = key
  OBVIOUS
<1>5. \A j \in 1..m-1 : j \in 1..Len(X) /\ ~(m <= j)
  BY <1>1, <1>4
<1>6. \A j \in 1..m-1 : KeyOf(X[j], sortBy) # key
  BY <1>3, <1>5
<1> HIDE DEF key
<1>7. \E i \in DOMAIN X : KeyOf(X[i], sortBy) = key /\ \A j \in 1..i-1 : KeyOf(X[j], sortBy) # key
  BY <1>1, <1>4, <1>6
<1>8. PICK i \in DOMAIN X : FirstWith(X, sortBy, key) = X[i] /\ KeyOf(X[i], sortBy) = key
  BY <1>7 DEF FirstWith
<1> QED BY <1>1, <1>8 DEF key

\* Comparison by key: no difference is found exactly if the rows match, when the
\* keys of DuckDB's rows are unique.
LEMMA ByKey ==
    ASSUME NEW D, NEW S, NEW X, NEW Y, NEW sortBy \in Seq(STRING), NEW types,
           Renders(X, D), Renders(Y, S), KeysUnique(D, sortBy)
    PROVE  Matches(D, S, sortBy, types) <=> Len(D) = Len(S) /\ ~DiffersByKey(X, Y, sortBy, types)
<1>1. /\ X \in Seq(AnyRow) /\ Len(X) = Len(D) /\ Len(D) \in Nat /\ DOMAIN X = 1..Len(D)
      /\ Y \in Seq(AnyRow) /\ Len(Y) = Len(S) /\ Len(S) \in Nat /\ DOMAIN Y = 1..Len(S)
  BY DEF Renders
<1>2. PICK f \in [1..Len(D) -> 1..Len(D)] :
          /\ \A i \in 1..Len(D) : \E n \in 1..Len(D) : f[n] = i
          /\ \A n \in 1..Len(D) : \A c : At(X[n], c) = Cell(D[f[n]], c)
  BY DEF Renders
<1>3. PICK g \in [1..Len(S) -> 1..Len(S)] :
          /\ \A i \in 1..Len(S) : \E n \in 1..Len(S) : g[n] = i
          /\ \A n \in 1..Len(S) : \A c : At(Y[n], c) = Cell(S[g[n]], c)
  BY DEF Renders
<1>4. \A n \in 1..Len(D) : KeyOf(X[n], sortBy) = TextKey(D[f[n]], sortBy)
  BY <1>2, RenderedKey
<1>5. \A n \in 1..Len(S) : KeyOf(Y[n], sortBy) = TextKey(S[g[n]], sortBy)
  BY <1>3, RenderedKey
<1>6. KeysOf(X, sortBy) = {TextKey(D[i], sortBy) : i \in 1..Len(D)}
  <2>1. KeysOf(X, sortBy) = {TextKey(D[f[n]], sortBy) : n \in 1..Len(D)}
    BY <1>1, <1>4 DEF KeysOf
  <2>2. \A n \in 1..Len(D) : f[n] \in 1..Len(D)
    BY <1>2
  <2> QED BY <1>2, <2>1, <2>2
<1>7. KeysOf(Y, sortBy) = {TextKey(S[i], sortBy) : i \in 1..Len(S)}
  <2>1. KeysOf(Y, sortBy) = {TextKey(S[g[n]], sortBy) : n \in 1..Len(S)}
    BY <1>1, <1>5 DEF KeysOf
  <2>2. \A n \in 1..Len(S) : g[n] \in 1..Len(S)
    BY <1>3
  <2> QED BY <1>3, <2>1, <2>2
\* The row of D that a row of S with one of D's keys is compared with.
<1>8. ASSUME NEW n \in 1..Len(S), NEW i \in 1..Len(D), TextKey(D[i], sortBy) = TextKey(S[g[n]], sortBy)
      PROVE  Unlike(FirstWith(X, sortBy, KeyOf(Y[n], sortBy)), Y[n], types) <=> ~Taken(D[i], S[g[n]], types)
  <2>1. PICK p \in 1..Len(D) : f[p] = i
    BY <1>2
  <2>2. KeyOf(X[p], sortBy) = KeyOf(Y[n], sortBy)
    BY <1>4, <1>5, <1>8, <2>1
  <2>3. PICK m \in 1..Len(X) : FirstWith(X, sortBy, KeyOf(X[p], sortBy)) = X[m] /\ KeyOf(X[m], sortBy) = KeyOf(X[p], sortBy)
    BY <1>1, <2>1, FirstRow
  <2>4. m \in 1..Len(D) /\ f[m] \in 1..Len(D)
    BY <1>1, <1>2, <2>3
  <2>5. TextKey(D[f[m]], sortBy) = TextKey(D[i], sortBy)
    BY <1>4, <2>1, <2>3, <2>4
  <2>6. f[m] = i
    BY <2>4, <2>5 DEF KeysUnique
  <2>7. X[m] \in AnyRow /\ Y[n] \in AnyRow
    BY <1>1, <2>3
  <2>8. \A c : At(X[m], c) = Cell(D[i], c) /\ At(Y[n], c) = Cell(S[g[n]], c)
    BY <1>2, <1>3, <2>4, <2>6
  <2>9. Unlike(X[m], Y[n], types) <=> ~Taken(D[i], S[g[n]], types)
    BY <2>7, <2>8, UnlikeRows
  <2> QED BY <2>2, <2>3, <2>9
<1>9. ASSUME Matches(D, S, sortBy, types) PROVE Len(D) = Len(S) /\ ~DiffersByKey(X, Y, sortBy, types)
  <2>1. KeysOf(X, sortBy) = KeysOf(Y, sortBy)
    <3>1. \A i \in 1..Len(D) : \E j \in 1..Len(S) : TextKey(D[i], sortBy) = TextKey(S[j], sortBy)
      BY <1>9 DEF Matches
    <3>2. \A j \in 1..Len(S) : \E i \in 1..Len(D) : TextKey(D[i], sortBy) = TextKey(S[j], sortBy)
      BY <1>9 DEF Matches
    <3>3. {TextKey(D[i], sortBy) : i \in 1..Len(D)} = {TextKey(S[i], sortBy) : i \in 1..Len(S)}
      BY <3>1, <3>2
    <3> QED BY <1>6, <1>7, <3>3
  <2>2. ASSUME NEW n \in 1..Len(S) PROVE ~Unlike(FirstWith(X, sortBy, KeyOf(Y[n], sortBy)), Y[n], types)
    <3>1. g[n] \in 1..Len(S)
      BY <1>3
    <3>2. PICK i \in 1..Len(D) : TextKey(D[i], sortBy) = TextKey(S[g[n]], sortBy) /\ Taken(D[i], S[g[n]], types)
      BY <1>9, <3>1 DEF Matches
    <3> QED BY <1>8, <3>2
  <2> QED BY <1>1, <1>9, <2>1, <2>2 DEF DiffersByKey, Matches
<1>10. ASSUME Len(D) = Len(S), ~DiffersByKey(X, Y, sortBy, types) PROVE Matches(D, S, sortBy, types)
  <2>1. {TextKey(D[i], sortBy) : i \in 1..Len(D)} = {TextKey(S[i], sortBy) : i \in 1..Len(S)}
    BY <1>6, <1>7, <1>10 DEF DiffersByKey
  <2>2. \A i \in 1..Len(D) : \E j \in 1..Len(S) : TextKey(D[i], sortBy) = TextKey(S[j], sortBy)
    BY <2>1
  <2>3. ASSUME NEW j \in 1..Len(S)
        PROVE  \E i \in 1..Len(D) : TextKey(D[i], sortBy) = TextKey(S[j], sortBy) /\ Taken(D[i], S[j], types)
    <3>1. PICK i \in 1..Len(D) : TextKey(D[i], sortBy) = TextKey(S[j], sortBy)
      BY <2>1
    <3>2. PICK n \in 1..Len(S) : g[n] = j
      BY <1>3
    <3>3. ~Unlike(FirstWith(X, sortBy, KeyOf(Y[n], sortBy)), Y[n], types)
      BY <1>1, <1>10, <3>2 DEF DiffersByKey
    <3>4. Taken(D[i], S[j], types)
      BY <1>8, <3>1, <3>2, <3>3
    <3> QED BY <3>1, <3>4
  <2> QED BY <1>10, <2>2, <2>3 DEF Matches
<1> QED BY <1>9, <1>10

\* Comparison by position, which is for results of a single row.
LEMMA ByPosition ==
    ASSUME NEW D, NEW S, NEW X, NEW Y, NEW types,
           Renders(X, D), Renders(Y, S), Len(D) <= 1, Len(S) <= 1
    PROVE  Matches(D, S, <<>>, types) <=> Len(D) = Len(S) /\ ~DiffersByPosition(X, Y, types)
<1>1. /\ X \in Seq(AnyRow) /\ Len(X) = Len(D) /\ Len(D) \in Nat /\ DOMAIN X = 1..Len(D)
      /\ Y \in Seq(AnyRow) /\ Len(Y) = Len(S) /\ Len(S) \in Nat /\ DOMAIN Y = 1..Len(S)
  BY DEF Renders
<1>2. \A r, s : TextKey(r, <<>>) = TextKey(s, <<>>)
  BY DEF TextKey, TextParts
<1>3. \A i \in 1..Len(D) : i = 1
  BY <1>1
<1>4. \A j \in 1..Len(S) : j = 1
  BY <1>1
<1>5. CASE Len(D) # Len(S)
  BY <1>5 DEF Matches
<1>6. CASE Len(D) = Len(S) /\ Len(S) = 0
  <2>1. 1..Len(S) = {} /\ 1..Len(D) = {}
    BY <1>6
  <2>2. ~DiffersByPosition(X, Y, types)
    BY <1>1, <1>6, <2>1 DEF DiffersByPosition
  <2>3. Matches(D, S, <<>>, types)
    BY <1>6, <2>1 DEF Matches
  <2> QED BY <1>6, <2>2, <2>3
<1>7. CASE Len(D) = Len(S) /\ Len(S) # 0
  <2>1. 1 \in 1..Len(S) /\ 1 \in 1..Len(D)
    BY <1>1, <1>7
  <2>2. X[1] \in AnyRow /\ Y[1] \in AnyRow
    BY <1>1, <2>1
  <2>3. \A c : At(X[1], c) = Cell(D[1], c)
    <3>1. PICK f \in [1..Len(D) -> 1..Len(D)] : \A n \in 1..Len(D) : \A c : At(X[n], c) = Cell(D[f[n]], c)
      BY DEF Renders
    <3>2. f[1] = 1
      BY <1>3, <2>1
    <3> QED BY <2>1, <3>1, <3>2
  <2>4. \A c : At(Y[1], c) = Cell(S[1], c)
    <3>1. PICK f \in [1..Len(S) -> 1..Len(S)] : \A n \in 1..Len(S) : \A c : At(Y[n], c) = Cell(S[f[n]], c)
      BY DEF Renders
    <3>2. f[1] = 1
      BY <1>4, <2>1
    <3> QED BY <2>1, <3>1, <3>2
  <2>5. Unlike(X[1], Y[1], types) <=> ~Taken(D[1], S[1], types)
    BY <2>2, <2>3, <2>4, UnlikeRows
  <2>6. DiffersByPosition(X, Y, types) <=> Unlike(X[1], Y[1], types)
    BY <1>1, <1>4, <1>7, <2>1 DEF DiffersByPosition
  <2>7. Matches(D, S, <<>>, types) <=> Taken(D[1], S[1], types)
    BY <1>2, <1>3, <1>4, <1>7, <2>1 DEF Matches
  <2> QED BY <1>7, <2>5, <2>6, <2>7
<1> QED BY <1>5, <1>6, <1>7

\* Rows that are matched by their keys, or at most one row on either side.
Comparable(rows, sortBy) == KeysUnique(rows, sortBy) /\ (sortBy = <<>> => Len(rows) <= 1)

\* Either way, what is compared is whether the rows match.
LEMMA DiffersOrMatches ==
    ASSUME NEW D, NEW S, NEW X, NEW Y, NEW sortBy \in Seq(STRING), NEW types,
           Renders(X, D), Renders(Y, S), Comparable(D, sortBy), sortBy = <<>> => Len(S) <= 1
    PROVE  Matches(D, S, sortBy, types) <=> Len(D) = Len(S) /\ ~Differs(X, Y, sortBy, types)
<1>1. CASE sortBy = <<>>
  <2>1. Len(D) <= 1 /\ Len(S) <= 1
    BY <1>1 DEF Comparable
  <2>2. Matches(D, S, <<>>, types) <=> Len(D) = Len(S) /\ ~DiffersByPosition(X, Y, types)
    BY <2>1, ByPosition
  <2> QED BY <1>1, <2>2 DEF Differs
<1>2. CASE sortBy # <<>>
  <2>1. Matches(D, S, sortBy, types) <=> Len(D) = Len(S) /\ ~DiffersByKey(X, Y, sortBy, types)
    BY ByKey DEF Comparable
  <2> QED BY <1>2, <2>1 DEF Differs
<1> QED BY <1>1, <1>2

\* The verdict on two results tells whether they match.
LEMMA VerdictFacts ==
    ASSUME NEW D, NEW S, NEW X, NEW Y, NEW sortBy \in Seq(STRING), NEW types,
           Renders(X, D), Renders(Y, S), Comparable(D, sortBy), sortBy = <<>> => Len(S) <= 1
    PROVE  /\ Verdict(X, Y, sortBy, types) = "RESULT_CONSISTENT" => Matches(D, S, sortBy, types) /\ Present(X) = Present(Y)
           /\ Matches(D, S, sortBy, types) /\ Present(X) = Present(Y) => Verdict(X, Y, sortBy, types) # "RESULT_MISMATCH"
<1>1. Len(X) = Len(D) /\ Len(Y) = Len(S)
  BY DEF Renders
<1>2. Matches(D, S, sortBy, types) <=> Len(D) = Len(S) /\ ~Differs(X, Y, sortBy, types)
  BY DiffersOrMatches
<1>3. Verdict(X, Y, sortBy, types) = "RESULT_CONSISTENT" => Len(X) = Len(Y) /\ Present(X) = Present(Y) /\ ~Differs(X, Y, sortBy, types)
  BY DEF Verdict
<1>4. Len(X) = Len(Y) /\ Present(X) = Present(Y) /\ ~Differs(X, Y, sortBy, types) => Verdict(X, Y, sortBy, types) # "RESULT_MISMATCH"
  BY DEF Verdict
<1> QED BY <1>1, <1>2, <1>3, <1>4

\* RESULT_CONSISTENT means that the rows match; RESULT_MISMATCH that they do not.
LEMMA ComparedFacts ==
    ASSUME NEW D \in Seq(AnyRow), NEW S \in Seq(AnyRow), NEW sortBy \in Seq(STRING), Len(sortBy) <= MaxKeys, NEW task,
           Comparable(D, sortBy), sortBy = <<>> => Len(S) <= 1,
           NEW status, status = Compared(Canonical(D, sortBy), Canonical(S, sortBy), sortBy, task)
    PROVE  /\ status = "RESULT_CONSISTENT" => Matches(D, S, sortBy, task.types)
           /\ status = "RESULT_MISMATCH" => ~Matches(D, S, sortBy, task.types)
<1> DEFINE X == Canonical(D, sortBy)
           Y == Canonical(S, sortBy)
<1>1. Renders(X, D) /\ Renders(Y, S)
  BY CanonicalRenders
<1> HIDE DEF X, Y
<1>2. Renders(FillAll(X), D) /\ Renders(FillAll(Y), S)
  BY <1>1, FilledRenders
<1>3. /\ status = "RESULT_CONSISTENT" \/ status = "RESULT_MISMATCH" =>
             \/ Present(X) = Present(Y) /\ status = Verdict(X, Y, sortBy, task.types)
             \/ status = Verdict(FillAll(X), FillAll(Y), sortBy, task.types)
  BY DEF Compared, X, Y
<1>4. ASSUME Matches(D, S, sortBy, task.types) PROVE Present(FillAll(X)) = Present(FillAll(Y))
  <2>1. X \in Seq(AnyRow) /\ Y \in Seq(AnyRow) /\ Len(X) = Len(Y)
    BY <1>1, <1>4 DEF Renders, Matches
  <2>2. /\ DOMAIN FillAll(X) = 1..Len(X) /\ DOMAIN FillAll(Y) = 1..Len(X)
        /\ \A n \in 1..Len(X) : DOMAIN FillAll(X)[n] = Columns /\ DOMAIN FillAll(Y)[n] = Columns
    <3>1. /\ FillAll(X) \in Seq(AnyRow) /\ Len(FillAll(X)) = Len(X)
          /\ \A n \in 1..Len(X) : DOMAIN FillAll(X)[n] = Columns
      BY <2>1, FilledRows
    <3>2. /\ FillAll(Y) \in Seq(AnyRow) /\ Len(FillAll(Y)) = Len(Y)
          /\ \A n \in 1..Len(Y) : DOMAIN FillAll(Y)[n] = Columns
      BY <2>1, FilledRows
    <3> QED BY <2>1, <3>1, <3>2
  <2> QED BY <2>2 DEF Present
<1>5. /\ Verdict(X, Y, sortBy, task.types) = "RESULT_CONSISTENT" => Matches(D, S, sortBy, task.types)
      /\ Matches(D, S, sortBy, task.types) /\ Present(X) = Present(Y) => Verdict(X, Y, sortBy, task.types) # "RESULT_MISMATCH"
  BY <1>1, VerdictFacts
<1>6. /\ Verdict(FillAll(X), FillAll(Y), sortBy, task.types) = "RESULT_CONSISTENT" => Matches(D, S, sortBy, task.types)
      /\ Matches(D, S, sortBy, task.types) /\ Present(FillAll(X)) = Present(FillAll(Y)) =>
             Verdict(FillAll(X), FillAll(Y), sortBy, task.types) # "RESULT_MISMATCH"
  BY <1>2, VerdictFacts
<1> QED BY <1>3, <1>4, <1>5, <1>6

-----------------------------------------------------------------------------
\* Rows whose keys are unique.
LEMMA UniqueKeys ==
    ASSUME NEW rows \in Seq(AnyRow), NEW sortBy \in Seq(STRING),
           Cardinality(KeysOf(Texts(rows, Columns), sortBy)) = Len(rows)
    PROVE  Comparable(rows, sortBy)
<1> DEFINE L == 1..Len(rows)
           T == Texts(rows, Columns)
           K == KeysOf(T, sortBy)
           f == [i \in L |-> TextKey(rows[i], sortBy)]
<1>1. T \in Seq(AnyRow) /\ Len(T) = Len(rows) /\ \A i \in L : \A c : At(T[i], c) = Cell(rows[i], c)
  BY TextRows
<1>2. Len(rows) \in Nat /\ DOMAIN T = L
  BY <1>1
<1>3. \A i \in L : KeyOf(T[i], sortBy) = TextKey(rows[i], sortBy)
  BY <1>1, RenderedKey
<1> HIDE DEF T
<1>4. K = {f[i] : i \in L}
  BY <1>2, <1>3 DEF KeysOf
<1> HIDE DEF K
<1>5. f \in [L -> K] /\ \A k \in K : \E i \in L : f[i] = k
  BY <1>4
<1>6. f \in Surjection(L, K)
  BY <1>5 DEF Surjection
<1>7. IsFiniteSet(L) /\ Cardinality(L) = Cardinality(K)
  BY <1>2, SegmentSize DEF K, T
<1>8. f \in Injection(L, K)
  BY <1>6, <1>7, FS_Surjection
<1>9. KeysUnique(rows, sortBy)
  BY <1>8 DEF Injection, IsInjective, KeysUnique
<1>10. ASSUME sortBy = <<>> PROVE Len(rows) <= 1
  <2>1. \A i, j \in L : i = j
    BY <1>9, <1>10 DEF KeysUnique, TextKey, TextParts
  <2>2. ~(1 \in L /\ 2 \in L)
    BY <2>1
  <2> QED BY <1>2, <2>2
<1> QED BY <1>9, <1>10 DEF Comparable

\* Rows whose sorted keys have a place of their own.
PlacesUnique(rows, sortBy) == \A i, j \in 1..Len(rows) : TextPlace(rows[i], sortBy) = TextPlace(rows[j], sortBy) => i = j

\* Rows that are told apart by the string they are sorted by.
LEMMA ApartRows ==
    ASSUME NEW rows \in Seq(AnyRow), NEW sortBy \in Seq(STRING), ToldApart(rows, sortBy)
    PROVE  PlacesUnique(rows, sortBy)
<1> DEFINE T == Texts(rows, Columns)
<1>1. T \in Seq(AnyRow) /\ Len(T) = Len(rows) /\ \A i \in 1..Len(rows) : \A c : At(T[i], c) = Cell(rows[i], c)
  BY TextRows
<1>2. DOMAIN T = 1..Len(rows)
  BY <1>1
<1>3. \A i, j \in DOMAIN T : SortPlace(T[i], sortBy) = SortPlace(T[j], sortBy) => i = j
  BY DEF ToldApart
<1> HIDE DEF T
<1>4. \A i \in 1..Len(rows) : SortPlace(T[i], sortBy) = TextPlace(rows[i], sortBy)
  BY <1>1, RenderedKey
<1> QED BY <1>2, <1>3, <1>4 DEF PlacesUnique

\* Another result with the same rows is told apart by its places as well.
LEMMA SameRowsApart ==
    ASSUME NEW X, NEW D \in Seq(X), NEW P \in Seq(X), NEW sortBy, PlacesUnique(D, sortBy),
           Len(D) = Len(P), ToSet(D) = ToSet(P)
    PROVE  PlacesUnique(P, sortBy)
<1> DEFINE L == 1..Len(D)
           f == [j \in L |-> CHOOSE i \in L : D[i] = P[j]]
<1>1. Len(D) \in Nat /\ DOMAIN D = L /\ DOMAIN P = L
  OBVIOUS
<1>2. (\A j \in L : \E i \in L : D[i] = P[j]) /\ (\A i \in L : \E j \in L : D[i] = P[j])
  <2>1. {D[i] : i \in L} = {P[j] : j \in L}
    BY <1>1 DEF ToSet
  <2>2. \A j \in L : \E i \in L : D[i] = P[j]
    BY <2>1
  <2>3. \A i \in L : \E j \in L : D[i] = P[j]
    BY <2>1
  <2> QED BY <2>2, <2>3
<1>3. \A j \in L : f[j] \in L /\ D[f[j]] = P[j]
  BY <1>2
<1>4. f \in [L -> L]
  BY <1>3
<1> HIDE DEF f
<1>5. \A i \in L : \E j \in L : f[j] = i
  <2> TAKE i \in L
  <2>1. PICK j \in L : D[i] = P[j]
    BY <1>2
  <2>2. f[j] \in L /\ TextPlace(D[f[j]], sortBy) = TextPlace(D[i], sortBy)
    BY <1>3, <2>1
  <2>3. f[j] = i
    BY <2>2 DEF PlacesUnique
  <2> QED BY <2>3
<1>6. f \in Injection(L, L)
  <2>1. f \in Surjection(L, L)
    BY <1>4, <1>5 DEF Surjection
  <2>2. IsFiniteSet(L) /\ Cardinality(L) = Cardinality(L)
    BY <1>1, SegmentSize
  <2> QED BY <2>1, <2>2, FS_Surjection
<1>7. \A i, j \in L : f[i] = f[j] => i = j
  BY <1>6 DEF Injection, IsInjective
<1>8. ASSUME NEW i \in L, NEW j \in L, TextPlace(P[i], sortBy) = TextPlace(P[j], sortBy) PROVE i = j
  <2>1. TextPlace(D[f[i]], sortBy) = TextPlace(D[f[j]], sortBy)
    BY <1>3, <1>8
  <2>2. f[i] = f[j]
    BY <1>3, <2>1 DEF PlacesUnique
  <2> QED BY <1>7, <2>2
<1> QED BY <1>8 DEF PlacesUnique

\* Two results in strictly ascending order that hold the same rows are equal.
Ascends(A, sortBy) == \A m, n \in 1..Len(A) : m < n => SortPlace(A[m], sortBy) < SortPlace(A[n], sortBy)

\* Two results in strict order that have the same rows are the same.
LEMMA SameOrder ==
    ASSUME NEW A \in Seq(AnyRow), NEW B \in Seq(AnyRow), NEW sortBy \in Seq(STRING), Len(sortBy) <= MaxKeys,
           Ascends(A, sortBy), Ascends(B, sortBy),
           \A n \in 1..Len(A) : \E m \in 1..Len(B) : A[n] = B[m],
           \A m \in 1..Len(B) : \E n \in 1..Len(A) : A[n] = B[m]
    PROVE  A = B
<1> DEFINE a(n) == SortPlace(A[n], sortBy)
           b(n) == SortPlace(B[n], sortBy)
<1>1. Len(A) \in Nat /\ Len(B) \in Nat /\ Len(sortBy) \in Nat
  OBVIOUS
<1>2. (\A n \in 1..Len(A) : a(n) \in Nat) /\ (\A n \in 1..Len(B) : b(n) \in Nat)
  <2>1. \A n \in 1..Len(A) : A[n] \in AnyRow
    OBVIOUS
  <2>2. \A n \in 1..Len(B) : B[n] \in AnyRow
    OBVIOUS
  <2> QED BY <2>1, <2>2, KeyType
<1>4. /\ \A m, n \in 1..Len(A) : m < n => a(m) < a(n)
      /\ \A m, n \in 1..Len(B) : m < n => b(m) < b(n)
  BY DEF Ascends
<1>5. \A m, n \in 1..Len(A) : m < n => A[m] # A[n]
  BY <1>2, <1>4
<1>6. \A m, n \in 1..Len(B) : m < n => B[m] # B[n]
  BY <1>2, <1>4
<1>7. \A n \in (1..Len(A)) \cap (1..Len(B)) : A[n] = B[n]
  <2> DEFINE Odd == {n \in (1..Len(A)) \cap (1..Len(B)) : A[n] # B[n]}
  <2> SUFFICES ASSUME Odd # {} PROVE FALSE
    OBVIOUS
  <2>1. Odd \in SUBSET Nat
    BY <1>1
  <2>2. PICK n \in Odd : \A m \in Odd : n <= m
    BY <2>1, LeastNumber
  <2>3. n \in 1..Len(A) /\ n \in 1..Len(B) /\ A[n] # B[n]
    OBVIOUS
  <2>4. \A m \in (1..Len(A)) \cap (1..Len(B)) : m < n => A[m] = B[m]
    <3> SUFFICES ASSUME NEW m \in (1..Len(A)) \cap (1..Len(B)), m < n, A[m] # B[m] PROVE FALSE
      OBVIOUS
    <3>1. m \in Odd /\ ~(n <= m)
      BY <1>1, <2>3
    <3> QED BY <2>2, <3>1
  <2>5. PICK m \in 1..Len(B) : A[n] = B[m]
    BY <2>3
  <2>6. PICK l \in 1..Len(A) : A[l] = B[n]
    BY <2>3
  <2>7. n < m
    <3>1. m # n
      BY <2>3, <2>5
    <3>2. ~(m < n)
      <4> SUFFICES ASSUME m < n PROVE FALSE
        OBVIOUS
      <4>1. m \in 1..Len(A)
        BY <1>1, <2>3
      <4>2. A[m] = A[n]
        BY <2>4, <2>5, <4>1
      <4> QED BY <1>5, <2>3, <4>1, <4>2
    <3> QED BY <1>1, <2>3, <3>1, <3>2
  <2>8. n < l
    <3>1. l # n
      BY <2>3, <2>6
    <3>2. ~(l < n)
      <4> SUFFICES ASSUME l < n PROVE FALSE
        OBVIOUS
      <4>1. l \in 1..Len(B)
        BY <1>1, <2>3
      <4>2. B[l] = B[n]
        BY <2>4, <2>6, <4>1
      <4> QED BY <1>6, <2>3, <4>1, <4>2
    <3> QED BY <1>1, <2>3, <3>1, <3>2
  <2>9. b(n) < b(m) /\ b(m) = a(n)
    BY <1>4, <2>3, <2>5, <2>7
  <2>10. a(n) < a(l) /\ a(l) = b(n)
    BY <1>4, <2>3, <2>6, <2>8
  <2>11. a(n) \in Nat /\ b(n) \in Nat
    BY <1>2, <2>3
  <2> HIDE DEF a, b
  <2> QED BY <2>9, <2>10, <2>11
<1>8. Len(A) = Len(B)
  <2>1. ~(Len(B) < Len(A))
    <3> SUFFICES ASSUME Len(B) < Len(A) PROVE FALSE
      OBVIOUS
    <3>1. Len(B) + 1 \in 1..Len(A)
      BY <1>1
    <3>2. PICK m \in 1..Len(B) : A[Len(B) + 1] = B[m]
      BY <3>1
    <3>3. m \in 1..Len(A) /\ m < Len(B) + 1
      BY <1>1
    <3>4. A[m] = B[m]
      BY <1>7, <3>3
    <3> QED BY <1>5, <3>1, <3>2, <3>3, <3>4
  <2>2. ~(Len(A) < Len(B))
    <3> SUFFICES ASSUME Len(A) < Len(B) PROVE FALSE
      OBVIOUS
    <3>1. Len(A) + 1 \in 1..Len(B)
      BY <1>1
    <3>2. PICK m \in 1..Len(A) : A[m] = B[Len(A) + 1]
      BY <3>1
    <3>3. m \in 1..Len(B) /\ m < Len(A) + 1
      BY <1>1
    <3>4. A[m] = B[m]
      BY <1>7, <3>3
    <3> QED BY <1>6, <3>1, <3>2, <3>3, <3>4
  <2> QED BY <1>1, <2>1, <2>2
<1>9. \A n \in 1..Len(A) : A[n] = B[n]
  BY <1>7, <1>8
<1> QED BY <1>8, <1>9, SeqEqual

-----------------------------------------------------------------------------
\* Results that are sampled: the rows as DuckDB returns them have all columns.
FullRow == [Columns -> Texted]
Plain(D) == \A i \in 1..Len(D), c \in Columns : D[i][c] \notin {"", "float", "nan"}
Full(x) == [c \in Columns |-> At(x, c)]

\* A row with every column is a row.
LEMMA FullRows == FullRow \in SUBSET AnyRow /\ \A D \in Seq(FullRow) : D \in Seq(AnyRow)
<1>1. FullRow \in SUBSET AnyRow
  BY DEF FullRow, AnyRow
<1>2. ASSUME NEW D \in Seq(FullRow) PROVE D \in Seq(AnyRow)
  BY <1>1, SeqDef
<1> QED BY <1>1, <1>2

\* A row with every column filled in reads as the row.
LEMMA FullFacts ==
    ASSUME NEW x \in AnyRow
    PROVE  /\ Full(x) \in FullRow /\ \A c : At(Full(x), c) = At(x, c)
           /\ (DOMAIN x = Columns => Full(x) = x) /\ Fill(x, Columns) = Full(x)
<1>1. DOMAIN x \subseteq Columns /\ \A c : At(x, c) \in Texted
  BY RowFacts
<1>2. x = [c \in DOMAIN x |-> x[c]]
  BY RowFacts
<1>3. Full(x) \in FullRow
  BY <1>1 DEF Full, FullRow
<1>4. \A c : At(Full(x), c) = At(x, c)
  BY <1>1 DEF Full, At
<1>5. DOMAIN x = Columns => Full(x) = x
  BY <1>2 DEF Full, At
<1>6. Columns \cup DOMAIN x = Columns
  BY <1>1
<1>7. Fill(x, Columns) = Full(x)
  BY <1>6 DEF Fill, Full
<1> QED BY <1>3, <1>4, <1>5, <1>7

\* Either the contract declares its output or every column is there.
LEMMA DeclaredRows ==
    ASSUME NEW X \in Seq(AnyRow), NEW task, task.declared \in BOOLEAN,
           task.declared \/ \A n \in 1..Len(X) : DOMAIN X[n] = Columns
    PROVE  FillDeclared(X, task) = [n \in 1..Len(X) |-> Full(X[n])]
<1>1. DOMAIN X = 1..Len(X) /\ \A n \in 1..Len(X) : X[n] \in AnyRow
  OBVIOUS
<1>2. CASE task.declared
  <2>1. \A n \in 1..Len(X) : Fill(X[n], Columns) = Full(X[n])
    BY <1>1, FullFacts
  <2> QED BY <1>1, <1>2, <2>1 DEF FillDeclared, FillAll
<1>3. CASE ~task.declared
  <2>1. \A n \in 1..Len(X) : Full(X[n]) = X[n]
    BY <1>1, <1>3, FullFacts
  <2>2. X = [n \in 1..Len(X) |-> X[n]]
    OBVIOUS
  <2>3. X = [n \in 1..Len(X) |-> Full(X[n])]
    BY <2>1, <2>2
  <2> QED BY <1>3, <2>3 DEF FillDeclared
<1> QED BY <1>2, <1>3

\* The text of every value, and how Spark spells it.
LEMMA TextFacts ==
    /\ \A x : Text(x) = CASE x = "d" -> "d.iso" [] x = "e" -> "e.iso" [] x \in Missing -> "" [] OTHER -> x
    /\ \A x : Spelled(x) = CASE x = "d" -> "d.iso" [] x = "e" -> "e.iso" [] x = "nan" -> "NaN" [] OTHER -> x
    /\ \A x : x # "nan" => Text(Spelled(x)) = Text(x)
<1>1. DOMAIN Iso = {"d", "e"} /\ Iso["d"] = "d.iso" /\ Iso["e"] = "e.iso"
  BY DEF Iso
<1>2. \A x : Text(x) = CASE x = "d" -> "d.iso" [] x = "e" -> "e.iso" [] x \in Missing -> "" [] OTHER -> x
  BY <1>1 DEF Text, Missing
<1>3. \A x : Spelled(x) = CASE x = "d" -> "d.iso" [] x = "e" -> "e.iso" [] x = "nan" -> "NaN" [] OTHER -> x
  BY <1>1 DEF Spelled
<1>4. \A x : x # "nan" => Text(Spelled(x)) = Text(x)
  BY <1>2, <1>3 DEF Missing
<1> QED BY <1>2, <1>3, <1>4

\* What Spark prints of a row reads as the row.
LEMMA JsonRow ==
    ASSUME NEW r \in FullRow, \A c \in Columns : r[c] # "nan"
    PROVE  Json(r) \in AnyRow /\ \A c : Cell(Json(r), c) = Cell(r, c)
<1> DEFINE C == {c \in DOMAIN r : r[c] # "null"}
<1>1. DOMAIN r = Columns /\ \A c \in Columns : r[c] \in Texted
  BY DEF FullRow
<1>2. C \in SUBSET Columns /\ Json(r) = [c \in C |-> Spelled(r[c])]
  BY <1>1 DEF Json
<1>3. \A x \in Texted : Spelled(x) \in Texted
  BY TextAssumption DEF TextAssumption, Texted
<1>4. Json(r) \in [C -> Texted]
  BY <1>1, <1>2, <1>3
<1>5. \A x : x # "nan" => Text(Spelled(x)) = Text(x)
  BY TextFacts
<1>6. Text("null") = ""
  BY DEF Text, Missing
<1>7. ASSUME NEW c PROVE Cell(Json(r), c) = Cell(r, c)
  <2>1. CASE c \in C
    <3>1. c \in DOMAIN r /\ c \in DOMAIN Json(r) /\ Json(r)[c] = Spelled(r[c]) /\ r[c] # "nan"
      BY <1>1, <1>2, <2>1
    <3> QED BY <1>5, <3>1 DEF Cell, Raw
  <2>2. CASE c \notin C
    <3>1. c \notin DOMAIN Json(r) /\ (c \in DOMAIN r => r[c] = "null")
      BY <1>2, <2>2
    <3> QED BY <3>1 DEF Cell, Raw
  <2> QED BY <2>1, <2>2
<1> QED BY <1>2, <1>4, <1>7 DEF AnyRow

\* What is read back of Spark's output reads as the rows, NaN apart.
LEMMA ParsedRows ==
    ASSUME NEW P \in Seq(FullRow), \A i \in 1..Len(P), c \in Columns : P[i][c] # "nan"
    PROVE  /\ Parsed(P) \in Seq(AnyRow) /\ Len(Parsed(P)) = Len(P)
           /\ \A i \in 1..Len(P) : \A c : Cell(Parsed(P)[i], c) = Cell(P[i], c)
<1>1. Len(P) \in Nat /\ DOMAIN P = 1..Len(P) /\ \A i \in 1..Len(P) : P[i] \in FullRow
  OBVIOUS
<1>2. \A i \in 1..Len(P) : Json(P[i]) \in AnyRow /\ \A c : Cell(Json(P[i]), c) = Cell(P[i], c)
  BY <1>1, JsonRow
<1>3. Parsed(P) = [i \in 1..Len(P) |-> Json(P[i])]
  BY <1>1 DEF Parsed
<1>4. Parsed(P) \in [1..Len(P) -> AnyRow]
  BY <1>2, <1>3
<1>5. Parsed(P) \in Seq(AnyRow) /\ Len(Parsed(P)) = Len(P)
  BY <1>1, <1>4, LenProperties, SeqDef
<1> QED BY <1>2, <1>3, <1>5

\* Rows that read the same have the same key.
LEMMA SameKeys ==
    ASSUME NEW r, NEW s, NEW sortBy, \A c : Cell(r, c) = Cell(s, c)
    PROVE  TextKey(r, sortBy) = TextKey(s, sortBy) /\ TextPlace(r, sortBy) = TextPlace(s, sortBy)
<1>1. TextParts(r, sortBy) = TextParts(s, sortBy)
  BY DEF TextParts
<1> QED BY <1>1 DEF TextKey, TextPlace

\* The same rows, all of them collected, match.
LEMMA SameRowsMatch ==
    ASSUME NEW D \in Seq(FullRow), NEW P \in Seq(FullRow), NEW sortBy \in Seq(STRING), NEW types,
           Len(D) = Len(P), ToSet(D) = ToSet(P), \A i \in 1..Len(D), c \in Columns : D[i][c] # "nan"
    PROVE  Matches(D, Parsed(P), sortBy, types) /\ Parsed(P) \in Seq(AnyRow) /\ Len(Parsed(P)) = Len(P)
<1>1. {D[i] : i \in 1..Len(D)} = {P[j] : j \in 1..Len(P)}
  <2>1. DOMAIN D = 1..Len(D) /\ DOMAIN P = 1..Len(P)
    OBVIOUS
  <2> QED BY <2>1 DEF ToSet
<1>2. \A j \in 1..Len(P) : \E i \in 1..Len(D) : P[j] = D[i]
  BY <1>1
<1>3. \A i \in 1..Len(D) : \E j \in 1..Len(P) : P[j] = D[i]
  BY <1>1
<1>4. \A j \in 1..Len(P), c \in Columns : P[j][c] # "nan"
  BY <1>2
<1>5. /\ Parsed(P) \in Seq(AnyRow) /\ Len(Parsed(P)) = Len(P)
      /\ \A i \in 1..Len(P) : \A c : Cell(Parsed(P)[i], c) = Cell(P[i], c)
  BY <1>4, ParsedRows
<1>6. \A j \in 1..Len(P) : TextKey(Parsed(P)[j], sortBy) = TextKey(P[j], sortBy)
  BY <1>5, SameKeys
<1>7. \A i \in 1..Len(D) : \E j \in 1..Len(P) : TextKey(D[i], sortBy) = TextKey(Parsed(P)[j], sortBy)
  BY <1>3, <1>6
<1>8. \A i \in 1..Len(D), j \in 1..Len(P) : P[j] = D[i] => Taken(D[i], Parsed(P)[j], types)
  BY <1>5 DEF Taken, Equivalent
<1>9. \A j \in 1..Len(P) : \E i \in 1..Len(D) :
          TextKey(D[i], sortBy) = TextKey(Parsed(P)[j], sortBy) /\ Taken(D[i], Parsed(P)[j], types)
  BY <1>2, <1>6, <1>8
<1> QED BY <1>5, <1>7, <1>9 DEF Matches

\* A holds the rows of I, read as text.
Holds(A, rows, I) == /\ \A n \in 1..Len(A) : \E i \in I : \A c : At(A[n], c) = Cell(rows[i], c)
                     /\ \A i \in I : \E n \in 1..Len(A) : \A c : At(A[n], c) = Cell(rows[i], c)

\* The order of a canonical result whose places are unique is strict.
LEMMA CanonicalAscends ==
    ASSUME NEW rows \in Seq(AnyRow), NEW sortBy \in Seq(STRING), Len(sortBy) <= MaxKeys, PlacesUnique(rows, sortBy)
    PROVE  /\ Canonical(rows, sortBy) \in Seq(AnyRow) /\ Len(Canonical(rows, sortBy)) = Len(rows)
           /\ Ascends(Canonical(rows, sortBy), sortBy) /\ Holds(Canonical(rows, sortBy), rows, 1..Len(rows))
           /\ \A n \in 1..Len(Canonical(rows, sortBy)) : DOMAIN Canonical(rows, sortBy)[n] = Present(rows)
<1> DEFINE C == Canonical(rows, sortBy)
           L == 1..Len(rows)
<1>1. /\ C \in Seq(AnyRow) /\ Len(C) = Len(rows)
      /\ \A n \in L : DOMAIN C[n] = Present(rows)
  BY CanonicalRows
<1>2. PICK f \in [L -> L] :
          /\ \A i \in L : \E n \in L : f[n] = i
          /\ \A n \in L : \A c : At(C[n], c) = Cell(rows[f[n]], c)
          /\ \A m, n \in L : m < n =>
                 \/ TextPlace(rows[f[m]], sortBy) < TextPlace(rows[f[n]], sortBy)
                 \/ f[m] < f[n] /\ TextPlace(rows[f[m]], sortBy) = TextPlace(rows[f[n]], sortBy)
  BY CanonicalRows
<1> HIDE DEF C
<1>3. \A n \in L : f[n] \in L /\ SortPlace(C[n], sortBy) = TextPlace(rows[f[n]], sortBy)
  <2> TAKE n \in L
  <2>1. f[n] \in L /\ \A c : At(C[n], c) = Cell(rows[f[n]], c)
    BY <1>2
  <2> QED BY <2>1, RenderedKey
<1>4. ASSUME NEW m \in L, NEW n \in L, m < n PROVE SortPlace(C[m], sortBy) < SortPlace(C[n], sortBy)
  <2>1. f[m] \in L /\ f[n] \in L /\ Len(rows) \in Nat
    BY <1>3
  <2>2. TextPlace(rows[f[m]], sortBy) = TextPlace(rows[f[n]], sortBy) => f[m] = f[n]
    BY <2>1 DEF PlacesUnique
  <2>3. ~(f[m] < f[n] /\ f[m] = f[n])
    BY <2>1
  <2>4. TextPlace(rows[f[m]], sortBy) < TextPlace(rows[f[n]], sortBy)
    BY <1>2, <1>4, <2>2, <2>3
  <2> QED BY <1>3, <2>4
<1>5. Ascends(C, sortBy)
  BY <1>1, <1>4 DEF Ascends
<1>6. \A n \in L : \E i \in L : \A c : At(C[n], c) = Cell(rows[i], c)
  BY <1>2
<1>7. ASSUME NEW i \in L PROVE \E n \in L : \A c : At(C[n], c) = Cell(rows[i], c)
  <2>1. PICK n \in L : f[n] = i
    BY <1>2
  <2> QED BY <1>2, <2>1
<1>8. Holds(C, rows, L)
  BY <1>1, <1>6, <1>7 DEF Holds
<1> QED BY <1>1, <1>5, <1>8 DEF C

\* A holds the elements of rows at the places in S, in their order.
Picks(A, rows, S) ==
    /\ \A n \in 1..Len(A) : \E i \in S : A[n] = rows[i]
    /\ \A i \in S : \E n \in 1..Len(A) : A[n] = rows[i]
    /\ \A m, n \in 1..Len(A) : m < n => \E i, j \in S : i < j /\ A[m] = rows[i] /\ A[n] = rows[j]

\* The kept rows are rows of the result, those that were selected.
LEMMA KeptFacts ==
    ASSUME NEW X, NEW rows \in Seq(X), NEW S \in SUBSET DOMAIN rows
    PROVE  Kept(rows, S) \in Seq(X) /\ Picks(Kept(rows, S), rows, S)
<1>1. \A i \in S : rows[i] \in X
  OBVIOUS
<1>2. Cardinality(S) \in Nat
  BY KeptRows
<1>3. PICK f : Selection(f, S) /\ Kept(rows, S) = [n \in 1..Cardinality(S) |-> rows[f[n]]]
  BY KeptRows
<1>4. f \in [1..Cardinality(S) -> S]
  BY <1>3 DEF Selection
<1>5. Kept(rows, S) \in [1..Cardinality(S) -> X]
  BY <1>1, <1>3, <1>4
<1>6. Kept(rows, S) \in Seq(X) /\ Len(Kept(rows, S)) = Cardinality(S)
  BY <1>2, <1>5, LenProperties, SeqDef
<1>7. \A n \in 1..Cardinality(S) : f[n] \in S /\ Kept(rows, S)[n] = rows[f[n]]
  BY <1>3, <1>4
<1>8. \A i \in S : \E n \in 1..Cardinality(S) : Kept(rows, S)[n] = rows[i]
  <2> TAKE i \in S
  <2>1. PICK n \in 1..Cardinality(S) : f[n] = i
    BY <1>3 DEF Selection
  <2> QED BY <1>7, <2>1
<1>9. ASSUME NEW m \in 1..Cardinality(S), NEW n \in 1..Cardinality(S), m < n
      PROVE  \E i, j \in S : i < j /\ Kept(rows, S)[m] = rows[i] /\ Kept(rows, S)[n] = rows[j]
  <2>1. f[m] < f[n]
    BY <1>3, <1>9 DEF Selection
  <2> QED BY <1>7, <2>1
<1>10. Picks(Kept(rows, S), rows, S)
  <2>1. \A n \in 1..Len(Kept(rows, S)) : \E i \in S : Kept(rows, S)[n] = rows[i]
    BY <1>6, <1>7
  <2>2. \A i \in S : \E n \in 1..Len(Kept(rows, S)) : Kept(rows, S)[n] = rows[i]
    BY <1>6, <1>8
  <2>3. \A m, n \in 1..Len(Kept(rows, S)) : m < n =>
            \E i, j \in S : i < j /\ Kept(rows, S)[m] = rows[i] /\ Kept(rows, S)[n] = rows[j]
    BY <1>6, <1>9
  <2> QED BY <2>1, <2>2, <2>3 DEF Picks
<1> QED BY <1>6, <1>10

\* What Spark prints of a selection of the rows, and what is compared of it.
LEMMA SampledRows ==
    ASSUME NEW P \in Seq(FullRow), NEW sortBy \in Seq(STRING), Len(sortBy) <= MaxKeys, NEW J \in SUBSET DOMAIN P, PlacesUnique(P, sortBy),
           \A i \in 1..Len(P), c \in Columns : P[i][c] # "nan",
           NEW B, B = Canonical(Parsed(Kept(P, J)), sortBy)
    PROVE  /\ Parsed(Kept(P, J)) \in Seq(AnyRow) /\ B \in Seq(AnyRow) /\ Ascends(B, sortBy) /\ Holds(B, P, J)
           /\ \A n \in 1..Len(B) : DOMAIN B[n] = Present(Parsed(Kept(P, J)))
<1> DEFINE G == Kept(P, J)
           Q == Parsed(G)
<1>1. G \in Seq(FullRow) /\ Picks(G, P, J)
  BY KeptFacts
<1> HIDE DEF G
<1>2. \A n \in 1..Len(G), c \in Columns : G[n][c] # "nan"
  <2> TAKE n \in 1..Len(G), c \in Columns
  <2>1. PICK i \in J : G[n] = P[i]
    BY <1>1 DEF Picks
  <2>2. i \in 1..Len(P)
    OBVIOUS
  <2> QED BY <2>1, <2>2
<1>3. Q \in Seq(AnyRow) /\ Len(Q) = Len(G) /\ \A n \in 1..Len(G) : \A c : Cell(Q[n], c) = Cell(G[n], c)
  BY <1>1, <1>2, ParsedRows
<1> HIDE DEF Q
<1>4. \A n \in 1..Len(G) : TextPlace(Q[n], sortBy) = TextPlace(G[n], sortBy)
  BY <1>3, SameKeys
<1>5. Len(P) \in Nat /\ Len(G) \in Nat /\ DOMAIN P = 1..Len(P)
  BY <1>1
<1>6. \A m, n \in 1..Len(G) : m < n => TextPlace(G[m], sortBy) # TextPlace(G[n], sortBy)
  <2> SUFFICES ASSUME NEW m \in 1..Len(G), NEW n \in 1..Len(G), m < n PROVE TextPlace(G[m], sortBy) # TextPlace(G[n], sortBy)
    OBVIOUS
  <2>1. PICK i \in J, j \in J : i < j /\ G[m] = P[i] /\ G[n] = P[j]
    BY <1>1 DEF Picks
  <2>2. i \in 1..Len(P) /\ j \in 1..Len(P) /\ i # j
    BY <1>5, <2>1
  <2> QED BY <2>1, <2>2 DEF PlacesUnique
<1>7. PlacesUnique(Q, sortBy)
  <2> SUFFICES ASSUME NEW m \in 1..Len(G), NEW n \in 1..Len(G), m # n PROVE TextPlace(Q[m], sortBy) # TextPlace(Q[n], sortBy)
    BY <1>3 DEF PlacesUnique
  <2>1. m < n \/ n < m
    BY <1>5
  <2> QED BY <1>4, <1>6, <2>1
<1>8. B = Canonical(Q, sortBy)
  BY DEF Q, G
<1>9. /\ B \in Seq(AnyRow) /\ Len(B) = Len(Q) /\ Ascends(B, sortBy) /\ Holds(B, Q, 1..Len(Q))
      /\ \A n \in 1..Len(B) : DOMAIN B[n] = Present(Q)
  <2>1. Q \in Seq(AnyRow)
    BY <1>3
  <2> QED BY <1>7, <1>8, <2>1, CanonicalAscends
<1>10. ASSUME NEW n \in 1..Len(B) PROVE \E j \in J : \A c : At(B[n], c) = Cell(P[j], c)
  <2>1. PICK i \in 1..Len(Q) : \A c : At(B[n], c) = Cell(Q[i], c)
    BY <1>9 DEF Holds
  <2>2. i \in 1..Len(G)
    BY <1>3
  <2>3. PICK j \in J : G[i] = P[j]
    BY <1>1, <2>2 DEF Picks
  <2>4. \A c : At(B[n], c) = Cell(P[j], c)
    BY <1>3, <2>1, <2>2, <2>3
  <2> QED BY <2>4
<1>11. ASSUME NEW j \in J PROVE \E n \in 1..Len(B) : \A c : At(B[n], c) = Cell(P[j], c)
  <2>1. PICK i \in 1..Len(G) : G[i] = P[j]
    BY <1>1 DEF Picks
  <2>2. i \in 1..Len(Q)
    BY <1>3
  <2>3. PICK n \in 1..Len(B) : \A c : At(B[n], c) = Cell(Q[i], c)
    BY <1>9, <2>2 DEF Holds
  <2>4. \A c : At(B[n], c) = Cell(P[j], c)
    BY <1>3, <2>1, <2>3
  <2> QED BY <2>4
<1>12. Holds(B, P, J)
  BY <1>10, <1>11 DEF Holds
<1> QED BY <1>3, <1>9, <1>12 DEF Q, G

\* The rows of DuckDB that the comparison puts beside the sample.
Beside(D, sortBy, key, values) == Sharing(Canonical(D, sortBy), key, values)
Chosen(D, key, values) == {i \in 1..Len(D) : Cell(D[i], key) \in values}

\* The rows of DuckDB that are put beside a sample: in order, with every column,
\* those whose key reads as one of the printed values.
LEMMA SubsetRows ==
    ASSUME NEW D \in Seq(FullRow), NEW sortBy \in Seq(STRING), Len(sortBy) <= MaxKeys, PlacesUnique(D, sortBy), NEW key, NEW values,
           NEW A, A = Beside(D, sortBy, key, values)
    PROVE  /\ A \in Seq(AnyRow) /\ Ascends(A, sortBy) /\ \A n \in 1..Len(A) : DOMAIN A[n] = Columns
           /\ Holds(A, D, Chosen(D, key, values))
<1> DEFINE X == Canonical(D, sortBy)
           I == {i \in DOMAIN X : At(X[i], key) \in values}
           M == {i \in 1..Len(D) : Cell(D[i], key) \in values}
<1>1. D \in Seq(AnyRow)
  BY FullRows
<1>2. /\ X \in Seq(AnyRow) /\ Len(X) = Len(D) /\ Ascends(X, sortBy) /\ Holds(X, D, 1..Len(D))
      /\ \A n \in 1..Len(X) : DOMAIN X[n] = Present(D)
  BY <1>1, CanonicalAscends
<1>3. \A n \in 1..Len(X) : DOMAIN X[n] = Columns
  <2>1. \A i \in DOMAIN D : DOMAIN D[i] = Columns
    BY DEF FullRow
  <2>2. Present(D) = Columns \/ Len(D) = 0
    <3>1. DOMAIN D = 1..Len(D) /\ Len(D) \in Nat
      OBVIOUS
    <3>2. Len(D) # 0 => 1 \in DOMAIN D
      BY <3>1
    <3> QED BY <2>1, <3>2 DEF Present
  <2>3. \A n \in 1..Len(D) : Len(D) # 0
    OBVIOUS
  <2> QED BY <1>2, <2>2, <2>3
<1> HIDE DEF X
<1>4. I \in SUBSET DOMAIN X /\ DOMAIN X = 1..Len(X) /\ Len(X) = Len(D) /\ Len(D) \in Nat
  <2>1. X \in Seq(AnyRow) /\ Len(X) = Len(D) /\ Len(D) \in Nat
    BY <1>2
  <2>2. DOMAIN X = 1..Len(X)
    BY <2>1
  <2> QED BY <2>1, <2>2
<1>5. A = Kept(X, I)
  BY DEF X, Beside, Sharing
<1> HIDE DEF I
<1>6. A \in Seq(AnyRow) /\ Picks(A, X, I)
  BY <1>2, <1>4, <1>5, KeptFacts
<1>7. Ascends(A, sortBy)
  <2> SUFFICES ASSUME NEW m \in 1..Len(A), NEW n \in 1..Len(A), m < n PROVE SortPlace(A[m], sortBy) < SortPlace(A[n], sortBy)
    BY DEF Ascends
  <2>1. PICK i \in I, j \in I : i < j /\ A[m] = X[i] /\ A[n] = X[j]
    BY <1>6 DEF Picks
  <2>2. i \in 1..Len(X) /\ j \in 1..Len(X)
    BY <1>4
  <2> QED BY <1>2, <2>1, <2>2 DEF Ascends
<1>8. \A n \in 1..Len(A) : DOMAIN A[n] = Columns
  <2> TAKE n \in 1..Len(A)
  <2>1. PICK i \in I : A[n] = X[i]
    BY <1>6 DEF Picks
  <2> QED BY <1>3, <1>4, <2>1
<1>9. ASSUME NEW n \in 1..Len(A) PROVE \E i \in M : \A c : At(A[n], c) = Cell(D[i], c)
  <2>1. PICK m \in I : A[n] = X[m]
    BY <1>6 DEF Picks
  <2>2. m \in 1..Len(X) /\ At(X[m], key) \in values
    BY <1>4 DEF I
  <2>3. PICK i \in 1..Len(D) : \A c : At(X[m], c) = Cell(D[i], c)
    BY <1>2, <2>2 DEF Holds
  <2>4. i \in M
    BY <2>2, <2>3
  <2> QED BY <2>1, <2>3, <2>4
<1>10. ASSUME NEW i \in M PROVE \E n \in 1..Len(A) : \A c : At(A[n], c) = Cell(D[i], c)
  <2>1. i \in 1..Len(D) /\ Cell(D[i], key) \in values
    OBVIOUS
  <2>2. PICK m \in 1..Len(X) : \A c : At(X[m], c) = Cell(D[i], c)
    BY <1>2, <2>1 DEF Holds
  <2>3. m \in I
    BY <1>4, <2>1, <2>2 DEF I
  <2>4. PICK n \in 1..Len(A) : A[n] = X[m]
    BY <1>6, <2>3 DEF Picks
  <2> QED BY <2>2, <2>4
<1>11. Holds(A, D, M)
  BY <1>9, <1>10 DEF Holds
<1> QED BY <1>6, <1>7, <1>8, <1>11 DEF Chosen

\* Sequences of the same rows, or of no rows, are no mismatch.
LEMMA SampledVerdictFacts ==
    ASSUME NEW A, NEW B, NEW c, NEW types, A = B \/ A = <<>>
    PROVE  SampledVerdict(A, B, c, types) # "RESULT_MISMATCH"
<1>1. CASE A = <<>>
  BY <1>1 DEF SampledVerdict
<1>2. CASE A = B
  <2>1. \A r : ~Unlike(r, r, types)
    BY DEF Unlike, Equivalent
  <2>2. ~DiffersByPosition(A, A, types)
    BY <2>1 DEF DiffersByPosition
  <2> QED BY <1>2, <2>2 DEF SampledVerdict
<1> QED BY <1>1, <1>2

\* The rows of a sequence, with every column.
LEMMA FullSequence ==
    ASSUME NEW A \in Seq(AnyRow), NEW sortBy \in Seq(STRING), Len(sortBy) <= MaxKeys, Ascends(A, sortBy),
           NEW F, F = [n \in 1..Len(A) |-> Full(A[n])]
    PROVE  F \in Seq(AnyRow) /\ Len(F) = Len(A) /\ Ascends(F, sortBy)
<1>1. Len(A) \in Nat /\ \A n \in 1..Len(A) : A[n] \in AnyRow
  OBVIOUS
<1>2. \A n \in 1..Len(A) : Full(A[n]) \in FullRow /\ \A c : At(Full(A[n]), c) = At(A[n], c)
  BY <1>1, FullFacts
<1>3. \A n \in 1..Len(A) : Full(A[n]) \in AnyRow
  BY <1>2, FullRows
<1>4. F \in [1..Len(A) -> AnyRow]
  BY <1>3
<1>5. F \in Seq(AnyRow) /\ Len(F) = Len(A)
  BY <1>1, <1>4, LenProperties, SeqDef
<1>6. \A n \in 1..Len(A) : SortPlace(F[n], sortBy) = SortPlace(A[n], sortBy)
  <2> TAKE n \in 1..Len(A)
  <2>1. F[n] = Full(A[n])
    OBVIOUS
  <2> QED BY <1>2, <2>1 DEF SortPlace, Parts
<1>7. Ascends(F, sortBy)
  BY <1>5, <1>6 DEF Ascends
<1> QED BY <1>5, <1>7

\* Each of two results with the same rows has the rows of the other.
LEMMA SameElements ==
    ASSUME NEW X, NEW D \in Seq(X), NEW P \in Seq(X), ToSet(D) = ToSet(P)
    PROVE  /\ \A i \in 1..Len(D) : \E j \in 1..Len(P) : D[i] = P[j]
           /\ \A j \in 1..Len(P) : \E i \in 1..Len(D) : D[i] = P[j]
           /\ \A c : Distinct(P, c) = Distinct(D, c)
<1>1. DOMAIN D = 1..Len(D) /\ DOMAIN P = 1..Len(P)
  OBVIOUS
<1>2. {D[i] : i \in 1..Len(D)} = {P[j] : j \in 1..Len(P)}
  BY <1>1 DEF ToSet
<1>3. \A i \in 1..Len(D) : \E j \in 1..Len(P) : D[i] = P[j]
  BY <1>2
<1>4. \A j \in 1..Len(P) : \E i \in 1..Len(D) : D[i] = P[j]
  BY <1>2
<1>5. ASSUME NEW c PROVE Distinct(P, c) = Distinct(D, c)
  <2>1. \A x : x \in Distinct(D, c) => x \in Distinct(P, c)
    BY <1>1, <1>3 DEF Distinct
  <2>2. \A x : x \in Distinct(P, c) => x \in Distinct(D, c)
    BY <1>1, <1>4 DEF Distinct
  <2> QED BY <2>1, <2>2
<1> QED BY <1>3, <1>4, <1>5

Filled(A) == [n \in 1..Len(A) |-> Full(A[n])]
Sought(D, k, V) == {i \in 1..Len(D) : D[i][k] \in V}
Both(D, P, M, J) == (\A i \in M : \E j \in J : D[i] = P[j]) /\ (\A j \in J : \E i \in M : D[i] = P[j])

\* Two ascending results that hold the same rows are the same when filled.
LEMMA SampleOrder ==
    ASSUME NEW sortBy \in Seq(STRING), Len(sortBy) <= MaxKeys, NEW A \in Seq(AnyRow), NEW B \in Seq(AnyRow), Ascends(A, sortBy), Ascends(B, sortBy),
           NEW D, NEW P, NEW M, NEW J, Holds(A, D, M), Holds(B, P, J),
           Both(D, P, M, J),
           NEW FA, FA = Filled(A), NEW FB, FB = Filled(B)
    PROVE  FA = FB
<1>0. FA = [n \in 1..Len(A) |-> Full(A[n])] /\ FB = [n \in 1..Len(B) |-> Full(B[n])]
  BY DEF Filled
<1>1. FA \in Seq(AnyRow) /\ Len(FA) = Len(A) /\ Ascends(FA, sortBy)
  BY <1>0, FullSequence
<1>2. FB \in Seq(AnyRow) /\ Len(FB) = Len(B) /\ Ascends(FB, sortBy)
  BY <1>0, FullSequence
<1>3. \A n \in 1..Len(A) : FA[n] = Full(A[n])
  BY <1>0
<1>4. \A n \in 1..Len(B) : FB[n] = Full(B[n])
  BY <1>0
<1>5. \A n \in 1..Len(FA) : \E m \in 1..Len(FB) : FA[n] = FB[m]
  <2> TAKE n \in 1..Len(FA)
  <2>1. n \in 1..Len(A)
    BY <1>1
  <2>2. PICK i \in M : \A c : At(A[n], c) = Cell(D[i], c)
    BY <2>1 DEF Holds
  <2>3. PICK j \in J : D[i] = P[j]
    BY DEF Both
  <2>4. PICK m \in 1..Len(B) : \A c : At(B[m], c) = Cell(P[j], c)
    BY DEF Holds
  <2>5. Full(A[n]) = Full(B[m])
    BY <2>2, <2>3, <2>4 DEF Full
  <2> QED BY <1>2, <1>3, <1>4, <2>1, <2>4, <2>5
<1>6. \A m \in 1..Len(FB) : \E n \in 1..Len(FA) : FA[n] = FB[m]
  <2> TAKE m \in 1..Len(FB)
  <2>1. m \in 1..Len(B)
    BY <1>2
  <2>2. PICK j \in J : \A c : At(B[m], c) = Cell(P[j], c)
    BY <2>1 DEF Holds
  <2>3. PICK i \in M : D[i] = P[j]
    BY DEF Both
  <2>4. PICK n \in 1..Len(A) : \A c : At(A[n], c) = Cell(D[i], c)
    BY DEF Holds
  <2>5. Full(A[n]) = Full(B[m])
    BY <2>2, <2>3, <2>4 DEF Full
  <2> QED BY <1>1, <1>3, <1>4, <2>1, <2>4, <2>5
<1> QED BY <1>1, <1>2, <1>5, <1>6, SameOrder

\* No other value reads as what str() makes of a whole number.
LEMMA TextIsFloat == ASSUME NEW x, Text(x) = "float" PROVE x = "float"
<1>1. Iso = [d |-> "d.iso", e |-> "e.iso"] /\ DOMAIN Iso = {"d", "e"} /\ Iso["d"] # "float" /\ Iso["e"] # "float"
  BY DEF Iso
<1>2. x \in DOMAIN Iso => Iso[x] # "float"
  BY <1>1
<1>3. "" # "float"
  BY Zenon
<1> QED BY <1>2, <1>3, Zenon DEF Text

\* The printed values find the rows of the sampled values, or no row at all.
PrintedOf(V, type) == {Printed(x, type) : x \in V}
Told(D, V, k, type) ==
    \A x \in V : /\ \A y \in Distinct(D, k) : Text(x) = Text(y) => x = y
                 /\ \A y \in V : (Printed(x, type) = Text(x)) <=> (Printed(y, type) = Text(y))

\* Where the printed values can be told apart, the rows they choose are those of
\* the sample, or none.
LEMMA SampleChoice ==
    ASSUME NEW D \in Seq(FullRow), Plain(D), NEW k \in Columns, NEW V \in SUBSET Distinct(D, k), NEW type,
           Told(D, V, k, type)
    PROVE  Chosen(D, k, PrintedOf(V, type)) = Sought(D, k, V) \/ Chosen(D, k, PrintedOf(V, type)) = {}
<1> DEFINE values == PrintedOf(V, type)
           M == Chosen(D, k, values)
<1>0. /\ values = {Printed(x, type) : x \in V}
      /\ \A x \in V : /\ \A y \in Distinct(D, k) : Text(x) = Text(y) => x = y
                      /\ \A y \in V : (Printed(x, type) = Text(x)) <=> (Printed(y, type) = Text(y))
  BY DEF PrintedOf, Told
<1>1. \A i \in 1..Len(D) : D[i] \in FullRow /\ i \in DOMAIN D
  OBVIOUS
<1>2. \A i \in 1..Len(D) : D[i][k] \in Distinct(D, k) /\ Cell(D[i], k) = Text(D[i][k]) /\ Text(D[i][k]) # "float"
  <2> TAKE i \in 1..Len(D)
  <2>1. DOMAIN D[i] = Columns
    BY <1>1 DEF FullRow
  <2>2. Cell(D[i], k) = Text(D[i][k])
    BY <2>1 DEF Cell, Raw
  <2>3. D[i][k] # "float"
    BY Zenon DEF Plain
  <2>4. Text(D[i][k]) # "float"
    BY <2>3, TextIsFloat
  <2> QED BY <1>1, <2>2, <2>4 DEF Distinct
<1>3. CASE \A x \in V : Printed(x, type) = Text(x)
  <2>1. ASSUME NEW i \in 1..Len(D) PROVE Cell(D[i], k) \in values <=> D[i][k] \in V
    <3>1. Text(D[i][k]) \in values <=> \E x \in V : Printed(x, type) = Text(D[i][k])
      BY <1>0, Zenon
    <3>2. (\E x \in V : Printed(x, type) = Text(D[i][k])) <=> \E x \in V : Text(x) = Text(D[i][k])
      BY <1>3
    <3>3. (\E x \in V : Text(x) = Text(D[i][k])) => D[i][k] \in V
      BY <1>0, <1>2
    <3>4. D[i][k] \in V => \E x \in V : Text(x) = Text(D[i][k])
      OBVIOUS
    <3> QED BY <1>2, <3>1, <3>2, <3>3, <3>4
  <2> QED BY <2>1 DEF Chosen, Sought
<1>4. CASE ~\A x \in V : Printed(x, type) = Text(x)
  <2>1. \A x \in V : Printed(x, type) # Text(x)
    BY <1>0, <1>4
  <2>2. \A x \in V : Printed(x, type) = "float"
    BY <2>1 DEF Printed
  <2>3. \A y \in values : y = "float"
    BY <1>0, <2>2
  <2> QED BY <1>2, <2>3 DEF Chosen
<1> QED BY <1>3, <1>4

\* A sample is taken of a result whose rows are those of D: every column has
\* a value in it or is declared, and the printed values tell its rows apart.
Sampled(D, P, sortBy, task, shown) ==
    /\ sortBy # <<>> /\ sortBy[1] \in Columns /\ task.declared \in BOOLEAN
    /\ shown.rows = Parsed(Group(P, sortBy)) /\ shown.canonical = Canonical(shown.rows, sortBy) /\ shown.total = Len(P)
    /\ shown.values = PrintedOf(DimValues(P, sortBy[1]), task.types[sortBy[1]])
    /\ task.declared \/ Present(shown.rows) = Columns
    /\ Told(D, DimValues(D, sortBy[1]), sortBy[1], task.types[sortBy[1]])

\* Such a sample is not reported as different.
LEMMA SampleAgrees ==
    ASSUME NEW D \in Seq(FullRow), NEW P \in Seq(FullRow), Plain(D), NEW sortBy \in Seq(STRING), Len(sortBy) <= MaxKeys, PlacesUnique(D, sortBy),
           Len(D) = Len(P), ToSet(D) = ToSet(P), NEW task, NEW shown, Sampled(D, P, sortBy, task, shown)
    PROVE  Degraded(Canonical(D, sortBy), shown, sortBy, task) # "RESULT_MISMATCH"
<1>1. PICK k \in Columns : k = sortBy[1]
  BY DEF Sampled
<1>2. PICK V : V = DimValues(D, k)
  OBVIOUS
<1>3. PICK J : J = Sought(P, k, V)
  OBVIOUS
<1>4. PICK M : M = Chosen(D, k, shown.values)
  OBVIOUS
<1>5. PICK A : A = Beside(D, sortBy, k, shown.values)
  OBVIOUS
<1>6. PICK FA : FA = Filled(A)
  OBVIOUS
<1>7. PICK B : B = Canonical(shown.rows, sortBy)
  OBVIOUS
<1>8. PICK FB : FB = Filled(B)
  OBVIOUS
<1>9. PICK S : S = Canonical(Parsed(Kept(P, J)), sortBy)
  OBVIOUS
<1>10. /\ \A i \in 1..Len(D) : \E j \in 1..Len(P) : D[i] = P[j]
       /\ \A j \in 1..Len(P) : \E i \in 1..Len(D) : D[i] = P[j]
       /\ \A c : Distinct(P, c) = Distinct(D, c)
  BY SameElements
<1>11. DimValues(P, k) = V /\ V \in SUBSET Distinct(D, k)
  <2>1. Distinct(P, k) = Distinct(D, k)
    BY <1>10
  <2>2. DimValues(P, k) = DimValues(D, k)
    BY <2>1, Zenon DEF DimValues
  <2>3. DimValues(D, k) \in SUBSET Distinct(D, k)
    BY Zenon DEF DimValues
  <2> QED BY <1>2, <2>2, <2>3
<1>12. PlacesUnique(P, sortBy)
  BY SameRowsApart
<1>13. \A j \in 1..Len(P), c \in Columns : P[j][c] # "nan"
  <2> TAKE j \in 1..Len(P), c \in Columns
  <2>1. PICK i \in 1..Len(D) : D[i] = P[j]
    BY <1>10
  <2>2. D[i][c] # "nan"
    BY Zenon DEF Plain
  <2> QED BY <2>1, <2>2
<1>14. shown.rows = Parsed(Kept(P, J)) /\ B = S
  <2>1. DOMAIN P = 1..Len(P)
    OBVIOUS
  <2>2. sortBy # <<>> /\ shown.rows = Parsed(Group(P, sortBy))
    BY DEF Sampled
  <2>3. Group(P, sortBy) = Kept(P, J)
    BY <1>1, <1>3, <1>11, <2>1, <2>2 DEF Group, Dim, Sought
  <2> QED BY <1>7, <1>9, <2>2, <2>3
<1>15. /\ Parsed(Kept(P, J)) \in Seq(AnyRow) /\ S \in Seq(AnyRow) /\ Ascends(S, sortBy) /\ Holds(S, P, J)
       /\ \A n \in 1..Len(S) : DOMAIN S[n] = Present(Parsed(Kept(P, J)))
  <2>1. J \in SUBSET DOMAIN P
    BY <1>3 DEF Sought
  <2> QED BY <1>9, <1>12, <1>13, <2>1, SampledRows
<1>16. /\ B \in Seq(AnyRow) /\ Ascends(B, sortBy) /\ Holds(B, P, J)
       /\ \A n \in 1..Len(B) : DOMAIN B[n] = Present(shown.rows)
  BY <1>14, <1>15
<1>17. /\ A \in Seq(AnyRow) /\ Ascends(A, sortBy) /\ \A n \in 1..Len(A) : DOMAIN A[n] = Columns
       /\ Holds(A, D, M)
  BY <1>4, <1>5, SubsetRows
<1>18. FillDeclared(A, task) = FA
  <2>1. task.declared \in BOOLEAN
    BY DEF Sampled
  <2> QED BY <1>6, <1>17, <2>1, DeclaredRows DEF Filled
<1>19. FillDeclared(B, task) = FB
  <2>1. task.declared \in BOOLEAN /\ (task.declared \/ Present(shown.rows) = Columns)
    BY DEF Sampled
  <2> QED BY <1>8, <1>16, <2>1, DeclaredRows DEF Filled
<1>20. M = Sought(D, k, V) \/ M = {}
  <2>1. shown.values = PrintedOf(V, task.types[k])
    BY <1>1, <1>11 DEF Sampled
  <2>2. Told(D, V, k, task.types[k])
    BY <1>1, <1>2 DEF Sampled
  <2>3. Chosen(D, k, PrintedOf(V, task.types[k])) = Sought(D, k, V) \/ Chosen(D, k, PrintedOf(V, task.types[k])) = {}
    BY <1>11, <2>2, SampleChoice, Zenon
  <2> QED BY <1>4, <2>1, <2>3, Zenon
<1>21. FA = FB \/ FA = <<>>
  <2>1. ASSUME M = Sought(D, k, V) PROVE FA = FB
    <3>1. \A i \in M : \E j \in J : D[i] = P[j]
      BY <1>3, <1>10, <2>1 DEF Sought
    <3>2. \A j \in J : \E i \in M : D[i] = P[j]
      BY <1>3, <1>10, <2>1 DEF Sought
    <3>3. Both(D, P, M, J)
      BY <3>1, <3>2 DEF Both
    <3> QED BY <1>6, <1>8, <1>16, <1>17, <3>3, SampleOrder, ZenonT(60)
  <2>2. ASSUME M = {} PROVE FA = <<>>
    <3>1. 1..Len(A) = {}
      BY <1>17, <2>2 DEF Holds
    <3>2. A = <<>>
      <4>1. Len(A) \in Nat
        BY <1>17
      <4> QED BY <1>17, <3>1, <4>1, EmptySeq
    <3> QED BY <1>6, <3>2 DEF Filled
  <2> QED BY <1>20, <2>1, <2>2, Zenon
<1>22. SampledVerdict(FA, FB, k, task.types) # "RESULT_MISMATCH"
  BY <1>21, SampledVerdictFacts
<1>23. Len(Canonical(D, sortBy)) = Len(D)
  <2>1. D \in Seq(AnyRow)
    BY FullRows
  <2> QED BY <2>1, CanonicalRows
<1>24. Degraded(Canonical(D, sortBy), shown, sortBy, task)
         = IF shown.rows = <<>> THEN "NOT_EXECUTED" ELSE SampledVerdict(FillDeclared(A, task), FillDeclared(B, task), k, task.types)
  <2>1. shown.canonical = B /\ sortBy # <<>>
    BY <1>7 DEF Sampled
  <2>2. shown.total = Len(Canonical(D, sortBy))
    BY <1>23 DEF Sampled
  <2> QED BY <1>1, <1>5, <2>1, <2>2 DEF Degraded, Beside
<1> QED BY <1>18, <1>19, <1>22, <1>24

---------------------------------------------------------------------------
(* Directories, engines and runs.                                            *)

Reading == {"duckdb", "launch", "spark", "compare"}
Content == {"none"} \cup {job[r].filter : r \in Run}

Types ==
    /\ job \in Assignments
    /\ pc \in [Run -> Reading \cup {"snapshot", "copy", "done"}]
    /\ held \in [Run -> BOOLEAN] /\ touched \in [Run -> BOOLEAN]
    /\ todo \in [Run -> Seq(ToSet(Files))]
    /\ dirs \in [Ids -> [ToSet(Files) -> Content]]

\* A run that reads has a manifest, one that copies has none yet; and unless
\* somebody else touched it, the directory holds the rows of the run, or, as
\* long as the run copies, those of the tables it has been through.
Owns(r) ==
    /\ pc[r] = "copy" => ~held[r]
    /\ pc[r] \in Reading => held[r]
    /\ ~touched[r] /\ held[r] => \A f \in ToSet(Files) : dirs[job[r].contract][f] = job[r].filter
    /\ ~touched[r] /\ pc[r] = "copy" =>
           \A f \in ToSet(Files) : f \in ToSet(todo[r]) \/ dirs[job[r].contract][f] = job[r].filter

Inv == Types /\ \A r \in Run : Owns(r)

\* The files are the tables and the index.
LEMMA FilesType == Files \in Seq(ToSet(Files)) /\ ToSet(<<>>) = {}
<1>1. Tables \in Seq(ToSet(Tables) \cup {"index"})
  BY JobAssumption, SeqDef DEF JobAssumption
<1>2. <<"index">> \in Seq(ToSet(Tables) \cup {"index"})
  OBVIOUS
<1>3. Files \in Seq(ToSet(Tables) \cup {"index"})
  BY <1>1, <1>2, ConcatProperties DEF Files
<1>4. Files \in Seq(ToSet(Files))
  BY <1>3 DEF ToSet
<1> QED BY <1>4 DEF ToSet

\* What is copied first and what remains.
LEMMA TailElements ==
    ASSUME NEW S, NEW s \in Seq(S), s # <<>>
    PROVE  /\ Head(s) \in S /\ Tail(s) \in Seq(S)
           /\ \A x \in ToSet(s) : x = Head(s) \/ x \in ToSet(Tail(s))
<1>1. /\ Head(s) = s[1] /\ Head(s) \in S /\ Tail(s) \in Seq(S) /\ Len(Tail(s)) = Len(s) - 1
      /\ \A i \in 1..Len(Tail(s)) : Tail(s)[i] = s[i + 1]
  BY HeadTailProperties
<1>2. ASSUME NEW i \in 1..Len(s), i # 1 PROVE s[i] \in ToSet(Tail(s))
  <2>1. i - 1 \in 1..Len(Tail(s)) /\ (i - 1) + 1 = i
    BY <1>1, <1>2
  <2>2. s[i] = Tail(s)[i - 1] /\ i - 1 \in DOMAIN Tail(s)
    BY <1>1, <2>1
  <2> QED BY <2>2 DEF ToSet
<1> QED BY <1>1, <1>2 DEF ToSet

\* The directory of a run holds rows of known origin.
LEMMA JobFacts ==
    ASSUME Types, NEW r \in Run
    PROVE  job[r].contract \in Ids /\ job[r].filter \in Content /\ dirs[job[r].contract] \in [ToSet(Files) -> Content]
BY JobAssumption DEF JobAssumption, Types, Content

\* A run that brings a manifest along finds its own rows.
LEMMA InitOK == Init => Inv
<1> SUFFICES ASSUME Init PROVE Inv
  OBVIOUS
<1> DEFINE Held(i) == {r \in Run : job[r].held /\ job[r].contract = i}
           First(i) == CHOOSE r \in Run : job[r].held /\ job[r].contract = i
<1>1. /\ job \in Assignments
      /\ pc = [r \in Run |-> IF job[r].active THEN "snapshot" ELSE "done"]
      /\ held = [r \in Run |-> job[r].held]
      /\ todo = [r \in Run |-> <<>>] /\ touched = [r \in Run |-> FALSE]
      /\ dirs = [i \in Ids |-> IF \E r \in Run : job[r].held /\ job[r].contract = i
                               THEN [f \in ToSet(Files) |-> job[First(i)].filter] ELSE NoFiles]
  BY DEF Init
<1>2. \A i : (\E r \in Run : job[r].held /\ job[r].contract = i) =>
             First(i) \in Run /\ job[First(i)].held /\ job[First(i)].contract = i
  OBVIOUS
<1> HIDE DEF First
<1>3. dirs \in [Ids -> [ToSet(Files) -> Content]]
  BY <1>1, <1>2 DEF Content, NoFiles
<1>4. \A r \in Run : job[r].held \in BOOLEAN /\ job[r].contract \in Ids
  BY <1>1, JobAssumption DEF JobAssumption
<1>5. Types
  BY <1>1, <1>3, <1>4 DEF Types
<1>6. ASSUME NEW r \in Run, held[r], NEW f \in ToSet(Files) PROVE dirs[job[r].contract][f] = job[r].filter
  <2>1. job[r].held
    BY <1>1, <1>6
  <2>2. First(job[r].contract) \in Run /\ job[First(job[r].contract)].held
        /\ job[First(job[r].contract)].contract = job[r].contract
    BY <1>2, <2>1
  <2>3. job[First(job[r].contract)].filter = job[r].filter
    BY <1>1, <2>1, <2>2, JobAssumption DEF JobAssumption
  <2> QED BY <1>1, <1>4, <2>1, <2>3
<1>7. \A r \in Run : pc[r] \notin Reading \cup {"copy"}
  BY <1>1 DEF Reading
<1> QED BY <1>5, <1>6, <1>7 DEF Inv, Owns

\* Steps that only move a run on.
LEMMA Quiet ==
    ASSUME Inv, NEW r \in Run, NEW w \in Reading \cup {"snapshot", "done"},
           w \in Reading => held[r],
           pc' = [pc EXCEPT ![r] = w], UNCHANGED <<job, held, todo, dirs, touched>>
    PROVE  Inv'
<1>1. Types'
  BY DEF Inv, Types, Content
<1>2. w # "copy"
  BY DEF Reading
<1>3. ASSUME NEW x \in Run PROVE Owns(x)'
  <2>1. Owns(x) /\ pc'[x] = (IF x = r THEN w ELSE pc[x])
    BY DEF Inv, Types
  <2> QED BY <1>2, <2>1 DEF Owns
<1> QED BY <1>1, <1>3 DEF Inv

\* What a step of one run leaves to another whose directory it has not
\* touched.
LEMMA Undisturbed ==
    ASSUME Inv, NEW x \in Run, ~touched'[x] => ~touched[x] /\ dirs'[job[x].contract] = dirs[job[x].contract],
           pc'[x] = pc[x], held'[x] = held[x], todo'[x] = todo[x], job' = job
    PROVE  Owns(x)'
BY DEF Inv, Owns

\* The directory is the run's own, and empty, when it has been made again.
LEMMA ClearStep == ASSUME Inv, NEW r \in Run, Clear(r) PROVE Inv'
<1> DEFINE c == job[r].contract
<1>1. /\ pc[r] = "snapshot" /\ ~held[r] /\ dirs' = [dirs EXCEPT ![c] = NoFiles]
      /\ todo' = [todo EXCEPT ![r] = Files] /\ pc' = [pc EXCEPT ![r] = "copy"]
      /\ touched' = [x \in Run |-> x # r /\ (touched[x] \/ job[x].contract = c)]
      /\ UNCHANGED <<job, held>>
  BY DEF Clear, Go
<1>2. Types /\ c \in Ids
  BY JobFacts DEF Inv
<1> HIDE DEF c
<1>3. NoFiles \in [ToSet(Files) -> Content]
  BY DEF NoFiles, Content
<1>4. Types'
  <2>1. dirs' \in [Ids -> [ToSet(Files) -> Content]]
    BY <1>1, <1>2, <1>3 DEF Types
  <2>2. todo' \in [Run -> Seq(ToSet(Files))]
    BY <1>1, <1>2, FilesType DEF Types
  <2>3. touched' \in [Run -> BOOLEAN] /\ pc' \in [Run -> Reading \cup {"snapshot", "copy", "done"}]
    BY <1>1, <1>2 DEF Types
  <2> QED BY <1>1, <1>2, <2>1, <2>2, <2>3 DEF Types, Content
<1>5. Owns(r)'
  <2>1. pc'[r] = "copy" /\ todo'[r] = Files /\ ~held'[r]
    BY <1>1, <1>2 DEF Types
  <2> QED BY <2>1 DEF Owns, Reading
<1>6. ASSUME NEW x \in Run, x # r PROVE Owns(x)'
  <2>1. pc'[x] = pc[x] /\ held'[x] = held[x] /\ todo'[x] = todo[x] /\ job' = job
    BY <1>1, <1>2, <1>6 DEF Types
  <2>2. ~touched'[x] => ~touched[x] /\ dirs'[job[x].contract] = dirs[job[x].contract]
    BY <1>1, <1>2, <1>6, JobFacts DEF Types
  <2> QED BY <2>1, <2>2, Undisturbed
<1> QED BY <1>4, <1>5, <1>6 DEF Inv

\* A file that was copied holds the rows of the run.
LEMMA CopyStep == ASSUME Inv, NEW r \in Run, Copy(r) PROVE Inv'
<1> DEFINE c == job[r].contract
           h == Head(todo[r])
<1>1. /\ pc[r] = "copy" /\ todo[r] # <<>> /\ dirs' = [dirs EXCEPT ![c][h] = job[r].filter]
      /\ todo' = [todo EXCEPT ![r] = Tail(@)]
      /\ touched' = [x \in Run |-> touched[x] \/ (x # r /\ job[x].contract \in {c})]
      /\ UNCHANGED <<job, pc, held>>
  BY DEF Copy, Disturb
<1>2. Types /\ c \in Ids /\ job[r].filter \in Content
  BY JobFacts DEF Inv
<1>3. /\ todo[r] \in Seq(ToSet(Files)) /\ h \in ToSet(Files) /\ Tail(todo[r]) \in Seq(ToSet(Files))
      /\ \A f \in ToSet(todo[r]) : f = h \/ f \in ToSet(Tail(todo[r]))
  <2>1. todo[r] \in Seq(ToSet(Files))
    BY <1>2 DEF Types
  <2> QED BY <1>1, <2>1, TailElements
<1> HIDE DEF c, h
<1>4. Types'
  <2>1. dirs' \in [Ids -> [ToSet(Files) -> Content]]
    BY <1>1, <1>2, <1>3 DEF Types
  <2>2. todo' \in [Run -> Seq(ToSet(Files))]
    BY <1>1, <1>2, <1>3 DEF Types
  <2>3. touched' \in [Run -> BOOLEAN]
    BY <1>1, <1>2 DEF Types
  <2> QED BY <1>1, <1>2, <2>1, <2>2, <2>3 DEF Types, Content
<1>5. Owns(r)'
  <2>1. ~held'[r] /\ pc'[r] = "copy" /\ (touched'[r] <=> touched[r]) /\ todo'[r] = Tail(todo[r])
    BY <1>1, <1>2 DEF Types, Inv, Owns
  <2>2. \A f \in ToSet(Files) : dirs'[c][f] = IF f = h THEN job[r].filter ELSE dirs[c][f]
    BY <1>1, <1>2, <1>3 DEF Types
  <2>3. ~touched[r] => \A f \in ToSet(Files) : f \in ToSet(todo[r]) \/ dirs[c][f] = job[r].filter
    BY <1>1 DEF Inv, Owns, c
  <2>4. ~touched'[r] => \A f \in ToSet(Files) : f \in ToSet(todo'[r]) \/ dirs'[c][f] = job[r].filter
    BY <1>3, <2>1, <2>2, <2>3
  <2> QED BY <1>1, <2>1, <2>4 DEF Owns, Reading, c
<1>6. ASSUME NEW x \in Run, x # r PROVE Owns(x)'
  <2>1. pc'[x] = pc[x] /\ held'[x] = held[x] /\ todo'[x] = todo[x] /\ job' = job
    BY <1>1, <1>2, <1>6 DEF Types
  <2>2. ~touched'[x] => ~touched[x] /\ dirs'[job[x].contract] = dirs[job[x].contract]
    BY <1>1, <1>2, <1>6, JobFacts DEF Types
  <2> QED BY <2>1, <2>2, Undisturbed
<1> QED BY <1>4, <1>5, <1>6 DEF Inv

\* A directory that is taken away is taken from others, who are told.
LEMMA AbandonStep == ASSUME Inv, NEW r \in Run, Abandon(r) PROVE Inv'
<1> DEFINE c == job[r].contract
<1>1. /\ pc[r] = "copy" /\ dirs' = [dirs EXCEPT ![c] = NoFiles] /\ pc' = [pc EXCEPT ![r] = "done"]
      /\ touched' = [x \in Run |-> touched[x] \/ (x # r /\ job[x].contract \in {c})]
      /\ UNCHANGED <<job, held, todo>>
  BY DEF Abandon, Disturb, Go
<1>2. Types /\ c \in Ids
  BY JobFacts DEF Inv
<1> HIDE DEF c
<1>3. NoFiles \in [ToSet(Files) -> Content]
  BY DEF NoFiles, Content
<1>4. Types'
  <2>1. dirs' \in [Ids -> [ToSet(Files) -> Content]]
    BY <1>1, <1>2, <1>3 DEF Types
  <2>2. touched' \in [Run -> BOOLEAN] /\ pc' \in [Run -> Reading \cup {"snapshot", "copy", "done"}]
    BY <1>1, <1>2 DEF Types
  <2> QED BY <1>1, <1>2, <2>1, <2>2 DEF Types, Content
<1>5. Owns(r)'
  <2>1. ~held'[r] /\ pc'[r] = "done"
    BY <1>1, <1>2 DEF Types, Inv, Owns
  <2> QED BY <2>1 DEF Owns, Reading
<1>6. ASSUME NEW x \in Run, x # r PROVE Owns(x)'
  <2>1. pc'[x] = pc[x] /\ held'[x] = held[x] /\ todo'[x] = todo[x] /\ job' = job
    BY <1>1, <1>2, <1>6 DEF Types
  <2>2. ~touched'[x] => ~touched[x] /\ dirs'[job[x].contract] = dirs[job[x].contract]
    BY <1>1, <1>2, <1>6, JobFacts DEF Types
  <2> QED BY <2>1, <2>2, Undisturbed
<1> QED BY <1>4, <1>5, <1>6 DEF Inv

\* A builder never prunes its own directory.
LEMMA PruneStep == ASSUME Inv, NEW r \in Run, Prune(r) PROVE Inv'
<1> DEFINE c == job[r].contract
           gone == Pruned(c)
<1>1. /\ pc[r] = "copy" /\ todo[r] = <<>>
      /\ dirs' = [i \in Ids |-> IF i \in gone THEN NoFiles ELSE dirs[i]]
      /\ touched' = [x \in Run |-> touched[x] \/ (x # r /\ job[x].contract \in gone)]
      /\ held' = [held EXCEPT ![r] = TRUE] /\ pc' = [pc EXCEPT ![r] = "duckdb"]
      /\ UNCHANGED <<job, todo>>
  BY DEF Prune, Disturb, Go
<1>2. Types /\ c \in Ids /\ c \notin gone
  BY JobFacts DEF Inv, Pruned, Others
<1> HIDE DEF c, gone
<1>3. NoFiles \in [ToSet(Files) -> Content]
  BY DEF NoFiles, Content
<1>4. Types'
  <2>1. dirs' \in [Ids -> [ToSet(Files) -> Content]]
    BY <1>1, <1>2, <1>3 DEF Types
  <2>2. touched' \in [Run -> BOOLEAN] /\ held' \in [Run -> BOOLEAN]
    BY <1>1, <1>2 DEF Types
  <2>3. pc' \in [Run -> Reading \cup {"snapshot", "copy", "done"}]
    BY <1>1, <1>2 DEF Types, Reading
  <2> QED BY <1>1, <1>2, <2>1, <2>2, <2>3 DEF Types, Content
<1>5. Owns(r)'
  <2>1. held'[r] /\ pc'[r] = "duckdb" /\ (touched'[r] <=> touched[r]) /\ dirs'[c] = dirs[c]
    BY <1>1, <1>2 DEF Types
  <2>2. ~touched[r] => \A f \in ToSet(Files) : f \in ToSet(todo[r]) \/ dirs[c][f] = job[r].filter
    BY <1>1 DEF Inv, Owns, c
  <2>3. ~touched[r] => \A f \in ToSet(Files) : dirs[c][f] = job[r].filter
    BY <1>1, <2>2, FilesType
  <2> QED BY <1>1, <2>1, <2>3 DEF Owns, c
<1>6. ASSUME NEW x \in Run, x # r PROVE Owns(x)'
  <2>1. pc'[x] = pc[x] /\ held'[x] = held[x] /\ todo'[x] = todo[x] /\ job' = job
    BY <1>1, <1>2, <1>6 DEF Types
  <2>2. ~touched'[x] => ~touched[x] /\ dirs'[job[x].contract] = dirs[job[x].contract]
    BY <1>1, <1>2, <1>6, JobFacts DEF Types
  <2> QED BY <2>1, <2>2, Undisturbed
<1> QED BY <1>4, <1>5, <1>6 DEF Inv

\* The steps of the engines and of the comparison touch no directory.
LEMMA EngineStep ==
    ASSUME Inv, NEW r \in Run,
           Unsupported(r) \/ DuckDb(r) \/ Launch(r) \/ Timeout(r) \/ Finish(r) \/ Fail(r) \/ Compare(r)
    PROVE  Inv'
<1>1. pc[r] \in Reading /\ UNCHANGED <<job, held, todo, dirs, touched>>
  BY DEF Unsupported, DuckDb, Launch, Timeout, Finish, Fail, Exit, Compare, Reading
<1>2. \E w \in Reading \cup {"done"} : pc' = [pc EXCEPT ![r] = w]
  BY DEF Unsupported, DuckDb, Launch, Timeout, Finish, Fail, Exit, Compare, Ends, Go, Reading
<1>3. held[r]
  BY <1>1 DEF Inv, Owns
<1> QED BY <1>1, <1>2, <1>3, Quiet

\* Every step preserves the invariant of the snapshots.
LEMMA NextStep == Inv /\ [Next]_vars => Inv'
<1> SUFFICES ASSUME Inv, [Next]_vars PROVE Inv'
  OBVIOUS
<1>1. CASE UNCHANGED vars
  <2>1. UNCHANGED <<job, pc, held, todo, dirs, touched>>
    BY <1>1 DEF vars
  <2>2. Types'
    BY <2>1 DEF Inv, Types, Content
  <2>3. \A x \in Run : Owns(x)'
    BY <2>1 DEF Inv, Owns
  <2> QED BY <2>2, <2>3 DEF Inv
<1>2. ASSUME NEW r \in Run, Reuse(r) PROVE Inv'
  <2>1. held[r] /\ pc' = [pc EXCEPT ![r] = "duckdb"] /\ UNCHANGED <<job, held, todo, dirs, touched>>
    BY <1>2 DEF Reuse, Go
  <2> QED BY <2>1, Quiet DEF Reading
<1>3. ASSUME NEW r \in Run, Again(r) PROVE Inv'
  <2>1. pc' = [pc EXCEPT ![r] = "snapshot"] /\ UNCHANGED <<job, held, todo, dirs, touched>>
    BY <1>3 DEF Again, Go
  <2> QED BY <2>1, Quiet DEF Reading
<1> QED BY <1>1, <1>2, <1>3, ClearStep, CopyStep, AbandonStep, PruneStep, EngineStep DEF Next, Step

\* The invariant of the snapshots holds always.
LEMMA Invariant == Spec => []Inv
BY InitOK, NextStep, PTL DEF Spec

-----------------------------------------------------------------------------
\* A run whose directory nobody else touched reads its own rows, from its
\* first engine to the comparison: whatever other runs of the server build,
\* abandon and prune, and for any number of runs, contracts and tables.
THEOREM ReadsAreOwn == Spec => [](\A r \in Run : ReadsItsOwn(r))
<1>1. Inv => \A r \in Run : ReadsItsOwn(r)
  BY DEF Inv, Owns, ReadsItsOwn, Reading
<1> QED BY Invariant, <1>1, PTL

-----------------------------------------------------------------------------
\* The engines and the comparison.  A verdict was given for what the engines
\* returned: DuckDB the rows of the run or, of a directory somebody touched,
\* others; Spark the same, printed or sampled, or nothing.
Judged(r) == report[r].status \in {"RESULT_CONSISTENT", "RESULT_MISMATCH"}
Foreigns(r) == {Foreign(job[r], seen) : seen \in SUBSET Outside}
DuckRead(r) ==
    /\ duck[r].rows \in {<<>>, job[r].duck} \cup Foreigns(r)
    /\ keys[r] = Keys(duck[r], job[r])
    /\ duck[r].canonical = Canonical(duck[r].rows, keys[r])
    /\ ~touched[r] /\ duck[r].ok => duck[r].rows = job[r].duck
Final(r, s) == [s EXCEPT !.canonical = Canonical(s.rows, keys[r])]
Returned(r, rows) ==
    IF Overflow(r, rows)
    THEN \E n \in 0..SampleCap : n <= Len(Sample(rows, keys[r])) /\ spark[r] = Final(r, Printout(r, rows, keys[r], n))
    ELSE spark[r] = Final(r, Collected(rows))
SparkRead(r) ==
    \/ ~spark[r].ok /\ ~spark[r].overflow
    \/ \E rows \in {job[r].spark} \cup Foreigns(r) : (~touched[r] => rows = job[r].spark) /\ Returned(r, rows)
Verifying(r) ==
    /\ pc[r] # "done" => report[r].status = "none"
    /\ pc[r] \notin {"compare", "done"} => spark[r] = NoSpark
    /\ pc[r] \in {"launch", "spark", "compare"} \/ Judged(r) => DuckRead(r)
    /\ pc[r] = "compare" \/ Judged(r) => SparkRead(r)
    /\ Judged(r) => /\ report[r].status = Status(duck[r], spark[r], keys[r], job[r])
                    /\ report[r].cre = Cre(r, report[r].status)

Engines ==
    /\ DOMAIN duck = Run /\ DOMAIN keys = Run /\ DOMAIN spark = Run /\ DOMAIN report = Run
    /\ \A r \in Run : DOMAIN report[r] = {"status", "cre", "cdp", "stage"}
    /\ \A r \in Run : Verifying(r)

\* Nothing has been read yet.
LEMMA EnginesInit == Init => Engines
<1> SUFFICES ASSUME Init PROVE Engines
  OBVIOUS
<1>1. /\ \A r \in Run : pc[r] \in {"snapshot", "done"} /\ report[r] = NoReport /\ spark[r] = NoSpark
      /\ DOMAIN duck = Run /\ DOMAIN keys = Run /\ DOMAIN spark = Run /\ DOMAIN report = Run
  BY DEF Init
<1>2. \A r \in Run : report[r].status = "none" /\ DOMAIN report[r] = {"status", "cre", "cdp", "stage"}
  BY <1>1 DEF NoReport
<1> QED BY <1>1, <1>2 DEF Engines, Verifying, Judged

\* What a step of one run leaves to another.
LEMMA Bystander ==
    ASSUME NEW x \in Run, Verifying(x), job' = job, pc'[x] = pc[x], touched[x] => touched'[x],
           duck'[x] = duck[x], keys'[x] = keys[x], spark'[x] = spark[x], report'[x] = report[x]
    PROVE  Verifying(x)'
<1>1. \A rows : Overflow(x, rows)' <=> Overflow(x, rows)
  BY DEF Overflow
<1>2. \A rows, n : Printout(x, rows, keys[x], n)' = Printout(x, rows, keys[x], n)
  BY DEF Printout
<1>3. \A s : Final(x, s)' = Final(x, s)
  BY DEF Final
<1>4. Foreigns(x)' = Foreigns(x) /\ Judged(x)' = Judged(x)
  BY DEF Foreigns, Judged
<1>5. DuckRead(x) => DuckRead(x)'
  BY <1>4 DEF DuckRead
<1>6. \A rows : Returned(x, rows) => Returned(x, rows)'
  BY <1>1, <1>2, <1>3 DEF Returned
<1>7. SparkRead(x) => SparkRead(x)'
  BY <1>3, <1>4, <1>6 DEF SparkRead
<1>8. Cre(x, report[x].status)' = Cre(x, report[x].status)
  BY DEF Cre
<1> QED BY <1>4, <1>5, <1>7, <1>8 DEF Verifying

\* A run that has no verdict, and no engine of which has returned, has
\* nothing to show.
LEMMA Idle ==
    ASSUME NEW r \in Run, pc'[r] \notin {"launch", "spark", "compare"}, ~Judged(r)',
           pc'[r] # "done" => report'[r].status = "none" /\ spark'[r] = NoSpark
    PROVE  Verifying(r)'
BY DEF Verifying

\* The steps before the engines, and the end without them.
LEMMA Snapshots ==
    ASSUME Inv, Engines, NEW r \in Run, Reuse(r) \/ Clear(r) \/ Copy(r) \/ Abandon(r) \/ Prune(r) \/ Unsupported(r)
    PROVE  Engines'
<1>1. Types
  BY DEF Inv
<1>2. UNCHANGED <<job, duck, keys, spark>>
  BY DEF Reuse, Clear, Copy, Abandon, Prune, Unsupported, engines
<1>3. /\ report' = report \/ report' = [report EXCEPT ![r].stage = "SNAPSHOT_NOT_READY"]
         \/ report' = [report EXCEPT ![r].status = "UNSUPPORTED_SEMANTICS", ![r].stage = "FAILURE"]
  BY DEF Reuse, Clear, Copy, Abandon, Prune, Unsupported, engines, Ends
<1>4. pc' = pc \/ \E w \in {"copy", "duckdb", "done"} : pc' = [pc EXCEPT ![r] = w]
  BY DEF Reuse, Clear, Copy, Abandon, Prune, Unsupported, Go, Ends
<1>5. pc[r] \in {"snapshot", "copy", "duckdb"}
  BY DEF Reuse, Clear, Copy, Abandon, Prune, Unsupported
<1>6. \A x \in Run : x # r => (touched[x] => touched'[x])
  BY <1>1 DEF Reuse, Clear, Copy, Abandon, Prune, Unsupported, Disturb, Types
<1>7. DOMAIN report' = Run /\ \A x \in Run : DOMAIN report'[x] = {"status", "cre", "cdp", "stage"}
  BY <1>3 DEF Engines
<1>8. \A x \in Run : x # r => report'[x] = report[x] /\ pc'[x] = pc[x]
  BY <1>1, <1>3, <1>4 DEF Engines, Types
<1>9. report[r].status = "none"
  BY <1>5 DEF Engines, Verifying
<1>10. report'[r].status \in {"none", "UNSUPPORTED_SEMANTICS"}
  BY <1>3, <1>9 DEF Engines
<1>11. pc'[r] # "done" => report'[r].status = "none"
  <2>1. pc'[r] # "done" => report' = report \/ report' = [report EXCEPT ![r].stage = "SNAPSHOT_NOT_READY"]
    BY <1>1 DEF Reuse, Clear, Copy, Abandon, Prune, Unsupported, engines, Ends, Go, Types
  <2> QED BY <1>9, <2>1 DEF Engines
<1>12. pc'[r] \in {"snapshot", "copy", "duckdb", "done"}
  BY <1>1, <1>4, <1>5 DEF Types
<1>13. Verifying(r)'
  <2>1. ~Judged(r)'
    BY <1>10 DEF Judged
  <2>2. spark'[r] = NoSpark
    BY <1>2, <1>5 DEF Engines, Verifying
  <2> QED BY <1>11, <1>12, <2>1, <2>2, Idle
<1>14. ASSUME NEW x \in Run, x # r PROVE Verifying(x)'
  <2>1. Verifying(x)
    BY DEF Engines
  <2> QED BY <1>2, <1>6, <1>8, <1>14, <2>1, Bystander
<1> QED BY <1>2, <1>7, <1>13, <1>14 DEF Engines

\* A step of the engines leaves the other runs alone.
LEMMA Apart ==
    ASSUME Types, Engines, NEW r \in Run, job' = job, touched' = touched, NEW w, pc' = [pc EXCEPT ![r] = w],
           \A x \in Run : x # r => /\ duck'[x] = duck[x] /\ keys'[x] = keys[x]
                                  /\ spark'[x] = spark[x] /\ report'[x] = report[x],
           DOMAIN duck' = Run /\ DOMAIN keys' = Run /\ DOMAIN spark' = Run /\ DOMAIN report' = Run,
           \A x \in Run : DOMAIN report'[x] = {"status", "cre", "cdp", "stage"}, Verifying(r)'
    PROVE  Engines'
<1>1. ASSUME NEW x \in Run, x # r PROVE Verifying(x)'
  <2>1. pc'[x] = pc[x]
    BY <1>1 DEF Types
  <2>2. duck'[x] = duck[x] /\ keys'[x] = keys[x] /\ spark'[x] = spark[x] /\ report'[x] = report[x]
    BY <1>1
  <2> QED BY <2>1, <2>2, Bystander DEF Engines
<1> QED BY <1>1 DEF Engines

\* A directory that holds the rows of the run is read as such.
LEMMA ResultFacts ==
    ASSUME Inv, NEW r \in Run, pc[r] \in Reading, NEW rows
    PROVE  Result(r, rows) \in {rows} \cup Foreigns(r) /\ (~touched[r] => Result(r, rows) = rows)
<1>1. Types /\ Owns(r) /\ job[r].contract \in Ids /\ dirs[job[r].contract] \in [ToSet(Files) -> Content]
  BY JobFacts DEF Inv
<1>2. Tables # <<>> /\ Tables \in Seq(ToSet(Tables)) /\ <<"index">> \in Seq({"index"})
  BY JobAssumption DEF JobAssumption
<1>3. ToSet(Tables) \subseteq ToSet(Files) /\ ToSet(Tables) # {}
  <2>1. Tables \in Seq(ToSet(Tables) \cup {"index"}) /\ <<"index">> \in Seq(ToSet(Tables) \cup {"index"})
    BY <1>2, SeqDef
  <2>2. /\ Len(Files) = Len(Tables) + 1 /\ Files \in Seq(ToSet(Tables) \cup {"index"})
        /\ \A i \in 1..Len(Tables) : Files[i] = Tables[i]
    BY <2>1, ConcatProperties DEF Files
  <2>3. Len(Tables) \in Nat /\ Len(Tables) # 0 /\ DOMAIN Tables = 1..Len(Tables) /\ DOMAIN Files = 1..Len(Files)
    BY <1>2, <2>2, EmptySeq
  <2> QED BY <2>2, <2>3 DEF ToSet
<1>4. Content \subseteq Outside
  BY <1>1 DEF Types, Content, Outside
<1>5. Seen(r) \in SUBSET Outside
  BY <1>1, <1>3, <1>4 DEF Seen
<1>6. Result(r, rows) \in {rows} \cup Foreigns(r)
  BY <1>5 DEF Result, Foreigns
<1>7. ASSUME ~touched[r] PROVE Seen(r) = {job[r].filter}
  <2>1. \A f \in ToSet(Files) : dirs[job[r].contract][f] = job[r].filter
    BY <1>1, <1>7 DEF Owns
  <2> QED BY <1>3, <2>1 DEF Seen
<1> QED BY <1>6, <1>7 DEF Result

\* DuckDB reads the files as they are.
LEMMA DuckStep == ASSUME Inv, Engines, NEW r \in Run, DuckDb(r) PROVE Engines'
<1>1. Types /\ pc[r] = "duckdb" /\ report[r].status = "none" /\ spark[r] = NoSpark
  BY DEF Inv, DuckDb, Engines, Verifying
<1>2. PICK d \in {NoDuck, [NoDuck EXCEPT !.ok = TRUE, !.rows = Result(r, job[r].duck)]} :
          /\ keys' = [keys EXCEPT ![r] = Keys(d, job[r])]
          /\ duck' = [duck EXCEPT ![r] = [d EXCEPT !.canonical = Canonical(d.rows, Keys(d, job[r]))]]
          /\ \/ report' = [report EXCEPT ![r].status = "CANONICALIZATION_NEEDED", ![r].stage = "FAILURE"]
                /\ pc' = [pc EXCEPT ![r] = "done"]
             \/ report' = report /\ pc' = [pc EXCEPT ![r] = "launch"]
  BY DEF DuckDb, Ends, Go
<1>3. UNCHANGED <<job, touched, spark>>
  BY DEF DuckDb
<1>4. d.rows \in {<<>>, job[r].duck} \cup Foreigns(r) /\ (~touched[r] /\ d.ok => d.rows = job[r].duck)
      /\ DOMAIN d = {"ok", "rows", "canonical"}
  <2>1. Result(r, job[r].duck) \in {job[r].duck} \cup Foreigns(r) /\ (~touched[r] => Result(r, job[r].duck) = job[r].duck)
    BY <1>1, ResultFacts DEF Reading
  <2>2. CASE d = NoDuck
    BY <2>2 DEF NoDuck
  <2>3. CASE d = [NoDuck EXCEPT !.ok = TRUE, !.rows = Result(r, job[r].duck)]
    <3>1. d.rows = Result(r, job[r].duck) /\ DOMAIN d = {"ok", "rows", "canonical"}
      BY <2>3 DEF NoDuck
    <3> QED BY <2>1, <3>1
  <2> QED BY <1>2, <2>2, <2>3
<1>5. /\ duck'[r].rows = d.rows /\ duck'[r].ok = d.ok /\ keys'[r] = Keys(d, job[r])
      /\ duck'[r].canonical = Canonical(d.rows, Keys(d, job[r]))
  BY <1>2, <1>4 DEF Engines
<1>6. Keys(duck'[r], job[r]) = Keys(d, job[r])
  BY <1>5 DEF Keys
<1>7. DuckRead(r)'
  BY <1>3, <1>4, <1>5, <1>6 DEF DuckRead, Foreigns
<1>8. report'[r].status \in {"none", "CANONICALIZATION_NEEDED"} /\ (pc'[r] # "done" => report'[r].status = "none")
      /\ pc'[r] \in {"launch", "done"} /\ DOMAIN report'[r] = {"status", "cre", "cdp", "stage"}
  BY <1>1, <1>2 DEF Engines, Types
<1>9. Verifying(r)'
  BY <1>1, <1>3, <1>7, <1>8 DEF Verifying, Judged
<1>10. \E w : pc' = [pc EXCEPT ![r] = w]
  BY <1>2
<1>11. /\ DOMAIN duck' = Run /\ DOMAIN keys' = Run /\ DOMAIN spark' = Run /\ DOMAIN report' = Run
       /\ \A x \in Run : DOMAIN report'[x] = {"status", "cre", "cdp", "stage"}
       /\ \A x \in Run : x # r => /\ duck'[x] = duck[x] /\ keys'[x] = keys[x]
                                  /\ spark'[x] = spark[x] /\ report'[x] = report[x]
  BY <1>2, <1>3 DEF Engines
<1> QED BY <1>1, <1>3, <1>9, <1>10, <1>11, Apart

\* The process of Spark begins with what DuckDB read.
LEMMA LaunchStep == ASSUME Inv, Engines, NEW r \in Run, Launch(r) PROVE Engines'
<1>1. Types /\ pc[r] = "launch" /\ report[r].status = "none" /\ spark[r] = NoSpark /\ DuckRead(r)
  BY DEF Inv, Launch, Engines, Verifying
<1>2. UNCHANGED <<job, touched, duck, keys, spark, report>>
  BY DEF Launch
<1>3. PICK w \in {"spark", "compare"} : pc' = [pc EXCEPT ![r] = w]
  BY DEF Launch, Go
<1>4. DuckRead(r)'
  BY <1>1, <1>2 DEF DuckRead, Foreigns
<1>5. SparkRead(r)'
  BY <1>1, <1>2 DEF SparkRead, NoSpark
<1>6. Verifying(r)'
  BY <1>1, <1>2, <1>3, <1>4, <1>5 DEF Verifying, Judged, Types
<1> QED BY <1>1, <1>2, <1>3, <1>6, Apart DEF Engines

\* What the process brings home.
LEMMA ExitStep ==
    ASSUME Inv, Engines, NEW r \in Run, Finish(r) \/ Fail(r) \/ Timeout(r)
    PROVE  Engines'
<1>1. Types /\ pc[r] = "spark" /\ report[r].status = "none" /\ DuckRead(r)
  BY DEF Inv, Finish, Fail, Timeout, Exit, Engines, Verifying
<1>2. UNCHANGED <<job, touched, duck, keys, report>> /\ pc' = [pc EXCEPT ![r] = "compare"]
  BY DEF Finish, Fail, Timeout, Exit, Go
<1>3. DuckRead(r)'
  BY <1>1, <1>2 DEF DuckRead, Foreigns
<1>4. \A rows : Overflow(r, rows)' <=> Overflow(r, rows)
  BY <1>2 DEF Overflow
<1>5. \A rows, n : Printout(r, rows, keys[r], n)' = Printout(r, rows, keys[r], n)
  BY <1>2 DEF Printout
<1>6. \A s : Final(r, s)' = Final(r, s)
  BY <1>2 DEF Final
<1>7. (\E s : spark' = [spark EXCEPT ![r] = s]) /\ SparkRead(r)'
  <2>1. CASE Fail(r) \/ Timeout(r)
    <3>1. spark' = [spark EXCEPT ![r] = [NoSpark EXCEPT !.canonical = Canonical(NoSpark.rows, keys[r])]]
      BY <2>1 DEF Fail, Timeout, Exit
    <3>2. spark'[r] = [NoSpark EXCEPT !.canonical = Canonical(NoSpark.rows, keys[r])]
      BY <3>1 DEF Engines
    <3>3. ~spark'[r].ok /\ ~spark'[r].overflow
      BY <3>2 DEF NoSpark
    <3> QED BY <3>1, <3>3 DEF SparkRead
  <2>2. CASE Finish(r)
    <3>1. PICK rows \in {Result(r, job[r].spark)} :
              IF Overflow(r, rows)
              THEN \E n \in 0..SampleCap : /\ n <= Len(Sample(rows, keys[r]))
                                           /\ spark' = [spark EXCEPT ![r] = Final(r, Printout(r, rows, keys[r], n))]
              ELSE spark' = [spark EXCEPT ![r] = Final(r, Collected(rows))]
      BY <2>2 DEF Finish, Exit, Final
    <3>2. rows \in {job[r].spark} \cup Foreigns(r) /\ (~touched[r] => rows = job[r].spark)
      BY <1>1, <3>1, ResultFacts DEF Reading
    <3>3. IF Overflow(r, rows)
          THEN \E n \in 0..SampleCap : n <= Len(Sample(rows, keys[r])) /\ spark'[r] = Final(r, Printout(r, rows, keys[r], n))
          ELSE spark'[r] = Final(r, Collected(rows))
      BY <3>1 DEF Engines
    <3>4. Returned(r, rows)'
      BY <1>2, <1>4, <1>5, <1>6, <3>3 DEF Returned
    <3>5. Foreigns(r)' = Foreigns(r)
      BY <1>2 DEF Foreigns
    <3>6. SparkRead(r)'
      BY <1>2, <3>2, <3>4, <3>5 DEF SparkRead
    <3>7. \E s : spark' = [spark EXCEPT ![r] = s]
      BY <3>1
    <3> QED BY <3>6, <3>7
  <2> QED BY <2>1, <2>2
<1>8. Verifying(r)'
  BY <1>1, <1>2, <1>3, <1>7 DEF Verifying, Judged, Types
<1>9. DOMAIN spark' = Run /\ \A x \in Run : x # r => spark'[x] = spark[x]
  BY <1>7 DEF Engines
<1> QED BY <1>1, <1>2, <1>8, <1>9, Apart DEF Engines

\* The comparison reads what the engines returned.
LEMMA CompareStep == ASSUME Inv, Engines, NEW r \in Run, Compare(r) PROVE Engines'
<1>1. Types /\ pc[r] = "compare" /\ DuckRead(r) /\ SparkRead(r)
  BY DEF Inv, Compare, Engines, Verifying
<1>2. UNCHANGED <<job, touched, duck, keys, spark>> /\ pc' = [pc EXCEPT ![r] = "done"]
  BY DEF Compare, Go
<1>3. PICK t : /\ report' = [report EXCEPT ![r] = t] /\ DOMAIN t = {"status", "cre", "cdp", "stage"}
               /\ t.status = Status(duck[r], spark[r], keys[r], job[r]) /\ t.cre = Cre(r, t.status)
  <2>1. PICK status, cdp, stage : /\ status = Status(duck[r], spark[r], keys[r], job[r])
                                  /\ report' = [report EXCEPT ![r] = [status |-> status, cre |-> Cre(r, status),
                                                                       cdp |-> cdp, stage |-> stage]]
    BY DEF Compare
  <2>2. PICK t : t = [status |-> status, cre |-> Cre(r, status), cdp |-> cdp, stage |-> stage]
    OBVIOUS
  <2>3. DOMAIN t = {"status", "cre", "cdp", "stage"} /\ t.status = status /\ t.cre = Cre(r, status)
    BY <2>2
  <2>4. report' = [report EXCEPT ![r] = t]
    BY <2>1, <2>2
  <2> QED BY <2>1, <2>3, <2>4
<1>4. DuckRead(r)'
  BY <1>1, <1>2 DEF DuckRead, Foreigns
<1>5. \A rows : Overflow(r, rows)' <=> Overflow(r, rows)
  BY <1>2 DEF Overflow
<1>6. \A rows, n : Printout(r, rows, keys[r], n)' = Printout(r, rows, keys[r], n)
  BY <1>2 DEF Printout
<1>7. \A s : Final(r, s)' = Final(r, s)
  BY <1>2 DEF Final
<1>8. \A rows : Returned(r, rows) => Returned(r, rows)'
  BY <1>2, <1>5, <1>6, <1>7 DEF Returned
<1>9. SparkRead(r)'
  BY <1>1, <1>2, <1>8 DEF SparkRead, Foreigns
<1>10. \A status : Cre(r, status)' = Cre(r, status)
  BY <1>2 DEF Cre
<1>11. report'[r] = t
  BY <1>3 DEF Engines
<1>12. pc'[r] = "done"
  BY <1>1, <1>2 DEF Types
<1>13. Verifying(r)'
  BY <1>2, <1>3, <1>4, <1>9, <1>10, <1>11, <1>12 DEF Verifying
<1>14. /\ DOMAIN report' = Run /\ \A x \in Run : DOMAIN report'[x] = {"status", "cre", "cdp", "stage"}
       /\ \A x \in Run : x # r => report'[x] = report[x]
  BY <1>3 DEF Engines
<1> QED BY <1>1, <1>2, <1>13, <1>14, Apart DEF Engines

\* A retry begins with a report that says nothing.
LEMMA AgainStep == ASSUME Inv, Engines, NEW r \in Run, Again(r) PROVE Engines'
<1>1. Types /\ UNCHANGED <<job, touched, duck, keys>> /\ pc' = [pc EXCEPT ![r] = "snapshot"]
      /\ report' = [report EXCEPT ![r] = NoReport] /\ spark' = [spark EXCEPT ![r] = NoSpark]
  BY DEF Inv, Again, Go
<1>2. pc'[r] = "snapshot" /\ report'[r].status = "none" /\ spark'[r] = NoSpark
  BY <1>1 DEF Types, Engines, NoReport
<1>3. Verifying(r)'
  <2>1. ~Judged(r)'
    BY <1>2 DEF Judged
  <2> QED BY <1>2, <2>1, Idle
<1>4. /\ DOMAIN spark' = Run /\ DOMAIN report' = Run
      /\ \A x \in Run : DOMAIN report'[x] = {"status", "cre", "cdp", "stage"}
      /\ \A x \in Run : x # r => report'[x] = report[x] /\ spark'[x] = spark[x]
  BY <1>1 DEF Engines, NoReport
<1> QED BY <1>1, <1>3, <1>4, Apart DEF Engines

\* Every step preserves the invariant of the engines.
LEMMA EnginesStep == Inv /\ Engines /\ [Next]_vars => Engines'
<1> SUFFICES ASSUME Inv, Engines, [Next]_vars PROVE Engines'
  OBVIOUS
<1>1. CASE UNCHANGED vars
  <2>1. UNCHANGED <<job, pc, touched, duck, keys, spark, report>>
    BY <1>1 DEF vars
  <2>2. \A x \in Run : Verifying(x)'
    BY <2>1, Bystander DEF Engines
  <2> QED BY <2>1, <2>2 DEF Engines
<1> QED BY <1>1, Snapshots, DuckStep, LaunchStep, ExitStep, CompareStep, AgainStep DEF Next, Step

\* The invariant of the engines holds always.
LEMMA EnginesInvariant == Spec => []Engines
BY EnginesInit, EnginesStep, InitOK, NextStep, PTL DEF Spec

-----------------------------------------------------------------------------
\* The rows of a job, and what can be said of rows whose keys are unique.
LEMMA TypedRows ==
    ASSUME NEW rows, NEW types, Typing(rows, types)
    PROVE  /\ rows \in Seq(FullRow) /\ rows \in Seq(AnyRow)
           /\ ("nan" \notin Values(rows) => Plain(rows))
           /\ \A i \in DOMAIN rows, c \in Columns : rows[i][c] \in DOMAIN Iso => types[c] = "date"
<1> DEFINE E == ToSet(Ascending) \ {"", "float"}
<1>1. E \subseteq Texted /\ "" \notin E /\ "float" \notin E
  BY Zenon DEF Texted
<1>2. rows \in Seq([Columns -> E])
  BY Zenon DEF Typing
<1> HIDE DEF E
<1>3. [Columns -> E] \subseteq FullRow
  BY <1>1 DEF FullRow
<1>4. rows \in Seq(FullRow)
  BY <1>2, <1>3, SeqDef
<1>5. \A i \in 1..Len(rows), c \in Columns : rows[i][c] \in E /\ i \in DOMAIN rows
  BY <1>2
<1>6. "nan" \notin Values(rows) => \A i \in 1..Len(rows), c \in Columns : rows[i][c] # "nan"
  BY <1>5 DEF Values
<1>7. "nan" \notin Values(rows) => Plain(rows)
  BY <1>1, <1>5, <1>6, Zenon DEF Plain
<1> QED BY <1>4, <1>7, FullRows, Zenon DEF Typing

\* What is read back of Spark's output are rows.
LEMMA ParsedType ==
    ASSUME NEW P \in Seq(FullRow)
    PROVE  Parsed(P) \in Seq(AnyRow) /\ Len(Parsed(P)) = Len(P)
<1>1. Len(P) \in Nat /\ DOMAIN P = 1..Len(P) /\ \A i \in 1..Len(P) : P[i] \in FullRow
  OBVIOUS
<1>2. \A x \in Texted : Spelled(x) \in Texted
  BY TextAssumption DEF Texted
<1>3. \A i \in 1..Len(P) : Json(P[i]) \in AnyRow
  <2> TAKE i \in 1..Len(P)
  <2>1. P[i] \in [Columns -> Texted]
    BY <1>1 DEF FullRow
  <2>2. Json(P[i]) = [c \in {c \in Columns : P[i][c] # "null"} |-> Spelled(P[i][c])]
    BY <2>1 DEF Json
  <2>3. {c \in Columns : P[i][c] # "null"} \in SUBSET Columns
    OBVIOUS
  <2>4. Json(P[i]) \in [{c \in Columns : P[i][c] # "null"} -> Texted]
    BY <1>2, <2>1, <2>2
  <2> QED BY <2>3, <2>4 DEF AnyRow
<1>4. Parsed(P) = [i \in 1..Len(P) |-> Json(P[i])]
  BY <1>1 DEF Parsed
<1>5. Parsed(P) \in [1..Len(P) -> AnyRow]
  BY <1>3, <1>4
<1> QED BY <1>1, <1>5, LenProperties, SeqDef

\* Rows whose keys are unique can be compared.
LEMMA UniqueRows ==
    ASSUME NEW rows \in Seq(AnyRow), NEW ks \in Seq(STRING), Unique(rows, ks)
    PROVE  Comparable(rows, ks) /\ KeysUnique(rows, ks)
<1>1. Comparable(rows, ks)
  BY UniqueKeys DEF Unique
<1> QED BY <1>1 DEF Comparable

\* Rows that match are the same rows, as the property says it.
LEMMA MatchingRows ==
    ASSUME NEW D \in Seq(AnyRow), NEW S \in Seq(AnyRow), NEW ks, NEW types, KeysUnique(D, ks), Matches(D, S, ks, types)
    PROVE  SameRows(D, S)
<1>1. DOMAIN D = 1..Len(D) /\ DOMAIN S = 1..Len(S) /\ Len(D) = Len(S)
  BY DEF Matches
<1>2. \A x, y, t : Equivalent(x, y, t) => Alike(x, y)
  BY DEF Equivalent, Alike
<1>3. ASSUME NEW i \in 1..Len(D)
      PROVE  \E j \in 1..Len(S) : \A c \in Columns : Alike(Text(Raw(D[i], c)), Text(Raw(S[j], c)))
  <2>1. PICK j \in 1..Len(S) : TextKey(D[i], ks) = TextKey(S[j], ks)
    BY DEF Matches
  <2>2. PICK m \in 1..Len(D) : TextKey(D[m], ks) = TextKey(S[j], ks) /\ Taken(D[m], S[j], types)
    BY DEF Matches
  <2>3. m = i
    BY <2>1, <2>2 DEF KeysUnique
  <2> QED BY <1>2, <2>2, <2>3 DEF Taken, Cell
<1> QED BY <1>1, <1>3 DEF SameRows

\* The verdict is the one of the comparison, or of the sample.
LEMMA Verdicts ==
    ASSUME NEW d, NEW s, NEW ks, NEW j, NEW status, status = Status(d, s, ks, j)
    PROVE  /\ status = "RESULT_CONSISTENT" => ~s.overflow
           /\ status \in {"RESULT_CONSISTENT", "RESULT_MISMATCH"} /\ ~s.overflow =>
                  /\ d.ok /\ s.ok /\ ~Unordered(s.rows, ks)
                  /\ status = Compared(d.canonical, s.canonical, ks, j)
           /\ s.overflow => status = Degraded(d.canonical, s, ks, j)
<1>1. \A D, k, S, t, c : SampledVerdict(S, t, c, k) # "RESULT_CONSISTENT"
  BY DEF SampledVerdict
<1>2. Degraded(d.canonical, s, ks, j) # "RESULT_CONSISTENT"
  BY <1>1 DEF Degraded
<1> QED BY <1>2 DEF Status

-----------------------------------------------------------------------------
\* The rows that a verdict is about are rows of known values.
LEMMA JobRows ==
    ASSUME Inv, Engines, NEW r \in Run, Judged(r)
    PROVE  /\ Typing(duck[r].rows, job[r].types) /\ keys[r] \in Seq(STRING) /\ job[r].declared \in BOOLEAN
           /\ job[r].pks \in Seq(STRING) /\ Len(keys[r]) <= MaxKeys /\ Len(job[r].pks) <= MaxKeys
           /\ \A rows \in {job[r].spark} \cup Foreigns(r) : Typing(rows, job[r].types)
           /\ duck[r].canonical = Canonical(duck[r].rows, keys[r])
           /\ ~touched[r] /\ duck[r].ok => duck[r].rows = job[r].duck
<1>1. job \in Assignments
  BY DEF Inv, Types
<1>2. /\ \A ks \in {job[r].order, job[r].pks} : ks \in Seq(STRING) /\ Len(ks) <= MaxKeys
      /\ job[r].declared \in BOOLEAN
      /\ Typing(job[r].duck, job[r].types) /\ Typing(job[r].spark, job[r].types)
      /\ \A seen \in SUBSET Outside : Typing(Foreign(job[r], seen), job[r].types)
  BY <1>1, ResultAssumption
<1>3. DuckRead(r)
  BY DEF Engines, Verifying
<1>4. Typing(<<>>, job[r].types)
  BY DEF Typing
<1>5. \A rows \in {<<>>, job[r].duck, job[r].spark} \cup Foreigns(r) : Typing(rows, job[r].types)
  BY <1>2, <1>4 DEF Foreigns
<1>6. keys[r] \in Seq(STRING) /\ Len(keys[r]) <= MaxKeys
  BY <1>2, <1>3 DEF DuckRead, Keys
<1> QED BY <1>2, <1>3, <1>5, <1>6 DEF DuckRead

\* A verdict on all rows is one on what Spark printed of its rows.
LEMMA CollectedRows ==
    ASSUME Inv, Engines, NEW r \in Run, Judged(r), ~spark[r].overflow
    PROVE  /\ report[r].status = Compared(duck[r].canonical, spark[r].canonical, keys[r], job[r])
           /\ keys[r] = <<>> => Len(spark[r].rows) <= 1
           /\ \E rows : /\ Typing(rows, job[r].types) /\ (~touched[r] => rows = job[r].spark)
                        /\ spark[r].rows = Parsed(rows) /\ spark[r].canonical = Canonical(Parsed(rows), keys[r])
<1>1. report[r].status = Status(duck[r], spark[r], keys[r], job[r]) /\ SparkRead(r)
  BY DEF Engines, Verifying
<1>2. /\ spark[r].ok /\ ~Unordered(spark[r].rows, keys[r])
      /\ report[r].status = Compared(duck[r].canonical, spark[r].canonical, keys[r], job[r])
  BY <1>1, Verdicts DEF Judged
<1>3. PICK rows \in {job[r].spark} \cup Foreigns(r) : (~touched[r] => rows = job[r].spark) /\ Returned(r, rows)
  BY <1>1, <1>2 DEF SparkRead
<1>4. \A n : Final(r, Printout(r, rows, keys[r], n)).overflow
  BY DEF Final, Printout, NoSpark
<1>5. spark[r] = Final(r, Collected(rows))
  BY <1>3, <1>4 DEF Returned
<1>6. spark[r].rows = Parsed(rows) /\ spark[r].canonical = Canonical(Parsed(rows), keys[r])
  BY <1>5 DEF Final, Collected, NoSpark
<1>7. Typing(rows, job[r].types)
  BY <1>3, JobRows
<1>8. keys[r] = <<>> => Len(spark[r].rows) <= 1
  <2>1. Parsed(rows) \in Seq(AnyRow)
    BY <1>7, TypedRows, ParsedType
  <2>2. Len(Parsed(rows)) \in Nat
    BY <2>1
  <2> QED BY <1>2, <1>6, <2>2 DEF Unordered
<1> QED BY <1>2, <1>3, <1>6, <1>7, <1>8

\* RESULT_CONSISTENT is said of rows that match, all of them collected.
LEMMA ConsistentRows ==
    ASSUME Inv, Engines, NEW r \in Run, report[r].status = "RESULT_CONSISTENT", Unique(duck[r].rows, keys[r])
    PROVE  /\ Matches(duck[r].rows, spark[r].rows, keys[r], job[r].types)
           /\ KeysUnique(duck[r].rows, keys[r]) /\ ~spark[r].overflow
           /\ duck[r].rows \in Seq(FullRow) /\ duck[r].rows \in Seq(AnyRow) /\ spark[r].rows \in Seq(AnyRow)
<1>1. Judged(r)
  BY DEF Judged
<1>2. report[r].status = Status(duck[r], spark[r], keys[r], job[r])
  BY <1>1 DEF Engines, Verifying
<1>3. ~spark[r].overflow
  BY <1>2, Verdicts
<1>4. /\ duck[r].rows \in Seq(FullRow) /\ duck[r].rows \in Seq(AnyRow) /\ keys[r] \in Seq(STRING) /\ Len(keys[r]) <= MaxKeys
      /\ duck[r].canonical = Canonical(duck[r].rows, keys[r])
  BY <1>1, JobRows, TypedRows
<1>5. /\ report[r].status = Compared(duck[r].canonical, spark[r].canonical, keys[r], job[r])
      /\ keys[r] = <<>> => Len(spark[r].rows) <= 1
  BY <1>1, <1>3, CollectedRows
<1>6. spark[r].rows \in Seq(AnyRow) /\ spark[r].canonical = Canonical(spark[r].rows, keys[r])
  BY <1>1, <1>3, CollectedRows, TypedRows, ParsedType
<1>7. Comparable(duck[r].rows, keys[r]) /\ KeysUnique(duck[r].rows, keys[r])
  BY <1>4, UniqueRows
<1>8. Matches(duck[r].rows, spark[r].rows, keys[r], job[r].types)
  BY <1>4, <1>5, <1>6, <1>7, ComparedFacts
<1> QED BY <1>3, <1>4, <1>6, <1>7, <1>8

\* RESULT_MISMATCH of collected rows is said of rows that do not match.
LEMMA MismatchRows ==
    ASSUME Inv, Engines, NEW r \in Run, report[r].status = "RESULT_MISMATCH", ~spark[r].overflow,
           Unique(duck[r].rows, keys[r])
    PROVE  ~Matches(duck[r].rows, spark[r].rows, keys[r], job[r].types)
<1>1. Judged(r)
  BY DEF Judged
<1>2. /\ duck[r].rows \in Seq(AnyRow) /\ keys[r] \in Seq(STRING) /\ Len(keys[r]) <= MaxKeys
      /\ duck[r].canonical = Canonical(duck[r].rows, keys[r])
  BY <1>1, JobRows, TypedRows
<1>3. /\ report[r].status = Compared(duck[r].canonical, spark[r].canonical, keys[r], job[r])
      /\ keys[r] = <<>> => Len(spark[r].rows) <= 1
  BY <1>1, CollectedRows
<1>4. spark[r].rows \in Seq(AnyRow) /\ spark[r].canonical = Canonical(spark[r].rows, keys[r])
  BY <1>1, CollectedRows, TypedRows, ParsedType
<1>5. Comparable(duck[r].rows, keys[r])
  BY <1>2, UniqueRows
<1> QED BY <1>2, <1>3, <1>4, <1>5, ComparedFacts

\* What the process prints when the sample is not cut.
LEMMA WholeSample ==
    ASSUME Inv, Engines, NEW r \in Run, Judged(r), spark[r].overflow, ~spark[r].cut, ~touched[r]
    PROVE  /\ spark[r].rows = Parsed(Sample(job[r].spark, keys[r])) /\ spark[r].total = Len(job[r].spark)
           /\ spark[r].canonical = Canonical(spark[r].rows, keys[r])
           /\ Sample(job[r].spark, keys[r]) # <<>> =>
                  spark[r].values = PrintedOf(DimValues(job[r].spark, keys[r][1]), job[r].types[keys[r][1]])
<1> DEFINE P == job[r].spark
           G == Sample(P, keys[r])
<1>1. SparkRead(r)
  BY DEF Engines, Verifying
<1>2. Returned(r, P)
  BY <1>1 DEF SparkRead
<1>3. ~Final(r, Collected(P)).overflow
  BY DEF Final, Collected, NoSpark
<1>4. PICK n \in 0..SampleCap : n <= Len(G) /\ spark[r] = Final(r, Printout(r, P, keys[r], n))
  BY <1>2, <1>3 DEF Returned
<1>5. P \in Seq(FullRow)
  BY JobRows, TypedRows
<1>6. G \in Seq(FullRow)
  <2>1. Group(P, keys[r]) = <<>> \/ \E S \in SUBSET DOMAIN P : Group(P, keys[r]) = Kept(P, S)
    BY DEF Group
  <2>2. Group(P, keys[r]) \in Seq(FullRow)
    <3>1. \A S \in SUBSET DOMAIN P : Kept(P, S) \in Seq(FullRow)
      BY <1>5, KeptFacts, Zenon
    <3>2. <<>> \in Seq(FullRow)
      OBVIOUS
    <3> QED BY <2>1, <3>1, <3>2, Zenon
  <2> QED BY <2>2 DEF Sample
<1> HIDE DEF G, P
<1>7. Parsed(G) \in Seq(AnyRow) /\ Len(Parsed(G)) = Len(G) /\ Len(G) \in Nat
  BY <1>6, ParsedType
<1>8. /\ spark[r].rows = SubSeq(Parsed(G), 1, n) /\ spark[r].total = Len(P) /\ spark[r].cut = (n < Len(G))
      /\ spark[r].canonical = Canonical(spark[r].rows, keys[r])
      /\ spark[r].values = IF G = <<>> THEN {}
                           ELSE {Printed(x, job[r].types[keys[r][1]]) : x \in DimValues(P, keys[r][1])}
  BY <1>4 DEF Final, Printout, NoSpark, G, P
<1>9. n = Len(G)
  <2>1. ~(n < Len(G))
    BY <1>8, Zenon
  <2>2. n \in Int
    OBVIOUS
  <2>3. n <= Len(G)
    BY <1>4, Zenon
  <2> HIDE <1>4, <1>8
  <2> QED BY <1>7, <2>1, <2>2, <2>3
<1>10. SubSeq(Parsed(G), 1, n) = Parsed(G)
  <2>1. \A Z \in Seq(AnyRow) : SubSeq(Z, 1, Len(Z)) = Z
    OBVIOUS
  <2> QED BY <1>7, <1>9, <2>1
<1> QED BY <1>8, <1>10 DEF PrintedOf, G, P

\* Engines that returned the same rows are not reported as different.
LEMMA SameVerdict == ASSUME Inv, Engines, NEW r \in Run, Done(r) PROVE SameIsConsistent(r)
<1> DEFINE D == job[r].duck
           P == job[r].spark
           ks == keys[r]
<1> SUFFICES ASSUME duck[r].ok, spark[r].ok, ~touched[r], ~spark[r].cut, Unique(D, ks), Len(D) = Len(P),
                    ToSet(D) = ToSet(P), "nan" \notin Values(D), spark[r].overflow => SampledFairly(r),
                    report[r].status = "RESULT_MISMATCH"
             PROVE  FALSE
  BY DEF SameIsConsistent
<1>1. Judged(r)
  BY DEF Judged
<1>2. /\ Typing(D, job[r].types) /\ Typing(P, job[r].types) /\ ks \in Seq(STRING) /\ Len(ks) <= MaxKeys /\ job[r].declared \in BOOLEAN
      /\ duck[r].canonical = Canonical(D, ks) /\ duck[r].rows = D
  BY <1>1, JobRows
<1>3. D \in Seq(FullRow) /\ D \in Seq(AnyRow) /\ P \in Seq(FullRow) /\ Plain(D)
  BY <1>2, TypedRows
<1>4. \A i \in 1..Len(D), c \in Columns : D[i][c] # "nan"
  BY <1>3, Zenon DEF Plain
<1>6. CASE ~spark[r].overflow
  <2>1. spark[r].rows = Parsed(P)
    BY <1>1, <1>6, CollectedRows
  <2>2. Matches(D, Parsed(P), ks, job[r].types)
    BY <1>2, <1>3, <1>4, SameRowsMatch
  <2> QED BY <1>2, <1>6, <2>1, <2>2, MismatchRows
<1>7. CASE spark[r].overflow
  <2>1. /\ spark[r].rows = Parsed(Sample(P, ks)) /\ spark[r].total = Len(P)
        /\ spark[r].canonical = Canonical(spark[r].rows, ks)
        /\ Sample(P, ks) # <<>> => spark[r].values = PrintedOf(DimValues(P, ks[1]), job[r].types[ks[1]])
    BY <1>1, <1>7, WholeSample
  <2>2. Degraded(Canonical(D, ks), spark[r], ks, job[r]) = "RESULT_MISMATCH"
    <3>1. report[r].status = Status(duck[r], spark[r], ks, job[r])
      BY <1>1 DEF Engines, Verifying
    <3>2. report[r].status = Degraded(duck[r].canonical, spark[r], ks, job[r])
      BY <1>7, <3>1, Verdicts
    <3> QED BY <1>2, <3>2
  <2>3. CASE Sample(P, ks) = <<>>
    <3>1. spark[r].rows = <<>>
      BY <2>1, <2>3 DEF Parsed
    <3>2. Len(Canonical(D, ks)) = Len(P)
      BY <1>2, <1>3, CanonicalRows
    <3> QED BY <2>1, <2>2, <3>1, <3>2 DEF Degraded
  <2>4. CASE Sample(P, ks) # <<>>
    <3>1. Sample(P, ks) = Group(P, ks)
      BY <2>4 DEF Sample
    <3>2. Dim(ks) \in Columns
      BY <2>4, <3>1 DEF Group
    <3>3. "none" \notin Columns
      BY DEF Columns
    <3>4. ks # <<>> /\ ks[1] = Dim(ks)
      BY <3>2, <3>3 DEF Dim
    <3>5. SampledFairly(r)
      BY <1>7
    <3>6. Told(D, DimValues(D, ks[1]), ks[1], job[r].types[ks[1]])
      BY <3>2, <3>4, <3>5 DEF SampledFairly, Canonically, Told
    <3>7. job[r].declared \/ Present(spark[r].rows) = Columns
      BY <3>5 DEF SampledFairly
    <3>8. Sampled(D, P, ks, job[r], spark[r])
      BY <1>2, <2>1, <2>4, <3>1, <3>2, <3>4, <3>6, <3>7 DEF Sampled
    <3>10. PlacesUnique(D, ks)
      BY <1>2, <1>3, <3>5, ApartRows DEF SampledFairly
    <3> HIDE DEF D, P, ks
    <3>9. Degraded(Canonical(D, ks), spark[r], ks, job[r]) # "RESULT_MISMATCH"
      BY <1>2, <1>3, <3>8, <3>10, SampleAgrees, Zenon
    <3> QED BY <2>2, <3>9
  <2> QED BY <2>3, <2>4
<1> QED BY <1>6, <1>7

\* The verdict is right, for any number of runs that share directories and for
\* any results of the engines: RESULT_CONSISTENT means the same rows, the same
\* rows of an untouched snapshot are never RESULT_MISMATCH.
THEOREM VerdictsAreRight == Spec => []VerdictIsRight
<1>1. Inv /\ Engines => VerdictIsRight
  <2> SUFFICES ASSUME Inv, Engines, NEW r \in Run
               PROVE  ReadsItsOwn(r) /\ (Done(r) => ConsistentIsSame(r) /\ SameIsConsistent(r))
    BY DEF VerdictIsRight
  <2>1. ReadsItsOwn(r)
    BY DEF Inv, Owns, ReadsItsOwn, Reading
  <2>2. ConsistentIsSame(r)
    <3> SUFFICES ASSUME report[r].status = "RESULT_CONSISTENT", Unique(duck[r].rows, keys[r])
                 PROVE  SameRows(duck[r].rows, spark[r].rows)
      BY DEF ConsistentIsSame, Read
    <3> QED BY ConsistentRows, MatchingRows
  <2> QED BY <2>1, <2>2, SameVerdict
<1> QED BY <1>1, Invariant, EnginesInvariant, PTL

-----------------------------------------------------------------------------
\* The second comparison.  Empty is what the older one reads where a value is
\* missing.
Empty == ""

\* The text of values, value by value.
LEMMA TextCases ==
    /\ \A x : x = "d" => Text(x) = "d.iso"
    /\ \A x : x = "e" => Text(x) = "e.iso"
    /\ \A x : x \in {"null", "nan", "blank"} => Text(x) = Empty
    /\ \A x : x \notin {"d", "e", "null", "nan", "blank"} => Text(x) = x
    /\ Empty \notin {"d", "e", "null", "nan", "NaN", "blank", "d.iso", "e.iso", "1", "1r", "1~"}
<1>1. Missing = {"null", "nan", "blank"} /\ DOMAIN Iso = {"d", "e"} /\ Iso["d"] = "d.iso" /\ Iso["e"] = "e.iso"
  BY DEF Missing, Iso
<1>2. \A x : Text(x) = IF x \in Missing THEN Empty ELSE IF x \in DOMAIN Iso THEN Iso[x] ELSE x
  BY Zenon DEF Text, Empty
<1>3. Empty \notin {"d", "e", "null", "nan", "NaN", "blank", "d.iso", "e.iso", "1", "1r", "1~"}
  BY Zenon DEF Empty
<1> QED BY <1>1, <1>2, <1>3

\* The bytes of values, type by type.
LEMMA EncodeFacts ==
    /\ \A t : Encode("null", t) = "null"
    /\ \A x : x # "null" => /\ Encode(x, "double") = IF x = "NaN" THEN "nan" ELSE x
                            /\ Encode(x, "decimal") = IF x = "1r" THEN "1" ELSE x
                            /\ Encode(x, "date") = Text(x)
                            /\ \A t : t \notin {"double", "decimal", "date"} => Encode(x, t) = x
BY DEF Encode

\* Values of the same bytes are the same text, decimals apart.
LEMMA EncodeText ==
    ASSUME NEW x, NEW y, NEW t, x # "nan", y # "nan", Encode(x, t) = Encode(y, t)
    PROVE  Equivalent(Text(x), Text(y), t) /\ (t # "decimal" => Text(x) = Text(y))
<1>1. CASE t \in {"double", "decimal"}
  BY <1>1, EncodeFacts, TextCases DEF Equivalent
<1>2. CASE t = "date"
  <2>1. Text(x) = Text(y)
    BY <1>2, EncodeFacts, TextCases
  <2> QED BY <1>2, <2>1 DEF Equivalent
<1>3. CASE t \notin {"double", "decimal", "date"}
  <2>1. x = y
    BY <1>3, EncodeFacts
  <2> QED BY <2>1 DEF Equivalent
<1> QED BY <1>1, <1>2, <1>3

\* What counts as the same or as close is the same to the older comparison.
LEMMA ReasonText ==
    ASSUME NEW x, NEW y, NEW t, x # "nan", y # "nan", CellReason(x, y, t) \in {"same", "within"}
    PROVE  Equivalent(Text(x), Text(y), t)
<1>1. CASE x = y
  BY <1>1 DEF Equivalent
<1>2. CASE x # y
  <2>1. "null" \notin {x, y} /\ t \in {"double", "decimal"}
    BY <1>2 DEF CellReason
  <2>2. CASE t = "double"
    <3>1. Equivalent(x, y, t)
      BY <2>1, <2>2 DEF CellReason
    <3>2. {x, y} = {"1", "1~"}
      BY <1>2, <2>2, <3>1 DEF Equivalent
    <3> QED BY <3>2, TextCases DEF Equivalent
  <2>3. CASE t = "decimal"
    <3>1. Encode(x, t) = Encode(y, t)
      BY <2>1, <2>3 DEF CellReason
    <3> QED BY <3>1, EncodeText
  <2> QED BY <2>1, <2>2, <2>3
<1> QED BY <1>1, <1>2

\* Equivalent values are no mismatch to the newer comparison, dates and text of
\* close numbers apart.
LEMMA CloseReason ==
    ASSUME NEW x, NEW y, NEW t, "null" \notin {x, y}, Equivalent(x, y, t), t # "date",
           t # "double" => {x, y} # {"1", "1~"}
    PROVE  CellReason(x, y, t) \notin {"string", "date", "out", "unknown"}
<1>1. CASE t = "double"
  BY <1>1 DEF CellReason
<1>2. CASE t = "decimal"
  <2>1. x = y \/ {x, y} = {"1", "1r"}
    BY <1>2 DEF Equivalent
  <2>2. Encode(x, t) = Encode(y, t)
    BY <1>2, <2>1, EncodeFacts
  <2> QED BY <1>2, <2>2 DEF CellReason
<1>3. CASE t \notin {"double", "decimal"}
  <2>1. x = y
    BY <1>3 DEF Equivalent
  <2> QED BY <1>3, <2>1 DEF CellReason
<1> QED BY <1>1, <1>2, <1>3

\* Which reasons lead to which decision.
LEMMA DecideFacts ==
    ASSUME NEW R
    PROVE  /\ Decide(R) = "MISMATCH" => \E x \in R : x \in {"string", "date", "out", "unknown"}
           /\ Decide(R) \in {"CONSISTENT", "CONSISTENT_WITH_WARN"} =>
                  \A x \in R : x \notin {"string", "date", "out", "unknown", "special"}
BY DEF Decide

\* n values are n different ones, or fewer.
LEMMA Different ==
    ASSUME NEW n \in Nat, NEW f, NEW Z, Z = {f[i] : i \in 1..n}
    PROVE  /\ Cardinality(Z) \in Nat /\ Cardinality(Z) <= n
           /\ Cardinality(Z) = n => \A i, j \in 1..n : f[i] = f[j] => i = j
<1> DEFINE L == 1..n
           g == [i \in L |-> f[i]]
<1>1. IsFiniteSet(L) /\ Cardinality(L) = n
  BY SegmentSize
<1>2. g \in Surjection(L, Z)
  BY DEF Surjection
<1>3. IsFiniteSet(Z) /\ Cardinality(Z) \in Nat /\ Cardinality(Z) <= n
  BY <1>1, <1>2, FS_Surjection, FS_CardinalityType
<1>4. ASSUME Cardinality(Z) = n PROVE \A i, j \in L : f[i] = f[j] => i = j
  <2>1. g \in Injection(L, Z)
    BY <1>1, <1>2, <1>4, FS_Surjection
  <2> QED BY <2>1 DEF Injection, IsInjective
<1> QED BY <1>3, <1>4

\* Rows without NaN, and rows whose values are all told apart as text.
Sound(rows) == \A i \in 1..Len(rows) : \A c : Raw(rows[i], c) # "nan"
Plainly(rows) == \A i \in 1..Len(rows) : \A c : Raw(rows[i], c) \notin {"nan", "d", "e"}
Solid(d) == d \in FullRow /\ \A c \in Columns : d[c] \notin {"null", "nan", "blank", "d", "e", Empty}

\* Spark's output has no NaN and no date but as text.
LEMMA ParsedPlainly == ASSUME NEW P \in Seq(FullRow) PROVE Plainly(Parsed(P))
<1>1. Len(P) \in Nat /\ DOMAIN P = 1..Len(P) /\ Len(Parsed(P)) = Len(P)
  BY ParsedType
<1>2. \A x : Spelled(x) \notin {"nan", "d", "e"}
  BY DEF Spelled, Iso
<1>3. ASSUME NEW i \in 1..Len(P), NEW c PROVE Raw(Parsed(P)[i], c) \notin {"nan", "d", "e"}
  <2>1. Parsed(P)[i] = Json(P[i])
    BY <1>1 DEF Parsed
  <2>2. Raw(Json(P[i]), c) \in {"null", Spelled(P[i][c])}
    BY DEF Json, Raw
  <2> QED BY <1>2, <2>1, <2>2
<1> QED BY <1>1, <1>3 DEF Plainly

\* A result that holds no NaN reads without one.
LEMMA FullSound == ASSUME NEW D \in Seq(FullRow), "nan" \notin Values(D) PROVE Sound(D)
<1>1. DOMAIN D = 1..Len(D) /\ \A i \in 1..Len(D) : DOMAIN D[i] = Columns
  BY DEF FullRow
<1> QED BY <1>1 DEF Sound, Raw, Values

\* Rows of the same digest have the same key, decimals apart.
LEMMA DigestText ==
    ASSUME NEW d, NEW s, NEW ks \in Seq(STRING), NEW types, \A c : Raw(d, c) # "nan" /\ Raw(s, c) # "nan",
           \A c \in ToSet(ks) : types[c] # "decimal", Digest(d, ks, types) = Digest(s, ks, types)
    PROVE  TextKey(d, ks) = TextKey(s, ks)
<1>1. ASSUME NEW i \in DOMAIN ks PROVE Cell(d, ks[i]) = Cell(s, ks[i])
  <2>1. Encode(Raw(d, ks[i]), types[ks[i]]) = Encode(Raw(s, ks[i]), types[ks[i]])
    BY DEF Digest
  <2>2. types[ks[i]] # "decimal"
    BY DEF ToSet
  <2> QED BY <2>1, <2>2, EncodeText DEF Cell
<1>2. TextParts(d, ks) = TextParts(s, ks)
  BY <1>1 DEF TextParts
<1> QED BY <1>2 DEF TextKey

\* A pair without a reason against it is taken for the same row.
LEMMA PairTaken ==
    ASSUME NEW d, NEW s, NEW types, \A c : Raw(d, c) # "nan" /\ Raw(s, c) # "nan",
           \A x \in RowReasons(<<d, s>>, types) : x \notin {"string", "date", "out", "unknown", "special"}
    PROVE  Taken(d, s, types)
<1>1. CASE EncodeRow(d, types) = EncodeRow(s, types)
  <2>1. \A c \in Columns : Encode(Raw(d, c), types[c]) = Encode(Raw(s, c), types[c])
    BY <1>1 DEF EncodeRow
  <2> QED BY <2>1, EncodeText DEF Taken, Cell
<1>2. CASE EncodeRow(d, types) # EncodeRow(s, types)
  <2>1. \A c \in Columns : CellReason(Raw(d, c), Raw(s, c), types[c]) \in RowReasons(<<d, s>>, types)
    BY <1>2 DEF RowReasons
  <2>2. \A x, y, t : CellReason(x, y, t) \in {"same", "within", "string", "date", "out", "unknown", "special"}
    BY DEF CellReason
  <2>3. \A c \in Columns : CellReason(Raw(d, c), Raw(s, c), types[c]) \in {"same", "within"}
    BY <2>1, <2>2
  <2> QED BY <2>3, ReasonText DEF Taken, Cell
<1> QED BY <1>1, <1>2

\* The digests of rows: how many there are, and whose.
LEMMA DigestFacts ==
    ASSUME NEW rows \in Seq(AnyRow), NEW ks, NEW types
    PROVE  /\ Digests(rows, ks, types) = {Digest(rows[i], ks, types) : i \in 1..Len(rows)}
           /\ Repeated(rows, ks, types) \in BOOLEAN
           /\ ~Repeated(rows, ks, types) =>
                  /\ Cardinality(Digests(rows, ks, types)) = Len(rows)
                  /\ \A i, j \in 1..Len(rows) : Digest(rows[i], ks, types) = Digest(rows[j], ks, types) => i = j
<1> DEFINE f == [i \in 1..Len(rows) |-> Digest(rows[i], ks, types)]
           Z == Digests(rows, ks, types)
<1>1. Len(rows) \in Nat /\ DOMAIN rows = 1..Len(rows)
  OBVIOUS
<1>2. Z = {Digest(rows[i], ks, types) : i \in 1..Len(rows)}
  BY <1>1 DEF Digests
<1>3. Z = {f[i] : i \in 1..Len(rows)}
  BY <1>2
<1>4. \A i \in 1..Len(rows) : f[i] = Digest(rows[i], ks, types)
  OBVIOUS
<1>5. Repeated(rows, ks, types) <=> Cardinality(Z) < Len(rows)
  BY DEF Repeated
<1> HIDE DEF f, Z
<1>6. /\ Cardinality(Z) \in Nat /\ Cardinality(Z) <= Len(rows)
      /\ Cardinality(Z) = Len(rows) => \A i, j \in 1..Len(rows) : f[i] = f[j] => i = j
  BY <1>1, <1>3, Different
<1>7. ~Repeated(rows, ks, types) => Cardinality(Z) = Len(rows)
  BY <1>1, <1>5, <1>6
<1> QED BY <1>2, <1>4, <1>6, <1>7 DEF Z, Repeated

\* Rows that are aligned and agree match.
LEMMA AlignedMatch ==
    ASSUME NEW D \in Seq(AnyRow), NEW S \in Seq(AnyRow), NEW ks \in Seq(STRING), NEW types, Sound(D), Sound(S),
           \A c \in ToSet(ks) : types[c] # "decimal",
           Aligned(D, S, ks, types) \in {"CONSISTENT", "CONSISTENT_WITH_WARN"}
    PROVE  Matches(D, S, ks, types)
<1>1. /\ ~Repeated(D, ks, types) /\ ~Repeated(S, ks, types) /\ Digests(D, ks, types) = Digests(S, ks, types)
      /\ Decide(Reasons(Pairs(D, S, ks, types), types)) \in {"CONSISTENT", "CONSISTENT_WITH_WARN"}
  BY DEF Aligned
<1>2. Len(D) = Len(S)
  <2>1. Cardinality(Digests(D, ks, types)) = Len(D)
    BY <1>1, DigestFacts
  <2>2. Cardinality(Digests(S, ks, types)) = Len(S)
    BY <1>1, DigestFacts
  <2> QED BY <1>1, <2>1, <2>2
<1>3. /\ \A i \in 1..Len(D) : \E j \in 1..Len(S) : Digest(D[i], ks, types) = Digest(S[j], ks, types)
      /\ \A j \in 1..Len(S) : \E i \in 1..Len(D) : Digest(D[i], ks, types) = Digest(S[j], ks, types)
  <2>1. {Digest(D[i], ks, types) : i \in 1..Len(D)} = {Digest(S[j], ks, types) : j \in 1..Len(S)}
    BY <1>1, DigestFacts
  <2>2. \A i \in 1..Len(D) : \E j \in 1..Len(S) : Digest(D[i], ks, types) = Digest(S[j], ks, types)
    BY <2>1
  <2>3. \A j \in 1..Len(S) : \E i \in 1..Len(D) : Digest(D[i], ks, types) = Digest(S[j], ks, types)
    BY <2>1
  <2> QED BY <2>2, <2>3
<1>4. ASSUME NEW i \in 1..Len(D), NEW j \in 1..Len(S), Digest(D[i], ks, types) = Digest(S[j], ks, types)
      PROVE  TextKey(D[i], ks) = TextKey(S[j], ks) /\ Taken(D[i], S[j], types)
  <2>1. \A c : Raw(D[i], c) # "nan" /\ Raw(S[j], c) # "nan"
    BY DEF Sound
  <2>2. TextKey(D[i], ks) = TextKey(S[j], ks)
    BY <1>4, <2>1, DigestText
  <2>3. <<D[i], S[j]>> \in Pairs(D, S, ks, types)
    <3>1. D[i] \in ToSet(D) /\ S[j] \in ToSet(S)
      BY DEF ToSet
    <3> QED BY <1>4, <3>1 DEF Pairs
  <2>4. RowReasons(<<D[i], S[j]>>, types) \subseteq Reasons(Pairs(D, S, ks, types), types)
    BY <2>3 DEF Reasons
  <2>5. \A x \in RowReasons(<<D[i], S[j]>>, types) : x \notin {"string", "date", "out", "unknown", "special"}
    BY <1>1, <2>4, DecideFacts
  <2> QED BY <2>1, <2>2, <2>5, PairTaken
<1> QED BY <1>2, <1>3, <1>4 DEF Matches

\* A single row without a reason against it matches.
LEMMA SingleMatch ==
    ASSUME NEW D \in Seq(AnyRow), NEW S \in Seq(AnyRow), NEW types, Sound(D), Sound(S), Len(D) = 1, Len(S) = 1,
           Decide(Reasons({<<D[1], S[1]>>}, types)) \in {"CONSISTENT", "CONSISTENT_WITH_WARN"}
    PROVE  Matches(D, S, <<>>, types)
<1>1. \A c : Raw(D[1], c) # "nan" /\ Raw(S[1], c) # "nan"
  BY DEF Sound
<1>2. RowReasons(<<D[1], S[1]>>, types) \subseteq Reasons({<<D[1], S[1]>>}, types)
  BY DEF Reasons
<1>3. \A x \in RowReasons(<<D[1], S[1]>>, types) : x \notin {"string", "date", "out", "unknown", "special"}
  BY <1>2, DecideFacts
<1>4. Taken(D[1], S[1], types)
  BY <1>1, <1>3, PairTaken
<1>5. TextKey(D[1], <<>>) = TextKey(S[1], <<>>)
  BY DEF TextKey, TextParts
<1>6. \A i \in 1..Len(D) : i = 1
  OBVIOUS
<1>7. \A i \in 1..Len(S) : i = 1
  OBVIOUS
<1>8. 1 \in 1..Len(D) /\ 1 \in 1..Len(S)
  OBVIOUS
<1> QED BY <1>4, <1>5, <1>6, <1>7, <1>8 DEF Matches

\* A row of known values is taken for a row that has all of them.
LEMMA TakenCells ==
    ASSUME NEW d, Solid(d), NEW s \in AnyRow, NEW types, \A c : Raw(s, c) \notin {"nan", "d", "e"}, Taken(d, s, types)
    PROVE  /\ DOMAIN s = Columns
           /\ \A c \in Columns : Raw(s, c) # "null" /\ Raw(d, c) # "null" /\ Equivalent(Raw(d, c), Raw(s, c), types[c])
<1>1. DOMAIN d = Columns /\ \A c \in Columns : Raw(d, c) = d[c]
  BY DEF Solid, FullRow, Raw
<1>2. ASSUME NEW c \in Columns
      PROVE  Raw(s, c) # "null" /\ Raw(d, c) # "null" /\ Equivalent(Raw(d, c), Raw(s, c), types[c])
  <2>1. Raw(d, c) \notin {"null", "nan", "blank", "d", "e", Empty}
    BY <1>1 DEF Solid
  <2>2. Text(Raw(d, c)) = Raw(d, c)
    BY <2>1, TextCases
  <2>3. Equivalent(Raw(d, c), Text(Raw(s, c)), types[c])
    BY <2>2 DEF Taken, Cell
  <2>4. Text(Raw(s, c)) # Empty
    BY <2>1, <2>3, TextCases DEF Equivalent
  <2>5. Raw(s, c) \notin {"null", "nan", "blank", "d", "e"}
    BY <2>4, TextCases
  <2>6. Text(Raw(s, c)) = Raw(s, c)
    BY <2>5, TextCases
  <2> QED BY <2>1, <2>3, <2>5, <2>6
<1>3. \A c \in Columns : c \in DOMAIN s
  BY <1>2 DEF Raw
<1>4. DOMAIN s \subseteq Columns
  BY RowFacts
<1> QED BY <1>2, <1>3, <1>4

\* Keys that join to one string and whose parts can be taken for each other are
\* the same: no number contains the separator.
LEMMA TakenParts ==
    ASSUME NEW d \in AnyRow, NEW s \in AnyRow, NEW ks \in Seq(STRING), Len(ks) <= MaxKeys, NEW types,
           Taken(d, s, types), TextKey(d, ks) = TextKey(s, ks)
    PROVE  TextParts(d, ks) = TextParts(s, ks)
<1> DEFINE x == TextParts(d, ks)
           y == TextParts(s, ks)
<1>1. x \in [1..Len(ks) -> Texted] /\ y \in [1..Len(ks) -> Texted]
  BY KeyType
<1>2. DOMAIN d \subseteq Columns /\ DOMAIN s \subseteq Columns
  BY RowFacts
<1>3. ASSUME NEW i \in 1..Len(ks) PROVE Equivalent(x[i], y[i], "decimal")
  <2>1. x[i] = Cell(d, ks[i]) /\ y[i] = Cell(s, ks[i])
    BY DEF TextParts
  <2>2. CASE ks[i] \in Columns
    BY <2>1, <2>2 DEF Taken, Equivalent
  <2>3. CASE ks[i] \notin Columns
    BY <1>2, <2>1, <2>3 DEF Cell, Raw, Equivalent
  <2> QED BY <2>2, <2>3
<1>4. Joined("|", x) = Joined("|", y)
  BY DEF TextKey
<1>5. Len(ks) \in 0..MaxKeys
  BY PlaceAssumption DEF PlaceAssumption
<1> HIDE DEF x, y
<1>6. \A n \in 0..MaxKeys : \A p, q \in [1..n -> Texted] :
          (\A i \in 1..n : Equivalent(p[i], q[i], "decimal")) /\ Joined("|", p) = Joined("|", q) => p = q
  BY NumberAssumption DEF NumberAssumption, Texted
<1>7. x = y
  BY <1>1, <1>3, <1>4, <1>5, <1>6
<1> QED BY <1>7 DEF x, y

\* Rows of the same key have the same digest, where no value reads as another.
LEMMA KeyDigest ==
    ASSUME NEW d, Solid(d), NEW s \in AnyRow, NEW ks \in Seq(STRING), NEW types,
           \A c : Raw(s, c) \notin {"nan", "d", "e"}, TextParts(d, ks) = TextParts(s, ks)
    PROVE  Digest(d, ks, types) = Digest(s, ks, types)
<1>1. DOMAIN d = Columns /\ DOMAIN s \subseteq Columns /\ \A c \in Columns : Raw(d, c) = d[c]
  BY RowFacts DEF Solid, FullRow, Raw
<1>2. ASSUME NEW i \in DOMAIN ks PROVE Raw(d, ks[i]) = Raw(s, ks[i])
  <2>1. CASE ks[i] \notin Columns
    BY <1>1, <2>1 DEF Raw
  <2>2. CASE ks[i] \in Columns
    <3>1. Raw(d, ks[i]) \notin {"null", "nan", "blank", "d", "e", Empty}
      BY <1>1, <2>2 DEF Solid
    <3>2. Text(Raw(d, ks[i])) = Text(Raw(s, ks[i]))
      BY DEF TextParts, Cell
    <3>3. Text(Raw(s, ks[i])) = Raw(d, ks[i])
      BY <3>1, <3>2, TextCases
    <3>4. Raw(s, ks[i]) \notin {"null", "nan", "blank", "d", "e"}
      BY <3>1, <3>3, TextCases
    <3> QED BY <3>3, <3>4, TextCases
  <2> QED BY <2>1, <2>2
<1> QED BY <1>2 DEF Digest

\* No text column holds close numbers on both sides.
Close(D, S, types) == \E i \in 1..Len(D), j \in 1..Len(S), c \in Columns :
                          types[c] # "double" /\ {Raw(D[i], c), Raw(S[j], c)} = {"1", "1~"}

\* A pair that is taken for the same row has no reason that is a mismatch.
LEMMA PairReasons ==
    ASSUME NEW D, NEW S \in Seq(AnyRow), NEW types, ~Close(D, S, types), \A c \in Columns : types[c] # "date",
           NEW i \in 1..Len(D), NEW j \in 1..Len(S), Solid(D[i]), Plainly(S), Taken(D[i], S[j], types),
           NEW x \in RowReasons(<<D[i], S[j]>>, types)
    PROVE  x \notin {"string", "date", "out", "unknown"}
<1>1. PICK c \in Columns : x = CellReason(Raw(D[i], c), Raw(S[j], c), types[c])
  BY DEF RowReasons
<1>2. S[j] \in AnyRow /\ \A k : Raw(S[j], k) \notin {"nan", "d", "e"}
  BY DEF Plainly
<1>3. Raw(S[j], c) # "null" /\ Raw(D[i], c) # "null" /\ Equivalent(Raw(D[i], c), Raw(S[j], c), types[c])
  BY <1>2, TakenCells
<1>4. types[c] # "double" => {Raw(D[i], c), Raw(S[j], c)} # {"1", "1~"}
  BY DEF Close
<1>5. "null" \notin {Raw(D[i], c), Raw(S[j], c)}
  BY <1>3
<1> QED BY <1>1, <1>3, <1>4, <1>5, CloseReason

\* Rows that match are aligned and agree.
Readable(D, S, types) == /\ ~Close(D, S, types) /\ \A c \in Columns : types[c] # "date"
                         /\ \A i \in 1..Len(D) : Solid(D[i])
                         /\ Plainly(S)

\* Rows that match are no mismatch when they are aligned by their digests.
LEMMA MatchAligned ==
    ASSUME NEW D \in Seq(FullRow), NEW S \in Seq(AnyRow), NEW ks \in Seq(STRING), Len(ks) <= MaxKeys, NEW types,
           Matches(D, S, ks, types), KeysUnique(D, ks), Readable(D, S, types)
    PROVE  Aligned(D, S, ks, types) # "MISMATCH"
<1>1. /\ DOMAIN D = 1..Len(D) /\ DOMAIN S = 1..Len(S) /\ Len(D) = Len(S) /\ Len(D) \in Nat
      /\ \A j \in 1..Len(S) : S[j] \in AnyRow
  BY DEF Matches
<1>2. ASSUME NEW i \in 1..Len(D), NEW j \in 1..Len(S), TextKey(D[i], ks) = TextKey(S[j], ks)
      PROVE  Digest(D[i], ks, types) = Digest(S[j], ks, types) /\ Taken(D[i], S[j], types)
  <2>1. PICK m \in 1..Len(D) : TextKey(D[m], ks) = TextKey(S[j], ks) /\ Taken(D[m], S[j], types)
    BY DEF Matches
  <2>2. m = i
    BY <1>2, <2>1 DEF KeysUnique
  <2>3. D[i] \in AnyRow /\ S[j] \in AnyRow /\ Solid(D[i])
    BY <1>1, FullRows DEF Readable
  <2>4. TextParts(D[i], ks) = TextParts(S[j], ks)
    BY <1>2, <2>1, <2>2, <2>3, TakenParts
  <2>5. \A c : Raw(S[j], c) \notin {"nan", "d", "e"}
    BY DEF Readable, Plainly
  <2> QED BY <2>1, <2>2, <2>3, <2>4, <2>5, KeyDigest
<1>3. \A j \in 1..Len(S) : \E i \in 1..Len(D) : /\ Digest(D[i], ks, types) = Digest(S[j], ks, types)
                                                /\ Taken(D[i], S[j], types)
  BY <1>2 DEF Matches
<1>4. ~SchemaWrong(D, S)
  <2> SUFFICES ASSUME D # <<>> \/ S # <<>> PROVE Present(D) = Columns /\ Present(S) = Columns
    BY DEF SchemaWrong
  <2>1. 1 \in 1..Len(D) /\ 1 \in 1..Len(S)
    BY <1>1, EmptySeq
  <2>2. \A i \in 1..Len(D) : DOMAIN D[i] = Columns
    BY DEF FullRow
  <2>3. \A j \in 1..Len(S) : DOMAIN S[j] = Columns
    <3> TAKE j \in 1..Len(S)
    <3>1. PICK i \in 1..Len(D) : Taken(D[i], S[j], types)
      BY <1>3
    <3>2. Solid(D[i]) /\ \A c : Raw(S[j], c) \notin {"nan", "d", "e"}
      BY DEF Readable, Plainly
    <3> QED BY <1>1, <3>1, <3>2, TakenCells
  <2> QED BY <1>1, <2>1, <2>2, <2>3 DEF Present
<1>5. Digests(D, ks, types) = Digests(S, ks, types)
  <2>1. \A i \in 1..Len(D) : \E j \in 1..Len(S) : Digest(D[i], ks, types) = Digest(S[j], ks, types)
    BY <1>2 DEF Matches
  <2>2. \A z : z \in Digests(D, ks, types) <=> \E i \in 1..Len(D) : z = Digest(D[i], ks, types)
    BY <1>1 DEF Digests
  <2>3. \A z : z \in Digests(S, ks, types) <=> \E j \in 1..Len(S) : z = Digest(S[j], ks, types)
    BY <1>1 DEF Digests
  <2> QED BY <1>3, <2>1, <2>2, <2>3
<1>6. ASSUME ~Repeated(D, ks, types) PROVE Decide(Reasons(Pairs(D, S, ks, types), types)) # "MISMATCH"
  <2> SUFFICES ASSUME NEW p \in Pairs(D, S, ks, types), NEW x \in RowReasons(p, types)
               PROVE  x \notin {"string", "date", "out", "unknown"}
    BY DecideFacts DEF Reasons
  <2>1. PICK i \in 1..Len(D), j \in 1..Len(S) : p = <<D[i], S[j]>> /\ Digest(D[i], ks, types) = Digest(S[j], ks, types)
    BY <1>1 DEF Pairs, ToSet
  <2>2. PICK m \in 1..Len(D) : Digest(D[m], ks, types) = Digest(S[j], ks, types) /\ Taken(D[m], S[j], types)
    BY <1>3
  <2>3. m = i
    <3>1. D \in Seq(AnyRow)
      BY FullRows
    <3> QED BY <1>6, <2>1, <2>2, <3>1, DigestFacts
  <2> QED BY <2>1, <2>2, <2>3, PairReasons DEF Readable
<1> QED BY <1>4, <1>5, <1>6 DEF Aligned

\* A single row that matches is no mismatch.
LEMMA MatchSingle ==
    ASSUME NEW D \in Seq(FullRow), NEW S \in Seq(AnyRow), NEW ks, NEW types, Len(D) = 1, Len(S) = 1,
           Matches(D, S, ks, types), Readable(D, S, types)
    PROVE  Decide(Reasons({<<D[1], S[1]>>}, types)) # "MISMATCH"
<1>1. 1 \in 1..Len(D) /\ 1 \in 1..Len(S) /\ \A i \in 1..Len(D) : i = 1
  OBVIOUS
<1>2. Taken(D[1], S[1], types)
  BY <1>1 DEF Matches
<1>3. \A x \in RowReasons(<<D[1], S[1]>>, types) : x \notin {"string", "date", "out", "unknown"}
  BY <1>1, <1>2, PairReasons DEF Readable
<1>4. Reasons({<<D[1], S[1]>>}, types) = RowReasons(<<D[1], S[1]>>, types)
  BY DEF Reasons
<1> QED BY <1>3, <1>4, DecideFacts

\* No cell of a result is the empty text that stands for a missing one.
LEMMA FullText ==
    ASSUME NEW rows, NEW types, Typing(rows, types)
    PROVE  \A i \in 1..Len(rows), c \in Columns : rows[i][c] # Empty
<1>1. PICK E : Empty \notin E /\ rows \in Seq([Columns -> E])
  <2>1. Empty \notin ToSet(Ascending) \ {"", "float"}
    BY Zenon DEF Empty
  <2>2. rows \in Seq([Columns -> ToSet(Ascending) \ {"", "float"}])
    BY Zenon DEF Typing
  <2> QED BY <2>1, <2>2, Zenon
<1> QED BY <1>1

\* Where the property finds no close numbers as text, the rows have none.
LEMMA NotClose ==
    ASSUME NEW D \in Seq(FullRow), NEW S \in Seq(AnyRow), NEW types,
           \A c \in Columns, d \in ToSet(D), s \in ToSet(S) : types[c] # "double" => {d[c], Raw(s, c)} # {"1", "1~"}
    PROVE  ~Close(D, S, types)
<1>1. \A i \in 1..Len(D), c \in Columns : D[i] \in ToSet(D) /\ Raw(D[i], c) = D[i][c]
  BY DEF ToSet, FullRow, Raw
<1>2. \A j \in 1..Len(S) : S[j] \in ToSet(S)
  BY DEF ToSet
<1> SUFFICES ASSUME NEW i \in 1..Len(D), NEW j \in 1..Len(S), NEW c \in Columns, types[c] # "double"
             PROVE  {Raw(D[i], c), Raw(S[j], c)} # {"1", "1~"}
  BY DEF Close
<1>3. {D[i][c], Raw(S[j], c)} # {"1", "1~"}
  BY <1>1, <1>2
<1> QED BY <1>1, <1>3

\* The second comparison, with and without keys.
LEMMA ShadowMatches ==
    ASSUME NEW D \in Seq(AnyRow), NEW S \in Seq(AnyRow), NEW j, j.pks \in Seq(STRING), Sound(D), Sound(S),
           \A c \in ToSet(j.pks) : j.types[c] # "decimal", Shadow(D, S, j) \in {"CONSISTENT", "CONSISTENT_WITH_WARN"}
    PROVE  Matches(D, S, j.pks, j.types)
<1>1. CASE j.pks # <<>>
  <2>1. Aligned(D, S, j.pks, j.types) \in {"CONSISTENT", "CONSISTENT_WITH_WARN"}
    BY <1>1 DEF Shadow
  <2> QED BY <2>1, AlignedMatch
<1>2. CASE j.pks = <<>>
  <2>1. Len(D) = 1 /\ Len(S) = 1 /\ Decide(Reasons({<<D[1], S[1]>>}, j.types)) \in {"CONSISTENT", "CONSISTENT_WITH_WARN"}
    BY <1>2 DEF Shadow
  <2> QED BY <1>2, <2>1, SingleMatch
<1> QED BY <1>1, <1>2

\* Rows that match are no mismatch to the newer comparison.
LEMMA MatchesShadow ==
    ASSUME NEW D \in Seq(FullRow), NEW S \in Seq(AnyRow), NEW j, j.pks \in Seq(STRING), Len(j.pks) <= MaxKeys,
           Matches(D, S, j.pks, j.types), KeysUnique(D, j.pks), Readable(D, S, j.types)
    PROVE  Shadow(D, S, j) # "MISMATCH"
<1>1. Aligned(D, S, j.pks, j.types) # "MISMATCH"
  BY MatchAligned
<1>2. Len(D) = 1 /\ Len(S) = 1 => Decide(Reasons({<<D[1], S[1]>>}, j.types)) # "MISMATCH"
  BY MatchSingle
<1> QED BY <1>1, <1>2 DEF Shadow

\* The digests of a run are the second comparison of the rows of its verdict.
LEMMA CreRows ==
    ASSUME Inv, Engines, NEW r \in Run, Judged(r), report[r].cre # "none"
    PROVE  /\ report[r].cre = Shadow(duck[r].rows, spark[r].rows, job[r]) /\ ~spark[r].overflow
           /\ duck[r].rows \in Seq(FullRow) /\ duck[r].rows \in Seq(AnyRow)
           /\ spark[r].rows \in Seq(AnyRow) /\ Plainly(spark[r].rows)
<1>1. report[r].cre = Cre(r, report[r].status)
  BY DEF Engines, Verifying
<1>2. report[r].cre = Shadow(duck[r].rows, spark[r].rows, job[r]) /\ ~spark[r].overflow
  BY <1>1 DEF Cre
<1>3. duck[r].rows \in Seq(FullRow) /\ duck[r].rows \in Seq(AnyRow)
  BY JobRows, TypedRows
<1>4. PICK rows : Typing(rows, job[r].types) /\ spark[r].rows = Parsed(rows)
  BY <1>2, CollectedRows
<1>5. spark[r].rows \in Seq(AnyRow) /\ Plainly(spark[r].rows)
  BY <1>4, TypedRows, ParsedType, ParsedPlainly
<1> QED BY <1>2, <1>3, <1>5

\* The two comparisons contradict each other only where they read a value
\* differently, for any results of the engines.
THEOREM ShadowsAgree == Spec => []ShadowAgrees
<1>1. Inv /\ Engines => ShadowAgrees
  <2> SUFFICES ASSUME Inv, Engines, NEW r \in Run, keys[r] = job[r].pks, Unique(duck[r].rows, keys[r])
               PROVE  /\ report[r].cre \in {"CONSISTENT", "CONSISTENT_WITH_WARN"} /\ report[r].status = "RESULT_MISMATCH"
                             => "nan" \in Values(duck[r].rows) \/ \E c \in ToSet(keys[r]) : job[r].types[c] = "decimal"
                      /\ report[r].cre = "MISMATCH" /\ report[r].status = "RESULT_CONSISTENT"
                             => \/ Values(duck[r].rows) \cap Missing # {}
                                \/ \E c \in Columns : job[r].types[c] = "date"
                                \/ CloseText(r)
    BY DEF ShadowAgrees, Read
  <2> DEFINE D == duck[r].rows
             S == spark[r].rows
             ks == keys[r]
             types == job[r].types
  <2>1. ASSUME report[r].cre \in {"CONSISTENT", "CONSISTENT_WITH_WARN"}, report[r].status = "RESULT_MISMATCH",
               "nan" \notin Values(D), \A c \in ToSet(ks) : types[c] # "decimal"
        PROVE  FALSE
    <3>1. Judged(r) /\ report[r].cre # "none"
      BY <2>1 DEF Judged
    <3>2. /\ report[r].cre = Shadow(D, S, job[r]) /\ ~spark[r].overflow /\ D \in Seq(FullRow) /\ D \in Seq(AnyRow)
          /\ S \in Seq(AnyRow) /\ Plainly(S) /\ ks \in Seq(STRING)
      BY <3>1, CreRows, JobRows
    <3>3. Sound(D) /\ Sound(S)
      BY <2>1, <3>2, FullSound DEF Plainly, Sound
    <3>4. Matches(D, S, job[r].pks, job[r].types)
      BY <2>1, <3>2, <3>3, ShadowMatches
    <3> QED BY <2>1, <3>2, <3>4, MismatchRows
  <2>2. ASSUME report[r].cre = "MISMATCH", report[r].status = "RESULT_CONSISTENT", Values(D) \cap Missing = {},
               \A c \in Columns : types[c] # "date", ~CloseText(r)
        PROVE  FALSE
    <3>1. Judged(r) /\ report[r].cre # "none"
      BY <2>2 DEF Judged
    <3>2. /\ report[r].cre = Shadow(D, S, job[r]) /\ D \in Seq(FullRow) /\ D \in Seq(AnyRow)
          /\ S \in Seq(AnyRow) /\ Plainly(S) /\ ks \in Seq(STRING) /\ Len(ks) <= MaxKeys /\ Typing(D, types)
      BY <3>1, CreRows, JobRows
    <3>3. Matches(D, S, ks, types) /\ KeysUnique(D, ks)
      BY <2>2, ConsistentRows
    <3>4. ~Close(D, S, types)
      <4>1. \A c \in Columns, d \in ToSet(D), s \in ToSet(S) : types[c] # "double" => {d[c], Raw(s, c)} # {"1", "1~"}
        BY <2>2, Zenon DEF CloseText, Read
      <4> QED BY <3>2, <4>1, NotClose
    <3>5. \A i \in 1..Len(D) : Solid(D[i])
      <4>1. DOMAIN D = 1..Len(D) /\ \A i \in 1..Len(D) : D[i] \in FullRow
        BY <3>2
      <4>2. \A i \in 1..Len(D), c \in Columns : D[i][c] \notin {"null", "nan", "blank"}
        <5>1. \A i \in 1..Len(D), c \in Columns : D[i][c] \in Values(D)
          BY <4>1 DEF Values
        <5>2. \A z \in Values(D) : z \notin Missing
          BY <2>2
        <5> QED BY <5>1, <5>2 DEF Missing
      <4>3. \A i \in 1..Len(D), c \in Columns : D[i][c] \notin {"d", "e"}
        <5>1. DOMAIN Iso = {"d", "e"}
          BY DEF Iso
        <5> QED BY <2>2, <3>2, <4>1, <5>1, TypedRows
      <4>4. \A i \in 1..Len(D), c \in Columns : D[i][c] # Empty
        BY <3>2, FullText
      <4> QED BY <4>1, <4>2, <4>3, <4>4 DEF Solid
    <3>6. Readable(D, S, types)
      BY <2>2, <3>2, <3>4, <3>5 DEF Readable
    <3>7. Shadow(D, S, job[r]) # "MISMATCH"
      BY <3>2, <3>3, <3>6, MatchesShadow
    <3> QED BY <2>2, <3>2, <3>7
  <2> QED BY <2>1, <2>2
<1> QED BY <1>1, Invariant, EnginesInvariant, PTL

=============================================================================
