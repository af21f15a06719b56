----------------------- MODULE SparkPlanning_proof -----------------------
(* Theorems about what the plans of a request are made of: what a chain's    *)
(* contract tells of joins (SparkPlanning), and the checks that one plan     *)
(* would pass; and that the Spark side leaves the SQL side as it is.         *)
EXTENDS SparkPlanning, SqlPlanning_proof

---------------------------------------------------------------------------
(* A column of a table of the spec; a lineage that tells such columns only;  *)
(* a name a table has in a join; a join told by such names, its left key a   *)
(* column of the table it is told of.                                        *)
Column(s, r) == r.t \in TableNames(s) /\ r.c \in ToSet(ColumnsOf(TableNamed(s, r.t)))
Telling(s, lineage) == \A t \in DOMAIN lineage : \A c \in DOMAIN lineage[t] : Column(s, lineage[t][c])
SideNames(s) == TableNames(s) \cup {SelfLeft(a) : a \in TableNames(s)} \cup {SelfRight(a) : a \in TableNames(s)}
JoinTraced(s, e) ==
    /\ {e.left, e.right} \subseteq SideNames(s)
    /\ e.left \in TableNames(s) => e.lk \in ToSet(ColumnsOf(TableNamed(s, e.left)))
TracedJoins(s, J) == IsSeq(J) /\ \A e \in ToSet(J) : JoinTraced(s, e)

(* A join on l can be told: l is a name of a table that has the key, or a    *)
(* temp whose key has been traced.                                           *)
Tellable(s, lineage, l, lk) ==
    \/ l \in SideNames(s) /\ (l \in TableNames(s) => Column(s, Ref(l, lk)))
    \/ l \in DOMAIN lineage /\ lk \in DOMAIN lineage[l]

\* The only key is the first.
LEMMA OnlyKeyFirst == ASSUME NEW k PROVE FirstKey({k}) = k
<1>1. Rank(k[2]) <= Rank(k[2])
  <2>1. Rank(k[2]) \in Nat
    BY RankIsNumber
  <2> QED BY <2>1
<1> QED BY <1>1 DEF FirstKey

\* What is traced through a lineage is a column, or itself.
LEMMA TracedColumn ==
    ASSUME NEW s, NEW lineage, Telling(s, lineage), NEW ref
    PROVE  /\ Traced(ref, lineage) = ref \/ Column(s, Traced(ref, lineage))
           /\ ref.t \in DOMAIN lineage /\ ref.c \in DOMAIN lineage[ref.t] => Column(s, Traced(ref, lineage))
  BY DEF Traced, Telling

\* A join with one key, told through a lineage.
LEMMA ToldJoin ==
    ASSUME NEW s, NEW lineage, Telling(s, lineage), NEW l, NEW r, NEW hop,
           r \in SideNames(s), Tellable(s, lineage, l, hop.lk)
    PROVE  JoinTraced(s, JoinTold(JoinStep(l, r, hop), lineage))
<1> DEFINE j == JoinStep(l, r, hop)
           k == <<Ref(l, hop.lk), hop.rk>>
           left == Traced(Ref(l, hop.lk), lineage)
           right == Traced(Ref(r, hop.rk), lineage)
           e == JoinTold(j, lineage)
<1>1. j.keys = {k} /\ j.right = r
  BY DEF JoinStep, Join
<1>2. FirstKey({k}) = k
  BY OnlyKeyFirst
<1>3. k[1] = Ref(l, hop.lk) /\ k[2] = hop.rk
  OBVIOUS
<1> HIDE DEF j, k
<1>4. FirstKey(j.keys)[1] = Ref(l, hop.lk) /\ FirstKey(j.keys)[2] = hop.rk
  BY <1>1, <1>2, <1>3
<1> HIDE DEF left, right
<1>5. e.left = left.t /\ e.lk = left.c /\ e.right = IF right.t = "" THEN r ELSE right.t
  BY <1>1, <1>4 DEF JoinTold, left, right
<1> HIDE DEF e
<1>6. \A t, c : Ref(t, c).t = t /\ Ref(t, c).c = c
  BY DEF Ref
<1>7. right = Ref(r, hop.rk) \/ Column(s, right)
  BY TracedColumn DEF right
<1>8. e.right \in SideNames(s)
  <2>1. right.t \in SideNames(s)
    <3>1. CASE right = Ref(r, hop.rk)
      BY <1>6, <3>1
    <3>2. CASE Column(s, right)
      BY <3>2 DEF Column, SideNames
    <3> QED BY <1>7, <3>1, <3>2
  <2> QED BY <1>5, <2>1
<1>9. e.left \in SideNames(s) /\ (e.left \in TableNames(s) => e.lk \in ToSet(ColumnsOf(TableNamed(s, e.left))))
  <2>1. CASE Column(s, left)
    BY <1>5, <2>1 DEF Column, SideNames
  <2>2. CASE ~Column(s, left)
    <3>1. left = Ref(l, hop.lk)
      BY <2>2, TracedColumn DEF left
    <3>2. ~(l \in DOMAIN lineage /\ hop.lk \in DOMAIN lineage[l])
      BY <1>6, <2>2, TracedColumn DEF left
    <3>3. l \in SideNames(s) /\ (l \in TableNames(s) => Column(s, Ref(l, hop.lk)))
      BY <3>2 DEF Tellable
    <3> QED BY <1>5, <1>6, <2>2, <3>1, <3>3
  <2> QED BY <2>1, <2>2
<1> QED BY <1>8, <1>9 DEF JoinTraced, e, j

\* The joins of a plan are told one by one.
LEMMA ToldJoins ==
    ASSUME NEW s, NEW lineage, NEW plan, IsSeq(plan.steps),
           \A e \in ToSet(plan.steps) : e.op = "join" => JoinTraced(s, JoinTold(e, lineage))
    PROVE  TracedJoins(s, JoinsIn(plan, lineage))
<1> DEFINE steps == Steps(plan, "join")
           keyed == Only(steps, LAMBDA j : j.keys # {})
           J == SeqMap(LAMBDA j : JoinTold(j, lineage), keyed)
<1>1. IsSeq(steps) /\ \A e \in ToSet(steps) : JoinTraced(s, JoinTold(e, lineage))
  <2> DEFINE I == {i \in DOMAIN plan.steps : plan.steps[i].op = "join"}
  <2>1. steps = Kept(plan.steps, I)
    BY DEF Steps, Only
  <2>2. \A i \in I : plan.steps[i].op = "join"
    OBVIOUS
  <2> HIDE DEF I, steps
  <2>3. /\ IsSeq(steps) /\ ToSet(steps) \subseteq ToSet(plan.steps)
        /\ \A e \in ToSet(steps) : \E i \in I : e = plan.steps[i]
    BY <2>1, KeptElements
  <2> QED BY <2>2, <2>3
<1> HIDE DEF steps
<1>2. IsSeq(keyed) /\ ToSet(keyed) \subseteq ToSet(steps)
  BY <1>1, KeptElements DEF Only
<1> HIDE DEF keyed
<1>3. DOMAIN J = DOMAIN keyed /\ J = [i \in DOMAIN J |-> J[i]] /\ \A i \in DOMAIN keyed : J[i] = JoinTold(keyed[i], lineage)
  BY DEF SeqMap
<1> HIDE DEF J
<1>4. /\ IsSeq(J) /\ DOMAIN keyed = 1..Len(keyed)
      /\ \A x \in ToSet(J) : \E i \in 1..Len(keyed) : x = J[i] /\ keyed[i] \in ToSet(keyed)
  BY <1>2, <1>3, MapElements
<1>5. ASSUME NEW x \in ToSet(J) PROVE JoinTraced(s, x)
  <2>1. PICK i \in 1..Len(keyed) : x = J[i] /\ keyed[i] \in ToSet(keyed)
    BY <1>4
  <2>2. x = JoinTold(keyed[i], lineage)
    BY <1>3, <1>4, <2>1
  <2> QED BY <1>1, <1>2, <2>1, <2>2
<1>6. JoinsIn(plan, lineage) = J
  BY Zenon DEF JoinsIn, J, keyed, steps
<1> QED BY <1>4, <1>5, <1>6 DEF TracedJoins

---------------------------------------------------------------------------
(* The tables joined by the i-th plan of a chain, and the projection with    *)
(* which a plan that is not the last passes on all they declare.             *)
Joined(chain, i) == <<chain[1].left>> \o [k \in 1..i |-> chain[k].right]
Through(s, tables) ==
    [op |-> "project",
     cols |-> SeqMap(LAMBDA c : Item(c, Ref(HolderOf(s, tables, c), c)), DeclaredColumns(s, tables))]
JoinsOnly(s, j) == IsSeq(s) /\ \A e \in ToSet(s) : e.op = "join" => e = j

\* A table's columns are a list.
LEMMA ColumnsList ==
    ASSUME NEW sp, SpecShape(sp), NEW a \in TableNames(sp)
    PROVE  IsSeq(ColumnsOf(TableNamed(sp, a)))
<1>1. TableNamed(sp, a) \in ToSet(sp.tables)
  BY NamedTable
<1>2. IsSeq(TableNamed(sp, a).keys) /\ IsSeq(TableNamed(sp, a).biz)
  BY <1>1 DEF SpecShape
<1> QED BY <1>2, CatElements DEF ColumnsOf

\* What joined tables declare.
LEMMA DeclaredElements ==
    ASSUME NEW sp, SpecShape(sp), NEW tables, IsSeq(tables), ToSet(tables) \subseteq TableNames(sp)
    PROVE  /\ IsSeq(DeclaredColumns(sp, tables))
           /\ \A c : c \in ToSet(DeclaredColumns(sp, tables))
                        <=> \E a \in ToSet(tables) : c \in ToSet(ColumnsOf(TableNamed(sp, a)))
<1> DEFINE cols(a) == ColumnsOf(TableNamed(sp, a))
           ss == SeqMap(cols, tables)
<1>1. DOMAIN ss = DOMAIN tables /\ ss = [i \in DOMAIN ss |-> ss[i]] /\ \A i \in DOMAIN tables : ss[i] = cols(tables[i])
  BY DEF SeqMap
<1>2. \A a \in ToSet(tables) : IsSeq(cols(a))
  BY ColumnsList
<1>3. DeclaredColumns(sp, tables) = Dedup(FlattenSeq(ss))
  BY Zenon DEF DeclaredColumns
<1> HIDE DEF ss, cols
<1>4. IsSeq(ss) /\ Len(ss) = Len(tables) /\ DOMAIN tables = 1..Len(tables)
  BY <1>1, MapElements
<1>5. \A i \in 1..Len(tables) : tables[i] \in ToSet(tables)
  BY ElementsOf
<1>6. \A i \in 1..Len(ss) : IsSeq(ss[i])
  BY <1>1, <1>2, <1>4, <1>5
<1>7. IsSeq(FlattenSeq(ss)) /\ ToSet(FlattenSeq(ss)) = UNION {ToSet(ss[i]) : i \in 1..Len(ss)}
  BY <1>4, <1>6, FlattenElements
<1>8. IsSeq(Dedup(FlattenSeq(ss))) /\ ToSet(Dedup(FlattenSeq(ss))) = ToSet(FlattenSeq(ss))
  BY <1>7, DedupElements
<1>9. ASSUME NEW c, c \in ToSet(FlattenSeq(ss)) PROVE \E a \in ToSet(tables) : c \in ToSet(cols(a))
  <2>1. PICK i \in 1..Len(ss) : c \in ToSet(ss[i])
    BY <1>7, <1>9
  <2> QED BY <1>1, <1>4, <1>5, <2>1
<1>10. ASSUME NEW c, NEW a \in ToSet(tables), c \in ToSet(cols(a)) PROVE c \in ToSet(FlattenSeq(ss))
  <2>1. PICK i \in 1..Len(tables) : tables[i] = a
    BY ElementsOf
  <2>2. i \in 1..Len(ss) /\ c \in ToSet(ss[i])
    BY <1>1, <1>4, <1>10, <2>1
  <2> QED BY <1>7, <2>2
<1> QED BY <1>3, <1>8, <1>9, <1>10 DEF cols

\* The table a column is taken from has it.
LEMMA HolderHas ==
    ASSUME NEW sp, NEW tables, IsSeq(tables), NEW c, NEW a \in ToSet(tables), c \in ToSet(ColumnsOf(TableNamed(sp, a)))
    PROVE  /\ HolderOf(sp, tables, c) \in ToSet(tables)
           /\ c \in ToSet(ColumnsOf(TableNamed(sp, HolderOf(sp, tables, c))))
<1> DEFINE I == {i \in DOMAIN tables : c \in ToSet(ColumnsOf(TableNamed(sp, tables[i])))}
           k == Kept(tables, I)
<1>1. HolderOf(sp, tables, c) = k[1]
  BY DEF HolderOf, Only
<1>2. \A i \in I : c \in ToSet(ColumnsOf(TableNamed(sp, tables[i])))
  OBVIOUS
<1>3. PICK n \in 1..Len(tables) : tables[n] = a
  BY ElementsOf
<1>4. n \in I
  BY <1>3, ElementsOf
<1> HIDE DEF I
<1>5. /\ IsSeq(k) /\ ToSet(k) \subseteq ToSet(tables) /\ tables[n] \in ToSet(k)
      /\ \A x \in ToSet(k) : \E i \in I : x = tables[i]
  BY <1>4, KeptElements
<1> HIDE DEF k
<1>6. Len(k) \in Nat /\ \E m \in 1..Len(k) : TRUE
  BY <1>5, ElementsOf
<1>7. 1 \in 1..Len(k)
  BY <1>6
<1>8. k[1] \in ToSet(k)
  BY <1>5, <1>7, ElementsOf
<1> QED BY <1>1, <1>2, <1>5, <1>8

\* The last of some is one of them.
LEMMA LastIsOne == ASSUME NEW s, IsSeq(s), NEW x \in ToSet(s) PROVE Last(s) \in ToSet(s)
<1>1. Len(s) \in Nat /\ \E n \in 1..Len(s) : TRUE
  BY ElementsOf
<1>2. Len(s) \in 1..Len(s)
  BY <1>1
<1> QED BY <1>2, ElementsOf DEF Last

\* A column carries no mark of a ratio or an expression, if no table is named like a mark.
MarksApart(tables) == \A t \in ToSet(tables) : t.alias \notin {"ratio", "raw"}
LEMMA PlainColumn ==
    ASSUME NEW sp, MarksApart(sp.tables), NEW x, Column(sp, x.ref)
    PROVE  ~IsRatio(x) /\ ~IsRaw(x)
<1>1. TableNamed(sp, x.ref.t) \in ToSet(sp.tables) /\ TableNamed(sp, x.ref.t).alias = x.ref.t
  BY NamedTable DEF Column
<1> QED BY <1>1 DEF MarksApart, IsRatio, IsRaw

(* A plan that ends by passing on all that its tables declare records every  *)
(* one of their columns, and no other, as a column of a table.               *)
LEMMA RecordedThrough ==
    ASSUME NEW sp, SpecShape(sp), MarksApart(sp.tables), NEW tables, IsSeq(tables), ToSet(tables) \subseteq TableNames(sp),
           NEW lineage, Telling(sp, lineage), NEW makes, makes # "",
           NEW p, IsSeq(p), NEW plan, plan.steps = p \o <<Through(sp, tables)>>
    PROVE  LET next == Recorded(makes, plan, lineage)
           IN  /\ Telling(sp, next) /\ makes \in DOMAIN next
               /\ \A a \in ToSet(tables) : ToSet(ColumnsOf(TableNamed(sp, a))) \subseteq DOMAIN next[makes]
<1> DEFINE D == DeclaredColumns(sp, tables)
           x == Through(sp, tables)
           items == SeqMap(LAMBDA c : Item(c, Ref(HolderOf(sp, tables, c), c)), D)
           cols == Only(items, LAMBDA i : ~IsRatio(i) /\ ~IsRaw(i))
           of(a) == {i \in DOMAIN cols : cols[i].alias = a}
           last(a) == Last(Kept(cols, of(a)))
           new == [a \in ToSet(Aliases(cols)) |-> Traced(last(a).ref, lineage)]
           next == Recorded(makes, plan, lineage)
<1>1. IsSeq(D) /\ \A c : c \in ToSet(D) <=> \E a \in ToSet(tables) : c \in ToSet(ColumnsOf(TableNamed(sp, a)))
  BY DeclaredElements
<1>2. x.op = "project" /\ x.cols = items
  BY DEF Through
<1>3. Last(Steps(plan, "project")) = x /\ Steps(plan, "project") # <<>>
  <2> DEFINE I == {i \in DOMAIN plan.steps : plan.steps[i].op = "project"}
  <2>1. Last(Steps(plan, "project")) = x
    BY <1>2, LastOfKind
  <2>2. Steps(plan, "project") = Kept(plan.steps, I)
    BY DEF Steps, Only
  <2>3. IsSeq(plan.steps) /\ x \in ToSet(plan.steps)
    <3>1. plan.steps = p \o <<x>>
      OBVIOUS
    <3> HIDE DEF x
    <3>2. IsSeq(<<x>>) /\ ToSet(<<x>>) = {x}
      BY OneElement
    <3>3. IsSeq(p \o <<x>>) /\ ToSet(p \o <<x>>) = ToSet(p) \cup ToSet(<<x>>)
      BY <3>2, CatElements
    <3> QED BY <3>1, <3>2, <3>3
  <2>4. PICK n \in 1..Len(plan.steps) : plan.steps[n] = x
    BY <2>3, ElementsOf
  <2>5. n \in I
    BY <1>2, <2>3, <2>4, ElementsOf
  <2> HIDE DEF I, x
  <2>6. x \in ToSet(Kept(plan.steps, I))
    BY <2>3, <2>4, <2>5, KeptElements
  <2> QED BY <2>1, <2>2, <2>6, NoElement
<1>4. DOMAIN items = DOMAIN D /\ items = [i \in DOMAIN items |-> items[i]]
      /\ \A i \in DOMAIN D : items[i] = Item(D[i], Ref(HolderOf(sp, tables, D[i]), D[i]))
  BY DEF SeqMap
<1>5. next = Put(lineage, makes, new)
  <2>1. cols = Only(Last(Steps(plan, "project")).cols, LAMBDA i : ~IsRatio(i) /\ ~IsRaw(i))
    BY <1>2, <1>3
  <2> HIDE DEF x, items, D
  <2>2. \A a : Last(Only(cols, LAMBDA i : i.alias = a)) = last(a)
    BY DEF Only
  <2> HIDE DEF last, cols
  <2>3. next = Put(lineage, makes, [a \in ToSet(Aliases(cols)) |->
                                       Traced(Last(Only(cols, LAMBDA i : i.alias = a)).ref, lineage)])
    BY <1>3, <2>1, Zenon DEF Recorded
  <2> QED BY <2>2, <2>3
<1> HIDE DEF D, x, items, next
<1>6. IsSeq(items) /\ DOMAIN D = 1..Len(D) /\ Len(items) = Len(D)
      /\ \A e \in ToSet(items) : \E i \in 1..Len(D) : e = items[i] /\ D[i] \in ToSet(D)
  BY <1>1, <1>4, MapElements
<1>7. \A a, r : Item(a, r).alias = a /\ Item(a, r).ref = r
  BY DEF Item
<1>8. ASSUME NEW c \in ToSet(D) PROVE Column(sp, Ref(HolderOf(sp, tables, c), c))
  <2>1. PICK a \in ToSet(tables) : c \in ToSet(ColumnsOf(TableNamed(sp, a)))
    BY <1>1
  <2>2. HolderOf(sp, tables, c) \in ToSet(tables) /\ c \in ToSet(ColumnsOf(TableNamed(sp, HolderOf(sp, tables, c))))
    BY <2>1, HolderHas
  <2> QED BY <2>2 DEF Column, Ref
<1>9. ASSUME NEW e \in ToSet(items) PROVE Column(sp, e.ref)
  <2>1. PICK i \in 1..Len(D) : e = items[i] /\ D[i] \in ToSet(D)
    BY <1>6
  <2>2. e = Item(D[i], Ref(HolderOf(sp, tables, D[i]), D[i]))
    BY <1>4, <1>6, <2>1
  <2>3. e.ref = Ref(HolderOf(sp, tables, D[i]), D[i])
    BY <1>7, <2>2
  <2>4. Column(sp, Ref(HolderOf(sp, tables, D[i]), D[i]))
    BY <1>8, <2>1
  <2> QED BY <2>3, <2>4, Zenon
<1>10. IsSeq(cols) /\ ToSet(cols) \subseteq ToSet(items) /\ \A e \in ToSet(items) : e \in ToSet(cols)
  <2> DEFINE I == {i \in DOMAIN items : ~IsRatio(items[i]) /\ ~IsRaw(items[i])}
  <2>1. cols = Kept(items, I)
    BY DEF Only
  <2>2. \A i \in 1..Len(items) : i \in I
    <3> TAKE i \in 1..Len(items)
    <3>1. items[i] \in ToSet(items) /\ i \in DOMAIN items
      BY <1>6, ElementsOf
    <3>2. Column(sp, items[i].ref)
      BY <1>9, <3>1
    <3> QED BY <3>1, <3>2, PlainColumn
  <2> HIDE DEF I, cols
  <2>3. IsSeq(cols) /\ ToSet(cols) \subseteq ToSet(items)
    BY <1>6, <2>1, KeptElements
  <2>4. ASSUME NEW e \in ToSet(items) PROVE e \in ToSet(cols)
    <3>1. PICK i \in 1..Len(items) : items[i] = e
      BY <1>6, ElementsOf
    <3> QED BY <1>6, <2>1, <2>2, <3>1, KeptElements
  <2> QED BY <2>3, <2>4
<1> HIDE DEF cols
<1>11. IsSeq(Aliases(cols)) /\ \A e \in ToSet(cols) : e.alias \in ToSet(Aliases(cols))
  BY <1>10, AliasElements
<1>12. ASSUME NEW a \in ToSet(Aliases(cols)) PROVE Column(sp, Traced(last(a).ref, lineage))
  <2>1. \E i \in DOMAIN cols : cols[i].alias = a
    BY DEF Aliases, ToSet
  <2>2. PICK i \in 1..Len(cols) : i \in of(a)
    BY <1>10, <2>1, ElementsOf
  <2> DEFINE k == Kept(cols, of(a))
  <2>3. IsSeq(k) /\ ToSet(k) \subseteq ToSet(cols) /\ cols[i] \in ToSet(k)
    <3> HIDE DEF of
    <3> QED BY <1>10, <2>2, KeptElements
  <2> HIDE DEF k
  <2>4. last(a) \in ToSet(cols)
    <3>1. Last(k) \in ToSet(k)
      BY <2>3, LastIsOne
    <3> QED BY <2>3, <3>1 DEF k
  <2> HIDE DEF last
  <2>5. Column(sp, last(a).ref)
    BY <1>9, <1>10, <2>4
  <2> QED BY <2>5, TracedColumn
<1>13. Telling(sp, next) /\ makes \in DOMAIN next /\ next[makes] = new
  <2>1. \A t \in DOMAIN next : t = makes \/ (t \in DOMAIN lineage /\ next[t] = lineage[t])
    BY <1>5 DEF Put
  <2>2. makes \in DOMAIN next /\ next[makes] = new
    BY <1>5 DEF Put
  <2>3. \A a \in DOMAIN new : Column(sp, new[a])
    <3> HIDE DEF last
    <3> QED BY <1>12
  <2> HIDE DEF new
  <2> QED BY <2>1, <2>2, <2>3 DEF Telling
<1>14. ASSUME NEW a \in ToSet(tables), NEW c \in ToSet(ColumnsOf(TableNamed(sp, a))) PROVE c \in DOMAIN next[makes]
  <2>1. PICK i \in 1..Len(D) : D[i] = c
    BY <1>1, ElementsOf
  <2>2. items[i] \in ToSet(items)
    BY <1>6, <2>1, ElementsOf
  <2>3. items[i].alias = c
    <3> DEFINE r == Ref(HolderOf(sp, tables, D[i]), D[i])
    <3>1. items[i] = Item(D[i], r)
      BY <1>4, <1>6
    <3> HIDE DEF r, new, of, last
    <3>2. Item(D[i], r).alias = D[i]
      BY <1>7, Zenon
    <3> QED BY <2>1, <3>1, <3>2
  <2>4. c \in ToSet(Aliases(cols))
    BY <1>10, <1>11, <2>2, <2>3
  <2>5. DOMAIN new = ToSet(Aliases(cols))
    OBVIOUS
  <2> QED BY <1>13, <2>4, <2>5
<1> QED BY <1>13, <1>14 DEF next

---------------------------------------------------------------------------
(* Steps of a plan: plain ones, the joins of J, and aggregations the builder *)
(* of aggregations made.                                                     *)
Plain == {"scan", "filter", "case", "window", "project", "sort", "limit"}
MadeOf(sp, J, steps) ==
    /\ IsSeq(steps)
    /\ \A e \in ToSet(steps) :
          \/ e \in J \/ e.op \in Plain
          \/ \E primary, valid : e \in ToSet(Aggregate(sp, primary, {s.alias : s \in ToSet(PreCases(sp))}, valid))

\* Put together; plain steps; a join; an aggregation.
LEMMA MadePut ==
    ASSUME NEW sp, NEW J
    PROVE  /\ \A s, t : MadeOf(sp, J, s) /\ MadeOf(sp, J, t) => MadeOf(sp, J, s \o t)
           /\ \A K, s : K \subseteq Plain /\ OfKinds(K, s) => MadeOf(sp, J, s)
           /\ \A j \in J : MadeOf(sp, J, <<j>>)
<1>1. ASSUME NEW s, NEW t, MadeOf(sp, J, s), MadeOf(sp, J, t) PROVE MadeOf(sp, J, s \o t)
  <2>1. IsSeq(s \o t) /\ ToSet(s \o t) = ToSet(s) \cup ToSet(t)
    BY <1>1, CatElements DEF MadeOf
  <2> QED BY <1>1, <2>1 DEF MadeOf
<1>2. \A K, s : K \subseteq Plain /\ OfKinds(K, s) => MadeOf(sp, J, s)
  BY DEF OfKinds, MadeOf
<1>3. ASSUME NEW j \in J PROVE MadeOf(sp, J, <<j>>)
  <2>1. IsSeq(<<j>>) /\ ToSet(<<j>>) = {j}
    BY OneElement
  <2> QED BY <2>1 DEF MadeOf
<1> QED BY <1>1, <1>2, <1>3

\* What all plans have: the CASE steps, the aggregation, what follows it.
LEMMA MadeParts ==
    ASSUME NEW sp, SpecShape(sp), NEW J
    PROVE  /\ MadeOf(sp, J, PreCases(sp)) /\ MadeOf(sp, J, PostCases(sp))
           /\ \A t, valid : MadeOf(sp, J, Aggregate(sp, t, {s.alias : s \in ToSet(PreCases(sp))}, valid))
           /\ \A t : MadeOf(sp, J, WindowStep(sp, t))
           /\ \A c : MadeOf(sp, J, When(c, AfterWindow(sp)))
           /\ \A t, o, d : MadeOf(sp, J, <<Project(sp, t, o, d)>>)
           /\ MadeOf(sp, J, SortAndLimit(sp))
<1>1. \A K \in {{"case"}, {"window"}, {"filter"}, {"project"}, {"sort", "limit"}} : K \subseteq Plain
  BY DEF Plain
<1>2. ASSUME NEW t, NEW valid PROVE MadeOf(sp, J, Aggregate(sp, t, {s.alias : s \in ToSet(PreCases(sp))}, valid))
  <2>1. IsSeq(Aggregate(sp, t, {s.alias : s \in ToSet(PreCases(sp))}, valid))
    BY TailsReadNothing DEF NoReads
  <2> QED BY <2>1 DEF MadeOf
<1>3. MadeOf(sp, J, PreCases(sp)) /\ MadeOf(sp, J, PostCases(sp))
  BY <1>1, CaseKinds, MadePut
<1>4. /\ \A t : MadeOf(sp, J, WindowStep(sp, t))
      /\ \A c : MadeOf(sp, J, When(c, AfterWindow(sp)))
      /\ \A t, o, d : MadeOf(sp, J, <<Project(sp, t, o, d)>>)
      /\ MadeOf(sp, J, SortAndLimit(sp))
  BY <1>1, TailKinds, MadePut
<1> QED BY <1>2, <1>3, <1>4

\* The end of a plan of one table or one join.
LEMMA MadeTail ==
    ASSUME NEW sp, SpecShape(sp), NEW J, NEW a, MadeOf(sp, J, a), NEW primary, NEW w, NEW p, NEW o, NEW d
    PROVE  MadeOf(sp, J, a \o PreCases(sp) \o Aggregate(sp, primary, {s.alias : s \in ToSet(PreCases(sp))}, AnyTable)
                           \o PostCases(sp) \o WindowStep(sp, w) \o When(WindowStep(sp, w) # <<>>, AfterWindow(sp))
                           \o <<Project(sp, p, o, d)>> \o SortAndLimit(sp))
<1> DEFINE b == PreCases(sp)
           c == Aggregate(sp, primary, {s.alias : s \in ToSet(PreCases(sp))}, AnyTable)
           e == PostCases(sp)
           f == WindowStep(sp, w)
           g == When(f # <<>>, AfterWindow(sp))
           h == <<Project(sp, p, o, d)>>
           k == SortAndLimit(sp)
<1>1. /\ MadeOf(sp, J, b) /\ MadeOf(sp, J, c) /\ MadeOf(sp, J, e) /\ MadeOf(sp, J, f) /\ MadeOf(sp, J, g)
      /\ MadeOf(sp, J, h) /\ MadeOf(sp, J, k)
  BY MadeParts
<1> HIDE DEF b, c, e, f, g, h, k
<1>2. MadeOf(sp, J, a \o b \o c \o e)
  BY <1>1, MadePut
<1>3. MadeOf(sp, J, a \o b \o c \o e \o f \o g \o h \o k)
  BY <1>1, <1>2, MadePut
<1> QED BY <1>3 DEF b, c, e, f, g, h, k

\* What plans begin with: scans, the filters of a table, the time range.
LEMMA MadeHead ==
    ASSUME NEW sp, SpecShape(sp), SoundTables(sp.tables), NEW J
    PROVE  /\ \A x, c : MadeOf(sp, J, <<Scan(x, c)>>)
           /\ \A x, y, c, d : MadeOf(sp, J, <<Scan(x, c), Scan(y, d)>>)
           /\ \A t \in ToSet(sp.tables) : \A x \in Under(t.alias) : MadeOf(sp, J, TableFilters(t, x))
           /\ \A x : MadeOf(sp, J, TimeRange(sp, x))
<1>1. \A x, c : Scan(x, c).op \in {"scan"}
  BY StepKinds
<1>2. {"scan"} \subseteq Plain /\ {"filter"} \subseteq Plain
  BY DEF Plain
<1>3. \A x, c : MadeOf(sp, J, <<Scan(x, c)>>)
  BY <1>1, <1>2, KindsPut, MadePut
<1>4. ASSUME NEW x, NEW y, NEW c, NEW d PROVE MadeOf(sp, J, <<Scan(x, c), Scan(y, d)>>)
  <2>1. IsSeq(<<Scan(x, c), Scan(y, d)>>) /\ ToSet(<<Scan(x, c), Scan(y, d)>>) = {Scan(x, c), Scan(y, d)}
    BY TwoElements
  <2> QED BY <1>1, <1>2, <2>1 DEF MadeOf
<1>5. ASSUME NEW t \in ToSet(sp.tables), NEW x \in Under(t.alias) PROVE MadeOf(sp, J, TableFilters(t, x))
  <2>1. OfKinds({"filter"}, TableFilters(t, x))
    BY TableChecked DEF OfKinds
  <2> QED BY <1>2, <2>1, MadePut
<1>6. ASSUME NEW x PROVE MadeOf(sp, J, TimeRange(sp, x))
  <2> DEFINE g == TimeRange(sp, x)
  <2>1. OfKinds({"filter"}, g)
    BY TimeRangeFilters DEF OfKinds
  <2> HIDE DEF g
  <2>2. MadeOf(sp, J, g)
    BY <1>2, <2>1, MadePut
  <2> QED BY <2>2 DEF g
<1> QED BY <1>3, <1>4, <1>5, <1>6

\* The plan of one table.
LEMMA SingleTableMade ==
    ASSUME NEW sp, SpecShape(sp), SoundTables(sp.tables)
    PROVE  MadeOf(sp, {}, SingleTable(sp).steps)
<1> DEFINE t == sp.tables[1]
           agg == Aggregate(sp, t.alias, {s.alias : s \in ToSet(PreCases(sp))}, AnyTable)
           plan(cols, drop, p) ==
                <<Scan(t.alias, cols)>> \o TableFilters(t, t.alias) \o TimeRange(sp, t.alias)
                \o PreCases(sp) \o agg \o PostCases(sp)
                \o WindowStep(sp, t.alias) \o When(WindowStep(sp, t.alias) # <<>>, AfterWindow(sp))
                \o <<Project(sp, p, NoOverrides, drop)>> \o SortAndLimit(sp)
<1>1. t \in ToSet(sp.tables) /\ t.alias \in Under(t.alias)
  <2>1. IsSeq(sp.tables) /\ sp.tables # <<>> /\ Len(sp.tables) \in Nat
    BY ElementsOf DEF SoundTables
  <2>2. 1 \in 1..Len(sp.tables)
    BY <2>1 DEF IsSeq
  <2> QED BY <2>1, <2>2, ElementsOf DEF Under
<1>2. SingleTable(sp) = Failed \/ \E cols, drop, p : SingleTable(sp) = Built(plan(cols, drop, p))
  BY ZenonT(20) DEF SingleTable
<1> HIDE DEF t
<1>3. ASSUME NEW cols, NEW drop, NEW p PROVE MadeOf(sp, {}, plan(cols, drop, p))
  <2> DEFINE a == <<Scan(t.alias, cols)>>
             f == TableFilters(t, t.alias)
             g == TimeRange(sp, t.alias)
  <2>1. MadeOf(sp, {}, a) /\ MadeOf(sp, {}, f) /\ MadeOf(sp, {}, g)
    BY <1>1, MadeHead
  <2> HIDE DEF a, f, g
  <2>2. MadeOf(sp, {}, a \o f \o g)
    BY <2>1, MadePut
  <2> QED BY <2>2, MadeTail DEF a, f, g
<1>4. Failed.steps = <<>> /\ \A s : Built(s).steps = s
  BY DEF Failed, Built
<1>5. MadeOf(sp, {}, <<>>)
  BY NoElement DEF MadeOf
<1> HIDE DEF plan
<1> QED BY <1>2, <1>3, <1>4, <1>5

\* The plan of one join.
LEMMA OneJoinMade ==
    ASSUME NEW sp, SpecShape(sp), SoundTables(sp.tables), NEW hop, {hop.left, hop.right} \subseteq TableNames(sp)
    PROVE  \E l \in Under(hop.left), r \in Under(hop.right) : MadeOf(sp, {JoinStep(l, r, hop)}, OneJoin(sp, hop).steps)
<1> DEFINE self == hop.left = hop.right
           l == IF self THEN SelfLeft(hop.left) ELSE hop.left
           r == IF self THEN SelfRight(hop.right) ELSE hop.right
           lt == TableNamed(sp, hop.left)
           rt == TableNamed(sp, hop.right)
           j == JoinStep(l, r, hop)
           agg(primary) == Aggregate(sp, primary, {s.alias : s \in ToSet(PreCases(sp))}, AnyTable)
           plan(cl, cr, drop, primary) ==
                <<Scan(l, cl), Scan(r, cr)>> \o TableFilters(lt, l) \o TableFilters(rt, r) \o TimeRange(sp, l) \o <<j>>
                \o PreCases(sp) \o agg(primary) \o PostCases(sp)
                \o WindowStep(sp, "") \o When(WindowStep(sp, "") # <<>>, AfterWindow(sp))
                \o <<Project(sp, primary, NoOverrides, drop)>> \o SortAndLimit(sp)
<1>1. lt \in ToSet(sp.tables) /\ lt.alias = hop.left /\ rt \in ToSet(sp.tables) /\ rt.alias = hop.right
  BY NamedTable
<1>2. l \in Under(hop.left) /\ r \in Under(hop.right)
  BY DEF Under
<1>3. OneJoin(sp, hop) = Failed \/ \E cl, cr, drop, primary : OneJoin(sp, hop) = Built(plan(cl, cr, drop, primary))
  <2> DEFINE cl == RequiredColumns(sp, l, lt) \cup DerivedColumns(sp, l)
             cr == RequiredColumns(sp, r, rt) \cup DerivedColumns(sp, r)
             drop == IF sp.ratios = <<>> THEN WindowAliases(WindowStep(sp, "")) \cup {x.out : x \in ToSet(sp.labels)} ELSE {}
             primary == IF self THEN l ELSE ""
  <2>1. OneJoin(sp, hop) = IF ~CanBuild(sp) THEN Failed ELSE Built(plan(cl, cr, drop, primary))
    BY Zenon DEF OneJoin
  <2> HIDE DEF cl, cr, drop, primary, plan
  <2> QED BY <2>1, Zenon
<1> HIDE DEF l, r, lt, rt, j
<1>4. ASSUME NEW cl, NEW cr, NEW drop, NEW primary PROVE MadeOf(sp, {j}, plan(cl, cr, drop, primary))
  <2> DEFINE a == <<Scan(l, cl), Scan(r, cr)>>
             f == TableFilters(lt, l)
             g == TableFilters(rt, r)
             h == TimeRange(sp, l)
             k == <<j>>
  <2>1. MadeOf(sp, {j}, a) /\ MadeOf(sp, {j}, f) /\ MadeOf(sp, {j}, g) /\ MadeOf(sp, {j}, h)
    BY <1>1, <1>2, MadeHead
  <2>2. MadeOf(sp, {j}, k)
    BY MadePut
  <2> HIDE DEF a, f, g, h, k
  <2>3. MadeOf(sp, {j}, a \o f \o g \o h \o k)
    BY <2>1, <2>2, MadePut
  <2> QED BY <2>3, MadeTail DEF a, f, g, h, k
<1>5. Failed.steps = <<>> /\ \A s : Built(s).steps = s
  BY DEF Failed, Built
<1>6. MadeOf(sp, {j}, <<>>)
  BY NoElement DEF MadeOf
<1> HIDE DEF plan
<1>7. MadeOf(sp, {j}, OneJoin(sp, hop).steps)
  BY <1>3, <1>4, <1>5, <1>6
<1> QED BY <1>2, <1>7 DEF j

\* If no join but one may be among them, none but that is.
LEMMA MadeJoins == ASSUME NEW sp, NEW j, NEW J, J \subseteq {j}, NEW s, SpecShape(sp), MadeOf(sp, J, s) PROVE JoinsOnly(s, j)
<1>1. \A primary, valid :
          \A e \in ToSet(Aggregate(sp, primary, {x.alias : x \in ToSet(PreCases(sp))}, valid)) : e.op # "join"
  BY TailsReadNothing DEF NoReads
<1> QED BY <1>1 DEF MadeOf, Plain, JoinsOnly

(* The i-th plan of a chain joins the table its hop leads to: the first to   *)
(* the hop's other table, the others to the temp of the plan before.  All    *)
(* but the last pass on what the tables joined so far declare.               *)
LEMMA ChainStepMade ==
    ASSUME NEW sp, SpecShape(sp), SoundTables(sp.tables), NEW chain, NEW i \in Nat \ {0},
           {chain[i].left, chain[i].right} \subseteq TableNames(sp)
    PROVE  /\ \E l, r : /\ MadeOf(sp, {JoinStep(l, r, chain[i])}, ChainStep(sp, chain, i).steps)
                        /\ r \in Under(chain[i].right)
                        /\ i = 1 => l \in Under(chain[i].left)
                        /\ i # 1 => l = ChainTemp(i - 1)
           /\ i # Len(chain) =>
                \E p : IsSeq(p) /\ ChainStep(sp, chain, i).steps = p \o <<Through(sp, Joined(chain, i))>>
<1> DEFINE hop == chain[i]
           self == i = 1 /\ hop.left = hop.right
           l == IF i > 1 THEN ChainTemp(i - 1) ELSE IF self THEN SelfLeft(hop.left) ELSE hop.left
           r == IF self THEN SelfRight(hop.right) ELSE hop.right
           lt == TableNamed(sp, hop.left)
           rt == TableNamed(sp, hop.right)
           j == JoinStep(l, r, hop)
           f == When(i = 1, TableFilters(lt, l))
           g == TableFilters(rt, r)
           source(cl, cr) == <<Scan(l, cl), Scan(r, cr)>> \o f \o g \o <<j>>
           window == WindowStep(sp, l)
           tail(pre, o, d) ==
                PreCases(sp) \o Aggregate(sp, l, pre, {r}) \o PostCases(sp)
                \o When(sp.ratios = <<>>, window \o When(window # <<>>, AfterWindow(sp)))
                \o <<Project(sp, l, o, d)>> \o SortAndLimit(sp)
           joined == Joined(chain, i)
           left == IF i = 1 THEN RequiredColumns(sp, l, lt) \cup {hop.lk}
                   ELSE ToSet(DeclaredColumns(sp, Front(joined)))
           right == RequiredColumns(sp, r, rt) \cup {hop.rk}
           through == Through(sp, joined)
           pre1 == {s.alias : s \in ToSet(PreCases(sp))}
           named == {d \in ToSet(sp.dims) : d.table # ""}
           overrides == [n \in {d.name : d \in named} |-> IF Last(DimsNamed(sp, n)).table = r THEN r ELSE l]
           final == i = Len(chain)
<1>1. MadeOf(sp, {j}, Failed.steps)
  BY NoElement DEF Failed, MadeOf
<1>2. ChainStep(sp, chain, i) =
          IF final /\ ~CanBuild(sp) THEN Failed
          ELSE Built(source(left, right) \o (IF final THEN tail(pre1, overrides, WindowAliases(window)) ELSE <<through>>))
  BY Zenon DEF ChainStep, Joined, Through
<1>3. \A s : Built(s).steps = s
  BY DEF Built
<1>4. through.op = "project"
  BY DEF Through
<1> HIDE DEF left, right, joined, pre1, named, overrides, through
<1>5. lt \in ToSet(sp.tables) /\ lt.alias = hop.left /\ rt \in ToSet(sp.tables) /\ rt.alias = hop.right
  BY NamedTable
<1>6. r \in Under(hop.right) /\ (i = 1 => l \in Under(hop.left)) /\ (i # 1 => l = ChainTemp(i - 1))
  BY DEF Under
<1> HIDE DEF hop, l, r, lt, rt, j
<1>7. ASSUME NEW cl, NEW cr PROVE MadeOf(sp, {j}, source(cl, cr))
  <2> DEFINE a == <<Scan(l, cl), Scan(r, cr)>>
             k == <<j>>
  <2>1. MadeOf(sp, {j}, a) /\ MadeOf(sp, {j}, k)
    BY MadeHead, MadePut
  <2>2. MadeOf(sp, {j}, g)
    BY <1>5, <1>6, MadeHead
  <2>3. MadeOf(sp, {j}, f)
    <3>1. CASE i = 1
      <4>1. f = TableFilters(lt, l)
        BY <3>1 DEF When
      <4>2. MadeOf(sp, {j}, TableFilters(lt, l))
        BY <1>5, <1>6, <3>1, MadeHead
      <4> QED BY <4>1, <4>2
    <3>2. CASE i # 1
      <4>1. f = <<>>
        BY <3>2 DEF When
      <4> QED BY <4>1, NoElement DEF MadeOf
    <3> QED BY <3>1, <3>2
  <2> HIDE DEF a, k, f, g
  <2>4. MadeOf(sp, {j}, a \o f \o g \o k)
    BY <2>1, <2>2, <2>3, MadePut
  <2> QED BY <2>4 DEF a, k
<1>8. ASSUME NEW o, NEW d PROVE MadeOf(sp, {j}, tail(pre1, o, d))
  <2> DEFINE a == PreCases(sp)
             b == Aggregate(sp, l, {s.alias : s \in ToSet(PreCases(sp))}, {r})
             e == PostCases(sp)
             c == When(window # <<>>, AfterWindow(sp))
             p == <<Project(sp, l, o, d)>>
             w == When(sp.ratios = <<>>, window \o c)
             k == SortAndLimit(sp)
  <2>1. /\ MadeOf(sp, {j}, a) /\ MadeOf(sp, {j}, b) /\ MadeOf(sp, {j}, e) /\ MadeOf(sp, {j}, window)
        /\ MadeOf(sp, {j}, c) /\ MadeOf(sp, {j}, p) /\ MadeOf(sp, {j}, k)
    BY MadeParts
  <2> HIDE DEF a, b, c, e, k, p, window
  <2>2. MadeOf(sp, {j}, w)
    <3>1. w = window \o c \/ w = <<>>
      BY DEF When
    <3> HIDE DEF w
    <3>2. MadeOf(sp, {j}, window \o c)
      BY <2>1, MadePut
    <3>3. MadeOf(sp, {j}, <<>>)
      BY NoElement DEF MadeOf
    <3> QED BY <3>1, <3>2, <3>3
  <2> HIDE DEF w
  <2>3. MadeOf(sp, {j}, a \o b \o e)
    BY <2>1, MadePut
  <2>4. MadeOf(sp, {j}, a \o b \o e \o w \o p \o k)
    BY <2>1, <2>2, <2>3, MadePut
  <2> QED BY <2>4 DEF a, b, c, e, k, p, w, pre1
<1>9. MadeOf(sp, {j}, <<through>>)
  <2>1. OfKinds({"project"}, <<through>>) /\ {"project"} \subseteq Plain
    BY <1>4, KindsPut DEF Plain
  <2> QED BY <2>1, MadePut
<1> HIDE DEF source, tail, window, final
<1> DEFINE end == IF final THEN tail(pre1, overrides, WindowAliases(window)) ELSE <<through>>
<1>10. MadeOf(sp, {j}, end)
  BY <1>8, <1>9
<1> HIDE DEF end
<1>11. MadeOf(sp, {j}, source(left, right) \o end)
  BY <1>7, <1>10, MadePut
<1>12. MadeOf(sp, {j}, ChainStep(sp, chain, i).steps)
  BY <1>1, <1>2, <1>3, <1>11 DEF end
<1>13. ~final => IsSeq(source(left, right)) /\ ChainStep(sp, chain, i).steps = source(left, right) \o <<through>>
  BY <1>2, <1>3, <1>7 DEF MadeOf
<1>14. i # Len(chain) => \E p : IsSeq(p) /\ ChainStep(sp, chain, i).steps = p \o <<Through(sp, Joined(chain, i))>>
  BY <1>13, Zenon DEF final, through, joined
<1>15. \E x, y : /\ MadeOf(sp, {JoinStep(x, y, chain[i])}, ChainStep(sp, chain, i).steps)
                 /\ y \in Under(chain[i].right)
                 /\ i = 1 => x \in Under(chain[i].left)
                 /\ i # 1 => x = ChainTemp(i - 1)
  <2>1. /\ MadeOf(sp, {JoinStep(l, r, chain[i])}, ChainStep(sp, chain, i).steps)
        /\ r \in Under(chain[i].right)
        /\ i = 1 => l \in Under(chain[i].left)
        /\ i # 1 => l = ChainTemp(i - 1)
    BY <1>6, <1>12 DEF j, hop
  <2> QED BY <2>1
<1> QED BY <1>14, <1>15

---------------------------------------------------------------------------
(* Join candidates whose left key is a column of the left table; the temps   *)
(* of a chain have names.                                                    *)
HopFits(s, h) == {h.left, h.right} \subseteq TableNames(s) /\ h.lk \in ToSet(ColumnsOf(TableNamed(s, h.left)))
HopsFitted(s, H) == IsSeq(H) /\ \A h \in ToSet(H) : HopFits(s, h)
TempsNamed == \A i \in Nat \ {0} : ChainTemp(i) # ""

\* A name a table has in a join is known, and if it names a table, then that one.
LEMMA NamesKnown ==
    ASSUME NEW sp, SoundTables(sp.tables), NEW a \in TableNames(sp), NEW x \in Under(a)
    PROVE  x \in SideNames(sp) /\ (x \in TableNames(sp) => TableNamed(sp, x) = TableNamed(sp, a))
<1>1. x \in SideNames(sp)
  BY DEF Under, SideNames
<1>2. ASSUME x \in TableNames(sp) PROVE TableNamed(sp, x) = TableNamed(sp, a)
  <2>1. /\ TableNamed(sp, a) \in ToSet(sp.tables) /\ TableNamed(sp, a).alias = a
        /\ TableNamed(sp, x) \in ToSet(sp.tables) /\ TableNamed(sp, x).alias = x
    BY <1>2, NamedTable
  <2>2. x \in Under(x)
    BY DEF Under
  <2>3. Under(TableNamed(sp, x).alias) \cap Under(TableNamed(sp, a).alias) # {}
    BY <2>1, <2>2
  <2> QED BY <2>1, <2>3 DEF SoundTables
<1> QED BY <1>1, <1>2

\* A hop is told from its left table.
LEMMA HopTellable ==
    ASSUME NEW sp, SoundTables(sp.tables), NEW hop, HopFits(sp, hop), NEW l \in Under(hop.left), NEW lineage
    PROVE  Tellable(sp, lineage, l, hop.lk)
<1>1. l \in SideNames(sp) /\ (l \in TableNames(sp) => TableNamed(sp, l) = TableNamed(sp, hop.left))
  BY NamesKnown DEF HopFits
<1>2. Ref(l, hop.lk).t = l /\ Ref(l, hop.lk).c = hop.lk
  BY DEF Ref
<1> QED BY <1>1, <1>2 DEF Tellable, Column, HopFits

\* A plan that joins one pair of names at most.
LEMMA OneToldJoin ==
    ASSUME NEW sp, NEW lineage, Telling(sp, lineage), NEW hop, NEW l, NEW r, r \in SideNames(sp), Tellable(sp, lineage, l, hop.lk),
           NEW plan, JoinsOnly(plan.steps, JoinStep(l, r, hop))
    PROVE  TracedJoins(sp, JoinsIn(plan, lineage))
<1>1. JoinTraced(sp, JoinTold(JoinStep(l, r, hop), lineage))
  BY ToldJoin
<1> QED BY <1>1, ToldJoins DEF JoinsOnly

\* A plan that joins nothing.
LEMMA NoToldJoin ==
    ASSUME NEW sp, NEW lineage, NEW plan, \A j : JoinsOnly(plan.steps, j)
    PROVE  TracedJoins(sp, JoinsIn(plan, lineage))
<1>1. JoinsOnly(plan.steps, 0) /\ JoinsOnly(plan.steps, 1)
  OBVIOUS
<1>2. IsSeq(plan.steps) /\ \A e \in ToSet(plan.steps) : e.op # "join"
  BY <1>1 DEF JoinsOnly
<1> QED BY <1>2, ToldJoins

\* The one plan of a request tells the join it makes.
LEMMA SinglePlanTold ==
    ASSUME NEW sp, SpecShape(sp), SoundTables(sp.tables), NEW H, HopsFitted(sp, H)
    PROVE  TracedJoins(sp, JoinsIn(SinglePlan(sp, H), <<>>))
<1> DEFINE plan == SinglePlan(sp, H)
<1>1. CASE plan.steps = SingleTable(sp).steps
  <2>1. \A j : JoinsOnly(SingleTable(sp).steps, j)
    BY SingleTableMade, MadeJoins
  <2> QED BY <1>1, <2>1, NoToldJoin
<1>2. CASE plan.steps = Failed.steps
  <2>1. \A j : JoinsOnly(Failed.steps, j)
    BY NoElement DEF Failed, JoinsOnly
  <2> QED BY <1>2, <2>1, NoToldJoin
<1>3. CASE H # <<>> /\ plan.steps = OneJoin(sp, H[1]).steps
  <2>1. HopFits(sp, H[1])
    <3>1. 1 \in 1..Len(H)
      <4>1. H \in Seq(ToSet(H))
        BY ElementsOf DEF HopsFitted
      <4> QED BY <1>3, <4>1
    <3> QED BY <3>1, ElementsOf DEF HopsFitted
  <2>2. PICK l \in Under(H[1].left), r \in Under(H[1].right) : JoinsOnly(OneJoin(sp, H[1]).steps, JoinStep(l, r, H[1]))
    BY <2>1, OneJoinMade, MadeJoins DEF HopFits
  <2>3. r \in SideNames(sp)
    BY <2>1, NamesKnown DEF HopFits
  <2>4. Tellable(sp, <<>>, l, H[1].lk)
    BY <2>1, HopTellable
  <2>5. Telling(sp, <<>>)
    BY DEF Telling
  <2> QED BY <1>3, <2>2, <2>3, <2>4, <2>5, OneToldJoin
<1> QED BY <1>1, <1>2, <1>3, SinglePlanIs

---------------------------------------------------------------------------
(* The contract of a program, statement by statement.                        *)
Nothing == [joins |-> <<>>, keys |-> <<>>, outs |-> <<>>, lineage |-> <<>>]
ExtractedUpTo(u, S, timed) == u = [i \in 0..Len(S) |-> IF i = 0 THEN Nothing ELSE Adding(u[i-1], S[i], timed)]

\* It can be told so.
LEMMA ExtractionExists ==
    ASSUME NEW S, IsSeq(S), NEW timed
    PROVE  \E u : ExtractedUpTo(u, S, timed)
<1> DEFINE n == Len(S)
           upto(f, i) == f = [j \in 0..i |-> IF j = 0 THEN Nothing ELSE Adding(f[j-1], S[j], timed)]
           P == {i \in 0..n : \E f : upto(f, i)}
<1>1. n \in Nat
  BY ElementsOf
<1>2. 0 \in P
  <2> DEFINE f == [j \in 0..0 |-> Nothing]
  <2>1. f = [j \in 0..0 |-> IF j = 0 THEN Nothing ELSE Adding(f[j-1], S[j], timed)]
    <3>1. \A j \in 0..0 : j = 0
      OBVIOUS
    <3> QED BY <3>1
  <2>2. upto(f, 0)
    BY <2>1
  <2> HIDE DEF f
  <2>3. \E h : upto(h, 0)
    BY <2>2
  <2>4. 0 \in 0..n
    BY <1>1
  <2> HIDE DEF upto
  <2> QED BY <2>3, <2>4
<1>3. ASSUME NEW i \in 1..n, i - 1 \in P PROVE i \in P
  <2>1. PICK f : upto(f, i - 1)
    BY <1>3
  <2> DEFINE g == [j \in 0..i |-> IF j = i THEN Adding(f[i-1], S[i], timed) ELSE f[j]]
  <2>2. ASSUME NEW j \in 0..i PROVE g[j] = IF j = 0 THEN Nothing ELSE Adding(g[j-1], S[j], timed)
    <3>1. CASE j = i
      <4>1. i - 1 \in 0..i /\ i - 1 # i /\ i # 0
        OBVIOUS
      <4>2. g[j] = Adding(f[i-1], S[i], timed) /\ g[i-1] = f[i-1]
        BY <3>1, <4>1
      <4> QED BY <3>1, <4>1, <4>2
    <3>2. CASE j # i
      <4>1. j \in 0..(i-1)
        BY <3>2
      <4>2. f[j] = IF j = 0 THEN Nothing ELSE Adding(f[j-1], S[j], timed)
        BY <2>1, <4>1
      <4>3. g[j] = f[j]
        BY <3>2
      <4>4. CASE j = 0
        BY <4>2, <4>3, <4>4
      <4>5. CASE j # 0
        <5>1. j - 1 \in 0..i /\ j - 1 # i
          BY <4>1, <4>5
        <5>2. g[j-1] = f[j-1]
          BY <5>1
        <5> QED BY <4>2, <4>3, <4>5, <5>2
      <4> QED BY <4>4, <4>5
    <3> QED BY <3>1, <3>2
  <2>3. g = [j \in 0..i |-> g[j]]
    OBVIOUS
  <2> HIDE DEF g
  <2>4. upto(g, i)
    BY <2>2, <2>3
  <2> QED BY <2>4
<1>4. n \in P
  <2> HIDE DEF P
  <2>1. \A i \in 0..n : i \in P
    BY <1>1, <1>2, <1>3, Induct
  <2> QED BY <1>1, <2>1
<1> QED BY <1>4 DEF ExtractedUpTo

\* The joins of a contract, and what they are made of.
LEMMA ExtractedJoins ==
    ASSUME NEW p, IsSeq(p.statements), NEW timed
    PROVE  \E u : /\ u[0] = Nothing
                  /\ \A i \in 1..Len(p.statements) : u[i] = Adding(u[i-1], p.statements[i], timed)
                  /\ Extracted(p, timed).joins = u[Len(p.statements)].joins
<1> DEFINE S == p.statements
           u == CHOOSE f : ExtractedUpTo(f, S, timed)
<1>1. ExtractedUpTo(u, S, timed)
  BY ExtractionExists
<1>2. Len(S) \in Nat
  BY ElementsOf
<1>3. Extracted(p, timed) = IF S = <<>> THEN NoContract ELSE Gathered(u[Len(S)], SeqMap(LAMBDA s : PartOf(s, timed), S))
  BY DEF Extracted, ExtractedUpTo, Nothing
<1> HIDE DEF u
<1>4. \A i \in 0..Len(S) : u[i] = IF i = 0 THEN Nothing ELSE Adding(u[i-1], S[i], timed)
  BY <1>1 DEF ExtractedUpTo
<1>5. u[0] = Nothing /\ \A i \in 1..Len(S) : u[i] = Adding(u[i-1], S[i], timed)
  BY <1>2, <1>4
<1>6. \A all, parts : Gathered(all, parts).joins = all.joins
  BY DEF Gathered
<1>7. Extracted(p, timed).joins = u[Len(S)].joins
  <2>1. CASE S = <<>>
    <3>1. Len(S) = 0
      BY <2>1, NoElement
    <3> QED BY <1>3, <1>5, <2>1, <3>1 DEF NoContract, Nothing
  <2>2. CASE S # <<>>
    BY <1>3, <1>6, <2>2
  <2> QED BY <2>1, <2>2
<1> QED BY <1>5, <1>7

\* A program of one statement tells what its plan does.
LEMMA OneStatementTold ==
    ASSUME NEW sp, NEW p, IsSeq(p.statements), Len(p.statements) = 1, NEW timed,
           TracedJoins(sp, JoinsIn(p.statements[1].plan, <<>>))
    PROVE  TracedJoins(sp, Extracted(p, timed).joins)
<1>1. PICK u : /\ u[0] = Nothing
               /\ \A i \in 1..Len(p.statements) : u[i] = Adding(u[i-1], p.statements[i], timed)
               /\ Extracted(p, timed).joins = u[Len(p.statements)].joins
  BY ExtractedJoins
<1>2. u[1] = Adding(u[0], p.statements[1], timed) /\ Extracted(p, timed).joins = u[1].joins
  <2>1. 1 \in 1..Len(p.statements) /\ 1 - 1 = 0
    OBVIOUS
  <2> QED BY <1>1, <2>1
<1>3. u[0].joins = <<>> /\ u[0].lineage = <<>>
  BY <1>1 DEF Nothing
<1>4. Extracted(p, timed).joins = <<>> \o JoinsIn(p.statements[1].plan, <<>>)
  BY <1>2, <1>3 DEF Adding
<1> DEFINE J == JoinsIn(p.statements[1].plan, <<>>)
<1> HIDE DEF J
<1>5. IsSeq(<<>> \o J) /\ ToSet(<<>> \o J) = ToSet(<<>>) \cup ToSet(J)
  BY NoElement, CatElements DEF TracedJoins, J
<1> QED BY <1>4, <1>5, NoElement DEF TracedJoins, J

\* The statements of a chain.
LEMMA ChainStatements ==
    ASSUME NEW P, IsSeq(P)
    PROVE  LET S == ChainProgram(P).statements
           IN  /\ IsSeq(S) /\ Len(S) = Len(P)
               /\ \A i \in 1..Len(P) : S[i].plan = P[i] /\ S[i].produces = IF i = Len(P) THEN "" ELSE ChainTemp(i)
<1> DEFINE n == Len(P)
           statement(i) == [id |-> P[i].id, plan |-> P[i],
                            kind |-> IF i = n THEN "FINAL" ELSE "PRODUCER",
                            deps |-> IF i = 1 THEN <<>> ELSE <<P[i-1].id>>,
                            produces |-> IF i = n THEN "" ELSE ChainTemp(i)]
           statements == [i \in 1..n |-> statement(i)]
<1>1. \E temps : ChainProgram(P) = FromStatements(statements, temps, P[n].id)
  BY Zenon DEF ChainProgram
<1>2. ChainProgram(P).statements = statements
  <2> HIDE DEF statements
  <2> QED BY <1>1 DEF FromStatements
<1>3. \A i \in 1..n : statements[i].plan = P[i] /\ statements[i].produces = IF i = n THEN "" ELSE ChainTemp(i)
  <2>1. \A i \in 1..n : statements[i] = statement(i)
    OBVIOUS
  <2>2. \A i : statement(i).plan = P[i] /\ statement(i).produces = IF i = n THEN "" ELSE ChainTemp(i)
    BY Zenon
  <2> HIDE DEF statements, statement
  <2> QED BY <2>1, <2>2
<1>4. DOMAIN statements = 1..n /\ statements = [i \in DOMAIN statements |-> statements[i]]
  BY Zenon
<1> HIDE DEF statements
<1>5. DOMAIN P = 1..n
  BY ElementsOf
<1>6. IsSeq(statements) /\ Len(statements) = n
  BY <1>4, <1>5, MapElements
<1> QED BY <1>2, <1>3, <1>6

\* The one statement of a single program.
LEMMA SingleStatement ==
    ASSUME NEW plan
    PROVE  LET S == SingleProgram(plan).statements IN IsSeq(S) /\ Len(S) = 1 /\ S[1].plan = plan
<1> DEFINE st == [id |-> plan.id, plan |-> plan, kind |-> "STANDALONE", deps |-> <<>>, produces |-> ""]
<1>1. SingleProgram(plan) = FromStatements(<<st>>, <<>>, plan.id)
  BY DEF SingleProgram
<1>2. st.plan = plan
  OBVIOUS
<1> HIDE DEF st
<1>3. SingleProgram(plan).statements = <<st>>
  BY <1>1 DEF FromStatements
<1>4. IsSeq(<<st>>) /\ Len(<<st>>) = 1 /\ <<st>>[1] = st
  BY OneElement
<1> QED BY <1>2, <1>3, <1>4

\* The tables joined by the first plans of a chain.
LEMMA JoinedElements ==
    ASSUME NEW chain, NEW i \in Nat
    PROVE  /\ IsSeq(Joined(chain, i))
           /\ ToSet(Joined(chain, i)) = {chain[1].left} \cup {chain[k].right : k \in 1..i}
<1> DEFINE a == <<chain[1].left>>
           b == [k \in 1..i |-> chain[k].right]
<1>1. IsSeq(a) /\ ToSet(a) = {chain[1].left}
  BY OneElement
<1>2. ToSet(b) = {chain[k].right : k \in 1..i}
  BY DEF ToSet
<1>3. b \in [1..i -> ToSet(b)]
  BY <1>2
<1>4. IsSeq(b)
  <2> HIDE DEF b
  <2>1. b \in Seq(ToSet(b))
    BY <1>3
  <2> QED BY <2>1 DEF IsSeq
<1> HIDE DEF a, b
<1>5. IsSeq(a \o b) /\ ToSet(a \o b) = ToSet(a) \cup ToSet(b)
  BY <1>1, <1>4, CatElements
<1> QED BY <1>1, <1>2, <1>5 DEF Joined, a, b

(* After i statements of a chain all joins are traced, and the temp of the   *)
(* last one stands for every column its tables declare.                      *)
ToldUpTo(sp, chain, c, i) ==
    /\ TracedJoins(sp, c.joins) /\ Telling(sp, c.lineage)
    /\ i \in 1..(Len(chain) - 1) =>
         /\ ChainTemp(i) \in DOMAIN c.lineage
         /\ \A a \in ToSet(Joined(chain, i)) :
                ToSet(ColumnsOf(TableNamed(sp, a))) \subseteq DOMAIN c.lineage[ChainTemp(i)]

\* Where a statement of a chain can stand.
LEMMA ChainIndex ==
    ASSUME NEW n \in Nat, NEW i \in 1..n
    PROVE  /\ i \in Nat \ {0} /\ 1 \in 1..n /\ \A k \in 1..i : k \in 1..n
           /\ i # 1 => i \in 2..n /\ i - 1 \in 1..(n - 1) /\ i - 1 \in Nat
           /\ i = n => i \notin 1..(n - 1)
  OBVIOUS

\* One statement more.
LEMMA ToldStep ==
    ASSUME NEW sp, SpecShape(sp), SoundTables(sp.tables), MarksApart(sp.tables), TempsNamed,
           NEW chain, HopsFitted(sp, chain), Grows(chain), NEW i \in 1..Len(chain),
           NEW c, ToldUpTo(sp, chain, c, i - 1), NEW timed,
           NEW s, s.plan.steps = ChainStep(sp, chain, i).steps, s.produces = IF i = Len(chain) THEN "" ELSE ChainTemp(i)
    PROVE  ToldUpTo(sp, chain, Adding(c, s, timed), i)
<1> DEFINE next == Adding(c, s, timed)
           hop == chain[i]
           J == JoinsIn(s.plan, c.lineage)
<1>1. Len(chain) \in Nat /\ i \in Nat \ {0} /\ \A k \in 1..Len(chain) : HopFits(sp, chain[k])
  <2>1. IsSeq(chain) /\ \A h \in ToSet(chain) : HopFits(sp, h)
    BY Zenon DEF HopsFitted
  <2>2. Len(chain) \in Nat /\ \A k \in 1..Len(chain) : chain[k] \in ToSet(chain)
    BY <2>1, ElementsOf
  <2> QED BY <2>1, <2>2, ChainIndex, Zenon
<1>2. next.joins = c.joins \o J /\ next.lineage = Recorded(s.produces, s.plan, c.lineage)
  BY DEF Adding
<1>3. PICK l, r : /\ JoinsOnly(s.plan.steps, JoinStep(l, r, hop)) /\ r \in Under(hop.right)
                  /\ i = 1 => l \in Under(hop.left)
                  /\ i # 1 => l = ChainTemp(i - 1)
  <2>1. {hop.left, hop.right} \subseteq TableNames(sp)
    BY <1>1 DEF HopFits
  <2>2. PICK l, r : /\ MadeOf(sp, {JoinStep(l, r, hop)}, ChainStep(sp, chain, i).steps) /\ r \in Under(hop.right)
                    /\ i = 1 => l \in Under(hop.left)
                    /\ i # 1 => l = ChainTemp(i - 1)
    BY <1>1, <2>1, ChainStepMade
  <2>3. JoinsOnly(s.plan.steps, JoinStep(l, r, hop))
    BY <2>2, MadeJoins
  <2> QED BY <2>2, <2>3
<1>4. Tellable(sp, c.lineage, l, hop.lk)
  <2>1. CASE i = 1
    BY <1>1, <1>3, <2>1, HopTellable
  <2>2. CASE i # 1
    <3>1. i \in 2..Len(chain) /\ i - 1 \in 1..(Len(chain) - 1) /\ i - 1 \in Nat
      BY <1>1, <2>2, ChainIndex, Zenon
    <3>2. hop.left \in ToSet(Joined(chain, i - 1))
      BY <3>1, JoinedElements DEF Grows
    <3>3. hop.lk \in ToSet(ColumnsOf(TableNamed(sp, hop.left)))
      BY <1>1 DEF HopFits
    <3>4. l \in DOMAIN c.lineage /\ hop.lk \in DOMAIN c.lineage[l]
      BY <1>3, <2>2, <3>1, <3>2, <3>3 DEF ToldUpTo
    <3> QED BY <3>4 DEF Tellable
  <2> QED BY <2>1, <2>2
<1>5. r \in SideNames(sp)
  BY <1>1, <1>3, NamesKnown DEF HopFits
<1>6. TracedJoins(sp, J)
  BY <1>3, <1>4, <1>5, OneToldJoin DEF ToldUpTo
<1>7. TracedJoins(sp, next.joins)
  <2>1. TracedJoins(sp, c.joins)
    BY DEF ToldUpTo
  <2> HIDE DEF J, next
  <2>2. IsSeq(c.joins \o J) /\ ToSet(c.joins \o J) = ToSet(c.joins) \cup ToSet(J)
    BY <1>6, <2>1, CatElements DEF TracedJoins
  <2> QED BY <1>2, <1>6, <2>1, <2>2 DEF TracedJoins
<1> HIDE DEF next, J
<1>8. CASE i = Len(chain)
  <2>1. next.lineage = c.lineage
    BY <1>2, <1>8 DEF Recorded
  <2>2. i \notin 1..(Len(chain) - 1)
    BY <1>1, <1>8, ChainIndex, Zenon
  <2> QED BY <1>7, <2>1, <2>2 DEF ToldUpTo, next
<1>9. CASE i # Len(chain)
  <2>1. PICK p : IsSeq(p) /\ s.plan.steps = p \o <<Through(sp, Joined(chain, i))>>
    <3>1. {hop.left, hop.right} \subseteq TableNames(sp)
      BY <1>1 DEF HopFits
    <3>2. \E p : IsSeq(p) /\ ChainStep(sp, chain, i).steps = p \o <<Through(sp, Joined(chain, i))>>
      BY <1>1, <1>9, <3>1, ChainStepMade
    <3> QED BY <3>2
  <2>2. IsSeq(Joined(chain, i)) /\ ToSet(Joined(chain, i)) \subseteq TableNames(sp)
    <3>1. 1 \in 1..Len(chain) /\ \A k \in 1..i : k \in 1..Len(chain)
      BY <1>1, ChainIndex, Zenon
    <3>2. chain[1].left \in TableNames(sp) /\ \A k \in 1..i : chain[k].right \in TableNames(sp)
      BY <1>1, <3>1 DEF HopFits
    <3>3. IsSeq(Joined(chain, i)) /\ ToSet(Joined(chain, i)) = {chain[1].left} \cup {chain[k].right : k \in 1..i}
      BY <1>1, JoinedElements
    <3> QED BY <3>2, <3>3
  <2>3. s.produces = ChainTemp(i) /\ ChainTemp(i) # ""
    BY <1>1, <1>9 DEF TempsNamed
  <2>4. Telling(sp, c.lineage)
    BY DEF ToldUpTo
  <2>5. /\ Telling(sp, next.lineage) /\ ChainTemp(i) \in DOMAIN next.lineage
        /\ \A a \in ToSet(Joined(chain, i)) : ToSet(ColumnsOf(TableNamed(sp, a))) \subseteq DOMAIN next.lineage[ChainTemp(i)]
    BY <1>2, <2>1, <2>2, <2>3, <2>4, RecordedThrough
  <2> QED BY <1>7, <2>5 DEF ToldUpTo, next
<1> QED BY <1>8, <1>9

\* The contract of a chain.
LEMMA ChainTold ==
    ASSUME NEW sp, SpecShape(sp), SoundTables(sp.tables), MarksApart(sp.tables), TempsNamed,
           NEW H, HopsFitted(sp, H), Grows(ChainOrder(H)), NEW timed
    PROVE  TracedJoins(sp, Extracted(ChainProgram(ChainPlans(sp, H)), timed).joins)
<1> DEFINE chain == ChainOrder(H)
           P == ChainPlans(sp, H)
           S == ChainProgram(P).statements
           n == Len(chain)
           plan(i) == [Plan("plan" \o ToString(i), ChainStep(sp, chain, i)) EXCEPT !.final = i = Len(chain)]
<1>1. IsSeq(chain) /\ ToSet(chain) \subseteq ToSet(H)
  BY ChainOrderHops DEF HopsFitted
<1>2. HopsFitted(sp, chain) /\ Grows(chain)
  BY <1>1 DEF HopsFitted
<1>3. DOMAIN chain = 1..n /\ n \in Nat
  BY <1>1, ElementsOf
<1>4. CASE n <= 1
  <2>1. P = <<SinglePlan(sp, H)>>
    BY <1>4 DEF ChainPlans
  <2>2. IsSeq(P) /\ Len(P) = 1 /\ P[1] = SinglePlan(sp, H) /\ 1 \in 1..Len(P)
    BY <2>1, OneElement
  <2>3. IsSeq(S) /\ Len(S) = 1 /\ S[1].plan = SinglePlan(sp, H)
    BY <2>2, ChainStatements
  <2>4. TracedJoins(sp, JoinsIn(SinglePlan(sp, H), <<>>))
    BY SinglePlanTold
  <2> HIDE DEF P
  <2> QED BY <2>3, <2>4, OneStatementTold DEF P
<1>5. CASE ~(n <= 1)
  <2>1. P = [i \in DOMAIN chain |-> plan(i)]
    BY <1>5 DEF ChainPlans
  <2>2. \A i : plan(i).steps = ChainStep(sp, chain, i).steps
    BY DEF Plan
  <2> HIDE DEF plan, chain, P
  <2>3. DOMAIN P = DOMAIN chain /\ P = [i \in DOMAIN P |-> P[i]]
    BY <2>1
  <2>4. IsSeq(P) /\ Len(P) = n
    BY <1>1, <2>3, MapElements
  <2>5. /\ IsSeq(S) /\ Len(S) = n
        /\ \A i \in 1..n : S[i].plan.steps = ChainStep(sp, chain, i).steps /\ S[i].produces = IF i = n THEN "" ELSE ChainTemp(i)
    <3>1. LET T == ChainProgram(P).statements
          IN  /\ IsSeq(T) /\ Len(T) = Len(P)
              /\ \A i \in 1..Len(P) : T[i].plan = P[i] /\ T[i].produces = IF i = Len(P) THEN "" ELSE ChainTemp(i)
      BY <2>4, ChainStatements
    <3>2. \A i \in 1..n : P[i].steps = ChainStep(sp, chain, i).steps
      BY <1>3, <2>1, <2>2
    <3> HIDE DEF n
    <3> QED BY <2>4, <3>1, <3>2
  <2>6. PICK u : /\ u[0] = Nothing
                 /\ \A i \in 1..n : u[i] = Adding(u[i-1], S[i], timed)
                 /\ Extracted(ChainProgram(P), timed).joins = u[n].joins
    <3> DEFINE p == ChainProgram(P)
    <3>1. IsSeq(p.statements) /\ Len(p.statements) = n
      BY <2>5
    <3> HIDE DEF p
    <3>2. \E u : /\ u[0] = Nothing
                 /\ \A i \in 1..Len(p.statements) : u[i] = Adding(u[i-1], p.statements[i], timed)
                 /\ Extracted(p, timed).joins = u[Len(p.statements)].joins
      BY <3>1, ExtractedJoins
    <3> QED BY <3>1, <3>2 DEF p
  <2> DEFINE I == {i \in 0..n : ToldUpTo(sp, chain, u[i], i)}
  <2>7. 0 \in I
    <3>1. u[0].joins = <<>> /\ u[0].lineage = <<>> /\ 0 \notin 1..(n - 1) /\ 0 \in 0..n
      BY <1>3, <2>6 DEF Nothing
    <3>2. TracedJoins(sp, <<>>)
      BY NoElement DEF TracedJoins
    <3>3. Telling(sp, <<>>)
      BY DEF Telling
    <3>4. ToldUpTo(sp, chain, u[0], 0)
      BY <3>1, <3>2, <3>3 DEF ToldUpTo
    <3> QED BY <3>1, <3>4
  <2>8. ASSUME NEW i \in 1..n, i - 1 \in I PROVE i \in I
    <3>1. ToldUpTo(sp, chain, u[i-1], i - 1) /\ i \in 0..n
      BY <1>3, <2>8
    <3>2. u[i] = Adding(u[i-1], S[i], timed)
      BY <2>6
    <3>3. S[i].plan.steps = ChainStep(sp, chain, i).steps /\ S[i].produces = IF i = Len(chain) THEN "" ELSE ChainTemp(i)
      BY <2>5
    <3> HIDE DEF S
    <3>4. ToldUpTo(sp, chain, Adding(u[i-1], S[i], timed), i)
      BY <1>2, <3>1, <3>3, ToldStep
    <3> QED BY <3>1, <3>2, <3>4
  <2>9. n \in I
    <3> HIDE DEF I, n
    <3>1. \A i \in 0..n : i \in I
      BY <1>3, <2>7, <2>8, Induct
    <3>2. n \in 0..n
      BY <1>3
    <3> QED BY <3>1, <3>2
  <2> QED BY <2>6, <2>9 DEF ToldUpTo, P
<1> QED BY <1>3, <1>4, <1>5

\* The contract of one plan.
LEMMA SingleTold ==
    ASSUME NEW sp, SpecShape(sp), SoundTables(sp.tables), NEW H, HopsFitted(sp, H), NEW timed
    PROVE  TracedJoins(sp, Extracted(SingleProgram(SinglePlan(sp, H)), timed).joins)
<1>1. LET S == SingleProgram(SinglePlan(sp, H)).statements
      IN  IsSeq(S) /\ Len(S) = 1 /\ S[1].plan = SinglePlan(sp, H)
  BY SingleStatement
<1>2. TracedJoins(sp, JoinsIn(SinglePlan(sp, H), <<>>))
  BY SinglePlanTold
<1> QED BY <1>1, <1>2, OneStatementTold

---------------------------------------------------------------------------
(* The key a join leaves its left table by is a column of it.  The parser    *)
(* does not ask for it; without it a program names a column that is absent.  *)
KeysDeclared(s) ==
    s.steps = <<>> =>
        \A j \in ToSet(s.joins) : j.lt \in TableNames(s) => j.lk \in ToSet(ColumnsOf(TableNamed(s, j.lt)))

(* Where a request without compute steps stands: its candidates are what the *)
(* planner made of an answer, and the program is made of them.               *)
ProgramOf(sp, H, p) == p = SingleProgram(SinglePlan(sp, H)) \/ p = ChainProgram(ChainPlans(sp, H))
HopsStand ==
    stage \in {"plan", "compile", "execute"} /\ spec.steps = <<>> =>
        \E answer \in Answers : hops = Hops(spec, model, answer)
ProgramStands == stage \in {"compile", "execute"} /\ spec.steps = <<>> => ProgramOf(spec, hops, program)
StepsStay == stage \in {"check", "build"} => spec.steps # <<>>
ProgramHeld == HopsStand /\ ProgramStands /\ StepsStay
JoinsHeld == KeysDeclared(spec) /\ ProgramHeld

\* What a step makes of the spec; what came in stays as it came.
LEMMA SpecBecomes ==
    ASSUME FiltersHeld, Next
    PROVE  /\ request' = request
           /\ \/ spec' = spec
              \/ spec' = Planned(spec, heard.plan)
              \/ \E e : Enrichment(e) /\ spec' = Applied(spec, e).spec
              \/ \E rules : IsSeq(rules) /\ spec' = WithLabels(spec, rules)
              \/ \E n : spec' = NotedBridge(spec, n)
<1>1. SpecShape(spec) /\ HeardShape(heard)
  BY HeardInShape DEF FiltersHeld, InShape
<1>2. CASE Require
  BY <1>2 DEF Require, Becomes, Ends
<1>3. CASE Enrich
  <2> DEFINE e == Enriched(spec, model, heard.enrich)
  <2>1. spec' = Applied(spec, e).spec /\ request' = request
    BY <1>3 DEF Enrich, Becomes
  <2>2. e = FakeEnriched(spec) \/ e = ParsedReply(spec, heard.enrich)
    BY Zenon DEF Enriched
  <2> HIDE DEF e
  <2>3. IsSeq(heard.enrich.metrics) /\ IsSeq(heard.enrich.after) /\ IsSeq(heard.enrich.rules)
    BY <1>1 DEF HeardShape
  <2>4. Enrichment(e)
    BY <1>1, <2>2, <2>3, FakeEnrichment, ParsedEnrichment
  <2> QED BY <2>1, <2>4
<1>4. CASE PrepareLabels
  <2>1. /\ request' = request
        /\ spec' = spec \/ \E rules \in {heard.extract.rules, <<>>} : spec' = WithLabels(spec, rules)
    BY <1>4 DEF PrepareLabels, Becomes, Ends
  <2>2. \A rules \in {heard.extract.rules, <<>>} : IsSeq(rules)
    BY <1>1, NoElement DEF HeardShape
  <2> QED BY <2>1, <2>2
<1>5. CASE BuildBridge
  BY <1>5, Zenon DEF BuildBridge
<1>6. CASE Parse \/ Settle
  BY <1>6 DEF Parse, Settle, Becomes, Ends
<1>7. CASE \E answer \in Answers : Relate(answer)
  BY <1>7 DEF Relate
<1>8. CASE CheckStep \/ SortSteps
  BY <1>8 DEF CheckStep, SortSteps, Ends
<1>9. CASE BuildNext
  BY <1>9, Zenon DEF BuildNext, Ends
<1>10. CASE Assemble \/ PlanChain \/ PlanOne \/ Compile
  BY <1>10 DEF Assemble, PlanChain, PlanOne, Compile, Compiles, Ends
<1> QED BY <1>2, <1>3, <1>4, <1>5, <1>6, <1>7, <1>8, <1>9, <1>10 DEF Next

\* No stage changes a table, and without compute steps none changes a join.
Same(s, q) == q.tables = s.tables /\ (q.steps = <<>> => s.steps = <<>> /\ q.joins = s.joins)
LEMMA SpecStays == ASSUME FiltersHeld, Next PROVE Same(spec, spec')
<1>1. SpecShape(spec) /\ IsSeq(heard.plan.metrics) /\ IsSeq(heard.plan.rules)
  BY HeardInShape DEF FiltersHeld, InShape, HeardShape
<1>2. CASE spec' = spec
  BY <1>2 DEF Same
<1>3. CASE spec' = Planned(spec, heard.plan)
  BY <1>1, <1>3, PlannedShape DEF Same
<1>4. ASSUME NEW e, Enrichment(e), spec' = Applied(spec, e).spec PROVE Same(spec, spec')
  BY <1>1, <1>4, AppliedShape DEF Same
<1>5. ASSUME NEW rules, IsSeq(rules), spec' = WithLabels(spec, rules) PROVE Same(spec, spec')
  BY <1>1, <1>5, LabelledShape DEF Same
<1>6. ASSUME NEW n, spec' = NotedBridge(spec, n) PROVE Same(spec, spec')
  BY <1>1, <1>6, NotedShape DEF Same
<1> QED BY <1>2, <1>3, <1>4, <1>5, <1>6, SpecBecomes

\* So the keys stay declared.
LEMMA KeysStay == ASSUME NEW s, NEW q, Same(s, q), KeysDeclared(s) PROVE KeysDeclared(q)
<1>1. ASSUME q.tables = s.tables PROVE TableNames(q) = TableNames(s) /\ \A a : TableNamed(q, a) = TableNamed(s, a)
  BY <1>1 DEF TableNames, TableNamed
<1> QED BY <1>1 DEF Same, KeysDeclared

\* The candidates of a spec leave their tables by columns of them.
LEMMA CandidatesFit ==
    ASSUME NEW s, SpecShape(s), JoinsNamed(s), KeysDeclared(s), s.steps = <<>>, NEW told, NEW answer, IsSeq(answer)
    PROVE  HopsFitted(s, Hops(s, told, answer))
<1>1. CandidatesOf(Proposed(s, answer), Hops(s, told, answer))
  BY HopsProposed
<1>2. ASSUME NEW j \in Proposed(s, answer)
      PROVE  {j.lt, j.rt} \subseteq TableNames(s) /\ j.lk \in ToSet(ColumnsOf(TableNamed(s, j.lt)))
  BY <1>2 DEF Proposed, JoinsNamed, KeysDeclared, Usable
<1> QED BY <1>1, <1>2, CandidateFields DEF CandidatesOf, HopsFitted, HopFits

\* The stages that neither plan joins nor build.
Elsewhere == stage \notin {"check", "build", "plan", "compile", "execute"}

\* A request comes in so.
LEMMA ProgramInit == Init => ProgramHeld
<1>1. Init => stage = "parse"
  BY DEF Init
<1> QED BY <1>1 DEF ProgramHeld, HopsStand, ProgramStands, StepsStay

\* Every step of a request leaves it so.
LEMMA NextProgram == ASSUME FiltersHeld, ProgramHeld, [Next]_vars PROVE ProgramHeld'
<1>1. CASE UNCHANGED vars
  <2>1. stage' = stage /\ spec' = spec /\ hops' = hops /\ program' = program /\ request' = request
    BY <1>1 DEF vars
  <2> QED BY <2>1 DEF ProgramHeld, HopsStand, ProgramStands, StepsStay, model
<1>2. CASE Next /\ Elsewhere'
  BY <1>2 DEF Elsewhere, ProgramHeld, HopsStand, ProgramStands, StepsStay
<1>3. CASE Next /\ ~Elsewhere'
  <2>2. CASE Parse \/ Require \/ Enrich
    <3>1. Elsewhere'
      BY <2>2 DEF Parse, Require, Enrich, Becomes, Ends, Elsewhere
    <3> QED BY <1>3, <3>1
  <2>3. CASE PrepareLabels \/ Settle
    <3>1. Elsewhere'
      BY <2>3 DEF PrepareLabels, Settle, Becomes, Ends, Elsewhere
    <3> QED BY <1>3, <3>1
  <2>4. ASSUME NEW answer \in Answers, Relate(answer) PROVE ProgramHeld'
    <3>1. /\ stage' = IF spec.steps # <<>> THEN "check" ELSE "plan"
          /\ spec' = spec /\ request' = request /\ hops' = Hops(spec, model, answer)
      BY <2>4 DEF Relate
    <3> QED BY <3>1 DEF ProgramHeld, HopsStand, ProgramStands, StepsStay, model
  <2>5. CASE CheckStep \/ SortSteps
    <3>1. stage = "check" /\ stage' \in {"check", "build", "blocked"} /\ spec' = spec
      BY <2>5 DEF CheckStep, SortSteps, Ends
    <3> QED BY <3>1 DEF ProgramHeld, HopsStand, ProgramStands, StepsStay
  <2>6. CASE BuildBridge
    <3>1. stage = "build" /\ stage' = stage
      BY <2>6 DEF BuildBridge
    <3>2. spec'.steps # <<>>
      BY <1>3, <3>1, SpecStays DEF Same, ProgramHeld, StepsStay
    <3> QED BY <3>1, <3>2 DEF ProgramHeld, HopsStand, ProgramStands, StepsStay
  <2>7. CASE BuildNext
    <3>1. stage = "build" /\ stage' \in {"build", "failed"} /\ spec' = spec
      BY <2>7, Zenon DEF BuildNext, Ends
    <3> QED BY <3>1 DEF ProgramHeld, HopsStand, ProgramStands, StepsStay
  <2>8. CASE Assemble
    <3>1. stage = "build" /\ stage' \in {"compile", "failed", "blocked"} /\ spec' = spec
      BY <2>8 DEF Assemble, Compiles, Ends
    <3> QED BY <3>1 DEF ProgramHeld, HopsStand, ProgramStands, StepsStay
  <2>9. CASE PlanChain \/ PlanOne
    <3>1. /\ stage = "plan" /\ stage' \in {"compile", "failed", "blocked"}
          /\ spec' = spec /\ hops' = hops /\ request' = request
      BY <2>9 DEF PlanChain, PlanOne, Compiles, Ends
    <3>2. stage' = "compile" => ProgramOf(spec, hops, program')
      BY <2>9 DEF PlanChain, PlanOne, Compiles, Ends, ProgramOf
    <3> QED BY <3>1, <3>2 DEF ProgramHeld, HopsStand, ProgramStands, StepsStay, model
  <2>10. CASE Compile
    <3>1. /\ stage = "compile" /\ stage' \in {"failed", "execute"}
          /\ spec' = spec /\ hops' = hops /\ program' = program /\ request' = request
      BY <2>10 DEF Compile
    <3> QED BY <3>1 DEF ProgramHeld, HopsStand, ProgramStands, StepsStay, model
  <2> QED BY <1>3, <2>2, <2>3, <2>4, <2>5, <2>6, <2>7, <2>8, <2>9, <2>10 DEF Next
<1> QED BY <1>1, <1>2, <1>3

\* And the keys by which joins leave their tables stay columns of them.
LEMMA NextJoins == ASSUME FiltersHeld, JoinsHeld, [Next]_vars PROVE JoinsHeld'
<1>1. ProgramHeld'
  BY NextProgram DEF JoinsHeld
<1>2. CASE UNCHANGED vars
  <2>1. spec' = spec
    BY <1>2 DEF vars
  <2> QED BY <1>1, <2>1 DEF JoinsHeld
<1>3. CASE Next
  <2>1. KeysDeclared(spec')
    BY <1>3, SpecStays, KeysStay DEF JoinsHeld
  <2> QED BY <1>1, <2>1 DEF JoinsHeld
<1> QED BY <1>2, <1>3

---------------------------------------------------------------------------
(* The Spark side of a request: it begins when the SQL side is through, and  *)
(* the contract it has tells the joins by tables of the spec.                *)
ContractStands ==
    turn # "contract" =>
        /\ Executes
        /\ OneTree /\ spec.steps = <<>> => TracedJoins(spec, contract.joins)
SparkHeld == FiltersHeld /\ JoinsHeld /\ ContractStands

\* A request that has been compiled changes no more.
LEMMA ExecutingIsLast == ASSUME Next PROVE stage # "execute"
<1>1. ASSUME Parse \/ Require \/ Enrich \/ PrepareLabels \/ Settle PROVE stage # "execute"
  BY <1>1 DEF Parse, Require, Enrich, PrepareLabels, Settle
<1>2. ASSUME NEW answer \in Answers, Relate(answer) PROVE stage # "execute"
  BY <1>2 DEF Relate
<1>3. ASSUME CheckStep \/ SortSteps \/ BuildBridge \/ BuildNext \/ Assemble PROVE stage # "execute"
  BY <1>3 DEF CheckStep, SortSteps, BuildBridge, BuildNext, Assemble
<1>4. ASSUME PlanChain \/ PlanOne \/ Compile PROVE stage # "execute"
  BY <1>4 DEF PlanChain, PlanOne, Compile
<1> QED BY <1>1, <1>2, <1>3, <1>4 DEF Next

\* A step of a request and its Spark side is one of the request, or leaves it.
LEMMA PlanningSteps == ASSUME [PlanningNext]_allVars PROVE [Next]_vars
  BY DEF PlanningNext, allVars

\* The contract of a request without compute steps.
LEMMA ContractTold ==
    ASSUME FiltersHeld, JoinsHeld, Executes, MarksApart(spec.tables), TempsNamed, OneTree, spec.steps = <<>>, NEW timed
    PROVE  TracedJoins(spec, Extracted(program, timed).joins)
<1>1. SpecShape(spec) /\ SoundTables(spec.tables)
  BY DEF FiltersHeld, InShape, InOrder, Executes
<1>2. HopsFitted(spec, hops) /\ ProgramOf(spec, hops, program)
  <2>1. PICK answer \in Answers : hops = Hops(spec, model, answer)
    BY DEF JoinsHeld, ProgramHeld, HopsStand, Executes
  <2>2. JoinsNamed(spec) /\ KeysDeclared(spec) /\ IsSeq(answer)
    BY AnswersAssumption DEF FiltersHeld, InOrder, JoinsHeld, Executes
  <2>3. HopsFitted(spec, hops)
    BY <1>1, <2>1, <2>2, CandidatesFit
  <2> QED BY <2>3 DEF JoinsHeld, ProgramHeld, ProgramStands, Executes
<1>3. Grows(ChainOrder(hops))
  BY DEF OneTree
<1>4. ASSUME program = SingleProgram(SinglePlan(spec, hops)) PROVE TracedJoins(spec, Extracted(program, timed).joins)
  <2>1. TracedJoins(spec, Extracted(SingleProgram(SinglePlan(spec, hops)), timed).joins)
    BY <1>1, <1>2, SingleTold
  <2> QED BY <1>4, <2>1
<1>5. ASSUME program = ChainProgram(ChainPlans(spec, hops)) PROVE TracedJoins(spec, Extracted(program, timed).joins)
  <2>1. TracedJoins(spec, Extracted(ChainProgram(ChainPlans(spec, hops)), timed).joins)
    BY <1>1, <1>2, <1>3, ChainTold
  <2> QED BY <1>5, <2>1
<1> QED BY <1>2, <1>4, <1>5 DEF ProgramOf

\* Every step of a request and its Spark side leaves it so.
LEMMA NextTraced ==
    ASSUME \A q \in Requests : TempsApart(q.spec.tables) /\ MarksApart(q.spec.tables), TempsNamed,
           SparkHeld, [PlanningNext]_allVars
    PROVE  SparkHeld'
<1>1. FiltersHeld' /\ JoinsHeld'
  BY PlanningSteps, NextKeeps, NextJoins DEF SparkHeld
<1>2. CASE Next /\ UNCHANGED sparkVars
  <2>1. turn' = turn /\ turn = "contract"
    BY <1>2, ExecutingIsLast DEF SparkHeld, ContractStands, Executes, sparkVars
  <2> QED BY <1>1, <2>1 DEF SparkHeld, ContractStands
<1>3. CASE UNCHANGED vars /\ turn # "contract" /\ contract' = contract
  <2>1. stage' = stage /\ spec' = spec /\ hops' = hops
    BY <1>3 DEF vars
  <2> QED BY <1>1, <1>3, <2>1 DEF SparkHeld, ContractStands, Executes, OneTree
<1>4. CASE ExtractContract /\ UNCHANGED vars
  <2>1. stage' = stage /\ spec' = spec /\ hops' = hops
    BY <1>4 DEF vars
  <2>2. Executes /\ contract' = Extracted(program, TimedDims)
    BY <1>4 DEF ExtractContract
  <2>3. MarksApart(spec.tables)
    BY DEF SparkHeld, FiltersHeld, InShape
  <2>4. ASSUME OneTree, spec.steps = <<>> PROVE TracedJoins(spec, contract'.joins)
    <3>1. TracedJoins(spec, Extracted(program, TimedDims).joins)
      BY <2>2, <2>3, <2>4, ContractTold DEF SparkHeld
    <3> QED BY <2>2, <3>1
  <2> QED BY <1>1, <2>1, <2>2, <2>4 DEF SparkHeld, ContractStands, Executes, OneTree
<1>5. CASE UNCHANGED allVars
  <2>1. turn' = turn /\ contract' = contract /\ stage' = stage /\ spec' = spec /\ hops' = hops
    BY <1>5 DEF allVars, vars, sparkVars
  <2> QED BY <1>1, <2>1 DEF SparkHeld, ContractStands, Executes, OneTree
<1>6. ASSUME SparkNext PROVE ExtractContract \/ (turn # "contract" /\ contract' = contract)
  BY <1>6 DEF SparkNext, Map, Unanswered, Generate, Validate, Compare, Annotate
<1> QED BY <1>2, <1>3, <1>4, <1>5, <1>6 DEF PlanningNext

\* And the joins it tells are then those of the spec.
LEMMA HeldTraces == ASSUME SparkHeld PROVE ChainsTraced
<1> SUFFICES ASSUME turn # "contract", OneTree, spec.steps = <<>>, NEW j \in ToSet(contract.joins)
             PROVE  /\ {j.left, j.right} \subseteq SideNames(spec)
                    /\ j.left \in TableNames(spec) => j.lk \in ToSet(ColumnsOf(TableNamed(spec, j.left)))
  BY DEF ChainsTraced, SideNames
<1>1. TracedJoins(spec, contract.joins)
  BY DEF SparkHeld, ContractStands
<1> QED BY <1>1 DEF TracedJoins, JoinTraced

(* The joins a contract tells name tables of the spec, and the columns by    *)
(* which they leave them: in a chain of any length that grows one tree,      *)
(* whatever temps its statements join and whatever the models answered.  For *)
(* requests whose tables have the parser's names and no name of a temp or of *)
(* what a ratio computes, and whose declared joins leave a table by a column *)
(* of it; and temps that have names.                                         *)
THEOREM ChainsAreTraced ==
    ASSUME TempsNamed,
           \A q \in Requests : TempsApart(q.spec.tables) /\ MarksApart(q.spec.tables) /\ KeysDeclared(q.spec)
    PROVE  PlanningSpec => []ChainsTraced
<1>1. PlanningInit => SparkHeld
  <2>1. PlanningInit => FiltersHeld /\ JoinsHeld
    <3>1. Init => KeysDeclared(spec)
      BY DEF Init
    <3> QED BY <3>1, KeepingInit, ProgramInit DEF PlanningInit, JoinsHeld
  <2>2. PlanningInit => turn = "contract"
    BY DEF PlanningInit, SparkInit
  <2> QED BY <2>1, <2>2 DEF SparkHeld, ContractStands
<1>2. SparkHeld /\ [PlanningNext]_allVars => SparkHeld'
  BY NextTraced
<1> QED BY <1>1, <1>2, HeldTraces, PTL DEF PlanningSpec

---------------------------------------------------------------------------
(* The specs the strict checks are said of: lists are lists, metrics of one  *)
(* name read one column, and a dimension named as what a rule computes       *)
(* before the aggregation is the key of that name, which the order knows.    *)
ToldApart(s) ==
    /\ IsSeq(s.dims) /\ IsSeq(s.derived) /\ IsSeq(s.grain)
    /\ \A m, d \in ToSet(s.metrics) : m.alias = d.alias /\ d.ref.c # "" => m.ref.c = d.ref.c
    /\ \A d \in ToSet(s.dims), e \in ToSet(PreCases(s)) :
          d.name = e.alias => (d.part \/ d.name = d.col) /\ d.name \in ToSet(Lex)

(* An aggregation by all dimensions, of the metrics as declared; steps that  *)
(* aggregate like that only.                                                 *)
DimKeys(s) == {IF d.part THEN d.name ELSE d.col : d \in ToSet(s.dims)}
AsDeclared(s, e) ==
    /\ DimKeys(s) \subseteq ToSet(Aliases(e.by))
    /\ \A m \in ToSet(e.metrics), d \in ToSet(s.metrics) : m.alias = d.alias /\ d.ref.c # "" => m.ref.c = d.ref.c
Declares(s, steps) == IsSeq(steps) /\ \A e \in ToSet(steps) : e.op = "aggregate" => AsDeclared(s, e)

\* Names in text order are a list of those the order knows.
LEMMA SortedList == ASSUME NEW S PROVE IsSeq(Sorted(S)) /\ ToSet(Lex) \cap S \subseteq ToSet(Sorted(S))
<1> DEFINE I == {i \in DOMAIN Lex : Lex[i] \in S}
<1>1. IsSeq(Lex)
  BY LexAssumption, IsSeqOf
<1>2. Sorted(S) = Kept(Lex, I)
  BY DEF Sorted, Only
<1>3. \A x \in ToSet(Lex) \cap S : \E i \in I : i \in 1..Len(Lex) /\ Lex[i] = x
  BY <1>1, ElementsOf
<1> HIDE DEF I
<1> QED BY <1>1, <1>2, <1>3, KeptElements

\* The group keys of a plan name every dimension.
LEMMA KeysHaveDimensions ==
    ASSUME NEW sp, ToldApart(sp), NEW primary, NEW valid, NEW pre, pre = {s.alias : s \in ToSet(PreCases(sp))}
    PROVE  DimKeys(sp) \subseteq ToSet(Aliases(GroupKeys(sp, primary, pre, valid)))
<1> DEFINE ok(t) == valid = AnyTable \/ t \in valid
           placed(c, named) ==
               LET a == IF named # "" /\ ok(Resolve(sp, named)) THEN Resolve(sp, named) ELSE primary
               IN  IF a = primary /\ OwnerOf(sp, c) # "" /\ ok(OwnerOf(sp, c)) THEN OwnerOf(sp, c) ELSE a
           dim(d) == Item(IF d.part THEN d.name ELSE d.col, Ref(placed(d.col, d.table), d.col))
           plain == Only(sp.dims, LAMBDA d : d.name \notin pre)
           dims == SeqMap(dim, plain)
           parts == {d.name : d \in {x \in ToSet(sp.dims) : x.part /\ x.name \notin pre}}
           under(d) == IF ok(Resolve(sp, d.table)) THEN Resolve(sp, d.table) ELSE primary
           made == Only(sp.derived, LAMBDA d : d.name \notin parts)
           derived == SeqMap(LAMBDA d : Item(d.name, Ref(under(d), d.col)), made)
           grain(g) == LET d == DimsNamed(sp, g)
                           named == IF d = <<>> THEN "" ELSE d[1].table
                       IN  IF d # <<>> /\ d[1].part
                           THEN Item(g, Ref(IF named = "" THEN primary ELSE Resolve(sp, named), d[1].col))
                           ELSE Item(g, Ref(placed(g, named), g))
           keys == dims \o derived
           left == Only(sp.grain, LAMBDA g : g \notin pre \cup ToSet(Aliases(keys)))
           once == Dedup(left)
           grains == SeqMap(grain, once)
           rest == Sorted(pre \ ToSet(Aliases(keys \o grains)))
           extra == SeqMap(LAMBDA c : Item(c, Ref("", c)), rest)
<1>1. GroupKeys(sp, primary, pre, valid) = keys \o grains \o extra
  BY Zenon DEF GroupKeys
<1>2. IsSeq(plain) /\ \A d \in ToSet(sp.dims) : d.name \notin pre => d \in ToSet(plain)
  <2>1. IsSeq(sp.dims)
    BY DEF ToldApart
  <2>2. \A d \in ToSet(sp.dims) : \E i \in 1..Len(sp.dims) : sp.dims[i] = d /\ i \in DOMAIN sp.dims
    BY <2>1, ElementsOf
  <2> QED BY <2>1, <2>2, KeptElements DEF Only
<1>3. DOMAIN dims = DOMAIN plain /\ dims = [i \in DOMAIN dims |-> dims[i]] /\ \A i \in DOMAIN plain : dims[i] = dim(plain[i])
  BY DEF SeqMap
<1>4. /\ DOMAIN derived = DOMAIN made /\ derived = [i \in DOMAIN derived |-> derived[i]]
      /\ DOMAIN grains = DOMAIN once /\ grains = [i \in DOMAIN grains |-> grains[i]]
      /\ DOMAIN extra = DOMAIN rest /\ extra = [i \in DOMAIN extra |-> extra[i]]
  <2> HIDE DEF made, once, rest, grain, under
  <2>1. DOMAIN derived = DOMAIN made /\ derived = [i \in DOMAIN derived |-> derived[i]]
    BY DEF SeqMap
  <2>2. DOMAIN grains = DOMAIN once /\ grains = [i \in DOMAIN grains |-> grains[i]]
    BY DEF SeqMap
  <2>3. DOMAIN extra = DOMAIN rest /\ extra = [i \in DOMAIN extra |-> extra[i]]
    BY DEF SeqMap
  <2> QED BY <2>1, <2>2, <2>3
<1>5. IsSeq(made) /\ IsSeq(once) /\ IsSeq(rest)
  <2>1. IsSeq(made) /\ IsSeq(left)
    BY KeptElements DEF ToldApart, Only
  <2> HIDE DEF left
  <2> QED BY <2>1, KeptElements, SortedList DEF Dedup
<1>6. \A d : dim(d).alias = IF d.part THEN d.name ELSE d.col
  BY DEF Item
<1>11. \A c \in pre \cap ToSet(Lex) : c \in ToSet(Aliases(keys \o grains)) \/ c \in ToSet(rest)
  BY SortedList
<1>12. \A i \in DOMAIN rest : extra[i].alias = rest[i]
  BY DEF SeqMap, Item
<1> HIDE DEF plain, dim, dims, made, derived, once, grains, rest, extra
<1>7. IsSeq(dims) /\ IsSeq(derived) /\ IsSeq(grains) /\ IsSeq(extra)
  BY <1>2, <1>3, <1>4, <1>5, MapElements
<1>8. /\ IsSeq(keys \o grains) /\ IsSeq(keys \o grains \o extra)
      /\ ToSet(dims) \cup ToSet(keys \o grains) \cup ToSet(extra) \subseteq ToSet(keys \o grains \o extra)
  BY <1>7, CatElements
<1>9. ASSUME NEW d \in ToSet(sp.dims), d.name \notin pre PROVE \E e \in ToSet(dims) : e.alias = IF d.part THEN d.name ELSE d.col
  <2>1. PICK i \in 1..Len(plain) : plain[i] = d /\ i \in DOMAIN plain
    BY <1>2, <1>9, ElementsOf
  <2>2. dims[i] \in ToSet(dims)
    BY <1>2, <1>3, <2>1, MappedSeq
  <2> QED BY <1>3, <1>6, <2>1, <2>2
<1>10. \A e \in ToSet(keys \o grains \o extra) : e.alias \in ToSet(Aliases(keys \o grains \o extra))
  BY <1>8, AliasElements
<1>13. ToSet(Aliases(keys \o grains)) \subseteq {e.alias : e \in ToSet(keys \o grains)}
  <2> DEFINE k == keys \o grains
             f == Aliases(k)
  <2>1. DOMAIN f = DOMAIN k /\ f = [i \in DOMAIN f |-> f[i]] /\ \A i \in DOMAIN k : f[i] = k[i].alias
    BY DEF Aliases
  <2> HIDE DEF f, k
  <2>2. IsSeq(k)
    BY <1>8 DEF k
  <2>3. DOMAIN k = 1..Len(k) /\ \A x \in ToSet(f) : \E i \in 1..Len(k) : x = f[i] /\ k[i] \in ToSet(k)
    BY <2>1, <2>2, MapElements
  <2>4. ToSet(f) \subseteq {e.alias : e \in ToSet(k)}
    BY <2>1, <2>3
  <2> QED BY <2>4 DEF f, k
<1>14. \A c \in ToSet(rest) : \E e \in ToSet(extra) : e.alias = c
  <2>1. \A i \in 1..Len(rest) : extra[i] \in ToSet(extra)
    BY <1>4, <1>5, MappedSeq
  <2>2. DOMAIN rest = 1..Len(rest) /\ \A c \in ToSet(rest) : \E i \in 1..Len(rest) : rest[i] = c
    BY <1>5, ElementsOf
  <2> QED BY <1>12, <2>1, <2>2
<1>15. \A c \in pre \cap ToSet(Lex) : c \in ToSet(Aliases(keys \o grains \o extra))
  BY <1>8, <1>10, <1>11, <1>13, <1>14
<1>16. ASSUME NEW d \in ToSet(sp.dims), d.name \in pre
       PROVE  (IF d.part THEN d.name ELSE d.col) = d.name /\ d.name \in pre \cap ToSet(Lex)
  BY <1>16 DEF ToldApart
<1>17. ASSUME NEW d \in ToSet(sp.dims) PROVE (IF d.part THEN d.name ELSE d.col) \in ToSet(Aliases(keys \o grains \o extra))
  BY <1>8, <1>9, <1>10, <1>15, <1>16
<1> QED BY <1>1, <1>17 DEF DimKeys

\* The aggregation of a plan: by the keys, and of the metrics of the spec.
LEMMA AggregateReads ==
    ASSUME NEW sp, SpecShape(sp), NEW primary, NEW pre, NEW valid, NEW e \in ToSet(Aggregate(sp, primary, pre, valid))
    PROVE  /\ e.by = GroupKeys(sp, primary, pre, valid)
           /\ \A x \in ToSet(e.metrics) : \E m \in ToSet(sp.metrics) : x.alias = m.alias /\ x.ref.c = m.ref.c
           /\ Len(e.metrics) = Len(sp.metrics)
           /\ \A i \in 1..Len(sp.metrics) : e.metrics[i].alias = sp.metrics[i].alias /\ e.metrics[i].ref.c = sp.metrics[i].ref.c
<1> DEFINE from(r) == IF primary = "" THEN r.t ELSE primary
           ms == SeqMap(LAMBDA m : Item(m.alias, Ref(from(m.ref), m.ref.c)), sp.metrics)
           keys == GroupKeys(sp, primary, pre, valid)
           a == [op |-> "aggregate", by |-> keys, metrics |-> ms]
<1>1. Aggregate(sp, primary, pre, valid) = <<a>> \/ Aggregate(sp, primary, pre, valid) = <<>>
  BY DEF Aggregate, When
<1>2. a.by = keys /\ a.metrics = ms
  OBVIOUS
<1>3. /\ DOMAIN ms = DOMAIN sp.metrics /\ ms = [i \in DOMAIN ms |-> ms[i]]
      /\ \A i \in DOMAIN sp.metrics : ms[i].alias = sp.metrics[i].alias /\ ms[i].ref.c = sp.metrics[i].ref.c
  BY DEF SeqMap, Item, Ref
<1> HIDE DEF a, ms
<1>4. e = a
  BY <1>1, OneElement, NoElement
<1>5. IsSeq(sp.metrics)
  BY DEF SpecShape
<1>6. DOMAIN sp.metrics = 1..Len(sp.metrics) /\ \A m \in ToSet(sp.metrics) : \E i \in 1..Len(sp.metrics) : sp.metrics[i] = m
  BY <1>5, ElementsOf
<1>7. \A x \in ToSet(ms) : \E i \in 1..Len(sp.metrics) : x = ms[i] /\ sp.metrics[i] \in ToSet(sp.metrics)
  BY <1>3, <1>5, MapElements
<1>8. Len(ms) = Len(sp.metrics)
  BY <1>3, <1>5, MapElements
<1>9. \A x \in ToSet(ms) : \E m \in ToSet(sp.metrics) : x.alias = m.alias /\ x.ref.c = m.ref.c
  BY <1>3, <1>6, <1>7
<1> QED BY <1>2, <1>3, <1>4, <1>6, <1>8, <1>9

\* It is then as the spec declares.
LEMMA AggregateDeclares ==
    ASSUME NEW sp, SpecShape(sp), ToldApart(sp), NEW primary, NEW valid
    PROVE  Declares(sp, Aggregate(sp, primary, {s.alias : s \in ToSet(PreCases(sp))}, valid))
<1> DEFINE pre == {s.alias : s \in ToSet(PreCases(sp))}
           A == Aggregate(sp, primary, pre, valid)
<1>1. IsSeq(A)
  BY TailsReadNothing DEF NoReads
<1>2. DimKeys(sp) \subseteq ToSet(Aliases(GroupKeys(sp, primary, pre, valid)))
  BY KeysHaveDimensions
<1>3. \A m, d \in ToSet(sp.metrics) : m.alias = d.alias /\ d.ref.c # "" => m.ref.c = d.ref.c
  BY DEF ToldApart
<1>4. ASSUME NEW e \in ToSet(A) PROVE AsDeclared(sp, e)
  <2>1. /\ e.by = GroupKeys(sp, primary, pre, valid)
        /\ \A x \in ToSet(e.metrics) : \E m \in ToSet(sp.metrics) : x.alias = m.alias /\ x.ref.c = m.ref.c
    BY AggregateReads
  <2>2. ASSUME NEW x \in ToSet(e.metrics), NEW d \in ToSet(sp.metrics), x.alias = d.alias, d.ref.c # "" PROVE x.ref.c = d.ref.c
    <3>1. PICK m \in ToSet(sp.metrics) : x.alias = m.alias /\ x.ref.c = m.ref.c
      BY <2>1
    <3>2. m.alias = d.alias
      BY <2>2, <3>1
    <3>3. m.ref.c = d.ref.c
      BY <1>3, <2>2, <3>2
    <3> QED BY <3>1, <3>3
  <2> QED BY <1>2, <2>1, <2>2 DEF AsDeclared
<1> HIDE DEF A
<1>5. Declares(sp, A)
  BY <1>1, <1>4 DEF Declares
<1> QED BY <1>5 DEF A

\* The aggregations among the steps of a plan are as declared.
LEMMA MadeDeclares ==
    ASSUME NEW sp, SpecShape(sp), ToldApart(sp), NEW J, \A j \in J : j.op = "join", NEW s, MadeOf(sp, J, s)
    PROVE  Declares(sp, s)
<1>1. \A primary, valid : \A e \in ToSet(Aggregate(sp, primary, {x.alias : x \in ToSet(PreCases(sp))}, valid)) :
          e.op = "aggregate" => AsDeclared(sp, e)
  BY AggregateDeclares DEF Declares
<1> QED BY <1>1 DEF MadeOf, Plain, Declares

\* The one plan of a request.
LEMMA SinglePlanMade ==
    ASSUME NEW sp, SpecShape(sp), SoundTables(sp.tables), NEW H, IsSeq(H),
           \A h \in ToSet(H) : {h.left, h.right} \subseteq TableNames(sp)
    PROVE  \E J : /\ MadeOf(sp, J, SinglePlan(sp, H).steps)
                  /\ \A j \in J : \E h \in ToSet(H) : \E l, r : j = JoinStep(l, r, h)
<1> DEFINE plan == SinglePlan(sp, H)
<1>1. CASE plan.steps = SingleTable(sp).steps
  BY <1>1, SingleTableMade
<1>2. CASE plan.steps = Failed.steps
  <2>1. MadeOf(sp, {}, Failed.steps)
    BY NoElement DEF Failed, MadeOf
  <2> QED BY <1>2, <2>1
<1>3. CASE H # <<>> /\ plan.steps = OneJoin(sp, H[1]).steps
  <2>1. H[1] \in ToSet(H)
    <3>1. 1 \in 1..Len(H)
      <4>1. H \in Seq(ToSet(H))
        BY ElementsOf
      <4> QED BY <1>3, <4>1
    <3> QED BY <3>1, ElementsOf
  <2>2. PICK l \in Under(H[1].left), r \in Under(H[1].right) : MadeOf(sp, {JoinStep(l, r, H[1])}, OneJoin(sp, H[1]).steps)
    BY <2>1, OneJoinMade
  <2>3. \A j \in {JoinStep(l, r, H[1])} : \E h \in ToSet(H) : \E x, y : j = JoinStep(x, y, h)
    BY <2>1
  <2> QED BY <1>3, <2>2, <2>3
<1> QED BY <1>1, <1>2, <1>3, SinglePlanIs

(* Candidates between tables of the spec, with evidence that lets them pass. *)
HopsRated(s, H) == IsSeq(H) /\ \A h \in ToSet(H) : {h.left, h.right} \subseteq TableNames(s) /\ h.level \in {"STRONG", "MEDIUM"}

\* The one plan of a request passes the strict checks.
LEMMA SinglePlanPasses ==
    ASSUME NEW sp, SpecShape(sp), SoundTables(sp.tables), ToldApart(sp), NEW H, HopsRated(sp, H)
    PROVE  AgainstSpec(SinglePlan(sp, H), sp, H) = {}
<1> DEFINE plan == SinglePlan(sp, H)
<1>1. PICK J : /\ MadeOf(sp, J, plan.steps)
               /\ \A j \in J : \E h \in ToSet(H) : \E l, r : j = JoinStep(l, r, h)
  BY SinglePlanMade DEF HopsRated
<1>2. \A j \in J : j.op = "join"
  BY <1>1, StepKinds
<1>3. Declares(sp, plan.steps)
  BY <1>1, <1>2, MadeDeclares
<1> HIDE DEF plan
<1>4. \A op : \A e \in ToSet(Steps(plan, op)) : e \in ToSet(plan.steps) /\ e.op = op
  <2> TAKE op
  <2> DEFINE I == {i \in DOMAIN plan.steps : plan.steps[i].op = op}
  <2>1. Steps(plan, op) = Kept(plan.steps, I)
    BY DEF Steps, Only
  <2>2. \A e \in ToSet(Kept(plan.steps, I)) : e \in ToSet(plan.steps) /\ \E i \in I : e = plan.steps[i]
    <3> HIDE DEF I
    <3> QED BY <1>1, KeptElements DEF MadeOf
  <2> QED BY <2>1, <2>2
<1>5. \A e \in ToSet(Steps(plan, "aggregate")) : AsDeclared(sp, e)
  BY <1>3, <1>4 DEF Declares
<1>6. MissingDimensions(plan, sp) = {} /\ ChangedMetrics(plan, sp) = {}
  BY <1>5 DEF MissingDimensions, ChangedMetrics, AsDeclared, DimKeys
<1>7. Ungated(plan, H) = {}
  <2>1. ASSUME NEW e \in ToSet(Steps(plan, "join")) PROVE \E h \in ToSet(H) : h.id = e.ref /\ h.level \in {"STRONG", "MEDIUM"}
    <3>1. e \in ToSet(plan.steps) /\ e.op = "join"
      BY <1>4
    <3>2. e \in J
      <4>1. \A primary, valid :
                \A x \in ToSet(Aggregate(sp, primary, {y.alias : y \in ToSet(PreCases(sp))}, valid)) : x.op # "join"
        BY TailsReadNothing DEF NoReads
      <4> QED BY <1>1, <3>1, <4>1 DEF MadeOf, Plain
    <3>3. PICK h \in ToSet(H) : \E l, r : e = JoinStep(l, r, h)
      BY <1>1, <3>2
    <3>4. e.ref = h.id
      BY <3>3 DEF JoinStep, Join
    <3> QED BY <3>4 DEF HopsRated
  <2> QED BY <2>1 DEF Ungated
<1> QED BY <1>6, <1>7 DEF AgainstSpec, plan

\* The candidates of a spec have evidence.
LEMMA CandidatesRated ==
    ASSUME NEW s, SpecShape(s), JoinsNamed(s), s.steps = <<>>, NEW told, NEW answer, IsSeq(answer)
    PROVE  HopsRated(s, Hops(s, told, answer))
<1>1. CandidatesOf(Proposed(s, answer), Hops(s, told, answer)) /\ HopsNamed(s, Hops(s, told, answer))
  BY HopsProposed, HopsShape
<1>2. \A j, level : Candidate(j, level).level = level
  BY DEF Candidate
<1> QED BY <1>1, <1>2 DEF CandidatesOf, HopsNamed, HopsRated

\* A chain of one join is its one plan.
LEMMA ChainOfOne ==
    ASSUME NEW sp, NEW H, IsSeq(H), Len(H) <= 1
    PROVE  ChainPlans(sp, H) = <<SinglePlan(sp, H)>>
  BY DEF ChainPlans, ChainOrder

(* So the plans of a program of one plan pass.                               *)
LEMMA HeldPasses == ASSUME FiltersHeld, ProgramHeld, ToldApart(spec) PROVE StrictChecksPass
<1> SUFFICES ASSUME Executes, spec.steps = <<>>, Len(hops) <= 1, NEW s \in ToSet(program.statements)
             PROVE  AgainstSpec(s.plan, spec, hops) = {}
  BY DEF StrictChecksPass
<1>1. SpecShape(spec) /\ SoundTables(spec.tables) /\ JoinsNamed(spec)
  BY DEF FiltersHeld, InShape, InOrder, Executes
<1>2. HopsRated(spec, hops)
  <2>1. PICK answer \in Answers : hops = Hops(spec, model, answer)
    BY DEF ProgramHeld, HopsStand, Executes
  <2> QED BY <1>1, <2>1, AnswersAssumption, CandidatesRated
<1>3. AgainstSpec(SinglePlan(spec, hops), spec, hops) = {}
  BY <1>1, <1>2, SinglePlanPasses
<1>4. s.plan = SinglePlan(spec, hops)
  <2>1. ASSUME program = SingleProgram(SinglePlan(spec, hops)) PROVE s.plan = SinglePlan(spec, hops)
    <3>1. LET S == SingleProgram(SinglePlan(spec, hops)).statements IN IsSeq(S) /\ Len(S) = 1 /\ S[1].plan = SinglePlan(spec, hops)
      BY SingleStatement
    <3>2. \E i \in 1..Len(program.statements) : program.statements[i] = s
      BY <2>1, <3>1, ElementsOf
    <3> QED BY <2>1, <3>1, <3>2
  <2>2. ASSUME program = ChainProgram(ChainPlans(spec, hops)) PROVE s.plan = SinglePlan(spec, hops)
    <3> DEFINE P == <<SinglePlan(spec, hops)>>
    <3>1. program = ChainProgram(P)
      BY <1>2, <2>2, ChainOfOne DEF HopsRated
    <3>2. IsSeq(P) /\ Len(P) = 1 /\ P[1] = SinglePlan(spec, hops)
      BY OneElement
    <3> HIDE DEF P
    <3> DEFINE S == ChainProgram(P).statements
    <3>3. IsSeq(S) /\ Len(S) = Len(P) /\ \A i \in 1..Len(P) : S[i].plan = P[i]
      BY <3>2, ChainStatements, Zenon
    <3> HIDE DEF S
    <3>4. Len(S) = 1 /\ S[1].plan = P[1]
      BY <3>2, <3>3
    <3>5. \E i \in 1..Len(S) : S[i] = s
      BY <3>1, <3>3, ElementsOf DEF S
    <3> QED BY <3>2, <3>4, <3>5
  <2> QED BY <2>1, <2>2 DEF ProgramHeld, ProgramStands, ProgramOf, Executes
<1> QED BY <1>3, <1>4

(* The checks of a plan against its spec, which nobody makes when a request  *)
(* is built from one plan, would pass: every dimension is a group key, every *)
(* metric reads the column declared for it, every join has a candidate with  *)
(* evidence - whatever the models added on the way.  Once a spec tells its   *)
(* metrics and dimensions apart; for requests whose tables have no name of a *)
(* temp.                                                                     *)
THEOREM StrictChecksHold ==
    ASSUME \A q \in Requests : TempsApart(q.spec.tables)
    PROVE  Spec => [](ToldApart(spec) => StrictChecksPass)
<1>1. Init => FiltersHeld /\ ProgramHeld
  BY KeepingInit, ProgramInit
<1>2. FiltersHeld /\ ProgramHeld /\ [Next]_vars => FiltersHeld' /\ ProgramHeld'
  BY NextKeeps, NextProgram
<1>3. FiltersHeld /\ ProgramHeld => (ToldApart(spec) => StrictChecksPass)
  BY HeldPasses
<1> QED BY <1>1, <1>2, <1>3, PTL DEF Spec

---------------------------------------------------------------------------
(* Metrics R stand in L: at its head, as they are, and no other of L has the *)
(* name of one of them.                                                      *)
StandIn(R, L) ==
    /\ Len(R) <= Len(L) /\ \A i \in 1..Len(R) : L[i] = R[i]
    /\ \A i \in 1..Len(L), j \in 1..Len(R) : L[i].alias = R[j].alias => i <= Len(R)
MetricsHeld == StandIn(request.spec.metrics, spec.metrics)

\* They still do when metrics of other names follow.
LEMMA StandMore ==
    ASSUME NEW R, NEW L, IsSeq(R), IsSeq(L), StandIn(R, L), NEW new, IsSeq(new)
    PROVE  StandIn(R, L \o NotAmong(new, ToSet(Aliases(L))))
<1> DEFINE t == NotAmong(new, ToSet(Aliases(L)))
           S == ToSet(L) \cup ToSet(t)
<1>1. IsSeq(t) /\ \A x \in ToSet(t) : x.alias \notin ToSet(Aliases(L))
  <2> DEFINE I == {i \in DOMAIN new : new[i].alias \notin ToSet(Aliases(L))}
  <2>1. t = Kept(new, I)
    BY DEF NotAmong, Only
  <2>2. \A i \in I : new[i].alias \notin ToSet(Aliases(L))
    OBVIOUS
  <2> HIDE DEF I, t
  <2>3. IsSeq(t) /\ \A x \in ToSet(t) : \E i \in I : x = new[i]
    BY <2>1, KeptElements
  <2> QED BY <2>2, <2>3
<1>2. \A x \in ToSet(L) : x.alias \in ToSet(Aliases(L))
  BY AliasElements
<1> HIDE DEF t
<1>3. /\ Len(L) \in Nat /\ Len(t) \in Nat /\ Len(R) \in Nat
      /\ \A i \in 1..Len(L) : L[i] \in ToSet(L)
      /\ \A i \in 1..Len(t) : t[i] \in ToSet(t)
  BY <1>1, ElementsOf
<1>4. /\ Len(L \o t) = Len(L) + Len(t)
      /\ \A i \in 1..Len(L) : (L \o t)[i] = L[i]
      /\ \A i \in 1..Len(t) : (L \o t)[Len(L) + i] = t[i]
  <2>1. L \in Seq(S) /\ t \in Seq(S)
    BY <1>1, ElementsOf
  <2> QED BY <2>1
<1>5. Len(R) <= Len(L \o t) /\ \A i \in 1..Len(R) : (L \o t)[i] = R[i]
  BY <1>3, <1>4 DEF StandIn
<1>6. ASSUME NEW i \in 1..Len(L \o t), NEW j \in 1..Len(R), (L \o t)[i].alias = R[j].alias PROVE i <= Len(R)
  <2>1. CASE i <= Len(L)
    BY <1>3, <1>4, <1>6, <2>1 DEF StandIn
  <2>2. CASE ~(i <= Len(L))
    <3>1. i - Len(L) \in 1..Len(t) /\ i = Len(L) + (i - Len(L))
      BY <1>3, <1>4, <2>2
    <3>2. (L \o t)[i] = t[i - Len(L)] /\ t[i - Len(L)] \in ToSet(t)
      BY <1>3, <1>4, <3>1
    <3>3. j \in 1..Len(L) /\ L[j] = R[j] /\ L[j] \in ToSet(L)
      BY <1>3 DEF StandIn
    <3> QED BY <1>1, <1>2, <1>6, <3>2, <3>3
  <2> QED BY <2>1, <2>2
<1> QED BY <1>5, <1>6 DEF StandIn, t

\* A request comes in with its own metrics, and every step leaves them.
LEMMA MetricsInit == Init => MetricsHeld
<1> SUFFICES ASSUME Init PROVE MetricsHeld
  OBVIOUS
<1> DEFINE R == request.spec.metrics
<1>1. spec.metrics = R /\ IsSeq(R)
  BY RequestsAssumption DEF Init, SpecShape
<1> HIDE DEF R
<1>2. Len(R) \in Nat
  BY <1>1, ElementsOf
<1> QED BY <1>1, <1>2 DEF MetricsHeld, StandIn, R

LEMMA NextMetrics == ASSUME FiltersHeld, MetricsHeld, [Next]_vars PROVE MetricsHeld'
<1> DEFINE R == request.spec.metrics
<1>1. /\ SpecShape(spec) /\ IsSeq(spec.metrics) /\ IsSeq(R)
      /\ IsSeq(heard.plan.metrics) /\ IsSeq(heard.plan.rules)
  BY RequestsAssumption, HeardInShape DEF FiltersHeld, InShape, SpecShape, HeardShape
<1>2. CASE UNCHANGED vars
  <2>1. spec' = spec /\ request' = request
    BY <1>2 DEF vars
  <2> QED BY <2>1 DEF MetricsHeld
<1>3. CASE Next
  <2>1. request' = request
    BY <1>3, SpecBecomes
  <2>2. ASSUME spec'.metrics = spec.metrics PROVE MetricsHeld'
    BY <2>1, <2>2 DEF MetricsHeld
  <2>3. CASE spec' = Planned(spec, heard.plan)
    <3>1. CASE spec.metrics = <<>>
      <4>1. Len(R) = 0 /\ Len(spec'.metrics) \in Nat
        <5>1. Len(R) \in Nat /\ Len(<<>>) = 0
          BY <1>1, ElementsOf
        <5>2. Len(R) <= Len(<<>>)
          BY <3>1 DEF MetricsHeld, StandIn
        <5>3. SpecShape(spec')
          BY <1>1, <2>3, PlannedShape
        <5>4. Len(spec'.metrics) \in Nat
          BY <5>3, ElementsOf DEF SpecShape
        <5> QED BY <5>1, <5>2, <5>4
      <4>2. MetricsHeld' = StandIn(R, spec'.metrics)
        BY <2>1 DEF MetricsHeld
      <4> HIDE DEF R
      <4> QED BY <4>1, <4>2 DEF StandIn
    <3>2. CASE spec.metrics # <<>>
      BY <1>1, <2>2, <2>3, <3>2, PlannedShape
    <3> QED BY <3>1, <3>2
  <2>4. ASSUME NEW e, Enrichment(e), spec' = Applied(spec, e).spec PROVE MetricsHeld'
    <3>1. spec'.metrics = spec.metrics \o NotAmong(e.metrics, ToSet(Aliases(spec.metrics)))
      BY <1>1, <2>4, AppliedShape
    <3>2. IsSeq(e.metrics)
      BY <2>4 DEF Enrichment
    <3>3. StandIn(R, spec'.metrics)
      BY <1>1, <3>1, <3>2, StandMore DEF MetricsHeld
    <3> QED BY <2>1, <3>3 DEF MetricsHeld
  <2>5. ASSUME NEW rules, IsSeq(rules), spec' = WithLabels(spec, rules) PROVE MetricsHeld'
    BY <1>1, <2>2, <2>5, LabelledShape
  <2>6. ASSUME NEW n, spec' = NotedBridge(spec, n) PROVE MetricsHeld'
    BY <1>1, <2>2, <2>6, NotedShape
  <2> QED BY <1>3, <2>2, <2>3, <2>4, <2>5, <2>6, SpecBecomes
<1> QED BY <1>2, <1>3

\* The plans of a program: what was read, one join each, what follows.
LEMMA ProgramMade ==
    ASSUME NEW sp, SpecShape(sp), SoundTables(sp.tables), NEW H, IsSeq(H),
           \A h \in ToSet(H) : {h.left, h.right} \subseteq TableNames(sp),
           NEW p, ProgramOf(sp, H, p), NEW s \in ToSet(p.statements)
    PROVE  \E J : MadeOf(sp, J, s.plan.steps) /\ \A j \in J : j.op = "join"
<1> DEFINE chain == ChainOrder(H)
           P == ChainPlans(sp, H)
           S == ChainProgram(P).statements
           plan(i) == [Plan("plan" \o ToString(i), ChainStep(sp, chain, i)) EXCEPT !.final = i = Len(chain)]
<1>1. \E J : MadeOf(sp, J, SinglePlan(sp, H).steps) /\ \A j \in J : j.op = "join"
  <2>1. PICK J : /\ MadeOf(sp, J, SinglePlan(sp, H).steps)
                 /\ \A j \in J : \E h \in ToSet(H) : \E l, r : j = JoinStep(l, r, h)
    BY SinglePlanMade
  <2> QED BY <2>1, StepKinds
<1>2. CASE p = SingleProgram(SinglePlan(sp, H))
  <2> DEFINE T == SingleProgram(SinglePlan(sp, H)).statements
  <2>1. IsSeq(T) /\ Len(T) = 1 /\ T[1].plan = SinglePlan(sp, H)
    BY SingleStatement
  <2>2. s \in ToSet(T)
    BY <1>2
  <2> HIDE DEF T
  <2>3. \E i \in 1..Len(T) : T[i] = s
    BY <2>1, <2>2, ElementsOf
  <2>4. s.plan = SinglePlan(sp, H)
    BY <2>1, <2>3
  <2> QED BY <1>1, <2>4
<1>3. CASE p = ChainProgram(P)
  <2>1. IsSeq(P) /\ \A i \in 1..Len(P) : \E J : MadeOf(sp, J, P[i].steps) /\ \A j \in J : j.op = "join"
    <3>1. CASE Len(chain) <= 1
      <4>1. P = <<SinglePlan(sp, H)>>
        BY <3>1 DEF ChainPlans
      <4>2. IsSeq(P) /\ Len(P) = 1 /\ P[1] = SinglePlan(sp, H)
        BY <4>1, OneElement
      <4> HIDE DEF P
      <4> QED BY <1>1, <4>2
    <3>2. CASE ~(Len(chain) <= 1)
      <4>1. P = [i \in DOMAIN chain |-> plan(i)]
        BY <3>2 DEF ChainPlans
      <4>2. \A i : plan(i).steps = ChainStep(sp, chain, i).steps
        BY DEF Plan
      <4>3. IsSeq(chain) /\ ToSet(chain) \subseteq ToSet(H)
        BY ChainOrderHops
      <4> HIDE DEF plan, chain, P
      <4>4. IsSeq(P) /\ Len(P) = Len(chain) /\ DOMAIN chain = 1..Len(chain)
        <5>1. DOMAIN P = DOMAIN chain /\ P = [i \in DOMAIN P |-> P[i]]
          BY <4>1
        <5> QED BY <4>3, <5>1, MapElements
      <4>5. ASSUME NEW i \in 1..Len(P) PROVE \E J : MadeOf(sp, J, P[i].steps) /\ \A j \in J : j.op = "join"
        <5>1. i \in Nat \ {0} /\ chain[i] \in ToSet(H)
          BY <4>3, <4>4, ElementsOf
        <5>2. \E l, r : MadeOf(sp, {JoinStep(l, r, chain[i])}, ChainStep(sp, chain, i).steps)
          BY <5>1, ChainStepMade
        <5>3. P[i].steps = ChainStep(sp, chain, i).steps
          BY <4>1, <4>2, <4>4
        <5> QED BY <5>2, <5>3, StepKinds
      <4> QED BY <4>4, <4>5
    <3> QED BY <3>1, <3>2
  <2> HIDE DEF P
  <2>2. IsSeq(S) /\ Len(S) = Len(P) /\ \A i \in 1..Len(P) : S[i].plan = P[i]
    BY <2>1, ChainStatements, Zenon
  <2>3. s \in ToSet(S)
    BY <1>3
  <2> HIDE DEF S
  <2>4. PICK i \in 1..Len(S) : S[i] = s
    BY <2>2, <2>3, ElementsOf
  <2>5. i \in 1..Len(P) /\ s.plan = P[i]
    BY <2>2, <2>4
  <2> QED BY <2>1, <2>5
<1> QED BY <1>2, <1>3 DEF ProgramOf

(* Where a plan aggregates, it begins with the metrics the request declares, *)
(* each under its name and of its column, and computes nothing else under    *)
(* such a name.                                                              *)
ComputedAsDeclared ==
    Executes /\ spec.steps = <<>> =>
        \A s \in ToSet(program.statements) : \A e \in ToSet(s.plan.steps) : e.op = "aggregate" =>
            LET R == request.spec.metrics
            IN  /\ Len(R) <= Len(e.metrics)
                /\ \A i \in 1..Len(R) : e.metrics[i].alias = R[i].alias /\ e.metrics[i].ref.c = R[i].ref.c
                /\ \A i \in 1..Len(e.metrics), j \in 1..Len(R) : e.metrics[i].alias = R[j].alias => i <= Len(R)

LEMMA HeldComputes == ASSUME FiltersHeld, ProgramHeld, MetricsHeld PROVE ComputedAsDeclared
<1> SUFFICES ASSUME Executes, spec.steps = <<>>, NEW s \in ToSet(program.statements), NEW e \in ToSet(s.plan.steps), e.op = "aggregate"
             PROVE  LET R == request.spec.metrics
                    IN  /\ Len(R) <= Len(e.metrics)
                        /\ \A i \in 1..Len(R) : e.metrics[i].alias = R[i].alias /\ e.metrics[i].ref.c = R[i].ref.c
                        /\ \A i \in 1..Len(e.metrics), j \in 1..Len(R) : e.metrics[i].alias = R[j].alias => i <= Len(R)
  BY DEF ComputedAsDeclared
<1> DEFINE R == request.spec.metrics
           L == spec.metrics
<1>1. SpecShape(spec) /\ SoundTables(spec.tables) /\ JoinsNamed(spec)
  BY DEF FiltersHeld, InShape, InOrder, Executes
<1>2. HopsRated(spec, hops)
  <2>1. PICK answer \in Answers : hops = Hops(spec, model, answer)
    BY DEF ProgramHeld, HopsStand, Executes
  <2> QED BY <1>1, <2>1, AnswersAssumption, CandidatesRated
<1>3. ProgramOf(spec, hops, program)
  BY DEF ProgramHeld, ProgramStands, Executes
<1>4. PICK J : MadeOf(spec, J, s.plan.steps) /\ \A j \in J : j.op = "join"
  BY <1>1, <1>2, <1>3, ProgramMade DEF HopsRated
<1>5. PICK primary, valid : e \in ToSet(Aggregate(spec, primary, {x.alias : x \in ToSet(PreCases(spec))}, valid))
  BY <1>4 DEF MadeOf, Plain
<1>6. Len(e.metrics) = Len(L) /\ \A i \in 1..Len(L) : e.metrics[i].alias = L[i].alias /\ e.metrics[i].ref.c = L[i].ref.c
  BY <1>1, <1>5, AggregateReads
<1>7. IsSeq(L) /\ IsSeq(R) /\ StandIn(R, L)
  BY <1>1, RequestsAssumption DEF FiltersHeld, InShape, SpecShape, MetricsHeld
<1> HIDE DEF L, R
<1>8. Len(L) \in Nat /\ Len(R) \in Nat
  BY <1>7, ElementsOf
<1>9. \A i \in 1..Len(R) : e.metrics[i].alias = R[i].alias /\ e.metrics[i].ref.c = R[i].ref.c
  BY <1>6, <1>7, <1>8 DEF StandIn
<1>10. \A i \in 1..Len(e.metrics), j \in 1..Len(R) : e.metrics[i].alias = R[j].alias => i <= Len(R)
  BY <1>6, <1>7, <1>8 DEF StandIn
<1>11. Len(R) <= Len(e.metrics)
  BY <1>6, <1>7 DEF StandIn
<1> QED BY <1>9, <1>10, <1>11 DEF R

(* A metric the request declares is neither replaced nor computed twice,     *)
(* whatever the planner, the enricher and the extractor said under its name: *)
(* every aggregation of every statement that runs has it once, of the column *)
(* declared.  For requests whose tables have no name of a temp.              *)
THEOREM DeclaredMetricsAreComputed ==
    ASSUME \A q \in Requests : TempsApart(q.spec.tables)
    PROVE  Spec => []ComputedAsDeclared
<1>1. Init => FiltersHeld /\ ProgramHeld /\ MetricsHeld
  BY KeepingInit, ProgramInit, MetricsInit
<1>2. FiltersHeld /\ ProgramHeld /\ MetricsHeld /\ [Next]_vars => FiltersHeld' /\ ProgramHeld' /\ MetricsHeld'
  BY NextKeeps, NextProgram, NextMetrics
<1>3. FiltersHeld /\ ProgramHeld /\ MetricsHeld => ComputedAsDeclared
  BY HeldComputes
<1> QED BY <1>1, <1>2, <1>3, PTL DEF Spec

---------------------------------------------------------------------------
(* Whatever the Spark side of a request does, its SQL side is one of a       *)
(* request by itself: what is proved of that holds with both.                *)
THEOREM SparkLeavesSql == PlanningSpec => Spec
<1>1. PlanningInit => Init
  BY DEF PlanningInit
<1>2. [PlanningNext]_allVars => [Next]_vars
  BY PlanningSteps
<1> QED BY <1>1, <1>2, PTL DEF PlanningSpec, Spec
==========================================================================
