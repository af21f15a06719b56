------------------------ MODULE SqlPlanning_proof ------------------------
EXTENDS SqlPlanning, FiniteSetTheorems, SequenceTheorems, WellFoundedInduction, TLAPS

---------------------------------------------------------------------------
\* The predecessors of a number are well-founded.
Below == {p \in Nat \X Nat : p[1] < p[2]}
LEMMA BelowWellFounded == IsWellFoundedOn(Below, Nat)
<1>1. Below = OpToRel(<, Nat)
  BY DEF Below, OpToRel
<1> QED BY <1>1, NatLessThanWellFounded, Zenon

\* A set of numbers that is not empty has a least one.
LEMMA LeastNumber == ASSUME NEW T \in SUBSET Nat, T # {} PROVE \E n \in T : \A m \in T : n <= m
<1>1. PICK x \in T : \A y \in T : ~(<<y, x>> \in Below)
  BY BelowWellFounded, WFMin
<1>2. \A y \in T : y \in Nat /\ x \in Nat
  OBVIOUS
<1>3. \A y \in T : ~(y < x)
  BY <1>1, <1>2 DEF Below
<1> QED BY <1>1, <1>2, <1>3

\* Induction up to n, over the set of the numbers something holds of.
LEMMA Induct ==
    ASSUME NEW n \in Nat, NEW P, 0 \in P, \A i \in 1..n : i - 1 \in P => i \in P
    PROVE  \A i \in 0..n : i \in P
<1> DEFINE Bad == {i \in 0..n : i \notin P}
<1> SUFFICES ASSUME Bad # {} PROVE FALSE
  OBVIOUS
<1>1. PICK b \in Bad : \A m \in Bad : b <= m
  <2>1. Bad \in SUBSET Nat
    OBVIOUS
  <2> HIDE DEF Bad
  <2> QED BY <2>1, LeastNumber
<1>2. b \in 1..n
  <2>1. b # 0
    OBVIOUS
  <2> QED BY <2>1
<1>3. b - 1 \in P
  <2>1. b - 1 \in 0..n /\ ~(b <= b - 1)
    BY <1>2
  <2> QED BY <1>1, <2>1
<1> QED BY <1>2, <1>3

---------------------------------------------------------------------------
\* A value made in n steps, each from the one before it, exists.
Iterated(f, n, base, G) == f[0] = base /\ \A i \in 1..n : f[i] = G[<<i, f[i-1]>>]
LEMMA Iterates ==
    ASSUME NEW n \in Nat, NEW V, NEW base \in V, NEW G \in [(1..n) \X V -> V]
    PROVE  \E f \in [0..n -> V] : Iterated(f, n, base, G)
<1> DEFINE P == {i \in 0..n : \E f \in [0..i -> V] : Iterated(f, i, base, G)}
<1>1. 0 \in P
  <2>1. [j \in 0..0 |-> base] \in [0..0 -> V] /\ Iterated([j \in 0..0 |-> base], 0, base, G)
    BY DEF Iterated
  <2> QED BY <2>1
<1>2. ASSUME NEW i \in 1..n, i - 1 \in P PROVE i \in P
  <2>1. PICK f \in [0..(i-1) -> V] : Iterated(f, i - 1, base, G)
    BY <1>2
  <2> DEFINE g == [j \in 0..i |-> IF j = i THEN G[<<i, f[i-1]>>] ELSE f[j]]
  <2>2. f[i-1] \in V
    BY <2>1
  <2>3. G[<<i, f[i-1]>>] \in V
    BY <2>2
  <2>4. g \in [0..i -> V]
    BY <2>1, <2>3
  <2>5. g[0] = base
    BY <2>1 DEF Iterated
  <2>6. ASSUME NEW j \in 1..i PROVE g[j] = G[<<j, g[j-1]>>]
    <3>1. CASE j = i
      <4>1. g[j] = G[<<i, f[i-1]>>] /\ g[i-1] = f[i-1]
        BY <3>1
      <4> QED BY <3>1, <4>1
    <3>2. CASE j # i
      <4>1. j \in 1..(i-1) /\ j - 1 \in 0..(i-1)
        BY <3>2
      <4>2. g[j] = f[j] /\ g[j-1] = f[j-1]
        BY <3>2, <4>1
      <4> QED BY <2>1, <4>1, <4>2 DEF Iterated
    <3> QED BY <3>1, <3>2
  <2>7. Iterated(g, i, base, G)
    BY <2>5, <2>6 DEF Iterated
  <2> QED BY <2>4, <2>7
<1>3. n \in P
  <2> HIDE DEF P
  <2>1. \A i \in 0..n : i \in P
    BY <1>1, <1>2, Induct
  <2> QED BY <2>1
<1> QED BY <1>3

---------------------------------------------------------------------------
\* A sequence is a function over the numbers up to its length.
LEMMA SeqFacts ==
    ASSUME NEW s
    PROVE  IsSeq(s) <=> (Len(s) \in Nat /\ s = [i \in 1..Len(s) |-> s[i]])
<1>1. ASSUME IsSeq(s) PROVE Len(s) \in Nat /\ s = [i \in 1..Len(s) |-> s[i]]
  BY <1>1 DEF IsSeq
<1>2. ASSUME Len(s) \in Nat, s = [i \in 1..Len(s) |-> s[i]] PROVE IsSeq(s)
  <2>1. DOMAIN s = 1..Len(s)
    BY <1>2
  <2>2. \A i \in 1..Len(s) : s[i] \in ToSet(s)
    BY <2>1 DEF ToSet
  <2>3. s \in [1..Len(s) -> ToSet(s)]
    BY <1>2, <2>2
  <2> QED BY <1>2, <2>3 DEF IsSeq
<1> QED BY <1>1, <1>2

\* What is a sequence of a set is a sequence.
LEMMA IsSeqOf == ASSUME NEW S, NEW s \in Seq(S) PROVE IsSeq(s) /\ ToSet(s) \subseteq S
  BY SeqFacts DEF ToSet

\* The elements of a sequence are what stands at its indices.
LEMMA ElementsOf ==
    ASSUME NEW s, IsSeq(s)
    PROVE  /\ Len(s) \in Nat /\ DOMAIN s = 1..Len(s) /\ s \in Seq(ToSet(s))
           /\ \A i \in 1..Len(s) : s[i] \in ToSet(s)
           /\ \A x \in ToSet(s) : \E i \in 1..Len(s) : s[i] = x
<1>1. Len(s) \in Nat /\ DOMAIN s = 1..Len(s)
  BY SeqFacts
<1> QED BY <1>1 DEF IsSeq, ToSet

\* Two sequences end to end have the elements of both.
LEMMA CatElements ==
    ASSUME NEW s, NEW t, IsSeq(s), IsSeq(t)
    PROVE  IsSeq(s \o t) /\ ToSet(s \o t) = ToSet(s) \cup ToSet(t) /\ Len(s \o t) = Len(s) + Len(t)
<1> DEFINE S == ToSet(s) \cup ToSet(t)
<1>1. s \in Seq(S) /\ t \in Seq(S)
  BY ElementsOf
<1>2. s \o t \in Seq(S)
  BY <1>1
<1>3. \A i \in 1..Len(s) : (s \o t)[i] = s[i]
  BY <1>1
<1>4. \A i \in 1..Len(t) : (s \o t)[Len(s) + i] = t[i]
  BY <1>1
<1>5. Len(s \o t) = Len(s) + Len(t) /\ Len(s) \in Nat /\ Len(t) \in Nat
  BY <1>1
<1>6. IsSeq(s \o t) /\ ToSet(s \o t) \subseteq S
  BY <1>2, IsSeqOf
<1>7. \A x \in ToSet(s) : x \in ToSet(s \o t)
  <2> TAKE x \in ToSet(s)
  <2>1. PICK i \in 1..Len(s) : s[i] = x
    BY ElementsOf
  <2>2. i \in 1..Len(s \o t)
    BY <1>5
  <2> QED BY <1>3, <1>6, <2>1, <2>2, ElementsOf
<1>8. \A x \in ToSet(t) : x \in ToSet(s \o t)
  <2> TAKE x \in ToSet(t)
  <2>1. PICK i \in 1..Len(t) : t[i] = x
    BY ElementsOf
  <2>2. Len(s) + i \in 1..Len(s \o t)
    BY <1>5
  <2> QED BY <1>4, <1>6, <2>1, <2>2, ElementsOf
<1> QED BY <1>5, <1>6, <1>7, <1>8

\* A sequence of one.
LEMMA OneElement == ASSUME NEW x PROVE IsSeq(<<x>>) /\ ToSet(<<x>>) = {x} /\ Len(<<x>>) = 1
<1>1. <<x>> \in Seq({x}) /\ Len(<<x>>) = 1 /\ <<x>>[1] = x
  OBVIOUS
<1>2. IsSeq(<<x>>)
  BY <1>1, IsSeqOf
<1> QED BY <1>1, <1>2, IsSeqOf, ElementsOf

\* A sequence of two.
LEMMA TwoElements == ASSUME NEW x, NEW y PROVE IsSeq(<<x, y>>) /\ ToSet(<<x, y>>) = {x, y} /\ Len(<<x, y>>) = 2
<1>1. <<x, y>> \in Seq({x, y}) /\ Len(<<x, y>>) = 2 /\ <<x, y>>[1] = x /\ <<x, y>>[2] = y
  OBVIOUS
<1>2. IsSeq(<<x, y>>) /\ ToSet(<<x, y>>) \subseteq {x, y}
  BY <1>1, IsSeqOf
<1>3. x \in ToSet(<<x, y>>) /\ y \in ToSet(<<x, y>>)
  <2>1. 1 \in 1..Len(<<x, y>>) /\ 2 \in 1..Len(<<x, y>>)
    BY <1>1
  <2> QED BY <1>1, <1>2, <2>1, ElementsOf
<1> QED BY <1>1, <1>2, <1>3

\* The empty sequence.
LEMMA NoElement == IsSeq(<<>>) /\ ToSet(<<>>) = {} /\ Len(<<>>) = 0
<1>1. <<>> \in Seq({}) /\ Len(<<>>) = 0
  OBVIOUS
<1>2. ToSet(<<>>) = {}
  BY DEF ToSet
<1> QED BY <1>1, <1>2 DEF IsSeq

\* A function over the indices of a sequence is a sequence.
LEMMA MappedSeq ==
    ASSUME NEW s, IsSeq(s), NEW f, DOMAIN f = DOMAIN s, f = [i \in DOMAIN f |-> f[i]]
    PROVE  IsSeq(f) /\ Len(f) = Len(s) /\ \A i \in 1..Len(s) : f[i] \in ToSet(f)
<1>1. Len(s) \in Nat /\ DOMAIN s = 1..Len(s)
  BY ElementsOf
<1>2. f \in [1..Len(s) -> ToSet(f)]
  BY <1>1 DEF ToSet
<1>3. f \in Seq(ToSet(f)) /\ Len(f) = Len(s)
  BY <1>1, <1>2
<1> QED BY <1>2, <1>3 DEF IsSeq
---------------------------------------------------------------------------
\* What Kept keeps of the first i elements.
Keeping(u, s, I) ==
    u = [i \in 0..Len(s) |-> IF i = 0 THEN <<>> ELSE IF i \in I THEN Append(u[i-1], s[i]) ELSE u[i-1]]

\* The recursive function in the definition of Kept exists.
LEMMA KeptUpTo ==
    ASSUME NEW s, IsSeq(s), NEW I
    PROVE  \E u : Keeping(u, s, I) /\ Kept(s, I) = u[Len(s)]
<1> DEFINE n == Len(s)
           V == Seq(ToSet(s))
           G == [p \in (1..n) \X V |-> IF p[1] \in I THEN Append(p[2], s[p[1]]) ELSE p[2]]
<1>1. n \in Nat /\ \A i \in 1..n : s[i] \in ToSet(s)
  BY ElementsOf
<1>2. G \in [(1..n) \X V -> V]
  BY <1>1
<1>3. <<>> \in V
  OBVIOUS
<1> HIDE DEF V, n
<1>4. PICK f \in [0..n -> V] : Iterated(f, n, <<>>, G)
  <2> HIDE DEF G
  <2> QED BY <1>1, <1>2, <1>3, Iterates
<1>5. \A i \in 1..n : f[i] = IF i \in I THEN Append(f[i-1], s[i]) ELSE f[i-1]
  <2> TAKE i \in 1..n
  <2>1. i - 1 \in 0..n
    BY <1>1
  <2>2. f[i-1] \in V
    BY <2>1
  <2>3. <<i, f[i-1]>> \in (1..n) \X V
    BY <2>2
  <2>4. f[i] = G[<<i, f[i-1]>>]
    BY <1>4 DEF Iterated
  <2> QED BY <2>3, <2>4
<1>6. \A i \in 0..n : f[i] = IF i = 0 THEN <<>> ELSE IF i \in I THEN Append(f[i-1], s[i]) ELSE f[i-1]
  <2> TAKE i \in 0..n
  <2>1. CASE i = 0
    BY <1>4, <2>1 DEF Iterated
  <2>2. CASE i # 0
    <3>1. i \in 1..n
      BY <1>1, <2>2
    <3> QED BY <1>5, <2>2, <3>1
  <2> QED BY <2>1, <2>2
<1>7. Keeping(f, s, I)
  BY <1>6 DEF Keeping, n
<1>8. Kept(s, I) = (CHOOSE u : Keeping(u, s, I))[Len(s)]
  BY DEF Kept, Keeping
<1> QED BY <1>7, <1>8

(* Of v, kept of the first m elements of s, the first k are from the first n. *)
PartedAt(v, k, m, s, I, n) ==
    /\ v \in Seq(ToSet(s)) /\ k \in 0..Len(v) /\ (m <= n => k = Len(v))
    /\ \A j \in 1..k : \E i \in I : i \in 1..n /\ i <= m /\ v[j] = s[i]
    /\ \A i \in I : i \in 1..n /\ i <= m => \E j \in 1..k : v[j] = s[i]
    /\ \A j \in (k+1)..Len(v) : \E i \in I : i \in (n+1)..m /\ v[j] = s[i]
    /\ \A i \in I : i \in (n+1)..m => \E j \in (k+1)..Len(v) : v[j] = s[i]

\* What is kept of the first n elements comes before what is kept of the rest.
LEMMA KeptParted ==
    ASSUME NEW s, IsSeq(s), NEW I, NEW n \in 0..Len(s)
    PROVE  \E k : PartedAt(Kept(s, I), k, Len(s), s, I, n)
<1>1. PICK u : Keeping(u, s, I) /\ Kept(s, I) = u[Len(s)]
  BY KeptUpTo
<1>2. Len(s) \in Nat /\ n \in Nat /\ \A i \in 1..Len(s) : s[i] \in ToSet(s)
  BY ElementsOf
<1>3. u[0] = <<>> /\ \A m \in 1..Len(s) : u[m] = IF m \in I THEN Append(u[m-1], s[m]) ELSE u[m-1]
  <2>1. \A m \in 0..Len(s) : u[m] = IF m = 0 THEN <<>> ELSE IF m \in I THEN Append(u[m-1], s[m]) ELSE u[m-1]
    BY <1>1 DEF Keeping
  <2> QED BY <1>2, <2>1
<1> DEFINE P == {m \in 0..Len(s) : \E k : PartedAt(u[m], k, m, s, I, n)}
<1>4. 0 \in P
  <2>1. PartedAt(<<>>, 0, 0, s, I, n)
    BY <1>2 DEF PartedAt
  <2> QED BY <1>2, <1>3, <2>1
<1>5. ASSUME NEW m \in 1..Len(s), m - 1 \in P PROVE m \in P
  <2>1. PICK k : PartedAt(u[m-1], k, m - 1, s, I, n)
    BY <1>5
  <2> DEFINE v == u[m-1]
             w == Append(v, s[m])
  <2>2. v \in Seq(ToSet(s)) /\ k \in 0..Len(v) /\ (m - 1 <= n => k = Len(v)) /\ m \in Nat
    BY <2>1 DEF PartedAt
  <2>3. CASE m \notin I
    <3>1. u[m] = v
      BY <1>3, <2>3
    <3>2. \A i \in I : i # m /\ (i \in (n+1)..(m-1) => i \in (n+1)..m)
      BY <1>2, <2>2, <2>3
    <3>3. \A i \in I : (i \in 1..n /\ i <= m <=> i \in 1..n /\ i <= m - 1) /\ (i \in (n+1)..m <=> i \in (n+1)..(m-1))
      BY <1>2, <2>2, <3>2
    <3>4. m <= n => k = Len(v)
      BY <1>2, <2>2
    <3> HIDE DEF v
    <3>5. \A j \in 1..k : \E i \in I : i \in 1..n /\ i <= m /\ v[j] = s[i]
      <4> TAKE j \in 1..k
      <4>1. PICK i \in I : i \in 1..n /\ i <= m - 1 /\ v[j] = s[i]
        BY <2>1 DEF PartedAt, v
      <4> QED BY <3>3, <4>1
    <3>6. \A i \in I : i \in 1..n /\ i <= m => \E j \in 1..k : v[j] = s[i]
      BY <2>1, <3>3 DEF PartedAt, v
    <3>7. \A j \in (k+1)..Len(v) : \E i \in I : i \in (n+1)..m /\ v[j] = s[i]
      <4> TAKE j \in (k+1)..Len(v)
      <4>1. PICK i \in I : i \in (n+1)..(m-1) /\ v[j] = s[i]
        BY <2>1 DEF PartedAt, v
      <4> QED BY <3>3, <4>1
    <3>8. \A i \in I : i \in (n+1)..m => \E j \in (k+1)..Len(v) : v[j] = s[i]
      BY <2>1, <3>3 DEF PartedAt, v
    <3>9. PartedAt(v, k, m, s, I, n)
      BY <2>2, <3>4, <3>5, <3>6, <3>7, <3>8 DEF PartedAt, v
    <3> QED BY <3>1, <3>9
  <2>4. CASE m \in I
    <3>1. u[m] = w /\ w \in Seq(ToSet(s)) /\ Len(w) = Len(v) + 1
      <4>1. u[m] = w
        BY <1>3, <2>4
      <4>2. s[m] \in ToSet(s)
        BY <1>2
      <4>3. v \in Seq(ToSet(s))
        BY <2>2
      <4> HIDE DEF v
      <4> QED BY <4>1, <4>2, <4>3
    <3>2. w[Len(v) + 1] = s[m] /\ \A j \in 1..Len(v) : w[j] = v[j]
      BY <1>2, <2>2
    <3> HIDE DEF v, w
    <3>3. CASE m <= n
      <4>1. PartedAt(w, Len(w), m, s, I, n)
        <5>1. k = Len(v) /\ Len(v) \in Nat
          BY <1>2, <2>2, <3>3
        <5>2. \A j \in 1..Len(w) : \E i \in I : i \in 1..n /\ i <= m /\ w[j] = s[i]
          <6> TAKE j \in 1..Len(w)
          <6>1. CASE j = Len(v) + 1
            BY <1>2, <2>2, <2>4, <3>2, <3>3, <6>1
          <6>2. CASE j # Len(v) + 1
            <7>1. j \in 1..k
              BY <3>1, <5>1, <6>2
            <7>2. PICK i \in I : i \in 1..n /\ i <= m - 1 /\ v[j] = s[i]
              BY <2>1, <7>1 DEF PartedAt, v
            <7> QED BY <2>2, <3>2, <5>1, <7>1, <7>2
          <6> QED BY <6>1, <6>2
        <5>3. \A i \in I : i \in 1..n /\ i <= m => \E j \in 1..Len(w) : w[j] = s[i]
          <6> SUFFICES ASSUME NEW i \in I, i \in 1..n, i <= m PROVE \E j \in 1..Len(w) : w[j] = s[i]
            OBVIOUS
          <6>1. CASE i = m
            <7>1. Len(v) + 1 \in 1..Len(w)
              BY <3>1, <5>1
            <7> QED BY <3>2, <6>1, <7>1
          <6>2. CASE i # m
            <7>1. i <= m - 1
              BY <1>2, <2>2, <6>2
            <7>2. PICK j \in 1..k : v[j] = s[i]
              BY <2>1, <7>1 DEF PartedAt, v
            <7>3. j \in 1..Len(w)
              BY <3>1, <5>1
            <7> QED BY <3>2, <5>1, <7>2, <7>3
          <6> QED BY <6>1, <6>2
        <5>4. (Len(w)+1)..Len(w) = {} /\ (n+1)..m = {}
          BY <1>2, <2>2, <3>1, <3>3, <5>1
        <5>5. Len(w) \in 0..Len(w)
          BY <3>1, <5>1
        <5> QED BY <3>1, <5>2, <5>3, <5>4, <5>5 DEF PartedAt
      <4> QED BY <3>1, <4>1
    <3>4. CASE ~(m <= n)
      <4>1. Len(v) \in Nat /\ n < m
        BY <1>2, <2>2, <3>4
      <4>2. k \in 0..Len(w) /\ ~(m <= n)
        BY <2>2, <3>1, <3>4, <4>1 DEF v
      <4>3. \A j \in 1..k : w[j] = v[j] /\ \E i \in I : i \in 1..n /\ i <= m /\ w[j] = s[i]
        <5> TAKE j \in 1..k
        <5>1. w[j] = v[j]
          BY <2>2, <3>2, <4>1 DEF v
        <5>2. PICK i \in I : i \in 1..n /\ i <= m - 1 /\ v[j] = s[i]
          BY <2>1 DEF PartedAt, v
        <5> QED BY <1>2, <2>2, <5>1, <5>2
      <4>4. \A i \in I : i \in 1..n /\ i <= m => \E j \in 1..k : w[j] = s[i]
        <5>1. \A i \in I : i \in 1..n => \E j \in 1..k : v[j] = s[i]
          BY <1>2, <2>1, <2>2, <4>1 DEF PartedAt, v
        <5> QED BY <4>3, <5>1
      <4>5. \A j \in (k+1)..Len(w) : \E i \in I : i \in (n+1)..m /\ w[j] = s[i]
        <5> TAKE j \in (k+1)..Len(w)
        <5>1. CASE j = Len(v) + 1
          BY <1>2, <2>2, <2>4, <3>2, <4>1, <5>1
        <5>2. CASE j # Len(v) + 1
          <6>1. j \in (k+1)..Len(v) /\ j \in 1..Len(v)
            BY <2>2, <3>1, <4>1, <5>2 DEF v
          <6>2. PICK i \in I : i \in (n+1)..(m-1) /\ v[j] = s[i]
            BY <2>1, <6>1 DEF PartedAt, v
          <6> QED BY <1>2, <2>2, <3>2, <6>1, <6>2
        <5> QED BY <5>1, <5>2
      <4>6. \A i \in I : i \in (n+1)..m => \E j \in (k+1)..Len(w) : w[j] = s[i]
        <5> SUFFICES ASSUME NEW i \in I, i \in (n+1)..m PROVE \E j \in (k+1)..Len(w) : w[j] = s[i]
          OBVIOUS
        <5>1. CASE i = m
          <6>1. Len(v) + 1 \in (k+1)..Len(w)
            BY <2>2, <3>1, <4>1 DEF v
          <6> QED BY <3>2, <5>1, <6>1
        <5>2. CASE i # m
          <6>1. i \in (n+1)..(m-1)
            BY <1>2, <2>2, <5>2
          <6>2. PICK j \in (k+1)..Len(v) : v[j] = s[i]
            BY <2>1, <6>1 DEF PartedAt, v
          <6>3. j \in (k+1)..Len(w) /\ j \in 1..Len(v)
            BY <2>2, <3>1, <4>1 DEF v
          <6> QED BY <3>2, <6>2, <6>3
        <5> QED BY <5>1, <5>2
      <4>7. PartedAt(w, k, m, s, I, n)
        BY <3>1, <4>2, <4>3, <4>4, <4>5, <4>6 DEF PartedAt
      <4> QED BY <3>1, <4>7
    <3> QED BY <3>3, <3>4
  <2> QED BY <2>3, <2>4
<1>6. \A m \in 0..Len(s) : m \in P
  <2> HIDE DEF P
  <2> QED BY <1>2, <1>4, <1>5, Induct
<1>7. Len(s) \in P
  <2> HIDE DEF P
  <2> QED BY <1>2, <1>6
<1> QED BY <1>1, <1>7
---------------------------------------------------------------------------
\* What is kept of a sequence are its elements at the indices kept.
LEMMA KeptElements ==
    ASSUME NEW s, IsSeq(s), NEW I
    PROVE  /\ IsSeq(Kept(s, I)) /\ ToSet(Kept(s, I)) \subseteq ToSet(s)
           /\ \A x \in ToSet(Kept(s, I)) : \E i \in I : i \in 1..Len(s) /\ x = s[i]
           /\ \A i \in I : i \in 1..Len(s) => s[i] \in ToSet(Kept(s, I))
<1> DEFINE v == Kept(s, I)
<1>1. Len(s) \in Nat /\ Len(s) \in 0..Len(s) /\ \A i \in 1..Len(s) : s[i] \in ToSet(s)
  BY ElementsOf
<1>2. PICK k : PartedAt(v, k, Len(s), s, I, Len(s))
  BY <1>1, KeptParted
<1> HIDE DEF v
<1>3. v \in Seq(ToSet(s)) /\ k = Len(v)
  BY <1>1, <1>2 DEF PartedAt
<1>4. IsSeq(v) /\ ToSet(v) \subseteq ToSet(s)
  BY <1>3, IsSeqOf
<1>5. \A x \in ToSet(v) : \E i \in I : i \in 1..Len(s) /\ x = s[i]
  <2> TAKE x \in ToSet(v)
  <2>1. PICK j \in 1..Len(v) : v[j] = x
    BY <1>4, ElementsOf
  <2> QED BY <1>2, <1>3, <2>1 DEF PartedAt
<1>6. \A i \in I : i \in 1..Len(s) => s[i] \in ToSet(v)
  <2> SUFFICES ASSUME NEW i \in I, i \in 1..Len(s) PROVE s[i] \in ToSet(v)
    OBVIOUS
  <2>1. PICK j \in 1..k : v[j] = s[i]
    BY <1>1, <1>2 DEF PartedAt
  <2> QED BY <1>3, <1>4, <2>1, ElementsOf
<1> QED BY <1>4, <1>5, <1>6 DEF v

\* Sequences joined end to end have the elements of each.
LEMMA FlattenElements ==
    ASSUME NEW ss, IsSeq(ss), \A i \in 1..Len(ss) : IsSeq(ss[i])
    PROVE  /\ IsSeq(FlattenSeq(ss))
           /\ ToSet(FlattenSeq(ss)) = UNION {ToSet(ss[i]) : i \in 1..Len(ss)}
<1> DEFINE n == Len(ss)
           U == UNION {ToSet(ss[i]) : i \in 1..n}
           V == Seq(U)
           G == [p \in (1..n) \X V |-> p[2] \o ss[p[1]]]
           F(u) == u = [i \in 1..Len(ss) |-> IF i = 1 THEN ss[i] ELSE u[i-1] \o ss[i]]
<1>1. n \in Nat /\ \A i \in 1..n : ss[i] \in V
  <2>1. n \in Nat
    BY ElementsOf
  <2>2. ASSUME NEW i \in 1..n PROVE ss[i] \in V
    <3>1. ToSet(ss[i]) \subseteq U /\ ss[i] \in Seq(ToSet(ss[i]))
      BY ElementsOf
    <3> QED BY <3>1
  <2> QED BY <2>1, <2>2
<1>2. CASE n = 0
  <2>1. ss = <<>> /\ 1..n = {}
    <3>1. ss \in Seq(ToSet(ss))
      BY ElementsOf
    <3> QED BY <1>2, <3>1
  <2>2. FlattenSeq(ss) = <<>> /\ U = {}
    BY <1>2, <2>1 DEF FlattenSeq
  <2> QED BY <2>2, NoElement
<1>3. CASE n # 0
  <2>1. G \in [(1..n) \X V -> V] /\ <<>> \in V
    <3> HIDE DEF U
    <3> QED BY <1>1
  <2> HIDE DEF n, V, U
  <2>2. PICK f \in [0..n -> V] : Iterated(f, n, <<>>, G)
    <3> HIDE DEF G
    <3> QED BY <1>1, <2>1, Iterates
  <2>3. \A i \in 1..n : f[i-1] \in V /\ f[i] = f[i-1] \o ss[i]
    <3> TAKE i \in 1..n
    <3>1. i - 1 \in 0..n
      BY <1>1
    <3>2. f[i-1] \in V /\ f[i] = G[<<i, f[i-1]>>]
      BY <2>2, <3>1 DEF Iterated
    <3>3. <<i, f[i-1]>> \in (1..n) \X V
      BY <3>2
    <3> QED BY <3>2, <3>3
  <2> DEFINE g == [i \in 1..n |-> f[i]]
  <2>4. F(g)
    <3>1. \A i \in 1..n : g[i] = IF i = 1 THEN ss[i] ELSE g[i-1] \o ss[i]
      <4> TAKE i \in 1..n
      <4>1. CASE i = 1
        <5>1. f[1] = <<>> \o ss[1]
          <6>1. 1 \in 1..n /\ 1 - 1 = 0
            BY <1>1, <4>1
          <6>2. f[0] = <<>> /\ f[1] = f[0] \o ss[1]
            BY <2>2, <2>3, <6>1 DEF Iterated
          <6> QED BY <6>2
        <5>2. <<>> \o ss[1] = ss[1]
          BY <1>1, <4>1 DEF V
        <5> QED BY <4>1, <5>1, <5>2
      <4>2. CASE i # 1
        <5>1. i - 1 \in 1..n
          BY <1>1, <4>2
        <5> QED BY <2>3, <4>2, <5>1
      <4> QED BY <4>1, <4>2
    <3> QED BY <3>1 DEF n
  <2>5. PICK u : F(u) /\ FlattenSeq(ss) = u[Len(ss)]
    <3> HIDE DEF g
    <3>1. FlattenSeq(ss) = (CHOOSE u : F(u))[Len(ss)]
      BY <1>3 DEF FlattenSeq, n
    <3> HIDE DEF F
    <3> QED BY <2>4, <3>1
  <2>6. u[1] = ss[1] /\ \A i \in 1..n : i # 1 => u[i] = u[i-1] \o ss[i]
    <3>1. 1 \in 1..n
      BY <1>1, <1>3
    <3> QED BY <2>5, <3>1 DEF n
  <2> DEFINE P == {i \in 0..n : i # 0 => u[i] = f[i]}
  <2>7. \A i \in 1..n : i - 1 \in P => i \in P
    <3> SUFFICES ASSUME NEW i \in 1..n, i - 1 \in P PROVE u[i] = f[i]
      BY <1>1
    <3>1. CASE i = 1
      <4>1. f[1] = <<>> \o ss[1]
        <5>1. 1 \in 1..n /\ 1 - 1 = 0
          BY <1>1, <3>1
        <5>2. f[0] = <<>> /\ f[1] = f[0] \o ss[1]
          BY <2>2, <2>3, <5>1 DEF Iterated
        <5> QED BY <5>2
      <4>2. <<>> \o ss[1] = ss[1]
        BY <1>1, <3>1 DEF V
      <4> QED BY <2>6, <3>1, <4>1, <4>2
    <3>2. CASE i # 1
      <4>1. u[i-1] = f[i-1]
        BY <3>2
      <4> QED BY <2>3, <2>6, <3>2, <4>1
    <3> QED BY <3>1, <3>2
  <2>8. \A i \in 0..n : i \in P
    <3>1. 0 \in P
      BY <1>1
    <3> HIDE DEF P
    <3> QED BY <1>1, <2>7, <3>1, Induct
  <2>9. FlattenSeq(ss) = f[n]
    BY <1>1, <1>3, <2>5, <2>8 DEF n
  <2> DEFINE Q == {i \in 0..n : IsSeq(f[i]) /\ ToSet(f[i]) = UNION {ToSet(ss[j]) : j \in 1..i}}
  <2>10. 0 \in Q
    <3>1. f[0] = <<>> /\ 0 \in 0..n
      BY <1>1, <2>2 DEF Iterated
    <3>2. UNION {ToSet(ss[j]) : j \in 1..0} = {}
      OBVIOUS
    <3> QED BY <3>1, <3>2, NoElement
  <2>11. \A i \in 1..n : i - 1 \in Q => i \in Q
    <3> SUFFICES ASSUME NEW i \in 1..n, i - 1 \in Q PROVE i \in Q
      OBVIOUS
    <3>1. IsSeq(f[i]) /\ ToSet(f[i]) = ToSet(f[i-1]) \cup ToSet(ss[i])
      <4>1. IsSeq(f[i-1]) /\ IsSeq(ss[i]) /\ f[i] = f[i-1] \o ss[i]
        BY <2>3 DEF n
      <4> QED BY <4>1, CatElements
    <3>2. ToSet(f[i-1]) = UNION {ToSet(ss[j]) : j \in 1..(i-1)}
      OBVIOUS
    <3>3. 1..i = 1..(i-1) \cup {i}
      BY <1>1
    <3>4. UNION {ToSet(ss[j]) : j \in 1..i} = ToSet(f[i-1]) \cup ToSet(ss[i])
      BY <3>2, <3>3
    <3>5. i \in 0..n
      BY <1>1
    <3> QED BY <3>1, <3>4, <3>5
  <2>12. n \in Q
    <3> HIDE DEF Q
    <3>1. \A i \in 0..n : i \in Q
      BY <1>1, <2>10, <2>11, Induct
    <3> QED BY <1>1, <3>1
  <2> QED BY <2>9, <2>12 DEF n
<1> QED BY <1>1, <1>2, <1>3
---------------------------------------------------------------------------
\* The rank of a name is a number.
LEMMA RankIsNumber == ASSUME NEW x PROVE Rank(x) \in Nat
<1>1. IsSeq(Lex)
  BY LexAssumption, IsSeqOf
<1>2. CASE x \in ToSet(Lex)
  <2>1. \E i \in 1..Len(Lex) : Lex[i] = x
    BY <1>1, <1>2, ElementsOf
  <2>2. DOMAIN Lex = 1..Len(Lex)
    BY <1>1, ElementsOf
  <2>3. (CHOOSE i \in DOMAIN Lex : Lex[i] = x) \in 1..Len(Lex)
    BY <2>1, <2>2
  <2> QED BY <1>2, <2>3 DEF Rank
<1>3. CASE x \notin ToSet(Lex)
  BY <1>1, <1>3, ElementsOf DEF Rank
<1> QED BY <1>2, <1>3

\* The first of some names is one of them.
LEMMA LeastIsOne == ASSUME NEW S, S # {} PROVE Least(S) \in S
<1> DEFINE R == {Rank(x) : x \in S}
<1>1. PICK n \in R : \A m \in R : n <= m
  <2>1. R \in SUBSET Nat /\ R # {}
    BY RankIsNumber
  <2> HIDE DEF R
  <2> QED BY <2>1, LeastNumber
<1>2. PICK x \in S : Rank(x) = n
  OBVIOUS
<1>3. \A y \in S : Rank(x) <= Rank(y)
  BY <1>1, <1>2
<1> QED BY <1>2, <1>3 DEF Least

(* Kahn's algorithm orders nodes only, and each of them behind the ones it   *)
(* waits for.                                                                *)
Settled(b, preds) == \A i \in 1..Len(b) : preds[b[i]] \subseteq {b[j] : j \in 1..(i-1)}
LEMMA KahnOrderNodes ==
    ASSUME NEW nodes, IsFiniteSet(nodes), NEW preds
    PROVE  KahnOrder(nodes, preds) \in Seq(nodes) /\ Settled(KahnOrder(nodes, preds), preds)
<1> DEFINE n == Cardinality(nodes)
           V == {b \in Seq(nodes) : Settled(b, preds)}
           ready(b) == {x \in nodes \ ToSet(b) : preds[x] \subseteq ToSet(b)}
           next(b) == IF ready(b) = {} THEN b ELSE Append(b, Least(ready(b)))
           G == [p \in (1..n) \X V |-> next(p[2])]
           F(u) == u = [i \in 0..Cardinality(nodes) |->
                           IF i = 0 THEN <<>> ELSE next(u[i-1])]
<1>1. n \in Nat
  BY FS_CardinalityType
<1>2. \A b \in V : next(b) \in V
  <2> TAKE b \in V
  <2>1. CASE ready(b) = {}
    BY <2>1
  <2>2. CASE ready(b) # {}
    <3> DEFINE x == Least(ready(b))
               c == Append(b, x)
    <3>1. x \in ready(b)
      BY <2>2, LeastIsOne
    <3>2. x \in nodes /\ preds[x] \subseteq ToSet(b)
      BY <3>1
    <3> HIDE DEF x
    <3>3. c \in Seq(nodes) /\ Len(c) = Len(b) + 1 /\ Len(b) \in Nat
          /\ c[Len(b) + 1] = x /\ \A i \in 1..Len(b) : c[i] = b[i]
      BY <3>2
    <3> HIDE DEF c
    <3>4. IsSeq(b)
      BY IsSeqOf
    <3>5. ASSUME NEW i \in 1..Len(c), NEW y \in preds[c[i]] PROVE \E j \in 1..(i-1) : y = c[j]
      <4>1. CASE i = Len(b) + 1
        <5>1. PICK j \in 1..Len(b) : b[j] = y
          BY <3>2, <3>3, <3>4, <3>5, <4>1, ElementsOf
        <5> QED BY <3>3, <4>1, <5>1
      <4>2. CASE i # Len(b) + 1
        <5>1. i \in 1..Len(b)
          BY <3>3, <4>2
        <5>2. PICK j \in 1..(i-1) : y = b[j]
          BY <3>3, <3>5, <5>1 DEF Settled
        <5>3. j \in 1..Len(b)
          BY <3>3, <5>1
        <5> QED BY <3>3, <5>2, <5>3
      <4> QED BY <4>1, <4>2
    <3>6. Settled(c, preds)
      BY <3>5 DEF Settled
    <3>7. next(b) = c
      BY <2>2 DEF c, x
    <3> QED BY <3>3, <3>6, <3>7
  <2> QED BY <2>1, <2>2
<1>3. PICK f \in [0..n -> V] : Iterated(f, n, <<>>, G)
  <2> HIDE DEF n, V, next
  <2>1. G \in [(1..n) \X V -> V]
    BY <1>2
  <2>2. <<>> \in V
    BY NoElement DEF V, Settled
  <2> HIDE DEF G
  <2> QED BY <1>1, <2>1, <2>2, Iterates
<1> HIDE DEF V, next
<1>4. F(f)
  <2> HIDE DEF n
  <2>1. \A i \in 0..n : f[i] = IF i = 0 THEN <<>> ELSE next(f[i-1])
    <3> TAKE i \in 0..n
    <3>1. CASE i = 0
      BY <1>3, <3>1 DEF Iterated
    <3>2. CASE i # 0
      <4>1. i \in 1..n /\ i - 1 \in 0..n
        BY <1>1, <3>2
      <4>2. f[i-1] \in V
        BY <1>3, <4>1
      <4>3. f[i] = G[<<i, f[i-1]>>] /\ <<i, f[i-1]>> \in (1..n) \X V
        BY <1>3, <4>1, <4>2 DEF Iterated
      <4> QED BY <3>2, <4>3
    <3> QED BY <3>1, <3>2
  <2> QED BY <1>3, <2>1 DEF n
<1>5. KahnOrder(nodes, preds) = (CHOOSE u : F(u))[n]
  BY DEF KahnOrder, next
<1>6. PICK u : F(u) /\ KahnOrder(nodes, preds) = u[n]
  <2> HIDE DEF F
  <2> QED BY <1>4, <1>5
<1> DEFINE P == {i \in 0..n : u[i] \in V}
<1>7. \A i \in 0..n : i \in P
  <2>1. \A i \in 0..n : u[i] = IF i = 0 THEN <<>> ELSE next(u[i-1])
    BY <1>6
  <2> HIDE DEF F, n
  <2>2. 0 \in P
    <3>1. u[0] = <<>> /\ <<>> \in V
      BY <1>1, <2>1, NoElement DEF V, Settled
    <3> QED BY <1>1, <3>1
  <2>3. \A i \in 1..n : i - 1 \in P => i \in P
    <3> SUFFICES ASSUME NEW i \in 1..n, i - 1 \in P PROVE i \in P
      OBVIOUS
    <3>1. i \in 0..n /\ i # 0
      BY <1>1
    <3>2. u[i] = next(u[i-1]) /\ u[i-1] \in V
      BY <2>1, <3>1
    <3> QED BY <1>2, <3>1, <3>2
  <2> HIDE DEF P
  <2> QED BY <1>1, <2>2, <2>3, Induct
<1>8. n \in P
  BY <1>1, <1>7
<1> QED BY <1>6, <1>8 DEF V

\* The chain of the join candidates is made of them.
LEMMA ChainOrderHops ==
    ASSUME NEW H, IsSeq(H)
    PROVE  IsSeq(ChainOrder(H)) /\ ToSet(ChainOrder(H)) \subseteq ToSet(H)
<1> DEFINE n == Len(H)
           V == Seq(1..n)
           open(b) == {i \in DOMAIN H \ ToSet(b) : H[i].left = H[Last(b)].right}
           next(b) == IF open(b) = {} THEN b ELSE Append(b, CHOOSE i \in open(b) : \A j \in open(b) : i <= j)
           G == [p \in (1..n) \X V |-> IF p[1] = 1 THEN <<1>> ELSE next(p[2])]
           F(u) == u = [i \in 1..Len(H) |-> IF i = 1 THEN <<1>> ELSE next(u[i-1])]
<1>1. n \in Nat /\ DOMAIN H = 1..n
  BY ElementsOf
<1>2. CASE n <= 1
  BY <1>2 DEF ChainOrder
<1>3. CASE ~(n <= 1)
  <2>1. \A b \in V : next(b) \in V
    <3> TAKE b \in V
    <3>1. CASE open(b) = {}
      BY <3>1
    <3>2. CASE open(b) # {}
      <4>1. open(b) \in SUBSET Nat /\ open(b) \subseteq 1..n
        BY <1>1
      <4> DEFINE c == CHOOSE i \in open(b) : \A j \in open(b) : i <= j
      <4>2. c \in open(b)
        <5> HIDE DEF open
        <5>1. \E i \in open(b) : \A j \in open(b) : i <= j
          BY <3>2, <4>1, LeastNumber
        <5> QED BY <5>1
      <4>3. c \in 1..n
        BY <4>1, <4>2
      <4> HIDE DEF c, n
      <4>4. Append(b, c) \in V
        BY <4>3
      <4> QED BY <3>2, <4>4 DEF c
    <3> QED BY <3>1, <3>2
  <2>2. <<1>> \in V
    <3>1. 1 \in 1..n
      BY <1>1, <1>3
    <3> QED BY <3>1
  <2> HIDE DEF n, V, next
  <2>3. PICK f \in [0..n -> V] : Iterated(f, n, <<>>, G)
    <3>1. G \in [(1..n) \X V -> V]
      BY <2>1, <2>2
    <3>2. <<>> \in V
      BY DEF V
    <3> HIDE DEF G
    <3> QED BY <1>1, <3>1, <3>2, Iterates
  <2> DEFINE g == [i \in 1..n |-> f[i]]
  <2>4. F(g)
    <3>1. \A i \in 1..n : g[i] = IF i = 1 THEN <<1>> ELSE next(g[i-1])
      <4> TAKE i \in 1..n
      <4>1. i - 1 \in 0..n /\ (i # 1 => i - 1 \in 1..n)
        BY <1>1
      <4>2. f[i-1] \in V
        BY <2>3, <4>1
      <4>3. f[i] = G[<<i, f[i-1]>>] /\ <<i, f[i-1]>> \in (1..n) \X V
        BY <2>3, <4>2 DEF Iterated
      <4> QED BY <4>1, <4>3
    <3> QED BY <3>1 DEF n
  <2>5. PICK u : F(u) /\ ChainOrder(H) = SeqMap(LAMBDA i : H[i], u[n]) \o Kept(H, DOMAIN H \ ToSet(u[n]))
    <3> HIDE DEF g
    <3>1. ChainOrder(H) = SeqMap(LAMBDA i : H[i], (CHOOSE u : F(u))[n])
                          \o Kept(H, DOMAIN H \ ToSet((CHOOSE u : F(u))[n]))
      BY <1>3 DEF ChainOrder, n, next
    <3> HIDE DEF F
    <3> QED BY <2>4, <3>1
  <2> DEFINE P == {i \in 0..n : i # 0 => u[i] \in V}
             main == u[n]
  <2>6. main \in V
    <3>1. \A i \in 1..n : u[i] = IF i = 1 THEN <<1>> ELSE next(u[i-1])
      BY <2>5 DEF n
    <3>2. \A i \in 1..n : i - 1 \in P => i \in P
      <4> SUFFICES ASSUME NEW i \in 1..n, i - 1 \in P PROVE u[i] \in V
        BY <1>1
      <4>1. CASE i = 1
        BY <2>2, <3>1, <4>1
      <4>2. CASE i # 1
        <5>1. u[i-1] \in V
          BY <1>1, <4>2
        <5> QED BY <2>1, <3>1, <4>2, <5>1
      <4> QED BY <4>1, <4>2
    <3>3. 0 \in P
      BY <1>1
    <3> HIDE DEF P
    <3>4. \A i \in 0..n : i \in P
      BY <1>1, <3>2, <3>3, Induct
    <3>5. n \in P
      BY <1>1, <3>4
    <3> QED BY <1>1, <1>3, <3>5 DEF P
  <2> HIDE DEF main
  <2> DEFINE m == SeqMap(LAMBDA i : H[i], main)
  <2>7. IsSeq(m) /\ ToSet(m) \subseteq ToSet(H)
    <3>1. main \in Seq(1..n) /\ \A i \in 1..n : H[i] \in ToSet(H)
      BY <2>6, ElementsOf DEF V, n
    <3>2. m = [i \in 1..Len(main) |-> H[main[i]]]
      BY <3>1 DEF SeqMap
    <3>3. \A i \in 1..Len(main) : H[main[i]] \in ToSet(H)
      <4>1. IsSeq(main) /\ ToSet(main) \subseteq 1..n
        BY <2>6, IsSeqOf DEF V
      <4>2. \A i \in 1..Len(main) : main[i] \in 1..n
        BY <4>1, ElementsOf
      <4> QED BY <3>1, <4>2
    <3>4. Len(main) \in Nat
      BY <3>1
    <3> HIDE DEF m
    <3>5. m \in Seq(ToSet(H))
      BY <3>2, <3>3, <3>4
    <3> QED BY <3>5, IsSeqOf
  <2>8. IsSeq(Kept(H, DOMAIN H \ ToSet(main))) /\ ToSet(Kept(H, DOMAIN H \ ToSet(main))) \subseteq ToSet(H)
    BY KeptElements
  <2>9. ChainOrder(H) = m \o Kept(H, DOMAIN H \ ToSet(main))
    BY <2>5 DEF main
  <2> DEFINE k == Kept(H, DOMAIN H \ ToSet(main))
  <2> HIDE DEF m, k
  <2>10. IsSeq(m \o k) /\ ToSet(m \o k) = ToSet(m) \cup ToSet(k)
    BY <2>7, <2>8, CatElements DEF k
  <2> QED BY <2>7, <2>8, <2>9, <2>10 DEF k
<1> QED BY <1>1, <1>2, <1>3
---------------------------------------------------------------------------
(* A step reads x; what the tables demand of a plan that reads x; what the   *)
(* filters of some steps check.  A beginning of a plan is well read when it  *)
(* checks all that is demanded of what it reads; a plan keeps the filters    *)
(* when it reads no more after such a beginning, in which no window and no   *)
(* projection stands: at those the compiler cuts a plan into layers.         *)
Reads(s, x) == (s.op = "scan" /\ s.t = x) \/ (s.op = "join" /\ s.right = x)
Stops(s) == s.op \in {"window", "project"}
Demanded(T, x) == {Ref(x, c) : c \in UNION {ToSet(t.filters) : t \in {u \in ToSet(T) : x \in Under(u.alias)}}}
Checked(H) == UNION {f.refs : f \in {g \in H : g.op = "filter"}}
Filtered(T, H) == \A s \in H : \A x : Reads(s, x) => Demanded(T, x) \subseteq Checked(H)
WellRead(T, s) == IsSeq(s) /\ (\A e \in ToSet(s) : ~Stops(e)) /\ Filtered(T, ToSet(s))
NoReads(s) == IsSeq(s) /\ \A e \in ToSet(s) : e.op \notin {"scan", "join"}
KeepsAt(T, s, n) ==
    /\ IsSeq(s) /\ n \in 0..Len(s)
    /\ \A i \in 1..n : ~Stops(s[i])
    /\ \A i \in (n+1)..Len(s) : s[i].op \notin {"scan", "join"}
    /\ Filtered(T, {s[i] : i \in 1..n})
Keeps(T, s) == \E n : KeepsAt(T, s, n)

\* More steps check more.
LEMMA CheckedGrows == ASSUME NEW H, NEW K, H \subseteq K PROVE Checked(H) \subseteq Checked(K)
  BY DEF Checked

\* Well read beginnings end to end are one.
LEMMA WellReadCat ==
    ASSUME NEW T, NEW s, NEW t, WellRead(T, s), WellRead(T, t)
    PROVE  WellRead(T, s \o t)
<1>1. IsSeq(s) /\ IsSeq(t)
  BY DEF WellRead
<1>2. IsSeq(s \o t) /\ ToSet(s \o t) = ToSet(s) \cup ToSet(t)
  BY <1>1, CatElements
<1>3. Checked(ToSet(s)) \subseteq Checked(ToSet(s \o t)) /\ Checked(ToSet(t)) \subseteq Checked(ToSet(s \o t))
  BY <1>2, CheckedGrows
<1> QED BY <1>2, <1>3 DEF WellRead, Filtered

\* Any number of them.
LEMMA WellReadFlatten ==
    ASSUME NEW T, NEW ss, IsSeq(ss), \A i \in 1..Len(ss) : WellRead(T, ss[i])
    PROVE  WellRead(T, FlattenSeq(ss))
<1> DEFINE F == FlattenSeq(ss)
<1>1. \A i \in 1..Len(ss) : IsSeq(ss[i])
  BY DEF WellRead
<1>2. IsSeq(F) /\ ToSet(F) = UNION {ToSet(ss[i]) : i \in 1..Len(ss)}
  BY <1>1, FlattenElements
<1> HIDE DEF F
<1>3. ASSUME NEW e \in ToSet(F), NEW x
      PROVE  ~Stops(e) /\ (Reads(e, x) => Demanded(T, x) \subseteq Checked(ToSet(F)))
  <2>1. PICK i \in 1..Len(ss) : e \in ToSet(ss[i])
    BY <1>2
  <2>2. ToSet(ss[i]) \subseteq ToSet(F)
    BY <1>2
  <2>3. Checked(ToSet(ss[i])) \subseteq Checked(ToSet(F))
    BY <2>2, CheckedGrows
  <2> QED BY <2>1, <2>3 DEF WellRead, Filtered
<1> QED BY <1>2, <1>3 DEF WellRead, Filtered, F

\* Ends without reads, one after the other, are one.
LEMMA NoReadsCat ==
    ASSUME NEW s, NEW t, NoReads(s), NoReads(t)
    PROVE  NoReads(s \o t)
<1>1. IsSeq(s) /\ IsSeq(t)
  BY DEF NoReads
<1> QED BY <1>1, CatElements DEF NoReads

\* Nothing reads nothing; one step that is neither a scan nor a join.
LEMMA NoReadsFew ==
    /\ NoReads(<<>>) /\ \A T : WellRead(T, <<>>)
    /\ \A e : e.op \notin {"scan", "join"} => NoReads(<<e>>)
<1>1. IsSeq(<<>>) /\ ToSet(<<>>) = {}
  BY NoElement
<1>2. NoReads(<<>>) /\ \A T : WellRead(T, <<>>)
  BY <1>1 DEF NoReads, WellRead, Filtered
<1>3. \A e : IsSeq(<<e>>) /\ ToSet(<<e>>) = {e}
  BY OneElement
<1> QED BY <1>2, <1>3 DEF NoReads

\* A well read beginning keeps the filters.
LEMMA WellReadKeeps == ASSUME NEW T, NEW s, WellRead(T, s) PROVE Keeps(T, s)
<1>1. IsSeq(s) /\ Len(s) \in Nat /\ \A i \in 1..Len(s) : s[i] \in ToSet(s)
  BY ElementsOf DEF WellRead
<1>2. {s[i] : i \in 1..Len(s)} = ToSet(s)
  BY <1>1, ElementsOf
<1>3. KeepsAt(T, s, Len(s))
  <2>1. Len(s) \in 0..Len(s) /\ (Len(s)+1)..Len(s) = {}
    BY <1>1
  <2>2. \A i \in 1..Len(s) : ~Stops(s[i])
    BY <1>1 DEF WellRead
  <2>3. Filtered(T, {s[i] : i \in 1..Len(s)})
    BY <1>2 DEF WellRead
  <2> QED BY <1>1, <2>1, <2>2, <2>3 DEF KeepsAt
<1> QED BY <1>3 DEF Keeps

\* What reads nothing may follow.
LEMMA KeepsCat ==
    ASSUME NEW T, NEW s, NEW t, Keeps(T, s), NoReads(t)
    PROVE  Keeps(T, s \o t)
<1>1. PICK n : KeepsAt(T, s, n)
  BY DEF Keeps
<1> DEFINE v == s \o t
<1>2. IsSeq(s) /\ IsSeq(t) /\ n \in 0..Len(s)
  BY <1>1 DEF KeepsAt, NoReads
<1>3. Len(s) \in Nat /\ Len(t) \in Nat /\ s \in Seq(ToSet(s)) /\ t \in Seq(ToSet(t)) /\ \A i \in 1..Len(t) : t[i] \in ToSet(t)
  BY <1>2, ElementsOf
<1>4. IsSeq(v) /\ Len(v) = Len(s) + Len(t)
  BY <1>2, CatElements
<1>5. (\A i \in 1..Len(s) : v[i] = s[i]) /\ \A i \in (Len(s)+1)..Len(v) : v[i] = t[i - Len(s)] /\ i - Len(s) \in 1..Len(t)
  <2>1. s \in Seq(ToSet(s) \cup ToSet(t)) /\ t \in Seq(ToSet(s) \cup ToSet(t))
    BY <1>3
  <2> QED BY <1>3, <1>4, <2>1
<1> HIDE DEF v
<1>6. \A i \in 1..n : v[i] = s[i]
  BY <1>2, <1>3, <1>5
<1>7. {v[i] : i \in 1..n} = {s[i] : i \in 1..n}
  BY <1>6
<1>8. \A i \in (n+1)..Len(v) : v[i].op \notin {"scan", "join"}
  <2> TAKE i \in (n+1)..Len(v)
  <2>1. CASE i <= Len(s)
    <3>1. i \in (n+1)..Len(s) /\ i \in 1..Len(s)
      BY <1>2, <1>3, <1>4, <2>1
    <3> QED BY <1>1, <1>5, <3>1 DEF KeepsAt
  <2>2. CASE ~(i <= Len(s))
    <3>1. i \in (Len(s)+1)..Len(v)
      BY <1>2, <1>3, <1>4, <2>2
    <3> QED BY <1>3, <1>5, <3>1 DEF NoReads
  <2> QED BY <2>1, <2>2
<1>9. KeepsAt(T, v, n)
  <2>1. n \in 0..Len(v)
    BY <1>2, <1>3, <1>4
  <2> QED BY <1>1, <1>4, <1>6, <1>7, <1>8, <2>1 DEF KeepsAt
<1> QED BY <1>9 DEF Keeps, v

\* All that a plan reads is checked.
LEMMA KeepsFiltered == ASSUME NEW T, NEW s, Keeps(T, s) PROVE Filtered(T, ToSet(s))
<1>1. PICK n : KeepsAt(T, s, n)
  BY DEF Keeps
<1>2. IsSeq(s) /\ n \in 0..Len(s) /\ Len(s) \in Nat
  BY <1>1, ElementsOf DEF KeepsAt
<1> DEFINE H == {s[i] : i \in 1..n}
<1>3. H \subseteq ToSet(s)
  BY <1>2, ElementsOf
<1>4. Checked(H) \subseteq Checked(ToSet(s))
  BY <1>3, CheckedGrows
<1>5. ASSUME NEW e \in ToSet(s), NEW x, Reads(e, x) PROVE e \in H
  <2>1. PICK i \in 1..Len(s) : s[i] = e
    BY <1>2, ElementsOf
  <2>2. i \notin (n+1)..Len(s)
    BY <1>1, <1>5, <2>1 DEF KeepsAt, Reads
  <2>3. i \in 1..n
    BY <1>2, <2>2
  <2> QED BY <2>1, <2>3
<1>6. Filtered(T, H)
  BY <1>1 DEF KeepsAt
<1> HIDE DEF H
<1> QED BY <1>4, <1>5, <1>6 DEF Filtered

\* Sorts and windows may be left out.
LEMMA KeepsKept ==
    ASSUME NEW T, NEW s, Keeps(T, s), NEW I,
           \A i \in 1..Len(s) : i \notin I => s[i].op \in {"sort", "window"}
    PROVE  Keeps(T, Kept(s, I))
<1>1. PICK n : KeepsAt(T, s, n)
  BY DEF Keeps
<1>2. IsSeq(s) /\ n \in 0..Len(s) /\ Len(s) \in Nat
  BY <1>1, ElementsOf DEF KeepsAt
<1> DEFINE v == Kept(s, I)
           H == {s[i] : i \in 1..n}
<1>3. PICK k : PartedAt(v, k, Len(s), s, I, n)
  BY <1>2, KeptParted
<1>4. IsSeq(v) /\ k \in 0..Len(v) /\ Len(v) \in Nat
  <2> HIDE DEF v
  <2> QED BY <1>3, IsSeqOf, ElementsOf DEF PartedAt
<1> HIDE DEF v
<1>5. \A j \in 1..k : \E i \in I : i \in 1..n /\ v[j] = s[i]
  BY <1>3 DEF PartedAt
<1>6. \A i \in I : i \in 1..n => \E j \in 1..k : v[j] = s[i]
  <2>1. \A i \in 1..n : i <= Len(s)
    BY <1>2
  <2>2. \A i \in I : i \in 1..n /\ i <= Len(s) => \E j \in 1..k : v[j] = s[i]
    BY <1>3 DEF PartedAt
  <2> QED BY <2>1, <2>2
<1>7. \A j \in (k+1)..Len(v) : \E i \in (n+1)..Len(s) : v[j] = s[i]
  BY <1>3 DEF PartedAt
<1>8. {v[j] : j \in 1..k} \subseteq H
  BY <1>5
<1>9. Checked(H) \subseteq Checked({v[j] : j \in 1..k})
  <2>1. ASSUME NEW f \in H, f.op = "filter" PROVE f \in {v[j] : j \in 1..k}
    <3>1. PICK i \in 1..n : f = s[i]
      OBVIOUS
    <3>2. i \in I
      BY <1>2, <2>1, <3>1
    <3> QED BY <1>6, <3>1, <3>2
  <2> QED BY <2>1 DEF Checked
<1>10. Filtered(T, {v[j] : j \in 1..k})
  <2>1. Filtered(T, H)
    BY <1>1 DEF KeepsAt
  <2> HIDE DEF H
  <2> QED BY <1>8, <1>9, <2>1 DEF Filtered
<1>11. KeepsAt(T, v, k)
  <2>1. \A j \in 1..k : ~Stops(v[j])
    BY <1>1, <1>5 DEF KeepsAt
  <2>2. \A j \in (k+1)..Len(v) : v[j].op \notin {"scan", "join"}
    BY <1>1, <1>7 DEF KeepsAt
  <2> QED BY <1>4, <1>10, <2>1, <2>2 DEF KeepsAt
<1> QED BY <1>11 DEF Keeps, v

\* Scans may be given other columns, windows other expressions.
LEMMA KeepsMapped ==
    ASSUME NEW T, NEW s, Keeps(T, s), NEW f, DOMAIN f = DOMAIN s, f = [i \in DOMAIN f |-> f[i]],
           \A i \in 1..Len(s) : /\ f[i].op = s[i].op
                                /\ s[i].op = "scan" => f[i].t = s[i].t
                                /\ s[i].op \notin {"scan", "window"} => f[i] = s[i]
    PROVE  Keeps(T, f)
<1>1. PICK n : KeepsAt(T, s, n)
  BY DEF Keeps
<1>2. IsSeq(s) /\ n \in 0..Len(s) /\ Len(s) \in Nat
  BY <1>1, ElementsOf DEF KeepsAt
<1>3. IsSeq(f) /\ Len(f) = Len(s)
  BY <1>2, MappedSeq
<1> DEFINE H == {s[i] : i \in 1..n}
           K == {f[i] : i \in 1..n}
<1>4. Checked(H) \subseteq Checked(K)
  <2>1. ASSUME NEW e \in H, e.op = "filter" PROVE e \in K
    <3>1. PICK i \in 1..n : e = s[i]
      OBVIOUS
    <3>2. f[i] = s[i]
      BY <1>2, <2>1, <3>1
    <3> QED BY <3>1, <3>2
  <2> QED BY <2>1 DEF Checked
<1>5. Filtered(T, K)
  <2>1. ASSUME NEW e \in K, NEW x, Reads(e, x) PROVE \E d \in H : Reads(d, x)
    <3>1. PICK i \in 1..n : e = f[i]
      OBVIOUS
    <3>2. i \in 1..Len(s) /\ f[i].op = s[i].op
      BY <1>2
    <3>3. CASE f[i].op = "scan" /\ f[i].t = x
      <4>1. s[i].op = "scan" /\ s[i].t = x
        BY <3>2, <3>3
      <4>2. Reads(s[i], x)
        BY <4>1 DEF Reads
      <4> QED BY <4>2
    <3>4. CASE f[i].op = "join" /\ f[i].right = x
      <4>1. s[i].op \notin {"scan", "window"}
        BY <3>2, <3>4
      <4>2. f[i] = s[i]
        BY <3>2, <4>1
      <4>3. Reads(s[i], x)
        BY <2>1, <3>1, <4>2
      <4> QED BY <4>3
    <3> QED BY <2>1, <3>1, <3>3, <3>4 DEF Reads
  <2>2. Filtered(T, H)
    BY <1>1 DEF KeepsAt
  <2> HIDE DEF H, K
  <2> QED BY <1>4, <2>1, <2>2 DEF Filtered
<1>6. \A i \in 1..n : ~Stops(f[i])
  <2> TAKE i \in 1..n
  <2>1. ~Stops(s[i]) /\ i \in 1..Len(s)
    BY <1>1, <1>2 DEF KeepsAt
  <2> QED BY <2>1 DEF Stops
<1>7. \A i \in (n+1)..Len(f) : f[i].op \notin {"scan", "join"}
  <2> TAKE i \in (n+1)..Len(f)
  <2>1. s[i].op \notin {"scan", "join"} /\ i \in 1..Len(s)
    BY <1>1, <1>2, <1>3 DEF KeepsAt
  <2> QED BY <2>1
<1>8. KeepsAt(T, f, n)
  BY <1>2, <1>3, <1>5, <1>6, <1>7 DEF KeepsAt
<1> QED BY <1>8 DEF Keeps

\* A plan may be cut before or after a window or a projection.
LEMMA KeepsCut ==
    ASSUME NEW T, NEW s, Keeps(T, s), NEW m \in 0..Len(s),
           \/ m \in 1..Len(s) /\ Stops(s[m])
           \/ m + 1 \in 1..Len(s) /\ Stops(s[m+1])
    PROVE  Keeps(T, SubSeq(s, 1, m))
<1>1. PICK n : KeepsAt(T, s, n)
  BY DEF Keeps
<1>2. IsSeq(s) /\ n \in 0..Len(s) /\ Len(s) \in Nat /\ s \in Seq(ToSet(s)) /\ m \in Nat
  BY <1>1, ElementsOf DEF KeepsAt
<1>3. n <= m
  <2>1. CASE m \in 1..Len(s) /\ Stops(s[m])
    <3>1. m \notin 1..n
      BY <1>1, <2>1 DEF KeepsAt
    <3> QED BY <1>2, <2>1, <3>1
  <2>2. CASE m + 1 \in 1..Len(s) /\ Stops(s[m+1])
    <3>1. m + 1 \notin 1..n
      BY <1>1, <2>2 DEF KeepsAt
    <3> QED BY <1>2, <2>2, <3>1
  <2> QED BY <2>1, <2>2
<1> DEFINE v == SubSeq(s, 1, m)
<1>4. v \in Seq(ToSet(s)) /\ Len(v) = m /\ \A i \in 1..m : v[i] = s[i]
  <2>1. m <= Len(s)
    BY <1>2
  <2> QED BY <1>2, <2>1
<1> HIDE DEF v
<1>5. IsSeq(v) /\ \A i \in 1..n : v[i] = s[i]
  BY <1>2, <1>3, <1>4, IsSeqOf
<1>6. {v[i] : i \in 1..n} = {s[i] : i \in 1..n}
  BY <1>5
<1>7. \A i \in (n+1)..Len(v) : v[i].op \notin {"scan", "join"}
  <2> TAKE i \in (n+1)..Len(v)
  <2>1. i \in (n+1)..Len(s) /\ i \in 1..m
    BY <1>2, <1>3, <1>4
  <2> QED BY <1>1, <1>4, <2>1 DEF KeepsAt
<1>8. KeepsAt(T, v, n)
  <2>1. n \in 0..Len(v)
    BY <1>2, <1>3, <1>4
  <2> QED BY <1>1, <1>5, <1>6, <1>7, <2>1 DEF KeepsAt
<1> QED BY <1>8 DEF Keeps, v

---------------------------------------------------------------------------
\* A layer checks all that is demanded of the tables in its scope.
LayerKeeps(T, layer) == \A x \in Scope(layer) : Demanded(T, x) \subseteq layer.where

\* The query of a plan that keeps the filters.
LEMMA FlatKeeps == ASSUME NEW T, NEW s, Keeps(T, s) PROVE LayerKeeps(T, Flat(s))
<1> DEFINE scans == Ops(s, "scan")
           joins == Ops(s, "join")
           joined == {j.right : j \in ToSet(joins)}
           names == SeqMap(LAMBDA e : e.t, scans)
           from == Only(names, LAMBDA t : t \notin joined)
<1>1. IsSeq(s) /\ Filtered(T, ToSet(s))
  BY KeepsFiltered DEF Keeps, KeepsAt
<1>2. IsSeq(scans) /\ \A e \in ToSet(scans) : e \in ToSet(s) /\ e.op = "scan"
  <2>1. ToSet(scans) \subseteq ToSet(s) /\ IsSeq(scans)
    BY <1>1, KeptElements DEF Ops, Only
  <2>2. \A e \in ToSet(scans) : \E i \in {i \in DOMAIN s : s[i].op = "scan"} : i \in 1..Len(s) /\ e = s[i]
    BY <1>1, KeptElements DEF Ops, Only
  <2> HIDE DEF scans
  <2> QED BY <2>1, <2>2
<1>3. IsSeq(joins) /\ \A e \in ToSet(joins) : e \in ToSet(s) /\ e.op = "join"
  <2>1. ToSet(joins) \subseteq ToSet(s) /\ IsSeq(joins)
    BY <1>1, KeptElements DEF Ops, Only
  <2>2. \A e \in ToSet(joins) : \E i \in {i \in DOMAIN s : s[i].op = "join"} : i \in 1..Len(s) /\ e = s[i]
    BY <1>1, KeptElements DEF Ops, Only
  <2> HIDE DEF joins
  <2> QED BY <2>1, <2>2
<1>4. \A f \in ToSet(s) : f.op = "filter" => f \in ToSet(Ops(s, "filter"))
  <2> SUFFICES ASSUME NEW f \in ToSet(s), f.op = "filter" PROVE f \in ToSet(Ops(s, "filter"))
    OBVIOUS
  <2>1. PICK i \in 1..Len(s) : s[i] = f
    BY <1>1, ElementsOf
  <2>2. i \in {i1 \in DOMAIN s : s[i1].op = "filter"}
    BY <1>1, <2>1, ElementsOf
  <2> QED BY <1>1, <2>1, <2>2, KeptElements DEF Ops, Only
<1>5. Flat(s).where = UNION {e.refs : e \in ToSet(Ops(s, "filter"))}
  BY DEF Flat
<1>6. Flat(s).joins = joins /\ Flat(s).from = from
  BY DEF Flat
<1>7. Checked(ToSet(s)) \subseteq Flat(s).where
  BY <1>4, <1>5 DEF Checked
<1>8. \A x \in ToSet(from) : \E e \in ToSet(scans) : e.t = x
  <2> HIDE DEF scans, joined
  <2>1. IsSeq(names) /\ \A i \in 1..Len(names) : i \in 1..Len(scans) /\ names[i] = scans[i].t
    <3>1. DOMAIN scans = 1..Len(scans)
      BY <1>2, ElementsOf
    <3>2. DOMAIN names = DOMAIN scans /\ names = [i \in DOMAIN names |-> names[i]]
      BY DEF SeqMap
    <3>3. IsSeq(names) /\ Len(names) = Len(scans)
      <4> HIDE DEF names
      <4> QED BY <1>2, <3>2, MappedSeq
    <3>4. \A i \in 1..Len(scans) : names[i] = scans[i].t
      BY <3>1 DEF SeqMap
    <3> HIDE DEF names
    <3> QED BY <3>3, <3>4
  <2> HIDE DEF names
  <2>2. ToSet(from) \subseteq ToSet(names)
    BY <2>1, KeptElements DEF Only
  <2> HIDE DEF from
  <2> TAKE x \in ToSet(from)
  <2>3. PICK i \in 1..Len(names) : names[i] = x
    BY <2>1, <2>2, ElementsOf
  <2>4. scans[i] \in ToSet(scans)
    BY <1>2, <2>1, ElementsOf
  <2> QED BY <2>1, <2>3, <2>4
<1>9. ASSUME NEW x \in Scope(Flat(s)) PROVE Demanded(T, x) \subseteq Checked(ToSet(s))
  <2> HIDE DEF scans, joins, joined, from
  <2>1. \/ \E e \in ToSet(scans) : e.t = x
        \/ \E e \in ToSet(joins) : e.right = x
    BY <1>6, <1>8 DEF Scope
  <2>2. \E e \in ToSet(s) : Reads(e, x)
    <3>1. ASSUME NEW e \in ToSet(scans), e.t = x PROVE e \in ToSet(s) /\ Reads(e, x)
      BY <1>2, <3>1 DEF Reads
    <3>2. ASSUME NEW e \in ToSet(joins), e.right = x PROVE e \in ToSet(s) /\ Reads(e, x)
      BY <1>3, <3>2 DEF Reads
    <3> QED BY <2>1, <3>1, <3>2
  <2>3. PICK e \in ToSet(s) : Reads(e, x)
    BY <2>2
  <2> QED BY <1>1, <2>3 DEF Filtered
<1> QED BY <1>7, <1>9 DEF LayerKeeps

\* A set of indices that is not empty has a last one.
LEMMA LastIndex ==
    ASSUME NEW n \in Nat, NEW S \in SUBSET (1..n), S # {}
    PROVE  \E i \in S : \A j \in (i+1)..n : j \notin S
<1> DEFINE R == {n - i : i \in S}
<1>1. PICK m \in R : \A k \in R : m <= k
  <2>1. \A i \in S : n - i \in Nat
    <3>1. \A i \in S : i \in 1..n
      OBVIOUS
    <3> QED BY <3>1
  <2>2. R \in SUBSET Nat /\ R # {}
    BY <2>1
  <2> HIDE DEF R
  <2> QED BY <2>2, LeastNumber
<1>2. PICK i \in S : m = n - i
  OBVIOUS
<1>3. ASSUME NEW j \in (i+1)..n, j \in S PROVE FALSE
  <2>1. n - j \in R
    BY <1>3
  <2>2. n - i <= n - j /\ i \in 1..n
    BY <1>1, <1>2, <2>1
  <2> QED BY <1>3, <2>2
<1> QED BY <1>3

\* The compiler's passes leave what a plan reads and checks as it is.
LEMMA OptimizedKeeps == ASSUME NEW T, NEW s, Keeps(T, s) PROVE Keeps(T, Optimized(s))
<1> DEFINE f == ColumnPruning(s)
           I == {i \in DOMAIN f : ~(f[i].op = "sort" /\ f[i].full /\ ~\E e \in ToSet(f) : e.op = "limit")}
<1>1. IsSeq(s) /\ DOMAIN s = 1..Len(s)
  BY ElementsOf DEF Keeps, KeepsAt
<1>2. DOMAIN f = DOMAIN s /\ f = [i \in DOMAIN f |-> f[i]]
  BY DEF ColumnPruning, SeqMap
<1>3. \A i \in 1..Len(s) : /\ f[i].op = s[i].op
                           /\ s[i].op = "scan" => f[i].t = s[i].t
                           /\ s[i].op \notin {"scan", "window"} => f[i] = s[i]
  <2> TAKE i \in 1..Len(s)
  <2>1. CASE s[i].op = "scan"
    <3>1. PICK c : f[i] = Scan(s[i].t, c)
      BY <1>1, <2>1 DEF ColumnPruning, SeqMap
    <3>2. Scan(s[i].t, c).op = "scan" /\ Scan(s[i].t, c).t = s[i].t
      BY DEF Scan
    <3> QED BY <2>1, <3>1, <3>2
  <2>2. CASE s[i].op # "scan"
    <3>1. f[i] = s[i]
      BY <1>1, <2>2 DEF ColumnPruning, SeqMap
    <3> QED BY <2>2, <3>1
  <2> QED BY <2>1, <2>2
<1> HIDE DEF f
<1>4. Keeps(T, f)
  BY <1>2, <1>3, KeepsMapped
<1>5. Optimized(s) = Kept(f, I)
  BY DEF Optimized, SortElimination, Only, f
<1>6. \A i \in 1..Len(f) : i \notin I => f[i].op \in {"sort", "window"}
  <2>1. DOMAIN f = 1..Len(f)
    BY <1>4, ElementsOf DEF Keeps, KeepsAt
  <2> QED BY <2>1
<1> HIDE DEF I
<1> QED BY <1>4, <1>5, <1>6, KeepsKept

\* The steps of one kind are those of that kind.
LEMMA OpsOf ==
    ASSUME NEW s, IsSeq(s), NEW op
    PROVE  \A e \in ToSet(Ops(s, op)) : \E i \in 1..Len(s) : e = s[i] /\ s[i].op = op
<1> DEFINE I == {i \in DOMAIN s : s[i].op = op}
<1>1. Ops(s, op) = Kept(s, I)
  BY DEF Ops, Only
<1>2. \A e \in ToSet(Kept(s, I)) : \E i \in I : i \in 1..Len(s) /\ e = s[i]
  <2> HIDE DEF I
  <2> QED BY KeptElements
<1> QED BY <1>1, <1>2

\* The innermost of the layers of a plan without ratios.
LEMMA PlainKeeps ==
    ASSUME NEW T, NEW s, Keeps(T, s)
    PROVE  /\ IsSeq(PlainLayers(s)) /\ Len(PlainLayers(s)) \in Nat \ {0}
           /\ LayerKeeps(T, PlainLayers(s)[1])
<1>1. IsSeq(s) /\ DOMAIN s = 1..Len(s) /\ Len(s) \in Nat
  BY ElementsOf DEF Keeps, KeepsAt
<1>2. CASE ~NeedsWindowWrap(s)
  <2>1. PlainLayers(s) = <<Flat(s)>>
    BY <1>2 DEF PlainLayers
  <2>2. LayerKeeps(T, Flat(s))
    BY FlatKeeps
  <2>3. \A x : IsSeq(<<x>>) /\ Len(<<x>>) = 1 /\ <<x>>[1] = x
    BY OneElement
  <2> QED BY <2>1, <2>2, <2>3
<1>3. CASE NeedsWindowWrap(s)
  <2> DEFINE W == {i \in 1..Len(s) : s[i].op = "window"}
             last(i) == s[i].op = "window" /\ \A j \in (i+1)..Len(s) : s[j].op # "window"
             at == CHOOSE i \in DOMAIN s : last(i)
  <2>1. W # {}
    <3>1. PICK e : e \in ToSet(Ops(s, "window"))
      BY <1>3 DEF NeedsWindowWrap
    <3> QED BY <1>1, <3>1, OpsOf
  <2>2. PICK i \in W : \A j \in (i+1)..Len(s) : j \notin W
    <3>1. W \in SUBSET (1..Len(s))
      OBVIOUS
    <3> HIDE DEF W
    <3> QED BY <1>1, <2>1, <3>1, LastIndex
  <2>3. last(i)
    <3>1. ASSUME NEW j \in (i+1)..Len(s) PROVE s[j].op # "window"
      <4>1. j \in 1..Len(s)
        BY <1>1
      <4> QED BY <2>2, <4>1
    <3> QED BY <3>1
  <2>4. at \in 1..Len(s) /\ last(at)
    <3>1. i \in DOMAIN s
      BY <1>1
    <3> HIDE DEF last
    <3> QED BY <1>1, <2>3, <3>1
  <2>5. PICK x : PlainLayers(s) = <<Flat(SubSeq(s, 1, at)), x>>
    BY <1>3 DEF PlainLayers, WindowWrapped
  <2> HIDE DEF at, last
  <2>6. Keeps(T, SubSeq(s, 1, at))
    <3>1. at \in 0..Len(s) /\ Stops(s[at])
      BY <1>1, <2>4 DEF Stops, last
    <3> QED BY <2>4, <3>1, KeepsCut
  <2>7. LayerKeeps(T, Flat(SubSeq(s, 1, at)))
    BY <2>6, FlatKeeps
  <2>8. \A y : <<y, x>>[1] = y
    OBVIOUS
  <2>9. \A y : IsSeq(<<y, x>>) /\ Len(<<y, x>>) = 2
    BY TwoElements
  <2> QED BY <2>5, <2>7, <2>8, <2>9
<1> QED BY <1>2, <1>3

\* The innermost of the layers of any plan.
LEMMA LayersKeep ==
    ASSUME NEW T, NEW plan, Keeps(T, plan.steps), NEW ratios
    PROVE  LayerKeeps(T, Layers(plan, ratios)[1])
<1> DEFINE s == Optimized(plan.steps)
<1>1. Keeps(T, s)
  BY OptimizedKeeps
<1>2. Layers(plan, ratios) = LayersOf(s, ratios)
  BY DEF Layers
<1> HIDE DEF s
<1>3. IsSeq(s) /\ DOMAIN s = 1..Len(s) /\ Len(s) \in Nat
  BY <1>1, ElementsOf DEF Keeps, KeepsAt
<1> DEFINE ratio == \E e \in ToSet(Ops(s, "project")) : \E i \in ToSet(e.cols) : IsRatio(i)
<1>4. CASE ~ratio
  BY <1>1, <1>2, <1>4, PlainKeeps DEF LayersOf
<1>5. CASE ratio
  <2> DEFINE at == CHOOSE i \in DOMAIN s : s[i].op = "project"
             metrics == UNION {ToSet(Aliases(e.metrics)) : e \in ToSet(Ops(s, "aggregate"))}
             late(e) == \E r \in e.refs : r.c \in metrics
             early(e) == IF e.op = "window" THEN [op |-> "window", exprs |-> Only(e.exprs, LAMBDA x : ~late(x))] ELSE e
             cut == SubSeq(s, 1, at - 1)
             f == SeqMap(early, cut)
             I == {i \in DOMAIN f : f[i].op # "window" \/ f[i].exprs # <<>>}
             inside == Kept(f, I)
             inner == PlainLayers(inside)
  <2>1. at \in 1..Len(s) /\ s[at].op = "project"
    <3>1. PICK e : e \in ToSet(Ops(s, "project"))
      BY <1>5
    <3>2. PICK i \in 1..Len(s) : s[i].op = "project"
      BY <1>3, <3>1, OpsOf
    <3> QED BY <1>3, <3>2
  <2>2. PICK m, x : LayersOf(s, ratios) = (inner \o m) \o <<x>> /\ (m = <<>> \/ \E y : m = <<y>>)
    <3>1. \E m, x : RatioWrapped(s, ratios) = (inner \o m) \o <<x>> /\ (m = <<>> \/ \E y : m = <<y>>)
      BY DEF RatioWrapped, When, Only
    <3> QED BY <1>5, <3>1 DEF LayersOf
  <2> HIDE DEF at
  <2>3. Keeps(T, cut)
    <3>1. at - 1 \in 0..Len(s) /\ (at - 1) + 1 = at /\ Stops(s[at])
      BY <1>3, <2>1 DEF Stops
    <3>2. (at - 1) + 1 \in 1..Len(s) /\ Stops(s[(at - 1) + 1])
      BY <2>1, <3>1
    <3> QED BY <1>1, <3>1, <3>2, KeepsCut
  <2> HIDE DEF cut
  <2>4. Keeps(T, f)
    <3>1. DOMAIN f = DOMAIN cut /\ f = [i \in DOMAIN f |-> f[i]]
      BY DEF SeqMap
    <3>2. DOMAIN cut = 1..Len(cut)
      BY <2>3, ElementsOf DEF Keeps, KeepsAt
    <3>3. \A i \in 1..Len(cut) : f[i] = early(cut[i])
      BY <3>2 DEF SeqMap
    <3>4. \A e : early(e).op = e.op /\ (e.op # "window" => early(e) = e)
      OBVIOUS
    <3> HIDE DEF f, early
    <3>5. \A i \in 1..Len(cut) : /\ f[i].op = cut[i].op
                                 /\ cut[i].op = "scan" => f[i].t = cut[i].t
                                 /\ cut[i].op \notin {"scan", "window"} => f[i] = cut[i]
      BY <3>3, <3>4
    <3> QED BY <2>3, <3>1, <3>5, KeepsMapped
  <2> HIDE DEF f
  <2>5. Keeps(T, inside)
    <3>1. DOMAIN f = 1..Len(f)
      BY <2>4, ElementsOf DEF Keeps, KeepsAt
    <3>2. \A i \in 1..Len(f) : i \notin I => f[i].op \in {"sort", "window"}
      BY <3>1
    <3> HIDE DEF I
    <3> QED BY <2>4, <3>2, KeepsKept
  <2> HIDE DEF inside
  <2>6. IsSeq(inner) /\ Len(inner) \in Nat \ {0} /\ LayerKeeps(T, inner[1])
    BY <2>5, PlainKeeps
  <2> HIDE DEF inner
  <2>7. IsSeq(m) /\ IsSeq(<<x>>)
    BY <2>2, OneElement, NoElement
  <2>8. ASSUME NEW u, NEW v, IsSeq(u), IsSeq(v), Len(u) \in Nat \ {0}
        PROVE  (u \o v)[1] = u[1] /\ IsSeq(u \o v) /\ Len(u \o v) \in Nat \ {0}
    <3>1. u \in Seq(ToSet(u) \cup ToSet(v)) /\ v \in Seq(ToSet(u) \cup ToSet(v)) /\ Len(v) \in Nat
      BY <2>8, ElementsOf
    <3>2. (u \o v)[1] = u[1]
      BY <2>8, <3>1
    <3> QED BY <2>8, <3>1, <3>2, CatElements
  <2>9. IsSeq(inner \o m) /\ Len(inner \o m) \in Nat \ {0} /\ (inner \o m)[1] = inner[1]
    BY <2>6, <2>7, <2>8
  <2>10. ((inner \o m) \o <<x>>)[1] = inner[1]
    BY <2>7, <2>8, <2>9
  <2> QED BY <1>2, <2>2, <2>6, <2>10
<1> QED BY <1>4, <1>5

---------------------------------------------------------------------------
(* The tables of a spec the parser accepts: there is one, their filters are  *)
(* lists, no two share a name, and none has the name of a temp.              *)
SoundTables(T) ==
    /\ IsSeq(T) /\ T # <<>>
    /\ \A t \in ToSet(T) : IsSeq(t.filters)
    /\ \A t, u \in ToSet(T) : Under(t.alias) \cap Under(u.alias) # {} => t = u
    /\ \A t \in ToSet(T) : \A n : Temp(n) \notin Under(t.alias)

\* A mapped sequence has what the map makes of each element.
LEMMA MapElements ==
    ASSUME NEW s, IsSeq(s), NEW f, DOMAIN f = DOMAIN s, f = [i \in DOMAIN f |-> f[i]]
    PROVE  /\ IsSeq(f) /\ Len(f) = Len(s) /\ DOMAIN s = 1..Len(s)
           /\ \A x \in ToSet(f) : \E i \in 1..Len(s) : x = f[i] /\ s[i] \in ToSet(s)
<1>1. IsSeq(f) /\ Len(f) = Len(s)
  BY MappedSeq
<1> QED BY <1>1, ElementsOf

\* A table's filters, under a name of the table, are all that is demanded of it.
LEMMA TableChecked ==
    ASSUME NEW T, SoundTables(T), NEW t \in ToSet(T), NEW x \in Under(t.alias)
    PROVE  /\ IsSeq(TableFilters(t, x)) /\ \A e \in ToSet(TableFilters(t, x)) : e.op = "filter"
           /\ Demanded(T, x) \subseteq Checked(ToSet(TableFilters(t, x)))
<1> DEFINE f == TableFilters(t, x)
           s == t.filters
<1>1. IsSeq(s) /\ DOMAIN s = 1..Len(s)
  BY ElementsOf DEF SoundTables
<1>2. DOMAIN f = DOMAIN s /\ f = [i \in DOMAIN f |-> f[i]] /\ \A i \in DOMAIN s : f[i] = Filter({Ref(x, s[i])})
  BY DEF TableFilters, SeqMap
<1> HIDE DEF f
<1>3. IsSeq(f) /\ Len(f) = Len(s) /\ \A e \in ToSet(f) : \E i \in 1..Len(s) : e = f[i]
  <2> HIDE DEF s
  <2> QED BY <1>1, <1>2, MapElements
<1>4. \A i \in 1..Len(s) : f[i].op = "filter" /\ f[i].refs = {Ref(x, s[i])} /\ f[i] \in ToSet(f)
  <2> SUFFICES ASSUME NEW i \in 1..Len(s)
               PROVE  f[i].op = "filter" /\ f[i].refs = {Ref(x, s[i])} /\ f[i] \in ToSet(f)
    OBVIOUS
  <2>1. f[i] \in ToSet(f) /\ f[i] = Filter({Ref(x, s[i])})
    BY <1>1, <1>2, <1>3, ElementsOf
  <2>2. Filter({Ref(x, s[i])}).op = "filter" /\ Filter({Ref(x, s[i])}).refs = {Ref(x, s[i])}
    BY DEF Filter
  <2> HIDE DEF s
  <2> QED BY <2>1, <2>2
<1>5. \A u \in ToSet(T) : x \in Under(u.alias) => u = t
  BY DEF SoundTables
<1>6. ASSUME NEW c \in ToSet(s) PROVE Ref(x, c) \in Checked(ToSet(f))
  <2>1. PICK i \in 1..Len(s) : s[i] = c
    BY <1>1, ElementsOf
  <2> HIDE DEF s
  <2> QED BY <1>4, <2>1 DEF Checked
<1>7. Demanded(T, x) \subseteq {Ref(x, c) : c \in ToSet(s)}
  BY <1>5 DEF Demanded
<1>8. \A e \in ToSet(f) : e.op = "filter"
  BY <1>3, <1>4
<1>9. Demanded(T, x) \subseteq Checked(ToSet(f))
  <2> HIDE DEF s
  <2> QED BY <1>6, <1>7
<1> QED BY <1>3, <1>8, <1>9 DEF f

\* Nothing is demanded of a temp.
LEMMA TempFree == ASSUME NEW T, SoundTables(T), NEW n PROVE Demanded(T, Temp(n)) = {}
  BY DEF SoundTables, Demanded

\* Scans and joins among filters: well read when the filters check enough.
LEMMA HeadRead ==
    ASSUME NEW T, NEW H, IsSeq(H),
           \A e \in ToSet(H) : \/ e.op = "filter"
                               \/ e.op = "scan" /\ Demanded(T, e.t) \subseteq Checked(ToSet(H))
                               \/ e.op = "join" /\ Demanded(T, e.right) \subseteq Checked(ToSet(H))
    PROVE  WellRead(T, H)
<1>1. \A e \in ToSet(H) : ~Stops(e)
  BY DEF Stops
<1>2. ASSUME NEW e \in ToSet(H), NEW x, Reads(e, x) PROVE Demanded(T, x) \subseteq Checked(ToSet(H))
  BY <1>2 DEF Reads
<1> QED BY <1>1, <1>2 DEF WellRead, Filtered

\* What the operators that make steps make.
LEMMA StepKinds ==
    /\ \A t, c : Scan(t, c).op = "scan" /\ Scan(t, c).t = t
    /\ \A y, r, k : Join(y, r, k).op = "join" /\ Join(y, r, k).right = r
    /\ \A l, r, h : JoinStep(l, r, h).op = "join" /\ JoinStep(l, r, h).right = r
    /\ \A r : Filter(r).op = "filter"
  BY DEF Scan, Join, JoinStep, Filter

\* A scan of a table and its filters.
LEMMA ScanRead ==
    ASSUME NEW T, SoundTables(T), NEW t \in ToSet(T), NEW cols
    PROVE  /\ WellRead(T, <<Scan(t.alias, cols)>> \o TableFilters(t, t.alias))
           /\ Demanded(T, t.alias) \subseteq Checked(ToSet(<<Scan(t.alias, cols)>> \o TableFilters(t, t.alias)))
<1> DEFINE F == TableFilters(t, t.alias)
           S == <<Scan(t.alias, cols)>>
<1>1. t.alias \in Under(t.alias)
  BY DEF Under
<1>2. IsSeq(F) /\ (\A e \in ToSet(F) : e.op = "filter") /\ Demanded(T, t.alias) \subseteq Checked(ToSet(F))
  BY <1>1, TableChecked
<1>3. IsSeq(S) /\ ToSet(S) = {Scan(t.alias, cols)}
  BY OneElement
<1>4. Scan(t.alias, cols).op = "scan" /\ Scan(t.alias, cols).t = t.alias
  BY StepKinds
<1> HIDE DEF F, S
<1>5. IsSeq(S \o F) /\ ToSet(S \o F) = ToSet(S) \cup ToSet(F)
  BY <1>2, <1>3, CatElements
<1>6. Checked(ToSet(F)) \subseteq Checked(ToSet(S \o F))
  BY <1>5, CheckedGrows
<1>7. \A e \in ToSet(S \o F) : e.op = "filter" \/ (e.op = "scan" /\ e.t = t.alias)
  BY <1>2, <1>3, <1>4, <1>5
<1>8. WellRead(T, S \o F)
  <2>1. Demanded(T, t.alias) \subseteq Checked(ToSet(S \o F))
    BY <1>2, <1>6
  <2> QED BY <1>5, <1>7, <2>1, HeadRead
<1> QED BY <1>2, <1>6, <1>8 DEF F, S

\* A join behind, of what is checked before.
LEMMA JoinRead ==
    ASSUME NEW T, NEW s, WellRead(T, s), NEW j, j.op = "join", Demanded(T, j.right) \subseteq Checked(ToSet(s))
    PROVE  WellRead(T, s \o <<j>>)
<1>1. IsSeq(<<j>>) /\ ToSet(<<j>>) = {j}
  BY OneElement
<1>2. IsSeq(s \o <<j>>) /\ ToSet(s \o <<j>>) = ToSet(s) \cup {j}
  BY <1>1, CatElements DEF WellRead
<1>3. Checked(ToSet(s)) \subseteq Checked(ToSet(s \o <<j>>))
  BY <1>2, CheckedGrows
<1> QED BY <1>2, <1>3 DEF WellRead, Filtered, Stops, Reads

\* A scan and a join of a temp.
LEMMA TempRead ==
    ASSUME NEW T, SoundTables(T), NEW n
    PROVE  /\ \A c : WellRead(T, <<Scan(Temp(n), c)>>)
           /\ \A y, k : WellRead(T, <<Join(y, Temp(n), k)>>)
<1>1. \A H : Demanded(T, Temp(n)) \subseteq Checked(H)
  BY TempFree
<1>2. ASSUME NEW c PROVE WellRead(T, <<Scan(Temp(n), c)>>)
  <2>1. IsSeq(<<Scan(Temp(n), c)>>) /\ ToSet(<<Scan(Temp(n), c)>>) = {Scan(Temp(n), c)}
    BY OneElement
  <2>2. \A e \in ToSet(<<Scan(Temp(n), c)>>) : e.op = "scan" /\ e.t = Temp(n)
    BY <2>1, StepKinds
  <2> QED BY <1>1, <2>1, <2>2, HeadRead
<1>3. ASSUME NEW y, NEW k PROVE WellRead(T, <<Join(y, Temp(n), k)>>)
  <2>1. IsSeq(<<Join(y, Temp(n), k)>>) /\ ToSet(<<Join(y, Temp(n), k)>>) = {Join(y, Temp(n), k)}
    BY OneElement
  <2>2. \A e \in ToSet(<<Join(y, Temp(n), k)>>) : e.op = "join" /\ e.right = Temp(n)
    BY <2>1, StepKinds
  <2> QED BY <1>1, <2>1, <2>2, HeadRead
<1> QED BY <1>2, <1>3

---------------------------------------------------------------------------
\* A list of steps of some kinds.
OfKinds(K, s) == IsSeq(s) /\ \A e \in ToSet(s) : e.op \in K

\* The CASE steps of a spec.
LEMMA CaseKinds ==
    ASSUME NEW sp, SpecShape(sp)
    PROVE  OfKinds({"case"}, PreCases(sp)) /\ OfKinds({"case"}, PostCases(sp))
<1> DEFINE step(r, dict) == [op |-> "case", alias |-> r.out, pre |-> ~dict /\ r.pre, values |-> r.values,
                             refs |-> {LeafRef(sp, l, dict) : l \in ToSet(r.leaves)}]
           f == SeqMap(LAMBDA r : step(r, FALSE), sp.labels)
           g == SeqMap(LAMBDA r : step(r, TRUE), sp.cases)
           all == f \o g
<1>1. \A r, d : step(r, d).op = "case"
  OBVIOUS
<1>2. CaseSteps(sp) = Kept(all, {i \in DOMAIN all : \A j \in 1..(i-1) : all[j].alias # all[i].alias})
  BY DEF CaseSteps
<1>3. /\ DOMAIN f = DOMAIN sp.labels /\ f = [i \in DOMAIN f |-> f[i]]
      /\ DOMAIN g = DOMAIN sp.cases /\ g = [i \in DOMAIN g |-> g[i]]
  BY DEF SeqMap
<1>9. \A i \in DOMAIN sp.labels : f[i].op = "case"
  <2>1. \A i \in DOMAIN sp.labels : f[i] = step(sp.labels[i], FALSE)
    BY DEF SeqMap
  <2> HIDE DEF step, f
  <2> QED BY <1>1, <2>1, Zenon
<1>10. \A i \in DOMAIN sp.cases : g[i].op = "case"
  <2>1. \A i \in DOMAIN sp.cases : g[i] = step(sp.cases[i], TRUE)
    BY DEF SeqMap
  <2> HIDE DEF step, g
  <2> QED BY <1>1, <2>1, Zenon
<1> HIDE DEF f, g, step
<1>4. IsSeq(f) /\ \A x \in ToSet(f) : x.op = "case"
  <2>1. IsSeq(sp.labels)
    BY DEF SpecShape
  <2>2. IsSeq(f) /\ DOMAIN sp.labels = 1..Len(sp.labels) /\ \A x \in ToSet(f) : \E i \in 1..Len(sp.labels) : x = f[i]
    BY <1>3, <2>1, MapElements
  <2> QED BY <1>9, <2>2
<1>5. IsSeq(g) /\ \A x \in ToSet(g) : x.op = "case"
  <2>1. IsSeq(sp.cases)
    BY DEF SpecShape
  <2>2. IsSeq(g) /\ DOMAIN sp.cases = 1..Len(sp.cases) /\ \A x \in ToSet(g) : \E i \in 1..Len(sp.cases) : x = g[i]
    BY <1>3, <2>1, MapElements
  <2> QED BY <1>10, <2>2
<1>6. IsSeq(all) /\ \A x \in ToSet(all) : x.op = "case"
  BY <1>4, <1>5, CatElements
<1> HIDE DEF all
<1>7. IsSeq(CaseSteps(sp)) /\ \A x \in ToSet(CaseSteps(sp)) : x.op = "case"
  BY <1>2, <1>6, KeptElements
<1>8. \A I : OfKinds({"case"}, Kept(CaseSteps(sp), I))
  <2> TAKE I
  <2>1. IsSeq(Kept(CaseSteps(sp), I)) /\ ToSet(Kept(CaseSteps(sp), I)) \subseteq ToSet(CaseSteps(sp))
    BY <1>7, KeptElements
  <2> QED BY <1>7, <2>1 DEF OfKinds
<1> QED BY <1>8 DEF PreCases, PostCases, Only

\* Kinds of what is put together, and of an end that may be there or not.
LEMMA KindsPut ==
    ASSUME NEW K
    PROVE  /\ \A s, t : OfKinds(K, s) /\ OfKinds(K, t) => OfKinds(K, s \o t)
           /\ \A c, s : OfKinds(K, s) => OfKinds(K, When(c, s))
           /\ \A e : e.op \in K => OfKinds(K, <<e>>)
<1>1. ASSUME NEW s, NEW t, OfKinds(K, s), OfKinds(K, t) PROVE OfKinds(K, s \o t)
  <2>1. IsSeq(s \o t) /\ ToSet(s \o t) = ToSet(s) \cup ToSet(t)
    BY <1>1, CatElements DEF OfKinds
  <2> QED BY <1>1, <2>1 DEF OfKinds
<1>2. ASSUME NEW c, NEW s, OfKinds(K, s) PROVE OfKinds(K, When(c, s))
  <2>1. When(c, s) = s \/ When(c, s) = <<>>
    BY DEF When
  <2>2. OfKinds(K, <<>>)
    BY NoElement DEF OfKinds
  <2> QED BY <1>2, <2>1, <2>2
<1>3. ASSUME NEW e, e.op \in K PROVE OfKinds(K, <<e>>)
  <2>1. IsSeq(<<e>>) /\ ToSet(<<e>>) = {e}
    BY OneElement
  <2> QED BY <1>3, <2>1 DEF OfKinds
<1> QED BY <1>1, <1>2, <1>3

\* Kinds of what follows an aggregation.
LEMMA TailKinds ==
    ASSUME NEW sp, SpecShape(sp)
    PROVE  /\ \A t : OfKinds({"window"}, WindowStep(sp, t))
           /\ \A c : OfKinds({"filter"}, When(c, AfterWindow(sp)))
           /\ \A t, o, d : OfKinds({"project"}, <<Project(sp, t, o, d)>>)
           /\ OfKinds({"sort", "limit"}, SortAndLimit(sp))
<1>1. ASSUME NEW t PROVE OfKinds({"window"}, WindowStep(sp, t))
  <2>1. \E c, x : WindowStep(sp, t) = When(c, <<[op |-> "window", exprs |-> x]>>)
    BY DEF WindowStep
  <2>2. \A x : [op |-> "window", exprs |-> x].op \in {"window"}
    OBVIOUS
  <2> QED BY <2>1, <2>2, KindsPut
<1>2. OfKinds({"filter"}, AfterWindow(sp))
  <2> DEFINE s == Only(sp.after, LAMBDA c : c \in ToSet(Aliases(sp.windows)))
             f == AfterWindow(sp)
  <2>1. IsSeq(sp.after)
    BY DEF SpecShape
  <2>2. IsSeq(s)
    BY <2>1, KeptElements DEF Only
  <2>3. DOMAIN f = DOMAIN s /\ f = [i \in DOMAIN f |-> f[i]] /\ \A i \in DOMAIN s : \E r : f[i] = Filter(r)
    BY DEF AfterWindow, SeqMap
  <2> HIDE DEF s, f
  <2>4. IsSeq(f) /\ DOMAIN s = 1..Len(s) /\ \A x \in ToSet(f) : \E i \in 1..Len(s) : x = f[i]
    BY <2>2, <2>3, MapElements
  <2>5. \A x \in ToSet(f) : x.op = "filter"
    BY <2>3, <2>4, StepKinds
  <2> QED BY <2>4, <2>5 DEF OfKinds, f
<1>4. ASSUME NEW t, NEW o, NEW d PROVE OfKinds({"project"}, <<Project(sp, t, o, d)>>)
  <2>1. Project(sp, t, o, d).op = "project"
    BY DEF Project
  <2> QED BY <2>1, KindsPut
<1>5. OfKinds({"sort", "limit"}, SortAndLimit(sp))
  <2> DEFINE sort == [op |-> "sort", order |-> sp.sort, full |-> ~sp.limit]
             limit == [op |-> "limit"]
             K == {"sort", "limit"}
  <2>1. sort.op \in K /\ limit.op \in K
    OBVIOUS
  <2>2. SortAndLimit(sp) = When(sp.sort # <<>>, <<sort>>) \o When(sp.limit, <<limit>>)
    BY DEF SortAndLimit
  <2> HIDE DEF sort, limit, K
  <2>3. OfKinds(K, <<sort>>) /\ OfKinds(K, <<limit>>)
    BY <2>1, KindsPut
  <2>4. OfKinds(K, When(sp.sort # <<>>, <<sort>>)) /\ OfKinds(K, When(sp.limit, <<limit>>))
    BY <2>3, KindsPut, Zenon
  <2>5. OfKinds(K, SortAndLimit(sp))
    BY <2>2, <2>4, KindsPut
  <2> QED BY <2>5 DEF K
<1> QED BY <1>1, <1>2, <1>4, <1>5, KindsPut

\* What comes behind the joins of a plan reads nothing: CASE columns,
LEMMA CasesReadNothing ==
    ASSUME NEW sp, SpecShape(sp)
    PROVE  NoReads(PreCases(sp)) /\ NoReads(PostCases(sp))
  BY CaseKinds DEF OfKinds, NoReads

\* an end that may be there or not,
LEMMA WhenReadsNothing ==
    /\ \A c, s : NoReads(s) => NoReads(When(c, s))
    /\ \A c, e : e.op \notin {"scan", "join"} => NoReads(When(c, <<e>>))
<1>1. \A c, s : When(c, s) = s \/ When(c, s) = <<>>
  BY DEF When
<1> QED BY <1>1, NoReadsFew

\* windows and the filters on them, aggregates, projections, sort and limit.
LEMMA TailsReadNothing ==
    ASSUME NEW sp, SpecShape(sp)
    PROVE  /\ \A t : NoReads(WindowStep(sp, t))
           /\ \A c : NoReads(When(c, AfterWindow(sp)))
           /\ \A p, pre, valid : NoReads(Aggregate(sp, p, pre, valid))
           /\ \A t, o, d : NoReads(<<Project(sp, t, o, d)>>)
           /\ NoReads(SortAndLimit(sp))
<1>1. ASSUME NEW p, NEW pre, NEW valid PROVE NoReads(Aggregate(sp, p, pre, valid))
  <2>1. \E c, x, y : Aggregate(sp, p, pre, valid) = When(c, <<[op |-> "aggregate", by |-> x, metrics |-> y]>>)
    BY DEF Aggregate
  <2>2. \A x, y : [op |-> "aggregate", by |-> x, metrics |-> y].op \notin {"scan", "join"}
    OBVIOUS
  <2> QED BY <2>1, <2>2, WhenReadsNothing
<1>2. \A K, s : OfKinds(K, s) /\ "scan" \notin K /\ "join" \notin K => NoReads(s)
  BY DEF OfKinds, NoReads
<1>3. \A K \in {{"window"}, {"filter"}, {"project"}, {"sort", "limit"}} : "scan" \notin K /\ "join" \notin K
  OBVIOUS
<1> QED BY <1>1, <1>2, <1>3, TailKinds

\* The filters of the time range are filters.
LEMMA TimeRangeFilters ==
    ASSUME NEW sp, NEW a
    PROVE  IsSeq(TimeRange(sp, a)) /\ \A e \in ToSet(TimeRange(sp, a)) : e.op = "filter"
<1>1. \E c, x : TimeRange(sp, a) = When(c, <<Filter(x)>>)
  BY DEF TimeRange
<1>2. \A c, x : When(c, <<Filter(x)>>) = <<>> \/ When(c, <<Filter(x)>>) = <<Filter(x)>>
  BY DEF When
<1>3. \A x : IsSeq(<<Filter(x)>>) /\ ToSet(<<Filter(x)>>) = {Filter(x)}
  BY OneElement
<1> QED BY <1>1, <1>2, <1>3, StepKinds, NoElement

\* A beginning may go on with filters.
LEMMA FiltersRead ==
    ASSUME NEW T, NEW s, WellRead(T, s), NEW t, IsSeq(t), \A e \in ToSet(t) : e.op = "filter"
    PROVE  WellRead(T, s \o t)
<1>1. WellRead(T, t)
  BY HeadRead
<1> QED BY <1>1, WellReadCat

\* A table is found under its alias.
LEMMA NamedTable ==
    ASSUME NEW sp, NEW a \in TableNames(sp)
    PROVE  TableNamed(sp, a) \in ToSet(sp.tables) /\ TableNamed(sp, a).alias = a
  BY DEF TableNames, TableNamed

\* The plan of one table keeps the filters.
LEMMA SingleTableKeeps ==
    ASSUME NEW sp, SpecShape(sp), SoundTables(sp.tables)
    PROVE  Keeps(sp.tables, SingleTable(sp).steps)
<1> DEFINE T == sp.tables
           t == T[1]
           plan(cols, pre, drop, p) ==
                <<Scan(t.alias, cols)>> \o TableFilters(t, t.alias) \o TimeRange(sp, t.alias)
                \o PreCases(sp) \o Aggregate(sp, t.alias, pre, AnyTable) \o PostCases(sp)
                \o WindowStep(sp, t.alias) \o When(WindowStep(sp, t.alias) # <<>>, AfterWindow(sp))
                \o <<Project(sp, p, NoOverrides, drop)>> \o SortAndLimit(sp)
<1>1. Keeps(T, Failed.steps)
  BY NoReadsFew, WellReadKeeps DEF Failed
<1>2. t \in ToSet(T)
  <2>1. IsSeq(T) /\ T # <<>> /\ Len(T) \in Nat
    BY ElementsOf DEF SoundTables
  <2>2. 1 \in 1..Len(T)
    BY <2>1 DEF IsSeq
  <2> QED BY <2>1, <2>2, ElementsOf
<1>3. ASSUME NEW cols, NEW pre, NEW drop, NEW p
      PROVE  Keeps(T, plan(cols, pre, drop, p))
  <2> DEFINE a == <<Scan(t.alias, cols)>> \o TableFilters(t, t.alias) \o TimeRange(sp, t.alias)
             b == Aggregate(sp, t.alias, pre, AnyTable)
             c == When(WindowStep(sp, t.alias) # <<>>, AfterWindow(sp))
             d == <<Project(sp, p, NoOverrides, drop)>>
  <2>1. WellRead(T, a)
    <3> HIDE DEF t, T
    <3>1. WellRead(T, <<Scan(t.alias, cols)>> \o TableFilters(t, t.alias))
      BY <1>2, ScanRead DEF T
    <3> QED BY <3>1, TimeRangeFilters, FiltersRead
  <2>2. Keeps(T, a)
    BY <2>1, WellReadKeeps
  <2> HIDE DEF a
  <2>3. NoReads(b) /\ NoReads(c) /\ NoReads(d) /\ NoReads(PreCases(sp)) /\ NoReads(PostCases(sp))
        /\ NoReads(WindowStep(sp, t.alias)) /\ NoReads(SortAndLimit(sp))
    BY TailsReadNothing, CasesReadNothing
  <2> HIDE DEF b, c, d
  <2>4. Keeps(T, a \o PreCases(sp) \o b \o PostCases(sp))
    BY <2>2, <2>3, KeepsCat
  <2>5. Keeps(T, a \o PreCases(sp) \o b \o PostCases(sp) \o WindowStep(sp, t.alias) \o c)
    BY <2>3, <2>4, KeepsCat
  <2>6. Keeps(T, a \o PreCases(sp) \o b \o PostCases(sp) \o WindowStep(sp, t.alias) \o c \o d \o SortAndLimit(sp))
    BY <2>3, <2>5, KeepsCat
  <2> QED BY <2>6 DEF a, b, c, d
<1>4. \/ SingleTable(sp) = Failed
      \/ \E cols, pre, drop, p : SingleTable(sp) = Built(plan(cols, pre, drop, p))
  BY ZenonT(20) DEF SingleTable
<1>5. \A s : Built(s).steps = s
  BY DEF Built
<1> HIDE DEF plan, t, T
<1>6. Keeps(T, SingleTable(sp).steps)
  BY <1>1, <1>3, <1>4, <1>5
<1> QED BY <1>6 DEF T

\* Two scans and the filters of what they read.
LEMMA TwoRead ==
    ASSUME NEW T, NEW l, NEW r, NEW cl, NEW cr, NEW f, NEW g, IsSeq(f), IsSeq(g),
           \A e \in ToSet(f) \cup ToSet(g) : e.op = "filter",
           Demanded(T, l) \subseteq Checked(ToSet(f)), Demanded(T, r) \subseteq Checked(ToSet(g))
    PROVE  /\ WellRead(T, <<Scan(l, cl), Scan(r, cr)>> \o f \o g)
           /\ Demanded(T, r) \subseteq Checked(ToSet(<<Scan(l, cl), Scan(r, cr)>> \o f \o g))
<1> DEFINE a == <<Scan(l, cl), Scan(r, cr)>>
           H == a \o f \o g
<1>1. IsSeq(a) /\ ToSet(a) = {Scan(l, cl), Scan(r, cr)}
  BY TwoElements
<1> HIDE DEF a
<1>2. IsSeq(a \o f) /\ ToSet(a \o f) = ToSet(a) \cup ToSet(f)
  BY <1>1, CatElements
<1>3. IsSeq(H) /\ ToSet(H) = ToSet(a \o f) \cup ToSet(g)
  BY <1>2, CatElements
<1> HIDE DEF H
<1>4. Checked(ToSet(f)) \subseteq Checked(ToSet(H)) /\ Checked(ToSet(g)) \subseteq Checked(ToSet(H))
  BY <1>2, <1>3, CheckedGrows
<1>5. Demanded(T, l) \subseteq Checked(ToSet(H)) /\ Demanded(T, r) \subseteq Checked(ToSet(H))
  BY <1>4
<1>6. \A e \in ToSet(H) : e.op = "filter" \/ (e.op = "scan" /\ (e.t = l \/ e.t = r))
  BY <1>1, <1>2, <1>3, StepKinds
<1>7. WellRead(T, H)
  BY <1>3, <1>5, <1>6, HeadRead
<1> QED BY <1>5, <1>7 DEF H, a

\* The plan of one join keeps the filters.
LEMMA OneJoinKeeps ==
    ASSUME NEW sp, SpecShape(sp), SoundTables(sp.tables),
           NEW hop, {hop.left, hop.right} \subseteq TableNames(sp)
    PROVE  Keeps(sp.tables, OneJoin(sp, hop).steps)
<1> DEFINE T == sp.tables
           self == hop.left = hop.right
           l == IF self THEN SelfLeft(hop.left) ELSE hop.left
           r == IF self THEN SelfRight(hop.right) ELSE hop.right
           lt == TableNamed(sp, hop.left)
           rt == TableNamed(sp, hop.right)
           f == TableFilters(lt, l)
           g == TableFilters(rt, r)
           head(cl, cr) == <<Scan(l, cl), Scan(r, cr)>> \o f \o g \o TimeRange(sp, l) \o <<JoinStep(l, r, hop)>>
           plan(cl, cr, pre, drop, primary, w) ==
                head(cl, cr)
                \o PreCases(sp) \o Aggregate(sp, primary, pre, AnyTable) \o PostCases(sp)
                \o WindowStep(sp, w) \o When(WindowStep(sp, w) # <<>>, AfterWindow(sp))
                \o <<Project(sp, primary, NoOverrides, drop)>> \o SortAndLimit(sp)
<1>1. Keeps(T, Failed.steps)
  BY NoReadsFew, WellReadKeeps DEF Failed
<1>2. lt \in ToSet(T) /\ lt.alias = hop.left /\ rt \in ToSet(T) /\ rt.alias = hop.right
  BY NamedTable
<1>3. l \in Under(lt.alias) /\ r \in Under(rt.alias)
  BY <1>2 DEF Under
<1>4. OneJoin(sp, hop) = Failed \/ \E cl, cr, pre, drop, primary, w : OneJoin(sp, hop) = Built(plan(cl, cr, pre, drop, primary, w))
  <2> DEFINE cl == RequiredColumns(sp, l, lt) \cup DerivedColumns(sp, l)
             cr == RequiredColumns(sp, r, rt) \cup DerivedColumns(sp, r)
             pre == {s.alias : s \in ToSet(PreCases(sp))}
             drop == IF sp.ratios = <<>> THEN WindowAliases(WindowStep(sp, "")) \cup {x.out : x \in ToSet(sp.labels)} ELSE {}
             primary == IF self THEN l ELSE ""
  <2>1. OneJoin(sp, hop) = IF ~CanBuild(sp) THEN Failed ELSE Built(plan(cl, cr, pre, drop, primary, ""))
    BY Zenon DEF OneJoin
  <2> HIDE DEF cl, cr, pre, drop, primary, plan
  <2> QED BY <2>1, Zenon
<1>5. \A s : Built(s).steps = s
  BY DEF Built
<1> HIDE DEF T, l, r, lt, rt
<1>6. ASSUME NEW cl, NEW cr PROVE WellRead(T, head(cl, cr))
  <2> DEFINE a == <<Scan(l, cl), Scan(r, cr)>> \o f \o g
             b == TimeRange(sp, l)
  <2>1. /\ IsSeq(f) /\ IsSeq(g) /\ \A e \in ToSet(f) \cup ToSet(g) : e.op = "filter"
        /\ Demanded(T, l) \subseteq Checked(ToSet(f)) /\ Demanded(T, r) \subseteq Checked(ToSet(g))
    BY <1>2, <1>3, TableChecked DEF T
  <2> HIDE DEF f, g
  <2>2. WellRead(T, a) /\ Demanded(T, r) \subseteq Checked(ToSet(a))
    BY <2>1, TwoRead
  <2>3. IsSeq(b) /\ \A e \in ToSet(b) : e.op = "filter"
    BY TimeRangeFilters
  <2> HIDE DEF a, b
  <2>4. WellRead(T, a \o b)
    BY <2>2, <2>3, FiltersRead
  <2>5. Checked(ToSet(a)) \subseteq Checked(ToSet(a \o b))
    <3>1. ToSet(a \o b) = ToSet(a) \cup ToSet(b)
      BY <2>2, <2>3, CatElements DEF WellRead
    <3> QED BY <3>1, CheckedGrows
  <2>6. JoinStep(l, r, hop).op = "join" /\ JoinStep(l, r, hop).right = r
    BY StepKinds
  <2>7. WellRead(T, (a \o b) \o <<JoinStep(l, r, hop)>>)
    <3>1. Demanded(T, JoinStep(l, r, hop).right) \subseteq Checked(ToSet(a \o b))
      BY <2>2, <2>5, <2>6
    <3> QED BY <2>4, <2>6, <3>1, JoinRead
  <2> QED BY <2>7 DEF a, b
<1> HIDE DEF head
<1>7. ASSUME NEW cl, NEW cr, NEW pre, NEW drop, NEW primary, NEW w
      PROVE  Keeps(T, plan(cl, cr, pre, drop, primary, w))
  <2> DEFINE a == head(cl, cr)
             b == Aggregate(sp, primary, pre, AnyTable)
             v == WindowStep(sp, w)
             c == When(v # <<>>, AfterWindow(sp))
             d == <<Project(sp, primary, NoOverrides, drop)>>
  <2>1. Keeps(T, a)
    BY <1>6, WellReadKeeps
  <2>2. NoReads(b) /\ NoReads(v) /\ NoReads(c) /\ NoReads(d) /\ NoReads(PreCases(sp)) /\ NoReads(PostCases(sp))
        /\ NoReads(SortAndLimit(sp))
    BY TailsReadNothing, CasesReadNothing
  <2> HIDE DEF a, b, c, d, v
  <2>3. Keeps(T, a \o PreCases(sp) \o b \o PostCases(sp))
    BY <2>1, <2>2, KeepsCat
  <2>4. Keeps(T, a \o PreCases(sp) \o b \o PostCases(sp) \o v \o c \o d \o SortAndLimit(sp))
    BY <2>2, <2>3, KeepsCat
  <2> QED BY <2>4 DEF a, b, c, d, v
<1> HIDE DEF plan
<1>8. Keeps(T, OneJoin(sp, hop).steps)
  BY <1>1, <1>4, <1>5, <1>7
<1> QED BY <1>8 DEF T

\* The plan of a spec without compute steps or with one join candidate.
LEMMA SinglePlanIs ==
    ASSUME NEW sp, NEW H
    PROVE  \/ SinglePlan(sp, H).steps = SingleTable(sp).steps
           \/ SinglePlan(sp, H).steps = Failed.steps
           \/ H # <<>> /\ SinglePlan(sp, H).steps = OneJoin(sp, H[1]).steps
<1>1. \A id, b : Plan(id, b).steps = b.steps
  BY DEF Plan
<1>2. \/ SinglePlan(sp, H) = Plan("plan", SingleTable(sp))
      \/ SinglePlan(sp, H) = Plan("plan", Failed)
      \/ H # <<>> /\ SinglePlan(sp, H) = Plan("plan", OneJoin(sp, H[1]))
  <2> DEFINE multi == Len(sp.tables) > 1 \/ \E h \in ToSet(H) : h.left = h.right
  <2>1. SinglePlan(sp, H) = Plan("plan", CASE ~multi -> SingleTable(sp)
                     [] multi /\ H = <<>> -> IF DegradationSafe(sp) THEN SingleTable(sp) ELSE Failed
                     [] OTHER -> OneJoin(sp, H[1]))
    BY DEF SinglePlan
  <2> HIDE DEF multi
  <2>2. CASE ~multi
    <3>1. SinglePlan(sp, H) = Plan("plan", SingleTable(sp))
      BY <2>1, <2>2
    <3> QED BY <3>1
  <2>3. CASE multi /\ H = <<>>
    <3>1. SinglePlan(sp, H) = Plan("plan", IF DegradationSafe(sp) THEN SingleTable(sp) ELSE Failed)
      BY <2>1, <2>3
    <3>2. CASE DegradationSafe(sp)
      <4>1. SinglePlan(sp, H) = Plan("plan", SingleTable(sp))
        BY <3>1, <3>2
      <4> QED BY <4>1
    <3>3. CASE ~DegradationSafe(sp)
      <4>1. SinglePlan(sp, H) = Plan("plan", Failed)
        BY <3>1, <3>3
      <4> QED BY <4>1
    <3> QED BY <3>2, <3>3
  <2>4. CASE multi /\ H # <<>>
    BY <2>1, <2>4
  <2> QED BY <2>2, <2>3, <2>4
<1> QED BY <1>1, <1>2

\* It keeps the filters, too.
LEMMA SinglePlanKeeps ==
    ASSUME NEW sp, SpecShape(sp), SoundTables(sp.tables),
           NEW H, IsSeq(H), \A h \in ToSet(H) : {h.left, h.right} \subseteq TableNames(sp)
    PROVE  Keeps(sp.tables, SinglePlan(sp, H).steps)
<1>1. Keeps(sp.tables, Failed.steps)
  BY NoReadsFew, WellReadKeeps DEF Failed
<1>2. Keeps(sp.tables, SingleTable(sp).steps)
  BY SingleTableKeeps
<1>3. H # <<>> => Keeps(sp.tables, OneJoin(sp, H[1]).steps)
  <2> SUFFICES ASSUME H # <<>> PROVE Keeps(sp.tables, OneJoin(sp, H[1]).steps)
    OBVIOUS
  <2>1. 1 \in 1..Len(H)
    <3>1. H \in Seq(ToSet(H))
      BY ElementsOf
    <3> QED BY <3>1
  <2>2. H[1] \in ToSet(H)
    BY <2>1, ElementsOf
  <2> QED BY <2>2, OneJoinKeeps
<1> QED BY <1>1, <1>2, <1>3, SinglePlanIs

\* Every plan of a chain of joins keeps the filters.
LEMMA ChainStepKeeps ==
    ASSUME NEW sp, SpecShape(sp), SoundTables(sp.tables), NEW chain, NEW i \in Nat \ {0},
           {chain[i].left, chain[i].right} \subseteq TableNames(sp)
    PROVE  Keeps(sp.tables, ChainStep(sp, chain, i).steps)
<1> DEFINE T == sp.tables
           hop == chain[i]
           self == i = 1 /\ hop.left = hop.right
           l == IF i > 1 THEN ChainTemp(i - 1) ELSE IF self THEN SelfLeft(hop.left) ELSE hop.left
           r == IF self THEN SelfRight(hop.right) ELSE hop.right
           lt == TableNamed(sp, hop.left)
           rt == TableNamed(sp, hop.right)
           f == When(i = 1, TableFilters(lt, l))
           g == TableFilters(rt, r)
           source(cl, cr) == <<Scan(l, cl), Scan(r, cr)>> \o f \o g \o <<JoinStep(l, r, hop)>>
           window == WindowStep(sp, l)
           tail(pre, o, d) ==
                PreCases(sp) \o Aggregate(sp, l, pre, {r}) \o PostCases(sp)
                \o When(sp.ratios = <<>>, window \o When(window # <<>>, AfterWindow(sp)))
                \o <<Project(sp, l, o, d)>> \o SortAndLimit(sp)
           joined == <<chain[1].left>> \o [k \in 1..i |-> chain[k].right]
           left == IF i = 1 THEN RequiredColumns(sp, l, lt) \cup {hop.lk}
                   ELSE ToSet(DeclaredColumns(sp, Front(joined)))
           right == RequiredColumns(sp, r, rt) \cup {hop.rk}
           through == [op |-> "project",
                       cols |-> SeqMap(LAMBDA c : Item(c, Ref(HolderOf(sp, joined, c), c)), DeclaredColumns(sp, joined))]
           pre1 == {s.alias : s \in ToSet(PreCases(sp))}
           named == {d \in ToSet(sp.dims) : d.table # ""}
           overrides == [n \in {d.name : d \in named} |-> IF Last(DimsNamed(sp, n)).table = r THEN r ELSE l]
           final == i = Len(chain)
<1>1. Keeps(T, Failed.steps)
  BY NoReadsFew, WellReadKeeps DEF Failed
<1>2. ChainStep(sp, chain, i) =
          IF final /\ ~CanBuild(sp) THEN Failed
          ELSE Built(source(left, right) \o (IF final THEN tail(pre1, overrides, WindowAliases(window)) ELSE <<through>>))
  BY Zenon DEF ChainStep
<1>3. \A s : Built(s).steps = s
  BY DEF Built
<1>4. through.op = "project"
  OBVIOUS
<1> HIDE DEF left, right, joined, pre1, named, overrides, through
<1>5. lt \in ToSet(T) /\ lt.alias = hop.left /\ rt \in ToSet(T) /\ rt.alias = hop.right
  BY NamedTable
<1>6. r \in Under(rt.alias) /\ (i = 1 => l \in Under(lt.alias)) /\ (i # 1 => l = ChainTemp(i - 1))
  BY <1>5 DEF Under
<1> HIDE DEF T, hop, l, r, lt, rt
<1>7. ASSUME NEW cl, NEW cr PROVE WellRead(T, source(cl, cr))
  <2>1. IsSeq(g) /\ (\A e \in ToSet(g) : e.op = "filter") /\ Demanded(T, r) \subseteq Checked(ToSet(g))
    BY <1>5, <1>6, TableChecked DEF T
  <2>2. IsSeq(f) /\ (\A e \in ToSet(f) : e.op = "filter") /\ Demanded(T, l) \subseteq Checked(ToSet(f))
    <3>1. CASE i = 1
      <4>1. f = TableFilters(lt, l)
        BY <3>1 DEF When
      <4> QED BY <1>5, <1>6, <3>1, <4>1, TableChecked DEF T
    <3>2. CASE i # 1
      <4>1. f = <<>>
        BY <3>2 DEF When
      <4>2. Demanded(T, l) = {}
        BY <1>6, <3>2, TempFree DEF ChainTemp, T
      <4> QED BY <4>1, <4>2, NoElement
    <3> QED BY <3>1, <3>2
  <2> HIDE DEF f, g
  <2> DEFINE a == <<Scan(l, cl), Scan(r, cr)>> \o f \o g
  <2>3. WellRead(T, a) /\ Demanded(T, r) \subseteq Checked(ToSet(a))
    BY <2>1, <2>2, TwoRead
  <2>4. JoinStep(l, r, hop).op = "join" /\ JoinStep(l, r, hop).right = r
    BY StepKinds
  <2> HIDE DEF a
  <2>5. WellRead(T, a \o <<JoinStep(l, r, hop)>>)
    <3>1. Demanded(T, JoinStep(l, r, hop).right) \subseteq Checked(ToSet(a))
      BY <2>3, <2>4
    <3> QED BY <2>3, <2>4, <3>1, JoinRead
  <2> QED BY <2>5 DEF a
<1>8. ASSUME NEW pre, NEW o, NEW d PROVE NoReads(tail(pre, o, d))
  <2> DEFINE b == Aggregate(sp, l, pre, {r})
             c == When(window # <<>>, AfterWindow(sp))
             p == <<Project(sp, l, o, d)>>
             w == When(sp.ratios = <<>>, window \o c)
  <2>1. NoReads(b) /\ NoReads(window) /\ NoReads(c) /\ NoReads(p) /\ NoReads(PreCases(sp)) /\ NoReads(PostCases(sp))
        /\ NoReads(SortAndLimit(sp))
    BY TailsReadNothing, CasesReadNothing
  <2> HIDE DEF b, c, p, window
  <2>2. NoReads(w)
    BY <2>1, NoReadsCat, WhenReadsNothing
  <2> HIDE DEF w
  <2>3. NoReads(PreCases(sp) \o b \o PostCases(sp))
    BY <2>1, NoReadsCat
  <2>4. NoReads(PreCases(sp) \o b \o PostCases(sp) \o w \o p \o SortAndLimit(sp))
    BY <2>1, <2>2, <2>3, NoReadsCat
  <2> QED BY <2>4 DEF b, c, p, w
<1> HIDE DEF source, tail, window, final
<1> DEFINE end == IF final THEN tail(pre1, overrides, WindowAliases(window)) ELSE <<through>>
<1>9. NoReads(end)
  <2>1. NoReads(<<through>>)
    BY <1>4, NoReadsFew
  <2> QED BY <1>8, <2>1
<1> HIDE DEF end
<1>10. Keeps(T, source(left, right) \o end)
  BY <1>7, <1>9, WellReadKeeps, KeepsCat
<1>11. Keeps(T, ChainStep(sp, chain, i).steps)
  BY <1>1, <1>2, <1>3, <1>10 DEF end
<1> QED BY <1>11 DEF T

\* And so do all plans built of the join candidates.
LEMMA ChainPlansKeep ==
    ASSUME NEW sp, SpecShape(sp), SoundTables(sp.tables),
           NEW H, IsSeq(H), \A h \in ToSet(H) : {h.left, h.right} \subseteq TableNames(sp)
    PROVE  IsSeq(ChainPlans(sp, H)) /\ \A p \in ToSet(ChainPlans(sp, H)) : Keeps(sp.tables, p.steps)
<1> DEFINE chain == ChainOrder(H)
           P == ChainPlans(sp, H)
           plan(i) == [Plan("plan" \o ToString(i), ChainStep(sp, chain, i)) EXCEPT !.final = i = Len(chain)]
<1>1. IsSeq(chain) /\ ToSet(chain) \subseteq ToSet(H)
  BY ChainOrderHops
<1>2. DOMAIN chain = 1..Len(chain) /\ Len(chain) \in Nat /\ \A i \in 1..Len(chain) : chain[i] \in ToSet(chain)
  BY <1>1, ElementsOf
<1>3. CASE Len(chain) <= 1
  <2>1. P = <<SinglePlan(sp, H)>>
    BY <1>3 DEF ChainPlans
  <2>2. IsSeq(P) /\ ToSet(P) = {SinglePlan(sp, H)}
    BY <2>1, OneElement
  <2> QED BY <2>2, SinglePlanKeeps
<1>4. CASE ~(Len(chain) <= 1)
  <2>1. P = [i \in DOMAIN chain |-> plan(i)]
    BY <1>4 DEF ChainPlans
  <2>2. \A i : plan(i).steps = ChainStep(sp, chain, i).steps
    BY DEF Plan
  <2> HIDE DEF plan, chain, P
  <2>3. DOMAIN P = DOMAIN chain /\ P = [i \in DOMAIN P |-> P[i]]
    BY <2>1
  <2>4. IsSeq(P) /\ \A p \in ToSet(P) : \E i \in 1..Len(chain) : p = P[i]
    BY <1>1, <2>3, MapElements
  <2>5. \A i \in 1..Len(chain) : Keeps(sp.tables, P[i].steps)
    <3> TAKE i \in 1..Len(chain)
    <3>1. {chain[i].left, chain[i].right} \subseteq TableNames(sp) /\ i \in Nat \ {0}
      BY <1>1, <1>2
    <3>2. Keeps(sp.tables, ChainStep(sp, chain, i).steps)
      BY <3>1, ChainStepKeeps
    <3>3. P[i] = plan(i)
      BY <1>2, <2>1
    <3> QED BY <2>2, <3>2, <3>3
  <2> QED BY <2>4, <2>5 DEF P
<1> QED BY <1>2, <1>3, <1>4

---------------------------------------------------------------------------
\* Three sequences end to end, in either grouping.
LEMMA CatAssociates ==
    ASSUME NEW a, NEW b, NEW c, IsSeq(a), IsSeq(b), IsSeq(c)
    PROVE  (a \o b) \o c = a \o (b \o c)
<1> DEFINE S == ToSet(a) \cup ToSet(b) \cup ToSet(c)
<1>1. a \in Seq(S) /\ b \in Seq(S) /\ c \in Seq(S)
  BY ElementsOf
<1> HIDE DEF S
<1> QED BY <1>1, ConcatAssociative

\* The same as a fact about three, which provers do not take for a rewriting.
EitherWay(a, b, c) == (a \o b) \o c = a \o (b \o c)
LEMMA AnyGrouping == ASSUME NEW a, NEW b, NEW c, IsSeq(a), IsSeq(b), IsSeq(c) PROVE EitherWay(a, b, c)
<1>1. (a \o b) \o c = a \o (b \o c)
  BY CatAssociates
<1> QED BY <1>1, Zenon DEF EitherWay

\* Five of them: the second, third and fourth belong together.
Regrouped(a, t, g, j, l) == ((a \o t) \o g) \o (j \o l) = (a \o ((t \o g) \o j)) \o l
LEMMA FiveRegrouped ==
    ASSUME NEW a, NEW t, NEW g, NEW j, NEW l, IsSeq(a), IsSeq(t), IsSeq(g), IsSeq(j), IsSeq(l)
    PROVE  Regrouped(a, t, g, j, l)
<1> DEFINE b == t \o g
           c == a \o b
<1>1. EitherWay(a, t, g)
  BY AnyGrouping
<1>2. IsSeq(b)
  BY CatElements
<1>3. (a \o t) \o g = c
  BY <1>1 DEF EitherWay
<1> HIDE DEF b
<1>4. IsSeq(c) /\ EitherWay(a, b, j)
  BY <1>2, CatElements, AnyGrouping
<1>5. c \o j = a \o (b \o j)
  BY <1>4 DEF EitherWay
<1> HIDE DEF c
<1>6. EitherWay(c, j, l)
  BY <1>4, AnyGrouping
<1>7. c \o (j \o l) = (c \o j) \o l
  BY <1>6 DEF EitherWay
<1> QED BY <1>3, <1>5, <1>7, Zenon DEF b, Regrouped

\* Of some numbers in a row one is the first of the largest.
LEMMA FirstLargest ==
    ASSUME NEW n \in Nat \ {0}, NEW f \in [1..n -> Nat]
    PROVE  \E i \in 1..n : (\A j \in 1..n : f[j] <= f[i]) /\ \A j \in 1..(i-1) : f[j] < f[i]
<1> DEFINE first(i, k) == (\A j \in 1..k : f[j] <= f[i]) /\ \A j \in 1..(i-1) : f[j] < f[i]
           P == {k \in 0..n : k # 0 => \E i \in 1..k : first(i, k)}
<1>1. 0 \in P
  OBVIOUS
<1>2. ASSUME NEW k \in 1..n, k - 1 \in P PROVE k \in P
  <2>1. CASE k = 1
    <3>1. 1 \in 1..1 /\ f[1] \in Nat /\ 1..0 = {} /\ 1..1 = {1}
      OBVIOUS
    <3>2. first(1, 1)
      BY <3>1
    <3> QED BY <2>1, <3>1, <3>2
  <2>2. CASE k # 1
    <3>1. k - 1 \in 1..n /\ k \in 0..n
      BY <2>2
    <3>2. PICK i \in 1..(k-1) : first(i, k - 1)
      BY <1>2, <3>1
    <3>3. \A j \in 1..k : f[j] \in Nat
      OBVIOUS
    <3>4. \A j \in 1..k : j = k \/ j \in 1..(k-1)
      OBVIOUS
    <3>5. CASE f[k] <= f[i]
      <4>1. first(i, k)
        BY <3>2, <3>4, <3>5
      <4> QED BY <3>1, <4>1
    <3>6. CASE ~(f[k] <= f[i])
      <4>1. \A j \in 1..(k-1) : f[j] < f[k]
        <5> TAKE j \in 1..(k-1)
        <5>1. f[j] <= f[i] /\ f[j] \in Nat /\ f[i] \in Nat /\ f[k] \in Nat
          BY <3>2, <3>3
        <5> QED BY <3>6, <5>1
      <4>2. \A j \in 1..k : f[j] <= f[k]
        <5> TAKE j \in 1..k
        <5>1. f[j] \in Nat /\ f[k] \in Nat /\ (j = k \/ f[j] < f[k])
          BY <3>3, <3>4, <4>1
        <5> QED BY <5>1
      <4> QED BY <3>1, <4>1, <4>2
    <3> QED BY <3>5, <3>6
  <2> QED BY <2>1, <2>2
<1>3. n \in P
  <2> HIDE DEF P
  <2>1. \A k \in 0..n : k \in P
    BY <1>1, <1>2, Induct
  <2> QED BY <2>1
<1> QED BY <1>3

\* The elements of a sequence are finitely many.
LEMMA FiniteElements == ASSUME NEW s, IsSeq(s) PROVE IsFiniteSet(ToSet(s))
<1>1. Len(s) \in Nat /\ s \in [1..Len(s) -> ToSet(s)] /\ \A x \in ToSet(s) : \E i \in 1..Len(s) : s[i] = x
  BY ElementsOf
<1>2. s \in Surjection(1..Len(s), ToSet(s))
  BY <1>1 DEF Surjection
<1>3. IsFiniteSet(1..Len(s))
  BY <1>1, FS_Interval
<1> QED BY <1>2, <1>3, FS_Surjection

\* The table found for an input step is one of the spec's.
LEMMA MatchedTable ==
    ASSUME NEW sp, SpecShape(sp), SoundTables(sp.tables), NEW cs
    PROVE  MatchTable(cs, sp) \in ToSet(sp.tables)
<1> DEFINE T == sp.tables
           n == Len(T)
           named == {r.c : r \in {x \in ToSet(cs.by) : x.t = ""}}
                    \cup {m.ref.c : m \in {x \in ToSet(cs.metrics) : x.ref.t = ""}}
           score(t) == Cardinality(named \cap ToSet(ColumnsOf(t)))
           best(i) == /\ \A j \in DOMAIN sp.tables : score(sp.tables[j]) <= score(sp.tables[i])
                      /\ \A j \in 1..(i-1) : score(sp.tables[j]) < score(sp.tables[i])
           f == [i \in 1..n |-> score(T[i])]
<1>1. MatchTable(cs, sp) = T[CHOOSE i \in DOMAIN T : best(i)]
  BY DEF MatchTable
<1> HIDE DEF named
<1>2. IsSeq(T) /\ n \in Nat \ {0} /\ DOMAIN T = 1..n /\ \A i \in 1..n : T[i] \in ToSet(T)
  <2>1. IsSeq(T) /\ T # <<>> /\ T \in Seq(ToSet(T)) /\ DOMAIN T = 1..n /\ \A i \in 1..n : T[i] \in ToSet(T)
    BY ElementsOf DEF SoundTables
  <2> QED BY <2>1
<1>3. \A t \in ToSet(T) : score(t) \in Nat
  <2> TAKE t \in ToSet(T)
  <2>1. IsSeq(t.keys) /\ IsSeq(t.biz)
    BY DEF SpecShape
  <2>2. IsFiniteSet(ToSet(ColumnsOf(t)))
    BY <2>1, CatElements, FiniteElements DEF ColumnsOf
  <2>3. IsFiniteSet(named \cap ToSet(ColumnsOf(t)))
    BY <2>2, FS_Intersection
  <2> QED BY <2>3, FS_CardinalityType
<1> HIDE DEF n, T, score
<1>4. f \in [1..n -> Nat]
  BY <1>2, <1>3
<1>5. \E i \in 1..n : best(i)
  <2>1. PICK i \in 1..n : (\A j \in 1..n : f[j] <= f[i]) /\ \A j \in 1..(i-1) : f[j] < f[i]
    <3> HIDE DEF f
    <3> QED BY <1>2, <1>4, FirstLargest
  <2>2. \A j \in 1..(i-1) : j \in 1..n
    BY <1>2
  <2>3. \A j \in 1..n : f[j] = score(T[j])
    OBVIOUS
  <2> HIDE DEF f
  <2>4. best(i)
    BY <1>2, <2>1, <2>2, <2>3 DEF T
  <2> QED BY <2>4
<1> HIDE DEF best
<1>6. (CHOOSE i \in DOMAIN T : best(i)) \in 1..n
  BY <1>2, <1>5
<1> QED BY <1>1, <1>2, <1>6 DEF T

---------------------------------------------------------------------------
\* A scan of a table under its alias with its filters, and a join behind it.
LEMMA TableRead ==
    ASSUME NEW sp, SoundTables(sp.tables), NEW a \in TableNames(sp), NEW cols
    PROVE  /\ WellRead(sp.tables, <<Scan(a, cols)>> \o Filters(TableNamed(sp, a)))
           /\ \A y, k : WellRead(sp.tables, <<Scan(a, cols)>> \o Filters(TableNamed(sp, a)) \o <<Join(y, a, k)>>)
<1> DEFINE T == sp.tables
           t == TableNamed(sp, a)
           s == <<Scan(a, cols)>> \o Filters(t)
<1>1. t \in ToSet(T) /\ t.alias = a
  BY NamedTable
<1> HIDE DEF t, T
<1>2. s = <<Scan(t.alias, cols)>> \o TableFilters(t, t.alias)
  BY <1>1 DEF Filters
<1> HIDE DEF s
<1>3. WellRead(T, s) /\ Demanded(T, a) \subseteq Checked(ToSet(s))
  BY <1>1, <1>2, ScanRead DEF T
<1>4. ASSUME NEW y, NEW k PROVE WellRead(T, s \o <<Join(y, a, k)>>)
  <2>1. Join(y, a, k).op = "join" /\ Join(y, a, k).right = a
    BY StepKinds
  <2>2. Demanded(T, Join(y, a, k).right) \subseteq Checked(ToSet(s))
    BY <1>3, <2>1
  <2> QED BY <1>3, <2>1, <2>2, JoinRead
<1> QED BY <1>3, <1>4 DEF s, t, T

\* A sequence of steps made of each element of another.
LEMMA ReadsMapped ==
    ASSUME NEW T, NEW s, IsSeq(s), NEW f, DOMAIN f = DOMAIN s, f = [i \in DOMAIN f |-> f[i]],
           \A i \in 1..Len(s) : WellRead(T, f[i])
    PROVE  WellRead(T, FlattenSeq(f))
<1>1. IsSeq(f) /\ Len(f) = Len(s)
  BY MapElements
<1> QED BY <1>1, WellReadFlatten

\* What a step over the input reads.
LEMMA InputRead ==
    ASSUME NEW sp, SpecShape(sp), SoundTables(sp.tables), NEW cs, StepShape(cs)
    PROVE  WellRead(sp.tables, InputSource(cs, sp).steps)
<1> DEFINE T == sp.tables
           declared == Only(sp.joins, LAMBDA j : {j.lt, j.rt} \subseteq TableNames(sp))
           joins == IF cs.joins # <<>> THEN cs.joins ELSE declared
           scan(a, key) == <<Scan(a, ColumnsForTable(cs, TableNamed(sp, a), {key}))>> \o Filters(TableNamed(sp, a))
           join(j) == Join(j.type, j.rt, {<<Ref(j.lt, j.lk), j.rk>>})
           hop(j) == scan(j.rt, j.rk) \o <<join(j)>>
           only == MatchTable(cs, sp)
           alone == <<Scan(only.alias, NamedColumns(cs))>> \o Filters(only)
           bad == \E j \in ToSet(joins) : ~({j.lt, j.rt} \subseteq TableNames(sp))
           f == SeqMap(LAMBDA j : hop(j), joins)
           joined == scan(joins[1].lt, joins[1].lk) \o FlattenSeq(f)
<1>1. InputSource(cs, sp) = IF joins = <<>> THEN Built(alone) ELSE IF bad THEN Failed ELSE Built(joined)
  BY Zenon DEF InputSource
<1>2. WellRead(T, alone)
  <2>1. only \in ToSet(T)
    BY MatchedTable
  <2> HIDE DEF only, T
  <2> QED BY <2>1, ScanRead DEF T, Filters
<1>3. IsSeq(joins)
  <2>1. IsSeq(cs.joins) /\ IsSeq(sp.joins)
    BY DEF StepShape, SpecShape
  <2> QED BY <2>1, KeptElements DEF Only
<1>4. ASSUME joins # <<>>, ~bad PROVE WellRead(T, joined)
  <2> HIDE DEF joins
  <2>1. DOMAIN joins = 1..Len(joins) /\ \A i \in 1..Len(joins) : joins[i] \in ToSet(joins)
    BY <1>3, ElementsOf
  <2>2. 1 \in 1..Len(joins)
    <3>1. joins \in Seq(ToSet(joins))
      BY <1>3, ElementsOf
    <3> QED BY <1>4, <3>1
  <2>3. \A i \in 1..Len(joins) : joins[i].lt \in TableNames(sp) /\ joins[i].rt \in TableNames(sp)
    BY <1>4, <2>1
  <2>4. WellRead(T, scan(joins[1].lt, joins[1].lk))
    BY <2>2, <2>3, TableRead
  <2>5. \A j : j.rt \in TableNames(sp) => WellRead(T, hop(j))
    BY TableRead
  <2>6. DOMAIN f = DOMAIN joins /\ f = [i \in DOMAIN f |-> f[i]] /\ \A i \in DOMAIN joins : f[i] = hop(joins[i])
    BY DEF SeqMap
  <2> HIDE DEF f, hop, scan
  <2>7. WellRead(T, FlattenSeq(f))
    <3>1. \A i \in 1..Len(joins) : WellRead(T, f[i])
      BY <2>1, <2>3, <2>5, <2>6
    <3> QED BY <1>3, <2>6, <3>1, ReadsMapped
  <2> QED BY <2>4, <2>7, WellReadCat
<1>5. WellRead(T, Failed.steps)
  BY NoReadsFew DEF Failed
<1>6. \A s : Built(s).steps = s
  BY DEF Built
<1> HIDE DEF T, joins, alone, bad, joined
<1>7. WellRead(T, InputSource(cs, sp).steps)
  BY <1>1, <1>2, <1>4, <1>5, <1>6
<1> QED BY <1>7 DEF T

\* A sequence of two is two sequences of one.
LEMMA PairCat == ASSUME NEW x, NEW y PROVE <<x, y>> = <<x>> \o <<y>>
<1>1. \A z : <<z, y>> = <<z>> \o <<y>> /\ <<z, y>>[1] = z
  OBVIOUS
<1> QED BY <1>1, Zenon

\* What a step over one earlier step reads: its temp and the tables it needs.
LEMMA UpstreamRead ==
    ASSUME NEW sp, SpecShape(sp), SoundTables(sp.tables), NEW cs, StepShape(cs), NEW out
    PROVE  WellRead(sp.tables, UpstreamSource(cs, out, sp).steps)
<1> DEFINE T == sp.tables
           src == cs.source[1]
           up == ToSet(out[src])
           temp == Temp(src)
           missing == Only(cs.metrics, LAMBDA m : m.ref.c \notin up /\ m.ref.t \in TableNames(sp))
           tables == SeqMap(LAMBDA m : m.ref.t, missing)
           needed == Dedup(tables)
           keys(a) == AutoJoinKeys(TableNamed(sp, a), up, sp)
           cols(a) == {m.ref.c : m \in {x \in ToSet(missing) : x.ref.t = a}}
           read == NamedColumns(cs) \cap up
           scan == Scan(temp, IF read = {} /\ needed = <<>> THEN up ELSE read)
           auto(a) == <<Scan(a, cols(a) \cup {k[2] : k \in keys(a)})>> \o Filters(TableNamed(sp, a))
                      \o <<Join("INNER", a, {<<Ref(temp, k[1]), k[2]>> : k \in keys(a)})>>
           j == cs.joins[1]
           other == Scan(j.rt, ColumnsForTable(cs, TableNamed(sp, j.rt), {j.rk}))
           join == Join(j.type, j.rt, {<<Ref(temp, j.lk), j.rk>>})
           declared == <<scan, other>> \o Filters(TableNamed(sp, j.rt)) \o <<join>>
           f == SeqMap(auto, needed)
           found == <<scan>> \o FlattenSeq(f)
<1>1. \/ UpstreamSource(cs, out, sp) = Failed
      \/ j.rt \in TableNames(sp) /\ UpstreamSource(cs, out, sp) = Built(declared)
      \/ UpstreamSource(cs, out, sp) = Built(found)
  <2> DEFINE stuck == \E a \in ToSet(needed) : keys(a) = {}
  <2>1. UpstreamSource(cs, out, sp) =
            CASE cs.joins # <<>> -> IF Len(cs.joins) # 1 \/ j.rt \notin TableNames(sp) THEN Failed ELSE Built(declared)
              [] cs.joins = <<>> /\ stuck -> Failed
              [] OTHER -> Built(found)
    BY Zenon DEF UpstreamSource
  <2> HIDE DEF declared, found, stuck, j
  <2> QED BY <2>1
<1>2. WellRead(T, <<scan>>)
  BY TempRead
<1>3. ASSUME j.rt \in TableNames(sp) PROVE WellRead(T, declared)
  <2> DEFINE F == Filters(TableNamed(sp, j.rt))
  <2>1. WellRead(T, <<other>> \o F \o <<join>>) /\ WellRead(T, <<other>> \o F)
    BY <1>3, TableRead
  <2>2. IsSeq(F)
    <3>1. TableNamed(sp, j.rt) \in ToSet(T) /\ TableNamed(sp, j.rt).alias \in Under(TableNamed(sp, j.rt).alias)
      BY <1>3, NamedTable DEF Under
    <3> QED BY <3>1, TableChecked DEF Filters
  <2> HIDE DEF scan, other, join, F
  <2>3. IsSeq(<<scan>>) /\ IsSeq(<<other>>) /\ IsSeq(<<join>>)
    BY OneElement
  <2>4. <<scan, other>> = <<scan>> \o <<other>>
    BY PairCat
  <2>5. <<scan, other>> \o F = <<scan>> \o (<<other>> \o F)
    BY <2>2, <2>3, <2>4, CatAssociates
  <2>6. (<<scan, other>> \o F) \o <<join>> = <<scan>> \o ((<<other>> \o F) \o <<join>>)
    <3>1. IsSeq(<<other>> \o F)
      BY <2>1 DEF WellRead
    <3>2. (<<scan>> \o (<<other>> \o F)) \o <<join>> = <<scan>> \o ((<<other>> \o F) \o <<join>>)
      BY <2>3, <3>1, CatAssociates
    <3> QED BY <2>5, <3>2
  <2>7. WellRead(T, <<scan>> \o ((<<other>> \o F) \o <<join>>))
    BY <1>2, <2>1, WellReadCat
  <2> QED BY <2>6, <2>7 DEF F
<1>4. IsSeq(needed) /\ ToSet(needed) \subseteq TableNames(sp)
  <2> DEFINE I == {i \in DOMAIN cs.metrics : cs.metrics[i].ref.c \notin up /\ cs.metrics[i].ref.t \in TableNames(sp)}
  <2>1. IsSeq(cs.metrics)
    BY DEF StepShape
  <2>2. missing = Kept(cs.metrics, I)
    BY DEF Only
  <2>3. IsSeq(missing) /\ \A m \in ToSet(missing) : m.ref.t \in TableNames(sp)
    <3> HIDE DEF missing
    <3>1. IsSeq(missing) /\ \A m \in ToSet(missing) : \E i \in I : m = cs.metrics[i]
      <4> HIDE DEF I
      <4> QED BY <2>1, <2>2, KeptElements
    <3> QED BY <3>1
  <2> HIDE DEF missing
  <2>4. DOMAIN tables = DOMAIN missing /\ tables = [i \in DOMAIN tables |-> tables[i]]
        /\ \A i \in DOMAIN missing : tables[i] = missing[i].ref.t
    BY DEF SeqMap
  <2> HIDE DEF tables
  <2>5. IsSeq(tables) /\ \A x \in ToSet(tables) : \E i \in 1..Len(missing) : x = tables[i] /\ missing[i] \in ToSet(missing)
    BY <2>3, <2>4, MapElements
  <2>6. DOMAIN missing = 1..Len(missing)
    BY <2>3, ElementsOf
  <2>7. ToSet(tables) \subseteq TableNames(sp)
    BY <2>3, <2>4, <2>5, <2>6
  <2>8. IsSeq(needed) /\ ToSet(needed) \subseteq ToSet(tables)
    BY <2>5, KeptElements DEF Dedup
  <2> QED BY <2>7, <2>8
<1>5. WellRead(T, found)
  <2> HIDE DEF scan, needed
  <2>1. \A a \in TableNames(sp) : WellRead(T, auto(a))
    BY TableRead
  <2>2. DOMAIN f = DOMAIN needed /\ f = [i \in DOMAIN f |-> f[i]] /\ \A i \in DOMAIN needed : f[i] = auto(needed[i])
    BY DEF SeqMap
  <2> HIDE DEF f, auto
  <2>3. \A i \in 1..Len(needed) : WellRead(T, f[i])
    BY <1>4, <2>1, <2>2, ElementsOf
  <2>4. WellRead(T, FlattenSeq(f))
    BY <1>4, <2>2, <2>3, ReadsMapped
  <2> QED BY <1>2, <2>4, WellReadCat
<1>6. WellRead(T, Failed.steps)
  BY NoReadsFew DEF Failed
<1>7. \A s : Built(s).steps = s
  BY DEF Built
<1> HIDE DEF T, declared, found, j
<1>8. WellRead(T, UpstreamSource(cs, out, sp).steps)
  BY <1>1, <1>3, <1>5, <1>6, <1>7
<1> QED BY <1>8 DEF T

\* What a step over several sources reads: their temps.
LEMMA ConfluenceRead ==
    ASSUME NEW sp, SoundTables(sp.tables), NEW cs, StepShape(cs), NEW out
    PROVE  WellRead(sp.tables, ConfluenceSource(cs, out, sp).steps)
<1> DEFINE T == sp.tables
           s == cs.source
           f == SeqMap(LAMBDA x : Scan(Temp(x), ToSet(out[x])), s)
           keys(i) == LET d == DeclaredKeys(sp, s[i-1], s[i])
                      IN  IF d # {} THEN d ELSE BridgeKeys(cs, out, s[i-1], s[i])
           join(i) == Join(IF keys(i) = {} THEN "CROSS" ELSE "INNER", Temp(s[i]),
                           {<<Ref(Temp(s[1]), k[1]), k[2]>> : k \in keys(i)})
           g == [i \in 1..(Len(s) - 1) |-> join(i+1)]
<1>1. ConfluenceSource(cs, out, sp) = Built(f \o g)
  BY Zenon DEF ConfluenceSource
<1>2. IsSeq(s) /\ Len(s) \in Nat
  BY ElementsOf DEF StepShape
<1>3. \A H, n : Demanded(T, Temp(n)) \subseteq Checked(H)
  BY TempFree
<1>4. WellRead(T, f)
  <2>1. DOMAIN f = DOMAIN s /\ f = [i \in DOMAIN f |-> f[i]] /\ \A i \in DOMAIN s : \E n, c : f[i] = Scan(Temp(n), c)
    BY DEF SeqMap
  <2> HIDE DEF f
  <2>2. IsSeq(f) /\ DOMAIN s = 1..Len(s) /\ \A x \in ToSet(f) : \E i \in 1..Len(s) : x = f[i]
    BY <1>2, <2>1, MapElements
  <2>3. \A x \in ToSet(f) : \E n : x.op = "scan" /\ x.t = Temp(n)
    BY <2>1, <2>2, StepKinds
  <2> QED BY <1>3, <2>2, <2>3, HeadRead
<1>5. WellRead(T, g)
  <2>1. \A i \in 1..(Len(s) - 1) : \E y, n, k : g[i] = Join(y, Temp(n), k)
    OBVIOUS
  <2>2. DOMAIN g = 1..(Len(s) - 1) /\ g = [i \in DOMAIN g |-> g[i]]
    OBVIOUS
  <2> HIDE DEF g
  <2>3. IsSeq(g) /\ \A x \in ToSet(g) : \E i \in 1..(Len(s) - 1) : x = g[i]
    <3>1. \E n \in Nat : 1..(Len(s) - 1) = 1..n
      <4>1. CASE Len(s) = 0
        <5>1. 1..(Len(s) - 1) = 1..0
          BY <4>1
        <5> QED BY <5>1
      <4>2. CASE Len(s) # 0
        <5>1. Len(s) - 1 \in Nat
          BY <1>2, <4>2
        <5> QED BY <5>1
      <4> QED BY <4>1, <4>2
    <3>2. PICK n \in Nat : 1..(Len(s) - 1) = 1..n
      BY <3>1
    <3>3. g \in [1..n -> ToSet(g)]
      BY <2>2, <3>2 DEF ToSet
    <3>4. g \in Seq(ToSet(g))
      BY <3>3
    <3>5. \A x \in ToSet(g) : \E i \in DOMAIN g : x = g[i]
      BY DEF ToSet
    <3> QED BY <2>2, <3>4, <3>5 DEF IsSeq
  <2>4. \A x \in ToSet(g) : \E n : x.op = "join" /\ x.right = Temp(n)
    BY <2>1, <2>3, StepKinds
  <2> QED BY <1>3, <2>3, <2>4, HeadRead
<1>6. \A x : Built(x).steps = x
  BY DEF Built
<1> HIDE DEF f, g
<1> QED BY <1>1, <1>4, <1>5, <1>6, WellReadCat

\* A bridge is built over a table the step needs and a table between.
LEMMA BridgeKeeps ==
    ASSUME NEW sp, SpecShape(sp), SoundTables(sp.tables), NEW cs, StepShape(cs), NEW out,
           Bridgeable(cs, out, sp) # <<>>
    PROVE  Keeps(sp.tables, BridgePlan(cs, out, sp).steps)
<1> DEFINE T == sp.tables
           up == ToSet(out[cs.source[1]])
           all == Bridgeable(cs, out, sp)
           needed == TableNamed(sp, all[1].ref.t)
           tables == BridgeCandidates(needed, up, sp)
           b == tables[1]
           fk == FkCandidates(needed, b)[1]
           key == CHOOSE k \in ToSet(b.keys) : k \in FkOf[fk]
           common == Only(ColumnsOf(b), LAMBDA c : c \in up)
           cols == {m.ref.c : m \in {x \in ToSet(cs.metrics) : x.ref.t = needed.alias}}
           project == SeqMap(LAMBDA c : Item(c, Ref(b.alias, c)), common)
                      \o SeqMap(LAMBDA c : Item(c, Ref(needed.alias, c)), Sorted(cols))
           s == <<Scan(needed.alias, {fk} \cup cols)>>
           t == <<Scan(b.alias, {key} \cup ToSet(common))>>
           join == Join("INNER", b.alias, {<<Ref(needed.alias, fk), key>>})
           last == [op |-> "project", cols |-> project]
           whole == s \o Filters(needed) \o t \o Filters(b) \o <<join, last>>
<1>1. BridgePlan(cs, out, sp).steps = whole
  BY DEF BridgePlan
<1>2. needed \in ToSet(T) /\ b \in ToSet(T)
  <2> DEFINE test(m) == /\ m.ref.t \in TableNames(sp) /\ m.ref.c \notin up
                        /\ AutoJoinKeys(TableNamed(sp, m.ref.t), up, sp) = {}
                        /\ BridgeCandidates(TableNamed(sp, m.ref.t), up, sp) # <<>>
             I == {i \in DOMAIN cs.metrics : test(cs.metrics[i])}
  <2>1. all = Kept(cs.metrics, I)
    <3>1. all = Only(cs.metrics, LAMBDA m : test(m))
      BY DEF Bridgeable
    <3> HIDE DEF all, test
    <3> QED BY <3>1 DEF Only
  <2>2. IsSeq(cs.metrics) /\ IsSeq(sp.tables)
    BY DEF StepShape, SpecShape
  <2> HIDE DEF all, test
  <2>3. IsSeq(all) /\ \A m \in ToSet(all) : test(m)
    <3>1. \A m \in ToSet(all) : \E i \in I : m = cs.metrics[i]
      <4> HIDE DEF I
      <4> QED BY <2>1, <2>2, KeptElements
    <3>2. IsSeq(all)
      <4> HIDE DEF I
      <4> QED BY <2>1, <2>2, KeptElements
    <3> QED BY <3>1, <3>2
  <2>4. \A v : IsSeq(v) /\ v # <<>> => v[1] \in ToSet(v)
    <3> SUFFICES ASSUME NEW v, IsSeq(v), v # <<>> PROVE v[1] \in ToSet(v)
      OBVIOUS
    <3>1. v \in Seq(ToSet(v))
      BY ElementsOf
    <3>2. 1 \in 1..Len(v)
      BY <3>1
    <3> QED BY <3>2, ElementsOf
  <2>5. test(all[1])
    BY <2>3, <2>4 DEF all
  <2>6. needed \in ToSet(T) /\ tables # <<>>
    BY <2>5, NamedTable DEF test
  <2>7. IsSeq(tables) /\ ToSet(tables) \subseteq ToSet(T)
    <3> HIDE DEF needed, up
    <3> QED BY <2>2, KeptElements DEF BridgeCandidates, Only
  <2> HIDE DEF tables
  <2> QED BY <2>4, <2>6, <2>7
<1> HIDE DEF T, needed, b, fk, key, common, cols, project
<1>3. WellRead(T, s \o Filters(needed)) /\ WellRead(T, t \o Filters(b))
      /\ Demanded(T, b.alias) \subseteq Checked(ToSet(t \o Filters(b)))
  BY <1>2, ScanRead DEF T, Filters
<1>4. join.op = "join" /\ join.right = b.alias
  BY StepKinds
<1>5. last.op = "project"
  OBVIOUS
<1> HIDE DEF s, t, join, last
<1>6. WellRead(T, (t \o Filters(b)) \o <<join>>)
  <2>1. Demanded(T, join.right) \subseteq Checked(ToSet(t \o Filters(b)))
    BY <1>3, <1>4
  <2> QED BY <1>3, <1>4, <2>1, JoinRead
<1> DEFINE F == Filters(needed)
           G == Filters(b)
<1>7. IsSeq(s \o F) /\ IsSeq(t) /\ IsSeq(G) /\ IsSeq(t \o G) /\ IsSeq(<<join>>) /\ IsSeq(<<last>>)
  <2>1. IsSeq(G)
    <3>1. b.alias \in Under(b.alias)
      BY DEF Under
    <3> QED BY <1>2, <3>1, TableChecked DEF Filters, T
  <2> QED BY <1>3, <2>1, OneElement DEF WellRead, t
<1> HIDE DEF F, G
<1>8. whole = ((s \o F) \o ((t \o G) \o <<join>>)) \o <<last>>
  <2>1. whole = ((s \o F) \o t) \o G \o (<<join>> \o <<last>>)
    BY PairCat DEF F, G
  <2> DEFINE a == s \o F
             j == <<join>>
             l == <<last>>
  <2>2. IsSeq(a) /\ IsSeq(j) /\ IsSeq(l)
    BY <1>7
  <2>3. whole = ((a \o t) \o G) \o (j \o l)
    BY <2>1
  <2> HIDE DEF whole, a, j, l
  <2>4. Regrouped(a, t, G, j, l)
    BY <1>7, <2>2, FiveRegrouped
  <2>5. whole = (a \o ((t \o G) \o j)) \o l
    BY <2>3, <2>4, Zenon DEF Regrouped
  <2> QED BY <2>5 DEF a, j, l
<1>9. Keeps(T, whole)
  <2> DEFINE start == (s \o F) \o ((t \o G) \o <<join>>)
  <2>1. WellRead(T, start)
    BY <1>3, <1>6, WellReadCat DEF F, G
  <2>2. NoReads(<<last>>)
    BY <1>5, NoReadsFew
  <2> HIDE DEF start, whole
  <2>3. Keeps(T, start \o <<last>>)
    BY <2>1, <2>2, WellReadKeeps, KeepsCat
  <2> QED BY <1>8, <2>3 DEF start
<1> HIDE DEF whole
<1> QED BY <1>1, <1>9 DEF T

\* What a step does with what it has read, reads nothing.
LEMMA StepEndsReadNothing ==
    ASSUME NEW sp, SpecShape(sp), NEW cs
    PROVE  /\ NoReads(CaseStep(cs)) /\ NoReads(FinalTail(cs, sp))
           /\ \A out : NoReads(<<IntermediateProject(cs, out)>>)
           /\ \A source, out : NoReads(StepMetrics(cs, source, out, sp).steps)
<1>1. NoReads(CaseStep(cs))
  <2>1. \E r : CaseStep(cs) = When(cs.case # "", <<[op |-> "case", alias |-> cs.case, pre |-> FALSE, values |-> {}, refs |-> r]>>)
    BY Zenon DEF CaseStep
  <2> DEFINE step(r) == [op |-> "case", alias |-> cs.case, pre |-> FALSE, values |-> {}, refs |-> r]
  <2>2. \A r : step(r).op \notin {"scan", "join"}
    OBVIOUS
  <2>3. PICK r, c : CaseStep(cs) = When(c, <<step(r)>>)
    BY <2>1, Zenon
  <2> HIDE DEF step
  <2> QED BY <2>2, <2>3, WhenReadsNothing
<1>2. NoReads(FinalTail(cs, sp))
  <2> DEFINE w == WindowStep(sp, "")
             a == When(w # <<>>, AfterWindow(sp))
             drop == IF sp.ratios = <<>> THEN WindowAliases(w) \cup {cs.case} ELSE {}
             p == <<Project(sp, IF cs.listed THEN Temp(cs.source[1]) ELSE "", NoOverrides, drop)>>
  <2>1. FinalTail(cs, sp) = w \o a \o p \o SortAndLimit(sp)
    BY Zenon DEF FinalTail
  <2>2. \A t, c, o, d : /\ NoReads(WindowStep(sp, t)) /\ NoReads(When(c, AfterWindow(sp)))
                        /\ NoReads(<<Project(sp, t, o, d)>>) /\ NoReads(SortAndLimit(sp))
    BY TailsReadNothing
  <2>3. NoReads(w) /\ NoReads(a) /\ NoReads(p) /\ NoReads(SortAndLimit(sp))
    BY <2>2, Zenon
  <2> HIDE DEF w, a, p
  <2>4. NoReads(w \o a)
    BY <2>3, NoReadsCat
  <2>5. NoReads(w \o a \o p \o SortAndLimit(sp))
    BY <2>3, <2>4, NoReadsCat
  <2> QED BY <2>1, <2>5
<1>3. ASSUME NEW out PROVE NoReads(<<IntermediateProject(cs, out)>>)
  <2>1. IntermediateProject(cs, out).op = "project"
    BY DEF IntermediateProject
  <2> QED BY <2>1, NoReadsFew
<1>4. ASSUME NEW source, NEW out PROVE NoReads(StepMetrics(cs, source, out, sp).steps)
  <2> DEFINE agg(x, y) == [op |-> "aggregate", metrics |-> x, by |-> y]
  <2>1. \A x, y : agg(x, y).op \notin {"scan", "join"}
    OBVIOUS
  <2>2. \A c, t, j : StepAggregate(c, t, j).op = "aggregate"
    BY DEF StepAggregate
  <2>3. ConfluenceAggregate(cs, out, sp) = Failed \/ \E x, y : ConfluenceAggregate(cs, out, sp) = Built(<<agg(x, y)>>)
    BY DEF ConfluenceAggregate
  <2> HIDE DEF agg
  <2>4. NoReads(Failed.steps)
    BY NoReadsFew DEF Failed
  <2>5. NoReads(ConfluenceAggregate(cs, out, sp).steps)
    <3>1. \A x, y : NoReads(Built(<<agg(x, y)>>).steps)
      BY <2>1, NoReadsFew DEF Built
    <3> QED BY <2>3, <2>4, <3>1
  <2>6. \A t, j : NoReads(Built(<<StepAggregate(cs, t, j)>>).steps)
    BY <2>2, NoReadsFew DEF Built
  <2>7. NoReads(Built(<<>>).steps)
    BY NoReadsFew DEF Built
  <2> DEFINE joined == {s.right : s \in {x \in ToSet(source.steps) : x.op = "join"}}
             temp == IF cs.source = <<"input">> THEN "" ELSE Temp(cs.source[1])
             known == IF cs.joins = <<>> THEN joined ELSE {}
  <2>8. StepMetrics(cs, source, out, sp) =
            CASE cs.metrics = <<>> -> Built(<<>>)
              [] cs.metrics # <<>> /\ cs.listed -> ConfluenceAggregate(cs, out, sp)
              [] OTHER -> Built(<<StepAggregate(cs, temp, known)>>)
    BY Zenon DEF StepMetrics
  <2> HIDE DEF temp, known
  <2>9. \/ StepMetrics(cs, source, out, sp) = Built(<<>>)
        \/ StepMetrics(cs, source, out, sp) = ConfluenceAggregate(cs, out, sp)
        \/ StepMetrics(cs, source, out, sp) = Built(<<StepAggregate(cs, temp, known)>>)
    BY <2>8
  <2> QED BY <2>5, <2>6, <2>7, <2>9
<1> QED BY <1>1, <1>2, <1>3, <1>4

\* The plan of a compute step keeps the filters.
LEMMA BuildStepKeeps ==
    ASSUME NEW sp, SpecShape(sp), SoundTables(sp.tables), NEW cs, StepShape(cs), NEW isFinal, NEW out
    PROVE  Keeps(sp.tables, BuildStep(cs, isFinal, out, sp).steps)
<1> DEFINE T == sp.tables
           source == StepSource(cs, out, sp)
           agg == StepMetrics(cs, source, out, sp)
           tail == IF isFinal THEN FinalTail(cs, sp) ELSE <<IntermediateProject(cs, out)>>
           plan == BuildStep(cs, isFinal, out, sp)
<1>1. plan.steps = IF source.err \/ agg.err THEN <<>> ELSE source.steps \o CaseStep(cs) \o agg.steps \o tail
  BY DEF BuildStep, StepFrom, StepPlan
<1>2. WellRead(T, source.steps)
  <2>1. \/ source = InputSource(cs, sp)
        \/ source = UpstreamSource(cs, out, sp)
        \/ source = ConfluenceSource(cs, out, sp)
    BY DEF StepSource
  <2> HIDE DEF source
  <2> QED BY <2>1, InputRead, UpstreamRead, ConfluenceRead
<1>3. NoReads(CaseStep(cs)) /\ NoReads(agg.steps) /\ NoReads(tail)
  BY StepEndsReadNothing
<1> HIDE DEF T, source, agg, tail, plan
<1>4. Keeps(T, <<>>)
  BY NoReadsFew, WellReadKeeps
<1>5. Keeps(T, source.steps \o CaseStep(cs) \o agg.steps \o tail)
  BY <1>2, <1>3, WellReadKeeps, KeepsCat
<1>6. Keeps(T, plan.steps)
  BY <1>1, <1>4, <1>5
<1> QED BY <1>6 DEF T, plan

---------------------------------------------------------------------------
(* A stage leaves a spec in shape: the tables and hints stay, the lists stay *)
(* lists, and the steps have their fields.                                   *)
LEMMA ShapeStays ==
    ASSUME NEW s, SpecShape(s), NEW q, DOMAIN q = DOMAIN s, q.tables = s.tables, q.hints = s.hints,
           IsSeq(q.joins), IsSeq(q.metrics), IsSeq(q.labels), IsSeq(q.cases), IsSeq(q.after), IsSeq(q.toldAfter),
           IsSeq(q.outputs), IsSeq(q.steps), \A cs \in ToSet(q.steps) : StepShape(cs)
    PROVE  SpecShape(q)
  BY DEF SpecShape

\* A list mapped element by element is a list as long.
LEMMA MappedList ==
    ASSUME NEW s, IsSeq(s), NEW f, DOMAIN f = DOMAIN s, f = [i \in DOMAIN f |-> f[i]]
    PROVE  IsSeq(f) /\ (f = <<>> => s = <<>>)
<1>1. IsSeq(f) /\ Len(f) = Len(s) /\ s \in Seq(ToSet(s))
  BY MapElements, ElementsOf
<1> QED BY <1>1

\* What the planner says.
LEMMA PlannedShape ==
    ASSUME NEW s, SpecShape(s), NEW reply, IsSeq(reply.metrics), IsSeq(reply.rules)
    PROVE  /\ SpecShape(Planned(s, reply)) /\ Planned(s, reply).tables = s.tables
           /\ Planned(s, reply).joins = s.joins /\ Planned(s, reply).steps = s.steps
           /\ s.metrics # <<>> => Planned(s, reply).metrics = s.metrics
<1> DEFINE new == SeqMap(LAMBDA r : AsRule(r, FALSE), reply.rules)
           cases == AppendNew(s.cases, new, LAMBDA r : r.out)
           unsure == Merged(s.unsure, Uncertain(reply))
           derived == AppendNew(s.derived, reply.derived, LAMBDA d : d.name)
           p == [s EXCEPT !.dims = IF @ = <<>> THEN reply.dims ELSE @,
                          !.metrics = IF @ = <<>> THEN reply.metrics ELSE @,
                          !.derived = derived, !.cases = cases, !.unsure = unsure]
           u == [s EXCEPT !.unsure = unsure]
<1>1. Planned(s, reply) = p \/ Planned(s, reply) = u
  BY Zenon DEF Planned, Promoted
<1>2. IsSeq(cases)
  <2>1. \E I : cases = s.cases \o Kept(new, I)
    BY DEF AppendNew
  <2>2. DOMAIN new = DOMAIN reply.rules /\ new = [i \in DOMAIN new |-> new[i]]
    BY DEF SeqMap
  <2> HIDE DEF new, cases
  <2>3. IsSeq(new)
    BY <2>2, MappedList
  <2>4. \A I : IsSeq(Kept(new, I))
    BY <2>3, KeptElements
  <2>5. IsSeq(s.cases)
    BY DEF SpecShape
  <2> QED BY <2>1, <2>4, <2>5, CatElements
<1> HIDE DEF cases, unsure, derived
<1>3. /\ {"tables", "joins", "metrics", "labels", "cases", "after", "toldAfter", "outputs", "hints", "steps"} \subseteq DOMAIN s
      /\ IsSeq(s.joins) /\ IsSeq(s.metrics) /\ IsSeq(s.labels) /\ IsSeq(s.cases) /\ IsSeq(s.after)
      /\ IsSeq(s.toldAfter) /\ IsSeq(s.outputs) /\ IsSeq(s.steps) /\ \A cs \in ToSet(s.steps) : StepShape(cs)
  BY DEF SpecShape
<1>4. /\ DOMAIN p = DOMAIN s /\ p.tables = s.tables /\ p.hints = s.hints /\ p.joins = s.joins
      /\ p.labels = s.labels /\ p.after = s.after /\ p.toldAfter = s.toldAfter /\ p.outputs = s.outputs /\ p.steps = s.steps
      /\ p.cases = cases /\ p.metrics = IF s.metrics = <<>> THEN reply.metrics ELSE s.metrics
  BY <1>3
<1>5. /\ DOMAIN u = DOMAIN s /\ u.tables = s.tables /\ u.hints = s.hints /\ u.joins = s.joins
      /\ u.labels = s.labels /\ u.after = s.after /\ u.toldAfter = s.toldAfter /\ u.outputs = s.outputs /\ u.steps = s.steps
      /\ u.cases = s.cases /\ u.metrics = s.metrics
  BY <1>3
<1> HIDE DEF p, u
<1>6. SpecShape(p)
  <2>1. IsSeq(p.metrics)
    BY <1>3, <1>4
  <2> QED BY <1>2, <1>3, <1>4, <2>1, ShapeStays
<1>7. SpecShape(u)
  BY <1>3, <1>5, ShapeStays
<1> QED BY <1>1, <1>4, <1>5, <1>6, <1>7

\* What the extractor says.
LEMMA LabelledShape ==
    ASSUME NEW s, SpecShape(s), NEW rules, IsSeq(rules)
    PROVE  /\ SpecShape(WithLabels(s, rules)) /\ WithLabels(s, rules).tables = s.tables
           /\ WithLabels(s, rules).joins = s.joins /\ WithLabels(s, rules).steps = s.steps
           /\ WithLabels(s, rules).metrics = s.metrics
<1> DEFINE good == Only(rules, LAMBDA r : r.domain # {} /\ RulePromoted(s, r, TRUE))
           new == SeqMap(LAMBDA r : AsRule(r, FALSE), good)
           labels == s.labels \o new
           p == [s EXCEPT !.labels = labels]
<1>1. WithLabels(s, rules) = p
  BY Zenon DEF WithLabels
<1>2. IsSeq(labels)
  <2>1. IsSeq(good)
    BY KeptElements DEF Only
  <2> HIDE DEF good
  <2>2. DOMAIN new = DOMAIN good /\ new = [i \in DOMAIN new |-> new[i]]
    BY DEF SeqMap
  <2> HIDE DEF new
  <2>3. IsSeq(new)
    BY <2>1, <2>2, MappedList
  <2>4. IsSeq(s.labels)
    BY DEF SpecShape
  <2> QED BY <2>3, <2>4, CatElements
<1> HIDE DEF labels
<1>3. /\ {"tables", "joins", "metrics", "labels", "cases", "after", "toldAfter", "outputs", "hints", "steps"} \subseteq DOMAIN s
      /\ IsSeq(s.joins) /\ IsSeq(s.metrics) /\ IsSeq(s.labels) /\ IsSeq(s.cases) /\ IsSeq(s.after)
      /\ IsSeq(s.toldAfter) /\ IsSeq(s.outputs) /\ IsSeq(s.steps) /\ \A cs \in ToSet(s.steps) : StepShape(cs)
  BY DEF SpecShape
<1>4. /\ DOMAIN p = DOMAIN s /\ p.tables = s.tables /\ p.hints = s.hints /\ p.joins = s.joins
      /\ p.labels = labels /\ p.after = s.after /\ p.toldAfter = s.toldAfter /\ p.outputs = s.outputs /\ p.steps = s.steps
      /\ p.cases = s.cases /\ p.metrics = s.metrics
  BY <1>3
<1> HIDE DEF p
<1>5. SpecShape(p)
  BY <1>2, <1>3, <1>4, ShapeStays
<1> QED BY <1>1, <1>4, <1>5

\* A step the enricher adds.
LEMMA PlainStepShape ==
    ASSUME NEW name, NEW source, IsSeq(source), NEW listed, NEW by, NEW metrics, IsSeq(metrics)
    PROVE  StepShape(PlainStep(name, source, listed, by, metrics))
<1> DEFINE step(b, c) == [name |-> name, source |-> source, listed |-> listed, by |-> b, metrics |-> metrics,
                          case |-> c, when |-> <<>>, phase |-> TRUE, exprs |-> <<>>, joins |-> <<>>]
<1>1. PICK b, c : PlainStep(name, source, listed, by, metrics) = step(b, c)
  BY Zenon DEF PlainStep
<1>2. \A x, y : {"name", "source", "metrics", "joins"} \subseteq DOMAIN step(x, y)
                /\ step(x, y).source = source /\ step(x, y).metrics = metrics /\ step(x, y).joins = <<>>
  OBVIOUS
<1> HIDE DEF step
<1> QED BY <1>1, <1>2, NoElement DEF StepShape

\* The steps added for an output computed over several grains: there are some.
LEMMA CrossStepsShape ==
    ASSUME NEW s, SpecShape(s), NEW cm, IsSeq(cm.deps)
    PROVE  /\ IsSeq(CrossSteps(s, cm)) /\ ToSet(CrossSteps(s, cm)) # {}
           /\ \A cs \in ToSet(CrossSteps(s, cm)) : StepShape(cs)
           /\ IsSeq(CrossJoins(s, cm))
<1> DEFINE missing == MissingDeps(s, cm)
           globals == SeqMap(GlobalName, missing)
           bare == SeqMap(LAMBDA m : [m EXCEPT !.ref = Ref("", m.ref.c)], s.metrics)
           first == SeqMap(LAMBDA d : GlobalStep(s, d), missing)
           input == <<"input">>
           sources == <<GroupedName(s)>> \o globals
           grouped == PlainStep(GroupedName(s), input, FALSE, s.grain, bare)
           ratios == <<[alias |-> cm.alias, agg |-> "SUM", ref |-> Ref("", "")]>>
           merged == PlainStep("merged_" \o cm.alias, sources, TRUE, Dedup(s.grain \o cm.deps), ratios)
           last == <<grouped, merged>>
<1>1. CrossSteps(s, cm) = first \o last
  BY Zenon DEF CrossSteps
<1>2. IsSeq(missing)
  BY KeptElements DEF MissingDeps, Only
<1>3. IsSeq(s.metrics)
  BY DEF SpecShape
<1> HIDE DEF missing
<1>4. /\ DOMAIN globals = DOMAIN missing /\ globals = [i \in DOMAIN globals |-> globals[i]]
      /\ DOMAIN bare = DOMAIN s.metrics /\ bare = [i \in DOMAIN bare |-> bare[i]]
      /\ DOMAIN first = DOMAIN missing /\ first = [i \in DOMAIN first |-> first[i]]
      /\ DOMAIN CrossJoins(s, cm) = DOMAIN missing
      /\ CrossJoins(s, cm) = [i \in DOMAIN CrossJoins(s, cm) |-> CrossJoins(s, cm)[i]]
  BY Zenon DEF SeqMap, CrossJoins, missing
<1>5. \A i \in DOMAIN missing : first[i] = GlobalStep(s, missing[i])
  BY Zenon DEF SeqMap
<1>6. \A x : IsSeq(<<x>>)
  BY OneElement
<1>7. IsSeq(input) /\ IsSeq(ratios)
  BY <1>6, Zenon
<1> HIDE DEF input, ratios, globals, bare
<1>8. IsSeq(globals) /\ IsSeq(bare) /\ IsSeq(CrossJoins(s, cm))
  BY <1>2, <1>3, <1>4, MappedList
<1>9. IsSeq(sources)
  BY <1>6, <1>8, CatElements
<1> HIDE DEF sources
<1>10. StepShape(grouped) /\ StepShape(merged)
  BY <1>7, <1>8, <1>9, PlainStepShape, Zenon
<1>11. \A d : StepShape(GlobalStep(s, d))
  <2> TAKE d
  <2>1. \E n, b, x : GlobalStep(s, d) = PlainStep(n, input, FALSE, b, <<x>>)
    BY Zenon DEF GlobalStep, input
  <2> QED BY <1>6, <1>7, <2>1, PlainStepShape, Zenon
<1> HIDE DEF first, grouped, merged
<1>12. IsSeq(first) /\ \A cs \in ToSet(first) : StepShape(cs)
  <2>1. IsSeq(first) /\ DOMAIN missing = 1..Len(missing) /\ \A x \in ToSet(first) : \E i \in 1..Len(missing) : x = first[i]
    BY <1>2, <1>4, MapElements
  <2> QED BY <1>5, <1>11, <2>1
<1>13. IsSeq(last) /\ ToSet(last) = {grouped, merged}
  BY TwoElements
<1> HIDE DEF last
<1>14. IsSeq(first \o last) /\ ToSet(first \o last) = ToSet(first) \cup ToSet(last)
  BY <1>12, <1>13, CatElements
<1> QED BY <1>1, <1>8, <1>10, <1>12, <1>13, <1>14

(* What the enricher adds: lists, of steps where there are joins as well.    *)
Enrichment(e) ==
    /\ IsSeq(e.metrics) /\ IsSeq(e.after) /\ IsSeq(e.joins) /\ IsSeq(e.steps) /\ IsSeq(e.rules)
    /\ \A cs \in ToSet(e.steps) : StepShape(cs)
    /\ e.steps = <<>> => e.joins = <<>>

\* Without a language model.
LEMMA FakeEnrichment == ASSUME NEW s, SpecShape(s) PROVE Enrichment(FakeEnriched(s))
<1> DEFINE hinted == Decls(s, "window", s.outputs)
           windows == AppendNew(hinted, s.told, LAMBDA w : w.alias)
           declared == ToSet(Aliases(s.metrics)) \cup ToSet(Aliases(windows))
           dims == InferDims(s, declared \cup {o \in DOMAIN s.hints : Structured(s, o) /\ ~Hinted(s, "window", o)})
           open == Only(s.outputs, LAMBDA o : o \notin declared \cup ToSet(s.grain) \cup DimNames(s.dims \o dims))
           computed == Only(open, LAMBDA o : Hinted(s, "computed", o))
           decls == SeqMap(LAMBDA o : s.hints[o].decl, computed)
           cross == CrossGrain(s, decls)
           metrics == SeqMap(LAMBDA o : FakeMetric(s, o), open)
           steps == SeqMap(LAMBDA cm : CrossSteps(s, cm), cross)
           joins == SeqMap(LAMBDA cm : CrossJoins(s, cm), cross)
           e == FakeEnriched(s)
<1>1. /\ e.metrics = FlattenSeq(metrics) /\ e.after = s.toldAfter /\ e.rules = <<>>
      /\ e.steps = FlattenSeq(steps) /\ e.joins = FlattenSeq(joins)
  BY Zenon DEF FakeEnriched, Decls
<1> HIDE DEF declared, dims, e
<1>2. IsSeq(s.outputs) /\ IsSeq(s.toldAfter)
  BY DEF SpecShape
<1>3. IsSeq(open)
  BY <1>2, KeptElements DEF Only
<1> HIDE DEF open
<1>4. /\ DOMAIN metrics = DOMAIN open /\ metrics = [i \in DOMAIN metrics |-> metrics[i]]
      /\ \A i \in DOMAIN open : metrics[i] = FakeMetric(s, open[i])
  BY Zenon DEF SeqMap
<1>5. \A o : IsSeq(FakeMetric(s, o))
  <2> TAKE o
  <2>1. \A x : IsSeq(<<x>>)
    BY OneElement
  <2>2. \A c, x : IsSeq(x) => IsSeq(When(c, x))
    BY NoElement DEF When
  <2>3. IsSeq(GuessedMetric(s, o))
    <3>1. \E c, x : GuessedMetric(s, o) = When(c, <<x>>)
      BY Zenon DEF GuessedMetric
    <3> QED BY <2>1, <2>2, <3>1
  <2> DEFINE c == s.metrics # <<>> \/ s.type = "aggregate"
             h == Hinted(s, "metric", o)
  <2>4. FakeMetric(s, o) = CASE h -> <<s.hints[o].decl>>
                             [] Structured(s, o) /\ ~h -> <<>>
                             [] OTHER -> When(c, GuessedMetric(s, o))
    BY Zenon DEF FakeMetric
  <2> HIDE DEF c, h
  <2>5. FakeMetric(s, o) = <<s.hints[o].decl>> \/ FakeMetric(s, o) = <<>> \/ FakeMetric(s, o) = When(c, GuessedMetric(s, o))
    BY <2>4
  <2> QED BY <2>1, <2>2, <2>3, <2>5, NoElement, Zenon
<1>6. IsSeq(computed) /\ \A o \in ToSet(computed) : Hinted(s, "computed", o)
  <2> DEFINE I == {i \in DOMAIN open : Hinted(s, "computed", open[i])}
  <2>1. computed = Kept(open, I)
    BY DEF Only
  <2> HIDE DEF computed
  <2>2. IsSeq(computed) /\ \A o \in ToSet(computed) : \E i \in I : o = open[i]
    <3> HIDE DEF I
    <3> QED BY <1>3, <2>1, KeptElements
  <2> QED BY <2>2
<1> HIDE DEF computed
<1>7. IsSeq(decls) /\ \A cm \in ToSet(decls) : IsSeq(cm.deps)
  <2>1. /\ DOMAIN decls = DOMAIN computed /\ decls = [i \in DOMAIN decls |-> decls[i]]
        /\ \A i \in DOMAIN computed : decls[i] = s.hints[computed[i]].decl
    BY DEF SeqMap
  <2> HIDE DEF decls
  <2>2. /\ IsSeq(decls) /\ DOMAIN computed = 1..Len(computed)
        /\ \A x \in ToSet(decls) : \E i \in 1..Len(computed) : x = decls[i] /\ computed[i] \in ToSet(computed)
    BY <1>6, <2>1, MapElements
  <2>3. \A o : Hinted(s, "computed", o) => IsSeq(s.hints[o].decl.deps)
    BY DEF SpecShape, Hinted
  <2> QED BY <1>6, <2>1, <2>2, <2>3
<1> HIDE DEF decls
<1>8. IsSeq(cross) /\ \A cm \in ToSet(cross) : IsSeq(cm.deps)
  <2>1. \E I : cross = Kept(decls, I)
    BY DEF CrossGrain, Only
  <2> HIDE DEF cross
  <2>2. IsSeq(cross) /\ ToSet(cross) \subseteq ToSet(decls)
    BY <1>7, <2>1, KeptElements
  <2> QED BY <1>7, <2>2
<1> HIDE DEF cross
<1>9. /\ DOMAIN steps = DOMAIN cross /\ steps = [i \in DOMAIN steps |-> steps[i]]
      /\ \A i \in DOMAIN cross : steps[i] = CrossSteps(s, cross[i])
      /\ DOMAIN joins = DOMAIN cross /\ joins = [i \in DOMAIN joins |-> joins[i]]
      /\ \A i \in DOMAIN cross : joins[i] = CrossJoins(s, cross[i])
  BY Zenon DEF SeqMap
<1> HIDE DEF metrics, steps, joins
<1>10. IsSeq(FlattenSeq(metrics))
  <2>1. IsSeq(metrics) /\ Len(metrics) = Len(open) /\ DOMAIN open = 1..Len(open)
    BY <1>3, <1>4, MapElements
  <2> QED BY <1>4, <1>5, <2>1, FlattenElements
<1>11. DOMAIN cross = 1..Len(cross) /\ Len(cross) \in Nat /\ \A i \in 1..Len(cross) : IsSeq(cross[i].deps)
  BY <1>8, ElementsOf
<1>12. /\ IsSeq(FlattenSeq(steps)) /\ \A cs \in ToSet(FlattenSeq(steps)) : StepShape(cs)
       /\ 1 \in 1..Len(cross) => ToSet(FlattenSeq(steps)) # {}
  <2>1. IsSeq(steps) /\ Len(steps) = Len(cross)
    BY <1>8, <1>9, MapElements
  <2>2. \A i \in 1..Len(steps) : /\ IsSeq(steps[i]) /\ ToSet(steps[i]) # {}
                                 /\ \A cs \in ToSet(steps[i]) : StepShape(cs)
    BY <1>9, <1>11, <2>1, CrossStepsShape
  <2>3. IsSeq(FlattenSeq(steps)) /\ ToSet(FlattenSeq(steps)) = UNION {ToSet(steps[i]) : i \in 1..Len(steps)}
    BY <2>1, <2>2, FlattenElements
  <2>4. \A cs \in ToSet(FlattenSeq(steps)) : StepShape(cs)
    <3> TAKE cs \in ToSet(FlattenSeq(steps))
    <3>1. PICK i \in 1..Len(steps) : cs \in ToSet(steps[i])
      BY <2>3
    <3> QED BY <2>2, <3>1
  <2>5. ASSUME 1 \in 1..Len(cross) PROVE ToSet(FlattenSeq(steps)) # {}
    <3>1. 1 \in 1..Len(steps)
      BY <2>1, <2>5
    <3>2. PICK cs : cs \in ToSet(steps[1])
      BY <2>2, <3>1
    <3> QED BY <2>3, <3>1, <3>2
  <2> QED BY <2>3, <2>4, <2>5
<1>13. IsSeq(FlattenSeq(joins)) /\ (1 \notin 1..Len(cross) => FlattenSeq(joins) = <<>>)
  <2>1. IsSeq(joins) /\ Len(joins) = Len(cross)
    BY <1>8, <1>9, MapElements
  <2>2. \A i \in 1..Len(joins) : IsSeq(joins[i])
    BY <1>9, <1>11, <2>1, CrossStepsShape
  <2>3. IsSeq(FlattenSeq(joins)) /\ ToSet(FlattenSeq(joins)) = UNION {ToSet(joins[i]) : i \in 1..Len(joins)}
    BY <2>1, <2>2, FlattenElements
  <2>4. ASSUME 1 \notin 1..Len(cross) PROVE FlattenSeq(joins) = <<>>
    <3>1. 1..Len(joins) = {}
      BY <1>11, <2>1, <2>4
    <3>2. FlattenSeq(joins) \in Seq({})
      BY <2>3, <3>1, ElementsOf
    <3> QED BY <3>2
  <2> QED BY <2>3, <2>4
<1>14. e.steps = <<>> => e.joins = <<>>
  BY <1>1, <1>12, <1>13, NoElement
<1> QED BY <1>1, <1>2, <1>10, <1>12, <1>13, <1>14, NoElement DEF Enrichment, e

\* With one, of whatever it says.
LEMMA ParsedEnrichment ==
    ASSUME NEW s, NEW reply, IsSeq(reply.metrics), IsSeq(reply.after), IsSeq(reply.rules)
    PROVE  Enrichment(ParsedReply(s, reply))
<1> DEFINE rules == SeqMap(WithDomain, reply.rules)
           e == ParsedReply(s, reply)
<1>1. \E I, J, K : /\ e.metrics = Kept(reply.metrics, I) /\ e.after = Kept(reply.after, J)
                   /\ e.rules = Kept(rules, K) /\ e.steps = <<>> /\ e.joins = <<>>
  BY Zenon DEF ParsedReply, Only
<1>2. DOMAIN rules = DOMAIN reply.rules /\ rules = [i \in DOMAIN rules |-> rules[i]]
  BY DEF SeqMap
<1> HIDE DEF rules, e
<1>3. IsSeq(rules)
  BY <1>2, MappedList
<1>4. IsSeq(e.metrics) /\ IsSeq(e.after) /\ IsSeq(e.rules)
  BY <1>1, <1>3, KeptElements
<1> QED BY <1>1, <1>4, NoElement DEF Enrichment, e

\* A step another phase or source is noted of has its fields.
LEMMA StepStays ==
    ASSUME NEW cs, StepShape(cs)
    PROVE  /\ \A x : StepShape([cs EXCEPT !.phase = x])
           /\ \A s, x : IsSeq(s) => StepShape([cs EXCEPT !.source = s, !.listed = x])
  BY DEF StepShape

\* A mapped list of steps.
LEMMA StepsMapped ==
    ASSUME NEW s, IsSeq(s), NEW f, DOMAIN f = DOMAIN s, f = [i \in DOMAIN f |-> f[i]],
           \A i \in 1..Len(s) : StepShape(f[i])
    PROVE  IsSeq(f) /\ \A cs \in ToSet(f) : StepShape(cs)
<1>1. IsSeq(f) /\ \A x \in ToSet(f) : \E i \in 1..Len(s) : x = f[i]
  BY MapElements
<1> QED BY <1>1

\* The lists of an enrichment.
LEMMA ListsShape ==
    ASSUME NEW s, SpecShape(s), NEW e, Enrichment(e)
    PROVE  /\ SpecShape(WithLists(s, e)) /\ WithLists(s, e).tables = s.tables
           /\ WithLists(s, e).steps = <<>> => s.steps = <<>> /\ WithLists(s, e).joins = s.joins
           /\ WithLists(s, e).metrics = s.metrics \o NotAmong(e.metrics, ToSet(Aliases(s.metrics)))
<1> DEFINE phase(cs) == cs.phase \/ PhaseOf(s, cs.case, ToSet(cs.when)) # ""
           told == SeqMap(LAMBDA cs : [cs EXCEPT !.phase = phase(cs)], s.steps)
           metrics == s.metrics \o NotAmong(e.metrics, ToSet(Aliases(s.metrics)))
           windows == s.windows \o NotAmong(e.windows, ToSet(Aliases(s.windows)))
           after == s.after \o Only(e.after, LAMBDA c : c \notin ToSet(s.after))
           dims == s.dims \o Only(e.dims, LAMBDA d : d.name \notin DimNames(s.dims))
           joins == s.joins \o e.joins
           steps == told \o e.steps
           p == [s EXCEPT !.metrics = metrics, !.windows = windows, !.after = after, !.dims = dims,
                          !.joins = joins, !.steps = steps]
<1>1. /\ {"tables", "joins", "metrics", "labels", "cases", "after", "toldAfter", "outputs", "hints", "steps"} \subseteq DOMAIN s
      /\ IsSeq(s.joins) /\ IsSeq(s.metrics) /\ IsSeq(s.labels) /\ IsSeq(s.cases) /\ IsSeq(s.after)
      /\ IsSeq(s.toldAfter) /\ IsSeq(s.outputs) /\ IsSeq(s.steps) /\ \A cs \in ToSet(s.steps) : StepShape(cs)
  BY DEF SpecShape
<1>2. WithLists(s, e) = p
  BY Zenon DEF WithLists
<1>3. IsSeq(metrics)
  <2>1. IsSeq(NotAmong(e.metrics, ToSet(Aliases(s.metrics))))
    BY KeptElements DEF NotAmong, Only, Enrichment
  <2> QED BY <1>1, <2>1, CatElements
<1>4. IsSeq(after)
  <2>1. IsSeq(Only(e.after, LAMBDA c : c \notin ToSet(s.after)))
    BY KeptElements DEF Only, Enrichment
  <2> QED BY <1>1, <2>1, CatElements
<1>5. IsSeq(joins) /\ IsSeq(e.joins) /\ IsSeq(e.steps) /\ (\A cs \in ToSet(e.steps) : StepShape(cs))
      /\ (e.steps = <<>> => e.joins = <<>>)
  BY <1>1, CatElements DEF Enrichment
<1>6. IsSeq(told) /\ (\A cs \in ToSet(told) : StepShape(cs)) /\ (told = <<>> => s.steps = <<>>)
  <2>1. /\ DOMAIN told = DOMAIN s.steps /\ told = [i \in DOMAIN told |-> told[i]]
        /\ \A i \in DOMAIN s.steps : \E x : told[i] = [s.steps[i] EXCEPT !.phase = x]
    BY Zenon DEF SeqMap
  <2> HIDE DEF told
  <2>2. \A i \in 1..Len(s.steps) : s.steps[i] \in ToSet(s.steps) /\ i \in DOMAIN s.steps
    BY <1>1, ElementsOf
  <2>3. \A i \in 1..Len(s.steps) : StepShape(told[i])
    <3> TAKE i \in 1..Len(s.steps)
    <3>1. PICK x : told[i] = [s.steps[i] EXCEPT !.phase = x]
      BY <2>1, <2>2
    <3>2. StepShape(s.steps[i])
      BY <1>1, <2>2
    <3>3. StepShape([s.steps[i] EXCEPT !.phase = x])
      BY <3>2, StepStays, Zenon
    <3> QED BY <3>1, <3>3, Zenon
  <2>4. IsSeq(told) /\ \A cs \in ToSet(told) : StepShape(cs)
    BY <1>1, <2>1, <2>3, StepsMapped
  <2>5. told = <<>> => s.steps = <<>>
    BY <1>1, <2>1, MappedList
  <2> QED BY <2>4, <2>5
<1> HIDE DEF told, metrics, windows, after, dims, joins
<1>7. IsSeq(steps) /\ (\A cs \in ToSet(steps) : StepShape(cs)) /\ (steps = <<>> => told = <<>> /\ e.steps = <<>>)
  <2>1. IsSeq(steps) /\ ToSet(steps) = ToSet(told) \cup ToSet(e.steps) /\ Len(steps) = Len(told) + Len(e.steps)
    BY <1>5, <1>6, CatElements
  <2>2. steps = <<>> => told = <<>> /\ e.steps = <<>>
    <3>1. told \in Seq(ToSet(told)) /\ e.steps \in Seq(ToSet(e.steps))
      BY <1>5, <1>6, ElementsOf
    <3> QED BY <2>1, <3>1
  <2> QED BY <1>5, <1>6, <2>1, <2>2
<1> HIDE DEF steps
<1>8. /\ DOMAIN p = DOMAIN s /\ p.tables = s.tables /\ p.hints = s.hints /\ p.joins = joins
      /\ p.labels = s.labels /\ p.after = after /\ p.toldAfter = s.toldAfter /\ p.outputs = s.outputs /\ p.steps = steps
      /\ p.cases = s.cases /\ p.metrics = metrics
  BY <1>1
<1> HIDE DEF p
<1>9. SpecShape(p)
  BY <1>1, <1>3, <1>4, <1>5, <1>7, <1>8, ShapeStays
<1>10. steps = <<>> => s.steps = <<>> /\ joins = s.joins
  <2>1. s.joins \in Seq(ToSet(s.joins))
    BY <1>1, ElementsOf
  <2>2. s.joins \o <<>> = s.joins
    BY <2>1
  <2> QED BY <1>5, <1>6, <1>7, <2>2 DEF joins
<1> QED BY <1>2, <1>8, <1>9, <1>10 DEF metrics

\* The spec once enriched.
LEMMA AppliedShape ==
    ASSUME NEW s, SpecShape(s), NEW e, Enrichment(e)
    PROVE  /\ SpecShape(Applied(s, e).spec) /\ Applied(s, e).spec.tables = s.tables
           /\ Applied(s, e).spec.steps = <<>> => s.steps = <<>> /\ Applied(s, e).spec.joins = s.joins
           /\ Applied(s, e).spec.metrics = s.metrics \o NotAmong(e.metrics, ToSet(Aliases(s.metrics)))
<1> DEFINE q == WithLists(s, e)
           fold == FoldLeft(LAMBDA acc, p : WithRatio(q, DimNames(s.dims \o s.derived), acc, p),
                            [ratios |-> q.ratios, asked |-> {}], e.ratios)
           placed == {i \in NewRules(q, s, e.rules) : RulePhase(s, e.rules[i]) # ""}
           kept == Kept(e.rules, placed)
           new == SeqMap(LAMBDA r : AsRule(r, RulePhase(s, r) = "pre"), kept)
           ratios == fold.ratios
           labels == q.labels \o new
           p == [q EXCEPT !.ratios = ratios, !.labels = labels]
<1>1. Applied(s, e).spec = p
  BY Zenon DEF Applied
<1>2. /\ SpecShape(q) /\ q.tables = s.tables /\ (q.steps = <<>> => s.steps = <<>> /\ q.joins = s.joins)
      /\ q.metrics = s.metrics \o NotAmong(e.metrics, ToSet(Aliases(s.metrics)))
  BY ListsShape
<1> HIDE DEF q, placed, ratios
<1>3. IsSeq(labels)
  <2>1. IsSeq(kept)
    BY KeptElements DEF Enrichment
  <2> HIDE DEF kept
  <2>2. DOMAIN new = DOMAIN kept /\ new = [i \in DOMAIN new |-> new[i]]
    BY Zenon DEF SeqMap
  <2> HIDE DEF new
  <2>3. IsSeq(new)
    BY <2>1, <2>2, MappedList
  <2>4. IsSeq(q.labels)
    BY <1>2 DEF SpecShape
  <2> QED BY <2>3, <2>4, CatElements
<1> HIDE DEF labels
<1>4. /\ {"tables", "joins", "metrics", "labels", "cases", "after", "toldAfter", "outputs", "hints", "steps"} \subseteq DOMAIN q
      /\ IsSeq(q.joins) /\ IsSeq(q.metrics) /\ IsSeq(q.labels) /\ IsSeq(q.cases) /\ IsSeq(q.after)
      /\ IsSeq(q.toldAfter) /\ IsSeq(q.outputs) /\ IsSeq(q.steps) /\ \A cs \in ToSet(q.steps) : StepShape(cs)
  BY <1>2 DEF SpecShape
<1>5. /\ DOMAIN p = DOMAIN q /\ p.tables = q.tables /\ p.hints = q.hints /\ p.joins = q.joins
      /\ p.labels = labels /\ p.after = q.after /\ p.toldAfter = q.toldAfter /\ p.outputs = q.outputs /\ p.steps = q.steps
      /\ p.cases = q.cases /\ p.metrics = q.metrics
  BY <1>4
<1> HIDE DEF p
<1>6. SpecShape(p)
  BY <1>2, <1>3, <1>4, <1>5, ShapeStays
<1> QED BY <1>1, <1>2, <1>5, <1>6

---------------------------------------------------------------------------
\* Every join names tables, where there are no compute steps it could name.
JoinsNamed(s) == s.steps = <<>> => \A j \in ToSet(s.joins) : {j.lt, j.rt} \subseteq TableNames(s)
HopsNamed(s, H) == IsSeq(H) /\ \A h \in ToSet(H) : {h.left, h.right} \subseteq TableNames(s)
AtLevel(L, level) == SeqMap(LAMBDA j : Candidate(j, level), L)

(* The joins a planner may propose: those of the spec, and those a language  *)
(* model infers between columns of its tables.                               *)
Proposed(s, answer) == ToSet(s.joins) \cup {j \in ToSet(answer) : Usable(s, j)}
CandidatesOf(J, H) == IsSeq(H) /\ \A h \in ToSet(H) : \E j \in J, level \in {"STRONG", "MEDIUM"} : h = Candidate(j, level)

\* The candidates made of joins are theirs.
LEMMA CandidatesMade ==
    ASSUME NEW J, NEW L, IsSeq(L), ToSet(L) \subseteq J, NEW level \in {"STRONG", "MEDIUM"}
    PROVE  CandidatesOf(J, AtLevel(L, level))
<1> DEFINE f == SeqMap(LAMBDA j : Candidate(j, level), L)
<1>1. DOMAIN f = DOMAIN L /\ f = [i \in DOMAIN f |-> f[i]] /\ \A i \in DOMAIN L : f[i] = Candidate(L[i], level)
  BY DEF SeqMap
<1> HIDE DEF f
<1>2. /\ IsSeq(f) /\ DOMAIN L = 1..Len(L)
      /\ \A x \in ToSet(f) : \E i \in 1..Len(L) : x = f[i] /\ L[i] \in ToSet(L)
  BY <1>1, MapElements
<1>3. ASSUME NEW h \in ToSet(f) PROVE \E j \in J, v \in {"STRONG", "MEDIUM"} : h = Candidate(j, v)
  <2>1. PICK i \in 1..Len(L) : h = Candidate(L[i], level) /\ L[i] \in ToSet(L)
    BY <1>1, <1>2
  <2> QED BY <2>1
<1> QED BY <1>2, <1>3 DEF CandidatesOf, f, AtLevel

\* What the planners propose, with a language model and without.
LEMMA HopsProposed ==
    ASSUME NEW s, SpecShape(s), NEW told, NEW answer, IsSeq(answer)
    PROVE  CandidatesOf(Proposed(s, answer), Hops(s, told, answer))
<1> DEFINE J == Proposed(s, answer)
           adopted == Adopted(s)
           pair(j) == <<j.lt, j.rt>>
           pairs == SeqMap(pair, adopted)
           of(p) == {i \in DOMAIN adopted : pair(adopted[i]) = p}
           last(p) == Last(Kept(adopted, of(p)))
           few == Dedup(pairs)
           one == SeqMap(last, few)
           guessed == Inferred(s, answer)
           medium == Only(guessed, LAMBDA j : InferredLevel(j) = "MEDIUM")
           Names(j) == j \in J
<1>1. IsSeq(adopted) /\ ToSet(adopted) \subseteq ToSet(s.joins)
  <2>1. IsSeq(s.joins)
    BY DEF SpecShape
  <2> QED BY <2>1, KeptElements DEF Adopted, Only
<1>2. \A j \in ToSet(adopted) : Names(j)
  BY <1>1 DEF Proposed
<1>3. DOMAIN adopted = 1..Len(adopted) /\ \A i \in 1..Len(adopted) : adopted[i] \in ToSet(adopted)
  BY <1>1, ElementsOf
<1> HIDE DEF adopted
<1>4. IsSeq(few) /\ \A p \in ToSet(few) : \E i \in 1..Len(adopted) : p = pair(adopted[i])
  <2>1. DOMAIN pairs = DOMAIN adopted /\ pairs = [i \in DOMAIN pairs |-> pairs[i]]
        /\ \A i \in DOMAIN adopted : pairs[i] = pair(adopted[i])
    BY DEF SeqMap
  <2> HIDE DEF pairs, pair
  <2>2. IsSeq(pairs) /\ \A x \in ToSet(pairs) : \E i \in 1..Len(adopted) : x = pairs[i]
    BY <1>1, <2>1, MapElements
  <2>3. IsSeq(few) /\ ToSet(few) \subseteq ToSet(pairs)
    BY <2>2, KeptElements DEF Dedup
  <2> QED BY <1>3, <2>1, <2>2, <2>3
<1> HIDE DEF few
<1>5. \A i \in 1..Len(adopted) : last(pair(adopted[i])) \in ToSet(adopted)
  <2> TAKE i \in 1..Len(adopted)
  <2> DEFINE p == pair(adopted[i])
             k == Kept(adopted, of(p))
  <2>1. i \in of(p)
    BY <1>3
  <2> HIDE DEF p
  <2>2. IsSeq(k) /\ ToSet(k) \subseteq ToSet(adopted) /\ adopted[i] \in ToSet(k)
    <3> HIDE DEF of
    <3> QED BY <1>1, <2>1, KeptElements
  <2> HIDE DEF k
  <2>3. Len(k) \in 1..Len(k)
    <3>1. \E n \in 1..Len(k) : k[n] = adopted[i]
      BY <2>2, ElementsOf
    <3>2. Len(k) \in Nat
      BY <2>2, ElementsOf
    <3> QED BY <3>1, <3>2
  <2>4. Last(k) \in ToSet(k)
    BY <2>2, <2>3, ElementsOf DEF Last
  <2> QED BY <2>2, <2>4 DEF k, p
<1>6. IsSeq(one) /\ \A j \in ToSet(one) : Names(j)
  <2>1. DOMAIN one = DOMAIN few /\ one = [i \in DOMAIN one |-> one[i]] /\ \A i \in DOMAIN few : one[i] = last(few[i])
    BY DEF SeqMap
  <2> HIDE DEF one, last, pair, Names
  <2>2. /\ IsSeq(one) /\ DOMAIN few = 1..Len(few)
        /\ \A x \in ToSet(one) : \E i \in 1..Len(few) : x = one[i] /\ few[i] \in ToSet(few)
    BY <1>4, <2>1, MapElements
  <2>3. \A j \in ToSet(one) : j \in ToSet(adopted)
    <3> TAKE j \in ToSet(one)
    <3>1. PICK i \in 1..Len(few) : j = last(few[i]) /\ few[i] \in ToSet(few)
      BY <2>1, <2>2
    <3>2. PICK n \in 1..Len(adopted) : few[i] = pair(adopted[n])
      BY <1>4, <3>1
    <3> QED BY <1>5, <3>1, <3>2
  <2> QED BY <1>2, <2>2, <2>3
<1>7. OnePerPair(s) = one
  BY Zenon DEF OnePerPair, Only, adopted, few
<1> HIDE DEF one
<1>8. IsSeq(medium) /\ \A j \in ToSet(medium) : Names(j)
  <2> DEFINE taken == {<<j.lt, j.rt>> : j \in ToSet(OnePerPair(s))}
             I == {i \in DOMAIN answer : Usable(s, answer[i]) /\ <<answer[i].lt, answer[i].rt>> \notin taken}
  <2>1. guessed = Kept(answer, I)
    BY Zenon DEF Inferred, Only
  <2>2. \A i \in I : Names(answer[i])
    BY DEF Proposed, ToSet
  <2> HIDE DEF I, guessed, Names
  <2>3. IsSeq(guessed) /\ \A j \in ToSet(guessed) : \E i \in I : j = answer[i]
    BY <2>1, KeptElements
  <2>4. IsSeq(medium) /\ ToSet(medium) \subseteq ToSet(guessed)
    BY <2>3, KeptElements DEF Only
  <2> QED BY <2>2, <2>3, <2>4
<1> DEFINE strong == AtLevel(one, "STRONG")
           weak == AtLevel(medium, "MEDIUM")
           plain == AtLevel(adopted, "STRONG")
<1>9. Hops(s, told, answer) = IF Len(s.tables) < 2 THEN <<>> ELSE IF told THEN strong \o weak ELSE plain
  BY <1>7, Zenon DEF Hops, InferredCandidates, DeclaredCandidates, adopted, AtLevel
<1> HIDE DEF J
<1>10. CandidatesOf(J, strong) /\ CandidatesOf(J, weak) /\ CandidatesOf(J, plain)
  <2>1. ToSet(one) \subseteq J
    BY <1>6
  <2>2. ToSet(medium) \subseteq J
    <3> HIDE DEF medium
    <3> QED BY <1>8
  <2>3. ToSet(adopted) \subseteq J
    BY <1>2
  <2> HIDE DEF medium, Names
  <2>4. CandidatesOf(J, AtLevel(one, "STRONG"))
    BY <1>6, <2>1, CandidatesMade
  <2>5. CandidatesOf(J, AtLevel(medium, "MEDIUM"))
    BY <1>8, <2>2, CandidatesMade
  <2>6. CandidatesOf(J, AtLevel(adopted, "STRONG"))
    BY <1>1, <2>3, CandidatesMade
  <2> QED BY Zenon, <2>4, <2>5, <2>6
<1> HIDE DEF strong, weak, plain
<1>11. CandidatesOf(J, strong \o weak)
  BY <1>10, CatElements DEF CandidatesOf
<1>12. CandidatesOf(J, <<>>)
  BY NoElement DEF CandidatesOf
<1> QED BY <1>9, <1>10, <1>11, <1>12 DEF J

\* The tables of a join are those of the candidate made of it.
LEMMA CandidateFields ==
    ASSUME NEW j, NEW level
    PROVE  /\ Candidate(j, level).left = j.lt /\ Candidate(j, level).right = j.rt
           /\ Candidate(j, level).lk = j.lk /\ Candidate(j, level).rk = j.rk
  BY DEF Candidate

\* Candidates name tables, where the joins do.
LEMMA HopsShape ==
    ASSUME NEW s, SpecShape(s), JoinsNamed(s), s.steps = <<>>, NEW told, NEW answer, IsSeq(answer)
    PROVE  HopsNamed(s, Hops(s, told, answer))
<1>1. CandidatesOf(Proposed(s, answer), Hops(s, told, answer))
  BY HopsProposed
<1>2. ASSUME NEW j \in Proposed(s, answer) PROVE {j.lt, j.rt} \subseteq TableNames(s)
  BY <1>2 DEF Proposed, JoinsNamed, Usable
<1> QED BY <1>1, <1>2, CandidateFields DEF CandidatesOf, HopsNamed

---------------------------------------------------------------------------
\* A step that reads a bridge as well is a step.
LEMMA BridgedShape == ASSUME NEW cs, StepShape(cs) PROVE StepShape(Bridged(cs))
<1>1. \A s : IsSeq(s) => StepShape([cs EXCEPT !.source = s, !.listed = TRUE])
  BY StepStays, Zenon
<1>2. IsSeq(<<cs.source[1], Bridge(cs.name)>>)
  BY TwoElements
<1> QED BY <1>1, <1>2, Zenon DEF Bridged

\* The spec in which a step reads a bridge.
LEMMA NotedShape ==
    ASSUME NEW s, SpecShape(s), NEW n
    PROVE  /\ SpecShape(NotedBridge(s, n)) /\ NotedBridge(s, n).tables = s.tables
           /\ NotedBridge(s, n).joins = s.joins
           /\ NotedBridge(s, n).steps = <<>> => s.steps = <<>>
           /\ NotedBridge(s, n).metrics = s.metrics
<1> DEFINE steps == SeqMap(LAMBDA x : IF x.name = n THEN Bridged(x) ELSE x, s.steps)
           p == [s EXCEPT !.steps = steps]
<1>1. /\ {"tables", "joins", "metrics", "labels", "cases", "after", "toldAfter", "outputs", "hints", "steps"} \subseteq DOMAIN s
      /\ IsSeq(s.joins) /\ IsSeq(s.metrics) /\ IsSeq(s.labels) /\ IsSeq(s.cases) /\ IsSeq(s.after)
      /\ IsSeq(s.toldAfter) /\ IsSeq(s.outputs) /\ IsSeq(s.steps) /\ \A cs \in ToSet(s.steps) : StepShape(cs)
  BY DEF SpecShape
<1>2. NotedBridge(s, n) = p
  BY Zenon DEF NotedBridge
<1>3. IsSeq(steps) /\ (\A cs \in ToSet(steps) : StepShape(cs)) /\ (steps = <<>> => s.steps = <<>>)
  <2>1. /\ DOMAIN steps = DOMAIN s.steps /\ steps = [i \in DOMAIN steps |-> steps[i]]
        /\ \A i \in DOMAIN s.steps : steps[i] = Bridged(s.steps[i]) \/ steps[i] = s.steps[i]
    BY DEF SeqMap
  <2> HIDE DEF steps
  <2>2. \A i \in 1..Len(s.steps) : s.steps[i] \in ToSet(s.steps) /\ i \in DOMAIN s.steps
    BY <1>1, ElementsOf
  <2>3. \A i \in 1..Len(s.steps) : StepShape(steps[i])
    BY <1>1, <2>1, <2>2, BridgedShape
  <2>4. IsSeq(steps) /\ \A cs \in ToSet(steps) : StepShape(cs)
    BY <1>1, <2>1, <2>3, StepsMapped
  <2> QED BY <1>1, <2>1, <2>4, MappedList
<1> HIDE DEF steps
<1>4. /\ DOMAIN p = DOMAIN s /\ p.tables = s.tables /\ p.hints = s.hints /\ p.joins = s.joins
      /\ p.labels = s.labels /\ p.after = s.after /\ p.toldAfter = s.toldAfter /\ p.outputs = s.outputs /\ p.steps = steps
      /\ p.cases = s.cases /\ p.metrics = s.metrics
  BY <1>1
<1> HIDE DEF p
<1>5. SpecShape(p)
  BY <1>1, <1>3, <1>4, ShapeStays
<1> QED BY <1>2, <1>3, <1>4, <1>5

\* The set of what a function makes of the elements of a sequence is finite.
LEMMA FiniteMapped ==
    ASSUME NEW s, IsSeq(s), NEW f
    PROVE  IsFiniteSet({f[x] : x \in ToSet(s)})
<1> DEFINE S == ToSet(s)
           g == [x \in S |-> f[x]]
           R == {f[x] : x \in S}
<1>1. IsFiniteSet(S)
  BY FiniteElements
<1> HIDE DEF S
<1>2. g \in Surjection(S, R)
  BY DEF Surjection
<1> HIDE DEF g, R
<1>3. IsFiniteSet(R)
  BY <1>1, <1>2, FS_Surjection
<1> QED BY <1>3 DEF R, S

\* The steps in the order they are built in are steps.
LEMMA SortedSteps ==
    ASSUME NEW steps, IsSeq(steps), \A cs \in ToSet(steps) : StepShape(cs)
    PROVE  LET sorted == SeqMap(LAMBDA n : Named(steps, n), TopoSortSteps(steps))
           IN  IsSeq(sorted) /\ \A cs \in ToSet(sorted) : StepShape(cs)
<1> DEFINE names == {s.name : s \in ToSet(steps)}
           step(n) == CHOOSE s \in ToSet(steps) : s.name = n
           order == TopoSortSteps(steps)
           sorted == SeqMap(LAMBDA n : Named(steps, n), order)
           f == [s \in ToSet(steps) |-> s.name]
<1>1. IsFiniteSet(names)
  <2>1. names = {f[x] : x \in ToSet(steps)}
    OBVIOUS
  <2> HIDE DEF f, names
  <2> QED BY <2>1, FiniteMapped
<1>2. order \in Seq(names)
  <2>1. order = KahnOrder(names, [n \in names |-> ToSet(step(n).source) \cap names])
    BY Zenon DEF TopoSortSteps
  <2> HIDE DEF names, order
  <2> QED BY <1>1, <2>1, KahnOrderNodes
<1>3. \A n \in names : Named(steps, n) \in ToSet(steps)
  BY DEF Named
<1>4. DOMAIN sorted = DOMAIN order /\ sorted = [i \in DOMAIN sorted |-> sorted[i]]
      /\ \A i \in DOMAIN order : sorted[i] = Named(steps, order[i])
  BY DEF SeqMap
<1> HIDE DEF sorted, order, names
<1>5. IsSeq(order) /\ \A i \in 1..Len(order) : order[i] \in names /\ i \in DOMAIN order
  BY <1>2, IsSeqOf, ElementsOf
<1>6. \A i \in 1..Len(order) : StepShape(sorted[i])
  BY <1>3, <1>4, <1>5
<1>7. IsSeq(sorted) /\ \A cs \in ToSet(sorted) : StepShape(cs)
  BY <1>4, <1>5, <1>6, StepsMapped
<1> QED BY <1>7, Zenon DEF sorted, order

---------------------------------------------------------------------------
\* A program orders its own statements, and their plans keep the filters.
Programs(T, p) ==
    /\ IsSeq(p.order) /\ ToSet(p.order) \subseteq Ids(p.statements)
    /\ \A st \in ToSet(p.statements) : Keeps(T, st.plan.steps)

\* The order of a program's statements.
LEMMA OrderIds ==
    ASSUME NEW statements, IsSeq(statements)
    PROVE  IsSeq(ProgramOrder(statements)) /\ ToSet(ProgramOrder(statements)) \subseteq Ids(statements)
<1> DEFINE ids == Ids(statements)
           deps(i) == ToSet((CHOOSE s \in ToSet(statements) : s.id = i).deps) \cap ids
           preds == [i \in ids |-> deps(i)]
           order == KahnOrder(ids, preds)
           f == [s \in ToSet(statements) |-> s.id]
<1>1. IsFiniteSet(ids)
  <2>1. ids = {f[x] : x \in ToSet(statements)}
    BY DEF Ids
  <2> HIDE DEF f, ids
  <2> QED BY <2>1, FiniteMapped
<1> HIDE DEF ids, preds
<1>2. order \in Seq(ids)
  BY <1>1, KahnOrderNodes
<1>3. ProgramOrder(statements) = IF Len(order) = Len(statements) THEN order ELSE <<>>
  BY Zenon DEF ProgramOrder, ids, preds
<1> HIDE DEF order
<1>4. IsSeq(order) /\ ToSet(order) \subseteq ids
  BY <1>2, IsSeqOf
<1> QED BY <1>3, <1>4, NoElement DEF ids

\* A program made of statements whose plans keep the filters.
LEMMA FromKeeping ==
    ASSUME NEW T, NEW statements, IsSeq(statements), \A st \in ToSet(statements) : Keeps(T, st.plan.steps),
           NEW temps, NEW final
    PROVE  Programs(T, FromStatements(statements, temps, final))
<1> DEFINE p == FromStatements(statements, temps, final)
<1>1. p.statements = statements /\ p.order = ProgramOrder(statements)
  BY DEF FromStatements
<1> HIDE DEF p
<1> QED BY <1>1, OrderIds DEF Programs, p

\* No program.
LEMMA NoProgramKeeps == ASSUME NEW T PROVE Programs(T, NoProgram)
<1>1. NoProgram.order = <<>> /\ NoProgram.statements = <<>>
  BY Zenon DEF NoProgram
<1> HIDE DEF NoProgram
<1> QED BY <1>1, NoElement DEF Programs

\* A program of one plan.
LEMMA SingleProgramKeeps ==
    ASSUME NEW T, NEW plan, Keeps(T, plan.steps)
    PROVE  Programs(T, SingleProgram(plan))
<1>1. PICK st : st.plan = plan /\ SingleProgram(plan) = FromStatements(<<st>>, <<>>, plan.id)
  <2> DEFINE s(x) == [id |-> plan.id, plan |-> plan, kind |-> "STANDALONE", deps |-> <<>>, produces |-> x]
  <2>1. \E x : SingleProgram(plan) = FromStatements(<<s(x)>>, <<>>, plan.id)
    BY Zenon DEF SingleProgram
  <2>2. \A x : s(x).plan = plan
    OBVIOUS
  <2> HIDE DEF s
  <2> QED BY <2>1, <2>2
<1>2. IsSeq(<<st>>) /\ ToSet(<<st>>) = {st}
  BY OneElement
<1> QED BY <1>1, <1>2, FromKeeping

\* A chain of plans.
LEMMA ChainProgramKeeps ==
    ASSUME NEW T, NEW P, IsSeq(P), \A p \in ToSet(P) : Keeps(T, p.steps)
    PROVE  Programs(T, ChainProgram(P))
<1> DEFINE n == Len(P)
           statement(i) == [id |-> P[i].id, plan |-> P[i],
                            kind |-> IF i = n THEN "FINAL" ELSE "PRODUCER",
                            deps |-> IF i = 1 THEN <<>> ELSE <<P[i-1].id>>,
                            produces |-> IF i = n THEN "" ELSE ChainTemp(i)]
           statements == [i \in 1..n |-> statement(i)]
<1>1. \E temps : ChainProgram(P) = FromStatements(statements, temps, P[n].id)
  BY Zenon DEF ChainProgram
<1>2. \A i \in 1..n : statements[i].plan = P[i]
  <2>1. \A i \in 1..n : statements[i] = statement(i)
    OBVIOUS
  <2>2. \A i : statement(i).plan = P[i]
    BY Zenon
  <2> HIDE DEF statements, statement
  <2> QED BY <2>1, <2>2
<1>3. DOMAIN statements = 1..n /\ statements = [i \in DOMAIN statements |-> statements[i]]
  BY Zenon
<1> HIDE DEF statements
<1>4. DOMAIN P = 1..n /\ \A i \in 1..n : P[i] \in ToSet(P)
  BY ElementsOf
<1>5. IsSeq(statements) /\ \A x \in ToSet(statements) : \E i \in 1..n : x = statements[i]
  BY <1>3, <1>4, MapElements
<1>6. \A st \in ToSet(statements) : Keeps(T, st.plan.steps)
  BY <1>2, <1>4, <1>5
<1> QED BY <1>1, <1>5, <1>6, FromKeeping

\* A program of compute steps and bridges.
LEMMA StepsProgramKeeps ==
    ASSUME NEW T, NEW steps, IsSeq(steps), NEW P, \A n \in DOMAIN P : Keeps(T, P[n].steps),
           NEW Q, IsSeq(Q), \A b \in ToSet(Q) : Keeps(T, b.steps)
    PROVE  Programs(T, StepsProgram(steps, P, Q))
<1> DEFINE names == {s.name : s \in ToSet(steps)}
           consumed == names \cap UNION {ToSet(s.source) : s \in ToSet(steps)}
           bridge(b) == [id |-> b.id, plan |-> b, kind |-> "PRODUCER", deps |-> <<>>, produces |-> Temp(b.id)]
           statement(s) == [id |-> s.name, plan |-> P[s.name],
                            kind |-> IF s.name \in consumed THEN "PRODUCER" ELSE "FINAL",
                            deps |-> Only(s.source, LAMBDA x : x # "input"),
                            produces |-> IF s.name \in consumed THEN Temp(s.name) ELSE ""]
           B == SeqMap(bridge, Q)
           S == SeqMap(statement, steps)
           built == \A s \in ToSet(steps) : s.name \in DOMAIN P
<1>1. \/ StepsProgram(steps, P, Q) = NoProgram
      \/ built /\ \E temps, final : StepsProgram(steps, P, Q) = FromStatements(B \o S, temps, final)
  BY Zenon DEF StepsProgram
<1>2. /\ DOMAIN B = DOMAIN Q /\ B = [i \in DOMAIN B |-> B[i]]
      /\ \A i \in DOMAIN Q : B[i].plan = Q[i]
  <2>1. \A i \in DOMAIN Q : B[i] = bridge(Q[i])
    BY Zenon DEF SeqMap
  <2>2. \A b : bridge(b).plan = b
    BY Zenon
  <2>3. DOMAIN B = DOMAIN Q /\ B = [i \in DOMAIN B |-> B[i]]
    BY Zenon DEF SeqMap
  <2> HIDE DEF B, bridge
  <2> QED BY <2>1, <2>2, <2>3
<1>3. /\ DOMAIN S = DOMAIN steps /\ S = [i \in DOMAIN S |-> S[i]]
      /\ \A i \in DOMAIN steps : S[i].plan = P[steps[i].name]
  <2>1. \A i \in DOMAIN steps : S[i] = statement(steps[i])
    BY Zenon DEF SeqMap
  <2>2. \A s : statement(s).plan = P[s.name]
    BY Zenon
  <2>3. DOMAIN S = DOMAIN steps /\ S = [i \in DOMAIN S |-> S[i]]
    BY Zenon DEF SeqMap
  <2> HIDE DEF S, statement
  <2> QED BY <2>1, <2>2, <2>3
<1> HIDE DEF B, S
<1>4. IsSeq(B) /\ \A st \in ToSet(B) : Keeps(T, st.plan.steps)
  <2>1. IsSeq(B) /\ DOMAIN Q = 1..Len(Q)
        /\ \A x \in ToSet(B) : \E i \in 1..Len(Q) : x = B[i] /\ Q[i] \in ToSet(Q)
    BY <1>2, MapElements
  <2> QED BY <1>2, <2>1
<1>5. IsSeq(S) /\ (built => \A st \in ToSet(S) : Keeps(T, st.plan.steps))
  <2>1. IsSeq(S) /\ DOMAIN steps = 1..Len(steps)
        /\ \A x \in ToSet(S) : \E i \in 1..Len(steps) : x = S[i] /\ steps[i] \in ToSet(steps)
    BY <1>3, MapElements
  <2> QED BY <1>3, <2>1
<1> HIDE DEF built
<1>6. IsSeq(B \o S) /\ ToSet(B \o S) = ToSet(B) \cup ToSet(S)
  BY <1>4, <1>5, CatElements
<1>7. \A temps, final : built => Programs(T, FromStatements(B \o S, temps, final))
  <2> DEFINE C == B \o S
  <2>1. IsSeq(C) /\ (built => \A st \in ToSet(C) : Keeps(T, st.plan.steps))
    BY <1>4, <1>5, <1>6
  <2> HIDE DEF C
  <2>2. \A temps, final : built => Programs(T, FromStatements(C, temps, final))
    BY <2>1, FromKeeping
  <2> QED BY <2>2 DEF C
<1> QED BY <1>1, <1>7, NoProgramKeeps

\* What a program compiles to.
LEMMA CompiledKeeps ==
    ASSUME NEW T, NEW p, Programs(T, p), NEW ratios
    PROVE  \A s \in ToSet(CompiledProgram(p, ratios).statements) : LayerKeeps(T, s.layers[1])
<1> DEFINE creates(s) == IF s.kind = "PRODUCER" THEN s.produces ELSE ""
           one(s) == [id |-> s.id, layers |-> Layers(s.plan, ratios), creates |-> creates(s)]
           statements == [i \in DOMAIN p.order |-> one(Statement(p, p.order[i]))]
<1>1. \/ CompiledProgram(p, ratios).statements = <<>>
      \/ CompiledProgram(p, ratios).statements = statements
  <2>1. \/ CompiledProgram(p, ratios) = [err |-> TRUE, statements |-> <<>>, cleanup |-> <<>>]
        \/ \E x : CompiledProgram(p, ratios) = [err |-> FALSE, statements |-> statements, cleanup |-> x]
    BY Zenon DEF CompiledProgram
  <2> HIDE DEF statements
  <2> QED BY <2>1
<1>2. /\ DOMAIN statements = DOMAIN p.order /\ statements = [i \in DOMAIN statements |-> statements[i]]
      /\ \A i \in DOMAIN p.order : statements[i].layers = Layers(Statement(p, p.order[i]).plan, ratios)
  <2>1. \A i \in DOMAIN p.order : statements[i] = one(Statement(p, p.order[i]))
    BY Zenon
  <2>2. \A s : one(s).layers = Layers(s.plan, ratios)
    BY Zenon
  <2>3. DOMAIN statements = DOMAIN p.order /\ statements = [i \in DOMAIN statements |-> statements[i]]
    BY Zenon
  <2> HIDE DEF statements, one
  <2> QED BY <2>1, <2>2, <2>3
<1> HIDE DEF statements
<1>3. \A id \in Ids(p.statements) : Statement(p, id) \in ToSet(p.statements)
  BY DEF Ids, Statement
<1>4. /\ IsSeq(statements) /\ DOMAIN p.order = 1..Len(p.order)
      /\ \A x \in ToSet(statements) : \E i \in 1..Len(p.order) : x = statements[i] /\ p.order[i] \in ToSet(p.order)
  BY <1>2, MapElements DEF Programs
<1>5. \A s \in ToSet(statements) : LayerKeeps(T, s.layers[1])
  <2> TAKE s \in ToSet(statements)
  <2>1. PICK i \in 1..Len(p.order) : s = statements[i] /\ p.order[i] \in ToSet(p.order)
    BY <1>4
  <2> DEFINE st == Statement(p, p.order[i])
  <2>2. st \in ToSet(p.statements)
    BY <1>3, <2>1 DEF Programs
  <2>3. Keeps(T, st.plan.steps) /\ s.layers = Layers(st.plan, ratios)
    BY <1>2, <1>4, <2>1, <2>2 DEF Programs
  <2> HIDE DEF st
  <2> QED BY <2>3, LayersKeep
<1> QED BY <1>1, <1>5, NoElement

---------------------------------------------------------------------------
\* A plan added to the plans by name.
LEMMA PlanAdded ==
    ASSUME NEW T, NEW P, \A n \in DOMAIN P : Keeps(T, P[n].steps), NEW name, NEW plan, Keeps(T, plan.steps)
    PROVE  \A n \in DOMAIN Put(P, name, plan) : Keeps(T, Put(P, name, plan)[n].steps)
  BY DEF Put

\* A plan added at the end.
LEMMA PlanAppended ==
    ASSUME NEW T, NEW Q, IsSeq(Q), \A b \in ToSet(Q) : Keeps(T, b.steps), NEW plan, Keeps(T, plan.steps)
    PROVE  IsSeq(Append(Q, plan)) /\ \A b \in ToSet(Append(Q, plan)) : Keeps(T, b.steps)
<1> DEFINE one == <<plan>>
<1>1. IsSeq(one) /\ ToSet(one) = {plan}
  BY OneElement
<1>2. Append(Q, plan) = Q \o one
  <2>1. Q \in Seq(ToSet(Q))
    BY ElementsOf
  <2> QED BY <2>1
<1> HIDE DEF one
<1>3. IsSeq(Q \o one) /\ ToSet(Q \o one) = ToSet(Q) \cup ToSet(one)
  BY <1>1, CatElements
<1> QED BY <1>1, <1>2, <1>3

\* The first of a list, and the rest.
LEMMA HeadAndTail ==
    ASSUME NEW s, IsSeq(s), s # <<>>
    PROVE  Head(s) \in ToSet(s) /\ IsSeq(Tail(s)) /\ ToSet(Tail(s)) \subseteq ToSet(s)
<1>1. s \in Seq(ToSet(s))
  BY ElementsOf
<1>2. Tail(s) \in Seq(ToSet(s)) /\ Head(s) \in ToSet(s)
  BY <1>1
<1> QED BY <1>2, IsSeqOf

(* No table has the name of a temp: those carry the id of the chain that      *)
(* makes them.                                                               *)
TempsApart(tables) == \A t \in ToSet(tables) : \A n : Temp(n) \notin Under(t.alias)

\* What the parser accepts has tables apart, and joins that name them.
LEMMA AcceptedSound ==
    ASSUME NEW s, SpecShape(s), NamesApart(s.tables), TempsApart(s.tables), ParseAccepts(s)
    PROVE  SoundTables(s.tables) /\ JoinsNamed(s)
<1>1. IsSeq(s.tables) /\ \A t \in ToSet(s.tables) : IsSeq(t.filters)
  BY DEF SpecShape
<1>2. /\ s.tables # <<>>
      /\ \A i, j \in DOMAIN s.tables : i # j => s.tables[i].alias # s.tables[j].alias
      /\ \A j \in ToSet(s.joins) : {j.lt, j.rt} \subseteq TableNames(s) \cup {x.name : x \in ToSet(s.steps)}
  BY DEF ParseAccepts
<1>3. \A t, u \in ToSet(s.tables) : Under(t.alias) \cap Under(u.alias) # {} => t = u
  <2> SUFFICES ASSUME NEW t \in ToSet(s.tables), NEW u \in ToSet(s.tables), Under(t.alias) \cap Under(u.alias) # {}
               PROVE  t = u
    OBVIOUS
  <2>1. t.alias = u.alias
    BY DEF NamesApart
  <2>2. PICK i \in 1..Len(s.tables) : s.tables[i] = t
    BY <1>1, ElementsOf
  <2>3. PICK j \in 1..Len(s.tables) : s.tables[j] = u
    BY <1>1, ElementsOf
  <2>4. DOMAIN s.tables = 1..Len(s.tables)
    BY <1>1, ElementsOf
  <2> QED BY <1>2, <2>1, <2>2, <2>3, <2>4
<1>4. SoundTables(s.tables)
  BY <1>1, <1>2, <1>3 DEF SoundTables, TempsApart
<1>5. s.steps = <<>> => {x.name : x \in ToSet(s.steps)} = {}
  BY NoElement
<1>6. JoinsNamed(s)
  BY <1>2, <1>5 DEF JoinsNamed
<1> QED BY <1>4, <1>6

\* The joins of a spec stay named, as long as no step is lost and no join comes.
LEMMA JoinsStay ==
    ASSUME NEW s, NEW q, q.tables = s.tables, q.steps = <<>> => s.steps = <<>> /\ q.joins = s.joins, JoinsNamed(s)
    PROVE  JoinsNamed(q)
  BY DEF JoinsNamed, TableNames

---------------------------------------------------------------------------
(* Where a request stands: its tables are the ones it came with, and once    *)
(* parsed they are apart; join candidates and joins name them; and every     *)
(* plan, bridge, program and compiled statement so far keeps their filters.  *)
InShape == request \in Requests /\ SpecShape(spec) /\ spec.tables = request.spec.tables
InOrder == stage \in {"parse", "rejected"} \/ (SoundTables(spec.tables) /\ JoinsNamed(spec))
HopsFit == stage = "plan" => HopsNamed(spec, hops)
TodoFits == IsSeq(todo) /\ \A cs \in ToSet(todo) : StepShape(cs)
PlansKeep == /\ \A n \in DOMAIN plans : Keeps(spec.tables, plans[n].steps)
             /\ IsSeq(bridges) /\ \A b \in ToSet(bridges) : Keeps(spec.tables, b.steps)
ProgramKeeps == Programs(spec.tables, program)
CompiledKeep == \A s \in ToSet(compiled.statements) : LayerKeeps(spec.tables, s.layers[1])

FiltersHeld == InShape /\ InOrder /\ HopsFit /\ TodoFits /\ PlansKeep /\ ProgramKeeps /\ CompiledKeep

\* A request comes in so.
LEMMA KeepingInit == Init => FiltersHeld
<1> SUFFICES ASSUME Init PROVE FiltersHeld
  OBVIOUS
<1>1. InShape
  BY RequestsAssumption DEF InShape, Init
<1>2. InOrder /\ HopsFit
  BY DEF InOrder, HopsFit, Init
<1>3. TodoFits
  BY NoElement DEF TodoFits, Init
<1>4. PlansKeep
  <2>1. plans = <<>> /\ bridges = <<>> /\ DOMAIN <<>> = {}
    BY DEF Init
  <2> QED BY <2>1, NoElement DEF PlansKeep
<1>5. ProgramKeeps
  BY NoProgramKeeps DEF ProgramKeeps, Init
<1>6. CompiledKeep
  <2>1. compiled.statements = <<>>
    BY DEF Init, Empty
  <2> QED BY <2>1, NoElement DEF CompiledKeep
<1> QED BY <1>1, <1>2, <1>3, <1>4, <1>5, <1>6 DEF FiltersHeld

\* A stage that ends a request, changing nothing else.
LEMMA EndingKeeps ==
    ASSUME FiltersHeld, NEW how, Ends(how), stage \notin {"parse", "rejected"} \/ how = "rejected", how # "plan"
    PROVE  FiltersHeld'
<1>1. /\ stage' = how /\ spec' = spec /\ request' = request /\ hops' = hops /\ todo' = todo
      /\ plans' = plans /\ bridges' = bridges /\ program' = program /\ compiled' = compiled
  BY DEF Ends
<1>2. InShape' /\ TodoFits' /\ PlansKeep' /\ ProgramKeeps' /\ CompiledKeep'
  BY <1>1 DEF FiltersHeld, InShape, TodoFits, PlansKeep, ProgramKeeps, CompiledKeep
<1>3. InOrder' /\ HopsFit'
  BY <1>1 DEF FiltersHeld, InOrder, HopsFit
<1> QED BY <1>2, <1>3 DEF FiltersHeld

\* A stage that changes what is in the spec, but for its tables.
LEMMA BecomingKeeps ==
    ASSUME FiltersHeld, stage \notin {"parse", "rejected"}, stage' # "plan",
           SpecShape(spec'), spec'.tables = spec.tables, JoinsNamed(spec'),
           UNCHANGED <<request, todo, plans, bridges, program, compiled>>
    PROVE  FiltersHeld'
<1>1. InShape' /\ HopsFit'
  BY DEF FiltersHeld, InShape, HopsFit
<1>2. InOrder'
  BY DEF FiltersHeld, InOrder
<1>3. TodoFits' /\ PlansKeep' /\ ProgramKeeps' /\ CompiledKeep'
  BY DEF FiltersHeld, TodoFits, PlansKeep, ProgramKeeps, CompiledKeep
<1> QED BY <1>1, <1>2, <1>3 DEF FiltersHeld

\* What the models are told is in shape.
LEMMA HeardInShape == ASSUME FiltersHeld PROVE HeardShape(heard)
  BY RequestsAssumption DEF FiltersHeld, InShape, heard

\* Parsing sets the tables apart.
LEMMA ParseKeeps ==
    ASSUME \A q \in Requests : TempsApart(q.spec.tables), FiltersHeld, Parse
    PROVE  FiltersHeld'
<1>1. CASE ParseAccepts(spec)
  <2>1. /\ spec' = spec /\ request' = request /\ hops' = hops /\ todo' = todo
        /\ plans' = plans /\ bridges' = bridges /\ program' = program /\ compiled' = compiled
        /\ stage' = "require"
    BY <1>1 DEF Parse
  <2>2. SpecShape(spec) /\ NamesApart(spec.tables) /\ TempsApart(spec.tables)
    BY RequestsAssumption DEF FiltersHeld, InShape
  <2>3. SoundTables(spec.tables) /\ JoinsNamed(spec)
    BY <1>1, <2>2, AcceptedSound
  <2>4. InOrder' /\ HopsFit'
    BY <2>1, <2>3 DEF InOrder, HopsFit
  <2>5. InShape' /\ TodoFits' /\ PlansKeep' /\ ProgramKeeps' /\ CompiledKeep'
    BY <2>1 DEF FiltersHeld, InShape, TodoFits, PlansKeep, ProgramKeeps, CompiledKeep
  <2> QED BY <2>4, <2>5 DEF FiltersHeld
<1>2. CASE ~ParseAccepts(spec)
  <2>1. Ends("rejected")
    BY <1>2 DEF Parse
  <2> QED BY <2>1, EndingKeeps
<1> QED BY <1>1, <1>2

\* The planner's answers leave tables and joins.
LEMMA RequireKeeps == ASSUME FiltersHeld, Require PROVE FiltersHeld'
<1>1. stage = "require" /\ InShape /\ InOrder
  BY DEF Require, FiltersHeld
<1>2. SpecShape(spec) /\ JoinsNamed(spec)
  BY <1>1 DEF InShape, InOrder
<1>3. \/ spec' = spec /\ stage' = "enrich" /\ UNCHANGED <<request, todo, plans, bridges, program, compiled>>
      \/ spec' = Planned(spec, heard.plan) /\ stage' = "enrich" /\ UNCHANGED <<request, todo, plans, bridges, program, compiled>>
      \/ Ends("failed")
  BY DEF Require, Becomes
<1>4. CASE spec' = spec /\ stage' = "enrich" /\ UNCHANGED <<request, todo, plans, bridges, program, compiled>>
  BY <1>1, <1>2, <1>4, BecomingKeeps
<1>5. CASE spec' = Planned(spec, heard.plan) /\ stage' = "enrich"
           /\ UNCHANGED <<request, todo, plans, bridges, program, compiled>>
  <2>1. IsSeq(heard.plan.metrics) /\ IsSeq(heard.plan.rules)
    BY HeardInShape DEF HeardShape
  <2>2. SpecShape(spec') /\ spec'.tables = spec.tables /\ spec'.joins = spec.joins /\ spec'.steps = spec.steps
    BY <1>2, <1>5, <2>1, PlannedShape
  <2>3. JoinsNamed(spec')
    BY <1>2, <2>2, JoinsStay
  <2> QED BY <1>1, <1>5, <2>2, <2>3, BecomingKeeps
<1>6. CASE Ends("failed")
  BY <1>1, <1>6, EndingKeeps
<1> QED BY <1>3, <1>4, <1>5, <1>6

\* The enricher adds joins to compute steps only.
LEMMA EnrichKeeps == ASSUME FiltersHeld, Enrich PROVE FiltersHeld'
<1>1. stage = "enrich" /\ InShape /\ InOrder
  BY DEF Enrich, FiltersHeld
<1>2. SpecShape(spec) /\ JoinsNamed(spec)
  BY <1>1 DEF InShape, InOrder
<1> DEFINE e == Enriched(spec, model, heard.enrich)
<1>3. /\ spec' = Applied(spec, e).spec /\ stage' = "label"
      /\ UNCHANGED <<request, todo, plans, bridges, program, compiled>>
  BY DEF Enrich, Becomes
<1>4. Enrichment(e)
  <2>1. IsSeq(heard.enrich.metrics) /\ IsSeq(heard.enrich.after) /\ IsSeq(heard.enrich.rules)
    BY HeardInShape DEF HeardShape
  <2>2. e = FakeEnriched(spec) \/ e = ParsedReply(spec, heard.enrich)
    BY Zenon DEF Enriched
  <2> HIDE DEF e
  <2> QED BY <1>2, <2>1, <2>2, FakeEnrichment, ParsedEnrichment
<1> HIDE DEF e
<1>5. /\ SpecShape(spec') /\ spec'.tables = spec.tables
      /\ spec'.steps = <<>> => spec.steps = <<>> /\ spec'.joins = spec.joins
  BY <1>2, <1>3, <1>4, AppliedShape
<1>6. JoinsNamed(spec')
  BY <1>2, <1>5, JoinsStay
<1> QED BY <1>1, <1>3, <1>5, <1>6, BecomingKeeps

\* The extractor adds labels.
LEMMA PrepareLabelsKeeps == ASSUME FiltersHeld, PrepareLabels PROVE FiltersHeld'
<1>1. stage = "label" /\ InShape /\ InOrder
  BY DEF PrepareLabels, FiltersHeld
<1>2. SpecShape(spec) /\ JoinsNamed(spec)
  BY <1>1 DEF InShape, InOrder
<1>3. \/ Ends("failed")
      \/ \E rules \in {heard.extract.rules, <<>>} :
             /\ spec' = WithLabels(spec, rules) /\ stage' = "settle"
             /\ UNCHANGED <<request, todo, plans, bridges, program, compiled>>
  BY DEF PrepareLabels, Becomes
<1>4. CASE Ends("failed")
  BY <1>1, <1>4, EndingKeeps
<1>5. ASSUME NEW rules \in {heard.extract.rules, <<>>}, spec' = WithLabels(spec, rules), stage' = "settle",
             UNCHANGED <<request, todo, plans, bridges, program, compiled>>
      PROVE  FiltersHeld'
  <2>1. IsSeq(rules)
    BY <1>5, HeardInShape, NoElement DEF HeardShape
  <2>2. SpecShape(spec') /\ spec'.tables = spec.tables /\ spec'.joins = spec.joins /\ spec'.steps = spec.steps
    BY <1>2, <1>5, <2>1, LabelledShape
  <2>3. JoinsNamed(spec')
    BY <1>2, <2>2, JoinsStay
  <2> QED BY <1>1, <1>5, <2>2, <2>3, BecomingKeeps
<1> QED BY <1>3, <1>4, <1>5

\* What is left open is settled without a change.
LEMMA SettleKeeps == ASSUME FiltersHeld, Settle PROVE FiltersHeld'
<1>1. stage = "settle" /\ InShape /\ InOrder
  BY DEF Settle, FiltersHeld
<1>2. SpecShape(spec) /\ JoinsNamed(spec)
  BY <1>1 DEF InShape, InOrder
<1>3. \/ Ends("failed")
      \/ spec' = spec /\ stage' = "relate" /\ UNCHANGED <<request, todo, plans, bridges, program, compiled>>
  BY DEF Settle, Becomes
<1> QED BY <1>1, <1>2, <1>3, EndingKeeps, BecomingKeeps

\* The planners' candidates name tables, where there are no compute steps.
LEMMA RelateKeeps ==
    ASSUME FiltersHeld, NEW answer \in Answers, Relate(answer)
    PROVE  FiltersHeld'
<1>1. /\ stage = "relate" /\ hops' = Hops(spec, model, answer) /\ todo' = spec.steps
      /\ stage' = IF spec.steps # <<>> THEN "check" ELSE "plan"
      /\ spec' = spec /\ request' = request /\ plans' = plans /\ bridges' = bridges
      /\ program' = program /\ compiled' = compiled
  BY DEF Relate
<1>2. SpecShape(spec) /\ SoundTables(spec.tables) /\ JoinsNamed(spec)
  BY <1>1 DEF FiltersHeld, InShape, InOrder
<1>3. InShape' /\ InOrder' /\ PlansKeep' /\ ProgramKeeps' /\ CompiledKeep'
  BY <1>1, <1>2 DEF FiltersHeld, InShape, InOrder, PlansKeep, ProgramKeeps, CompiledKeep
<1>4. TodoFits'
  BY <1>1, <1>2 DEF TodoFits, SpecShape
<1>5. HopsFit'
  <2>1. CASE spec.steps = <<>>
    <3>1. IsSeq(answer)
      BY AnswersAssumption
    <3>2. HopsNamed(spec, Hops(spec, model, answer))
      BY <1>2, <2>1, <3>1, HopsShape
    <3> QED BY <1>1, <3>2 DEF HopsFit
  <2>2. CASE spec.steps # <<>>
    BY <1>1, <2>2 DEF HopsFit
  <2> QED BY <2>1, <2>2
<1> QED BY <1>3, <1>4, <1>5 DEF FiltersHeld

\* A step looked at leaves the list.
LEMMA CheckStepKeeps == ASSUME FiltersHeld, CheckStep PROVE FiltersHeld'
<1>1. /\ stage = "check" /\ todo # <<>> /\ todo' = Tail(todo) /\ stage' = stage
      /\ spec' = spec /\ request' = request /\ hops' = hops /\ plans' = plans /\ bridges' = bridges
      /\ program' = program /\ compiled' = compiled
  BY DEF CheckStep
<1>2. InShape' /\ InOrder' /\ PlansKeep' /\ ProgramKeeps' /\ CompiledKeep'
  BY <1>1 DEF FiltersHeld, InShape, InOrder, PlansKeep, ProgramKeeps, CompiledKeep
<1>3. TodoFits' /\ HopsFit'
  <2>1. IsSeq(todo) /\ \A cs \in ToSet(todo) : StepShape(cs)
    BY DEF FiltersHeld, TodoFits
  <2>2. IsSeq(Tail(todo)) /\ ToSet(Tail(todo)) \subseteq ToSet(todo)
    BY <1>1, <2>1, HeadAndTail
  <2> QED BY <1>1, <2>1, <2>2 DEF TodoFits, HopsFit
<1> QED BY <1>2, <1>3 DEF FiltersHeld

\* The steps are put in order.
LEMMA SortStepsKeeps == ASSUME FiltersHeld, SortSteps PROVE FiltersHeld'
<1> DEFINE sorted == SeqMap(LAMBDA n : Named(spec.steps, n), TopoSortSteps(spec.steps))
<1>1. /\ stage = "check"
      /\ \/ Ends("blocked")
         \/ /\ todo' = sorted /\ stage' = "build"
            /\ spec' = spec /\ request' = request /\ hops' = hops /\ plans' = plans /\ bridges' = bridges
            /\ program' = program /\ compiled' = compiled
  BY DEF SortSteps
<1>2. CASE Ends("blocked")
  BY <1>1, <1>2, EndingKeeps
<1>3. CASE /\ todo' = sorted /\ stage' = "build"
           /\ spec' = spec /\ request' = request /\ hops' = hops /\ plans' = plans /\ bridges' = bridges
           /\ program' = program /\ compiled' = compiled
  <2>1. IsSeq(spec.steps) /\ \A cs \in ToSet(spec.steps) : StepShape(cs)
    BY DEF FiltersHeld, InShape, SpecShape
  <2>2. IsSeq(sorted) /\ \A cs \in ToSet(sorted) : StepShape(cs)
    BY <2>1, SortedSteps, Zenon
  <2> HIDE DEF sorted
  <2>3. TodoFits' /\ HopsFit'
    BY <1>3, <2>2 DEF TodoFits, HopsFit
  <2>4. InShape' /\ InOrder' /\ PlansKeep' /\ ProgramKeeps' /\ CompiledKeep'
    BY <1>1, <1>3 DEF FiltersHeld, InShape, InOrder, PlansKeep, ProgramKeeps, CompiledKeep
  <2> QED BY <2>3, <2>4 DEF FiltersHeld
<1> QED BY <1>1, <1>2, <1>3

\* A bridge keeps the filters of the two tables it is built over.
LEMMA BuildBridgeKeeps == ASSUME FiltersHeld, BuildBridge PROVE FiltersHeld'
<1> DEFINE cs == Head(todo)
           bridge == BridgePlan(cs, passed, spec)
           b == Bridged(cs)
           rest == Tail(todo)
<1>1. /\ stage = "build" /\ todo # <<>> /\ Bridgeable(cs, passed, spec) # <<>>
      /\ bridges' = Append(bridges, bridge) /\ todo' = <<b>> \o rest
      /\ spec' = NotedBridge(spec, cs.name)
      /\ stage' = stage /\ request' = request /\ hops' = hops /\ plans' = plans
      /\ program' = program /\ compiled' = compiled
  <2>1. /\ stage = "build" /\ todo # <<>> /\ Bridgeable(cs, passed, spec) # <<>>
        /\ stage' = stage /\ request' = request /\ hops' = hops /\ plans' = plans
        /\ program' = program /\ compiled' = compiled
    BY DEF BuildBridge
  <2>2. bridges' = Append(bridges, bridge) /\ todo' = <<b>> \o rest
    BY Zenon DEF BuildBridge
  <2>3. spec' = NotedBridge(spec, cs.name)
    BY Zenon DEF BuildBridge
  <2> QED BY <2>1, <2>2, <2>3
<1>2. SpecShape(spec) /\ SoundTables(spec.tables) /\ JoinsNamed(spec)
  BY <1>1 DEF FiltersHeld, InShape, InOrder
<1>3. /\ StepShape(cs) /\ IsSeq(rest) /\ ToSet(rest) \subseteq ToSet(todo)
      /\ \A x \in ToSet(todo) : StepShape(x)
  <2>1. IsSeq(todo) /\ \A x \in ToSet(todo) : StepShape(x)
    BY DEF FiltersHeld, TodoFits
  <2> QED BY <1>1, <2>1, HeadAndTail
<1> HIDE DEF cs, rest
<1>4. Keeps(spec.tables, bridge.steps)
  BY <1>1, <1>2, <1>3, BridgeKeeps
<1>5. /\ SpecShape(spec') /\ spec'.tables = spec.tables /\ spec'.joins = spec.joins
      /\ spec'.steps = <<>> => spec.steps = <<>>
  BY <1>1, <1>2, NotedShape
<1>6. JoinsNamed(spec')
  BY <1>2, <1>5, JoinsStay
<1> HIDE DEF bridge
<1>7. TodoFits' /\ HopsFit'
  <2>1. StepShape(b)
    BY <1>3, BridgedShape
  <2> DEFINE one == <<b>>
  <2>2. IsSeq(one) /\ ToSet(one) = {b}
    BY OneElement
  <2> HIDE DEF b, one
  <2>3. IsSeq(one \o rest) /\ ToSet(one \o rest) = ToSet(one) \cup ToSet(rest)
    BY <1>3, <2>2, CatElements
  <2>4. todo' = one \o rest
    BY <1>1 DEF one
  <2> QED BY <1>1, <1>3, <2>1, <2>2, <2>3, <2>4 DEF TodoFits, HopsFit
<1>8. PlansKeep'
  <2>1. /\ \A n \in DOMAIN plans : Keeps(spec.tables, plans[n].steps)
        /\ IsSeq(bridges) /\ \A x \in ToSet(bridges) : Keeps(spec.tables, x.steps)
    BY DEF FiltersHeld, PlansKeep
  <2>2. IsSeq(bridges') /\ \A x \in ToSet(bridges') : Keeps(spec.tables, x.steps)
    BY <1>1, <1>4, <2>1, PlanAppended
  <2> QED BY <1>1, <1>5, <2>1, <2>2 DEF PlansKeep
<1>9. InShape' /\ InOrder' /\ ProgramKeeps' /\ CompiledKeep'
  BY <1>1, <1>2, <1>5, <1>6 DEF FiltersHeld, InShape, InOrder, ProgramKeeps, CompiledKeep
<1> QED BY <1>7, <1>8, <1>9 DEF FiltersHeld

\* So does the plan of a step.
LEMMA BuildNextKeeps == ASSUME FiltersHeld, BuildNext PROVE FiltersHeld'
<1> DEFINE cs == Head(todo)
           plan == BuildStep(cs, Len(todo) = 1, passed, spec)
<1>1. /\ stage = "build" /\ todo # <<>>
      /\ \/ Ends("failed")
         \/ /\ plans' = Put(plans, cs.name, plan) /\ todo' = Tail(todo)
            /\ stage' = stage /\ spec' = spec /\ request' = request /\ hops' = hops /\ bridges' = bridges
            /\ program' = program /\ compiled' = compiled
  BY Zenon DEF BuildNext
<1>2. CASE Ends("failed")
  BY <1>1, <1>2, EndingKeeps
<1>3. CASE /\ plans' = Put(plans, cs.name, plan) /\ todo' = Tail(todo)
           /\ stage' = stage /\ spec' = spec /\ request' = request /\ hops' = hops /\ bridges' = bridges
           /\ program' = program /\ compiled' = compiled
  <2>1. SpecShape(spec) /\ SoundTables(spec.tables)
    BY <1>1 DEF FiltersHeld, InShape, InOrder
  <2>2. IsSeq(todo) /\ \A x \in ToSet(todo) : StepShape(x)
    BY DEF FiltersHeld, TodoFits
  <2>3. StepShape(cs) /\ IsSeq(Tail(todo)) /\ ToSet(Tail(todo)) \subseteq ToSet(todo)
    BY <1>1, <2>2, HeadAndTail
  <2> HIDE DEF cs
  <2>4. Keeps(spec.tables, plan.steps)
    <3> DEFINE isFinal == Len(todo) = 1
    <3> HIDE DEF isFinal
    <3>1. Keeps(spec.tables, BuildStep(cs, isFinal, passed, spec).steps)
      BY <2>1, <2>3, BuildStepKeeps
    <3> QED BY <3>1, Zenon DEF isFinal
  <2> HIDE DEF plan
  <2>5. \A n \in DOMAIN plans : Keeps(spec.tables, plans[n].steps)
    BY DEF FiltersHeld, PlansKeep
  <2>6. \A n \in DOMAIN plans' : Keeps(spec.tables, plans'[n].steps)
    BY <1>3, <2>4, <2>5, PlanAdded
  <2>7. PlansKeep' /\ TodoFits' /\ HopsFit'
    BY <1>1, <1>3, <2>2, <2>3, <2>6 DEF FiltersHeld, PlansKeep, TodoFits, HopsFit
  <2>8. InShape' /\ InOrder' /\ ProgramKeeps' /\ CompiledKeep'
    BY <1>1, <1>3 DEF FiltersHeld, InShape, InOrder, ProgramKeeps, CompiledKeep
  <2> QED BY <2>7, <2>8 DEF FiltersHeld
<1> QED BY <1>1, <1>2, <1>3

\* A program ready to be compiled, or refused.
LEMMA CompilingKeeps ==
    ASSUME FiltersHeld, stage \notin {"parse", "rejected"}, NEW p, Programs(spec.tables, p), NEW blocked, Compiles(p, blocked)
    PROVE  FiltersHeld'
<1>1. /\ program' = p /\ stage' \in {"blocked", "compile"}
      /\ spec' = spec /\ request' = request /\ hops' = hops /\ todo' = todo
      /\ plans' = plans /\ bridges' = bridges /\ compiled' = compiled
  BY DEF Compiles
<1>2. ProgramKeeps' /\ HopsFit'
  BY <1>1 DEF ProgramKeeps, HopsFit
<1>3. InShape' /\ InOrder' /\ TodoFits' /\ PlansKeep' /\ CompiledKeep'
  BY <1>1 DEF FiltersHeld, InShape, InOrder, TodoFits, PlansKeep, CompiledKeep
<1> QED BY <1>2, <1>3 DEF FiltersHeld

\* The program of the compute steps.
LEMMA AssembleKeeps == ASSUME FiltersHeld, Assemble PROVE FiltersHeld'
<1> DEFINE p == StepsProgram(spec.steps, plans, bridges)
<1>1. stage = "build" /\ (Ends("failed") \/ Compiles(p, ChainBlocked(p)))
  BY DEF Assemble
<1>2. CASE Ends("failed")
  BY <1>1, <1>2, EndingKeeps
<1>3. CASE Compiles(p, ChainBlocked(p))
  <2>1. IsSeq(spec.steps)
    BY DEF FiltersHeld, InShape, SpecShape
  <2>2. Programs(spec.tables, p)
    BY <2>1, StepsProgramKeeps DEF FiltersHeld, PlansKeep
  <2> HIDE DEF p
  <2> QED BY <1>1, <1>3, <2>2, CompilingKeeps
<1> QED BY <1>1, <1>2, <1>3

\* The chain of plans.
LEMMA PlanChainKeeps == ASSUME FiltersHeld, PlanChain PROVE FiltersHeld'
<1> DEFINE built == ChainPlans(spec, hops)
           p == ChainProgram(built)
<1>1. stage = "plan" /\ (Ends("failed") \/ Compiles(p, ChainBlocked(p)))
  BY DEF PlanChain
<1>2. CASE Ends("failed")
  BY <1>1, <1>2, EndingKeeps
<1>3. CASE Compiles(p, ChainBlocked(p))
  <2>1. SpecShape(spec) /\ SoundTables(spec.tables) /\ HopsNamed(spec, hops)
    BY <1>1 DEF FiltersHeld, InShape, InOrder, HopsFit
  <2>2. IsSeq(built) /\ \A x \in ToSet(built) : Keeps(spec.tables, x.steps)
    BY <2>1, ChainPlansKeep DEF HopsNamed
  <2> HIDE DEF built
  <2>3. Programs(spec.tables, p)
    BY <2>2, ChainProgramKeeps
  <2> HIDE DEF p
  <2> QED BY <1>1, <1>3, <2>3, CompilingKeeps
<1> QED BY <1>1, <1>2, <1>3

\* The one plan.
LEMMA PlanOneKeeps == ASSUME FiltersHeld, PlanOne PROVE FiltersHeld'
<1> DEFINE plan == SinglePlan(spec, hops)
           p == SingleProgram(plan)
<1>1. stage = "plan" /\ (Ends("failed") \/ Compiles(p, PlanBlocked(plan, spec)))
  BY DEF PlanOne
<1>2. CASE Ends("failed")
  BY <1>1, <1>2, EndingKeeps
<1>3. CASE Compiles(p, PlanBlocked(plan, spec))
  <2>1. SpecShape(spec) /\ SoundTables(spec.tables) /\ HopsNamed(spec, hops)
    BY <1>1 DEF FiltersHeld, InShape, InOrder, HopsFit
  <2>2. Keeps(spec.tables, plan.steps)
    BY <2>1, SinglePlanKeeps DEF HopsNamed
  <2> HIDE DEF plan
  <2>3. Programs(spec.tables, p)
    BY <2>2, SingleProgramKeeps
  <2> HIDE DEF p
  <2> QED BY <1>1, <1>3, <2>3, CompilingKeeps
<1> QED BY <1>1, <1>2, <1>3

\* The program is compiled.
LEMMA CompileKeeps == ASSUME FiltersHeld, Compile PROVE FiltersHeld'
<1>1. /\ stage = "compile" /\ compiled' = CompiledProgram(program, spec.ratios) /\ stage' \in {"failed", "execute"}
      /\ spec' = spec /\ request' = request /\ hops' = hops /\ todo' = todo
      /\ plans' = plans /\ bridges' = bridges /\ program' = program
  BY DEF Compile
<1>2. CompiledKeep'
  <2>1. \A s \in ToSet(CompiledProgram(program, spec.ratios).statements) : LayerKeeps(spec.tables, s.layers[1])
    BY CompiledKeeps DEF FiltersHeld, ProgramKeeps
  <2> QED BY <1>1, <2>1 DEF CompiledKeep
<1>3. HopsFit'
  BY <1>1 DEF HopsFit
<1>4. InShape' /\ InOrder' /\ TodoFits' /\ PlansKeep' /\ ProgramKeeps'
  BY <1>1 DEF FiltersHeld, InShape, InOrder, TodoFits, PlansKeep, ProgramKeeps
<1> QED BY <1>2, <1>3, <1>4 DEF FiltersHeld

\* Every step of a request leaves it so.
LEMMA NextKeeps ==
    ASSUME \A q \in Requests : TempsApart(q.spec.tables), FiltersHeld, [Next]_vars
    PROVE  FiltersHeld'
<1>1. CASE UNCHANGED vars
  <2>1. /\ stage' = stage /\ spec' = spec /\ request' = request /\ hops' = hops /\ todo' = todo
        /\ plans' = plans /\ bridges' = bridges /\ program' = program /\ compiled' = compiled
    BY <1>1 DEF vars
  <2>2. InShape' /\ InOrder' /\ HopsFit' /\ TodoFits' /\ PlansKeep' /\ ProgramKeeps' /\ CompiledKeep'
    BY <2>1 DEF FiltersHeld, InShape, InOrder, HopsFit, TodoFits, PlansKeep, ProgramKeeps, CompiledKeep
  <2> QED BY <2>2 DEF FiltersHeld
<1>2. CASE Next
  <2>1. ASSUME Parse PROVE FiltersHeld'
    BY <2>1, ParseKeeps
  <2>2. ASSUME Require PROVE FiltersHeld'
    BY <2>2, RequireKeeps
  <2>3. ASSUME Enrich PROVE FiltersHeld'
    BY <2>3, EnrichKeeps
  <2>4. ASSUME PrepareLabels PROVE FiltersHeld'
    BY <2>4, PrepareLabelsKeeps
  <2>5. ASSUME Settle PROVE FiltersHeld'
    BY <2>5, SettleKeeps
  <2>6. ASSUME NEW answer \in Answers, Relate(answer) PROVE FiltersHeld'
    BY <2>6, RelateKeeps
  <2>7. ASSUME CheckStep PROVE FiltersHeld'
    BY <2>7, CheckStepKeeps
  <2>8. ASSUME SortSteps PROVE FiltersHeld'
    BY <2>8, SortStepsKeeps
  <2>9. ASSUME BuildBridge PROVE FiltersHeld'
    BY <2>9, BuildBridgeKeeps
  <2>10. ASSUME BuildNext PROVE FiltersHeld'
    BY <2>10, BuildNextKeeps
  <2>11. ASSUME Assemble PROVE FiltersHeld'
    BY <2>11, AssembleKeeps
  <2>12. ASSUME PlanChain PROVE FiltersHeld'
    BY <2>12, PlanChainKeeps
  <2>13. ASSUME PlanOne PROVE FiltersHeld'
    BY <2>13, PlanOneKeeps
  <2>14. ASSUME Compile PROVE FiltersHeld'
    BY <2>14, CompileKeeps
  <2> QED BY <1>2, <2>1, <2>2, <2>3, <2>4, <2>5, <2>6, <2>7, <2>8, <2>9, <2>10, <2>11, <2>12, <2>13, <2>14 DEF Next
<1> QED BY <1>1, <1>2

\* And what is compiled then checks every filter of every table it reads.
LEMMA HeldFilters == ASSUME FiltersHeld PROVE FiltersKept
<1> SUFFICES ASSUME Executes, NEW s \in ToSet(compiled.statements), NEW x \in Scope(s.layers[1]),
                    NEW a \in TableNames(spec), x \in Under(a), NEW c \in ToSet(TableNamed(spec, a).filters)
             PROVE  Ref(x, c) \in s.layers[1].where
  BY DEF FiltersKept
<1>1. Demanded(spec.tables, x) \subseteq s.layers[1].where
  BY DEF FiltersHeld, CompiledKeep, LayerKeeps
<1>2. TableNamed(spec, a) \in ToSet(spec.tables) /\ TableNamed(spec, a).alias = a
  BY NamedTable
<1>3. Ref(x, c) \in Demanded(spec.tables, x)
  BY <1>2 DEF Demanded
<1> QED BY <1>1, <1>3

(* Wherever a compiled statement reads a table of the spec, on whichever     *)
(* planning path, it checks every filter the table declares, under the name  *)
(* the table has there: for every request whose tables the parser tells      *)
(* apart and none of which has the name of a temp, and every answer of the   *)
(* models.                                                                   *)
THEOREM FiltersAreKept ==
    ASSUME \A q \in Requests : TempsApart(q.spec.tables)
    PROVE  Spec => []FiltersKept
<1>1. FiltersHeld /\ [Next]_vars => FiltersHeld'
  BY NextKeeps
<1> QED BY <1>1, KeepingInit, HeldFilters, PTL DEF Spec
---------------------------------------------------------------------------
(* What the validator promises of a step, and the steps it is right about:   *)
(* those of one name promise the same, none has the name of a bridge, and    *)
(* one that computes nothing groups by what its sources promise.             *)
Promised(cs) == {r.c : r \in ToSet(cs.by)} \cup ToSet(Aliases(cs.metrics))
                \cup (IF cs.case = "" THEN {} ELSE {cs.case}) \cup ToSet(cs.exprs)
Idle(cs) == cs.metrics = <<>> /\ cs.case = "" /\ cs.source # <<"input">>
StepNames(steps) == {u.name : u \in ToSet(steps)}
PassesOn(cs, steps) ==
    Idle(cs) => /\ ToSet(cs.source) \subseteq {"input"} \cup StepNames(steps)
                /\ \A r \in ToSet(cs.by) : \E u \in ToSet(steps) : u.name \in ToSet(cs.source) /\ r.c \in Promised(u)
StepsSound(steps) ==
    /\ \A u, v \in ToSet(steps) : u.name = v.name => Promised(u) = Promised(v)
    /\ \A u \in ToSet(steps) : Bridge(u.name) \notin {"input"} \cup StepNames(steps)
    /\ \A u \in ToSet(steps) : IsSeq(u.by) /\ IsSeq(u.exprs) /\ PassesOn(u, steps)

\* The first of equal elements are all elements.
LEMMA DedupElements ==
    ASSUME NEW s, IsSeq(s)
    PROVE  IsSeq(Dedup(s)) /\ ToSet(Dedup(s)) = ToSet(s)
<1> DEFINE I == {i \in DOMAIN s : \A j \in 1..(i-1) : s[j] # s[i]}
<1>1. Dedup(s) = Kept(s, I)
  BY DEF Dedup
<1>2. Len(s) \in Nat /\ DOMAIN s = 1..Len(s) /\ \A i \in 1..Len(s) : s[i] \in ToSet(s)
  BY ElementsOf
<1>3. ASSUME NEW x \in ToSet(s) PROVE \E i \in I : i \in 1..Len(s) /\ s[i] = x
  <2> DEFINE R == {i \in 1..Len(s) : s[i] = x}
  <2>1. R \in SUBSET Nat /\ R # {}
    <3>1. PICK i \in 1..Len(s) : s[i] = x
      BY ElementsOf
    <3> QED BY <1>2, <3>1
  <2>2. PICK i \in R : \A m \in R : i <= m
    <3> HIDE DEF R
    <3> QED BY <2>1, LeastNumber
  <2>3. ASSUME NEW j \in 1..(i-1), s[j] = s[i] PROVE FALSE
    <3>1. j \in R /\ i \in Nat /\ j < i
      BY <1>2, <2>2, <2>3
    <3> QED BY <2>2, <3>1
  <2> QED BY <1>2, <2>2, <2>3
<1> HIDE DEF I
<1>4. /\ IsSeq(Kept(s, I)) /\ ToSet(Kept(s, I)) \subseteq ToSet(s)
      /\ \A i \in I : i \in 1..Len(s) => s[i] \in ToSet(Kept(s, I))
  BY KeptElements
<1>5. ToSet(s) \subseteq ToSet(Kept(s, I))
  BY <1>3, <1>4
<1> QED BY <1>1, <1>4, <1>5

\* The last of a kind is the last step, if that is of the kind.
LEMMA LastOfKind ==
    ASSUME NEW p, IsSeq(p), NEW x, x.op = "project", NEW plan, plan.steps = p \o <<x>>
    PROVE  Last(Steps(plan, "project")) = x
<1> DEFINE s == p \o <<x>>
           I == {i \in DOMAIN s : s[i].op = "project"}
           v == Kept(s, I)
           n == Len(p)
<1>1. Steps(plan, "project") = v
  BY DEF Steps, Only
<1>2. IsSeq(s) /\ Len(s) = n + 1 /\ n \in Nat /\ DOMAIN s = 1..Len(s)
  <2>1. IsSeq(<<x>>) /\ Len(<<x>>) = 1
    BY OneElement
  <2> HIDE DEF s
  <2>2. IsSeq(s) /\ Len(s) = Len(p) + 1
    BY <2>1, CatElements DEF s
  <2> QED BY <2>2, ElementsOf
<1>3. s[n + 1] = x
  <2>1. p \in Seq(ToSet(p))
    BY ElementsOf
  <2> QED BY <2>1
<1> HIDE DEF s, n
<1>4. n + 1 \in I /\ n \in 0..Len(s)
  BY <1>2, <1>3
<1> HIDE DEF I
<1>5. PICK k : PartedAt(v, k, Len(s), s, I, n)
  BY <1>2, <1>4, KeptParted
<1> HIDE DEF v
<1>6. k \in Nat /\ Len(v) \in Nat /\ k <= Len(v)
  <2>1. k \in 0..Len(v) /\ v \in Seq(ToSet(s))
    BY <1>5 DEF PartedAt
  <2> QED BY <2>1
<1>7. PICK j \in (k+1)..Len(v) : TRUE
  <2>1. n + 1 \in (n+1)..Len(s)
    BY <1>2
  <2> QED BY <1>4, <1>5, <2>1 DEF PartedAt
<1>8. Len(v) \in (k+1)..Len(v)
  BY <1>6, <1>7
<1>9. PICK i \in I : i \in (n+1)..Len(s) /\ v[Len(v)] = s[i]
  BY <1>5, <1>8 DEF PartedAt
<1>10. i = n + 1
  BY <1>2, <1>9
<1> QED BY <1>1, <1>3, <1>9, <1>10 DEF Last

\* A list of items, one named after each element of another.
LEMMA NamedAfter ==
    ASSUME NEW d, IsSeq(d), NEW f, DOMAIN f = DOMAIN d, f = [i \in DOMAIN f |-> f[i]], \A i \in DOMAIN d : f[i].alias = d[i]
    PROVE  IsSeq(f) /\ \A x \in ToSet(d) : \E e \in ToSet(f) : e.alias = x
<1>1. IsSeq(f) /\ \A i \in 1..Len(d) : f[i] \in ToSet(f)
  BY MappedSeq
<1>2. ASSUME NEW x \in ToSet(d) PROVE \E e \in ToSet(f) : e.alias = x
  <2>1. PICK i \in 1..Len(d) : d[i] = x /\ i \in DOMAIN d
    BY ElementsOf
  <2>2. f[i] \in ToSet(f) /\ f[i].alias = x
    BY <1>1, <2>1
  <2> QED BY <2>2
<1> QED BY <1>1, <1>2

\* The aliases of a list of items.
LEMMA AliasElements ==
    ASSUME NEW s, IsSeq(s)
    PROVE  IsSeq(Aliases(s)) /\ \A e \in ToSet(s) : e.alias \in ToSet(Aliases(s))
<1> DEFINE f == Aliases(s)
<1>1. DOMAIN f = DOMAIN s /\ f = [i \in DOMAIN f |-> f[i]] /\ \A i \in DOMAIN s : f[i] = s[i].alias
  BY DEF Aliases
<1> HIDE DEF f
<1>2. IsSeq(f) /\ \A i \in 1..Len(s) : f[i] \in ToSet(f)
  BY <1>1, MappedSeq
<1>3. ASSUME NEW e \in ToSet(s) PROVE e.alias \in ToSet(f)
  <2>1. PICK i \in 1..Len(s) : s[i] = e /\ i \in DOMAIN s
    BY ElementsOf
  <2> QED BY <1>1, <1>2, <2>1
<1> QED BY <1>2, <1>3 DEF f

\* Items made of columns are named after them.
LEMMA ItemsNamed ==
    ASSUME NEW d, IsSeq(d), NEW f, DOMAIN f = DOMAIN d, f = [i \in DOMAIN f |-> f[i]],
           \A i \in DOMAIN d : \E r : f[i] = Item(d[i], r)
    PROVE  IsSeq(f) /\ \A x \in ToSet(d) : \E e \in ToSet(f) : e.alias = x
<1>1. \A a, r : Item(a, r).alias = a
  BY DEF Item
<1>2. \A i \in DOMAIN d : f[i].alias = d[i]
  BY <1>1
<1> QED BY <1>2, NamedAfter

\* What a step that computes nothing passes on: all its sources have.
LEMMA UpstreamPassed ==
    ASSUME NEW cs, StepShape(cs), NEW out, \A s \in ToSet(cs.source) : IsSeq(out[s])
    PROVE  /\ IsSeq(UpstreamColumns(cs, out))
           /\ \A s \in ToSet(cs.source) : \A x \in ToSet(out[s]) : \E e \in ToSet(UpstreamColumns(cs, out)) : e.alias = x
<1> DEFINE f == SeqMap(LAMBDA s : out[s], cs.source)
           d == Dedup(FlattenSeq(f))
           g == UpstreamColumns(cs, out)
<1>1. IsSeq(cs.source)
  BY DEF StepShape
<1>2. DOMAIN f = DOMAIN cs.source /\ f = [i \in DOMAIN f |-> f[i]] /\ \A i \in DOMAIN cs.source : f[i] = out[cs.source[i]]
  BY DEF SeqMap
<1>3. DOMAIN g = DOMAIN d /\ g = [i \in DOMAIN g |-> g[i]] /\ \A i \in DOMAIN d : \E r : g[i] = Item(d[i], r)
  BY DEF UpstreamColumns, SeqMap
<1> HIDE DEF f, g
<1>4. IsSeq(f) /\ Len(f) = Len(cs.source) /\ \A i \in 1..Len(cs.source) : f[i] \in ToSet(f)
  BY <1>1, <1>2, MappedSeq
<1>5. DOMAIN cs.source = 1..Len(cs.source) /\ \A i \in 1..Len(cs.source) : cs.source[i] \in ToSet(cs.source)
  BY <1>1, ElementsOf
<1>6. \A i \in 1..Len(f) : IsSeq(f[i])
  BY <1>2, <1>4, <1>5
<1>7. IsSeq(FlattenSeq(f)) /\ \A i \in 1..Len(f) : ToSet(f[i]) \subseteq ToSet(FlattenSeq(f))
  BY <1>4, <1>6, FlattenElements
<1>8. IsSeq(d) /\ ToSet(d) = ToSet(FlattenSeq(f))
  BY <1>7, DedupElements
<1> HIDE DEF d
<1>9. IsSeq(g) /\ \A x \in ToSet(d) : \E e \in ToSet(g) : e.alias = x
  BY <1>3, <1>8, ItemsNamed
<1>10. ASSUME NEW s \in ToSet(cs.source), NEW x \in ToSet(out[s]) PROVE \E e \in ToSet(g) : e.alias = x
  <2>1. PICK i \in 1..Len(cs.source) : cs.source[i] = s
    BY <1>1, ElementsOf
  <2>2. x \in ToSet(f[i]) /\ i \in 1..Len(f)
    BY <1>2, <1>4, <1>5, <2>1
  <2> QED BY <1>7, <1>8, <1>9, <2>2
<1> QED BY <1>9, <1>10 DEF g

\* What any other step passes on: its keys, its metrics and its case column.
LEMMA ComputedPassed ==
    ASSUME NEW cs, StepShape(cs), IsSeq(cs.by)
    PROVE  /\ IsSeq(Passthrough(cs))
           /\ \A r \in ToSet(cs.by) : \E e \in ToSet(Passthrough(cs)) : e.alias = r.c
           /\ \A x \in ToSet(Aliases(cs.metrics)) : \E e \in ToSet(Passthrough(cs)) : e.alias = x
           /\ cs.case # "" => \E e \in ToSet(Passthrough(cs)) : e.alias = cs.case
<1> DEFINE b == SeqMap(LAMBDA r : r.c, cs.by)
           m == Aliases(cs.metrics)
           w == When(cs.case # "", <<cs.case>>)
           d == Dedup(b \o m \o w)
           g == Passthrough(cs)
<1>1. DOMAIN g = DOMAIN d /\ g = [i \in DOMAIN g |-> g[i]] /\ \A i \in DOMAIN d : \E r : g[i] = Item(d[i], r)
  BY DEF Passthrough, SeqMap
<1>2. DOMAIN b = DOMAIN cs.by /\ b = [i \in DOMAIN b |-> b[i]] /\ \A i \in DOMAIN cs.by : b[i] = cs.by[i].c
  BY DEF SeqMap
<1>3. IsSeq(m)
  BY AliasElements DEF StepShape
<1>4. IsSeq(w) /\ (cs.case # "" => cs.case \in ToSet(w))
  BY OneElement, NoElement DEF When
<1> HIDE DEF b, m, w, g
<1>5. IsSeq(b) /\ \A i \in 1..Len(cs.by) : b[i] \in ToSet(b)
  BY <1>2, MappedSeq
<1>6. ASSUME NEW r \in ToSet(cs.by) PROVE r.c \in ToSet(b)
  <2>1. PICK i \in 1..Len(cs.by) : cs.by[i] = r /\ i \in DOMAIN cs.by
    BY ElementsOf
  <2> QED BY <1>2, <1>5, <2>1
<1>7. IsSeq(b \o m \o w) /\ ToSet(b \o m \o w) = ToSet(b) \cup ToSet(m) \cup ToSet(w)
  <2>1. IsSeq(b \o m) /\ ToSet(b \o m) = ToSet(b) \cup ToSet(m)
    BY <1>3, <1>5, CatElements
  <2>2. IsSeq((b \o m) \o w) /\ ToSet((b \o m) \o w) = ToSet(b \o m) \cup ToSet(w)
    BY <1>4, <2>1, CatElements
  <2> QED BY <2>1, <2>2
<1>8. IsSeq(d) /\ ToSet(d) = ToSet(b) \cup ToSet(m) \cup ToSet(w)
  BY <1>7, DedupElements
<1> HIDE DEF d
<1>9. IsSeq(g) /\ \A x \in ToSet(d) : \E e \in ToSet(g) : e.alias = x
  BY <1>1, <1>8, ItemsNamed
<1> QED BY <1>4, <1>6, <1>8, <1>9 DEF g, m

\* The plan built of a step passes on what the validator promised.
LEMMA PromiseBuilt ==
    ASSUME NEW sp, SpecShape(sp), SoundTables(sp.tables), NEW cs, StepShape(cs), IsSeq(cs.by), IsSeq(cs.exprs), NEW out,
           ~BuildStep(cs, FALSE, out, sp).err,
           Idle(cs) => /\ \A s \in ToSet(cs.source) : IsSeq(out[s])
                       /\ \A r \in ToSet(cs.by) : \E s \in ToSet(cs.source) : r.c \in ToSet(out[s])
    PROVE  /\ IsSeq(OutputsOf(BuildStep(cs, FALSE, out, sp)))
           /\ Promised(cs) \subseteq ToSet(OutputsOf(BuildStep(cs, FALSE, out, sp)))
<1> DEFINE source == StepSource(cs, out, sp)
           agg == StepMetrics(cs, source, out, sp)
           plan == BuildStep(cs, FALSE, out, sp)
           last == IntermediateProject(cs, out)
           first == IF cs.metrics = <<>> /\ cs.case = "" /\ cs.source # <<"input">>
                    THEN UpstreamColumns(cs, out) ELSE Passthrough(cs)
           raw == SeqMap(LAMBDA c : Item(c, Raw(c)), cs.exprs)
           named(x) == \E e \in ToSet(last.cols) : e.alias = x
<1>1. plan.steps = source.steps \o CaseStep(cs) \o agg.steps \o <<last>>
  BY DEF BuildStep, StepFrom, StepPlan
<1>2. IsSeq(source.steps)
  <2>1. \/ source = InputSource(cs, sp)
        \/ source = UpstreamSource(cs, out, sp)
        \/ source = ConfluenceSource(cs, out, sp)
    BY DEF StepSource
  <2> HIDE DEF source
  <2> QED BY <2>1, InputRead, UpstreamRead, ConfluenceRead DEF WellRead
<1>3. IsSeq(CaseStep(cs)) /\ IsSeq(agg.steps)
  BY StepEndsReadNothing DEF NoReads
<1>4. last.op = "project" /\ last.cols = first \o raw
  BY DEF IntermediateProject
<1>5. DOMAIN raw = DOMAIN cs.exprs /\ raw = [i \in DOMAIN raw |-> raw[i]] /\ \A i \in DOMAIN cs.exprs : \E r : raw[i] = Item(cs.exprs[i], r)
  BY DEF SeqMap
<1>6. /\ IsSeq(first)
      /\ \A r \in ToSet(cs.by) : \E e \in ToSet(first) : e.alias = r.c
      /\ \A x \in ToSet(Aliases(cs.metrics)) : \E e \in ToSet(first) : e.alias = x
      /\ cs.case # "" => \E e \in ToSet(first) : e.alias = cs.case
  <2>1. CASE Idle(cs)
    <3>1. cs.metrics = <<>> /\ cs.case = "" /\ first = UpstreamColumns(cs, out)
      BY <2>1 DEF Idle
    <3>2. ToSet(Aliases(cs.metrics)) = {}
      <4>1. Aliases(<<>>) = <<>>
        BY DEF Aliases
      <4> QED BY <3>1, <4>1, NoElement
    <3> HIDE DEF first
    <3>3. /\ IsSeq(first)
          /\ \A s \in ToSet(cs.source) : \A x \in ToSet(out[s]) : \E e \in ToSet(first) : e.alias = x
      <4> DEFINE g == UpstreamColumns(cs, out)
      <4>1. \A s \in ToSet(cs.source) : IsSeq(out[s])
        BY <2>1
      <4>2. /\ IsSeq(g)
            /\ \A s \in ToSet(cs.source) : \A x \in ToSet(out[s]) : \E e \in ToSet(g) : e.alias = x
        BY <4>1, UpstreamPassed, Zenon
      <4>3. first = g
        BY <3>1
      <4> HIDE DEF g
      <4> QED BY <4>2, <4>3
    <3>4. \A r \in ToSet(cs.by) : \E e \in ToSet(first) : e.alias = r.c
      BY <2>1, <3>3
    <3> QED BY <3>1, <3>2, <3>3, <3>4
  <2>2. CASE ~Idle(cs)
    <3>1. first = Passthrough(cs)
      BY <2>2 DEF Idle
    <3> HIDE DEF first
    <3> QED BY <3>1, ComputedPassed
  <2> QED BY <2>1, <2>2
<1> HIDE DEF source, agg, plan, first, raw, last
<1>7. IsSeq(raw) /\ \A x \in ToSet(cs.exprs) : \E e \in ToSet(raw) : e.alias = x
  BY <1>5, ItemsNamed
<1>8. IsSeq(last.cols) /\ ToSet(last.cols) = ToSet(first) \cup ToSet(raw)
  <2>1. IsSeq(first \o raw) /\ ToSet(first \o raw) = ToSet(first) \cup ToSet(raw)
    BY <1>6, <1>7, CatElements
  <2> QED BY <1>4, <2>1, Zenon
<1>9. \A x \in Promised(cs) : named(x)
  <2>1. \A e \in ToSet(first) \cup ToSet(raw) : e \in ToSet(last.cols)
    BY <1>8
  <2>2. \A r \in ToSet(cs.by) : named(r.c)
    BY <1>6, <2>1
  <2>3. \A x \in ToSet(Aliases(cs.metrics)) : named(x)
    BY <1>6, <2>1
  <2>4. cs.case # "" => named(cs.case)
    BY <1>6, <2>1
  <2>5. \A x \in ToSet(cs.exprs) : named(x)
    BY <1>7, <2>1
  <2> HIDE DEF named
  <2> QED BY <2>2, <2>3, <2>4, <2>5 DEF Promised
<1>10. OutputsOf(plan) = Aliases(last.cols)
  <2> DEFINE p == source.steps \o CaseStep(cs) \o agg.steps
  <2>1. IsSeq(p)
    BY <1>2, <1>3, CatElements
  <2>2. plan.steps = p \o <<last>>
    BY <1>1
  <2> HIDE DEF p
  <2>3. Last(Steps(plan, "project")) = last
    BY <1>4, <2>1, <2>2, LastOfKind
  <2> QED BY <2>3 DEF OutputsOf
<1>11. IsSeq(Aliases(last.cols)) /\ \A e \in ToSet(last.cols) : e.alias \in ToSet(Aliases(last.cols))
  BY <1>8, AliasElements
<1>12. Promised(cs) \subseteq ToSet(OutputsOf(plan)) /\ IsSeq(OutputsOf(plan))
  BY <1>9, <1>10, <1>11
<1> QED BY <1>12 DEF plan

---------------------------------------------------------------------------
(* Where the compute steps of a request stand.  Until they are built nothing *)
(* is passed on; of sound steps, every schema holds what its step promises,  *)
(* every step yet to be built comes behind the steps it reads, and every     *)
(* plan outputs what is promised of its step.                                *)
Early == {"parse", "require", "enrich", "label", "settle", "relate"}
Fresh == /\ stage \in Early => todo = <<>> /\ DOMAIN schemas = {}
         /\ stage \in Early \cup {"check"} => DOMAIN plans = {} /\ "input" \in DOMAIN passed /\ passed["input"] = <<>>
SchemasFit == \A u \in ToSet(spec.steps) : u.name \in DOMAIN schemas => DOMAIN schemas[u.name].type = Promised(u)
PlansNamed == DOMAIN plans \subseteq StepNames(spec.steps)
Stands(x, steps) == /\ IsSeq(x.by) /\ IsSeq(x.exprs) /\ PassesOn(x, steps)
                    /\ \E u \in ToSet(steps) : u.name = x.name /\ Promised(u) = Promised(x)
TodoStands == \A i \in 1..Len(todo) : Stands(todo[i], spec.steps)
Behind(list, steps, P) ==
    \A i \in 1..Len(list) : \A n \in ToSet(list[i].source) \cap StepNames(steps) :
        n \in DOMAIN P \/ \E j \in 1..(i-1) : list[j].name = n
SourcesFirst == stage = "build" => Behind(todo, spec.steps, plans)
PassedKeep ==
    todo # <<>> =>
        /\ "input" \in DOMAIN passed /\ IsSeq(passed["input"])
        /\ \A u \in ToSet(spec.steps) : u.name \in DOMAIN plans =>
               u.name \in DOMAIN passed /\ IsSeq(passed[u.name]) /\ Promised(u) \subseteq ToSet(passed[u.name])
Promises == SchemasFit /\ PlansNamed /\ TodoStands /\ SourcesFirst /\ PassedKeep

PromisesHeld == FiltersHeld /\ Fresh /\ (StepsSound(spec.steps) => Promises)

\* Before the steps are looked at, all promises hold.
LEMMA EarlyPromises == ASSUME Fresh, stage \in Early PROVE Promises
<1>1. todo = <<>> /\ DOMAIN schemas = {} /\ DOMAIN plans = {} /\ stage # "build" /\ Len(todo) = 0
  BY NoElement DEF Fresh, Early
<1> QED BY <1>1 DEF Promises, SchemasFit, PlansNamed, TodoStands, SourcesFirst, PassedKeep

\* A request comes in so.
LEMMA PromisesInit == Init => Fresh /\ Promises
<1> SUFFICES ASSUME Init PROVE Fresh /\ Promises
  OBVIOUS
<1>1. Fresh
  <2>1. stage = "parse" /\ todo = <<>> /\ schemas = <<>> /\ plans = <<>> /\ passed = [n \in {"input"} |-> <<>>]
    BY DEF Init
  <2>2. DOMAIN <<>> = {}
    OBVIOUS
  <2> QED BY <2>1, <2>2 DEF Fresh
<1>2. stage \in Early
  BY DEF Init, Early
<1> QED BY <1>1, <1>2, EarlyPromises

\* A stage that only changes the spec before the steps are looked at keeps them.
LEMMA EarlyKeeps ==
    ASSUME Fresh, stage \in Early, stage' \in Early, UNCHANGED <<todo, schemas, passed, plans>>
    PROVE  Fresh' /\ Promises'
<1>1. Fresh'
  BY DEF Fresh
<1>2. (Fresh /\ stage \in Early => Promises)'
  BY EarlyPromises, PTL
<1> QED BY <1>1, <1>2 DEF Early

\* And so does one that changes nothing of them.
LEMMA OthersKeep ==
    ASSUME PromisesHeld, stage' \notin Early \cup {"check", "build"}, UNCHANGED <<spec, todo, schemas, passed, plans>>
    PROVE  Fresh' /\ (StepsSound(spec.steps) => Promises)'
<1>1. Fresh'
  BY DEF Fresh
<1>2. spec' = spec /\ todo' = todo /\ schemas' = schemas /\ passed' = passed /\ plans' = plans
  OBVIOUS
<1>3. ASSUME StepsSound(spec.steps)' PROVE Promises'
  <2>1. StepsSound(spec.steps)
    BY <1>2, <1>3
  <2>2. Promises
    BY <2>1 DEF PromisesHeld
  <2>3. SchemasFit' /\ PlansNamed' /\ TodoStands' /\ PassedKeep'
    BY <1>2, <2>2 DEF Promises, SchemasFit, PlansNamed, TodoStands, PassedKeep
  <2>4. SourcesFirst'
    BY DEF SourcesFirst
  <2> QED BY <2>3, <2>4 DEF Promises
<1> QED BY <1>1, <1>3

\* All steps stand before they are looked at, whatever the order.
LEMMA StepsStand ==
    ASSUME NEW steps, StepsSound(steps), NEW x \in ToSet(steps)
    PROVE  Stands(x, steps)
  BY DEF StepsSound, Stands

\* The steps are handed over.
LEMMA RelatePromises ==
    ASSUME PromisesHeld, NEW answer, Relate(answer)
    PROVE  Fresh' /\ (StepsSound(spec.steps) => Promises)'
<1>1. /\ stage = "relate" /\ stage' \in {"check", "plan"} /\ todo' = spec.steps
      /\ spec' = spec /\ schemas' = schemas /\ passed' = passed /\ plans' = plans
  BY DEF Relate
<1>2. stage \in Early /\ stage' \notin Early /\ stage' # "build"
  BY <1>1 DEF Early
<1>3. DOMAIN schemas = {} /\ DOMAIN plans = {} /\ "input" \in DOMAIN passed /\ passed["input"] = <<>>
  BY <1>2 DEF PromisesHeld, Fresh
<1>4. Fresh'
  BY <1>1, <1>2, <1>3 DEF Fresh
<1>5. ASSUME StepsSound(spec.steps)' PROVE Promises'
  <2>1. StepsSound(spec.steps)
    BY <1>1, <1>5
  <2>2. SchemasFit' /\ PlansNamed' /\ SourcesFirst'
    BY <1>1, <1>2, <1>3 DEF SchemasFit, PlansNamed, SourcesFirst
  <2>3. PassedKeep'
    BY <1>1, <1>3, NoElement DEF PassedKeep
  <2>4. IsSeq(spec.steps)
    BY DEF PromisesHeld, FiltersHeld, InShape, SpecShape
  <2>5. \A i \in 1..Len(spec.steps) : Stands(spec.steps[i], spec.steps)
    BY <2>1, <2>4, ElementsOf, StepsStand
  <2>6. TodoStands'
    BY <1>1, <2>5 DEF TodoStands
  <2> QED BY <2>2, <2>3, <2>6 DEF Promises
<1> QED BY <1>4, <1>5

\* The rest of a list, by index.
LEMMA TailAt ==
    ASSUME NEW s, IsSeq(s), s # <<>>
    PROVE  /\ Len(s) \in Nat /\ Len(s) >= 1 /\ Len(Tail(s)) = Len(s) - 1 /\ Head(s) = s[1]
           /\ \A i \in 1..Len(Tail(s)) : i + 1 \in 1..Len(s) /\ Tail(s)[i] = s[i+1]
<1>1. s \in Seq(ToSet(s))
  BY ElementsOf
<1> HIDE DEF ToSet
<1> QED BY <1>1

\* What the validator expects of a step is what is promised of it.
LEMMA SchemaColumns == ASSUME NEW cs, NEW S PROVE DOMAIN OutputSchema(cs, S).type = Promised(cs)
  BY DEF OutputSchema, Promised

\* A step is looked at.
LEMMA CheckPromises ==
    ASSUME PromisesHeld, CheckStep
    PROVE  Fresh' /\ (StepsSound(spec.steps) => Promises)'
<1>1. /\ stage = "check" /\ stage' = stage /\ todo # <<>> /\ todo' = Tail(todo)
      /\ schemas' = schemas \/ schemas' = Put(schemas, Head(todo).name, OutputSchema(Head(todo), schemas))
      /\ spec' = spec /\ passed' = passed /\ plans' = plans
  BY DEF CheckStep
<1>2. Fresh'
  BY <1>1 DEF PromisesHeld, Fresh, Early
<1>3. ASSUME StepsSound(spec.steps)' PROVE Promises'
  <2>1. StepsSound(spec.steps) /\ Promises
    BY <1>1, <1>3 DEF PromisesHeld
  <2>2. IsSeq(todo)
    BY DEF PromisesHeld, FiltersHeld, TodoFits
  <2>3. /\ 1 \in 1..Len(todo) /\ Head(todo) = todo[1]
        /\ \A i \in 1..Len(Tail(todo)) : i + 1 \in 1..Len(todo) /\ Tail(todo)[i] = todo[i+1]
    BY <1>1, <2>2, TailAt
  <2>4. TodoStands'
    BY <1>1, <2>1, <2>3 DEF Promises, TodoStands
  <2>5. SchemasFit'
    <3> DEFINE cs == Head(todo)
    <3>1. Stands(cs, spec.steps)
      BY <2>1, <2>3 DEF Promises, TodoStands
    <3>2. PICK w \in ToSet(spec.steps) : w.name = cs.name /\ Promised(w) = Promised(cs)
      BY <3>1 DEF Stands
    <3>3. \A u \in ToSet(spec.steps) : u.name = cs.name => Promised(u) = Promised(cs)
      BY <2>1, <3>2 DEF StepsSound
    <3>4. SchemasFit
      BY <2>1 DEF Promises
    <3>5. CASE schemas' = schemas
      BY <1>1, <3>4, <3>5 DEF SchemasFit
    <3>6. CASE schemas' = Put(schemas, cs.name, OutputSchema(cs, schemas))
      <4> DEFINE new == OutputSchema(cs, schemas)
      <4>1. DOMAIN new.type = Promised(cs)
        BY SchemaColumns
      <4> HIDE DEF cs, new
      <4>2. SUFFICES ASSUME NEW u \in ToSet(spec.steps), u.name \in DOMAIN schemas'
                     PROVE  DOMAIN schemas'[u.name].type = Promised(u)
        BY <1>1 DEF SchemasFit
      <4>3. CASE u.name = cs.name
        <5>1. schemas'[u.name] = new
          BY <3>6, <4>3 DEF Put, new
        <5> QED BY <3>3, <4>1, <4>3, <5>1
      <4>4. CASE u.name # cs.name
        <5>1. schemas'[u.name] = schemas[u.name] /\ u.name \in DOMAIN schemas
          BY <3>6, <4>2, <4>4 DEF Put
        <5> QED BY <3>4, <5>1 DEF SchemasFit
      <4> QED BY <4>3, <4>4
    <3> QED BY <1>1, <3>5, <3>6
  <2>6. PlansNamed' /\ SourcesFirst' /\ PassedKeep'
    BY <1>1, <2>1 DEF Promises, PlansNamed, SourcesFirst, PassedKeep
  <2> QED BY <2>4, <2>5, <2>6 DEF Promises
<1> QED BY <1>2, <1>3

\* The steps are sorted: each behind those it reads.
LEMMA SortedBehind ==
    ASSUME NEW steps, IsSeq(steps), \A cs \in ToSet(steps) : StepShape(cs), NEW P
    PROVE  LET sorted == SeqMap(LAMBDA n : Named(steps, n), TopoSortSteps(steps))
           IN  /\ Behind(sorted, steps, P)
               /\ \A i \in 1..Len(sorted) : sorted[i] \in ToSet(steps)
<1> DEFINE names == {s.name : s \in ToSet(steps)}
           step(n) == CHOOSE s \in ToSet(steps) : s.name = n
           preds == [n \in names |-> ToSet(step(n).source) \cap names]
           order == TopoSortSteps(steps)
           sorted == SeqMap(LAMBDA n : Named(steps, n), order)
           f == [s \in ToSet(steps) |-> s.name]
<1>1. IsFiniteSet(names)
  <2>1. names = {f[x] : x \in ToSet(steps)}
    OBVIOUS
  <2> HIDE DEF f, names
  <2> QED BY <2>1, FiniteMapped
<1>2. order \in Seq(names) /\ Settled(order, preds)
  <2>1. order = KahnOrder(names, preds)
    BY Zenon DEF TopoSortSteps
  <2> HIDE DEF names, order, preds
  <2> QED BY <1>1, <2>1, KahnOrderNodes
<1>3. \A n \in names : Named(steps, n) \in ToSet(steps) /\ Named(steps, n).name = n
                       /\ preds[n] = ToSet(Named(steps, n).source) \cap names
  BY DEF Named
<1>4. DOMAIN sorted = DOMAIN order /\ sorted = [i \in DOMAIN sorted |-> sorted[i]]
      /\ \A i \in DOMAIN order : sorted[i] = Named(steps, order[i])
  BY DEF SeqMap
<1>5. StepNames(steps) = names
  BY DEF StepNames
<1> HIDE DEF sorted, order, names, preds
<1>6. IsSeq(order) /\ \A i \in 1..Len(order) : order[i] \in names /\ i \in DOMAIN order
  BY <1>2, IsSeqOf, ElementsOf
<1>7. Len(sorted) = Len(order) /\ Len(order) \in Nat
  BY <1>4, <1>6, MapElements, ElementsOf
<1>8. \A i \in 1..Len(order) : sorted[i] = Named(steps, order[i]) /\ sorted[i] \in ToSet(steps) /\ sorted[i].name = order[i]
  BY <1>3, <1>4, <1>6
<1>9. ASSUME NEW i \in 1..Len(order), NEW n \in ToSet(sorted[i].source) \cap names
      PROVE  \E j \in 1..(i-1) : sorted[j].name = n
  <2>1. n \in preds[order[i]]
    BY <1>3, <1>6, <1>8, <1>9
  <2>2. PICK j \in 1..(i-1) : n = order[j]
    BY <1>2, <2>1 DEF Settled
  <2>3. j \in 1..Len(order)
    BY <1>7
  <2> QED BY <1>8, <2>2, <2>3
<1>10. Behind(sorted, steps, P)
  BY <1>5, <1>7, <1>9 DEF Behind
<1> QED BY <1>7, <1>8, <1>10, Zenon DEF sorted, order

\* All steps have been looked at, and are sorted.
LEMMA SortPromises ==
    ASSUME PromisesHeld, SortSteps
    PROVE  Fresh' /\ (StepsSound(spec.steps) => Promises)'
<1> DEFINE sorted == SeqMap(LAMBDA n : Named(spec.steps, n), TopoSortSteps(spec.steps))
<1>1. CASE Ends("blocked")
  <2>1. stage' \notin Early \cup {"check", "build"} /\ UNCHANGED <<spec, todo, schemas, passed, plans>>
    BY <1>1 DEF Ends, Early
  <2> QED BY <2>1, OthersKeep
<1>2. CASE ~Ends("blocked")
  <2>1. /\ stage = "check" /\ stage' = "build" /\ todo' = sorted
        /\ spec' = spec /\ schemas' = schemas /\ passed' = passed /\ plans' = plans
    BY <1>2 DEF SortSteps
  <2>2. Fresh'
    BY <2>1 DEF Fresh, Early
  <2>3. DOMAIN plans = {} /\ "input" \in DOMAIN passed /\ passed["input"] = <<>>
    BY <2>1 DEF PromisesHeld, Fresh
  <2>4. IsSeq(spec.steps) /\ \A cs \in ToSet(spec.steps) : StepShape(cs)
    BY DEF PromisesHeld, FiltersHeld, InShape, SpecShape
  <2>5. Behind(sorted, spec.steps, plans) /\ \A i \in 1..Len(sorted) : sorted[i] \in ToSet(spec.steps)
    BY <2>4, SortedBehind
  <2> HIDE DEF sorted
  <2>6. ASSUME StepsSound(spec.steps)' PROVE Promises'
    <3>1. StepsSound(spec.steps) /\ Promises
      BY <2>1, <2>6 DEF PromisesHeld
    <3>2. TodoStands'
      BY <2>1, <2>5, <3>1, StepsStand DEF TodoStands
    <3>3. SourcesFirst'
      BY <2>1, <2>5 DEF SourcesFirst
    <3>4. PassedKeep'
      BY <2>1, <2>3, NoElement DEF PassedKeep
    <3>5. SchemasFit' /\ PlansNamed'
      BY <2>1, <3>1 DEF Promises, SchemasFit, PlansNamed
    <3> QED BY <3>2, <3>3, <3>4, <3>5 DEF Promises
  <2> QED BY <2>2, <2>6
<1> QED BY <1>1, <1>2

\* A bridge changes what a step reads, and nothing that is promised of it.
LEMMA BridgedPromises ==
    ASSUME NEW cs, StepShape(cs)
    PROVE  /\ Promised(Bridged(cs)) = Promised(cs)
           /\ Bridged(cs).name = cs.name /\ Bridged(cs).by = cs.by /\ Bridged(cs).exprs = cs.exprs
           /\ Bridged(cs).metrics = cs.metrics /\ Bridged(cs).case = cs.case
           /\ Bridged(cs).source = <<cs.source[1], Bridge(cs.name)>>
<1>1. /\ Bridged(cs).name = cs.name /\ Bridged(cs).by = cs.by /\ Bridged(cs).exprs = cs.exprs
      /\ Bridged(cs).metrics = cs.metrics /\ Bridged(cs).case = cs.case
      /\ Bridged(cs).source = <<cs.source[1], Bridge(cs.name)>>
  BY DEF Bridged, StepShape
<1> QED BY <1>1 DEF Promised

\* Steps of the same names and promises.
AsPromised(steps, others) ==
    /\ \A u \in ToSet(steps) : \E w \in ToSet(others) : w.name = u.name /\ Promised(w) = Promised(u)
                                                        /\ w.by = u.by /\ w.exprs = u.exprs
    /\ \A w \in ToSet(others) : \E u \in ToSet(steps) : w.name = u.name /\ Promised(w) = Promised(u)

\* The steps once a bridge is noted promise the same under the same names.
LEMMA NotedPromises ==
    ASSUME NEW s, SpecShape(s), NEW n
    PROVE  /\ AsPromised(s.steps, NotedBridge(s, n).steps)
           /\ \A u \in ToSet(s.steps) : u \in ToSet(NotedBridge(s, n).steps)
                                     \/ Bridged(u) \in ToSet(NotedBridge(s, n).steps)
<1> DEFINE steps == SeqMap(LAMBDA x : IF x.name = n THEN Bridged(x) ELSE x, s.steps)
           p == [s EXCEPT !.steps = steps]
<1>1. "steps" \in DOMAIN s /\ IsSeq(s.steps) /\ \A cs \in ToSet(s.steps) : StepShape(cs)
  BY DEF SpecShape
<1>2. NotedBridge(s, n) = p
  BY Zenon DEF NotedBridge
<1>3. p.steps = steps
  BY <1>1
<1>4. /\ DOMAIN steps = DOMAIN s.steps /\ steps = [i \in DOMAIN steps |-> steps[i]]
      /\ \A i \in DOMAIN s.steps : steps[i] = Bridged(s.steps[i]) \/ steps[i] = s.steps[i]
  BY DEF SeqMap
<1> HIDE DEF steps, p
<1>5. DOMAIN s.steps = 1..Len(s.steps) /\ \A i \in 1..Len(s.steps) : s.steps[i] \in ToSet(s.steps)
  BY <1>1, ElementsOf
<1>6. IsSeq(steps) /\ \A i \in 1..Len(s.steps) : steps[i] \in ToSet(steps)
  BY <1>1, <1>4, MappedSeq
<1>7. \A x \in ToSet(steps) : \E i \in 1..Len(s.steps) : x = steps[i]
  BY <1>1, <1>4, MapElements
<1>8. \A i \in 1..Len(s.steps) : /\ steps[i].name = s.steps[i].name /\ Promised(steps[i]) = Promised(s.steps[i])
                                 /\ steps[i].by = s.steps[i].by /\ steps[i].exprs = s.steps[i].exprs
  <2> SUFFICES ASSUME NEW i \in 1..Len(s.steps)
               PROVE  /\ steps[i].name = s.steps[i].name /\ Promised(steps[i]) = Promised(s.steps[i])
                      /\ steps[i].by = s.steps[i].by /\ steps[i].exprs = s.steps[i].exprs
    OBVIOUS
  <2>1. StepShape(s.steps[i]) /\ (steps[i] = Bridged(s.steps[i]) \/ steps[i] = s.steps[i])
    BY <1>1, <1>4, <1>5
  <2> QED BY <2>1, BridgedPromises
<1>9. \A u \in ToSet(s.steps) : \E i \in 1..Len(s.steps) : u = s.steps[i]
  BY <1>1, ElementsOf
<1>10. AsPromised(s.steps, steps)
  <2>1. ASSUME NEW u \in ToSet(s.steps)
        PROVE  \E w \in ToSet(steps) : w.name = u.name /\ Promised(w) = Promised(u) /\ w.by = u.by /\ w.exprs = u.exprs
    <3>1. PICK i \in 1..Len(s.steps) : u = s.steps[i]
      BY <1>9, <2>1
    <3> QED BY <1>6, <1>8, <3>1
  <2>2. ASSUME NEW w \in ToSet(steps)
        PROVE  \E u \in ToSet(s.steps) : w.name = u.name /\ Promised(w) = Promised(u)
    <3>1. PICK i \in 1..Len(s.steps) : w = steps[i]
      BY <1>7, <2>2
    <3> QED BY <1>5, <1>8, <3>1
  <2> QED BY <2>1, <2>2 DEF AsPromised
<1>11. \A u \in ToSet(s.steps) : u \in ToSet(steps) \/ Bridged(u) \in ToSet(steps)
  BY <1>4, <1>5, <1>6, <1>9
<1> QED BY <1>2, <1>3, <1>10, <1>11

\* Steps of the same names and promises pass on the same.
LEMMA PassesOnAs ==
    ASSUME NEW steps, NEW others, AsPromised(steps, others), NEW cs
    PROVE  StepNames(others) = StepNames(steps) /\ (PassesOn(cs, others) <=> PassesOn(cs, steps))
<1>1. StepNames(others) = StepNames(steps)
  BY DEF AsPromised, StepNames
<1>2. ASSUME PassesOn(cs, others) PROVE PassesOn(cs, steps)
  BY <1>1, <1>2 DEF AsPromised, PassesOn
<1>3. ASSUME PassesOn(cs, steps) PROVE PassesOn(cs, others)
  BY <1>1, <1>3 DEF AsPromised, PassesOn
<1> QED BY <1>1, <1>2, <1>3

\* Steps sound with a bridge noted were sound before.
LEMMA NotedSound ==
    ASSUME NEW s, SpecShape(s), NEW n, StepsSound(NotedBridge(s, n).steps)
    PROVE  StepsSound(s.steps)
<1> DEFINE steps == s.steps
           others == NotedBridge(s, n).steps
<1>1. AsPromised(steps, others) /\ \A u \in ToSet(steps) : u \in ToSet(others) \/ Bridged(u) \in ToSet(others)
  BY NotedPromises
<1>2. \A cs \in ToSet(steps) : StepShape(cs)
  BY DEF SpecShape
<1> HIDE DEF steps, others
<1>3. StepNames(others) = StepNames(steps) /\ \A cs : PassesOn(cs, others) <=> PassesOn(cs, steps)
  BY <1>1, PassesOnAs
<1>4. StepsSound(others)
  BY DEF others
<1>5. \A u, v \in ToSet(steps) : u.name = v.name => Promised(u) = Promised(v)
  BY <1>1, <1>4 DEF StepsSound, AsPromised
<1>6. \A u \in ToSet(steps) : Bridge(u.name) \notin {"input"} \cup StepNames(steps)
  <2> TAKE u \in ToSet(steps)
  <2>1. PICK w \in ToSet(others) : w.name = u.name
    BY <1>1 DEF AsPromised
  <2> QED BY <1>3, <1>4, <2>1 DEF StepsSound
<1>7. \A u \in ToSet(steps) : IsSeq(u.by) /\ IsSeq(u.exprs)
  BY <1>1, <1>4 DEF StepsSound, AsPromised
<1>8. \A u \in ToSet(steps) : PassesOn(u, steps)
  <2> TAKE u \in ToSet(steps)
  <2>1. CASE u \in ToSet(others)
    BY <1>3, <1>4, <2>1 DEF StepsSound
  <2>2. CASE Bridged(u) \in ToSet(others)
    <3> SUFFICES ASSUME Idle(u) PROVE FALSE
      BY DEF PassesOn
    <3> DEFINE b == Bridged(u)
    <3>1. b.metrics = u.metrics /\ b.case = u.case /\ b.source = <<u.source[1], Bridge(u.name)>>
      BY <1>2, BridgedPromises
    <3> HIDE DEF b
    <3>2. Bridge(u.name) \in ToSet(b.source) /\ Len(b.source) = 2
      BY <3>1, TwoElements
    <3>3. b.source # <<"input">>
      BY <3>2, OneElement
    <3>4. Idle(b)
      BY <3>1, <3>3 DEF Idle
    <3>5. PassesOn(b, others)
      BY <1>4, <2>2 DEF StepsSound, b
    <3>6. Bridge(u.name) \in {"input"} \cup StepNames(steps)
      BY <1>3, <3>2, <3>4, <3>5 DEF PassesOn
    <3> QED BY <1>6, <3>6
  <2> QED BY <1>1, <2>1, <2>2
<1>9. StepsSound(steps)
  BY <1>5, <1>6, <1>7, <1>8 DEF StepsSound
<1> QED BY <1>9 DEF steps

\* A list with another first element.
LEMMA FirstChanged ==
    ASSUME NEW s, IsSeq(s), s # <<>>, NEW x, NEW t, t = <<x>> \o Tail(s)
    PROVE  /\ Len(t) = Len(s) /\ Len(s) \in Nat /\ 1 \in 1..Len(s) /\ t[1] = x /\ Head(s) = s[1]
           /\ \A i \in 1..Len(s) : i # 1 => t[i] = s[i]
<1> DEFINE r == Tail(s)
           S == ToSet(s) \cup {x}
<1>1. /\ Len(s) \in Nat /\ Len(s) >= 1 /\ Len(r) = Len(s) - 1 /\ Head(s) = s[1]
      /\ \A i \in 1..Len(r) : i + 1 \in 1..Len(s) /\ r[i] = s[i+1]
  BY TailAt
<1>2. r \in Seq(S)
  <2>1. IsSeq(r) /\ ToSet(r) \subseteq ToSet(s)
    BY HeadAndTail
  <2>2. r \in Seq(ToSet(r))
    BY <2>1, ElementsOf
  <2> HIDE DEF r
  <2>3. DOMAIN r = 1..Len(r) /\ Len(r) \in Nat /\ \A i \in 1..Len(r) : r[i] \in S
    BY <2>1, ElementsOf
  <2> QED BY <2>2, <2>3
<1> HIDE DEF r
<1>3. x \in S
  OBVIOUS
<1> HIDE DEF S
<1>4. <<x>> \in Seq(S) /\ Len(<<x>>) = 1 /\ <<x>>[1] = x
  BY <1>3
<1>5. Len(t) = Len(r) + 1 /\ t[1] = x /\ \A i \in 1..Len(r) : t[i + 1] = r[i]
  BY <1>2, <1>4 DEF r
<1>6. ASSUME NEW i \in 1..Len(s), i # 1 PROVE t[i] = s[i]
  <2>1. i - 1 \in 1..Len(r) /\ (i - 1) + 1 = i
    BY <1>1, <1>6
  <2>2. t[(i - 1) + 1] = r[i - 1] /\ r[i - 1] = s[(i - 1) + 1]
    BY <1>1, <1>5, <2>1
  <2> QED BY <2>1, <2>2
<1> QED BY <1>1, <1>5, <1>6

\* A step with a bridge has one source, and something to compute.
LEMMA BridgeableStep ==
    ASSUME NEW cs, StepShape(cs), NEW out, NEW sp, Bridgeable(cs, out, sp) # <<>>
    PROVE  cs.metrics # <<>> /\ cs.source[1] \in ToSet(cs.source)
<1>1. Len(cs.source) = 1 /\ \E I : Bridgeable(cs, out, sp) = Kept(cs.metrics, I)
  BY DEF Bridgeable, Only
<1>2. cs.source[1] \in ToSet(cs.source)
  <2>1. IsSeq(cs.source) /\ 1 \in 1..Len(cs.source)
    BY <1>1 DEF StepShape
  <2> QED BY <2>1, ElementsOf
<1>3. ASSUME cs.metrics = <<>> PROVE FALSE
  <2>1. PICK I : Bridgeable(cs, out, sp) = Kept(<<>>, I)
    BY <1>1, <1>3
  <2> DEFINE v == Kept(<<>>, I)
  <2>2. IsSeq(v) /\ ToSet(v) \subseteq {}
    BY NoElement, KeptElements
  <2> HIDE DEF v
  <2>3. v \in Seq({})
    <3>1. ToSet(v) = {}
      BY <2>2
    <3>2. v \in Seq(ToSet(v))
      BY <2>2, ElementsOf
    <3> QED BY <3>1, <3>2
  <2>4. v = <<>>
    BY <2>3
  <2> QED BY <2>1, <2>4 DEF v
<1> QED BY <1>2, <1>3

\* A bridge is built for the next step.
LEMMA BridgePromises ==
    ASSUME PromisesHeld, BuildBridge
    PROVE  Fresh' /\ (StepsSound(spec.steps) => Promises)'
<1> DEFINE cs == Head(todo)
           b == Bridged(cs)
           rest == Tail(todo)
           name == Bridge(cs.name)
           new == OutputsOf(BridgePlan(cs, passed, spec))
           steps == spec.steps
           others == NotedBridge(spec, cs.name).steps
<1>1. /\ stage = "build" /\ stage' = stage /\ todo # <<>> /\ Bridgeable(cs, passed, spec) # <<>>
      /\ schemas' = schemas /\ plans' = plans
  BY DEF BuildBridge
<1>2. todo' = <<b>> \o rest
  BY Zenon DEF BuildBridge
<1>3. spec'.steps = others
  BY Zenon DEF BuildBridge
<1>4. passed' = Put(passed, name, new)
  <2>1. BridgePlan(cs, passed, spec).id = name
    BY DEF BridgePlan
  <2>2. passed' = Put(passed, BridgePlan(cs, passed, spec).id, new)
    BY Zenon DEF BuildBridge
  <2> QED BY <2>1, <2>2, Zenon
<1>5. Fresh'
  BY <1>1 DEF Fresh, Early
<1>6. SpecShape(spec) /\ IsSeq(todo) /\ StepShape(cs)
  <2>1. IsSeq(todo) /\ \A x \in ToSet(todo) : StepShape(x)
    BY DEF PromisesHeld, FiltersHeld, TodoFits
  <2> QED BY <1>1, <2>1, HeadAndTail DEF PromisesHeld, FiltersHeld, InShape
<1>7. /\ Len(todo') = Len(todo) /\ 1 \in 1..Len(todo) /\ todo'[1] = b /\ cs = todo[1]
      /\ \A i \in 1..Len(todo) : i # 1 => todo'[i] = todo[i]
  <2> HIDE DEF b
  <2> QED BY <1>1, <1>2, <1>6, FirstChanged
<1>8. cs.metrics # <<>> /\ cs.source[1] \in ToSet(cs.source)
  BY <1>1, <1>6, BridgeableStep
<1>9. /\ Promised(b) = Promised(cs) /\ b.name = cs.name /\ b.by = cs.by /\ b.exprs = cs.exprs
      /\ b.metrics = cs.metrics /\ b.source = <<cs.source[1], name>>
  BY <1>6, BridgedPromises
<1>10. AsPromised(steps, others)
  BY <1>6, NotedPromises
<1>11. StepNames(others) = StepNames(steps) /\ \A x : PassesOn(x, others) <=> PassesOn(x, steps)
  BY <1>10, PassesOnAs
<1>12. StepsSound(others) => StepsSound(steps)
  BY <1>6, NotedSound
<1> HIDE DEF cs, b, rest, new, steps, others
<1>13. ASSUME StepsSound(spec.steps)' PROVE Promises'
  <2>1. StepsSound(steps) /\ Promises
    BY <1>3, <1>12, <1>13 DEF PromisesHeld, steps
  <2>2. SchemasFit' /\ PlansNamed'
    BY <1>1, <1>3, <1>10, <1>11, <2>1 DEF Promises, SchemasFit, PlansNamed, AsPromised, steps
  <2>3. Stands(cs, steps)
    BY <1>7, <2>1 DEF Promises, TodoStands, steps
  <2>4. name \notin {"input"} \cup StepNames(steps)
    <3>1. PICK u \in ToSet(steps) : u.name = cs.name
      BY <2>3 DEF Stands
    <3> QED BY <2>1, <3>1 DEF StepsSound
  <2>5. ASSUME NEW x, Stands(x, steps) PROVE Stands(x, others)
    BY <1>10, <1>11, <2>5 DEF Stands, AsPromised
  <2>6. Stands(b, others)
    <3>1. PassesOn(b, others)
      BY <1>8, <1>9 DEF PassesOn, Idle
    <3>2. Stands(cs, others)
      BY <2>3, <2>5
    <3> QED BY <1>9, <3>1, <3>2 DEF Stands
  <2>7. TodoStands'
    <3> SUFFICES ASSUME NEW i \in 1..Len(todo) PROVE Stands(todo'[i], others)
      BY <1>3, <1>7 DEF TodoStands
    <3>1. CASE i = 1
      BY <1>7, <2>6, <3>1
    <3>2. CASE i # 1
      BY <1>7, <2>1, <2>5, <3>2 DEF Promises, TodoStands, steps
    <3> QED BY <3>1, <3>2
  <2>8. SourcesFirst'
    <3>1. Behind(todo, steps, plans)
      BY <1>1, <2>1 DEF Promises, SourcesFirst, steps
    <3> SUFFICES ASSUME NEW i \in 1..Len(todo), NEW n \in ToSet(todo'[i].source) \cap StepNames(steps)
                 PROVE  n \in DOMAIN plans \/ \E j \in 1..(i-1) : todo'[j].name = n
      BY <1>1, <1>3, <1>7, <1>11 DEF SourcesFirst, Behind
    <3>2. CASE i = 1
      <4>1. n \in ToSet(cs.source)
        <5>1. ToSet(b.source) = {cs.source[1], name}
          BY <1>9, TwoElements
        <5> QED BY <1>7, <1>8, <2>4, <3>2, <5>1
      <4>2. n \in DOMAIN plans \/ \E j \in 1..(i-1) : todo[j].name = n
        BY <1>7, <3>1, <3>2, <4>1 DEF Behind
      <4> QED BY <3>2, <4>2
    <3>3. CASE i # 1
      <4>1. n \in DOMAIN plans \/ \E j \in 1..(i-1) : todo[j].name = n
        BY <1>7, <3>1, <3>3 DEF Behind
      <4>2. \A j \in 1..(i-1) : todo'[j].name = todo[j].name
        <5> TAKE j \in 1..(i-1)
        <5>1. j \in 1..Len(todo)
          BY <1>6, ElementsOf
        <5> QED BY <1>7, <1>9, <5>1
      <4> QED BY <4>1, <4>2
    <3> QED BY <3>2, <3>3
  <2>9. PassedKeep'
    <3>1. /\ "input" \in DOMAIN passed /\ IsSeq(passed["input"])
          /\ \A u \in ToSet(steps) : u.name \in DOMAIN plans =>
                 u.name \in DOMAIN passed /\ IsSeq(passed[u.name]) /\ Promised(u) \subseteq ToSet(passed[u.name])
      BY <1>1, <2>1 DEF Promises, PassedKeep, steps
    <3>2. \A n \in DOMAIN passed : n # name => n \in DOMAIN passed' /\ passed'[n] = passed[n]
      BY <1>4 DEF Put
    <3>3. "input" \in DOMAIN passed' /\ IsSeq(passed'["input"])
      BY <2>4, <3>1, <3>2
    <3>4. ASSUME NEW w \in ToSet(others), w.name \in DOMAIN plans
          PROVE  w.name \in DOMAIN passed' /\ IsSeq(passed'[w.name]) /\ Promised(w) \subseteq ToSet(passed'[w.name])
      <4>1. PICK u \in ToSet(steps) : w.name = u.name /\ Promised(w) = Promised(u)
        BY <1>10 DEF AsPromised
      <4>2. w.name # name /\ w.name \in DOMAIN passed
        BY <2>4, <3>1, <3>4, <4>1 DEF StepNames
      <4>3. passed'[w.name] = passed[w.name] /\ w.name \in DOMAIN passed'
        BY <3>2, <4>2
      <4> QED BY <3>1, <3>4, <4>1, <4>3
    <3> QED BY <1>1, <1>3, <3>3, <3>4 DEF PassedKeep
  <2> QED BY <2>2, <2>7, <2>8, <2>9 DEF Promises
<1> QED BY <1>5, <1>13

\* The next step is built.
LEMMA BuildPromises ==
    ASSUME PromisesHeld, BuildNext
    PROVE  Fresh' /\ (StepsSound(spec.steps) => Promises)'
<1> DEFINE cs == Head(todo)
           plan == BuildStep(cs, Len(todo) = 1, passed, spec)
           out == OutputsOf(plan)
           steps == spec.steps
<1>1. /\ stage = "build" /\ todo # <<>>
      /\ \/ Ends("failed")
         \/ /\ ~plan.err /\ plans' = Put(plans, cs.name, plan) /\ passed' = Put(passed, cs.name, out) /\ todo' = Tail(todo)
            /\ stage' = stage /\ spec' = spec /\ schemas' = schemas
  BY Zenon DEF BuildNext
<1>2. CASE Ends("failed")
  <2>1. stage' \notin Early \cup {"check", "build"} /\ UNCHANGED <<spec, todo, schemas, passed, plans>>
    BY <1>2 DEF Ends, Early
  <2> QED BY <2>1, OthersKeep
<1>3. CASE /\ ~plan.err /\ plans' = Put(plans, cs.name, plan) /\ passed' = Put(passed, cs.name, out) /\ todo' = Tail(todo)
           /\ stage' = stage /\ spec' = spec /\ schemas' = schemas
  <2>1. Fresh'
    BY <1>1, <1>3 DEF Fresh, Early
  <2>2. SpecShape(spec) /\ SoundTables(spec.tables)
    BY <1>1 DEF PromisesHeld, FiltersHeld, InShape, InOrder
  <2>3. IsSeq(todo) /\ StepShape(cs)
    <3>1. IsSeq(todo) /\ \A x \in ToSet(todo) : StepShape(x)
      BY DEF PromisesHeld, FiltersHeld, TodoFits
    <3> QED BY <1>1, <3>1, HeadAndTail
  <2>4. /\ Len(todo) \in Nat /\ Len(todo) >= 1 /\ Len(Tail(todo)) = Len(todo) - 1 /\ cs = todo[1]
        /\ \A i \in 1..Len(Tail(todo)) : i + 1 \in 1..Len(todo) /\ Tail(todo)[i] = todo[i+1]
    BY <1>1, <2>3, TailAt
  <2>5. Tail(todo) # <<>> => Len(todo) # 1
    <3>1. IsSeq(Tail(todo))
      BY <1>1, <2>3, HeadAndTail
    <3> DEFINE r == Tail(todo)
    <3>2. r \in Seq(ToSet(r)) /\ Len(r) = Len(todo) - 1
      BY <2>4, <3>1, ElementsOf
    <3> HIDE DEF r
    <3>3. r # <<>> => Len(r) # 0
      <4> DEFINE S == ToSet(r)
      <4>1. r \in Seq(S)
        BY <3>2
      <4> HIDE DEF S
      <4> QED BY <4>1, EmptySeq
    <3> QED BY <2>4, <3>2, <3>3 DEF r
  <2>6. Tail(todo) # <<>> => plan = BuildStep(cs, FALSE, passed, spec)
    <3>1. Len(todo) # 1 => (Len(todo) = 1) = FALSE
      OBVIOUS
    <3> DEFINE last == Len(todo) = 1
    <3>2. Tail(todo) # <<>> => last = FALSE
      BY <2>5, <3>1
    <3>3. plan = BuildStep(cs, last, passed, spec)
      OBVIOUS
    <3> HIDE DEF plan, last, cs
    <3> QED BY <3>2, <3>3, Zenon
  <2> HIDE DEF plan, out, cs, steps
  <2>7. ASSUME StepsSound(spec.steps)' PROVE Promises'
    <3>1. StepsSound(steps) /\ Promises
      BY <1>3, <2>7 DEF PromisesHeld, steps
    <3>2. Stands(cs, steps) /\ 1 \in 1..Len(todo)
      BY <2>4, <3>1 DEF Promises, TodoStands, steps
    <3>3. PICK w \in ToSet(steps) : w.name = cs.name /\ Promised(w) = Promised(cs)
      BY <3>2 DEF Stands
    <3>4. /\ "input" \in DOMAIN passed /\ IsSeq(passed["input"])
          /\ \A u \in ToSet(steps) : u.name \in DOMAIN plans =>
                 u.name \in DOMAIN passed /\ IsSeq(passed[u.name]) /\ Promised(u) \subseteq ToSet(passed[u.name])
      BY <1>1, <3>1 DEF Promises, PassedKeep, steps
    <3>5. Behind(todo, steps, plans)
      BY <1>1, <3>1 DEF Promises, SourcesFirst, steps
    <3>6. SchemasFit' /\ PlansNamed'
      <4>1. cs.name \in StepNames(steps)
        BY <3>3 DEF StepNames
      <4> QED BY <1>3, <3>1, <4>1 DEF Promises, SchemasFit, PlansNamed, Put, steps
    <3>7. TodoStands'
      BY <1>3, <2>4, <3>1 DEF Promises, TodoStands
    <3>8. SourcesFirst'
      <4> SUFFICES ASSUME NEW i \in 1..Len(Tail(todo)), NEW n \in ToSet(Tail(todo)[i].source) \cap StepNames(steps)
                   PROVE  n \in DOMAIN plans' \/ \E j \in 1..(i-1) : Tail(todo)[j].name = n
        BY <1>3 DEF SourcesFirst, Behind, steps
      <4>1. i + 1 \in 1..Len(todo) /\ Tail(todo)[i] = todo[i+1] /\ i \in Nat
        BY <2>4
      <4>2. n \in DOMAIN plans \/ \E j \in 1..((i+1)-1) : todo[j].name = n
        BY <3>5, <4>1 DEF Behind
      <4>3. DOMAIN plans' = DOMAIN plans \cup {cs.name}
        BY <1>3 DEF Put
      <4>4. ASSUME NEW j \in 1..((i+1)-1), todo[j].name = n, j # 1
            PROVE  \E k \in 1..(i-1) : Tail(todo)[k].name = n
        <5>1. j - 1 \in 1..(i-1) /\ j - 1 \in 1..Len(Tail(todo)) /\ (j - 1) + 1 = j
          BY <2>4, <4>1, <4>4
        <5>2. Tail(todo)[j-1] = todo[(j-1)+1]
          BY <2>4, <5>1
        <5>3. Tail(todo)[j-1].name = n
          BY <4>4, <5>1, <5>2
        <5> QED BY <5>1, <5>3
      <4> QED BY <2>4, <4>2, <4>3, <4>4
    <3>9. PassedKeep'
      <4> SUFFICES ASSUME Tail(todo) # <<>> PROVE PassedKeep'
        BY <1>3 DEF PassedKeep
      <4>1. Idle(cs) => /\ \A s \in ToSet(cs.source) : IsSeq(passed[s])
                        /\ \A r \in ToSet(cs.by) : \E s \in ToSet(cs.source) : r.c \in ToSet(passed[s])
        <5> SUFFICES ASSUME Idle(cs)
                     PROVE  /\ \A s \in ToSet(cs.source) : IsSeq(passed[s])
                            /\ \A r \in ToSet(cs.by) : \E s \in ToSet(cs.source) : r.c \in ToSet(passed[s])
          OBVIOUS
        <5>1. /\ ToSet(cs.source) \subseteq {"input"} \cup StepNames(steps)
              /\ \A r \in ToSet(cs.by) : \E u \in ToSet(steps) : u.name \in ToSet(cs.source) /\ r.c \in Promised(u)
          BY <3>2 DEF Stands, PassesOn
        <5>2. \A n \in ToSet(cs.source) \cap StepNames(steps) : n \in DOMAIN plans
          BY <2>4, <3>2, <3>5 DEF Behind
        <5>3. ASSUME NEW s \in ToSet(cs.source) PROVE IsSeq(passed[s])
          <6>1. CASE s = "input"
            BY <3>4, <6>1
          <6>2. CASE s \in StepNames(steps)
            <7>1. PICK u \in ToSet(steps) : u.name = s
              BY <6>2 DEF StepNames
            <7> QED BY <3>4, <5>2, <5>3, <6>2, <7>1
          <6> QED BY <5>1, <5>3, <6>1, <6>2
        <5>4. ASSUME NEW r \in ToSet(cs.by) PROVE \E s \in ToSet(cs.source) : r.c \in ToSet(passed[s])
          <6>1. PICK u \in ToSet(steps) : u.name \in ToSet(cs.source) /\ r.c \in Promised(u)
            BY <5>1, <5>4
          <6>2. u.name \in DOMAIN plans
            BY <5>2, <6>1 DEF StepNames
          <6> QED BY <3>4, <6>1, <6>2
        <5> QED BY <5>3, <5>4
      <4>2. IsSeq(out) /\ Promised(cs) \subseteq ToSet(out)
        <5> DEFINE p == BuildStep(cs, FALSE, passed, spec)
        <5>1. plan = p
          BY <2>6
        <5>2. ~p.err
          BY <1>3, <5>1
        <5>3. IsSeq(cs.by) /\ IsSeq(cs.exprs)
          BY <3>2 DEF Stands
        <5>4. IsSeq(OutputsOf(p)) /\ Promised(cs) \subseteq ToSet(OutputsOf(p))
          BY <2>2, <2>3, <4>1, <5>2, <5>3, PromiseBuilt
        <5> HIDE DEF p
        <5> QED BY <5>1, <5>4 DEF out
      <4>3. /\ cs.name \in DOMAIN passed' /\ passed'[cs.name] = out
            /\ \A n \in DOMAIN passed : n # cs.name => n \in DOMAIN passed' /\ passed'[n] = passed[n]
        BY <1>3 DEF Put
      <4>4. "input" \in DOMAIN passed' /\ IsSeq(passed'["input"])
        BY <3>4, <4>2, <4>3
      <4>5. ASSUME NEW u \in ToSet(steps), u.name \in DOMAIN plans'
            PROVE  u.name \in DOMAIN passed' /\ IsSeq(passed'[u.name]) /\ Promised(u) \subseteq ToSet(passed'[u.name])
        <5>1. CASE u.name = cs.name
          <6>1. Promised(u) = Promised(cs)
            BY <3>1, <3>3, <5>1 DEF StepsSound
          <6> QED BY <4>2, <4>3, <5>1, <6>1
        <5>2. CASE u.name # cs.name
          <6>1. u.name \in DOMAIN plans
            BY <1>3, <4>5, <5>2 DEF Put
          <6>2. passed'[u.name] = passed[u.name] /\ u.name \in DOMAIN passed'
            BY <3>4, <4>3, <5>2, <6>1
          <6> QED BY <3>4, <6>1, <6>2
        <5> QED BY <5>1, <5>2
      <4> QED BY <1>3, <4>4, <4>5 DEF PassedKeep, steps
    <3> QED BY <3>6, <3>7, <3>8, <3>9 DEF Promises
  <2> QED BY <2>1, <2>7
<1> QED BY <1>1, <1>2, <1>3

\* A stage before the steps leaves them to come.
LEMMA EarlierPromises ==
    ASSUME PromisesHeld, Parse \/ Require \/ Enrich \/ PrepareLabels \/ Settle
    PROVE  Fresh' /\ (StepsSound(spec.steps) => Promises)'
<1>1. stage \in {"parse", "require", "enrich", "label", "settle"} /\ UNCHANGED <<todo, schemas, passed, plans>>
      /\ \/ stage' \in {"require", "enrich", "label", "settle", "relate"}
         \/ stage' \in {"rejected", "failed"} /\ spec' = spec
  <2>1. CASE Parse
    BY <2>1 DEF Parse, Ends
  <2>2. CASE Require
    BY <2>2 DEF Require, Becomes, Ends
  <2>3. CASE Enrich
    BY <2>3 DEF Enrich, Becomes
  <2>4. CASE PrepareLabels
    BY <2>4 DEF PrepareLabels, Becomes, Ends
  <2>5. CASE Settle
    BY <2>5 DEF Settle, Becomes, Ends
  <2> QED BY <2>1, <2>2, <2>3, <2>4, <2>5
<1>2. CASE stage' \in {"require", "enrich", "label", "settle", "relate"}
  <2>1. stage \in Early /\ stage' \in Early
    BY <1>1, <1>2 DEF Early
  <2>2. Fresh' /\ Promises'
    BY <1>1, <2>1, EarlyKeeps DEF PromisesHeld
  <2> QED BY <2>2
<1>3. CASE stage' \in {"rejected", "failed"} /\ spec' = spec
  <2>1. stage' \notin Early \cup {"check", "build"}
    BY <1>3 DEF Early
  <2> QED BY <1>1, <1>3, <2>1, OthersKeep
<1> QED BY <1>1, <1>2, <1>3

\* A stage behind the steps leaves what they are.
LEMMA LaterPromises ==
    ASSUME PromisesHeld, Assemble \/ PlanChain \/ PlanOne \/ Compile
    PROVE  Fresh' /\ (StepsSound(spec.steps) => Promises)'
<1>1. stage' \in {"failed", "blocked", "compile", "execute"} /\ UNCHANGED <<spec, todo, schemas, passed, plans>>
  <2>1. CASE Assemble
    BY <2>1 DEF Assemble, Compiles, Ends
  <2>2. CASE PlanChain
    BY <2>2 DEF PlanChain, Compiles, Ends
  <2>3. CASE PlanOne
    BY <2>3 DEF PlanOne, Compiles, Ends
  <2>4. CASE Compile
    BY <2>4 DEF Compile
  <2> QED BY <2>1, <2>2, <2>3, <2>4
<1>2. stage' \notin Early \cup {"check", "build"}
  BY <1>1 DEF Early
<1> QED BY <1>1, <1>2, OthersKeep

\* Every step of a request leaves the compute steps so.
LEMMA NextPromises ==
    ASSUME \A q \in Requests : TempsApart(q.spec.tables), PromisesHeld, [Next]_vars
    PROVE  PromisesHeld'
<1> DEFINE Stays == Fresh' /\ (StepsSound(spec.steps) => Promises)'
<1>1. FiltersHeld'
  BY NextKeeps DEF PromisesHeld
<1>2. CASE UNCHANGED vars
  <2>1. stage' = stage /\ spec' = spec /\ todo' = todo /\ schemas' = schemas /\ passed' = passed /\ plans' = plans
    BY <1>2 DEF vars
  <2>2. Fresh'
    BY <2>1 DEF PromisesHeld, Fresh
  <2>3. ASSUME StepsSound(spec.steps)' PROVE Promises'
    <3>1. Promises
      BY <2>1, <2>3 DEF PromisesHeld
    <3> QED BY <2>1, <3>1 DEF Promises, SchemasFit, PlansNamed, TodoStands, SourcesFirst, PassedKeep
  <2> QED BY <1>1, <2>2, <2>3 DEF PromisesHeld
<1>3. CASE Next
  <2>1. ASSUME Parse \/ Require \/ Enrich \/ PrepareLabels \/ Settle PROVE Stays
    BY <2>1, EarlierPromises
  <2>2. ASSUME NEW answer \in Answers, Relate(answer) PROVE Stays
    BY <2>2, RelatePromises
  <2>3. ASSUME CheckStep PROVE Stays
    BY <2>3, CheckPromises
  <2>4. ASSUME SortSteps PROVE Stays
    BY <2>4, SortPromises
  <2>5. ASSUME BuildBridge PROVE Stays
    BY <2>5, BridgePromises
  <2>6. ASSUME BuildNext PROVE Stays
    BY <2>6, BuildPromises
  <2>7. ASSUME Assemble \/ PlanChain \/ PlanOne \/ Compile PROVE Stays
    BY <2>7, LaterPromises
  <2> HIDE DEF Stays
  <2>8. Stays
    BY <1>3, <2>1, <2>2, <2>3, <2>4, <2>5, <2>6, <2>7 DEF Next
  <2> QED BY <1>1, <2>8 DEF PromisesHeld, Stays
<1> QED BY <1>2, <1>3

\* And what is promised of sound steps is then output.
LEMMA HeldPromises == ASSUME PromisesHeld, StepsSound(spec.steps) PROVE SchemaPromise
<1> SUFFICES ASSUME NEW s \in DOMAIN schemas \cap DOMAIN plans, Len(todo) > 0
             PROVE  DOMAIN schemas[s].type \subseteq ToSet(passed[s])
  BY DEF SchemaPromise
<1>1. SchemasFit /\ PlansNamed /\ PassedKeep
  BY DEF PromisesHeld, Promises
<1>2. PICK u \in ToSet(spec.steps) : u.name = s
  BY <1>1 DEF PlansNamed, StepNames
<1>3. todo # <<>>
  BY NoElement
<1>4. DOMAIN schemas[s].type = Promised(u)
  BY <1>1, <1>2 DEF SchemasFit
<1>5. Promised(u) \subseteq ToSet(passed[s])
  BY <1>1, <1>2, <1>3 DEF PassedKeep
<1> QED BY <1>4, <1>5

(* What the validator promises of a compute step, the plan built of the step *)
(* outputs: as long as steps of one name promise the same, no step has the   *)
(* name of a bridge, and a step that computes nothing groups by what its     *)
(* sources promise.                                                          *)
THEOREM SchemasArePromises ==
    ASSUME \A q \in Requests : TempsApart(q.spec.tables)
    PROVE  Spec => [](StepsSound(spec.steps) => SchemaPromise)
<1>1. Init => PromisesHeld
  BY KeepingInit, PromisesInit DEF PromisesHeld
<1>2. PromisesHeld /\ [Next]_vars => PromisesHeld'
  BY NextPromises
<1>3. PromisesHeld => (StepsSound(spec.steps) => SchemaPromise)
  BY HeldPromises
<1> QED BY <1>1, <1>2, <1>3, PTL DEF Spec
==========================================================================
