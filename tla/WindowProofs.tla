---------------------------- MODULE WindowProofs ----------------------------
(***************************************************************************)
(* Theorems about Windows, for any nodes, links, protocols and bounds: the *)
(* two tables after an update, and what a stopped capture shows.           *)
(***************************************************************************)
EXTENDS Windows, FiniteSetTheorems, SequenceTheorems, TLAPS

-----------------------------------------------------------------------------
(* Walks.  A loop that goes from x to Step[x] until it meets a final place *)
(* and yields Out there, as the loops over the rows of the tables do.      *)

IsWalk(f, D, Final, Out, Step) ==
  f = [x \in D |-> IF x \in Final THEN Out[x] ELSE f[Step[x]]]

\* Every step of the loop brings the measure mu down.
Ends(D, Final, Step, mu) ==
  /\ \A x \in D : mu[x] \in Nat
  /\ \A x \in D \ Final : Step[x] \in D /\ mu[Step[x]] < mu[x]

\* f is what the loop yields, from places from which it takes fewer than n steps.
IsWalkBelow(f, D, Final, Out, Step, mu, n) ==
  \A x \in D : mu[x] < n => f[x] = IF x \in Final THEN Out[x] ELSE f[Step[x]]

\* A loop that goes down yields one value, however far it is followed.
LEMMA WalkUnique ==
  ASSUME NEW D, NEW Final, NEW Out, NEW Step, NEW mu, Ends(D, Final, Step, mu),
         NEW m \in Nat, NEW n \in Nat, NEW f, NEW g,
         IsWalkBelow(f, D, Final, Out, Step, mu, m), IsWalkBelow(g, D, Final, Out, Step, mu, n),
         NEW x \in D, mu[x] < m, mu[x] < n
  PROVE  f[x] = g[x]
<1> DEFINE Differ == {y \in D : mu[y] < m /\ mu[y] < n /\ f[y] # g[y]}
           Bad == {mu[y] : y \in Differ}
<1>1. Bad = {}
  <2> SUFFICES ASSUME Bad # {}
               PROVE  FALSE
    OBVIOUS
  <2>1. Bad \subseteq Nat
    BY DEF Ends
  <2> HIDE DEF Bad
  <2>2. PICK k \in Bad : \A j \in Bad : ~ (<<j, k>> \in OpToRel(<, Nat))
    BY ONLY <2>1, Bad # {}, NatLessThanWellFounded, WFMin
  <2>3. \A j \in Bad : ~ (j < k)
    BY <2>1, <2>2 DEF OpToRel
  <2>4. PICK y \in Differ : mu[y] = k
    BY <2>2 DEF Bad
  <2>5. y \in D /\ mu[y] < m /\ mu[y] < n /\ f[y] # g[y] /\ mu[y] \in Nat
    BY <2>4 DEF Ends
  <2>6. y \notin Final
    BY <2>5 DEF IsWalkBelow
  <2>7. f[y] = f[Step[y]] /\ g[y] = g[Step[y]]
    BY <2>5, <2>6 DEF IsWalkBelow
  <2>8. Step[y] \in D /\ mu[Step[y]] < mu[y] /\ mu[Step[y]] \in Nat
    BY <2>5, <2>6 DEF Ends
  <2>9. Step[y] \in Differ
    BY <2>5, <2>7, <2>8
  <2>10. mu[Step[y]] \in Bad
    BY <2>9 DEF Bad
  <2> QED
    BY <2>3, <2>4, <2>8, <2>10
<1>2. x \notin Differ
  BY <1>1
<1> QED
  BY <1>2

\* A loop that goes down yields something from every place.
LEMMA WalkExists ==
  ASSUME NEW D, NEW Final, NEW Out, NEW Step, NEW mu, Ends(D, Final, Step, mu)
  PROVE  \E f : IsWalk(f, D, Final, Out, Step)
<1> DEFINE Below(f, n) == IsWalkBelow(f, D, Final, Out, Step, mu, n)
           Bad == {n \in Nat : ~ \E f : Below(f, n)}
<1>1. Bad = {}
  <2> SUFFICES ASSUME Bad # {}
               PROVE  FALSE
    OBVIOUS
  <2>1. Bad \subseteq Nat
    OBVIOUS
  <2> HIDE DEF Bad
  <2>2. PICK n \in Bad : \A j \in Bad : ~ (<<j, n>> \in OpToRel(<, Nat))
    BY ONLY <2>1, Bad # {}, NatLessThanWellFounded, WFMin
  <2>3. \A j \in Bad : ~ (j < n)
    BY <2>1, <2>2 DEF OpToRel
  <2>4. n \in Nat /\ ~ \E f : Below(f, n)
    BY <2>2 DEF Bad
  <2>5. n # 0
    BY <2>4 DEF IsWalkBelow, Ends
  <2>6. n - 1 \in Nat /\ n - 1 < n
    BY <2>4, <2>5
  <2>7. PICK f : Below(f, n - 1)
    BY <2>3, <2>6 DEF Bad
  <2> DEFINE g == [x \in D |-> IF x \in Final THEN Out[x] ELSE f[Step[x]]]
  <2>8. ASSUME NEW x \in D, mu[x] < n
        PROVE  g[x] = IF x \in Final THEN Out[x] ELSE g[Step[x]]
    <3>1. CASE x \in Final
      BY <3>1
    <3>2. CASE x \notin Final
      <4>1. Step[x] \in D /\ mu[Step[x]] < n - 1
        BY <2>4, <2>8, <3>2 DEF Ends
      <4>2. f[Step[x]] = IF Step[x] \in Final THEN Out[Step[x]] ELSE f[Step[Step[x]]]
        BY <2>7, <4>1 DEF IsWalkBelow
      <4> QED
        BY <3>2, <4>1, <4>2
    <3> QED
      BY <3>1, <3>2
  <2>9. Below(g, n)
    BY <2>8 DEF IsWalkBelow
  <2> QED
    BY <2>4, <2>9
<1> DEFINE Walk(n) == CHOOSE f : Below(f, n)
           F == [x \in D |-> Walk(mu[x] + 1)[x]]
<1>2. ASSUME NEW n \in Nat
      PROVE  Below(Walk(n), n)
  BY <1>1, Zenon
<1> HIDE DEF Walk
<1>3. ASSUME NEW x \in D
      PROVE  F[x] = IF x \in Final THEN Out[x] ELSE F[Step[x]]
  <2>1. mu[x] \in Nat /\ mu[x] + 1 \in Nat /\ mu[x] < mu[x] + 1
    BY DEF Ends
  <2>2. F[x] = IF x \in Final THEN Out[x] ELSE Walk(mu[x] + 1)[Step[x]]
    BY <1>2, <2>1 DEF IsWalkBelow
  <2>3. CASE x \notin Final
    <3>1. /\ Step[x] \in D /\ mu[Step[x]] \in Nat /\ mu[Step[x]] + 1 \in Nat
          /\ mu[Step[x]] < mu[x] + 1 /\ mu[Step[x]] < mu[Step[x]] + 1
      BY <2>1, <2>3 DEF Ends
    <3>2. Below(Walk(mu[x] + 1), mu[x] + 1) /\ Below(Walk(mu[Step[x]] + 1), mu[Step[x]] + 1)
      BY <1>2, <2>1, <3>1
    <3>3. Walk(mu[x] + 1)[Step[x]] = Walk(mu[Step[x]] + 1)[Step[x]]
      BY <2>1, <3>1, <3>2, WalkUnique
    <3> QED
      BY <2>2, <2>3, <3>1, <3>3
  <2> QED
    BY <2>2, <2>3
<1>4. F = [x \in D |-> F[x]]
  OBVIOUS
<1> HIDE DEF F
<1>5. F = [x \in D |-> IF x \in Final THEN Out[x] ELSE F[Step[x]]]
  BY <1>3, <1>4
<1> QED
  BY <1>5 DEF IsWalk

\* I holds of every place the loop comes to, Good of what it yields there.
Keeps(I, Good, D, Final, Out, Step) ==
  /\ I \subseteq D
  /\ \A x \in I \ Final : Step[x] \in I
  /\ \A x \in I \cap Final : Out[x] \in Good

\* What holds where the loop starts, at every step and in what it yields.
LEMMA WalkKeeps ==
  ASSUME NEW D, NEW Final, NEW Out, NEW Step, NEW mu, Ends(D, Final, Step, mu),
         NEW f, IsWalk(f, D, Final, Out, Step),
         NEW I, NEW Good, Keeps(I, Good, D, Final, Out, Step), NEW x \in I
  PROVE  f[x] \in Good
<1> DEFINE Off == {y \in I : f[y] \notin Good}
           Bad == {mu[y] : y \in Off}
<1>1. Bad = {}
  <2> SUFFICES ASSUME Bad # {}
               PROVE  FALSE
    OBVIOUS
  <2>1. Bad \subseteq Nat
    BY DEF Ends, Keeps
  <2> HIDE DEF Bad
  <2>2. PICK k \in Bad : \A j \in Bad : ~ (<<j, k>> \in OpToRel(<, Nat))
    BY ONLY <2>1, Bad # {}, NatLessThanWellFounded, WFMin
  <2>3. \A j \in Bad : ~ (j < k)
    BY <2>1, <2>2 DEF OpToRel
  <2>4. PICK y \in Off : mu[y] = k
    BY <2>2 DEF Bad
  <2>5. f[y] = IF y \in Final THEN Out[y] ELSE f[Step[y]]
    BY <2>4 DEF IsWalk, Keeps
  <2>6. y \in I /\ y \in D /\ y \notin Final
    BY <2>4, <2>5 DEF Keeps
  <2>7. Step[y] \in I /\ f[Step[y]] \notin Good /\ mu[Step[y]] < mu[y]
    BY <2>4, <2>5, <2>6 DEF Ends, Keeps
  <2>8. mu[Step[y]] \in Bad
    BY <2>7 DEF Bad
  <2> QED
    BY <2>3, <2>4, <2>7, <2>8
<1>2. x \notin Off
  BY <1>1
<1> QED
  BY <1>2

-----------------------------------------------------------------------------
(* Lists in order, as the catalog of nodes gives its nodes and the store   *)
(* of a table sorts its rows.                                              *)

\* Before(x, y) is <<x, y>> \in R.
Ordered(R, S) ==
  /\ \A x \in S : <<x, x>> \notin R
  /\ \A x, y \in S : x = y \/ <<x, y>> \in R \/ <<y, x>> \in R
  /\ \A x, y, z \in S : <<x, y>> \in R /\ <<y, z>> \in R => <<x, z>> \in R

Lists(s, R, S) ==
  /\ s \in [1 .. Cardinality(S) -> S]
  /\ \A i, j \in 1 .. Cardinality(S) : i < j => <<s[i], s[j]>> \in R

\* A finite set in order has a first element.
LEMMA FirstExists ==
  ASSUME NEW S, IsFiniteSet(S), S # {}, NEW R, Ordered(R, S)
  PROVE  \E x \in S : \A y \in S : x = y \/ <<x, y>> \in R
<1> DEFINE Before(x) == {y \in S : <<y, x>> \in R}
           Sizes == {Cardinality(Before(x)) : x \in S}
<1>1. \A x \in S : IsFiniteSet(Before(x)) /\ Cardinality(Before(x)) \in Nat
  BY FS_Subset, FS_CardinalityType
<1>2. Sizes \subseteq Nat /\ Sizes # {}
  BY <1>1
<1> HIDE DEF Sizes
<1>3. PICK k \in Sizes : \A j \in Sizes : ~ (<<j, k>> \in OpToRel(<, Nat))
  BY ONLY <1>2, NatLessThanWellFounded, WFMin
<1>4. \A j \in Sizes : ~ (j < k)
  BY <1>2, <1>3 DEF OpToRel
<1>5. PICK x \in S : k = Cardinality(Before(x))
  BY <1>3 DEF Sizes
<1>6. ASSUME NEW y \in S, <<y, x>> \in R
      PROVE  FALSE
  <2>1. Before(y) \subseteq Before(x) /\ y \in Before(x) /\ y \notin Before(y)
    BY <1>6 DEF Ordered
  <2> HIDE DEF Before
  <2>2. Cardinality(Before(y)) # Cardinality(Before(x))
    BY <1>1, <2>1, FS_Subset
  <2>3. Cardinality(Before(y)) <= Cardinality(Before(x))
    BY <1>1, <2>1, FS_Subset
  <2>4. Cardinality(Before(y)) \in Sizes
    BY DEF Sizes
  <2> QED
    BY <1>1, <1>4, <1>5, <2>2, <2>3, <2>4
<1>7. \A y \in S : x = y \/ <<x, y>> \in R
  BY <1>6 DEF Ordered
<1> QED
  BY <1>7

\* A finite set can be listed in order: its first element, then the others.
LEMMA ListExists ==
  ASSUME NEW S, IsFiniteSet(S), NEW R, Ordered(R, S)
  PROVE  \E s : Lists(s, R, S)
<1> DEFINE Unlisted == {T \in SUBSET S : ~ \E s : Lists(s, R, T)}
           Bad == {Cardinality(T) : T \in Unlisted}
<1>1. Bad = {}
  <2> SUFFICES ASSUME Bad # {}
               PROVE  FALSE
    OBVIOUS
  <2>1. Bad \subseteq Nat
    BY FS_Subset, FS_CardinalityType
  <2> HIDE DEF Bad
  <2>2. PICK k \in Bad : \A j \in Bad : ~ (<<j, k>> \in OpToRel(<, Nat))
    BY ONLY <2>1, Bad # {}, NatLessThanWellFounded, WFMin
  <2>3. \A j \in Bad : ~ (j < k)
    BY <2>1, <2>2 DEF OpToRel
  <2>4. PICK T \in Unlisted : Cardinality(T) = k
    BY <2>2 DEF Bad
  <2>5. T \in SUBSET S /\ IsFiniteSet(T) /\ k \in Nat /\ Ordered(R, T)
    BY <2>4, FS_Subset, FS_CardinalityType DEF Ordered
  <2>6. CASE T = {}
    <3>1. Cardinality(T) = 0
      BY <2>6, FS_EmptySet
    <3>2. Lists([i \in 1 .. 0 |-> i], R, T)
      BY <3>1 DEF Lists
    <3> QED
      BY <2>4, <3>2
  <2>7. CASE T # {}
    <3>1. PICK x \in T : \A y \in T : x = y \/ <<x, y>> \in R
      BY <2>5, <2>7, FirstExists
    <3>2. Cardinality(T \ {x}) = k - 1 /\ k - 1 \in Nat /\ T \ {x} \in SUBSET S
      <4>1. /\ IsFiniteSet(T \ {x}) /\ Cardinality(T \ {x}) = Cardinality(T) - 1
        BY ONLY <2>5, x \in T, FS_RemoveElement
      <4>2. Cardinality(T \ {x}) \in Nat
        BY ONLY <4>1, FS_CardinalityType
      <4> QED
        BY <2>4, <2>5, <4>1, <4>2
    <3>3. T \ {x} \notin Unlisted
      BY <2>3, <2>5, <3>2 DEF Bad
    <3>4. PICK s : Lists(s, R, T \ {x})
      BY <3>2, <3>3
    <3>5. /\ s \in [1 .. k - 1 -> T \ {x}]
          /\ \A i, j \in 1 .. k - 1 : i < j => <<s[i], s[j]>> \in R
      BY <3>2, <3>4 DEF Lists
    <3> DEFINE t == [i \in 1 .. k |-> IF i = 1 THEN x ELSE s[i - 1]]
    <3>6. \A i \in 1 .. k : i # 1 => i - 1 \in 1 .. k - 1
      BY <2>5
    <3>7. t \in [1 .. k -> T]
      BY <3>1, <3>5, <3>6
    <3>8. ASSUME NEW i \in 1 .. k, NEW j \in 1 .. k, i < j
          PROVE  <<t[i], t[j]>> \in R
      <4>1. j # 1 /\ j - 1 \in 1 .. k - 1 /\ t[j] = s[j - 1]
        BY <2>5, <3>6, <3>8
      <4>2. CASE i = 1
        <5>1. t[i] = x /\ s[j - 1] \in T \ {x}
          BY <3>5, <4>1, <4>2
        <5> QED
          BY <3>1, <4>1, <5>1
      <4>3. CASE i # 1
        <5>1. i - 1 \in 1 .. k - 1 /\ t[i] = s[i - 1] /\ i - 1 < j - 1
          BY <2>5, <3>6, <3>8, <4>3
        <5> QED
          BY <3>5, <4>1, <5>1
      <4> QED
        BY <4>2, <4>3
    <3> HIDE DEF t
    <3>9. Lists(t, R, T)
      BY <2>4, <3>7, <3>8 DEF Lists
    <3> QED
      BY <2>4, <3>9
  <2> QED
    BY <2>6, <2>7
<1>2. S \notin Unlisted
  BY <1>1
<1> QED
  BY <1>2

\* A list in order has each element once.
LEMMA ListComplete ==
  ASSUME NEW S, IsFiniteSet(S), NEW R, Ordered(R, S), NEW s, Lists(s, R, S)
  PROVE  /\ s \in Seq(S) /\ Len(s) = Cardinality(S)
         /\ Range(s) = S
<1> DEFINE n == Cardinality(S)
<1>1. n \in Nat
  BY FS_CardinalityType
<1>2. s \in [1 .. n -> S]
  BY DEF Lists
<1>3. s \in Seq(S) /\ Len(s) = n
  BY <1>1, <1>2
<1>4. ASSUME NEW i \in 1 .. n, NEW j \in 1 .. n, s[i] = s[j]
      PROVE  i = j
  <2>1. s[i] \in S /\ <<s[i], s[i]>> \notin R
    BY <1>2 DEF Ordered
  <2>2. ~ (i < j) /\ ~ (j < i)
    BY <1>4, <2>1 DEF Lists
  <2> QED
    BY <1>1, <2>2
<1>5. s \in Injection(1 .. n, S)
  BY <1>2, <1>4 DEF Injection, IsInjective
<1>6. Cardinality(1 .. n) = n
  BY <1>1, FS_Interval
<1>7. s \in Surjection(1 .. n, S)
  BY <1>5, <1>6, FS_Injection
<1>8. Range(s) = S
  BY <1>2, <1>7 DEF Surjection, Range
<1> QED
  BY <1>3, <1>8

\* nodes_catalog_foreach comes to each node of the catalog once.
LEMMA NodesInOrder ==
  ASSUME NEW S, S \subseteq Nat, IsFiniteSet(S)
  PROVE  /\ InOrder(S) \in Seq(S) /\ Len(InOrder(S)) = Cardinality(S)
         /\ Range(InOrder(S)) = S
<1> DEFINE R == {p \in S \X S : p[1] < p[2]}
           P(s) == \A i, j \in 1 .. Cardinality(S) : i < j => s[i] < s[j]
           list == CHOOSE s \in [1 .. Cardinality(S) -> S] : P(s)
<1>1. Ordered(R, S)
  BY DEF Ordered
<1>2. ASSUME NEW s \in [1 .. Cardinality(S) -> S]
      PROVE  P(s) <=> Lists(s, R, S)
  BY DEF Lists
<1>3. PICK s : Lists(s, R, S)
  BY <1>1, ListExists
<1>4. s \in [1 .. Cardinality(S) -> S] /\ P(s)
  BY <1>2, <1>3 DEF Lists
<1>5. list \in [1 .. Cardinality(S) -> S] /\ P(list)
  <2> HIDE DEF P
  <2> QED
    BY <1>4, Zenon
<1>6. InOrder(S) = list
  BY DEF InOrder
<1>7. Lists(InOrder(S), R, S)
  BY <1>2, <1>5, <1>6
<1> QED
  BY <1>1, <1>7, ListComplete

-----------------------------------------------------------------------------
(* Sequences.                                                              *)

\* The elements of a sequence that gets one more.
LEMMA AppendRange ==
  ASSUME NEW S, NEW s \in Seq(S), NEW e \in S
  PROVE  /\ Append(s, e) \in Seq(S) /\ Len(Append(s, e)) = Len(s) + 1
         /\ Range(Append(s, e)) = Range(s) \cup {e}
<1>1. /\ Append(s, e) \in Seq(S) /\ Len(Append(s, e)) = Len(s) + 1
      /\ \A i \in 1 .. Len(s) : Append(s, e)[i] = s[i]
      /\ Append(s, e)[Len(s) + 1] = e
  BY AppendProperties
<1>2. Len(s) \in Nat
  OBVIOUS
<1>3. Range(s) = {s[i] : i \in 1 .. Len(s)}
  BY RangeEquality
<1>4. Range(Append(s, e)) = {Append(s, e)[i] : i \in 1 .. Len(Append(s, e))}
  BY <1>1, RangeEquality
<1>5. \A i : i \in 1 .. Len(Append(s, e)) <=> i \in 1 .. Len(s) \/ i = Len(s) + 1
  BY <1>1, <1>2
<1> QED
  BY <1>1, <1>3, <1>4, <1>5

\* The elements of a sequence are its first and the others.
LEMMA HeadTailRange ==
  ASSUME NEW S, NEW s \in Seq(S), s # <<>>
  PROVE  /\ Head(s) \in S /\ Tail(s) \in Seq(S) /\ Len(Tail(s)) = Len(s) - 1
         /\ Len(s) \in Nat /\ Len(s) > 0 /\ Len(Tail(s)) \in Nat
         /\ Range(s) = {Head(s)} \cup Range(Tail(s))
<1>1. /\ Head(s) \in S /\ Tail(s) \in Seq(S) /\ Len(Tail(s)) = Len(s) - 1
      /\ \A i \in 1 .. Len(Tail(s)) : Tail(s)[i] = s[i + 1]
  BY HeadTailProperties
<1>2. Len(s) \in Nat /\ Len(s) > 0 /\ Head(s) = s[1]
  BY EmptySeq
<1>3. Range(s) = {s[i] : i \in 1 .. Len(s)}
  BY RangeEquality
<1>4. Range(Tail(s)) = {Tail(s)[i] : i \in 1 .. Len(Tail(s))}
  BY <1>1, RangeEquality
<1>5. ASSUME NEW i \in 1 .. Len(s)
      PROVE  s[i] \in {Head(s)} \cup Range(Tail(s))
  <2>1. CASE i # 1
    <3>1. i - 1 \in 1 .. Len(Tail(s)) /\ Tail(s)[i - 1] = s[i]
      BY <1>1, <1>2, <2>1
    <3> QED
      BY <1>4, <3>1
  <2> QED
    BY <1>2, <2>1
<1>6. ASSUME NEW i \in 1 .. Len(Tail(s))
      PROVE  Tail(s)[i] \in Range(s)
  <2>1. i + 1 \in 1 .. Len(s) /\ Tail(s)[i] = s[i + 1]
    BY <1>1, <1>2
  <2> QED
    BY <1>3, <2>1
<1>7. Head(s) \in Range(s)
  BY <1>2, <1>3
<1> QED
  BY <1>1, <1>2, <1>3, <1>4, <1>5, <1>6, <1>7

\* A sequence backwards has the same elements.
LEMMA Reversed ==
  ASSUME NEW S, NEW s \in Seq(S)
  PROVE  Reverse(s) \in Seq(S) /\ Len(Reverse(s)) = Len(s) /\ Range(Reverse(s)) = Range(s)
<1> DEFINE n == Len(s)
           t == Reverse(s)
<1>1. n \in Nat /\ DOMAIN s = 1 .. n /\ s \in [1 .. n -> S]
  BY LenProperties
<1>2. t = [i \in 1 .. n |-> s[(n - i) + 1]]
  BY DEF Reverse
<1> HIDE DEF t, n
<1>3. \A i \in 1 .. n : (n - i) + 1 \in 1 .. n /\ (n - ((n - i) + 1)) + 1 = i
  BY <1>1
<1>4. t \in [1 .. n -> S]
  BY <1>1, <1>2, <1>3
<1>5. t \in Seq(S) /\ Len(t) = n
  BY <1>1, <1>4
<1>6. Range(t) = Range(s)
  <2>1. ASSUME NEW i \in 1 .. n
        PROVE  t[i] \in Range(s) /\ s[i] \in Range(t)
    <3>1. t[(n - i) + 1] = s[i] /\ t[i] = s[(n - i) + 1]
      BY <1>2, <1>3
    <3> QED
      BY <1>1, <1>3, <1>4, <3>1 DEF Range
  <2> QED
    BY <1>1, <1>4, <2>1 DEF Range
<1> QED
  BY <1>5, <1>6 DEF t, n

-----------------------------------------------------------------------------
(* The table of nodes.                                                     *)

\* nodes_table_iterate goes on by a row, a node or both, and every node it leaves
\* behind has its row.
LEMMA NodesStep ==
  ASSUME NEW w \in NodesWalk, w.rest # <<>>, w.new # <<>>, NEW x, x = nodes_table_iterate(w)
  PROVE  /\ x \in NodesWalk
         /\ Len(x.rest) + Len(x.new) < Len(w.rest) + Len(w.new)
         /\ Len(x.done) + Len(x.new) = Len(w.done) + Len(w.new)
         /\ Range(x.done) \cup Range(x.new) = Range(w.done) \cup Range(w.new)
<1> DEFINE node == Head(w.new)
           row == Head(w.rest)
           done == Append(w.done, node)
<1>1. w.done \in Seq(Node) /\ w.rest \in Seq(Node) /\ w.new \in Seq(Node)
      /\ w = [done |-> w.done, rest |-> w.rest, new |-> w.new]
  BY DEF NodesWalk
<1>2. /\ node \in Node /\ Tail(w.new) \in Seq(Node) /\ Len(Tail(w.new)) = Len(w.new) - 1
      /\ Len(w.new) \in Nat /\ Len(w.new) > 0
      /\ Range(w.new) = {node} \cup Range(Tail(w.new))
  BY <1>1, HeadTailRange
<1>3. /\ row \in Node /\ Tail(w.rest) \in Seq(Node) /\ Len(Tail(w.rest)) = Len(w.rest) - 1
      /\ Len(w.rest) \in Nat /\ Len(w.rest) > 0
  BY <1>1, HeadTailRange
<1>4. /\ done \in Seq(Node) /\ Len(done) = Len(w.done) + 1
      /\ Range(done) = Range(w.done) \cup {node}
  BY <1>1, <1>2, AppendRange
<1>5. Len(w.done) \in Nat
  BY <1>1
<1>6. nodes_table_iterate(w)
        = CASE node = row -> [done |-> done, rest |-> Tail(w.rest), new |-> Tail(w.new)]
            [] node < row -> [done |-> done, rest |-> w.rest, new |-> Tail(w.new)]
            [] node > row -> [done |-> w.done, rest |-> Tail(w.rest), new |-> w.new]
  BY DEF nodes_table_iterate
<1>7. node \in Nat /\ row \in Nat
  BY <1>2, <1>3, WindowsAssumption
<1> HIDE DEF node, row, done
<1> DEFINE d == Len(w.done)
           r == Len(w.rest)
           n == Len(w.new)
           d1 == Len(x.done)
           r1 == Len(x.rest)
           n1 == Len(x.new)
<1>8. d \in Nat /\ r \in Nat /\ n \in Nat /\ r > 0 /\ n > 0
  BY <1>2, <1>3, <1>5
<1>9. /\ x \in NodesWalk
      /\ \/ d1 = d + 1 /\ r1 = r - 1 /\ n1 = n - 1
         \/ d1 = d + 1 /\ r1 = r /\ n1 = n - 1
         \/ d1 = d /\ r1 = r - 1 /\ n1 = n
      /\ Range(x.done) \cup Range(x.new) = Range(w.done) \cup Range(w.new)
  <2>1. CASE node = row
    <3>1. x = [done |-> done, rest |-> Tail(w.rest), new |-> Tail(w.new)]
      BY <1>6, <1>7, <2>1
    <3>2. x \in NodesWalk /\ x.done = done /\ x.rest = Tail(w.rest) /\ x.new = Tail(w.new)
      BY <1>2, <1>3, <1>4, <3>1 DEF NodesWalk
    <3> QED
      BY <1>2, <1>3, <1>4, <3>2
  <2>2. CASE node < row
    <3>1. x = [done |-> done, rest |-> w.rest, new |-> Tail(w.new)]
      BY <1>6, <1>7, <2>2
    <3>2. x \in NodesWalk /\ x.done = done /\ x.rest = w.rest /\ x.new = Tail(w.new)
      BY <1>1, <1>2, <1>4, <3>1 DEF NodesWalk
    <3> QED
      BY <1>2, <1>4, <3>2
  <2>3. CASE node > row
    <3>1. x = [done |-> w.done, rest |-> Tail(w.rest), new |-> w.new]
      BY <1>6, <1>7, <2>3
    <3>2. x \in NodesWalk /\ x.done = w.done /\ x.rest = Tail(w.rest) /\ x.new = w.new
      BY <1>1, <1>3, <3>1 DEF NodesWalk
    <3> QED
      BY <1>3, <3>2
  <2> QED
    BY <1>7, <2>1, <2>2, <2>3
<1> HIDE DEF d, r, n, d1, r1, n1
<1>10. r1 + n1 < r + n /\ d1 + n1 = d + n
  BY <1>8, <1>9
<1> QED
  BY <1>9, <1>10 DEF d, r, n, d1, r1, n1

\* After nodes_table_update every node of the catalog has one row, whatever rows
\* the table had and in whatever order.
LEMMA NodesUpdated ==
  ASSUME NEW rows \in Seq(Node), NEW ns \in SUBSET Node, IsFiniteSet(ns)
  PROVE  /\ nodes_table_update(rows, ns) \in Seq(Node)
         /\ Len(nodes_table_update(rows, ns)) = Cardinality(ns)
         /\ Range(nodes_table_update(rows, ns)) = ns
<1> DEFINE D == NodesWalk
           Final == {w \in D : w.rest = <<>> \/ w.new = <<>>}
           Out == [w \in D |-> IF w.rest = <<>> THEN Reverse(w.new) \o w.done ELSE w.done]
           Step == [w \in D |-> nodes_table_iterate(w)]
           mu == [w \in D |-> Len(w.rest) + Len(w.new)]
           P(f) == f = [w \in NodesWalk |->
                          IF w.rest = <<>> THEN Reverse(w.new) \o w.done
                          ELSE IF w.new = <<>> THEN w.done
                          ELSE f[nodes_table_iterate(w)]]
           walk == CHOOSE f : P(f)
           start == [done |-> <<>>, rest |-> rows, new |-> InOrder(ns)]
           Here == {w \in D : /\ Len(w.done) + Len(w.new) = Cardinality(ns)
                              /\ Range(w.done) \cup Range(w.new) = ns}
           Good == {t \in Seq(Node) : Len(t) = Cardinality(ns) /\ Range(t) = ns}
<1>1. nodes_table_update(rows, ns) = walk[start]
  BY DEF nodes_table_update
<1>2. ASSUME NEW w \in D
      PROVE  /\ w.done \in Seq(Node) /\ w.rest \in Seq(Node) /\ w.new \in Seq(Node)
             /\ Len(w.done) \in Nat /\ Len(w.rest) \in Nat /\ Len(w.new) \in Nat
  BY DEF NodesWalk
<1>3. Ends(D, Final, Step, mu)
  <2>1. ASSUME NEW w \in D
        PROVE  mu[w] \in Nat
    <3>1. mu[w] = Len(w.rest) + Len(w.new)
      OBVIOUS
    <3> DEFINE r == Len(w.rest)
               n == Len(w.new)
    <3>2. r \in Nat /\ n \in Nat
      BY <1>2
    <3> HIDE DEF r, n
    <3>3. r + n \in Nat
      BY <3>2
    <3> QED
      BY <3>1, <3>3 DEF r, n
  <2>2. ASSUME NEW w \in D \ Final
        PROVE  Step[w] \in D /\ mu[Step[w]] < mu[w]
    BY NodesStep
  <2> QED
    BY <2>1, <2>2 DEF Ends
<1>4. ASSUME NEW f
      PROVE  P(f) <=> IsWalk(f, D, Final, Out, Step)
  <2>1. ASSUME NEW w \in D
        PROVE  (IF w.rest = <<>> THEN Reverse(w.new) \o w.done
                ELSE IF w.new = <<>> THEN w.done
                ELSE f[nodes_table_iterate(w)])
               = IF w \in Final THEN Out[w] ELSE f[Step[w]]
    OBVIOUS
  <2>2. [w \in D |-> IF w.rest = <<>> THEN Reverse(w.new) \o w.done
                     ELSE IF w.new = <<>> THEN w.done
                     ELSE f[nodes_table_iterate(w)]]
        = [w \in D |-> IF w \in Final THEN Out[w] ELSE f[Step[w]]]
    BY <2>1
  <2> QED
    BY <2>2 DEF IsWalk
<1>5. IsWalk(walk, D, Final, Out, Step)
  <2>1. \E f : P(f)
    BY <1>3, <1>4, WalkExists
  <2>2. P(walk)
    BY <2>1, Zenon
  <2> QED
    BY <1>4, <2>2
<1>6. start \in Here
  <2>1. /\ InOrder(ns) \in Seq(ns) /\ Len(InOrder(ns)) = Cardinality(ns)
        /\ Range(InOrder(ns)) = ns
    BY NodesInOrder, WindowsAssumption
  <2>2. InOrder(ns) \in Seq(Node)
    BY <2>1, SeqMonotonic
  <2>3. <<>> \in Seq(Node) /\ Len(<<>>) = 0 /\ Range(<<>>) = {}
    BY DEF Range
  <2>4. Cardinality(ns) \in Nat
    BY FS_CardinalityType
  <2> QED
    BY <2>1, <2>2, <2>3, <2>4 DEF NodesWalk
<1>7. Here \subseteq D
  OBVIOUS
<1>8. \A w \in Here \ Final : Step[w] \in Here
  BY NodesStep
<1>9. \A w \in Here \cap Final : Out[w] \in Good
  <2> SUFFICES ASSUME NEW w \in Here, w \in Final
               PROVE  Out[w] \in Good
    OBVIOUS
  <2>1. CASE w.rest = <<>>
    <3> DEFINE new == w.new
               done == w.done
               t == Reverse(new)
    <3>1. /\ new \in Seq(Node) /\ done \in Seq(Node)
          /\ Len(new) \in Nat /\ Len(done) \in Nat
          /\ Len(done) + Len(new) = Cardinality(ns) /\ Range(done) \cup Range(new) = ns
          /\ Out[w] = t \o done
      BY <1>2, <2>1
    <3> HIDE DEF new, done
    <3>2. t \in Seq(Node) /\ Len(t) = Len(new) /\ Range(t) = Range(new)
      BY <3>1, Reversed
    <3> HIDE DEF t, Out
    <3> USE <3>1, <3>2
    <3>3. /\ t \o done \in Seq(Node) /\ Len(t \o done) = Len(t) + Len(done)
          /\ Range(t \o done) = Range(t) \cup Range(done)
      BY ONLY t \in Seq(Node), done \in Seq(Node), ConcatProperties, RangeConcatenation
    <3>4. Len(t \o done) = Cardinality(ns) /\ Range(t \o done) = ns
      BY <3>1, <3>2, <3>3
    <3> QED
      BY <3>1, <3>3, <3>4
  <2>2. CASE w.rest # <<>>
    <3> DEFINE done == w.done
    <3>1. w.new = <<>> /\ Out[w] = done
      BY <2>2
    <3>2. Len(w.new) = 0 /\ Range(w.new) = {}
      BY <3>1 DEF Range
    <3>3. done \in Seq(Node) /\ Len(done) + 0 = Cardinality(ns) /\ Range(done) \cup {} = ns
      BY <1>2, <3>2
    <3> HIDE DEF done, Out
    <3> QED
      BY <3>1, <3>3
  <2> QED
    BY <2>1, <2>2
<1>10. Keeps(Here, Good, D, Final, Out, Step)
  BY <1>7, <1>8, <1>9 DEF Keeps
<1> HIDE DEF D, Final, Out, Step, mu, P, walk, Here, Good, start
<1>11. walk[start] \in Good
  BY ONLY <1>3, <1>5, <1>6, <1>10, WalkKeeps
<1> QED
  BY <1>1, <1>11 DEF Good

-----------------------------------------------------------------------------
(* The table of protocols: its rows in the sorted store.                   *)

\* A sequence put behind another.
LEMMA Joined ==
  ASSUME NEW S, NEW s \in Seq(S), NEW t \in Seq(S)
  PROVE  /\ s \o t \in Seq(S) /\ Len(s \o t) = Len(s) + Len(t)
         /\ \A j \in 1 .. Len(s) : (s \o t)[j] = s[j]
         /\ \A j \in 1 .. Len(t) : (s \o t)[Len(s) + j] = t[j]
<1> DEFINE m == Len(s)
           n == Len(t)
<1>1. /\ s \o t \in Seq(S) /\ Len(s \o t) = Len(s) + Len(t)
      /\ \A j \in 1 .. Len(s) + Len(t) :
           (s \o t)[j] = IF j <= Len(s) THEN s[j] ELSE t[j - Len(s)]
  BY ConcatProperties
<1>2. /\ \A j \in 1 .. m + n : (s \o t)[j] = IF j <= m THEN s[j] ELSE t[j - m]
      /\ m \in Nat /\ n \in Nat
  BY <1>1, LenProperties
<1> HIDE DEF m, n
<1>3. ASSUME NEW j \in 1 .. m
      PROVE  (s \o t)[j] = s[j]
  <2>1. j \in 1 .. m + n /\ j <= m
    BY <1>2
  <2> QED
    BY <1>2, <2>1
<1>4. ASSUME NEW j \in 1 .. n
      PROVE  (s \o t)[m + j] = t[j]
  <2> DEFINE k == m + j
  <2>1. k \in 1 .. m + n /\ ~ (k <= m) /\ k - m = j
    BY <1>2
  <2> HIDE DEF k
  <2>2. (s \o t)[k] = t[k - m]
    BY <1>2, <2>1
  <2> QED
    BY <2>1, <2>2 DEF k
<1> QED
  BY <1>1, <1>3, <1>4 DEF m, n

\* A row that is removed, and those behind it move up.
LEMMA Removed ==
  ASSUME NEW S, NEW s \in Seq(S), NEW i \in 1 .. Len(s)
  PROVE  /\ RemoveAt(s, i) \in Seq(S) /\ Len(RemoveAt(s, i)) = Len(s) - 1
         /\ \A j \in 1 .. i - 1 : RemoveAt(s, i)[j] = s[j]
         /\ \A j \in i .. Len(s) - 1 : RemoveAt(s, i)[j] = s[j + 1]
<1> DEFINE n == Len(s)
           before == SubSeq(s, 1, i - 1)
           behind == SubSeq(s, i + 1, n)
<1>1. n \in Nat /\ i \in 1 .. n /\ \A k \in 1 .. n : s[k] \in S
  BY LenProperties, ElementOfSeq
<1> HIDE DEF n
<1>2. /\ before \in Seq(S) /\ Len(before) = i - 1
      /\ \A j \in 1 .. i - 1 : before[j] = s[j]
  <2>1. 1 \in Int /\ i - 1 \in Int /\ \A k \in 1 .. i - 1 : s[k] \in S
    BY <1>1
  <2>2. /\ before \in Seq(S) /\ Len(before) = IF 1 <= i - 1 THEN (i - 1) - 1 + 1 ELSE 0
        /\ \A j \in 1 .. (i - 1) - 1 + 1 : before[j] = s[1 + j - 1]
    BY <2>1, SubSeqProperties
  <2> QED
    BY <1>1, <2>2
<1>3. /\ behind \in Seq(S) /\ Len(behind) = n - i
      /\ \A j \in 1 .. n - i : behind[j] = s[i + j]
  <2>1. i + 1 \in Int /\ n \in Int /\ \A k \in i + 1 .. n : s[k] \in S
    BY <1>1
  <2>2. /\ behind \in Seq(S) /\ Len(behind) = IF i + 1 <= n THEN n - (i + 1) + 1 ELSE 0
        /\ \A j \in 1 .. n - (i + 1) + 1 : behind[j] = s[(i + 1) + j - 1]
    BY <2>1, SubSeqProperties
  <2> QED
    BY <1>1, <2>2
<1>4. RemoveAt(s, i) = before \o behind
  BY DEF RemoveAt, n
<1> HIDE DEF before, behind
<1>5. /\ before \o behind \in Seq(S) /\ Len(before \o behind) = (i - 1) + (n - i)
      /\ \A j \in 1 .. i - 1 : (before \o behind)[j] = before[j]
      /\ \A j \in 1 .. n - i : (before \o behind)[(i - 1) + j] = behind[j]
  <2>1. PICK p \in Nat, q \in Nat : p = i - 1 /\ q = n - i
    BY <1>1
  <2>2. Len(before) = p /\ Len(behind) = q
    BY <1>2, <1>3, <2>1
  <2>3. /\ before \o behind \in Seq(S) /\ Len(before \o behind) = p + q
        /\ \A j \in 1 .. p : (before \o behind)[j] = before[j]
        /\ \A j \in 1 .. q : (before \o behind)[p + j] = behind[j]
    <3>0. before \in Seq(S) /\ behind \in Seq(S)
      BY <1>2, <1>3
    <3>1. /\ before \o behind \in Seq(S) /\ Len(before \o behind) = Len(before) + Len(behind)
          /\ \A j \in 1 .. Len(before) : (before \o behind)[j] = before[j]
          /\ \A j \in 1 .. Len(behind) : (before \o behind)[Len(before) + j] = behind[j]
      BY ONLY <3>0, Joined
    <3> QED
      BY ONLY <2>2, <3>1
  <2> QED
    BY <2>1, <2>3
<1>6. ASSUME NEW j \in i .. n - 1
      PROVE  (before \o behind)[j] = s[j + 1]
  <2>1. PICK k \in 1 .. n - i : j = (i - 1) + k /\ i + k = j + 1
    <3>1. j - (i - 1) \in 1 .. n - i /\ j = (i - 1) + (j - (i - 1)) /\ i + (j - (i - 1)) = j + 1
      BY <1>1
    <3> QED
      BY <3>1
  <2> QED
    BY <1>3, <1>5, <2>1
<1>7. (i - 1) + (n - i) = n - 1
  BY <1>1
<1> QED
  BY <1>2, <1>4, <1>5, <1>6, <1>7 DEF n

\* A row that is put in, and those behind it move down.
LEMMA Inserted ==
  ASSUME NEW S, NEW s \in Seq(S), NEW i \in 1 .. Len(s) + 1, NEW e \in S
  PROVE  /\ InsertAt(s, i, e) \in Seq(S) /\ Len(InsertAt(s, i, e)) = Len(s) + 1
         /\ \A j \in 1 .. i - 1 : InsertAt(s, i, e)[j] = s[j]
         /\ InsertAt(s, i, e)[i] = e
         /\ \A j \in i .. Len(s) : InsertAt(s, i, e)[j + 1] = s[j]
<1> DEFINE n == Len(s)
           before == SubSeq(s, 1, i - 1)
           behind == SubSeq(s, i, n)
           front == before \o <<e>>
<1>1. n \in Nat /\ i \in 1 .. n + 1 /\ \A k \in 1 .. n : s[k] \in S
  BY LenProperties, ElementOfSeq
<1> HIDE DEF n
<1>2. /\ before \in Seq(S) /\ Len(before) = i - 1
      /\ \A j \in 1 .. i - 1 : before[j] = s[j]
  <2>1. 1 \in Int /\ i - 1 \in Int /\ \A k \in 1 .. i - 1 : s[k] \in S
    BY <1>1
  <2>2. /\ before \in Seq(S) /\ Len(before) = IF 1 <= i - 1 THEN (i - 1) - 1 + 1 ELSE 0
        /\ \A j \in 1 .. (i - 1) - 1 + 1 : before[j] = s[1 + j - 1]
    BY <2>1, SubSeqProperties
  <2> QED
    BY <1>1, <2>2
<1>3. /\ behind \in Seq(S) /\ Len(behind) = n - i + 1
      /\ \A j \in 1 .. n - i + 1 : behind[j] = s[i + j - 1]
  <2>1. i \in Int /\ n \in Int /\ \A k \in i .. n : s[k] \in S
    BY <1>1
  <2>2. /\ behind \in Seq(S) /\ Len(behind) = IF i <= n THEN n - i + 1 ELSE 0
        /\ \A j \in 1 .. n - i + 1 : behind[j] = s[i + j - 1]
    BY <2>1, SubSeqProperties
  <2> QED
    BY <1>1, <2>2
<1>4. InsertAt(s, i, e) = front \o behind
  BY DEF InsertAt, n
<1>5. <<e>> \in Seq(S) /\ Len(<<e>>) = 1 /\ <<e>>[1] = e
  OBVIOUS
<1> HIDE DEF before, behind
<1>6. /\ front \in Seq(S) /\ Len(front) = (i - 1) + 1
      /\ \A j \in 1 .. i - 1 : front[j] = before[j]
      /\ front[(i - 1) + 1] = e
  <2>1. i - 1 \in Nat /\ 1 \in Nat /\ 1 \in 1 .. 1
    BY <1>1
  <2>2. /\ front \in Seq(S) /\ Len(front) = Len(before) + Len(<<e>>)
        /\ \A j \in 1 .. Len(before) : front[j] = before[j]
        /\ \A j \in 1 .. Len(<<e>>) : front[Len(before) + j] = <<e>>[j]
    BY ONLY <1>2, <1>5, Joined
  <2> HIDE DEF front
  <2>3. front[(i - 1) + 1] = <<e>>[1]
    BY ONLY <1>2, <1>5, <2>1, <2>2
  <2> QED
    BY <1>2, <1>5, <2>2, <2>3
<1> HIDE DEF front
<1>7. /\ front \o behind \in Seq(S) /\ Len(front \o behind) = i + (n - i + 1)
      /\ \A j \in 1 .. i : (front \o behind)[j] = front[j]
      /\ \A j \in 1 .. n - i + 1 : (front \o behind)[i + j] = behind[j]
  <2>1. i \in Nat /\ (i - 1) + 1 = i
    BY <1>1
  <2>2. PICK q \in Nat : q = n - i + 1
    BY <1>1
  <2>3. Len(front) = i /\ Len(behind) = q
    BY <1>3, <1>6, <2>1, <2>2
  <2>4. /\ front \o behind \in Seq(S) /\ Len(front \o behind) = i + q
        /\ \A j \in 1 .. i : (front \o behind)[j] = front[j]
        /\ \A j \in 1 .. q : (front \o behind)[i + j] = behind[j]
    <3>0. front \in Seq(S) /\ behind \in Seq(S)
      BY <1>3, <1>6
    <3>1. /\ front \o behind \in Seq(S) /\ Len(front \o behind) = Len(front) + Len(behind)
          /\ \A j \in 1 .. Len(front) : (front \o behind)[j] = front[j]
          /\ \A j \in 1 .. Len(behind) : (front \o behind)[Len(front) + j] = behind[j]
      BY ONLY <3>0, Joined
    <3> QED
      BY ONLY <2>3, <3>1
  <2> QED
    BY <2>2, <2>4
<1>8. i + (n - i + 1) = n + 1 /\ (i - 1) + 1 = i /\ i \in 1 .. i
  BY <1>1
<1>9. \A j \in 1 .. i - 1 : (front \o behind)[j] = s[j]
  <2>1. \A j \in 1 .. i - 1 : j \in 1 .. i
    BY <1>1
  <2> QED
    BY <1>2, <1>6, <1>7, <2>1
<1>10. (front \o behind)[i] = e
  BY <1>6, <1>7, <1>8
<1>11. ASSUME NEW j \in i .. n
       PROVE  (front \o behind)[j + 1] = s[j]
  <2>1. PICK k \in 1 .. n - i + 1 : j + 1 = i + k /\ i + k - 1 = j
    <3>1. j - i + 1 \in 1 .. n - i + 1 /\ j + 1 = i + (j - i + 1) /\ i + (j - i + 1) - 1 = j
      BY <1>1
    <3> QED
      BY <3>1
  <2> QED
    BY <1>3, <1>7, <2>1
<1> QED
  BY <1>4, <1>7, <1>8, <1>9, <1>10, <1>11 DEF n

\* Names increase down the table, as they do in a store sorted by name.
InNameOrder(rows) ==
  \A i, j \in 1 .. Len(rows) : i < j => rows[i].name < rows[j].name

\* The figures of a row are numbers.
LEMMA RowNumbers ==
  ASSUME NEW row \in Row
  PROVE  row.name \in Prot /\ row.name \in Nat /\ row.traffic \in Traffic
BY WindowsAssumption DEF Row

\* The rows of a table that a row is put behind, and its place then.
NotGreater(rest, row, column) ==
  {j \in DOMAIN rest : protocols_table_compare(rest[j], row, column) <= 0}
Place(rest, row, column) == Cardinality(NotGreater(rest, row, column)) + 1

\* The store puts a row that is set among the others.
LEMMA Moved ==
  ASSUME NEW rows \in Seq(Row), NEW i \in 1 .. Len(rows), NEW column,
         NEW rest, rest = RemoveAt(rows, i),
         NEW k, k = Place(rest, rows[i], column)
  PROVE  /\ rest \in Seq(Row) /\ Len(rest) = Len(rows) - 1 /\ k \in 1 .. Len(rows)
         /\ \A j \in 1 .. i - 1 : rest[j] = rows[j]
         /\ \A j \in i .. Len(rows) - 1 : rest[j] = rows[j + 1]
         /\ RowMoved(rows, i, column) = [rows |-> InsertAt(rest, k, rows[i]), at |-> k]
<1> DEFINE before == NotGreater(rest, rows[i], column)
<1>1. /\ rest \in Seq(Row) /\ Len(rest) = Len(rows) - 1
      /\ \A j \in 1 .. i - 1 : rest[j] = rows[j]
      /\ \A j \in i .. Len(rows) - 1 : rest[j] = rows[j + 1]
  BY Removed
<1>2. Len(rows) \in Nat /\ Len(rows) - 1 \in Nat /\ DOMAIN rest = 1 .. Len(rows) - 1
  BY <1>1, LenProperties
<1>3. before \subseteq 1 .. Len(rows) - 1
  BY <1>2 DEF NotGreater
<1>4. IsFiniteSet(1 .. Len(rows) - 1) /\ Cardinality(1 .. Len(rows) - 1) = Len(rows) - 1
  BY <1>2, FS_Interval
<1>5. IsFiniteSet(before) /\ Cardinality(before) <= Len(rows) - 1
  BY <1>3, <1>4, FS_Subset
<1>6. Cardinality(before) \in Nat
  BY <1>5, FS_CardinalityType
<1>7. RowMoved(rows, i, column) = [rows |-> InsertAt(rest, k, rows[i]), at |-> k]
  BY DEF RowMoved, Place, NotGreater
<1>8. k = Cardinality(before) + 1
  BY DEF Place
<1> HIDE DEF before
<1>9. k \in 1 .. Len(rows)
  BY <1>2, <1>5, <1>6, <1>8
<1> QED
  BY <1>1, <1>7, <1>9

\* A row that is set stays one of as many.
LEMMA MovedType ==
  ASSUME NEW rows \in Seq(Row), NEW i \in 1 .. Len(rows), NEW column
  PROVE  /\ RowMoved(rows, i, column).rows \in Seq(Row)
         /\ Len(RowMoved(rows, i, column).rows) = Len(rows)
         /\ RowMoved(rows, i, column).at \in 1 .. Len(rows)
<1> DEFINE rest == RemoveAt(rows, i)
           k == Place(rest, rows[i], column)
<1>1. /\ rest \in Seq(Row) /\ Len(rest) = Len(rows) - 1 /\ k \in 1 .. Len(rows)
      /\ RowMoved(rows, i, column) = [rows |-> InsertAt(rest, k, rows[i]), at |-> k]
  BY Moved
<1> HIDE DEF rest, k
<1>2. Len(rows) \in Nat /\ rows[i] \in Row
  BY LenProperties, ElementOfSeq
<1>3. k \in 1 .. Len(rest) + 1 /\ Len(rest) + 1 = Len(rows)
  BY <1>1, <1>2
<1>4. InsertAt(rest, k, rows[i]) \in Seq(Row) /\ Len(InsertAt(rest, k, rows[i])) = Len(rest) + 1
  BY <1>1, <1>2, <1>3, Inserted
<1> QED
  BY <1>1, <1>3, <1>4

\* The rows before a place are counted.
LEMMA CountedFromStart ==
  ASSUME NEW n \in Nat, NEW B \in SUBSET (1 .. n), \A j \in B : \A i \in 1 .. j : i \in B
  PROVE  Cardinality(B) \in 0 .. n /\ B = 1 .. Cardinality(B)
<1> DEFINE Gap == (1 .. n + 1) \ B
<1>1. Gap \subseteq Nat /\ n + 1 \in Gap
  OBVIOUS
<1> HIDE DEF Gap
<1>2. PICK m \in Gap : \A j \in Gap : ~ (<<j, m>> \in OpToRel(<, Nat))
  BY ONLY <1>1, NatLessThanWellFounded, WFMin
<1>3. \A j \in Gap : ~ (j < m)
  BY <1>1, <1>2 DEF OpToRel
<1>4. m \in 1 .. n + 1 /\ m \notin B
  BY <1>2 DEF Gap
<1>5. \A j \in 1 .. m - 1 : j \in B
  BY <1>3, <1>4 DEF Gap
<1>6. \A j \in B : j \in 1 .. m - 1
  <2> SUFFICES ASSUME NEW j \in B, ~ (j \in 1 .. m - 1)
               PROVE  FALSE
    OBVIOUS
  <2>1. m \in 1 .. j
    BY <1>4
  <2> QED
    BY <1>4, <2>1
<1>7. B = 1 .. m - 1
  BY <1>5, <1>6
<1>8. Cardinality(1 .. m - 1) = m - 1
  BY <1>4, FS_Interval
<1> QED
  BY <1>4, <1>7, <1>8

\* A row in its place stays there in a store sorted by name.
LEMMA RowStays ==
  ASSUME NEW r \in Seq(Row), InNameOrder(r), NEW at \in 1 .. Len(r)
  PROVE  RowMoved(r, at, "name") = [rows |-> r, at |-> at]
<1> DEFINE n == Len(r)
           row == r[at]
           rest == RemoveAt(r, at)
           before == NotGreater(rest, r[at], "name")
           k == Place(rest, r[at], "name")
<1>1. n \in Nat /\ at \in 1 .. n /\ row \in Row /\ \A j \in 1 .. n : r[j] \in Row
  BY LenProperties, ElementOfSeq
<1>2. /\ rest \in Seq(Row) /\ Len(rest) = n - 1
      /\ \A j \in 1 .. at - 1 : rest[j] = r[j]
      /\ \A j \in at .. n - 1 : rest[j] = r[j + 1]
      /\ RowMoved(r, at, "name") = [rows |-> InsertAt(rest, k, r[at]), at |-> k]
  BY Moved
<1> HIDE DEF n
<1>3. DOMAIN rest = 1 .. n - 1
  BY <1>2, LenProperties
<1> HIDE DEF rest
<1>5. ASSUME NEW j \in 1 .. n - 1
      PROVE  j \in before <=> j < at
  <2>1. j \in before <=> rest[j].name - row.name <= 0
    BY <1>1, <1>3 DEF NotGreater, protocols_table_compare
  <2>2. row.name \in Nat
    BY <1>1, RowNumbers
  <2>3. CASE j < at
    <3>0. j \in 1 .. at - 1 /\ j \in 1 .. n
      BY <1>1, <2>3
    <3>1. rest[j] = r[j] /\ j \in 1 .. n /\ r[j].name \in Nat
      BY <1>1, <1>2, <3>0, RowNumbers
    <3>2. r[j].name < row.name
      BY <1>1, <2>3, <3>1 DEF InNameOrder, n
    <3> QED
      BY <2>1, <2>2, <2>3, <3>1, <3>2
  <2>4. CASE ~ (j < at)
    <3>0. j \in at .. n - 1 /\ j + 1 \in 1 .. n /\ at < j + 1
      BY <1>1, <2>4
    <3>1. rest[j] = r[j + 1] /\ j + 1 \in 1 .. n /\ at < j + 1
      BY <1>2, <3>0
    <3>2. r[j + 1].name \in Nat
      BY <1>1, <3>1, RowNumbers
    <3>3. row.name < r[j + 1].name
      BY <1>1, <3>1 DEF InNameOrder, n
    <3> QED
      BY <2>1, <2>2, <2>4, <3>1, <3>2, <3>3
  <2> QED
    BY <2>3, <2>4
<1>6. before = 1 .. at - 1
  <2>1. before \subseteq 1 .. n - 1
    BY <1>3 DEF NotGreater
  <2> HIDE DEF before
  <2>2. \A j : j \in 1 .. at - 1 <=> j \in 1 .. n - 1 /\ j < at
    BY <1>1
  <2> QED
    BY <1>5, <2>1, <2>2
<1>7. k = at
  <2>1. Cardinality(1 .. at - 1) = at - 1
    BY <1>1, FS_Interval
  <2> HIDE DEF before
  <2>2. k = (at - 1) + 1
    BY <1>6, <2>1 DEF Place, before
  <2> QED
    BY <1>1, <2>2
<1> HIDE DEF k, before
<1>8. InsertAt(rest, at, row) = r
  <2>1. at \in 1 .. Len(rest) + 1 /\ Len(rest) + 1 = n
    BY <1>1, <1>2
  <2>2. /\ InsertAt(rest, at, row) \in Seq(Row) /\ Len(InsertAt(rest, at, row)) = Len(rest) + 1
        /\ \A j \in 1 .. at - 1 : InsertAt(rest, at, row)[j] = rest[j]
        /\ InsertAt(rest, at, row)[at] = row
        /\ \A j \in at .. Len(rest) : InsertAt(rest, at, row)[j + 1] = rest[j]
    <3>1. rest \in Seq(Row) /\ row \in Row /\ at \in 1 .. Len(rest) + 1
      BY <1>1, <1>2, <2>1
    <3> HIDE DEF row
    <3> QED
      BY ONLY <3>1, Inserted
  <2>3. ASSUME NEW j \in 1 .. n
        PROVE  InsertAt(rest, at, row)[j] = r[j]
    <3>1. CASE j < at
      <4>1. j \in 1 .. at - 1 /\ j # at
        BY <1>1, <3>1
      <4> QED
        BY <1>1, <1>2, <2>2, <4>1
    <3>2. CASE j = at
      BY <1>1, <2>2, <3>2
    <3>3. CASE j > at
      <4>1. PICK m \in at .. n - 1 : j = m + 1 /\ j # at
        <5>1. j - 1 \in at .. n - 1 /\ j = (j - 1) + 1 /\ j # at
          BY <1>1, <3>3
        <5> QED
          BY <5>1
      <4>2. InsertAt(rest, at, row)[m + 1] = r[m + 1]
        BY <1>2, <2>2
      <4> QED
        BY <1>1, <4>1, <4>2
    <3>4. j < at \/ j = at \/ j > at
      BY <1>1
    <3> QED
      BY <3>1, <3>2, <3>3, <3>4
  <2>4. Len(InsertAt(rest, at, row)) = n
    BY <2>1, <2>2
  <2> HIDE DEF row
  <2> QED
    BY <1>1, <2>2, <2>3, <2>4, SeqEqual DEF n
<1> QED
  BY <1>2, <1>7, <1>8

\* A row put in its place leaves the names increasing.
LEMMA InsertKeepsOrder ==
  ASSUME NEW rows \in Seq(Row), InNameOrder(rows), NEW x \in Row, NEW k \in 1 .. Len(rows) + 1,
         \A j \in 1 .. k - 1 : rows[j].name < x.name,
         \A j \in k .. Len(rows) : x.name < rows[j].name
  PROVE  /\ InsertAt(rows, k, x) \in Seq(Row) /\ Len(InsertAt(rows, k, x)) = Len(rows) + 1
         /\ InNameOrder(InsertAt(rows, k, x))
         /\ Range(InsertAt(rows, k, x)) = Range(rows) \cup {x}
<1> DEFINE r == InsertAt(rows, k, x)
           n == Len(rows)
<1>1. n \in Nat /\ k \in 1 .. n + 1 /\ \A j \in 1 .. n : rows[j] \in Row
  BY LenProperties, ElementOfSeq
<1>2. /\ r \in Seq(Row) /\ Len(r) = n + 1
      /\ \A j \in 1 .. k - 1 : r[j] = rows[j]
      /\ r[k] = x
      /\ \A j \in k .. n : r[j + 1] = rows[j]
  BY Inserted
<1>3. /\ \A j \in 1 .. k - 1 : rows[j].name < x.name
      /\ \A j \in k .. n : x.name < rows[j].name
      /\ \A i, j \in 1 .. n : i < j => rows[i].name < rows[j].name
  BY DEF InNameOrder
<1> HIDE DEF r, n
<1>4. ASSUME NEW i \in 1 .. n + 1
      PROVE  \/ i \in 1 .. k - 1 /\ i \in 1 .. n /\ r[i] = rows[i]
             \/ i = k /\ r[i] = x
             \/ i > k /\ i - 1 \in k .. n /\ i - 1 \in 1 .. n /\ r[i] = rows[i - 1]
  <2>1. CASE i < k
    <3>1. i \in 1 .. k - 1 /\ i \in 1 .. n
      BY <1>1, <2>1
    <3> QED
      BY <1>2, <3>1
  <2>2. CASE i > k
    <3>1. i - 1 \in k .. n /\ i - 1 \in 1 .. n /\ (i - 1) + 1 = i
      BY <1>1, <2>2
    <3>2. r[(i - 1) + 1] = rows[i - 1]
      BY <1>2, <3>1
    <3> QED
      BY <2>2, <3>1, <3>2
  <2> QED
    BY <1>1, <1>2, <2>1, <2>2
<1>5. ASSUME NEW i \in 1 .. n + 1, NEW j \in 1 .. n + 1, i < j
      PROVE  r[i].name < r[j].name
  <2>1. CASE i \in 1 .. k - 1 /\ i \in 1 .. n /\ r[i] = rows[i]
    <3>1. CASE j \in 1 .. k - 1 /\ j \in 1 .. n /\ r[j] = rows[j]
      BY <1>3, <1>5, <2>1, <3>1
    <3>2. CASE j = k /\ r[j] = x
      BY <1>3, <2>1, <3>2
    <3>3. CASE j > k /\ j - 1 \in k .. n /\ j - 1 \in 1 .. n /\ r[j] = rows[j - 1]
      <4>1. i < j - 1
        BY <1>1, <2>1, <3>3
      <4> QED
        BY <1>3, <2>1, <3>3, <4>1
    <3> QED
      BY <1>4, <3>1, <3>2, <3>3
  <2>2. CASE i = k /\ r[i] = x
    <3>1. j > k /\ j - 1 \in k .. n /\ r[j] = rows[j - 1]
      BY <1>1, <1>4, <1>5, <2>2
    <3> QED
      BY <1>3, <2>2, <3>1
  <2>3. CASE i > k /\ i - 1 \in k .. n /\ i - 1 \in 1 .. n /\ r[i] = rows[i - 1]
    <3>1. j > k /\ j - 1 \in 1 .. n /\ r[j] = rows[j - 1]
      BY <1>1, <1>4, <1>5, <2>3
    <3>2. i - 1 < j - 1
      BY <1>1, <1>5
    <3> QED
      BY <1>3, <2>3, <3>1, <3>2
  <2> QED
    BY <1>4, <2>1, <2>2, <2>3
<1>6. Range(r) = {r[i] : i \in 1 .. n + 1} /\ Range(rows) = {rows[i] : i \in 1 .. n}
  BY <1>2, RangeEquality DEF n
<1>7. ASSUME NEW i \in 1 .. n + 1
      PROVE  r[i] \in Range(rows) \cup {x}
  BY <1>4, <1>6
<1>8. ASSUME NEW j \in 1 .. n
      PROVE  rows[j] \in Range(r)
  <2>1. CASE j < k
    <3>1. j \in 1 .. k - 1 /\ j \in 1 .. n + 1
      BY <1>1, <2>1
    <3> QED
      BY <1>2, <1>6, <3>1
  <2>2. CASE ~ (j < k)
    <3>1. j \in k .. n /\ j + 1 \in 1 .. n + 1
      BY <1>1, <2>2
    <3> QED
      BY <1>2, <1>6, <3>1
  <2> QED
    BY <2>1, <2>2
<1>9. x \in Range(r)
  BY <1>1, <1>2, <1>6
<1>10. Range(r) = Range(rows) \cup {x}
  BY <1>6, <1>7, <1>8, <1>9
<1>11. InNameOrder(r)
  BY <1>2, <1>5 DEF InNameOrder
<1> QED
  BY <1>2, <1>10, <1>11 DEF r, n

\* A row that is taken off the end again leaves what was there.
LEMMA AppendUndone ==
  ASSUME NEW S, NEW s \in Seq(S), NEW e \in S
  PROVE  /\ Append(s, e) \in Seq(S) /\ Len(Append(s, e)) = Len(s) + 1
         /\ Append(s, e)[Len(s) + 1] = e
         /\ RemoveAt(Append(s, e), Len(s) + 1) = s
<1> DEFINE t == Append(s, e)
           n == Len(s)
           u == RemoveAt(t, n + 1)
<1>1. /\ t \in Seq(S) /\ Len(t) = n + 1 /\ n \in Nat
      /\ \A i \in 1 .. n : t[i] = s[i]
      /\ t[n + 1] = e
  BY AppendProperties, LenProperties
<1> HIDE DEF t
<1>2. n + 1 \in 1 .. Len(t)
  BY <1>1
<1>3. /\ u \in Seq(S) /\ Len(u) = Len(t) - 1
      /\ \A j \in 1 .. (n + 1) - 1 : u[j] = t[j]
  <2> HIDE DEF n
  <2> QED
    BY <1>1, <1>2, Removed
<1> HIDE DEF u
<1>4. Len(u) = n /\ \A j \in 1 .. n : u[j] = s[j]
  BY <1>1, <1>3
<1>5. u = s
  BY <1>3, <1>4, SeqEqual
<1> QED
  BY <1>1, <1>5 DEF t, u

\* A row that is new in a store sorted by name goes where its name belongs.
LEMMA RowAdded ==
  ASSUME NEW rows \in Seq(Row), InNameOrder(rows), NEW x \in Row,
         \A i \in 1 .. Len(rows) : rows[i].name # x.name,
         NEW r, r = RowMoved(Append(rows, x), Len(rows) + 1, "name").rows
  PROVE  /\ r \in Seq(Row) /\ Len(r) = Len(rows) + 1 /\ InNameOrder(r)
         /\ Range(r) = Range(rows) \cup {x}
<1> DEFINE n == Len(rows)
           B == NotGreater(rows, x, "name")
           k == Place(rows, x, "name")
<1>1. n \in Nat /\ DOMAIN rows = 1 .. n /\ \A j \in 1 .. n : rows[j] \in Row /\ rows[j].name \in Nat
  BY LenProperties, ElementOfSeq, RowNumbers
<1>2. x.name \in Nat
  BY RowNumbers
<1>3. r = InsertAt(rows, k, x)
  <2>1. /\ Append(rows, x) \in Seq(Row) /\ Len(Append(rows, x)) = n + 1
        /\ Append(rows, x)[n + 1] = x /\ RemoveAt(Append(rows, x), n + 1) = rows
    BY AppendUndone
  <2>2. RowMoved(Append(rows, x), n + 1, "name").rows = InsertAt(rows, k, x)
    BY <2>1 DEF RowMoved, Place, NotGreater
  <2> QED
    BY <2>2
<1>4. \A j \in 1 .. n : j \in B <=> rows[j].name < x.name
  BY <1>1, <1>2 DEF NotGreater, protocols_table_compare
<1>5. B \in SUBSET (1 .. n)
  BY <1>1 DEF NotGreater
<1> HIDE DEF n, B
<1>6. ASSUME NEW j \in B, NEW i \in 1 .. j
      PROVE  i \in B
  <2>1. i \in 1 .. n /\ j \in 1 .. n /\ rows[j].name < x.name
    BY <1>1, <1>4, <1>5
  <2>2. i = j \/ i < j
    BY <2>1
  <2>3. rows[i].name <= rows[j].name
    BY <1>1, <2>1, <2>2 DEF InNameOrder, n
  <2> QED
    BY <1>1, <1>2, <1>4, <2>1, <2>3
<1>7. Cardinality(B) \in 0 .. n /\ B = 1 .. Cardinality(B)
  BY <1>1, <1>5, <1>6, CountedFromStart
<1>8. k = Cardinality(B) + 1
  BY DEF Place, B
<1> HIDE DEF k
<1>9. k \in 1 .. n + 1 /\ k - 1 = Cardinality(B)
  BY <1>1, <1>7, <1>8
<1>10. \A j \in 1 .. k - 1 : rows[j].name < x.name
  BY <1>4, <1>5, <1>7, <1>9
<1>11. ASSUME NEW j \in k .. n
       PROVE  x.name < rows[j].name
  <2>1. j \in 1 .. n /\ j \notin B
    BY <1>1, <1>7, <1>9
  <2>2. rows[j].name # x.name
    BY <2>1 DEF n
  <2> QED
    BY <1>1, <1>2, <1>4, <2>1, <2>2
<1> QED
  BY <1>3, <1>9, <1>10, <1>11, InsertKeepsOrder DEF n

-----------------------------------------------------------------------------
(* The walk over the table of protocols.                                   *)

\* The summary has each protocol once.
Distinct(s) == \A i, j \in 1 .. Len(s) : i # j => s[i].name # s[j].name

\* Those behind the first differ from it and among themselves.
LEMMA DistinctTail ==
  ASSUME NEW s \in Seq(Row), s # <<>>, Distinct(s)
  PROVE  /\ Distinct(Tail(s))
         /\ \A b \in Range(Tail(s)) : b.name # Head(s).name
<1> DEFINE t == Tail(s)
           n == Len(s)
<1>1. /\ t \in Seq(Row) /\ Len(t) = n - 1 /\ n \in Nat /\ n > 0
      /\ \A i \in 1 .. n - 1 : t[i] = s[i + 1]
      /\ Head(s) = s[1]
  <2>1. /\ t \in Seq(Row) /\ Len(t) = n - 1
        /\ \A i \in 1 .. Len(t) : t[i] = s[i + 1]
    BY HeadTailProperties
  <2> HIDE DEF t
  <2> QED
    BY <2>1, HeadTailRange
<1>2. Range(t) = {t[i] : i \in 1 .. n - 1}
  BY <1>1, RangeEquality
<1>3. \A i, j \in 1 .. n : i # j => s[i].name # s[j].name
  BY DEF Distinct
<1> HIDE DEF t, n
<1>4. ASSUME NEW i \in 1 .. n - 1
      PROVE  t[i] = s[i + 1] /\ i + 1 \in 1 .. n /\ i + 1 # 1 /\ 1 \in 1 .. n
  BY <1>1
<1>5. \A i \in 1 .. n - 1 : t[i].name # s[1].name
  BY <1>3, <1>4
<1>6. ASSUME NEW i \in 1 .. n - 1, NEW j \in 1 .. n - 1, i # j
      PROVE  t[i].name # t[j].name
  <2>1. i + 1 # j + 1
    BY <1>6
  <2> QED
    BY <1>3, <1>4, <2>1
<1>7. Distinct(t)
  BY <1>1, <1>6 DEF Distinct
<1> QED
  BY <1>1, <1>2, <1>5, <1>7 DEF t

\* The first m rows.
Shown(rows, m) == {rows[i] : i \in 1 .. m}

\* How many rows are done with when the iterator is at a row, or past the last.
Passed(rows, at) == IF at = 0 THEN Len(rows) ELSE at - 1

\* The rows done with and the protocols to come are those of the summary.
Tracks(rows, m, protos, stack) ==
  /\ InNameOrder(rows)
  /\ m \in 0 .. Len(rows)
  /\ Distinct(protos)
  /\ \A a \in Shown(rows, m), b \in Range(protos) : a.name # b.name
  /\ m + Len(protos) = Len(stack)
  /\ Shown(rows, m) \cup Range(protos) = Range(stack)

\* A protocol that has its row is done with.
LEMMA TracksOn ==
  ASSUME NEW rows \in Seq(Row), NEW m \in Nat, NEW protos \in Seq(Row), protos # <<>>,
         NEW stack \in Seq(Row), Tracks(rows, m, protos, stack),
         NEW r \in Seq(Row), InNameOrder(r), m + 1 <= Len(r),
         Shown(r, m + 1) = Shown(rows, m) \cup {Head(protos)}
  PROVE  Tracks(r, m + 1, Tail(protos), stack)
<1> DEFINE t == Tail(protos)
           n == Len(protos)
           l == Len(t)
           k == Len(stack)
<1>1. /\ t \in Seq(Row) /\ l = n - 1 /\ n \in Nat /\ l \in Nat
      /\ Range(protos) = {Head(protos)} \cup Range(t)
  BY HeadTailRange
<1>2. Distinct(protos) /\ m + n = k
  BY DEF Tracks
<1>3. /\ Distinct(t)
      /\ \A b \in Range(t) : b.name # Head(protos).name
  BY <1>2, DistinctTail
<1>4. m + 1 \in 0 .. Len(r)
  BY LenProperties
<1> HIDE DEF l, n, k
<1>5. (m + 1) + l = k
  BY <1>1, <1>2
<1>6. \A a \in Shown(r, m + 1), b \in Range(t) : a.name # b.name
  BY <1>1, <1>3 DEF Tracks
<1>7. Shown(r, m + 1) \cup Range(t) = Range(stack)
  BY <1>1 DEF Tracks
<1> QED
  BY <1>3, <1>4, <1>5, <1>6, <1>7 DEF Tracks, l, k

\* A table that loses a row keeps the names increasing and the rows before it.
LEMMA RowGone ==
  ASSUME NEW rows \in Seq(Row), InNameOrder(rows), NEW at \in 1 .. Len(rows)
  PROVE  /\ RemoveAt(rows, at) \in Seq(Row) /\ Len(RemoveAt(rows, at)) = Len(rows) - 1
         /\ InNameOrder(RemoveAt(rows, at))
         /\ Shown(RemoveAt(rows, at), at - 1) = Shown(rows, at - 1)
<1> DEFINE r == RemoveAt(rows, at)
           n == Len(rows)
<1>1. n \in Nat /\ at \in 1 .. n
  BY LenProperties
<1>2. /\ r \in Seq(Row) /\ Len(r) = n - 1
      /\ \A j \in 1 .. at - 1 : r[j] = rows[j]
      /\ \A j \in at .. n - 1 : r[j] = rows[j + 1]
  BY Removed
<1>3. \A i, j \in 1 .. n : i < j => rows[i].name < rows[j].name
  BY DEF InNameOrder
<1> HIDE DEF r, n
<1>4. ASSUME NEW i \in 1 .. n - 1
      PROVE  \/ i < at /\ i \in 1 .. n /\ r[i] = rows[i]
             \/ i >= at /\ i + 1 \in 1 .. n /\ r[i] = rows[i + 1]
  <2>1. CASE i < at
    <3>1. i \in 1 .. at - 1 /\ i \in 1 .. n
      BY <1>1, <2>1
    <3> QED
      BY <1>2, <2>1, <3>1
  <2>2. CASE i >= at
    <3>1. i \in at .. n - 1 /\ i + 1 \in 1 .. n
      BY <1>1, <2>2
    <3> QED
      BY <1>2, <2>2, <3>1
  <2> QED
    BY <1>1, <2>1, <2>2
<1>5. ASSUME NEW i \in 1 .. n - 1, NEW j \in 1 .. n - 1, i < j
      PROVE  r[i].name < r[j].name
  <2>1. i < j /\ i < j + 1 /\ i + 1 < j + 1 /\ (i >= at => j >= at)
    BY <1>1, <1>5
  <2>2. CASE i < at /\ i \in 1 .. n /\ r[i] = rows[i]
    BY <1>3, <1>4, <2>1, <2>2
  <2>3. CASE i >= at /\ i + 1 \in 1 .. n /\ r[i] = rows[i + 1]
    <3>1. j + 1 \in 1 .. n /\ r[j] = rows[j + 1]
      BY <1>1, <1>4, <2>1, <2>3
    <3> QED
      BY <1>3, <2>1, <2>3, <3>1
  <2> QED
    BY <1>4, <2>2, <2>3
<1>6. InNameOrder(r)
  BY <1>2, <1>5 DEF InNameOrder
<1>7. Shown(r, at - 1) = Shown(rows, at - 1)
  BY <1>2 DEF Shown
<1> QED
  BY <1>2, <1>6, <1>7 DEF r, n

\* A row whose figures change leaves the names increasing.
LEMMA RowSet ==
  ASSUME NEW rows \in Seq(Row), InNameOrder(rows), NEW at \in 1 .. Len(rows),
         NEW r \in Seq(Row), Len(r) = Len(rows), r[at].name = rows[at].name,
         \A j \in 1 .. Len(rows) : j # at => r[j] = rows[j]
  PROVE  InNameOrder(r) /\ Shown(r, at) = Shown(rows, at - 1) \cup {r[at]}
<1> DEFINE n == Len(rows)
<1>1. /\ Len(r) = n /\ n \in Nat /\ at \in 1 .. n
      /\ \A j \in 1 .. n : j # at => r[j] = rows[j]
  BY LenProperties
<1>2. \A i, j \in 1 .. n : i < j => rows[i].name < rows[j].name
  BY DEF InNameOrder
<1> HIDE DEF n
<1>3. \A j \in 1 .. n : r[j].name = rows[j].name
  BY <1>1
<1>4. InNameOrder(r)
  BY <1>1, <1>2, <1>3 DEF InNameOrder
<1>5. \A j \in 1 .. at - 1 : r[j] = rows[j] /\ j \in 1 .. at
  BY <1>1
<1>6. \A j \in 1 .. at : j = at \/ j \in 1 .. at - 1
  BY <1>1
<1>7. at \in 1 .. at
  BY <1>1
<1>8. Shown(r, at) = Shown(rows, at - 1) \cup {r[at]}
  BY <1>5, <1>6, <1>7 DEF Shown
<1> QED
  BY <1>4, <1>8

\* The walk behind a row that has been set.
RowDone(m, protos) == [rows |-> m.rows, at |-> NextRow(m.rows, m.at), protos |-> protos]

\* The three cases of a step of the walk.
StepCases(rows, at, protos, column, x) ==
  /\ at = 0 =>
       x = [rows |-> RowMoved(Append(rows, Head(protos)), Len(rows) + 1, column).rows,
            at |-> 0, protos |-> Tail(protos)]
  /\ at # 0 /\ rows[at].name # Head(protos).name =>
       x = [rows |-> RemoveAt(rows, at), at |-> RowBehind(rows, at), protos |-> protos]
  /\ at # 0 /\ rows[at].name = Head(protos).name =>
       x = RowDone(RowMoved([rows EXCEPT ![at] = Head(protos)], at, column), Tail(protos))

\* A step of the walk is one of the three.
LEMMA ProtocolsCases ==
  ASSUME NEW rows, NEW at, NEW protos, NEW column
  PROVE  StepCases(rows, at, protos, column,
                   update_protocols_row([rows |-> rows, at |-> at, protos |-> protos], column))
<1> DEFINE proto == Head(protos)
           added == RowMoved(Append(rows, proto), Len(rows) + 1, column)
           moved == RowMoved([rows EXCEPT ![at] = proto], at, column)
           X1 == [rows |-> added.rows, at |-> 0, protos |-> Tail(protos)]
           X2 == [rows |-> RemoveAt(rows, at), at |-> RowBehind(rows, at), protos |-> protos]
           X3 == RowDone(moved, Tail(protos))
           x == update_protocols_row([rows |-> rows, at |-> at, protos |-> protos], column)
<1>1. x = CASE at = 0 -> X1
            [] at # 0 /\ rows[at].name # proto.name -> X2
            [] at # 0 /\ rows[at].name = proto.name -> X3
  BY DEF update_protocols_row, RowDone
<1> HIDE DEF X1, X2, X3, x
<1>2. /\ at = 0 => x = X1
      /\ at # 0 /\ rows[at].name # proto.name => x = X2
      /\ at # 0 /\ rows[at].name = proto.name => x = X3
  BY <1>1
<1> QED
  BY <1>2 DEF X1, X2, X3, x, StepCases

\* A step of the walk leaves rows, a place among them and protocols, and fewer
\* steps to come, whatever the store is sorted by.
LEMMA ProtocolsStep ==
  ASSUME NEW rows \in Seq(Row), NEW at \in 0 .. Len(rows), NEW protos \in Seq(Row),
         protos # <<>>, NEW column, NEW x,
         x = update_protocols_row([rows |-> rows, at |-> at, protos |-> protos], column)
  PROVE  \E r \in Seq(Row), p \in Seq(Row) : \E a \in 0 .. Len(r) :
           /\ x = [rows |-> r, at |-> a, protos |-> p]
           /\ 2 * Len(p) + Len(r) < 2 * Len(protos) + Len(rows)
<1> DEFINE proto == Head(protos)
           n == Len(rows)
           k == Len(protos)
           t == Tail(protos)
<1>1. /\ proto \in Row /\ t \in Seq(Row) /\ Len(t) = k - 1 /\ k \in Nat /\ k > 0 /\ n \in Nat
  BY HeadTailRange, LenProperties
<1> DEFINE X1 == [rows |-> RowMoved(Append(rows, proto), n + 1, column).rows, at |-> 0, protos |-> t]
           X2 == [rows |-> RemoveAt(rows, at), at |-> RowBehind(rows, at), protos |-> protos]
           X3 == RowDone(RowMoved([rows EXCEPT ![at] = proto], at, column), t)
<1>b. StepCases(rows, at, protos, column, x)
  BY ONLY ProtocolsCases,
          x = update_protocols_row([rows |-> rows, at |-> at, protos |-> protos], column)
<1>a. /\ at = 0 => x = X1
      /\ at # 0 /\ rows[at].name # proto.name => x = X2
      /\ at # 0 /\ rows[at].name = proto.name => x = X3
  BY <1>b DEF StepCases
<1> HIDE DEF proto, n, k, t
<1>2. CASE at = 0
  <2> DEFINE r == RowMoved(Append(rows, proto), n + 1, column).rows
  <2>1. x = [rows |-> r, at |-> 0, protos |-> t]
    BY <1>a, <1>2
  <2>2. Append(rows, proto) \in Seq(Row) /\ Len(Append(rows, proto)) = n + 1
    BY <1>1, AppendUndone DEF n
  <2>3. n + 1 \in 1 .. Len(Append(rows, proto))
    BY <1>1, <2>2
  <2>4. r \in Seq(Row) /\ Len(r) = n + 1
    BY <2>2, <2>3, MovedType
  <2> HIDE DEF r
  <2>5. 2 * (k - 1) + (n + 1) < 2 * k + n /\ 0 \in 0 .. n + 1
    BY <1>1
  <2> QED
    BY <1>1, <2>1, <2>4, <2>5 DEF k, n
<1>3. CASE at # 0 /\ rows[at].name # proto.name
  <2> DEFINE r == RemoveAt(rows, at)
             a == RowBehind(rows, at)
  <2>1. x = [rows |-> r, at |-> a, protos |-> protos]
    BY <1>a, <1>3
  <2>2. at \in 1 .. n
    BY <1>1, <1>3 DEF n
  <2>3. r \in Seq(Row) /\ Len(r) = n - 1
    BY <2>2, Removed DEF n
  <2>4. a \in 0 .. n - 1
    BY <1>1, <2>2 DEF RowBehind, n
  <2> HIDE DEF r, a
  <2>5. 2 * k + (n - 1) < 2 * k + n
    BY <1>1
  <2> QED
    BY <1>1, <2>1, <2>3, <2>4, <2>5 DEF k, n
<1>4. CASE at # 0 /\ rows[at].name = proto.name
  <2> DEFINE s == [rows EXCEPT ![at] = proto]
           m == RowMoved(s, at, column)
  <2>1. x = [rows |-> m.rows, at |-> NextRow(m.rows, m.at), protos |-> t]
    BY <1>a, <1>4 DEF RowDone
  <2>2. at \in 1 .. n
    BY <1>1, <1>4 DEF n
  <2>3. s \in Seq(Row) /\ Len(s) = n
    BY <1>1, <2>2, ExceptSeq DEF n
  <2> HIDE DEF s, m
  <2>4. m.rows \in Seq(Row) /\ Len(m.rows) = n /\ m.at \in 1 .. n
    <3>1. at \in 1 .. Len(s)
      BY <2>2, <2>3
    <3>2. /\ m.rows \in Seq(Row) /\ Len(m.rows) = Len(s) /\ m.at \in 1 .. Len(s)
      BY <2>3, <3>1, MovedType DEF m
    <3> QED
      BY <2>3, <3>2
  <2>5. NextRow(m.rows, m.at) \in 0 .. n
    BY <1>1, <2>4 DEF NextRow
  <2>6. 2 * (k - 1) + n < 2 * k + n
    BY <1>1
  <2> QED
    BY <1>1, <2>1, <2>4, <2>5, <2>6 DEF k, n
<1> QED
  BY <1>2, <1>3, <1>4

\* In a store sorted by name a step keeps account of the rows and the protocols.
LEMMA ProtocolsTracked ==
  ASSUME NEW rows \in Seq(Row), NEW at \in 0 .. Len(rows), NEW protos \in Seq(Row),
         protos # <<>>, NEW stack \in Seq(Row), NEW x,
         x = update_protocols_row([rows |-> rows, at |-> at, protos |-> protos], "name"),
         Tracks(rows, Passed(rows, at), protos, stack)
  PROVE  Tracks(x.rows, Passed(x.rows, x.at), x.protos, stack)
<1> DEFINE proto == Head(protos)
           n == Len(rows)
           t == Tail(protos)
           m == Passed(rows, at)
<1>1. /\ proto \in Row /\ t \in Seq(Row) /\ n \in Nat
      /\ Range(protos) = {proto} \cup Range(t)
  BY HeadTailRange, LenProperties
<1>2. /\ InNameOrder(rows)
      /\ \A a \in Shown(rows, m), b \in Range(protos) : a.name # b.name
  BY DEF Tracks
<1>3. m \in Nat
  BY <1>1 DEF Passed
<1> DEFINE X1 == [rows |-> RowMoved(Append(rows, proto), n + 1, "name").rows, at |-> 0, protos |-> t]
           X2 == [rows |-> RemoveAt(rows, at), at |-> RowBehind(rows, at), protos |-> protos]
           X3 == RowDone(RowMoved([rows EXCEPT ![at] = proto], at, "name"), t)
<1>b. StepCases(rows, at, protos, "name", x)
  BY ONLY ProtocolsCases,
          x = update_protocols_row([rows |-> rows, at |-> at, protos |-> protos], "name")
<1>a. /\ at = 0 => x = X1
      /\ at # 0 /\ rows[at].name # proto.name => x = X2
      /\ at # 0 /\ rows[at].name = proto.name => x = X3
  BY <1>b DEF StepCases
<1> HIDE DEF proto, n, t, m
<1>4. CASE at = 0
  <2> DEFINE r == RowMoved(Append(rows, proto), n + 1, "name").rows
  <2>1. x = [rows |-> r, at |-> 0, protos |-> t]
    BY <1>a, <1>4
  <2>2. m = n
    BY <1>4 DEF Passed, m, n
  <2>3. Shown(rows, m) = Range(rows) /\ \A i \in 1 .. n : rows[i] \in Shown(rows, m)
    BY <2>2, RangeEquality DEF Shown, n
  <2>4. \A i \in 1 .. Len(rows) : rows[i].name # proto.name
    BY <1>1, <1>2, <2>3 DEF n
  <2>5. r \in Seq(Row) /\ Len(r) = n + 1 /\ InNameOrder(r) /\ Range(r) = Range(rows) \cup {proto}
    BY <1>1, <1>2, <2>4, RowAdded DEF n
  <2> HIDE DEF r
  <2>6. Range(r) = Shown(r, m + 1)
    BY <2>2, <2>5, RangeEquality DEF Shown
  <2>7. m + 1 <= Len(r)
    BY <1>3, <2>2, <2>5
  <2>8. Tracks(r, m + 1, t, stack)
    BY <1>3, <2>3, <2>5, <2>6, <2>7, TracksOn DEF m, t, proto
  <2>9. Passed(x.rows, x.at) = m + 1
    BY <2>1, <2>2, <2>5 DEF Passed
  <2> QED
    BY <2>1, <2>8, <2>9
<1>5. CASE at # 0 /\ rows[at].name # proto.name
  <2> DEFINE r == RemoveAt(rows, at)
  <2>1. x = [rows |-> r, at |-> RowBehind(rows, at), protos |-> protos]
    BY <1>a, <1>5
  <2>2. at \in 1 .. n /\ m = at - 1
    BY <1>1, <1>5 DEF n, m, Passed
  <2>3. /\ r \in Seq(Row) /\ Len(r) = n - 1 /\ InNameOrder(r)
        /\ Shown(r, at - 1) = Shown(rows, at - 1)
    BY <1>2, <2>2, RowGone DEF n
  <2> HIDE DEF r
  <2>4. Passed(x.rows, x.at) = m
    <3>1. x.rows = r /\ x.at = RowBehind(rows, at)
      BY <2>1
    <3> QED
      BY <1>1, <2>2, <2>3, <3>1 DEF Passed, RowBehind, n
  <2>5. m \in 0 .. Len(r)
    BY <1>1, <2>2, <2>3
  <2>6. Tracks(r, m, protos, stack)
    BY <2>2, <2>3, <2>5 DEF Tracks, m
  <2> QED
    BY <2>1, <2>4, <2>6
<1>6. CASE at # 0 /\ rows[at].name = proto.name
  <2> DEFINE r == [rows EXCEPT ![at] = proto]
  <2>1. at \in 1 .. n /\ m = at - 1 /\ m + 1 = at
    BY <1>1, <1>6 DEF n, m, Passed
  <2>2. r \in Seq(Row) /\ Len(r) = n /\ r[at] = proto /\ \A j \in 1 .. n : j # at => r[j] = rows[j]
    BY <1>1, <2>1, ExceptSeq DEF n
  <2>a. InNameOrder(r) /\ Shown(r, at) = Shown(rows, at - 1) \cup {proto}
    <3>1. r[at].name = rows[at].name /\ at \in 1 .. Len(rows) /\ Len(r) = Len(rows)
          /\ \A j \in 1 .. Len(rows) : j # at => r[j] = rows[j]
      BY <1>6, <2>1, <2>2 DEF n
    <3> HIDE DEF r
    <3>2. InNameOrder(r) /\ Shown(r, at) = Shown(rows, at - 1) \cup {r[at]}
      BY <1>2, <2>2, <3>1, RowSet
    <3> QED
      BY <2>2, <3>2
  <2>3. x = RowDone(RowMoved(r, at, "name"), t)
    BY <1>a, <1>6
  <2> HIDE DEF r
  <2>4. RowMoved(r, at, "name") = [rows |-> r, at |-> at]
    BY <2>1, <2>2, <2>a, RowStays
  <2>5. x = [rows |-> r, at |-> NextRow(r, at), protos |-> t]
    BY <2>3, <2>4 DEF RowDone
  <2>6. Passed(x.rows, x.at) = m + 1
    <3>1. x.rows = r /\ x.at = NextRow(r, at)
      BY <2>5
    <3> QED
      BY <1>1, <2>1, <2>2, <3>1 DEF Passed, NextRow
  <2>7. m + 1 <= Len(r) /\ Shown(r, m + 1) = Shown(rows, m) \cup {proto}
    BY <1>1, <2>1, <2>2, <2>a
  <2>8. Tracks(r, m + 1, t, stack)
    BY <1>3, <2>2, <2>a, <2>7, TracksOn DEF m, t, proto
  <2> QED
    BY <2>5, <2>6, <2>8
<1> QED
  BY <1>4, <1>5, <1>6

\* The loop of update_protocols_table: where it ends, with which rows, its steps
\* and how many are left at most.
TableFinal == {w \in ProtocolsWalk : w.protos = <<>>}
TableOut ==
  [w \in ProtocolsWalk |-> IF w.at = 0 THEN w.rows ELSE SubSeq(w.rows, 1, w.at - 1)]
TableStep(column) == [w \in ProtocolsWalk |-> update_protocols_row(w, column)]
TableLeft == [w \in ProtocolsWalk |-> 2 * Len(w.protos) + Len(w.rows)]
TableStart(rows, stack) == [rows |-> rows, at |-> NextRow(rows, 0), protos |-> stack]

\* What a place of the walk is made of.
LEMMA WalkParts ==
  ASSUME NEW w \in ProtocolsWalk
  PROVE  /\ w.rows \in Seq(Row) /\ w.protos \in Seq(Row) /\ w.at \in 0 .. Len(w.rows)
         /\ w = [rows |-> w.rows, at |-> w.at, protos |-> w.protos]
<1>1. /\ w \in [rows : Seq(Row), at : Nat, protos : Seq(Row)] /\ w.at <= Len(w.rows)
  BY DEF ProtocolsWalk
<1>2. /\ w.rows \in Seq(Row) /\ w.protos \in Seq(Row) /\ w.at \in Nat
      /\ w = [rows |-> w.rows, at |-> w.at, protos |-> w.protos]
  BY <1>1
<1> DEFINE n == Len(w.rows)
           at == w.at
<1>3. n \in Nat /\ at \in Nat /\ at <= n
  BY <1>1, <1>2, LenProperties
<1> HIDE DEF n, at
<1>4. at \in 0 .. n
  BY <1>3
<1> QED
  BY <1>2, <1>4 DEF n, at

\* Parts that make a place of the walk.
LEMMA WalkMade ==
  ASSUME NEW rows \in Seq(Row), NEW at \in 0 .. Len(rows), NEW protos \in Seq(Row)
  PROVE  [rows |-> rows, at |-> at, protos |-> protos] \in ProtocolsWalk
<1>1. Len(rows) \in Nat
  BY LenProperties
<1>2. at \in Nat /\ at <= Len(rows)
  BY <1>1
<1> QED
  BY <1>2 DEF ProtocolsWalk

\* The loop ends.
LEMMA TableEnds ==
  ASSUME NEW column
  PROVE  Ends(ProtocolsWalk, TableFinal, TableStep(column), TableLeft)
<1>1. ASSUME NEW w \in ProtocolsWalk
      PROVE  TableLeft[w] \in Nat
  <2> DEFINE k == Len(w.protos)
             n == Len(w.rows)
  <2>1. k \in Nat /\ n \in Nat
    BY WalkParts, LenProperties
  <2>2. TableLeft[w] = 2 * k + n
    BY DEF TableLeft
  <2> HIDE DEF k, n
  <2> QED
    BY <2>1, <2>2
<1>2. ASSUME NEW w \in ProtocolsWalk \ TableFinal
      PROVE  /\ TableStep(column)[w] \in ProtocolsWalk
             /\ TableLeft[TableStep(column)[w]] < TableLeft[w]
  <2> DEFINE rows == w.rows
             at == w.at
             protos == w.protos
             x == TableStep(column)[w]
  <2>1. /\ rows \in Seq(Row) /\ protos \in Seq(Row) /\ at \in 0 .. Len(rows)
        /\ w = [rows |-> rows, at |-> at, protos |-> protos]
    BY WalkParts
  <2>2. protos # <<>> /\ x = update_protocols_row(w, column)
    BY DEF TableFinal, TableStep
  <2>3. TableLeft[w] = 2 * Len(protos) + Len(rows)
    BY DEF TableLeft
  <2> HIDE DEF rows, at, protos, x
  <2>4. x = update_protocols_row([rows |-> rows, at |-> at, protos |-> protos], column)
    BY <2>1, <2>2
  <2>5. PICK r \in Seq(Row), p \in Seq(Row) : \E a \in 0 .. Len(r) :
          /\ x = [rows |-> r, at |-> a, protos |-> p]
          /\ 2 * Len(p) + Len(r) < 2 * Len(protos) + Len(rows)
    BY ONLY <2>1, <2>2, <2>4, ProtocolsStep
  <2>6. PICK a \in 0 .. Len(r) :
          /\ x = [rows |-> r, at |-> a, protos |-> p]
          /\ 2 * Len(p) + Len(r) < 2 * Len(protos) + Len(rows)
    BY <2>5
  <2>7. x \in ProtocolsWalk
    BY <2>6, WalkMade
  <2>8. x.rows = r /\ x.protos = p
    BY <2>6
  <2>9. TableLeft[x] = 2 * Len(p) + Len(r)
    BY <2>7, <2>8 DEF TableLeft
  <2>10. TableLeft[x] < TableLeft[w]
    BY <2>3, <2>6, <2>9
  <2> QED
    BY <2>7, <2>10 DEF x
<1> QED
  BY <1>1, <1>2 DEF Ends

\* update_protocols_table is what that loop yields.
LEMMA TableIsWalk ==
  ASSUME NEW rows, NEW stack, NEW column
  PROVE  \E f : /\ IsWalk(f, ProtocolsWalk, TableFinal, TableOut, TableStep(column))
                /\ update_protocols_table(rows, stack, column) = f[TableStart(rows, stack)]
<1> DEFINE D == ProtocolsWalk
           P(f) == f = [w \in ProtocolsWalk |->
                          IF w.protos = <<>>
                          THEN IF w.at = 0 THEN w.rows ELSE SubSeq(w.rows, 1, w.at - 1)
                          ELSE f[update_protocols_row(w, column)]]
           walk == CHOOSE f : P(f)
           Step == TableStep(column)
<1>1. update_protocols_table(rows, stack, column) = walk[TableStart(rows, stack)]
  BY DEF update_protocols_table, TableStart
<1>2. ASSUME NEW f
      PROVE  P(f) <=> IsWalk(f, D, TableFinal, TableOut, Step)
  <2>1. ASSUME NEW w \in D
        PROVE  (IF w.protos = <<>>
                THEN IF w.at = 0 THEN w.rows ELSE SubSeq(w.rows, 1, w.at - 1)
                ELSE f[update_protocols_row(w, column)])
               = IF w \in TableFinal THEN TableOut[w] ELSE f[Step[w]]
    <3>1. /\ w \in TableFinal <=> w.protos = <<>>
          /\ TableOut[w] = IF w.at = 0 THEN w.rows ELSE SubSeq(w.rows, 1, w.at - 1)
          /\ Step[w] = update_protocols_row(w, column)
      BY DEF TableFinal, TableOut, TableStep
    <3> HIDE DEF Step
    <3> QED
      BY <3>1
  <2>2. [w \in D |-> IF w.protos = <<>>
                     THEN IF w.at = 0 THEN w.rows ELSE SubSeq(w.rows, 1, w.at - 1)
                     ELSE f[update_protocols_row(w, column)]]
        = [w \in D |-> IF w \in TableFinal THEN TableOut[w] ELSE f[Step[w]]]
    BY <2>1
  <2> QED
    BY <2>2 DEF IsWalk
<1>3. \E f : P(f)
  BY <1>2, TableEnds, WalkExists
<1>4. P(walk)
  BY <1>3, Zenon
<1> QED
  BY <1>1, <1>2, <1>4

\* The walk starts at the first row, if there is one.
LEMMA WalkStarts ==
  ASSUME NEW rows \in Seq(Row), NEW stack \in Seq(Row)
  PROVE  TableStart(rows, stack) \in ProtocolsWalk /\ Passed(rows, NextRow(rows, 0)) = 0
<1>1. Len(rows) \in Nat
  BY LenProperties
<1>2. NextRow(rows, 0) \in 0 .. Len(rows) /\ Passed(rows, NextRow(rows, 0)) = 0
  BY <1>1 DEF NextRow, Passed
<1> QED
  BY <1>2, WalkMade DEF TableStart

\* The first rows of a table are rows.
LEMMA FirstRows ==
  ASSUME NEW rows \in Seq(Row), NEW m \in 0 .. Len(rows)
  PROVE  /\ SubSeq(rows, 1, m) \in Seq(Row) /\ Len(SubSeq(rows, 1, m)) = m
         /\ \A i \in 1 .. m : SubSeq(rows, 1, m)[i] = rows[i]
         /\ Range(SubSeq(rows, 1, m)) = Shown(rows, m)
<1> DEFINE t == SubSeq(rows, 1, m)
<1>1. Len(rows) \in Nat /\ m \in Nat /\ \A i \in 1 .. Len(rows) : rows[i] \in Row
  BY LenProperties, ElementOfSeq
<1>2. 1 \in Int /\ m \in Int /\ \A k \in 1 .. m : rows[k] \in Row
  BY <1>1
<1>3. /\ t \in Seq(Row) /\ Len(t) = IF 1 <= m THEN m - 1 + 1 ELSE 0
      /\ \A i \in 1 .. m - 1 + 1 : t[i] = rows[1 + i - 1]
  BY <1>2, SubSeqProperties
<1> HIDE DEF t
<1>4. Len(t) = m /\ \A i \in 1 .. m : t[i] = rows[i]
  BY <1>1, <1>3
<1>5. Range(t) = {t[i] : i \in 1 .. m}
  BY <1>3, <1>4, RangeEquality
<1>6. Range(t) = Shown(rows, m)
  BY <1>4, <1>5 DEF Shown
<1> QED
  BY <1>3, <1>4, <1>6 DEF t

\* What the loop yields: the rows done with when the protocols are at an end.
LEMMA TableYields ==
  ASSUME NEW w \in ProtocolsWalk
  PROVE  /\ Passed(w.rows, w.at) \in 0 .. Len(w.rows)
         /\ TableOut[w] \in Seq(Row) /\ Len(TableOut[w]) = Passed(w.rows, w.at)
         /\ \A i \in 1 .. Passed(w.rows, w.at) : TableOut[w][i] = w.rows[i]
         /\ Range(TableOut[w]) = Shown(w.rows, Passed(w.rows, w.at))
<1> DEFINE rows == w.rows
           at == w.at
           m == Passed(rows, at)
<1>1. rows \in Seq(Row) /\ at \in 0 .. Len(rows)
  BY WalkParts
<1>2. TableOut[w] = IF at = 0 THEN rows ELSE SubSeq(rows, 1, at - 1)
  BY DEF TableOut
<1> HIDE DEF rows, at
<1>3. Len(rows) \in Nat
  BY <1>1, LenProperties
<1>4. m \in 0 .. Len(rows)
  BY <1>1, <1>3 DEF Passed
<1>5. CASE at = 0
  <2>1. TableOut[w] = rows /\ m = Len(rows)
    BY <1>2, <1>5 DEF Passed
  <2>2. Range(rows) = Shown(rows, Len(rows))
    BY <1>1, RangeEquality DEF Shown
  <2> QED
    BY <1>1, <1>4, <2>1, <2>2 DEF rows, at
<1>6. CASE at # 0
  <2>1. TableOut[w] = SubSeq(rows, 1, m)
    BY <1>2, <1>6 DEF Passed
  <2> HIDE DEF m
  <2>2. /\ SubSeq(rows, 1, m) \in Seq(Row) /\ Len(SubSeq(rows, 1, m)) = m
        /\ \A i \in 1 .. m : SubSeq(rows, 1, m)[i] = rows[i]
        /\ Range(SubSeq(rows, 1, m)) = Shown(rows, m)
    BY ONLY <1>1, <1>4, FirstRows
  <2> QED
    BY <1>4, <2>1, <2>2 DEF rows, at, m
<1> QED
  BY <1>5, <1>6

\* update_protocols_table leaves rows, whatever the table is sorted by.
LEMMA ProtocolsType ==
  ASSUME NEW rows \in Seq(Row), NEW stack \in Seq(Row), NEW column
  PROVE  update_protocols_table(rows, stack, column) \in Seq(Row)
<1> DEFINE D == ProtocolsWalk
           Step == TableStep(column)
           start == TableStart(rows, stack)
<1>1. Ends(D, TableFinal, Step, TableLeft)
  BY TableEnds
<1>2. PICK f : /\ IsWalk(f, D, TableFinal, TableOut, Step)
               /\ update_protocols_table(rows, stack, column) = f[start]
  BY TableIsWalk
<1>3. start \in D
  BY WalkStarts
<1>4. Keeps(D, Seq(Row), D, TableFinal, TableOut, Step)
  BY <1>1, TableYields DEF Keeps, Ends
<1> HIDE DEF D, Step, start
<1>5. f[start] \in Seq(Row)
  BY ONLY <1>1, <1>2, <1>3, <1>4, WalkKeeps
<1> QED
  BY <1>2, <1>5

\* Nothing is left of the table once there are no protocols.
LEMMA ProtocolsEmptied ==
  ASSUME NEW rows \in Seq(Row), NEW column
  PROVE  update_protocols_table(rows, <<>>, column) = <<>>
<1> DEFINE start == TableStart(rows, <<>>)
<1>1. PICK f : /\ IsWalk(f, ProtocolsWalk, TableFinal, TableOut, TableStep(column))
               /\ update_protocols_table(rows, <<>>, column) = f[start]
  BY TableIsWalk
<1>2. start \in ProtocolsWalk /\ Passed(rows, NextRow(rows, 0)) = 0
  <2>1. PICK none \in Seq(Row) : none = <<>>
    <3>1. <<>> \in Seq(Row)
      BY EmptySeq
    <3> QED
      BY <3>1
  <2>2. TableStart(rows, none) \in ProtocolsWalk /\ Passed(rows, NextRow(rows, 0)) = 0
    BY WalkStarts
  <2> QED
    BY <2>1, <2>2
<1>3. start.protos = <<>> /\ start.rows = rows /\ start.at = NextRow(rows, 0)
  BY DEF TableStart
<1> HIDE DEF start
<1>4. f[start] = TableOut[start]
  BY <1>1, <1>2, <1>3 DEF IsWalk, TableFinal
<1>5. TableOut[start] \in Seq(Row) /\ Len(TableOut[start]) = 0
  BY <1>2, <1>3, TableYields
<1> QED
  BY <1>1, <1>4, <1>5, EmptySeq

\* After update_protocols_table a table sorted by name has a row for each
\* protocol of the summary, with its figures, and no other.
LEMMA ProtocolsUpdated ==
  ASSUME NEW rows \in Seq(Row), NEW stack \in Seq(Row), InNameOrder(rows), Distinct(stack),
         NEW t, t = update_protocols_table(rows, stack, "name")
  PROVE  /\ t \in Seq(Row) /\ InNameOrder(t)
         /\ Len(t) = Len(stack) /\ Range(t) = Range(stack)
<1> DEFINE D == ProtocolsWalk
           Step == TableStep("name")
           start == TableStart(rows, stack)
           Here == {w \in D : Tracks(w.rows, Passed(w.rows, w.at), w.protos, stack)}
           Good == {r \in Seq(Row) : /\ InNameOrder(r)
                                     /\ Len(r) = Len(stack) /\ Range(r) = Range(stack)}
<1>1. Ends(D, TableFinal, Step, TableLeft)
  BY TableEnds
<1>2. PICK f : IsWalk(f, D, TableFinal, TableOut, Step) /\ t = f[start]
  BY TableIsWalk
<1>3. start \in Here
  <2>1. start \in D /\ Passed(rows, NextRow(rows, 0)) = 0
    BY WalkStarts
  <2>2. start.rows = rows /\ start.at = NextRow(rows, 0) /\ start.protos = stack
    BY DEF TableStart
  <2>3. Len(rows) \in Nat /\ Len(stack) \in Nat
    BY LenProperties
  <2>4. Shown(rows, 0) = {} /\ 0 \in 0 .. Len(rows) /\ 0 + Len(stack) = Len(stack)
    BY <2>3 DEF Shown
  <2>5. Tracks(rows, 0, stack, stack)
    BY <2>4 DEF Tracks
  <2> QED
    BY <2>1, <2>2, <2>5
<1>4. ASSUME NEW w \in Here, w \notin TableFinal
      PROVE  Step[w] \in Here
  <2> DEFINE r == w.rows
             at == w.at
             protos == w.protos
             x == Step[w]
  <2>1. /\ w \in D /\ r \in Seq(Row) /\ protos \in Seq(Row) /\ at \in 0 .. Len(r)
        /\ w = [rows |-> r, at |-> at, protos |-> protos]
    BY WalkParts
  <2>2. protos # <<>> /\ x = update_protocols_row(w, "name")
    BY <1>4, <2>1 DEF TableFinal, TableStep
  <2>3. Tracks(r, Passed(r, at), protos, stack)
    OBVIOUS
  <2>4. x \in D
    BY <1>1, <1>4 DEF Ends
  <2> HIDE DEF r, at, protos, x
  <2>5. x = update_protocols_row([rows |-> r, at |-> at, protos |-> protos], "name")
    BY <2>1, <2>2
  <2>6. Tracks(x.rows, Passed(x.rows, x.at), x.protos, stack)
    BY ONLY <2>1, <2>2, <2>3, <2>5, stack \in Seq(Row), ProtocolsTracked
  <2> QED
    BY <2>4, <2>6 DEF x
<1>5. ASSUME NEW w \in Here, w \in TableFinal
      PROVE  TableOut[w] \in Good
  <2> DEFINE r == w.rows
             m == Passed(w.rows, w.at)
             out == TableOut[w]
  <2>1. /\ m \in 0 .. Len(r) /\ out \in Seq(Row) /\ Len(out) = m
        /\ \A i \in 1 .. m : out[i] = r[i]
        /\ Range(out) = Shown(r, m)
    BY TableYields
  <2>2. w.protos = <<>> /\ r \in Seq(Row)
    BY <1>5, WalkParts DEF TableFinal
  <2>3. Tracks(r, m, <<>>, stack)
    BY <2>2
  <2> HIDE DEF r, m, out
  <2>4. Len(<<>>) = 0 /\ Range(<<>>) = {}
    BY DEF Range
  <2>5. InNameOrder(r) /\ m + 0 = Len(stack) /\ Shown(r, m) \cup {} = Range(stack)
    BY <2>3, <2>4 DEF Tracks
  <2>6. Len(r) \in Nat
    BY <2>2, LenProperties
  <2>7. m = Len(stack) /\ Range(out) = Range(stack)
    BY <2>1, <2>5, <2>6
  <2>8. \A i \in 1 .. m : i \in 1 .. Len(r)
    BY <2>1, <2>6
  <2>9. InNameOrder(out)
    BY <2>1, <2>5, <2>8 DEF InNameOrder
  <2> QED
    BY <2>1, <2>7, <2>9 DEF out
<1>6. Keeps(Here, Good, D, TableFinal, TableOut, Step)
  BY <1>4, <1>5 DEF Keeps
<1> HIDE DEF D, Step, start, Here, Good
<1>7. f[start] \in Good
  BY ONLY <1>1, <1>2, <1>3, <1>6, WalkKeeps
<1> QED
  BY <1>2, <1>7 DEF Good

-----------------------------------------------------------------------------
(* The invariant.                                                          *)

\* The summary and the rows of the two tables, the catalog being finite.
TablesType ==
  /\ summary \in Seq(Row) /\ Distinct(summary)
  /\ nodes \in SUBSET Node /\ IsFiniteSet(nodes)
  /\ prot_rows \in Seq(Row) /\ node_rows \in Seq(Node)

\* A capture is stopped with its catalogs, and the table of nodes is hidden with
\* its rows.
NothingKept ==
  /\ status = "STOP" => summary = <<>> /\ nodes = {}
  /\ ~nodes_shown => node_rows = <<>>

WindowsInv == TablesType /\ NothingKept /\ StoppedShowsNothing

\* A table never sorted by anything but names.
SortedByName == sort_column = "name" /\ InNameOrder(prot_rows)

\* A protocol that has new figures, or one in front of the summary, is the only
\* one of its name.
LEMMA SummaryAdd ==
  ASSUME NEW stack \in Seq(Row), Distinct(stack), NEW p \in Prot, NEW t \in Traffic
  PROVE  StackAdd(stack, p, t) \in Seq(Row) /\ Distinct(StackAdd(stack, p, t))
<1> DEFINE row == [name |-> p, traffic |-> t]
           n == Len(stack)
           x == StackAdd(stack, p, t)
<1>1. row \in Row /\ row.name = p
  BY DEF Row
<1>2. /\ n \in Nat /\ DOMAIN stack = 1 .. n /\ \A i \in 1 .. n : stack[i] \in Row
      /\ \A i, j \in 1 .. n : i # j => stack[i].name # stack[j].name
  BY LenProperties, ElementOfSeq DEF Distinct
<1>3. CASE p \in Names(stack)
  <2> DEFINE new(i) == IF stack[i].name = p THEN row ELSE stack[i]
  <2>1. x = [i \in 1 .. n |-> new(i)]
    BY <1>2, <1>3 DEF StackAdd
  <2>2. \A i \in 1 .. n : new(i) \in Row /\ new(i).name = stack[i].name
    BY <1>1, <1>2
  <2> HIDE DEF row, n, new, x
  <2>3. x \in [1 .. n -> Row] /\ \A i \in 1 .. n : x[i].name = stack[i].name
    BY <2>1, <2>2
  <2>4. x \in Seq(Row) /\ Len(x) = n
    BY <1>2, <2>3
  <2>5. Distinct(x)
    BY <1>2, <2>3, <2>4 DEF Distinct
  <2> QED
    BY <2>4, <2>5 DEF x
<1>4. CASE p \notin Names(stack)
  <2> DEFINE one == <<row>>
  <2>1. x = one \o stack
    BY <1>4 DEF StackAdd
  <2>2. \A i \in 1 .. n : stack[i].name # p
    BY <1>2, <1>4 DEF Names
  <2>3. one \in Seq(Row) /\ Len(one) = 1 /\ one[1] = row
    BY <1>1
  <2> HIDE DEF row, n, x, one
  <2>4. /\ x \in Seq(Row) /\ Len(x) = 1 + n /\ x[1] = row
        /\ \A j \in 1 .. n : x[1 + j] = stack[j]
    <3>1. /\ one \o stack \in Seq(Row) /\ Len(one \o stack) = Len(one) + Len(stack)
          /\ \A j \in 1 .. Len(one) : (one \o stack)[j] = one[j]
          /\ \A j \in 1 .. Len(stack) : (one \o stack)[Len(one) + j] = stack[j]
      BY ONLY <2>3, stack \in Seq(Row), Joined
    <3>2. 1 \in 1 .. 1
      OBVIOUS
    <3> QED
      BY <2>1, <2>3, <3>1, <3>2 DEF n
  <2>5. ASSUME NEW i \in 1 .. 1 + n
        PROVE  (i = 1 /\ x[i] = row) \/ (\E j \in 1 .. n : i = 1 + j /\ x[i] = stack[j])
    <3>1. CASE i # 1
      <4>1. i - 1 \in 1 .. n /\ i = 1 + (i - 1)
        BY <1>2, <3>1
      <4> QED
        BY <2>4, <4>1
    <3> QED
      BY <2>4, <3>1
  <2>6. ASSUME NEW i \in 1 .. 1 + n, NEW j \in 1 .. 1 + n, i # j
        PROVE  x[i].name # x[j].name
    <3>1. CASE i = 1 /\ x[i] = row
      <4>1. PICK k \in 1 .. n : x[j] = stack[k]
        BY <2>5, <2>6, <3>1
      <4> QED
        BY <1>1, <2>2, <3>1, <4>1
    <3>2. ASSUME NEW k \in 1 .. n, i = 1 + k, x[i] = stack[k]
          PROVE  x[i].name # x[j].name
      <4>1. CASE j = 1 /\ x[j] = row
        BY <1>1, <2>2, <3>2, <4>1
      <4>2. ASSUME NEW l \in 1 .. n, j = 1 + l, x[j] = stack[l]
            PROVE  x[i].name # x[j].name
        BY <1>2, <2>6, <3>2, <4>2
      <4> QED
        BY <2>5, <4>1, <4>2
    <3> QED
      BY <2>5, <3>1, <3>2
  <2>7. Distinct(x)
    BY <2>4, <2>6 DEF Distinct
  <2> QED
    BY <2>4, <2>7 DEF x
<1> QED
  BY <1>3, <1>4

\* The protocols that are left when one expires have each their own name.
LEMMA SummaryGone ==
  ASSUME NEW stack \in Seq(Row), Distinct(stack), NEW g \in DOMAIN stack
  PROVE  RemoveAt(stack, g) \in Seq(Row) /\ Distinct(RemoveAt(stack, g))
<1> DEFINE r == RemoveAt(stack, g)
           n == Len(stack)
<1>1. /\ n \in Nat /\ g \in 1 .. n
      /\ \A i, j \in 1 .. n : i # j => stack[i].name # stack[j].name
  BY LenProperties DEF Distinct
<1>2. /\ r \in Seq(Row) /\ Len(r) = n - 1
      /\ \A j \in 1 .. g - 1 : r[j] = stack[j]
      /\ \A j \in g .. n - 1 : r[j] = stack[j + 1]
  BY <1>1, Removed
<1> HIDE DEF r, n
<1>3. ASSUME NEW i \in 1 .. n - 1
      PROVE  \/ i < g /\ i \in 1 .. n /\ r[i] = stack[i]
             \/ i >= g /\ i + 1 \in 1 .. n /\ r[i] = stack[i + 1]
  <2>1. CASE i < g
    <3>1. i \in 1 .. g - 1 /\ i \in 1 .. n
      BY <1>1, <2>1
    <3> QED
      BY <1>2, <2>1, <3>1
  <2>2. CASE i >= g
    <3>1. i \in g .. n - 1 /\ i + 1 \in 1 .. n
      BY <1>1, <2>2
    <3> QED
      BY <1>2, <2>2, <3>1
  <2> QED
    BY <1>1, <2>1, <2>2
<1>4. ASSUME NEW i \in 1 .. n - 1, NEW j \in 1 .. n - 1, i # j
      PROVE  r[i].name # r[j].name
  <2>1. i + 1 # j + 1 /\ (i < g /\ j >= g => i # j + 1) /\ (i >= g /\ j < g => i + 1 # j)
    BY <1>1, <1>4
  <2>2. CASE i < g /\ i \in 1 .. n /\ r[i] = stack[i]
    BY <1>1, <1>3, <1>4, <2>1, <2>2
  <2>3. CASE i >= g /\ i + 1 \in 1 .. n /\ r[i] = stack[i + 1]
    BY <1>1, <1>3, <1>4, <2>1, <2>3
  <2> QED
    BY <1>3, <2>2, <2>3
<1>5. Distinct(r)
  BY <1>2, <1>4 DEF Distinct
<1> QED
  BY <1>2, <1>5 DEF r

\* What a table is sorted by.
Key(row, column) == IF column = "name" THEN row.name ELSE row.traffic

\* The rows of a sorted table are those it had, and names increase if each was
\* there once.
LEMMA RowsSorted ==
  ASSUME NEW rows \in Seq(Row), NEW column,
         NEW t, t = [i \in DOMAIN rows |-> rows[SortOrder(rows, column)[i]]]
  PROVE  /\ t \in Seq(Row)
         /\ rows = <<>> => t = <<>>
         /\ column = "name" /\ InNameOrder(rows) => InNameOrder(t)
<1> DEFINE n == Len(rows)
           S == 1 .. n
           Before(i, j) == LET c == protocols_table_compare(rows[i], rows[j], column)
                           IN  c < 0 \/ (c = 0 /\ i < j)
           R == {p \in S \X S : Before(p[1], p[2])}
           P(f) == \A i, j \in S : i < j => Before(f[i], f[j])
           order == CHOOSE f \in [S -> S] : P(f)
<1>1. n \in Nat /\ DOMAIN rows = S /\ \A i \in S : rows[i] \in Row
  BY LenProperties, ElementOfSeq
<1>2. SortOrder(rows, column) = order
  BY <1>1 DEF SortOrder
<1>3. ASSUME NEW i \in S, NEW j \in S
      PROVE  /\ Key(rows[i], column) \in Nat
             /\ Before(i, j) <=> \/ Key(rows[i], column) < Key(rows[j], column)
                                 \/ Key(rows[i], column) = Key(rows[j], column) /\ i < j
  <2>1. Key(rows[i], column) \in Nat /\ Key(rows[j], column) \in Nat
    <3>1. rows[i] \in Row /\ rows[j] \in Row
      BY <1>1
    <3>2. \A v \in Traffic : v \in Nat
      BY WindowsAssumption DEF Traffic
    <3> QED
      BY <3>1, <3>2, RowNumbers DEF Key
  <2>2. protocols_table_compare(rows[i], rows[j], column)
          = Key(rows[i], column) - Key(rows[j], column)
    BY DEF protocols_table_compare, Key
  <2> QED
    BY <2>1, <2>2
<1> HIDE DEF Before
<1>4. Ordered(R, S)
  <2>1. \A x \in S : ~ Before(x, x)
    BY <1>3
  <2>2. \A x, y \in S : x = y \/ Before(x, y) \/ Before(y, x)
    BY <1>3
  <2>3. ASSUME NEW x \in S, NEW y \in S, NEW z \in S, Before(x, y), Before(y, z)
        PROVE  Before(x, z)
    BY <1>3, <2>3
  <2>4. \A x, y \in S : <<x, y>> \in R <=> Before(x, y)
    OBVIOUS
  <2> HIDE DEF R
  <2> QED
    BY <2>1, <2>2, <2>3, <2>4 DEF Ordered
<1>5. IsFiniteSet(S) /\ Cardinality(S) = n
  <2> HIDE DEF n
  <2>1. n \in Nat
    BY <1>1
  <2> QED
    BY <2>1, FS_Interval
<1>6. PICK s : Lists(s, R, S)
  BY <1>4, <1>5, ListExists
<1>7. s \in [S -> S] /\ P(s)
  BY <1>5, <1>6 DEF Lists
<1>8. order \in [S -> S] /\ P(order)
  <2> HIDE DEF P
  <2> QED
    BY <1>7, Zenon
<1> HIDE DEF order
<1>9. t = [i \in S |-> rows[order[i]]]
  BY <1>1, <1>2
<1>10. t \in [S -> Row]
  BY <1>1, <1>8, <1>9
<1>11. t \in Seq(Row) /\ Len(t) = n
  BY <1>1, <1>10
<1>12. rows = <<>> => t = <<>>
  BY <1>11, EmptySeq
<1>13. ASSUME column = "name", InNameOrder(rows), NEW i \in S, NEW j \in S, i < j
       PROVE  t[i].name < t[j].name
  <2> DEFINE a == order[i]
             b == order[j]
  <2>1. a \in S /\ b \in S /\ Before(a, b) /\ t[i] = rows[a] /\ t[j] = rows[b]
    BY <1>8, <1>9, <1>13
  <2> HIDE DEF a, b
  <2>2. \/ rows[a].name < rows[b].name
        \/ rows[a].name = rows[b].name /\ a < b
    BY <1>3, <1>13, <2>1 DEF Key
  <2>3. a < b => rows[a].name < rows[b].name
    BY <1>13, <2>1 DEF InNameOrder
  <2>4. rows[a].name \in Nat /\ rows[b].name \in Nat
    BY <1>1, <2>1, RowNumbers
  <2> QED
    BY <2>1, <2>2, <2>3, <2>4
<1>14. column = "name" /\ InNameOrder(rows) => InNameOrder(t)
  BY <1>11, <1>13 DEF InNameOrder
<1> QED
  BY <1>11, <1>12, <1>14

\* nodes_table_update leaves nothing of a table whose nodes are gone.
LEMMA NodesEmptied ==
  ASSUME NEW rows \in Seq(Node)
  PROVE  nodes_table_update(rows, {}) = <<>>
<1>1. {} \in SUBSET Node /\ IsFiniteSet({}) /\ Cardinality({}) = 0
  BY FS_EmptySet
<1>2. nodes_table_update(rows, {}) \in Seq(Node) /\ Len(nodes_table_update(rows, {})) = 0
  BY <1>1, NodesUpdated
<1> QED
  BY <1>2, EmptySeq

\* What update_info_windows leaves, and that it leaves nothing of a stopped
\* capture.
LEMMA UpdateLeaves ==
  ASSUME TablesType, ~nodes_shown => node_rows = <<>>,
         NEW st, NEW stack \in Seq(Row), NEW ns \in SUBSET Node, IsFiniteSet(ns), NEW ls,
         UpdateAll(st, stack, ns, ls)
  PROVE  /\ prot_rows' \in Seq(Row) /\ node_rows' \in Seq(Node)
         /\ ~nodes_shown' => node_rows' = <<>>
         /\ st = "STOP" /\ stack = <<>> /\ ns = {} =>
              prot_rows' = <<>> /\ node_rows' = <<>> /\ prot_info_windows' = <<>>
<1>1. /\ prot_rows' = update_protocols_table(prot_rows, stack, sort_column)
      /\ prot_info_windows' = update_prot_info_windows(st, stack)
      /\ node_rows' = IF nodes_shown THEN nodes_table_update(node_rows, ns) ELSE node_rows
      /\ nodes_shown' = nodes_shown
  BY DEF UpdateAll
<1>2. prot_rows \in Seq(Row) /\ node_rows \in Seq(Node)
  BY DEF TablesType
<1>3. prot_rows' \in Seq(Row)
  BY <1>1, <1>2, ProtocolsType
<1>4. nodes_table_update(node_rows, ns) \in Seq(Node)
  BY <1>2, NodesUpdated
<1>5. node_rows' \in Seq(Node) /\ (~nodes_shown' => node_rows' = <<>>)
  BY <1>1, <1>2, <1>4
<1>6. ASSUME st = "STOP", stack = <<>>, ns = {}
      PROVE  prot_rows' = <<>> /\ node_rows' = <<>> /\ prot_info_windows' = <<>>
  <2>1. prot_rows' = <<>>
    BY <1>1, <1>2, <1>6, ProtocolsEmptied
  <2>2. nodes_table_update(node_rows, ns) = <<>>
    BY <1>2, <1>6, NodesEmptied
  <2>3. node_rows' = <<>>
    BY <1>1, <2>2
  <2>4. prot_info_windows' = <<>>
    BY <1>1, <1>6 DEF update_prot_info_windows
  <2> QED
    BY <2>1, <2>3, <2>4
<1> QED
  BY <1>3, <1>5, <1>6

\* The invariant holds before the first packet.
LEMMA InvInit == Init => WindowsInv
<1> SUFFICES ASSUME Init
             PROVE  WindowsInv
  OBVIOUS
<1>1. <<>> \in Seq(Row) /\ <<>> \in Seq(Node) /\ Len(<<>>) = 0 /\ IsFiniteSet({})
  BY EmptySeq, FS_EmptySet
<1>2. Distinct(<<>>)
  BY <1>1 DEF Distinct
<1>3. TablesType
  BY <1>1, <1>2 DEF Init, TablesType
<1>4. NothingKept /\ StoppedShowsNothing
  BY DEF Init, NothingKept, StoppedShowsNothing
<1> QED
  BY <1>3, <1>4 DEF WindowsInv

\* Every step keeps the invariant: an update fills the tables with what there is,
\* and the catalogs stay empty until another capture is started.
LEMMA InvNext == WindowsInv /\ [Next]_vars => WindowsInv'
<1> SUFFICES ASSUME WindowsInv, [Next]_vars
             PROVE  WindowsInv'
  OBVIOUS
<1> USE DEF WindowsInv, NothingKept, StoppedShowsNothing
<1>1. /\ summary \in Seq(Row) /\ Distinct(summary)
      /\ nodes \in SUBSET Node /\ IsFiniteSet(nodes)
      /\ prot_rows \in Seq(Row) /\ node_rows \in Seq(Node)
  BY DEF TablesType
<1> DEFINE Rest == UNCHANGED <<summary, nodes, prot_rows, node_rows>>
<1>2. ASSUME Rest
      PROVE  TablesType'
  BY <1>1, <1>2 DEF TablesType
<1>3. CASE update_info_windows
  <2>1. UpdateAll(status, summary, nodes, links) /\ UNCHANGED <<status, summary, nodes, links>>
    BY <1>3 DEF update_info_windows, catalogs
  <2>2. /\ prot_rows' \in Seq(Row) /\ node_rows' \in Seq(Node)
        /\ ~nodes_shown' => node_rows' = <<>>
        /\ status = "STOP" /\ summary = <<>> /\ nodes = {} =>
             prot_rows' = <<>> /\ node_rows' = <<>> /\ prot_info_windows' = <<>>
    BY <1>1, <2>1, UpdateLeaves
  <2>3. TablesType'
    BY <1>1, <2>1, <2>2 DEF TablesType
  <2> QED
    BY <2>1, <2>2, <2>3
<1>4. CASE Tick
  BY <1>2, <1>4 DEF Tick, catalogs, prot_table, node_table, details
<1>5. CASE packet_acquired
  <2>1. PICK l \in Link, p \in Prot, t \in Traffic :
          summary' = StackAdd(summary, p, t) /\ nodes' = nodes \cup {l[1], l[2]}
    BY <1>5 DEF packet_acquired
  <2>2. /\ status \in {"PLAY", "PAUSE"} /\ UNCHANGED <<status, prot_rows, node_rows, nodes_shown>>
    BY <1>5 DEF packet_acquired, prot_table, node_table
  <2>3. l[1] \in Node /\ l[2] \in Node
    BY WindowsAssumption
  <2>4. nodes' \in SUBSET Node /\ IsFiniteSet(nodes')
    <3>1. IsFiniteSet(nodes \cup {l[1]})
      BY <1>1, FS_AddElement
    <3>2. IsFiniteSet((nodes \cup {l[1]}) \cup {l[2]})
      BY <3>1, FS_AddElement
    <3>3. (nodes \cup {l[1]}) \cup {l[2]} = nodes'
      BY <2>1
    <3> QED
      BY <1>1, <2>1, <2>3, <3>2, <3>3
  <2>5. summary' \in Seq(Row) /\ Distinct(summary)'
    <3>1. StackAdd(summary, p, t) \in Seq(Row) /\ Distinct(StackAdd(summary, p, t))
      BY <1>1, SummaryAdd
    <3> QED
      BY <2>1, <3>1 DEF Distinct
  <2>6. TablesType'
    BY <1>1, <2>2, <2>4, <2>5 DEF TablesType
  <2> QED
    BY <2>2, <2>6
<1>6. CASE expire
  <2>1. status = "PLAY" /\ UNCHANGED <<status, prot_rows, node_rows, nodes_shown>>
    BY <1>6 DEF expire, prot_table, node_table
  <2>2. nodes' \in SUBSET Node /\ IsFiniteSet(nodes')
    <3>1. nodes' \subseteq nodes
      BY <1>6 DEF expire
    <3> QED
      BY <1>1, <3>1, FS_Subset
  <2>3. summary' \in Seq(Row) /\ Distinct(summary)'
    <3>1. CASE UNCHANGED summary
      BY <1>1, <3>1 DEF Distinct
    <3>2. ASSUME NEW i \in DOMAIN summary, summary' = RemoveAt(summary, i)
          PROVE  summary' \in Seq(Row) /\ Distinct(summary)'
      <4>1. RemoveAt(summary, i) \in Seq(Row) /\ Distinct(RemoveAt(summary, i))
        BY <1>1, SummaryGone
      <4> QED
        BY <3>2, <4>1 DEF Distinct
    <3> QED
      BY <1>6, <3>1, <3>2 DEF expire
  <2>4. TablesType'
    BY <1>1, <2>1, <2>2, <2>3 DEF TablesType
  <2> QED
    BY <2>1, <2>4
<1>7. CASE gui_start_capture
  BY <1>2, <1>7 DEF gui_start_capture, catalogs, prot_table, node_table
<1>8. CASE gui_pause_capture
  <2>1. /\ UpdateAll("PLAY", summary, nodes, links) /\ UNCHANGED <<summary, nodes>>
        /\ status' = "PAUSE"
    BY <1>8 DEF gui_pause_capture, catalogs
  <2>2. /\ prot_rows' \in Seq(Row) /\ node_rows' \in Seq(Node)
        /\ ~nodes_shown' => node_rows' = <<>>
    BY <1>1, <2>1, UpdateLeaves
  <2>3. TablesType'
    BY <1>1, <2>1, <2>2 DEF TablesType
  <2> QED
    BY <2>1, <2>2, <2>3
<1>9. CASE read_eof
  BY <1>2, <1>9 DEF read_eof, catalogs, prot_table, node_table
<1>10. CASE gui_stop_capture
  <2>1. /\ UpdateAll("STOP", <<>>, {}, {})
        /\ summary' = <<>> /\ nodes' = {}
    BY <1>10 DEF gui_stop_capture
  <2>2. <<>> \in Seq(Row) /\ {} \in SUBSET Node /\ IsFiniteSet({}) /\ Len(<<>>) = 0
    BY EmptySeq, FS_EmptySet
  <2>3. /\ prot_rows' \in Seq(Row) /\ node_rows' \in Seq(Node)
        /\ ~nodes_shown' => node_rows' = <<>>
        /\ prot_rows' = <<>> /\ node_rows' = <<>> /\ prot_info_windows' = <<>>
    BY <1>1, <2>1, <2>2, UpdateLeaves
  <2>4. Distinct(summary)'
    BY <2>1, <2>2 DEF Distinct
  <2>5. TablesType'
    BY <2>1, <2>2, <2>3, <2>4 DEF TablesType
  <2> QED
    BY <2>1, <2>3, <2>5
<1>11. CASE on_protocols_check_activate
  <2>1. /\ UNCHANGED <<status, summary, nodes, node_rows, nodes_shown, prot_info_windows>>
        /\ prot_rows' = IF protocols_shown THEN <<>>
                        ELSE update_protocols_table(prot_rows, summary, sort_column)
    BY <1>11 DEF on_protocols_check_activate, catalogs, node_table, details
  <2>2. prot_rows' \in Seq(Row)
    <3>1. update_protocols_table(prot_rows, summary, sort_column) \in Seq(Row) /\ <<>> \in Seq(Row)
      BY <1>1, ProtocolsType, EmptySeq
    <3> QED
      BY <2>1, <3>1
  <2>3. status = "STOP" => prot_rows' = <<>>
    <3>1. summary = <<>> => update_protocols_table(prot_rows, summary, sort_column) = <<>>
      BY <1>1, ProtocolsEmptied
    <3> QED
      BY <2>1, <3>1
  <2>4. TablesType'
    BY <1>1, <2>1, <2>2 DEF TablesType
  <2> QED
    BY <2>1, <2>3, <2>4
<1>12. CASE sort_clicked
  <2>1. /\ UNCHANGED <<status, summary, nodes, node_rows, nodes_shown, prot_info_windows>>
        /\ prot_rows' = [i \in DOMAIN prot_rows |->
                           prot_rows[SortOrder(prot_rows, sort_column')[i]]]
    BY <1>12 DEF sort_clicked, catalogs, node_table, details
  <2>2. prot_rows' \in Seq(Row) /\ (prot_rows = <<>> => prot_rows' = <<>>)
    BY <1>1, <2>1, RowsSorted
  <2>3. TablesType'
    BY <1>1, <2>1, <2>2 DEF TablesType
  <2> QED
    BY <2>1, <2>2, <2>3
<1>13. CASE nodes_wnd_show
  <2>1. /\ UNCHANGED <<status, summary, nodes, prot_rows, prot_info_windows>>
        /\ nodes_shown' = TRUE /\ node_rows' = nodes_table_update(node_rows, nodes)
    BY <1>13 DEF nodes_wnd_show, catalogs, prot_table, details
  <2>2. node_rows' \in Seq(Node) /\ (nodes = {} => node_rows' = <<>>)
    BY <1>1, <2>1, NodesUpdated, NodesEmptied
  <2>3. TablesType'
    BY <1>1, <2>1, <2>2 DEF TablesType
  <2> QED
    BY <2>1, <2>2, <2>3
<1>14. CASE nodes_wnd_hide
  <2>1. /\ UNCHANGED <<status, summary, nodes, prot_rows, prot_info_windows>>
        /\ node_rows' = <<>>
    BY <1>14 DEF nodes_wnd_hide, catalogs, prot_table, details
  <2>2. node_rows' \in Seq(Node)
    BY <2>1, EmptySeq
  <2>3. TablesType'
    BY <1>1, <2>1, <2>2 DEF TablesType
  <2> QED
    BY <2>1, <2>3
<1>15. CASE create_prot_info_window
  <2>1. /\ UNCHANGED <<status, summary, nodes, prot_rows, node_rows, nodes_shown>>
        /\ DOMAIN prot_rows # {}
    BY <1>15 DEF create_prot_info_window, catalogs, prot_table, node_table
  <2>2. prot_rows # <<>>
    BY <2>1
  <2> QED
    BY <1>2, <2>1, <2>2
<1>16. CASE node_protocols_window_create
  BY <1>2, <1>16 DEF node_protocols_window_create, catalogs, prot_table, node_table
<1>17. CASE link_info_window_create
  BY <1>2, <1>17 DEF link_info_window_create, catalogs, prot_table, node_table
<1>18. CASE window_closed
  <2>1. UNCHANGED <<status, summary, nodes, prot_rows, node_rows, nodes_shown>>
    BY <1>18 DEF window_closed, catalogs, prot_table, node_table
  <2>2. prot_info_windows = <<>> => prot_info_windows' = prot_info_windows
    <3>1. UNCHANGED prot_info_windows \/ DOMAIN prot_info_windows # {}
      BY <1>18 DEF window_closed
    <3>2. \A f : f = <<>> => DOMAIN f = {}
      OBVIOUS
    <3> QED
      BY <3>1, <3>2
  <2> QED
    BY <1>2, <2>1, <2>2
<1>19. CASE UNCHANGED vars
  BY <1>2, <1>19 DEF vars, catalogs, prot_table, node_table, details
<1> QED
  BY <1>3, <1>4, <1>5, <1>6, <1>7, <1>8, <1>9, <1>10, <1>11, <1>12, <1>13, <1>14, <1>15,
     <1>16, <1>17, <1>18, <1>19 DEF Next

\* Nothing of a capture that is stopped is left in the tables or in a window on a
\* protocol, and none can be opened on it.
THEOREM StoppedCaptureShowsNothing == Spec => []StoppedShowsNothing
<1>1. WindowsInv => StoppedShowsNothing
  BY DEF WindowsInv
<1> QED
  BY <1>1, InvInit, InvNext, PTL DEF Spec

\* After an update the table of nodes has one row for each node of the catalog and
\* no other, whatever rows it had before.
THEOREM NodesShownExactly == Spec => NodeTableExact
<1> DEFINE Exact == update_info_windows /\ nodes_shown =>
                      Len(node_rows') = Cardinality(nodes) /\ Range(node_rows') = nodes
<1>1. WindowsInv /\ [Next]_vars => [Exact]_vars
  <2> SUFFICES ASSUME WindowsInv, update_info_windows, nodes_shown
               PROVE  Len(node_rows') = Cardinality(nodes) /\ Range(node_rows') = nodes
    OBVIOUS
  <2>1. node_rows' = nodes_table_update(node_rows, nodes)
    BY DEF update_info_windows, UpdateAll
  <2>2. node_rows \in Seq(Node) /\ nodes \in SUBSET Node /\ IsFiniteSet(nodes)
    BY DEF WindowsInv, TablesType
  <2>3. /\ Len(nodes_table_update(node_rows, nodes)) = Cardinality(nodes)
        /\ Range(nodes_table_update(node_rows, nodes)) = nodes
    BY <2>2, NodesUpdated
  <2> QED
    BY <2>1, <2>3
<1> QED
  BY <1>1, InvInit, InvNext, PTL DEF Spec, NodeTableExact

\* update_protocols_table keeps a table sorted by name in order.
LEMMA NameOrderKept ==
  ASSUME SortColumns \subseteq {"name"}, WindowsInv, SortedByName, [Next]_vars
  PROVE  SortedByName'
<1>1. /\ summary \in Seq(Row) /\ Distinct(summary) /\ prot_rows \in Seq(Row)
      /\ sort_column = "name" /\ InNameOrder(prot_rows)
  BY DEF WindowsInv, TablesType, SortedByName
<1>2. InNameOrder(<<>>)
  <2>1. Len(<<>>) = 0
    BY EmptySeq
  <2> QED
    BY <2>1 DEF InNameOrder
<1>3. ASSUME NEW stack \in Seq(Row), Distinct(stack)
      PROVE  InNameOrder(update_protocols_table(prot_rows, stack, sort_column))
  BY <1>1, <1>3, ProtocolsUpdated
<1>4. ASSUME UNCHANGED <<prot_rows, sort_column>>
      PROVE  SortedByName'
  BY <1>1, <1>4 DEF SortedByName, InNameOrder
<1>5. ASSUME InNameOrder(prot_rows'), UNCHANGED sort_column
      PROVE  SortedByName'
  BY <1>1, <1>5 DEF SortedByName, InNameOrder
<1>6. ASSUME NEW st, NEW stack \in Seq(Row), Distinct(stack), NEW ns, NEW ls,
             UpdateAll(st, stack, ns, ls)
      PROVE  SortedByName'
  <2>1. /\ prot_rows' = update_protocols_table(prot_rows, stack, sort_column)
        /\ UNCHANGED sort_column
    BY <1>6 DEF UpdateAll
  <2> QED
    BY <1>3, <1>5, <1>6, <2>1
<1>7. CASE update_info_windows
  BY <1>1, <1>6, <1>7 DEF update_info_windows
<1>8. CASE gui_pause_capture
  BY <1>1, <1>6, <1>8 DEF gui_pause_capture
<1>9. CASE gui_stop_capture
  <2>1. <<>> \in Seq(Row) /\ Len(<<>>) = 0
    BY EmptySeq
  <2>2. Distinct(<<>>)
    BY <2>1 DEF Distinct
  <2>3. UpdateAll("STOP", <<>>, {}, {})
    BY <1>9 DEF gui_stop_capture
  <2> QED
    BY <1>6, <2>1, <2>2, <2>3
<1>10. CASE on_protocols_check_activate
  <2>1. /\ prot_rows' = IF protocols_shown THEN <<>>
                        ELSE update_protocols_table(prot_rows, summary, sort_column)
        /\ UNCHANGED sort_column
    BY <1>10 DEF on_protocols_check_activate
  <2> QED
    BY <1>1, <1>2, <1>3, <1>5, <2>1
<1>11. CASE sort_clicked
  <2>1. /\ sort_column' = "name"
        /\ prot_rows' = [i \in DOMAIN prot_rows |->
                           prot_rows[SortOrder(prot_rows, sort_column')[i]]]
    BY <1>11 DEF sort_clicked
  <2>2. InNameOrder(prot_rows')
    BY <1>1, <2>1, RowsSorted
  <2> QED
    BY <1>1, <1>5, <2>1, <2>2
<1>12. CASE Tick \/ packet_acquired \/ expire \/ gui_start_capture \/ read_eof
  BY <1>4, <1>12 DEF Tick, packet_acquired, expire, gui_start_capture, read_eof, prot_table
<1>13. CASE nodes_wnd_show \/ nodes_wnd_hide \/ create_prot_info_window
  BY <1>4, <1>13 DEF nodes_wnd_show, nodes_wnd_hide, create_prot_info_window, prot_table
<1>14. CASE node_protocols_window_create \/ link_info_window_create \/ window_closed
  BY <1>4, <1>14 DEF node_protocols_window_create, link_info_window_create, window_closed,
                     prot_table
<1>15. CASE UNCHANGED vars
  BY <1>4, <1>15 DEF vars, prot_table
<1> QED
  BY <1>7, <1>8, <1>9, <1>10, <1>11, <1>12, <1>13, <1>14, <1>15 DEF Next

\* What a window on a protocol shows is that the summary has none of its name, or
\* the figures that the summary has.
LEMMA WindowShows ==
  ASSUME NEW stack \in Seq(Row), NEW p, NEW shown, shown = update_prot_info_window(p, stack)
  PROVE  IF shown = Timeout THEN p \notin Names(stack)
         ELSE [name |-> p, traffic |-> shown] \in Range(stack)
<1>1. DOMAIN stack = 1 .. Len(stack) /\ \A i \in DOMAIN stack : stack[i] \in Row
  BY LenProperties, ElementOfSeq
<1>2. CASE p \notin Names(stack)
  BY <1>2 DEF update_prot_info_window
<1>3. CASE p \in Names(stack)
  <2> DEFINE P(i) == stack[i].name = p
             at == CHOOSE i \in DOMAIN stack : P(i)
  <2>1. \E i \in DOMAIN stack : P(i)
    BY <1>3 DEF Names
  <2>2. at \in DOMAIN stack /\ P(at)
    <3> HIDE DEF P
    <3> QED
      BY <2>1, Zenon
  <2>3. shown = stack[at].traffic
    BY <1>3 DEF update_prot_info_window
  <2> HIDE DEF at
  <2>4. stack[at] \in Row
    BY <1>1, <2>2
  <2>5. shown \in Nat /\ shown # Timeout
    <3>1. shown \in Traffic
      BY <2>3, <2>4, RowNumbers
    <3> QED
      BY <3>1, WindowsAssumption DEF Traffic, Timeout
  <2>6. [name |-> p, traffic |-> shown] = stack[at]
    BY <2>2, <2>3, <2>4 DEF Row
  <2>7. stack[at] \in Range(stack)
    BY <2>2 DEF Range
  <2> QED
    BY <2>5, <2>6, <2>7
<1> QED
  BY <1>2, <1>3

\* After an update the table of protocols shows the summary, each protocol once,
\* and a window on a protocol what the table does: of a table that is only ever
\* sorted by name, for one sorted by its figures may move a row across the
\* iterator (RowMoved).
THEOREM ProtocolsShownExactly ==
  ASSUME SortColumns \subseteq {"name"}
  PROVE  Spec => ProtocolTableExact
<1> DEFINE Shows(rows, f) ==
             \A p \in DOMAIN f : IF f[p] = Timeout THEN p \notin Names(rows)
                                 ELSE [name |-> p, traffic |-> f[p]] \in Range(rows)
           Exact == update_info_windows =>
                      /\ Len(prot_rows') = Len(summary) /\ Range(prot_rows') = Range(summary)
                      /\ Shows(prot_rows', prot_info_windows')
<1>1. Init => SortedByName
  <2>1. Len(<<>>) = 0
    BY EmptySeq
  <2> QED
    BY <2>1 DEF Init, SortedByName, InNameOrder
<1>2. WindowsInv /\ SortedByName /\ [Next]_vars => SortedByName'
  BY NameOrderKept
<1>3. WindowsInv /\ SortedByName /\ [Next]_vars => [Exact]_vars
  <2> SUFFICES ASSUME WindowsInv, SortedByName, update_info_windows
               PROVE  /\ Len(prot_rows') = Len(summary) /\ Range(prot_rows') = Range(summary)
                      /\ Shows(prot_rows', prot_info_windows')
    OBVIOUS
  <2>1. /\ summary \in Seq(Row) /\ Distinct(summary) /\ prot_rows \in Seq(Row)
        /\ sort_column = "name" /\ InNameOrder(prot_rows)
    BY DEF WindowsInv, TablesType, SortedByName
  <2>2. /\ prot_rows' = update_protocols_table(prot_rows, summary, "name")
        /\ prot_info_windows' = update_prot_info_windows(status, summary)
    BY <2>1 DEF update_info_windows, UpdateAll
  <2>3. Len(prot_rows') = Len(summary) /\ Range(prot_rows') = Range(summary)
    BY <2>1, <2>2, ProtocolsUpdated
  <2>4. Names(prot_rows') = Names(summary)
    <3>1. Names(prot_rows') = {row.name : row \in Range(prot_rows')}
      BY DEF Names, Range
    <3>2. Names(summary) = {row.name : row \in Range(summary)}
      BY DEF Names, Range
    <3> QED
      BY <2>3, <3>1, <3>2
  <2>5. ASSUME NEW p \in DOMAIN prot_info_windows'
        PROVE  IF prot_info_windows'[p] = Timeout THEN p \notin Names(prot_rows')
               ELSE [name |-> p, traffic |-> prot_info_windows'[p]] \in Range(prot_rows')
    <3> DEFINE shown == prot_info_windows'[p]
    <3>1. shown = update_prot_info_window(p, summary)
      <4>1. CASE status = "STOP"
        BY <2>2, <4>1 DEF update_prot_info_windows
      <4>2. CASE status # "STOP"
        BY <2>2, <4>2 DEF update_prot_info_windows
      <4> QED
        BY <4>1, <4>2
    <3> HIDE DEF shown
    <3>2. IF shown = Timeout THEN p \notin Names(summary)
          ELSE [name |-> p, traffic |-> shown] \in Range(summary)
      BY <2>1, <3>1, WindowShows
    <3>3. IF shown = Timeout THEN p \notin Names(prot_rows')
          ELSE [name |-> p, traffic |-> shown] \in Range(prot_rows')
      BY <2>3, <2>4, <3>2
    <3> QED
      BY <3>3 DEF shown
  <2> QED
    BY <2>3, <2>5
<1> QED
  BY <1>1, <1>2, <1>3, InvInit, InvNext, PTL DEF Spec, ProtocolTableExact
=============================================================================
