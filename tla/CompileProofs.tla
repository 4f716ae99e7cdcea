---------------------------- MODULE CompileProofs ----------------------------
(***************************************************************************)
(* Proofs about CompileService, for every choice of its constants.  A      *)
(* compile reads the store once and then works on what it has read, while  *)
(* the store goes on: that no row of a stored memory changes, and that a   *)
(* later edge leads to a later memory, keeps what it has read of one       *)
(* moment.  The sort and the greedy packing are facts about finite orders  *)
(* and folds, proved first.                                                *)
(***************************************************************************)
EXTENDS CompileService, EventStoreProofs, FiniteSetTheorems, NaturalsInduction

---------------------------------------------------------------------------
\* Folds over sequences

LEMMA Appended ==
    ASSUME NEW T, NEW s \in Seq(T), NEW x \in T
    PROVE  /\ Append(s, x) \in Seq(T)
           /\ Len(Append(s, x)) = Len(s) + 1
           /\ DOMAIN Append(s, x) = 1..(Len(s) + 1)
           /\ Append(s, x)[Len(s) + 1] = x
           /\ \A i \in 1..Len(s) : Append(s, x)[i] = s[i]
OBVIOUS

\* What holds of no step, and of a step more than it holds of, holds of all.
LEMMA Climb ==
    ASSUME NEW n \in Nat, NEW S, 0 \in S, \A i \in 1..n : i - 1 \in S => i \in S
    PROVE  0..n \subseteq S
<1> DEFINE rest == (0..n) \ S
<1> SUFFICES ASSUME rest # {} PROVE FALSE
  OBVIOUS
<1>1. rest \in SUBSET Nat
  OBVIOUS
<1>2. PICK least \in rest : \A e \in rest : ~(<<e, least>> \in OpToRel(<, Nat))
  BY <1>1, NatLessThanWellFounded, WFMin
<1>3. least \in 0..n /\ least \notin S /\ least # 0
  OBVIOUS
<1>4. least - 1 \in 0..n /\ least \in 1..n /\ least - 1 \notin S
  BY <1>3
<1>5. <<least - 1, least>> \in OpToRel(<, Nat)
  <2>1. least - 1 < least /\ least - 1 \in Nat /\ least \in Nat
    BY <1>3, <1>4
  <2> QED BY <2>1, Zenon DEF OpToRel
<1> QED BY <1>2, <1>4, <1>5

\* A set of numbers up to n has a greatest.
LEMMA GreatestOf ==
    ASSUME NEW n \in Nat, NEW s \in SUBSET (0..n), s # {}
    PROVE  /\ Max(s) \in s /\ \A e \in s : Max(s) >= e
           /\ n \in s => Max(s) = n
<1> DEFINE S == {k \in 0..n : k \in 0..n /\ \A e \in s : e <= n - k}
<1>1. PICK x \in s : \A e \in s : x >= e
  <2> SUFFICES ASSUME \A x \in s : \E e \in s : ~(x >= e) PROVE FALSE
    OBVIOUS
  <2>1. 0 \in S
    OBVIOUS
  <2>2. ASSUME NEW k \in 1..n, k - 1 \in S PROVE k \in S
    <3>1. \A e \in s : e <= n - (k - 1)
      BY <2>2
    <3>2. \A e \in s : e # n - (k - 1)
      BY <3>1
    <3> QED BY <3>1, <3>2
  <2> HIDE DEF S
  <2>3. n \in S
    BY <2>1, <2>2, Climb
  <2>4. \A e \in s : e = 0
    BY <2>3 DEF S
  <2>5. PICK x \in s : TRUE
    OBVIOUS
  <2>6. PICK e \in s : ~(x >= e)
    OBVIOUS
  <2> QED BY <2>4, <2>6
<1> HIDE DEF S
<1>2. Max(s) \in s /\ \A e \in s : Max(s) >= e
  BY <1>1 DEF Max
<1>3. ASSUME n \in s PROVE Max(s) = n
  <2>1. Max(s) \in 0..n /\ Max(s) >= n
    BY <1>2, <1>3
  <2> QED BY <2>1
<1> QED BY <1>2, <1>3

\* A fold of n steps exists: a step is of a number and of what is folded.
Folding(f, n, base, Step) ==
    \A s \in SUBSET (1..n) :
      f[s] = IF s = {} THEN base ELSE Step[<<Max(s), f[s \ {Max(s)}]>>]

LEMMA FoldExists ==
    ASSUME NEW P, NEW base \in P, NEW n \in Nat, NEW Step \in [(1..n) \X P -> P]
    PROVE  \E f \in [SUBSET (1..n) -> P] : Folding(f, n, base, Step)
<1> DEFINE S == {k \in 0..n : \E f \in [SUBSET (1..k) -> P] : Folding(f, k, base, Step)}
<1>1. 0 \in S
  <2> DEFINE f == [s \in SUBSET (1..0) |-> base]
  <2>1. f \in [SUBSET (1..0) -> P]
    OBVIOUS
  <2>2. \A s \in SUBSET (1..0) : s = {}
    OBVIOUS
  <2>3. Folding(f, 0, base, Step)
    BY <2>2 DEF Folding
  <2> QED BY <2>1, <2>3
<1>2. ASSUME NEW k \in 1..n, k - 1 \in S PROVE k \in S
  <2>1. PICK g \in [SUBSET (1..(k - 1)) -> P] : Folding(g, k - 1, base, Step)
    BY <1>2
  <2> DEFINE f == [s \in SUBSET (1..k) |-> IF k \in s THEN Step[<<k, g[s \ {k}]>>] ELSE g[s]]
  <2>2. \A s \in SUBSET (1..k) :
          /\ s \ {k} \in SUBSET (1..(k - 1))
          /\ k \notin s => s \in SUBSET (1..(k - 1))
    OBVIOUS
  <2>3. f \in [SUBSET (1..k) -> P]
    <3>1. ASSUME NEW s \in SUBSET (1..k)
          PROVE  (IF k \in s THEN Step[<<k, g[s \ {k}]>>] ELSE g[s]) \in P
      <4>1. CASE k \in s
        <5>1. g[s \ {k}] \in P
          BY <2>1, <2>2
        <5> QED BY <4>1, <5>1
      <4>2. CASE k \notin s
        BY <2>1, <2>2, <4>2
      <4> QED BY <4>1, <4>2
    <3> QED BY <3>1
  <2>4. ASSUME NEW s \in SUBSET (1..k)
        PROVE  f[s] = IF s = {} THEN base ELSE Step[<<Max(s), f[s \ {Max(s)}]>>]
    <3>1. CASE s = {}
      <4>1. f[s] = g[s] /\ s \in SUBSET (1..(k - 1))
        BY <3>1
      <4> QED BY <2>1, <3>1, <4>1 DEF Folding
    <3>2. CASE s # {} /\ k \in s
      <4>1. Max(s) = k
        BY <3>2, GreatestOf
      <4>2. s \ {k} \in SUBSET (1..k) /\ k \notin s \ {k}
        OBVIOUS
      <4>3. f[s \ {k}] = g[s \ {k}] /\ f[s] = Step[<<k, g[s \ {k}]>>]
        BY <3>2, <4>2
      <4> QED BY <3>2, <4>1, <4>3
    <3>3. CASE s # {} /\ k \notin s
      <4>1. s \in SUBSET (1..(k - 1)) /\ f[s] = g[s]
        BY <2>2, <3>3
      <4>2. Max(s) \in s
        BY <3>3, GreatestOf
      <4>3. s \ {Max(s)} \in SUBSET (1..k) /\ k \notin s \ {Max(s)}
        BY <3>3
      <4>4. f[s \ {Max(s)}] = g[s \ {Max(s)}]
        BY <4>3
      <4>5. g[s] = Step[<<Max(s), g[s \ {Max(s)}]>>]
        BY <2>1, <3>3, <4>1 DEF Folding
      <4> QED BY <3>3, <4>1, <4>4, <4>5
    <3> QED BY <3>1, <3>2, <3>3
  <2>5. Folding(f, k, base, Step)
    BY <2>4 DEF Folding
  <2> HIDE DEF f
  <2> QED BY <2>3, <2>5
<1>3. n \in S
  <2> HIDE DEF S
  <2>1. 0..n \subseteq S
    BY <1>1, <1>2, Climb
  <2> QED BY <2>1
<1> QED BY <1>3

\* The packs of a greedy selection, one for each candidate it has tried.
Packs(f, packs) ==
    packs = [s \in SUBSET DOMAIN f.ranked |->
               IF s = {} THEN <<>> ELSE Added(f, packs[s \ {Max(s)}], f.ranked[Max(s)])]

LEMMA GreedyIs ==
    ASSUME NEW f
    PROVE  Greedy(f) = (CHOOSE packs : Packs(f, packs))[DOMAIN f.ranked]
BY DEF Greedy, FoldLeft, MapThenFoldSet, Packs

LEMMA GreedySteps ==
    ASSUME NEW T, NEW f, f.ranked \in Seq(T)
    PROVE  \E h : /\ h \in [0..Len(f.ranked) -> Seq(T)]
                  /\ h[0] = <<>> /\ h[Len(f.ranked)] = Greedy(f)
                  /\ \A i \in 1..Len(f.ranked) : h[i] = Added(f, h[i - 1], f.ranked[i])
<1> DEFINE n == Len(f.ranked)
           packs == CHOOSE packs : Packs(f, packs)
           h == [i \in 0..n |-> packs[1..i]]
<1>1. n \in Nat /\ DOMAIN f.ranked = 1..n /\ \A i \in 1..n : f.ranked[i] \in T
  OBVIOUS
<1>2. \A pack \in Seq(T), i \in 1..n : Added(f, pack, f.ranked[i]) \in Seq(T)
  BY <1>1, Appended DEF Added
<1> HIDE DEF n
<1>3. \E g : Packs(f, g)
  <2> DEFINE Step == [p \in (1..n) \X Seq(T) |-> Added(f, p[2], f.ranked[p[1]])]
  <2>1. Step \in [(1..n) \X Seq(T) -> Seq(T)]
    BY <1>2
  <2>2. <<>> \in Seq(T)
    OBVIOUS
  <2> HIDE DEF Step
  <2>3. PICK g \in [SUBSET (1..n) -> Seq(T)] : Folding(g, n, <<>>, Step)
    BY <1>1, <2>1, <2>2, FoldExists
  <2>4. ASSUME NEW s \in SUBSET (1..n)
        PROVE  g[s] = IF s = {} THEN <<>> ELSE Added(f, g[s \ {Max(s)}], f.ranked[Max(s)])
    <3>1. CASE s = {}
      BY <2>3, <3>1 DEF Folding
    <3>2. CASE s # {}
      <4>1. Max(s) \in 1..n
        <5>1. s \in SUBSET (0..n)
          BY <1>1
        <5>2. Max(s) \in s
          BY <1>1, <3>2, <5>1, GreatestOf
        <5> QED BY <5>2
      <4>2. g[s \ {Max(s)}] \in Seq(T)
        BY <2>3
      <4>3. <<Max(s), g[s \ {Max(s)}]>> \in (1..n) \X Seq(T)
        BY <4>1, <4>2
      <4>4. Step[<<Max(s), g[s \ {Max(s)}]>>] = Added(f, g[s \ {Max(s)}], f.ranked[Max(s)])
        BY <4>3 DEF Step
      <4> QED BY <2>3, <3>2, <4>4 DEF Folding
    <3> QED BY <3>1, <3>2
  <2>5. g = [s \in SUBSET (1..n) |->
               IF s = {} THEN <<>> ELSE Added(f, g[s \ {Max(s)}], f.ranked[Max(s)])]
    BY <2>3, <2>4
  <2> QED BY <1>1, <2>5 DEF Packs
<1>4. Packs(f, packs)
  BY <1>3
<1>5. \A s \in SUBSET (1..n) :
        packs[s] = IF s = {} THEN <<>> ELSE Added(f, packs[s \ {Max(s)}], f.ranked[Max(s)])
  <2> HIDE DEF packs
  <2> QED BY <1>1, <1>4 DEF Packs
<1>6. packs[1..n] = Greedy(f)
  BY <1>1, GreedyIs
<1> HIDE DEF packs
<1>7. h[0] = <<>>
  <2>1. 1..0 = {} /\ 1..0 \in SUBSET (1..n)
    OBVIOUS
  <2>2. h[0] = packs[1..0]
    BY <1>1
  <2> QED BY <1>5, <2>1, <2>2
<1>8. ASSUME NEW i \in 1..n PROVE h[i] = Added(f, h[i - 1], f.ranked[i])
  <2>1. i \in Nat /\ 1..i \in SUBSET (1..n) /\ i \in 1..i /\ i \in 0..n /\ i - 1 \in 0..n
    BY <1>1
  <2>2. Max(1..i) = i
    <3>1. 1..i # {}
      BY <2>1
    <3>2. 1..i \in SUBSET (0..i)
      OBVIOUS
    <3> QED BY <2>1, <3>1, <3>2, GreatestOf
  <2>3. (1..i) \ {i} = 1..(i - 1)
    BY <2>1
  <2>4. packs[1..i] = Added(f, packs[1..(i - 1)], f.ranked[i])
    <3>1. 1..i # {}
      BY <2>1
    <3> QED BY <1>5, <2>1, <2>2, <2>3, <3>1
  <2> QED BY <2>1, <2>4
<1>9. \A i \in 0..n : h[i] \in Seq(T)
  <2> DEFINE S == {i \in 0..n : h[i] \in Seq(T)}
  <2> HIDE DEF h
  <2>1. 0 \in S
    <3>1. <<>> \in Seq(T) /\ 0 \in 0..n
      BY <1>1
    <3> QED BY <1>7, <3>1
  <2>2. ASSUME NEW i \in 1..n, i - 1 \in S PROVE i \in S
    BY <1>2, <1>8, <2>2
  <2> HIDE DEF S
  <2>3. 0..n \subseteq S
    BY <1>1, <2>1, <2>2, Climb
  <2> QED BY <2>3 DEF S
<1>10. h[n] = Greedy(f)
  BY <1>1, <1>6
<1>11. h \in [0..n -> Seq(T)]
  BY <1>9
<1> HIDE DEF h
<1> QED BY <1>7, <1>8, <1>10, <1>11 DEF n

---------------------------------------------------------------------------
\* Sorting a finite set

\* R orders the elements of S strictly and in one line.
Linear(S, R) ==
    /\ \A l \in S : <<l, l>> \notin R
    /\ \A l, m \in S : l # m => <<l, m>> \in R \/ <<m, l>> \in R
    /\ \A k, l, m \in S : <<k, l>> \in R /\ <<l, m>> \in R => <<k, m>> \in R
Lined(order, R) == \A i, j \in DOMAIN order : i < j => <<order[i], order[j]>> \in R
Lines(order, n, T, R) ==
    /\ order \in [1..n -> T] /\ \A l \in T : \E i \in 1..n : order[i] = l
    /\ Lined(order, R)

\* A further element has its place in a line.
LEMMA Inserted ==
    ASSUME NEW S, NEW R, Linear(S, R), NEW T \in SUBSET S, NEW x \in S, x \notin T,
           NEW n \in Nat, NEW order, Lines(order, n, T, R)
    PROVE  \E new : Lines(new, n + 1, T \cup {x}, R)
<1> DEFINE K == {k \in 0..n : \A i \in 1..k : <<order[i], x>> \in R}
           k == Max(K)
           new == [i \in 1..(n + 1) |-> IF i <= k THEN order[i] ELSE IF i = k + 1 THEN x ELSE order[i - 1]]
<1>1. k \in K /\ \A e \in K : k >= e
  <2>1. 0 \in K /\ K \in SUBSET (0..n)
    OBVIOUS
  <2> HIDE DEF K
  <2> QED BY <2>1, GreatestOf
<1>2. k \in 0..n /\ \A i \in 1..k : <<order[i], x>> \in R
  BY <1>1
<1>3. order \in [1..n -> T] /\ \A i, j \in 1..n : i < j => <<order[i], order[j]>> \in R
  BY DEF Lines, Lined
<1>4. \A i \in 1..n : i > k => <<x, order[i]>> \in R
  <2>1. CASE k = n
    BY <2>1
  <2>2. CASE k # n
    <3>1. k + 1 \in 1..n /\ k + 1 \notin K
      BY <1>1, <1>2, <2>2
    <3>2. <<order[k + 1], x>> \notin R
      BY <1>2, <3>1
    <3> HIDE DEF k
    <3>3. <<x, order[k + 1]>> \in R
      <4>1. order[k + 1] \in T /\ order[k + 1] \in S /\ order[k + 1] # x
        BY <1>3, <3>1
      <4> QED BY <3>2, <4>1 DEF Linear
    <3>4. ASSUME NEW i \in 1..n, i > k PROVE <<x, order[i]>> \in R
      <4>1. CASE i = k + 1
        BY <3>3, <4>1
      <4>2. CASE i # k + 1
        <5>1. <<order[k + 1], order[i]>> \in R
          BY <1>2, <1>3, <3>1, <3>4, <4>2
        <5>2. order[k + 1] \in S /\ order[i] \in S
          BY <1>3, <3>1
        <5> QED BY <3>3, <5>1, <5>2 DEF Linear
      <4> QED BY <4>1, <4>2
    <3> QED BY <3>4
  <2> QED BY <2>1, <2>2
<1> HIDE DEF k
<1>5. new \in [1..(n + 1) -> T \cup {x}]
  BY <1>2, <1>3
<1>6. \A l \in T \cup {x} : \E i \in 1..(n + 1) : new[i] = l
  <2>1. new[k + 1] = x /\ k + 1 \in 1..(n + 1)
    BY <1>2
  <2>2. ASSUME NEW l \in T PROVE \E i \in 1..(n + 1) : new[i] = l
    <3>1. PICK i \in 1..n : order[i] = l
      BY DEF Lines
    <3>2. IF i <= k THEN new[i] = l /\ i \in 1..(n + 1) ELSE new[i + 1] = l /\ i + 1 \in 1..(n + 1)
      BY <1>2, <3>1
    <3> QED BY <3>2
  <2> QED BY <2>1, <2>2
<1>7. ASSUME NEW i \in 1..(n + 1), NEW j \in 1..(n + 1), i < j PROVE <<new[i], new[j]>> \in R
  <2>1. CASE j <= k
    <3>1. i \in 1..n /\ j \in 1..n /\ new[i] = order[i] /\ new[j] = order[j]
      BY <1>2, <1>7, <2>1
    <3> QED BY <1>3, <1>7, <3>1
  <2>2. CASE j = k + 1
    <3>1. i \in 1..k /\ new[i] = order[i] /\ new[j] = x
      BY <1>2, <1>7, <2>2
    <3> QED BY <1>2, <3>1
  <2>3. CASE j > k + 1 /\ i = k + 1
    <3>1. j - 1 \in 1..n /\ j - 1 > k /\ new[i] = x /\ new[j] = order[j - 1]
      BY <1>2, <2>3
    <3> QED BY <1>4, <3>1
  <2>4. CASE j > k + 1 /\ i <= k
    <3>1. i \in 1..n /\ j - 1 \in 1..n /\ i < j - 1 /\ new[i] = order[i] /\ new[j] = order[j - 1]
      BY <1>2, <2>4
    <3> QED BY <1>3, <3>1
  <2>5. CASE j > k + 1 /\ i > k + 1
    <3>1. i - 1 \in 1..n /\ j - 1 \in 1..n /\ i - 1 < j - 1
          /\ new[i] = order[i - 1] /\ new[j] = order[j - 1]
      BY <1>2, <1>7, <2>5
    <3> QED BY <1>3, <3>1
  <2> QED BY <1>2, <1>7, <2>1, <2>2, <2>3, <2>4, <2>5
<1>8. DOMAIN new = 1..(n + 1)
  OBVIOUS
<1> HIDE DEF new
<1> QED BY <1>5, <1>6, <1>7, <1>8 DEF Lines, Lined

\* A finite set has a line.
LEMMA LineExists ==
    ASSUME NEW S, IsFiniteSet(S), NEW R, Linear(S, R)
    PROVE  \E order : Lines(order, Cardinality(S), S, R)
<1> DEFINE n == Cardinality(S)
           W == {k \in 0..n : \A T \in SUBSET S : Cardinality(T) = k => \E order : Lines(order, k, T, R)}
<1>1. n \in Nat
  BY FS_CardinalityType
<1>2. \A T \in SUBSET S : IsFiniteSet(T) /\ Cardinality(T) \in Nat
  BY FS_Subset, FS_CardinalityType
<1> HIDE DEF n
<1>3. 0 \in W
  <2>1. ASSUME NEW T \in SUBSET S, Cardinality(T) = 0 PROVE \E order : Lines(order, 0, T, R)
    <3>1. T = {}
      BY <1>2, <2>1, FS_EmptySet
    <3>2. Lines([i \in 1..0 |-> i], 0, T, R)
      BY <3>1 DEF Lines, Lined
    <3> QED BY <3>2
  <2> QED BY <1>1, <2>1
<1>4. ASSUME NEW k \in 1..n, k - 1 \in W PROVE k \in W
  <2>1. ASSUME NEW T \in SUBSET S, Cardinality(T) = k PROVE \E order : Lines(order, k, T, R)
    <3>1. T # {}
      <4>1. Cardinality({}) = 0
        BY FS_EmptySet
      <4> QED BY <2>1, <4>1
    <3>2. PICK x \in T : TRUE
      BY <3>1
    <3>3. T \ {x} \in SUBSET S /\ Cardinality(T \ {x}) = k - 1
      BY <1>2, <2>1, FS_RemoveElement
    <3>4. PICK order : Lines(order, k - 1, T \ {x}, R)
      BY <1>4, <3>3
    <3>5. (T \ {x}) \cup {x} = T /\ k - 1 \in Nat /\ (k - 1) + 1 = k /\ x \in S /\ x \notin T \ {x}
      BY <1>1, <3>2
    <3>6. \E new : Lines(new, (k - 1) + 1, (T \ {x}) \cup {x}, R)
      BY <3>3, <3>4, <3>5, Inserted
    <3> QED BY <3>5, <3>6
  <2> QED BY <1>1, <2>1
<1>5. n \in W
  <2> HIDE DEF W
  <2>1. 0..n \subseteq W
    BY <1>1, <1>3, <1>4, Climb
  <2> QED BY <1>1, <2>1
<1> QED BY <1>5 DEF n

\* An enumeration of a finite set.
LEMMA SeqsOf ==
    ASSUME NEW S, IsFiniteSet(S), NEW order \in SetToSeqs(S)
    PROVE  /\ order \in Seq(S) /\ Len(order) = Cardinality(S)
           /\ IsInjective(order) /\ ToSet(order) = S
<1>1. Cardinality(S) \in Nat
  BY FS_CardinalityType
<1>2. /\ order \in [1..Cardinality(S) -> S]
      /\ \A i, j \in 1..Cardinality(S) : i # j => order[i] # order[j]
  BY DEF SetToSeqs
<1>3. order \in Seq(S) /\ Len(order) = Cardinality(S) /\ DOMAIN order = 1..Cardinality(S)
  BY <1>1, <1>2
<1>4. ToSet(order) \subseteq S /\ IsInjective(order)
  BY <1>2, <1>3 DEF ToSet, IsInjective
<1>5. IsFiniteSet(ToSet(order)) /\ Cardinality(ToSet(order)) = Cardinality(S)
  <2>1. order \in Bijection(1..Cardinality(S), ToSet(order))
    BY <1>2, <1>3 DEF Bijection, Injection, Surjection, ToSet, IsInjective
  <2>2. ExistsBijection(1..Cardinality(S), ToSet(order))
    BY <2>1 DEF ExistsBijection
  <2> QED BY <1>1, <2>2, FS_CountingElements, FS_NatBijection, FS_CardinalityType
<1>6. ToSet(order) = S
  BY <1>4, <1>5, FS_Subset
<1> QED BY <1>3, <1>4, <1>6

\* The sort of providers.py and compile.py finds an order: of two candidates
\* the scores or the places of their events in the project differ.
LEMMA OrderedSorts ==
    ASSUME NEW f, NEW S, IsFiniteSet(S), NEW score, \A m \in S : score[m] \in Int,
           \A m \in S : f.read[m].pseq \in Int,
           \A l, m \in S : l # m => f.read[l].pseq # f.read[m].pseq
    PROVE  /\ Ordered(f, S, score) \in SetToSeqs(S)
           /\ \A i, j \in DOMAIN Ordered(f, S, score) :
                i < j => Precedes(f, score, Ordered(f, S, score)[i], Ordered(f, S, score)[j])
<1> DEFINE R == {p \in S \X S : Precedes(f, score, p[1], p[2])}
           InLine(order) == \A i, j \in DOMAIN order : i < j => Precedes(f, score, order[i], order[j])
<1>1. \A l, m \in S : <<l, m>> \in R <=> Precedes(f, score, l, m)
  OBVIOUS
<1> HIDE DEF R
<1>2. Linear(S, R)
  <2>1. \A l, m \in S : <<l, m>> \in R <=>
           score[l] > score[m] \/ (score[l] = score[m] /\ f.read[l].pseq > f.read[m].pseq)
    BY <1>1 DEF Precedes
  <2> QED BY <2>1 DEF Linear
<1>3. PICK order : Lines(order, Cardinality(S), S, R)
  BY <1>2, LineExists
<1>4. order \in SetToSeqs(S)
  <2>1. order \in [1..Cardinality(S) -> S] /\ Cardinality(S) \in Nat
    BY <1>3, FS_CardinalityType DEF Lines
  <2>2. ASSUME NEW i \in 1..Cardinality(S), NEW j \in 1..Cardinality(S), i # j
        PROVE  order[i] # order[j]
    <3>1. <<order[i], order[j]>> \in R \/ <<order[j], order[i]>> \in R
      <4>1. i < j \/ j < i
        BY <2>1, <2>2
      <4> QED BY <1>3, <2>1, <4>1 DEF Lines, Lined
    <3>2. order[i] \in S /\ order[j] \in S
      BY <2>1
    <3> QED BY <1>2, <3>1, <3>2 DEF Linear
  <2> QED BY <2>1, <2>2 DEF SetToSeqs
<1>5. InLine(order)
  BY <1>1, <1>3 DEF Lines, Lined
<1>6. Ordered(f, S, score) = CHOOSE o \in SetToSeqs(S) : InLine(o)
  BY DEF Ordered
<1> HIDE DEF InLine
<1>7. Ordered(f, S, score) \in SetToSeqs(S) /\ InLine(Ordered(f, S, score))
  BY <1>4, <1>5, <1>6
<1> QED BY <1>7 DEF InLine

\* _embedding_top_n: the first TopN, or all.
LEMMA NearestOf ==
    ASSUME NEW S, IsFiniteSet(S), NEW near \in SetToSeqs(S)
    PROVE  /\ Nearest(near) \subseteq S
           /\ S \ Nearest(near) # {} => Cardinality(Nearest(near)) = TopN
           /\ near = <<>> <=> Nearest(near) = {}
<1>1. /\ near \in Seq(S) /\ Len(near) = Cardinality(S)
      /\ IsInjective(near) /\ ToSet(near) = S /\ Len(near) \in Nat
  BY SeqsOf
<1>2. TopN \in Nat /\ TopN >= 1
  BY CompileAssumption
<1>3. Nearest(near) \subseteq S
  BY <1>1 DEF Nearest
<1>4. ASSUME S \ Nearest(near) # {} PROVE Cardinality(Nearest(near)) = TopN
  <2>1. TopN <= Len(near)
    <3>1. PICK m \in S : m \notin Nearest(near)
      BY <1>4
    <3>2. PICK i \in 1..Len(near) : near[i] = m
      BY <1>1 DEF ToSet
    <3> QED BY <1>1, <1>2, <3>1, <3>2 DEF Nearest
  <2> DEFINE g == [i \in 1..TopN |-> near[i]]
  <2>2. g \in Bijection(1..TopN, Nearest(near))
    <3>1. \A i \in 1..TopN : i \in DOMAIN near /\ near[i] \in Nearest(near)
      BY <1>1, <1>2, <2>1 DEF Nearest
    <3>2. \A m \in Nearest(near) : \E i \in 1..TopN : near[i] = m
      BY <1>1, <1>2, <2>1 DEF Nearest
    <3>3. \A i, j \in 1..TopN : near[i] = near[j] => i = j
      BY <1>1, <3>1 DEF IsInjective
    <3>4. g \in [1..TopN -> Nearest(near)] /\ IsInjective(g)
      BY <3>1, <3>3 DEF IsInjective
    <3> QED BY <3>2, <3>4 DEF Bijection, Injection, Surjection
  <2>3. ExistsBijection(1..TopN, Nearest(near))
    BY <2>2 DEF ExistsBijection
  <2> QED BY <1>2, <2>3, FS_CountingElements, FS_NatBijection
<1>5. near = <<>> <=> Nearest(near) = {}
  <2>1. CASE near = <<>>
    BY <2>1 DEF Nearest
  <2>2. CASE near # <<>>
    <3>1. 1 \in DOMAIN near
      BY <1>1, <2>2
    <3>2. near[1] \in Nearest(near)
      BY <1>2, <3>1 DEF Nearest
    <3> QED BY <2>2, <3>2
  <2> QED BY <2>1, <2>2
<1> QED BY <1>3, <1>4, <1>5

---------------------------------------------------------------------------
\* What a greedy selection selects

\* pack is made of the first i of a ranking, in its order.
Made(f, pack, i) ==
    \E index \in [1..Len(pack) -> 1..i] :
        /\ \A j \in 1..Len(pack) : f.ranked[index[j]] = pack[j]
        /\ \A j, k \in 1..Len(pack) : j < k => index[j] < index[k]

\* later goes on where pack ended, after the first i of a ranking.
GoesOn(f, pack, i, later, k) ==
    /\ Len(pack) <= Len(later) /\ \A j \in 1..Len(pack) : later[j] = pack[j]
    /\ \A j \in 1..Len(later) : j > Len(pack) => \E p \in (i + 1)..k : f.ranked[p] = later[j]

LEMMA MadeStep ==
    ASSUME NEW T, NEW f, f.ranked \in Seq(T), NEW pack \in Seq(T), NEW i \in 1..Len(f.ranked),
           Made(f, pack, i - 1)
    PROVE  Made(f, Added(f, pack, f.ranked[i]), i)
<1>1. PICK index \in [1..Len(pack) -> 1..(i - 1)] :
        /\ \A j \in 1..Len(pack) : f.ranked[index[j]] = pack[j]
        /\ \A j, k \in 1..Len(pack) : j < k => index[j] < index[k]
  BY DEF Made
<1> DEFINE m == f.ranked[i]
           n == Len(pack)
<1>2. n \in Nat /\ i \in Nat /\ m \in T /\ i <= Len(f.ranked) /\ 1 <= i
  OBVIOUS
<1>3. CASE Added(f, pack, m) = pack
  <2>1. index \in [1..Len(pack) -> 1..i]
    BY <1>2
  <2> HIDE DEF m, n
  <2>2. Made(f, pack, i)
    BY <1>1, <2>1 DEF Made
  <2> QED BY <1>3, <2>2 DEF m
<1>4. CASE Added(f, pack, m) = Append(pack, m)
  <2> DEFINE new == [j \in 1..(n + 1) |-> IF j = n + 1 THEN i ELSE index[j]]
             longer == Append(pack, m)
  <2>1. Len(longer) = n + 1 /\ longer[n + 1] = m /\ \A j \in 1..n : longer[j] = pack[j]
    BY <1>2, Appended
  <2> HIDE DEF longer
  <2>2. new \in [1..(n + 1) -> 1..i]
    <3>1. \A j \in 1..(n + 1) : j # n + 1 => j \in 1..n
      BY <1>2
    <3>2. \A j \in 1..n : index[j] \in 1..i
      BY <1>2
    <3> HIDE DEF n
    <3> QED BY <1>2, <3>1, <3>2 DEF n
  <2>3. ASSUME NEW j \in 1..(n + 1) PROVE f.ranked[new[j]] = longer[j]
    <3>1. CASE j = n + 1
      BY <2>1, <3>1
    <3>2. CASE j # n + 1
      <4>1. j \in 1..n
        BY <1>2, <3>2
      <4> QED BY <1>1, <2>1, <3>2, <4>1
    <3> QED BY <3>1, <3>2
  <2>4. ASSUME NEW j \in 1..(n + 1), NEW k \in 1..(n + 1), j < k PROVE new[j] < new[k]
    <3>1. j \in 1..n /\ new[j] = index[j]
      BY <1>2, <2>4
    <3>2. CASE k = n + 1
      <4>1. index[j] \in 1..(i - 1)
        BY <3>1
      <4> QED BY <1>2, <3>1, <3>2, <4>1
    <3>3. CASE k # n + 1
      <4>1. k \in 1..n
        BY <1>2, <3>3
      <4> QED BY <1>1, <2>4, <3>1, <3>3, <4>1
    <3> QED BY <3>2, <3>3
  <2> HIDE DEF new
  <2> QED BY <1>4, <2>1, <2>2, <2>3, <2>4 DEF Made, longer
<1> QED BY <1>3, <1>4 DEF Added

LEMMA GoesOnStep ==
    ASSUME NEW T, NEW f, f.ranked \in Seq(T), NEW pack \in Seq(T), NEW later \in Seq(T),
           NEW i \in Nat, NEW k \in 1..Len(f.ranked), i < k, GoesOn(f, pack, i, later, k - 1)
    PROVE  GoesOn(f, pack, i, Added(f, later, f.ranked[k]), k)
<1> DEFINE m == f.ranked[k]
<1>1. Len(pack) \in Nat /\ Len(later) \in Nat /\ k \in Nat /\ m \in T
  OBVIOUS
<1>2. ASSUME NEW j \in 1..Len(later), j > Len(pack) PROVE \E p \in (i + 1)..k : f.ranked[p] = later[j]
  <2>1. PICK p \in (i + 1)..(k - 1) : f.ranked[p] = later[j]
    BY <1>2 DEF GoesOn
  <2> QED BY <1>1, <2>1
<1>3. CASE Added(f, later, m) = later
  BY <1>2, <1>3 DEF GoesOn
<1>4. CASE Added(f, later, m) = Append(later, m)
  <2> DEFINE longer == Append(later, m)
  <2>1. Len(longer) = Len(later) + 1 /\ longer[Len(later) + 1] = m
        /\ \A j \in 1..Len(later) : longer[j] = later[j]
    BY <1>1, Appended
  <2> HIDE DEF longer
  <2>2. Len(pack) <= Len(longer) /\ \A j \in 1..Len(pack) : longer[j] = pack[j]
    BY <1>1, <2>1 DEF GoesOn
  <2>3. ASSUME NEW j \in 1..Len(longer), j > Len(pack)
        PROVE  \E p \in (i + 1)..k : f.ranked[p] = longer[j]
    <3>1. CASE j = Len(later) + 1
      BY <1>1, <2>1, <3>1
    <3>2. CASE j # Len(later) + 1
      <4>1. j \in 1..Len(later)
        BY <1>1, <2>1, <3>2
      <4> QED BY <1>2, <2>1, <2>3, <4>1
    <3> QED BY <3>1, <3>2
  <2> QED BY <1>4, <2>2, <2>3 DEF GoesOn, longer
<1> QED BY <1>3, <1>4 DEF Added

\* The candidates left out do not fit behind those selected above them.
LeftOut(f, pack, i) ==
    \E n \in 0..Len(pack) :
        /\ \A j \in DOMAIN pack : j <= n <=> \E above \in 1..(i - 1) : f.ranked[above] = pack[j]
        /\ ~Fits(f, Append(SubSeq(pack, 1, n), f.ranked[i]))

\* BudgetSelector.select takes candidates in their order, as many as fit, and
\* leaves out what does not fit behind those it has by then.
LEMMA GreedySelects ==
    ASSUME NEW T, NEW f, f.ranked \in Seq(T), IsInjective(f.ranked), Fits(f, <<>>)
    PROVE  /\ Greedy(f) \in Seq(T) /\ ToSet(Greedy(f)) \subseteq ToSet(f.ranked)
           /\ Made(f, Greedy(f), Len(f.ranked)) /\ Fits(f, Greedy(f))
           /\ \A i \in DOMAIN f.ranked :
                f.ranked[i] \notin ToSet(Greedy(f)) => LeftOut(f, Greedy(f), i)
<1>1. PICK h : /\ h \in [0..Len(f.ranked) -> Seq(T)]
               /\ h[0] = <<>> /\ h[Len(f.ranked)] = Greedy(f)
               /\ \A i \in 1..Len(f.ranked) : h[i] = Added(f, h[i - 1], f.ranked[i])
  BY GreedySteps
<1> DEFINE n == Len(f.ranked)
           pack == Greedy(f)
<1>2. n \in Nat /\ DOMAIN f.ranked = 1..n /\ n \in 0..n /\ \A i \in 1..n : f.ranked[i] \in T
  OBVIOUS
<1> HIDE DEF n, pack
<1>3. h \in [0..n -> Seq(T)] /\ h[0] = <<>> /\ h[n] = pack
      /\ \A i \in 1..n : h[i] = Added(f, h[i - 1], f.ranked[i])
  BY <1>1 DEF n, pack
<1>4. \A i \in 0..n : Made(f, h[i], i) /\ Fits(f, h[i])
  <2> DEFINE S == {i \in 0..n : Made(f, h[i], i) /\ Fits(f, h[i])}
  <2>1. 0 \in S
    <3>1. Made(f, <<>>, 0)
      <4> DEFINE index == [j \in 1..0 |-> j]
      <4>1. Len(<<>>) = 0 /\ 1..0 = {}
        OBVIOUS
      <4>2. index \in [1..0 -> 1..0]
        OBVIOUS
      <4> HIDE DEF index
      <4>3. /\ index \in [1..Len(<<>>) -> 1..0]
            /\ \A j \in 1..Len(<<>>) : f.ranked[index[j]] = <<>>[j]
            /\ \A j, k \in 1..Len(<<>>) : j < k => index[j] < index[k]
        BY <4>1, <4>2
      <4> QED BY <4>3, Zenon DEF Made
    <3> QED BY <1>2, <1>3, <3>1
  <2>2. ASSUME NEW i \in 1..n, i - 1 \in S PROVE i \in S
    <3>1. h[i - 1] \in Seq(T) /\ Made(f, h[i - 1], i - 1) /\ Fits(f, h[i - 1]) /\ i \in 0..n
      BY <1>2, <1>3, <2>2
    <3>2. Made(f, h[i], i)
      BY <1>3, <3>1, MadeStep DEF n
    <3>3. Fits(f, h[i])
      BY <1>3, <3>1 DEF Added
    <3> QED BY <3>1, <3>2, <3>3
  <2> HIDE DEF S
  <2>3. 0..n \subseteq S
    BY <1>2, <2>1, <2>2, Climb
  <2> QED BY <2>3 DEF S
<1>5. \A i \in 0..n : GoesOn(f, h[i], i, pack, n)
  <2> SUFFICES ASSUME NEW i \in 0..n PROVE GoesOn(f, h[i], i, pack, n)
    OBVIOUS
  <2> DEFINE S == {k \in 0..n : k >= i => GoesOn(f, h[i], i, h[k], k)}
  <2>1. GoesOn(f, h[i], i, h[i], i)
    <3>1. h[i] \in Seq(T)
      BY <1>3
    <3>2. Len(h[i]) \in Nat
      BY <3>1
    <3> QED BY <3>2 DEF GoesOn
  <2>2. 0 \in S
    BY <1>2, <2>1
  <2>3. ASSUME NEW k \in 1..n, k - 1 \in S PROVE k \in S
    <3>1. CASE i = k
      BY <1>2, <2>1, <3>1
    <3>2. CASE i < k
      <4>1. GoesOn(f, h[i], i, h[k - 1], k - 1)
        BY <1>2, <2>3, <3>2
      <4>2. h[i] \in Seq(T) /\ h[k - 1] \in Seq(T) /\ i \in Nat
        BY <1>2, <1>3
      <4>3. GoesOn(f, h[i], i, h[k], k)
        BY <1>3, <3>2, <4>1, <4>2, GoesOnStep DEF n
      <4> QED BY <1>2, <4>3
    <3>3. CASE i > k
      BY <1>2, <3>3
    <3> QED BY <1>2, <3>1, <3>2, <3>3
  <2> HIDE DEF S
  <2>4. n \in S
    BY <1>2, <2>2, <2>3, Climb
  <2> QED BY <1>2, <1>3, <2>4 DEF S
<1>6. pack \in Seq(T) /\ Made(f, pack, n) /\ Fits(f, pack)
  BY <1>2, <1>3, <1>4
<1>7. ToSet(pack) \subseteq ToSet(f.ranked)
  <2>1. DOMAIN pack = 1..Len(pack)
    BY <1>6
  <2> QED BY <1>2, <1>6, <2>1 DEF Made, ToSet
<1>8. ASSUME NEW i \in 1..n, f.ranked[i] \notin ToSet(pack) PROVE LeftOut(f, pack, i)
  <2> DEFINE before == h[i - 1]
             k == Len(before)
             m == f.ranked[i]
  <2>1. before \in Seq(T) /\ h[i] = Added(f, before, m) /\ m \in T /\ i - 1 \in 0..n /\ i \in 0..n
    BY <1>2, <1>3
  <2>2. k \in Nat /\ Len(pack) \in Nat /\ DOMAIN pack = 1..Len(pack)
    BY <1>6, <2>1
  <2>3. GoesOn(f, before, i - 1, pack, n) /\ Made(f, before, i - 1)
    BY <1>4, <1>5, <2>1
  <2>4. ~Fits(f, Append(before, m))
    <3> SUFFICES ASSUME Fits(f, Append(before, m)) PROVE FALSE
      OBVIOUS
    <3>1. h[i] = Append(before, m) /\ GoesOn(f, h[i], i, pack, n)
      BY <1>5, <2>1 DEF Added
    <3>2. Len(h[i]) = k + 1 /\ h[i][k + 1] = m
      BY <2>1, <3>1, Appended
    <3>3. k + 1 \in 1..Len(pack) /\ pack[k + 1] = m
      BY <2>2, <3>1, <3>2 DEF GoesOn
    <3> QED BY <1>8, <2>2, <3>3 DEF ToSet
  <2> HIDE DEF before, m
  <2>5. k \in 0..Len(pack) /\ SubSeq(pack, 1, k) = before
    <3>1. k <= Len(pack) /\ \A j \in 1..k : pack[j] = before[j]
      BY <2>3 DEF GoesOn
    <3>2. SubSeq(pack, 1, k) \in Seq(T) /\ Len(SubSeq(pack, 1, k)) = k
          /\ \A j \in 1..k : SubSeq(pack, 1, k)[j] = pack[j]
      BY <1>6, <2>2, <3>1
    <3> QED BY <2>1, <2>2, <3>1, <3>2
  <2>6. ASSUME NEW j \in DOMAIN pack
        PROVE  j <= k <=> \E above \in 1..(i - 1) : f.ranked[above] = pack[j]
    <3>1. CASE j <= k
      <4>1. j \in 1..k /\ pack[j] = before[j]
        BY <2>2, <2>3, <3>1 DEF GoesOn
      <4> QED BY <2>3, <3>1, <4>1 DEF Made
    <3>2. CASE ~(j <= k)
      <4>1. j \in 1..Len(pack) /\ j > k
        BY <2>2, <3>2
      <4>2. PICK p \in ((i - 1) + 1)..n : f.ranked[p] = pack[j]
        BY <2>3, <4>1 DEF GoesOn
      <4>3. ASSUME NEW above \in 1..(i - 1), f.ranked[above] = pack[j] PROVE FALSE
        <5>1. p \in 1..n /\ above \in 1..n /\ p # above
          BY <1>2, <4>2
        <5> QED BY <1>2, <4>2, <4>3, <5>1 DEF IsInjective
      <4> QED BY <3>2, <4>3
    <3> QED BY <3>1, <3>2
  <2> QED BY <2>4, <2>5, <2>6 DEF LeftOut, m
<1> QED BY <1>2, <1>6, <1>7, <1>8 DEF n, pack

---------------------------------------------------------------------------
\* The invariant

FrameSteps == {"idle", "loaded", "retrieved", "ranked", "packed", "bundled", "failed"}
FrameErrors ==
    {"none", "storage_failure", "embedding_failure", "rerank_failure", "budget_too_small",
     "tokenizer_unavailable", "artifact_validation_failed"}
Reads      == UNION {[S -> MemoryRows] : S \in SUBSET MemoryIds}
Relevances == UNION {[S -> Scores] : S \in SUBSET MemoryIds}

Frames ==
    [step : FrameSteps, project : Projects \cup {Nil}, component : Components \cup {Nil},
     budget : Nat, snapshot : Nat, read : Reads, nearest : SUBSET MemoryIds,
     ranked : Seq(MemoryIds), relevance : Relevances, selected : Seq(MemoryIds),
     calls : Nat, error : FrameErrors]

\* What a compile has read is of one moment, of its project and its scope,
\* and is still what the store holds of these memories.
Moment(f) ==
    /\ \A m \in Candidates(f) :
        /\ Stored(m) /\ memory[m] = f.read[m]
        /\ memory[m].project = f.project /\ Overlaps(m, f.component)
    /\ \A r \in relations : ~({r.prior, r.successor} \subseteq Candidates(f))

Retrieved(f) ==
    f.step \in {"retrieved", "ranked", "packed", "bundled"} =>
        /\ f.nearest \subseteq Candidates(f)
        /\ BeyondTop(f) # {} => Cardinality(f.nearest) = TopN
        /\ f.step = "retrieved" => f.calls = IF f.nearest = {} THEN 0 ELSE 1

Reranked(f) ==
    f.step \in {"ranked", "packed", "bundled"} =>
        RankedByScore(f) /\ IsInjective(f.ranked) /\ OneTracePerRole(f)

Packed(f) ==
    f.step \in {"packed", "bundled"} =>
        /\ ToSet(f.selected) \subseteq ToSet(f.ranked)
        /\ SelectedInOrder(f) /\ WithinBudget(f)
        /\ \A i \in DOMAIN f.ranked : f.ranked[i] \in OverBudget(f) => LeftOut(f, f.selected, i)

Refused(f) == f.error = "artifact_validation_failed" => f.step = "failed" /\ ~Clean(f)

Work(f) == Retrieved(f) /\ Reranked(f) /\ Packed(f) /\ Refused(f)

FramesHold ==
    /\ frame \in [Compiles -> Frames]
    /\ \A c \in Compiles : Moment(frame[c]) /\ Work(frame[c])

ServiceInductive == Inductive /\ FramesHold

\* The candidates a compile has read, and their rows.
LEMMA ReadTypes ==
    ASSUME NEW read \in Reads
    PROVE  DOMAIN read \subseteq MemoryIds /\ \A m \in DOMAIN read : read[m] \in MemoryRows
BY DEF Reads

LEMMA ReadsOf ==
    ASSUME NEW S \in SUBSET MemoryIds, NEW read \in [S -> MemoryRows]
    PROVE  read \in Reads
BY DEF Reads

LEMMA RelevancesOf ==
    ASSUME NEW S \in SUBSET MemoryIds, NEW relevance \in [S -> Scores]
    PROVE  relevance \in Relevances
BY DEF Relevances

\* What the sort needs: finitely many candidates, at different places of
\* their project.
Sortable(f) ==
    /\ IsFiniteSet(Candidates(f))
    /\ \A m \in Candidates(f) : f.read[m].pseq \in Int
    /\ \A l, m \in Candidates(f) : l # m => f.read[l].pseq # f.read[m].pseq

\* The events of a project have places of their own, and a memory is that of
\* one event.
LEMMA CandidatesDiffer ==
    ASSUME Inductive, NEW f \in Frames, Moment(f)
    PROVE  Sortable(f)
<1> USE DEF Inductive
<1>1. /\ Candidates(f) \subseteq MemoryIds
      /\ \A m \in Candidates(f) : f.read[m] \in MemoryRows
  BY ReadTypes DEF Frames, Candidates
<1>2. \A m \in Candidates(f) : f.read[m].pseq \in 0..MaxProjectSeq /\ f.read[m].pseq \in Int
  BY <1>1, BoundsAreNatural DEF MemoryRows
<1>3. ASSUME NEW l \in Candidates(f), NEW m \in Candidates(f), l # m
      PROVE  f.read[l].pseq # f.read[m].pseq
  <2> DEFINE j == memory[l].source
             k == memory[m].source
  <2>1. /\ Stored(l) /\ memory[l] = f.read[l] /\ memory[l].project = f.project
        /\ Stored(m) /\ memory[m] = f.read[m] /\ memory[m].project = f.project
    BY DEF Moment
  <2>2. /\ event[j].state = "completed" /\ event[j].result.memory = l
        /\ j.project = f.project /\ memory[l].pseq = event[j].pseq
    BY <1>1, <2>1 DEF RememberedOnce
  <2>3. /\ event[k].state = "completed" /\ event[k].result.memory = m
        /\ k.project = f.project /\ memory[m].pseq = event[k].pseq
    BY <1>1, <2>1 DEF RememberedOnce
  <2>4. j \in Keys /\ k \in Keys /\ j # k
    BY <1>1, <1>3, <2>1, <2>2, <2>3 DEF MemoryRows
  <2>5. event[j].pseq # event[k].pseq
    BY <2>2, <2>3, <2>4 DEF Present, AlwaysRestartable, StartupAccepts, UniqueProjectSeqs
  <2> QED BY <2>1, <2>2, <2>3, <2>5
<1>4. IsFiniteSet(Candidates(f))
  <2> DEFINE seqOf == [m \in Candidates(f) |-> f.read[m].pseq]
  <2>1. seqOf \in [Candidates(f) -> 0..MaxProjectSeq]
    BY <1>2
  <2>2. IsInjective(seqOf)
    BY <1>3 DEF IsInjective
  <2>3. seqOf \in Injection(Candidates(f), 0..MaxProjectSeq)
    BY <2>1, <2>2 DEF Injection
  <2>4. IsFiniteSet(0..MaxProjectSeq)
    BY BoundsAreNatural, FS_Interval
  <2> QED BY <2>3, <2>4, FS_Injection
<1> QED BY <1>2, <1>3, <1>4 DEF Sortable

\* While a compile works on what it has read the store goes on: its rows
\* stay, and a further edge leads to a memory that was not there yet.
LEMMA MomentKept ==
    ASSUME Inductive, [Next]_vars, NEW f \in Frames, Moment(f)
    PROVE  Moment(f)'
<1> USE DEF Inductive
<1>1. Candidates(f) \subseteq MemoryIds
  BY ReadTypes DEF Frames, Candidates
<1>2. \A m \in Candidates(f) : memory'[m] = memory[m]
  BY <1>1, MemoriesKept DEF Moment
<1>3. ASSUME NEW m \in Candidates(f)
      PROVE  Stored(m)' /\ memory'[m] = f.read[m]
             /\ memory'[m].project = f.project /\ Overlaps(m, f.component)'
  BY <1>2 DEF Moment, Stored, Overlaps
<1>4. \A r \in relations' : ~({r.prior, r.successor} \subseteq Candidates(f))
  <2>1. CASE relations' = relations
    BY <2>1 DEF Moment
  <2>2. ASSUME NEW k \in Keys, NEW n \in Attempts, NEW slot \in Slots, NEW text \in Texts,
               NEW sup \in SUBSET MemoryIds, CompleteWrite(k, n, slot, text, sup)
        PROVE  \A r \in relations' : ~({r.prior, r.successor} \subseteq Candidates(f))
    <3>1. PICK m \in MemoryIds : Writes(k, m, slot, text, sup)
      BY <2>2, WriteFacts
    <3>2. m \notin Candidates(f)
      BY <3>1 DEF Writes, Moment
    <3>3. \A r \in Edges(k, m, sup) : r.successor = m
      BY DEF Edges
    <3> QED BY <3>1, <3>2, <3>3 DEF Writes, Moment
  <2> QED BY <2>1, <2>2, StepCases DEF vars, ClaimRefused, ClaimNew, TakeOver, EndWithout,
                                        FailRetryable
<1> QED BY <1>3, <1>4 DEF Moment, Candidates

---------------------------------------------------------------------------
\* The steps of a compile

\* The frame of a compile that steps becomes g.
Becomes(c, g) == g \in Frames /\ Work(g) /\ frame' = [frame EXCEPT ![c] = g]

\* g works on what f has read.
SameMoment(f, g) == g.read = f.read /\ g.project = f.project /\ g.component = f.component

LEMMA UnreadType == Unread \in Frames
<1> DEFINE none == [m \in {} |-> Nil]
           unscored == [m \in {} |-> 0]
<1>1. none \in Reads
  <2>1. none \in [{} -> MemoryRows]
    OBVIOUS
  <2> QED BY <2>1, ReadsOf
<1>2. unscored \in Relevances
  <2>1. unscored \in [{} -> Scores]
    OBVIOUS
  <2> QED BY <2>1, RelevancesOf
<1>3. "idle" \in FrameSteps /\ Nil \in Projects \cup {Nil} /\ Nil \in Components \cup {Nil}
  BY DEF FrameSteps
<1>4. <<>> \in Seq(MemoryIds) /\ {} \in SUBSET MemoryIds
  OBVIOUS
<1>5. "none" \in FrameErrors
  BY DEF FrameErrors
<1>6. Unread = [step |-> "idle", project |-> Nil, component |-> Nil, budget |-> 0,
                snapshot |-> 0, read |-> none, nearest |-> {}, ranked |-> <<>>,
                relevance |-> unscored, selected |-> <<>>, calls |-> 0, error |-> "none"]
  BY DEF Unread
<1> HIDE DEF none, unscored
<1> QED BY <1>1, <1>2, <1>3, <1>4, <1>5, <1>6 DEF Frames

LEMMA LoadStep ==
    ASSUME Inductive, FramesHold, NEW c \in Compiles, Load(c)
    PROVE  \E g : Becomes(c, g) /\ Moment(g)
<1>1. PICK p \in Projects, component \in Components, budget \in Budgets :
        LET active == {m \in MemoryIds : Active(m) /\ memory[m].project = p}
            candidates == {m \in active : Overlaps(m, component)} IN
        frame' = [frame EXCEPT ![c] = [Unread EXCEPT
            !.step = "loaded", !.project = p, !.component = component,
            !.budget = budget, !.read = [m \in candidates |-> memory[m]],
            !.snapshot = Max({0} \cup SnapshotSeqs(active, candidates))]]
  BY DEF Load
<1> DEFINE active == {m \in MemoryIds : Active(m) /\ memory[m].project = p}
           candidates == {m \in active : Overlaps(m, component)}
           read == [m \in candidates |-> memory[m]]
           snapshot == Max({0} \cup SnapshotSeqs(active, candidates))
           g == [Unread EXCEPT !.step = "loaded", !.project = p, !.component = component,
                               !.budget = budget, !.read = read, !.snapshot = snapshot]
<1>2. frame' = [frame EXCEPT ![c] = g]
  BY <1>1
<1>3. candidates \subseteq MemoryIds /\ \A m \in active : memory[m] \in MemoryRows
  BY DEF Active, Stored, Inductive, TypeOK
<1>4. read \in Reads
  <2>1. read \in [candidates -> MemoryRows]
    BY <1>3
  <2> HIDE DEF read, candidates
  <2> QED BY <1>3, <2>1, ReadsOf
<1>5. snapshot \in Nat
  <2>1. {0} \cup SnapshotSeqs(active, candidates) \in SUBSET (0..MaxProjectSeq)
    <3> HIDE DEF active
    <3> QED BY <1>3, BoundsAreNatural DEF SnapshotSeqs, MemoryRows
  <2> DEFINE seqs == {0} \cup SnapshotSeqs(active, candidates)
  <2>2. seqs # {}
    OBVIOUS
  <2> HIDE DEF seqs
  <2>3. seqs \in SUBSET (0..MaxProjectSeq)
    BY <2>1 DEF seqs
  <2>4. Max(seqs) \in seqs
    BY <2>2, <2>3, BoundsAreNatural, GreatestOf
  <2> QED BY <2>3, <2>4, BoundsAreNatural DEF seqs
<1>6. /\ g.step = "loaded" /\ g.project = p /\ g.component = component /\ g.read = read
      /\ g.error = "none" /\ g.nearest = {}
  BY DEF Unread
<1>7. g \in Frames
  <2>1. budget \in Nat /\ "loaded" \in FrameSteps
    BY CompileAssumption DEF FrameSteps
  <2> HIDE DEF read, snapshot
  <2> QED BY <1>4, <1>5, <2>1, UnreadType DEF Frames
<1>8. Moment(g)
  <2>1. Candidates(g) = candidates
    BY <1>6 DEF Candidates
  <2>2. \A m \in candidates : Active(m) /\ memory[m].project = p /\ Overlaps(m, component)
                              /\ read[m] = memory[m]
    OBVIOUS
  <2> HIDE DEF g, read, candidates
  <2> QED BY <1>6, <2>1, <2>2 DEF Moment, Active, Superseded
<1>9. Work(g)
  <2> HIDE DEF g
  <2> QED BY <1>6 DEF Work, Retrieved, Reranked, Packed, Refused
<1> HIDE DEF g
<1> QED BY <1>2, <1>7, <1>8, <1>9 DEF Becomes

LEMMA LoadFailsStep ==
    ASSUME FramesHold, NEW c \in Compiles, LoadFails(c)
    PROVE  \E g : Becomes(c, g) /\ Moment(g)
<1> DEFINE g == [Unread EXCEPT !.step = "failed", !.error = "storage_failure"]
<1>1. frame' = [frame EXCEPT ![c] = g]
  BY DEF LoadFails
<1>2. g \in Frames
  <2>1. "failed" \in FrameSteps /\ "storage_failure" \in FrameErrors
    BY DEF FrameSteps, FrameErrors
  <2> QED BY <2>1, UnreadType DEF Frames
<1>3. /\ g.step = "failed" /\ g.error = "storage_failure" /\ DOMAIN g.read = {}
  BY DEF Unread
<1> HIDE DEF g
<1>4. Work(g)
  BY <1>3 DEF Work, Retrieved, Reranked, Packed, Refused
<1>5. Moment(g)
  BY <1>3 DEF Moment, Candidates
<1> QED BY <1>1, <1>2, <1>4, <1>5 DEF Becomes

\* A compile that fails, with a reason: its bundle is refused for its content.
LEMMA FailsStep ==
    ASSUME FramesHold, NEW c \in Compiles, NEW error \in FrameErrors, Fails(c, error),
           error = "artifact_validation_failed" => ~Clean(frame[c])
    PROVE  \E g : Becomes(c, g) /\ SameMoment(frame[c], g)
<1> DEFINE f == frame[c]
           g == [f EXCEPT !.step = "failed", !.error = error]
<1>1. f \in Frames /\ "failed" \in FrameSteps
  BY DEF FramesHold, FrameSteps
<1> HIDE DEF f
<1>2. g \in Frames
  BY <1>1 DEF Frames
<1>3. frame' = [frame EXCEPT ![c] = g]
  BY DEF Fails, FramesHold, f
<1>4. /\ g.step = "failed" /\ g.error = error /\ g.read = f.read /\ g.nearest = f.nearest
      /\ g.selected = f.selected /\ g.project = f.project /\ g.component = f.component
  BY <1>1 DEF Frames
<1> HIDE DEF g
<1>5. Clean(g) <=> Clean(f)
  BY <1>4 DEF Clean
<1>6. Work(g)
  BY <1>4, <1>5 DEF Work, Retrieved, Reranked, Packed, Refused, f
<1> QED BY <1>2, <1>3, <1>4, <1>6 DEF Becomes, SameMoment, f

LEMMA RetrieveStep ==
    ASSUME FramesHold, NEW c \in Compiles, Sortable(frame[c]), Retrieve(c)
    PROVE  \E g : Becomes(c, g) /\ SameMoment(frame[c], g)
<1> DEFINE f == frame[c]
           S == Candidates(f)
<1>1. f \in Frames /\ f.step = "loaded" /\ Work(f) /\ Sortable(f)
  BY DEF FramesHold, Retrieve, Doing
<1>2. PICK cosine \in [S -> Scores] :
        LET near == Ordered(f, S, cosine) IN
        frame' = [frame EXCEPT ![c].step = "retrieved", ![c].nearest = Nearest(near),
                               ![c].calls = IF near = <<>> THEN 0 ELSE 1]
  BY DEF Retrieve
<1> HIDE DEF f, S
<1> DEFINE near == Ordered(f, S, cosine)
           nearest == Nearest(near)
           calls == IF near = <<>> THEN 0 ELSE 1
           g == [f EXCEPT !.step = "retrieved", !.nearest = nearest, !.calls = calls]
<1>3. near \in SetToSeqs(S)
  <2>1. \A m \in S : cosine[m] \in Int
    BY CompileAssumption
  <2> QED BY <1>1, <2>1, OrderedSorts DEF Sortable, S
<1>4. /\ nearest \subseteq S
      /\ S \ nearest # {} => Cardinality(nearest) = TopN
      /\ near = <<>> <=> nearest = {}
  <2> HIDE DEF near
  <2> QED BY <1>1, <1>3, NearestOf DEF Sortable, S
<1>5. S \subseteq MemoryIds
  BY <1>1, ReadTypes DEF Frames, Candidates, S
<1>6. frame' = [frame EXCEPT ![c] = g]
  <2> HIDE DEF near
  <2> QED BY <1>2 DEF FramesHold, f, near
<1> HIDE DEF near, nearest
<1>7. "retrieved" \in FrameSteps /\ calls \in Nat
  BY DEF FrameSteps
<1> HIDE DEF calls
<1>8. g \in Frames
  BY <1>1, <1>4, <1>5, <1>7 DEF Frames
<1>9. /\ g.step = "retrieved" /\ g.nearest = nearest /\ g.calls = calls /\ g.read = f.read
      /\ g.error = f.error /\ g.project = f.project /\ g.component = f.component
  BY <1>1 DEF Frames
<1> HIDE DEF g
<1>10. Candidates(g) = S
  BY <1>9 DEF Candidates, S
<1>11. Retrieved(g)
  BY <1>4, <1>9, <1>10 DEF Retrieved, BeyondTop, calls
<1>12. Work(g)
  BY <1>1, <1>9, <1>11 DEF Work, Reranked, Packed, Refused
<1> QED BY <1>6, <1>8, <1>9, <1>12 DEF Becomes, SameMoment, f

LEMMA RerankStep ==
    ASSUME FramesHold, NEW c \in Compiles, Sortable(frame[c]), Rerank(c)
    PROVE  \E g : Becomes(c, g) /\ SameMoment(frame[c], g)
<1> DEFINE f == frame[c]
           S == f.nearest
<1>1. f \in Frames /\ f.step = "retrieved" /\ Work(f) /\ Sortable(f)
  BY DEF FramesHold, Rerank, Doing
<1>2. PICK relevance \in [S -> Scores] :
        frame' = [frame EXCEPT ![c].step = "ranked", ![c].relevance = relevance,
                               ![c].ranked = Ordered(f, S, relevance),
                               ![c].calls = IF S = {} THEN @ ELSE @ + 1]
  BY DEF Rerank
<1> HIDE DEF f, S
<1> DEFINE ranked == Ordered(f, S, relevance)
           calls == IF S = {} THEN f.calls ELSE f.calls + 1
           g == [f EXCEPT !.step = "ranked", !.relevance = relevance, !.ranked = ranked,
                          !.calls = calls]
<1>3. /\ S \subseteq Candidates(f) /\ S \subseteq MemoryIds
      /\ BeyondTop(f) # {} => Cardinality(S) = TopN
      /\ f.calls = IF S = {} THEN 0 ELSE 1
  BY <1>1 DEF Work, Retrieved, Frames, S
<1>4. /\ ranked \in SetToSeqs(S) /\ IsFiniteSet(S)
      /\ \A i, j \in DOMAIN ranked : i < j => Precedes(f, relevance, ranked[i], ranked[j])
  <2>1. \A m \in S : relevance[m] \in Int
    BY CompileAssumption
  <2>2. IsFiniteSet(S)
    BY <1>1, <1>3, FS_Subset DEF Sortable
  <2> QED BY <1>1, <1>3, <2>1, <2>2, OrderedSorts DEF Sortable
<1>5. frame' = [frame EXCEPT ![c] = g]
  <2> HIDE DEF ranked
  <2> QED BY <1>2 DEF FramesHold, f, ranked
<1> HIDE DEF ranked
<1>6. /\ ranked \in Seq(S) /\ Len(ranked) = Cardinality(S)
      /\ IsInjective(ranked) /\ ToSet(ranked) = S
  BY <1>4, SeqsOf
<1>7. ranked \in Seq(MemoryIds) /\ relevance \in Relevances /\ "ranked" \in FrameSteps
  BY <1>3, <1>6, RelevancesOf DEF FrameSteps
<1>8. calls \in Nat
  BY <1>3
<1> HIDE DEF calls
<1>9. g \in Frames
  BY <1>1, <1>7, <1>8 DEF Frames
<1>10. /\ g.step = "ranked" /\ g.relevance = relevance /\ g.ranked = ranked
       /\ g.calls = calls /\ g.read = f.read /\ g.nearest = S /\ g.error = f.error
       /\ g.project = f.project /\ g.component = f.component
  BY <1>1 DEF Frames, S
<1> HIDE DEF g
<1>11. Retrieved(g)
  BY <1>3, <1>10 DEF Retrieved, BeyondTop, Candidates, S
<1>12. Reranked(g)
  <2>1. RankedByScore(g)
    BY <1>4, <1>6, <1>10 DEF RankedByScore, Precedes
  <2>2. OneTracePerRole(g)
    BY <1>3, <1>10 DEF OneTracePerRole, calls
  <2> QED BY <1>6, <1>10, <2>1, <2>2 DEF Reranked
<1>13. Work(g)
  BY <1>1, <1>10, <1>11, <1>12 DEF Work, Packed, Refused
<1> QED BY <1>5, <1>9, <1>10, <1>13 DEF Becomes, SameMoment, f

LEMMA SameRanking ==
    ASSUME NEW f, NEW g, g.read = f.read, g.budget = f.budget, g.ranked = f.ranked
    PROVE  /\ \A pack : Fits(g, pack) <=> Fits(f, pack)
           /\ \A pack, i : LeftOut(g, pack, i) <=> LeftOut(f, pack, i)
<1>1. \A pack : Fits(g, pack) <=> Fits(f, pack)
  BY DEF Fits, PackTokens
<1>2. \A pack, i : LeftOut(g, pack, i) <=> LeftOut(f, pack, i)
  BY <1>1, Zenon DEF LeftOut
<1> QED BY <1>1, <1>2

LEMMA PackStep ==
    ASSUME FramesHold, NEW c \in Compiles, Pack(c)
    PROVE  \E g : Becomes(c, g) /\ SameMoment(frame[c], g)
<1> DEFINE f == frame[c]
           pack == Greedy(f)
           g == [f EXCEPT !.step = "packed", !.selected = pack]
<1>1. f \in Frames /\ f.step = "ranked" /\ Work(f)
  BY DEF FramesHold, Pack, Doing
<1>2. CASE ~Fits(f, <<>>)
  <2>1. Fails(c, "budget_too_small") /\ "budget_too_small" \in FrameErrors
    BY <1>2 DEF Pack, FrameErrors
  <2> QED BY <2>1, FailsStep
<1>3. CASE Fits(f, <<>>)
  <2>1. frame' = [frame EXCEPT ![c] = g]
    <3>1. frame' = [frame EXCEPT ![c].step = "packed", ![c].selected = pack]
      BY <1>3 DEF Pack
    <3> HIDE DEF pack
    <3> QED BY <3>1 DEF FramesHold
  <2> HIDE DEF f
  <2>2. f.ranked \in Seq(MemoryIds) /\ RankedByScore(f) /\ IsInjective(f.ranked)
    BY <1>1 DEF Work, Reranked, Frames
  <2>3. /\ pack \in Seq(MemoryIds) /\ ToSet(pack) \subseteq ToSet(f.ranked)
        /\ Made(f, pack, Len(f.ranked)) /\ Fits(f, pack)
        /\ \A i \in DOMAIN f.ranked : f.ranked[i] \notin ToSet(pack) => LeftOut(f, pack, i)
    BY <1>3, <2>2, GreedySelects
  <2> HIDE DEF pack
  <2>4. g \in Frames
    <3>1. "packed" \in FrameSteps
      BY DEF FrameSteps
    <3> QED BY <1>1, <2>3, <3>1 DEF Frames
  <2>5. /\ g.step = "packed" /\ g.selected = pack /\ g.ranked = f.ranked /\ g.read = f.read
        /\ g.nearest = f.nearest /\ g.relevance = f.relevance /\ g.calls = f.calls
        /\ g.budget = f.budget /\ g.error = f.error /\ g.project = f.project
        /\ g.component = f.component
    BY <1>1 DEF Frames
  <2> HIDE DEF g
  <2>6. Retrieved(g) /\ Reranked(g)
    BY <1>1, <2>5 DEF Work, Retrieved, Reranked, RankedByScore, OneTracePerRole, BeyondTop,
                     Candidates
  <2>7. SelectedInOrder(g)
    <3>1. DOMAIN pack = 1..Len(pack) /\ DOMAIN f.ranked = 1..Len(f.ranked)
      BY <2>2, <2>3
    <3>2. \E index \in [DOMAIN pack -> DOMAIN f.ranked] :
            /\ \A i \in DOMAIN pack : f.ranked[index[i]] = pack[i]
            /\ \A i, j \in DOMAIN pack : i < j => index[i] < index[j]
      BY <2>3, <3>1 DEF Made
    <3>3. ToSet(f.ranked) = f.nearest
      BY <2>2 DEF RankedByScore
    <3> QED BY <2>3, <2>5, <3>2, <3>3 DEF SelectedInOrder, BeyondTop, OverBudget
  <2>8. WithinBudget(g)
    BY <2>3, <2>5 DEF WithinBudget, Fits, PackTokens
  <2>9. \A i \in DOMAIN g.ranked : g.ranked[i] \in OverBudget(g) => LeftOut(g, g.selected, i)
    BY <2>3, <2>5, SameRanking DEF OverBudget
  <2>10. Work(g)
    BY <1>1, <2>3, <2>5, <2>6, <2>7, <2>8, <2>9 DEF Work, Packed, Refused
  <2> QED BY <2>1, <2>4, <2>5, <2>10 DEF Becomes, SameMoment, f
<1> QED BY <1>2, <1>3

LEMMA BundleStep ==
    ASSUME FramesHold, NEW c \in Compiles, Bundle(c)
    PROVE  \E g : Becomes(c, g) /\ SameMoment(frame[c], g)
<1> DEFINE f == frame[c]
           g == [f EXCEPT !.step = "bundled"]
<1>1. f \in Frames /\ f.step = "packed" /\ Work(f)
  BY DEF FramesHold, Bundle, Doing
<1>2. RankedByScore(f) /\ SelectedInOrder(f) /\ OneTracePerRole(f) /\ WithinBudget(f)
  BY <1>1 DEF Work, Reranked, Packed
<1>3. CASE ~ValidBundle(f)
  <2>1. Fails(c, "artifact_validation_failed") /\ ~Clean(f)
        /\ "artifact_validation_failed" \in FrameErrors
    BY <1>2, <1>3 DEF Bundle, ValidBundle, FrameErrors
  <2> QED BY <2>1, FailsStep
<1>4. CASE ValidBundle(f)
  <2>1. frame' = [frame EXCEPT ![c] = g]
    BY <1>4 DEF Bundle, FramesHold
  <2> HIDE DEF f
  <2>2. g \in Frames
    <3>1. "bundled" \in FrameSteps
      BY DEF FrameSteps
    <3> QED BY <1>1, <3>1 DEF Frames
  <2>3. /\ g.step = "bundled" /\ g.selected = f.selected /\ g.ranked = f.ranked
        /\ g.read = f.read /\ g.nearest = f.nearest /\ g.relevance = f.relevance
        /\ g.calls = f.calls /\ g.budget = f.budget /\ g.error = f.error
        /\ g.project = f.project /\ g.component = f.component
    BY <1>1 DEF Frames
  <2> HIDE DEF g
  <2>4. Retrieved(g) /\ Reranked(g)
    BY <1>1, <2>3 DEF Work, Retrieved, Reranked, RankedByScore, OneTracePerRole, BeyondTop,
                     Candidates
  <2>5. Packed(g)
    <3>1. Packed(f) /\ f.step = "packed"
      BY <1>1 DEF Work
    <3>2. /\ \A pack : Fits(g, pack) <=> Fits(f, pack)
          /\ \A pack, i : LeftOut(g, pack, i) <=> LeftOut(f, pack, i)
      BY <2>3, SameRanking
    <3>3. SelectedInOrder(g)
      BY <2>3, <3>1 DEF Packed, SelectedInOrder, OverBudget, BeyondTop, Candidates
    <3>4. WithinBudget(g)
      BY <2>3, <3>1, <3>2 DEF Packed, WithinBudget
    <3>5. ToSet(g.selected) \subseteq ToSet(g.ranked)
      BY <2>3, <3>1 DEF Packed
    <3>6. \A i \in DOMAIN g.ranked : g.ranked[i] \in OverBudget(g) => LeftOut(g, g.selected, i)
      BY <2>3, <3>1, <3>2 DEF Packed, OverBudget
    <3> QED BY <3>3, <3>4, <3>5, <3>6 DEF Packed
  <2>6. Refused(g)
    BY <1>1, <2>3 DEF Work, Refused
  <2> QED BY <2>1, <2>2, <2>3, <2>4, <2>5, <2>6 DEF Becomes, SameMoment, Work, f
<1> QED BY <1>3, <1>4

\* Every step of a compile is one of two kinds: it reads a moment, or works
\* on the one it has read.
LEMMA CompileStepHolds ==
    ASSUME Inductive, FramesHold, NEW c \in Compiles, CompileStep(c)
    PROVE  /\ UNCHANGED vars
           /\ \E g : Becomes(c, g) /\ (Moment(g) \/ SameMoment(frame[c], g))
<1>1. Sortable(frame[c])
  <2>1. PICK f : f = frame[c]
    OBVIOUS
  <2>2. f \in Frames /\ Moment(f)
    BY <2>1 DEF FramesHold
  <2> QED BY <2>1, <2>2, CandidatesDiffer
<1>2. CASE Load(c)
  BY <1>2, LoadStep DEF Load
<1>3. CASE LoadFails(c)
  BY <1>3, LoadFailsStep DEF LoadFails
<1>4. CASE Retrieve(c)
  BY <1>1, <1>4, RetrieveStep DEF Retrieve
<1>5. CASE Rerank(c)
  BY <1>1, <1>5, RerankStep DEF Rerank
<1>6. CASE ProviderFails(c)
  <2>1. PICK error \in {"embedding_failure", "rerank_failure"} : Fails(c, error)
    BY <1>6 DEF ProviderFails
  <2>2. error \in FrameErrors /\ error # "artifact_validation_failed"
    BY DEF FrameErrors
  <2> QED BY <1>6, <2>1, <2>2, FailsStep DEF ProviderFails
<1>7. CASE Pack(c)
  BY <1>7, PackStep DEF Pack
<1>8. CASE PackFails(c)
  <2>1. Fails(c, "tokenizer_unavailable") /\ "tokenizer_unavailable" \in FrameErrors
    BY <1>8 DEF PackFails, FrameErrors
  <2> QED BY <1>8, <2>1, FailsStep DEF PackFails
<1>9. CASE Bundle(c)
  BY <1>9, BundleStep DEF Bundle
<1> QED BY <1>2, <1>3, <1>4, <1>5, <1>6, <1>7, <1>8, <1>9 DEF CompileStep

---------------------------------------------------------------------------
\* The invariant is inductive

\* The store's part of a step of the service.
LEMMA StoreOfService == [ServiceNext]_service /\ Inductive /\ FramesHold => [Next]_vars
<1> SUFFICES ASSUME [ServiceNext]_service, Inductive, FramesHold PROVE [Next]_vars
  OBVIOUS
<1>1. CASE UNCHANGED service
  BY <1>1 DEF service, vars
<1>2. ASSUME NEW c \in Compiles, CompileStep(c) PROVE UNCHANGED vars
  BY <1>2, CompileStepHolds
<1> QED BY <1>1, <1>2 DEF ServiceNext

LEMMA ServiceStep ==
    ASSUME ServiceInductive, [ServiceNext]_service
    PROVE  ServiceInductive'
<1> USE DEF ServiceInductive
<1>1. [Next]_vars
  BY StoreOfService
<1>2. Inductive'
  BY <1>1, InductiveStep
<1>3. CASE frame' = frame
  <2>1. ASSUME NEW c \in Compiles PROVE (Moment(frame[c]) /\ Work(frame[c]))'
    <3>1. PICK f : f = frame[c] /\ f = frame'[c]
      BY <1>3
    <3>2. f \in Frames /\ Moment(f) /\ Work(f)
      BY <3>1 DEF FramesHold
    <3>3. Moment(f)'
      BY <1>1, <3>2, MomentKept
    <3>4. Moment(frame[c])'
      BY <3>1, <3>3 DEF Moment, Candidates, Stored, Overlaps
    <3> QED BY <3>1, <3>2, <3>4
  <2>2. frame' \in [Compiles -> Frames]
    BY <1>3 DEF FramesHold
  <2> QED BY <1>2, <2>1, <2>2 DEF FramesHold
<1>4. ASSUME NEW c \in Compiles, CompileStep(c) PROVE FramesHold'
  <2>1. PICK g : Becomes(c, g) /\ (Moment(g) \/ SameMoment(frame[c], g))
    BY <1>4, CompileStepHolds
  <2>2. UNCHANGED <<memory, relations>>
    BY <1>4, CompileStepHolds DEF vars
  <2>3. frame' \in [Compiles -> Frames] /\ frame' = [frame EXCEPT ![c] = g]
    BY <2>1 DEF Becomes, FramesHold
  <2>4. Moment(g)
    <3>1. CASE SameMoment(frame[c], g)
      <4>1. Moment(frame[c])
        BY DEF FramesHold
      <4> QED BY <3>1, <4>1 DEF Moment, Candidates, SameMoment
    <3> QED BY <2>1, <3>1
  <2>5. ASSUME NEW d \in Compiles PROVE (Moment(frame[d]) /\ Work(frame[d]))'
    <3>1. PICK f : f = frame'[d]
      OBVIOUS
    <3>2. Moment(f) /\ Work(f)
      <4>1. CASE d = c
        BY <2>1, <2>3, <2>4, <3>1, <4>1 DEF Becomes, FramesHold
      <4>2. CASE d # c
        BY <2>3, <3>1, <4>2 DEF FramesHold
      <4> QED BY <4>1, <4>2
    <3>3. Moment(frame[d])'
      BY <2>2, <3>1, <3>2 DEF Moment, Candidates, Stored, Overlaps
    <3> QED BY <3>1, <3>2, <3>3
  <2> QED BY <2>3, <2>5 DEF FramesHold
<1> QED BY <1>2, <1>3, <1>4 DEF ServiceNext, service

LEMMA ServiceStart == ServiceInit => ServiceInductive
<1> SUFFICES ASSUME ServiceInit PROVE ServiceInductive
  OBVIOUS
<1>1. Inductive
  BY InductiveInit DEF ServiceInit
<1>2. /\ Unread.step = "idle" /\ Unread.error = "none" /\ DOMAIN Unread.read = {}
  BY DEF Unread
<1>3. Moment(Unread) /\ Work(Unread)
  BY <1>2 DEF Moment, Candidates, Work, Retrieved, Reranked, Packed, Refused
<1>4. FramesHold
  BY <1>3, UnreadType DEF ServiceInit, FramesHold
<1> QED BY <1>1, <1>4 DEF ServiceInductive

\* What every compile has read, retrieved, ranked and packed, whatever the
\* store does meanwhile.
THEOREM CompilesInductive == ServiceSpec => []ServiceInductive
BY ServiceStart, ServiceStep, PTL DEF ServiceSpec

\* The store behind the service is EventStore: a compile only reads.
THEOREM CompilesOnlyRead == ServiceSpec => Spec
<1>1. ServiceInit => Init
  BY DEF ServiceInit
<1>2. ServiceInductive /\ [ServiceNext]_service => [Next]_vars
  BY StoreOfService DEF ServiceInductive
<1> QED BY <1>1, <1>2, CompilesInductive, PTL DEF ServiceSpec, Spec

---------------------------------------------------------------------------
\* The safety properties

\* compile.py orders, packs and traces exactly as artifacts.py validates: the
\* bundle of a compile is refused for what the content scan finds, never for
\* a disagreement of the two.
THEOREM RefusedTheorem == ServiceSpec => []RefusedOnlyIfUnsafe
<1>1. ServiceInductive => RefusedOnlyIfUnsafe
  BY DEF ServiceInductive, FramesHold, Work, Refused, RefusedOnlyIfUnsafe
<1> QED BY <1>1, CompilesInductive, PTL

\* compile reads in one SELECT and packs from what it has read: a pack holds
\* no memory together with one that supersedes it, though the supersession
\* is committed while the compile is at work.
THEOREM MomentTheorem == ServiceSpec => []PackIsOneMoment
<1>1. ServiceInductive => PackIsOneMoment
  <2> SUFFICES ASSUME ServiceInductive, NEW c \in Compiles,
                      frame[c].step \in {"packed", "bundled"}
               PROVE  LET pack == ToSet(frame[c].selected) IN
                      /\ \A r \in relations : ~({r.prior, r.successor} \subseteq pack)
                      /\ \A m \in pack : /\ memory[m].project = frame[c].project
                                         /\ Overlaps(m, frame[c].component)
                                         /\ memory[m] = frame[c].read[m]
    BY DEF PackIsOneMoment
  <2>1. ToSet(frame[c].selected) \subseteq Candidates(frame[c])
    BY DEF ServiceInductive, FramesHold, Work, Retrieved, Reranked, Packed, RankedByScore
  <2> QED BY <2>1 DEF ServiceInductive, FramesHold, Moment
<1> QED BY <1>1, CompilesInductive, PTL

\* BudgetSelector.select and the omissions of the trace: whatever is not in
\* the pack was beyond a full retrieval, or did not fit behind those above.
THEOREM OmissionsTheorem == ServiceSpec => []OmissionsAreJustified
<1>1. ServiceInductive => OmissionsAreJustified
  <2> SUFFICES ASSUME ServiceInductive, NEW c \in Compiles,
                      frame[c].step \in {"packed", "bundled"}
               PROVE  LET f == frame[c] IN
                      /\ Candidates(f) = ToSet(f.selected) \cup BeyondTop(f) \cup OverBudget(f)
                      /\ BeyondTop(f) # {} => Cardinality(f.nearest) = TopN
                      /\ \A i \in DOMAIN f.ranked :
                            f.ranked[i] \in OverBudget(f) => LeftOut(f, f.selected, i)
    BY DEF OmissionsAreJustified, LeftOut
  <2> DEFINE f == frame[c]
  <2>1. Work(f) /\ f.step \in {"packed", "bundled"}
    BY DEF ServiceInductive, FramesHold
  <2> HIDE DEF f
  <2>2. /\ f.nearest \subseteq Candidates(f) /\ ToSet(f.ranked) = f.nearest
        /\ ToSet(f.selected) \subseteq ToSet(f.ranked)
    BY <2>1 DEF Work, Retrieved, Reranked, Packed, RankedByScore
  <2>3. Candidates(f) = ToSet(f.selected) \cup BeyondTop(f) \cup OverBudget(f)
    BY <2>2 DEF BeyondTop, OverBudget
  <2>4. BeyondTop(f) # {} => Cardinality(f.nearest) = TopN
    BY <2>1 DEF Work, Retrieved
  <2>5. \A i \in DOMAIN f.ranked : f.ranked[i] \in OverBudget(f) => LeftOut(f, f.selected, i)
    BY <2>1 DEF Work, Packed
  <2> QED BY <2>3, <2>4, <2>5 DEF f
<1> QED BY <1>1, CompilesInductive, PTL
=============================================================================
