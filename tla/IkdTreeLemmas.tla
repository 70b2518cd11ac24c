---------------------------- MODULE IkdTreeLemmas ---------------------------
(***************************************************************************)
(* The trees of IkdTree and the recursive functions on them: what a sound  *)
(* tree is, what flatten() finds in it, what push_down(), pull_up() and    *)
(* build_range() keep and return, what an insertion, a box removal and the *)
(* replay of the log do to the points and to the rebuild in flight, and    *)
(* what the swap and the refresh of the ancestors leave.                   *)
(***************************************************************************)
EXTENDS IkdTree, FiniteSetTheorems, SequenceTheorems, WellFoundedInduction, TLAPS

-----------------------------------------------------------------------------
(* Induction *)

\* The least element of a set of naturals.
LEMMA LeastNat ==
    ASSUME NEW T, T \subseteq Nat, T # {}
    PROVE  \E m \in T : \A n \in T : m <= n
<1>1. IsWellFoundedOn(OpToRel(<, Nat), Nat)
  BY NatLessThanWellFounded
<1>2. PICK m \in T : \A n \in T : <<n, m>> \notin OpToRel(<, Nat)
  <2> HIDE DEF OpToRel
  <2> QED
    BY <1>1, WFMin, Zenon
<1>3. \A n \in T : ~(n < m)
  BY <1>2 DEF OpToRel
<1> QED
  BY <1>3

\* Induction up to m.
LEMMA Induct ==
    ASSUME NEW m \in Nat, NEW S, 0 \in S,
           \A i \in 0..m : i < m /\ i \in S => i + 1 \in S
    PROVE  0..m \subseteq S
<1> DEFINE T == {i \in 0..m : i \notin S}
<1>1. SUFFICES ASSUME T # {} PROVE FALSE
  OBVIOUS
<1>2. PICK k \in T : \A i \in T : k <= i
  <2>1. T \subseteq Nat
    OBVIOUS
  <2> HIDE DEF T
  <2> QED
    BY <1>1, <2>1, LeastNat
<1>3. k # 0 /\ k - 1 \in 0..m /\ k - 1 < m
  BY <1>2
<1>4. k - 1 \in S
  BY <1>2, <1>3
<1> QED
  BY <1>2, <1>3, <1>4

-----------------------------------------------------------------------------
(* Trees *)

\* The recursive definition of the trees up to a height has a solution.
LEMMA TreesDef ==
    TreesUpTo = [h \in 0..MaxNodes |->
                    IF h = 0 THEN {Nil} ELSE {Nil} \union NodesOver(TreesUpTo[h - 1])]
<1> DEFINE Solves(f, m) == f = [h \in 0..m |->
                    IF h = 0 THEN {Nil} ELSE {Nil} \union NodesOver(f[h - 1])]
           S == {m \in 0..MaxNodes : \E f : Solves(f, m)}
<1>1. MaxNodes \in Nat
  BY ThresholdAssumption
<1>2. 0 \in S
  <2>1. Solves([h \in 0..0 |-> {Nil}], 0)
    OBVIOUS
  <2> HIDE DEF Solves
  <2> QED
    BY <1>1, <2>1
<1>3. ASSUME NEW m \in 0..MaxNodes, m < MaxNodes, m \in S
      PROVE  m + 1 \in S
  <2>1. PICK f : Solves(f, m)
    BY <1>3
  <2> HIDE DEF NodesOver, Nil
  <2> DEFINE g == [h \in 0..(m + 1) |->
                    IF h = 0 THEN {Nil} ELSE {Nil} \union NodesOver(f[h - 1])]
  <2>2. ASSUME NEW h \in 0..m
        PROVE  g[h] = f[h]
    <3>1. f[h] = IF h = 0 THEN {Nil} ELSE {Nil} \union NodesOver(f[h - 1])
      BY <2>1
    <3>2. h \in 0..(m + 1)
      BY <1>1
    <3> QED
      BY <3>1, <3>2
  <2>3. \A h \in 0..(m + 1) : h # 0 => h - 1 \in 0..m
    BY <1>1
  <2>4. Solves(g, m + 1)
    BY <2>2, <2>3
  <2>5. m + 1 \in 0..MaxNodes
    BY <1>1, <1>3
  <2> HIDE DEF Solves, g
  <2> QED
    BY <2>4, <2>5
<1>4. MaxNodes \in S
  <2> HIDE DEF S
  <2>1. 0..MaxNodes \subseteq S
    BY <1>1, <1>2, <1>3, Induct
  <2> QED
    BY <1>1, <2>1
<1>5. \E f : Solves(f, MaxNodes)
  BY <1>4
<1> QED
  BY <1>5 DEF TreesUpTo

LEMMA TreesLevels ==
    /\ TreesUpTo[0] = {Nil}
    /\ \A h \in 0..MaxNodes : h # 0 =>
           TreesUpTo[h] = {Nil} \union NodesOver(TreesUpTo[h - 1])
<1> HIDE DEF TreesUpTo, NodesOver, Nil
<1>1. PICK f : f = TreesUpTo
  OBVIOUS
<1>2. f = [h \in 0..MaxNodes |->
              IF h = 0 THEN {Nil} ELSE {Nil} \union NodesOver(f[h - 1])]
  BY <1>1, TreesDef
<1>3. \A h \in 0..MaxNodes :
          f[h] = IF h = 0 THEN {Nil} ELSE {Nil} \union NodesOver(f[h - 1])
  BY <1>2
<1>4. 0 \in 0..MaxNodes
  BY ThresholdAssumption
<1>5. f[0] = {Nil}
  BY <1>3, <1>4
<1> QED
  BY <1>1, <1>3, <1>5

\* A higher bound admits more trees.
LEMMA TreesGrow ==
    ASSUME NEW h \in 0..MaxNodes, NEW k \in 0..MaxNodes, h <= k
    PROVE  TreesUpTo[h] \subseteq TreesUpTo[k]
<1> DEFINE S == {i \in 0..MaxNodes : i < MaxNodes => TreesUpTo[i] \subseteq TreesUpTo[i + 1]}
<1>1. MaxNodes \in Nat
  BY ThresholdAssumption
<1>2. 0 \in S
  <2>1. 0 < MaxNodes => TreesUpTo[0 + 1] = {Nil} \union NodesOver(TreesUpTo[(0 + 1) - 1])
    BY <1>1, TreesLevels
  <2> QED
    BY <1>1, <2>1, TreesLevels
<1>3. ASSUME NEW i \in 0..MaxNodes, i < MaxNodes, i \in S
      PROVE  i + 1 \in S
  <2>1. SUFFICES ASSUME i + 1 < MaxNodes
                 PROVE  TreesUpTo[i + 1] \subseteq TreesUpTo[i + 2]
    BY <1>1, <1>3
  <2>2. TreesUpTo[i] \subseteq TreesUpTo[i + 1]
    BY <1>3
  <2>3. NodesOver(TreesUpTo[i]) \subseteq NodesOver(TreesUpTo[i + 1])
    BY <2>2 DEF NodesOver
  <2>4. /\ TreesUpTo[i + 1] = {Nil} \union NodesOver(TreesUpTo[i])
        /\ TreesUpTo[i + 2] = {Nil} \union NodesOver(TreesUpTo[i + 1])
    <3>1. i + 1 \in 0..MaxNodes /\ i + 1 # 0 /\ (i + 1) - 1 = i
      BY <1>1, <1>3
    <3>2. i + 2 \in 0..MaxNodes /\ i + 2 # 0 /\ (i + 2) - 1 = i + 1
      BY <1>1, <2>1
    <3> QED
      BY <3>1, <3>2, TreesLevels
  <2> QED
    BY <2>3, <2>4
<1>4. 0..MaxNodes \subseteq S
  BY <1>1, <1>2, <1>3, Induct
<1> DEFINE R == {i \in 0..MaxNodes : h <= i => TreesUpTo[h] \subseteq TreesUpTo[i]}
<1>5. 0 \in R
  BY <1>1
<1>6. ASSUME NEW i \in 0..MaxNodes, i < MaxNodes, i \in R
      PROVE  i + 1 \in R
  <2>1. TreesUpTo[i] \subseteq TreesUpTo[i + 1]
    BY <1>4, <1>6
  <2>2. h <= i + 1 => h <= i \/ h = i + 1
    OBVIOUS
  <2> QED
    BY <1>1, <1>6, <2>1, <2>2
<1>7. 0..MaxNodes \subseteq R
  BY <1>1, <1>5, <1>6, Induct
<1> QED
  BY <1>7

LEMMA NilTree ==
    /\ \A h \in 0..MaxNodes : Nil \in TreesUpTo[h]
    /\ Nil \in Trees
    /\ IsNil(Nil)
<1>1. \A h \in 0..MaxNodes : Nil \in TreesUpTo[h]
  BY TreesLevels
<1> QED
  BY <1>1, ThresholdAssumption DEF Trees, IsNil, Nil

\* A tree is empty or a node over lower trees.
LEMMA TreeCases ==
    ASSUME NEW h \in 0..MaxNodes, NEW n \in TreesUpTo[h]
    PROVE  \/ n = Nil /\ IsNil(n)
           \/ /\ h - 1 \in 0..MaxNodes
              /\ n \in NodesOver(TreesUpTo[h - 1])
              /\ n \in NodesOver(Trees)
              /\ ~IsNil(n)
<1>1. MaxNodes \in Nat
  BY ThresholdAssumption
<1>2. CASE n = Nil
  BY <1>2, NilTree
<1>3. CASE n # Nil
  <2>1. h # 0 /\ n \in NodesOver(TreesUpTo[h - 1])
    BY <1>3, TreesLevels
  <2>2. h - 1 \in 0..MaxNodes /\ h - 1 <= MaxNodes /\ MaxNodes \in 0..MaxNodes
    BY <1>1, <2>1
  <2>3. TreesUpTo[h - 1] \subseteq Trees
    BY <2>2, TreesGrow DEF Trees
  <2>4. n.size \in Nat \ {0}
    BY <2>1 DEF NodesOver
  <2>5. n \in NodesOver(Trees)
    BY <2>1, <2>3 DEF NodesOver
  <2> QED
    BY <2>1, <2>2, <2>4, <2>5 DEF IsNil
<1> QED
  BY <1>2, <1>3

LEMMA TreeNode ==
    ASSUME NEW n \in Trees
    PROVE  \/ n = Nil /\ IsNil(n)
           \/ n \in NodesOver(Trees) /\ ~IsNil(n)
<1>1. MaxNodes \in 0..MaxNodes
  BY ThresholdAssumption
<1> QED
  BY <1>1, TreeCases DEF Trees

\* A property of the empty tree that passes from the trees up to a height to
\* the nodes over them is one of every tree.
LEMMA TreeInduction ==
    ASSUME NEW S, Nil \in S,
           \A h \in 0..MaxNodes : h # 0 /\ TreesUpTo[h - 1] \subseteq S
                                      => NodesOver(TreesUpTo[h - 1]) \subseteq S
    PROVE  Trees \subseteq S
<1> DEFINE H == {h \in 0..MaxNodes : TreesUpTo[h] \subseteq S}
<1>1. MaxNodes \in Nat
  BY ThresholdAssumption
<1>2. 0 \in H
  BY <1>1, TreesLevels
<1>3. ASSUME NEW h \in 0..MaxNodes, h < MaxNodes, h \in H
      PROVE  h + 1 \in H
  <2>1. h + 1 \in 0..MaxNodes /\ h + 1 # 0 /\ (h + 1) - 1 = h
    BY <1>1, <1>3
  <2>2. TreesUpTo[h] \subseteq S
    BY <1>3
  <2>3. NodesOver(TreesUpTo[h]) \subseteq S
    BY <2>1, <2>2
  <2> QED
    BY <2>1, <2>3, TreesLevels
<1>4. 0..MaxNodes \subseteq H
  <2> HIDE DEF H
  <2> QED
    BY <1>1, <1>2, <1>3, Induct
<1> QED
  BY <1>1, <1>4 DEF Trees

-----------------------------------------------------------------------------
(* The points below a node *)

FlattenOf(n, left, right) ==
    IF IsNil(n) THEN NoPoints
    ELSE IF n.treeDeleted THEN NoPoints
    ELSE LET below == Add(left, right)
         IN  IF n.deleted THEN below ELSE AddOne(below, n.pt)

LEMMA FlattenDef ==
    Flatten = [n \in Trees |-> FlattenOf(n, Flatten[n.l], Flatten[n.r])]
<1> DEFINE Solves(f, h) == f = [n \in TreesUpTo[h] |-> FlattenOf(n, f[n.l], f[n.r])]
           S == {h \in 0..MaxNodes : \E f : Solves(f, h)}
<1>1. MaxNodes \in Nat
  BY ThresholdAssumption
<1>2. \A x, y, v, w : FlattenOf(Nil, x, y) = FlattenOf(Nil, v, w)
  BY NilTree DEF FlattenOf
<1> HIDE DEF FlattenOf
<1>3. 0 \in S
  <2> DEFINE f == [n \in TreesUpTo[0] |-> FlattenOf(Nil, 0, 0)]
  <2>1. Solves(f, 0)
    BY <1>2, TreesLevels
  <2> HIDE DEF Solves, f
  <2> QED
    BY <1>1, <2>1
<1>4. ASSUME NEW h \in 0..MaxNodes, h < MaxNodes, h \in S
      PROVE  h + 1 \in S
  <2>1. PICK f : Solves(f, h)
    BY <1>4
  <2>2. h + 1 \in 0..MaxNodes /\ (h + 1) - 1 = h /\ h <= h + 1
    BY <1>1, <1>4
  <2>3. TreesUpTo[h] \subseteq TreesUpTo[h + 1]
    BY <2>2, TreesGrow
  <2> DEFINE g == [n \in TreesUpTo[h + 1] |-> FlattenOf(n, f[n.l], f[n.r])]
  <2>4. ASSUME NEW n \in TreesUpTo[h]
        PROVE  g[n] = f[n]
    <3>1. f[n] = FlattenOf(n, f[n.l], f[n.r])
      BY <2>1
    <3> QED
      BY <2>3, <3>1
  <2>5. ASSUME NEW n \in TreesUpTo[h + 1]
        PROVE  FlattenOf(n, f[n.l], f[n.r]) = FlattenOf(n, g[n.l], g[n.r])
    <3>1. CASE n = Nil
      BY <1>2, <3>1
    <3>2. CASE n \in NodesOver(TreesUpTo[h])
      <4>1. n.l \in TreesUpTo[h] /\ n.r \in TreesUpTo[h]
        BY <3>2 DEF NodesOver
      <4> HIDE DEF g
      <4> QED
        BY <2>4, <4>1
    <3> QED
      BY <2>2, <3>1, <3>2, TreeCases
  <2>6. Solves(g, h + 1)
    BY <2>5
  <2> HIDE DEF Solves, g
  <2> QED
    BY <2>2, <2>6
<1>5. MaxNodes \in S
  <2> HIDE DEF S
  <2>1. 0..MaxNodes \subseteq S
    BY <1>1, <1>3, <1>4, Induct
  <2> QED
    BY <1>1, <2>1
<1>6. \E f : Solves(f, MaxNodes)
  BY <1>5
<1> QED
  BY <1>6 DEF Flatten, FlattenOf, Trees

-----------------------------------------------------------------------------
(* Boxes *)

\* A function from a finite set to the integers has a least and a greatest
\* value.
LEMMA Extremes ==
    ASSUME NEW S, IsFiniteSet(S), S # {}, NEW f \in [S -> Int]
    PROVE  /\ \E x \in S : \A y \in S : f[x] <= f[y]
           /\ \E x \in S : \A y \in S : f[y] <= f[x]
<1> DEFINE Least(R) == \E x \in R : \A y \in R : f[x] <= f[y]
           Greatest(R) == \E x \in R : \A y \in R : f[y] <= f[x]
           K == {k \in 0..Cardinality(S) :
                    \A R \in SUBSET S : R # {} /\ Cardinality(R) = k => Least(R) /\ Greatest(R)}
<1>1. Cardinality(S) \in Nat
  BY FS_CardinalityType
<1>2. 0 \in K
  <2>1. ASSUME NEW R \in SUBSET S, R # {}, Cardinality(R) = 0
        PROVE  FALSE
    BY <2>1, FS_Subset, FS_EmptySet
  <2> QED
    BY <1>1, <2>1
<1>3. ASSUME NEW k \in 0..Cardinality(S), k < Cardinality(S), k \in K
      PROVE  k + 1 \in K
  <2>1. ASSUME NEW R \in SUBSET S, R # {}, Cardinality(R) = k + 1
        PROVE  Least(R) /\ Greatest(R)
    <3>1. PICK z \in R : TRUE
      BY <2>1
    <3>2. IsFiniteSet(R)
      BY FS_Subset
    <3>3. Cardinality(R \ {z}) = k
      <4>1. Cardinality(R \ {z}) = Cardinality(R) - 1
        BY <3>2, FS_RemoveElement
      <4> QED
        BY <1>1, <2>1, <4>1
    <3>4. CASE R \ {z} = {}
      BY <3>1, <3>4
    <3>5. CASE R \ {z} # {}
      <4>1. Least(R \ {z}) /\ Greatest(R \ {z})
        BY <1>3, <3>3, <3>5
      <4>2. PICK v \in R \ {z} : \A y \in R \ {z} : f[v] <= f[y]
        BY <4>1
      <4>3. PICK w \in R \ {z} : \A y \in R \ {z} : f[y] <= f[w]
        BY <4>1
      <4>4. \A y \in R : y = z \/ y \in R \ {z}
        OBVIOUS
      <4>5. f[v] \in Int /\ f[w] \in Int /\ f[z] \in Int /\ \A y \in R : f[y] \in Int
        OBVIOUS
      <4>6. Least(R)
        <5>1. CASE f[z] <= f[v]
          BY <3>1, <4>2, <4>4, <4>5, <5>1
        <5>2. CASE f[v] <= f[z]
          BY <3>1, <4>2, <4>4, <4>5, <5>2
        <5> QED
          BY <4>5, <5>1, <5>2
      <4>7. Greatest(R)
        <5>1. CASE f[z] <= f[w]
          BY <3>1, <4>3, <4>4, <4>5, <5>1
        <5>2. CASE f[w] <= f[z]
          BY <3>1, <4>3, <4>4, <4>5, <5>2
        <5> QED
          BY <4>5, <5>1, <5>2
      <4> QED
        BY <4>6, <4>7
    <3> QED
      BY <3>4, <3>5
  <2> HIDE DEF Least, Greatest
  <2>2. k + 1 \in 0..Cardinality(S)
    BY <1>1, <1>3
  <2> QED
    BY <2>1, <2>2
<1>4. Cardinality(S) \in K
  <2> HIDE DEF K
  <2>1. 0..Cardinality(S) \subseteq K
    BY <1>1, <1>2, <1>3, Induct
  <2> QED
    BY <1>1, <2>1
<1>5. Least(S) /\ Greatest(S)
  <2> HIDE DEF Least, Greatest
  <2> QED
    BY <1>4
<1> QED
  BY <1>5

\* The corners of a finite set of points bound it and are met by its points.
LEMMA Hull ==
    ASSUME NEW P \in SUBSET Corners, IsFiniteSet(P), P # {}
    PROVE  /\ Low(P) \in Corners
           /\ High(P) \in Corners
           /\ \A a \in Axes, b \in Int : b <= Low(P)[a] <=> \A p \in P : b <= p[a]
           /\ \A a \in Axes, b \in Int : High(P)[a] <= b <=> \A p \in P : p[a] <= b
<1>1. ASSUME NEW a \in Axes
      PROVE  /\ Low(P)[a] \in Int
             /\ High(P)[a] \in Int
             /\ \A b \in Int : b <= Low(P)[a] <=> \A p \in P : b <= p[a]
             /\ \A b \in Int : High(P)[a] <= b <=> \A p \in P : p[a] <= b
  <2> DEFINE f == [p \in P |-> p[a]]
             V == {p[a] : p \in P}
  <2>1. \A p \in P : p[a] \in Int
    BY DEF Corners
  <2>2. f \in [P -> Int]
    BY <2>1
  <2>3. /\ \E x \in P : \A y \in P : f[x] <= f[y]
        /\ \E x \in P : \A y \in P : f[y] <= f[x]
    <3> HIDE DEF f
    <3> QED
      BY <2>2, Extremes
  <2>4. V \subseteq Int /\ V # {}
    BY <2>1
  <2>5. \E m \in V : \A y \in V : m <= y
    BY <2>3
  <2>6. \E m \in V : \A y \in V : m >= y
    BY <2>1, <2>3
  <2>7. Min(V) \in V /\ \A y \in V : Min(V) <= y
    <3> HIDE DEF V
    <3> QED
      BY <2>5 DEF Min
  <2>8. Max(V) \in V /\ \A y \in V : Max(V) >= y
    <3> HIDE DEF V
    <3> QED
      BY <2>6 DEF Max
  <2>9. Low(P)[a] = Min(V) /\ High(P)[a] = Max(V)
    BY DEF Low, High
  <2>10. PICK v \in P : Min(V) = v[a]
    BY <2>7
  <2>11. PICK w \in P : Max(V) = w[a]
    BY <2>8
  <2>12. \A p \in P : Min(V) <= p[a] /\ Max(V) >= p[a]
    BY <2>7, <2>8
  <2> HIDE DEF V
  <2> QED
    BY <2>1, <2>9, <2>10, <2>11, <2>12
<1> QED
  BY <1>1 DEF Low, High, Corners

\* The box of a subtree, if it has one, ends by b, or begins from b on.
Below(n, a, b) == IsNil(n) \/ n.hi[a] <= b
Beyond(n, a, b) == IsNil(n) \/ b <= n.lo[a]

\* A node of any tree has fields of these types.
LEMMA NodeFields ==
    ASSUME NEW n \in NodesOver(Trees)
    PROVE  /\ n.pt \in Points /\ n.axis \in Axes /\ n.l \in Trees /\ n.r \in Trees
           /\ n.lo \in Corners /\ n.hi \in Corners /\ n.size \in Nat \ {0} /\ n.invalid \in Nat
           /\ n.deleted \in BOOLEAN /\ n.treeDeleted \in BOOLEAN /\ n.pushdown \in BOOLEAN
           /\ n.underRebuild \in BOOLEAN
           /\ n.pt \in Corners
           /\ ~IsNil(n)
BY GeometryAssumption DEF NodesOver, IsNil

LEMMA SizeType ==
    ASSUME NEW n \in Trees
    PROVE  /\ n.size \in Nat
           /\ InvalidNum(n) \in Nat
           /\ IsNil(n) <=> n = Nil
           /\ n = Nil => InvalidNum(n) = 0
<1>1. CASE n = Nil /\ IsNil(n)
  BY <1>1 DEF IsNil, InvalidNum
<1>2. CASE n \in NodesOver(Trees) /\ ~IsNil(n)
  BY <1>2, NodeFields, NilTree DEF InvalidNum
<1> QED
  BY <1>1, <1>2, TreeNode

\* The box of a node's own point and its children's boxes.
LEMMA BoxOfNode ==
    ASSUME NEW n \in NodesOver(Trees)
    PROVE  /\ Low({n.pt} \union {c.lo : c \in Children(n)}) \in Corners
           /\ High({n.pt} \union {c.hi : c \in Children(n)}) \in Corners
           /\ \A a \in Axes, b \in Int :
                  b <= Low({n.pt} \union {c.lo : c \in Children(n)})[a]
                      <=> b <= n.pt[a] /\ Beyond(n.l, a, b) /\ Beyond(n.r, a, b)
           /\ \A a \in Axes, b \in Int :
                  High({n.pt} \union {c.hi : c \in Children(n)})[a] <= b
                      <=> n.pt[a] <= b /\ Below(n.l, a, b) /\ Below(n.r, a, b)
<1> DEFINE L == {n.pt} \union {c.lo : c \in Children(n)}
           H == {n.pt} \union {c.hi : c \in Children(n)}
<1>1. n.pt \in Corners /\ n.l \in Trees /\ n.r \in Trees
  BY NodeFields
<1>2. \A c \in Children(n) : c \in {n.l, n.r} /\ ~IsNil(c) /\ c.lo \in Corners /\ c.hi \in Corners
  <2>1. ASSUME NEW c \in Children(n)
        PROVE  c \in {n.l, n.r} /\ ~IsNil(c) /\ c \in NodesOver(Trees)
    BY <1>1, TreeNode DEF Children
  <2> QED
    BY <2>1, NodeFields
<1>3. L \in SUBSET Corners /\ H \in SUBSET Corners /\ L # {} /\ H # {}
  BY <1>1, <1>2
<1>4. IsFiniteSet(L) /\ IsFiniteSet(H)
  <2>1. L \subseteq ({n.pt} \union {n.l.lo}) \union {n.r.lo}
    BY <1>2
  <2>2. H \subseteq ({n.pt} \union {n.l.hi}) \union {n.r.hi}
    BY <1>2
  <2>3. \A x, y, z : IsFiniteSet(({x} \union {y}) \union {z})
    BY FS_Singleton, FS_AddElement
  <2> DEFINE LL == ({n.pt} \union {n.l.lo}) \union {n.r.lo}
             HH == ({n.pt} \union {n.l.hi}) \union {n.r.hi}
  <2>4. IsFiniteSet(LL) /\ IsFiniteSet(HH)
    BY <2>3
  <2> HIDE DEF L, H, LL, HH
  <2>5. L \in SUBSET LL /\ H \in SUBSET HH
    BY <2>1, <2>2 DEF LL, HH
  <2>6. IsFiniteSet(L)
    BY <2>4, <2>5, FS_Subset
  <2>7. IsFiniteSet(H)
    BY <2>4, <2>5, FS_Subset
  <2> QED
    BY <2>6, <2>7
<1>5. /\ Low(L) \in Corners
      /\ High(H) \in Corners
      /\ \A a \in Axes, b \in Int : b <= Low(L)[a] <=> \A p \in L : b <= p[a]
      /\ \A a \in Axes, b \in Int : High(H)[a] <= b <=> \A p \in H : p[a] <= b
  <2> HIDE DEF L, H
  <2> QED
    BY <1>3, <1>4, Hull
<1>6. ASSUME NEW a \in Axes, NEW b \in Int
      PROVE  /\ (\A p \in L : b <= p[a])
                    <=> b <= n.pt[a] /\ Beyond(n.l, a, b) /\ Beyond(n.r, a, b)
             /\ (\A p \in H : p[a] <= b)
                    <=> n.pt[a] <= b /\ Below(n.l, a, b) /\ Below(n.r, a, b)
  BY DEF Beyond, Below, Children
<1> QED
  BY <1>5, <1>6

\* What pull_up() changes and what it leaves alone.
LEMMA PullUpFields ==
    ASSUME NEW n \in NodesOver(Trees)
    PROVE  /\ PullUp(n) \in NodesOver(Trees)
           /\ ~IsNil(PullUp(n))
           /\ PullUp(n).pt = n.pt /\ PullUp(n).axis = n.axis
           /\ PullUp(n).l = n.l /\ PullUp(n).r = n.r
           /\ PullUp(n).deleted = n.deleted /\ PullUp(n).pushdown = n.pushdown
           /\ PullUp(n).underRebuild = n.underRebuild
           /\ PullUp(n).size = 1 + n.l.size + n.r.size
           /\ PullUp(n).lo = Low({n.pt} \union {c.lo : c \in Children(n)})
           /\ PullUp(n).hi = High({n.pt} \union {c.hi : c \in Children(n)})
           /\ PullUp(n).invalid = (IF n.deleted THEN 1 ELSE 0)
                                  + InvalidNum(n.l) + InvalidNum(n.r)
           /\ PullUp(n).treeDeleted = (n.deleted /\ \A c \in Children(n) : c.treeDeleted)
<1> DEFINE s == 1 + n.l.size + n.r.size
           lo == Low({n.pt} \union {c.lo : c \in Children(n)})
           hi == High({n.pt} \union {c.hi : c \in Children(n)})
           i == (IF n.deleted THEN 1 ELSE 0) + InvalidNum(n.l) + InvalidNum(n.r)
           t == (n.deleted /\ \A c \in Children(n) : c.treeDeleted)
<1>1. PullUp(n) = [n EXCEPT !.size = s, !.lo = lo, !.hi = hi, !.invalid = i, !.treeDeleted = t]
  BY DEF PullUp
<1>2. s \in Nat \ {0} /\ lo \in Corners /\ hi \in Corners /\ i \in Nat /\ t \in BOOLEAN
  <2>1. lo \in Corners /\ hi \in Corners
    BY BoxOfNode
  <2>2. n.l \in Trees /\ n.r \in Trees /\ n.deleted \in BOOLEAN
    BY NodeFields
  <2>3. /\ n.l.size \in Nat /\ n.r.size \in Nat
        /\ InvalidNum(n.l) \in Nat /\ InvalidNum(n.r) \in Nat
    BY <2>2, SizeType
  <2>4. t \in BOOLEAN
    OBVIOUS
  <2> QED
    BY <2>1, <2>3, <2>4
<1> HIDE DEF s, lo, hi, i, t
<1>3. PullUp(n) \in NodesOver(Trees)
  BY <1>1, <1>2 DEF NodesOver
<1>4. /\ PullUp(n).pt = n.pt /\ PullUp(n).axis = n.axis
      /\ PullUp(n).l = n.l /\ PullUp(n).r = n.r
      /\ PullUp(n).deleted = n.deleted /\ PullUp(n).pushdown = n.pushdown
      /\ PullUp(n).underRebuild = n.underRebuild
      /\ PullUp(n).size = s /\ PullUp(n).lo = lo /\ PullUp(n).hi = hi
      /\ PullUp(n).invalid = i /\ PullUp(n).treeDeleted = t
  BY <1>1 DEF NodesOver
<1> QED
  BY <1>3, <1>4, NodeFields DEF s, lo, hi, i, t

-----------------------------------------------------------------------------
(* The nodes of a tree and their paths *)

NodesOf(n, left, right) ==
    IF IsNil(n) THEN <<>>
    ELSE LET paths == {<<>>} \union {<<"l">> \o q : q \in DOMAIN left}
                             \union {<<"r">> \o q : q \in DOMAIN right}
         IN  [q \in paths |-> IF q = <<>> THEN n
                              ELSE IF Head(q) = "l" THEN left[Tail(q)]
                              ELSE right[Tail(q)]]

LEMMA NodesDef ==
    Nodes = [n \in Trees |-> NodesOf(n, Nodes[n.l], Nodes[n.r])]
<1> DEFINE Solves(f, h) == f = [n \in TreesUpTo[h] |-> NodesOf(n, f[n.l], f[n.r])]
           S == {h \in 0..MaxNodes : \E f : Solves(f, h)}
<1>1. MaxNodes \in Nat
  BY ThresholdAssumption
<1>2. \A x, y, v, w : NodesOf(Nil, x, y) = NodesOf(Nil, v, w)
  BY NilTree DEF NodesOf
<1> HIDE DEF NodesOf
<1>3. 0 \in S
  <2> DEFINE f == [n \in TreesUpTo[0] |-> NodesOf(Nil, 0, 0)]
  <2>1. Solves(f, 0)
    BY <1>2, TreesLevels
  <2> HIDE DEF Solves, f
  <2> QED
    BY <1>1, <2>1
<1>4. ASSUME NEW h \in 0..MaxNodes, h < MaxNodes, h \in S
      PROVE  h + 1 \in S
  <2>1. PICK f : Solves(f, h)
    BY <1>4
  <2>2. h + 1 \in 0..MaxNodes /\ (h + 1) - 1 = h /\ h <= h + 1
    BY <1>1, <1>4
  <2>3. TreesUpTo[h] \subseteq TreesUpTo[h + 1]
    BY <2>2, TreesGrow
  <2> DEFINE g == [n \in TreesUpTo[h + 1] |-> NodesOf(n, f[n.l], f[n.r])]
  <2>4. ASSUME NEW n \in TreesUpTo[h]
        PROVE  g[n] = f[n]
    <3>1. f[n] = NodesOf(n, f[n.l], f[n.r])
      BY <2>1
    <3> QED
      BY <2>3, <3>1
  <2>5. ASSUME NEW n \in TreesUpTo[h + 1]
        PROVE  NodesOf(n, f[n.l], f[n.r]) = NodesOf(n, g[n.l], g[n.r])
    <3>1. CASE n = Nil
      BY <1>2, <3>1
    <3>2. CASE n \in NodesOver(TreesUpTo[h])
      <4>1. n.l \in TreesUpTo[h] /\ n.r \in TreesUpTo[h]
        BY <3>2 DEF NodesOver
      <4> HIDE DEF g
      <4> QED
        BY <2>4, <4>1
    <3> QED
      BY <2>2, <3>1, <3>2, TreeCases
  <2>6. Solves(g, h + 1)
    BY <2>5
  <2> HIDE DEF Solves, g
  <2> QED
    BY <2>2, <2>6
<1>5. MaxNodes \in S
  <2> HIDE DEF S
  <2>1. 0..MaxNodes \subseteq S
    BY <1>1, <1>3, <1>4, Induct
  <2> QED
    BY <1>1, <2>1
<1>6. \E f : Solves(f, MaxNodes)
  BY <1>5
<1> QED
  BY <1>6 DEF Nodes, NodesOf, Trees

\* A first step and what remains of a path determine each other.
LEMMA FirstStep ==
    ASSUME NEW q \in Routes, NEW s \in {"l", "r"}
    PROVE  /\ <<s>> \o q \in Routes
           /\ <<s>> \o q # <<>>
           /\ Head(<<s>> \o q) = s
           /\ Tail(<<s>> \o q) = q
<1> DEFINE t == <<s>> \o q
<1>1. <<s>> \in Routes
  BY DEF Routes
<1>2. /\ t \in Routes
      /\ Len(t) = 1 + Len(q)
      /\ \A i \in 1..(1 + Len(q)) : t[i] = IF i <= 1 THEN s ELSE q[i - 1]
  BY <1>1, ConcatProperties DEF Routes
<1>3. Len(q) \in Nat
  BY DEF Routes
<1>4. t # <<>>
  BY <1>2, <1>3
<1>5. Head(t) = s
  BY <1>2, <1>3
<1>6. /\ Tail(t) \in Routes
      /\ Len(Tail(t)) = Len(t) - 1
      /\ \A i \in 1..Len(Tail(t)) : Tail(t)[i] = t[i + 1]
  BY <1>2, <1>4, HeadTailProperties DEF Routes
<1>7. Len(Tail(t)) = Len(q) /\ \A i \in 1..Len(q) : Tail(t)[i] = q[i]
  <2> HIDE DEF t
  <2> QED
    BY <1>2, <1>3, <1>6
<1>8. Tail(t) = q
  <2> HIDE DEF t
  <2> QED
    BY <1>6, <1>7, SeqEqual DEF Routes
<1> QED
  BY <1>2, <1>4, <1>5, <1>8

\* A path that is not empty is a first step and the rest of it.
LEMMA SplitPath ==
    ASSUME NEW q \in Routes, q # <<>>
    PROVE  /\ Head(q) \in {"l", "r"}
           /\ Tail(q) \in Routes
           /\ q = <<Head(q)>> \o Tail(q)
<1>1. Head(q) \in {"l", "r"} /\ Tail(q) \in Routes
  BY HeadTailProperties DEF Routes
<1>2. q \in Seq({"l", "r"})
  BY DEF Routes
<1>3. q = <<Head(q)>> \o Tail(q)
  BY <1>2
<1> QED
  BY <1>1, <1>3

\* The nodes of a tree are its root and, one step further, those of its
\* subtrees.
LEMMA NodesOfNil == Paths(Nil) = {}
<1>1. Nodes[Nil] = NodesOf(Nil, Nodes[Nil.l], Nodes[Nil.r])
  BY NodesDef, NilTree
<1>2. Nodes[Nil] = <<>>
  BY <1>1, NilTree DEF NodesOf
<1> QED
  BY <1>2 DEF Paths

LEMMA NodesUnfold ==
    ASSUME NEW n \in Trees, ~IsNil(n)
    PROVE  /\ Paths(n) = {<<>>} \union {<<"l">> \o q : q \in Paths(n.l)}
                                \union {<<"r">> \o q : q \in Paths(n.r)}
           /\ \A q \in Paths(n) : At(n, q) = IF q = <<>> THEN n
                                             ELSE IF Head(q) = "l" THEN At(n.l, Tail(q))
                                             ELSE At(n.r, Tail(q))
<1>1. Nodes[n] = NodesOf(n, Nodes[n.l], Nodes[n.r])
  BY NodesDef
<1> DEFINE paths == {<<>>} \union {<<"l">> \o q : q \in Paths(n.l)}
                           \union {<<"r">> \o q : q \in Paths(n.r)}
<1>2. Nodes[n] = [q \in paths |-> IF q = <<>> THEN n
                                  ELSE IF Head(q) = "l" THEN At(n.l, Tail(q))
                                  ELSE At(n.r, Tail(q))]
  BY <1>1 DEF NodesOf, Paths, At
<1> HIDE DEF paths
<1>3. Paths(n) = paths
  BY <1>2 DEF Paths
<1>4. \A q \in paths : Nodes[n][q] = IF q = <<>> THEN n
                                     ELSE IF Head(q) = "l" THEN At(n.l, Tail(q))
                                     ELSE At(n.r, Tail(q))
  BY <1>2
<1>5. Paths(n) = {<<>>} \union {<<"l">> \o q : q \in Paths(n.l)}
                        \union {<<"r">> \o q : q \in Paths(n.r)}
  BY <1>3 DEF paths
<1> QED
  BY <1>3, <1>4, <1>5 DEF At

LEMMA PathsType ==
    ASSUME NEW n \in Trees
    PROVE  Paths(n) \subseteq Routes
<1> DEFINE S == {t \in Trees : Paths(t) \subseteq Routes}
<1>1. Nil \in S
  BY NodesOfNil, NilTree
<1>2. ASSUME NEW h \in 0..MaxNodes, h # 0, TreesUpTo[h - 1] \subseteq S,
             NEW t \in NodesOver(TreesUpTo[h - 1])
      PROVE  t \in S
  <2>1. t.l \in S /\ t.r \in S
    BY <1>2 DEF NodesOver
  <2>2. t \in TreesUpTo[h]
    BY <1>2, TreesLevels
  <2>3. TreesUpTo[h] \subseteq Trees
    BY TreesGrow, ThresholdAssumption DEF Trees
  <2>4. t \in Trees /\ ~IsNil(t)
    BY <2>2, <2>3, <1>2 DEF NodesOver, IsNil
  <2>5. ASSUME NEW q \in Paths(t) PROVE q \in Routes
    <3>1. \/ q = <<>>
          \/ \E u \in Paths(t.l) : q = <<"l">> \o u
          \/ \E u \in Paths(t.r) : q = <<"r">> \o u
      BY <2>4, NodesUnfold
    <3>2. <<>> \in Routes
      BY DEF Routes
    <3> QED
      BY <2>1, <3>1, <3>2, FirstStep
  <2> QED
    BY <2>4, <2>5
<1>3. Trees \subseteq S
  <2> HIDE DEF S
  <2> QED
    BY <1>1, <1>2, TreeInduction
<1> QED
  BY <1>3

\* The nodes below a node, by the two directions.
LEMMA NodesBelow ==
    ASSUME NEW n \in Trees, ~IsNil(n)
    PROVE  /\ <<>> \in Paths(n) /\ At(n, <<>>) = n
           /\ \A q \in Routes : /\ <<"l">> \o q \in Paths(n) <=> q \in Paths(n.l)
                                /\ <<"r">> \o q \in Paths(n) <=> q \in Paths(n.r)
           /\ \A q \in Paths(n.l) : At(n, <<"l">> \o q) = At(n.l, q)
           /\ \A q \in Paths(n.r) : At(n, <<"r">> \o q) = At(n.r, q)
<1>1. n.l \in Trees /\ n.r \in Trees
  BY TreeNode, NodeFields
<1>2. Paths(n.l) \subseteq Routes /\ Paths(n.r) \subseteq Routes
  BY <1>1, PathsType
<1>3. <<>> \in Paths(n) /\ At(n, <<>>) = n
  BY NodesUnfold
<1>4. ASSUME NEW q \in Routes
      PROVE  /\ <<"l">> \o q \in Paths(n) <=> q \in Paths(n.l)
             /\ <<"r">> \o q \in Paths(n) <=> q \in Paths(n.r)
  <2>1. \A s \in {"l", "r"}, v \in Routes :
            /\ <<s>> \o v # <<>>
            /\ Head(<<s>> \o v) = s /\ Tail(<<s>> \o v) = v
    BY FirstStep
  <2>2. \A x : x \in Paths(n) <=> \/ x = <<>>
                                  \/ \E u \in Paths(n.l) : x = <<"l">> \o u
                                  \/ \E u \in Paths(n.r) : x = <<"r">> \o u
    BY NodesUnfold
  <2>3. \A u \in Routes : /\ <<"l">> \o q = <<"l">> \o u => q = u
                          /\ <<"r">> \o q = <<"r">> \o u => q = u
                          /\ <<"l">> \o q # <<"r">> \o u
                          /\ <<"r">> \o q # <<"l">> \o u
    BY <2>1
  <2> QED
    BY <1>2, <2>1, <2>2, <2>3
<1>5. ASSUME NEW q \in Paths(n.l)
      PROVE  At(n, <<"l">> \o q) = At(n.l, q)
  <2> DEFINE x == <<"l">> \o q
  <2>1. q \in Routes /\ x \in Paths(n)
    BY <1>2, <1>4
  <2>2. x # <<>> /\ Head(x) = "l" /\ Tail(x) = q
    BY <2>1, FirstStep
  <2> HIDE DEF x
  <2>3. At(n, x) = IF x = <<>> THEN n
                   ELSE IF Head(x) = "l" THEN At(n.l, Tail(x)) ELSE At(n.r, Tail(x))
    BY <2>1, NodesUnfold
  <2>4. At(n, x) = At(n.l, q)
    BY <2>2, <2>3
  <2> QED
    BY <2>4 DEF x
<1>6. ASSUME NEW q \in Paths(n.r)
      PROVE  At(n, <<"r">> \o q) = At(n.r, q)
  <2> DEFINE x == <<"r">> \o q
  <2>1. q \in Routes /\ x \in Paths(n)
    BY <1>2, <1>4
  <2>2. x # <<>> /\ Head(x) = "r" /\ Tail(x) = q
    BY <2>1, FirstStep
  <2> HIDE DEF x
  <2>3. At(n, x) = IF x = <<>> THEN n
                   ELSE IF Head(x) = "l" THEN At(n.l, Tail(x)) ELSE At(n.r, Tail(x))
    BY <2>1, NodesUnfold
  <2>4. At(n, x) = At(n.r, q)
    BY <2>2, <2>3
  <2> QED
    BY <2>4 DEF x
<1> QED
  BY <1>3, <1>4, <1>5, <1>6

\* A property of all nodes is one of the root and of the nodes of both
\* subtrees.
LEMMA PathCases ==
    ASSUME NEW n \in Trees, ~IsNil(n), NEW q \in Paths(n)
    PROVE  \/ q = <<>> /\ At(n, q) = n
           \/ \E u \in Paths(n.l) : q = <<"l">> \o u /\ At(n, q) = At(n.l, u)
           \/ \E u \in Paths(n.r) : q = <<"r">> \o u /\ At(n, q) = At(n.r, u)
<1>1. \/ q = <<>>
      \/ \E u \in Paths(n.l) : q = <<"l">> \o u
      \/ \E u \in Paths(n.r) : q = <<"r">> \o u
  BY NodesUnfold
<1>2. At(n, <<>>) = n
  BY NodesBelow
<1>3. \A u \in Paths(n.l) : At(n, <<"l">> \o u) = At(n.l, u)
  BY NodesBelow
<1>4. \A u \in Paths(n.r) : At(n, <<"r">> \o u) = At(n.r, u)
  BY NodesBelow
<1> QED
  BY <1>1, <1>2, <1>3, <1>4

LEMMA CheckUnfold ==
    ASSUME NEW n \in Trees
    PROVE  IF IsNil(n) THEN Check(n)
           ELSE Check(n) <=> Checked(n) /\ Check(n.l) /\ Check(n.r)
<1>1. \A t : Check(t) <=> \A q \in Paths(t) : Checked(At(t, q))
  BY DEF Check, Paths, At
<1>2. CASE IsNil(n)
  BY <1>1, <1>2, NodesOfNil, TreeNode
<1>3. CASE ~IsNil(n)
  <2> HIDE DEF Checked
  <2> QED
    BY <1>1, <1>3, PathCases, NodesBelow, PathsType, TreeNode, NodeFields
<1> QED
  BY <1>2, <1>3

-----------------------------------------------------------------------------
(* Sound trees *)

\* The trees within the bound on nodes that pass check().
Sound == {n \in Trees : n.size <= MaxNodes /\ Check(n)}

Ordered(n) == Below(n.l, n.axis, n.pt[n.axis]) /\ Beyond(n.r, n.axis, n.pt[n.axis])

LEMMA SoundNil == Nil \in Sound
BY NilTree, CheckUnfold, ThresholdAssumption, SizeType DEF Sound, IsNil

LEMMA NodesOverSound == NodesOver(Sound) \subseteq NodesOver(Trees)
BY DEF NodesOver, Sound

\* A sound tree that is not empty is a checked node over sound subtrees.
LEMMA SoundNode ==
    ASSUME NEW n \in Sound, ~IsNil(n)
    PROVE  /\ n \in NodesOver(Sound)
           /\ n \in NodesOver(Trees)
           /\ Checked(n)
           /\ n.l \in Sound /\ n.r \in Sound
           /\ n.l.size \in Nat /\ n.r.size \in Nat
           /\ n.size = 1 + n.l.size + n.r.size
           /\ n.size <= MaxNodes
           /\ Ordered(n)
<1>1. n \in Trees /\ n.size <= MaxNodes /\ Check(n)
  BY DEF Sound
<1>2. n \in NodesOver(Trees) /\ n.l \in Trees /\ n.r \in Trees
  BY <1>1, TreeNode, NodeFields
<1>3. Checked(n) /\ Check(n.l) /\ Check(n.r)
  BY <1>1, CheckUnfold
<1>4. n.size = 1 + n.l.size + n.r.size
  BY <1>3 DEF Checked
<1>5. n.l.size \in Nat /\ n.r.size \in Nat /\ n.size \in Nat
  BY <1>1, <1>2, SizeType
<1>6. n.l \in Sound /\ n.r \in Sound
  BY <1>1, <1>2, <1>3, <1>4, <1>5, ThresholdAssumption DEF Sound
<1>7. n \in NodesOver(Sound)
  BY <1>2, <1>6 DEF NodesOver
<1>8. Ordered(n)
  BY <1>3 DEF Checked, Ordered, Below, Beyond
<1> QED
  BY <1>1, <1>2, <1>3, <1>4, <1>5, <1>6, <1>7, <1>8

\* A sound tree is no higher than its size.
LEMMA SoundHeight ==
    ASSUME NEW n \in Sound
    PROVE  n.size \in 0..MaxNodes /\ n \in TreesUpTo[n.size]
<1> DEFINE S == {t \in Trees : t \in Sound => t \in TreesUpTo[t.size]}
<1>1. MaxNodes \in Nat
  BY ThresholdAssumption
<1>2. Nil \in S
  <2>1. Nil \in TreesUpTo[Nil.size]
    BY <1>1, NilTree DEF IsNil
  <2> QED
    BY <2>1, NilTree
<1>3. ASSUME NEW h \in 0..MaxNodes, h # 0, TreesUpTo[h - 1] \subseteq S,
             NEW t \in NodesOver(TreesUpTo[h - 1])
      PROVE  t \in S
  <2>1. t.l \in S /\ t.r \in S
    BY <1>3 DEF NodesOver
  <2>2. t \in TreesUpTo[h]
    BY <1>3, TreesLevels
  <2>3. TreesUpTo[h] \subseteq Trees
    BY <1>1, TreesGrow DEF Trees
  <2>4. t \in Trees /\ ~IsNil(t)
    BY <2>2, <2>3, <1>3 DEF NodesOver, IsNil
  <2>5. SUFFICES ASSUME t \in Sound PROVE t \in TreesUpTo[t.size]
    BY <2>4
  <2>6. /\ t.l \in Sound /\ t.r \in Sound
        /\ t.l.size \in Nat /\ t.r.size \in Nat
        /\ t.size = 1 + t.l.size + t.r.size
        /\ t.size <= MaxNodes
    BY <2>4, <2>5, SoundNode
  <2>7. t.l \in TreesUpTo[t.l.size] /\ t.r \in TreesUpTo[t.r.size]
    BY <2>1, <2>6
  <2>8. t.size - 1 \in 0..MaxNodes /\ t.size \in 0..MaxNodes /\ t.size # 0
    BY <1>1, <2>6
  <2>9. t.l.size \in 0..MaxNodes /\ t.l.size <= t.size - 1
    BY <1>1, <2>6
  <2>10. t.r.size \in 0..MaxNodes /\ t.r.size <= t.size - 1
    BY <1>1, <2>6
  <2>11. t.l \in TreesUpTo[t.size - 1]
    BY <2>7, <2>8, <2>9, TreesGrow
  <2>12. t.r \in TreesUpTo[t.size - 1]
    BY <2>7, <2>8, <2>10, TreesGrow
  <2>13. t \in NodesOver(TreesUpTo[t.size - 1])
    BY <1>3, <2>11, <2>12 DEF NodesOver
  <2> QED
    BY <2>8, <2>13, TreesLevels
<1>4. Trees \subseteq S
  <2> HIDE DEF S
  <2> QED
    BY <1>2, <1>3, TreeInduction
<1>5. n \in Trees /\ n.size \in Nat /\ n.size <= MaxNodes
  BY SizeType DEF Sound
<1> QED
  BY <1>1, <1>4, <1>5

\* A checked node over sound trees is a sound tree if it is within the bound.
LEMMA SoundJoin ==
    ASSUME NEW n \in NodesOver(Sound), Checked(n), n.size <= MaxNodes
    PROVE  n \in Sound /\ ~IsNil(n)
<1>1. n \in NodesOver(Trees) /\ ~IsNil(n)
  BY NodesOverSound, NodeFields
<1>2. n.l \in Sound /\ n.r \in Sound
  BY DEF NodesOver
<1>3. n.l.size \in 0..MaxNodes /\ n.l \in TreesUpTo[n.l.size]
  BY <1>2, SoundHeight
<1>4. n.r.size \in 0..MaxNodes /\ n.r \in TreesUpTo[n.r.size]
  BY <1>2, SoundHeight
<1>5. n.size = 1 + n.l.size + n.r.size
  BY DEF Checked
<1>6. /\ MaxNodes \in Nat
      /\ MaxNodes - 1 \in 0..MaxNodes /\ MaxNodes \in 0..MaxNodes /\ MaxNodes # 0
      /\ n.l.size <= MaxNodes - 1 /\ n.r.size <= MaxNodes - 1
  BY <1>3, <1>4, <1>5, ThresholdAssumption
<1>7. n.l \in TreesUpTo[MaxNodes - 1] /\ n.r \in TreesUpTo[MaxNodes - 1]
  BY <1>3, <1>4, <1>6, TreesGrow
<1>8. n \in NodesOver(TreesUpTo[MaxNodes - 1])
  BY <1>1, <1>7 DEF NodesOver
<1>9. n \in Trees
  BY <1>6, <1>8, TreesLevels DEF Trees
<1>10. Check(n)
  BY <1>1, <1>2, <1>9, CheckUnfold DEF Sound
<1> QED
  BY <1>1, <1>9, <1>10 DEF Sound

\* Induction on the size of sound trees.
LEMMA SoundInduction ==
    ASSUME NEW S, Nil \in S,
           \A n \in Sound : ~IsNil(n) /\ (\A c \in Sound : c.size < n.size => c \in S) => n \in S
    PROVE  Sound \subseteq S
<1> DEFINE K == {k \in 0..MaxNodes : \A n \in Sound : n.size <= k => n \in S}
<1>1. MaxNodes \in Nat
  BY ThresholdAssumption
<1>2. \A n \in Sound : /\ n.size \in 0..MaxNodes
                       /\ n.size = 0 => n \in S
  BY SoundHeight, SizeType DEF Sound, IsNil
<1>3. 0 \in K
  BY <1>1, <1>2
<1>4. ASSUME NEW k \in 0..MaxNodes, k < MaxNodes, k \in K
      PROVE  k + 1 \in K
  <2>1. ASSUME NEW n \in Sound, n.size <= k + 1
        PROVE  n \in S
    <3>1. \A c \in Sound : c.size < n.size => c \in S
      BY <1>1, <1>2, <1>4, <2>1
    <3> QED
      BY <1>2, <3>1 DEF IsNil
  <2> QED
    BY <1>1, <1>4, <2>1
<1>5. 0..MaxNodes \subseteq K
  <2> HIDE DEF K
  <2> QED
    BY <1>1, <1>3, <1>4, Induct
<1> QED
  BY <1>1, <1>2, <1>5

-----------------------------------------------------------------------------
(* pull_up() and push_down() *)

\* The box of a sound node is the one of its point and its subtrees' boxes.
LEMMA SoundBox ==
    ASSUME NEW n \in Sound, ~IsNil(n), NEW a \in Axes, NEW b \in Int
    PROVE  /\ Below(n, a, b) <=> n.pt[a] <= b /\ Below(n.l, a, b) /\ Below(n.r, a, b)
           /\ Beyond(n, a, b) <=> b <= n.pt[a] /\ Beyond(n.l, a, b) /\ Beyond(n.r, a, b)
<1>1. n \in NodesOver(Trees) /\ Checked(n)
  BY SoundNode
<1>2. /\ Below(n, a, b) <=> n.hi[a] <= b
      /\ Beyond(n, a, b) <=> b <= n.lo[a]
  BY DEF Below, Beyond
<1>3. /\ n.lo = Low({n.pt} \union {c.lo : c \in Children(n)})
      /\ n.hi = High({n.pt} \union {c.hi : c \in Children(n)})
  BY <1>1 DEF Checked
<1> QED
  BY <1>1, <1>2, <1>3, BoxOfNode

\* pull_up() of a node over sound subtrees in split order makes it sound.
LEMMA PullUpSound ==
    ASSUME NEW n \in NodesOver(Sound), ~n.pushdown, Ordered(n),
           1 + n.l.size + n.r.size <= MaxNodes
    PROVE  PullUp(n) \in Sound /\ ~IsNil(PullUp(n))
<1> DEFINE m == PullUp(n)
<1>1. n \in NodesOver(Trees)
  BY NodesOverSound
<1>2. /\ m \in NodesOver(Trees)
      /\ m.pt = n.pt /\ m.axis = n.axis /\ m.l = n.l /\ m.r = n.r
      /\ m.deleted = n.deleted /\ m.pushdown = n.pushdown
      /\ m.size = 1 + n.l.size + n.r.size
      /\ m.lo = Low({n.pt} \union {c.lo : c \in Children(n)})
      /\ m.hi = High({n.pt} \union {c.hi : c \in Children(n)})
      /\ m.invalid = (IF n.deleted THEN 1 ELSE 0) + InvalidNum(n.l) + InvalidNum(n.r)
      /\ m.treeDeleted = (n.deleted /\ \A c \in Children(n) : c.treeDeleted)
  BY <1>1, PullUpFields
<1> HIDE DEF m
<1>3. Children(m) = Children(n)
  BY <1>2 DEF Children
<1>4. Checked(m)
  BY <1>2, <1>3 DEF Checked, Ordered, Below, Beyond
<1>5. m \in NodesOver(Sound)
  BY <1>2 DEF NodesOver
<1>6. m \in Sound /\ ~IsNil(m)
  BY <1>2, <1>4, <1>5, SoundJoin
<1> QED
  BY <1>6 DEF m

\* A deletion label changes no point, order or box.
LEMMA DeletedFields ==
    ASSUME NEW n \in NodesOver(Trees)
    PROVE  /\ Deleted(n) \in NodesOver(Trees)
           /\ Deleted(n).pt = n.pt /\ Deleted(n).axis = n.axis
           /\ Deleted(n).l = n.l /\ Deleted(n).r = n.r
           /\ Deleted(n).lo = n.lo /\ Deleted(n).hi = n.hi /\ Deleted(n).size = n.size
           /\ Deleted(n).invalid = n.size /\ Deleted(n).underRebuild = n.underRebuild
           /\ Deleted(n).deleted = TRUE /\ Deleted(n).treeDeleted = TRUE
           /\ Deleted(n).pushdown = TRUE
<1>1. ~IsNil(n) /\ n.size \in Nat
  BY NodeFields
<1>2. Deleted(n) = [n EXCEPT !.deleted = TRUE, !.treeDeleted = TRUE, !.invalid = n.size,
                             !.pushdown = TRUE]
  BY <1>1 DEF Deleted
<1> QED
  BY <1>1, <1>2 DEF NodesOver

LEMMA DeletedTree ==
    ASSUME NEW h \in 0..MaxNodes, NEW n \in TreesUpTo[h]
    PROVE  Deleted(n) \in TreesUpTo[h]
<1>1. CASE n = Nil /\ IsNil(n)
  BY <1>1 DEF Deleted
<1>2. CASE /\ h - 1 \in 0..MaxNodes
           /\ n \in NodesOver(TreesUpTo[h - 1]) /\ n \in NodesOver(Trees)
  <2>1. Deleted(n) \in NodesOver(TreesUpTo[h - 1])
    BY <1>2, DeletedFields DEF NodesOver
  <2> QED
    BY <1>2, <2>1, TreesLevels
<1> QED
  BY <1>1, <1>2, TreeCases

LEMMA DeletedSound ==
    ASSUME NEW n \in Sound
    PROVE  /\ Deleted(n) \in Sound
           /\ IsNil(Deleted(n)) <=> IsNil(n)
           /\ Deleted(n).size = n.size
           /\ InvalidNum(Deleted(n)) = n.size
           /\ ~IsNil(n) => Deleted(n).treeDeleted
           /\ \A a, b : /\ Below(Deleted(n), a, b) <=> Below(n, a, b)
                        /\ Beyond(Deleted(n), a, b) <=> Beyond(n, a, b)
<1>1. CASE IsNil(n)
  BY <1>1 DEF Deleted, IsNil, InvalidNum
<1>2. CASE ~IsNil(n)
  <2> DEFINE m == Deleted(n)
  <2>1. n \in NodesOver(Sound) /\ n \in NodesOver(Trees) /\ Checked(n) /\ n.size <= MaxNodes
    BY <1>2, SoundNode
  <2>2. /\ m \in NodesOver(Trees)
        /\ m.pt = n.pt /\ m.axis = n.axis /\ m.l = n.l /\ m.r = n.r
        /\ m.lo = n.lo /\ m.hi = n.hi /\ m.size = n.size /\ m.invalid = n.size
        /\ m.deleted = TRUE /\ m.treeDeleted = TRUE /\ m.pushdown = TRUE
    BY <2>1, DeletedFields
  <2> HIDE DEF m
  <2>3. Checked(m)
    BY <2>1, <2>2 DEF Checked, Children
  <2>4. m \in NodesOver(Sound)
    BY <2>1, <2>2 DEF NodesOver
  <2>5. m \in Sound /\ ~IsNil(m)
    BY <2>1, <2>2, <2>3, <2>4, SoundJoin
  <2>6. /\ InvalidNum(m) = n.size
        /\ \A a, b : /\ Below(m, a, b) <=> Below(n, a, b)
                     /\ Beyond(m, a, b) <=> Beyond(n, a, b)
    BY <1>2, <2>2, <2>5 DEF InvalidNum, Below, Beyond
  <2> QED
    BY <1>2, <2>2, <2>5, <2>6 DEF m
<1> QED
  BY <1>1, <1>2

\* What push_down() changes and what it leaves alone.
LEMMA PushDownFields ==
    ASSUME NEW n \in NodesOver(Trees)
    PROVE  /\ PushDown(n).pt = n.pt /\ PushDown(n).axis = n.axis
           /\ PushDown(n).l = (IF n.pushdown THEN Deleted(n.l) ELSE n.l)
           /\ PushDown(n).r = (IF n.pushdown THEN Deleted(n.r) ELSE n.r)
           /\ PushDown(n).lo = n.lo /\ PushDown(n).hi = n.hi /\ PushDown(n).size = n.size
           /\ PushDown(n).invalid = n.invalid /\ PushDown(n).underRebuild = n.underRebuild
           /\ PushDown(n).deleted = n.deleted /\ PushDown(n).treeDeleted = n.treeDeleted
           /\ PushDown(n).pushdown = FALSE
           /\ \A T : n \in NodesOver(T) /\ (\A c \in T : Deleted(c) \in T)
                         => PushDown(n) \in NodesOver(T)
<1>1. CASE n.pushdown
  <2>1. PushDown(n) = [n EXCEPT !.l = Deleted(n.l), !.r = Deleted(n.r), !.pushdown = FALSE]
    BY <1>1 DEF PushDown, NodesOver
  <2>2. PICK a, b : a = Deleted(n.l) /\ b = Deleted(n.r)
    OBVIOUS
  <2>3. PushDown(n) = [n EXCEPT !.l = a, !.r = b, !.pushdown = FALSE]
    BY <2>1, <2>2
  <2> HIDE DEF Deleted
  <2>4. /\ PushDown(n).pt = n.pt /\ PushDown(n).axis = n.axis
        /\ PushDown(n).l = a /\ PushDown(n).r = b
        /\ PushDown(n).lo = n.lo /\ PushDown(n).hi = n.hi /\ PushDown(n).size = n.size
        /\ PushDown(n).invalid = n.invalid /\ PushDown(n).underRebuild = n.underRebuild
        /\ PushDown(n).deleted = n.deleted /\ PushDown(n).treeDeleted = n.treeDeleted
        /\ PushDown(n).pushdown = FALSE
    BY <2>3 DEF NodesOver
  <2>5. ASSUME NEW T, n \in NodesOver(T), \A c \in T : Deleted(c) \in T
        PROVE  PushDown(n) \in NodesOver(T)
    <3>1. n.l \in T /\ n.r \in T
      BY <2>5 DEF NodesOver
    <3>2. a \in T /\ b \in T
      BY <2>2, <2>5, <3>1
    <3> QED
      BY <2>3, <2>5, <3>2 DEF NodesOver
  <2> QED
    BY <1>1, <2>2, <2>4, <2>5
<1>2. CASE ~n.pushdown
  BY <1>2, NodeFields DEF PushDown
<1> QED
  BY <1>1, <1>2

LEMMA PushDownSound ==
    ASSUME NEW n \in Sound, ~IsNil(n)
    PROVE  /\ PushDown(n) \in Sound
           /\ PushDown(n) \in NodesOver(Sound)
           /\ ~IsNil(PushDown(n))
           /\ PushDown(n).l.size = n.l.size /\ PushDown(n).r.size = n.r.size
           /\ IsNil(PushDown(n).l) <=> IsNil(n.l)
           /\ IsNil(PushDown(n).r) <=> IsNil(n.r)
           /\ \A a, b : /\ Below(PushDown(n).l, a, b) <=> Below(n.l, a, b)
                        /\ Below(PushDown(n).r, a, b) <=> Below(n.r, a, b)
                        /\ Beyond(PushDown(n).l, a, b) <=> Beyond(n.l, a, b)
                        /\ Beyond(PushDown(n).r, a, b) <=> Beyond(n.r, a, b)
<1> DEFINE m == PushDown(n)
<1>1. /\ n \in NodesOver(Sound) /\ n \in NodesOver(Trees) /\ Checked(n) /\ n.size <= MaxNodes
      /\ n.l \in Sound /\ n.r \in Sound
  BY SoundNode
<1>2. /\ m.pt = n.pt /\ m.axis = n.axis
      /\ m.l = (IF n.pushdown THEN Deleted(n.l) ELSE n.l)
      /\ m.r = (IF n.pushdown THEN Deleted(n.r) ELSE n.r)
      /\ m.lo = n.lo /\ m.hi = n.hi /\ m.size = n.size /\ m.invalid = n.invalid
      /\ m.deleted = n.deleted /\ m.treeDeleted = n.treeDeleted
      /\ m.pushdown = FALSE
  BY <1>1, PushDownFields
<1>3. m \in NodesOver(Sound)
  BY <1>1, DeletedSound, PushDownFields
<1> HIDE DEF m
<1>4. /\ m.l.size = n.l.size /\ m.r.size = n.r.size
      /\ IsNil(m.l) <=> IsNil(n.l)
      /\ IsNil(m.r) <=> IsNil(n.r)
      /\ \A a, b : /\ Below(m.l, a, b) <=> Below(n.l, a, b)
                   /\ Below(m.r, a, b) <=> Below(n.r, a, b)
                   /\ Beyond(m.l, a, b) <=> Beyond(n.l, a, b)
                   /\ Beyond(m.r, a, b) <=> Beyond(n.r, a, b)
  BY <1>1, <1>2, DeletedSound
<1>5. Checked(m)
  <2>1. CASE ~n.pushdown
    <3>1. m.l = n.l /\ m.r = n.r
      BY <1>2, <2>1
    <3> QED
      BY <1>1, <1>2, <2>1, <3>1 DEF Checked, Children
  <2>2. CASE n.pushdown
    <3>1. m.l = Deleted(n.l) /\ m.r = Deleted(n.r)
      BY <1>2, <2>2
    <3>2. /\ ~IsNil(n.l) => m.l.lo = n.l.lo /\ m.l.hi = n.l.hi
          /\ ~IsNil(n.r) => m.r.lo = n.r.lo /\ m.r.hi = n.r.hi
      <4>1. /\ ~IsNil(n.l) => n.l \in NodesOver(Trees)
            /\ ~IsNil(n.r) => n.r \in NodesOver(Trees)
        BY <1>1, SoundNode
      <4> HIDE DEF Deleted
      <4>2. ~IsNil(n.l) => m.l.lo = n.l.lo /\ m.l.hi = n.l.hi
        BY <3>1, <4>1, DeletedFields
      <4>3. ~IsNil(n.r) => m.r.lo = n.r.lo /\ m.r.hi = n.r.hi
        BY <3>1, <4>1, DeletedFields
      <4> QED
        BY <4>2, <4>3
    <3>3. /\ {c.lo : c \in Children(m)} = {c.lo : c \in Children(n)}
          /\ {c.hi : c \in Children(m)} = {c.hi : c \in Children(n)}
      BY <1>4, <3>2 DEF Children
    <3>4. /\ n.deleted /\ n.treeDeleted /\ n.invalid = n.size
          /\ n.size = 1 + n.l.size + n.r.size
      BY <1>1, <2>2 DEF Checked
    <3>5. InvalidNum(m.l) = n.l.size /\ InvalidNum(m.r) = n.r.size
      BY <1>1, <3>1, DeletedSound
    <3>6. \A c \in Children(m) : c.treeDeleted
      BY <1>1, <1>4, <3>1, DeletedSound DEF Children
    <3>7. n.l.size \in Nat /\ n.r.size \in Nat
      BY <1>1, SoundHeight
    <3>8. m.invalid = (IF m.deleted THEN 1 ELSE 0) + InvalidNum(m.l) + InvalidNum(m.r)
      BY <1>2, <3>4, <3>5, <3>7
    <3>9. m.treeDeleted = (m.deleted /\ \A c \in Children(m) : c.treeDeleted)
      BY <1>2, <3>4, <3>6
    <3>10. /\ ~IsNil(m.l) => m.l.hi[m.axis] <= m.pt[m.axis]
           /\ ~IsNil(m.r) => m.pt[m.axis] <= m.r.lo[m.axis]
      BY <1>1, <1>2, <1>4, <3>2 DEF Checked
    <3> QED
      BY <1>1, <1>2, <1>4, <3>3, <3>8, <3>9, <3>10 DEF Checked
  <2> QED
    BY <2>1, <2>2
<1>6. m \in Sound /\ ~IsNil(m)
  BY <1>1, <1>2, <1>3, <1>5, SoundJoin
<1> QED
  BY <1>3, <1>4, <1>6 DEF m

-----------------------------------------------------------------------------
(* flatten() *)

LEMMA FlattenType ==
    ASSUME NEW n \in Trees
    PROVE  Flatten[n] \in Multisets
<1> DEFINE S == {t \in Trees : Flatten[t] \in Multisets}
<1>1. \A t \in Trees : Flatten[t] = FlattenOf(t, Flatten[t.l], Flatten[t.r])
  BY FlattenDef
<1>2. NoPoints \in Multisets
  BY DEF NoPoints, Multisets
<1>3. Nil \in S
  BY <1>1, <1>2, NilTree DEF FlattenOf
<1>4. ASSUME NEW h \in 0..MaxNodes, h # 0, TreesUpTo[h - 1] \subseteq S,
             NEW t \in NodesOver(TreesUpTo[h - 1])
      PROVE  t \in S
  <2>1. t.l \in S /\ t.r \in S /\ t.pt \in Points
    BY <1>4 DEF NodesOver
  <2>2. t \in TreesUpTo[h]
    BY <1>4, TreesLevels
  <2>3. TreesUpTo[h] \subseteq Trees
    BY TreesGrow, ThresholdAssumption DEF Trees
  <2>4. t \in Trees
    BY <2>2, <2>3
  <2>5. \A v, w \in Multisets : FlattenOf(t, v, w) \in Multisets
    BY <1>2, <2>1 DEF FlattenOf, Multisets, Add, AddOne
  <2> HIDE DEF FlattenOf
  <2> QED
    BY <1>1, <2>1, <2>4, <2>5
<1>5. Trees \subseteq S
  <2> HIDE DEF S
  <2> QED
    BY <1>3, <1>4, TreeInduction
<1> QED
  BY <1>5

LEMMA FlattenLabelled ==
    ASSUME NEW n \in Trees, IsNil(n) \/ n.treeDeleted
    PROVE  Flatten[n] = NoPoints
<1>1. Flatten[n] = FlattenOf(n, Flatten[n.l], Flatten[n.r])
  BY FlattenDef
<1> QED
  BY <1>1 DEF FlattenOf

\* 1 if p is the live point of node n itself.
Own(n, p) == IF ~n.deleted /\ n.pt = p THEN 1 ELSE 0

\* The live points of a node whose label is pushed down are its own and its
\* subtrees', also when all of them are gone.
LEMMA FlattenNode ==
    ASSUME NEW n \in Sound, ~IsNil(n), ~n.pushdown, NEW p \in Points
    PROVE  /\ Flatten[n][p] = Own(n, p) + Flatten[n.l][p] + Flatten[n.r][p]
           /\ Flatten[n][p] \in Nat /\ Flatten[n.l][p] \in Nat /\ Flatten[n.r][p] \in Nat
           /\ Own(n, p) \in {0, 1}
<1>1. n \in NodesOver(Trees) /\ Checked(n) /\ n \in Trees /\ n.l \in Trees /\ n.r \in Trees
  BY SoundNode, NodeFields DEF Sound
<1>2. Flatten[n] = FlattenOf(n, Flatten[n.l], Flatten[n.r])
  BY <1>1, FlattenDef
<1>3. Flatten[n] \in Multisets /\ Flatten[n.l] \in Multisets /\ Flatten[n.r] \in Multisets
  BY <1>1, FlattenType
<1>4. Flatten[n][p] \in Nat /\ Flatten[n.l][p] \in Nat /\ Flatten[n.r][p] \in Nat
  BY <1>3 DEF Multisets
<1>5. CASE n.treeDeleted
  <2>1. n.deleted /\ \A c \in Children(n) : c.treeDeleted
    BY <1>1, <1>5 DEF Checked
  <2>2. /\ IsNil(n.l) \/ n.l.treeDeleted
        /\ IsNil(n.r) \/ n.r.treeDeleted
    BY <2>1 DEF Children
  <2>3. /\ Flatten[n] = NoPoints /\ Flatten[n.l] = NoPoints /\ Flatten[n.r] = NoPoints
    BY <1>1, <1>5, <2>2, FlattenLabelled
  <2>4. NoPoints[p] = 0
    BY DEF NoPoints
  <2> QED
    BY <1>4, <2>1, <2>3, <2>4 DEF Own
<1>6. CASE ~n.treeDeleted
  <2>1. Flatten[n] = IF n.deleted THEN Add(Flatten[n.l], Flatten[n.r])
                     ELSE AddOne(Add(Flatten[n.l], Flatten[n.r]), n.pt)
    BY <1>2, <1>6 DEF FlattenOf
  <2>2. Add(Flatten[n.l], Flatten[n.r])[p] = Flatten[n.l][p] + Flatten[n.r][p]
    BY DEF Add
  <2>3. n.pt \in Points /\ n.deleted \in BOOLEAN
    BY <1>1, NodeFields
  <2>4. AddOne(Add(Flatten[n.l], Flatten[n.r]), n.pt)[p]
            = IF n.pt = p THEN Flatten[n.l][p] + Flatten[n.r][p] + 1
              ELSE Flatten[n.l][p] + Flatten[n.r][p]
    BY <2>2, <2>3 DEF AddOne, Add
  <2> QED
    BY <1>4, <2>1, <2>2, <2>3, <2>4 DEF Own
<1> QED
  BY <1>4, <1>5, <1>6 DEF Own

LEMMA FlattenDeleted ==
    ASSUME NEW n \in Sound
    PROVE  Flatten[Deleted(n)] = NoPoints
<1>1. Deleted(n) \in Sound /\ (~IsNil(n) => Deleted(n).treeDeleted)
  BY DeletedSound
<1>2. IsNil(n) => IsNil(Deleted(n))
  BY DeletedSound
<1> QED
  BY <1>1, <1>2, FlattenLabelled DEF Sound

\* A pushdown changes no live point.
LEMMA FlattenPushDown ==
    ASSUME NEW n \in Sound, ~IsNil(n)
    PROVE  Flatten[PushDown(n)] = Flatten[n]
<1>1. CASE ~n.pushdown
  BY <1>1 DEF PushDown
<1>2. CASE n.pushdown
  <2>1. n \in NodesOver(Trees) /\ Checked(n) /\ PushDown(n) \in Sound
    BY SoundNode, PushDownSound
  <2>2. n.treeDeleted /\ PushDown(n).treeDeleted
    BY <1>2, <2>1, PushDownFields DEF Checked
  <2> QED
    BY <2>1, <2>2, FlattenLabelled DEF Sound
<1> QED
  BY <1>1, <1>2

\* A live point lies in the box of every subtree it is below.
LEMMA LiveInBox ==
    ASSUME NEW n \in Sound, NEW p \in Points, Flatten[n][p] > 0, NEW a \in Axes, NEW b \in Int
    PROVE  /\ Below(n, a, b) => p[a] <= b
           /\ Beyond(n, a, b) => b <= p[a]
           /\ ~IsNil(n)
<1> DEFINE In(t) == /\ Below(t, a, b) => p[a] <= b
                    /\ Beyond(t, a, b) => b <= p[a]
                    /\ ~IsNil(t)
           S == {t \in Sound : Flatten[t][p] > 0 => In(t)}
<1>1. NoPoints[p] = 0
  BY DEF NoPoints
<1>2. Nil \in S
  <2>1. Flatten[Nil] = NoPoints
    BY NilTree, FlattenLabelled
  <2> QED
    BY <1>1, <2>1, SoundNil
<1>3. ASSUME NEW t \in Sound, ~IsNil(t), \A c \in Sound : c.size < t.size => c \in S
      PROVE  t \in S
  <2>1. SUFFICES ASSUME Flatten[t][p] > 0 PROVE In(t)
    BY DEF S
  <2>2. ~t.pushdown
    <3>1. SUFFICES ASSUME t.pushdown PROVE FALSE
      OBVIOUS
    <3>2. t.treeDeleted /\ t \in Trees
      BY <1>3, <3>1, SoundNode DEF Checked, Sound
    <3> QED
      BY <1>1, <2>1, <3>2, FlattenLabelled
  <2>3. /\ t.l \in Sound /\ t.r \in Sound
        /\ t.l.size \in Nat /\ t.r.size \in Nat /\ t.size = 1 + t.l.size + t.r.size
    BY <1>3, SoundNode
  <2>4. t.l \in S /\ t.r \in S
    BY <1>3, <2>3
  <2>5. /\ Flatten[t][p] = Own(t, p) + Flatten[t.l][p] + Flatten[t.r][p]
        /\ Flatten[t.l][p] \in Nat /\ Flatten[t.r][p] \in Nat
    BY <1>3, <2>2, FlattenNode
  <2>6. /\ Below(t, a, b) <=> t.pt[a] <= b /\ Below(t.l, a, b) /\ Below(t.r, a, b)
        /\ Beyond(t, a, b) <=> b <= t.pt[a] /\ Beyond(t.l, a, b) /\ Beyond(t.r, a, b)
    BY <1>3, SoundBox
  <2>7. t.pt = p \/ Flatten[t.l][p] > 0 \/ Flatten[t.r][p] > 0
    BY <2>1, <2>5 DEF Own
  <2> QED
    BY <1>3, <2>4, <2>6, <2>7
<1>4. Sound \subseteq S
  <2> HIDE DEF S
  <2> QED
    BY <1>2, <1>3, SoundInduction
<1> QED
  BY <1>4

-----------------------------------------------------------------------------
(* How many points there are *)

Copies(b) == UNION {{p} \X (1..b[p]) : p \in Points}

LEMMA CopiesAre ==
    ASSUME NEW b \in Multisets
    PROVE  /\ \A x : x \in Copies(b) <=> \E p \in Points : \E i \in 1..b[p] : x = <<p, i>>
           /\ IsFiniteSet(Copies(b))
           /\ Total(b) = Cardinality(Copies(b))
           /\ Total(b) \in Nat
<1>1. \A x : x \in Copies(b) <=> \E p \in Points : \E i \in 1..b[p] : x = <<p, i>>
  BY DEF Copies
<1>2. IsFiniteSet(Copies(b))
  <2> DEFINE C(q) == {q} \X (1..b[q])
             X == {C(q) : q \in Points}
             f == [q \in Points |-> C(q)]
  <2>1. ASSUME NEW p \in Points PROVE IsFiniteSet(C(p))
    <3>1. b[p] \in Nat
      BY DEF Multisets
    <3>2. IsFiniteSet({p})
      BY FS_Singleton
    <3>3. 1 \in Int /\ b[p] \in Int
      BY <3>1
    <3>4. IsFiniteSet(1..b[p])
      BY <3>3, FS_Interval
    <3> QED
      BY <3>2, <3>4, FS_Product
  <2>2. IsFiniteSet(X)
    <3>1. f \in Surjection(Points, X)
      BY DEF Surjection
    <3> QED
      BY <3>1, FS_Surjection, GeometryAssumption
  <2>3. IsFiniteSet(UNION X)
    <3>1. \A T \in X : IsFiniteSet(T)
      BY <2>1
    <3> HIDE DEF X
    <3> QED
      BY <2>2, <3>1, FS_UNION
  <2> QED
    BY <2>3 DEF Copies
<1>3. Total(b) = Cardinality(Copies(b))
  BY DEF Total, Copies
<1> QED
  BY <1>1, <1>2, <1>3, FS_CardinalityType

LEMMA TotalNone ==
    ASSUME NEW b \in Multisets
    PROVE  /\ Total(NoPoints) = 0
           /\ (Total(b) = 0) <=> (b = NoPoints)
           /\ \A p \in Points : b[p] > 0 => Total(b) > 0
<1>1. NoPoints \in Multisets /\ \A p \in Points : NoPoints[p] = 0
  BY DEF NoPoints, Multisets
<1>2. Copies(NoPoints) = {}
  BY <1>1, CopiesAre
<1>3. Total(NoPoints) = 0
  BY <1>1, <1>2, CopiesAre, FS_EmptySet
<1>4. ASSUME Total(b) = 0 PROVE b = NoPoints
  <2>1. Copies(b) = {}
    BY <1>4, CopiesAre, FS_EmptySet
  <2>2. ASSUME NEW p \in Points PROVE b[p] = 0
    <3>1. <<p, 1>> \notin Copies(b)
      BY <2>1
    <3>2. 1 \notin 1..b[p]
      BY <3>1, CopiesAre
    <3> QED
      BY <3>2 DEF Multisets
  <2> QED
    BY <1>1, <2>2 DEF Multisets
<1>5. Total(b) \in Nat
  BY CopiesAre
<1> QED
  BY <1>1, <1>3, <1>4, <1>5

LEMMA TotalAddOne ==
    ASSUME NEW b \in Multisets, NEW p \in Points
    PROVE  AddOne(b, p) \in Multisets /\ Total(AddOne(b, p)) = Total(b) + 1
<1> DEFINE c == AddOne(b, p)
<1>1. b[p] \in Nat
  BY DEF Multisets
<1>2. c \in Multisets /\ c[p] = b[p] + 1 /\ \A q \in Points : q # p => c[q] = b[q]
  BY DEF AddOne, Multisets
<1> HIDE DEF c
<1>3. ASSUME NEW x
      PROVE  x \in Copies(c) <=> x \in Copies(b) \union {<<p, b[p] + 1>>}
  <2>1. ASSUME x \in Copies(c) PROVE x \in Copies(b) \union {<<p, b[p] + 1>>}
    <3>0. PICK q \in Points : \E i \in 1..c[q] : x = <<q, i>>
      BY <1>2, <2>1, CopiesAre
    <3>1. PICK i \in 1..c[q] : x = <<q, i>>
      BY <3>0
    <3>2. CASE q = p /\ i = b[p] + 1
      BY <3>1, <3>2
    <3>3. CASE ~(q = p /\ i = b[p] + 1)
      <4>1. i \in 1..b[q]
        BY <1>1, <1>2, <3>1, <3>3
      <4> QED
        BY <3>1, <4>1, CopiesAre
    <3> QED
      BY <3>2, <3>3
  <2>2. ASSUME x \in Copies(b) PROVE x \in Copies(c)
    <3>0. PICK q \in Points : \E i \in 1..b[q] : x = <<q, i>>
      BY <2>2, CopiesAre
    <3>1. PICK i \in 1..b[q] : x = <<q, i>>
      BY <3>0
    <3>2. b[q] \in Nat
      BY DEF Multisets
    <3>3. i \in 1..c[q]
      BY <1>2, <3>1, <3>2
    <3> QED
      BY <1>2, <3>1, <3>3, CopiesAre
  <2>3. <<p, b[p] + 1>> \in Copies(c)
    <3>1. b[p] + 1 \in 1..c[p]
      BY <1>1, <1>2
    <3> QED
      BY <1>2, <3>1, CopiesAre
  <2> QED
    BY <2>1, <2>2, <2>3
<1>4. Copies(c) = Copies(b) \union {<<p, b[p] + 1>>}
  BY <1>3
<1>5. <<p, b[p] + 1>> \notin Copies(b)
  <2>1. SUFFICES ASSUME NEW q \in Points, NEW i \in 1..b[q], <<p, b[p] + 1>> = <<q, i>>
                 PROVE  FALSE
    BY CopiesAre
  <2> QED
    BY <1>1, <2>1
<1>6. IsFiniteSet(Copies(b))
  BY CopiesAre
<1>7. Cardinality(Copies(c)) = Cardinality(Copies(b)) + 1
  BY <1>4, <1>5, <1>6, FS_AddElement
<1> QED
  BY <1>2, <1>7, CopiesAre DEF c


\* Every multiset of points is built up point by point.
LEMMA MultisetInduction ==
    ASSUME NEW S, NoPoints \in S,
           \A b \in Multisets, p \in Points : b \in S => AddOne(b, p) \in S
    PROVE  Multisets \subseteq S
<1> SUFFICES ASSUME NEW c \in Multisets PROVE c \in S
  OBVIOUS
<1> DEFINE m == Total(c)
           K == {k \in 0..m : \A b \in Multisets : Total(b) = k => b \in S}
<1>1. m \in Nat
  BY CopiesAre
<1>2. 0 \in K
  <2>1. ASSUME NEW b \in Multisets, Total(b) = 0 PROVE b \in S
    BY <2>1, TotalNone
  <2> QED
    BY <1>1, <2>1
<1>3. ASSUME NEW k \in 0..m, k < m, k \in K PROVE k + 1 \in K
  <2>1. ASSUME NEW b \in Multisets, Total(b) = k + 1 PROVE b \in S
    <3>1. b # NoPoints
      <4>1. k + 1 # 0
        BY <1>1
      <4> QED
        BY <2>1, <4>1, TotalNone
    <3>2. PICK p \in Points : b[p] # 0
      BY <3>1 DEF Multisets, NoPoints
    <3> DEFINE c1 == [b EXCEPT ![p] = @ - 1]
    <3>3. c1 \in Multisets /\ AddOne(c1, p) = b
      <4>1. b[p] \in Nat /\ b[p] - 1 \in Nat
        BY <3>2 DEF Multisets
      <4>2. c1 \in Multisets /\ c1[p] = b[p] - 1 /\ \A q \in Points : q # p => c1[q] = b[q]
        BY <4>1 DEF Multisets
      <4> HIDE DEF c1
      <4>3. \A q \in Points : AddOne(c1, p)[q] = b[q]
        BY <4>1, <4>2 DEF AddOne, Multisets
      <4> QED
        BY <4>2, <4>3 DEF AddOne, Multisets
    <3> HIDE DEF c1
    <3>4. Total(c1) = k
      <4>1. Total(c1) \in Nat /\ Total(b) = Total(c1) + 1
        BY <3>3, CopiesAre, TotalAddOne
      <4> QED
        BY <1>1, <2>1, <4>1
    <3>5. c1 \in S
      BY <1>3, <3>3, <3>4
    <3> QED
      BY <3>3, <3>5
  <2> QED
    BY <1>1, <1>3, <2>1
<1>4. m \in K
  <2> HIDE DEF K, m
  <2>1. 0..m \subseteq K
    BY <1>1, <1>2, <1>3, Induct
  <2> QED
    BY <1>1, <2>1
<1> QED
  BY <1>4

LEMMA TotalAdd ==
    ASSUME NEW b \in Multisets, NEW c \in Multisets
    PROVE  Add(b, c) \in Multisets /\ Total(Add(b, c)) = Total(b) + Total(c)
<1> DEFINE S == {d \in Multisets : Add(b, d) \in Multisets
                                   /\ Total(Add(b, d)) = Total(b) + Total(d)}
<1>1. NoPoints \in S
  <2>1. NoPoints \in Multisets /\ Add(b, NoPoints) = b
    BY DEF NoPoints, Add, Multisets
  <2>2. Total(NoPoints) = 0 /\ Total(b) \in Nat
    BY TotalNone, CopiesAre
  <2> QED
    BY <2>1, <2>2
<1>2. ASSUME NEW d \in Multisets, NEW p \in Points, d \in S PROVE AddOne(d, p) \in S
  <2>1. AddOne(d, p) \in Multisets /\ Total(AddOne(d, p)) = Total(d) + 1
    BY TotalAddOne
  <2>2. Add(b, AddOne(d, p)) = AddOne(Add(b, d), p)
    <3>1. \A q \in Points : b[q] \in Nat /\ d[q] \in Nat
      BY DEF Multisets
    <3>2. \A q \in Points : Add(b, AddOne(d, p))[q] = AddOne(Add(b, d), p)[q]
      BY <3>1 DEF Add, AddOne, Multisets
    <3> QED
      BY <3>2 DEF Add, AddOne
  <2>3. AddOne(Add(b, d), p) \in Multisets
        /\ Total(AddOne(Add(b, d), p)) = Total(Add(b, d)) + 1
    BY <1>2, TotalAddOne
  <2>4. Total(b) \in Nat /\ Total(d) \in Nat
    BY CopiesAre
  <2> QED
    BY <1>2, <2>1, <2>2, <2>3, <2>4
<1> HIDE DEF S
<1>3. Multisets \subseteq S
  BY <1>1, <1>2, MultisetInduction
<1> QED
  BY <1>3 DEF S

\* Taking a part away takes its points away.
LEMMA TotalMinus ==
    ASSUME NEW b \in Multisets, NEW h \in Multisets, \A p \in Points : h[p] <= b[p]
    PROVE  Minus(b, h) \in Multisets /\ Total(Minus(b, h)) = Total(b) - Total(h)
<1>1. Minus(b, h) \in Multisets /\ Add(h, Minus(b, h)) = b
  BY DEF Minus, Add, Multisets
<1>2. Total(b) = Total(h) + Total(Minus(b, h))
  BY <1>1, TotalAdd
<1>3. Total(b) \in Nat /\ Total(h) \in Nat /\ Total(Minus(b, h)) \in Nat
  BY <1>1, CopiesAre
<1> QED
  BY <1>1, <1>2, <1>3

\* The sizes and the counts of deleted nodes agree with the live points.
LEMMA SoundSize ==
    ASSUME NEW n \in Sound
    PROVE  n.size - InvalidNum(n) = Total(Flatten[n])
<1> DEFINE S == {t \in Sound : t.size - InvalidNum(t) = Total(Flatten[t])}
<1>1. Nil \in S
  <2>1. IsNil(Nil) /\ Nil \in Trees
    BY NilTree
  <2>2. Flatten[Nil] = NoPoints /\ NoPoints \in Multisets
    BY <2>1, FlattenLabelled DEF NoPoints, Multisets
  <2>3. Total(Flatten[Nil]) = 0
    BY <2>2, TotalNone
  <2>4. InvalidNum(Nil) = 0 /\ Nil.size = 0
    BY <2>1 DEF InvalidNum, IsNil
  <2> QED
    BY <2>3, <2>4, SoundNil
<1>2. ASSUME NEW t \in Sound, ~IsNil(t), \A c \in Sound : c.size < t.size => c \in S
      PROVE  t \in S
  <2>1. /\ t \in NodesOver(Trees) /\ t \in Trees /\ Checked(t)
        /\ t.l \in Sound /\ t.r \in Sound
        /\ t.l.size \in Nat /\ t.r.size \in Nat /\ t.size = 1 + t.l.size + t.r.size
    BY <1>2, SoundNode DEF Sound
  <2>2. t.l \in S /\ t.r \in S
    BY <1>2, <2>1
  <2>3. InvalidNum(t) = t.invalid
    BY <1>2 DEF InvalidNum
  <2>4. CASE t.pushdown
    <3>1. t.invalid = t.size /\ Flatten[t] = NoPoints
      BY <2>1, <2>4, FlattenLabelled DEF Checked
    <3>2. NoPoints \in Multisets
      BY DEF NoPoints, Multisets
    <3>3. Total(NoPoints) = 0
      BY <3>2, TotalNone
    <3> QED
      BY <2>1, <2>3, <3>1, <3>3
  <2>5. CASE ~t.pushdown
    <3> DEFINE f == Flatten[t]
               s == Add(Flatten[t.l], Flatten[t.r])
    <3>1. /\ Flatten[t.l] \in Multisets /\ Flatten[t.r] \in Multisets /\ f \in Multisets
      BY <2>1, FlattenType DEF Sound
    <3>2. s \in Multisets /\ Total(s) = Total(Flatten[t.l]) + Total(Flatten[t.r])
      BY <3>1, TotalAdd
    <3>3. \A p \in Points : /\ f[p] = Own(t, p) + s[p]
                            /\ s[p] \in Nat
      BY <1>2, <2>5, <3>1, FlattenNode DEF Add, Multisets
    <3>4. t.pt \in Points
      BY <2>1, NodeFields
    <3> HIDE DEF f, s
    <3>5. Total(f) = (IF t.deleted THEN 0 ELSE 1) + Total(s)
      <4>0. Total(s) \in Nat
        BY <3>2, CopiesAre
      <4>1. CASE t.deleted
        <5>1. f = s
          BY <3>1, <3>2, <3>3, <4>1 DEF Own, Multisets
        <5> QED
          BY <4>0, <4>1, <5>1
      <4>2. CASE ~t.deleted
        <5>1. \A p \in Points : f[p] = AddOne(s, t.pt)[p]
          BY <3>2, <3>3, <3>4, <4>2 DEF Own, Multisets, AddOne
        <5>2. f = AddOne(s, t.pt)
          BY <3>1, <3>2, <5>1 DEF AddOne, Multisets
        <5> QED
          BY <3>2, <3>4, <4>0, <4>2, <5>2, TotalAddOne
      <4> QED
        BY <4>1, <4>2
    <3>6. t.invalid = (IF t.deleted THEN 1 ELSE 0) + InvalidNum(t.l) + InvalidNum(t.r)
      BY <2>1, <2>5 DEF Checked
    <3>7. InvalidNum(t.l) \in Nat /\ InvalidNum(t.r) \in Nat
      BY <2>1, SizeType DEF Sound
    <3>8. /\ t.l.size - InvalidNum(t.l) = Total(Flatten[t.l])
          /\ t.r.size - InvalidNum(t.r) = Total(Flatten[t.r])
      BY <2>2
    <3>9. t.size - InvalidNum(t) = Total(f)
      BY <2>1, <2>3, <3>2, <3>5, <3>6, <3>7, <3>8
    <3> QED
      BY <1>2, <3>9 DEF f
  <2> QED
    BY <2>4, <2>5
<1>3. Sound \subseteq S
  <2> HIDE DEF S
  <2> QED
    BY <1>1, <1>2, SoundInduction
<1> QED
  BY <1>3

-----------------------------------------------------------------------------
(* Balanced construction *)

\* build_range() of up to k points, given the builds of up to k - 1.
BuildOf(k, builds) ==
    [b \in Multisets |->
        LET present == {p \in Points : b[p] > 0}
            axis == SplitAxis(present)
        IN  IF k = 0 \/ present = {} THEN {Nil}
            ELSE UNION {UNION {
                    {Join(m, axis, left, right) :
                        left \in builds[h],
                        right \in builds[Minus(Minus(b, h), AddOne(NoPoints, m))]} :
                    h \in FirstHalves(b, axis, m)} : m \in present}]

LEMMA BuildDef ==
    BuildUpTo = [k \in 0..MaxNodes |-> BuildOf(k, BuildUpTo[k - 1])]
<1> DEFINE Solves(f, m) == f = [k \in 0..m |-> BuildOf(k, f[k - 1])]
           S == {m \in 0..MaxNodes : \E f : Solves(f, m)}
<1>1. MaxNodes \in Nat
  BY ThresholdAssumption
<1>2. \A x, y : BuildOf(0, x) = BuildOf(0, y)
  BY DEF BuildOf
<1> HIDE DEF BuildOf
<1>3. 0 \in S
  <2> DEFINE f == [k \in 0..0 |-> BuildOf(0, 0)]
  <2>1. Solves(f, 0)
    <3>1. \A k \in 0..0 : BuildOf(k, f[k - 1]) = BuildOf(0, 0)
      BY <1>2
    <3> QED
      BY <3>1
  <2> HIDE DEF Solves, f
  <2> QED
    BY <1>1, <2>1
<1>4. ASSUME NEW m \in 0..MaxNodes, m < MaxNodes, m \in S
      PROVE  m + 1 \in S
  <2>1. PICK f : Solves(f, m)
    BY <1>4
  <2> DEFINE g == [k \in 0..(m + 1) |-> BuildOf(k, f[k - 1])]
  <2>2. ASSUME NEW k \in 0..m
        PROVE  g[k] = f[k]
    <3>1. f[k] = BuildOf(k, f[k - 1])
      BY <2>1
    <3>2. k \in 0..(m + 1)
      BY <1>1
    <3> QED
      BY <3>1, <3>2
  <2>3. ASSUME NEW k \in 0..(m + 1)
        PROVE  BuildOf(k, f[k - 1]) = BuildOf(k, g[k - 1])
    <3>1. CASE k = 0
      BY <1>2, <3>1
    <3>2. CASE k # 0
      <4>1. k - 1 \in 0..m
        BY <1>1, <3>2
      <4> HIDE DEF g
      <4> QED
        BY <2>2, <4>1
    <3> QED
      BY <3>1, <3>2
  <2>4. Solves(g, m + 1)
    BY <2>3
  <2>5. m + 1 \in 0..MaxNodes
    BY <1>1, <1>4
  <2> HIDE DEF Solves, g
  <2> QED
    BY <2>4, <2>5
<1>5. MaxNodes \in S
  <2> HIDE DEF S
  <2>1. 0..MaxNodes \subseteq S
    BY <1>1, <1>3, <1>4, Induct
  <2> QED
    BY <1>1, <2>1
<1>6. \E f : Solves(f, MaxNodes)
  BY <1>5
<1>7. BuildUpTo = CHOOSE f : f = [k \in 0..MaxNodes |-> BuildOf(k, f[k - 1])]
  BY DEF BuildUpTo, BuildOf
<1> QED
  BY <1>6, <1>7

\* The split axis of points is an axis.
LEMMA SplitAxisType ==
    ASSUME NEW P \in SUBSET Points, P # {}
    PROVE  SplitAxis(P) \in Axes
<1> DEFINE spread == [a \in Axes |-> High(P)[a] - Low(P)[a]]
           T == {a \in Axes : \A o \in Axes : spread[o] <= spread[a]}
<1>1. P \in SUBSET Corners /\ IsFiniteSet(P)
  BY GeometryAssumption, FS_Subset
<1>2. Low(P) \in Corners /\ High(P) \in Corners
  BY <1>1, Hull
<1>3. spread \in [Axes -> Int]
  BY <1>2 DEF Corners
<1>4. IsFiniteSet(Axes) /\ Axes # {}
  <2>1. 1 \in Int /\ Dim \in Int /\ Dim >= 1
    BY GeometryAssumption
  <2>2. IsFiniteSet(1..Dim)
    BY <2>1, FS_Interval
  <2> QED
    BY <2>1, <2>2 DEF Axes
<1> HIDE DEF spread
<1>5. T # {}
  BY <1>3, <1>4, Extremes
<1>6. T \subseteq Nat
  BY DEF Axes
<1>7. \E m \in T : \A n \in T : m <= n
  <2> HIDE DEF T
  <2> QED
    BY <1>5, <1>6, LeastNat
<1>8. Min(T) \in T
  <2> HIDE DEF T
  <2> QED
    BY <1>7 DEF Min
<1> QED
  BY <1>8 DEF SplitAxis, spread

\* Balanced in terms of the subtrees' results.
BalancedOf(n, left, right) ==
    \/ IsNil(n)
    \/ n.treeDeleted
    \/ ~NeedsRebuild(n) /\ left /\ right

LEMMA BalancedDef ==
    Balanced = [n \in Trees |-> BalancedOf(n, Balanced[n.l], Balanced[n.r])]
<1> DEFINE Solves(f, h) == f = [n \in TreesUpTo[h] |-> BalancedOf(n, f[n.l], f[n.r])]
           S == {h \in 0..MaxNodes : \E f : Solves(f, h)}
<1>1. MaxNodes \in Nat
  BY ThresholdAssumption
<1>2. \A x, y, v, w : BalancedOf(Nil, x, y) = BalancedOf(Nil, v, w)
  BY NilTree DEF BalancedOf
<1> HIDE DEF BalancedOf
<1>3. 0 \in S
  <2> DEFINE f == [n \in TreesUpTo[0] |-> BalancedOf(Nil, 0, 0)]
  <2>1. Solves(f, 0)
    BY <1>2, TreesLevels
  <2> HIDE DEF Solves, f
  <2> QED
    BY <1>1, <2>1
<1>4. ASSUME NEW h \in 0..MaxNodes, h < MaxNodes, h \in S
      PROVE  h + 1 \in S
  <2>1. PICK f : Solves(f, h)
    BY <1>4
  <2>2. h + 1 \in 0..MaxNodes /\ (h + 1) - 1 = h /\ h <= h + 1
    BY <1>1, <1>4
  <2>3. TreesUpTo[h] \subseteq TreesUpTo[h + 1]
    BY <2>2, TreesGrow
  <2> DEFINE g == [n \in TreesUpTo[h + 1] |-> BalancedOf(n, f[n.l], f[n.r])]
  <2>4. ASSUME NEW n \in TreesUpTo[h]
        PROVE  g[n] = f[n]
    <3>1. f[n] = BalancedOf(n, f[n.l], f[n.r])
      BY <2>1
    <3> QED
      BY <2>3, <3>1
  <2>5. ASSUME NEW n \in TreesUpTo[h + 1]
        PROVE  BalancedOf(n, f[n.l], f[n.r]) = BalancedOf(n, g[n.l], g[n.r])
    <3>1. CASE n = Nil
      BY <1>2, <3>1
    <3>2. CASE n \in NodesOver(TreesUpTo[h])
      <4>1. n.l \in TreesUpTo[h] /\ n.r \in TreesUpTo[h]
        BY <3>2 DEF NodesOver
      <4> HIDE DEF g
      <4> QED
        BY <2>4, <4>1
    <3> QED
      BY <2>2, <3>1, <3>2, TreeCases
  <2>6. Solves(g, h + 1)
    BY <2>5
  <2> HIDE DEF Solves, g
  <2> QED
    BY <2>2, <2>6
<1>5. MaxNodes \in S
  <2> HIDE DEF S
  <2>1. 0..MaxNodes \subseteq S
    BY <1>1, <1>3, <1>4, Induct
  <2> QED
    BY <1>1, <2>1
<1>6. \E f : Solves(f, MaxNodes)
  BY <1>5
<1> QED
  BY <1>6 DEF Balanced, BalancedOf, Trees

LEMMA BalancedNode ==
    ASSUME NEW n \in Trees
    PROVE  Balanced[n] <=> \/ IsNil(n)
                           \/ n.treeDeleted
                           \/ ~NeedsRebuild(n) /\ Balanced[n.l] /\ Balanced[n.r]
<1> HIDE DEF Balanced
<1>1. Balanced[n] = BalancedOf(n, Balanced[n.l], Balanced[n.r])
  <2> HIDE DEF BalancedOf
  <2>1. PICK f : f = Balanced
    OBVIOUS
  <2>2. f = [t \in Trees |-> BalancedOf(t, f[t.l], f[t.r])]
    BY <2>1, BalancedDef
  <2>3. f[n] = BalancedOf(n, f[n.l], f[n.r])
    BY <2>2
  <2> QED
    BY <2>1, <2>3
<1> QED
  BY <1>1 DEF BalancedOf

LEMMA MaxOfTwo ==
    ASSUME NEW a \in Int, NEW b \in Int
    PROVE  Max({a, b}) = IF a <= b THEN b ELSE a
<1>1. \E x \in {a, b} : \A y \in {a, b} : x >= y
  OBVIOUS
<1>2. /\ Max({a, b}) \in {a, b}
      /\ \A y \in {a, b} : Max({a, b}) >= y
  BY <1>1 DEF Max
<1> QED
  BY <1>2

\* The slots a rebuild has been started at.
Flags(n) == {q \in Paths(n) : At(n, q).underRebuild}

LEMMA FlagsNil == Flags(Nil) = {}
  BY NodesOfNil DEF Flags

LEMMA FlagsNode ==
    ASSUME NEW n \in Trees, ~IsNil(n)
    PROVE  /\ <<>> \in Flags(n) <=> n.underRebuild
           /\ \A q \in Routes : /\ <<"l">> \o q \in Flags(n) <=> q \in Flags(n.l)
                                /\ <<"r">> \o q \in Flags(n) <=> q \in Flags(n.r)
           /\ \A q \in Flags(n) : \/ q = <<>>
                                  \/ \E u \in Flags(n.l) : q = <<"l">> \o u
                                  \/ \E u \in Flags(n.r) : q = <<"r">> \o u
           /\ Flags(n) = {} <=> ~n.underRebuild /\ Flags(n.l) = {} /\ Flags(n.r) = {}
           /\ Flags(n) \subseteq Routes
<1> HIDE DEF Paths, At
<1>1. n.l \in Trees /\ n.r \in Trees
  BY TreeNode, NodeFields
<1>2. Paths(n) \subseteq Routes /\ Paths(n.l) \subseteq Routes /\ Paths(n.r) \subseteq Routes
  BY <1>1, PathsType
<1>3. <<>> \in Flags(n) <=> n.underRebuild
  BY NodesBelow DEF Flags
<1>4. ASSUME NEW q \in Routes
      PROVE  /\ <<"l">> \o q \in Flags(n) <=> q \in Flags(n.l)
             /\ <<"r">> \o q \in Flags(n) <=> q \in Flags(n.r)
  BY NodesBelow DEF Flags
<1>5. ASSUME NEW q \in Flags(n)
      PROVE  \/ q = <<>>
             \/ \E u \in Flags(n.l) : q = <<"l">> \o u
             \/ \E u \in Flags(n.r) : q = <<"r">> \o u
  BY PathCases DEF Flags
<1>6. /\ Flags(n) \subseteq Routes /\ Flags(n.l) \subseteq Routes /\ Flags(n.r) \subseteq Routes
  BY <1>2 DEF Flags
<1> HIDE DEF Flags
<1> QED
  BY <1>3, <1>4, <1>5, <1>6

\* What comes before the middle element is half of the points, none of them
\* beyond it, and leaves the middle element and none that is below it.
LEMMA HalvesOf ==
    ASSUME NEW b \in Multisets, NEW axis \in Axes, NEW m \in Points, b[m] > 0,
           NEW h \in FirstHalves(b, axis, m),
           NEW rest, rest = Minus(Minus(b, h), AddOne(NoPoints, m))
    PROVE  /\ h \in Multisets /\ rest \in Multisets
           /\ \A p \in Points : b[p] = (IF p = m THEN 1 ELSE 0) + h[p] + rest[p]
           /\ \A p \in Points : h[p] > 0 => p[axis] <= m[axis]
           /\ \A p \in Points : rest[p] > 0 => m[axis] <= p[axis]
           /\ Total(h) = Total(b) \div 2
           /\ Total(b) = 1 + Total(h) + Total(rest)
           /\ Total(h) \in Nat /\ Total(rest) \in Nat
<1>1. \A p \in Points : b[p] \in Nat /\ p[axis] \in Int
  BY GeometryAssumption DEF Multisets, Corners
<1>2. Total(b) \in Nat
  BY CopiesAre
<1> DEFINE half == Total(b) \div 2
           ties == {p \in Points : p[axis] = m[axis]}
           left(t) == [p \in Points |-> IF p \in ties THEN t[p]
                                        ELSE IF p[axis] < m[axis] THEN b[p] ELSE 0]
<1>3. PICK t \in [ties -> 0..half] : h = left(t)
  BY DEF FirstHalves
<1>4. /\ Total(h) = half
      /\ \A p \in ties : h[p] <= b[p] - (IF p = m THEN 1 ELSE 0)
  BY DEF FirstHalves
<1>5. half \in Nat
  BY <1>2
<1>6. m \in ties
  OBVIOUS
<1>7. ASSUME NEW p \in Points
      PROVE  /\ h[p] \in Nat
             /\ h[p] + (IF p = m THEN 1 ELSE 0) <= b[p]
             /\ h[p] > 0 => p[axis] <= m[axis]
             /\ h[p] = b[p] \/ m[axis] <= p[axis]
  <2>1. CASE p \in ties
    <3>1. h[p] = t[p] /\ t[p] \in 0..half
      BY <1>3, <2>1
    <3>2. h[p] \in Nat
      BY <1>5, <3>1
    <3> HIDE DEF half
    <3> QED
      BY <1>1, <1>4, <2>1, <3>2
  <2>2. CASE p \notin ties
    <3>1. h[p] = IF p[axis] < m[axis] THEN b[p] ELSE 0
      BY <1>3, <2>2
    <3>2. p # m
      BY <1>6, <2>2
    <3> QED
      BY <1>1, <2>2, <3>1, <3>2
  <2> QED
    BY <2>1, <2>2
<1>8. h \in Multisets
  <2>1. h = [p \in Points |-> h[p]]
    BY <1>3
  <2> QED
    BY <1>7, <2>1 DEF Multisets
<1>9. \A p \in Points : rest[p] = b[p] - h[p] - (IF p = m THEN 1 ELSE 0)
  BY <1>1, <1>7 DEF Minus, AddOne, NoPoints
<1>10. rest \in Multisets
  <2>1. rest = [p \in Points |-> rest[p]]
    BY DEF Minus
  <2>2. \A p \in Points : rest[p] \in Nat
    BY <1>1, <1>7, <1>9
  <2> QED
    BY <2>1, <2>2 DEF Multisets
<1>11. \A p \in Points : b[p] = (IF p = m THEN 1 ELSE 0) + h[p] + rest[p]
  BY <1>1, <1>7, <1>9
<1>12. \A p \in Points : rest[p] > 0 => m[axis] <= p[axis]
  BY <1>1, <1>7, <1>9
<1>13. Total(b) = 1 + Total(h) + Total(rest)
  <2> DEFINE s == Add(h, rest)
  <2>1. s \in Multisets /\ Total(s) = Total(h) + Total(rest)
    BY <1>8, <1>10, TotalAdd
  <2>2. \A p \in Points : s[p] = h[p] + rest[p]
    BY DEF Add
  <2> HIDE DEF s
  <2>3. \A p \in Points : AddOne(s, m)[p] = b[p]
    <3>1. \A p \in Points : h[p] \in Nat /\ rest[p] \in Nat /\ s[p] \in Nat
      BY <1>8, <1>10, <2>1 DEF Multisets
    <3>2. \A p \in Points : AddOne(s, m)[p] = s[p] + (IF p = m THEN 1 ELSE 0)
      BY <2>1, <3>1 DEF AddOne, Multisets
    <3> QED
      BY <1>11, <2>2, <3>1, <3>2
  <2>4. AddOne(s, m) = b
    BY <2>1, <2>3 DEF AddOne, Multisets
  <2>5. Total(h) \in Nat /\ Total(rest) \in Nat
    BY <1>8, <1>10, CopiesAre
  <2> QED
    BY <2>1, <2>4, <2>5, TotalAddOne
<1> QED
  BY <1>4, <1>7, <1>8, <1>10, <1>11, <1>12, <1>13, CopiesAre

\* A tree of exactly the points b: without deleted nodes or flags, no larger
\* than its points, and balanced.
Built(b) ==
    {t \in Sound :
        /\ Flatten[t] = b
        /\ t.size = Total(b)
        /\ Flags(t) = {}
        /\ \A a \in Axes, v \in Int :
               /\ (\A p \in Points : b[p] > 0 => p[a] <= v) => Below(t, a, v)
               /\ (\A p \in Points : b[p] > 0 => v <= p[a]) => Beyond(t, a, v)
        /\ MinRebuildSize >= 2 => Balanced[t]}

LEMMA JoinNode ==
    ASSUME NEW m \in Points, NEW axis \in Axes, NEW left \in Sound, NEW right \in Sound,
           Below(left, axis, m[axis]), Beyond(right, axis, m[axis]),
           1 + left.size + right.size <= MaxNodes,
           NEW t, t = Join(m, axis, left, right)
    PROVE  /\ t \in Sound /\ ~IsNil(t) /\ ~t.pushdown /\ ~t.deleted /\ ~t.underRebuild
           /\ t.pt = m /\ t.l = left /\ t.r = right
           /\ t.size = 1 + left.size + right.size
           /\ t.invalid = InvalidNum(left) + InvalidNum(right)
<1>1. PICK e : e = Leaf(m)
  OBVIOUS
<1>2. /\ e \in NodesOver({Nil})
      /\ e.pt = m /\ ~e.deleted /\ ~e.pushdown /\ ~e.underRebuild
  BY <1>1, GeometryAssumption DEF Leaf, NodesOver, Axes
<1> DEFINE y == [e EXCEPT !.axis = axis, !.l = left, !.r = right]
<1>3. /\ y \in NodesOver(Sound)
      /\ y.pt = m /\ y.axis = axis /\ y.l = left /\ y.r = right
      /\ ~y.deleted /\ ~y.pushdown /\ ~y.underRebuild
  BY <1>2 DEF NodesOver
<1>4. t = PullUp(y)
  BY <1>1, Zenon DEF Join
<1> HIDE DEF y
<1>5. y \in NodesOver(Trees)
  BY <1>3, NodesOverSound
<1>6. Ordered(y) /\ 1 + y.l.size + y.r.size <= MaxNodes
  BY <1>3 DEF Ordered
<1>7. PullUp(y) \in Sound /\ ~IsNil(PullUp(y))
  BY <1>3, <1>6, PullUpSound
<1>8. InvalidNum(left) \in Nat /\ InvalidNum(right) \in Nat
  BY SizeType DEF Sound
<1>9. /\ PullUp(y).deleted = y.deleted /\ PullUp(y).pushdown = y.pushdown
      /\ PullUp(y).underRebuild = y.underRebuild
  BY <1>5, PullUpFields
<1>10. /\ PullUp(y).pt = y.pt /\ PullUp(y).l = y.l /\ PullUp(y).r = y.r
       /\ PullUp(y).size = 1 + y.l.size + y.r.size
       /\ PullUp(y).invalid = (IF y.deleted THEN 1 ELSE 0)
                              + InvalidNum(y.l) + InvalidNum(y.r)
  BY <1>5, PullUpFields
<1> QED
  BY <1>3, <1>4, <1>7, <1>8, <1>9, <1>10

LEMMA JoinBuilt ==
    ASSUME NEW b \in Multisets, NEW axis \in Axes, NEW m \in Points, b[m] > 0,
           Total(b) <= MaxNodes,
           NEW h \in FirstHalves(b, axis, m),
           NEW rest, rest = Minus(Minus(b, h), AddOne(NoPoints, m)),
           NEW left \in Built(h), NEW right \in Built(rest)
    PROVE  Join(m, axis, left, right) \in Built(b)
<1>1. /\ h \in Multisets /\ rest \in Multisets
      /\ \A p \in Points : b[p] = (IF p = m THEN 1 ELSE 0) + h[p] + rest[p]
      /\ \A p \in Points : h[p] > 0 => p[axis] <= m[axis]
      /\ \A p \in Points : rest[p] > 0 => m[axis] <= p[axis]
      /\ Total(h) = Total(b) \div 2
      /\ Total(b) = 1 + Total(h) + Total(rest)
      /\ Total(h) \in Nat /\ Total(rest) \in Nat
  BY HalvesOf
<1>2. \A p \in Points : b[p] \in Nat /\ h[p] \in Nat /\ rest[p] \in Nat
  BY <1>1 DEF Multisets
<1>3. \A p \in Points, a \in Axes : p[a] \in Int
  BY GeometryAssumption DEF Corners
<1>4. /\ left \in Sound /\ right \in Sound
      /\ Flatten[left] = h /\ Flatten[right] = rest
      /\ left.size = Total(h) /\ right.size = Total(rest)
      /\ Flags(left) = {} /\ Flags(right) = {}
      /\ MinRebuildSize >= 2 => Balanced[left] /\ Balanced[right]
  BY DEF Built
<1>5. InvalidNum(left) = 0 /\ InvalidNum(right) = 0
  <2>1. /\ left.size - InvalidNum(left) = Total(h)
        /\ right.size - InvalidNum(right) = Total(rest)
    BY <1>4, SoundSize
  <2>2. InvalidNum(left) \in Nat /\ InvalidNum(right) \in Nat
    BY <1>4, SizeType DEF Sound
  <2>3. left.size = Total(h) /\ right.size = Total(rest)
    BY <1>4
  <2>4. Total(h) \in Nat /\ Total(rest) \in Nat
    BY <1>1
  <2> QED
    BY <2>1, <2>2, <2>3, <2>4
<1>6. Below(left, axis, m[axis]) /\ Beyond(right, axis, m[axis])
  BY <1>1, <1>3 DEF Built
<1> PICK t : t = Join(m, axis, left, right)
  OBVIOUS
<1>7. /\ t \in Sound /\ ~IsNil(t) /\ ~t.pushdown /\ ~t.deleted /\ ~t.underRebuild
      /\ t.pt = m /\ t.l = left /\ t.r = right
      /\ t.size = 1 + left.size + right.size
      /\ t.invalid = InvalidNum(left) + InvalidNum(right)
  <2>1. 1 + left.size + right.size <= MaxNodes
    BY <1>1, <1>4
  <2> QED
    BY <1>4, <1>6, <2>1, JoinNode
<1>8. t \in Trees /\ left \in Trees /\ right \in Trees
  BY <1>4, <1>7 DEF Sound
<1>9. Flatten[t] = b
  <2>1. ASSUME NEW p \in Points PROVE Flatten[t][p] = b[p]
    <3>1. Flatten[t][p] = Own(t, p) + Flatten[t.l][p] + Flatten[t.r][p]
      BY <1>7, FlattenNode
    <3>2. Own(t, p) = IF p = m THEN 1 ELSE 0
      BY <1>7 DEF Own
    <3> QED
      BY <1>1, <1>4, <1>7, <3>1, <3>2
  <2>2. Flatten[t] \in Multisets
    BY <1>8, FlattenType
  <2> QED
    BY <2>1, <2>2 DEF Multisets
<1>10. t.size = Total(b) /\ t.invalid = 0
  BY <1>1, <1>4, <1>5, <1>7
<1>11. Flags(t) = {}
  BY <1>4, <1>7, <1>8, FlagsNode
<1>12. ASSUME NEW a \in Axes, NEW v \in Int
       PROVE  /\ (\A p \in Points : b[p] > 0 => p[a] <= v) => Below(t, a, v)
              /\ (\A p \in Points : b[p] > 0 => v <= p[a]) => Beyond(t, a, v)
  <2>1. /\ Below(t, a, v) <=> m[a] <= v /\ Below(left, a, v) /\ Below(right, a, v)
        /\ Beyond(t, a, v) <=> v <= m[a] /\ Beyond(left, a, v) /\ Beyond(right, a, v)
    BY <1>7, SoundBox
  <2>2. \A p \in Points : h[p] > 0 \/ rest[p] > 0 => b[p] > 0
    BY <1>1, <1>2
  <2>3. ASSUME \A p \in Points : b[p] > 0 => p[a] <= v
        PROVE  Below(t, a, v)
    <3>1. Below(left, a, v) /\ Below(right, a, v)
      BY <2>2, <2>3 DEF Built
    <3> QED
      BY <2>1, <2>3, <3>1
  <2>4. ASSUME \A p \in Points : b[p] > 0 => v <= p[a]
        PROVE  Beyond(t, a, v)
    <3>1. Beyond(left, a, v) /\ Beyond(right, a, v)
      BY <2>2, <2>4 DEF Built
    <3> QED
      BY <2>1, <2>4, <3>1
  <2> QED
    BY <2>3, <2>4
<1>13. ASSUME MinRebuildSize >= 2 PROVE Balanced[t]
  <2>1. ~NeedsRebuild(t)
    <3>1. Max({t.l.size, t.r.size}) = IF t.l.size <= t.r.size THEN t.r.size ELSE t.l.size
      BY <1>1, <1>4, <1>7, MaxOfTwo
    <3>2. SUFFICES ASSUME t.size > 2 PROVE ~(10 * Max({t.l.size, t.r.size}) > 7 * (t.size - 1))
                                           /\ ~(2 * t.invalid > t.size)
      BY <1>10, <1>13, ThresholdAssumption, CopiesAre DEF NeedsRebuild
    <3>3. t.l.size = Total(h) /\ t.r.size = Total(rest) /\ t.size = Total(b)
      BY <1>4, <1>7, <1>10
    <3>4. Total(b) \in Nat
      BY CopiesAre
    <3>5. Total(rest) <= Total(h) /\ 2 * Total(h) <= Total(b)
      BY <1>1, <3>4
    <3>6. PICK big : big = Max({t.l.size, t.r.size})
      OBVIOUS
    <3>7. big = Total(h) /\ Total(h) \in Nat
      <4>1. Total(h) \in Nat /\ Total(rest) \in Nat
        BY <1>1
      <4>2. big = IF Total(h) <= Total(rest) THEN Total(rest) ELSE Total(h)
        BY <3>1, <3>3, <3>6
      <4> QED
        BY <3>5, <4>1, <4>2
    <3>8. ~(10 * Total(h) > 7 * (Total(b) - 1))
      BY <3>2, <3>3, <3>4, <3>5, <3>7
    <3> QED
      BY <1>10, <3>3, <3>4, <3>6, <3>7, <3>8
  <2> QED
    BY <1>4, <1>7, <1>8, <1>13, <2>1, BalancedNode
<1> QED
  BY <1>7, <1>9, <1>10, <1>11, <1>12, <1>13 DEF Built

\* A tree split at one of the points present, over builds of the rest.
Halved(t, c, axis, present, builds) ==
    \E m \in present : \E h \in FirstHalves(c, axis, m) :
        \E left \in builds[h] :
        \E right \in builds[Minus(Minus(c, h), AddOne(NoPoints, m))] :
            t = Join(m, axis, left, right)

LEMMA BuildCases ==
    ASSUME NEW k, NEW builds, NEW c \in Multisets, NEW t \in BuildOf(k, builds)[c],
           NEW present, present = {p \in Points : c[p] > 0},
           NEW axis, axis = SplitAxis(present)
    PROVE  /\ k = 0 \/ present = {} => t = Nil
           /\ ~(k = 0 \/ present = {}) => Halved(t, c, axis, present, builds)
<1> DEFINE whole == UNION {UNION {{Join(m, axis, left, right) :
                        left \in builds[h],
                        right \in builds[Minus(Minus(c, h), AddOne(NoPoints, m))]} :
                    h \in FirstHalves(c, axis, m)} : m \in present}
<1>1. BuildOf(k, builds)[c] = IF k = 0 \/ present = {} THEN {Nil} ELSE whole
  BY DEF BuildOf
<1>2. t \in whole => Halved(t, c, axis, present, builds)
  BY DEF Halved
<1> QED
  BY <1>1, <1>2

\* build_range() of the points b is a sound tree of exactly them
\* (ikd_tree.cpp:193-224).
THEOREM BuildsAreBuilt ==
    ASSUME NEW b \in Multisets, Total(b) <= MaxNodes
    PROVE  BuildRange(b) \subseteq Built(b)
<1> DEFINE S == {k \in 0..MaxNodes :
                    \A c \in Multisets : Total(c) <= k => BuildUpTo[k][c] \subseteq Built(c)}
<1>1. MaxNodes \in Nat
  BY ThresholdAssumption
<1>2. ASSUME NEW k \in 0..MaxNodes, NEW c \in Multisets
      PROVE  BuildUpTo[k][c] = BuildOf(k, BuildUpTo[k - 1])[c]
  <2> HIDE DEF BuildUpTo, BuildOf
  <2>1. PICK f : f = BuildUpTo
    OBVIOUS
  <2>2. f = [j \in 0..MaxNodes |-> BuildOf(j, f[j - 1])]
    BY <2>1, BuildDef
  <2> QED
    BY <2>1, <2>2
<1>3. NoPoints \in Multisets /\ Total(NoPoints) = 0 /\ Nil \in Built(NoPoints)
  <2>1. NoPoints \in Multisets
    BY DEF NoPoints, Multisets
  <2>2. Total(NoPoints) = 0
    BY <2>1, TotalNone
  <2>3. IsNil(Nil) /\ Nil \in Trees
    BY NilTree
  <2>4. Flatten[Nil] = NoPoints
    BY <2>3, FlattenLabelled
  <2>5. Balanced[Nil]
    BY <2>3, BalancedNode
  <2>6. Nil.size = 0
    BY <2>3 DEF IsNil
  <2>7. \A a, v : Below(Nil, a, v) /\ Beyond(Nil, a, v)
    BY <2>3 DEF Below, Beyond
  <2> QED
    BY <2>1, <2>2, <2>4, <2>5, <2>6, <2>7, FlagsNil, SoundNil DEF Built
<1>4. ASSUME NEW k \in 0..MaxNodes, NEW c \in Multisets, Total(c) <= k,
             k = 0 \/ k - 1 \in S,
             NEW t \in BuildUpTo[k][c]
      PROVE  t \in Built(c)
  <2> PICK present : present = {p \in Points : c[p] > 0}
    OBVIOUS
  <2> PICK axis : axis = SplitAxis(present)
    OBVIOUS
  <2> PICK builds : builds = BuildUpTo[k - 1]
    OBVIOUS
  <2>0. t \in BuildOf(k, builds)[c]
    BY <1>2, <1>4
  <2>1. Total(c) \in Nat /\ \A p \in Points : c[p] \in Nat
    BY CopiesAre DEF Multisets
  <2>2. CASE k = 0 \/ present = {}
    <3>1. t = Nil
      BY <2>0, <2>2, BuildCases
    <3>2. c = NoPoints
      <4>1. CASE k = 0
        <5>1. Total(c) = 0
          BY <1>4, <2>1, <4>1
        <5> QED
          BY <5>1, TotalNone
      <4>2. CASE present = {}
        <5>1. \A p \in Points : c[p] = 0
          BY <2>1, <4>2
        <5> QED
          BY <5>1 DEF NoPoints, Multisets
      <4> QED
        BY <2>2, <4>1, <4>2
    <3> QED
      BY <1>3, <3>1, <3>2
  <2>3. CASE k # 0 /\ present # {}
    <3>1. PICK m \in present : \E h \in FirstHalves(c, axis, m) :
              \E left \in builds[h] :
              \E right \in builds[Minus(Minus(c, h), AddOne(NoPoints, m))] :
                  t = Join(m, axis, left, right)
      <4>1. ~(k = 0 \/ present = {})
        BY <2>3
      <4>2. Halved(t, c, axis, present, builds)
        BY <2>0, <4>1, BuildCases
      <4> QED
        BY <4>2 DEF Halved
    <3>2. PICK h \in FirstHalves(c, axis, m) :
              \E left \in builds[h] :
              \E right \in builds[Minus(Minus(c, h), AddOne(NoPoints, m))] :
                  t = Join(m, axis, left, right)
      BY <3>1
    <3>3. PICK rest : rest = Minus(Minus(c, h), AddOne(NoPoints, m))
      OBVIOUS
    <3>4. PICK left \in builds[h], right \in builds[rest] :
                  t = Join(m, axis, left, right)
      BY <3>2, <3>3
    <3>5. axis \in Axes
      BY <2>3, SplitAxisType
    <3>6. m \in Points /\ c[m] > 0
      OBVIOUS
    <3>7. /\ h \in Multisets /\ rest \in Multisets
          /\ Total(h) = Total(c) \div 2
          /\ Total(c) = 1 + Total(h) + Total(rest)
          /\ Total(h) \in Nat /\ Total(rest) \in Nat
      BY <3>3, <3>5, <3>6, HalvesOf
    <3>8. Total(h) <= k - 1 /\ Total(rest) <= k - 1 /\ Total(c) <= MaxNodes
      BY <1>1, <1>4, <2>1, <3>7
    <3>9. left \in Built(h) /\ right \in Built(rest)
      BY <1>4, <2>3, <3>7, <3>8
    <3> QED
      BY <3>3, <3>4, <3>5, <3>6, <3>8, <3>9, JoinBuilt
  <2> QED
    BY <2>2, <2>3
<1>5. 0 \in S
  BY <1>1, <1>4
<1>6. ASSUME NEW k \in 0..MaxNodes, k < MaxNodes, k \in S
      PROVE  k + 1 \in S
  <2>1. k + 1 \in 0..MaxNodes /\ (k + 1) - 1 = k
    BY <1>1, <1>6
  <2> QED
    BY <1>4, <1>6, <2>1
<1>7. MaxNodes \in S
  <2> HIDE DEF S
  <2>1. 0..MaxNodes \subseteq S
    BY <1>1, <1>5, <1>6, Induct
  <2> QED
    BY <1>1, <2>1
<1> QED
  BY <1>7 DEF BuildRange

-----------------------------------------------------------------------------
(* Insertion *)

LEMMA PushDownTree ==
    ASSUME NEW h \in 0..MaxNodes, NEW n \in NodesOver(TreesUpTo[h])
    PROVE  PushDown(n).l \in TreesUpTo[h] /\ PushDown(n).r \in TreesUpTo[h]
<1>1. MaxNodes \in 0..MaxNodes /\ h <= MaxNodes
  BY ThresholdAssumption
<1>2. TreesUpTo[h] \subseteq Trees
  BY <1>1, TreesGrow DEF Trees
<1>3. n \in NodesOver(Trees)
  BY <1>2 DEF NodesOver
<1>4. n.l \in TreesUpTo[h] /\ n.r \in TreesUpTo[h]
  BY DEF NodesOver
<1>5. Deleted(n.l) \in TreesUpTo[h] /\ Deleted(n.r) \in TreesUpTo[h]
  BY <1>4, DeletedTree
<1> QED
  BY <1>3, <1>4, <1>5, PushDownFields

\* Insertion into a node, given the insertions into its subtrees.
InsertOf(n, left, right) ==
    [c \in RebuildStates |-> [path \in Routes |-> [p \in Points |->
        IF IsNil(n) THEN {Leaving(PullUp(Leaf(p)), c)}
        ELSE LET m == PushDown(n)
             IN  IF p[m.axis] < m.pt[m.axis]
                 THEN UNION {Unwind(PullUp([m EXCEPT !.l = d.tree]), d.state, path) :
                         d \in left[Logged(c, n, p)][Append(path, "l")][p]}
                 ELSE UNION {Unwind(PullUp([m EXCEPT !.r = d.tree]), d.state, path) :
                         d \in right[Logged(c, n, p)][Append(path, "r")][p]}]]]

LEMMA InsertAtDef ==
    InsertAt = [n \in Trees |-> InsertOf(n, InsertAt[PushDown(n).l], InsertAt[PushDown(n).r])]
<1> DEFINE Solves(f, h) == f = [n \in TreesUpTo[h] |-> InsertOf(n, f[PushDown(n).l], f[PushDown(n).r])]
           S == {h \in 0..MaxNodes : \E f : Solves(f, h)}
<1>1. MaxNodes \in Nat
  BY ThresholdAssumption
<1>2. \A x, y, v, w : InsertOf(Nil, x, y) = InsertOf(Nil, v, w)
  BY NilTree DEF InsertOf
<1> HIDE DEF InsertOf
<1>3. 0 \in S
  <2> DEFINE f == [n \in TreesUpTo[0] |-> InsertOf(Nil, 0, 0)]
  <2>1. Solves(f, 0)
    BY <1>2, TreesLevels
  <2> HIDE DEF Solves, f
  <2> QED
    BY <1>1, <2>1
<1>4. ASSUME NEW h \in 0..MaxNodes, h < MaxNodes, h \in S
      PROVE  h + 1 \in S
  <2>1. PICK f : Solves(f, h)
    BY <1>4
  <2>2. h + 1 \in 0..MaxNodes /\ (h + 1) - 1 = h /\ h <= h + 1
    BY <1>1, <1>4
  <2>3. TreesUpTo[h] \subseteq TreesUpTo[h + 1]
    BY <2>2, TreesGrow
  <2> DEFINE g == [n \in TreesUpTo[h + 1] |-> InsertOf(n, f[PushDown(n).l], f[PushDown(n).r])]
  <2>4. ASSUME NEW n \in TreesUpTo[h]
        PROVE  g[n] = f[n]
    <3>1. f[n] = InsertOf(n, f[PushDown(n).l], f[PushDown(n).r])
      BY <2>1
    <3> QED
      BY <2>3, <3>1
  <2>5. ASSUME NEW n \in TreesUpTo[h + 1]
        PROVE  InsertOf(n, f[PushDown(n).l], f[PushDown(n).r]) = InsertOf(n, g[PushDown(n).l], g[PushDown(n).r])
    <3>1. CASE n = Nil
      BY <1>2, <3>1
    <3>2. CASE n \in NodesOver(TreesUpTo[h])
      <4>1. PushDown(n).l \in TreesUpTo[h] /\ PushDown(n).r \in TreesUpTo[h]
        BY <3>2, PushDownTree DEF NodesOver
      <4> HIDE DEF g
      <4> QED
        BY <2>4, <4>1
    <3> QED
      BY <2>2, <3>1, <3>2, TreeCases
  <2>6. Solves(g, h + 1)
    BY <2>5
  <2> HIDE DEF Solves, g
  <2> QED
    BY <2>2, <2>6
<1>5. MaxNodes \in S
  <2> HIDE DEF S
  <2>1. 0..MaxNodes \subseteq S
    BY <1>1, <1>3, <1>4, Induct
  <2> QED
    BY <1>1, <2>1
<1>6. \E f : Solves(f, MaxNodes)
  BY <1>5
<1>7. InsertAt = CHOOSE f : f = [n \in Trees |-> InsertOf(n, f[PushDown(n).l], f[PushDown(n).r])]
  BY DEF InsertAt, InsertOf
<1> QED
  BY <1>6, <1>7 DEF Trees

LEMMA RouteSteps ==
    ASSUME NEW path \in Routes, NEW s \in {"l", "r"}
    PROVE  /\ Append(path, s) \in Routes
           /\ \A q \in Routes : /\ path \o q \in Routes
                                /\ Append(path, s) \o q = path \o (<<s>> \o q)
           /\ path \o <<>> = path
           /\ <<>> \o path = path
           /\ <<>> \in Routes
           /\ path # NoSlot /\ path # FreedSlot
<1>1. Append(path, s) \in Routes /\ <<>> \in Routes /\ <<s>> \in Routes
  BY DEF Routes
<1>2. ASSUME NEW q \in Routes
      PROVE  path \o q \in Routes /\ Append(path, s) \o q = path \o (<<s>> \o q)
  <2>1. path \in Seq({"l", "r"}) /\ <<s>> \in Seq({"l", "r"}) /\ q \in Seq({"l", "r"})
    BY <1>1 DEF Routes
  <2>2. path \o q \in Seq({"l", "r"})
    BY <2>1, ConcatProperties
  <2>3. Append(path, s) = path \o <<s>>
    BY <2>1, AppendIsConcat
  <2>4. (path \o <<s>>) \o q = path \o (<<s>> \o q)
    BY <2>1, ConcatAssociative
  <2> QED
    BY <2>2, <2>3, <2>4 DEF Routes
<1>3. path \o <<>> = path /\ <<>> \o path = path
  BY ConcatEmptySeq DEF Routes
<1>4. path # NoSlot /\ path # FreedSlot
  <2>1. \A i \in 1..Len(path) : path[i] \in {"l", "r"}
    BY DEF Routes
  <2> QED
    BY <2>1 DEF NoSlot, FreedSlot
<1> QED
  BY <1>1, <1>2, <1>3, <1>4

LEMMA StateSteps ==
    ASSUME NEW c \in RebuildStates, NEW path \in Routes, NEW n, NEW p \in Points
    PROVE  /\ c.slot \in Routes \union {NoSlot, FreedSlot} /\ c.snapshot \in Multisets
           /\ c.above \in Seq(Routes) /\ c.log \in Seq(Points)
           /\ c.capturing \in BOOLEAN /\ c.replaying \in BOOLEAN
           /\ Captured(c, path) \in RebuildStates
           /\ Captured(c, path) = IF c.capturing THEN [c EXCEPT !.above = Append(c.above, path)]
                                  ELSE c
           /\ Logged(c, n, p) \in RebuildStates
           /\ ~n.underRebuild => Logged(c, n, p) = c
<1>1. /\ c.slot \in Routes \union {NoSlot, FreedSlot} /\ c.snapshot \in Multisets
      /\ c.above \in Seq(Routes) /\ c.log \in Seq(Points)
      /\ c.capturing \in BOOLEAN /\ c.replaying \in BOOLEAN
  BY DEF RebuildStates
<1>2. Append(c.above, path) \in Seq(Routes) /\ Append(c.log, p) \in Seq(Points)
  BY <1>1
<1>3. Captured(c, path) \in RebuildStates /\ Logged(c, n, p) \in RebuildStates
  BY <1>1, <1>2 DEF Captured, Logged, RebuildStates
<1> QED
  BY <1>1, <1>3 DEF Captured, Logged, RebuildStates

LEMMA SameState ==
    ASSUME NEW c \in RebuildStates, NEW e \in RebuildStates,
           c.slot = e.slot, c.snapshot = e.snapshot, c.above = e.above, c.log = e.log,
           c.capturing = e.capturing, c.replaying = e.replaying
    PROVE  c = e
  BY DEF RebuildStates

\* A rebuild state with a rebuild started at path, for the points b.
Freezing(c, path, b) ==
    [slot |-> path, snapshot |-> b, above |-> <<>>, log |-> <<>>, capturing |-> TRUE,
     replaying |-> c.replaying]

LEMMA FreezingType ==
    ASSUME NEW c \in RebuildStates, NEW path \in Routes, NEW n \in Trees
    PROVE  /\ Freezing(c, path, Flatten[n]) \in RebuildStates
           /\ StartAsyncRebuild(n, c, path).tree = [n EXCEPT !.underRebuild = TRUE]
           /\ StartAsyncRebuild(n, c, path).state = Freezing(c, path, Flatten[n])
<1>1. PICK b : b = Flatten[n]
  OBVIOUS
<1>2. b \in Multisets
  BY <1>1, FlattenType
<1>3. Freezing(c, path, b) \in RebuildStates
  BY <1>2 DEF Freezing, RebuildStates
<1>4. [c EXCEPT !.slot = path, !.snapshot = b, !.capturing = TRUE, !.above = <<>>, !.log = <<>>]
          = Freezing(c, path, b)
  <2>1. PICK e : e = [c EXCEPT !.slot = path, !.snapshot = b, !.capturing = TRUE,
                               !.above = <<>>, !.log = <<>>]
    OBVIOUS
  <2>2. PICK f : f = Freezing(c, path, b)
    OBVIOUS
  <2>3. e \in RebuildStates
    <3>1. <<>> \in Seq(Routes) /\ <<>> \in Seq(Points)
      OBVIOUS
    <3>2. PICK x : x = [c EXCEPT !.slot = path, !.snapshot = b, !.capturing = TRUE]
      OBVIOUS
    <3>3. x \in RebuildStates
      BY <1>2, <3>2 DEF RebuildStates
    <3>4. PICK y : y = [x EXCEPT !.above = <<>>, !.log = <<>>]
      OBVIOUS
    <3>5. y \in RebuildStates
      BY <3>1, <3>3, <3>4 DEF RebuildStates
    <3>6. e = y
      BY <2>1, <3>2, <3>4, Zenon
    <3> QED
      BY <3>5, <3>6
  <2>4. /\ e.slot = path /\ e.snapshot = b /\ e.above = <<>> /\ e.log = <<>>
        /\ e.capturing = TRUE /\ e.replaying = c.replaying
    BY <2>1 DEF RebuildStates
  <2>5. /\ f.slot = path /\ f.snapshot = b /\ f.above = <<>> /\ f.log = <<>>
        /\ f.capturing = TRUE /\ f.replaying = c.replaying
    BY <2>2 DEF Freezing
  <2>6. e = f
    <3>1. f \in RebuildStates
      BY <1>3, <2>2
    <3>2. /\ e.slot = f.slot /\ e.snapshot = f.snapshot /\ e.above = f.above /\ e.log = f.log
          /\ e.capturing = f.capturing /\ e.replaying = f.replaying
      BY <2>4, <2>5
    <3> QED
      BY <2>3, <3>1, <3>2, SameState
  <2> QED
    BY <2>1, <2>2, <2>6
<1>5. PICK x : x = [n EXCEPT !.underRebuild = TRUE]
  OBVIOUS
<1>6. StartAsyncRebuild(n, c, path) = Leaving(x, Freezing(c, path, b))
  BY <1>1, <1>4, <1>5, Zenon DEF StartAsyncRebuild
<1> QED
  BY <1>1, <1>3, <1>5, <1>6 DEF Leaving

LEMMA SameBag ==
    ASSUME NEW b \in Multisets, NEW c \in Multisets, \A p \in Points : b[p] = c[p]
    PROVE  b = c
BY DEF Multisets

\* Tree t needs no more room than n, in nodes and in space.
Fits(t, n) ==
    /\ t.size <= n.size
    /\ \A a \in Axes, v \in Int : /\ Below(n, a, v) => Below(t, a, v)
                                  /\ Beyond(n, a, v) => Beyond(t, a, v)

\* The subtree a rebuild is started at keeps everything but the flag.
LEMMA FlaggedNode ==
    ASSUME NEW x \in Sound, ~IsNil(x), ~x.pushdown,
           NEW t, t = [x EXCEPT !.underRebuild = TRUE]
    PROVE  /\ t \in Sound /\ ~IsNil(t) /\ t.underRebuild /\ ~t.pushdown
           /\ t.pt = x.pt /\ t.l = x.l /\ t.r = x.r /\ t.size = x.size
           /\ Flatten[t] = Flatten[x]
           /\ Fits(t, x)
<1>1. /\ x \in NodesOver(Sound) /\ x \in NodesOver(Trees) /\ x \in Trees
      /\ Checked(x) /\ x.size <= MaxNodes
      /\ x.size \in Nat
  BY SoundNode, NodeFields DEF Sound
<1>2. /\ t \in NodesOver(Sound)
      /\ t.underRebuild = TRUE /\ t.pushdown = x.pushdown
      /\ t.pt = x.pt /\ t.axis = x.axis /\ t.l = x.l /\ t.r = x.r
      /\ t.lo = x.lo /\ t.hi = x.hi /\ t.size = x.size
      /\ t.invalid = x.invalid /\ t.deleted = x.deleted /\ t.treeDeleted = x.treeDeleted
  BY <1>1 DEF NodesOver
<1>3. Checked(t)
  <2>1. Children(t) = Children(x)
    BY <1>2 DEF Children
  <2> QED
    BY <1>1, <1>2, <2>1 DEF Checked
<1>4. t \in Sound /\ ~IsNil(t)
  BY <1>1, <1>2, <1>3, SoundJoin
<1>5. Flatten[t] = Flatten[x]
  <2>1. \A p \in Points : Own(t, p) = Own(x, p)
    BY <1>2 DEF Own
  <2>2. ASSUME NEW p \in Points PROVE Flatten[t][p] = Flatten[x][p]
    <3>1. /\ Flatten[t][p] = Own(t, p) + Flatten[t.l][p] + Flatten[t.r][p]
          /\ Flatten[x][p] = Own(x, p) + Flatten[x.l][p] + Flatten[x.r][p]
      BY <1>2, <1>4, FlattenNode
    <3> QED
      BY <1>2, <2>1, <3>1
  <2>3. Flatten[t] \in Multisets /\ Flatten[x] \in Multisets
    BY <1>4, FlattenType DEF Sound
  <2> QED
    BY <2>2, <2>3, SameBag
<1>6. Fits(t, x)
  <2>1. \A a, v : (Below(t, a, v) <=> Below(x, a, v)) /\ (Beyond(t, a, v) <=> Beyond(x, a, v))
    BY <1>2, <1>4 DEF Below, Beyond
  <2>2. t.size <= x.size
    BY <1>1, <1>2
  <2>3. \A a \in Axes, v \in Int :
            /\ Below(x, a, v) => Below(t, a, v)
            /\ Beyond(x, a, v) => Beyond(t, a, v)
    BY <2>1
  <2> QED
    BY <2>2, <2>3 DEF Fits
<1> QED
  BY <1>2, <1>4, <1>5, <1>6

\* A tree rebuilt from the live points of another one fits.
LEMMA BuiltFits ==
    ASSUME NEW x \in Sound, NEW t \in Built(Flatten[x])
    PROVE  Fits(t, x) /\ t \in Sound
<1>1. PICK b : b = Flatten[x]
  OBVIOUS
<1>2. b \in Multisets /\ x \in Trees
  BY <1>1, FlattenType DEF Sound
<1>3. /\ t \in Sound /\ t.size = Total(b)
      /\ \A a \in Axes, v \in Int :
            /\ (\A p \in Points : b[p] > 0 => p[a] <= v) => Below(t, a, v)
            /\ (\A p \in Points : b[p] > 0 => v <= p[a]) => Beyond(t, a, v)
  BY <1>1 DEF Built
<1>4. t.size <= x.size
  <2>1. x.size - InvalidNum(x) = Total(b)
    BY <1>1, SoundSize
  <2>2. x.size \in Nat /\ InvalidNum(x) \in Nat
    BY <1>2, SizeType
  <2> QED
    BY <1>3, <2>1, <2>2
<1>5. ASSUME NEW a \in Axes, NEW v \in Int
      PROVE  /\ Below(x, a, v) => Below(t, a, v)
             /\ Beyond(x, a, v) => Beyond(t, a, v)
  <2>1. ASSUME Below(x, a, v) PROVE Below(t, a, v)
    <3>1. \A p \in Points : b[p] > 0 => p[a] <= v
      BY <1>1, <2>1, LiveInBox
    <3> QED
      BY <1>3, <3>1
  <2>2. ASSUME Beyond(x, a, v) PROVE Beyond(t, a, v)
    <3>1. \A p \in Points : b[p] > 0 => v <= p[a]
      BY <1>1, <2>2, LiveInBox
    <3> QED
      BY <1>3, <3>1
  <2> QED
    BY <2>1, <2>2
<1> QED
  BY <1>3, <1>4, <1>5 DEF Fits

LEMMA FitsSelf ==
    ASSUME NEW x \in Trees
    PROVE  Fits(x, x)
BY SizeType DEF Fits

\* What the end of a mutation leaves of node x at path: the node itself, the
\* node flagged for the worker, or a rebuilt one.
Kept(d, x, c, path) ==
    /\ d.tree = x /\ d.state = Captured(c, path)
    /\ ~(c.slot = NoSlot /\ NeedsRebuild(x))

Frozen(d, x, c, path) ==
    /\ d.tree = [x EXCEPT !.underRebuild = TRUE]
    /\ d.state = Freezing(c, path, Flatten[x])
    /\ c.slot = NoSlot /\ ~c.replaying /\ x.size >= ParallelRebuildSize

Rebuilt(d, x, c) ==
    d.tree \in Built(Flatten[x]) /\ d.state = c /\ c.slot = NoSlot

LEMMA UnwindCases ==
    ASSUME NEW x \in Sound, ~IsNil(x), ~x.pushdown, NEW c \in RebuildStates, NEW path \in Routes,
           NEW d \in Unwind(x, c, path)
    PROVE  /\ Kept(d, x, c, path) \/ Frozen(d, x, c, path) \/ Rebuilt(d, x, c)
           /\ d.tree \in Sound /\ Flatten[d.tree] = Flatten[x] /\ Fits(d.tree, x)
           /\ d.state \in RebuildStates
<1>1. x \in Trees
  BY DEF Sound
<1>2. CASE ~(c.slot = NoSlot /\ NeedsRebuild(x))
  <2>1. d = Leaving(x, Captured(c, path))
    BY <1>2 DEF Unwind
  <2>2. d.tree = x /\ d.state = Captured(c, path)
    BY <2>1 DEF Leaving
  <2>3. Kept(d, x, c, path)
    BY <1>2, <2>2 DEF Kept
  <2>4. Captured(c, path) \in RebuildStates
    <3>1. CASE Points = {}
      BY SoundNode, NodeFields, <3>1
    <3>2. CASE Points # {}
      BY <3>2, StateSteps
    <3> QED
      BY <3>1, <3>2
  <2> QED
    BY <1>1, <2>2, <2>3, <2>4, FitsSelf
<1>3. CASE c.slot = NoSlot /\ NeedsRebuild(x) /\ ~c.replaying /\ x.size >= ParallelRebuildSize
  <2>1. d = StartAsyncRebuild(x, c, path)
    BY <1>3 DEF Unwind
  <2>2. /\ d.tree = [x EXCEPT !.underRebuild = TRUE]
        /\ d.state = Freezing(c, path, Flatten[x])
        /\ d.state \in RebuildStates
    BY <1>1, <2>1, FreezingType
  <2>3. Frozen(d, x, c, path)
    BY <1>3, <2>2 DEF Frozen
  <2>4. d.tree \in Sound /\ Flatten[d.tree] = Flatten[x] /\ Fits(d.tree, x)
    BY <2>2, FlaggedNode
  <2> QED
    BY <2>2, <2>3, <2>4
<1>4. CASE c.slot = NoSlot /\ NeedsRebuild(x) /\ ~(~c.replaying /\ x.size >= ParallelRebuildSize)
  <2>1. d \in Rebuild(x, c)
    BY <1>4 DEF Unwind
  <2>2. d.tree \in BuildRange(Flatten[x]) /\ d.state = c
    BY <2>1 DEF Rebuild, Leaving
  <2>3. Flatten[x] \in Multisets /\ Total(Flatten[x]) <= MaxNodes
    <3>1. x.size - InvalidNum(x) = Total(Flatten[x])
      BY SoundSize
    <3>2. x.size \in Nat /\ InvalidNum(x) \in Nat /\ x.size <= MaxNodes
      BY <1>1, SizeType DEF Sound
    <3>3. Flatten[x] \in Multisets
      BY <1>1, FlattenType
    <3> QED
      BY <3>1, <3>2, <3>3, ThresholdAssumption
  <2>4. d.tree \in Built(Flatten[x])
    BY <2>2, <2>3, BuildsAreBuilt
  <2>5. Rebuilt(d, x, c)
    BY <1>4, <2>2, <2>4 DEF Rebuilt
  <2>6. d.tree \in Sound /\ Flatten[d.tree] = Flatten[x] /\ Fits(d.tree, x)
    BY <2>4, BuiltFits DEF Built
  <2> QED
    BY <2>2, <2>5, <2>6
<1> QED
  BY <1>2, <1>3, <1>4

\* A node refreshed over sound subtrees.
LEMMA PulledUp ==
    ASSUME NEW y \in NodesOver(Sound), ~y.pushdown, Ordered(y),
           1 + y.l.size + y.r.size <= MaxNodes, NEW x, x = PullUp(y)
    PROVE  /\ x \in Sound /\ ~IsNil(x) /\ ~x.pushdown
           /\ x.pt = y.pt /\ x.axis = y.axis /\ x.l = y.l /\ x.r = y.r
           /\ x.underRebuild <=> y.underRebuild
           /\ x.deleted <=> y.deleted
           /\ x.treeDeleted <=> y.deleted /\ (IsNil(y.l) \/ y.l.treeDeleted)
                                          /\ (IsNil(y.r) \/ y.r.treeDeleted)
           /\ x.size = 1 + y.l.size + y.r.size
           /\ \A p \in Points : Flatten[x][p] = Own(y, p) + Flatten[y.l][p] + Flatten[y.r][p]
           /\ \A a \in Axes, v \in Int :
                  /\ Below(x, a, v) <=> y.pt[a] <= v /\ Below(y.l, a, v) /\ Below(y.r, a, v)
                  /\ Beyond(x, a, v) <=> v <= y.pt[a] /\ Beyond(y.l, a, v) /\ Beyond(y.r, a, v)
<1>1. y \in NodesOver(Trees)
  BY NodesOverSound
<1>2. PullUp(y) \in Sound /\ ~IsNil(PullUp(y))
  BY PullUpSound
<1>3. /\ PullUp(y).pt = y.pt /\ PullUp(y).axis = y.axis
      /\ PullUp(y).l = y.l /\ PullUp(y).r = y.r
      /\ PullUp(y).size = 1 + y.l.size + y.r.size
  BY <1>1, PullUpFields
<1>4. /\ PullUp(y).deleted = y.deleted /\ PullUp(y).pushdown = y.pushdown
      /\ PullUp(y).underRebuild = y.underRebuild
      /\ PullUp(y).treeDeleted = (y.deleted /\ \A c \in Children(y) : c.treeDeleted)
  BY <1>1, PullUpFields
<1>5. x \in Sound /\ ~IsNil(x) /\ ~x.pushdown /\ x.l = y.l /\ x.r = y.r /\ x.pt = y.pt
  BY <1>2, <1>3, <1>4
<1>6. x.treeDeleted <=> y.deleted /\ (IsNil(y.l) \/ y.l.treeDeleted)
                                  /\ (IsNil(y.r) \/ y.r.treeDeleted)
  BY <1>4 DEF Children
<1>7. ASSUME NEW p \in Points
      PROVE  Flatten[x][p] = Own(y, p) + Flatten[y.l][p] + Flatten[y.r][p]
  <2>1. Own(x, p) = Own(y, p)
    BY <1>3, <1>4 DEF Own
  <2>2. Flatten[x][p] = Own(x, p) + Flatten[x.l][p] + Flatten[x.r][p]
    BY <1>5, FlattenNode
  <2> QED
    BY <1>5, <2>1, <2>2
<1>8. ASSUME NEW a \in Axes, NEW v \in Int
      PROVE  /\ Below(x, a, v) <=> y.pt[a] <= v /\ Below(y.l, a, v) /\ Below(y.r, a, v)
             /\ Beyond(x, a, v) <=> v <= y.pt[a] /\ Beyond(y.l, a, v) /\ Beyond(y.r, a, v)
  BY <1>5, SoundBox
<1>9. /\ x.axis = y.axis /\ x.size = 1 + y.l.size + y.r.size
      /\ x.underRebuild <=> y.underRebuild
      /\ x.deleted <=> y.deleted
  BY <1>3, <1>4
<1> QED
  BY <1>5, <1>6, <1>7, <1>8, <1>9

\* Tree t has at most one node more than n, and no room but for p.
Widened(t, n, p) ==
    /\ t.size <= n.size + 1
    /\ \A a \in Axes, v \in Int : /\ Below(n, a, v) /\ p[a] <= v => Below(t, a, v)
                                  /\ Beyond(n, a, v) /\ v <= p[a] => Beyond(t, a, v)

\* Tree t is n with the point p inserted.
Gained(t, n, p) ==
    /\ t \in Sound /\ ~IsNil(t)
    /\ Flatten[t] = AddOne(Flatten[n], p)
    /\ Widened(t, n, p)

\* Node y is the pushed down node n with t in place of the subtree on a side.
Inside(y, n, side, t) ==
    /\ y \in NodesOver(Sound) /\ ~y.pushdown
    /\ y.pt = n.pt /\ y.axis = n.axis
    /\ y.deleted <=> n.deleted
    /\ y.underRebuild <=> n.underRebuild
    /\ y.l = IF side = "l" THEN t ELSE PushDown(n).l
    /\ y.r = IF side = "r" THEN t ELSE PushDown(n).r

LEMMA InsideNode ==
    ASSUME NEW n \in Sound, ~IsNil(n), NEW t \in Sound, NEW m, m = PushDown(n)
    PROVE  Inside([m EXCEPT !.l = t], n, "l", t) /\ Inside([m EXCEPT !.r = t], n, "r", t)
<1>1. m \in NodesOver(Sound)
  BY PushDownSound
<1>2. n \in NodesOver(Trees)
  BY SoundNode
<1>3. PushDown(n).pt = n.pt /\ PushDown(n).axis = n.axis
  BY <1>2, PushDownFields
<1>4. /\ PushDown(n).deleted = n.deleted
      /\ PushDown(n).underRebuild = n.underRebuild
      /\ PushDown(n).pushdown = FALSE
  BY <1>2, PushDownFields
<1>5. /\ m.pt = n.pt /\ m.axis = n.axis /\ ~m.pushdown
      /\ m.deleted = n.deleted /\ m.underRebuild = n.underRebuild
  BY <1>3, <1>4
<1>6. PICK y : y = [m EXCEPT !.l = t]
  OBVIOUS
<1>7. PICK z : z = [m EXCEPT !.r = t]
  OBVIOUS
<1>8. /\ y \in NodesOver(Sound) /\ y.pt = m.pt /\ y.axis = m.axis /\ y.l = t /\ y.r = m.r
      /\ y.deleted = m.deleted /\ y.underRebuild = m.underRebuild /\ y.pushdown = m.pushdown
  BY <1>1, <1>6 DEF NodesOver
<1>9. /\ z \in NodesOver(Sound) /\ z.pt = m.pt /\ z.axis = m.axis /\ z.r = t /\ z.l = m.l
      /\ z.deleted = m.deleted /\ z.underRebuild = m.underRebuild /\ z.pushdown = m.pushdown
  BY <1>1, <1>7 DEF NodesOver
<1>10. Inside(y, n, "l", t)
  BY <1>5, <1>8 DEF Inside
<1>11. Inside(z, n, "r", t)
  BY <1>5, <1>9 DEF Inside
<1> QED
  BY <1>6, <1>7, <1>10, <1>11

\* An insertion into node n goes on in a subtree on p's side of it, and ends at
\* n over the new subtree.
InsertedBelow(d, n, c, path, p, side, e, y) ==
    /\ side = "l" => e \in InsertAt[PushDown(n).l][Logged(c, n, p)][Append(path, side)][p]
                     /\ p[n.axis] < n.pt[n.axis]
    /\ side = "r" => e \in InsertAt[PushDown(n).r][Logged(c, n, p)][Append(path, side)][p]
                     /\ n.pt[n.axis] <= p[n.axis]
    /\ d \in Unwind(PullUp(y), e.state, path)
    /\ e.tree \in Sound => Inside(y, n, side, e.tree)

LEMMA InsertCases ==
    ASSUME NEW n \in Sound, NEW c \in RebuildStates, NEW path \in Routes, NEW p \in Points,
           NEW d \in InsertAt[n][c][path][p]
    PROVE  /\ IsNil(n) => d.tree = PullUp(Leaf(p)) /\ d.state = c
           /\ ~IsNil(n) => \E side \in {"l", "r"} : \E e, y :
                               InsertedBelow(d, n, c, path, p, side, e, y)
<1>1. PICK f : f = InsertAt
  OBVIOUS
<1>2. f = [t \in Trees |-> InsertOf(t, f[PushDown(t).l], f[PushDown(t).r])]
  <2> HIDE DEF InsertAt, InsertOf
  <2> QED
    BY <1>1, InsertAtDef
<1>3. n \in Trees
  BY DEF Sound
<1>4. PICK left : left = f[PushDown(n).l]
  OBVIOUS
<1>5. PICK right : right = f[PushDown(n).r]
  OBVIOUS
<1>6. f[n] = InsertOf(n, left, right)
  <2> HIDE DEF InsertOf
  <2> QED
    BY <1>2, <1>3, <1>4, <1>5
<1>7. d \in InsertOf(n, left, right)[c][path][p]
  BY <1>1, <1>6
<1>8. CASE IsNil(n)
  <2>1. d = Leaving(PullUp(Leaf(p)), c)
    BY <1>7, <1>8 DEF InsertOf
  <2> QED
    BY <1>8, <2>1 DEF Leaving
<1>9. CASE ~IsNil(n)
  <2>1. PICK m : m = PushDown(n)
    OBVIOUS
  <2>2. n \in NodesOver(Trees) /\ n.pt \in Corners /\ n.axis \in Axes
    BY <1>9, SoundNode, NodeFields
  <2>3. m.pt = n.pt /\ m.axis = n.axis
    BY <2>1, <2>2, PushDownFields
  <2>4. p[n.axis] \in Int /\ n.pt[n.axis] \in Int
    BY <2>2, GeometryAssumption DEF Corners
  <2>5. CASE p[m.axis] < m.pt[m.axis]
    <3>1. PICK e \in left[Logged(c, n, p)][Append(path, "l")][p] :
              d \in Unwind(PullUp([m EXCEPT !.l = e.tree]), e.state, path)
      BY <1>7, <1>9, <2>1, <2>5 DEF InsertOf
    <3>2. PICK y : y = [m EXCEPT !.l = e.tree]
      OBVIOUS
    <3>3. e.tree \in Sound => Inside(y, n, "l", e.tree)
      BY <1>9, <2>1, <3>2, InsideNode
    <3>4. d \in Unwind(PullUp(y), e.state, path)
      BY <3>1, <3>2
    <3>5. e \in InsertAt[PushDown(n).l][Logged(c, n, p)][Append(path, "l")][p]
      BY <1>1, <1>4, <3>1
    <3>6. InsertedBelow(d, n, c, path, p, "l", e, y)
      BY <2>3, <2>5, <3>3, <3>4, <3>5 DEF InsertedBelow
    <3> QED
      BY <1>9, <3>6
  <2>6. CASE ~(p[m.axis] < m.pt[m.axis])
    <3>1. PICK e \in right[Logged(c, n, p)][Append(path, "r")][p] :
              d \in Unwind(PullUp([m EXCEPT !.r = e.tree]), e.state, path)
      BY <1>7, <1>9, <2>1, <2>6 DEF InsertOf
    <3>2. PICK y : y = [m EXCEPT !.r = e.tree]
      OBVIOUS
    <3>3. e.tree \in Sound => Inside(y, n, "r", e.tree)
      BY <1>9, <2>1, <3>2, InsideNode
    <3>4. d \in Unwind(PullUp(y), e.state, path)
      BY <3>1, <3>2
    <3>5. e \in InsertAt[PushDown(n).r][Logged(c, n, p)][Append(path, "r")][p]
      BY <1>1, <1>5, <3>1
    <3>6. n.pt[n.axis] <= p[n.axis]
      BY <2>3, <2>4, <2>6
    <3>7. InsertedBelow(d, n, c, path, p, "r", e, y)
      BY <3>3, <3>4, <3>5, <3>6 DEF InsertedBelow
    <3> QED
      BY <1>9, <3>7
  <2> QED
    BY <2>5, <2>6
<1> QED
  BY <1>8, <1>9

\* A node with its label pushed down onto its subtrees.
LEMMA Pushed ==
    ASSUME NEW n \in Sound, ~IsNil(n), NEW m, m = PushDown(n)
    PROVE  /\ m.l \in Sound /\ m.r \in Sound
           /\ m.l.size \in Nat /\ m.r.size \in Nat /\ n.size \in Nat
           /\ n.size = 1 + m.l.size + m.r.size
           /\ m.l.size < n.size /\ m.r.size < n.size /\ n.size <= MaxNodes
           /\ n.pt \in Points /\ n.axis \in Axes
           /\ \A p \in Points : Flatten[n][p] = Own(n, p) + Flatten[m.l][p] + Flatten[m.r][p]
           /\ \A a \in Axes, v \in Int :
                  /\ Below(n, a, v) <=> n.pt[a] <= v /\ Below(m.l, a, v) /\ Below(m.r, a, v)
                  /\ Beyond(n, a, v) <=> v <= n.pt[a] /\ Beyond(m.l, a, v) /\ Beyond(m.r, a, v)
           /\ Below(m.l, n.axis, n.pt[n.axis]) /\ Beyond(m.r, n.axis, n.pt[n.axis])
<1>1. /\ n \in NodesOver(Trees) /\ n.l.size \in Nat /\ n.r.size \in Nat
      /\ n.size = 1 + n.l.size + n.r.size /\ n.size <= MaxNodes /\ Ordered(n)
  BY SoundNode
<1>2. /\ m \in Sound /\ m \in NodesOver(Sound) /\ ~IsNil(m)
      /\ m.l.size = n.l.size /\ m.r.size = n.r.size
  BY PushDownSound
<1>3. \A a, b : /\ Below(m.l, a, b) <=> Below(n.l, a, b)
                /\ Below(m.r, a, b) <=> Below(n.r, a, b)
                /\ Beyond(m.l, a, b) <=> Beyond(n.l, a, b)
                /\ Beyond(m.r, a, b) <=> Beyond(n.r, a, b)
  BY PushDownSound
<1>4. PushDown(n).pt = n.pt /\ PushDown(n).deleted = n.deleted /\ PushDown(n).pushdown = FALSE
  BY <1>1, PushDownFields
<1>5. m.l \in Sound /\ m.r \in Sound
  BY <1>2 DEF NodesOver
<1>6. n.pt \in Points /\ n.axis \in Axes
  BY <1>1, NodeFields
<1>7. ASSUME NEW p \in Points
      PROVE  Flatten[n][p] = Own(n, p) + Flatten[m.l][p] + Flatten[m.r][p]
  <2>1. Flatten[m][p] = Own(m, p) + Flatten[m.l][p] + Flatten[m.r][p]
    BY <1>2, <1>4, FlattenNode
  <2>2. Own(m, p) = Own(n, p)
    BY <1>4 DEF Own
  <2> QED
    BY <2>1, <2>2, FlattenPushDown
<1>8. ASSUME NEW a \in Axes, NEW v \in Int
      PROVE  /\ Below(n, a, v) <=> n.pt[a] <= v /\ Below(m.l, a, v) /\ Below(m.r, a, v)
             /\ Beyond(n, a, v) <=> v <= n.pt[a] /\ Beyond(m.l, a, v) /\ Beyond(m.r, a, v)
  BY <1>3, SoundBox
<1>9. Below(m.l, n.axis, n.pt[n.axis]) /\ Beyond(m.r, n.axis, n.pt[n.axis])
  BY <1>1, <1>3 DEF Ordered
<1>10. /\ m.l.size \in Nat /\ m.r.size \in Nat /\ n.size \in Nat
       /\ n.size = 1 + m.l.size + m.r.size
       /\ m.l.size < n.size /\ m.r.size < n.size /\ n.size <= MaxNodes
  BY <1>1, <1>2
<1> QED
  BY <1>5, <1>6, <1>7, <1>8, <1>9, <1>10

LEMMA LeafGained ==
    ASSUME NEW p \in Points, MaxNodes >= 1, NEW x, x = PullUp(Leaf(p))
    PROVE  /\ Gained(x, Nil, p)
           /\ ~x.pushdown /\ ~x.underRebuild /\ x.l = Nil /\ x.r = Nil
           /\ x.size = 1
<1>1. PICK y : y = Leaf(p)
  OBVIOUS
<1>2. /\ y \in NodesOver(Sound)
      /\ y.pt = p /\ y.l = Nil /\ y.r = Nil /\ ~y.deleted /\ ~y.pushdown /\ ~y.underRebuild
  BY <1>1, SoundNil, GeometryAssumption DEF Leaf, NodesOver, Axes
<1>3. /\ IsNil(Nil) /\ Nil \in Trees /\ Nil.size = 0
      /\ \A a, v : Below(Nil, a, v) /\ Beyond(Nil, a, v)
  BY NilTree DEF IsNil, Below, Beyond
<1>4. Ordered(y) /\ 1 + y.l.size + y.r.size <= MaxNodes
  BY <1>2, <1>3 DEF Ordered
<1>5. /\ x \in Sound /\ ~IsNil(x) /\ ~x.pushdown /\ ~x.underRebuild
      /\ x.l = Nil /\ x.r = Nil
      /\ x.size = 1
      /\ \A q \in Points : Flatten[x][q] = Own(y, q) + Flatten[Nil][q] + Flatten[Nil][q]
      /\ \A a \in Axes, v \in Int :
             /\ Below(x, a, v) <=> p[a] <= v
             /\ Beyond(x, a, v) <=> v <= p[a]
  BY <1>1, <1>2, <1>3, <1>4, PulledUp
<1>6. Flatten[Nil] = NoPoints /\ NoPoints \in Multisets /\ \A q \in Points : NoPoints[q] = 0
  BY <1>3, FlattenLabelled DEF NoPoints, Multisets
<1>7. Flatten[x] = AddOne(NoPoints, p)
  <2>1. \A q \in Points : Own(y, q) = IF q = p THEN 1 ELSE 0
    BY <1>2 DEF Own
  <2>2. AddOne(NoPoints, p) \in Multisets
        /\ \A q \in Points : AddOne(NoPoints, p)[q] = IF q = p THEN 1 ELSE 0
    BY <1>6 DEF AddOne, Multisets
  <2>3. Flatten[x] \in Multisets
    BY <1>5, FlattenType DEF Sound
  <2>4. \A q \in Points : Flatten[x][q] = AddOne(NoPoints, p)[q]
    BY <1>5, <1>6, <2>1, <2>2
  <2> QED
    BY <2>2, <2>3, <2>4, SameBag
<1>8. Widened(x, Nil, p)
  BY <1>3, <1>5 DEF Widened
<1> QED
  BY <1>5, <1>6, <1>7, <1>8 DEF Gained

LEMMA NodeGained ==
    ASSUME NEW n \in Sound, ~IsNil(n), n.size < MaxNodes, NEW p \in Points,
           NEW side \in {"l", "r"},
           NEW child, child = (IF side = "l" THEN PushDown(n).l ELSE PushDown(n).r),
           IF side = "l" THEN p[n.axis] < n.pt[n.axis] ELSE n.pt[n.axis] <= p[n.axis],
           NEW t, Gained(t, child, p), NEW y, Inside(y, n, side, t)
    PROVE  /\ y \in NodesOver(Sound) /\ ~y.pushdown /\ Ordered(y)
           /\ 1 + y.l.size + y.r.size <= MaxNodes
           /\ Gained(PullUp(y), n, p)
<1> PICK m : m = PushDown(n)
  OBVIOUS
<1>1. /\ m.l \in Sound /\ m.r \in Sound
      /\ m.l.size \in Nat /\ m.r.size \in Nat /\ n.size \in Nat
      /\ n.size = 1 + m.l.size + m.r.size
      /\ n.pt \in Points /\ n.axis \in Axes
  BY Pushed
<1>2. \A q \in Points : Flatten[n][q] = Own(n, q) + Flatten[m.l][q] + Flatten[m.r][q]
  BY Pushed
<1>3. \A a \in Axes, v \in Int :
          /\ Below(n, a, v) <=> n.pt[a] <= v /\ Below(m.l, a, v) /\ Below(m.r, a, v)
          /\ Beyond(n, a, v) <=> v <= n.pt[a] /\ Beyond(m.l, a, v) /\ Beyond(m.r, a, v)
  BY Pushed
<1>4. Below(m.l, n.axis, n.pt[n.axis]) /\ Beyond(m.r, n.axis, n.pt[n.axis])
  BY Pushed
<1>5. /\ y \in NodesOver(Sound) /\ ~y.pushdown
      /\ y.pt = n.pt /\ y.axis = n.axis /\ (y.deleted <=> n.deleted)
      /\ y.l = IF side = "l" THEN t ELSE m.l
      /\ y.r = IF side = "r" THEN t ELSE m.r
  BY DEF Inside
<1>6. /\ t \in Sound /\ ~IsNil(t) /\ Flatten[t] = AddOne(Flatten[child], p)
      /\ t.size <= child.size + 1
      /\ \A a \in Axes, v \in Int : /\ Below(child, a, v) /\ p[a] <= v => Below(t, a, v)
                                    /\ Beyond(child, a, v) /\ v <= p[a] => Beyond(t, a, v)
  BY DEF Gained, Widened
<1>7. \A a \in Axes : p[a] \in Int /\ n.pt[a] \in Int
  BY <1>1, GeometryAssumption DEF Corners
<1>8. Ordered(y)
  <2>1. CASE side = "l"
    <3>1. Below(t, n.axis, n.pt[n.axis])
      BY <1>1, <1>4, <1>6, <1>7, <2>1
    <3> QED
      BY <1>4, <1>5, <2>1, <3>1 DEF Ordered
  <2>2. CASE side = "r"
    <3>1. Beyond(t, n.axis, n.pt[n.axis])
      BY <1>1, <1>4, <1>6, <1>7, <2>2
    <3> QED
      BY <1>4, <1>5, <2>2, <3>1 DEF Ordered
  <2> QED
    BY <2>1, <2>2
<1>9. t.size \in Nat
  BY <1>6, SizeType DEF Sound
<1>10. 1 + y.l.size + y.r.size <= n.size + 1
  BY <1>1, <1>5, <1>6, <1>9
<1>11. 1 + y.l.size + y.r.size <= MaxNodes
  <2>1. y.l.size \in Nat /\ y.r.size \in Nat
    BY <1>1, <1>5, <1>9
  <2> QED
    BY <1>1, <1>10, <2>1, ThresholdAssumption
<1>12. PICK x : x = PullUp(y)
  OBVIOUS
<1>13. /\ x \in Sound /\ ~IsNil(x)
       /\ x.size = 1 + y.l.size + y.r.size
       /\ \A q \in Points : Flatten[x][q] = Own(y, q) + Flatten[y.l][q] + Flatten[y.r][q]
       /\ \A a \in Axes, v \in Int :
              /\ Below(x, a, v) <=> y.pt[a] <= v /\ Below(y.l, a, v) /\ Below(y.r, a, v)
              /\ Beyond(x, a, v) <=> v <= y.pt[a] /\ Beyond(y.l, a, v) /\ Beyond(y.r, a, v)
  BY <1>5, <1>8, <1>11, <1>12, PulledUp
<1>14. Flatten[x] = AddOne(Flatten[n], p)
  <2>1. \A q \in Points : Own(y, q) = Own(n, q)
    BY <1>5 DEF Own
  <2>2. /\ Flatten[child] \in Multisets /\ Flatten[n] \in Multisets /\ Flatten[x] \in Multisets
        /\ Flatten[m.l] \in Multisets /\ Flatten[m.r] \in Multisets
    BY <1>1, <1>13, FlattenType DEF Sound
  <2>3. AddOne(Flatten[n], p) \in Multisets
        /\ \A q \in Points : AddOne(Flatten[n], p)[q] = Flatten[n][q] + IF q = p THEN 1 ELSE 0
    BY <2>2 DEF AddOne, Multisets
  <2>4. \A q \in Points : Flatten[t][q] = Flatten[child][q] + IF q = p THEN 1 ELSE 0
    BY <1>6, <2>2 DEF AddOne, Multisets
  <2>5. \A q \in Points : /\ Flatten[child][q] \in Nat /\ Own(n, q) \in Nat
                          /\ Flatten[m.l][q] \in Nat /\ Flatten[m.r][q] \in Nat
    BY <2>2 DEF Multisets, Own
  <2>6. ASSUME NEW q \in Points PROVE Flatten[x][q] = AddOne(Flatten[n], p)[q]
    <3>1. Flatten[x][q] = Own(n, q) + Flatten[y.l][q] + Flatten[y.r][q]
      BY <1>13, <2>1
    <3>2. Flatten[n][q] = Own(n, q) + Flatten[m.l][q] + Flatten[m.r][q]
      BY <1>2
    <3>3. Flatten[y.l][q] + Flatten[y.r][q]
              = Flatten[m.l][q] + Flatten[m.r][q] + IF q = p THEN 1 ELSE 0
      BY <1>5, <2>4, <2>5
    <3> QED
      BY <1>5, <2>3, <2>4, <2>5, <3>1, <3>2, <3>3
  <2> QED
    BY <2>2, <2>3, <2>6, SameBag
<1>15. Widened(x, n, p)
  <2>1. ASSUME NEW a \in Axes, NEW v \in Int
        PROVE  /\ Below(n, a, v) /\ p[a] <= v => Below(x, a, v)
               /\ Beyond(n, a, v) /\ v <= p[a] => Beyond(x, a, v)
    BY <1>3, <1>5, <1>6, <1>13
  <2> QED
    BY <1>10, <1>13, <2>1 DEF Widened
<1> QED
  BY <1>5, <1>8, <1>11, <1>12, <1>13, <1>14, <1>15 DEF Gained

LEMMA FitsGained ==
    ASSUME NEW n \in Sound, NEW p \in Points, NEW x, Gained(x, n, p),
           NEW t \in Sound, Flatten[t] = Flatten[x], Fits(t, x)
    PROVE  Gained(t, n, p)
<1>1. /\ Flatten[x] = AddOne(Flatten[n], p)
      /\ x.size <= n.size + 1
      /\ \A a \in Axes, v \in Int : /\ Below(n, a, v) /\ p[a] <= v => Below(x, a, v)
                                    /\ Beyond(n, a, v) /\ v <= p[a] => Beyond(x, a, v)
      /\ x \in Sound
  BY DEF Gained, Widened
<1>2. x.size \in Nat /\ n.size \in Nat /\ t.size \in Nat
  BY <1>1, SizeType DEF Sound
<1>3. /\ t.size <= x.size
      /\ \A a \in Axes, v \in Int : /\ Below(x, a, v) => Below(t, a, v)
                                    /\ Beyond(x, a, v) => Beyond(t, a, v)
  BY DEF Fits
<1>4. Widened(t, n, p)
  <2>1. t.size <= n.size + 1
    BY <1>1, <1>2, <1>3
  <2> QED
    BY <1>1, <1>3, <2>1 DEF Widened
<1>5. ~IsNil(t)
  <2>1. SUFFICES ASSUME IsNil(t) PROVE FALSE
    OBVIOUS
  <2>2. Flatten[t] = NoPoints /\ t \in Trees
    BY <2>1, FlattenLabelled DEF Sound
  <2>3. Flatten[n] \in Multisets
    BY FlattenType DEF Sound
  <2>4. AddOne(Flatten[n], p)[p] = Flatten[n][p] + 1 /\ Flatten[n][p] \in Nat
    BY <2>3 DEF AddOne, Multisets
  <2> QED
    BY <1>1, <2>2, <2>4 DEF NoPoints
<1> QED
  BY <1>1, <1>4, <1>5 DEF Gained

\* Every outcome of an insertion is a sound tree with exactly the point more,
\* whatever rebuilds it has done or started on the way (ikd_tree.cpp:230-258).
THEOREM InsertGains ==
    ASSUME NEW n \in Sound, n.size < MaxNodes, NEW c \in RebuildStates, NEW path \in Routes,
           NEW p \in Points, NEW d \in InsertAt[n][c][path][p]
    PROVE  Gained(d.tree, n, p) /\ d.state \in RebuildStates
<1> DEFINE Holds(t) == \A k \in RebuildStates : \A way \in Routes : \A o \in InsertAt[t][k][way][p] :
                           Gained(o.tree, t, p) /\ o.state \in RebuildStates
           S == {t \in Sound : t.size < MaxNodes => Holds(t)}
<1>1. MaxNodes \in Nat
  BY ThresholdAssumption
<1>2. Nil \in S
  <2>1. SUFFICES ASSUME NEW k \in RebuildStates, NEW way \in Routes,
                        NEW o \in InsertAt[Nil][k][way][p], Nil.size < MaxNodes
                 PROVE  Gained(o.tree, Nil, p) /\ o.state \in RebuildStates
    BY SoundNil
  <2>2. IsNil(Nil) /\ Nil.size = 0
    BY NilTree DEF IsNil
  <2>3. o.tree = PullUp(Leaf(p)) /\ o.state = k
    BY <2>2, SoundNil, InsertCases
  <2>4. MaxNodes >= 1
    BY <1>1, <2>1, <2>2
  <2> QED
    BY <2>3, <2>4, LeafGained
<1>3. ASSUME NEW t \in Sound, ~IsNil(t), \A u \in Sound : u.size < t.size => u \in S
      PROVE  t \in S
  <2>1. SUFFICES ASSUME NEW k \in RebuildStates, NEW way \in Routes,
                        NEW o \in InsertAt[t][k][way][p], t.size < MaxNodes
                 PROVE  Gained(o.tree, t, p) /\ o.state \in RebuildStates
    OBVIOUS
  <2>2. PICK side \in {"l", "r"} : \E e, y : InsertedBelow(o, t, k, way, p, side, e, y)
    BY <1>3, InsertCases
  <2>3. PICK e, y : InsertedBelow(o, t, k, way, p, side, e, y)
    BY <2>2
  <2>4. PICK child : child = IF side = "l" THEN PushDown(t).l ELSE PushDown(t).r
    OBVIOUS
  <2>5. /\ child \in Sound /\ child.size < t.size /\ child.size \in Nat /\ t.size \in Nat
    BY <1>3, <2>4, Pushed
  <2>6. Holds(child)
    BY <1>1, <1>3, <2>1, <2>5
  <2>7. Logged(k, t, p) \in RebuildStates /\ Append(way, side) \in Routes
    BY StateSteps, RouteSteps
  <2>8. /\ e \in InsertAt[child][Logged(k, t, p)][Append(way, side)][p]
        /\ IF side = "l" THEN p[t.axis] < t.pt[t.axis] ELSE t.pt[t.axis] <= p[t.axis]
        /\ o \in Unwind(PullUp(y), e.state, way)
        /\ e.tree \in Sound => Inside(y, t, side, e.tree)
    BY <2>3, <2>4 DEF InsertedBelow
  <2>9. Gained(e.tree, child, p) /\ e.state \in RebuildStates
    BY <2>6, <2>7, <2>8
  <2>10. Inside(y, t, side, e.tree)
    BY <2>8, <2>9 DEF Gained
  <2>11. /\ y \in NodesOver(Sound) /\ ~y.pushdown /\ Ordered(y)
         /\ 1 + y.l.size + y.r.size <= MaxNodes
         /\ Gained(PullUp(y), t, p)
    BY <1>3, <2>1, <2>4, <2>8, <2>9, <2>10, NodeGained
  <2>12. PICK x : x = PullUp(y)
    OBVIOUS
  <2>13. x \in Sound /\ ~IsNil(x) /\ ~x.pushdown
    BY <2>11, <2>12, PulledUp
  <2>14. /\ o.tree \in Sound /\ Flatten[o.tree] = Flatten[x] /\ Fits(o.tree, x)
         /\ o.state \in RebuildStates
    BY <2>8, <2>9, <2>12, <2>13, UnwindCases
  <2>15. Gained(o.tree, t, p)
    BY <2>5, <2>11, <2>12, <2>13, <2>14, FitsGained
  <2> QED
    BY <2>14, <2>15
<1>4. Sound \subseteq S
  <2> HIDE DEF S
  <2> QED
    BY <1>2, <1>3, SoundInduction
<1> QED
  BY <1>4

-----------------------------------------------------------------------------
(* Paths that lead to one another, and what is recorded along them *)

\* The node at path v is the one at u or below it.
Leads(u, v) == \E w \in Routes : v = u \o w

LEMMA LeadsSteps ==
    ASSUME NEW u \in Routes, NEW v \in Routes, NEW s \in {"l", "r"}, NEW o \in {"l", "r"}
    PROVE  /\ Leads(<<>>, v) /\ Leads(u, u)
           /\ Leads(<<s>> \o u, <<o>> \o v) <=> s = o /\ Leads(u, v)
           /\ <<s>> \o u = <<o>> \o v <=> s = o /\ u = v
           /\ ~Leads(<<s>> \o u, <<>>)
<1>1. Leads(<<>>, v) /\ Leads(u, u)
  BY RouteSteps DEF Leads
<1>2. <<s>> \in Seq({"l", "r"}) /\ u \in Seq({"l", "r"})
  BY DEF Routes
<1>3. ASSUME NEW w \in Routes
      PROVE  (<<s>> \o u) \o w = <<s>> \o (u \o w) /\ u \o w \in Routes
  <2>1. w \in Seq({"l", "r"})
    BY DEF Routes
  <2> QED
    BY <1>2, <2>1, ConcatAssociative, ConcatProperties DEF Routes
<1>4. <<s>> \o u = <<o>> \o v <=> s = o /\ u = v
  BY FirstStep
<1>5. ASSUME Leads(<<s>> \o u, <<o>> \o v) PROVE s = o /\ Leads(u, v)
  <2>1. PICK w \in Routes : <<o>> \o v = (<<s>> \o u) \o w
    BY <1>5 DEF Leads
  <2>2. PICK x \in Routes : x = u \o w
    BY <1>3
  <2>3. <<o>> \o v = <<s>> \o x
    BY <1>3, <2>1, <2>2
  <2>4. o = s /\ v = x
    <3>1. Head(<<o>> \o v) = o /\ Tail(<<o>> \o v) = v
      BY FirstStep
    <3>2. Head(<<s>> \o x) = s /\ Tail(<<s>> \o x) = x
      BY FirstStep
    <3> QED
      BY <2>3, <3>1, <3>2
  <2> QED
    BY <2>2, <2>4 DEF Leads
<1>6. ASSUME s = o, Leads(u, v) PROVE Leads(<<s>> \o u, <<o>> \o v)
  <2>1. PICK w \in Routes : v = u \o w
    BY <1>6 DEF Leads
  <2>2. <<o>> \o v = (<<s>> \o u) \o w
    BY <1>3, <1>6, <2>1
  <2> QED
    BY <2>2 DEF Leads
<1>7. ~Leads(<<s>> \o u, <<>>)
  <2>1. SUFFICES ASSUME NEW w \in Routes, <<>> = (<<s>> \o u) \o w PROVE FALSE
    BY DEF Leads
  <2>2. PICK x \in Routes : x = u \o w
    BY <1>3
  <2>3. <<>> = <<s>> \o x
    BY <1>3, <2>1, <2>2
  <2> QED
    BY <2>3, FirstStep
<1> QED
  BY <1>1, <1>4, <1>5, <1>6, <1>7

\* The nodes at and above which no label waits to be pushed down.
Open(n) == {q \in Paths(n) : \A u \in Paths(n) : Leads(u, q) => ~At(n, u).pushdown}

LEMMA OpenNode ==
    ASSUME NEW n \in Trees, ~IsNil(n)
    PROVE  /\ <<>> \in Open(n) <=> ~n.pushdown
           /\ \A q \in Routes : /\ <<"l">> \o q \in Open(n) <=> ~n.pushdown /\ q \in Open(n.l)
                                /\ <<"r">> \o q \in Open(n) <=> ~n.pushdown /\ q \in Open(n.r)
           /\ \A q \in Open(n) : \/ q = <<>>
                                 \/ \E u \in Open(n.l) : q = <<"l">> \o u
                                 \/ \E u \in Open(n.r) : q = <<"r">> \o u
           /\ n.pushdown => Open(n) = {}
           /\ Open(n) \subseteq Routes
<1> HIDE DEF Paths, At
<1>1. n.l \in Trees /\ n.r \in Trees
  BY TreeNode, NodeFields
<1>2. Paths(n) \subseteq Routes /\ Paths(n.l) \subseteq Routes /\ Paths(n.r) \subseteq Routes
  BY <1>1, PathsType
<1>3. <<>> \in Paths(n) /\ At(n, <<>>) = n /\ <<>> \in Routes
  BY NodesBelow DEF Routes
<1>4. n.pushdown => Open(n) = {}
  BY <1>2, <1>3, LeadsSteps DEF Open
<1>5. ~n.pushdown => <<>> \in Open(n)
  <2>1. \A u \in Paths(n) : Leads(u, <<>>) => u = <<>>
    <3>1. SUFFICES ASSUME NEW u \in Paths(n), Leads(u, <<>>), u # <<>> PROVE FALSE
      OBVIOUS
    <3>2. u \in Routes
      BY <1>2
    <3>3. PICK s \in {"l", "r"}, v \in Routes : u = <<s>> \o v
      BY <3>1, <3>2, SplitPath
    <3>4. ~Leads(<<s>> \o v, <<>>)
      BY LeadsSteps
    <3> QED
      BY <3>1, <3>3, <3>4
  <2> QED
    BY <1>3, <2>1 DEF Open
<1>6. ASSUME NEW q \in Routes, ~n.pushdown
      PROVE  /\ <<"l">> \o q \in Open(n) <=> q \in Open(n.l)
             /\ <<"r">> \o q \in Open(n) <=> q \in Open(n.r)
  <2>1. ASSUME NEW s \in {"l", "r"}, NEW child, child = IF s = "l" THEN n.l ELSE n.r
        PROVE  <<s>> \o q \in Open(n) <=> q \in Open(child)
    <3>1. /\ \A u \in Routes : <<s>> \o u \in Paths(n) <=> u \in Paths(child)
          /\ \A u \in Paths(child) : At(n, <<s>> \o u) = At(child, u)
          /\ Paths(child) \subseteq Routes
      BY <1>2, <2>1, NodesBelow
    <3>2. ASSUME <<s>> \o q \in Open(n) PROVE q \in Open(child)
      <4>1. q \in Paths(child)
        BY <3>1, <3>2 DEF Open
      <4>2. ASSUME NEW u \in Paths(child), Leads(u, q) PROVE ~At(child, u).pushdown
        <5>1. u \in Routes /\ <<s>> \o u \in Paths(n) /\ At(n, <<s>> \o u) = At(child, u)
          BY <3>1
        <5>2. Leads(<<s>> \o u, <<s>> \o q)
          BY <4>2, <5>1, LeadsSteps
        <5> QED
          BY <3>2, <5>1, <5>2 DEF Open
      <4> QED
        BY <4>1, <4>2 DEF Open
    <3>3. ASSUME q \in Open(child) PROVE <<s>> \o q \in Open(n)
      <4>1. <<s>> \o q \in Paths(n)
        BY <3>1, <3>3 DEF Open
      <4>2. ASSUME NEW u \in Paths(n), Leads(u, <<s>> \o q) PROVE ~At(n, u).pushdown
        <5>1. CASE u = <<>>
          BY <1>3, <1>6, <5>1
        <5>2. CASE u # <<>>
          <6>1. PICK o \in {"l", "r"}, v \in Routes : u = <<o>> \o v
            BY <1>2, <5>2, SplitPath
          <6>2. o = s /\ Leads(v, q)
            BY <4>2, <6>1, LeadsSteps
          <6>3. v \in Paths(child) /\ At(n, u) = At(child, v)
            BY <3>1, <6>1, <6>2
          <6> QED
            BY <3>3, <6>2, <6>3 DEF Open
        <5> QED
          BY <5>1, <5>2
      <4> QED
        BY <4>1, <4>2 DEF Open
    <3> QED
      BY <3>2, <3>3
  <2> QED
    BY <2>1
<1>7. Open(n) \subseteq Routes
  BY <1>2 DEF Open
<1>8. ASSUME NEW q \in Open(n)
      PROVE  \/ q = <<>>
             \/ \E u \in Open(n.l) : q = <<"l">> \o u
             \/ \E u \in Open(n.r) : q = <<"r">> \o u
  <2>1. ~n.pushdown /\ q \in Routes
    BY <1>4, <1>7
  <2>2. CASE q # <<>>
    <3>1. q = <<Head(q)>> \o Tail(q) /\ Head(q) \in {"l", "r"} /\ Tail(q) \in Routes
      BY <2>1, <2>2, SplitPath
    <3> QED
      BY <1>6, <2>1, <3>1
  <2> QED
    BY <2>2
<1> HIDE DEF Open
<1> QED
  BY <1>4, <1>5, <1>6, <1>7, <1>8

-----------------------------------------------------------------------------
(* Insertion while a rebuild is in flight *)

\* Tree t is n with more leaves: no node has moved, no flag has changed, and
\* no label waits where none waited.
Grown(n, t) ==
    /\ \A q \in Paths(n) : q \in Paths(t) /\ At(t, q).pt = At(n, q).pt
    /\ Flags(t) = Flags(n)
    /\ Open(n) \subseteq Open(t)

LEMMA GrownSelf == \A n : Grown(n, n)
  BY DEF Grown

LEMMA DeletedPaths ==
    ASSUME NEW n \in Sound, NEW t, t = Deleted(n)
    PROVE  /\ Paths(t) = Paths(n)
           /\ \A q \in Paths(n) : At(t, q).pt = At(n, q).pt
           /\ Flags(t) = Flags(n)
<1> HIDE DEF Paths, At
<1>1. CASE IsNil(n)
  BY <1>1 DEF Deleted
<1>2. CASE ~IsNil(n)
  <2>1. n \in NodesOver(Trees) /\ n \in Trees
    BY <1>2, SoundNode DEF Sound
  <2>2. t.pt = n.pt /\ t.l = n.l /\ t.r = n.r /\ t.underRebuild = n.underRebuild
    BY <2>1, DeletedFields
  <2>3. t \in Trees /\ ~IsNil(t)
    BY <1>2, DeletedSound DEF Sound
  <2>4. n.l \in Trees /\ n.r \in Trees
    BY <2>1, NodeFields
  <2>5. Paths(t) = Paths(n)
    BY <1>2, <2>1, <2>2, <2>3, NodesUnfold
  <2>6. ASSUME NEW q \in Paths(n)
        PROVE  At(t, q).pt = At(n, q).pt /\ (At(t, q).underRebuild <=> At(n, q).underRebuild)
    <3>1. CASE q = <<>>
      <4>1. At(t, q) = t /\ At(n, q) = n
        BY <1>2, <2>1, <2>3, <3>1, NodesBelow
      <4> QED
        BY <2>2, <4>1
    <3>2. CASE q # <<>>
      <4>1. At(t, q) = At(n, q)
        BY <1>2, <2>1, <2>2, <2>3, <2>5, <3>2, NodesUnfold
      <4> QED
        BY <4>1
    <3> QED
      BY <3>1, <3>2
  <2> QED
    BY <2>5, <2>6 DEF Flags
<1> QED
  BY <1>1, <1>2

\* Pushing a label down moves nothing.
LEMMA PushedPaths ==
    ASSUME NEW n \in Sound, ~IsNil(n), NEW m, m = PushDown(n)
    PROVE  /\ Paths(m.l) = Paths(n.l) /\ Paths(m.r) = Paths(n.r)
           /\ \A q \in Paths(n.l) : At(m.l, q).pt = At(n.l, q).pt
           /\ \A q \in Paths(n.r) : At(m.r, q).pt = At(n.r, q).pt
           /\ Flags(m.l) = Flags(n.l) /\ Flags(m.r) = Flags(n.r)
           /\ ~n.pushdown => m.l = n.l /\ m.r = n.r
<1> HIDE DEF Paths, At
<1>1. n \in NodesOver(Trees) /\ n.l \in Sound /\ n.r \in Sound
  BY SoundNode
<1>2. /\ m.l = IF n.pushdown THEN Deleted(n.l) ELSE n.l
      /\ m.r = IF n.pushdown THEN Deleted(n.r) ELSE n.r
  BY <1>1, PushDownFields
<1> QED
  BY <1>1, <1>2, DeletedPaths

LEMMA FlagsInto ==
    ASSUME NEW n \in Trees, ~IsNil(n), NEW x \in Trees, ~IsNil(x),
           n.underRebuild => x.underRebuild,
           Flags(n.l) \subseteq Flags(x.l), Flags(n.r) \subseteq Flags(x.r)
    PROVE  Flags(n) \subseteq Flags(x)
<1> SUFFICES ASSUME NEW q \in Flags(n) PROVE q \in Flags(x)
  OBVIOUS
<1> HIDE DEF Paths, At
<1>1. n.l \in Trees /\ n.r \in Trees
  BY TreeNode, NodeFields
<1>2. Flags(n.l) \subseteq Routes /\ Flags(n.r) \subseteq Routes
  BY <1>1, PathsType DEF Flags
<1>3. \/ q = <<>>
      \/ \E u \in Flags(n.l) : q = <<"l">> \o u
      \/ \E u \in Flags(n.r) : q = <<"r">> \o u
  BY FlagsNode
<1>4. CASE q = <<>>
  BY <1>4, FlagsNode
<1>5. ASSUME NEW u \in Flags(n.l), q = <<"l">> \o u PROVE q \in Flags(x)
  <2>1. <<"l">> \o u \in Flags(x) <=> u \in Flags(x.l)
    BY <1>2, FlagsNode
  <2> QED
    BY <1>5, <2>1
<1>6. ASSUME NEW u \in Flags(n.r), q = <<"r">> \o u PROVE q \in Flags(x)
  <2>1. <<"r">> \o u \in Flags(x) <=> u \in Flags(x.r)
    BY <1>2, FlagsNode
  <2> QED
    BY <1>6, <2>1
<1> QED
  BY <1>3, <1>4, <1>5, <1>6

LEMMA GrownNode ==
    ASSUME NEW n \in Sound, ~IsNil(n), NEW m, m = PushDown(n),
           NEW x \in Sound, ~IsNil(x), x.pt = n.pt, ~x.pushdown,
           x.underRebuild <=> n.underRebuild,
           Grown(m.l, x.l), Grown(m.r, x.r)
    PROVE  Grown(n, x)
<1> HIDE DEF Paths, At
<1>1. n \in Trees /\ x \in Trees /\ n.l \in Trees /\ n.r \in Trees
      /\ x.l \in Trees /\ x.r \in Trees
  BY SoundNode DEF Sound
<1>2. /\ Paths(m.l) = Paths(n.l) /\ Paths(m.r) = Paths(n.r)
      /\ \A q \in Paths(n.l) : At(m.l, q).pt = At(n.l, q).pt
      /\ \A q \in Paths(n.r) : At(m.r, q).pt = At(n.r, q).pt
      /\ Flags(m.l) = Flags(n.l) /\ Flags(m.r) = Flags(n.r)
      /\ ~n.pushdown => m.l = n.l /\ m.r = n.r
  BY PushedPaths
<1>3. Paths(n) \subseteq Routes /\ Paths(n.l) \subseteq Routes /\ Paths(n.r) \subseteq Routes
  BY <1>1, PathsType
<1>4. ASSUME NEW q \in Paths(n) PROVE q \in Paths(x) /\ At(x, q).pt = At(n, q).pt
  <2>1. CASE q = <<>> /\ At(n, q) = n
    BY <1>1, <2>1, NodesBelow
  <2>2. ASSUME NEW u \in Paths(n.l), q = <<"l">> \o u, At(n, q) = At(n.l, u)
        PROVE  q \in Paths(x) /\ At(x, q).pt = At(n, q).pt
    <3>1. u \in Paths(x.l) /\ At(x.l, u).pt = At(n.l, u).pt
      BY <1>2 DEF Grown
    <3>2. <<"l">> \o u \in Paths(x) /\ At(x, <<"l">> \o u) = At(x.l, u)
      BY <1>1, <1>3, <3>1, NodesBelow
    <3> QED
      BY <2>2, <3>1, <3>2
  <2>3. ASSUME NEW u \in Paths(n.r), q = <<"r">> \o u, At(n, q) = At(n.r, u)
        PROVE  q \in Paths(x) /\ At(x, q).pt = At(n, q).pt
    <3>1. u \in Paths(x.r) /\ At(x.r, u).pt = At(n.r, u).pt
      BY <1>2 DEF Grown
    <3>2. <<"r">> \o u \in Paths(x) /\ At(x, <<"r">> \o u) = At(x.r, u)
      BY <1>1, <1>3, <3>1, NodesBelow
    <3> QED
      BY <2>3, <3>1, <3>2
  <2> QED
    BY <1>1, <2>1, <2>2, <2>3, PathCases
<1>5. Flags(x) = Flags(n)
  <2>1. Flags(x.l) = Flags(n.l) /\ Flags(x.r) = Flags(n.r)
    BY <1>2 DEF Grown
  <2>2. Flags(x) \subseteq Flags(n) /\ Flags(n) \subseteq Flags(x)
    BY <1>1, <2>1, FlagsInto
  <2> QED
    BY <2>2
<1>6. ASSUME NEW q \in Open(n) PROVE q \in Open(x)
  <2>1. ~n.pushdown
    BY <1>1, OpenNode
  <2>2. Open(n.l) \subseteq Open(x.l) /\ Open(n.r) \subseteq Open(x.r)
    BY <1>2, <2>1 DEF Grown
  <2>3. Open(n.l) \subseteq Routes /\ Open(n.r) \subseteq Routes
    BY <1>3 DEF Open
  <2>4. \/ q = <<>>
        \/ \E u \in Open(n.l) : q = <<"l">> \o u
        \/ \E u \in Open(n.r) : q = <<"r">> \o u
    BY <1>1, OpenNode
  <2>5. /\ ~IsNil(x) /\ ~x.pushdown
        /\ <<>> \in Open(x) <=> ~x.pushdown
        /\ \A v \in Routes : /\ <<"l">> \o v \in Open(x) <=> ~x.pushdown /\ v \in Open(x.l)
                             /\ <<"r">> \o v \in Open(x) <=> ~x.pushdown /\ v \in Open(x.r)
    BY <1>1, OpenNode
  <2> HIDE DEF Open
  <2>6. CASE q = <<>>
    BY <2>5, <2>6
  <2>7. CASE \E u \in Open(n.l) : q = <<"l">> \o u
    BY <2>2, <2>3, <2>5, <2>7
  <2>8. CASE \E u \in Open(n.r) : q = <<"r">> \o u
    BY <2>2, <2>3, <2>5, <2>8
  <2> QED
    BY <2>4, <2>6, <2>7, <2>8
<1> QED
  BY <1>4, <1>5, <1>6 DEF Grown

\* A rebuild is in flight that an earlier operation has started.
Busy(c) == c.slot # NoSlot /\ ~c.capturing

\* The insertion of p below the slot s is logged; one that passes it by is not.
Logs(d, n, c, p, s) ==
    \/ d.state = c /\ Flatten[At(d.tree, s)] = Flatten[At(n, s)]
    \/ /\ d.state = [c EXCEPT !.log = Append(c.log, p)]
       /\ Flatten[At(d.tree, s)] = AddOne(Flatten[At(n, s)], p)

InsertedInFlight(d, n, c, p) ==
    /\ Grown(n, d.tree)
    /\ Busy(d.state)
    /\ Flags(n) = {} => d.state = c
    /\ \A s \in Open(n) : Flags(n) = {s} => Logs(d, n, c, p, s)

LEMMA LoggedBusy ==
    ASSUME NEW c \in RebuildStates, Busy(c), NEW n, NEW p \in Points
    PROVE  /\ Busy(Logged(c, n, p))
           /\ n.underRebuild => Logged(c, n, p) = [c EXCEPT !.log = Append(c.log, p)]
BY DEF RebuildStates, Busy, Logged

LEMMA UnwindBusy ==
    ASSUME NEW x \in Sound, ~IsNil(x), ~x.pushdown, NEW c \in RebuildStates, Busy(c),
           NEW path \in Routes, NEW d \in Unwind(x, c, path)
    PROVE  d.tree = x /\ d.state = c
<1>1. Kept(d, x, c, path) \/ Frozen(d, x, c, path) \/ Rebuilt(d, x, c)
  BY UnwindCases
<1>2. c.slot # NoSlot /\ ~c.capturing
  BY DEF Busy
<1>3. ~Frozen(d, x, c, path) /\ ~Rebuilt(d, x, c)
  BY <1>2 DEF Frozen, Rebuilt
<1> QED
  BY <1>1, <1>2, <1>3 DEF Kept, Captured

\* The flags and open paths of a node split over its subtrees.
LEMMA SlotBelow ==
    ASSUME NEW n \in Sound, ~IsNil(n), NEW s \in Open(n), Flags(n) = {s}
    PROVE  /\ ~n.pushdown
           /\ \/ s = <<>> /\ n.underRebuild /\ Flags(n.l) = {} /\ Flags(n.r) = {}
              \/ \E u \in Open(n.l) : /\ s = <<"l">> \o u /\ ~n.underRebuild
                                      /\ Flags(n.l) = {u} /\ Flags(n.r) = {}
                                      /\ u \in Paths(n.l) /\ At(n, s) = At(n.l, u)
              \/ \E u \in Open(n.r) : /\ s = <<"r">> \o u /\ ~n.underRebuild
                                      /\ Flags(n.r) = {u} /\ Flags(n.l) = {}
                                      /\ u \in Paths(n.r) /\ At(n, s) = At(n.r, u)
<1> HIDE DEF Paths, At
<1>1. n \in Trees /\ n.l \in Trees /\ n.r \in Trees
  BY SoundNode DEF Sound
<1>2. /\ Paths(n.l) \subseteq Routes /\ Paths(n.r) \subseteq Routes
      /\ Flags(n.l) \subseteq Routes /\ Flags(n.r) \subseteq Routes
      /\ Open(n.l) \subseteq Routes /\ Open(n.r) \subseteq Routes
      /\ Open(n.l) \subseteq Paths(n.l) /\ Open(n.r) \subseteq Paths(n.r)
  BY <1>1, PathsType DEF Flags, Open
<1>3. /\ <<>> \in Flags(n) <=> n.underRebuild
      /\ \A q \in Routes : /\ <<"l">> \o q \in Flags(n) <=> q \in Flags(n.l)
                           /\ <<"r">> \o q \in Flags(n) <=> q \in Flags(n.r)
  BY <1>1, FlagsNode
<1>4. \A v \in Routes : <<"l">> \o v # <<>> /\ <<"r">> \o v # <<>>
  BY FirstStep
<1>5. \A v, w \in Routes : /\ <<"l">> \o v # <<"r">> \o w
                           /\ <<"l">> \o v = <<"l">> \o w => v = w
                           /\ <<"r">> \o v = <<"r">> \o w => v = w
  BY LeadsSteps
<1>6. ~n.pushdown
  BY <1>1, OpenNode
<1>7. \/ s = <<>>
      \/ \E u \in Open(n.l) : s = <<"l">> \o u
      \/ \E u \in Open(n.r) : s = <<"r">> \o u
  BY <1>1, OpenNode
<1> HIDE DEF Flags, Open
<1>8. CASE s = <<>>
  BY <1>2, <1>3, <1>4, <1>6, <1>8
<1>9. ASSUME NEW u \in Open(n.l), s = <<"l">> \o u
      PROVE  /\ ~n.underRebuild /\ Flags(n.l) = {u} /\ Flags(n.r) = {}
             /\ u \in Paths(n.l) /\ At(n, s) = At(n.l, u)
  <2>1. At(n, s) = At(n.l, u)
    BY <1>1, <1>2, <1>9, NodesBelow
  <2>2. u \in Routes /\ Flags(n) = {<<"l">> \o u}
    BY <1>2, <1>9
  <2>3. ~n.underRebuild
    BY <1>3, <1>4, <2>2
  <2>4. Flags(n.r) = {}
    BY <1>2, <1>3, <1>5, <2>2
  <2>5. Flags(n.l) = {u}
    BY <1>2, <1>3, <1>5, <2>2
  <2> QED
    BY <1>2, <1>9, <2>1, <2>3, <2>4, <2>5
<1>10. ASSUME NEW u \in Open(n.r), s = <<"r">> \o u
       PROVE  /\ ~n.underRebuild /\ Flags(n.r) = {u} /\ Flags(n.l) = {}
              /\ u \in Paths(n.r) /\ At(n, s) = At(n.r, u)
  <2>1. At(n, s) = At(n.r, u)
    BY <1>1, <1>2, <1>10, NodesBelow
  <2>2. u \in Routes /\ Flags(n) = {<<"r">> \o u}
    BY <1>2, <1>10
  <2>3. ~n.underRebuild
    BY <1>3, <1>4, <2>2
  <2>4. Flags(n.l) = {}
    BY <1>2, <1>3, <1>5, <2>2
  <2>5. Flags(n.r) = {u}
    BY <1>2, <1>3, <1>5, <2>2
  <2> QED
    BY <1>2, <1>10, <2>1, <2>3, <2>4, <2>5
<1> QED
  BY <1>6, <1>7, <1>8, <1>9, <1>10

\* The insertion step at node n, whose outcome x is n over the outcome e in the
\* subtree on a side, when a rebuild is in flight.
LEMMA InFlightNode ==
    ASSUME NEW n \in Sound, ~IsNil(n), NEW c \in RebuildStates, Busy(c), NEW p \in Points,
           NEW m, m = PushDown(n), NEW side \in {"l", "r"},
           NEW child, child = (IF side = "l" THEN m.l ELSE m.r),
           NEW e, e.tree \in Sound, InsertedInFlight(e, child, Logged(c, n, p), p),
           NEW d, NEW x \in Sound, ~IsNil(x), x.pt = n.pt, ~x.pushdown,
           x.underRebuild <=> n.underRebuild,
           x.l = (IF side = "l" THEN e.tree ELSE m.l),
           x.r = (IF side = "r" THEN e.tree ELSE m.r),
           d.tree = x, d.state = e.state, Flatten[x] = AddOne(Flatten[n], p)
    PROVE  InsertedInFlight(d, n, c, p)
<1>0. ~n.underRebuild => Logged(c, n, p) = c
  BY DEF Logged
<1> HIDE DEF Sound, Paths, At, Flags, Open, Trees
<1>1. n \in Trees /\ n.l \in Sound /\ n.r \in Sound /\ n.l \in Trees /\ n.r \in Trees
      /\ x \in Trees /\ e.tree \in Trees
  BY SoundNode DEF Sound
<1>2. /\ Flags(m.l) = Flags(n.l) /\ Flags(m.r) = Flags(n.r)
      /\ ~n.pushdown => m.l = n.l /\ m.r = n.r
  BY PushedPaths
<1>3. /\ Grown(child, e.tree)
      /\ Busy(e.state)
      /\ Flags(child) = {} => e.state = Logged(c, n, p)
      /\ \A s \in Open(child) : Flags(child) = {s} => Logs(e, child, Logged(c, n, p), p, s)
  BY DEF InsertedInFlight
<1>4. Grown(m.l, x.l) /\ Grown(m.r, x.r)
  BY <1>3, GrownSelf
<1>5. Grown(n, x)
  BY <1>4, GrownNode
<1>6. Flags(n) = {} => d.state = c
  <2>1. ASSUME Flags(n) = {}
        PROVE  ~n.underRebuild /\ Flags(child) = {}
    <3>1. ~n.underRebuild
      BY <1>1, <2>1, FlagsNode
    <3>2. Flags(n.l) = {} /\ Flags(n.r) = {}
      <4>1. Flags(n.l) \subseteq Routes /\ Flags(n.r) \subseteq Routes
        BY <1>1, PathsType DEF Flags
      <4> QED
        BY <1>1, <2>1, <4>1, FlagsNode
    <3> QED
      BY <1>2, <3>1, <3>2
  <2> QED
    BY <1>0, <1>3, <2>1
<1>7. ASSUME NEW s \in Open(n), Flags(n) = {s}
      PROVE  Logs(d, n, c, p, s)
  <2>1. ~n.pushdown
    BY <1>7, SlotBelow
  <2>2. child = IF side = "l" THEN n.l ELSE n.r
    BY <1>2, <2>1
  <2>3. CASE s = <<>> /\ n.underRebuild /\ Flags(n.l) = {} /\ Flags(n.r) = {}
    <3>1. e.state = Logged(c, n, p)
      BY <1>3, <2>2, <2>3
    <3>2. At(d.tree, s) = d.tree /\ At(n, s) = n
      BY <1>1, <2>3, NodesBelow
    <3> QED
      BY <2>3, <3>1, <3>2, LoggedBusy DEF Logs
  <2>4. ASSUME NEW u \in Open(n.l), s = <<"l">> \o u, ~n.underRebuild,
               Flags(n.l) = {u}, Flags(n.r) = {}, u \in Paths(n.l), At(n, s) = At(n.l, u)
        PROVE  Logs(d, n, c, p, s)
    <3>1. Logged(c, n, p) = c
      BY <1>0, <2>4
    <3>2. u \in Paths(x.l)
      BY <1>2, <1>4, <2>1, <2>4 DEF Grown
    <3>3. At(x, s) = At(x.l, u)
      BY <1>1, <2>4, <3>2, NodesBelow
    <3>4. CASE side = "l"
      <4>1. Logs(e, n.l, c, p, u)
        BY <1>3, <2>2, <2>4, <3>1, <3>4
      <4> QED
        BY <2>4, <3>3, <3>4, <4>1 DEF Logs
    <3>5. CASE side = "r"
      <4>1. e.state = c
        BY <1>3, <2>2, <2>4, <3>1, <3>5
      <4>2. x.l = n.l
        BY <1>2, <2>1, <3>5
      <4> QED
        BY <2>4, <3>3, <4>1, <4>2 DEF Logs
    <3> QED
      BY <3>4, <3>5
  <2>5. ASSUME NEW u \in Open(n.r), s = <<"r">> \o u, ~n.underRebuild,
               Flags(n.r) = {u}, Flags(n.l) = {}, u \in Paths(n.r), At(n, s) = At(n.r, u)
        PROVE  Logs(d, n, c, p, s)
    <3>1. Logged(c, n, p) = c
      BY <1>0, <2>5
    <3>2. u \in Paths(x.r)
      BY <1>2, <1>4, <2>1, <2>5 DEF Grown
    <3>3. At(x, s) = At(x.r, u)
      BY <1>1, <2>5, <3>2, NodesBelow
    <3>4. CASE side = "r"
      <4>1. Logs(e, n.r, c, p, u)
        BY <1>3, <2>2, <2>5, <3>1, <3>4
      <4> QED
        BY <2>5, <3>3, <3>4, <4>1 DEF Logs
    <3>5. CASE side = "l"
      <4>1. e.state = c
        BY <1>3, <2>2, <2>5, <3>1, <3>5
      <4>2. x.r = n.r
        BY <1>2, <2>1, <3>5
      <4> QED
        BY <2>5, <3>3, <4>1, <4>2 DEF Logs
    <3> QED
      BY <3>4, <3>5
  <2> QED
    BY <1>7, <2>3, <2>4, <2>5, SlotBelow
<1> QED
  BY <1>3, <1>5, <1>6, <1>7 DEF InsertedInFlight

\* While a rebuild is in flight an insertion restructures nothing, and logs its
\* point exactly if it passes the flagged node.
LEMMA InsertInFlight ==
    ASSUME NEW n \in Sound, n.size < MaxNodes, NEW c \in RebuildStates, Busy(c),
           NEW path \in Routes, NEW p \in Points, NEW d \in InsertAt[n][c][path][p]
    PROVE  InsertedInFlight(d, n, c, p)
<1> DEFINE S == {k \in Sound : k.size < MaxNodes =>
                     \A f \in RebuildStates, u \in Routes, q \in Points :
                         Busy(f) => \A e \in InsertAt[k][f][u][q] :
                                        InsertedInFlight(e, k, f, q)}
<1>1. Nil \in S
  <2> SUFFICES ASSUME 0 < MaxNodes, NEW f \in RebuildStates, NEW u \in Routes,
                      NEW q \in Points, Busy(f), NEW e \in InsertAt[Nil][f][u][q]
               PROVE  InsertedInFlight(e, Nil, f, q)
    BY SoundNil DEF Nil
  <2>1. Nil \in Trees /\ IsNil(Nil)
    BY NilTree
  <2>2. e.tree = PullUp(Leaf(q)) /\ e.state = f
    BY <2>1, SoundNil, InsertCases
  <2>3. MaxNodes >= 1
    BY ThresholdAssumption
  <2> HIDE DEF Nil
  <2>4. /\ e.tree \in Trees /\ ~IsNil(e.tree) /\ ~e.tree.underRebuild
        /\ e.tree.l = Nil /\ e.tree.r = Nil
    BY <2>2, <2>3, LeafGained DEF Gained, Sound
  <2>5. Flags(Nil) = {} /\ Paths(Nil) = {} /\ Open(Nil) = {}
    BY FlagsNil, NodesOfNil DEF Open
  <2>6. Flags(e.tree) = {}
    <3>1. Flags(e.tree) \subseteq Paths(e.tree) /\ Paths(e.tree) = {<<>>}
      BY <2>4, <2>5, NodesUnfold DEF Flags
    <3> QED
      BY <2>4, <3>1, FlagsNode
  <2>7. Grown(Nil, e.tree)
    BY <2>5, <2>6 DEF Grown
  <2> QED
    BY <2>2, <2>5, <2>7 DEF InsertedInFlight
<1>2. ASSUME NEW k \in Sound, ~IsNil(k), \A o \in Sound : o.size < k.size => o \in S
      PROVE  k \in S
  <2> SUFFICES ASSUME k.size < MaxNodes, NEW f \in RebuildStates, NEW u \in Routes,
                      NEW q \in Points, Busy(f), NEW e \in InsertAt[k][f][u][q]
               PROVE  InsertedInFlight(e, k, f, q)
    OBVIOUS
  <2>0. PICK side \in {"l", "r"} : \E b, y : InsertedBelow(e, k, f, u, q, side, b, y)
    BY <1>2, InsertCases
  <2>1. PICK b, y : InsertedBelow(e, k, f, u, q, side, b, y)
    BY <2>0
  <2>2. PICK m : m = PushDown(k)
    OBVIOUS
  <2>3. PICK child : child = (IF side = "l" THEN m.l ELSE m.r)
    OBVIOUS
  <2>4. /\ child \in Sound /\ child.size < k.size /\ child.size < MaxNodes
        /\ k.size \in Nat /\ k.size <= MaxNodes
    BY <1>2, <2>2, <2>3, Pushed, ThresholdAssumption
  <2>5. PICK g : g = Logged(f, k, q)
    OBVIOUS
  <2>6. g \in RebuildStates /\ Busy(g) /\ Append(u, side) \in Routes
    BY <2>5, StateSteps, RouteSteps, LoggedBusy
  <2>7. b \in InsertAt[child][g][Append(u, side)][q]
    BY <2>1, <2>2, <2>3, <2>5 DEF InsertedBelow
  <2>8. Gained(b.tree, child, q) /\ b.state \in RebuildStates
    BY <2>4, <2>6, <2>7, InsertGains
  <2>9. InsertedInFlight(b, child, g, q)
    BY <1>2, <2>4, <2>6, <2>7
  <2>10. b.tree \in Sound /\ Inside(y, k, side, b.tree)
    BY <2>1, <2>8 DEF Gained, InsertedBelow
  <2>11. PICK x : x = PullUp(y)
    OBVIOUS
  <2>12. /\ y \in NodesOver(Sound) /\ ~y.pushdown /\ Ordered(y)
         /\ 1 + y.l.size + y.r.size <= MaxNodes
         /\ Gained(x, k, q)
    BY <1>2, <2>1, <2>2, <2>3, <2>8, <2>10, <2>11, NodeGained DEF InsertedBelow
  <2>13. /\ x \in Sound /\ ~IsNil(x) /\ ~x.pushdown /\ x.pt = y.pt /\ x.l = y.l /\ x.r = y.r
         /\ x.underRebuild <=> y.underRebuild
    BY <2>11, <2>12, PulledUp
  <2>14. /\ x.pt = k.pt /\ (x.underRebuild <=> k.underRebuild)
         /\ x.l = (IF side = "l" THEN b.tree ELSE m.l)
         /\ x.r = (IF side = "r" THEN b.tree ELSE m.r)
    BY <2>2, <2>10, <2>13 DEF Inside
  <2>15. e.tree = x /\ e.state = b.state
    <3>1. e \in Unwind(x, b.state, u)
      BY <2>1, <2>11 DEF InsertedBelow
    <3>2. Busy(b.state)
      BY <2>9 DEF InsertedInFlight
    <3> QED
      BY <2>8, <2>13, <3>1, <3>2, UnwindBusy
  <2>16. Flatten[x] = AddOne(Flatten[k], q)
    BY <2>12 DEF Gained
  <2> QED
    BY <1>2, <2>2, <2>3, <2>5, <2>9, <2>10, <2>13, <2>14, <2>15, <2>16, InFlightNode
<1> HIDE DEF S
<1>3. Sound \subseteq S
  BY <1>1, <1>2, SoundInduction
<1> QED
  BY <1>3 DEF S

\* The paths of a list, from the node at path.
Under(path, rel) == [i \in 1..Len(rel) |-> path \o rel[i]]

\* The nodes recorded on the way out of a mutation that has started a rebuild
\* are clean, and each comes after the ones below it.
Recording(t, rel) ==
    /\ rel \in Seq(Routes)
    /\ \A i \in 1..Len(rel) : rel[i] \in Open(t)
    /\ \A i, j \in 1..Len(rel) : Leads(rel[i], rel[j]) => j <= i

\* Every node above s is recorded, and none at or below it.
Covering(s, rel) ==
    /\ \A u \in Routes : Leads(u, s) /\ u # s => \E i \in 1..Len(rel) : rel[i] = u
    /\ \A i \in 1..Len(rel) : ~Leads(s, rel[i])

\* What is recorded at a node, after its left and its right subtree.
Joined(L, R) == Append(Under(<<"l">>, L) \o Under(<<"r">>, R), <<>>)

LEMMA UnderIs ==
    ASSUME NEW path \in Routes, NEW rel \in Seq(Routes)
    PROVE  /\ Under(path, rel) \in Seq(Routes)
           /\ Len(Under(path, rel)) = Len(rel) /\ Len(rel) \in Nat
           /\ \A i \in 1..Len(rel) : /\ Under(path, rel)[i] = path \o rel[i]
                                     /\ rel[i] \in Routes
<1>1. Len(rel) \in Nat /\ \A i \in 1..Len(rel) : rel[i] \in Routes
  BY LenProperties, ElementOfSeq
<1>2. \A i \in 1..Len(rel) : path \o rel[i] \in Routes
  BY <1>1, RouteSteps
<1> HIDE DEF Routes
<1>3. Under(path, rel) \in [1..Len(rel) -> Routes]
  BY <1>2 DEF Under
<1>4. Under(path, rel) \in Seq(Routes) /\ DOMAIN Under(path, rel) = 1..Len(rel)
  BY <1>1, <1>3
<1>5. Len(Under(path, rel)) = Len(rel)
  BY <1>1, <1>4
<1> QED
  BY <1>1, <1>4, <1>5 DEF Under

LEMMA JoinedIs ==
    ASSUME NEW L \in Seq(Routes), NEW R \in Seq(Routes)
    PROVE  /\ Len(L) \in Nat /\ Len(R) \in Nat
           /\ Joined(L, R) \in Seq(Routes)
           /\ Len(Joined(L, R)) = Len(L) + Len(R) + 1
           /\ \A i \in 1..Len(L) : Joined(L, R)[i] = <<"l">> \o L[i] /\ L[i] \in Routes
           /\ \A i \in 1..Len(R) : /\ Joined(L, R)[Len(L) + i] = <<"r">> \o R[i]
                                    /\ R[i] \in Routes
           /\ Joined(L, R)[Len(L) + Len(R) + 1] = <<>>
<1> DEFINE J == Joined(L, R)
           a == Len(L)
           b == Len(R)
<1>1. <<"l">> \in Routes /\ <<"r">> \in Routes /\ <<>> \in Routes
  BY DEF Routes
<1>0. PICK u, v : u = Under(<<"l">>, L) /\ v = Under(<<"r">>, R)
  OBVIOUS
<1>2. /\ u \in Seq(Routes) /\ Len(u) = a /\ a \in Nat
      /\ \A i \in 1..a : u[i] = <<"l">> \o L[i] /\ L[i] \in Routes
  BY <1>0, <1>1, UnderIs
<1>3. /\ v \in Seq(Routes) /\ Len(v) = b /\ b \in Nat
      /\ \A i \in 1..b : v[i] = <<"r">> \o R[i] /\ R[i] \in Routes
  BY <1>0, <1>1, UnderIs
<1> HIDE DEF a, b, J
<1>4. PICK w : w = u \o v
  OBVIOUS
<1>5. /\ w \in Seq(Routes) /\ Len(w) = a + b
      /\ \A i \in 1..a + b : w[i] = IF i <= a THEN u[i] ELSE v[i - a]
  <2>1. /\ u \o v \in Seq(Routes) /\ Len(u \o v) = Len(u) + Len(v)
        /\ \A i \in 1..Len(u) + Len(v) :
              (u \o v)[i] = IF i <= Len(u) THEN u[i] ELSE v[i - Len(u)]
    <3>1. u \in Seq(Routes) /\ v \in Seq(Routes)
      BY <1>2, <1>3
    <3> QED
      BY <3>1, ConcatProperties
  <2>2. /\ w \in Seq(Routes) /\ Len(w) = Len(u) + Len(v)
        /\ \A i \in 1..Len(u) + Len(v) : w[i] = IF i <= Len(u) THEN u[i] ELSE v[i - Len(u)]
    BY <1>4, <2>1, Zenon
  <2>3. Len(u) = a /\ Len(v) = b
    BY <1>2, <1>3
  <2> QED
    BY <2>2, <2>3
<1>6. J = Append(w, <<>>)
  BY <1>0, <1>4 DEF Joined, J
<1>7. /\ J \in Seq(Routes) /\ Len(J) = a + b + 1
      /\ \A i \in 1..a + b : J[i] = w[i]
      /\ J[a + b + 1] = <<>>
  BY <1>1, <1>2, <1>3, <1>5, <1>6, AppendProperties
<1>8. \A i \in 1..a : i \in 1..a + b /\ w[i] = u[i]
  BY <1>2, <1>3, <1>5
<1>9. \A i \in 1..b : a + i \in 1..a + b /\ w[a + i] = v[i]
  <2> SUFFICES ASSUME NEW i \in 1..b
               PROVE  a + i \in 1..a + b /\ w[a + i] = v[i]
    OBVIOUS
  <2>1. a + i \in 1..a + b /\ ~(a + i <= a) /\ (a + i) - a = i
    BY <1>2, <1>3
  <2> QED
    BY <1>5, <2>1
<1>10. /\ a \in Nat /\ b \in Nat
       /\ J \in Seq(Routes) /\ Len(J) = a + b + 1
       /\ \A i \in 1..a : J[i] = <<"l">> \o L[i] /\ L[i] \in Routes
       /\ \A i \in 1..b : J[a + i] = <<"r">> \o R[i] /\ R[i] \in Routes
       /\ J[a + b + 1] = <<>>
  <2>1. a \in Nat /\ b \in Nat /\ J \in Seq(Routes) /\ Len(J) = a + b + 1
        /\ J[a + b + 1] = <<>>
    BY <1>2, <1>3, <1>7
  <2>2. ASSUME NEW i \in 1..a
        PROVE  J[i] = <<"l">> \o L[i] /\ L[i] \in Routes
    BY <1>2, <1>7, <1>8
  <2>3. ASSUME NEW i \in 1..b
        PROVE  J[a + i] = <<"r">> \o R[i] /\ R[i] \in Routes
    BY <1>3, <1>7, <1>9
  <2> QED
    BY <2>1, <2>2, <2>3
<1> QED
  BY <1>10 DEF J, a, b

\* The positions of the list of a node are those of its two sublists and one.
LEMMA Positions ==
    ASSUME NEW a \in Nat, NEW b \in Nat, NEW i \in 1..a + b + 1
    PROVE  i \in 1..a \/ (\E j \in 1..b : i = a + j) \/ i = a + b + 1
<1>1. a < i /\ i < a + b + 1 => i - a \in 1..b /\ i = a + (i - a)
  OBVIOUS
<1> QED
  BY <1>1

\* Concatenation and append, as symbols of their own.
Then(u, v) == u \o v
More(u, q) == Append(u, q)

LEMMA UnderJoined ==
    ASSUME NEW path \in Routes, NEW L \in Seq(Routes), NEW R \in Seq(Routes),
           NEW x \in Seq(Routes), x = Under(Append(path, "l"), L),
           NEW y \in Seq(Routes), y = Under(Append(path, "r"), R)
    PROVE  Under(path, Joined(L, R)) = More(Then(x, y), path)
<1>1. PICK a, b, J : a = Len(L) /\ b = Len(R) /\ J = Joined(L, R)
  OBVIOUS
<1>2. /\ a \in Nat /\ b \in Nat
      /\ J \in Seq(Routes) /\ Len(J) = a + b + 1
      /\ \A i \in 1..a : J[i] = <<"l">> \o L[i] /\ L[i] \in Routes
      /\ \A i \in 1..b : J[a + i] = <<"r">> \o R[i] /\ R[i] \in Routes
      /\ J[a + b + 1] = <<>>
  <2>1. /\ Len(L) \in Nat /\ Len(R) \in Nat
        /\ Joined(L, R) \in Seq(Routes)
        /\ Len(Joined(L, R)) = Len(L) + Len(R) + 1
        /\ \A i \in 1..Len(L) : Joined(L, R)[i] = <<"l">> \o L[i] /\ L[i] \in Routes
        /\ \A i \in 1..Len(R) : /\ Joined(L, R)[Len(L) + i] = <<"r">> \o R[i]
                                 /\ R[i] \in Routes
        /\ Joined(L, R)[Len(L) + Len(R) + 1] = <<>>
    BY JoinedIs
  <2> QED
    BY <1>1, <2>1
<1>3. Append(path, "l") \in Routes /\ Append(path, "r") \in Routes /\ path \o <<>> = path
  BY RouteSteps
<1>4. \A q \in Routes : /\ Append(path, "l") \o q = path \o (<<"l">> \o q)
                        /\ Append(path, "r") \o q = path \o (<<"r">> \o q)
  <2> TAKE q \in Routes
  <2>1. Append(path, "l") \o q = path \o (<<"l">> \o q)
    BY RouteSteps
  <2>2. Append(path, "r") \o q = path \o (<<"r">> \o q)
    BY RouteSteps
  <2> QED
    BY <2>1, <2>2
<1> HIDE DEF Routes
<1>5. Len(x) = a /\ \A i \in 1..a : x[i] = Append(path, "l") \o L[i]
  BY <1>1, <1>3, UnderIs
<1>6. Len(y) = b /\ \A i \in 1..b : y[i] = Append(path, "r") \o R[i]
  BY <1>1, <1>3, UnderIs
<1>7. PICK w : w = Then(x, y)
  OBVIOUS
<1>8. /\ w \in Seq(Routes) /\ Len(w) = a + b
      /\ \A i \in 1..a + b : w[i] = IF i <= a THEN x[i] ELSE y[i - a]
  <2>1. w = x \o y /\ Len(x) = a /\ Len(y) = b
    BY <1>5, <1>6, <1>7 DEF Then
  <2>2. /\ x \o y \in Seq(Routes) /\ Len(x \o y) = Len(x) + Len(y)
        /\ \A i \in 1..Len(x) + Len(y) :
               (x \o y)[i] = IF i <= Len(x) THEN x[i] ELSE y[i - Len(x)]
    BY ConcatProperties
  <2> QED
    BY <2>1, <2>2
<1>9. PICK z : z = More(w, path)
  OBVIOUS
<1>10. /\ z \in Seq(Routes) /\ Len(z) = a + b + 1
       /\ \A i \in 1..a + b : z[i] = w[i]
       /\ z[a + b + 1] = path
  BY <1>2, <1>8, <1>9, AppendProperties DEF More
<1>11. PICK U : U = Under(path, J)
  OBVIOUS
<1>12. U \in Seq(Routes) /\ Len(U) = a + b + 1 /\ \A i \in 1..a + b + 1 : U[i] = path \o J[i]
  <2>1. J \in Seq(Routes) /\ Len(J) = a + b + 1
    BY <1>2
  <2>2. /\ Under(path, J) \in Seq(Routes)
        /\ Len(Under(path, J)) = Len(J)
        /\ \A i \in 1..Len(J) : Under(path, J)[i] = path \o J[i]
    BY <2>1, UnderIs
  <2> QED
    BY <1>11, <2>1, <2>2
<1>13. \A i \in 1..a + b + 1 : U[i] = z[i]
  <2> SUFFICES ASSUME NEW i \in 1..a + b + 1
               PROVE  U[i] = z[i]
    OBVIOUS
  <2>1. CASE i \in 1..a
    <3>1. i \in 1..a + b /\ w[i] = x[i]
      BY <1>2, <1>8, <2>1
    <3>2. J[i] = <<"l">> \o L[i] /\ L[i] \in Routes /\ x[i] = Append(path, "l") \o L[i]
      BY <1>2, <1>5, <2>1
    <3>3. U[i] = path \o J[i] /\ z[i] = w[i]
      BY <1>10, <1>12, <3>1
    <3> QED
      BY <1>4, <3>1, <3>2, <3>3
  <2>2. ASSUME NEW j \in 1..b, i = a + j
        PROVE  U[i] = z[i]
    <3>1. i \in 1..a + b /\ ~(i <= a) /\ i - a = j
      BY <1>2, <2>2
    <3>2. w[i] = y[j]
      BY <1>8, <3>1
    <3>3. J[i] = <<"r">> \o R[j] /\ R[j] \in Routes
      BY <1>2, <2>2
    <3>4. U[i] = path \o J[i] /\ z[i] = w[i] /\ y[j] = Append(path, "r") \o R[j]
      BY <1>6, <1>10, <1>12, <2>2, <3>1
    <3> QED
      BY <1>4, <3>2, <3>3, <3>4
  <2>3. CASE i = a + b + 1
    BY <1>2, <1>3, <1>10, <1>12, <2>3
  <2> QED
    BY <1>2, <2>1, <2>2, <2>3, Positions
<1>14. U = z
  BY <1>10, <1>12, <1>13, SeqEqual
<1> QED
  BY <1>1, <1>7, <1>9, <1>11, <1>14

LEMMA JoinedRecording ==
    ASSUME NEW x \in Trees, ~IsNil(x), ~x.pushdown, NEW L, Recording(x.l, L),
           NEW R, Recording(x.r, R)
    PROVE  Recording(x, Joined(L, R))
<1>1. L \in Seq(Routes) /\ R \in Seq(Routes)
  BY DEF Recording
<1>2. PICK a, b, J : a = Len(L) /\ b = Len(R) /\ J = Joined(L, R)
  OBVIOUS
<1>3. /\ a \in Nat /\ b \in Nat
      /\ J \in Seq(Routes) /\ Len(J) = a + b + 1
      /\ \A i \in 1..a : J[i] = <<"l">> \o L[i] /\ L[i] \in Routes
      /\ \A i \in 1..b : J[a + i] = <<"r">> \o R[i] /\ R[i] \in Routes
      /\ J[a + b + 1] = <<>>
  BY <1>1, <1>2, JoinedIs
<1> HIDE DEF Routes
<1>4. \A i \in 1..a + b + 1 : J[i] \in Open(x)
  <2> SUFFICES ASSUME NEW i \in 1..a + b + 1
               PROVE  J[i] \in Open(x)
    OBVIOUS
  <2>1. /\ <<>> \in Open(x)
        /\ \A q \in Routes : /\ <<"l">> \o q \in Open(x) <=> q \in Open(x.l)
                             /\ <<"r">> \o q \in Open(x) <=> q \in Open(x.r)
    BY OpenNode
  <2>2. CASE i \in 1..a
    BY <1>2, <1>3, <2>1, <2>2 DEF Recording
  <2>3. ASSUME NEW j \in 1..b, i = a + j
        PROVE  J[i] \in Open(x)
    BY <1>2, <1>3, <2>1, <2>3 DEF Recording
  <2>4. CASE i = a + b + 1
    BY <1>3, <2>1, <2>4
  <2> QED
    BY <1>3, <2>2, <2>3, <2>4, Positions
<1>5. \A i, j \in 1..a + b + 1 : Leads(J[i], J[j]) => j <= i
  <2> SUFFICES ASSUME NEW i \in 1..a + b + 1, NEW j \in 1..a + b + 1, Leads(J[i], J[j])
               PROVE  j <= i
    OBVIOUS
  <2>1. CASE i = a + b + 1
    BY <1>3, <2>1
  <2>2. CASE i \in 1..a
    <3>1. J[i] = <<"l">> \o L[i] /\ L[i] \in Routes
      BY <1>3, <2>2
    <3>2. CASE j \in 1..a
      <4>1. J[j] = <<"l">> \o L[j] /\ L[j] \in Routes
        BY <1>3, <3>2
      <4>2. Leads(L[i], L[j])
        BY <3>1, <4>1, LeadsSteps
      <4> QED
        BY <1>2, <2>2, <3>2, <4>2 DEF Recording
    <3>3. ASSUME NEW k \in 1..b, j = a + k
          PROVE  FALSE
      <4>1. J[j] = <<"r">> \o R[k] /\ R[k] \in Routes
        BY <1>3, <3>3
      <4> QED
        BY <3>1, <4>1, LeadsSteps
    <3>4. CASE j = a + b + 1
      BY <1>3, <3>1, <3>4, LeadsSteps
    <3> QED
      BY <1>3, <3>2, <3>3, <3>4, Positions
  <2>3. ASSUME NEW k \in 1..b, i = a + k
        PROVE  j <= i
    <3>1. J[i] = <<"r">> \o R[k] /\ R[k] \in Routes
      BY <1>3, <2>3
    <3>2. CASE j \in 1..a
      BY <1>3, <2>3, <3>2
    <3>3. ASSUME NEW h \in 1..b, j = a + h
          PROVE  j <= i
      <4>1. J[j] = <<"r">> \o R[h] /\ R[h] \in Routes
        BY <1>3, <3>3
      <4>2. Leads(R[k], R[h])
        BY <3>1, <4>1, LeadsSteps
      <4>3. h <= k
        BY <1>2, <4>2 DEF Recording
      <4> QED
        BY <1>3, <2>3, <3>3, <4>3
    <3>4. CASE j = a + b + 1
      BY <1>3, <3>1, <3>4, LeadsSteps
    <3> QED
      BY <1>3, <3>2, <3>3, <3>4, Positions
  <2> QED
    BY <1>3, <2>1, <2>2, <2>3, Positions
<1> QED
  BY <1>2, <1>3, <1>4, <1>5 DEF Recording

LEMMA JoinedCovering ==
    ASSUME NEW L \in Seq(Routes), NEW R \in Seq(Routes), NEW s \in Routes
    PROVE  /\ Covering(s, L) => Covering(<<"l">> \o s, Joined(L, R))
           /\ Covering(s, R) => Covering(<<"r">> \o s, Joined(L, R))
<1>1. PICK a, b, J : a = Len(L) /\ b = Len(R) /\ J = Joined(L, R)
  OBVIOUS
<1>2. /\ a \in Nat /\ b \in Nat
      /\ J \in Seq(Routes) /\ Len(J) = a + b + 1
      /\ \A i \in 1..a : J[i] = <<"l">> \o L[i] /\ L[i] \in Routes
      /\ \A i \in 1..b : J[a + i] = <<"r">> \o R[i] /\ R[i] \in Routes
      /\ J[a + b + 1] = <<>>
  BY <1>1, JoinedIs
<1>3. <<>> \in Routes /\ <<"l">> \o s \in Routes /\ <<"r">> \o s \in Routes
  BY FirstStep DEF Routes
<1>4. \A q \in Routes : /\ <<"l">> \o q \in Routes /\ <<"r">> \o q \in Routes
                        /\ q # <<>> => \E w \in Routes : q = <<"l">> \o w \/ q = <<"r">> \o w
  <2> SUFFICES ASSUME NEW q \in Routes
               PROVE  /\ <<"l">> \o q \in Routes /\ <<"r">> \o q \in Routes
                      /\ q # <<>> => \E w \in Routes : q = <<"l">> \o w \/ q = <<"r">> \o w
    OBVIOUS
  <2>1. <<"l">> \o q \in Routes /\ <<"r">> \o q \in Routes
    BY FirstStep
  <2>2. ASSUME q # <<>>
        PROVE  \E w \in Routes : q = <<"l">> \o w \/ q = <<"r">> \o w
    <3>1. PICK h, w : h = Head(q) /\ w = Tail(q)
      OBVIOUS
    <3>2. h \in {"l", "r"} /\ w \in Routes /\ q = <<h>> \o w
      BY <2>2, <3>1, SplitPath
    <3> QED
      BY <3>2
  <2> QED
    BY <2>1, <2>2
<1>5. \E i \in 1..Len(J) : J[i] = <<>>
  BY <1>2
<1>6. ASSUME Covering(s, L)
      PROVE  Covering(<<"l">> \o s, J)
  <2>1. ASSUME NEW u \in Routes, Leads(u, <<"l">> \o s), u # <<"l">> \o s
        PROVE  \E i \in 1..Len(J) : J[i] = u
    <3>1. CASE u = <<>>
      BY <1>5, <3>1
    <3>2. ASSUME NEW w \in Routes, u = <<"l">> \o w
          PROVE  \E i \in 1..Len(J) : J[i] = u
      <4>1. Leads(w, s) /\ w # s
        BY <2>1, <3>2, LeadsSteps
      <4>2. PICK i \in 1..a : L[i] = w
        BY <1>1, <1>6, <4>1 DEF Covering
      <4>3. i \in 1..Len(J) /\ J[i] = u
        BY <1>2, <3>2, <4>2
      <4> QED
        BY <4>3
    <3>3. ASSUME NEW w \in Routes, u = <<"r">> \o w
          PROVE  FALSE
      BY <2>1, <3>3, LeadsSteps
    <3> QED
      BY <1>4, <3>1, <3>2, <3>3
  <2>2. ASSUME NEW i \in 1..Len(J), Leads(<<"l">> \o s, J[i])
        PROVE  FALSE
    <3>1. CASE i \in 1..a
      <4>0. PICK q \in Routes : q = L[i] /\ J[i] = <<"l">> \o q
        BY <1>2, <3>1
      <4>1. Leads(s, L[i])
        BY <2>2, <4>0, LeadsSteps
      <4> QED
        BY <1>1, <1>6, <3>1, <4>1 DEF Covering
    <3>2. ASSUME NEW j \in 1..b, i = a + j
          PROVE  FALSE
      <4>0. PICK q \in Routes : J[i] = <<"r">> \o q
        BY <1>2, <3>2
      <4> QED
        BY <2>2, <4>0, LeadsSteps
    <3>3. CASE i = a + b + 1
      BY <1>2, <2>2, <3>3, LeadsSteps
    <3> QED
      BY <1>2, <3>1, <3>2, <3>3, Positions
  <2> QED
    BY <2>1, <2>2 DEF Covering
<1>7. ASSUME Covering(s, R)
      PROVE  Covering(<<"r">> \o s, J)
  <2>1. ASSUME NEW u \in Routes, Leads(u, <<"r">> \o s), u # <<"r">> \o s
        PROVE  \E i \in 1..Len(J) : J[i] = u
    <3>1. CASE u = <<>>
      BY <1>5, <3>1
    <3>2. ASSUME NEW w \in Routes, u = <<"r">> \o w
          PROVE  \E i \in 1..Len(J) : J[i] = u
      <4>1. Leads(w, s) /\ w # s
        BY <2>1, <3>2, LeadsSteps
      <4>2. PICK i \in 1..b : R[i] = w
        BY <1>1, <1>7, <4>1 DEF Covering
      <4>3. a + i \in 1..Len(J) /\ J[a + i] = u
        BY <1>2, <3>2, <4>2
      <4> QED
        BY <4>3
    <3>3. ASSUME NEW w \in Routes, u = <<"l">> \o w
          PROVE  FALSE
      BY <2>1, <3>3, LeadsSteps
    <3> QED
      BY <1>4, <3>1, <3>2, <3>3
  <2>2. ASSUME NEW i \in 1..Len(J), Leads(<<"r">> \o s, J[i])
        PROVE  FALSE
    <3>1. CASE i \in 1..a
      <4>0. PICK q \in Routes : J[i] = <<"l">> \o q
        BY <1>2, <3>1
      <4> QED
        BY <2>2, <4>0, LeadsSteps
    <3>2. ASSUME NEW j \in 1..b, i = a + j
          PROVE  FALSE
      <4>0. PICK q \in Routes : q = R[j] /\ J[i] = <<"r">> \o q
        BY <1>2, <3>2
      <4>1. Leads(s, R[j])
        BY <2>2, <4>0, LeadsSteps
      <4> QED
        BY <1>1, <1>7, <3>2, <4>1 DEF Covering
    <3>3. CASE i = a + b + 1
      BY <1>2, <2>2, <3>3, LeadsSteps
    <3> QED
      BY <1>2, <3>1, <3>2, <3>3, Positions
  <2> QED
    BY <2>1, <2>2 DEF Covering
<1> QED
  BY <1>1, <1>6, <1>7

\* No rebuild is in flight; or this operation has started one.
Idle(c) == c.slot = NoSlot /\ ~c.capturing
Capturing(c) == c.slot # NoSlot /\ c.capturing

LEMMA ListsThen ==
    ASSUME NEW u \in Seq(Routes), NEW v \in Seq(Routes)
    PROVE  /\ Then(u, v) \in Seq(Routes)
           /\ \A q \in Routes : More(u, q) \in Seq(Routes)
           /\ Then(u, <<>>) = u
BY ConcatProperties, ConcatEmptySeq DEF Then, More

LEMMA JoinsAssociate ==
    ASSUME NEW s \in Seq(Routes), NEW t \in Seq(Routes), NEW u \in Seq(Routes)
    PROVE  (s \o t) \o u = s \o (t \o u)
BY ConcatAssociative

LEMMA ListsJoined ==
    ASSUME NEW u \in Seq(Routes), NEW v \in Seq(Routes), NEW w \in Seq(Routes),
           NEW q \in Routes
    PROVE  More(Then(Then(u, v), w), q) = Then(u, More(Then(v, w), q))
<1>1. v \o w \in Seq(Routes) /\ u \o v \in Seq(Routes) /\ <<q>> \in Seq(Routes)
  BY ConcatProperties
<1>2. (u \o v) \o w = u \o (v \o w) /\ u \o (v \o w) \in Seq(Routes)
  BY <1>1, ConcatAssociative, ConcatProperties
<1>3. PICK y : y = v \o w
  OBVIOUS
<1>4. Append(y, q) = y \o <<q>> /\ Append(u \o y, q) = (u \o y) \o <<q>>
  <2>1. y \in Seq(Routes) /\ u \o y \in Seq(Routes)
    BY <1>1, <1>2, <1>3
  <2>2. Append(y, q) = y \o <<q>>
    BY <2>1, AppendIsConcat
  <2>3. Append(u \o y, q) = (u \o y) \o <<q>>
    BY <2>1, AppendIsConcat
  <2> QED
    BY <2>2, <2>3
<1>5. (u \o y) \o <<q>> = u \o (y \o <<q>>)
  <2>1. PICK z : z = <<q>>
    OBVIOUS
  <2>2. y \in Seq(Routes) /\ z \in Seq(Routes)
    BY <1>1, <1>3, <2>1
  <2>3. (u \o y) \o z = u \o (y \o z)
    BY <2>2, JoinsAssociate, ZenonT(40)
  <2> QED
    BY <2>1, <2>3
<1> QED
  BY <1>2, <1>3, <1>4, <1>5 DEF Then, More

\* States e and c differ at most in the recorded nodes.
Alike(e, c) ==
    /\ e \in RebuildStates
    /\ e.slot = c.slot /\ e.snapshot = c.snapshot /\ e.log = c.log
    /\ e.capturing = c.capturing /\ e.replaying = c.replaying

LEMMA AlikeSteps ==
    ASSUME NEW c \in RebuildStates, NEW e, Alike(e, c)
    PROVE  /\ \A f : Alike(f, e) => Alike(f, c)
           /\ \A f : Alike(f, c) /\ f.above = e.above => f = e
           /\ e \in RebuildStates
           /\ e.slot = c.slot /\ e.snapshot = c.snapshot /\ e.log = c.log
<1>1. ASSUME NEW f, Alike(f, c), f.above = e.above PROVE f = e
  BY <1>1, SameState DEF Alike
<1> QED
  BY <1>1 DEF Alike

\* State e is c with the nodes of a list, from path on, recorded; and with one
\* node more recorded.
Records(e, c, path, rel) == e = [c EXCEPT !.above = Then(c.above, Under(path, rel))]
Noted(g, f, path) == g = [f EXCEPT !.above = More(f.above, path)]

LEMMA RecordsIs ==
    ASSUME NEW c \in RebuildStates, NEW path \in Routes, NEW rel \in Seq(Routes),
           NEW e, Records(e, c, path, rel)
    PROVE  Alike(e, c) /\ e.above = Then(c.above, Under(path, rel))
<1>1. c.above \in Seq(Routes) /\ Under(path, rel) \in Seq(Routes)
  BY UnderIs DEF RebuildStates
<1>2. PICK w : w = Then(c.above, Under(path, rel))
  OBVIOUS
<1>3. w \in Seq(Routes)
  BY <1>1, <1>2, ListsThen
<1>4. e = [c EXCEPT !.above = w]
  BY <1>2 DEF Records
<1>5. Alike(e, c) /\ e.above = w
  BY <1>3, <1>4 DEF RebuildStates, Alike
<1> QED
  BY <1>2, <1>5

LEMMA RecordsNone ==
    ASSUME NEW c \in RebuildStates, NEW path \in Routes
    PROVE  Records(c, c, path, <<>>)
<1>1. Under(path, <<>>) = <<>>
  <2>1. <<>> \in Seq(Routes) /\ Len(<<>>) = 0
    BY EmptySeq
  <2>2. Under(path, <<>>) \in Seq(Routes) /\ Len(Under(path, <<>>)) = 0
    BY <2>1, UnderIs
  <2> QED
    BY <2>2, EmptySeq
<1>2. c.above \in Seq(Routes)
  BY DEF RebuildStates
<1>3. Then(c.above, <<>>) = c.above
  BY <1>2, ListsThen
<1>4. c = [c EXCEPT !.above = c.above]
  BY DEF RebuildStates
<1> QED
  BY <1>1, <1>3, <1>4 DEF Records

LEMMA NotedIs ==
    ASSUME NEW f \in RebuildStates, NEW path \in Routes, NEW g, Noted(g, f, path)
    PROVE  Alike(g, f) /\ g.above = More(f.above, path)
<1>1. PICK w : w = More(f.above, path)
  OBVIOUS
<1>2. f.above \in Seq(Routes)
  BY DEF RebuildStates
<1>3. w \in Seq(Routes) /\ g = [f EXCEPT !.above = w]
  BY <1>1, <1>2, ListsThen DEF Noted
<1> QED
  BY <1>1, <1>3 DEF RebuildStates, Alike

LEMMA RecordsJoined ==
    ASSUME NEW c \in RebuildStates, NEW path \in Routes,
           NEW L \in Seq(Routes), NEW R \in Seq(Routes),
           NEW e, Records(e, c, Append(path, "l"), L),
           NEW f, Records(f, e, Append(path, "r"), R),
           NEW g, Noted(g, f, path)
    PROVE  Records(g, c, path, Joined(L, R))
<1>1. PICK u, v : u = Append(path, "l") /\ v = Append(path, "r")
  OBVIOUS
<1>2. u \in Routes /\ v \in Routes
  BY <1>1, RouteSteps
<1>3. PICK x, y, z : x = Under(u, L) /\ y = Under(v, R) /\ z = c.above
  OBVIOUS
<1>4. x \in Seq(Routes) /\ y \in Seq(Routes) /\ z \in Seq(Routes)
  BY <1>2, <1>3, UnderIs DEF RebuildStates
<1>5. Alike(e, c) /\ e.above = Then(z, x)
  BY <1>1, <1>2, <1>3, RecordsIs
<1>6. e \in RebuildStates
  BY <1>5 DEF Alike
<1>7. Alike(f, e) /\ f.above = Then(Then(z, x), y)
  BY <1>1, <1>2, <1>3, <1>5, <1>6, RecordsIs
<1>8. Alike(f, c) /\ f \in RebuildStates
  BY <1>5, <1>6, <1>7, AlikeSteps
<1>9. Alike(g, f) /\ g.above = More(Then(Then(z, x), y), path)
  BY <1>7, <1>8, NotedIs
<1>10. PICK J : J = Joined(L, R)
  OBVIOUS
<1>11. J \in Seq(Routes)
  BY <1>10, JoinedIs
<1>12. PICK h : h = [c EXCEPT !.above = Then(c.above, Under(path, J))]
  OBVIOUS
<1>13. Records(h, c, path, J)
  BY <1>12 DEF Records
<1>14. Alike(h, c) /\ h.above = Then(z, Under(path, J))
  BY <1>3, <1>11, <1>13, RecordsIs
<1>15. Under(path, J) = More(Then(x, y), path)
  BY <1>1, <1>3, <1>4, <1>10, UnderJoined
<1>16. g.above = h.above
  BY <1>4, <1>9, <1>14, <1>15, ListsJoined
<1>17. Alike(g, c)
  BY <1>8, <1>9, AlikeSteps
<1>18. g = h
  BY <1>14, <1>16, <1>17, AlikeSteps
<1> QED
  BY <1>10, <1>13, <1>18

LEMMA AtSound ==
    ASSUME NEW n \in Sound, NEW q \in Paths(n)
    PROVE  At(n, q) \in Sound /\ ~IsNil(At(n, q)) /\ At(n, q).size <= n.size
<1> HIDE DEF Paths, At
<1> DEFINE S == {k \in Sound : \A u \in Paths(k) : /\ At(k, u) \in Sound /\ ~IsNil(At(k, u))
                                                   /\ At(k, u).size <= k.size}
<1>1. Nil \in S
  BY SoundNil, NodesOfNil
<1>2. ASSUME NEW k \in Sound, ~IsNil(k), \A o \in Sound : o.size < k.size => o \in S
      PROVE  k \in S
  <2>1. /\ k.l \in Sound /\ k.r \in Sound /\ k.l.size \in Nat /\ k.r.size \in Nat
        /\ k.size = 1 + k.l.size + k.r.size /\ k \in Trees
    BY <1>2, SoundNode DEF Sound
  <2>2. k.l \in S /\ k.r \in S
    BY <1>2, <2>1
  <2>3. ASSUME NEW u \in Paths(k)
        PROVE  At(k, u) \in Sound /\ ~IsNil(At(k, u)) /\ At(k, u).size <= k.size
    <3>1. CASE u = <<>> /\ At(k, u) = k
      BY <1>2, <2>1, <3>1
    <3>2. ASSUME NEW o \in {k.l, k.r}, NEW w \in Paths(o), At(k, u) = At(o, w)
          PROVE  At(k, u) \in Sound /\ ~IsNil(At(k, u)) /\ At(k, u).size <= k.size
      <4>1. At(o, w) \in Sound /\ ~IsNil(At(o, w)) /\ At(o, w).size <= o.size
        BY <2>2, <3>2
      <4>2. At(o, w).size \in Nat
        BY <4>1, SizeType DEF Sound
      <4> QED
        BY <2>1, <3>2, <4>1, <4>2
    <3> QED
      BY <1>2, <2>1, <3>1, <3>2, PathCases
  <2> QED
    BY <2>3
<1> HIDE DEF S
<1>3. Sound \subseteq S
  BY <1>1, <1>2, SoundInduction
<1> QED
  BY <1>3 DEF S

\* The flags of a node that has none itself are its subtrees'.
LEMMA FlagsAbove ==
    ASSUME NEW x \in Trees, ~IsNil(x), ~x.underRebuild, x.l \in Trees, x.r \in Trees
    PROVE  /\ \A s : Flags(x.l) = {s} /\ Flags(x.r) = {} => Flags(x) = {<<"l">> \o s}
           /\ \A s : Flags(x.l) = {} /\ Flags(x.r) = {s} => Flags(x) = {<<"r">> \o s}
           /\ Flags(x.l) = {} /\ Flags(x.r) = {} => Flags(x) = {}
<1>1. Flags(x.l) \subseteq Routes /\ Flags(x.r) \subseteq Routes
  BY PathsType DEF Flags
<1> HIDE DEF Flags
<1>2. /\ \A q \in Routes : /\ <<"l">> \o q \in Flags(x) <=> q \in Flags(x.l)
                           /\ <<"r">> \o q \in Flags(x) <=> q \in Flags(x.r)
      /\ \A q \in Flags(x) : \/ q = <<>>
                             \/ \E u \in Flags(x.l) : q = <<"l">> \o u
                             \/ \E u \in Flags(x.r) : q = <<"r">> \o u
      /\ <<>> \notin Flags(x)
  BY FlagsNode
<1>3. ASSUME NEW s, Flags(x.l) = {s}, Flags(x.r) = {}
      PROVE  Flags(x) = {<<"l">> \o s}
  <2>1. PICK z : z = <<"l">> \o s
    OBVIOUS
  <2>2. z \in Flags(x) /\ \A q \in Flags(x) : q = z
    BY <1>1, <1>2, <1>3, <2>1
  <2> QED
    BY <2>1, <2>2
<1>4. ASSUME NEW s, Flags(x.l) = {}, Flags(x.r) = {s}
      PROVE  Flags(x) = {<<"r">> \o s}
  <2>1. PICK z : z = <<"r">> \o s
    OBVIOUS
  <2>2. z \in Flags(x) /\ \A q \in Flags(x) : q = z
    BY <1>1, <1>2, <1>4, <2>1
  <2> QED
    BY <2>1, <2>2
<1> QED
  BY <1>2, <1>3, <1>4

\* A mutation of tree t that has started a rebuild somewhere below path.
Started(t, path, c, e) ==
    /\ ~c.replaying /\ ParallelRebuildSize <= MaxNodes
    /\ \E s \in Open(t) : \E rel :
           /\ Flags(t) = {s} /\ Recording(t, rel) /\ Covering(s, rel)
           /\ Records(e, Freezing(c, path \o s, Flatten[At(t, s)]), path, rel)

\* What a mutation leaves of the rebuild state: that no rebuild is in flight
\* and, where it was even before, the tree is balanced; or that it has started
\* one; or that it has recorded more above the one it had started before.
AfterIdle(even, t, path, c, e) ==
    \/ e = c /\ Flags(t) = {} /\ (even => Balanced[t])
    \/ Started(t, path, c, e)

AfterCapturing(t, path, c, e) ==
    /\ Flags(t) = {}
    /\ \E rel : Recording(t, rel) /\ Records(e, c, path, rel)

LEMMA KeptCapturing ==
    ASSUME NEW x \in Sound, ~IsNil(x), ~x.pushdown, NEW c \in RebuildStates, Capturing(c),
           NEW path \in Routes, NEW d \in Unwind(x, c, path)
    PROVE  d.tree = x /\ Noted(d.state, c, path)
<1>1. Kept(d, x, c, path) \/ Frozen(d, x, c, path) \/ Rebuilt(d, x, c)
  BY UnwindCases
<1>2. c.slot # NoSlot /\ c.capturing
  BY DEF Capturing
<1>3. ~Frozen(d, x, c, path) /\ ~Rebuilt(d, x, c)
  BY <1>2 DEF Frozen, Rebuilt
<1> QED
  BY <1>1, <1>2, <1>3 DEF Kept, Captured, Noted, More

LEMMA RecordsCapturing ==
    ASSUME NEW c \in RebuildStates, Capturing(c), NEW path \in Routes,
           NEW rel, NEW t, Recording(t, rel), NEW e, Records(e, c, path, rel)
    PROVE  e \in RebuildStates /\ Capturing(e) /\ rel \in Seq(Routes)
<1>1. rel \in Seq(Routes)
  BY DEF Recording
<1>2. Alike(e, c)
  BY <1>1, RecordsIs
<1> QED
  BY <1>1, <1>2 DEF Alike, Capturing

\* The node at path over subtrees in which more has been recorded.
LEMMA NodeCapturing ==
    ASSUME NEW x \in Sound, ~IsNil(x), ~x.pushdown, ~x.underRebuild,
           NEW c \in RebuildStates, Capturing(c), NEW path \in Routes,
           NEW a, AfterCapturing(x.l, Append(path, "l"), c, a),
           NEW b, AfterCapturing(x.r, Append(path, "r"), a, b),
           NEW d \in Unwind(x, b, path)
    PROVE  AfterCapturing(d.tree, path, c, d.state)
<1>1. x \in Trees /\ x.l \in Trees /\ x.r \in Trees
  BY SoundNode DEF Sound
<1>2. PICK u, v : u = Append(path, "l") /\ v = Append(path, "r")
  OBVIOUS
<1>3. u \in Routes /\ v \in Routes
  BY <1>2, RouteSteps
<1>4. PICK L : Recording(x.l, L) /\ Records(a, c, u, L)
  BY <1>2 DEF AfterCapturing
<1>5. a \in RebuildStates /\ Capturing(a) /\ L \in Seq(Routes)
  BY <1>3, <1>4, RecordsCapturing
<1>6. PICK R : Recording(x.r, R) /\ Records(b, a, v, R)
  BY <1>2 DEF AfterCapturing
<1>7. b \in RebuildStates /\ Capturing(b) /\ R \in Seq(Routes)
  BY <1>3, <1>5, <1>6, RecordsCapturing
<1>8. d.tree = x /\ Noted(d.state, b, path)
  BY <1>7, KeptCapturing
<1>9. Records(d.state, c, path, Joined(L, R))
  BY <1>2, <1>4, <1>5, <1>6, <1>7, <1>8, RecordsJoined
<1>10. Recording(x, Joined(L, R))
  BY <1>1, <1>4, <1>6, JoinedRecording
<1>11. Flags(x) = {}
  BY <1>1, FlagsAbove DEF AfterCapturing
<1> QED
  BY <1>8, <1>9, <1>10, <1>11 DEF AfterCapturing

LEMMA StartedSlot ==
    ASSUME NEW t \in Sound, NEW c \in RebuildStates, NEW path \in Routes, NEW s \in Open(t),
           NEW f, f = Freezing(c, path \o s, Flatten[At(t, s)])
    PROVE  f \in RebuildStates /\ Capturing(f) /\ path \o s \in Routes /\ s \in Routes
<1>1. s \in Paths(t) /\ s \in Routes
  BY PathsType DEF Open, Sound
<1>2. At(t, s) \in Trees
  BY <1>1, AtSound DEF Sound
<1>3. path \o s \in Routes /\ path \o s # NoSlot
  BY <1>1, RouteSteps
<1>4. f \in RebuildStates
  BY <1>2, <1>3, FreezingType
<1> QED
  BY <1>1, <1>3, <1>4 DEF Freezing, Capturing

\* The node at path over a left subtree in which a rebuild has been started,
\* and a right one in which more has been recorded since.
LEMMA NodeStartedLeft ==
    ASSUME NEW x \in Sound, ~IsNil(x), ~x.pushdown, ~x.underRebuild,
           NEW c \in RebuildStates, NEW path \in Routes,
           NEW a, Started(x.l, Append(path, "l"), c, a),
           NEW b, AfterCapturing(x.r, Append(path, "r"), a, b),
           NEW d \in Unwind(x, b, path)
    PROVE  Started(d.tree, path, c, d.state)
<1>1. /\ x \in Trees /\ x.l \in Trees /\ x.r \in Trees
      /\ x.l \in Sound /\ x.r \in Sound
  BY SoundNode DEF Sound
<1>2. PICK u, v : u = Append(path, "l") /\ v = Append(path, "r")
  OBVIOUS
<1>3. u \in Routes /\ v \in Routes
  BY <1>2, RouteSteps
<1>4. ~c.replaying /\ ParallelRebuildSize <= MaxNodes
  BY DEF Started
<1>5a. PICK s \in Open(x.l) : \E L :
          /\ Flags(x.l) = {s} /\ Recording(x.l, L) /\ Covering(s, L)
          /\ Records(a, Freezing(c, u \o s, Flatten[At(x.l, s)]), u, L)
  BY <1>2 DEF Started
<1>5. PICK L :
          /\ Flags(x.l) = {s} /\ Recording(x.l, L) /\ Covering(s, L)
          /\ Records(a, Freezing(c, u \o s, Flatten[At(x.l, s)]), u, L)
  BY <1>5a
<1>6. PICK f : f = Freezing(c, u \o s, Flatten[At(x.l, s)])
  OBVIOUS
<1>7. f \in RebuildStates /\ Capturing(f) /\ s \in Routes
  BY <1>1, <1>3, <1>6, StartedSlot
<1>8. a \in RebuildStates /\ Capturing(a) /\ L \in Seq(Routes)
  BY <1>3, <1>5, <1>6, <1>7, RecordsCapturing
<1>9. PICK R : Recording(x.r, R) /\ Records(b, a, v, R)
  BY <1>2 DEF AfterCapturing
<1>10. b \in RebuildStates /\ Capturing(b) /\ R \in Seq(Routes)
  BY <1>3, <1>8, <1>9, RecordsCapturing
<1>11. d.tree = x /\ Noted(d.state, b, path)
  BY <1>10, KeptCapturing
<1>12. Records(d.state, f, path, Joined(L, R))
  BY <1>2, <1>5, <1>6, <1>7, <1>8, <1>9, <1>10, <1>11, RecordsJoined
<1>13. PICK z : z = <<"l">> \o s
  OBVIOUS
<1>14. z \in Open(x) /\ At(x, z) = At(x.l, s)
  <2>1. s \in Paths(x.l)
    BY DEF Open
  <2>2. At(x, z) = At(x.l, s)
    BY <1>1, <1>13, <2>1, NodesBelow
  <2> QED
    BY <1>1, <1>7, <1>13, <2>2, OpenNode
<1>15. f = Freezing(c, path \o z, Flatten[At(x, z)])
  <2>1. u \o s = path \o z
    BY <1>2, <1>7, <1>13, RouteSteps
  <2> QED
    BY <1>6, <1>14, <2>1
<1>16. Flags(x) = {z}
  BY <1>1, <1>5, <1>13, FlagsAbove DEF AfterCapturing
<1>17. Recording(x, Joined(L, R)) /\ Covering(z, Joined(L, R))
  BY <1>1, <1>5, <1>7, <1>8, <1>9, <1>10, <1>13, JoinedRecording, JoinedCovering
<1> QED
  BY <1>4, <1>11, <1>12, <1>14, <1>15, <1>16, <1>17 DEF Started

\* The node at path over a right subtree in which a rebuild has been started.
LEMMA NodeStartedRight ==
    ASSUME NEW x \in Sound, ~IsNil(x), ~x.pushdown, ~x.underRebuild, Flags(x.l) = {},
           NEW c \in RebuildStates, NEW path \in Routes,
           NEW b, Started(x.r, Append(path, "r"), c, b),
           NEW d \in Unwind(x, b, path)
    PROVE  Started(d.tree, path, c, d.state)
<1>1. /\ x \in Trees /\ x.l \in Trees /\ x.r \in Trees
      /\ x.l \in Sound /\ x.r \in Sound
  BY SoundNode DEF Sound
<1>2. PICK u, v : u = Append(path, "l") /\ v = Append(path, "r")
  OBVIOUS
<1>3. u \in Routes /\ v \in Routes
  BY <1>2, RouteSteps
<1>4. ~c.replaying /\ ParallelRebuildSize <= MaxNodes
  BY DEF Started
<1>5a. PICK s \in Open(x.r) : \E R :
          /\ Flags(x.r) = {s} /\ Recording(x.r, R) /\ Covering(s, R)
          /\ Records(b, Freezing(c, v \o s, Flatten[At(x.r, s)]), v, R)
  BY <1>2 DEF Started
<1>5. PICK R :
          /\ Flags(x.r) = {s} /\ Recording(x.r, R) /\ Covering(s, R)
          /\ Records(b, Freezing(c, v \o s, Flatten[At(x.r, s)]), v, R)
  BY <1>5a
<1>6. PICK f : f = Freezing(c, v \o s, Flatten[At(x.r, s)])
  OBVIOUS
<1>7. f \in RebuildStates /\ Capturing(f) /\ s \in Routes
  BY <1>1, <1>3, <1>6, StartedSlot
<1>8. b \in RebuildStates /\ Capturing(b) /\ R \in Seq(Routes)
  BY <1>3, <1>5, <1>6, <1>7, RecordsCapturing
<1>9. PICK L : L = <<>>
  OBVIOUS
<1>10. L \in Seq(Routes) /\ Records(f, f, u, L)
  BY <1>3, <1>7, <1>9, RecordsNone
<1>11. Recording(x.l, L)
  BY <1>9, <1>10 DEF Recording
<1>12. d.tree = x /\ Noted(d.state, b, path)
  BY <1>8, KeptCapturing
<1>13. Records(d.state, f, path, Joined(L, R))
  BY <1>2, <1>5, <1>6, <1>7, <1>8, <1>10, <1>12, RecordsJoined
<1>14. PICK z : z = <<"r">> \o s
  OBVIOUS
<1>15. z \in Open(x) /\ At(x, z) = At(x.r, s)
  <2>1. s \in Paths(x.r)
    BY DEF Open
  <2>2. At(x, z) = At(x.r, s)
    BY <1>1, <1>14, <2>1, NodesBelow
  <2> QED
    BY <1>1, <1>7, <1>14, <2>2, OpenNode
<1>16. f = Freezing(c, path \o z, Flatten[At(x, z)])
  <2>1. v \o s = path \o z
    BY <1>2, <1>7, <1>14, RouteSteps
  <2> QED
    BY <1>6, <1>15, <2>1
<1>17. Flags(x) = {z}
  BY <1>1, <1>5, <1>14, FlagsAbove
<1>18. Recording(x, Joined(L, R)) /\ Covering(z, Joined(L, R))
  BY <1>1, <1>5, <1>7, <1>8, <1>10, <1>11, <1>14, JoinedRecording, JoinedCovering
<1> QED
  BY <1>4, <1>12, <1>13, <1>15, <1>16, <1>17, <1>18 DEF Started

\* The node at path when nothing has been started below it.
LEMMA NodeIdle ==
    ASSUME NEW x \in Sound, ~IsNil(x), ~x.pushdown, ~x.underRebuild,
           Flags(x.l) = {}, Flags(x.r) = {}, NEW c \in RebuildStates, Idle(c),
           NEW path \in Routes, NEW d \in Unwind(x, c, path), NEW even,
           even => MinRebuildSize >= 2 /\ Balanced[x.l] /\ Balanced[x.r]
    PROVE  AfterIdle(even, d.tree, path, c, d.state)
<1>1. /\ x \in Trees /\ x.l \in Trees /\ x.r \in Trees
      /\ x.size \in Nat /\ x.size <= MaxNodes
  BY SoundNode, SizeType DEF Sound
<1>2. c.slot = NoSlot /\ ~c.capturing
  BY DEF Idle
<1>3. Flags(x) = {}
  BY <1>1, FlagsAbove
<1>4. Kept(d, x, c, path) \/ Frozen(d, x, c, path) \/ Rebuilt(d, x, c)
  BY UnwindCases
<1>5. CASE Kept(d, x, c, path)
  <2>1. d.tree = x /\ d.state = c /\ ~NeedsRebuild(x)
    BY <1>2, <1>5 DEF Kept, Captured
  <2>2. even => Balanced[x]
    BY <1>1, <2>1, BalancedNode
  <2> QED
    BY <1>3, <2>1, <2>2 DEF AfterIdle
<1>6. CASE Rebuilt(d, x, c)
  BY <1>6 DEF Rebuilt, Built, AfterIdle
<1>7. CASE Frozen(d, x, c, path)
  <2>1. PICK t : t = [x EXCEPT !.underRebuild = TRUE]
    OBVIOUS
  <2>2. /\ t \in Sound /\ ~IsNil(t) /\ t.underRebuild /\ ~t.pushdown
        /\ t.l = x.l /\ t.r = x.r /\ Flatten[t] = Flatten[x]
    BY <2>1, FlaggedNode
  <2>3. t \in Trees
    BY <2>2 DEF Sound
  <2>4. /\ d.tree = t /\ d.state = Freezing(c, path, Flatten[x])
        /\ ~c.replaying /\ x.size >= ParallelRebuildSize
    BY <1>7, <2>1 DEF Frozen
  <2>5. ParallelRebuildSize <= MaxNodes
    BY <1>1, <2>4, ThresholdAssumption
  <2>6. Flags(t) = {<<>>}
    <3>1. <<>> \in Flags(t)
      BY <2>2, <2>3, FlagsNode
    <3>2. \A q \in Flags(t) : q = <<>>
      BY <2>2, <2>3, FlagsNode
    <3> QED
      BY <3>1, <3>2
  <2>7. <<>> \in Open(t) /\ At(t, <<>>) = t
    BY <2>2, <2>3, OpenNode, NodesBelow
  <2>8. PICK f : f = Freezing(c, path, Flatten[x])
    OBVIOUS
  <2>9. f = Freezing(c, path \o <<>>, Flatten[At(t, <<>>)])
    BY <2>2, <2>7, <2>8, RouteSteps
  <2>10. f \in RebuildStates
    BY <1>1, <2>8, FreezingType
  <2>11. Records(f, f, path, <<>>)
    BY <2>10, RecordsNone
  <2>12. Recording(t, <<>>)
    BY DEF Recording
  <2>13. Covering(<<>>, <<>>)
    <3>1. ASSUME NEW u \in Routes, Leads(u, <<>>), u # <<>>
          PROVE  FALSE
      <4>1. PICK h, w : h = Head(u) /\ w = Tail(u)
        OBVIOUS
      <4>2. h \in {"l", "r"} /\ w \in Routes /\ u = <<h>> \o w
        BY <3>1, <4>1, SplitPath
      <4> QED
        BY <3>1, <4>2, LeadsSteps
    <3> QED
      BY <3>1 DEF Covering
  <2> QED
    BY <2>4, <2>5, <2>6, <2>7, <2>8, <2>9, <2>11, <2>12, <2>13 DEF AfterIdle, Started
<1> QED
  BY <1>4, <1>5, <1>6, <1>7

\* A balanced node stays so when its label is pushed down.
LEMMA BalancedPush ==
    ASSUME NEW n \in Sound, ~IsNil(n), Balanced[n], NEW m, m = PushDown(n)
    PROVE  Balanced[m.l] /\ Balanced[m.r]
<1>1. n \in NodesOver(Trees) /\ n \in Trees /\ n.l \in Sound /\ n.r \in Sound /\ Checked(n)
      /\ n.l \in Trees /\ n.r \in Trees
  BY SoundNode DEF Sound
<1>2. /\ m.l = (IF n.pushdown THEN Deleted(n.l) ELSE n.l)
      /\ m.r = (IF n.pushdown THEN Deleted(n.r) ELSE n.r)
  BY <1>1, PushDownFields
<1>3. \A c \in Sound : /\ Deleted(c) \in Trees
                       /\ IsNil(Deleted(c)) \/ Deleted(c).treeDeleted
  BY DeletedSound DEF Sound
<1>4. CASE n.pushdown
  BY <1>1, <1>2, <1>3, <1>4, BalancedNode
<1>5. CASE ~n.pushdown /\ n.treeDeleted
  <2>1. \A c \in Children(n) : c.treeDeleted
    BY <1>1, <1>5, NodeFields DEF Checked
  <2>2. /\ IsNil(n.l) \/ n.l.treeDeleted
        /\ IsNil(n.r) \/ n.r.treeDeleted
    BY <2>1 DEF Children
  <2> QED
    BY <1>1, <1>2, <1>5, <2>2, BalancedNode
<1>6. CASE ~n.pushdown /\ ~n.treeDeleted
  BY <1>1, <1>2, <1>6, BalancedNode
<1> QED
  BY <1>4, <1>5, <1>6

\* The node at path once its left subtree and then its right one is mutated.
LEMMA NodeMutated ==
    ASSUME NEW x \in Sound, ~IsNil(x), ~x.pushdown, ~x.underRebuild,
           NEW c \in RebuildStates, Idle(c), NEW path \in Routes,
           NEW even \in BOOLEAN, even => MinRebuildSize >= 2,
           NEW a, AfterIdle(even, x.l, Append(path, "l"), c, a),
           NEW b, Idle(a) => AfterIdle(even, x.r, Append(path, "r"), c, b),
           ~Idle(a) => AfterCapturing(x.r, Append(path, "r"), a, b),
           NEW d \in Unwind(x, b, path)
    PROVE  AfterIdle(even, d.tree, path, c, d.state)
<1>1. x.l \in Sound
  BY SoundNode
<1>2. PICK u, v : u = Append(path, "l") /\ v = Append(path, "r")
  OBVIOUS
<1>3. u \in Routes
  BY <1>2, RouteSteps
<1>4. CASE a = c /\ Flags(x.l) = {} /\ (even => Balanced[x.l])
  <2>1. CASE b = c /\ Flags(x.r) = {} /\ (even => Balanced[x.r])
    BY <1>4, <2>1, NodeIdle
  <2>2. CASE Started(x.r, v, c, b)
    BY <1>2, <1>4, <2>2, NodeStartedRight DEF AfterIdle
  <2>3. AfterIdle(even, x.r, v, c, b)
    BY <1>2, <1>4
  <2> QED
    BY <2>1, <2>2, <2>3 DEF AfterIdle
<1>5. CASE Started(x.l, u, c, a)
  <2>1a. PICK s \in Open(x.l) : \E L :
            /\ Recording(x.l, L)
            /\ Records(a, Freezing(c, u \o s, Flatten[At(x.l, s)]), u, L)
    BY <1>5 DEF Started
  <2>1. PICK L :
            /\ Recording(x.l, L)
            /\ Records(a, Freezing(c, u \o s, Flatten[At(x.l, s)]), u, L)
    BY <2>1a
  <2>2. PICK f : f = Freezing(c, u \o s, Flatten[At(x.l, s)])
    OBVIOUS
  <2>3. f \in RebuildStates /\ Capturing(f)
    BY <1>1, <1>3, <2>2, StartedSlot
  <2>4. Capturing(a)
    BY <1>3, <2>1, <2>2, <2>3, RecordsCapturing
  <2>5. ~Idle(a)
    BY <2>4 DEF Idle, Capturing
  <2> QED
    BY <1>2, <1>5, <2>5, NodeStartedLeft DEF AfterIdle
<1> QED
  BY <1>2, <1>4, <1>5 DEF AfterIdle

\* A subtree that is left alone.
LEMMA LeftAlone ==
    ASSUME NEW t, Flags(t) = {}, NEW c \in RebuildStates, NEW path \in Routes
    PROVE  AfterCapturing(t, path, c, c)
<1>1. Recording(t, <<>>)
  BY DEF Recording
<1> QED
  BY <1>1, RecordsNone DEF AfterCapturing

LEMMA FlagsPushed ==
    ASSUME NEW n \in Sound, ~IsNil(n), Flags(n) = {}, NEW m, m = PushDown(n)
    PROVE  ~n.underRebuild /\ Flags(m.l) = {} /\ Flags(m.r) = {}
<1>1. n \in Trees
  BY DEF Sound
<1>2. ~n.underRebuild /\ Flags(n.l) = {} /\ Flags(n.r) = {}
  BY <1>1, FlagsNode
<1>3. Flags(m.l) = Flags(n.l) /\ Flags(m.r) = Flags(n.r)
  BY PushedPaths
<1> QED
  BY <1>2, <1>3

\* The insertion step at node n when no rebuild is in flight.
LEMMA InsertNodeIdle ==
    ASSUME NEW n \in Sound, ~IsNil(n), Flags(n) = {}, NEW m, m = PushDown(n),
           NEW c \in RebuildStates, Idle(c), NEW path \in Routes,
           NEW even \in BOOLEAN, even => MinRebuildSize >= 2 /\ Balanced[n],
           NEW side \in {"l", "r"}, NEW e, e.state \in RebuildStates,
           AfterIdle(even, e.tree, Append(path, side), c, e.state),
           NEW x \in Sound, ~IsNil(x), ~x.pushdown, x.underRebuild <=> n.underRebuild,
           x.l = (IF side = "l" THEN e.tree ELSE m.l),
           x.r = (IF side = "r" THEN e.tree ELSE m.r),
           NEW d \in Unwind(x, e.state, path)
    PROVE  AfterIdle(even, d.tree, path, c, d.state)
<1>1. ~n.underRebuild /\ Flags(m.l) = {} /\ Flags(m.r) = {}
  BY FlagsPushed
<1>2. even => Balanced[m.l] /\ Balanced[m.r]
  BY BalancedPush
<1>3. PICK u, v : u = Append(path, "l") /\ v = Append(path, "r")
  OBVIOUS
<1>4. u \in Routes /\ v \in Routes
  BY <1>3, RouteSteps
<1>5. \A w : AfterIdle(even, m.l, w, c, c) /\ AfterIdle(even, m.r, w, c, c)
  BY <1>1, <1>2 DEF AfterIdle
<1>6. PICK s : s = e.state
  OBVIOUS
<1>7. CASE side = "l"
  <2>1. AfterIdle(even, x.l, u, c, s)
    BY <1>3, <1>6, <1>7
  <2>2. x.r = m.r
    BY <1>7
  <2>3. ASSUME Idle(s) PROVE AfterIdle(even, x.r, v, c, s)
    <3>1. CASE s = c
      BY <1>5, <2>2, <3>1
    <3>2. CASE Started(x.l, u, c, s)
      <4>1. x.l \in Sound
        BY SoundNode
      <4>2a. PICK q \in Open(x.l) : \E L :
                /\ Recording(x.l, L)
                /\ Records(s, Freezing(c, u \o q, Flatten[At(x.l, q)]), u, L)
        BY <3>2 DEF Started
      <4>2. PICK L :
                /\ Recording(x.l, L)
                /\ Records(s, Freezing(c, u \o q, Flatten[At(x.l, q)]), u, L)
        BY <4>2a
      <4>3. PICK f : f = Freezing(c, u \o q, Flatten[At(x.l, q)])
        OBVIOUS
      <4>4. f \in RebuildStates /\ Capturing(f)
        BY <1>4, <4>1, <4>3, StartedSlot
      <4>5. Capturing(s)
        BY <1>4, <4>2, <4>3, <4>4, RecordsCapturing
      <4> QED
        BY <2>3, <4>5 DEF Idle, Capturing
    <3> QED
      BY <2>1, <3>1, <3>2 DEF AfterIdle
  <2>4. AfterCapturing(x.r, v, s, s)
    BY <1>1, <1>4, <1>6, <2>2, LeftAlone
  <2>5. d \in Unwind(x, s, path) /\ ~x.underRebuild
    BY <1>1, <1>6
  <2> QED
    BY <1>3, <2>1, <2>3, <2>4, <2>5, NodeMutated
<1>8. CASE side = "r"
  <2>1. AfterIdle(even, x.r, v, c, s)
    BY <1>3, <1>6, <1>8
  <2>2. AfterIdle(even, x.l, u, c, c)
    BY <1>5, <1>8
  <2>3. d \in Unwind(x, s, path) /\ ~x.underRebuild
    BY <1>1, <1>6
  <2> QED
    BY <1>3, <2>1, <2>2, <2>3, NodeMutated
<1> QED
  BY <1>7, <1>8

\* An insertion that finds no rebuild in flight leaves none and keeps a balanced
\* tree balanced, or starts one and records what is above it.
LEMMA InsertIdle ==
    ASSUME NEW n \in Sound, n.size < MaxNodes, Flags(n) = {}, NEW c \in RebuildStates, Idle(c),
           NEW path \in Routes, NEW p \in Points, NEW d \in InsertAt[n][c][path][p],
           NEW even \in BOOLEAN, even => MinRebuildSize >= 2 /\ Balanced[n]
    PROVE  AfterIdle(even, d.tree, path, c, d.state)
<1> DEFINE S == {k \in Sound :
                     k.size < MaxNodes /\ Flags(k) = {} /\ (even => MinRebuildSize >= 2 /\ Balanced[k])
                     => \A f \in RebuildStates, u \in Routes, q \in Points :
                            Idle(f) => \A e \in InsertAt[k][f][u][q] :
                                           AfterIdle(even, e.tree, u, f, e.state)}
<1>1. Nil \in S
  <2> SUFFICES ASSUME 0 < MaxNodes, even => MinRebuildSize >= 2, NEW f \in RebuildStates,
                      NEW u \in Routes, NEW q \in Points, Idle(f),
                      NEW e \in InsertAt[Nil][f][u][q]
               PROVE  AfterIdle(even, e.tree, u, f, e.state)
    BY SoundNil DEF Nil
  <2>1. Nil \in Trees /\ IsNil(Nil)
    BY NilTree
  <2>2. e.tree = PullUp(Leaf(q)) /\ e.state = f
    BY <2>1, SoundNil, InsertCases
  <2>3. MaxNodes >= 1 /\ MinRebuildSize \in Nat
    BY ThresholdAssumption
  <2>4. PICK t : t = e.tree
    OBVIOUS
  <2> HIDE DEF Nil
  <2>5. /\ t \in Trees /\ ~IsNil(t) /\ ~t.underRebuild /\ t.l = Nil /\ t.r = Nil /\ t.size = 1
    BY <2>2, <2>3, <2>4, LeafGained DEF Gained, Sound
  <2>6. Flags(t) = {}
    BY <2>1, <2>5, FlagsNil, FlagsAbove
  <2>7. even => Balanced[t]
    <3>1. even => ~NeedsRebuild(t)
      BY <2>3, <2>5 DEF NeedsRebuild
    <3>2. Balanced[Nil]
      BY <2>1, BalancedNode
    <3> QED
      BY <2>5, <3>1, <3>2, BalancedNode
  <2> QED
    BY <2>2, <2>4, <2>6, <2>7 DEF AfterIdle
<1>2. ASSUME NEW k \in Sound, ~IsNil(k), \A o \in Sound : o.size < k.size => o \in S
      PROVE  k \in S
  <2> SUFFICES ASSUME k.size < MaxNodes, Flags(k) = {}, even => MinRebuildSize >= 2 /\ Balanced[k],
                      NEW f \in RebuildStates, NEW u \in Routes,
                      NEW q \in Points, Idle(f), NEW e \in InsertAt[k][f][u][q]
               PROVE  AfterIdle(even, e.tree, u, f, e.state)
    OBVIOUS
  <2>0. PICK side \in {"l", "r"} : \E b, y : InsertedBelow(e, k, f, u, q, side, b, y)
    BY <1>2, InsertCases
  <2>1. PICK b, y : InsertedBelow(e, k, f, u, q, side, b, y)
    BY <2>0
  <2>2. PICK m : m = PushDown(k)
    OBVIOUS
  <2>3. PICK child : child = (IF side = "l" THEN m.l ELSE m.r)
    OBVIOUS
  <2>4. /\ child \in Sound /\ child.size < k.size /\ child.size < MaxNodes
        /\ k.size \in Nat /\ k.size <= MaxNodes
    BY <1>2, <2>2, <2>3, Pushed, ThresholdAssumption
  <2>5. ~k.underRebuild /\ Flags(m.l) = {} /\ Flags(m.r) = {}
    BY <1>2, <2>2, FlagsPushed
  <2>6. even => Balanced[m.l] /\ Balanced[m.r]
    BY <1>2, <2>2, BalancedPush
  <2>7. Logged(f, k, q) = f
    BY <2>5 DEF Logged
  <2>8. Append(u, side) \in Routes
    BY RouteSteps
  <2>9. b \in InsertAt[child][f][Append(u, side)][q]
    BY <2>1, <2>2, <2>3, <2>7 DEF InsertedBelow
  <2>10. Gained(b.tree, child, q) /\ b.state \in RebuildStates
    BY <2>4, <2>8, <2>9, InsertGains
  <2>11. AfterIdle(even, b.tree, Append(u, side), f, b.state)
    <3>1. Flags(child) = {} /\ (even => Balanced[child])
      BY <2>3, <2>5, <2>6
    <3>2. PICK v : v = Append(u, side)
      OBVIOUS
    <3>3. v \in Routes /\ b \in InsertAt[child][f][v][q]
      BY <2>8, <2>9, <3>2
    <3> QED
      BY <1>2, <2>4, <3>1, <3>2, <3>3
  <2>12. b.tree \in Sound /\ Inside(y, k, side, b.tree)
    BY <2>1, <2>10 DEF Gained, InsertedBelow
  <2>13. PICK x : x = PullUp(y)
    OBVIOUS
  <2>14. /\ y \in NodesOver(Sound) /\ ~y.pushdown /\ Ordered(y)
         /\ 1 + y.l.size + y.r.size <= MaxNodes
    BY <1>2, <2>1, <2>2, <2>3, <2>10, <2>12, NodeGained DEF InsertedBelow
  <2>15. /\ x \in Sound /\ ~IsNil(x) /\ ~x.pushdown /\ x.l = y.l /\ x.r = y.r
         /\ x.underRebuild <=> y.underRebuild
    BY <2>13, <2>14, PulledUp
  <2>16. /\ x.underRebuild <=> k.underRebuild
         /\ x.l = (IF side = "l" THEN b.tree ELSE m.l)
         /\ x.r = (IF side = "r" THEN b.tree ELSE m.r)
    BY <2>2, <2>12, <2>15 DEF Inside
  <2>17. e \in Unwind(x, b.state, u)
    BY <2>1, <2>13 DEF InsertedBelow
  <2> QED
    BY <1>2, <2>2, <2>10, <2>11, <2>15, <2>16, <2>17, InsertNodeIdle
<1> HIDE DEF S
<1>3. Sound \subseteq S
  BY <1>1, <1>2, SoundInduction
<1> QED
  BY <1>3 DEF S

\* remove_box() at a node, given its removals from the subtrees.
RemoveOf(n, left, right) ==
    [c \in RebuildStates |-> [path \in Routes |-> [box \in Corners \X Corners |->
        IF IsNil(n) THEN {Leaving(n, c)}
        ELSE IF n.treeDeleted \/ Disjoint(n, box) THEN {Leaving(n, c)}
        ELSE IF Within(n.lo, box) /\ Within(n.hi, box) THEN {Leaving(Deleted(n), c)}
        ELSE LET m == PushDown(n)
             IN  UNION {UNION {
                    Unwind(PullUp(Cleared(m, box, d.tree, e.tree)), e.state, path) :
                    e \in right[d.state][Append(path, "r")][box]} :
                    d \in left[c][Append(path, "l")][box]}]]]

LEMMA RemoveBoxAtDef ==
    RemoveBoxAt = [n \in Trees |-> RemoveOf(n, RemoveBoxAt[PushDown(n).l], RemoveBoxAt[PushDown(n).r])]
<1> DEFINE Solves(f, h) == f = [n \in TreesUpTo[h] |-> RemoveOf(n, f[PushDown(n).l], f[PushDown(n).r])]
           S == {h \in 0..MaxNodes : \E f : Solves(f, h)}
<1>1. MaxNodes \in Nat
  BY ThresholdAssumption
<1>2. \A x, y, v, w : RemoveOf(Nil, x, y) = RemoveOf(Nil, v, w)
  BY NilTree DEF RemoveOf
<1> HIDE DEF RemoveOf
<1>3. 0 \in S
  <2> DEFINE f == [n \in TreesUpTo[0] |-> RemoveOf(Nil, 0, 0)]
  <2>1. Solves(f, 0)
    BY <1>2, TreesLevels
  <2> HIDE DEF Solves, f
  <2> QED
    BY <1>1, <2>1
<1>4. ASSUME NEW h \in 0..MaxNodes, h < MaxNodes, h \in S
      PROVE  h + 1 \in S
  <2>1. PICK f : Solves(f, h)
    BY <1>4
  <2>2. h + 1 \in 0..MaxNodes /\ (h + 1) - 1 = h /\ h <= h + 1
    BY <1>1, <1>4
  <2>3. TreesUpTo[h] \subseteq TreesUpTo[h + 1]
    BY <2>2, TreesGrow
  <2> DEFINE g == [n \in TreesUpTo[h + 1] |-> RemoveOf(n, f[PushDown(n).l], f[PushDown(n).r])]
  <2>4. ASSUME NEW n \in TreesUpTo[h]
        PROVE  g[n] = f[n]
    <3>1. f[n] = RemoveOf(n, f[PushDown(n).l], f[PushDown(n).r])
      BY <2>1
    <3> QED
      BY <2>3, <3>1
  <2>5. ASSUME NEW n \in TreesUpTo[h + 1]
        PROVE  RemoveOf(n, f[PushDown(n).l], f[PushDown(n).r]) = RemoveOf(n, g[PushDown(n).l], g[PushDown(n).r])
    <3>1. CASE n = Nil
      BY <1>2, <3>1
    <3>2. CASE n \in NodesOver(TreesUpTo[h])
      <4>1. PushDown(n).l \in TreesUpTo[h] /\ PushDown(n).r \in TreesUpTo[h]
        BY <3>2, PushDownTree DEF NodesOver
      <4> HIDE DEF g
      <4> QED
        BY <2>4, <4>1
    <3> QED
      BY <2>2, <3>1, <3>2, TreeCases
  <2>6. Solves(g, h + 1)
    BY <2>5
  <2> HIDE DEF Solves, g
  <2> QED
    BY <2>2, <2>6
<1>5. MaxNodes \in S
  <2> HIDE DEF S
  <2>1. 0..MaxNodes \subseteq S
    BY <1>1, <1>3, <1>4, Induct
  <2> QED
    BY <1>1, <2>1
<1>6. \E f : Solves(f, MaxNodes)
  BY <1>5
<1>7. RemoveBoxAt = CHOOSE f : f = [n \in Trees |-> RemoveOf(n, f[PushDown(n).l], f[PushDown(n).r])]
  BY DEF RemoveBoxAt, RemoveOf
<1> QED
  BY <1>6, <1>7 DEF Trees


\* Node y is the pushed down node n with its own point marked if it is in the
\* box, over the subtrees s and t.
Swept(y, n, box, s, t) ==
    /\ y \in NodesOver(Sound) /\ ~y.pushdown
    /\ y.pt = n.pt /\ y.axis = n.axis
    /\ y.deleted <=> n.deleted \/ Within(n.pt, box)
    /\ y.underRebuild <=> n.underRebuild
    /\ y.l = s /\ y.r = t

LEMMA SweptNode ==
    ASSUME NEW n \in Sound, ~IsNil(n), NEW box, NEW s \in Sound, NEW t \in Sound,
           NEW y, y = Cleared(PushDown(n), box, s, t)
    PROVE  Swept(y, n, box, s, t)
<1>1. PICK m : m = PushDown(n)
  OBVIOUS
<1>2. m \in NodesOver(Sound)
  BY <1>1, PushDownSound
<1>3. n \in NodesOver(Trees)
  BY SoundNode
<1>4. m.pt = n.pt /\ m.axis = n.axis
  BY <1>1, <1>3, PushDownFields
<1>5. /\ m.deleted = n.deleted
      /\ m.underRebuild = n.underRebuild
      /\ m.pushdown = FALSE
  BY <1>1, <1>3, PushDownFields
<1>6. PICK z : z = IF Within(m.pt, box) THEN TRUE ELSE m.deleted
  OBVIOUS
<1>7. m.deleted \in BOOLEAN
  BY <1>2 DEF NodesOver
<1>8. z \in BOOLEAN
  BY <1>6, <1>7
<1>9. y = [m EXCEPT !.deleted = z, !.l = s, !.r = t]
  BY <1>1, <1>6 DEF Cleared
<1>10. /\ y \in NodesOver(Sound) /\ y.pt = m.pt /\ y.axis = m.axis /\ y.deleted = z
       /\ y.underRebuild = m.underRebuild /\ y.pushdown = m.pushdown
       /\ y.l = s /\ y.r = t
  BY <1>2, <1>8, <1>9 DEF NodesOver
<1>11. y.deleted <=> n.deleted \/ Within(n.pt, box)
  BY <1>4, <1>5, <1>6, <1>10
<1> QED
  BY <1>4, <1>5, <1>10, <1>11 DEF Swept

\* A removal that reaches node n removes from its left and then from its right
\* subtree, and ends at n over both.
RemovedBelow(d, n, c, path, box, a, b, y) ==
    /\ a \in RemoveBoxAt[PushDown(n).l][c][Append(path, "l")][box]
    /\ b \in RemoveBoxAt[PushDown(n).r][a.state][Append(path, "r")][box]
    /\ d \in Unwind(PullUp(y), b.state, path)
    /\ a.tree \in Sound /\ b.tree \in Sound => Swept(y, n, box, a.tree, b.tree)

LEMMA RemoveCases ==
    ASSUME NEW n \in Sound, NEW c \in RebuildStates, NEW path \in Routes,
           NEW box \in Corners \X Corners, NEW d \in RemoveBoxAt[n][c][path][box]
    PROVE  \/ /\ IsNil(n) \/ n.treeDeleted \/ Disjoint(n, box)
              /\ d.tree = n /\ d.state = c
           \/ /\ ~IsNil(n) /\ Within(n.lo, box) /\ Within(n.hi, box)
              /\ d.tree = Deleted(n) /\ d.state = c
           \/ /\ ~IsNil(n) /\ ~n.treeDeleted
              /\ \E a, b, y : RemovedBelow(d, n, c, path, box, a, b, y)
<1>1. PICK f : f = RemoveBoxAt
  OBVIOUS
<1>2. f = [t \in Trees |-> RemoveOf(t, f[PushDown(t).l], f[PushDown(t).r])]
  <2> HIDE DEF RemoveBoxAt, RemoveOf
  <2> QED
    BY <1>1, RemoveBoxAtDef
<1>3. n \in Trees
  BY DEF Sound
<1>4. PICK left : left = f[PushDown(n).l]
  OBVIOUS
<1>5. PICK right : right = f[PushDown(n).r]
  OBVIOUS
<1>6. f[n] = RemoveOf(n, left, right)
  <2> HIDE DEF RemoveOf
  <2> QED
    BY <1>2, <1>3, <1>4, <1>5
<1>7. d \in RemoveOf(n, left, right)[c][path][box]
  BY <1>1, <1>6
<1>8. CASE IsNil(n) \/ n.treeDeleted \/ Disjoint(n, box)
  <2>1. d = Leaving(n, c)
    BY <1>7, <1>8 DEF RemoveOf
  <2> QED
    BY <1>8, <2>1 DEF Leaving
<1>9. CASE ~(IsNil(n) \/ n.treeDeleted \/ Disjoint(n, box))
           /\ Within(n.lo, box) /\ Within(n.hi, box)
  <2>1. d = Leaving(Deleted(n), c)
    BY <1>7, <1>9 DEF RemoveOf
  <2> QED
    BY <1>9, <2>1 DEF Leaving
<1>10. CASE ~(IsNil(n) \/ n.treeDeleted \/ Disjoint(n, box))
            /\ ~(Within(n.lo, box) /\ Within(n.hi, box))
  <2>1. PICK m : m = PushDown(n)
    OBVIOUS
  <2>3. d \in UNION {UNION {
                  Unwind(PullUp(Cleared(m, box, a.tree, b.tree)), b.state, path) :
                  b \in right[a.state][Append(path, "r")][box]} :
                  a \in left[c][Append(path, "l")][box]}
    BY <1>7, <1>10, <2>1 DEF RemoveOf
  <2>4. PICK a \in left[c][Append(path, "l")][box] :
            \E b \in right[a.state][Append(path, "r")][box] :
                d \in Unwind(PullUp(Cleared(m, box, a.tree, b.tree)), b.state, path)
    BY <2>3
  <2>5. PICK b \in right[a.state][Append(path, "r")][box] :
            d \in Unwind(PullUp(Cleared(m, box, a.tree, b.tree)), b.state, path)
    BY <2>4
  <2>6. PICK y : y = Cleared(m, box, a.tree, b.tree)
    OBVIOUS
  <2>7. d \in Unwind(PullUp(y), b.state, path)
    BY <2>5, <2>6
  <2>8. a.tree \in Sound /\ b.tree \in Sound => Swept(y, n, box, a.tree, b.tree)
    BY <1>10, <2>1, <2>6, SweptNode
  <2>9. /\ a \in RemoveBoxAt[PushDown(n).l][c][Append(path, "l")][box]
        /\ b \in RemoveBoxAt[PushDown(n).r][a.state][Append(path, "r")][box]
    BY <1>1, <1>4, <1>5, <2>4, <2>5
  <2>10. RemovedBelow(d, n, c, path, box, a, b, y)
    BY <2>7, <2>8, <2>9 DEF RemovedBelow
  <2> QED
    BY <1>10, <2>10
<1> QED
  BY <1>8, <1>9, <1>10

\* Tree t has of n's live points the ones outside the box.
Spares(t, n, box) ==
    \A p \in Points : Flatten[t][p] = IF Within(p, box) THEN 0 ELSE Flatten[n][p]

\* The node of a removal over subtrees that fit.
LEMMA NodeSwept ==
    ASSUME NEW n \in Sound, ~IsNil(n), NEW m, m = PushDown(n), NEW box,
           NEW s \in Sound, Fits(s, m.l), Spares(s, m.l, box),
           NEW t \in Sound, Fits(t, m.r), Spares(t, m.r, box),
           NEW y, Swept(y, n, box, s, t), NEW x, x = PullUp(y)
    PROVE  /\ x \in Sound /\ ~IsNil(x) /\ ~x.pushdown
           /\ x.l = s /\ x.r = t /\ (x.underRebuild <=> n.underRebuild)
           /\ Fits(x, n) /\ Spares(x, n, box)
<1>1. /\ m.l \in Sound /\ m.r \in Sound
      /\ m.l.size \in Nat /\ m.r.size \in Nat /\ n.size \in Nat
      /\ n.size = 1 + m.l.size + m.r.size /\ n.size <= MaxNodes
      /\ n.pt \in Points /\ n.axis \in Axes
  BY Pushed
<1>2. \A p \in Points : Flatten[n][p] = Own(n, p) + Flatten[m.l][p] + Flatten[m.r][p]
  BY Pushed
<1>3. \A a \in Axes, v \in Int :
          /\ Below(n, a, v) <=> n.pt[a] <= v /\ Below(m.l, a, v) /\ Below(m.r, a, v)
          /\ Beyond(n, a, v) <=> v <= n.pt[a] /\ Beyond(m.l, a, v) /\ Beyond(m.r, a, v)
  BY Pushed
<1>4. Below(m.l, n.axis, n.pt[n.axis]) /\ Beyond(m.r, n.axis, n.pt[n.axis])
  BY Pushed
<1>5. /\ y \in NodesOver(Sound) /\ ~y.pushdown
      /\ y.pt = n.pt /\ y.axis = n.axis /\ y.l = s /\ y.r = t
  BY DEF Swept
<1>6. /\ y.deleted <=> n.deleted \/ Within(n.pt, box)
      /\ y.underRebuild <=> n.underRebuild
  BY DEF Swept
<1>7. n.pt[n.axis] \in Int
  BY <1>1, GeometryAssumption DEF Corners
<1>8. /\ s.size <= m.l.size
      /\ \A a \in Axes, v \in Int : /\ Below(m.l, a, v) => Below(s, a, v)
                                    /\ Beyond(m.l, a, v) => Beyond(s, a, v)
  BY DEF Fits
<1>9. /\ t.size <= m.r.size
      /\ \A a \in Axes, v \in Int : /\ Below(m.r, a, v) => Below(t, a, v)
                                    /\ Beyond(m.r, a, v) => Beyond(t, a, v)
  BY DEF Fits
<1>10. s.size \in Nat /\ t.size \in Nat /\ MaxNodes \in Nat
  BY SizeType, ThresholdAssumption DEF Sound
<1>11. 1 + y.l.size + y.r.size <= MaxNodes
  BY <1>1, <1>5, <1>8, <1>9, <1>10
<1>12. Ordered(y)
  BY <1>1, <1>4, <1>5, <1>7, <1>8, <1>9 DEF Ordered
<1>13. /\ x \in Sound /\ ~IsNil(x) /\ ~x.pushdown
       /\ x.l = s /\ x.r = t
       /\ x.size = 1 + s.size + t.size
  BY <1>5, <1>11, <1>12, PulledUp
<1>14. x.underRebuild <=> n.underRebuild
  BY <1>5, <1>6, <1>11, <1>12, PulledUp
<1>15. /\ \A p \in Points : Flatten[x][p] = Own(y, p) + Flatten[s][p] + Flatten[t][p]
       /\ \A a \in Axes, v \in Int :
              /\ Below(x, a, v) <=> n.pt[a] <= v /\ Below(s, a, v) /\ Below(t, a, v)
              /\ Beyond(x, a, v) <=> v <= n.pt[a] /\ Beyond(s, a, v) /\ Beyond(t, a, v)
  BY <1>5, <1>11, <1>12, PulledUp
<1>16. Fits(x, n)
  <2>1. x.size <= n.size
    BY <1>1, <1>8, <1>9, <1>10, <1>13
  <2>2. \A a \in Axes, v \in Int : /\ Below(n, a, v) => Below(x, a, v)
                                   /\ Beyond(n, a, v) => Beyond(x, a, v)
    BY <1>3, <1>8, <1>9, <1>15
  <2> QED
    BY <2>1, <2>2 DEF Fits
<1>17. Spares(x, n, box)
  <2> SUFFICES ASSUME NEW p \in Points
               PROVE  Flatten[x][p] = IF Within(p, box) THEN 0 ELSE Flatten[n][p]
    BY DEF Spares
  <2>1. /\ Flatten[s][p] = IF Within(p, box) THEN 0 ELSE Flatten[m.l][p]
        /\ Flatten[t][p] = IF Within(p, box) THEN 0 ELSE Flatten[m.r][p]
    BY DEF Spares
  <2>2. Own(y, p) = IF Within(p, box) THEN 0 ELSE Own(n, p)
    BY <1>5, <1>6 DEF Own
  <2> QED
    BY <1>2, <1>15, <2>1, <2>2
<1> QED
  BY <1>13, <1>14, <1>16, <1>17

\* A tree whose box does not meet the given one, or lies within it.
LEMMA BoxCases ==
    ASSUME NEW n \in Sound, NEW box \in Corners \X Corners
    PROVE  /\ IsNil(n) \/ n.treeDeleted \/ Disjoint(n, box) => Spares(n, n, box)
           /\ ~IsNil(n) /\ Within(n.lo, box) /\ Within(n.hi, box) => Spares(Deleted(n), n, box)
<1>1. n \in Trees /\ box[1] \in Corners /\ box[2] \in Corners
  BY DEF Sound
<1>2. Flatten[n] \in Multisets
  BY <1>1, FlattenType
<1>3. \A p \in Points : Flatten[n][p] \in Nat /\ NoPoints[p] = 0
  BY <1>2 DEF Multisets, NoPoints
<1>4. ASSUME ~IsNil(n)
      PROVE  /\ n.lo \in Corners /\ n.hi \in Corners
             /\ \A p \in Points : Flatten[n][p] > 0 =>
                    \A a \in Axes : n.lo[a] <= p[a] /\ p[a] <= n.hi[a]
  <2>1. n.lo \in Corners /\ n.hi \in Corners
    BY <1>4, SoundNode, NodeFields
  <2>2. ASSUME NEW p \in Points, Flatten[n][p] > 0, NEW a \in Axes
        PROVE  n.lo[a] <= p[a] /\ p[a] <= n.hi[a]
    <3>1. n.lo[a] \in Int /\ n.hi[a] \in Int
      BY <2>1 DEF Corners
    <3>2. Below(n, a, n.hi[a]) /\ Beyond(n, a, n.lo[a])
      BY <3>1 DEF Below, Beyond
    <3> QED
      BY <2>2, <3>1, <3>2, LiveInBox
  <2> QED
    BY <2>1, <2>2
<1>6. ASSUME ~IsNil(n), Disjoint(n, box)
      PROVE  Spares(n, n, box)
  <2>1. PICK a \in Axes : n.hi[a] < box[1][a] \/ n.lo[a] > box[2][a]
    BY <1>6 DEF Disjoint
  <2>2. /\ n.lo[a] \in Int /\ n.hi[a] \in Int /\ box[1][a] \in Int /\ box[2][a] \in Int
        /\ \A p \in Points : p[a] \in Int
    BY <1>1, <1>4, <1>6, GeometryAssumption DEF Corners
  <2>3. ASSUME NEW p \in Points, Within(p, box)
        PROVE  Flatten[n][p] = 0
    <3>1. ~(Flatten[n][p] > 0)
      BY <1>4, <1>6, <2>1, <2>2, <2>3 DEF Within
    <3> QED
      BY <1>3, <3>1
  <2> QED
    BY <2>3 DEF Spares
<1>7. ASSUME ~IsNil(n), Within(n.lo, box), Within(n.hi, box)
      PROVE  Spares(Deleted(n), n, box)
  <2>1. Flatten[Deleted(n)] = NoPoints
    BY FlattenDeleted
  <2>2. ASSUME NEW p \in Points, ~Within(p, box)
        PROVE  Flatten[n][p] = 0
    <3>1. PICK a \in Axes : ~(box[1][a] <= p[a]) \/ ~(p[a] <= box[2][a])
      BY <2>2 DEF Within
    <3>2. /\ n.lo[a] \in Int /\ n.hi[a] \in Int /\ box[1][a] \in Int /\ box[2][a] \in Int
          /\ p[a] \in Int
      BY <1>1, <1>4, <1>7, GeometryAssumption DEF Corners
    <3>3. box[1][a] <= n.lo[a] /\ n.hi[a] <= box[2][a]
      BY <1>7 DEF Within
    <3>4. ~(Flatten[n][p] > 0)
      BY <1>4, <1>7, <3>1, <3>2, <3>3
    <3> QED
      BY <1>3, <3>4
  <2> QED
    BY <1>3, <2>1, <2>2 DEF Spares
<1>8. IsNil(n) \/ n.treeDeleted => Spares(n, n, box)
  <2>1. ASSUME IsNil(n) \/ n.treeDeleted PROVE Spares(n, n, box)
    <3>1. Flatten[n] = NoPoints
      BY <1>1, <2>1, FlattenLabelled
    <3> QED
      BY <1>3, <3>1 DEF Spares
  <2> QED
    BY <2>1
<1> QED
  BY <1>6, <1>7, <1>8

LEMMA DeletedFits ==
    ASSUME NEW n \in Sound
    PROVE  Deleted(n) \in Sound /\ Fits(Deleted(n), n)
<1>1. n.size \in Nat
  BY SizeType DEF Sound
<1> QED
  BY <1>1, DeletedSound DEF Fits

\* What a removal leaves of tree n.
Removed(d, n, box) ==
    /\ d.tree \in Sound /\ Fits(d.tree, n) /\ Spares(d.tree, n, box)
    /\ d.state \in RebuildStates

\* Every outcome of a box removal is a sound tree of the live points outside
\* the box, whatever rebuilds it has done or started on the way
\* (ikd_tree.cpp:274-308).
THEOREM RemoveClears ==
    ASSUME NEW n \in Sound, NEW c \in RebuildStates, NEW path \in Routes,
           NEW box \in Corners \X Corners, NEW d \in RemoveBoxAt[n][c][path][box]
    PROVE  Removed(d, n, box)
<1> DEFINE S == {k \in Sound : \A f \in RebuildStates, u \in Routes :
                     \A e \in RemoveBoxAt[k][f][u][box] : Removed(e, k, box)}
<1>1. ASSUME NEW k \in Sound, NEW f \in RebuildStates, NEW u \in Routes,
             NEW e \in RemoveBoxAt[k][f][u][box],
             ~\E a, b, y : ~IsNil(k) /\ RemovedBelow(e, k, f, u, box, a, b, y)
      PROVE  Removed(e, k, box)
  <2>1. CASE /\ IsNil(k) \/ k.treeDeleted \/ Disjoint(k, box)
             /\ e.tree = k /\ e.state = f
    <3>1. Fits(k, k)
      BY FitsSelf DEF Sound
    <3> QED
      BY <2>1, <3>1, BoxCases DEF Removed
  <2>2. CASE /\ ~IsNil(k) /\ Within(k.lo, box) /\ Within(k.hi, box)
             /\ e.tree = Deleted(k) /\ e.state = f
    BY <2>2, DeletedFits, BoxCases DEF Removed
  <2> QED
    BY <1>1, <2>1, <2>2, RemoveCases
<1>2. Nil \in S
  BY <1>1, SoundNil, NilTree
<1>3. ASSUME NEW k \in Sound, ~IsNil(k), \A o \in Sound : o.size < k.size => o \in S
      PROVE  k \in S
  <2> SUFFICES ASSUME NEW f \in RebuildStates, NEW u \in Routes,
                      NEW e \in RemoveBoxAt[k][f][u][box]
               PROVE  Removed(e, k, box)
    OBVIOUS
  <2>1. ASSUME NEW a, NEW b, NEW y, RemovedBelow(e, k, f, u, box, a, b, y)
        PROVE  Removed(e, k, box)
    <3>1. PICK m : m = PushDown(k)
      OBVIOUS
    <3>2. m.l \in Sound /\ m.r \in Sound /\ m.l.size < k.size /\ m.r.size < k.size
      BY <1>3, <3>1, Pushed
    <3>3. PICK v, w : v = Append(u, "l") /\ w = Append(u, "r")
      OBVIOUS
    <3>4. v \in Routes /\ w \in Routes
      BY <3>3, RouteSteps
    <3>5. /\ a \in RemoveBoxAt[m.l][f][v][box]
          /\ b \in RemoveBoxAt[m.r][a.state][w][box]
      BY <2>1, <3>1, <3>3 DEF RemovedBelow
    <3>6. Removed(a, m.l, box)
      BY <1>3, <3>2, <3>4, <3>5
    <3>7. a.state \in RebuildStates
      BY <3>6 DEF Removed
    <3>8. Removed(b, m.r, box)
      BY <1>3, <3>2, <3>4, <3>5, <3>7
    <3>9. Swept(y, k, box, a.tree, b.tree)
      BY <2>1, <3>6, <3>8 DEF RemovedBelow, Removed
    <3>10. PICK x : x = PullUp(y)
      OBVIOUS
    <3>11. /\ x \in Sound /\ ~IsNil(x) /\ ~x.pushdown
           /\ Fits(x, k) /\ Spares(x, k, box)
      BY <1>3, <3>1, <3>6, <3>8, <3>9, <3>10, NodeSwept DEF Removed
    <3>12. e \in Unwind(x, b.state, u) /\ b.state \in RebuildStates
      BY <2>1, <3>8, <3>10 DEF RemovedBelow, Removed
    <3>13. /\ e.tree \in Sound /\ Flatten[e.tree] = Flatten[x] /\ Fits(e.tree, x)
           /\ e.state \in RebuildStates
      BY <3>11, <3>12, UnwindCases
    <3>14. Fits(e.tree, k)
      <4>1. e.tree.size \in Nat /\ x.size \in Nat /\ k.size \in Nat
        BY <3>11, <3>13, SizeType DEF Sound
      <4> QED
        BY <3>11, <3>13, <4>1 DEF Fits
    <3> QED
      BY <3>11, <3>13, <3>14 DEF Removed, Spares
  <2> QED
    BY <1>1, <2>1
<1> HIDE DEF S
<1>4. Sound \subseteq S
  BY <1>2, <1>3, SoundInduction
<1> QED
  BY <1>4 DEF S

\* The node of a removal over what is left of its subtrees.
LEMMA NodeCleared ==
    ASSUME NEW k \in Sound, ~IsNil(k), NEW m, m = PushDown(k), NEW f \in RebuildStates,
           NEW u \in Routes, NEW box \in Corners \X Corners, NEW d,
           NEW a, NEW b, NEW y, RemovedBelow(d, k, f, u, box, a, b, y),
           NEW x, x = PullUp(y)
    PROVE  /\ a.tree \in Sound /\ a.state \in RebuildStates
           /\ b.tree \in Sound /\ b.state \in RebuildStates
           /\ m.l \in Sound /\ m.r \in Sound /\ m.l.size < k.size /\ m.r.size < k.size
           /\ x \in Sound /\ ~IsNil(x) /\ ~x.pushdown /\ x.l = a.tree /\ x.r = b.tree
           /\ x.underRebuild <=> k.underRebuild
           /\ d \in Unwind(x, b.state, u)
<1>1. m.l \in Sound /\ m.r \in Sound /\ m.l.size < k.size /\ m.r.size < k.size
  BY Pushed
<1>2. PICK v, w : v = Append(u, "l") /\ w = Append(u, "r")
  OBVIOUS
<1>3. v \in Routes /\ w \in Routes
  BY <1>2, RouteSteps
<1>4. a \in RemoveBoxAt[m.l][f][v][box] /\ b \in RemoveBoxAt[m.r][a.state][w][box]
  BY <1>2 DEF RemovedBelow
<1>5. Removed(a, m.l, box)
  BY <1>1, <1>3, <1>4, RemoveClears
<1>6. a.state \in RebuildStates
  BY <1>5 DEF Removed
<1>7. Removed(b, m.r, box)
  BY <1>1, <1>3, <1>4, <1>6, RemoveClears
<1>8. Swept(y, k, box, a.tree, b.tree)
  BY <1>5, <1>7 DEF Removed, RemovedBelow
<1>9. /\ x \in Sound /\ ~IsNil(x) /\ ~x.pushdown /\ x.l = a.tree /\ x.r = b.tree
      /\ x.underRebuild <=> k.underRebuild
  BY <1>5, <1>7, <1>8, NodeSwept DEF Removed
<1> QED
  BY <1>1, <1>5, <1>7, <1>9 DEF Removed, RemovedBelow

LEMMA DeletedFlags ==
    ASSUME NEW n \in Sound, Flags(n) = {}
    PROVE  Flags(Deleted(n)) = {}
BY DeletedPaths

\* A removal that comes after the start of a rebuild by the same operation
\* records every node it leaves, and flags and restructures nothing.
LEMMA RemoveCapturing ==
    ASSUME NEW n \in Sound, Flags(n) = {}, NEW c \in RebuildStates, Capturing(c),
           NEW path \in Routes, NEW box \in Corners \X Corners,
           NEW d \in RemoveBoxAt[n][c][path][box]
    PROVE  AfterCapturing(d.tree, path, c, d.state)
<1> DEFINE S == {k \in Sound :
                     Flags(k) = {} => \A f \in RebuildStates, u \in Routes :
                         Capturing(f) => \A e \in RemoveBoxAt[k][f][u][box] :
                                             AfterCapturing(e.tree, u, f, e.state)}
<1>1. ASSUME NEW k \in Sound, Flags(k) = {}, NEW f \in RebuildStates, NEW u \in Routes,
             NEW e \in RemoveBoxAt[k][f][u][box],
             ~\E a, b, y : ~IsNil(k) /\ RemovedBelow(e, k, f, u, box, a, b, y)
      PROVE  AfterCapturing(e.tree, u, f, e.state)
  <2>1. e.state = f /\ (e.tree = k \/ e.tree = Deleted(k))
    BY <1>1, RemoveCases
  <2>2. Flags(e.tree) = {}
    BY <1>1, <2>1, DeletedFlags
  <2> QED
    BY <1>1, <2>1, <2>2, LeftAlone
<1>2. Nil \in S
  BY <1>1, SoundNil, NilTree
<1>3. ASSUME NEW k \in Sound, ~IsNil(k), \A o \in Sound : o.size < k.size => o \in S
      PROVE  k \in S
  <2> SUFFICES ASSUME Flags(k) = {}, NEW f \in RebuildStates, NEW u \in Routes, Capturing(f),
                      NEW e \in RemoveBoxAt[k][f][u][box]
               PROVE  AfterCapturing(e.tree, u, f, e.state)
    OBVIOUS
  <2>1. ASSUME NEW a, NEW b, NEW y, RemovedBelow(e, k, f, u, box, a, b, y)
        PROVE  AfterCapturing(e.tree, u, f, e.state)
    <3>1. PICK m, x : m = PushDown(k) /\ x = PullUp(y)
      OBVIOUS
    <3>2. /\ a.tree \in Sound /\ a.state \in RebuildStates
          /\ b.tree \in Sound /\ b.state \in RebuildStates
          /\ m.l \in Sound /\ m.r \in Sound /\ m.l.size < k.size /\ m.r.size < k.size
          /\ x \in Sound /\ ~IsNil(x) /\ ~x.pushdown /\ x.l = a.tree /\ x.r = b.tree
          /\ x.underRebuild <=> k.underRebuild
          /\ e \in Unwind(x, b.state, u)
      BY <1>3, <2>1, <3>1, NodeCleared
    <3>3. ~k.underRebuild /\ Flags(m.l) = {} /\ Flags(m.r) = {}
      BY <1>3, <3>1, FlagsPushed
    <3>4. PICK v, w : v = Append(u, "l") /\ w = Append(u, "r")
      OBVIOUS
    <3>5. v \in Routes /\ w \in Routes
      BY <3>4, RouteSteps
    <3>6. a \in RemoveBoxAt[m.l][f][v][box] /\ b \in RemoveBoxAt[m.r][a.state][w][box]
      BY <2>1, <3>1, <3>4 DEF RemovedBelow
    <3>7. AfterCapturing(a.tree, v, f, a.state)
      BY <1>3, <3>2, <3>3, <3>5, <3>6
    <3>8. Capturing(a.state)
      <4>1. PICK rel : Recording(a.tree, rel) /\ Records(a.state, f, v, rel)
        BY <3>7 DEF AfterCapturing
      <4> QED
        BY <3>5, <4>1, RecordsCapturing
    <3>9. AfterCapturing(b.tree, w, a.state, b.state)
      BY <1>3, <3>2, <3>3, <3>5, <3>6, <3>8
    <3> QED
      BY <3>2, <3>3, <3>4, <3>7, <3>9, NodeCapturing
  <2> QED
    BY <1>1, <2>1
<1> HIDE DEF S
<1>4. Sound \subseteq S
  BY <1>2, <1>3, SoundInduction
<1> QED
  BY <1>4 DEF S

LEMMA StartedCapturing ==
    ASSUME NEW t \in Sound, NEW c \in RebuildStates, NEW path \in Routes,
           NEW e, Started(t, path, c, e)
    PROVE  Capturing(e) /\ ~Idle(e)
<1>1a. PICK s \in Open(t) : \E rel :
          /\ Recording(t, rel)
          /\ Records(e, Freezing(c, path \o s, Flatten[At(t, s)]), path, rel)
  BY DEF Started
<1>1. PICK rel :
          /\ Recording(t, rel)
          /\ Records(e, Freezing(c, path \o s, Flatten[At(t, s)]), path, rel)
  BY <1>1a
<1>2. PICK f : f = Freezing(c, path \o s, Flatten[At(t, s)])
  OBVIOUS
<1>3. f \in RebuildStates /\ Capturing(f)
  BY <1>2, StartedSlot
<1>4. Capturing(e)
  BY <1>1, <1>2, <1>3, RecordsCapturing
<1> QED
  BY <1>4 DEF Idle, Capturing

\* A removal that finds no rebuild in flight leaves none and keeps a balanced
\* tree balanced, or starts one and records every node it leaves after that.
LEMMA RemoveIdle ==
    ASSUME NEW n \in Sound, Flags(n) = {}, NEW c \in RebuildStates, Idle(c),
           NEW path \in Routes, NEW box \in Corners \X Corners,
           NEW d \in RemoveBoxAt[n][c][path][box],
           NEW even \in BOOLEAN, even => MinRebuildSize >= 2 /\ Balanced[n]
    PROVE  AfterIdle(even, d.tree, path, c, d.state)
<1> DEFINE S == {k \in Sound :
                     Flags(k) = {} /\ (even => MinRebuildSize >= 2 /\ Balanced[k])
                     => \A f \in RebuildStates, u \in Routes :
                            Idle(f) => \A e \in RemoveBoxAt[k][f][u][box] :
                                           AfterIdle(even, e.tree, u, f, e.state)}
<1>1. ASSUME NEW k \in Sound, Flags(k) = {}, even => Balanced[k],
             NEW f \in RebuildStates, NEW u \in Routes,
             NEW e \in RemoveBoxAt[k][f][u][box],
             ~\E a, b, y : ~IsNil(k) /\ RemovedBelow(e, k, f, u, box, a, b, y)
      PROVE  AfterIdle(even, e.tree, u, f, e.state)
  <2>1. e.state = f /\ (e.tree = k \/ e.tree = Deleted(k))
    BY <1>1, RemoveCases
  <2>2. Flags(e.tree) = {}
    BY <1>1, <2>1, DeletedFlags
  <2>3. even => Balanced[e.tree]
    <3>1. Deleted(k) \in Trees /\ (IsNil(Deleted(k)) \/ Deleted(k).treeDeleted)
      BY <1>1, DeletedSound DEF Sound
    <3>2. Balanced[Deleted(k)]
      BY <3>1, BalancedNode
    <3> QED
      BY <1>1, <2>1, <3>2
  <2> QED
    BY <2>1, <2>2, <2>3 DEF AfterIdle
<1>2. Nil \in S
  BY <1>1, SoundNil, NilTree
<1>3. ASSUME NEW k \in Sound, ~IsNil(k), \A o \in Sound : o.size < k.size => o \in S
      PROVE  k \in S
  <2> SUFFICES ASSUME Flags(k) = {}, even => MinRebuildSize >= 2 /\ Balanced[k],
                      NEW f \in RebuildStates, NEW u \in Routes, Idle(f),
                      NEW e \in RemoveBoxAt[k][f][u][box]
               PROVE  AfterIdle(even, e.tree, u, f, e.state)
    OBVIOUS
  <2>1. ASSUME NEW a, NEW b, NEW y, RemovedBelow(e, k, f, u, box, a, b, y)
        PROVE  AfterIdle(even, e.tree, u, f, e.state)
    <3>1. PICK m, x : m = PushDown(k) /\ x = PullUp(y)
      OBVIOUS
    <3>2. /\ a.tree \in Sound /\ a.state \in RebuildStates
          /\ b.tree \in Sound /\ b.state \in RebuildStates
          /\ m.l \in Sound /\ m.r \in Sound /\ m.l.size < k.size /\ m.r.size < k.size
          /\ x \in Sound /\ ~IsNil(x) /\ ~x.pushdown /\ x.l = a.tree /\ x.r = b.tree
          /\ x.underRebuild <=> k.underRebuild
          /\ e \in Unwind(x, b.state, u)
      BY <1>3, <2>1, <3>1, NodeCleared
    <3>3. ~k.underRebuild /\ Flags(m.l) = {} /\ Flags(m.r) = {}
      BY <1>3, <3>1, FlagsPushed
    <3>4. PICK v, w : v = Append(u, "l") /\ w = Append(u, "r")
      OBVIOUS
    <3>5. v \in Routes /\ w \in Routes
      BY <3>4, RouteSteps
    <3>6. a \in RemoveBoxAt[m.l][f][v][box] /\ b \in RemoveBoxAt[m.r][a.state][w][box]
      BY <2>1, <3>1, <3>4 DEF RemovedBelow
    <3>7. even => Balanced[m.l] /\ Balanced[m.r]
      BY <1>3, <3>1, BalancedPush
    <3>8. AfterIdle(even, a.tree, v, f, a.state)
      BY <1>3, <3>2, <3>3, <3>5, <3>6, <3>7
    <3>9. ASSUME Idle(a.state)
          PROVE  AfterIdle(even, b.tree, w, f, b.state)
      <4>1. a.state = f
        BY <3>2, <3>5, <3>8, <3>9, StartedCapturing DEF AfterIdle
      <4> QED
        BY <1>3, <3>2, <3>3, <3>5, <3>6, <3>7, <4>1
    <3>10. ASSUME ~Idle(a.state)
           PROVE  AfterCapturing(b.tree, w, a.state, b.state)
      <4>1. Capturing(a.state)
        BY <3>2, <3>5, <3>8, <3>10, StartedCapturing DEF AfterIdle
      <4> QED
        BY <3>2, <3>3, <3>5, <3>6, <4>1, RemoveCapturing
    <3> QED
      BY <3>2, <3>3, <3>4, <3>8, <3>9, <3>10, NodeMutated
  <2> QED
    BY <1>1, <2>1
<1> HIDE DEF S
<1>4. Sound \subseteq S
  BY <1>2, <1>3, SoundInduction
<1> QED
  BY <1>4 DEF S

-----------------------------------------------------------------------------
(* Putting a subtree in its place, and refreshing what is above it *)

PutOf(n, left, right) ==
    [path \in Routes |-> [m \in Trees |->
        IF path = <<>> THEN m
        ELSE IF Head(path) = "l" THEN [n EXCEPT !.l = left[Tail(path)][m]]
        ELSE [n EXCEPT !.r = right[Tail(path)][m]]]]

LEMMA PutDef ==
    Put = [n \in Trees |-> PutOf(n, Put[n.l], Put[n.r])]
<1> DEFINE Solves(f, h) == f = [n \in TreesUpTo[h] |-> PutOf(n, f[n.l], f[n.r])]
           S == {h \in 0..MaxNodes : \E f : Solves(f, h)}
<1>1. MaxNodes \in Nat
  BY ThresholdAssumption
<1>2. \A x, y, v, w : PutOf(Nil, x, y) = PutOf(Nil, v, w)
  <2>1. \A e : [Nil EXCEPT !.l = e] = Nil /\ [Nil EXCEPT !.r = e] = Nil
    BY DEF Nil
  <2> HIDE DEF Nil
  <2>2. ASSUME NEW x, NEW y
        PROVE  PutOf(Nil, x, y) = [path \in Routes |-> [m \in Trees |->
                                      IF path = <<>> THEN m ELSE Nil]]
    BY <2>1 DEF PutOf
  <2> QED
    BY <2>2
<1> HIDE DEF PutOf
<1>3. 0 \in S
  <2> DEFINE f == [n \in TreesUpTo[0] |-> PutOf(Nil, 0, 0)]
  <2>1. Solves(f, 0)
    BY <1>2, TreesLevels
  <2> HIDE DEF Solves, f
  <2> QED
    BY <1>1, <2>1
<1>4. ASSUME NEW h \in 0..MaxNodes, h < MaxNodes, h \in S
      PROVE  h + 1 \in S
  <2>1. PICK f : Solves(f, h)
    BY <1>4
  <2>2. h + 1 \in 0..MaxNodes /\ (h + 1) - 1 = h /\ h <= h + 1
    BY <1>1, <1>4
  <2>3. TreesUpTo[h] \subseteq TreesUpTo[h + 1]
    BY <2>2, TreesGrow
  <2> DEFINE g == [n \in TreesUpTo[h + 1] |-> PutOf(n, f[n.l], f[n.r])]
  <2>4. ASSUME NEW n \in TreesUpTo[h]
        PROVE  g[n] = f[n]
    <3>1. f[n] = PutOf(n, f[n.l], f[n.r])
      BY <2>1
    <3> QED
      BY <2>3, <3>1
  <2>5. ASSUME NEW n \in TreesUpTo[h + 1]
        PROVE  PutOf(n, f[n.l], f[n.r]) = PutOf(n, g[n.l], g[n.r])
    <3>1. CASE n = Nil
      BY <1>2, <3>1
    <3>2. CASE n \in NodesOver(TreesUpTo[h])
      <4>1. n.l \in TreesUpTo[h] /\ n.r \in TreesUpTo[h]
        BY <3>2 DEF NodesOver
      <4> HIDE DEF g
      <4> QED
        BY <2>4, <4>1
    <3> QED
      BY <2>2, <3>1, <3>2, TreeCases
  <2>6. Solves(g, h + 1)
    BY <2>5
  <2> HIDE DEF Solves, g
  <2> QED
    BY <2>2, <2>6
<1>5. MaxNodes \in S
  <2> HIDE DEF S
  <2>1. 0..MaxNodes \subseteq S
    BY <1>1, <1>3, <1>4, Induct
  <2> QED
    BY <1>1, <2>1
<1>6. \E f : Solves(f, MaxNodes)
  BY <1>5
<1>7. Put = CHOOSE f : f = [n \in Trees |-> PutOf(n, f[n.l], f[n.r])]
  BY DEF Put, PutOf
<1> QED
  BY <1>6, <1>7 DEF Trees


\* The subtree on a side, and a node with another subtree there.
Side(n, s) == IF s = "l" THEN n.l ELSE n.r
Onto(n, s, t) == IF s = "l" THEN [n EXCEPT !.l = t] ELSE [n EXCEPT !.r = t]

\* Path u takes side s and then path q.
Turns(u, s, q) == u = <<s>> \o q

LEMMA PutSteps ==
    ASSUME NEW n \in Trees, NEW q \in Routes, NEW m \in Trees, NEW s \in {"l", "r"},
           NEW u, Turns(u, s, q), NEW c, c = Put[Side(n, s)][q][m]
    PROVE  /\ Put[n][<<>>][m] = m
           /\ Put[n][u][m] = Onto(n, s, c)
<1>1. PICK f : f = Put
  OBVIOUS
<1>2. f = [t \in Trees |-> PutOf(t, f[t.l], f[t.r])]
  <2> HIDE DEF Put, PutOf
  <2> QED
    BY <1>1, PutDef
<1>3. PICK left : left = f[n.l]
  OBVIOUS
<1>4. PICK right : right = f[n.r]
  OBVIOUS
<1>5. f[n] = PutOf(n, left, right)
  <2> HIDE DEF PutOf
  <2> QED
    BY <1>2, <1>3, <1>4
<1>6. <<>> \in Routes
  BY DEF Routes
<1>7. u \in Routes /\ u # <<>> /\ Head(u) = s /\ Tail(u) = q
  BY FirstStep DEF Turns
<1>8. /\ PutOf(n, left, right)[<<>>][m] = m
      /\ s = "l" => PutOf(n, left, right)[u][m] = [n EXCEPT !.l = left[q][m]]
      /\ s = "r" => PutOf(n, left, right)[u][m] = [n EXCEPT !.r = right[q][m]]
  BY <1>6, <1>7 DEF PutOf
<1>9. /\ s = "l" => c = left[q][m]
      /\ s = "r" => c = right[q][m]
  BY <1>1, <1>3, <1>4 DEF Side
<1> HIDE DEF Put, PutOf
<1> QED
  BY <1>1, <1>5, <1>8, <1>9 DEF Onto

LEMMA PutTop ==
    ASSUME NEW n \in Trees, NEW m \in Trees
    PROVE  Put[n][<<>>][m] = m
<1>1. PICK q, u, c : q = <<>> /\ u = <<"l">> \o q /\ c = Put[Side(n, "l")][q][m]
  OBVIOUS
<1>2. q \in Routes
  BY <1>1 DEF Routes
<1>3. Turns(u, "l", q)
  BY <1>1 DEF Turns
<1> HIDE DEF Put
<1> QED
  BY <1>1, <1>2, <1>3, PutSteps

\* The node directly above a path, and the side the path takes from there.
Parent(v, side, u) ==
    /\ u = v \o <<side>> /\ u # v /\ Leads(v, u) /\ ~Leads(u, v)
    /\ \A a \in Routes : Leads(a, u) /\ a # u => Leads(a, v)

LEMMA LeadsOrder ==
    ASSUME NEW u \in Routes, NEW v \in Routes, NEW w \in Routes
    PROVE  /\ Leads(u, v) /\ Leads(v, w) => Leads(u, w)
           /\ Leads(u, v) /\ Leads(v, u) => u = v
<1>0. Routes = Seq({"l", "r"})
  BY DEF Routes
<1>1. ASSUME Leads(u, v), Leads(v, w) PROVE Leads(u, w)
  <2>1. PICK x \in Routes, y \in Routes : v = u \o x /\ w = v \o y
    BY <1>1 DEF Leads
  <2>2. w = u \o (x \o y) /\ x \o y \in Routes
    BY <1>0, <2>1, ConcatAssociative, ConcatProperties
  <2> QED
    BY <2>2 DEF Leads
<1>2. ASSUME Leads(u, v), Leads(v, u) PROVE u = v
  <2>1. PICK x \in Routes, y \in Routes : v = u \o x /\ u = v \o y
    BY <1>2 DEF Leads
  <2>2. Len(v) = Len(u) + Len(x) /\ Len(u) = Len(v) + Len(y)
    <3>1. Len(u \o x) = Len(u) + Len(x) /\ Len(v \o y) = Len(v) + Len(y)
      BY <1>0, ConcatProperties
    <3> QED
      BY <2>1, <3>1
  <2>3. Len(u) \in Nat /\ Len(v) \in Nat /\ Len(x) \in Nat /\ Len(y) \in Nat
    BY <1>0, LenProperties
  <2>4. Len(x) = 0
    BY <2>2, <2>3
  <2>5. x = <<>>
    BY <1>0, <2>4, EmptySeq
  <2> QED
    BY <2>1, <2>5, RouteSteps
<1> QED
  BY <1>1, <1>2

LEMMA ParentBelow ==
    ASSUME NEW v \in Routes, NEW side \in {"l", "r"}, NEW u \in Routes, Parent(v, side, u),
           NEW s \in {"l", "r"}
    PROVE  Parent(<<s>> \o v, side, <<s>> \o u)
<1>1. <<s>> \o u = (<<s>> \o v) \o <<side>>
  <2>1. <<s>> \in Seq({"l", "r"}) /\ <<side>> \in Seq({"l", "r"}) /\ v \in Seq({"l", "r"})
    BY DEF Routes
  <2> QED
    BY <2>1, ConcatAssociative DEF Parent
<1>2. /\ <<s>> \o u # <<s>> \o v /\ Leads(<<s>> \o v, <<s>> \o u)
      /\ ~Leads(<<s>> \o u, <<s>> \o v)
  <2>1. u # v /\ Leads(v, u) /\ ~Leads(u, v)
    BY DEF Parent
  <2>2. <<s>> \o u # <<s>> \o v
    BY <2>1, LeadsSteps
  <2>3. Leads(<<s>> \o v, <<s>> \o u)
    BY <2>1, LeadsSteps
  <2>4. ~Leads(<<s>> \o u, <<s>> \o v)
    BY <2>1, LeadsSteps
  <2> QED
    BY <2>2, <2>3, <2>4
<1>3. ASSUME NEW a \in Routes, Leads(a, <<s>> \o u), a # <<s>> \o u
      PROVE  Leads(a, <<s>> \o v)
  <2>1. CASE a = <<>>
    <3>1. <<s>> \o v \in Routes
      BY FirstStep
    <3> QED
      BY <2>1, <3>1, LeadsSteps
  <2>2. CASE a # <<>>
    <3>1. PICK h, b : h = Head(a) /\ b = Tail(a)
      OBVIOUS
    <3>2. h \in {"l", "r"} /\ b \in Routes /\ a = <<h>> \o b
      BY <2>2, <3>1, SplitPath
    <3>3. h = s /\ Leads(b, u) /\ b # u
      BY <1>3, <3>2, LeadsSteps
    <3>4. Leads(b, v)
      BY <3>2, <3>3 DEF Parent
    <3> QED
      BY <3>2, <3>3, <3>4, LeadsSteps
  <2> QED
    BY <2>1, <2>2
<1> QED
  BY <1>1, <1>2, <1>3 DEF Parent

LEMMA ParentTop ==
    ASSUME NEW side \in {"l", "r"}
    PROVE  Parent(<<>>, side, <<side>>) /\ <<side>> \in Routes /\ <<side>> \o <<>> = <<side>>
<1>1. <<>> \in Routes /\ <<side>> \in Routes
  BY DEF Routes
<1>2. <<side>> \o <<>> = <<side>> /\ <<>> \o <<side>> = <<side>>
  BY <1>1, RouteSteps
<1>3. <<side>> # <<>>
  OBVIOUS
<1>6. PICK z : z = <<>>
  OBVIOUS
<1>7. PICK o : o = <<side>>
  OBVIOUS
<1>8. z \in Routes /\ o \in Routes /\ o = <<side>> \o z
  BY <1>1, <1>2, <1>6, <1>7
<1>4. ~Leads(o, z) /\ Leads(z, o)
  BY <1>6, <1>8, LeadsSteps
<1>5. ASSUME NEW a \in Routes, Leads(a, <<side>>), a # <<side>>
      PROVE  Leads(a, <<>>)
  <2>1. CASE a = <<>>
    BY <1>1, <2>1, LeadsSteps
  <2>2. CASE a # <<>>
    <3>1. PICK h, b : h = Head(a) /\ b = Tail(a)
      OBVIOUS
    <3>2. h \in {"l", "r"} /\ b \in Routes /\ a = <<h>> \o b
      BY <2>2, <3>1, SplitPath
    <3>3. Leads(<<h>> \o b, <<side>> \o z)
      BY <1>5, <1>7, <1>8, <3>2
    <3>4. h = side /\ Leads(b, z)
      BY <1>8, <3>2, <3>3, LeadsSteps
    <3>5. Leads(z, b)
      BY <1>6, <3>2, LeadsSteps
    <3>6. b = z
      BY <1>8, <3>2, <3>4, <3>5, LeadsOrder
    <3> QED
      BY <1>5, <1>7, <1>8, <3>2, <3>4, <3>6
  <2> QED
    BY <2>1, <2>2
<1> QED
  BY <1>1, <1>2, <1>3, <1>4, <1>5, <1>6, <1>7 DEF Parent

LEMMA Parents ==
    ASSUME NEW u \in Routes, u # <<>>
    PROVE  \E v \in Routes, side \in {"l", "r"} : Parent(v, side, u)
<1> DEFINE S == {h \in 0..Len(u) : \A q \in Routes :
                     Len(q) <= h /\ q # <<>> =>
                         \E v \in Routes, side \in {"l", "r"} : Parent(v, side, q)}
<1>1. Len(u) \in Nat
  BY LenProperties DEF Routes
<1>2. 0 \in S
  <2>1. \A q \in Routes : Len(q) <= 0 => q = <<>>
    BY EmptySeq, LenProperties DEF Routes
  <2> QED
    BY <1>1, <2>1
<1>3. ASSUME NEW h \in 0..Len(u), h < Len(u), h \in S
      PROVE  h + 1 \in S
  <2>1. h + 1 \in 0..Len(u)
    BY <1>1, <1>3
  <2>2. ASSUME NEW q \in Routes, Len(q) <= h + 1, q # <<>>
        PROVE  \E v \in Routes, side \in {"l", "r"} : Parent(v, side, q)
    <3>1. PICK s, b : s = Head(q) /\ b = Tail(q)
      OBVIOUS
    <3>2. s \in {"l", "r"} /\ b \in Routes /\ q = <<s>> \o b
      BY <2>2, <3>1, SplitPath
    <3>3. Len(q) = 1 + Len(b) /\ Len(b) \in Nat
      <4>1. <<s>> \in Seq({"l", "r"}) /\ b \in Seq({"l", "r"}) /\ Len(<<s>>) = 1
        BY <3>2 DEF Routes
      <4>2. Len(<<s>> \o b) = Len(<<s>>) + Len(b) /\ Len(b) \in Nat
        BY <4>1, ConcatProperties, LenProperties
      <4> QED
        BY <3>2, <4>1, <4>2
    <3>4. CASE b = <<>>
      <4>1. q = <<s>> /\ <<>> \in Routes
        BY <3>2, <3>4, ParentTop DEF Routes
      <4>2. Parent(<<>>, s, <<s>>)
        BY <3>2, ParentTop
      <4> QED
        BY <3>2, <4>1, <4>2
    <3>5. CASE b # <<>>
      <4>1. PICK v \in Routes, side \in {"l", "r"} : Parent(v, side, b)
        BY <1>3, <2>2, <3>2, <3>3, <3>5
      <4>2. <<s>> \o v \in Routes
        BY <3>2, FirstStep
      <4> QED
        BY <3>2, <4>1, <4>2, ParentBelow
    <3> QED
      BY <3>4, <3>5
  <2> QED
    BY <2>1, <2>2
<1> HIDE DEF S
<1>4. 0..Len(u) \subseteq S
  BY <1>1, <1>2, <1>3, Induct
<1>5. Len(u) \in S
  BY <1>1, <1>4
<1> QED
  BY <1>1, <1>5 DEF S

LEMMA SideSteps ==
    ASSUME NEW n \in Trees, ~IsNil(n), NEW s \in {"l", "r"}, NEW q \in Routes,
           NEW u, Turns(u, s, q)
    PROVE  /\ Side(n, s) \in Trees
           /\ u \in Paths(n) <=> q \in Paths(Side(n, s))
           /\ q \in Paths(Side(n, s)) => At(n, u) = At(Side(n, s), q)
<1>1. n.l \in Trees /\ n.r \in Trees
  BY TreeNode, NodeFields
<1> HIDE DEF Paths, At
<1>2. CASE s = "l"
  <2>1. /\ <<"l">> \o q \in Paths(n) <=> q \in Paths(n.l)
        /\ q \in Paths(n.l) => At(n, <<"l">> \o q) = At(n.l, q)
    BY NodesBelow
  <2>2. u = <<"l">> \o q
    BY <1>2 DEF Turns
  <2> QED
    BY <1>1, <1>2, <2>1, <2>2 DEF Side
<1>3. CASE s = "r"
  <2>1. /\ <<"r">> \o q \in Paths(n) <=> q \in Paths(n.r)
        /\ q \in Paths(n.r) => At(n, <<"r">> \o q) = At(n.r, q)
    BY NodesBelow
  <2>2. u = <<"r">> \o q
    BY <1>3 DEF Turns
  <2> QED
    BY <1>1, <1>3, <2>1, <2>2 DEF Side
<1> QED
  BY <1>2, <1>3

LEMMA SideCases ==
    ASSUME NEW n \in Trees, ~IsNil(n), NEW q \in Paths(n)
    PROVE  \/ q = <<>> /\ At(n, q) = n
           \/ \E s \in {"l", "r"} : \E b \in Paths(Side(n, s)) :
                  Turns(q, s, b) /\ b \in Routes /\ At(n, q) = At(Side(n, s), b)
<1>1. n.l \in Trees /\ n.r \in Trees
  BY TreeNode, NodeFields
<1>2. Paths(n.l) \subseteq Routes /\ Paths(n.r) \subseteq Routes
  BY <1>1, PathsType
<1>3. Side(n, "l") = n.l /\ Side(n, "r") = n.r
  BY DEF Side
<1> HIDE DEF Paths, At, Side
<1>4. CASE q = <<>>
  BY <1>4, NodesBelow
<1>5. ASSUME NEW u \in Paths(n.l), q = <<"l">> \o u, At(n, q) = At(n.l, u)
      PROVE  \E s \in {"l", "r"} : \E b \in Paths(Side(n, s)) :
                  Turns(q, s, b) /\ b \in Routes /\ At(n, q) = At(Side(n, s), b)
  BY <1>2, <1>3, <1>5 DEF Turns
<1>6. ASSUME NEW u \in Paths(n.r), q = <<"r">> \o u, At(n, q) = At(n.r, u)
      PROVE  \E s \in {"l", "r"} : \E b \in Paths(Side(n, s)) :
                  Turns(q, s, b) /\ b \in Routes /\ At(n, q) = At(Side(n, s), b)
  BY <1>2, <1>3, <1>6 DEF Turns
<1> QED
  BY <1>4, <1>5, <1>6, PathCases

LEMMA OntoNode ==
    ASSUME NEW n \in Sound, ~IsNil(n), NEW s \in {"l", "r"},
           NEW t \in TreesUpTo[Side(n, s).size], NEW y, y = Onto(n, s, t)
    PROVE  /\ Side(n, s) \in Sound /\ Side(n, s).size < n.size
           /\ t \in Trees /\ y \in Trees /\ y \in TreesUpTo[n.size] /\ ~IsNil(y)
           /\ Side(y, s) = t
           /\ \A o \in {"l", "r"} : o # s => Side(y, o) = Side(n, o)
           /\ \A z : Onto(y, s, z) = Onto(n, s, z)
           /\ y.pt = n.pt
<1>1. /\ n.l \in Sound /\ n.r \in Sound /\ n \in NodesOver(Trees)
      /\ n.l.size \in Nat /\ n.r.size \in Nat /\ n.size = 1 + n.l.size + n.r.size
      /\ n.size <= MaxNodes
  BY SoundNode
<1>2. PICK h : h = n.size - 1
  OBVIOUS
<1>3. /\ h \in 0..MaxNodes /\ n.size \in 0..MaxNodes /\ n.size # 0 /\ n.size - 1 = h
      /\ n.l.size \in 0..MaxNodes /\ n.r.size \in 0..MaxNodes
      /\ n.l.size <= h /\ n.r.size <= h /\ h <= MaxNodes /\ MaxNodes \in 0..MaxNodes
  BY <1>1, <1>2, ThresholdAssumption
<1>4. n.l \in TreesUpTo[h] /\ n.r \in TreesUpTo[h]
  BY <1>1, <1>3, SoundHeight, TreesGrow
<1>5. t \in TreesUpTo[h] /\ t \in Trees
  BY <1>3, TreesGrow DEF Side, Trees
<1>6. n \in NodesOver(TreesUpTo[h])
  BY <1>1, <1>4 DEF NodesOver
<1>7. y \in NodesOver(TreesUpTo[h])
  BY <1>5, <1>6 DEF NodesOver, Onto
<1>8. y \in TreesUpTo[n.size]
  BY <1>3, <1>7, TreesLevels
<1>9. y \in Trees
  <2>1. TreesUpTo[n.size] \subseteq TreesUpTo[MaxNodes]
    BY <1>1, <1>3, TreesGrow
  <2> QED
    BY <1>8, <2>1 DEF Trees
<1>10. ~IsNil(y)
  BY <1>7 DEF NodesOver, IsNil
<1>11. /\ Side(y, s) = t
       /\ \A o \in {"l", "r"} : o # s => Side(y, o) = Side(n, o)
       /\ \A z : Onto(y, s, z) = Onto(n, s, z)
       /\ y.pt = n.pt
  BY <1>6 DEF NodesOver, Onto, Side
<1> QED
  BY <1>1, <1>5, <1>8, <1>9, <1>10, <1>11 DEF Side

LEMMA OntoSame ==
    ASSUME NEW n \in Trees, ~IsNil(n), NEW s \in {"l", "r"}
    PROVE  Onto(n, s, Side(n, s)) = n
<1>1. n \in NodesOver(Trees)
  BY TreeNode
<1> QED
  BY <1>1 DEF NodesOver, Onto, Side

\* Putting back what is there changes nothing.
LEMMA PutSame ==
    ASSUME NEW n \in Sound, NEW q \in Paths(n)
    PROVE  Put[n][q][At(n, q)] = n
<1> DEFINE S == {k \in Sound : \A u \in Paths(k) : Put[k][u][At(k, u)] = k}
<1> HIDE DEF Paths, At, Put
<1>1. Nil \in S
  BY SoundNil, NodesOfNil
<1>2. ASSUME NEW k \in Sound, ~IsNil(k), \A o \in Sound : o.size < k.size => o \in S
      PROVE  k \in S
  <2>1. k \in Trees /\ <<>> \in Routes
    BY DEF Sound, Routes
  <2>2. ASSUME NEW u \in Paths(k)
        PROVE  Put[k][u][At(k, u)] = k
    <3>1. CASE u = <<>> /\ At(k, u) = k
      BY <2>1, <3>1, PutTop
    <3>2. ASSUME NEW s \in {"l", "r"}, NEW b \in Paths(Side(k, s)),
                 Turns(u, s, b), b \in Routes, At(k, u) = At(Side(k, s), b)
          PROVE  Put[k][u][At(k, u)] = k
      <4>1. PICK c, x : c = Side(k, s) /\ x = At(c, b)
        OBVIOUS
      <4>2. c \in Sound /\ c.size < k.size
        BY <1>2, <4>1, SoundNode DEF Side
      <4>3. x \in Trees
        BY <3>2, <4>1, <4>2, AtSound DEF Sound
      <4>4. Put[c][b][x] = c
        BY <1>2, <3>2, <4>1, <4>2
      <4>5. Put[k][u][x] = Onto(k, s, Put[c][b][x])
        <5>1. PICK y : y = Put[Side(k, s)][b][x]
          OBVIOUS
        <5>2. k \in Trees /\ b \in Routes /\ Turns(u, s, b)
          BY <2>1, <3>2
        <5>3. Put[k][u][x] = Onto(k, s, y)
          BY <4>3, <5>1, <5>2, PutSteps
        <5> QED
          BY <4>1, <5>1, <5>3
      <4> QED
        BY <1>2, <2>1, <3>2, <4>1, <4>4, <4>5, OntoSame
    <3>3. \/ u = <<>> /\ At(k, u) = k
          \/ \E s \in {"l", "r"} : \E b \in Paths(Side(k, s)) :
                 Turns(u, s, b) /\ b \in Routes /\ At(k, u) = At(Side(k, s), b)
      BY <1>2, <2>1, SideCases
    <3> QED
      BY <3>1, <3>2, <3>3
  <2> QED
    BY <2>2
<1> HIDE DEF S
<1>3. Sound \subseteq S
  BY <1>1, <1>2, SoundInduction
<1> QED
  BY <1>3 DEF S

\* A tree with a subtree that is no larger in the place of one is a tree of
\* the same height.
LEMMA PutTree ==
    ASSUME NEW n \in Sound, NEW u \in Paths(n), NEW m \in Sound, m.size <= At(n, u).size
    PROVE  Put[n][u][m] \in TreesUpTo[n.size] /\ Put[n][u][m] \in Trees
<1> DEFINE S == {k \in Sound : \A q \in Paths(k), w \in Sound :
                     w.size <= At(k, q).size => Put[k][q][w] \in TreesUpTo[k.size]}
<1> HIDE DEF Paths, At, Put
<1>1. Nil \in S
  BY SoundNil, NodesOfNil
<1>2. ASSUME NEW k \in Sound, ~IsNil(k), \A o \in Sound : o.size < k.size => o \in S
      PROVE  k \in S
  <2>1. k \in Trees /\ <<>> \in Routes
    BY DEF Sound, Routes
  <2>2. ASSUME NEW q \in Paths(k), NEW w \in Sound, w.size <= At(k, q).size
        PROVE  Put[k][q][w] \in TreesUpTo[k.size]
    <3>0. w \in Trees
      BY DEF Sound
    <3>1. CASE q = <<>> /\ At(k, q) = k
      <4>1. w \in TreesUpTo[w.size] /\ w.size \in 0..MaxNodes /\ k.size \in 0..MaxNodes
        BY SoundHeight
      <4>2. w \in TreesUpTo[k.size]
        BY <2>2, <3>1, <4>1, TreesGrow
      <4> QED
        BY <2>1, <3>0, <3>1, <4>2, PutTop
    <3>2. ASSUME NEW s \in {"l", "r"}, NEW b \in Paths(Side(k, s)),
                 Turns(q, s, b), b \in Routes, At(k, q) = At(Side(k, s), b)
          PROVE  Put[k][q][w] \in TreesUpTo[k.size]
      <4>1. PICK c, x : c = Side(k, s) /\ x = Put[c][b][w]
        OBVIOUS
      <4>2. c \in Sound /\ c.size < k.size
        BY <1>2, <4>1, SoundNode DEF Side
      <4>3. x \in TreesUpTo[c.size]
        BY <1>2, <2>2, <3>2, <4>1, <4>2
      <4>4. Put[k][q][w] = Onto(k, s, x)
        <5>1. x = Put[Side(k, s)][b][w] /\ k \in Trees /\ b \in Routes /\ Turns(q, s, b)
          BY <2>1, <3>2, <4>1
        <5> QED
          BY <3>0, <5>1, PutSteps
      <4> QED
        BY <1>2, <4>1, <4>3, <4>4, OntoNode
    <3>3. \/ q = <<>> /\ At(k, q) = k
          \/ \E s \in {"l", "r"} : \E b \in Paths(Side(k, s)) :
                 Turns(q, s, b) /\ b \in Routes /\ At(k, q) = At(Side(k, s), b)
      BY <1>2, <2>1, SideCases
    <3> QED
      BY <3>1, <3>2, <3>3
  <2> QED
    BY <2>2
<1> HIDE DEF S
<1>3. Sound \subseteq S
  BY <1>1, <1>2, SoundInduction
<1>4. Put[n][u][m] \in TreesUpTo[n.size]
  BY <1>3 DEF S
<1>5. TreesUpTo[n.size] \subseteq TreesUpTo[MaxNodes]
  <2>1. n.size \in 0..MaxNodes /\ MaxNodes \in 0..MaxNodes /\ n.size <= MaxNodes
    BY SoundHeight, ThresholdAssumption
  <2> QED
    BY <2>1, TreesGrow
<1> QED
  BY <1>4, <1>5 DEF Trees

\* Trees n and t have the same node at path a, and putting it there changes
\* nothing in t.
Untouched(n, t, a) ==
    a \in Paths(t) /\ At(t, a) = At(n, a) /\ Put[t][a][At(n, a)] = t

\* Tree t differs from n at path v in that it has m on a side of it, and trees
\* put there have the same result in both.
Differs(n, t, v, side, m) ==
    /\ v \in Paths(t) /\ At(t, v) = Onto(At(n, v), side, m)
    /\ \A w \in Trees : Put[t][v][w] = Put[n][v][w]

LEMMA UntouchedBelow ==
    ASSUME NEW n \in Sound, ~IsNil(n), NEW s \in {"l", "r"},
           NEW t \in TreesUpTo[Side(n, s).size], NEW y, y = Onto(n, s, t),
           NEW b \in Paths(Side(n, s)), b \in Routes, Untouched(Side(n, s), t, b),
           NEW a, Turns(a, s, b)
    PROVE  Untouched(n, y, a)
<1>1. /\ Side(n, s) \in Sound /\ n \in Trees /\ t \in Trees /\ y \in Trees /\ ~IsNil(y)
      /\ Side(y, s) = t /\ \A z : Onto(y, s, z) = Onto(n, s, z)
  BY OntoNode DEF Sound
<1>2. PICK c, x : c = Side(n, s) /\ x = At(c, b)
  OBVIOUS
<1>3. b \in Paths(t) /\ At(t, b) = x /\ Put[t][b][x] = t
  BY <1>2 DEF Untouched
<1>4. x \in Trees
  BY <1>1, <1>2, AtSound DEF Sound
<1>5. At(n, a) = x
  BY <1>1, <1>2, SideSteps
<1>6. a \in Paths(y) /\ At(y, a) = x
  BY <1>1, <1>3, SideSteps
<1>7. Put[y][a][x] = Onto(y, s, t)
  <2>1. t = Put[Side(y, s)][b][x]
    BY <1>1, <1>3
  <2> QED
    BY <1>1, <1>4, <2>1, PutSteps
<1>8. Onto(y, s, t) = y
  BY <1>1, OntoSame
<1> QED
  BY <1>5, <1>6, <1>7, <1>8 DEF Untouched

LEMMA DiffersBelow ==
    ASSUME NEW n \in Sound, ~IsNil(n), NEW s \in {"l", "r"},
           NEW t \in TreesUpTo[Side(n, s).size], NEW y, y = Onto(n, s, t),
           NEW b \in Paths(Side(n, s)), b \in Routes, NEW side, NEW m,
           Differs(Side(n, s), t, b, side, m), NEW a, Turns(a, s, b)
    PROVE  Differs(n, y, a, side, m)
<1>1. /\ Side(n, s) \in Sound /\ n \in Trees /\ t \in Trees /\ y \in Trees /\ ~IsNil(y)
      /\ Side(y, s) = t /\ \A z : Onto(y, s, z) = Onto(n, s, z)
  BY OntoNode DEF Sound
<1>2. PICK c, x : c = Side(n, s) /\ x = At(c, b)
  OBVIOUS
<1>3. /\ b \in Paths(t) /\ At(t, b) = Onto(x, side, m)
      /\ \A w \in Trees : Put[t][b][w] = Put[c][b][w]
  BY <1>2 DEF Differs
<1>4. At(n, a) = x
  BY <1>1, <1>2, SideSteps
<1>5. a \in Paths(y) /\ At(y, a) = Onto(x, side, m)
  BY <1>1, <1>3, SideSteps
<1>6. ASSUME NEW w \in Trees PROVE Put[y][a][w] = Put[n][a][w]
  <2>1. PICK z : z = Put[c][b][w]
    OBVIOUS
  <2>2. z = Put[Side(y, s)][b][w] /\ z = Put[Side(n, s)][b][w]
    BY <1>1, <1>2, <1>3, <2>1
  <2>3. Put[y][a][w] = Onto(y, s, z)
    <3>1. y \in Trees /\ z = Put[Side(y, s)][b][w]
      BY <1>1, <2>2
    <3> QED
      BY <3>1, PutSteps
  <2>4. Put[n][a][w] = Onto(n, s, z)
    BY <1>1, <2>2, PutSteps
  <2> QED
    BY <1>1, <2>3, <2>4
<1> QED
  BY <1>4, <1>5, <1>6 DEF Differs

\* The descent of a put from a node to its subtree.
LEMMA PutBelow ==
    ASSUME NEW k \in Sound, ~IsNil(k), NEW s \in {"l", "r"}, NEW b \in Paths(Side(k, s)),
           b \in Routes, NEW q, Turns(q, s, b), NEW w \in Sound, w.size <= At(k, q).size,
           NEW x, x = Put[Side(k, s)][b][w], NEW t, t = Put[k][q][w]
    PROVE  /\ At(k, q) = At(Side(k, s), b) /\ w.size <= At(Side(k, s), b).size
           /\ Side(k, s) \in Sound /\ Side(k, s).size < k.size
           /\ x \in TreesUpTo[Side(k, s).size]
           /\ t = Onto(k, s, x)
<1>1. k \in Trees /\ w \in Trees
  BY DEF Sound
<1>2. Side(k, s) \in Sound /\ Side(k, s).size < k.size
  BY SoundNode DEF Side
<1>3. At(k, q) = At(Side(k, s), b)
  BY <1>1, SideSteps
<1>4. x \in TreesUpTo[Side(k, s).size]
  <2>1. PICK c : c = Side(k, s)
    OBVIOUS
  <2> QED
    BY <1>2, <1>3, <2>1, PutTree
<1>5. t = Onto(k, s, x)
  <2>1. PICK c : c = Put[Side(k, s)][b][w]
    OBVIOUS
  <2>2. Put[k][q][w] = Onto(k, s, c)
    BY <1>1, <2>1, PutSteps
  <2> QED
    BY <2>1, <2>2
<1> QED
  BY <1>2, <1>3, <1>4, <1>5

\* Putting a subtree in its place leaves the nodes apart from it untouched.
LEMMA PutAside ==
    ASSUME NEW n \in Sound, NEW u \in Paths(n), NEW m \in Sound, m.size <= At(n, u).size,
           NEW a \in Paths(n), ~Leads(u, a), ~Leads(a, u)
    PROVE  Untouched(n, Put[n][u][m], a)
<1> DEFINE S == {k \in Sound : \A q, d \in Paths(k), w \in Sound :
                     w.size <= At(k, q).size /\ ~Leads(q, d) /\ ~Leads(d, q)
                         => Untouched(k, Put[k][q][w], d)}
<1>1. Nil \in S
  <2> HIDE DEF Paths, At, Put
  <2> QED
    BY SoundNil, NodesOfNil
<1>2. ASSUME NEW k \in Sound, ~IsNil(k), \A o \in Sound : o.size < k.size => o \in S
      PROVE  k \in S
  <2> SUFFICES ASSUME NEW q \in Paths(k), NEW d \in Paths(k), NEW w \in Sound,
                      w.size <= At(k, q).size, ~Leads(q, d), ~Leads(d, q)
               PROVE  Untouched(k, Put[k][q][w], d)
    OBVIOUS
  <2>0. k \in Trees
    BY DEF Sound
  <2>1. q \in Routes /\ d \in Routes
    BY <2>0, PathsType
  <2>2. q # <<>> /\ d # <<>>
    BY <2>1, LeadsSteps
  <2>13. PICK s \in {"l", "r"} : \E b \in Paths(Side(k, s)) : Turns(q, s, b) /\ b \in Routes
    BY <1>2, <2>0, <2>2, SideCases
  <2>3. PICK b \in Paths(Side(k, s)) : Turns(q, s, b) /\ b \in Routes
    BY <2>13
  <2>14. PICK o \in {"l", "r"} : \E e \in Paths(Side(k, o)) : Turns(d, o, e) /\ e \in Routes
    BY <1>2, <2>0, <2>2, SideCases
  <2>4. PICK e \in Paths(Side(k, o)) : Turns(d, o, e) /\ e \in Routes
    BY <2>14
  <2>5. PICK x, t : x = Put[Side(k, s)][b][w] /\ t = Put[k][q][w]
    OBVIOUS
  <2>6. /\ w.size <= At(Side(k, s), b).size
        /\ Side(k, s) \in Sound /\ Side(k, s).size < k.size
        /\ x \in TreesUpTo[Side(k, s).size] /\ t = Onto(k, s, x)
    BY <1>2, <2>3, <2>5, PutBelow
  <2>7. CASE s = o
    <3>1. ~Leads(b, e) /\ ~Leads(e, b)
      BY <2>3, <2>4, <2>7, LeadsSteps DEF Turns
    <3>2. e \in Paths(Side(k, s))
      BY <2>4, <2>7
    <3>3. Untouched(Side(k, s), x, e)
      <4>1. PICK c : c = Side(k, s)
        OBVIOUS
      <4>2. c \in S
        BY <1>2, <2>6, <4>1
      <4>3. \A f \in Paths(c), g \in Paths(c), z \in Sound :
                z.size <= At(c, f).size /\ ~Leads(f, g) /\ ~Leads(g, f)
                    => Untouched(c, Put[c][f][z], g)
        BY <4>2
      <4> QED
        BY <2>3, <2>5, <2>6, <3>1, <3>2, <4>1, <4>3
    <3> QED
      BY <1>2, <2>4, <2>5, <2>6, <2>7, <3>2, <3>3, UntouchedBelow
  <2>8. CASE s # o
    <3>1. /\ x \in Trees /\ t \in Trees /\ t \in TreesUpTo[k.size] /\ ~IsNil(t)
          /\ Side(t, o) = Side(k, o)
      BY <1>2, <2>6, <2>8, OntoNode
    <3>2. PICK c, y : c = Side(k, o) /\ y = At(c, e)
      OBVIOUS
    <3>3. c \in Sound
      BY <1>2, <3>2, SoundNode DEF Side
    <3>4. y \in Trees /\ Put[c][e][y] = c
      BY <2>4, <3>2, <3>3, AtSound, PutSame DEF Sound
    <3>5. At(k, d) = y /\ d \in Paths(t) /\ At(t, d) = y
      BY <1>2, <2>0, <2>4, <3>1, <3>2, SideSteps
    <3>6. Put[t][d][y] = Onto(t, o, c)
      <4>1. c = Put[Side(t, o)][e][y]
        BY <3>1, <3>2, <3>4
      <4> QED
        BY <2>4, <3>1, <3>4, <4>1, PutSteps
    <3>7. Onto(t, o, c) = t
      BY <3>1, <3>2, OntoSame
    <3> QED
      BY <2>5, <3>5, <3>6, <3>7 DEF Untouched
  <2> QED
    BY <2>7, <2>8
<1> HIDE DEF S
<1>3. Sound \subseteq S
  BY <1>1, <1>2, SoundInduction
<1> QED
  BY <1>3 DEF S

\* The node above a subtree that is put in its place.
LEMMA PutAbove ==
    ASSUME NEW n \in Sound, NEW u \in Paths(n), NEW m \in Sound, m.size <= At(n, u).size,
           NEW v \in Paths(n), NEW side \in {"l", "r"}, Parent(v, side, u)
    PROVE  /\ Differs(n, Put[n][u][m], v, side, m)
           /\ At(n, u) = Side(At(n, v), side)
<1> DEFINE S == {k \in Sound : \A q, d \in Paths(k), w \in Sound :
                     w.size <= At(k, q).size /\ q = d \o <<side>>
                         => /\ Differs(k, Put[k][q][w], d, side, w)
                            /\ At(k, q) = Side(At(k, d), side)}
<1>0. <<side>> \in Routes /\ <<>> \in Routes /\ <<side>> \o <<>> = <<side>>
  BY ParentTop DEF Routes
<1>1. Nil \in S
  <2> HIDE DEF Paths, At, Put
  <2> QED
    BY SoundNil, NodesOfNil
<1>2. ASSUME NEW k \in Sound, ~IsNil(k), \A o \in Sound : o.size < k.size => o \in S
      PROVE  k \in S
  <2> SUFFICES ASSUME NEW q \in Paths(k), NEW d \in Paths(k), NEW w \in Sound,
                      w.size <= At(k, q).size, q = d \o <<side>>
               PROVE  Differs(k, Put[k][q][w], d, side, w) /\ At(k, q) = Side(At(k, d), side)
    OBVIOUS
  <2>0. k \in Trees /\ w \in Trees
    BY DEF Sound
  <2>1. q \in Routes /\ d \in Routes
    BY <2>0, PathsType
  <2>2. CASE d = <<>>
    <3>1. PICK z \in Routes : z = <<>>
      BY <1>0
    <3>2. Turns(q, side, z)
      BY <1>0, <2>1, <2>2, <3>1, RouteSteps DEF Turns
    <3>3. z \in Paths(Side(k, side)) /\ At(k, q) = At(Side(k, side), z)
      BY <1>2, <2>0, <3>2, SideSteps
    <3>4. PICK x, t : x = Put[Side(k, side)][z][w] /\ t = Put[k][q][w]
      OBVIOUS
    <3>5. /\ Side(k, side) \in Sound
          /\ x \in TreesUpTo[Side(k, side).size] /\ t = Onto(k, side, x)
      BY <1>2, <3>2, <3>3, <3>4, PutBelow
    <3>6. PICK c : c = Side(k, side)
      OBVIOUS
    <3>7. c \in Trees /\ ~IsNil(c)
      <4>1. Paths(Nil) = {}
        BY NodesOfNil
      <4>2. c # Nil
        BY <3>3, <3>6, <4>1
      <4> QED
        BY <3>5, <3>6, <4>2, SizeType DEF Sound
    <3>8. x = w
      BY <2>0, <3>1, <3>4, <3>6, <3>7, PutTop
    <3>9. At(c, z) = c
      BY <3>1, <3>7, NodesBelow
    <3>10. t \in Trees /\ ~IsNil(t)
      BY <1>2, <3>5, OntoNode
    <3>11. d \in Paths(t) /\ At(t, d) = t /\ At(k, d) = k
      BY <1>2, <2>0, <2>2, <3>10, NodesBelow
    <3>12. \A y \in Trees : Put[t][d][y] = Put[k][d][y]
      BY <2>0, <2>2, <3>10, PutTop
    <3> QED
      BY <3>3, <3>4, <3>5, <3>6, <3>8, <3>9, <3>11, <3>12 DEF Differs
  <2>3. CASE d # <<>>
    <3>0. PICK s \in {"l", "r"} : \E e \in Paths(Side(k, s)) :
              Turns(d, s, e) /\ e \in Routes /\ At(k, d) = At(Side(k, s), e)
      BY <1>2, <2>0, <2>3, SideCases
    <3>1. PICK e \in Paths(Side(k, s)) :
              Turns(d, s, e) /\ e \in Routes /\ At(k, d) = At(Side(k, s), e)
      BY <3>0
    <3>2. PICK b : b = e \o <<side>>
      OBVIOUS
    <3>3. b \in Routes /\ Turns(q, s, b)
      <4>1. <<s>> \in Seq({"l", "r"}) /\ e \in Seq({"l", "r"}) /\ <<side>> \in Seq({"l", "r"})
        BY <3>1 DEF Routes
      <4>2. (<<s>> \o e) \o <<side>> = <<s>> \o (e \o <<side>>) /\ e \o <<side>> \in Seq({"l", "r"})
        BY <4>1, ConcatAssociative, ConcatProperties
      <4> QED
        BY <3>1, <3>2, <4>2 DEF Routes, Turns
    <3>4. b \in Paths(Side(k, s)) /\ At(k, q) = At(Side(k, s), b)
      BY <1>2, <2>0, <3>3, SideSteps
    <3>5. PICK x, t : x = Put[Side(k, s)][b][w] /\ t = Put[k][q][w]
      OBVIOUS
    <3>6. /\ w.size <= At(Side(k, s), b).size
          /\ Side(k, s) \in Sound /\ Side(k, s).size < k.size
          /\ x \in TreesUpTo[Side(k, s).size] /\ t = Onto(k, s, x)
      BY <1>2, <3>3, <3>4, <3>5, PutBelow
    <3>7. /\ Differs(Side(k, s), x, e, side, w)
          /\ At(Side(k, s), b) = Side(At(Side(k, s), e), side)
      <4>1. PICK c : c = Side(k, s)
        OBVIOUS
      <4>2. c \in S
        BY <1>2, <3>6, <4>1
      <4>3. \A f \in Paths(c), g \in Paths(c), z \in Sound :
                z.size <= At(c, f).size /\ f = g \o <<side>>
                    => Differs(c, Put[c][f][z], g, side, z) /\ At(c, f) = Side(At(c, g), side)
        BY <4>2
      <4> QED
        BY <3>1, <3>2, <3>4, <3>5, <3>6, <4>1, <4>3
    <3>8. Differs(k, t, d, side, w)
      BY <1>2, <3>1, <3>6, <3>7, DiffersBelow
    <3> QED
      BY <3>1, <3>4, <3>5, <3>7, <3>8
  <2> QED
    BY <2>2, <2>3
<1> HIDE DEF S
<1>3. Sound \subseteq S
  BY <1>1, <1>2, SoundInduction
<1>4. u = v \o <<side>>
  BY DEF Parent
<1> QED
  BY <1>3, <1>4 DEF S

PullUpAt(t, path) == Put[t][path][PullUp(At(t, path))]

\* The refresh of the first k recorded ancestors, given that of k - 1.
RefreshedOf(k, refresh) ==
    [t \in Trees |->
        IF k = 0 THEN t
        ELSE LET u == refresh[t]
             IN  Put[u][above[k]][PullUp(At(u, above[k]))]]

LEMMA RefreshedDef ==
    ASSUME above \in Seq(Routes)
    PROVE  RefreshedUpTo = [k \in 0..Len(above) |-> RefreshedOf(k, RefreshedUpTo[k - 1])]
<1> DEFINE Solves(f, m) == f = [k \in 0..m |-> RefreshedOf(k, f[k - 1])]
           S == {m \in 0..Len(above) : \E f : Solves(f, m)}
<1>1. Len(above) \in Nat
  BY LenProperties
<1>2. \A x, y : RefreshedOf(0, x) = RefreshedOf(0, y)
  BY DEF RefreshedOf
<1> HIDE DEF RefreshedOf
<1>3. 0 \in S
  <2> DEFINE f == [k \in 0..0 |-> RefreshedOf(0, 0)]
  <2>1. Solves(f, 0)
    <3>1. \A k \in 0..0 : RefreshedOf(k, f[k - 1]) = RefreshedOf(0, 0)
      BY <1>2
    <3> QED
      BY <3>1
  <2> HIDE DEF Solves, f
  <2> QED
    BY <1>1, <2>1
<1>4. ASSUME NEW m \in 0..Len(above), m < Len(above), m \in S
      PROVE  m + 1 \in S
  <2>1. PICK f : Solves(f, m)
    BY <1>4
  <2> DEFINE g == [k \in 0..(m + 1) |-> RefreshedOf(k, f[k - 1])]
  <2>2. ASSUME NEW k \in 0..m
        PROVE  g[k] = f[k]
    <3>1. f[k] = RefreshedOf(k, f[k - 1])
      BY <2>1
    <3>2. k \in 0..(m + 1)
      BY <1>1
    <3> QED
      BY <3>1, <3>2
  <2>3. ASSUME NEW k \in 0..(m + 1)
        PROVE  RefreshedOf(k, f[k - 1]) = RefreshedOf(k, g[k - 1])
    <3>1. CASE k = 0
      BY <1>2, <3>1
    <3>2. CASE k # 0
      <4>1. k - 1 \in 0..m
        BY <1>1, <3>2
      <4> HIDE DEF g
      <4> QED
        BY <2>2, <4>1
    <3> QED
      BY <3>1, <3>2
  <2>4. Solves(g, m + 1)
    BY <2>3
  <2>5. m + 1 \in 0..Len(above)
    BY <1>1, <1>4
  <2> HIDE DEF Solves, g
  <2> QED
    BY <2>4, <2>5
<1>5. Len(above) \in S
  <2> HIDE DEF S
  <2>1. 0..Len(above) \subseteq S
    BY <1>1, <1>3, <1>4, Induct
  <2> QED
    BY <1>1, <2>1
<1>6. \E f : Solves(f, Len(above))
  BY <1>5
<1>7. RefreshedUpTo = CHOOSE f : f = [k \in 0..Len(above) |-> RefreshedOf(k, f[k - 1])]
  BY DEF RefreshedUpTo, RefreshedOf
<1> QED
  BY <1>6, <1>7

\* The replay of the first k logged points, given that of k - 1.
ReplayedOf(k, trees) ==
    IF k = 0 THEN {rebuilt}
    ELSE UNION {{d.tree : d \in InsertAt[t][Thawed(TRUE)][<<>>][log[k]]} : t \in trees}

LEMMA ReplayedDef ==
    ASSUME log \in Seq(Points)
    PROVE  ReplayedUpTo = [k \in 0..Len(log) |-> ReplayedOf(k, ReplayedUpTo[k - 1])]
<1> DEFINE Solves(f, m) == f = [k \in 0..m |-> ReplayedOf(k, f[k - 1])]
           S == {m \in 0..Len(log) : \E f : Solves(f, m)}
<1>1. Len(log) \in Nat
  BY LenProperties
<1>2. \A x, y : ReplayedOf(0, x) = ReplayedOf(0, y)
  BY DEF ReplayedOf
<1> HIDE DEF ReplayedOf
<1>3. 0 \in S
  <2> DEFINE f == [k \in 0..0 |-> ReplayedOf(0, 0)]
  <2>1. Solves(f, 0)
    <3>1. \A k \in 0..0 : ReplayedOf(k, f[k - 1]) = ReplayedOf(0, 0)
      BY <1>2
    <3> QED
      BY <3>1
  <2> HIDE DEF Solves, f
  <2> QED
    BY <1>1, <2>1
<1>4. ASSUME NEW m \in 0..Len(log), m < Len(log), m \in S
      PROVE  m + 1 \in S
  <2>1. PICK f : Solves(f, m)
    BY <1>4
  <2> DEFINE g == [k \in 0..(m + 1) |-> ReplayedOf(k, f[k - 1])]
  <2>2. ASSUME NEW k \in 0..m
        PROVE  g[k] = f[k]
    <3>1. f[k] = ReplayedOf(k, f[k - 1])
      BY <2>1
    <3>2. k \in 0..(m + 1)
      BY <1>1
    <3> QED
      BY <3>1, <3>2
  <2>3. ASSUME NEW k \in 0..(m + 1)
        PROVE  ReplayedOf(k, f[k - 1]) = ReplayedOf(k, g[k - 1])
    <3>1. CASE k = 0
      BY <1>2, <3>1
    <3>2. CASE k # 0
      <4>1. k - 1 \in 0..m
        BY <1>1, <3>2
      <4> HIDE DEF g
      <4> QED
        BY <2>2, <4>1
    <3> QED
      BY <3>1, <3>2
  <2>4. Solves(g, m + 1)
    BY <2>3
  <2>5. m + 1 \in 0..Len(log)
    BY <1>1, <1>4
  <2> HIDE DEF Solves, g
  <2> QED
    BY <2>4, <2>5
<1>5. Len(log) \in S
  <2> HIDE DEF S
  <2>1. 0..Len(log) \subseteq S
    BY <1>1, <1>3, <1>4, Induct
  <2> QED
    BY <1>1, <2>1
<1>6. \E f : Solves(f, Len(log))
  BY <1>5
<1>7. ReplayedUpTo = CHOOSE f : f = [k \in 0..Len(log) |-> ReplayedOf(k, f[k - 1])]
  BY DEF ReplayedUpTo, ReplayedOf
<1> QED
  BY <1>6, <1>7

LEMMA RefreshedSteps ==
    ASSUME above \in Seq(Routes), NEW t \in Trees
    PROVE  /\ RefreshedUpTo[0][t] = t
           /\ \A k \in 1..Len(above) : RefreshedUpTo[k][t] = PullUpAt(RefreshedUpTo[k - 1][t], above[k])
<1>1. PICK f : f = RefreshedUpTo
  OBVIOUS
<1>2. f = [k \in 0..Len(above) |-> RefreshedOf(k, f[k - 1])]
  <2> HIDE DEF RefreshedUpTo, RefreshedOf
  <2> QED
    BY <1>1, RefreshedDef
<1>3. Len(above) \in Nat
  BY LenProperties
<1>4. f[0][t] = t
  <2>1. f[0] = RefreshedOf(0, f[0 - 1])
    BY <1>2, <1>3
  <2> QED
    BY <2>1 DEF RefreshedOf
<1>5. ASSUME NEW k \in 1..Len(above)
      PROVE  f[k][t] = PullUpAt(f[k - 1][t], above[k])
  <2>1. PICK g : g = f[k - 1]
    OBVIOUS
  <2>2. f[k] = RefreshedOf(k, g) /\ k # 0
    BY <1>2, <1>3, <2>1
  <2>3. RefreshedOf(k, g)[t] = PullUpAt(g[t], above[k])
    BY <2>2 DEF RefreshedOf, PullUpAt
  <2> QED
    BY <2>1, <2>2, <2>3
<1> QED
  BY <1>1, <1>4, <1>5

LEMMA ReplayedSteps ==
    ASSUME log \in Seq(Points)
    PROVE  /\ ReplayedUpTo[0] = {rebuilt}
           /\ \A k \in 1..Len(log) : \A x \in ReplayedUpTo[k] :
                  \E t \in ReplayedUpTo[k - 1] :
                      \E d \in InsertAt[t][Thawed(TRUE)][<<>>][log[k]] : x = d.tree
<1>1. PICK f : f = ReplayedUpTo
  OBVIOUS
<1>2. f = [k \in 0..Len(log) |-> ReplayedOf(k, f[k - 1])]
  <2> HIDE DEF ReplayedUpTo, ReplayedOf
  <2> QED
    BY <1>1, ReplayedDef
<1>3. Len(log) \in Nat
  BY LenProperties
<1>4. f[0] = {rebuilt}
  BY <1>2, <1>3 DEF ReplayedOf
<1>5. ASSUME NEW k \in 1..Len(log), NEW x \in f[k]
      PROVE  \E t \in f[k - 1] : \E d \in InsertAt[t][Thawed(TRUE)][<<>>][log[k]] : x = d.tree
  <2>1. PICK g : g = f[k - 1]
    OBVIOUS
  <2>2. f[k] = ReplayedOf(k, g) /\ k # 0
    BY <1>2, <1>3, <2>1
  <2>3. x \in UNION {{d.tree : d \in InsertAt[t][Thawed(TRUE)][<<>>][log[k]]} : t \in g}
    BY <1>5, <2>2 DEF ReplayedOf
  <2> QED
    BY <2>1, <2>3
<1> QED
  BY <1>1, <1>4, <1>5

LEMMA RouteCancel ==
    ASSUME NEW v \in Routes, NEW x \in Routes, NEW y \in Routes, v \o x = v \o y
    PROVE  x = y
<1>1. /\ Len(v) \in Nat /\ Len(x) \in Nat /\ Len(y) \in Nat
      /\ Len(v \o x) = Len(v) + Len(x) /\ Len(v \o y) = Len(v) + Len(y)
      /\ \A i \in 1..Len(x) : (v \o x)[Len(v) + i] = x[i]
      /\ \A i \in 1..Len(y) : (v \o y)[Len(v) + i] = y[i]
  BY LenProperties, ConcatProperties DEF Routes
<1>2. PICK a, b : a = v \o x /\ b = v \o y
  OBVIOUS
<1>3. Len(x) = Len(y) /\ \A i \in 1..Len(x) : x[i] = y[i]
  BY <1>1
<1> QED
  BY <1>3, SeqEqual DEF Routes

\* The flags below a node are flags of the tree.
LEMMA FlagsAt ==
    ASSUME NEW n \in Sound, NEW v \in Paths(n), NEW q \in Flags(At(n, v))
    PROVE  v \o q \in Flags(n) /\ q \in Routes
<1> DEFINE S == {k \in Sound : \A u \in Paths(k) : \A p \in Flags(At(k, u)) :
                     u \o p \in Flags(k) /\ p \in Routes}
<1> HIDE DEF Paths, At
<1>1. Nil \in S
  BY SoundNil, NodesOfNil
<1>2. ASSUME NEW k \in Sound, ~IsNil(k), \A o \in Sound : o.size < k.size => o \in S
      PROVE  k \in S
  <2>0. k \in Trees
    BY DEF Sound
  <2> SUFFICES ASSUME NEW u \in Paths(k), NEW p \in Flags(At(k, u))
               PROVE  u \o p \in Flags(k) /\ p \in Routes
    OBVIOUS
  <2>1. CASE u = <<>> /\ At(k, u) = k
    <3>1. Flags(k) \subseteq Routes
      BY <1>2, <2>0, FlagsNode
    <3>2. p \in Routes /\ p \in Flags(k)
      BY <2>1, <3>1
    <3>3. <<>> \o p = p
      BY <3>2, RouteSteps
    <3> QED
      BY <2>1, <3>2, <3>3
  <2>2. ASSUME NEW s \in {"l", "r"}, NEW b \in Paths(Side(k, s)), Turns(u, s, b), b \in Routes,
               At(k, u) = At(Side(k, s), b)
        PROVE  u \o p \in Flags(k) /\ p \in Routes
    <3>1. PICK c : c = Side(k, s)
      OBVIOUS
    <3>2. c \in Sound /\ c.size < k.size
      BY <1>2, <3>1, SoundNode DEF Side
    <3>3. b \o p \in Flags(c) /\ p \in Routes
      BY <1>2, <2>2, <3>1, <3>2
    <3>4. PICK z : z = b \o p
      OBVIOUS
    <3>5. z \in Routes
      BY <2>2, <3>3, <3>4, RouteSteps
    <3>6. <<s>> \o z \in Flags(k)
      <4>1. CASE s = "l"
        BY <1>2, <2>0, <3>1, <3>3, <3>4, <3>5, <4>1, FlagsNode DEF Side
      <4>2. CASE s = "r"
        BY <1>2, <2>0, <3>1, <3>3, <3>4, <3>5, <4>2, FlagsNode DEF Side
      <4> QED
        BY <4>1, <4>2
    <3>7. u \o p = <<s>> \o z
      <4>1. <<s>> \in Seq({"l", "r"}) /\ b \in Seq({"l", "r"}) /\ p \in Seq({"l", "r"})
        BY <2>2, <3>3 DEF Routes
      <4>2. (<<s>> \o b) \o p = <<s>> \o (b \o p)
        BY <4>1, ConcatAssociative
      <4> QED
        BY <2>2, <3>4, <4>2 DEF Turns
    <3> QED
      BY <3>3, <3>6, <3>7
  <2> QED
    BY <1>2, <2>0, <2>1, <2>2, SideCases
<1> HIDE DEF S
<1>3. Sound \subseteq S
  BY <1>1, <1>2, SoundInduction
<1> QED
  BY <1>3 DEF S

\* Nothing beside the way to the one flagged node is flagged.
LEMMA FlagsBeside ==
    ASSUME NEW n \in Sound, NEW s \in Routes, Flags(n) = {s},
           NEW v \in Paths(n), NEW side \in {"l", "r"}, NEW u \in Routes,
           Parent(v, side, u), Leads(u, s), ~IsNil(At(n, v))
    PROVE  /\ ~At(n, v).underRebuild
           /\ \A o \in {"l", "r"} : o # side => Flags(Side(At(n, v), o)) = {}
<1>1. PICK y : y = At(n, v)
  OBVIOUS
<1>2. y \in Sound /\ y \in Trees /\ v \in Routes
  <2>1. n \in Trees
    BY DEF Sound
  <2>2. v \in Routes
    BY <2>1, PathsType
  <2> QED
    BY <1>1, <2>2, AtSound DEF Sound
<1>3. PICK z \in Routes : s = u \o z
  BY DEF Leads
<1>4. u = v \o <<side>>
  BY DEF Parent
<1>5. PICK x : x = <<side>> \o z
  OBVIOUS
<1>6. x \in Routes /\ x # <<>> /\ Head(x) = side
  BY <1>3, <1>5, FirstStep
<1>7. s = v \o x
  <2>1. <<side>> \in Seq({"l", "r"}) /\ v \in Seq({"l", "r"}) /\ z \in Seq({"l", "r"})
    BY <1>2, <1>3 DEF Routes
  <2>2. (v \o <<side>>) \o z = v \o (<<side>> \o z)
    BY <2>1, ConcatAssociative
  <2> QED
    BY <1>3, <1>4, <1>5, <2>2
<1>8. ASSUME NEW q \in Flags(y) PROVE q = x
  <2>1. v \o q = s /\ q \in Routes
    BY <1>1, <1>8, FlagsAt
  <2> QED
    BY <1>2, <1>6, <1>7, <2>1, RouteCancel
<1>9. ~y.underRebuild
  BY <1>1, <1>2, <1>6, <1>8, FlagsNode
<1>10. ASSUME NEW o \in {"l", "r"}, o # side, NEW q \in Flags(Side(y, o))
       PROVE  FALSE
  <2>1. Side(y, o) \in Trees
    BY <1>1, <1>2, TreeNode, NodeFields DEF Side
  <2>2. q \in Routes
    BY <1>10, <2>1, PathsType DEF Flags
  <2>3. <<o>> \o q \in Flags(y)
    <3>1. CASE o = "l"
      BY <1>1, <1>2, <1>10, <2>2, <3>1, FlagsNode DEF Side
    <3>2. CASE o = "r"
      BY <1>1, <1>2, <1>10, <2>2, <3>2, FlagsNode DEF Side
    <3> QED
      BY <3>1, <3>2
  <2>4. Head(<<o>> \o q) = o
    BY <2>2, FirstStep
  <2> QED
    BY <1>6, <1>8, <1>10, <2>3, <2>4
<1> QED
  BY <1>1, <1>9, <1>10

LEMMA PullUpSame ==
    ASSUME NEW n \in Sound, ~IsNil(n), ~n.pushdown
    PROVE  PullUp(n) = n
<1>1. n \in NodesOver(Trees) /\ Checked(n)
  BY SoundNode
<1>2. /\ n.size = 1 + n.l.size + n.r.size
      /\ n.lo = Low({n.pt} \union {c.lo : c \in Children(n)})
      /\ n.hi = High({n.pt} \union {c.hi : c \in Children(n)})
      /\ n.invalid = (IF n.deleted THEN 1 ELSE 0) + InvalidNum(n.l) + InvalidNum(n.r)
      /\ n.treeDeleted = (n.deleted /\ \A c \in Children(n) : c.treeDeleted)
  BY <1>1 DEF Checked
<1>3. PICK sz, lo, hi, iv, td :
          /\ sz = 1 + n.l.size + n.r.size
          /\ lo = Low({n.pt} \union {c.lo : c \in Children(n)})
          /\ hi = High({n.pt} \union {c.hi : c \in Children(n)})
          /\ iv = (IF n.deleted THEN 1 ELSE 0) + InvalidNum(n.l) + InvalidNum(n.r)
          /\ td = (n.deleted /\ \A c \in Children(n) : c.treeDeleted)
  OBVIOUS
<1>4. PullUp(n) = [n EXCEPT !.size = sz, !.lo = lo, !.hi = hi, !.invalid = iv, !.treeDeleted = td]
  BY <1>3 DEF PullUp
<1>5. n.size = sz /\ n.lo = lo /\ n.hi = hi /\ n.invalid = iv /\ n.treeDeleted = td
  BY <1>2, <1>3
<1> QED
  BY <1>1, <1>4, <1>5 DEF NodesOver

\* A tree with the live points of n, no larger and with no box beyond its own,
\* and with nothing flagged.
Stands(m, n) ==
    m \in Sound /\ Fits(m, n) /\ Flatten[m] = Flatten[n] /\ Flags(m) = {}

\* The refresh of the node above a replaced subtree.
LEMMA RefreshedNode ==
    ASSUME NEW y \in Sound, ~IsNil(y), ~y.pushdown, ~y.underRebuild,
           NEW s \in {"l", "r"}, \A o \in {"l", "r"} : o # s => Flags(Side(y, o)) = {},
           NEW m, Stands(m, Side(y, s)), NEW x, x = PullUp(Onto(y, s, m))
    PROVE  Stands(x, y)
<1>1. y.l \in Sound /\ y.r \in Sound
  BY SoundNode
<1>2. PICK t : t = Onto(y, s, m)
  OBVIOUS
<1>3. m \in Sound /\ Fits(m, Side(y, s)) /\ Flatten[m] = Flatten[Side(y, s)] /\ Flags(m) = {}
  BY DEF Stands
<1>4. y \in NodesOver(Sound) /\ Ordered(y)
  BY SoundNode
<1>5. /\ t \in NodesOver(Sound) /\ t.pt = y.pt /\ t.axis = y.axis
      /\ t.deleted = y.deleted /\ t.pushdown = y.pushdown /\ t.underRebuild = y.underRebuild
      /\ t.l = (IF s = "l" THEN m ELSE y.l) /\ t.r = (IF s = "r" THEN m ELSE y.r)
  <2>1. CASE s = "l"
    BY <1>2, <1>3, <1>4, <2>1 DEF Onto, NodesOver
  <2>2. CASE s = "r"
    BY <1>2, <1>3, <1>4, <2>2 DEF Onto, NodesOver
  <2> QED
    BY <2>1, <2>2
<1>6. /\ Fits(t.l, y.l) /\ Flatten[t.l] = Flatten[y.l] /\ Flags(t.l) = {}
      /\ Fits(t.r, y.r) /\ Flatten[t.r] = Flatten[y.r] /\ Flags(t.r) = {}
      /\ t.l \in Sound /\ t.r \in Sound
  <2>1. Fits(y.l, y.l) /\ Fits(y.r, y.r)
    BY <1>1, FitsSelf DEF Sound
  <2>2. CASE s = "l"
    BY <1>1, <1>3, <1>5, <2>1, <2>2 DEF Side
  <2>3. CASE s = "r"
    BY <1>1, <1>3, <1>5, <2>1, <2>3 DEF Side
  <2> QED
    BY <2>2, <2>3
<1>7. /\ y.pt[y.axis] \in Int /\ y.axis \in Axes
      /\ y.l.size \in Nat /\ y.r.size \in Nat /\ y.size = 1 + y.l.size + y.r.size
      /\ y.size <= MaxNodes
  <2>1. y.pt \in Corners /\ y.axis \in Axes
    BY SoundNode, NodeFields
  <2> QED
    BY <2>1, SoundNode DEF Corners
<1>8. t.l.size \in Nat /\ t.r.size \in Nat /\ MaxNodes \in Nat
  BY <1>6, SizeType, ThresholdAssumption DEF Sound
<1>9. /\ t.l.size <= y.l.size
      /\ \A a \in Axes, v \in Int : /\ Below(y.l, a, v) => Below(t.l, a, v)
                                    /\ Beyond(y.l, a, v) => Beyond(t.l, a, v)
  BY <1>6 DEF Fits
<1>10. /\ t.r.size <= y.r.size
       /\ \A a \in Axes, v \in Int : /\ Below(y.r, a, v) => Below(t.r, a, v)
                                     /\ Beyond(y.r, a, v) => Beyond(t.r, a, v)
  BY <1>6 DEF Fits
<1>11. ~t.pushdown /\ Ordered(t) /\ 1 + t.l.size + t.r.size <= MaxNodes
  <2>1. Ordered(t)
    BY <1>4, <1>5, <1>7, <1>9, <1>10 DEF Ordered
  <2> QED
    BY <1>5, <1>7, <1>8, <1>9, <1>10, <2>1
<1>12. /\ x \in Sound /\ ~IsNil(x) /\ ~x.pushdown /\ x.l = t.l /\ x.r = t.r
       /\ x.underRebuild <=> t.underRebuild
       /\ x.size = 1 + t.l.size + t.r.size
  BY <1>2, <1>5, <1>11, PulledUp
<1>13. /\ \A p \in Points : Flatten[x][p] = Own(t, p) + Flatten[t.l][p] + Flatten[t.r][p]
       /\ \A a \in Axes, v \in Int :
              /\ Below(x, a, v) <=> t.pt[a] <= v /\ Below(t.l, a, v) /\ Below(t.r, a, v)
              /\ Beyond(x, a, v) <=> v <= t.pt[a] /\ Beyond(t.l, a, v) /\ Beyond(t.r, a, v)
  BY <1>2, <1>5, <1>11, PulledUp
<1>14. Fits(x, y)
  <2>1. x.size <= y.size
    BY <1>7, <1>8, <1>9, <1>10, <1>12
  <2>2. \A a \in Axes, v \in Int :
            /\ Below(y, a, v) <=> y.pt[a] <= v /\ Below(y.l, a, v) /\ Below(y.r, a, v)
            /\ Beyond(y, a, v) <=> v <= y.pt[a] /\ Beyond(y.l, a, v) /\ Beyond(y.r, a, v)
    BY SoundBox
  <2>3. \A a \in Axes, v \in Int : /\ Below(y, a, v) => Below(x, a, v)
                                   /\ Beyond(y, a, v) => Beyond(x, a, v)
    BY <1>5, <1>9, <1>10, <1>13, <2>2
  <2> QED
    BY <2>1, <2>3 DEF Fits
<1>15. Flatten[x] = Flatten[y]
  <2>1. Flatten[x] \in Multisets /\ Flatten[y] \in Multisets
    BY <1>12, FlattenType DEF Sound
  <2>2. ASSUME NEW p \in Points PROVE Flatten[x][p] = Flatten[y][p]
    <3>1. Flatten[y][p] = Own(y, p) + Flatten[y.l][p] + Flatten[y.r][p]
      BY FlattenNode
    <3>2. Own(t, p) = Own(y, p)
      BY <1>5 DEF Own
    <3> QED
      BY <1>6, <1>13, <3>1, <3>2
  <2> QED
    BY <2>1, <2>2, SameBag
<1>16. Flags(x) = {}
  <2>1. ~x.underRebuild
    BY <1>5, <1>12
  <2> QED
    BY <1>6, <1>12, <2>1, FlagsAbove DEF Sound
<1> QED
  BY <1>12, <1>14, <1>15, <1>16 DEF Stands

\* The tree t once the first k nodes of rel are refreshed: tree n with m at u,
\* a node on the way to s with everything below it refreshed and nothing above.
Reaching(n, s, rel, k, t, u, m) ==
    /\ u \in Open(n) /\ Leads(u, s)
    /\ Stands(m, At(n, u))
    /\ t = Put[n][u][m]
    /\ \A i \in 1..Len(rel) : i <= k /\ Leads(rel[i], u) => rel[i] = u
    /\ \A i \in 1..Len(rel) : i > k => ~Leads(u, rel[i])

LEMMA OpenIs ==
    ASSUME NEW n \in Sound, NEW u \in Open(n)
    PROVE  /\ u \in Paths(n) /\ u \in Routes
           /\ At(n, u) \in Sound /\ ~IsNil(At(n, u)) /\ ~At(n, u).pushdown
           /\ At(n, u).size <= n.size
<1>1. u \in Paths(n) /\ \A q \in Paths(n) : Leads(q, u) => ~At(n, q).pushdown
  BY DEF Open
<1>2. u \in Routes
  BY <1>1, PathsType DEF Sound
<1>3. Leads(u, u)
  BY <1>2, LeadsSteps
<1>4. ~At(n, u).pushdown
  BY <1>1, <1>3
<1>5. At(n, u) \in Sound /\ ~IsNil(At(n, u)) /\ At(n, u).size <= n.size
  BY <1>1, AtSound
<1> QED
  BY <1>1, <1>2, <1>4, <1>5

\* One step of the refresh after a swap.
LEMMA ReachingStep ==
    ASSUME NEW n \in Sound, NEW s \in Open(n), Flags(n) = {s},
           NEW rel, Recording(n, rel), Covering(s, rel),
           NEW k \in 1..Len(rel), NEW t, NEW u, NEW m, Reaching(n, s, rel, k - 1, t, u, m),
           NEW x, x = PullUpAt(t, rel[k])
    PROVE  \E v, w : Reaching(n, s, rel, k, x, v, w)
<1>1. PICK a : a = rel[k]
  OBVIOUS
<1>2. /\ Len(rel) \in Nat /\ k \in Nat /\ k - 1 \in Nat
      /\ \A i \in 1..Len(rel) : rel[i] \in Open(n)
      /\ \A i, j \in 1..Len(rel) : Leads(rel[i], rel[j]) => j <= i
  BY LenProperties DEF Recording
<1>3. /\ u \in Open(n) /\ Leads(u, s) /\ Stands(m, At(n, u)) /\ t = Put[n][u][m]
      /\ \A i \in 1..Len(rel) : i <= k - 1 /\ Leads(rel[i], u) => rel[i] = u
      /\ \A i \in 1..Len(rel) : i > k - 1 => ~Leads(u, rel[i])
  BY DEF Reaching
<1>4. /\ u \in Paths(n) /\ u \in Routes /\ a \in Open(n) /\ a \in Paths(n) /\ a \in Routes
      /\ s \in Routes
      /\ At(n, a) \in Sound /\ ~IsNil(At(n, a)) /\ ~At(n, a).pushdown
  BY <1>1, <1>2, <1>3, OpenIs
<1>5. ~Leads(u, a)
  BY <1>1, <1>2, <1>3
<1>6. m \in Sound /\ m.size <= At(n, u).size
  BY <1>3 DEF Stands, Fits
<1>7. x = Put[t][a][PullUp(At(t, a))]
  BY <1>1 DEF PullUpAt
<1>8. CASE ~Leads(a, u)
  <2>1. Untouched(n, t, a)
    BY <1>3, <1>4, <1>5, <1>6, <1>8, PutAside
  <2>2. At(t, a) = At(n, a) /\ Put[t][a][At(n, a)] = t
    BY <2>1 DEF Untouched
  <2>3. PullUp(At(n, a)) = At(n, a)
    BY <1>4, PullUpSame
  <2>4. x = t
    BY <1>7, <2>2, <2>3
  <2>5. \A i \in 1..Len(rel) : i <= k /\ Leads(rel[i], u) => rel[i] = u
    <3>1. \A i \in 1..Len(rel) : i <= k => i <= k - 1 \/ i = k
      BY <1>2
    <3> QED
      BY <1>1, <1>3, <1>8, <3>1
  <2>6. \A i \in 1..Len(rel) : i > k => ~Leads(u, rel[i])
    BY <1>2, <1>3
  <2>7. Reaching(n, s, rel, k, x, u, m)
    BY <1>3, <2>4, <2>5, <2>6 DEF Reaching
  <2> QED
    BY <2>7
<1>9. CASE Leads(a, u)
  <2>1. a # u /\ u # <<>>
    BY <1>4, <1>5, LeadsSteps
  <2>2. PICK v \in Routes, side \in {"l", "r"} : Parent(v, side, u)
    BY <1>4, <2>1, Parents
  <2>3. /\ u = v \o <<side>> /\ u # v /\ Leads(v, u) /\ ~Leads(u, v) /\ Leads(a, v)
    BY <1>4, <1>9, <2>1, <2>2 DEF Parent
  <2>4. Leads(v, s) /\ v # s
    BY <1>3, <1>4, <2>3, LeadsOrder
  <2>5. PICK j \in 1..Len(rel) : rel[j] = v
    BY <2>4 DEF Covering
  <2>6. ~(j <= k - 1)
    BY <1>3, <2>3, <2>5
  <2>7. j <= k
    BY <1>1, <1>2, <2>3, <2>5
  <2>8. j = k
    BY <1>2, <2>6, <2>7
  <2>9. a = v
    BY <1>1, <2>5, <2>8
  <2>10. PICK y : y = At(n, v)
    OBVIOUS
  <2>11. y \in Sound /\ ~IsNil(y) /\ ~y.pushdown /\ v \in Paths(n) /\ v \in Open(n)
    BY <1>4, <2>9, <2>10
  <2>12. Differs(n, t, v, side, m) /\ At(n, u) = Side(y, side)
    BY <1>3, <1>4, <1>6, <2>2, <2>10, <2>11, PutAbove
  <2>13. PICK w : w = PullUp(Onto(y, side, m))
    OBVIOUS
  <2>14. /\ ~y.underRebuild
         /\ \A o \in {"l", "r"} : o # side => Flags(Side(y, o)) = {}
    BY <1>3, <1>4, <2>2, <2>10, <2>11, FlagsBeside
  <2>15. Stands(w, y)
    BY <1>3, <2>11, <2>12, <2>13, <2>14, RefreshedNode
  <2>16. x = Put[n][v][w]
    <3>1. At(t, v) = Onto(y, side, m) /\ \A z \in Trees : Put[t][v][z] = Put[n][v][z]
      BY <2>10, <2>12 DEF Differs
    <3>2. w \in Trees
      BY <2>15 DEF Stands, Sound
    <3> QED
      BY <1>7, <2>9, <2>13, <3>1, <3>2
  <2>17. \A i \in 1..Len(rel) : i <= k /\ Leads(rel[i], v) => rel[i] = v
    <3> SUFFICES ASSUME NEW i \in 1..Len(rel), i <= k, Leads(rel[i], v)
                 PROVE  rel[i] = v
      OBVIOUS
    <3>1. rel[i] \in Routes
      BY <1>2, OpenIs
    <3>2. CASE i = k
      BY <1>1, <2>9, <3>2
    <3>3. CASE i <= k - 1
      <4>1. Leads(rel[i], u)
        BY <1>4, <2>2, <2>3, <3>1, LeadsOrder
      <4>2. rel[i] = u
        BY <1>3, <3>3, <4>1
      <4> QED
        BY <2>3, <4>2
    <3> QED
      BY <1>2, <3>2, <3>3
  <2>18. \A i \in 1..Len(rel) : i > k => ~Leads(v, rel[i])
    <3> SUFFICES ASSUME NEW i \in 1..Len(rel), i > k, Leads(rel[k], rel[i])
                 PROVE  FALSE
      BY <1>1, <2>9
    <3>1. i <= k
      BY <1>2
    <3> QED
      BY <1>2, <3>1
  <2>19. Reaching(n, s, rel, k, x, v, w)
    BY <2>4, <2>10, <2>11, <2>15, <2>16, <2>17, <2>18 DEF Reaching
  <2> QED
    BY <2>19
<1> QED
  BY <1>8, <1>9

LEMMA ReachingTree ==
    ASSUME NEW n \in Sound, NEW s, NEW rel, NEW k, NEW t, NEW u, NEW m,
           Reaching(n, s, rel, k, t, u, m)
    PROVE  t \in Trees
<1>1. u \in Open(n) /\ Stands(m, At(n, u)) /\ t = Put[n][u][m]
  BY DEF Reaching
<1>2. u \in Paths(n) /\ m \in Sound /\ m.size <= At(n, u).size
  BY <1>1, OpenIs DEF Stands, Fits
<1> QED
  BY <1>1, <1>2, PutTree

\* A subtree that stands for the frozen one, swapped in, and the refresh of the
\* recorded nodes leave a tree that stands for the old one.
LEMMA SwapStands ==
    ASSUME root \in Sound, slot \in Open(root), Flags(root) = {slot},
           Recording(root, above), Covering(slot, above),
           NEW m, Stands(m, At(root, slot)),
           NEW t, t = RefreshedUpTo[Len(above)][Put[root][slot][m]]
    PROVE  Stands(t, root)
<1>1. PICK z : z = Put[root][slot][m]
  OBVIOUS
<1>2. above \in Seq(Routes) /\ Len(above) \in Nat
  BY LenProperties DEF Recording
<1>3. slot \in Routes /\ slot \in Paths(root)
  BY OpenIs
<1> DEFINE S == {k \in 0..Len(above) :
                     \E u, w : Reaching(root, slot, above, k, RefreshedUpTo[k][z], u, w)}
<1>4. Reaching(root, slot, above, 0, z, slot, m)
  <2>1. Leads(slot, slot)
    BY <1>3, LeadsSteps
  <2>2. \A i \in 1..Len(above) : ~Leads(slot, above[i]) /\ ~(i <= 0)
    BY <1>2 DEF Covering
  <2> QED
    BY <1>1, <2>1, <2>2 DEF Reaching
<1>5. z \in Trees
  BY <1>4, ReachingTree
<1>6. 0 \in S
  BY <1>2, <1>4, <1>5, RefreshedSteps
<1>7. ASSUME NEW i \in 0..Len(above), i < Len(above), i \in S
      PROVE  i + 1 \in S
  <2>1. i + 1 \in 1..Len(above) /\ (i + 1) - 1 = i /\ i + 1 \in 0..Len(above)
    BY <1>2, <1>7
  <2>2. PICK x, k : x = RefreshedUpTo[i][z] /\ k = i + 1
    OBVIOUS
  <2>3. PICK u, w : Reaching(root, slot, above, k - 1, x, u, w)
    BY <1>7, <2>1, <2>2
  <2>4. RefreshedUpTo[k][z] = PullUpAt(x, above[k])
    BY <1>2, <1>5, <2>1, <2>2, RefreshedSteps
  <2>5. \E v, y : Reaching(root, slot, above, k, RefreshedUpTo[k][z], v, y)
    BY <2>1, <2>2, <2>3, <2>4, ReachingStep
  <2> QED
    BY <2>1, <2>2, <2>5
<1> HIDE DEF S
<1>8. 0..Len(above) \subseteq S
  BY <1>2, <1>6, <1>7, Induct
<1>9. Len(above) \in S
  BY <1>2, <1>8
<1>10. PICK u, w : Reaching(root, slot, above, Len(above), t, u, w)
  BY <1>1, <1>9 DEF S
<1>11. /\ u \in Open(root) /\ Leads(u, slot) /\ Stands(w, At(root, u)) /\ t = Put[root][u][w]
       /\ \A i \in 1..Len(above) : i <= Len(above) /\ Leads(above[i], u) => above[i] = u
  BY <1>10 DEF Reaching
<1>12. u \in Routes
  BY <1>11, OpenIs
<1>13. u = <<>>
  <2>1. SUFFICES ASSUME u # <<>> PROVE FALSE
    OBVIOUS
  <2>2. PICK v \in Routes, side \in {"l", "r"} : Parent(v, side, u)
    BY <1>12, <2>1, Parents
  <2>3. u # v /\ Leads(v, u) /\ ~Leads(u, v)
    BY <2>2 DEF Parent
  <2>4. Leads(v, slot) /\ v # slot
    BY <1>3, <1>11, <1>12, <2>3, LeadsOrder
  <2>5. PICK j \in 1..Len(above) : above[j] = v
    BY <2>4 DEF Covering
  <2> QED
    BY <1>2, <1>11, <2>3, <2>5
<1>14. ~IsNil(root) /\ root \in Trees
  <2>1. root \in Trees
    BY DEF Sound
  <2>2. IsNil(root) => root = Nil
    BY <2>1, SizeType
  <2>3. Paths(Nil) = {}
    BY NodesOfNil
  <2> QED
    BY <1>3, <2>1, <2>2, <2>3
<1>15. At(root, <<>>) = root
  BY <1>14, NodesBelow
<1>16. w \in Trees
  BY <1>11 DEF Stands, Sound
<1>17. t = w
  BY <1>11, <1>13, <1>14, <1>16, PutTop
<1> QED
  BY <1>11, <1>13, <1>15, <1>17

-----------------------------------------------------------------------------
(* The replay of the log *)

\* How often each point occurs among the first k of a sequence.
Tally(s, k) == [p \in Points |-> Cardinality({i \in 1..k : s[i] = p})]

\* The multiset of a sequence of points, built up one point at a time.
LEMMA TallySteps ==
    ASSUME NEW s \in Seq(Points)
    PROVE  /\ Tally(s, 0) = NoPoints
           /\ Tally(s, Len(s)) = Count(s)
           /\ \A k \in 0..Len(s) : Tally(s, k) \in Multisets
           /\ \A k \in 0..Len(s) :
                  k < Len(s) => Tally(s, k + 1) = AddOne(Tally(s, k), s[k + 1])
<1>1. Len(s) \in Nat /\ \A i \in 1..Len(s) : s[i] \in Points
  BY ElementOfSeq, LenProperties
<1>2. ASSUME NEW k \in 0..Len(s), NEW p
      PROVE  /\ IsFiniteSet({i \in 1..k : s[i] = p})
             /\ Cardinality({i \in 1..k : s[i] = p}) \in Nat
  <2>1. IsFiniteSet(1..k)
    BY <1>1, FS_Interval
  <2>2. IsFiniteSet({i \in 1..k : s[i] = p})
    BY <2>1, FS_Subset
  <2> QED
    BY <2>2, FS_CardinalityType
<1>3. ASSUME NEW k \in 0..Len(s)
      PROVE  Tally(s, k) \in Multisets
  BY <1>2 DEF Tally, Multisets
<1>4. Tally(s, 0) = NoPoints
  <2>1. \A p \in Points : {i \in 1..0 : s[i] = p} = {}
    OBVIOUS
  <2>2. \A p \in Points : Cardinality({i \in 1..0 : s[i] = p}) = 0
    BY <2>1, FS_EmptySet
  <2> QED
    BY <2>2 DEF Tally, NoPoints
<1>5. Tally(s, Len(s)) = Count(s)
  BY DEF Tally, Count
<1>6. ASSUME NEW k \in 0..Len(s), k < Len(s)
      PROVE  Tally(s, k + 1) = AddOne(Tally(s, k), s[k + 1])
  <2>1. PICK q : q = s[k + 1]
    OBVIOUS
  <2>2. q \in Points
    BY <1>1, <1>6, <2>1
  <2>3. ASSUME NEW p \in Points, p # q
        PROVE  {i \in 1..(k + 1) : s[i] = p} = {i \in 1..k : s[i] = p}
    BY <1>1, <2>1, <2>3
  <2>4. {i \in 1..(k + 1) : s[i] = q} = {i \in 1..k : s[i] = q} \union {k + 1}
    BY <1>1, <2>1
  <2>5. k + 1 \notin {i \in 1..k : s[i] = q}
    BY <1>1
  <2>6. Cardinality({i \in 1..(k + 1) : s[i] = q}) = Cardinality({i \in 1..k : s[i] = q}) + 1
    <3>1. PICK T : T = {i \in 1..k : s[i] = q}
      OBVIOUS
    <3>2. IsFiniteSet(T) /\ k + 1 \notin T
      BY <1>2, <2>5, <3>1
    <3>3. Cardinality(T \union {k + 1}) = Cardinality(T) + 1
      BY <3>2, FS_AddElement
    <3> QED
      BY <2>4, <3>1, <3>3
  <2>7. \A p \in Points : Tally(s, k + 1)[p] = AddOne(Tally(s, k), q)[p]
    <3> SUFFICES ASSUME NEW p \in Points
                 PROVE  Tally(s, k + 1)[p] = AddOne(Tally(s, k), q)[p]
      OBVIOUS
    <3>1. CASE p = q
      BY <2>6, <3>1 DEF Tally, AddOne
    <3>2. CASE p # q
      BY <2>3, <3>2 DEF Tally, AddOne
    <3> QED
      BY <3>1, <3>2
  <2>8. Tally(s, k + 1) \in Multisets /\ AddOne(Tally(s, k), q) \in Multisets
    <3>1. k + 1 \in 0..Len(s)
      BY <1>1, <1>6
    <3> QED
      BY <1>3, <2>2, <3>1, TotalAddOne
  <2>9. Tally(s, k + 1) = AddOne(Tally(s, k), q)
    BY <2>7, <2>8, SameBag
  <2> QED
    BY <2>1, <2>9
<1> QED
  BY <1>3, <1>4, <1>5, <1>6

\* A sequence has as many points as its multiset, one more of them with every
\* point appended, and every one of its elements.
LEMMA CountSteps ==
    ASSUME NEW s \in Seq(Points)
    PROVE  /\ Count(s) \in Multisets
           /\ Total(Count(s)) = Len(s)
           /\ \A i \in 1..Len(s) : Count(s)[s[i]] > 0
           /\ \A p \in Points : Count(Append(s, p)) = AddOne(Count(s), p)
<1>1. Len(s) \in Nat /\ \A i \in 1..Len(s) : s[i] \in Points
  BY ElementOfSeq, LenProperties
<1>2. Count(s) \in Multisets
  BY <1>1, TallySteps
<1>3. Total(Count(s)) = Len(s)
  <2> DEFINE S == {k \in 0..Len(s) : Total(Tally(s, k)) = k}
  <2>1. 0 \in S
    <3>1. NoPoints \in Multisets
      BY DEF NoPoints, Multisets
    <3>2. Total(NoPoints) = 0
      BY <3>1, TotalNone
    <3> QED
      BY <1>1, <3>2, TallySteps
  <2>2. ASSUME NEW k \in 0..Len(s), k < Len(s), k \in S
        PROVE  k + 1 \in S
    <3>1. Tally(s, k + 1) = AddOne(Tally(s, k), s[k + 1]) /\ Tally(s, k) \in Multisets
      BY <2>2, TallySteps
    <3>2. s[k + 1] \in Points
      BY <1>1, <2>2
    <3>3. Total(Tally(s, k + 1)) = Total(Tally(s, k)) + 1
      BY <3>1, <3>2, TotalAddOne
    <3> QED
      BY <1>1, <2>2, <3>3
  <2>3. 0..Len(s) \subseteq S
    <3> HIDE DEF S
    <3> QED
      BY <1>1, <2>1, <2>2, Induct
  <2> QED
    BY <1>1, <2>3, TallySteps
<1>4. ASSUME NEW i \in 1..Len(s)
      PROVE  Count(s)[s[i]] > 0
  <2>1. PICK p : p = s[i]
    OBVIOUS
  <2>2. PICK T : T = {j \in 1..Len(s) : s[j] = p}
    OBVIOUS
  <2>3. IsFiniteSet(1..Len(s))
    BY <1>1, FS_Interval
  <2>4. IsFiniteSet(T) /\ T # {}
    BY <2>1, <2>2, <2>3, FS_Subset
  <2>5. Cardinality(T) \in Nat /\ Cardinality(T) # 0
    BY <2>4, FS_EmptySet, FS_CardinalityType
  <2>6. p \in Points
    BY <1>1, <2>1
  <2>7. Count(s)[p] = Cardinality(T)
    BY <2>2, <2>6 DEF Count
  <2> QED
    BY <2>1, <2>5, <2>7
<1>5. ASSUME NEW p \in Points
      PROVE  Count(Append(s, p)) = AddOne(Count(s), p)
  <2>1. PICK t : t = Append(s, p)
    OBVIOUS
  <2>2. t \in Seq(Points) /\ Len(t) = Len(s) + 1 /\ t[Len(s) + 1] = p
    BY <2>1, AppendProperties
  <2>3. \A i \in 1..Len(s) : t[i] = s[i]
    BY <2>1, AppendProperties
  <2>4. Tally(t, Len(s)) = Tally(s, Len(s))
    <3>1. \A q \in Points : {i \in 1..Len(s) : t[i] = q} = {i \in 1..Len(s) : s[i] = q}
      BY <2>3
    <3> QED
      BY <3>1 DEF Tally
  <2>5. Len(s) \in 0..Len(t) /\ Len(s) < Len(t)
    BY <1>1, <2>2
  <2>6. Tally(t, Len(s) + 1) = AddOne(Tally(t, Len(s)), p)
    BY <2>2, <2>5, TallySteps
  <2>7. Tally(t, Len(t)) = Count(t) /\ Tally(s, Len(s)) = Count(s)
    BY <2>2, TallySteps
  <2> QED
    BY <2>1, <2>2, <2>4, <2>6, <2>7
<1> QED
  BY <1>2, <1>3, <1>4, <1>5

\* Addition of multisets, point by point.
LEMMA BagLaws ==
    ASSUME NEW b \in Multisets, NEW c \in Multisets
    PROVE  /\ NoPoints \in Multisets
           /\ Add(b, NoPoints) = b
           /\ \A p \in Points : Add(b, AddOne(c, p)) = AddOne(Add(b, c), p)
<1>1. NoPoints \in Multisets /\ \A q \in Points : NoPoints[q] = 0
  BY DEF NoPoints, Multisets
<1>2. Add(b, NoPoints) = b
  <2>1. Add(b, NoPoints) \in Multisets
    BY <1>1, TotalAdd
  <2>2. \A q \in Points : Add(b, NoPoints)[q] = b[q]
    BY <1>1 DEF Add, Multisets
  <2> QED
    BY <2>1, <2>2, SameBag
<1>3. ASSUME NEW p \in Points
      PROVE  Add(b, AddOne(c, p)) = AddOne(Add(b, c), p)
  <2>1. AddOne(c, p) \in Multisets
    BY TotalAddOne
  <2>2. Add(b, c) \in Multisets
    BY TotalAdd
  <2>3. Add(b, AddOne(c, p)) \in Multisets
    BY <2>1, TotalAdd
  <2>4. AddOne(Add(b, c), p) \in Multisets
    BY <2>2, TotalAddOne
  <2>5. \A q \in Points : Add(b, AddOne(c, p))[q] = AddOne(Add(b, c), p)[q]
    BY DEF Add, AddOne, Multisets
  <2> QED
    BY <2>3, <2>4, <2>5, SameBag
<1> QED
  BY <1>1, <1>2, <1>3

\* What is known of a replacement t once k points of the log are in it: it
\* holds them beside the snapshot, inside the box of the frozen subtree n.
Replaying(t, n, k) ==
    /\ t \in Sound /\ Flags(t) = {}
    /\ Flatten[t] = Add(snapshot, Tally(log, k))
    /\ t.size <= Total(snapshot) + k
    /\ \A a \in Axes, v \in Int : /\ Below(n, a, v) => Below(t, a, v)
                                  /\ Beyond(n, a, v) => Beyond(t, a, v)

LEMMA ReplayOne ==
    ASSUME NEW n \in Sound, snapshot \in Multisets, log \in Seq(Points),
           Flatten[n] = Add(snapshot, Count(log)),
           NEW k \in 0..Len(log), k < Len(log), NEW t, Replaying(t, n, k),
           NEW d \in InsertAt[t][Thawed(TRUE)][<<>>][log[k + 1]]
    PROVE  Replaying(d.tree, n, k + 1)
<1>1. PICK p : p = log[k + 1]
  OBVIOUS
<1>2. PICK c : c = Thawed(TRUE)
  OBVIOUS
<1>3. PICK u : u = <<>>
  OBVIOUS
<1>4. Len(log) \in Nat
  BY LenProperties
<1>5. p \in Points
  BY <1>1, <1>4, ElementOfSeq
<1>6. u \in Routes
  BY <1>3 DEF Routes
<1>7. NoPoints \in Multisets
  BY DEF NoPoints, Multisets
<1>8. c \in RebuildStates /\ Idle(c) /\ c.replaying
  BY <1>2, <1>7 DEF Thawed, RebuildStates, Idle
<1>9. d \in InsertAt[t][c][u][p]
  BY <1>1, <1>2, <1>3
<1>10. t \in Sound /\ Flags(t) = {}
  BY DEF Replaying
<1>11. Total(snapshot) \in Nat /\ Total(snapshot) + Len(log) <= MaxNodes
  <2>1. Total(Flatten[n]) = Total(snapshot) + Len(log)
    BY CountSteps, TotalAdd
  <2>2. n.size - InvalidNum(n) = Total(Flatten[n])
    BY SoundSize
  <2>3. n \in Trees /\ n.size <= MaxNodes
    BY DEF Sound
  <2>4. n.size \in Nat /\ InvalidNum(n) \in Nat
    BY <2>3, SizeType
  <2>5. Total(snapshot) \in Nat
    BY CopiesAre
  <2> QED
    BY <1>4, <2>1, <2>2, <2>3, <2>4, <2>5, ThresholdAssumption
<1>12. t.size < MaxNodes /\ t.size \in Nat
  <2>1. t.size <= Total(snapshot) + k
    BY DEF Replaying
  <2>2. t \in Trees
    BY <1>10 DEF Sound
  <2>3. t.size \in Nat
    BY <2>2, SizeType
  <2> QED
    BY <1>4, <1>11, <2>1, <2>3, ThresholdAssumption
<1>13. Gained(d.tree, t, p)
  BY <1>5, <1>6, <1>8, <1>9, <1>10, <1>12, InsertGains
<1>14. AfterIdle(FALSE, d.tree, u, c, d.state)
  BY <1>5, <1>6, <1>8, <1>9, <1>10, <1>12, InsertIdle
<1>15. Flags(d.tree) = {}
  BY <1>8, <1>14 DEF AfterIdle, Started
<1>16. Flatten[d.tree] = Add(snapshot, Tally(log, k + 1))
  <2>1. Flatten[t] = Add(snapshot, Tally(log, k))
    BY DEF Replaying
  <2>2. Tally(log, k) \in Multisets /\ Tally(log, k + 1) = AddOne(Tally(log, k), p)
    BY <1>1, TallySteps
  <2>3. Add(snapshot, AddOne(Tally(log, k), p)) = AddOne(Add(snapshot, Tally(log, k)), p)
    BY <1>5, <2>2, BagLaws
  <2> QED
    BY <1>13, <2>1, <2>2, <2>3 DEF Gained
<1>17. Flatten[n][p] > 0
  <2>1. Count(log)[p] > 0 /\ Count(log) \in Multisets
    BY <1>1, <1>4, CountSteps
  <2> QED
    BY <1>5, <2>1 DEF Add, Multisets
<1>18. d.tree.size <= Total(snapshot) + (k + 1)
  <2>1. t.size <= Total(snapshot) + k
    BY DEF Replaying
  <2>2. d.tree.size <= t.size + 1
    BY <1>13 DEF Gained, Widened
  <2>3. d.tree \in Trees
    BY <1>13 DEF Gained, Sound
  <2>4. d.tree.size \in Nat
    BY <2>3, SizeType
  <2> QED
    BY <1>4, <1>11, <1>12, <2>1, <2>2, <2>4
<1>19. ASSUME NEW a \in Axes, NEW v \in Int
       PROVE  /\ Below(n, a, v) => Below(d.tree, a, v)
              /\ Beyond(n, a, v) => Beyond(d.tree, a, v)
  <2>1. /\ Below(n, a, v) => p[a] <= v
        /\ Beyond(n, a, v) => v <= p[a]
    BY <1>5, <1>17, LiveInBox
  <2>2. /\ Below(n, a, v) => Below(t, a, v)
        /\ Beyond(n, a, v) => Beyond(t, a, v)
    BY DEF Replaying
  <2>3. /\ Below(t, a, v) /\ p[a] <= v => Below(d.tree, a, v)
        /\ Beyond(t, a, v) /\ v <= p[a] => Beyond(d.tree, a, v)
    BY <1>13 DEF Gained, Widened
  <2> QED
    BY <2>1, <2>2, <2>3
<1>20. d.tree \in Sound
  BY <1>13 DEF Gained
<1> QED
  BY <1>15, <1>16, <1>18, <1>19, <1>20 DEF Replaying

\* What the worker built from its snapshot, with the log replayed onto it, can
\* stand where the frozen subtree stood: the same live points, no more nodes,
\* inside the same box (ikd_tree.cpp:171-183).
THEOREM ReplayStands ==
    ASSUME NEW n \in Sound, snapshot \in Multisets, log \in Seq(Points),
           Flatten[n] = Add(snapshot, Count(log)), rebuilt \in Built(snapshot),
           NEW m \in Replayed
    PROVE  Stands(m, n)
<1>1. Len(log) \in Nat
  BY LenProperties
<1>2. Count(log) \in Multisets
  BY CountSteps
<1>3. Replaying(rebuilt, n, 0)
  <2>1. Add(snapshot, Tally(log, 0)) = snapshot
    BY BagLaws, TallySteps
  <2>2. \A q \in Points : snapshot[q] > 0 => Flatten[n][q] > 0
    BY <1>2 DEF Add, Multisets
  <2>3. ASSUME NEW a \in Axes, NEW v \in Int
        PROVE  /\ Below(n, a, v) => Below(rebuilt, a, v)
               /\ Beyond(n, a, v) => Beyond(rebuilt, a, v)
    <3>1. \A q \in Points : snapshot[q] > 0 =>
             /\ Below(n, a, v) => q[a] <= v
             /\ Beyond(n, a, v) => v <= q[a]
      BY <2>2, LiveInBox
    <3> QED
      BY <3>1 DEF Built
  <2>4. rebuilt \in Sound /\ Flatten[rebuilt] = snapshot /\ Flags(rebuilt) = {}
        /\ rebuilt.size = Total(snapshot)
    BY DEF Built
  <2>5. Total(snapshot) \in Nat
    BY CopiesAre
  <2> QED
    BY <2>1, <2>3, <2>4, <2>5 DEF Replaying
<1>4. PICK f : f = ReplayedUpTo
  OBVIOUS
<1> DEFINE S == {k \in 0..Len(log) : \A t \in f[k] : Replaying(t, n, k)}
<1>5. 0 \in S
  BY <1>1, <1>3, <1>4, ReplayedSteps
<1>6. ASSUME NEW k \in 0..Len(log), k < Len(log), k \in S
      PROVE  k + 1 \in S
  <2>1. k + 1 \in 1..Len(log) /\ (k + 1) - 1 = k
    BY <1>1, <1>6
  <2>2. ASSUME NEW x \in f[k + 1]
        PROVE  Replaying(x, n, k + 1)
    <3>1. PICK t \in f[k] :
              \E d \in InsertAt[t][Thawed(TRUE)][<<>>][log[k + 1]] : x = d.tree
      BY <1>4, <2>1, ReplayedSteps
    <3>2. Replaying(t, n, k)
      BY <1>6
    <3> QED
      BY <1>6, <3>1, <3>2, ReplayOne
  <2> QED
    BY <2>1, <2>2
<1>7. 0..Len(log) \subseteq S
  <2> HIDE DEF S
  <2> QED
    BY <1>1, <1>5, <1>6, Induct
<1>8. Replaying(m, n, Len(log))
  BY <1>1, <1>4, <1>7 DEF Replayed
<1>9. Tally(log, Len(log)) = Count(log)
  BY TallySteps
<1>10. m.size <= n.size
  <2>1. Total(Flatten[n]) = Total(snapshot) + Len(log)
    BY CountSteps, TotalAdd
  <2>2. n.size - InvalidNum(n) = Total(Flatten[n])
    BY SoundSize
  <2>3. n \in Trees
    BY DEF Sound
  <2>4. n.size \in Nat /\ InvalidNum(n) \in Nat
    BY <2>3, SizeType
  <2>5. m.size <= Total(snapshot) + Len(log)
    BY <1>8 DEF Replaying
  <2>6. Total(snapshot) \in Nat /\ m.size \in Nat
    <3>1. m \in Trees
      BY <1>8 DEF Replaying, Sound
    <3> QED
      BY <3>1, SizeType, CopiesAre
  <2> QED
    BY <1>1, <2>1, <2>2, <2>4, <2>5, <2>6
<1> QED
  BY <1>8, <1>9, <1>10 DEF Replaying, Stands, Fits
=============================================================================
