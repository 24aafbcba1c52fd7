-------------------------- MODULE TreeTrainingProofs --------------------------
(***************************************************************************)
(* What _tree_to_rules makes of a fitted tree, for any attributes, rows,   *)
(* scores and depth: each row ends at one leaf and at no other             *)
(* (UniqueLeaf), every leaf has rows, and a row's codes are allowed at a   *)
(* leaf exactly when the row ends there (AllowedAtLeaf).  The order of the *)
(* rules exists and has each leaf once (SortedExists, SortedOnto,          *)
(* BeforeOrders).                                                          *)
(***************************************************************************)
EXTENDS TreeTraining, FiniteSetTheorems, SequenceTheorems, WellFoundedInduction, TLAPS

-----------------------------------------------------------------------------
(* Of any natural numbers one is the least.                                *)
LEMMA LeastIn ==
  ASSUME NEW R, IsWellFoundedOn(R, Nat), \A x, y \in Nat : y < x => <<y, x>> \in R,
         NEW T, T \subseteq Nat, T # {}
  PROVE  \E x \in T : \A y \in T : x <= y
  <1>1. PICK x \in T : \A y \in T : ~ (<<y, x>> \in R)
    BY WFMin
  <1>2. ASSUME NEW y \in T PROVE x <= y
    <2>1. ~(y < x)
      BY <1>1
    <2> QED
      BY <2>1
  <1> QED
    BY <1>2

(* The numbers are well-founded by <.                                      *)
LEMMA Least ==
  ASSUME NEW T, T \subseteq Nat, T # {}
  PROVE  \E x \in T : \A y \in T : x <= y
  <1>1. \A x, y \in Nat : y < x => <<y, x>> \in OpToRel(<, Nat)
    BY DEF OpToRel
  <1> QED
    BY <1>1, LeastIn, NatLessThanWellFounded

-----------------------------------------------------------------------------
(* A finite set can be sorted by any order that is total on it.            *)
Orders(R, S) ==
  /\ \A x \in S : <<x, x>> \notin R
  /\ \A x, y, z \in S : <<x, y>> \in R /\ <<y, z>> \in R => <<x, z>> \in R
  /\ \A x, y \in S : x # y => <<x, y>> \in R \/ <<y, x>> \in R

SortedBy(s, R) == \A i, j \in DOMAIN s : i < j => <<s[i], s[j]>> \in R

(* The one place of an element.                                            *)
OncePlaced(s, x) == \E i \in DOMAIN s : s[i] = x /\ \A j \in DOMAIN s : s[j] = x => j = i

(* A finite set with such an order has a sorted enumeration: by rank.      *)
LEMMA SortedExists ==
  ASSUME NEW S, IsFiniteSet(S), NEW R, Orders(R, S)
  PROVE  \E s \in [1..Cardinality(S) -> S] : SortedBy(s, R)
  <1> DEFINE n == Cardinality(S)
             Below(x) == {y \in S : <<y, x>> \in R}
             rank == [x \in S |-> Cardinality(Below(x)) + 1]
             s == [i \in 1..n |-> CHOOSE x \in S : rank[x] = i]
  <1>1. n \in Nat
    BY FS_CardinalityType
  <1>2. ASSUME NEW x \in S PROVE /\ IsFiniteSet(Below(x)) /\ Cardinality(Below(x)) \in Nat
                                 /\ Cardinality(Below(x)) < n
    <2>1. Below(x) \in SUBSET S /\ Below(x) # S
      BY DEF Orders
    <2>2. IsFiniteSet(Below(x)) /\ Cardinality(Below(x)) <= n /\ (n = Cardinality(Below(x)) => S = Below(x))
      BY <2>1, FS_Subset
    <2>3. Cardinality(Below(x)) \in Nat
      BY <2>2, FS_CardinalityType
    <2> HIDE DEF Below, n
    <2> QED
      BY <1>1, <2>1, <2>2, <2>3
  <1>3. ASSUME NEW x \in S, NEW y \in S, <<x, y>> \in R PROVE rank[x] < rank[y]
    <2>1. Below(x) \in SUBSET Below(y)
      BY <1>3 DEF Orders
    <2>2. Below(x) # Below(y)
      BY <1>3 DEF Orders
    <2>3. /\ IsFiniteSet(Below(y)) /\ Cardinality(Below(x)) \in Nat /\ Cardinality(Below(y)) \in Nat
      BY <1>2
    <2>4. rank[x] = Cardinality(Below(x)) + 1 /\ rank[y] = Cardinality(Below(y)) + 1
      OBVIOUS
    <2> HIDE DEF Below, rank
    <2>5. Cardinality(Below(x)) <= Cardinality(Below(y)) /\ Cardinality(Below(x)) # Cardinality(Below(y))
      BY <2>1, <2>2, <2>3, FS_Subset
    <2> QED
      BY <2>3, <2>4, <2>5
  <1>4. \A x \in S : rank[x] \in 1..n
    <2> SUFFICES ASSUME NEW x \in S PROVE rank[x] \in 1..n
      OBVIOUS
    <2>1. rank[x] = Cardinality(Below(x)) + 1 /\ Cardinality(Below(x)) \in Nat /\ Cardinality(Below(x)) < n
      BY <1>2
    <2> HIDE DEF Below, rank, n
    <2> QED
      BY <1>1, <2>1
  <1>5. rank \in [S -> 1..n]
    BY <1>4
  <1> HIDE DEF Below, rank, n
  <1>6. \A x, y \in S : rank[x] = rank[y] => x = y
    <2> SUFFICES ASSUME NEW x \in S, NEW y \in S, x # y PROVE rank[x] # rank[y]
      OBVIOUS
    <2>1. rank[x] < rank[y] \/ rank[y] < rank[x]
      BY <1>3 DEF Orders
    <2>2. rank[x] \in Int /\ rank[y] \in Int
      BY <1>4
    <2> QED
      BY <2>1, <2>2
  <1>7. rank \in Injection(S, 1..n)
    BY <1>5, <1>6 DEF Injection, IsInjective
  <1>8. IsFiniteSet(1..n) /\ Cardinality(1..n) = n
    BY <1>1, FS_Interval
  <1>9. rank \in Surjection(S, 1..n)
    BY <1>7, <1>8, FS_Injection DEF n
  <1>10. \A i \in 1..n : s[i] \in S /\ rank[s[i]] = i
    BY <1>9 DEF Surjection
  <1>11. s \in [1..n -> S]
    BY <1>10
  <1> HIDE DEF s
  <1>12. ASSUME NEW i \in 1..n, NEW j \in 1..n, i < j PROVE <<s[i], s[j]>> \in R
    <2>1. s[i] \in S /\ s[j] \in S /\ rank[s[i]] = i /\ rank[s[j]] = j
      BY <1>10
    <2>2. <<s[j], s[i]>> \notin R /\ s[i] # s[j]
      BY <1>3, <1>12, <2>1
    <2> QED
      BY <2>1, <2>2 DEF Orders
  <1>13. DOMAIN s = 1..n
    BY <1>11
  <1> QED
    BY <1>11, <1>12, <1>13 DEF n, SortedBy

(* Sorted, each element has one place.                                     *)
LEMMA SortedOnto ==
  ASSUME NEW S, IsFiniteSet(S), NEW R, Orders(R, S),
         NEW s \in [1..Cardinality(S) -> S], SortedBy(s, R), NEW x \in S
  PROVE  OncePlaced(s, x)
  <1> DEFINE n == Cardinality(S)
  <1>1. n \in Nat
    BY FS_CardinalityType
  <1> HIDE DEF n
  <1>2. DOMAIN s = 1..n /\ \A i \in 1..n : s[i] \in S
    BY DEF n
  <1>3. \A i, j \in 1..n : s[i] = s[j] => i = j
    <2> SUFFICES ASSUME NEW i \in 1..n, NEW j \in 1..n, s[i] = s[j], i # j PROVE FALSE
      OBVIOUS
    <2>1. i < j \/ j < i
      BY <1>1
    <2> QED
      BY <1>2, <2>1 DEF Orders, SortedBy
  <1>4. s \in Injection(1..n, S)
    BY <1>3 DEF Injection, IsInjective, n
  <1>5. IsFiniteSet(1..n) /\ Cardinality(1..n) = n
    BY <1>1, FS_Interval
  <1>6. s \in Surjection(1..n, S)
    BY <1>4, <1>5, FS_Injection DEF n
  <1>7. PICK i \in 1..n : s[i] = x
    BY <1>6 DEF Surjection
  <1> QED
    BY <1>2, <1>3, <1>7 DEF OncePlaced

-----------------------------------------------------------------------------
(* The beginnings of a path.                                               *)
LEMMA Beginning ==
  ASSUME NEW p \in Seq(Sides), NEW k \in 0..Len(p)
  PROVE  /\ SubSeq(p, 1, k) \in Seq(Sides) /\ Len(SubSeq(p, 1, k)) = k
         /\ \A j \in 1..k : SubSeq(p, 1, k)[j] = p[j]
  <1>1. \A j \in 1..k : p[j] \in Sides
    BY ElementOfSeq
  <1>2. k \in Int /\ 1 \in Int /\ k - 1 + 1 = k
    OBVIOUS
  <1>3. Len(SubSeq(p, 1, k)) = IF 1 <= k THEN k - 1 + 1 ELSE 0
    BY <1>1, <1>2, SubSeqProperties
  <1>4. SubSeq(p, 1, k) \in Seq(Sides) /\ \A j \in 1..(k - 1 + 1) : SubSeq(p, 1, k)[j] = p[1 + j - 1]
    BY <1>1, <1>2, SubSeqProperties
  <1>5. \A j \in 1..k : 1 + j - 1 = j
    OBVIOUS
  <1> QED
    BY <1>2, <1>3, <1>4, <1>5

(* Two beginnings are the same when their entries are.                     *)
LEMMA SameBeginning ==
  ASSUME NEW p \in Seq(Sides), NEW q \in Seq(Sides), NEW k \in Nat, k <= Len(p), k <= Len(q)
  PROVE  SubSeq(p, 1, k) = SubSeq(q, 1, k) <=> \A j \in 1..k : p[j] = q[j]
  <1>1. PICK u, v : u = SubSeq(p, 1, k) /\ v = SubSeq(q, 1, k)
    OBVIOUS
  <1>2. k \in 0..Len(p) /\ k \in 0..Len(q)
    OBVIOUS
  <1>3. u \in Seq(Sides) /\ Len(u) = k /\ \A j \in 1..k : u[j] = p[j]
    BY <1>1, <1>2, Beginning
  <1>4. v \in Seq(Sides) /\ Len(v) = k /\ \A j \in 1..k : v[j] = q[j]
    BY <1>1, <1>2, Beginning
  <1>5. (\A j \in 1..k : u[j] = v[j]) => u = v
    BY <1>3, <1>4, SeqEqual
  <1> QED
    BY <1>1, <1>3, <1>4, <1>5

(* The beginning of a beginning is one of the path.                        *)
LEMMA BeginningOfBeginning ==
  ASSUME NEW p \in Seq(Sides), NEW k \in 0..Len(p), NEW j \in 0..k
  PROVE  SubSeq(SubSeq(p, 1, k), 1, j) = SubSeq(p, 1, j)
  <1>1. PICK u : u = SubSeq(p, 1, k)
    OBVIOUS
  <1>2. u \in Seq(Sides) /\ Len(u) = k /\ \A i \in 1..k : u[i] = p[i]
    BY <1>1, Beginning
  <1>3. j \in Nat /\ j <= Len(u) /\ j <= Len(p) /\ 1..j \subseteq 1..k
    BY <1>2
  <1> QED
    BY <1>1, <1>2, <1>3, SameBeginning

(* A longer path begins as the path does.                                  *)
LEMMA BeginningOfLonger ==
  ASSUME NEW p \in Seq(Sides), NEW x \in Sides, NEW k \in 0..Len(p)
  PROVE  SubSeq(Append(p, x), 1, k) = SubSeq(p, 1, k)
  <1>1. PICK u : u = Append(p, x)
    OBVIOUS
  <1>2. u \in Seq(Sides) /\ Len(u) = Len(p) + 1 /\ \A i \in 1..Len(p) : u[i] = p[i]
    BY <1>1, AppendProperties
  <1>3. k \in Nat /\ k <= Len(u) /\ k <= Len(p) /\ 1..k \subseteq 1..Len(p)
    BY <1>2
  <1> QED
    BY <1>1, <1>2, <1>3, SameBeginning

(* Two paths of which none begins the other part somewhere.                *)
LEMMA FirstDifference ==
  ASSUME NEW p \in Seq(Sides), NEW q \in Seq(Sides),
         Len(p) <= Len(q) => p # SubSeq(q, 1, Len(p)),
         Len(q) <= Len(p) => q # SubSeq(p, 1, Len(q))
  PROVE  \E k \in Nat : /\ k >= 1 /\ k <= Len(p) /\ k <= Len(q) /\ p[k] # q[k]
                        /\ SubSeq(p, 1, k - 1) = SubSeq(q, 1, k - 1)
  <1> DEFINE T == {j \in Nat : j >= 1 /\ j <= Len(p) /\ j <= Len(q) /\ p[j] # q[j]}
  <1>0. Len(p) \in Nat /\ Len(q) \in Nat
    OBVIOUS
  <1>1. ASSUME T = {} PROVE FALSE
    <2>1. CASE Len(p) <= Len(q)
      <3>1. \A j \in 1..Len(p) : p[j] = q[j]
        BY <1>0, <1>1, <2>1
      <3>2. SubSeq(p, 1, Len(p)) = SubSeq(q, 1, Len(p))
        BY <1>0, <2>1, <3>1, SameBeginning
      <3> QED
        BY <2>1, <3>2, SubSeqFull
    <2>2. CASE Len(q) <= Len(p)
      <3>1. \A j \in 1..Len(q) : q[j] = p[j]
        BY <1>0, <1>1, <2>2
      <3>2. SubSeq(q, 1, Len(q)) = SubSeq(p, 1, Len(q))
        BY <1>0, <2>2, <3>1, SameBeginning
      <3> QED
        BY <2>2, <3>2, SubSeqFull
    <2> QED
      BY <1>0, <2>1, <2>2
  <1>2. T \subseteq Nat
    OBVIOUS
  <1>3. PICK k \in T : \A j \in T : k <= j
    BY <1>1, <1>2, Least
  <1>4. \A j \in 1..(k - 1) : p[j] = q[j]
    BY <1>0, <1>3
  <1>5. k - 1 \in Nat /\ k - 1 <= Len(p) /\ k - 1 <= Len(q)
    BY <1>0, <1>3
  <1>6. SubSeq(p, 1, k - 1) = SubSeq(q, 1, k - 1)
    BY <1>4, <1>5, SameBeginning
  <1> QED
    BY <1>3, <1>6

-----------------------------------------------------------------------------
(* The nodes of a tree have their parents in it, hence every beginning.    *)
Grown(nodes) ==
  \A p \in nodes : /\ p \in Seq(Sides) /\ Len(p) < MaxDepth
                   /\ p = <<>> \/ SubSeq(p, 1, Len(p) - 1) \in nodes

(* With a node, the nodes on the path to it are inner nodes too.           *)
LEMMA GrownDown ==
  ASSUME NEW nodes, Grown(nodes), NEW p \in nodes, NEW k \in 0..Len(p)
  PROVE  SubSeq(p, 1, k) \in nodes
  <1> DEFINE T == {d \in Nat : d <= Len(p) /\ SubSeq(p, 1, Len(p) - d) \notin nodes}
  <1>1. p \in Seq(Sides) /\ Len(p) \in Nat
    BY DEF Grown
  <1>2. ASSUME T # {} PROVE FALSE
    <2>1. T \subseteq Nat
      OBVIOUS
    <2>2. PICK d \in T : \A e \in T : d <= e
      BY <1>2, <2>1, Least
    <2>3. d # 0
      <3>1. Len(p) - 0 = Len(p) /\ SubSeq(p, 1, Len(p)) = p
        BY <1>1, SubSeqFull
      <3>2. 0 \notin T
        BY <3>1
      <3> QED
        BY <2>2, <3>2
    <2>4. d \in Nat /\ d >= 1 /\ d <= Len(p) /\ d - 1 \notin T
      BY <2>2, <2>3
    <2>5. PICK n \in Nat : n = Len(p) - (d - 1) /\ n >= 1 /\ n <= Len(p) /\ n - 1 = Len(p) - d
      BY <1>1, <2>4
    <2>6. PICK q : q = SubSeq(p, 1, n)
      OBVIOUS
    <2>7. q \in nodes
      BY <1>1, <2>4, <2>5, <2>6
    <2>8. q \in Seq(Sides) /\ Len(q) = n
      BY <1>1, <2>5, <2>6, Beginning
    <2>9. q # <<>>
      BY <2>5, <2>8
    <2>10. SubSeq(q, 1, n - 1) \in nodes
      BY <2>7, <2>8, <2>9 DEF Grown
    <2>11. SubSeq(q, 1, n - 1) = SubSeq(p, 1, n - 1)
      BY <1>1, <2>5, <2>6, BeginningOfBeginning
    <2> QED
      BY <2>2, <2>5, <2>10, <2>11
  <1>3. PICK d \in Nat : d = Len(p) - k /\ d <= Len(p) /\ Len(p) - d = k
    BY <1>1
  <1>4. d \notin T
    BY <1>2
  <1> QED
    BY <1>3, <1>4

(* A leaf's proper beginnings are inner nodes.                             *)
LEMMA LeafPath ==
  ASSUME NEW fit, Grown(DOMAIN fit), NEW p \in Leaves(fit)
  PROVE  /\ p \in Seq(Sides) /\ p \notin DOMAIN fit
         /\ \A k \in Nat : k < Len(p) => SubSeq(p, 1, k) \in DOMAIN fit
  <1>1. p \notin DOMAIN fit
    BY DEF Leaves
  <1>2. CASE p = <<>>
    BY <1>1, <1>2
  <1>3. CASE p # <<>>
    <2>1. PICK node \in DOMAIN fit, side \in Sides : p = Append(node, side)
      BY <1>3 DEF Leaves
    <2>2. node \in Seq(Sides)
      BY DEF Grown
    <2>3. p \in Seq(Sides) /\ Len(p) = Len(node) + 1
      BY <2>1, <2>2, AppendProperties
    <2>4. ASSUME NEW k \in Nat, k < Len(p) PROVE SubSeq(p, 1, k) \in DOMAIN fit
      <3>1. k \in 0..Len(node)
        BY <2>2, <2>3, <2>4
      <3>2. SubSeq(p, 1, k) = SubSeq(node, 1, k)
        BY <2>1, <2>2, <3>1, BeginningOfLonger
      <3> QED
        BY <3>1, <3>2, GrownDown
    <2> QED
      BY <1>1, <2>3, <2>4
  <1> QED
    BY <1>2, <1>3

(* Two leaves part at an inner node.                                       *)
LEMMA LeavesPart ==
  ASSUME NEW fit, Grown(DOMAIN fit), NEW p \in Leaves(fit), NEW q \in Leaves(fit), p # q
  PROVE  \E k \in Nat : /\ k >= 1 /\ k <= Len(p) /\ k <= Len(q) /\ p[k] # q[k]
                        /\ SubSeq(p, 1, k - 1) = SubSeq(q, 1, k - 1)
                        /\ SubSeq(p, 1, k - 1) \in DOMAIN fit
  <1>1. /\ p \in Seq(Sides) /\ p \notin DOMAIN fit
        /\ \A k \in Nat : k < Len(p) => SubSeq(p, 1, k) \in DOMAIN fit
    BY LeafPath
  <1>2. /\ q \in Seq(Sides) /\ q \notin DOMAIN fit
        /\ \A k \in Nat : k < Len(q) => SubSeq(q, 1, k) \in DOMAIN fit
    BY LeafPath
  <1>3. Len(p) \in Nat /\ Len(q) \in Nat
    BY <1>1, <1>2
  <1>4. ASSUME Len(p) <= Len(q), p = SubSeq(q, 1, Len(p)) PROVE FALSE
    <2>1. CASE Len(p) < Len(q)
      BY <1>1, <1>2, <1>3, <1>4, <2>1
    <2>2. CASE Len(p) = Len(q)
      BY <1>2, <1>4, <2>2, SubSeqFull
    <2> QED
      BY <1>3, <1>4, <2>1, <2>2
  <1>5. ASSUME Len(q) <= Len(p), q = SubSeq(p, 1, Len(q)) PROVE FALSE
    <2>1. CASE Len(q) < Len(p)
      BY <1>1, <1>2, <1>3, <1>5, <2>1
    <2>2. CASE Len(q) = Len(p)
      BY <1>1, <1>5, <2>2, SubSeqFull
    <2> QED
      BY <1>3, <1>5, <2>1, <2>2
  <1>6. PICK k \in Nat : /\ k >= 1 /\ k <= Len(p) /\ k <= Len(q) /\ p[k] # q[k]
                         /\ SubSeq(p, 1, k - 1) = SubSeq(q, 1, k - 1)
    BY <1>1, <1>2, <1>4, <1>5, FirstDifference
  <1>7. k - 1 \in Nat /\ k - 1 < Len(p)
    BY <1>3, <1>6
  <1> QED
    BY <1>1, <1>6, <1>7

-----------------------------------------------------------------------------
(* Rows of codes, at least one.                                            *)
Table(X) ==
  /\ IsFiniteSet(DOMAIN X) /\ DOMAIN X # {}
  /\ \A i \in DOMAIN X, a \in Attributes : X[i][a] \in Int

(* A split of some rows has rows on both of its sides.                     *)
LEMMA SplitIs ==
  ASSUME NEW X, Table(X), NEW rows, rows \subseteq DOMAIN X, NEW split \in Splits(rows, X)
  PROVE  /\ split.attr \in Attributes /\ split.twice \in Int
         /\ \E i \in rows : 2 * X[i][split.attr] <= split.twice
         /\ \E i \in rows : ~(2 * X[i][split.attr] <= split.twice)
  <1>1. PICK a \in Attributes :
          LET codes == {X[i][a] : i \in rows}
          IN  split \in {[attr |-> a, twice |-> b[1] + b[2]] :
                b \in {b \in codes \X codes :
                         /\ b[1] < b[2]
                         /\ \A c \in codes : c <= b[1] \/ b[2] <= c
                         /\ Cardinality({i \in rows : X[i][a] <= b[1]}) >= MinSamplesLeaf
                         /\ Cardinality({i \in rows : X[i][a] >= b[2]}) >= MinSamplesLeaf}}
    BY DEF Splits
  <1>2. PICK b \in {X[i][a] : i \in rows} \X {X[i][a] : i \in rows} :
          /\ split = [attr |-> a, twice |-> b[1] + b[2]]
          /\ b[1] < b[2]
          /\ Cardinality({i \in rows : X[i][a] <= b[1]}) >= MinSamplesLeaf
          /\ Cardinality({i \in rows : X[i][a] >= b[2]}) >= MinSamplesLeaf
    BY <1>1
  <1>3. \A i \in rows : X[i][a] \in Int
    BY DEF Table
  <1>4. PICK lo \in Int, hi \in Int : lo = b[1] /\ hi = b[2]
    BY <1>2, <1>3
  <1>5. ASSUME NEW T, Cardinality(T) >= MinSamplesLeaf PROVE T # {}
    BY <1>5, FS_EmptySet, FitAssumption
  <1>6. split.attr = a /\ split.twice = lo + hi /\ lo < hi
    BY <1>2, <1>4
  <1>7. PICK i \in rows : X[i][a] <= lo
    BY <1>2, <1>4, <1>5
  <1>8. PICK j \in rows : X[j][a] >= hi
    BY <1>2, <1>4, <1>5
  <1>9. 2 * X[i][a] <= lo + hi /\ ~(2 * X[j][a] <= lo + hi)
    BY <1>3, <1>6, <1>7, <1>8
  <1> QED
    BY <1>6, <1>7, <1>8, <1>9

(* A fit: its nodes have their parents, its splits rows on both sides.     *)
FitOf(fit, X) ==
  /\ Grown(DOMAIN fit)
  /\ \A node \in DOMAIN fit : fit[node] \in Splits(Rows(fit, node, X), X)

(* What the fit may return is such a tree.                                 *)
LEMMA FittedIs ==
  ASSUME NEW X, NEW y, NEW fit \in Fitted(X, y)
  PROVE  FitOf(fit, X)
  <1>1. PICK nodes \in SUBSET Inner :
          /\ \A node \in nodes : node = <<>> \/ SubSeq(node, 1, Len(node) - 1) \in nodes
          /\ fit \in [nodes -> UNION {Splits(rows, X) : rows \in SUBSET DOMAIN X}]
    BY DEF Fitted
  <1>2. \A node \in DOMAIN fit : fit[node] \in Splits(Rows(fit, node, X), X)
    BY DEF Fitted
  <1>3. ASSUME NEW p \in Inner PROVE p \in Seq(Sides) /\ Len(p) < MaxDepth
    <2>1. PICK n \in 0..(MaxDepth - 1) : p \in [1..n -> Sides]
      BY <1>3 DEF Inner
    <2>2. n \in Nat /\ n < MaxDepth
      BY FitAssumption
    <2>3. p \in Seq(Sides) /\ Len(p) = n
      BY <2>1, <2>2, SeqDef, LenProperties
    <2> QED
      BY <2>2, <2>3
  <1>4. DOMAIN fit = nodes
    BY <1>1
  <1> QED
    BY <1>1, <1>2, <1>3, <1>4 DEF FitOf, Grown

(* To be at a child is to be at its parent and to go to its side.          *)
LEMMA AtChild ==
  ASSUME NEW fit, NEW p \in Seq(Sides), NEW side \in Sides, NEW row
  PROVE  At(fit, Append(p, side), row) <=> At(fit, p, row) /\ Goes(fit[p], row, side)
  <1>1. PICK q : q = Append(p, side)
    OBVIOUS
  <1>2. PICK n \in Nat : n = Len(p)
    OBVIOUS
  <1>3. Len(q) = n + 1 /\ (\A k \in 1..n : q[k] = p[k]) /\ q[n + 1] = side
    BY <1>1, <1>2, AppendProperties
  <1>4. \A k \in 1..n : SubSeq(q, 1, k - 1) = SubSeq(p, 1, k - 1)
    <2> SUFFICES ASSUME NEW k \in 1..n PROVE SubSeq(q, 1, k - 1) = SubSeq(p, 1, k - 1)
      OBVIOUS
    <2>1. k - 1 \in 0..Len(p)
      BY <1>2
    <2> QED
      BY <1>1, <2>1, BeginningOfLonger
  <1>5. SubSeq(q, 1, n + 1 - 1) = p
    <2>1. n \in 0..Len(p) /\ n + 1 - 1 = n
      BY <1>2
    <2>2. SubSeq(q, 1, n) = SubSeq(p, 1, n)
      BY <1>1, <2>1, BeginningOfLonger
    <2> QED
      BY <1>2, <2>1, <2>2, SubSeqFull
  <1>6. At(fit, p, row) <=> \A k \in 1..n : Goes(fit[SubSeq(p, 1, k - 1)], row, p[k])
    BY <1>2 DEF At
  <1>7. At(fit, q, row) <=> \A k \in 1..(n + 1) : Goes(fit[SubSeq(q, 1, k - 1)], row, q[k])
    BY <1>3 DEF At
  <1>8. \A k \in 1..(n + 1) : k \in 1..n \/ k = n + 1
    OBVIOUS
  <1>9. n + 1 \in 1..(n + 1) /\ 1..n \subseteq 1..(n + 1)
    OBVIOUS
  <1>10. \A k \in 1..n :
           Goes(fit[SubSeq(q, 1, k - 1)], row, q[k]) = Goes(fit[SubSeq(p, 1, k - 1)], row, p[k])
    BY <1>3, <1>4
  <1>11. Goes(fit[SubSeq(q, 1, n + 1 - 1)], row, q[n + 1]) = Goes(fit[p], row, side)
    BY <1>3, <1>5
  <1>12. (\A k \in 1..(n + 1) : Goes(fit[SubSeq(q, 1, k - 1)], row, q[k]))
          <=> (\A k \in 1..n : Goes(fit[SubSeq(p, 1, k - 1)], row, p[k])) /\ Goes(fit[p], row, side)
    BY <1>8, <1>9, <1>10, <1>11
  <1> QED
    BY <1>1, <1>6, <1>7, <1>12

(* Every row is at the root, whatever is there.                            *)
LEMMA AtRoot ==
  ASSUME NEW fit, NEW row
  PROVE  At(fit, <<>>, row)
  BY DEF At

(* A row ends at some leaf: below the deepest inner node it is at.         *)
LEMMA SomeLeaf ==
  ASSUME NEW X, NEW fit, FitOf(fit, X), NEW i \in DOMAIN X
  PROVE  \E p \in Leaves(fit) : At(fit, p, X[i])
  <1>1. CASE DOMAIN fit = {}
    <2>1. <<>> \in Leaves(fit)
      BY <1>1 DEF Leaves
    <2> QED
      BY <2>1, AtRoot
  <1>2. CASE DOMAIN fit # {}
    <2> DEFINE Depths == {d \in Nat : \E p \in DOMAIN fit : At(fit, p, X[i]) /\ d = MaxDepth - Len(p)}
    <2>1. \A p \in DOMAIN fit : p \in Seq(Sides) /\ Len(p) \in Nat /\ MaxDepth - Len(p) \in Nat /\ Len(p) < MaxDepth
      BY FitAssumption DEF FitOf, Grown
    <2>2. <<>> \in DOMAIN fit
      <3>1. PICK p \in DOMAIN fit : TRUE
        BY <1>2
      <3>2. 0 \in 0..Len(p) /\ SubSeq(p, 1, 0) = <<>>
        BY <2>1, SubSeqEmpty
      <3> QED
        BY <3>1, <3>2, GrownDown DEF FitOf
    <2>3. Depths # {}
      BY <2>1, <2>2, AtRoot
    <2>4. Depths \subseteq Nat
      OBVIOUS
    <2>5. PICK d \in Depths : \A e \in Depths : d <= e
      BY <2>3, <2>4, Least
    <2>6. PICK p \in DOMAIN fit : At(fit, p, X[i]) /\ d = MaxDepth - Len(p)
      BY <2>5
    <2>7. PICK side \in Sides : Goes(fit[p], X[i], side)
      <3>1. CASE 2 * X[i][fit[p].attr] <= fit[p].twice
        BY <3>1 DEF Goes, Sides
      <3>2. CASE ~(2 * X[i][fit[p].attr] <= fit[p].twice)
        <4>1. "gt" # "le" /\ "gt" \in Sides
          BY DEF Sides
        <4> QED
          BY <3>2, <4>1 DEF Goes
      <3> QED
        BY <3>1, <3>2
    <2>8. At(fit, Append(p, side), X[i])
      BY <2>1, <2>6, <2>7, AtChild
    <2>9. Append(p, side) \notin DOMAIN fit
      <3> SUFFICES ASSUME Append(p, side) \in DOMAIN fit PROVE FALSE
        OBVIOUS
      <3>1. PICK q : q = Append(p, side)
        OBVIOUS
      <3>2. Len(q) = Len(p) + 1 /\ q \in DOMAIN fit /\ At(fit, q, X[i])
        BY <2>1, <2>8, <3>1, AppendProperties
      <3>3. MaxDepth - Len(q) \in Depths
        BY <2>1, <3>2
      <3>4. d <= MaxDepth - Len(q)
        BY <2>5, <3>3
      <3> QED
        BY <2>1, <2>6, <3>2, <3>4, FitAssumption
    <2>10. Append(p, side) \in Leaves(fit)
      BY <2>9 DEF Leaves
    <2> QED
      BY <2>8, <2>10
  <1> QED
    BY <1>1, <1>2

(* And at no other, for two leaves part somewhere.                         *)
THEOREM UniqueLeaf ==
  ASSUME NEW fit, Grown(DOMAIN fit), NEW p \in Leaves(fit), NEW q \in Leaves(fit), NEW row,
         At(fit, p, row), At(fit, q, row)
  PROVE  p = q
  <1> SUFFICES ASSUME p # q PROVE FALSE
    OBVIOUS
  <1>1. PICK k \in Nat : /\ k >= 1 /\ k <= Len(p) /\ k <= Len(q) /\ p[k] # q[k]
                         /\ SubSeq(p, 1, k - 1) = SubSeq(q, 1, k - 1)
    BY LeavesPart
  <1>2. p \in Seq(Sides) /\ q \in Seq(Sides)
    BY LeafPath
  <1>3. k \in 1..Len(p) /\ k \in 1..Len(q)
    BY <1>1, <1>2
  <1>4. p[k] \in Sides /\ q[k] \in Sides
    BY <1>2, <1>3, ElementOfSeq
  <1>5. PICK split : split = fit[SubSeq(p, 1, k - 1)]
    OBVIOUS
  <1>6. Goes(split, row, p[k]) /\ Goes(split, row, q[k])
    BY <1>1, <1>3, <1>5 DEF At
  <1>7. (p[k] = "le") <=> (q[k] = "le")
    BY <1>6 DEF Goes
  <1> QED
    BY <1>1, <1>4, <1>7 DEF Sides

(* Every leaf has rows.                                                    *)
LEMMA LeafHasRows ==
  ASSUME NEW X, Table(X), NEW fit, FitOf(fit, X), NEW p \in Leaves(fit)
  PROVE  Rows(fit, p, X) # {}
  <1>1. CASE p = <<>>
    <2>1. PICK i \in DOMAIN X : TRUE
      BY DEF Table
    <2> QED
      BY <1>1, <2>1, AtRoot DEF Rows
  <1>2. CASE p # <<>>
    <2>1. PICK node \in DOMAIN fit, side \in Sides : p = Append(node, side)
      BY <1>2 DEF Leaves
    <2>2. node \in Seq(Sides)
      BY DEF FitOf, Grown
    <2>3. PICK split : split = fit[node] /\ split \in Splits(Rows(fit, node, X), X)
      BY DEF FitOf
    <2>4. Rows(fit, node, X) \subseteq DOMAIN X
      BY DEF Rows
    <2>5. PICK i \in Rows(fit, node, X) : (2 * X[i][split.attr] <= split.twice) <=> (side = "le")
      <3>1. PICK lo \in Rows(fit, node, X), hi \in Rows(fit, node, X) :
              2 * X[lo][split.attr] <= split.twice /\ ~(2 * X[hi][split.attr] <= split.twice)
        BY <2>3, <2>4, SplitIs
      <3> QED
        BY <3>1
    <2>6. Goes(fit[node], X[i], side)
      BY <2>3, <2>5 DEF Goes
    <2>7. At(fit, node, X[i]) /\ i \in DOMAIN X
      BY DEF Rows
    <2>8. At(fit, p, X[i])
      BY <2>1, <2>2, <2>6, <2>7, AtChild
    <2> QED
      BY <2>7, <2>8 DEF Rows
  <1> QED
    BY <1>1, <1>2

(* So there are no more leaves than rows.                                  *)
LEMMA FiniteLeaves ==
  ASSUME NEW X, Table(X), NEW fit, FitOf(fit, X)
  PROVE  IsFiniteSet(Leaves(fit))
  <1> DEFINE f == [p \in Leaves(fit) |-> CHOOSE i \in DOMAIN X : At(fit, p, X[i])]
  <1>1. \A p \in Leaves(fit) : f[p] \in DOMAIN X /\ At(fit, p, X[f[p]])
    BY LeafHasRows DEF Rows
  <1>2. f \in [Leaves(fit) -> DOMAIN X]
    BY <1>1
  <1> HIDE DEF f
  <1>3. \A p, q \in Leaves(fit) : f[p] = f[q] => p = q
    BY <1>1, UniqueLeaf DEF FitOf
  <1>4. f \in Injection(Leaves(fit), DOMAIN X)
    BY <1>2, <1>3 DEF Injection, IsInjective
  <1> QED
    BY <1>4, FS_Injection DEF Table

-----------------------------------------------------------------------------
(* An integer is at most half a number iff it is at most the floor of it.  *)
LEMMA HalfFloor ==
  ASSUME NEW c \in Int, NEW t \in Int
  PROVE  2 * c <= t <=> c <= t \div 2
  <1>1. t = 2 * (t \div 2) + (t % 2) /\ t % 2 \in 0..1 /\ t \div 2 \in Int
    OBVIOUS
  <1> QED
    BY <1>1

(* A leaf allows the codes of the rows that end there, and of no other row *)
(* all of them.                                                            *)
LEMMA AllowedAtLeaf ==
  ASSUME NEW X, Table(X), NEW fit, FitOf(fit, X), NEW p \in Leaves(fit), NEW i \in DOMAIN X
  PROVE  At(fit, p, X[i]) <=> \A a \in Attributes : X[i][a] \in Allowed(fit, p, X, a)
  <1>1. \A k \in 1..Len(p) : SubSeq(p, 1, k - 1) \in DOMAIN fit
    <2> SUFFICES ASSUME NEW k \in 1..Len(p) PROVE SubSeq(p, 1, k - 1) \in DOMAIN fit
      OBVIOUS
    <2>1. Grown(DOMAIN fit)
      BY DEF FitOf
    <2>2. p \in Seq(Sides) /\ (\A j \in Nat : j < Len(p) => SubSeq(p, 1, j) \in DOMAIN fit)
      BY <2>1, LeafPath
    <2>3. k - 1 \in Nat /\ k - 1 < Len(p)
      BY <2>2
    <2> QED
      BY <2>2, <2>3
  <1>2. ASSUME NEW k \in 1..Len(p), NEW split, split = fit[SubSeq(p, 1, k - 1)]
        PROVE  /\ split.attr \in Attributes
               /\ Goes(split, X[i], p[k]) <=> ((X[i][split.attr] <= Cut(split)) <=> (p[k] = "le"))
    <2>1. PICK node \in DOMAIN fit : node = SubSeq(p, 1, k - 1)
      BY <1>1
    <2>2. split \in Splits(Rows(fit, node, X), X)
      BY <1>2, <2>1 DEF FitOf
    <2>3. Rows(fit, node, X) \subseteq DOMAIN X
      BY DEF Rows
    <2>4. split.attr \in Attributes /\ split.twice \in Int
      BY <2>2, <2>3, SplitIs
    <2>5. X[i][split.attr] \in Int
      BY <2>4 DEF Table
    <2>6. 2 * X[i][split.attr] <= split.twice <=> X[i][split.attr] <= Cut(split)
      BY <2>4, <2>5, HalfFloor DEF Cut
    <2> QED
      BY <2>4, <2>6 DEF Goes
  <1>3. \A a : X[i][a] \in Universe(X, a)
    BY DEF Universe
  <1>4. ASSUME At(fit, p, X[i]), NEW a \in Attributes PROVE X[i][a] \in Allowed(fit, p, X, a)
    <2> SUFFICES ASSUME NEW k \in 1..Len(p), NEW split, split = fit[SubSeq(p, 1, k - 1)], split.attr = a
                 PROVE  (X[i][a] <= Cut(split)) <=> (p[k] = "le")
      BY <1>3 DEF Allowed
    <2>1. Goes(split, X[i], p[k])
      BY <1>4 DEF At
    <2> QED
      BY <1>2, <2>1
  <1>5. ASSUME \A a \in Attributes : X[i][a] \in Allowed(fit, p, X, a) PROVE At(fit, p, X[i])
    <2> SUFFICES ASSUME NEW k \in 1..Len(p) PROVE Goes(fit[SubSeq(p, 1, k - 1)], X[i], p[k])
      BY DEF At
    <2>1. PICK split : split = fit[SubSeq(p, 1, k - 1)]
      OBVIOUS
    <2>2. split.attr \in Attributes
      BY <1>2, <2>1
    <2>3. X[i][split.attr] \in Allowed(fit, p, X, split.attr)
      BY <1>5, <2>2
    <2>4. (X[i][split.attr] <= Cut(split)) <=> (p[k] = "le")
      BY <2>1, <2>3 DEF Allowed
    <2> QED
      BY <1>2, <2>1, <2>4
  <1> QED
    BY <1>4, <1>5

(* Hence no leaf is unreachable.                                           *)
LEMMA AllPossible ==
  ASSUME NEW X, Table(X), NEW fit, FitOf(fit, X), NEW p \in Leaves(fit), NEW a \in Attributes
  PROVE  Allowed(fit, p, X, a) # {}
  <1>1. PICK i \in DOMAIN X : At(fit, p, X[i])
    BY LeafHasRows DEF Rows
  <1> QED
    BY <1>1, AllowedAtLeaf

-----------------------------------------------------------------------------
(* The order of the rules is one: larger leaves first, then further left.  *)
Turn(p, q, k) ==
  /\ k \in DOMAIN p \cap DOMAIN q
  /\ SubSeq(p, 1, k - 1) = SubSeq(q, 1, k - 1) /\ p[k] = "le" /\ q[k] = "gt"

(* Going further left is transitive.                                       *)
LEMMA TurnsOn ==
  ASSUME NEW p \in Seq(Sides), NEW q \in Seq(Sides), NEW r \in Seq(Sides), NEW k, NEW l,
         Turn(p, q, k), Turn(q, r, l)
  PROVE  \E m : Turn(p, r, m)
  <1>1. /\ k \in 1..Len(p) /\ k \in 1..Len(q) /\ l \in 1..Len(q) /\ l \in 1..Len(r)
        /\ p[k] = "le" /\ q[k] = "gt" /\ q[l] = "le" /\ r[l] = "gt"
    BY DEF Turn
  <1>2. k - 1 \in Nat /\ k - 1 <= Len(p) /\ k - 1 <= Len(q) /\ l - 1 \in Nat /\ l - 1 <= Len(q) /\ l - 1 <= Len(r)
    BY <1>1
  <1>3. \A j \in 1..(k - 1) : p[j] = q[j]
    BY <1>2, SameBeginning DEF Turn
  <1>4. \A j \in 1..(l - 1) : q[j] = r[j]
    BY <1>2, SameBeginning DEF Turn
  <1>5. CASE k < l
    <2>1. k \in 1..(l - 1) /\ k \in 1..Len(r) /\ k - 1 <= Len(r) /\ 1..(k - 1) \subseteq 1..(l - 1)
      BY <1>1, <1>5
    <2>2. r[k] = "gt"
      BY <1>1, <1>4, <2>1
    <2>3. SubSeq(p, 1, k - 1) = SubSeq(r, 1, k - 1)
      BY <1>2, <1>3, <1>4, <2>1, SameBeginning
    <2> QED
      BY <1>1, <2>1, <2>2, <2>3, SMTT(30) DEF Turn
  <1>6. CASE l < k
    <2>1. l \in 1..(k - 1) /\ l \in 1..Len(p) /\ l - 1 <= Len(p) /\ 1..(l - 1) \subseteq 1..(k - 1)
      BY <1>1, <1>6
    <2>2. p[l] = "le"
      BY <1>1, <1>3, <2>1
    <2>3. SubSeq(p, 1, l - 1) = SubSeq(r, 1, l - 1)
      BY <1>2, <1>3, <1>4, <2>1, SameBeginning
    <2> QED
      BY <1>1, <2>1, <2>2, <2>3 DEF Turn
  <1>7. k # l
    BY <1>1
  <1> QED
    BY <1>1, <1>5, <1>6, <1>7

(* So the order of the rules is a strict total order of the leaves.        *)
LEMMA BeforeOrders ==
  ASSUME NEW X, Table(X), NEW fit, FitOf(fit, X), NEW R,
         \A p, q \in Leaves(fit) : <<p, q>> \in R <=> Before(fit, X, p, q)
  PROVE  Orders(R, Leaves(fit))
  <1> DEFINE n(p) == Cardinality(Rows(fit, p, X))
  <1>1. \A p : n(p) \in Nat
    <2> SUFFICES ASSUME NEW p PROVE n(p) \in Nat
      OBVIOUS
    <2>1. Rows(fit, p, X) \in SUBSET DOMAIN X
      BY DEF Rows
    <2> QED
      BY <2>1, FS_Subset, FS_CardinalityType DEF Table
  <1>2. \A p \in Leaves(fit) : p \in Seq(Sides)
    BY LeafPath DEF FitOf
  <1>3. \A p, q : Before(fit, X, p, q) <=> n(p) > n(q) \/ (n(p) = n(q) /\ \E k : Turn(p, q, k))
    BY DEF Before, Turn
  <1> HIDE DEF n
  <1>4. \A p \in Leaves(fit) : <<p, p>> \notin R
    <2> SUFFICES ASSUME NEW p \in Leaves(fit), Before(fit, X, p, p) PROVE FALSE
      OBVIOUS
    <2>1. PICK k : Turn(p, p, k)
      BY <1>1, <1>3
    <2> QED
      BY <2>1 DEF Turn
  <1>5. \A p, q, r \in Leaves(fit) : <<p, q>> \in R /\ <<q, r>> \in R => <<p, r>> \in R
    <2> SUFFICES ASSUME NEW p \in Leaves(fit), NEW q \in Leaves(fit), NEW r \in Leaves(fit),
                        Before(fit, X, p, q), Before(fit, X, q, r)
                 PROVE  Before(fit, X, p, r)
      OBVIOUS
    <2>1. n(p) \in Nat /\ n(q) \in Nat /\ n(r) \in Nat
      BY <1>1
    <2>2. CASE n(p) > n(q) \/ n(q) > n(r)
      <3>1. n(p) >= n(q) /\ n(q) >= n(r)
        BY <1>3, <2>1
      <3>2. n(p) > n(r)
        BY <2>1, <2>2, <3>1
      <3> QED
        BY <1>3, <3>2
    <2>3. CASE ~(n(p) > n(q) \/ n(q) > n(r))
      <3>1. PICK k, l : Turn(p, q, k) /\ Turn(q, r, l)
        BY <1>3, <2>3
      <3>2. \E m : Turn(p, r, m)
        BY <1>2, <3>1, TurnsOn
      <3>3. n(p) = n(r)
        BY <1>3, <2>3
      <3> QED
        BY <1>3, <3>2, <3>3
    <2> QED
      BY <2>2, <2>3
  <1>6. \A p, q \in Leaves(fit) : p # q => <<p, q>> \in R \/ <<q, p>> \in R
    <2> SUFFICES ASSUME NEW p \in Leaves(fit), NEW q \in Leaves(fit), p # q
                 PROVE  Before(fit, X, p, q) \/ Before(fit, X, q, p)
      OBVIOUS
    <2>1. PICK k \in Nat : /\ k >= 1 /\ k <= Len(p) /\ k <= Len(q) /\ p[k] # q[k]
                           /\ SubSeq(p, 1, k - 1) = SubSeq(q, 1, k - 1)
      BY LeavesPart DEF FitOf
    <2>2. p \in Seq(Sides) /\ q \in Seq(Sides)
      BY <1>2
    <2>3. k \in DOMAIN p /\ k \in DOMAIN q
      BY <2>1, <2>2
    <2>4. p[k] \in Sides /\ q[k] \in Sides
      BY <2>2, <2>3, ElementOfSeq
    <2>5. Turn(p, q, k) \/ Turn(q, p, k)
      BY <2>1, <2>3, <2>4 DEF Turn, Sides
    <2>6. n(p) > n(q) \/ n(p) = n(q) \/ n(q) > n(p)
      BY <1>1
    <2> QED
      BY <1>3, <2>5, <2>6
  <1> QED
    BY <1>4, <1>5, <1>6 DEF Orders

-----------------------------------------------------------------------------
(* The majority of some rows is a score that one of them has.              *)
LEMMA MajorityIs ==
  ASSUME NEW rows, IsFiniteSet(rows), rows # {}, NEW y, \A i \in rows : y[i] \in Nat
  PROVE  \E i \in rows : Majority(rows, y) = y[i]
  <1> DEFINE scores == {y[i] : i \in rows}
             n(c)   == Cardinality({i \in rows : y[i] = c})
             best   == {c \in scores : \A d \in scores : n(d) <= n(c)}
             Gaps   == {Cardinality(rows) - n(c) : c \in scores}
  <1>1. Cardinality(rows) \in Nat
    BY FS_CardinalityType
  <1>2. \A c : n(c) \in Nat /\ n(c) <= Cardinality(rows)
    <2> SUFFICES ASSUME NEW c PROVE n(c) \in Nat /\ n(c) <= Cardinality(rows)
      OBVIOUS
    <2>1. {i \in rows : y[i] = c} \in SUBSET rows
      OBVIOUS
    <2> QED
      BY <2>1, FS_Subset, FS_CardinalityType
  <1>3. Majority(rows, y) = CHOOSE c \in best : \A d \in best : c <= d
    BY DEF Majority
  <1>4. scores # {} /\ scores \subseteq Nat
    OBVIOUS
  <1> HIDE DEF n, scores
  <1>5. Gaps # {} /\ Gaps \subseteq Nat
    <2>1. ASSUME NEW c \in scores PROVE Cardinality(rows) - n(c) \in Nat
      <3>1. n(c) \in Nat /\ n(c) <= Cardinality(rows)
        BY <1>2
      <3> QED
        BY <1>1, <3>1
    <2> QED
      BY <1>4, <2>1
  <1>6. PICK g \in Gaps : \A h \in Gaps : g <= h
    BY <1>5, Least
  <1>7. PICK c \in scores : g = Cardinality(rows) - n(c)
    BY <1>6
  <1>8. \A d \in scores : n(d) <= n(c)
    <2> SUFFICES ASSUME NEW d \in scores PROVE n(d) <= n(c)
      OBVIOUS
    <2>1. g <= Cardinality(rows) - n(d)
      BY <1>6
    <2> QED
      BY <1>1, <1>2, <1>7, <2>1
  <1>9. best # {} /\ best \subseteq Nat
    BY <1>4, <1>7, <1>8
  <1>10. \E b \in best : \A d \in best : b <= d
    BY <1>9, Least
  <1>11. Majority(rows, y) \in best
    BY <1>3, <1>10
  <1> QED
    BY <1>11 DEF scores

-----------------------------------------------------------------------------
(* The rules are those of the leaves, each leaf's at one place.            *)
RuleOf(fit, X, y, p) == [when |-> When(fit, p, X), score |-> Majority(Rows(fit, p, X), y)]

RulesAre(rules, fit, X, y, n, s) ==
  /\ n \in Nat /\ s \in [1..n -> Leaves(fit)]
  /\ rules = [i \in 1..n |-> RuleOf(fit, X, y, s[i])]
  /\ \A p \in Leaves(fit) : OncePlaced(s, p)

(* _tree_to_rules drops no leaf and makes none twice.                      *)
THEOREM RulesOfLeaves ==
  ASSUME NEW X, Table(X), NEW fit, FitOf(fit, X), NEW y
  PROVE  \E n, s : RulesAre(TreeToRules(fit, X, y).rules, fit, X, y, n, s)
  <1> DEFINE possible == {node \in Leaves(fit) : \A a \in Attributes : Allowed(fit, node, X, a) # {}}
             Sorts(s) == \A i, j \in DOMAIN s : i < j => Before(fit, X, s[i], s[j])
             sorted == CHOOSE s \in [1..Cardinality(possible) -> possible] : Sorts(s)
             R == {b \in Leaves(fit) \X Leaves(fit) : Before(fit, X, b[1], b[2])}
             n == Cardinality(Leaves(fit))
  <1>1. possible = Leaves(fit)
    BY AllPossible
  <1>2. IsFiniteSet(Leaves(fit)) /\ n \in Nat
    BY FiniteLeaves, FS_CardinalityType
  <1>3. \A p, q \in Leaves(fit) : <<p, q>> \in R <=> Before(fit, X, p, q)
    OBVIOUS
  <1>4. TreeToRules(fit, X, y).rules =
          [i \in DOMAIN sorted |-> [when |-> When(fit, sorted[i], X),
                                    score |-> Majority(Rows(fit, sorted[i], X), y)]]
    BY DEF TreeToRules
  <1> HIDE DEF R, possible
  <1>5. Orders(R, Leaves(fit))
    BY <1>3, BeforeOrders
  <1>6. PICK t \in [1..n -> Leaves(fit)] : SortedBy(t, R)
    BY <1>2, <1>5, SortedExists
  <1>7. Sorts(t)
    BY <1>3, <1>6 DEF SortedBy
  <1>8. \E s \in [1..Cardinality(possible) -> possible] : Sorts(s)
    BY <1>1, <1>6, <1>7
  <1>9. sorted \in [1..n -> Leaves(fit)] /\ Sorts(sorted)
    <2> HIDE DEF Sorts
    <2>1. sorted \in [1..Cardinality(possible) -> possible] /\ Sorts(sorted)
      BY <1>8
    <2> QED
      BY <1>1, <2>1
  <1> HIDE DEF sorted
  <1>10. DOMAIN sorted = 1..n
    BY <1>9
  <1>11. SortedBy(sorted, R)
    BY <1>3, <1>9, <1>10 DEF SortedBy
  <1>12. \A p \in Leaves(fit) : OncePlaced(sorted, p)
    BY <1>2, <1>5, <1>9, <1>11, SortedOnto
  <1>13. TreeToRules(fit, X, y).rules = [i \in 1..n |-> RuleOf(fit, X, y, sorted[i])]
    BY <1>4, <1>10 DEF RuleOf
  <1> QED
    BY <1>2, <1>9, <1>12, <1>13 DEF RulesAre

=============================================================================
