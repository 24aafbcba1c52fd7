------------------------------ MODULE TreeTraining ------------------------------
(***************************************************************************)
(* From labels to rules, tree_train.py: the encoding of attribute values   *)
(* as integers, the fitted tree, and its conversion into a decision tree.  *)
(*                                                                         *)
(* The fit itself is sklearn's DecisionTreeClassifier.  Of it the model    *)
(* keeps what the code relies on: a split separates two neighbouring codes *)
(* of its node half-way, both sides keep MinSamplesLeaf rows, and a node   *)
(* is a leaf when its rows agree, at MaxDepth, or when no split is left.   *)
(* Which of the possible splits is the best one is left open.              *)
(*                                                                         *)
(* A node is the path that leads to it; a fitted tree is the function from *)
(* its inner nodes to their splits.                                        *)
(***************************************************************************)
EXTENDS DecisionTree

CONSTANTS
  MinRows,         \* _MIN_ROWS
  MaxDepth, MinSamplesLeaf

ASSUME FitAssumption == MinRows \in Nat /\ MaxDepth \in Nat /\ MinSamplesLeaf \in Nat \ {0}

Missing == -1

(* The texts an attribute has a code for, in the order of their codes.     *)
Coded(attr) == IF Defs[attr].type = "boolean" THEN <<"false", "true">> ELSE Defs[attr].values

Code(attr, v) ==
  LET at == {i \in DOMAIN Coded(attr) : Coded(attr)[i] = v.text}
  IN  IF v \in {Null, Empty} \/ at = {} THEN Missing
      ELSE (CHOOSE i \in at : \A j \in at : i <= j) - 1

ValueForCode(attr, c) ==
  IF c = Missing THEN Empty
  ELSE IF Defs[attr].type = "boolean" THEN Boolean(c = 1)
  ELSE Str(Defs[attr].values[c + 1])

-----------------------------------------------------------------------------
(* A row goes left when its code is at most the threshold.  A threshold    *)
(* lies half-way between two codes; `twice` is twice that, an integer.     *)
Sides == {"le", "gt"}

Goes(split, row, side) == (2 * row[split.attr] <= split.twice) <=> (side = "le")

At(fit, node, row) == \A k \in 1..Len(node) : Goes(fit[SubSeq(node, 1, k - 1)], row, node[k])

Rows(fit, node, X) == {i \in DOMAIN X : At(fit, node, X[i])}

Leaves(fit) ==
  ({<<>>} \cup {Append(node, side) : node \in DOMAIN fit, side \in Sides}) \ DOMAIN fit

(* The splits a set of rows allows.                                        *)
Splits(rows, X) ==
  UNION {LET codes == {X[i][a] : i \in rows}
         IN  {[attr |-> a, twice |-> b[1] + b[2]] :
                b \in {b \in codes \X codes :
                         /\ b[1] < b[2]
                         /\ \A c \in codes : c <= b[1] \/ b[2] <= c
                         /\ Cardinality({i \in rows : X[i][a] <= b[1]}) >= MinSamplesLeaf
                         /\ Cardinality({i \in rows : X[i][a] >= b[2]}) >= MinSamplesLeaf}} :
         a \in Attributes}

Inner == UNION {[1..n -> Sides] : n \in 0..(MaxDepth - 1)}

Fitted(X, y) ==
  LET any    == UNION {Splits(rows, X) : rows \in SUBSET DOMAIN X}
      grown  == {nodes \in SUBSET Inner :
                   \A node \in nodes : node = <<>> \/ SubSeq(node, 1, Len(node) - 1) \in nodes}
      mixed(rows) == Cardinality({y[i] : i \in rows}) > 1
  IN  {fit \in UNION {[nodes -> any] : nodes \in grown} :
         /\ \A node \in DOMAIN fit :
              /\ mixed(Rows(fit, node, X))
              /\ fit[node] \in Splits(Rows(fit, node, X), X)
         /\ \A node \in Leaves(fit) :
              \/ Len(node) = MaxDepth
              \/ ~mixed(Rows(fit, node, X))
              \/ Splits(Rows(fit, node, X), X) = {}}

-----------------------------------------------------------------------------
(* _tree_to_rules.  The codes of an attribute that a path allows, among    *)
(* those that occur in the rows; an attribute that may have any of them is *)
(* not tested.  A threshold becomes an integer cut.                        *)
CutTowardsZero(split) ==   \* fault: int(), not floor()
  IF split.twice < 0 THEN -((-split.twice) \div 2) ELSE split.twice \div 2

Cut(split) == split.twice \div 2   \* math.floor(threshold)

Universe(X, a) == {X[i][a] : i \in DOMAIN X}

Allowed(fit, node, X, a) ==
  {c \in Universe(X, a) :
     \A k \in 1..Len(node) :
       LET split == fit[SubSeq(node, 1, k - 1)]
       IN  split.attr = a => ((c <= Cut(split)) <=> (node[k] = "le"))}

(* argmax: the smallest of the most frequent scores.                       *)
Majority(rows, y) ==
  LET scores == {y[i] : i \in rows}
      n(c)   == Cardinality({i \in rows : y[i] = c})
      best   == {c \in scores : \A d \in scores : n(d) <= n(c)}
  IN  CHOOSE c \in best : \A d \in best : c <= d

When(fit, node, X) ==
  {[attr  |-> a,
    op    |-> IF Cardinality(Allowed(fit, node, X, a)) = 1 THEN "==" ELSE "in",
    value |-> {ValueForCode(a, c) : c \in Allowed(fit, node, X, a)}] :
   a \in {a \in Attributes : Allowed(fit, node, X, a) # Universe(X, a)}}

(* The larger leaf first, and of two alike the one further left.           *)
Before(fit, X, p, q) ==
  LET n(node) == Cardinality(Rows(fit, node, X))
  IN  \/ n(p) > n(q)
      \/ /\ n(p) = n(q)
         /\ \E k \in DOMAIN p \cap DOMAIN q :
              SubSeq(p, 1, k - 1) = SubSeq(q, 1, k - 1) /\ p[k] = "le" /\ q[k] = "gt"

TreeToRules(fit, X, y) ==
  LET possible == {node \in Leaves(fit) : \A a \in Attributes : Allowed(fit, node, X, a) # {}}
      sorted   == CHOOSE s \in [1..Cardinality(possible) -> possible] :
                    \A i, j \in DOMAIN s : i < j => Before(fit, X, s[i], s[j])
  IN  [rules   |-> [i \in DOMAIN sorted |->
                      [when |-> When(fit, sorted[i], X), score |-> Majority(Rows(fit, sorted[i], X), y)]],
       default |-> Majority(DOMAIN X, y)]

=============================================================================
