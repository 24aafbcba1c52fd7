------------------------------ MODULE DecisionTree ------------------------------
(***************************************************************************)
(* How a category's decision tree scores a shot: decision_tree.py, shared  *)
(* by the labelling agent, tracking.py and simulate.py.                    *)
(*                                                                         *)
(* A value is what JSON may carry: its type and its text, in the normal    *)
(* form the code compares (stripped, lower case; str(None) is "none").     *)
(* Which texts are numbers is data, given by Numeral.  The values of a     *)
(* shot are a function from the attributes the model answered to values.   *)
(*                                                                         *)
(* A tree is its rules in priority order, each a set of conditions and a   *)
(* score, and the default score.  The target of a condition is the set of  *)
(* values it lists: all of them for "in", one for the other operations.    *)
(***************************************************************************)
EXTENDS TreeOps, FiniteSets

CONSTANTS
  Attributes,  \* the attributes defined for the category
  Defs,        \* their definitions: value type, and the values from low to high
  Texts,       \* the texts a value may have
  Numeral,     \* the numbers among them
  NotANumber   \* a score that int() refuses

(* Among the texts are those the code writes itself; float() refuses "",   *)
(* "true" and "false".                                                     *)
ASSUME TextAssumption ==
  /\ {"", "true", "false", "none", "unknown"} \subseteq Texts
  /\ Numeral \in [DOMAIN Numeral -> Int] /\ DOMAIN Numeral \subseteq Texts
  /\ {"", "true", "false"} \cap DOMAIN Numeral = {}

ASSUME DefsAssumption == \A a \in Attributes : Defs[a].values \in Seq(Texts)

ScoreMin == 0
ScoreMax == 5

Value ==
  {v \in [type : {"null", "bool", "num", "str"}, text : Texts] :
     /\ v.type = "null" => v.text = "none"
     /\ v.type = "bool" => v.text \in {"true", "false"}
     /\ v.type = "num" => v.text \in DOMAIN Numeral}

Str(s)  == [type |-> "str", text |-> s]
Boolean(b) == [type |-> "bool", text |-> IF b THEN "true" ELSE "false"]
Null    == [type |-> "null", text |-> "none"]
Empty   == Str("")

ClampBelow(score) ==   \* fault: no upper bound
  IF score = NotANumber \/ score < ScoreMin THEN ScoreMin ELSE score

Clamp(score) ==
  IF score = NotANumber \/ score < ScoreMin THEN ScoreMin
  ELSE IF score > ScoreMax THEN ScoreMax ELSE score

-----------------------------------------------------------------------------
(* _as_num, _as_bool: the result is a set, empty where the code has None.  *)
AsNum(x) == IF x.type # "bool" /\ x.text \in DOMAIN Numeral THEN {Numeral[x.text]} ELSE {}

AsBool(x) ==
  CASE x.type = "bool" -> {x.text = "true"}
    [] x.type = "str"  -> {x.text \in {"true", "yes", "1"}}
    [] x.type = "num"  -> {AsNum(x) # {0}}
    [] OTHER           -> {}

(* Equality across types: a bool with whatever reads as a bool, numbers by *)
(* their value, the rest by their text.                                    *)
ValEq(a, b) ==
  IF "bool" \in {a.type, b.type} THEN AsBool(a) # {} /\ AsBool(a) = AsBool(b)
  ELSE IF AsNum(a) # {} /\ AsNum(b) # {} THEN AsNum(a) = AsNum(b)
  ELSE a.text = b.text

(* The positions of a value among the values of an ordinal attribute, the  *)
(* first one counting; attributes of other types have none.                *)
Ranks(attr, x) ==
  IF Defs[attr].type # "ordinal" THEN {}
  ELSE LET at == {i \in DOMAIN Defs[attr].values : Defs[attr].values[i] = x.text}
       IN  {i \in at : \A j \in at : i <= j}

(* Numbers where both sides are, ordinal ranks otherwise.                  *)
Compared(attr, x, y) ==
  IF AsNum(x) # {} /\ AsNum(y) # {} THEN AsNum(x) \X AsNum(y) ELSE Ranks(attr, x) \X Ranks(attr, y)

Answered(attr, values) == attr \in DOMAIN values /\ values[attr] # Null

MatchCond(cond, values) ==
  /\ Answered(cond.attr, values)
  /\ LET v == values[cond.attr]
     IN  \/ cond.op = "present"
         \/ cond.op \in {"==", "in"} /\ \E t \in cond.value : ValEq(v, t)
         \/ cond.op = ">=" /\ \E t \in cond.value : \E c \in Compared(cond.attr, v, t) : c[1] >= c[2]
         \/ cond.op = "<=" /\ \E t \in cond.value : \E c \in Compared(cond.attr, v, t) : c[1] <= c[2]

(* The rules whose every condition matches, and the first of them, which   *)
(* is the one that fires; 0 is the default.                                *)
Matching(rules, values) ==
  {i \in DOMAIN rules : \A cond \in rules[i].when : MatchCond(cond, values)}

Fired(rules, values) ==
  LET matching == Matching(rules, values)
  IN  IF matching = {} THEN 0 ELSE CHOOSE i \in matching : \A j \in matching : i <= j

ApplyDecisionTree(tree, values) ==
  LET i == Fired(tree.rules, values)
  IN  Clamp(IF i = 0 THEN tree.default ELSE tree.rules[i].score)

=============================================================================
