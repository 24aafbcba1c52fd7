-------------------------- MODULE RuleLearningProofs --------------------------
(***************************************************************************)
(* What a tree makes of a label again, for any attributes, any tree, any   *)
(* answers of the model and any changes by reviewers and trainers.         *)
(*                                                                         *)
(* Two facts carry TrackingAgrees and PreviewAgrees.  One is about values: *)
(* what a label stores of plain answers matches the same conditions as the *)
(* answers themselves (MatchAgain), although numbers were turned into      *)
(* floats and the attributes nobody answered into empty texts.  The other  *)
(* is about versions: two trees of one version are the same tree, so what  *)
(* a label cites tells whether the tree has changed since (Inv).           *)
(*                                                                         *)
(* RulesPartition rests on TreeTrainingProofs: a row ends at one leaf, and *)
(* it ends there when the path's conditions on each attribute allow its    *)
(* code.  What is added here is that the condition on a label's value      *)
(* means the same as the condition on its code (Decodes), and that the     *)
(* tree stays the one of the fit until it is changed (FitInv).             *)
(***************************************************************************)
EXTENDS RuleLearning, TreeTrainingProofs

-----------------------------------------------------------------------------
(* The answers a label may rest on.                                        *)
Heard(values) == DOMAIN values \subseteq Attributes /\ Answers(values)

(* A stored number is the number it was, and a stored answer neither null  *)
(* nor empty.                                                              *)
LEMMA StoredAnswer ==
  ASSUME NEW v \in Value, v \notin {Null, Empty}
  PROVE  /\ AttrValue(v) \in Value /\ AttrValue(v) \notin {Null, Empty}
         /\ AttrValue(v).type = v.type
         /\ AsNum(AttrValue(v)) = AsNum(v) /\ AsBool(AttrValue(v)) = AsBool(v)
  <1>1. CASE v.type = "num"
    <2>0. PICK t : t = Float[v.text] /\ v.text \in DOMAIN Numeral
      BY <1>1 DEF Value
    <2>1. /\ AttrValue(v) = [v EXCEPT !.text = t]
          /\ AttrValue(v).type = "num" /\ AttrValue(v).text = t
      BY <1>1, <2>0 DEF AttrValue, Value, Null, Str
    <2>2. /\ t \in DOMAIN Numeral /\ t \in Texts
          /\ AsNum(v) = {Numeral[v.text]} /\ AsNum(AttrValue(v)) = {Numeral[v.text]}
      BY <1>1, <2>0, <2>1, FloatAssumption, TextAssumption DEF AsNum
    <2>3. AttrValue(v) \notin {Null, Empty}
      <3>1. Null.type = "null" /\ Empty.type = "str"
        BY DEF Null, Empty, Str
      <3> QED
        BY <2>1, <3>1
    <2>4. AsBool(v) = {AsNum(v) # {0}} /\ AsBool(AttrValue(v)) = {AsNum(AttrValue(v)) # {0}}
      BY <1>1, <2>1 DEF AsBool
    <2>5. AttrValue(v) \in Value
      BY <1>1, <2>1, <2>2 DEF Value
    <2> QED
      BY <1>1, <2>1, <2>2, <2>3, <2>4, <2>5
  <1>2. CASE v.type # "num"
    BY <1>2 DEF AttrValue
  <1> QED
    BY <1>1, <1>2

(* It equals what the answer equals.                                       *)
LEMMA EqualAgain ==
  ASSUME NEW v \in Value, v \notin {Null, Empty},
         NEW t
  PROVE  ValEq(AttrValue(v), t) <=> ValEq(v, t)
  <1>1. CASE v.type = "num" /\ t.type # "bool"
    <2>1. /\ AsNum(AttrValue(v)) = AsNum(v) /\ AsNum(v) # {} /\ AttrValue(v).type = "num"
      BY <1>1, StoredAnswer DEF AsNum, Value
    <2>2. CASE AsNum(t) # {}
      BY <1>1, <2>1, <2>2 DEF ValEq
    <2>3. CASE AsNum(t) = {}
      <3>1. t.text \notin DOMAIN Numeral
        BY <1>1, <2>3 DEF AsNum
      <3>2. v.text \in DOMAIN Numeral /\ AttrValue(v).text \in DOMAIN Numeral
        BY <1>1, <2>1 DEF AsNum, Value
      <3> QED
        BY <1>1, <2>1, <2>3, <3>1, <3>2 DEF ValEq
    <2> QED
      BY <2>2, <2>3
  <1>2. CASE t.type = "bool"
    BY <1>2, StoredAnswer DEF ValEq
  <1>3. CASE v.type # "num"
    BY <1>3 DEF AttrValue
  <1> QED
    BY <1>1, <1>2, <1>3

(* It compares as the answer compares, if ordinals are words.              *)
LEMMA ComparedAgain ==
  ASSUME OrdinalsAreWords, NEW a \in Attributes, NEW v \in Value,
         v \notin {Null, Empty}, NEW t
  PROVE  Compared(a, AttrValue(v), t) = Compared(a, v, t)
  <1>1. CASE v.type # "num"
    BY <1>1 DEF AttrValue
  <1>2. CASE v.type = "num"
    <2>1. /\ AsNum(AttrValue(v)) = AsNum(v) /\ AsNum(v) # {} /\ AttrValue(v).type = "num"
      BY <1>2, StoredAnswer DEF AsNum, Value
    <2>2. v.text \in DOMAIN Numeral /\ AttrValue(v).text \in DOMAIN Numeral
      BY <1>2, <2>1 DEF AsNum
    <2>3. CASE AsNum(t) # {}
      BY <2>1, <2>3 DEF Compared
    <2>4. CASE AsNum(t) = {}
      <3>1. Defs[a].type = "ordinal" => Ranks(a, v) = {} /\ Ranks(a, AttrValue(v)) = {}
        BY <2>2 DEF Ranks, OrdinalsAreWords
      <3>2. Defs[a].type # "ordinal" => Ranks(a, v) = {} /\ Ranks(a, AttrValue(v)) = {}
        BY DEF Ranks
      <3> QED
        BY <3>1, <3>2, <2>1, <2>4 DEF Compared
    <2> QED
      BY <2>3, <2>4
  <1> QED
    BY <1>1, <1>2

(* So the same conditions match what is stored of plain answers.           *)
LEMMA MatchAgain ==
  ASSUME OrdinalsAreWords, NEW values, Heard(values), values = [a \in DOMAIN values |-> values[a]],
         \A a \in DOMAIN values : values[a] \notin {Null, Empty},
         NEW l, l.ev = Evidence(values), NEW cond
  PROVE  MatchCond(cond, StoredValues(l)) <=> MatchCond(cond, values)
  <1> DEFINE a == cond.attr
             v == values[a]
             w == StoredValues(l)[a]
  <1>1. CASE a \in DOMAIN values
    <2>1. v \in Value /\ v \notin {Null, Empty} /\ a \in Attributes
      BY <1>1 DEF Heard, Answers
    <2>2. AttrValue(v) \notin {Null, Empty}
      BY <2>1, StoredAnswer
    <2>3. a \in DOMAIN StoredValues(l) /\ w = AttrValue(v)
      BY <1>1, <2>1, <2>2 DEF StoredValues, Evidence
    <2>4. \A t : ValEq(w, t) <=> ValEq(v, t)
      BY <2>1, <2>3, EqualAgain
    <2>5. \A t : Compared(a, w, t) = Compared(a, v, t)
      BY <2>1, <2>3, ComparedAgain
    <2>6. Answered(a, StoredValues(l)) /\ Answered(a, values)
      BY <1>1, <2>1, <2>2, <2>3 DEF Answered
    <2> HIDE DEF w, v
    <2> QED
      BY <2>4, <2>5, <2>6 DEF MatchCond, w, v
  <1>2. CASE a \notin DOMAIN values
    <2>1. a \notin DOMAIN StoredValues(l)
      BY <1>2 DEF StoredValues, Evidence
    <2> QED
      BY <1>2, <2>1 DEF MatchCond, Answered
  <1> QED
    BY <1>1, <1>2

(* The same rule fires, and gives the same score.                          *)
LEMMA ScoreAgain ==
  ASSUME OrdinalsAreWords, NEW values, Heard(values), values = [a \in DOMAIN values |-> values[a]],
         \A a \in DOMAIN values : values[a] \notin {Null, Empty},
         NEW l, l.ev = Evidence(values), NEW t
  PROVE  /\ Fired(t.rules, StoredValues(l)) = Fired(t.rules, values)
         /\ ApplyDecisionTree(t, StoredValues(l)) = ApplyDecisionTree(t, values)
  <1>1. \A cond : MatchCond(cond, StoredValues(l)) <=> MatchCond(cond, values)
    BY MatchAgain
  <1>2. Matching(t.rules, StoredValues(l)) = Matching(t.rules, values)
    BY <1>1 DEF Matching
  <1>3. Fired(t.rules, StoredValues(l)) = Fired(t.rules, values)
    BY <1>2 DEF Fired
  <1> QED
    BY <1>3 DEF ApplyDecisionTree

-----------------------------------------------------------------------------
(* Where the labeller stands.  A tree it took along is of a version that   *)
(* has been, and if that is the present one it is the present tree.        *)
Known(t) == t.version \in 1..tree.version /\ (t.version = tree.version => t = tree)

AskTypes ==
  ask \in [pc : {"select", "request", "store"}, path : {"boot", "free", "rules"},
           tree : {ask.tree}, names : SUBSET Attributes, again : BOOLEAN, more : BOOLEAN,
           reply : Replies \cup {Nothing}]

Asking ==
  /\ AskTypes
  /\ ask.path = "rules" => Known(ask.tree)

(* A label that cites the present version has been scored by the present   *)
(* tree.                                                                   *)
ScoredBy(l) ==
  /\ l.cites \in 1..tree.version
  /\ l.cites = tree.version =>
       l.fired = Fired(tree.rules, l.said) /\ l.score = ApplyDecisionTree(tree, l.said)
  /\ Heard(l.said) /\ l.said = [a \in DOMAIN l.said |-> l.said[a]]
  /\ l.ev = Evidence(l.said)

Inv ==
  /\ \E S : labels \in Seq(S)
  /\ tree.version \in Nat /\ (tree # NoTree => tree.version > 0)
  /\ ask # Idle => Asking
  /\ \A k \in DOMAIN labels : labels[k].path = "rules" => ScoredBy(labels[k])

(* At the start no label was scored by a tree.                             *)
LEMMA InitInv == Init => Inv
  <1> SUFFICES ASSUME Init PROVE Inv
    OBVIOUS
  <1>1. tree = NoTree /\ tree.version = 0 /\ ask = Idle
    BY DEF Init, NoTree
  <1>2. labels \in FirstLabels
    BY DEF Init
  <1>3. labels \in Seq(UNION {ToSet(s) : s \in FirstLabels})
    BY <1>2, FirstLabelsAssumption
  <1>4. \A k \in DOMAIN labels : labels[k].path # "rules"
    BY <1>2, FirstLabelsAssumption
  <1>5. \E S : labels \in Seq(S)
    BY <1>3
  <1> QED
    BY <1>1, <1>4, <1>5 DEF Inv

(* A new tree has a version that no label cites.                           *)
LEMMA NewTree ==
  ASSUME Inv, tree'.version = tree.version + 1, labels' = labels, ask' = ask
  PROVE  Inv'
  <1>1. tree.version \in Nat /\ tree'.version \in Nat /\ tree'.version > tree.version
    BY DEF Inv
  <1>2. ASSUME ask # Idle PROVE Asking'
    BY <1>1, <1>2 DEF Inv, Asking, AskTypes, Known
  <1>3. ASSUME NEW k \in DOMAIN labels, labels[k].path = "rules" PROVE ScoredBy(labels[k])'
    BY <1>1, <1>3 DEF Inv, ScoredBy
  <1> QED
    BY <1>1, <1>2, <1>3 DEF Inv

(* Training and approval make such a tree.                                 *)
LEMMA TreeChanges ==
  ASSUME Inv, Train \/ \E op \in Changes : Approve(op)
  PROVE  Inv'
  <1>1. tree'.version = tree.version + 1 /\ labels' = labels /\ ask' = ask
    <2>1. CASE Train
      BY <2>1 DEF Train, Saved
    <2>2. ASSUME NEW op \in Changes, Approve(op) PROVE tree' = Saved(ApplyTreeOp(tree.rules, op), tree.default) /\ labels' = labels /\ ask' = ask
      BY <2>2 DEF Approve
    <2> QED
      BY <2>1, <2>2 DEF Saved
  <1> QED
    BY <1>1, NewTree

(* While the labeller asks, labels and tree stay.                          *)
LEMMA AskMoves ==
  ASSUME Inv, labels' = labels, tree' = tree, ask' # Idle => Asking'
  PROVE  Inv'
  BY DEF Inv, ScoredBy

(* The labeller takes the present tree along.                              *)
LEMMA BeginKeeps ==
  ASSUME Inv, NEW boot \in BOOLEAN, Begin(boot)
  PROVE  Inv'
  <1>1. labels' = labels /\ tree' = tree
    BY DEF Begin
  <1>2. /\ ask' = [pc    |-> IF ~boot /\ tree # NoTree THEN "select" ELSE "request",
                   path  |-> IF boot THEN "boot" ELSE IF tree = NoTree THEN "free" ELSE "rules",
                   tree  |-> tree,
                   names |-> IF boot THEN Attributes ELSE {},
                   again |-> FALSE, more |-> FALSE,
                   reply |-> Nothing]
    BY DEF Begin
  <1>3. AskTypes'
    BY <1>2 DEF AskTypes
  <1>4. ask'.tree = tree /\ (ask'.path = "rules" => tree # NoTree)
    BY <1>2
  <1>5. ask'.path = "rules" => Known(ask.tree)'
    BY <1>1, <1>4 DEF Inv, Known
  <1> QED
    BY <1>1, <1>3, <1>4, <1>5, AskMoves DEF Asking

(* A selection names attributes.                                           *)
LEMMA SelectKeeps ==
  ASSUME Inv, NEW names \in SUBSET Attributes, Select(names)
  PROVE  Inv'
  <1>1. /\ labels' = labels /\ tree' = tree /\ Asking /\ ask.pc = "select"
        /\ ask' = [ask EXCEPT !.names = names, !.pc = IF names = {} THEN "store" ELSE "request"]
    BY DEF Select, Inv, Idle
  <1>2. AskTypes' /\ ask'.tree = ask.tree /\ ask'.path = ask.path
    BY <1>1 DEF Asking, AskTypes
  <1>3. Asking'
    BY <1>1, <1>2 DEF Asking, Known
  <1> QED
    BY <1>1, <1>3, AskMoves

(* An answer becomes the labeller's, and one that is none leaves the last. *)
LEMMA RequestKeeps ==
  ASSUME Inv, NEW r \in Response, Request(r)
  PROVE  Inv'
  <1>1. /\ labels' = labels /\ tree' = tree /\ Asking /\ ask.pc = "request"
        /\ r.reply \in Replies \cup {Nothing}
    BY DEF Request, Inv, Idle, Response
  <1>2. CASE AsksAgain(ask, r)
    <2>1. ask' = [ask EXCEPT !.again = TRUE]
      BY <1>2 DEF Request
    <2>2. AskTypes' /\ ask'.tree = ask.tree /\ ask'.path = ask.path
      BY <1>1, <2>1 DEF Asking, AskTypes
    <2>3. Asking'
      BY <1>1, <2>2 DEF Asking, Known
    <2> QED
      BY <1>1, <2>3, AskMoves
  <1>3. CASE ~AsksAgain(ask, r)
    <2> DEFINE more == ask.more \/ WantsFrames(ask, r.reply)
               pc == IF WantsFrames(ask, r.reply) THEN "request" ELSE "store"
    <2>1. ask' = [ask EXCEPT !.again = FALSE, !.reply = Kept(ask, r.reply),
                             !.more = more, !.pc = pc]
      BY <1>3 DEF Request
    <2>2. more \in BOOLEAN
      OBVIOUS
    <2>3. pc \in {"request", "store"}
      OBVIOUS
    <2>4. Kept(ask, r.reply) \in Replies \cup {Nothing}
      BY <1>1 DEF Kept, Asking, AskTypes
    <2> HIDE DEF more, pc
    <2>5. AskTypes' /\ ask'.tree = ask.tree /\ ask'.path = ask.path
      BY <1>1, <2>1, <2>2, <2>3, <2>4 DEF Asking, AskTypes
    <2>6. Asking'
      BY <1>1, <2>4, <2>5 DEF Asking, Known
    <2> QED
      BY <1>1, <2>6, AskMoves
  <1> QED
    BY <1>2, <1>3

(* What was extracted is an answer about attributes.                       *)
LEMMA ExtractedHeard ==
  ASSUME Asking
  PROVE  /\ Heard(Extracted(ask))
         /\ Extracted(ask) = [a \in DOMAIN Extracted(ask) |-> Extracted(ask)[a]]
  <1>1. ask.names \subseteq Attributes /\ ask.reply \in Replies \cup {Nothing}
    BY DEF Asking, AskTypes
  <1>2. CASE ask.reply = Nothing
    <2>1. DOMAIN Extracted(ask) = {}
      BY <1>2 DEF Extracted
    <2> QED
      BY <2>1 DEF Heard, Answers, Extracted
  <1>3. CASE ask.reply # Nothing
    <2>1. Extracted(ask) = [a \in DOMAIN ask.reply.attrs \cap ask.names |-> ask.reply.attrs[a]]
      BY <1>3 DEF Extracted
    <2>2. Answers(ask.reply.attrs)
      BY <1>1, <1>3, RepliesAssumption
    <2> QED
      BY <1>1, <2>1, <2>2 DEF Heard, Answers
  <1> QED
    BY <1>2, <1>3

(* A label that is stored changes nothing for the others.                  *)
LEMMA StoredKeeps ==
  ASSUME Inv, NEW l, Stored(l), l.path = "rules" => ScoredBy(l)
  PROVE  Inv'
  <1>1. labels' = Append(labels, l) /\ ask' = Idle /\ tree' = tree
    BY DEF Stored
  <1>2. PICK S : labels \in Seq(S)
    BY DEF Inv
  <1>3. labels \in Seq(S \cup {l})
    BY <1>2, SeqMonotonic
  <1>4. /\ labels' \in Seq(S \cup {l})
        /\ \A k \in DOMAIN labels' : (k \in DOMAIN labels /\ labels'[k] = labels[k]) \/ labels'[k] = l
    BY <1>1, <1>3
  <1>5. \A k \in DOMAIN labels' : labels'[k].path = "rules" => ScoredBy(labels'[k])
    BY <1>4 DEF Inv
  <1>6. \A k \in DOMAIN labels' : labels'[k].path = "rules" => ScoredBy(labels[k])'
    BY <1>1, <1>5 DEF ScoredBy
  <1> QED
    BY <1>1, <1>4, <1>6 DEF Inv

(* The tree that scored it is the one it cites; the other ways of storing  *)
(* make no label of that kind.                                             *)
LEMMA StoreKeeps ==
  ASSUME Inv, StoreDecided \/ StoreBootstrap \/ StoreHolistic
  PROVE  Inv'
  <1> DEFINE values == Extracted(ask)
  <1>1. Asking
    BY DEF Inv, StoreDecided, StoreBootstrap, StoreHolistic, Idle
  <1>2. CASE StoreDecided
    <2> DEFINE l == Label(Evidence(values), ApplyDecisionTree(ask.tree, values),
                          ask.tree.version, Fired(ask.tree.rules, values))
    <2>1. Stored(l) /\ ask.path = "rules"
      BY <1>2 DEF StoreDecided
    <2>2. /\ l.path = "rules" /\ l.ev = Evidence(values) /\ l.said = values
          /\ l.score = ApplyDecisionTree(ask.tree, values) /\ l.cites = ask.tree.version
          /\ l.fired = Fired(ask.tree.rules, values)
      BY <2>1 DEF Label
    <2>3. Known(ask.tree)
      BY <1>1, <2>1 DEF Asking
    <2> HIDE DEF l
    <2>4. ScoredBy(l)
      BY <1>1, <2>2, <2>3, ExtractedHeard DEF ScoredBy, Known
    <2> QED
      BY <2>1, <2>4, StoredKeeps
  <1>3. CASE StoreBootstrap
    <2>1. PICK score : Stored(Label(Evidence(values), score, 0, 0)) /\ ask.path = "boot"
      BY <1>3 DEF StoreBootstrap
    <2>2. Label(Evidence(values), score, 0, 0).path # "rules"
      BY <2>1 DEF Label
    <2> QED
      BY <2>1, <2>2, StoredKeeps
  <1>4. CASE StoreHolistic /\ ask.reply = Nothing
    <2>1. ask' = Idle /\ labels' = labels /\ tree' = tree
      BY <1>4 DEF StoreHolistic
    <2> QED
      BY <2>1, AskMoves
  <1>5. CASE StoreHolistic /\ ask.reply # Nothing
    <2>1. PICK score : Stored(Label(NoEvidence, score, 0, 0)) /\ ask.path = "free"
      BY <1>5 DEF StoreHolistic
    <2>2. Label(NoEvidence, score, 0, 0).path # "rules"
      BY <2>1 DEF Label
    <2> QED
      BY <2>1, <2>2, StoredKeeps
  <1> QED
    BY <1>2, <1>3, <1>4, <1>5

-----------------------------------------------------------------------------
(* Inv is inductive: one step per action.                                  *)
LEMMA NextInv == Inv /\ [Next]_vars => Inv'
  <1> SUFFICES ASSUME Inv, [Next]_vars PROVE Inv'
    OBVIOUS
  <1>1. ASSUME NEW boot \in BOOLEAN, Begin(boot) PROVE Inv'
    BY <1>1, BeginKeeps
  <1>2. ASSUME NEW names \in SUBSET Attributes, Select(names) PROVE Inv'
    BY <1>2, SelectKeeps
  <1>3. ASSUME NEW r \in Response, Request(r) PROVE Inv'
    BY <1>3, RequestKeeps
  <1>4. CASE StoreDecided \/ StoreBootstrap \/ StoreHolistic
    BY <1>4, StoreKeeps
  <1>5. CASE Train \/ \E op \in Changes : Approve(op)
    BY <1>5, TreeChanges
  <1>6. CASE UNCHANGED vars
    <2>1. labels' = labels /\ tree' = tree /\ ask' = ask
      BY <1>6 DEF vars
    <2>2. ask' # Idle => Asking'
      BY <2>1 DEF Inv, Asking, AskTypes, Known
    <2> QED
      BY <2>1, <2>2, AskMoves
  <1> QED
    BY <1>1, <1>2, <1>3, <1>4, <1>5, <1>6 DEF Next, Labeller

(* The inductive invariant of JUDGE, train_decision_tree and               *)
(* _materialise_decision_rule over one tree.                               *)
THEOREM Holds == Spec => []Inv
  BY InitInv, NextInv, PTL DEF Spec

(* segments_for_rule finds the rule that scored a label again.             *)
THEOREM TrackingHolds == Spec => []TrackingAgrees
  <1>1. Inv => TrackingAgrees
    <2> SUFFICES ASSUME Inv, OrdinalsAreWords, NEW k \in DOMAIN labels, labels[k].path = "rules",
                        labels[k].cites = tree.version, Plain(labels[k])
                 PROVE  k \in SegmentsForRule(labels[k].fired)
      BY DEF TrackingAgrees
    <2> DEFINE l == labels[k]
    <2>1. ScoredBy(l)
      BY DEF Inv
    <2>2. \A a \in DOMAIN l.said : l.said[a] \notin {Null, Empty}
      BY DEF Plain
    <2> HIDE DEF l
    <2>3. Fired(tree.rules, StoredValues(l)) = Fired(tree.rules, l.said)
      BY <2>1, <2>2, ScoreAgain DEF ScoredBy
    <2>4. l.fired = Fired(tree.rules, l.said)
      BY <2>1 DEF ScoredBy, l
    <2> QED
      BY <2>3, <2>4 DEF SegmentsForRule, l
  <1> QED
    BY <1>1, Holds, PTL

(* simulate_rule_change foretells the scores.                              *)
THEOREM PreviewHolds == Spec => []PreviewAgrees
  <1>1. Inv => PreviewAgrees
    <2> SUFFICES ASSUME Inv, OrdinalsAreWords, NEW op \in Changes, NEW k \in DOMAIN labels,
                        labels[k].path = "rules", Plain(labels[k])
                 PROVE  /\ SimulateRuleChange(op).after[k] = ApplyDecisionTree(Changed(op), labels[k].said)
                        /\ labels[k].cites = tree.version =>
                             SimulateRuleChange(op).before[k] = labels[k].score
      BY DEF PreviewAgrees
    <2> DEFINE l == labels[k]
    <2>1. ScoredBy(l)
      BY DEF Inv
    <2>2. \A a \in DOMAIN l.said : l.said[a] \notin {Null, Empty}
      BY DEF Plain
    <2>3. /\ SimulateRuleChange(op).after[k] = ApplyDecisionTree(Changed(op), StoredValues(l))
          /\ SimulateRuleChange(op).before[k] = ApplyDecisionTree(tree, StoredValues(l))
      BY DEF SimulateRuleChange
    <2> HIDE DEF l
    <2>4. \A t : ApplyDecisionTree(t, StoredValues(l)) = ApplyDecisionTree(t, l.said)
      BY <2>1, <2>2, ScoreAgain DEF ScoredBy
    <2>5. l.cites = tree.version => l.score = ApplyDecisionTree(tree, l.said)
      BY <2>1 DEF ScoredBy
    <2> QED
      BY <2>3, <2>4, <2>5 DEF l
  <1> QED
    BY <1>1, Holds, PTL

-----------------------------------------------------------------------------
(* The code of a value, and what it is decoded to.                         *)
LEMMA CodeIs ==
  ASSUME NEW a \in Attributes, NEW v
  PROVE  /\ Code(a, v) \in Int
         /\ Code(a, v) # Missing =>
              /\ v \notin {Null, Empty} /\ Code(a, v) \in Nat /\ Code(a, v) + 1 \in DOMAIN Coded(a)
              /\ Coded(a)[Code(a, v) + 1] = v.text
              /\ \A j \in DOMAIN Coded(a) : Coded(a)[j] = v.text => Code(a, v) + 1 <= j
  <1> DEFINE at == {i \in DOMAIN Coded(a) : Coded(a)[i] = v.text}
             least == CHOOSE i \in at : \A j \in at : i <= j
  <1>1. DOMAIN Coded(a) \subseteq Nat \ {0}
    <2>1. CASE Defs[a].type = "boolean"
      BY <2>1 DEF Coded
    <2>2. CASE Defs[a].type # "boolean"
      <3>1. Coded(a) = Defs[a].values
        BY <2>2 DEF Coded
      <3>2. Defs[a].values \in Seq(Texts)
        BY DefsAssumption
      <3>3. DOMAIN Defs[a].values = 1..Len(Defs[a].values) /\ Len(Defs[a].values) \in Nat
        BY <3>2, LenProperties
      <3> QED
        BY <3>1, <3>3
    <2> QED
      BY <2>1, <2>2
  <1>2. CASE v \in {Null, Empty} \/ at = {}
    BY <1>2 DEF Code, Missing
  <1>3. CASE v \notin {Null, Empty} /\ at # {}
    <2>1. Code(a, v) = least - 1
      BY <1>3 DEF Code
    <2>2. at \subseteq Nat
      BY <1>1
    <2>3. \E i \in at : \A j \in at : i <= j
      BY <1>3, <2>2, Least
    <2>4. least \in at /\ \A j \in at : least <= j
      BY <2>3
    <2>5. PICK n \in Nat \ {0} : n = least
      BY <1>1, <2>4
    <2>6. n - 1 \in Nat /\ n - 1 + 1 = n
      OBVIOUS
    <2> QED
      BY <1>3, <2>1, <2>4, <2>5, <2>6
  <1> QED
    BY <1>2, <1>3

(* What a code is decoded to is a value.                                   *)
LEMMA DecodedValue ==
  ASSUME NEW a \in Attributes, NEW v
  PROVE  ValueForCode(a, Code(a, v)) \in Value
  <1>1. \A s \in Texts : Str(s) \in Value
    BY DEF Value, Str
  <1>2. CASE Code(a, v) = Missing
    BY <1>1, <1>2, TextAssumption DEF ValueForCode, Empty
  <1>3. CASE Code(a, v) # Missing /\ Defs[a].type = "boolean"
    <2>1. \A b \in BOOLEAN : Boolean(b) \in Value
      BY TextAssumption DEF Boolean, Value
    <2> QED
      BY <1>3, <2>1 DEF ValueForCode
  <1>4. CASE Code(a, v) # Missing /\ Defs[a].type # "boolean"
    <2>1. PICK n : n = Code(a, v) + 1
      OBVIOUS
    <2>2. n \in DOMAIN Defs[a].values
      BY <1>4, <2>1, CodeIs DEF Coded
    <2>3. Defs[a].values[n] \in Texts
      BY <2>2, DefsAssumption, ElementOfSeq, LenProperties
    <2> QED
      BY <1>1, <1>4, <2>1, <2>3 DEF ValueForCode
  <1> QED
    BY <1>2, <1>3, <1>4

(* A stored value equals what its code is decoded to, and the decoding of  *)
(* no other code.                                                          *)
LEMMA Decodes ==
  ASSUME ValuesAreWords, NEW a \in Attributes, NEW v \in Value \ {Null}, Code(a, v) # Missing,
         NEW w, Defs[a].type = "boolean" => Code(a, w) # Missing
  PROVE  ValEq(v, ValueForCode(a, Code(a, w))) <=> Code(a, v) = Code(a, w)
  <1> DEFINE c == Code(a, v)
             d == Code(a, w)
  <1>1. /\ v \notin {Null, Empty} /\ c \in Nat /\ c + 1 \in DOMAIN Coded(a)
        /\ Coded(a)[c + 1] = v.text
        /\ \A j \in DOMAIN Coded(a) : Coded(a)[j] = v.text => c + 1 <= j
    BY CodeIs
  <1>2. d # Missing =>
          /\ d \in Nat /\ d + 1 \in DOMAIN Coded(a) /\ Coded(a)[d + 1] = w.text
          /\ \A j \in DOMAIN Coded(a) : Coded(a)[j] = w.text => d + 1 <= j
    BY CodeIs
  <1>3. PICK n \in Nat : n = c + 1
    BY <1>1
  <1>4. CASE Defs[a].type = "boolean"
    <2>1. Coded(a) = <<"false", "true">>
      BY <1>4 DEF Coded
    <2>2. d # Missing /\ d \in {0, 1} /\ c \in {0, 1}
      BY <1>1, <1>2, <1>4, <2>1
    <2>3. v.text = IF c = 1 THEN "true" ELSE "false"
      BY <1>1, <2>1, <2>2
    <2>4. v.type \in {"bool", "str"}
      BY <2>3, TextAssumption DEF Value
    <2>5. AsBool(v) = {c = 1}
      BY <2>3, <2>4 DEF AsBool
    <2>6. ValueForCode(a, d) = Boolean(d = 1)
      BY <1>4, <2>2 DEF ValueForCode
    <2>7. Boolean(d = 1).type = "bool" /\ AsBool(Boolean(d = 1)) = {d = 1}
      BY DEF Boolean, AsBool
    <2>8. ValEq(v, Boolean(d = 1)) <=> {c = 1} = {d = 1}
      BY <2>5, <2>7 DEF ValEq
    <2>9. {c = 1} = {d = 1} <=> c = d
      <3>1. {c = 1} = {d = 1} <=> (c = 1 <=> d = 1)
        OBVIOUS
      <3> QED
        BY <2>2, <3>1
    <2> QED
      BY <2>6, <2>8, <2>9
  <1>5. CASE Defs[a].type # "boolean"
    <2>1. Coded(a) = Defs[a].values
      BY <1>5 DEF Coded
    <2>2. v.text \notin DOMAIN Numeral \cup {"true", "false"}
      BY <1>1, <1>5, <2>1 DEF ValuesAreWords
    <2>3. v.type \in {"null", "str"}
      BY <2>2 DEF Value
    <2>4. v.type = "str"
      BY <2>3 DEF Value, Null
    <2>5. AsNum(v) = {}
      BY <2>2 DEF AsNum
    <2>6. \A t : ValEq(v, Str(t)) <=> v.text = t
      BY <2>4, <2>5 DEF ValEq, Str
    <2>7. CASE d = Missing
      <3>1. v.text # ""
        BY <1>1, <2>4 DEF Value, Empty, Str
      <3>2. c # d
        BY <1>1, <2>7 DEF Missing
      <3> QED
        BY <2>6, <2>7, <3>1, <3>2 DEF ValueForCode, Empty
    <2>8. CASE d # Missing
      <3>1. ValueForCode(a, d) = Str(Defs[a].values[d + 1])
        BY <1>5, <2>8 DEF ValueForCode
      <3>2. Defs[a].values[d + 1] = w.text
        BY <1>2, <2>1, <2>8
      <3>3. v.text = w.text => c = d
        <4> SUFFICES ASSUME v.text = w.text PROVE c = d
          OBVIOUS
        <4>1. d \in Nat /\ d + 1 \in DOMAIN Coded(a) /\ Coded(a)[d + 1] = v.text
              /\ (\A j \in DOMAIN Coded(a) : Coded(a)[j] = v.text => d + 1 <= j)
          BY <1>2, <2>8
        <4>2. c + 1 <= d + 1 /\ d + 1 <= c + 1
          BY <1>1, <4>1
        <4> HIDE DEF c, d
        <4> QED
          BY <1>1, <4>1, <4>2
      <3>4. c = d => v.text = w.text
        BY <1>1, <2>1, <3>2
      <3> HIDE DEF c, d
      <3>5. ValEq(v, ValueForCode(a, d)) <=> c = d
        BY <2>6, <3>1, <3>2, <3>3, <3>4
      <3> QED
        BY <3>5 DEF c, d
    <2> QED
      BY <2>7, <2>8
  <1> QED
    BY <1>4, <1>5

-----------------------------------------------------------------------------
(* What training works on: rows of the codes of stored labels.             *)
Stores(l) ==
  /\ l.score \in ScoreMin..ScoreMax
  /\ DOMAIN l.ev \in {{}, Attributes}
  /\ \A a \in DOMAIN l.ev : l.ev[a] \in Value \ {Null}

Trained(used, X, y) ==
  /\ IsFiniteSet(DOMAIN used) /\ DOMAIN used # {} /\ DOMAIN X = DOMAIN used
  /\ \A i \in DOMAIN used :
       /\ Stores(used[i]) /\ DOMAIN used[i].ev = Attributes
       /\ X[i] = Encoded(used[i]) /\ y[i] \in ScoreMin..ScoreMax

(* Encoded labels are a table of integers.                                 *)
LEMMA TrainedTable ==
  ASSUME NEW used, NEW X, NEW y, Trained(used, X, y)
  PROVE  /\ Table(X)
         /\ \A i \in DOMAIN X, a \in Attributes : X[i][a] = Code(a, used[i].ev[a])
  <1>1. \A i \in DOMAIN X, a \in Attributes : X[i][a] = Code(a, used[i].ev[a])
    BY DEF Trained, Encoded
  <1>2. \A i \in DOMAIN X, a \in Attributes : X[i][a] \in Int
    BY <1>1, CodeIs
  <1> QED
    BY <1>1, <1>2 DEF Table, Trained

(* The conditions of a leaf match a label with a value of every attribute  *)
(* exactly when its row ends there.                                        *)
LEMMA LeafMatches ==
  ASSUME ValuesAreWords, NEW used, NEW X, NEW y, Trained(used, X, y), NEW f, FitOf(f, X),
         \A a \in Attributes : Defs[a].type = "boolean" => Missing \notin Universe(X, a),
         NEW i \in DOMAIN used, \A a \in Attributes : X[i][a] # Missing,
         NEW p \in Leaves(f)
  PROVE  (\A cond \in When(f, p, X) : MatchCond(cond, StoredValues(used[i]))) <=> At(f, p, X[i])
  <1> DEFINE values == StoredValues(used[i])
             Cond(a) == [attr  |-> a,
                         op    |-> IF Cardinality(Allowed(f, p, X, a)) = 1 THEN "==" ELSE "in",
                         value |-> {ValueForCode(a, c) : c \in Allowed(f, p, X, a)}]
  <1>1. Table(X) /\ i \in DOMAIN X /\ \A j \in DOMAIN X, a \in Attributes : X[j][a] = Code(a, used[j].ev[a])
    <2>1. i \in DOMAIN X
      BY DEF Trained
    <2> QED
      BY <2>1, TrainedTable
  <1>2. \A a \in Attributes : X[i][a] \in Universe(X, a)
    BY <1>1 DEF Universe
  <1>3. ASSUME NEW a \in Attributes
        PROVE  MatchCond(Cond(a), values) <=> X[i][a] \in Allowed(f, p, X, a)
    <2>1. PICK v : v = used[i].ev[a]
      OBVIOUS
    <2>2. v \in Value \ {Null} /\ a \in DOMAIN used[i].ev
      BY <2>1 DEF Trained, Stores
    <2>3. X[i][a] = Code(a, v) /\ Code(a, v) # Missing
      BY <1>1, <2>1
    <2>4. v # Empty
      BY <2>3, CodeIs
    <2>5. a \in DOMAIN values /\ values[a] = v
      BY <2>1, <2>2, <2>4 DEF StoredValues
    <2>6. Answered(a, values)
      BY <2>2, <2>5 DEF Answered
    <2>7. ASSUME NEW d \in Allowed(f, p, X, a) PROVE ValEq(v, ValueForCode(a, d)) <=> X[i][a] = d
      <3>1. d \in Universe(X, a)
        BY DEF Allowed
      <3>2. PICK j \in DOMAIN X : d = X[j][a]
        BY <3>1 DEF Universe
      <3>3. d = Code(a, used[j].ev[a])
        BY <1>1, <3>2
      <3>4. Defs[a].type = "boolean" => d # Missing
        BY <3>1
      <3> QED
        BY <2>2, <2>3, <3>3, <3>4, Decodes
    <2>8. /\ Cond(a).attr = a /\ Cond(a).op \in {"==", "in"}
          /\ Cond(a).value = {ValueForCode(a, c) : c \in Allowed(f, p, X, a)}
      OBVIOUS
    <2> HIDE DEF values, Cond
    <2>9. MatchCond(Cond(a), values) <=> \E t \in Cond(a).value : ValEq(v, t)
      BY <2>5, <2>6, <2>8 DEF MatchCond
    <2> QED
      BY <2>7, <2>8, <2>9
  <1>4. When(f, p, X) = {Cond(a) : a \in {a \in Attributes : Allowed(f, p, X, a) # Universe(X, a)}}
    BY DEF When
  <1> HIDE DEF values, Cond
  <1>5. (\A cond \in When(f, p, X) : MatchCond(cond, values))
          <=> \A a \in Attributes : X[i][a] \in Allowed(f, p, X, a)
    BY <1>2, <1>3, <1>4
  <1> QED
    BY <1>1, <1>5, AllowedAtLeaf DEF values

(* So of the learned rules exactly one matches, that of the row's leaf.    *)
LEMMA OneRuleMatches ==
  ASSUME ValuesAreWords, NEW used, NEW X, NEW y, Trained(used, X, y), NEW f, FitOf(f, X),
         \A a \in Attributes : Defs[a].type = "boolean" => Missing \notin Universe(X, a),
         NEW i \in DOMAIN used, \A a \in Attributes : X[i][a] # Missing,
         NEW rules, rules = TreeToRules(f, X, y).rules
  PROVE  \E r \in DOMAIN rules, p \in Leaves(f) :
           /\ Matching(rules, StoredValues(used[i])) = {r}
           /\ At(f, p, X[i]) /\ rules[r].score = Majority(Rows(f, p, X), y)
  <1>1. Table(X) /\ i \in DOMAIN X
    BY TrainedTable DEF Trained
  <1>2. PICK n, s : RulesAre(rules, f, X, y, n, s)
    BY <1>1, RulesOfLeaves
  <1>3. /\ n \in Nat /\ s \in [1..n -> Leaves(f)]
        /\ rules = [j \in 1..n |-> RuleOf(f, X, y, s[j])]
        /\ \A p \in Leaves(f) : OncePlaced(s, p)
    BY <1>2 DEF RulesAre
  <1>4. PICK p \in Leaves(f) : At(f, p, X[i])
    BY <1>1, SomeLeaf
  <1>5. PICK r \in 1..n : s[r] = p /\ \A j \in 1..n : s[j] = p => j = r
    BY <1>3 DEF OncePlaced
  <1>6. ASSUME NEW j \in 1..n
        PROVE  (\A cond \in rules[j].when : MatchCond(cond, StoredValues(used[i]))) <=> j = r
    <2>1. PICK q \in Leaves(f) : q = s[j]
      BY <1>3
    <2>2. rules[j].when = When(f, q, X)
      BY <1>3, <2>1 DEF RuleOf
    <2>3. (\A cond \in When(f, q, X) : MatchCond(cond, StoredValues(used[i]))) <=> At(f, q, X[i])
      BY LeafMatches
    <2>4. At(f, q, X[i]) <=> q = p
      BY <1>4, UniqueLeaf DEF FitOf
    <2> QED
      BY <1>5, <2>1, <2>2, <2>3, <2>4
  <1>7. DOMAIN rules = 1..n
    BY <1>3
  <1>8. Matching(rules, StoredValues(used[i])) = {r}
    BY <1>5, <1>6, <1>7 DEF Matching
  <1>9. rules[r].score = Majority(Rows(f, p, X), y)
    BY <1>3, <1>5 DEF RuleOf
  <1> QED
    BY <1>4, <1>7, <1>8, <1>9

(* What is learned is a tree.                                              *)
LEMMA LearnedIs ==
  ASSUME NEW used, NEW X, NEW y, Trained(used, X, y), NEW f, FitOf(f, X)
  PROVE  /\ \E S : (\A r \in S : IsRule(r)) /\ TreeToRules(f, X, y).rules \in Seq(S)
         /\ TreeToRules(f, X, y).default \in ScoreMin..ScoreMax
  <1>1. /\ Table(X) /\ DOMAIN X = DOMAIN used /\ IsFiniteSet(DOMAIN X) /\ DOMAIN X # {}
        /\ \A i \in DOMAIN X : y[i] \in ScoreMin..ScoreMax
    BY TrainedTable DEF Trained
  <1>2. \A i \in DOMAIN X : y[i] \in Nat
    BY <1>1 DEF ScoreMin, ScoreMax
  <1>3. TreeToRules(f, X, y).default \in ScoreMin..ScoreMax
    <2>1. TreeToRules(f, X, y).default = Majority(DOMAIN X, y)
      BY DEF TreeToRules
    <2> QED
      BY <1>1, <1>2, <2>1, MajorityIs
  <1>4. ASSUME NEW p \in Leaves(f) PROVE IsRule(RuleOf(f, X, y, p))
    <2>1. Rows(f, p, X) # {} /\ Rows(f, p, X) \in SUBSET DOMAIN X
      BY <1>1, LeafHasRows DEF Rows
    <2>2. IsFiniteSet(Rows(f, p, X))
      BY <1>1, <2>1, FS_Subset
    <2>3. Majority(Rows(f, p, X), y) \in Int
      BY <1>2, <2>1, <2>2, MajorityIs
    <2>4. ASSUME NEW a \in Attributes, NEW c \in Allowed(f, p, X, a) PROVE ValueForCode(a, c) \in Value
      <3>1. PICK j \in DOMAIN X : c = X[j][a]
        BY DEF Allowed, Universe
      <3>2. c = Code(a, used[j].ev[a])
        BY <1>1, <3>1, TrainedTable
      <3> QED
        BY <3>2, DecodedValue
    <2>5. \A cond \in When(f, p, X) : cond.value \subseteq Value
      BY <2>4 DEF When
    <2> QED
      BY <2>3, <2>5 DEF IsRule, RuleOf
  <1>5. PICK n, s : RulesAre(TreeToRules(f, X, y).rules, f, X, y, n, s)
    BY <1>1, RulesOfLeaves
  <1>6. /\ n \in Nat /\ s \in [1..n -> Leaves(f)]
        /\ TreeToRules(f, X, y).rules = [j \in 1..n |-> RuleOf(f, X, y, s[j])]
    BY <1>5 DEF RulesAre
  <1>7. PICK S : S = {RuleOf(f, X, y, p) : p \in Leaves(f)}
    OBVIOUS
  <1>8. \A j \in 1..n : RuleOf(f, X, y, s[j]) \in S
    BY <1>6, <1>7
  <1>9. [j \in 1..n |-> RuleOf(f, X, y, s[j])] \in Seq(S)
    BY <1>6, <1>8, SeqDef
  <1>10. \A r \in S : IsRule(r)
    BY <1>4, <1>7
  <1> QED
    BY <1>3, <1>6, <1>9, <1>10

-----------------------------------------------------------------------------
(* A score the model gave, or none, is kept within the range.              *)
LEMMA Clamped ==
  ASSUME NEW score \in Int \cup {NotANumber}
  PROVE  Clamp(score) \in ScoreMin..ScoreMax
  BY DEF Clamp, ScoreMin, ScoreMax

(* A tree: its rules are rules, and its numbers in range.                  *)
TreeOk(t) ==
  /\ \E S : (\A r \in S : IsRule(r)) /\ t.rules \in Seq(S)
  /\ t.default \in ScoreMin..ScoreMax
  /\ t.version \in 0..MaxVersion

(* So it scores in range.                                                  *)
LEMMA TreeScores ==
  ASSUME NEW t, TreeOk(t), NEW values
  PROVE  ApplyDecisionTree(t, values) \in ScoreMin..ScoreMax
  <1>1. PICK S : (\A r \in S : IsRule(r)) /\ t.rules \in Seq(S)
    BY DEF TreeOk
  <1>2. PICK m : m = Matching(t.rules, values)
    OBVIOUS
  <1>3. DOMAIN t.rules \subseteq Nat \ {0}
    BY <1>1, LenProperties
  <1>4. m \subseteq DOMAIN t.rules
    BY <1>2 DEF Matching
  <1>5. CASE m = {}
    <2>1. Fired(t.rules, values) = 0
      BY <1>2, <1>5 DEF Fired
    <2>2. t.default \in Int
      BY DEF TreeOk, ScoreMin, ScoreMax
    <2> QED
      BY <2>1, <2>2, Clamped DEF ApplyDecisionTree
  <1>6. CASE m # {}
    <2>1. \E i \in m : \A j \in m : i <= j
      BY <1>3, <1>4, <1>6, Least
    <2>2. PICK i \in m : i = Fired(t.rules, values)
      BY <1>2, <1>6, <2>1 DEF Fired
    <2>3. i \in DOMAIN t.rules /\ i # 0
      BY <1>3, <1>4, <2>2
    <2>4. IsRule(t.rules[i])
      BY <1>1, <2>3, ElementOfSeq, LenProperties
    <2>5. t.rules[i].score \in Int
      BY <2>4 DEF IsRule
    <2> QED
      BY <2>2, <2>3, <2>5, Clamped DEF ApplyDecisionTree
  <1> QED
    BY <1>5, <1>6

(* What apply_tree_op makes of rules are rules.                            *)
LEMMA ChangedRules ==
  ASSUME NEW S, NEW rules \in Seq(S), NEW op, op.at \in Int, op.ok => op.rule \in S
  PROVE  ApplyTreeOp(rules, op) \in Seq(S)
  <1> DEFINE i == op.at + 1
  <1>1. ASSUME op.ok PROVE Append(rules, op.rule) \in Seq(S)
    BY <1>1
  <1>2. ASSUME op.ok, op.at \in 0..Len(rules) PROVE InsertAt(rules, i, op.rule) \in Seq(S)
    <2>1. SubSeq(rules, 1, i - 1) \in Seq(S) /\ SubSeq(rules, i, Len(rules)) \in Seq(S)
      BY <1>2, SubSeqProperties, ElementOfSeq
    <2>2. <<op.rule>> \in Seq(S)
      BY <1>2
    <2> QED
      BY <2>1, <2>2 DEF InsertAt
  <1>3. ASSUME op.ok, InTree(rules, op) PROVE ReplaceAt(rules, i, op.rule) \in Seq(S)
    BY <1>3 DEF ReplaceAt, InTree
  <1>4. ASSUME InTree(rules, op) PROVE RemoveAt(rules, i) \in Seq(S)
    <2>1. SubSeq(rules, 1, i - 1) \in Seq(S) /\ SubSeq(rules, i + 1, Len(rules)) \in Seq(S)
      BY <1>4, SubSeqProperties, ElementOfSeq DEF InTree
    <2> QED
      BY <2>1 DEF RemoveAt
  <1> QED
    BY <1>1, <1>2, <1>3, <1>4 DEF ApplyTreeOp

(* What is stored of an answer is a value, and never null.                 *)
LEMMA StoredValue ==
  ASSUME NEW v \in Value
  PROVE  AttrValue(v) \in Value \ {Null}
  <1>1. \A s \in Texts : Str(s) \in Value \ {Null}
    BY DEF Value, Str, Null
  <1>2. CASE v = Null
    <2>1. Null.type # "num"
      BY DEF Null
    <2>2. AttrValue(v) = Str("unknown")
      BY <1>2, <2>1 DEF AttrValue
    <2> QED
      BY <1>1, <2>2, TextAssumption
  <1>3. CASE v = Empty
    <2>1. v # Null /\ v.type = "str"
      BY <1>3 DEF Empty, Null, Str
    <2>2. AttrValue(v) = v
      BY <2>1 DEF AttrValue
    <2> QED
      BY <2>1, <2>2
  <1>4. CASE v \notin {Null, Empty}
    <2>1. AttrValue(v) \in Value /\ AttrValue(v) \notin {Null, Empty}
      BY <1>4, StoredAnswer
    <2> QED
      BY <2>1
  <1> QED
    BY <1>2, <1>3, <1>4

(* What is stored of any answers has a value for every attribute.          *)
LEMMA EvidenceIs ==
  ASSUME NEW values, Heard(values)
  PROVE  /\ DOMAIN Evidence(values) = Attributes
         /\ \A a \in Attributes : Evidence(values)[a] \in Value \ {Null}
  <1>1. \A a \in DOMAIN values : AttrValue(values[a]) \in Value \ {Null}
    BY StoredValue DEF Heard, Answers
  <1>2. Empty \in Value \ {Null}
    BY TextAssumption DEF Empty, Str, Value, Null
  <1> QED
    BY <1>1, <1>2 DEF Evidence

-----------------------------------------------------------------------------
(* What the tree was learned from, as long as it is the learned one.       *)
FitInv ==
  fit # Nothing =>
    /\ Trained(fit.used, fit.X, fit.y)
    /\ FitOf(fit.nodes, fit.X)
    /\ tree.rules = TreeToRules(fit.nodes, fit.X, fit.y).rules

LabelsStored == \A k \in DOMAIN labels : Stores(labels[k])

LearnInv ==
  /\ Inv
  /\ LabelsStored
  /\ TreeOk(tree)
  /\ ask # Idle => TreeOk(ask.tree)
  /\ FitInv

(* At the start nothing was learned.                                       *)
LEMMA InitLearn == Init => LearnInv
  <1> SUFFICES ASSUME Init PROVE LearnInv
    OBVIOUS
  <1>1. labels \in FirstLabels /\ tree = NoTree /\ ask = Idle /\ fit = Nothing
    BY DEF Init
  <1>2. LabelsStored
    BY <1>1, FirstLabelsAssumption DEF LabelsStored, Stores
  <1>3. NoTree.rules = <<>> /\ NoTree.default = 0 /\ NoTree.version = 0
    BY DEF NoTree, ScoreMin
  <1>4. \A r \in {} : IsRule(r)
    OBVIOUS
  <1>5. <<>> \in Seq({})
    OBVIOUS
  <1>6. \E S : (\A r \in S : IsRule(r)) /\ NoTree.rules \in Seq(S)
    BY <1>3, <1>4, <1>5
  <1>7. TreeOk(NoTree)
    BY <1>3, <1>6, BoundsAssumption DEF TreeOk, ScoreMin, ScoreMax
  <1> QED
    BY <1>1, <1>2, <1>7, InitInv DEF LearnInv, FitInv

(* A label that is stored within its types leaves the tree alone.          *)
LEMMA StoredLearns ==
  ASSUME LearnInv, NEW l, Stored(l), Stores(l)
  PROVE  LabelsStored' /\ TreeOk(tree') /\ (ask' # Idle => TreeOk(ask'.tree)) /\ FitInv'
  <1>1. labels' = Append(labels, l) /\ ask' = Idle /\ tree' = tree /\ fit' = fit
    BY DEF Stored
  <1>2. PICK S : labels \in Seq(S)
    BY DEF LearnInv, Inv
  <1>3. labels \in Seq(S \cup {l})
    BY <1>2, SeqMonotonic
  <1>4. \A k \in DOMAIN labels' : (k \in DOMAIN labels /\ labels'[k] = labels[k]) \/ labels'[k] = l
    BY <1>1, <1>3
  <1>5. LabelsStored'
    BY <1>4 DEF LabelsStored, LearnInv
  <1>6. FitInv'
    BY <1>1 DEF FitInv, LearnInv
  <1> QED
    BY <1>1, <1>5, <1>6 DEF LearnInv

(* Each way to store makes such a label or none.                           *)
LEMMA StoreLearns ==
  ASSUME LearnInv, StoreDecided \/ StoreBootstrap \/ StoreHolistic
  PROVE  LabelsStored' /\ TreeOk(tree') /\ (ask' # Idle => TreeOk(ask'.tree)) /\ FitInv'
  <1> DEFINE values == Extracted(ask)
  <1>1. Asking /\ TreeOk(ask.tree)
    BY DEF LearnInv, Inv, StoreDecided, StoreBootstrap, StoreHolistic, Idle
  <1>2. /\ DOMAIN Evidence(values) = Attributes
        /\ \A a \in Attributes : Evidence(values)[a] \in Value \ {Null}
    BY <1>1, ExtractedHeard, EvidenceIs
  <1>3. ASSUME ask.reply # Nothing PROVE ask.reply.score \in Int \cup {NotANumber}
    BY <1>1, <1>3, RepliesAssumption DEF Asking, AskTypes
  <1>4. CASE StoreDecided
    <2> DEFINE l == Label(Evidence(values), ApplyDecisionTree(ask.tree, values),
                          ask.tree.version, Fired(ask.tree.rules, values))
    <2>1. Stored(l)
      BY <1>4 DEF StoreDecided
    <2>2. l.ev = Evidence(values) /\ l.score = ApplyDecisionTree(ask.tree, values)
      BY DEF Label
    <2> HIDE DEF l
    <2>3. Stores(l)
      BY <1>1, <1>2, <2>2, TreeScores DEF Stores
    <2> QED
      BY <2>1, <2>3, StoredLearns
  <1>5. CASE StoreBootstrap
    <2> DEFINE said == IF ask.reply = Nothing THEN NotANumber ELSE ask.reply.score
               l == Label(Evidence(values), Clamp(said), 0, 0)
    <2>1. Stored(l)
      BY <1>5 DEF StoreBootstrap
    <2>2. l.ev = Evidence(values) /\ l.score = Clamp(said)
      BY DEF Label
    <2>3. said \in Int \cup {NotANumber}
      BY <1>3
    <2> HIDE DEF l, said
    <2>4. Stores(l)
      BY <1>2, <2>2, <2>3, Clamped DEF Stores
    <2> QED
      BY <2>1, <2>4, StoredLearns
  <1>6. CASE StoreHolistic /\ ask.reply = Nothing
    <2>1. ask' = Idle /\ labels' = labels /\ tree' = tree /\ fit' = fit
      BY <1>6 DEF StoreHolistic
    <2> QED
      BY <2>1 DEF LearnInv, LabelsStored, FitInv
  <1>7. CASE StoreHolistic /\ ask.reply # Nothing
    <2> DEFINE l == Label(NoEvidence, Clamp(ask.reply.score), 0, 0)
    <2>1. Stored(l)
      BY <1>7 DEF StoreHolistic
    <2>2. l.ev = NoEvidence /\ l.score = Clamp(ask.reply.score) /\ DOMAIN NoEvidence = {}
      BY DEF Label, NoEvidence
    <2> HIDE DEF l
    <2>3. Stores(l)
      BY <1>3, <1>7, <2>2, Clamped DEF Stores
    <2> QED
      BY <2>1, <2>3, StoredLearns
  <1> QED
    BY <1>4, <1>5, <1>6, <1>7

(* The rows that are gathered are a table to train from.                   *)
LEMMA RowsGathered ==
  ASSUME LearnInv, NEW used, used = [k \in TrainingLabels |-> labels[k]],
         NEW X, X = [k \in DOMAIN used |-> Encoded(used[k])],
         NEW y, y = [k \in DOMAIN used |-> Clamp(used[k].score)],
         Cardinality({y[k] : k \in DOMAIN y}) >= 2
  PROVE  Trained(used, X, y)
  <1>1. DOMAIN used = TrainingLabels /\ TrainingLabels \subseteq DOMAIN labels
        /\ DOMAIN X = DOMAIN used /\ DOMAIN y = DOMAIN used
    BY DEF TrainingLabels
  <1>2. PICK S : labels \in Seq(S)
    BY DEF LearnInv, Inv
  <1>3. IsFiniteSet(DOMAIN labels)
    BY <1>2, FS_Interval, LenProperties
  <1>4. IsFiniteSet(DOMAIN used)
    BY <1>1, <1>3, FS_Subset
  <1>5. DOMAIN used # {}
    <2> SUFFICES ASSUME DOMAIN used = {} PROVE FALSE
      OBVIOUS
    <2>1. {y[k] : k \in DOMAIN y} = {}
      BY <1>1
    <2>2. Cardinality({y[k] : k \in DOMAIN y}) = 0
      BY <2>1, FS_EmptySet
    <2> QED
      BY <2>2
  <1>6. ASSUME NEW k \in DOMAIN used
        PROVE  /\ Stores(used[k]) /\ DOMAIN used[k].ev = Attributes
               /\ X[k] = Encoded(used[k]) /\ y[k] \in ScoreMin..ScoreMax
    <2>1. used[k] = labels[k] /\ k \in DOMAIN labels /\ DOMAIN labels[k].ev \cap Attributes # {}
      BY <1>1 DEF TrainingLabels
    <2>2. Stores(labels[k])
      BY <2>1 DEF LearnInv, LabelsStored
    <2>3. DOMAIN labels[k].ev = Attributes /\ labels[k].score \in Int
      BY <2>1, <2>2 DEF Stores, ScoreMin, ScoreMax
    <2>4. y[k] = Clamp(labels[k].score)
      BY <2>1
    <2> QED
      BY <2>1, <2>2, <2>3, <2>4, Clamped
  <1> QED
    BY <1>1, <1>4, <1>5, <1>6 DEF Trained

(* Training makes a tree of them.                                          *)
LEMMA TrainLearns ==
  ASSUME LearnInv, Train
  PROVE  LabelsStored' /\ TreeOk(tree') /\ (ask' # Idle => TreeOk(ask'.tree)) /\ FitInv'
  <1>1. PICK used, X, y :
          /\ used = [k \in TrainingLabels |-> labels[k]]
          /\ X = [k \in DOMAIN used |-> Encoded(used[k])]
          /\ y = [k \in DOMAIN used |-> Clamp(used[k].score)]
    OBVIOUS
  <1>2. /\ tree.version < MaxVersion /\ labels' = labels /\ ask' = ask
        /\ Cardinality({y[k] : k \in DOMAIN y}) >= 2
        /\ \E f \in Fitted(X, y) :
             /\ tree' = Saved(TreeToRules(f, X, y).rules, TreeToRules(f, X, y).default)
             /\ fit' = [used |-> used, X |-> X, y |-> y, nodes |-> f]
    BY <1>1 DEF Train
  <1>3. PICK f \in Fitted(X, y) :
             /\ tree' = Saved(TreeToRules(f, X, y).rules, TreeToRules(f, X, y).default)
             /\ fit' = [used |-> used, X |-> X, y |-> y, nodes |-> f]
    BY <1>2
  <1>4. Trained(used, X, y)
    BY <1>1, <1>2, RowsGathered
  <1>5. FitOf(f, X)
    BY FittedIs
  <1>6. /\ \E S : (\A r \in S : IsRule(r)) /\ TreeToRules(f, X, y).rules \in Seq(S)
        /\ TreeToRules(f, X, y).default \in ScoreMin..ScoreMax
    BY <1>4, <1>5, LearnedIs
  <1>7. tree'.rules = TreeToRules(f, X, y).rules /\ tree'.default = TreeToRules(f, X, y).default
        /\ tree'.version = tree.version + 1
    BY <1>3 DEF Saved
  <1>8. tree.version + 1 \in 0..MaxVersion
    BY <1>2, BoundsAssumption DEF LearnInv, TreeOk
  <1>9. TreeOk(tree')
    BY <1>6, <1>7, <1>8 DEF TreeOk
  <1>10. /\ fit'.used = used /\ fit'.X = X /\ fit'.y = y /\ fit'.nodes = f
    BY <1>3
  <1>11. FitInv'
    BY <1>4, <1>5, <1>7, <1>10 DEF FitInv
  <1> QED
    BY <1>2, <1>9, <1>11 DEF LearnInv, LabelsStored

(* An approved operation leaves a tree, and no fit.                        *)
LEMMA ApproveLearns ==
  ASSUME LearnInv, NEW op \in Changes, Approve(op)
  PROVE  LabelsStored' /\ TreeOk(tree') /\ (ask' # Idle => TreeOk(ask'.tree)) /\ FitInv'
  <1>1. /\ tree.version < MaxVersion /\ labels' = labels /\ ask' = ask /\ fit' = Nothing
        /\ tree' = Saved(ApplyTreeOp(tree.rules, op), tree.default)
    BY DEF Approve
  <1>2. tree'.rules = ApplyTreeOp(tree.rules, op) /\ tree'.default = tree.default
        /\ tree'.version = tree.version + 1
    BY <1>1 DEF Saved
  <1>3. PICK S : (\A r \in S : IsRule(r)) /\ tree.rules \in Seq(S)
    BY DEF LearnInv, TreeOk
  <1>4. PICK T : T = IF op.ok THEN S \cup {op.rule} ELSE S
    OBVIOUS
  <1>5. (\A r \in T : IsRule(r)) /\ S \subseteq T /\ (op.ok => op.rule \in T) /\ op.at \in Int
    BY <1>3, <1>4, ChangesAssumption
  <1>6. tree.rules \in Seq(T)
    BY <1>3, <1>5, SeqMonotonic
  <1>7. ApplyTreeOp(tree.rules, op) \in Seq(T)
    BY <1>5, <1>6, ChangedRules
  <1>8. tree.version + 1 \in 0..MaxVersion
    BY <1>1, BoundsAssumption DEF LearnInv, TreeOk
  <1>9. TreeOk(tree')
    BY <1>2, <1>5, <1>7, <1>8 DEF TreeOk, LearnInv
  <1> QED
    BY <1>1, <1>9 DEF LearnInv, LabelsStored, FitInv

(* The labeller keeps the tree it took along.                              *)
LEMMA AskLearns ==
  ASSUME LearnInv,
         \/ \E boot \in BOOLEAN : Begin(boot)
         \/ \E names \in SUBSET Attributes : Select(names)
         \/ \E r \in Response : Request(r)
  PROVE  LabelsStored' /\ TreeOk(tree') /\ (ask' # Idle => TreeOk(ask'.tree)) /\ FitInv'
  <1>1. labels' = labels /\ tree' = tree /\ fit' = fit
    BY DEF Begin, Select, Request
  <1>2. TreeOk(ask'.tree)
    <2>1. ASSUME NEW boot \in BOOLEAN, Begin(boot) PROVE ask'.tree = tree
      BY <2>1 DEF Begin
    <2>2. ASSUME NEW names \in SUBSET Attributes, Select(names)
          PROVE  ask'.tree = ask.tree /\ ask # Idle
      <3>1. ask.pc = "select"
        BY <2>2 DEF Select
      <3>2. ask # Idle
        BY <3>1 DEF Idle
      <3>3. Asking
        BY <3>2 DEF LearnInv, Inv
      <3> QED
        BY <2>2, <3>2, <3>3 DEF Select, Asking, AskTypes
    <2>3. ASSUME NEW r \in Response, Request(r)
          PROVE  ask'.tree = ask.tree /\ ask # Idle
      <3>1. ask.pc = "request"
        BY <2>3 DEF Request
      <3>2. ask # Idle
        BY <3>1 DEF Idle
      <3>3. Asking
        BY <3>2 DEF LearnInv, Inv
      <3> QED
        BY <2>3, <3>2, <3>3 DEF Request, Asking, AskTypes
    <2> QED
      BY <2>1, <2>2, <2>3 DEF LearnInv
  <1> QED
    BY <1>1, <1>2 DEF LearnInv, LabelsStored, FitInv

(* LearnInv is inductive: one step per kind of action.                     *)
LEMMA NextLearn == LearnInv /\ [Next]_vars => LearnInv'
  <1> SUFFICES ASSUME LearnInv, [Next]_vars PROVE LearnInv'
    OBVIOUS
  <1>1. Inv'
    BY NextInv DEF LearnInv
  <1>2. CASE \/ \E boot \in BOOLEAN : Begin(boot)
             \/ \E names \in SUBSET Attributes : Select(names)
             \/ \E r \in Response : Request(r)
    BY <1>1, <1>2, AskLearns DEF LearnInv
  <1>3. CASE StoreDecided \/ StoreBootstrap \/ StoreHolistic
    BY <1>1, <1>3, StoreLearns DEF LearnInv
  <1>4. CASE Train
    BY <1>1, <1>4, TrainLearns DEF LearnInv
  <1>5. ASSUME NEW op \in Changes, Approve(op) PROVE LearnInv'
    BY <1>1, <1>5, ApproveLearns DEF LearnInv
  <1>6. CASE UNCHANGED vars
    <2>1. labels' = labels /\ tree' = tree /\ ask' = ask /\ fit' = fit
      BY <1>6 DEF vars
    <2> QED
      BY <1>1, <2>1 DEF LearnInv, LabelsStored, FitInv
  <1> QED
    BY <1>2, <1>3, <1>4, <1>5, <1>6 DEF Next, Labeller

(* The invariant of what is learned and what it is learned from.           *)
THEOREM LearnHolds == Spec => []LearnInv
  BY InitLearn, NextLearn, PTL DEF Spec

(* Labels, tree and labeller keep their types: scores stay in range        *)
(* (_clamp_score, clamp_score), rules stay rules through training and      *)
(* approved changes.                                                       *)
THEOREM LearningTypes == Spec => []TypeOK
  <1>1. LearnInv => TypeOK
    <2> SUFFICES ASSUME LearnInv PROVE TypeOK
      OBVIOUS
    <2>1. \A k \in DOMAIN labels :
            /\ labels[k].score \in ScoreMin..ScoreMax
            /\ \A a \in DOMAIN labels[k].ev : labels[k].ev[a] \in Value \ {Null}
      BY DEF LearnInv, LabelsStored, Stores
    <2>2. PICK S : (\A r \in S : IsRule(r)) /\ tree.rules \in Seq(S)
      BY DEF LearnInv, TreeOk
    <2>3. \A i \in DOMAIN tree.rules : IsRule(tree.rules[i])
      BY <2>2, ElementOfSeq, LenProperties
    <2>4. IsTree(tree)
      BY <2>3 DEF LearnInv, TreeOk, IsTree
    <2>5. ask = Idle \/ /\ ask.pc \in {"select", "request", "store"}
                        /\ ask.reply \in Replies \cup {Nothing}
                        /\ ask.names \subseteq Attributes
      BY DEF LearnInv, Inv, Asking, AskTypes
    <2> QED
      BY <2>1, <2>4, <2>5 DEF TypeOK
  <1> QED
    BY <1>1, LearnHolds, PTL

(* "Tree leaves partition the sample space, so the rules are mutually      *)
(* exclusive" (tree_train.py): of the rules _tree_to_rules makes, exactly  *)
(* one matches a training label without missing values, and it has the     *)
(* score of the label's leaf.                                              *)
THEOREM LeavesPartition == Spec => []RulesPartition
  <1>1. LearnInv => RulesPartition
    <2> SUFFICES ASSUME LearnInv, fit # Nothing, BooleansAnswered, ValuesAreWords,
                        NEW i \in DOMAIN fit.used, \A a \in Attributes : fit.X[i][a] # Missing
                 PROVE  \E r \in DOMAIN tree.rules :
                          /\ Matching(tree.rules, StoredValues(fit.used[i])) = {r}
                          /\ tree.rules[r].score = Prediction(i)
      BY DEF RulesPartition
    <2>1. PICK used, X, y, f : used = fit.used /\ X = fit.X /\ y = fit.y /\ f = fit.nodes
      OBVIOUS
    <2>2. Trained(used, X, y) /\ FitOf(f, X) /\ tree.rules = TreeToRules(f, X, y).rules
      BY <2>1 DEF LearnInv, FitInv
    <2>3. \A a \in Attributes : Defs[a].type = "boolean" => Missing \notin Universe(X, a)
      BY <2>1 DEF BooleansAnswered
    <2>4. i \in DOMAIN used /\ \A a \in Attributes : X[i][a] # Missing
      BY <2>1
    <2>5. PICK r \in DOMAIN tree.rules, p \in Leaves(f) :
            /\ Matching(tree.rules, StoredValues(used[i])) = {r}
            /\ At(f, p, X[i]) /\ tree.rules[r].score = Majority(Rows(f, p, X), y)
      BY <2>2, <2>3, <2>4, OneRuleMatches
    <2>6. LeafOf(i) \in Leaves(f) /\ At(f, LeafOf(i), X[i])
      BY <2>1, <2>5 DEF LeafOf
    <2>7. LeafOf(i) = p
      BY <2>2, <2>5, <2>6, UniqueLeaf DEF FitOf
    <2> QED
      BY <2>1, <2>5, <2>7 DEF Prediction
  <1> QED
    BY <1>1, LearnHolds, PTL


=============================================================================
