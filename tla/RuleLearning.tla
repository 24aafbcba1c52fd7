------------------------------ MODULE RuleLearning ------------------------------
(***************************************************************************)
(* The life of one category's decision tree: shots are labelled in         *)
(* bootstrap with free scores, a tree is trained from the labels, shots    *)
(* are judged by it, reviewers preview and approve changes of its rules,   *)
(* tracking asks which rule a label fired, and training starts again.      *)
(*                                                                         *)
(* The labeller is JUDGE of graph.py for one shot at a time, cut at every  *)
(* request to the model (GeminiOrchestrator._generate in providers.py).    *)
(* It reads the policy tree before the first request and stores the label  *)
(* after the last; trainers and reviewers may change the tree meanwhile.   *)
(* How saves of the tree interleave is ChangeQueue's matter: here a save   *)
(* is one step.                                                            *)
(*                                                                         *)
(* Left out: prompts, rationales, the REVIEW request (ChangeQueue), the    *)
(* scope of a training or a preview (all labels), ground truth; a holistic *)
(* answer has one judgement (LabellingGraph has several).                  *)
(***************************************************************************)
EXTENDS TreeTraining

CONSTANTS
  FirstLabels, \* the sequences of labels to start from
  Replies,     \* what the model may answer: attributes, a score, a wish for more frames
  Changes,     \* the tree operations that may be previewed and approved
  MaxLabels,   \* bound: labels
  MaxVersion,  \* bound: versions of the tree
  Float,       \* the text of a number once it is a float
  Budget, Ceiling,  \* max_output_tokens and _MAX_OUTPUT_CEIL
  Nothing      \* an answer without a JSON object; no fit

ASSUME BoundsAssumption ==
  MaxLabels \in Nat /\ MaxVersion \in Nat /\ Budget \in Nat /\ Ceiling \in Nat

(* The labels to start from are of shots that no tree scored.              *)
ASSUME FirstLabelsAssumption ==
  /\ FirstLabels \subseteq Seq(UNION {ToSet(s) : s \in FirstLabels})
  /\ \A s \in FirstLabels : \A k \in DOMAIN s :
       /\ s[k].path # "rules" /\ s[k].score \in ScoreMin..ScoreMax
       /\ DOMAIN s[k].ev \in {{}, Attributes}
       /\ \A a \in DOMAIN s[k].ev : s[k].ev[a] \in Value \ {Null}

(* A number is one in either text.                                         *)
ASSUME FloatAssumption ==
  \A t \in DOMAIN Numeral : Float[t] \in DOMAIN Numeral /\ Numeral[Float[t]] = Numeral[t]

Answers(attrs) == \A a \in DOMAIN attrs : attrs[a] \in Value

ASSUME RepliesAssumption ==
  /\ Nothing \notin Replies
  /\ \A r \in Replies : Answers(r.attrs) /\ r.score \in Int \cup {NotANumber}

IsRule(rule) == rule.score \in Int /\ \A c \in rule.when : c.value \subseteq Value

(* _well_formed_when and _coerce_int; whether a condition speaks of a      *)
(* defined attribute nobody checks.                                        *)
ASSUME ChangesAssumption ==
  \A op \in Changes : op.at \in Int /\ (op.ok => IsRule(op.rule))

VARIABLES
  labels,   \* the category's labels
  tree,     \* the `{category}.rules` node, or NoTree
  ask,      \* the shot the labeller is at
  fit       \* the training the tree comes from: its labels and the tree fitted to them

vars == <<labels, tree, ask, fit>>

Idle == [pc |-> "idle"]

(* As long as there is no such node.                                       *)
NoTree == [rules |-> <<>>, default |-> ScoreMin, version |-> 0]

Init ==
  /\ labels \in FirstLabels
  /\ tree = NoTree
  /\ ask = Idle
  /\ fit = Nothing

-----------------------------------------------------------------------------
(* JUDGE.  In bootstrap every attribute is asked for, with a free score;   *)
(* once there is a tree, the selected ones; otherwise the category is      *)
(* scored holistically, and its label carries no attribute.                *)
Begin(boot) ==
  /\ ask = Idle
  /\ Len(labels) < MaxLabels
  /\ ask' = [pc    |-> IF ~boot /\ tree # NoTree THEN "select" ELSE "request",
             path  |-> IF boot THEN "boot" ELSE IF tree = NoTree THEN "free" ELSE "rules",
             tree  |-> tree,
             names |-> IF boot THEN Attributes ELSE {},
             again |-> FALSE, more |-> FALSE,
             reply |-> Nothing]
  /\ UNCHANGED <<labels, tree, fit>>

(* SELECT: unknown names are dropped, none is left of an unusable answer.  *)
(* A category without selected attributes is not asked about.              *)
Select(names) ==
  /\ ask.pc = "select"
  /\ ask' = [ask EXCEPT !.names = names, !.pc = IF names = {} THEN "store" ELSE "request"]
  /\ UNCHANGED <<labels, tree, fit>>

(* _generate: an answer that is empty or was cut off is asked for once     *)
(* more, with twice the budget if that is more; whatever it said is gone.  *)
Response == [cutOff : BOOLEAN, reply : Replies \cup {Nothing}]

Larger == IF Budget * 2 < Ceiling THEN Budget * 2 ELSE Ceiling

AsksAgain(k, r) == r.cutOff /\ ~k.again /\ Larger > Budget

(* `_parse_json(...) or parsed`: of a request and the one with more frames *)
(* the later object counts, even one that says nothing about any attribute. *)
Kept(k, reply) == IF reply = Nothing THEN k.reply ELSE reply

(* Fault: more frames are sent as long as the model wants them.            *)
WantsFramesAlways(k, reply) == reply # Nothing /\ reply.more

WantsFrames(k, reply) == reply # Nothing /\ reply.more /\ ~k.more

Request(r) ==
  /\ ask.pc = "request"
  /\ ask' =
       IF AsksAgain(ask, r)
       THEN [ask EXCEPT !.again = TRUE]
       ELSE [ask EXCEPT !.again = FALSE,
                        !.reply = Kept(ask, r.reply),
                        !.more  = @ \/ WantsFrames(ask, r.reply),
                        !.pc    = IF WantsFrames(ask, r.reply) THEN "request" ELSE "store"]
  /\ UNCHANGED <<labels, tree, fit>>

-----------------------------------------------------------------------------
(* STORE.  Answers count for the attributes that were asked for.           *)
Extracted(k) ==
  LET said == IF k.reply = Nothing THEN {} ELSE DOMAIN k.reply.attrs
  IN  [a \in said \cap k.names |-> k.reply.attrs[a]]

(* _attr_value: a number becomes a float, null the text "unknown".         *)
AttrValue(v) ==
  CASE v = Null       -> Str("unknown")
    [] v.type = "num" -> [v EXCEPT !.text = Float[@]]
    [] OTHER          -> v

(* Every defined attribute is stored, with an empty value if it has none.  *)
Evidence(extracted) ==
  [a \in Attributes |-> IF a \in DOMAIN extracted THEN AttrValue(extracted[a]) ELSE Empty]

(* The levels that a holistic judgement derives from term lists have names *)
(* of their own, none of them a defined attribute.                         *)
NoEvidence == [a \in {} |-> Empty]

Label(ev, score, cites, fired) ==
  [path |-> ask.path, ev |-> ev, score |-> score, said |-> Extracted(ask),
   cites |-> cites, fired |-> fired]

Stored(label) ==
  /\ labels' = Append(labels, label)
  /\ ask' = Idle
  /\ UNCHANGED <<tree, fit>>

(* With a tree it is the tree that scores what was extracted.              *)
StoreDecided ==
  LET values == Extracted(ask)
  IN  /\ ask.pc = "store" /\ ask.path = "rules"
      /\ Stored(Label(Evidence(values), ApplyDecisionTree(ask.tree, values),
                      ask.tree.version, Fired(ask.tree.rules, values)))

(* In bootstrap the model's own score is kept, or 0 if it gave none.       *)
StoreBootstrap ==
  /\ ask.pc = "store" /\ ask.path = "boot"
  /\ Stored(Label(Evidence(Extracted(ask)),
                  Clamp(IF ask.reply = Nothing THEN NotANumber ELSE ask.reply.score), 0, 0))

(* A holistic answer without a judgement makes no label.                   *)
StoreHolistic ==
  /\ ask.pc = "store" /\ ask.path = "free"
  /\ IF ask.reply = Nothing THEN ask' = Idle /\ UNCHANGED <<labels, tree, fit>>
     ELSE Stored(Label(NoEvidence, Clamp(ask.reply.score), 0, 0))

-----------------------------------------------------------------------------
(* upsert_decision_rule: the next version of the node.                     *)
Saved(rules, default) == [rules |-> rules, default |-> default, version |-> tree.version + 1]

(* _gather_rows: every label that carries a defined attribute is a row,    *)
(* whichever path made it.                                                 *)
TrainingLabels == {k \in DOMAIN labels : DOMAIN labels[k].ev \cap Attributes # {}}

Encoded(l) == [a \in Attributes |-> Code(a, l.ev[a])]

(* train_decision_tree, unless there are too few rows or one score only.   *)
Train ==
  LET used == [k \in TrainingLabels |-> labels[k]]
      X    == [k \in DOMAIN used |-> Encoded(used[k])]
      y    == [k \in DOMAIN used |-> Clamp(used[k].score)]
  IN  /\ tree.version < MaxVersion
      /\ Cardinality(DOMAIN X) >= MinRows
      /\ Cardinality({y[k] : k \in DOMAIN y}) >= 2
      /\ \E f \in Fitted(X, y) :
           LET learned == TreeToRules(f, X, y)
           IN  /\ tree' = Saved(learned.rules, learned.default)
               /\ fit' = [used |-> used, X |-> X, y |-> y, nodes |-> f]
      /\ UNCHANGED <<labels, ask>>

(* An approved operation is applied to the tree as it is.                  *)
Approve(op) ==
  /\ tree # NoTree /\ tree.version < MaxVersion
  /\ ApplyTreeOp(tree.rules, op) # tree.rules
  /\ tree' = Saved(ApplyTreeOp(tree.rules, op), tree.default)
  /\ fit' = Nothing
  /\ UNCHANGED <<labels, ask>>

-----------------------------------------------------------------------------
(* What tracking and simulation read back of a label: the values that are  *)
(* not empty.                                                              *)
StoredTruthy(l) ==   \* fault: False counts as empty
  [a \in {a \in DOMAIN l.ev : l.ev[a] \notin {Empty, Boolean(FALSE)}} |-> l.ev[a]]

StoredValues(l) == [a \in {a \in DOMAIN l.ev : l.ev[a] # Empty} |-> l.ev[a]]

(* segments_for_rule and rule_segment_counts, with the current rules; 0    *)
(* stands for the default, rule i for the code's i - 1.                    *)
SegmentsForRule(i) == {k \in DOMAIN labels : Fired(tree.rules, StoredValues(labels[k])) = i}

RuleSegmentCounts == [i \in 0..Len(tree.rules) |-> Cardinality(SegmentsForRule(i))]

(* simulate_rule_change with _summarize: every label is scored by the tree *)
(* as it is and as the operation would leave it.                           *)
Changed(op) == [tree EXCEPT !.rules = ApplyTreeOp(@, op)]

SimulateUnfiltered(op) ==   \* fault: the empty values are kept
  LET Scores(t) == [k \in DOMAIN labels |-> ApplyDecisionTree(t, labels[k].ev)]
  IN  [before |-> Scores(tree), after |-> Scores(Changed(op)), changed |-> {}]

SimulateRuleChange(op) ==
  LET Scores(t) == [k \in DOMAIN labels |-> ApplyDecisionTree(t, StoredValues(labels[k]))]
  IN  [before |-> Scores(tree), after |-> Scores(Changed(op)),
       changed |-> {k \in DOMAIN labels : Scores(tree)[k] # Scores(Changed(op))[k]}]

-----------------------------------------------------------------------------
Labeller ==
  \/ \E names \in SUBSET Attributes : Select(names)
  \/ \E r \in Response : Request(r)
  \/ StoreDecided \/ StoreBootstrap \/ StoreHolistic

Next ==
  \/ \E boot \in BOOLEAN : Begin(boot)
  \/ Labeller
  \/ Train
  \/ \E op \in Changes : Approve(op)

Spec == Init /\ [][Next]_vars

(* JUDGE is a plain sequence of requests: once begun it goes on.           *)
FairSpec == Spec /\ WF_vars(Labeller)

-----------------------------------------------------------------------------
IsTree(t) ==
  /\ \A i \in DOMAIN t.rules : IsRule(t.rules[i])
  /\ t.default \in ScoreMin..ScoreMax
  /\ t.version \in 0..MaxVersion

(* The types of labels, tree and labeller.                                 *)
TypeOK ==
  /\ \A k \in DOMAIN labels :
       /\ labels[k].score \in ScoreMin..ScoreMax
       /\ \A a \in DOMAIN labels[k].ev : labels[k].ev[a] \in Value \ {Null}
  /\ IsTree(tree)
  /\ ask = Idle \/ /\ ask.pc \in {"select", "request", "store"}
                   /\ ask.reply \in Replies \cup {Nothing}
                   /\ ask.names \subseteq Attributes

(* A shot that was begun gets its requests done, however often the answers
   are cut off or ask for more frames.                                     *)
ShotEnds == ask.pc # "idle" ~> ask.pc = "idle"

(* The leaf a training row ends at.                                        *)
LeafOf(i) == CHOOSE node \in Leaves(fit.nodes) : At(fit.nodes, node, fit.X[i])

Prediction(i) == Majority(Rows(fit.nodes, LeafOf(i), fit.X), fit.y)

(* "Tree leaves partition the sample space, so the rules are mutually
   exclusive": as long as the tree is the trained one, a training label that
   lacks no value matches one rule and no other, through its stored values,
   and that rule has the score of its leaf.  Provided every boolean has been
   answered in every row, for the empty value that stands for a missing one
   reads as false; and provided no listed value is a number or a boolean,
   for such values equal others that have codes of their own.              *)
BooleansAnswered ==
  \A a \in Attributes : Defs[a].type = "boolean" => Missing \notin Universe(fit.X, a)

ValuesAreWords ==
  \A a \in Attributes : Defs[a].type # "boolean" =>
    \A i \in DOMAIN Defs[a].values :
      Defs[a].values[i] \notin DOMAIN Numeral \cup {"true", "false"}

RulesPartition ==
  fit # Nothing /\ BooleansAnswered /\ ValuesAreWords =>
    \A i \in DOMAIN fit.used :
      (\A a \in Attributes : fit.X[i][a] # Missing) =>
        \E r \in DOMAIN tree.rules :
          /\ Matching(tree.rules, StoredValues(fit.used[i])) = {r}
          /\ tree.rules[r].score = Prediction(i)

(* The rules "reproduce the tree's prediction on every training row
   (including a MISSING value, which round-trips through the reserved code
   and the empty string)" (tests/test_tree_train.py).                      *)
Decoded(i) == [a \in Attributes |-> ValueForCode(a, fit.X[i][a])]

RowsReproduced ==
  fit # Nothing =>
    \A i \in DOMAIN fit.used : ApplyDecisionTree(tree, Decoded(i)) = Prediction(i)

(* No null and no empty text among the answers.                            *)
Plain(l) == \A a \in DOMAIN l.said : l.said[a] \notin {Null, Empty}

(* The values of ordinal attributes are words: a rank is found by the      *)
(* text, and the text of a stored number has changed.                      *)
OrdinalsAreWords ==
  \A a \in Attributes : Defs[a].type = "ordinal" =>
    \A i \in DOMAIN Defs[a].values : Defs[a].values[i] \notin DOMAIN Numeral

(* The rule that tracking derives for a label from its stored values is the
   one that scored the shot, provided the tree is still the one the label
   cites, the model answered neither null (stored as "unknown") nor "" (taken
   for not selected), and no value of an ordinal is a number.              *)
TrackingAgrees ==
  OrdinalsAreWords => \A k \in DOMAIN labels :
    (labels[k].path = "rules" /\ labels[k].cites = tree.version /\ Plain(labels[k])) =>
      k \in SegmentsForRule(labels[k].fired)

(* A preview tells for each label the score that judging the same answers
   by the changed tree would give, and, if it was the present tree that
   judged them, the score it has; under the same provisos.                 *)
PreviewAgrees ==
  OrdinalsAreWords /\ tree # NoTree =>
    \A op \in Changes, k \in DOMAIN labels :
      labels[k].path = "rules" /\ Plain(labels[k]) =>
        LET preview == SimulateRuleChange(op)
        IN  /\ preview.after[k] = ApplyDecisionTree(Changed(op), labels[k].said)
            /\ labels[k].cites = tree.version => preview.before[k] = labels[k].score

=============================================================================
