-------------------------------- MODULE TreeOps --------------------------------
(***************************************************************************)
(* apply_tree_op, the only change a review may ask of a decision tree      *)
(* (policy_store.py).  A tree is the sequence of its rules, in priority    *)
(* order; the default score is left out, for no operation changes it.      *)
(*                                                                         *)
(* An operation is a record: `kind`, the 0-based `at` (NoIndex for null),  *)
(* `ok` (`when` is well formed and `score` a number) and the `rule` it     *)
(* would write.  The program's rule_index may be negative too: every       *)
(* number outside the tree does nothing, as any other does.                *)
(***************************************************************************)
EXTENDS Integers, Sequences, SequencesExt

NoIndex == -1

RuleOps(rules, top) ==
  [kind : {"add", "modify", "delete"}, at : {NoIndex} \cup 0..top, ok : BOOLEAN, rule : rules]

InTree(rules, op) == op.at \in 0..(Len(rules) - 1)

ApplyTreeOp(rules, op) ==
  LET i == op.at + 1
  IN  CASE op.kind = "add" /\ op.ok /\ op.at = NoIndex        -> Append(rules, op.rule)
        [] op.kind = "add" /\ op.ok /\ op.at \in 0..Len(rules) -> InsertAt(rules, i, op.rule)
        [] op.kind = "modify" /\ op.ok /\ InTree(rules, op)    -> ReplaceAt(rules, i, op.rule)
        [] op.kind = "delete" /\ InTree(rules, op)             -> RemoveAt(rules, i)
        [] OTHER                                               -> rules

=============================================================================
