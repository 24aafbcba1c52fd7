---------------------------- MODULE MCRuleLearning ----------------------------
(* Small instances of RuleLearning for TLC: a boolean and an ordinal        *)
(* attribute, one of whose values reads like null.                          *)
EXTENDS RuleLearning, TLC

TwoAttributes == {"flag", "level"}

FlagAndLevel ==
  "flag" :> [type |-> "boolean", values |-> <<>>]
    @@ "level" :> [type |-> "ordinal", values |-> <<"none", "low", "high">>]

SomeTexts == {"", "none", "low", "high", "true", "false", "yes", "unknown", "1", "1.0"}
Ones      == [t \in {"1", "1.0"} |-> 1]
OneFloat  == [t \in {"1", "1.0"} |-> "1.0"]

Yes == Boolean(TRUE)
No  == Boolean(FALSE)

Answer(attrs, score, more) == [attrs |-> attrs, score |-> score, more |-> more]

Flag(v)     == "flag" :> v
Level(v)    == "level" :> v

SomeReplies ==
  {Answer(Flag(Yes) @@ Level(Str("none")), 3, FALSE),
   Answer(Flag(No) @@ Level(Str("high")), 3, FALSE),
   Answer(Flag(No) @@ Level(Str("low")), 0, TRUE),
   Answer(Flag(Yes) @@ Level(Null), NotANumber, FALSE),
   Answer(Flag([type |-> "num", text |-> "1"]), 9, FALSE)}

(* Labels of earlier shots, with their bootstrap scores.                   *)
Earlier(f, l, s) ==
  [path |-> "boot", ev |-> Flag(f) @@ Level(l), score |-> s,
   said |-> Flag(f) @@ Level(l), cites |-> 0, fired |-> 0]

SomeLabels ==
  {<<Earlier(Yes, Str("none"), 0), Earlier(Yes, Str("high"), 3)>>,
   <<Earlier(Yes, Str("none"), 0), Earlier(Empty, Str("high"), 3), Earlier(No, Str("low"), 2)>>}

Cond(a, op, v) == [attr |-> a, op |-> op, value |-> v]

SomeChanges ==
  {[kind |-> "add", at |-> 0, ok |-> TRUE,
    rule |-> [when |-> {Cond("level", ">=", {Str("low")})}, score |-> 7]],
   [kind |-> "modify", at |-> 0, ok |-> TRUE,
    rule |-> [when |-> {Cond("flag", "present", {}), Cond("level", "<=", {Str("low")})}, score |-> 4]],
   [kind |-> "delete", at |-> 0, ok |-> TRUE, rule |-> [when |-> {}, score |-> 0]]}

=============================================================================
