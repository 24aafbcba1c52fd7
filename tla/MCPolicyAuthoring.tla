---------------------------- MODULE MCPolicyAuthoring ----------------------------
(* Small instances of PolicyAuthoring for TLC.                             *)
EXTENDS PolicyAuthoring

CONSTANTS sex, game, x, y   \* categories and attribute names

TwoActive   == <<sex, game>>
SexAuthored == [c \in {sex, game} |-> IF c = sex THEN {x} ELSE {}]
SomeReplies == {<<y, x>>}

=============================================================================
