---------------------------- MODULE VersionedStore ----------------------------
(***************************************************************************)
(* What the policy store promises (policy_store.py:1-13, db/models.py      *)
(* PolicyVersion and PolicySet): a node is an append-only log of entries,  *)
(* its version is the number of the last one, whoever cites a node gets    *)
(* the last entry with its version, and a policy set records a version of  *)
(* every node, never older than the set before it does.                    *)
(***************************************************************************)
EXTENDS Integers, Sequences

CONSTANTS Nodes, Entries

VARIABLES
  log,    \* the entries of each node, oldest first
  sets,   \* the policy sets taken, as maps from nodes to versions
  cited   \* the citations made: node, version and what was read

Init ==
  /\ log = [n \in Nodes |-> <<>>]
  /\ sets = <<>>
  /\ cited = {}

Edit(n, e) ==
  /\ log' = [log EXCEPT ![n] = Append(@, e)]
  /\ UNCHANGED <<sets, cited>>

(* A set need not be of this instant, but it never goes back.              *)
Tag(m) ==
  /\ \A n \in Nodes : m[n] <= Len(log[n])
  /\ sets # <<>> => \A n \in Nodes : sets[Len(sets)][n] <= m[n]
  /\ sets' = Append(sets, m)
  /\ UNCHANGED <<log, cited>>

Cite(n) ==
  /\ log[n] # <<>>
  /\ cited' = cited \cup {[node |-> n, version |-> Len(log[n]), entry |-> log[n][Len(log[n])]]}
  /\ UNCHANGED <<log, sets>>

Next ==
  \/ \E n \in Nodes, e \in Entries : Edit(n, e)
  \/ \E m \in [Nodes -> UNION {0..Len(log[n]) : n \in Nodes}] : Tag(m)
  \/ \E n \in Nodes : Cite(n)

Spec == Init /\ [][Next]_<<log, sets, cited>>

=============================================================================
