----------------------------- MODULE MCPolicyStore -----------------------------
(* Small instances of PolicyStore for TLC.                                 *)
EXTENDS PolicyStore, TLC

(* Writers are interchangeable, and so are snapshotters, contents and       *)
(* nodes.  Used where only invariants, step properties and the refinement   *)
(* of a specification without fairness are checked.                        *)
Interchangeable ==
  Permutations(Writers) \cup Permutations(Snapshotters)
    \cup Permutations(Contents) \cup Permutations(Nodes)

=============================================================================
