--------------------------- MODULE ChangeQueueProofs ---------------------------
(***************************************************************************)
(* What holds of the change-request queue for any requests, any learned    *)
(* tree, any number of reviewers and authors and every bound.              *)
(*                                                                         *)
(* The human gate holds however the threads overlap.  The argument: every  *)
(* tree that is stored, held by a session or about to be saved is made of  *)
(* rules of the trained tree and of requests granted so far.  Granted      *)
(* requests only grow, and a thread that applies an operation has granted  *)
(* its request in an earlier step.  So GateInv types the whole state over  *)
(* what is granted, and from it TypeOK and HumanGate follow.               *)
(*                                                                         *)
(* LandsOnce and CommitIsExact are about threads that have not overlapped: *)
(* then the one at work knows how its request stands (SerialInv).          *)
(***************************************************************************)
EXTENDS ChangeQueue, SequenceTheorems, TLAPS

USE BoundsAssumption, LearnedAssumption

-----------------------------------------------------------------------------
(* apply_tree_op brings in no rule but its own.                            *)

(* The operation of a request, or none.                                    *)
OpsOf(r) == {NoOp} \cup
  [kind : {"add", "modify", "delete", "text"}, at : {NoIndex} \cup Nat, ok : BOOLEAN, rule : {r}]

(* Applying an operation of request r to a list over S gives a list over S, if r is in S. *)
LEMMA ApplyKeepsRules ==
  ASSUME NEW S, NEW rules \in Seq(S), NEW r \in S, NEW op \in OpsOf(r)
  PROVE  ApplyTreeOp(rules, op) \in Seq(S)
  <1> DEFINE i == op.at + 1
  <1>1. CASE op = NoOp
    BY <1>1 DEF ApplyTreeOp, NoOp
  <1>2. CASE op # NoOp
    <2>1. op.rule = r /\ op.at \in Int
      BY <1>2 DEF OpsOf, NoIndex
    <2>2. Append(rules, op.rule) \in Seq(S)
      BY <2>1
    <2>3. ASSUME op.at \in 0..Len(rules) PROVE InsertAt(rules, i, op.rule) \in Seq(S)
      <3>1. SubSeq(rules, 1, i - 1) \in Seq(S) /\ SubSeq(rules, i, Len(rules)) \in Seq(S)
        BY <2>1, <2>3, SubSeqProperties, ElementOfSeq
      <3>2. <<op.rule>> \in Seq(S)
        BY <2>1
      <3> QED
        BY <3>1, <3>2 DEF InsertAt
    <2>4. ASSUME InTree(rules, op) PROVE ReplaceAt(rules, i, op.rule) \in Seq(S)
      BY <2>1, <2>4 DEF ReplaceAt, InTree
    <2>5. ASSUME InTree(rules, op) PROVE RemoveAt(rules, i) \in Seq(S)
      <3>1. SubSeq(rules, 1, i - 1) \in Seq(S) /\ SubSeq(rules, i + 1, Len(rules)) \in Seq(S)
        BY <2>1, <2>5, SubSeqProperties, ElementOfSeq DEF InTree
      <3> QED
        BY <3>1 DEF RemoveAt
    <2> QED
      BY <2>2, <2>3, <2>4, <2>5 DEF ApplyTreeOp
  <1> QED
    BY <1>1, <1>2

-----------------------------------------------------------------------------
(* The state typed over a set G of granted requests.                       *)

RulesOver(G) == G \cup ToSet(Learned)
TreesOver(G) == [rules : Seq(RulesOver(G)), said : BOOLEAN]
DataOver(G)  == [src : TreesOver(G), stamp : 0..MaxVersion]
RowsOver(G)  == [version : 1..MaxVersion, text : TreesOver(G), data : DataOver(G)]
SnapsOver(G) == [text : TreesOver(G), data : DataOver(G)]
TxnsOver(G)  == [pc : {"embed", "flush"}, node : {TreeNode}, read : RowsOver(G) \cup {NoRow},
                 seen : SnapsOver(G) \cup {NoRow}, text : TreesOver(G), data : DataOver(G)]
JobsOver(G)  ==
  [pc : {"decide"}, req : Requests, approve : BOOLEAN]
    \cup [pc : {"load", "landing"}, req : G]
    \cup [pc : {"save"}, req : G, rules : Seq(RulesOver(G))]
    \cup [pc : {"describe"}, tree : TreesOver(G)]
    \cup [pc : {"idle", "trained", "describeTrained", "described"}]

(* More is granted, so less is asked.                                      *)
LEMMA OverMonotonic ==
  ASSUME NEW G, NEW H, G \subseteq H
  PROVE  /\ TreesOver(G) \subseteq TreesOver(H) /\ DataOver(G) \subseteq DataOver(H)
         /\ RowsOver(G) \subseteq RowsOver(H)   /\ SnapsOver(G) \subseteq SnapsOver(H)
         /\ TxnsOver(G) \subseteq TxnsOver(H)   /\ JobsOver(G) \subseteq JobsOver(H)
  <1>1. RulesOver(G) \subseteq RulesOver(H)
    BY DEF RulesOver
  <1>2. Seq(RulesOver(G)) \subseteq Seq(RulesOver(H))
    BY <1>1, SeqMonotonic
  <1>3. TreesOver(G) \subseteq TreesOver(H)
    BY <1>2 DEF TreesOver
  <1>4. DataOver(G) \subseteq DataOver(H)
    BY <1>3 DEF DataOver
  <1>5. RowsOver(G) \subseteq RowsOver(H)
    BY <1>3, <1>4 DEF RowsOver
  <1>6. SnapsOver(G) \subseteq SnapsOver(H)
    BY <1>3, <1>4 DEF SnapsOver
  <1>7. TxnsOver(G) \subseteq TxnsOver(H)
    BY <1>3, <1>4, <1>5, <1>6 DEF TxnsOver
  <1>8. JobsOver(G) \subseteq JobsOver(H)
    BY <1>2, <1>3 DEF JobsOver
  <1> QED
    BY <1>3, <1>4, <1>5, <1>6, <1>7, <1>8

StoreOver(G) ==
  /\ policies \in [{TreeNode} -> RowsOver(G)]
  /\ policy_versions \in [{TreeNode} -> [1..MaxVersion -> SnapsOver(G) \cup {NoRow}]]
  /\ txn \in [Threads -> TxnsOver(G) \cup {Store!Idle}]
  /\ \A w \in Threads : txn[w] # Store!Idle => Store!NextVersion(txn[w].read) \in 1..MaxVersion

QueueTypes ==
  /\ status \in [Requests -> {"none", "queued", "approved", "rejected"}]
  /\ ops = [r \in Requests |-> ops[r]]
  /\ \A r \in Requests : ops[r] \in OpsOf(r)
  /\ landed \in [Requests -> Nat]
  /\ granted \subseteq Requests /\ lost \subseteq Requests
  /\ runs \in 0..MaxRuns
  /\ overlapped \in BOOLEAN
  /\ \A r \in Requests : landed[r] > 0 => r \in granted

GateInv ==
  /\ QueueTypes
  /\ StoreOver(granted)
  /\ job \in [Threads -> JobsOver(granted)]

(* What is stored and held stays typed when more is granted.               *)
LEMMA StoreOverMonotonic ==
  ASSUME NEW G, NEW H, G \subseteq H, StoreOver(G)
  PROVE  StoreOver(H)
  <1>1. policies \in [{TreeNode} -> RowsOver(H)]
    BY OverMonotonic DEF StoreOver
  <1>2. policy_versions \in [{TreeNode} -> [1..MaxVersion -> SnapsOver(H) \cup {NoRow}]]
    <2>1. [1..MaxVersion -> SnapsOver(G) \cup {NoRow}] \subseteq [1..MaxVersion -> SnapsOver(H) \cup {NoRow}]
      BY OverMonotonic
    <2> QED
      BY <2>1 DEF StoreOver
  <1>3. txn \in [Threads -> TxnsOver(H) \cup {Store!Idle}]
    BY OverMonotonic DEF StoreOver
  <1> QED
    BY <1>1, <1>2, <1>3 DEF StoreOver

(* The trained tree is typed over any set of grants.                       *)
LEMMA FirstTreeOver ==
  ASSUME NEW G
  PROVE  FirstTree \in TreesOver(G) /\ Store!Fresh(FirstTree) \in DataOver(G)
  <1>1. Learned \in Seq(RulesOver(G))
    BY SeqMonotonic DEF RulesOver
  <1> QED
    BY <1>1 DEF FirstTree, TreesOver, DataOver, Store!Fresh

(* The invariant says at least what HumanGate and TypeOK say.              *)
LEMMA GateInvTypes == GateInv => TypeOK
  <1> SUFFICES ASSUME GateInv PROVE TypeOK
    OBVIOUS
  <1>1. RulesOver(granted) \subseteq Rules
    BY DEF GateInv, QueueTypes, RulesOver, Rules
  <1>2. Seq(RulesOver(granted)) \subseteq Seq(Rules)
    BY <1>1, SeqMonotonic
  <1>3. TreesOver(granted) \subseteq Trees
    BY <1>2 DEF TreesOver, Trees
  <1>4. DataOver(granted) \subseteq Store!Data
    BY <1>3 DEF DataOver, Store!Data
  <1>5. RowsOver(granted) \subseteq Store!Rows /\ SnapsOver(granted) \subseteq Store!Snaps
    BY <1>3, <1>4 DEF RowsOver, SnapsOver, Store!Rows, Store!Snaps, Store!Versions
  <1>6. TxnsOver(granted) \subseteq Store!Txns
    BY <1>3, <1>4, <1>5 DEF TxnsOver, Store!Txns
  <1>7. JobsOver(granted) \subseteq Jobs
    BY <1>2, <1>3 DEF JobsOver, Jobs, GateInv, QueueTypes
  <1>8. policies[TreeNode] \in Store!Rows
    BY <1>5 DEF GateInv, StoreOver
  <1>9. \A v \in 1..MaxVersion : policy_versions[TreeNode][v] \in Store!Snaps \cup {NoRow}
    BY <1>5 DEF GateInv, StoreOver
  <1>10. \A w \in Threads : txn[w] \in Store!Txns \cup {Store!Idle}
    BY <1>6 DEF GateInv, StoreOver
  <1>11. \A w \in Threads : job[w] \in Jobs
    BY <1>7 DEF GateInv
  <1> QED
    BY <1>8, <1>9, <1>10, <1>11 DEF TypeOK, GateInv, QueueTypes, OpsOf

(* Rules of granted requests and of the trained tree only: that is the gate. *)
LEMMA GateInvGates == GateInv => HumanGate
  <1> SUFFICES ASSUME GateInv PROVE HumanGate
    OBVIOUS
  <1>1. \A tree \in TreesOver(granted) : \A i \in DOMAIN tree.rules : tree.rules[i] \in Approved
    <2> SUFFICES ASSUME NEW tree \in TreesOver(granted), NEW i \in DOMAIN tree.rules
                 PROVE  tree.rules[i] \in Approved
      OBVIOUS
    <2>1. tree.rules \in Seq(RulesOver(granted)) /\ i \in 1..Len(tree.rules)
      BY LenProperties DEF TreesOver
    <2> QED
      BY <2>1, ElementOfSeq DEF RulesOver, Approved
  <1>2. CurrentTree \in TreesOver(granted)
    BY DEF CurrentTree, GateInv, StoreOver, RowsOver, DataOver
  <1>3. \A v \in 1..MaxVersion : policy_versions[TreeNode][v] # NoRow =>
          policy_versions[TreeNode][v].data.src \in TreesOver(granted)
    BY DEF GateInv, StoreOver, SnapsOver, DataOver
  <1>4. \A w \in Threads : txn[w] # Store!Idle => txn[w].text \in TreesOver(granted)
    BY DEF GateInv, StoreOver, TxnsOver
  <1> QED
    BY <1>1, <1>2, <1>3, <1>4 DEF HumanGate, CurrentRules, GateInv, QueueTypes

-----------------------------------------------------------------------------
(* Initially the tree is the trained one.                                  *)
LEMMA InitGateInv == Init => GateInv
  <1> SUFFICES ASSUME Init PROVE GateInv
    OBVIOUS
  <1>1. policies \in [{TreeNode} -> RowsOver(granted)]
    BY FirstTreeOver DEF Init, RowsOver
  <1>2. policy_versions \in [{TreeNode} -> [1..MaxVersion -> SnapsOver(granted) \cup {NoRow}]]
    BY FirstTreeOver DEF Init, SnapsOver
  <1>3. StoreOver(granted)
    BY <1>1, <1>2 DEF Init, StoreOver
  <1>4. job \in [Threads -> JobsOver(granted)]
    BY DEF Init, Idle, JobsOver
  <1>5. QueueTypes
    <2>1. status \in [Requests -> {"none", "queued", "approved", "rejected"}]
      BY DEF Init
    <2>2. ops = [r \in Requests |-> ops[r]] /\ \A r \in Requests : ops[r] \in OpsOf(r)
      BY DEF Init, OpsOf
    <2>3. landed \in [Requests -> Nat]
      BY DEF Init
    <2>4. granted \subseteq Requests /\ lost \subseteq Requests /\ overlapped \in BOOLEAN
      BY DEF Init
    <2>5. runs \in 0..MaxRuns /\ \A r \in Requests : ~(landed[r] > 0)
      BY DEF Init
    <2> QED
      BY <2>1, <2>2, <2>3, <2>4, <2>5 DEF QueueTypes
  <1> QED
    BY <1>3, <1>4, <1>5 DEF GateInv

(* What the store does within a session.                                   *)

(* A save begins: the row is read, the tree is in hand.                    *)
LEMMA SaveBegins ==
  ASSUME NEW G, StoreOver(G), NEW w \in Threads, NEW tree \in TreesOver(G),
         Store!UpsertGet(w, TreeNode, tree)
  PROVE  StoreOver(G)'
  <1>1. Store!Fresh(tree) \in DataOver(G)
    BY DEF Store!Fresh, DataOver
  <1>2. policies[TreeNode] \in RowsOver(G)
    BY DEF StoreOver
  <1>3. txn'[w] \in TxnsOver(G)
    BY <1>1, <1>2 DEF Store!UpsertGet, StoreOver, TxnsOver
  <1>4. Store!NextVersion(txn'[w].read) \in 1..MaxVersion
    BY <1>2 DEF Store!UpsertGet, StoreOver, Store!NextVersion, RowsOver
  <1>5. txn' \in [Threads -> TxnsOver(G) \cup {Store!Idle}]
    BY <1>3 DEF Store!UpsertGet, StoreOver
  <1>6. \A u \in Threads : u # w => txn'[u] = txn[u]
    BY DEF Store!UpsertGet, StoreOver
  <1>7. /\ policies' \in [{TreeNode} -> RowsOver(G)]
        /\ policy_versions' \in [{TreeNode} -> [1..MaxVersion -> SnapsOver(G) \cup {NoRow}]]
    BY DEF Store!UpsertGet, StoreOver
  <1>8. \A u \in Threads : txn'[u] # Store!Idle => Store!NextVersion(txn'[u].read) \in 1..MaxVersion
    BY <1>4, <1>6 DEF StoreOver
  <1> QED
    BY <1>5, <1>7, <1>8 DEF StoreOver, Store!NextVersion

(* The question for the next version, the commit, and the conflict.        *)
LEMMA SaveChecks ==
  ASSUME NEW G, StoreOver(G), NEW w \in Threads, Store!UpsertCheck(w)
  PROVE  StoreOver(G)'
  <1>1. /\ txn[w] \in TxnsOver(G)
        /\ Store!NextVersion(txn[w].read) \in 1..MaxVersion
    BY DEF Store!UpsertCheck, Store!Idle, StoreOver
  <1>2. policy_versions[txn[w].node][Store!NextVersion(txn[w].read)] \in SnapsOver(G) \cup {NoRow}
    BY <1>1 DEF StoreOver, TxnsOver
  <1>3. txn'[w] \in TxnsOver(G) /\ txn'[w].read = txn[w].read
    BY <1>1, <1>2 DEF Store!UpsertCheck, StoreOver, TxnsOver
  <1>4. /\ txn' \in [Threads -> TxnsOver(G) \cup {Store!Idle}]
        /\ \A u \in Threads : u # w => txn'[u] = txn[u]
        /\ policies' = policies /\ policy_versions' = policy_versions
    BY <1>3 DEF Store!UpsertCheck, StoreOver
  <1>5. \A u \in Threads : txn'[u] # Store!Idle => Store!NextVersion(txn'[u].read) \in 1..MaxVersion
    BY <1>1, <1>3, <1>4 DEF StoreOver
  <1> QED
    BY <1>4, <1>5 DEF StoreOver, Store!NextVersion

(* upsert_policy, third step: the commit stores a tree the session brought along. *)
LEMMA SaveCommits ==
  ASSUME NEW G, StoreOver(G), NEW w \in Threads, Store!UpsertCommit(w)
  PROVE  StoreOver(G)'
  <1> DEFINE t == txn[w]
             v == Store!NextVersion(t.read)
             cur == policies[TreeNode]
  <1>1. /\ t \in TxnsOver(G) /\ t.node = TreeNode
        /\ v \in 1..MaxVersion
        /\ cur \in RowsOver(G)
    BY DEF Store!UpsertCommit, Store!Idle, StoreOver, TxnsOver
  <1>2. Store!Flushed(t) \in RowsOver(G)
    <2>1. CASE t.read = NoRow
      BY <1>1, <2>1 DEF Store!Flushed, TxnsOver, RowsOver
    <2>2. CASE t.read # NoRow
      <3>1. Store!Column(t.text, t.read.text, cur.text) \in TreesOver(G)
        BY <1>1 DEF Store!Column, TxnsOver, RowsOver
      <3>2. Store!Column(t.data, t.read.data, cur.data) \in DataOver(G)
        BY <1>1 DEF Store!Column, TxnsOver, RowsOver
      <3> QED
        BY <1>1, <2>2, <3>1, <3>2 DEF Store!Flushed, RowsOver
    <2> QED
      BY <2>1, <2>2
  <1>3. policies' \in [{TreeNode} -> RowsOver(G)]
    BY <1>1, <1>2 DEF Store!UpsertCommit, StoreOver
  <1>4. [text |-> t.text, data |-> t.data] \in SnapsOver(G)
    BY <1>1 DEF TxnsOver, SnapsOver
  <1>5. policy_versions' \in [{TreeNode} -> [1..MaxVersion -> SnapsOver(G) \cup {NoRow}]]
    BY <1>1, <1>4 DEF Store!UpsertCommit, StoreOver
  <1>6. /\ txn' \in [Threads -> TxnsOver(G) \cup {Store!Idle}]
        /\ txn'[w] = Store!Idle
        /\ \A u \in Threads : u # w => txn'[u] = txn[u]
    BY DEF Store!UpsertCommit, StoreOver
  <1>7. \A u \in Threads : txn'[u] # Store!Idle => Store!NextVersion(txn'[u].read) \in 1..MaxVersion
    BY <1>6 DEF StoreOver
  <1> QED
    BY <1>3, <1>5, <1>6, <1>7 DEF StoreOver, Store!NextVersion

(* A session that is given up leaves nothing.                              *)
LEMMA SaveGivenUp ==
  ASSUME NEW G, StoreOver(G), NEW w \in Threads,
         txn' = [txn EXCEPT ![w] = Store!Idle],
         UNCHANGED <<policies, policy_versions>>
  PROVE  StoreOver(G)'
  <1>1. /\ txn' \in [Threads -> TxnsOver(G) \cup {Store!Idle}]
        /\ txn'[w] = Store!Idle
        /\ \A u \in Threads : u # w => txn'[u] = txn[u]
    BY DEF StoreOver
  <1>2. \A u \in Threads : txn'[u] # Store!Idle => Store!NextVersion(txn'[u].read) \in 1..MaxVersion
    BY <1>1 DEF StoreOver
  <1> QED
    BY <1>1, <1>2 DEF StoreOver, Store!NextVersion

(* A step that leaves the store alone.                                     *)
LEMMA StoreLeftAlone ==
  ASSUME NEW G, StoreOver(G), UNCHANGED store
  PROVE  StoreOver(G)'
  BY DEF StoreOver, store, Store!NextVersion

-----------------------------------------------------------------------------
(* Every step keeps the invariant.                                         *)

(* A queued request brings an operation of its own; no tree changes.       *)
LEMMA EnqueueKeeps ==
  ASSUME GateInv, NEW r \in Requests, Enqueue(r)
  PROVE  GateInv'
  <1>1. Len(CurrentRules) \in Nat
    BY DEF CurrentRules, CurrentTree, GateInv, StoreOver, RowsOver, DataOver, TreesOver
  <1>2. ops'[r] \in OpsOf(r) /\ \A q \in Requests : q # r => ops'[q] = ops[q]
    BY <1>1 DEF Enqueue, GateInv, QueueTypes, RuleOps, TextOps, OpsOf
  <1>3. ops' = [q \in Requests |-> ops'[q]]
    BY DEF Enqueue, GateInv, QueueTypes
  <1>4. status' \in [Requests -> {"none", "queued", "approved", "rejected"}]
    BY DEF Enqueue, GateInv, QueueTypes
  <1>5. QueueTypes'
    BY <1>2, <1>3, <1>4 DEF Enqueue, GateInv, QueueTypes
  <1>6. granted' = granted /\ job' = job
    BY DEF Enqueue
  <1>7. StoreOver(granted)'
    BY StoreLeftAlone DEF Enqueue, GateInv, StoreOver, store, Store!NextVersion
  <1> QED
    BY <1>5, <1>6, <1>7 DEF GateInv

(* A handler that has read its request knows which one it is.              *)
LEMMA ResolveGetKeeps ==
  ASSUME GateInv, NEW w \in Threads, NEW r \in Requests, NEW approve \in BOOLEAN,
         ResolveGet(w, r, approve)
  PROVE  GateInv'
  <1>1. job' \in [Threads -> JobsOver(granted)]
    BY DEF ResolveGet, GateInv, JobsOver
  <1>2. QueueTypes'
    BY DEF ResolveGet, Begin, queue, GateInv, QueueTypes
  <1>3. StoreOver(granted)'
    BY DEF ResolveGet, store, queue, GateInv, StoreOver, Store!NextVersion
  <1> QED
    BY <1>1, <1>2, <1>3 DEF GateInv, ResolveGet, queue

(* Only an approval lets a handler go on, and it grants the request first. *)
LEMMA ResolveCommitKeeps ==
  ASSUME GateInv, NEW w \in Threads, ResolveCommit(w)
  PROVE  GateInv'
  <1> DEFINE r == job[w].req
  <1>1. r \in Requests /\ job[w].approve \in BOOLEAN
    BY DEF ResolveCommit, GateInv, JobsOver
  <1>2. /\ granted' = IF job[w].approve THEN granted \cup {r} ELSE granted
        /\ granted \subseteq granted' /\ granted' \subseteq Requests
    BY <1>1 DEF ResolveCommit, GateInv, QueueTypes
  <1>3. job'[w] \in JobsOver(granted')
    BY <1>2 DEF ResolveCommit, GateInv, JobsOver, Idle
  <1>4. job' \in [Threads -> JobsOver(granted')]
    BY <1>2, <1>3, OverMonotonic DEF ResolveCommit, GateInv
  <1>5. StoreOver(granted')
    BY <1>2, StoreOverMonotonic DEF GateInv
  <1>6. StoreOver(granted)'
    BY <1>5 DEF StoreOver, ResolveCommit, store, Store!NextVersion
  <1>7. status' \in [Requests -> {"none", "queued", "approved", "rejected"}]
    BY <1>1 DEF ResolveCommit, GateInv, QueueTypes
  <1>8. QueueTypes'
    BY <1>2, <1>7 DEF ResolveCommit, GateInv, QueueTypes
  <1> QED
    BY <1>4, <1>6, <1>8 DEF GateInv

(* What a handler is about to save is made of granted rules (ApplyKeepsRules). *)
LEMMA MaterialiseLoadKeeps ==
  ASSUME GateInv, NEW w \in Threads, MaterialiseLoad(w)
  PROVE  GateInv'
  <1> DEFINE r == job[w].req
             new == ApplyTreeOp(CurrentRules, ops[r])
  <1>1. r \in granted /\ r \in Requests
    BY DEF MaterialiseLoad, GateInv, JobsOver, QueueTypes
  <1>2. CurrentRules \in Seq(RulesOver(granted))
    BY DEF CurrentRules, CurrentTree, GateInv, StoreOver, RowsOver, DataOver, TreesOver
  <1>3. new \in Seq(RulesOver(granted))
    BY <1>1, <1>2, ApplyKeepsRules DEF RulesOver, GateInv, QueueTypes
  <1>4. job'[w] \in JobsOver(granted)
    BY <1>1, <1>3 DEF MaterialiseLoad, GateInv, JobsOver, Idle
  <1>5. job' \in [Threads -> JobsOver(granted)]
    BY <1>4 DEF MaterialiseLoad, GateInv
  <1>6. QueueTypes' /\ StoreOver(granted)'
    BY DEF MaterialiseLoad, queue, store, GateInv, QueueTypes, StoreOver, Store!NextVersion
  <1> QED
    BY <1>5, <1>6 DEF GateInv, MaterialiseLoad, queue

(* A text lands for a granted request only.                                *)
LEMMA MaterialiseTextKeeps ==
  ASSUME GateInv, NEW w \in Threads, MaterialiseText(w)
  PROVE  GateInv'
  <1>1. job[w].req \in granted /\ job[w].req \in Requests
    BY DEF MaterialiseText, GateInv, JobsOver, QueueTypes
  <1>2. landed' \in [Requests -> Nat] /\ \A r \in Requests : landed'[r] > 0 => r \in granted
    BY <1>1 DEF MaterialiseText, GateInv, QueueTypes
  <1>3. job' \in [Threads -> JobsOver(granted)]
    BY DEF MaterialiseText, GateInv, JobsOver, Idle
  <1>4. QueueTypes' /\ StoreOver(granted)'
    BY <1>2 DEF MaterialiseText, queue, store, GateInv, QueueTypes, StoreOver, Store!NextVersion
  <1> QED
    BY <1>3, <1>4 DEF GateInv, MaterialiseText, queue

(* The handler hands its tree to the store as it is.                       *)
LEMMA MaterialiseSaveKeeps ==
  ASSUME GateInv, NEW w \in Threads, MaterialiseSave(w)
  PROVE  GateInv'
  <1>1. /\ job[w].req \in granted
        /\ [rules |-> job[w].rules, said |-> FALSE] \in TreesOver(granted)
    BY DEF MaterialiseSave, GateInv, JobsOver, TreesOver
  <1>2. StoreOver(granted)'
    BY <1>1, SaveBegins DEF MaterialiseSave, GateInv, queue
  <1>3. job' \in [Threads -> JobsOver(granted)]
    BY <1>1 DEF MaterialiseSave, GateInv, JobsOver
  <1>4. QueueTypes'
    BY DEF MaterialiseSave, queue, GateInv, QueueTypes
  <1> QED
    BY <1>2, <1>3, <1>4 DEF GateInv, MaterialiseSave, queue

(* Training saves the learned rules, which need no grant.                  *)
LEMMA TrainKeeps ==
  ASSUME GateInv, NEW w \in Threads, Train(w)
  PROVE  GateInv'
  <1>1. StoreOver(granted)'
    BY FirstTreeOver, SaveBegins DEF Train, GateInv, queue
  <1>2. job' \in [Threads -> JobsOver(granted)]
    BY DEF Train, GateInv, JobsOver
  <1>3. runs' \in 0..MaxRuns
    BY DEF Train, GateInv, QueueTypes
  <1>4. QueueTypes'
    BY <1>3 DEF Train, Begin, queue, GateInv, QueueTypes
  <1> QED
    BY <1>1, <1>2, <1>4 DEF GateInv, Train, queue

(* A description is of the rules that are there.                           *)
LEMMA DescribedOver ==
  ASSUME GateInv, NEW said \in BOOLEAN
  PROVE  Described(said) \in TreesOver(granted)
  BY DEF Described, CurrentRules, CurrentTree, GateInv, StoreOver, RowsOver, DataOver, TreesOver

(* A description takes the rules of the current tree.                      *)
LEMMA DescribeKeeps ==
  ASSUME GateInv, NEW w \in Threads, Describe(w)
  PROVE  GateInv'
  <1>1. job' \in [Threads -> JobsOver(granted)]
    <2> PICK said \in BOOLEAN :
               job' = [job EXCEPT ![w] = [pc |-> "describe", tree |-> Described(said)]]
      BY DEF Describe
    <2> QED
      BY DescribedOver DEF GateInv, JobsOver
  <1>2. runs' \in 0..MaxRuns
    BY DEF Describe, GateInv, QueueTypes
  <1>3. QueueTypes'
    BY <1>2 DEF Describe, Begin, queue, GateInv, QueueTypes
  <1>4. StoreOver(granted)'
    BY DEF Describe, queue, store, GateInv, StoreOver, Store!NextVersion
  <1> QED
    BY <1>1, <1>3, <1>4 DEF GateInv, Describe, queue

(* So does the description that follows a training.                        *)
LEMMA DescribeTrainedKeeps ==
  ASSUME GateInv, NEW w \in Threads, DescribeTrained(w)
  PROVE  GateInv'
  <1>1. job' \in [Threads -> JobsOver(granted)]
    <2> PICK said \in BOOLEAN :
               job' = [job EXCEPT ![w] = IF CurrentRules = <<>> THEN Idle
                                         ELSE [pc |-> "describe", tree |-> Described(said)]]
      BY DEF DescribeTrained
    <2> QED
      BY DescribedOver DEF GateInv, JobsOver, Idle
  <1>2. QueueTypes' /\ StoreOver(granted)'
    BY DEF DescribeTrained, queue, store, GateInv, QueueTypes, StoreOver, Store!NextVersion
  <1> QED
    BY <1>1, <1>2 DEF GateInv, DescribeTrained, queue

(* And it hands them to the store as they are.                             *)
LEMMA DescribeSaveKeeps ==
  ASSUME GateInv, NEW w \in Threads, DescribeSave(w)
  PROVE  GateInv'
  <1>1. job[w].tree \in TreesOver(granted)
    BY DEF DescribeSave, GateInv, JobsOver
  <1>2. StoreOver(granted)'
    BY <1>1, SaveBegins DEF DescribeSave, GateInv, queue
  <1>3. job' \in [Threads -> JobsOver(granted)]
    BY DEF DescribeSave, GateInv, JobsOver
  <1>4. QueueTypes'
    BY DEF DescribeSave, queue, GateInv, QueueTypes
  <1> QED
    BY <1>2, <1>3, <1>4 DEF GateInv, DescribeSave, queue

(* The steps of the session itself: the look for the snapshot, the commit, the conflict. *)
LEMMA SaveKeeps ==
  ASSUME GateInv, NEW w \in Threads, Save(w)
  PROVE  GateInv'
  <1>1. CASE Check(w)
    <2>1. StoreOver(granted)'
      BY <1>1, SaveChecks DEF Check, GateInv, queue
    <2> QED
      BY <1>1, <2>1 DEF Check, queue, GateInv, QueueTypes
  <1>2. CASE Commit(w)
    <2>1. StoreOver(granted)'
      BY <1>2, SaveCommits DEF Commit, GateInv, queue
    <2>2. job' \in [Threads -> JobsOver(granted)]
      BY <1>2 DEF Commit, GateInv, JobsOver, Idle
    <2>3. landed' \in [Requests -> Nat] /\ \A r \in Requests : landed'[r] > 0 => r \in granted
      <3>1. job[w].pc = "landing" => job[w].req \in Requests /\ job[w].req \in granted
        BY DEF GateInv, JobsOver, QueueTypes
      <3> QED
        BY <1>2, <3>1 DEF Commit, GateInv, QueueTypes
    <2>4. QueueTypes'
      BY <1>2, <2>3 DEF Commit, queue, GateInv, QueueTypes
    <2> QED
      BY <1>2, <2>1, <2>2, <2>4 DEF Commit, GateInv, queue
  <1>3. CASE Conflicted(w)
    <2>1. StoreOver(granted)'
      BY <1>3, SaveGivenUp DEF Conflicted, Store!UpsertConflict, GateInv, queue
    <2>2. job' \in [Threads -> JobsOver(granted)]
      BY <1>3 DEF Conflicted, GateInv, JobsOver, Idle
    <2>3. QueueTypes'
      BY <1>3 DEF Conflicted, queue, GateInv, QueueTypes
    <2> QED
      BY <1>3, <2>1, <2>2, <2>3 DEF Conflicted, GateInv, queue
  <1> QED
    BY <1>1, <1>2, <1>3 DEF Save

(* A failure drops what the thread had in hand.                            *)
LEMMA FailKeeps ==
  ASSUME GateInv, NEW w \in Threads, Fail(w)
  PROVE  GateInv'
  <1>1. StoreOver(granted)'
    BY SaveGivenUp DEF Fail, GateInv
  <1>2. job' \in [Threads -> JobsOver(granted)]
    BY DEF Fail, GateInv, JobsOver, Idle
  <1>3. lost' \subseteq Requests
    BY DEF Fail, GateInv, JobsOver, QueueTypes
  <1>4. QueueTypes'
    BY <1>3 DEF Fail, GateInv, QueueTypes
  <1> QED
    BY <1>1, <1>2, <1>4 DEF GateInv, Fail

(* GateInv is inductive: one step per action.                              *)
LEMMA NextGateInv == GateInv /\ [Next]_vars => GateInv'
  <1> SUFFICES ASSUME GateInv, [Next]_vars PROVE GateInv'
    OBVIOUS
  <1>1. ASSUME NEW r \in Requests, Enqueue(r) PROVE GateInv'
    BY <1>1, EnqueueKeeps
  <1>2. ASSUME NEW w \in Reviewers, ReviewerNext(w) PROVE GateInv'
    <2>1. w \in Threads
      BY DEF Threads
    <2> QED
      BY <1>2, <2>1, ResolveGetKeeps, ResolveCommitKeeps, MaterialiseLoadKeeps,
         MaterialiseTextKeeps, MaterialiseSaveKeeps, SaveKeeps DEF ReviewerNext, ReviewerStep
  <1>3. ASSUME NEW w \in Authors, AuthorNext(w) PROVE GateInv'
    <2>1. w \in Threads
      BY DEF Threads
    <2> QED
      BY <1>3, <2>1, TrainKeeps, DescribeKeeps, DescribeTrainedKeeps, DescribeSaveKeeps,
         SaveKeeps DEF AuthorNext
  <1>4. ASSUME NEW w \in Threads, Fail(w) PROVE GateInv'
    BY <1>4, FailKeeps
  <1>5. CASE UNCHANGED vars
    BY <1>5 DEF vars, store, queue, GateInv, QueueTypes, StoreOver, Store!NextVersion
  <1> QED
    BY <1>1, <1>2, <1>3, <1>4, <1>5 DEF Next

-----------------------------------------------------------------------------
(* Reachable states satisfy the invariant, and so the types: every tree,
   version, session and job is what the code can store (policy_store.py).  *)
THEOREM Gated == Spec => []GateInv
  BY InitGateInv, NextGateInv, PTL DEF Spec

(* Type correctness of queue and store (policy_store.py), for every instance. *)
THEOREM TypeCorrect == Spec => []TypeOK
  BY Gated, GateInvTypes, PTL

(* The human gate, however reviewers, trainings and descriptions overlap
   and fail: no rule gets into the tree, into a version of it or into the
   hands of a session that saves, but by training or by an approval
   (_side_fx, resolve_change_request).                                     *)
THEOREM HumanGateHolds == Spec => []HumanGate
  BY Gated, GateInvGates, PTL

-----------------------------------------------------------------------------
(* Threads that do not overlap.  As long as none has, at most one is at    *)
(* work; its request stands as the job supposes, and the tree it loaded is *)
(* still the current one.                                                  *)

Standing(w) ==
  /\ job[w].pc = "decide" => status[job[w].req] = "queued"
  /\ job[w].pc \in {"load", "save", "landing"} =>
       status[job[w].req] = "approved" /\ landed[job[w].req] = 0

(* The rules a thread is about to commit.                                  *)
Asked(w) ==
  CASE job[w].pc = "landing" -> ApplyTreeOp(CurrentRules, ops[job[w].req])
    [] job[w].pc = "trained" -> Learned
    [] OTHER                 -> CurrentRules

Saving(w) == job[w].pc \in {"landing", "trained", "described"}

InHand(w) ==
  /\ job[w].pc = "save" => job[w].rules = ApplyTreeOp(CurrentRules, ops[job[w].req])
  /\ job[w].pc = "describe" => job[w].tree.rules = CurrentRules
  /\ Saving(w) => txn[w].read = policies[TreeNode] /\ txn[w].data.src.rules = Asked(w)
  /\ ~Saving(w) => txn[w] = Store!Idle

Resting(w) == job[w] = Idle /\ txn[w] = Store!Idle

SerialInv == ~overlapped =>
  /\ \A r \in Requests : landed[r] > 0 => landed[r] = 1 /\ status[r] = "approved"
  /\ \A w \in Threads : Standing(w) /\ InHand(w)
  /\ \A u, w \in Threads : u # w => Resting(u) \/ Resting(w)

(* A thread at rest asks nothing.                                          *)
LEMMA RestingIsFine ==
  ASSUME NEW w \in Threads, Resting(w)
  PROVE  Standing(w) /\ InHand(w)
  BY DEF Resting, Standing, InHand, Saving, Idle

(* A thread with something in hand is the only one, if none has overlapped. *)
LEMMA OthersRest ==
  ASSUME SerialInv, ~overlapped, NEW w \in Threads, ~Resting(w)
  PROVE  \A u \in Threads : u # w => Resting(u)
  BY DEF SerialInv

(* It is enough to look at the thread that moves.                          *)
LEMMA OneMoves ==
  ASSUME NEW w \in Threads,
         \A u \in Threads : u # w => Resting(u)',
         ~overlapped' => Standing(w)' /\ InHand(w)',
         ~overlapped' => \A r \in Requests :
           landed'[r] > 0 => landed'[r] = 1 /\ status'[r] = "approved"
  PROVE  SerialInv'
  <1>1. \A u \in Threads : u # w => Standing(u)' /\ InHand(u)'
    BY DEF Resting, Standing, InHand, Saving, Idle
  <1> QED
    BY <1>1 DEF SerialInv

(* At the start nobody is at work.                                         *)
LEMMA InitSerial == Init => SerialInv
  <1> SUFFICES ASSUME Init PROVE SerialInv
    OBVIOUS
  <1>1. \A w \in Threads : Resting(w)
    BY DEF Init, Resting
  <1>2. \A r \in Requests : landed[r] = 0
    BY DEF Init
  <1> QED
    BY <1>1, <1>2, RestingIsFine DEF SerialInv

(* A new request is nobody's job yet.                                      *)
LEMMA EnqueueSerial ==
  ASSUME GateInv, SerialInv, NEW r \in Requests, Enqueue(r)
  PROVE  SerialInv'
  <1> SUFFICES ASSUME ~overlapped' PROVE SerialInv'
    BY DEF SerialInv
  <1>1. /\ ~overlapped
        /\ job' = job /\ txn' = txn /\ policies' = policies /\ landed' = landed
        /\ status[r] = "none" /\ status' = [status EXCEPT ![r] = "queued"]
        /\ \A q \in Requests : q # r => ops'[q] = ops[q]
    BY DEF Enqueue, store, GateInv, QueueTypes
  <1>2. \A q \in Requests : q # r => status'[q] = status[q]
    BY <1>1 DEF GateInv, QueueTypes
  <1>3. \A q \in Requests : landed'[q] > 0 => landed'[q] = 1 /\ status'[q] = "approved"
    BY <1>1, <1>2 DEF SerialInv
  <1>4. CurrentRules' = CurrentRules
    BY <1>1 DEF CurrentRules, CurrentTree
  <1>5. ASSUME NEW w \in Threads PROVE Standing(w)' /\ InHand(w)'
    <2>1. Standing(w) /\ InHand(w)
      BY <1>1 DEF SerialInv
    <2>2. job[w].pc \in {"decide", "load", "save", "landing"} => job[w].req \in Requests /\ job[w].req # r
      BY <1>1, <2>1 DEF Standing, GateInv, JobsOver, QueueTypes
    <2>3. Standing(w)'
      BY <1>1, <1>2, <2>1, <2>2 DEF Standing
    <2>4. Asked(w)' = Asked(w)
      BY <1>1, <1>4, <2>2 DEF Asked
    <2>5. InHand(w)'
      BY <1>1, <1>4, <2>1, <2>2, <2>4 DEF InHand, Saving
    <2> QED
      BY <2>3, <2>5
  <1>6. \A u, w \in Threads : u # w => Resting(u)' \/ Resting(w)'
    BY <1>1 DEF SerialInv, Resting
  <1> QED
    BY <1>3, <1>5, <1>6 DEF SerialInv

(* Whoever begins while no thread overlaps finds all others at rest.       *)
LEMMA BeginAlone ==
  ASSUME SerialInv, NEW w \in Threads, Begin(w), ~overlapped'
  PROVE  ~overlapped /\ \A u \in Threads : Resting(u)
  <1>1. ~overlapped /\ \A u \in Threads : job[u] = Idle
    BY DEF Begin
  <1>2. \A u \in Threads : InHand(u) /\ ~Saving(u)
    BY <1>1 DEF SerialInv, Saving, Idle
  <1> QED
    BY <1>1, <1>2 DEF InHand, Resting

(* A handler that begins alone has a request that is queued and has not landed. *)
LEMMA ResolveGetSerial ==
  ASSUME GateInv, SerialInv, NEW w \in Threads, NEW r \in Requests, NEW approve \in BOOLEAN,
         ResolveGet(w, r, approve)
  PROVE  SerialInv'
  <1> SUFFICES ASSUME ~overlapped' PROVE SerialInv'
    BY DEF SerialInv
  <1>1. ~overlapped /\ \A u \in Threads : Resting(u)
    BY BeginAlone DEF ResolveGet
  <1>2. /\ txn' = txn /\ status' = status /\ landed' = landed
        /\ job'[w] = [pc |-> "decide", req |-> r, approve |-> approve]
        /\ \A u \in Threads : u # w => job'[u] = job[u]
    BY DEF ResolveGet, store, queue, GateInv
  <1>3. Standing(w)' /\ InHand(w)'
    BY <1>1, <1>2 DEF ResolveGet, Standing, InHand, Saving, Resting
  <1>4. \A u \in Threads : u # w => Resting(u)'
    BY <1>1, <1>2 DEF Resting
  <1> QED
    BY <1>1, <1>2, <1>3, <1>4, OneMoves DEF SerialInv

(* A step of a thread that is at work, within its job.                     *)
LEMMA AtWork ==
  ASSUME SerialInv, ~overlapped, NEW w \in Threads, job[w] # Idle \/ txn[w] # Store!Idle,
         \A u \in Threads : u # w => job'[u] = job[u] /\ txn'[u] = txn[u]
  PROVE  \A u \in Threads : u # w => Resting(u)'
  <1>1. \A u \in Threads : u # w => Resting(u)
    BY OthersRest DEF Resting
  <1> QED
    BY <1>1 DEF Resting

(* It approves or rejects that request, which has still not landed.        *)
LEMMA ResolveCommitSerial ==
  ASSUME GateInv, SerialInv, NEW w \in Threads, ResolveCommit(w)
  PROVE  SerialInv'
  <1> SUFFICES ASSUME ~overlapped' PROVE SerialInv'
    BY DEF SerialInv
  <1> DEFINE r == job[w].req
  <1>1. /\ ~overlapped /\ job[w].pc = "decide" /\ job[w] # Idle
        /\ r \in Requests /\ job[w].approve \in BOOLEAN
        /\ txn' = txn /\ policies' = policies /\ landed' = landed
    BY DEF ResolveCommit, store, Idle, GateInv, JobsOver
  <1>2. /\ status'[r] = IF job[w].approve THEN "approved" ELSE "rejected"
        /\ \A q \in Requests : q # r => status'[q] = status[q]
        /\ job'[w] = IF job[w].approve THEN [pc |-> "load", req |-> r] ELSE Idle
        /\ \A u \in Threads : u # w => job'[u] = job[u]
    BY <1>1 DEF ResolveCommit, GateInv, QueueTypes
  <1>3. status[r] = "queued" /\ txn[w] = Store!Idle
    BY <1>1 DEF SerialInv, Standing, InHand, Saving
  <1>4. landed[r] = 0
    <2>1. landed[r] \in Nat
      BY <1>1 DEF GateInv, QueueTypes
    <2>2. ~(landed[r] > 0)
      BY <1>1, <1>3 DEF SerialInv
    <2> QED
      BY <2>1, <2>2
  <1>5. Standing(w)' /\ InHand(w)'
    BY <1>1, <1>2, <1>3, <1>4 DEF Standing, InHand, Saving, Idle
  <1>6. \A u \in Threads : u # w => Resting(u)'
    BY <1>1, <1>2, AtWork
  <1>7. \A q \in Requests : landed'[q] > 0 => landed'[q] = 1 /\ status'[q] = "approved"
    BY <1>1, <1>2, <1>4 DEF SerialInv
  <1> QED
    BY <1>5, <1>6, <1>7, OneMoves

(* What it is about to save is the current tree with the operation applied.*)
LEMMA MaterialiseLoadSerial ==
  ASSUME GateInv, SerialInv, NEW w \in Threads, MaterialiseLoad(w)
  PROVE  SerialInv'
  <1> SUFFICES ASSUME ~overlapped' PROVE SerialInv'
    BY DEF SerialInv
  <1> DEFINE new == ApplyTreeOp(CurrentRules, ops[job[w].req])
  <1>1. /\ ~overlapped /\ job[w].pc = "load" /\ job[w] # Idle
        /\ txn' = txn /\ policies' = policies /\ landed' = landed
        /\ status' = status /\ ops' = ops
    BY DEF MaterialiseLoad, store, queue, Idle
  <1>2. /\ job'[w] = IF new = CurrentRules THEN Idle
                     ELSE [pc |-> "save", req |-> job[w].req, rules |-> new]
        /\ \A u \in Threads : u # w => job'[u] = job[u]
    BY DEF MaterialiseLoad, GateInv
  <1>3. /\ txn[w] = Store!Idle
        /\ status[job[w].req] = "approved" /\ landed[job[w].req] = 0
    BY <1>1 DEF SerialInv, Standing, InHand, Saving
  <1>4. CurrentRules' = CurrentRules
    BY <1>1 DEF CurrentRules, CurrentTree
  <1>5. Standing(w)' /\ InHand(w)'
    BY <1>1, <1>2, <1>3, <1>4 DEF Standing, InHand, Saving, Idle
  <1>6. \A u \in Threads : u # w => Resting(u)'
    BY <1>1, <1>2, AtWork
  <1> QED
    BY <1>1, <1>5, <1>6, OneMoves DEF SerialInv

(* A text lands once, for its job ends with it.                            *)
LEMMA MaterialiseTextSerial ==
  ASSUME GateInv, SerialInv, NEW w \in Threads, MaterialiseText(w)
  PROVE  SerialInv'
  <1> SUFFICES ASSUME ~overlapped' PROVE SerialInv'
    BY DEF SerialInv
  <1> DEFINE r == job[w].req
  <1>1. /\ ~overlapped /\ job[w].pc = "load" /\ job[w] # Idle
        /\ txn' = txn /\ policies' = policies /\ status' = status
        /\ job' = [job EXCEPT ![w] = Idle]
    BY DEF MaterialiseText, store, queue, Idle
  <1>2. /\ job'[w] = Idle
        /\ \A u \in Threads : u # w => job'[u] = job[u]
    BY <1>1 DEF GateInv
  <1>3. /\ r \in Requests /\ txn[w] = Store!Idle
        /\ status[r] = "approved" /\ landed[r] = 0
    BY <1>1 DEF SerialInv, Standing, InHand, Saving, GateInv, JobsOver, QueueTypes
  <1>4. Standing(w)' /\ InHand(w)'
    BY <1>1, <1>2, <1>3 DEF Standing, InHand, Saving, Idle
  <1>5. \A u \in Threads : u # w => Resting(u)'
    BY <1>1, <1>2, AtWork
  <1>6. \A q \in Requests : landed'[q] > 0 => landed'[q] = 1 /\ status'[q] = "approved"
    BY <1>1, <1>3 DEF MaterialiseText, SerialInv, GateInv, QueueTypes
  <1> QED
    BY <1>4, <1>5, <1>6, OneMoves

(* The save of a job begins with the row as it is.                         *)
LEMMA MaterialiseSaveSerial ==
  ASSUME GateInv, SerialInv, NEW w \in Threads, MaterialiseSave(w)
  PROVE  SerialInv'
  <1> SUFFICES ASSUME ~overlapped' PROVE SerialInv'
    BY DEF SerialInv
  <1>1. /\ ~overlapped /\ job[w].pc = "save" /\ job[w] # Idle
        /\ policies' = policies /\ landed' = landed /\ status' = status /\ ops' = ops
    BY DEF MaterialiseSave, Store!UpsertGet, queue, Idle
  <1>2. /\ job'[w] = [pc |-> "landing", req |-> job[w].req]
        /\ txn'[w].read = policies[TreeNode]
        /\ txn'[w].data.src.rules = job[w].rules
        /\ \A u \in Threads : u # w => job'[u] = job[u] /\ txn'[u] = txn[u]
    BY DEF MaterialiseSave, Store!UpsertGet, Store!Fresh, GateInv, StoreOver
  <1>3. /\ job[w].rules = ApplyTreeOp(CurrentRules, ops[job[w].req])
        /\ status[job[w].req] = "approved" /\ landed[job[w].req] = 0
    BY <1>1 DEF SerialInv, Standing, InHand
  <1>4. CurrentRules' = CurrentRules
    BY <1>1 DEF CurrentRules, CurrentTree
  <1>5. Standing(w)'
    BY <1>1, <1>2, <1>3 DEF Standing
  <1>6. Saving(w)' /\ Asked(w)' = job[w].rules
    BY <1>1, <1>2, <1>3, <1>4 DEF Asked, Saving
  <1>7. InHand(w)'
    BY <1>1, <1>2, <1>6 DEF InHand
  <1>8. \A u \in Threads : u # w => Resting(u)'
    BY <1>1, <1>2, AtWork
  <1> QED
    BY <1>1, <1>5, <1>7, <1>8, OneMoves DEF SerialInv

(* A training that begins alone holds the learned rules.                   *)
LEMMA TrainSerial ==
  ASSUME GateInv, SerialInv, NEW w \in Threads, Train(w)
  PROVE  SerialInv'
  <1> SUFFICES ASSUME ~overlapped' PROVE SerialInv'
    BY DEF SerialInv
  <1>1. ~overlapped /\ \A u \in Threads : Resting(u)
    BY BeginAlone DEF Train
  <1>2. /\ policies' = policies /\ status' = status /\ landed' = landed
        /\ job'[w] = [pc |-> "trained"]
        /\ txn'[w].read = policies[TreeNode] /\ txn'[w].data.src.rules = Learned
        /\ \A u \in Threads : u # w => job'[u] = job[u] /\ txn'[u] = txn[u]
    BY DEF Train, Store!UpsertGet, Store!Fresh, FirstTree, queue, GateInv, StoreOver
  <1>3. Standing(w)'
    BY <1>2 DEF Standing
  <1>4. Saving(w)' /\ Asked(w)' = Learned
    BY <1>2 DEF Asked, Saving
  <1>5. InHand(w)'
    BY <1>2, <1>4 DEF InHand
  <1>6. \A u \in Threads : u # w => Resting(u)'
    BY <1>1, <1>2 DEF Resting
  <1> QED
    BY <1>1, <1>2, <1>3, <1>5, <1>6, OneMoves DEF SerialInv

(* A description that begins alone holds the rules of the current tree.    *)
LEMMA DescribeSerial ==
  ASSUME GateInv, SerialInv, NEW w \in Threads, Describe(w)
  PROVE  SerialInv'
  <1> SUFFICES ASSUME ~overlapped' PROVE SerialInv'
    BY DEF SerialInv
  <1>1. ~overlapped /\ \A u \in Threads : Resting(u)
    BY BeginAlone DEF Describe
  <1>2. /\ txn' = txn /\ policies' = policies /\ status' = status /\ landed' = landed
        /\ job'[w].pc = "describe" /\ job'[w].tree.rules = CurrentRules
        /\ \A u \in Threads : u # w => job'[u] = job[u]
    BY DEF Describe, Described, store, queue, GateInv
  <1>3. CurrentRules' = CurrentRules
    BY <1>2 DEF CurrentRules, CurrentTree
  <1>4. Standing(w)' /\ InHand(w)'
    BY <1>1, <1>2, <1>3 DEF Standing, InHand, Saving, Resting
  <1>5. \A u \in Threads : u # w => Resting(u)'
    BY <1>1, <1>2 DEF Resting
  <1> QED
    BY <1>1, <1>2, <1>4, <1>5, OneMoves DEF SerialInv

(* The same for the one that follows a training.                           *)
LEMMA DescribeTrainedSerial ==
  ASSUME GateInv, SerialInv, NEW w \in Threads, DescribeTrained(w)
  PROVE  SerialInv'
  <1> SUFFICES ASSUME ~overlapped' PROVE SerialInv'
    BY DEF SerialInv
  <1>1. /\ ~overlapped /\ job[w].pc = "describeTrained" /\ job[w] # Idle
        /\ txn' = txn /\ policies' = policies /\ status' = status /\ landed' = landed
    BY DEF DescribeTrained, store, queue, Idle
  <1>2. /\ job'[w] = Idle \/ (job'[w].pc = "describe" /\ job'[w].tree.rules = CurrentRules)
        /\ \A u \in Threads : u # w => job'[u] = job[u]
    BY DEF DescribeTrained, Described, GateInv
  <1>3. txn[w] = Store!Idle
    BY <1>1 DEF SerialInv, InHand, Saving
  <1>4. CurrentRules' = CurrentRules
    BY <1>1 DEF CurrentRules, CurrentTree
  <1>5. Standing(w)' /\ InHand(w)'
    BY <1>1, <1>2, <1>3, <1>4 DEF Standing, InHand, Saving, Idle
  <1>6. \A u \in Threads : u # w => Resting(u)'
    BY <1>1, <1>2, AtWork
  <1> QED
    BY <1>1, <1>5, <1>6, OneMoves DEF SerialInv

(* Its session then brings the current rules along.                        *)
LEMMA DescribeSaveSerial ==
  ASSUME GateInv, SerialInv, NEW w \in Threads, DescribeSave(w)
  PROVE  SerialInv'
  <1> SUFFICES ASSUME ~overlapped' PROVE SerialInv'
    BY DEF SerialInv
  <1>1. /\ ~overlapped /\ job[w].pc = "describe" /\ job[w] # Idle
        /\ policies' = policies /\ landed' = landed /\ status' = status
    BY DEF DescribeSave, Store!UpsertGet, queue, Idle
  <1>2. /\ job'[w] = [pc |-> "described"]
        /\ txn'[w].read = policies[TreeNode] /\ txn'[w].data.src = job[w].tree
        /\ \A u \in Threads : u # w => job'[u] = job[u] /\ txn'[u] = txn[u]
    BY DEF DescribeSave, Store!UpsertGet, Store!Fresh, GateInv, StoreOver
  <1>3. job[w].tree.rules = CurrentRules
    BY <1>1 DEF SerialInv, InHand
  <1>4. CurrentRules' = CurrentRules
    BY <1>1 DEF CurrentRules, CurrentTree
  <1>5. Standing(w)'
    BY <1>2 DEF Standing
  <1>6. Saving(w)' /\ Asked(w)' = CurrentRules
    BY <1>2, <1>4 DEF Asked, Saving
  <1>7. InHand(w)'
    BY <1>1, <1>2, <1>3, <1>6 DEF InHand
  <1>8. \A u \in Threads : u # w => Resting(u)'
    BY <1>1, <1>2, AtWork
  <1> QED
    BY <1>1, <1>5, <1>7, <1>8, OneMoves DEF SerialInv

(* The look-up of the next version leaves what is in hand.                 *)
LEMMA CheckSerial ==
  ASSUME GateInv, SerialInv, NEW w \in Threads, Check(w)
  PROVE  SerialInv'
  <1> SUFFICES ASSUME ~overlapped' PROVE SerialInv'
    BY DEF SerialInv
  <1>1. /\ ~overlapped /\ txn[w] # Store!Idle
        /\ policies' = policies /\ job' = job /\ landed' = landed
        /\ status' = status /\ ops' = ops
    BY DEF Check, Store!UpsertCheck, Store!Idle, queue
  <1>2. /\ txn'[w].read = txn[w].read /\ txn'[w].data = txn[w].data
        /\ \A u \in Threads : u # w => txn'[u] = txn[u]
    <2>1. txn[w] \in TxnsOver(granted)
      BY <1>1 DEF GateInv, StoreOver
    <2> QED
      BY <2>1 DEF Check, Store!UpsertCheck, GateInv, StoreOver, TxnsOver
  <1>3. Saving(w) /\ Standing(w) /\ InHand(w)
    BY <1>1 DEF SerialInv, InHand
  <1>4. CurrentRules' = CurrentRules
    BY <1>1 DEF CurrentRules, CurrentTree
  <1>5. Standing(w)'
    BY <1>1, <1>3 DEF Standing
  <1>6. Saving(w)' /\ Asked(w)' = Asked(w)
    BY <1>1, <1>3, <1>4 DEF Asked, Saving
  <1>7. InHand(w)'
    BY <1>1, <1>2, <1>3, <1>6 DEF InHand, Saving
  <1>8. \A u \in Threads : u # w => Resting(u)'
    BY <1>1, <1>2, AtWork
  <1> QED
    BY <1>1, <1>5, <1>7, <1>8, OneMoves DEF SerialInv

(* A commit stores the rules the job asked for, and is over.               *)
LEMMA CommitStores ==
  ASSUME GateInv, SerialInv, NEW w \in Threads, Commit(w), ~overlapped
  PROVE  Saving(w) /\ CurrentRules' = Asked(w)
  <1> DEFINE t == txn[w]
             cur == policies[TreeNode]
  <1>1. t # Store!Idle /\ t.pc = "flush"
    BY DEF Commit, Store!UpsertCommit, Store!Idle
  <1>2. t \in TxnsOver(granted) /\ t.node = TreeNode
    BY <1>1 DEF GateInv, StoreOver, TxnsOver
  <1>3. Saving(w) /\ t.read = cur /\ t.data.src.rules = Asked(w)
    BY <1>1 DEF SerialInv, InHand
  <1>4. Store!Flushed(t).data = t.data
    BY <1>2, <1>3 DEF Store!Flushed, Store!Column
  <1>5. policies'[TreeNode] = Store!Flushed(t)
    BY <1>2 DEF Commit, Store!UpsertCommit, GateInv, StoreOver
  <1> QED
    BY <1>3, <1>4, <1>5 DEF CurrentRules, CurrentTree

(* A commit lands the operation that was approved, for the first time.     *)
LEMMA CommitSerial ==
  ASSUME GateInv, SerialInv, NEW w \in Threads, Commit(w)
  PROVE  SerialInv'
  <1> SUFFICES ASSUME ~overlapped' PROVE SerialInv'
    BY DEF SerialInv
  <1>1. /\ ~overlapped /\ txn[w] # Store!Idle /\ status' = status
        /\ \A u \in Threads : u # w => job'[u] = job[u] /\ txn'[u] = txn[u]
    BY DEF Commit, Store!UpsertCommit, Store!Idle, queue, GateInv, StoreOver
  <1>2. /\ txn'[w] = Store!Idle
        /\ job'[w] = Idle \/ job'[w] = [pc |-> "describeTrained"]
    BY DEF Commit, Store!UpsertCommit, GateInv, StoreOver
  <1>3. Standing(w)' /\ InHand(w)'
    BY <1>2 DEF Standing, InHand, Saving, Idle
  <1>4. \A u \in Threads : u # w => Resting(u)'
    BY <1>1, AtWork
  <1>5. ASSUME NEW q \in Requests, landed'[q] > 0
        PROVE  landed'[q] = 1 /\ status'[q] = "approved"
    <2>1. CASE job[w].pc = "landing"
      <3>1. job[w].req \in Requests /\ status[job[w].req] = "approved" /\ landed[job[w].req] = 0
        BY <1>1, <2>1 DEF SerialInv, Standing, GateInv, JobsOver, QueueTypes
      <3>2. landed' = [landed EXCEPT ![job[w].req] = @ + 1]
        BY <2>1 DEF Commit
      <3> QED
        BY <1>1, <1>5, <3>1, <3>2 DEF SerialInv, GateInv, QueueTypes
    <2>2. CASE job[w].pc # "landing"
      BY <1>1, <1>5, <2>2 DEF Commit, SerialInv
    <2> QED
      BY <2>1, <2>2
  <1> QED
    BY <1>1, <1>3, <1>4, <1>5, OneMoves

(* A job that ends early leaves its thread at rest.                        *)
LEMMA EndsSerial ==
  ASSUME GateInv, SerialInv, NEW w \in Threads, Conflicted(w) \/ Fail(w)
  PROVE  SerialInv'
  <1> SUFFICES ASSUME ~overlapped' PROVE SerialInv'
    BY DEF SerialInv
  <1>1. /\ ~overlapped
        /\ job[w] # Idle \/ txn[w] # Store!Idle
        /\ status' = status /\ landed' = landed
        /\ job' = [job EXCEPT ![w] = Idle] /\ txn' = [txn EXCEPT ![w] = Store!Idle]
    BY DEF Conflicted, Fail, Store!UpsertConflict, Store!Idle, queue
  <1>2. /\ Resting(w)'
        /\ \A u \in Threads : u # w => job'[u] = job[u] /\ txn'[u] = txn[u]
    BY <1>1 DEF GateInv, StoreOver, Resting
  <1>3. Standing(w)' /\ InHand(w)'
    BY <1>2 DEF Resting, Standing, InHand, Saving, Idle
  <1>4. \A u \in Threads : u # w => Resting(u)'
    BY <1>1, <1>2, AtWork
  <1> QED
    BY <1>1, <1>3, <1>4, OneMoves DEF SerialInv

(* SerialInv is inductive, on top of GateInv: one step per action.         *)
LEMMA NextSerial == GateInv /\ SerialInv /\ [Next]_vars => SerialInv'
  <1> SUFFICES ASSUME GateInv, SerialInv, [Next]_vars PROVE SerialInv'
    OBVIOUS
  <1>1. ASSUME NEW r \in Requests, Enqueue(r) PROVE SerialInv'
    BY <1>1, EnqueueSerial
  <1>2. ASSUME NEW w \in Threads, Save(w) PROVE SerialInv'
    BY <1>2, CheckSerial, CommitSerial, EndsSerial DEF Save
  <1>3. ASSUME NEW w \in Reviewers, ReviewerNext(w) PROVE SerialInv'
    <2>1. w \in Threads
      BY DEF Threads
    <2> QED
      BY <1>2, <1>3, <2>1, ResolveGetSerial, ResolveCommitSerial, MaterialiseLoadSerial,
         MaterialiseTextSerial, MaterialiseSaveSerial DEF ReviewerNext, ReviewerStep
  <1>4. ASSUME NEW w \in Authors, AuthorNext(w) PROVE SerialInv'
    <2>1. w \in Threads
      BY DEF Threads
    <2> QED
      BY <1>2, <1>4, <2>1, TrainSerial, DescribeSerial, DescribeTrainedSerial,
         DescribeSaveSerial DEF AuthorNext
  <1>5. ASSUME NEW w \in Threads, Fail(w) PROVE SerialInv'
    BY <1>5, EndsSerial
  <1>6. CASE UNCHANGED vars
    BY <1>6 DEF vars, store, queue, SerialInv, Standing, InHand, Saving, Asked, Resting,
       CurrentRules, CurrentTree
  <1> QED
    BY <1>1, <1>3, <1>4, <1>5, <1>6 DEF Next

(* What the thread at work knows (resolve_change_request, describe_rules) stays true. *)
THEOREM Serial == Spec => []SerialInv
  BY InitSerial, NextSerial, Gated, PTL DEF Spec

(* Without overlap an operation lands once, and only if its request stands
   approved (resolve_change_request).                                      *)
THEOREM LandsOnceHolds == Spec => []LandsOnce
  <1>1. SerialInv => LandsOnce
    BY DEF SerialInv, LandsOnce
  <1> QED
    BY <1>1, Serial, PTL

(* Without overlap a commit changes the rules as its job asks: a commit
   never lands on a tree that another thread has changed since it was read
   (_materialise_decision_rule, train_decision_tree, describe_rules).      *)
THEOREM CommitsExact == Spec => CommitIsExact
  <1>1. ASSUME GateInv, SerialInv, NEW w \in Threads, ~overlapped, Commit(w)
        PROVE  CASE job[w].pc = "landing"   -> CurrentRules' = ApplyTreeOp(CurrentRules, ops[job[w].req])
                 [] job[w].pc = "trained"   -> CurrentRules' = Learned
                 [] job[w].pc = "described" -> CurrentRules' = CurrentRules
    BY <1>1, CommitStores DEF Saving, Asked
  <1>2. GateInv /\ SerialInv /\ [Next]_vars =>
          [\A w \in Threads : ~overlapped /\ Commit(w) =>
             CASE job[w].pc = "landing"   -> CurrentRules' = ApplyTreeOp(CurrentRules, ops[job[w].req])
               [] job[w].pc = "trained"   -> CurrentRules' = Learned
               [] job[w].pc = "described" -> CurrentRules' = CurrentRules]_vars
    BY <1>1
  <1> QED
    BY <1>2, Gated, Serial, PTL DEF Spec, CommitIsExact

=============================================================================
