------------------------------ MODULE ChangeQueue ------------------------------
(***************************************************************************)
(* The change-request queue in front of one category's decision tree:      *)
(* enqueue_change_request, resolve_change_request, _materialise_request,   *)
(* _materialise_decision_rule (policy_store.py), and the two other authors *)
(* of the `{category}.rules` node, train_decision_tree (tree_train.py) and *)
(* describe_rules (tree_describe.py).                                      *)
(*                                                                         *)
(* All of them save through upsert_policy, so this module instantiates     *)
(* PolicyStore with the trees as contents, takes its session steps as they *)
(* are, and adds what happens before and after: the request's status, and  *)
(* the tree a thread loaded some time before it saves.                     *)
(***************************************************************************)
EXTENDS TreeOps, FiniteSets

CONSTANTS
  Requests,     \* change requests; a request stands for the rule it writes
  Learned,      \* the rules training yields, as a sequence
  Reviewers,    \* threads that resolve requests (one per HTTP call)
  Authors,      \* threads that train or describe the tree
  MaxVersion,   \* bound: versions of the tree
  MaxRuns,      \* bound: training and describe runs
  OpKinds,      \* the kinds of operation that labelling proposes here
  Failures,     \* whether a session, a model call or the process may fail
  NoRow,
  TreeNode      \* the policy id `{category}.rules`

Threads == Reviewers \cup Authors
Rules   == Requests \cup ToSet(Learned)

ASSUME BoundsAssumption  == MaxVersion \in Nat \ {0} /\ MaxRuns \in Nat
ASSUME LearnedAssumption == Learned \in Seq(ToSet(Learned))
NoOp    == [kind |-> "none"]

(* A tree as it is stored: its rules, and whether the default case has its *)
(* title and description (those of a rule ride in the rule, and no         *)
(* property reads them).  The node's text only says how many rules there   *)
(* are; the store's `text` stands for it.                                  *)
Trees == [rules : Seq(Rules), said : BOOLEAN]

VARIABLES
  policies, policy_versions,  \* the store's tables
  txn,       \* the store session of each thread
  status,    \* policy_change_requests.status
  ops,       \* the operation each request carries (proposed_change)
  aim,       \* the rule the proposer saw where its operation points
  job,       \* what each thread is doing outside the store
  landed,    \* how often a request's operation reached the tree, or its text a node
  granted,   \* the requests some reviewer approved
  lost,      \* the requests whose handler failed after approving them
  runs,      \* training and describe runs started
  overlapped \* history: a thread has begun while another was at work

store == <<policies, policy_versions, txn>>
queue == <<status, ops, aim, granted, lost>>
vars  == <<store, queue, job, landed, runs, overlapped>>

Store == INSTANCE PolicyStore
           WITH Nodes <- {TreeNode}, Contents <- Trees, Writers <- Threads,
                Snapshotters <- {}, MaxSets <- 0, MaxPins <- 0,
                policy_sets <- <<>>, snap <- <<>>, pins <- {}

Idle == [pc |-> "idle"]

(* The current rules: _current_decision_tree.                              *)
CurrentTree == policies[TreeNode].data.src
CurrentRules == CurrentTree.rules

(* Labelling proposes operations on a trained tree, so the tree starts at  *)
(* its first trained version.                                              *)
FirstTree == [rules |-> Learned, said |-> FALSE]

Init ==
  /\ policies = [n \in {TreeNode} |->
                  [version |-> 1, text |-> FirstTree, data |-> Store!Fresh(FirstTree)]]
  /\ policy_versions = [n \in {TreeNode} |-> [v \in 1..MaxVersion |->
                  IF v = 1 THEN [text |-> FirstTree, data |-> Store!Fresh(FirstTree)]
                  ELSE NoRow]]
  /\ txn = [w \in Threads |-> Store!Idle]
  /\ status = [r \in Requests |-> "none"]
  /\ ops = [r \in Requests |-> NoOp]
  /\ aim = [r \in Requests |-> <<>>]
  /\ job = [w \in Threads |-> Idle]
  /\ landed = [r \in Requests |-> 0]
  /\ granted = {}
  /\ lost = {}
  /\ runs = 0
  /\ overlapped = FALSE

-----------------------------------------------------------------------------
(* _side_fx queues what a review of the current tree asked for, or the     *)
(* free text of a gap that a bootstrap shot has found (`ok` if it is about *)
(* a known category).                                                      *)
TextOps(r) == [kind : {"text"}, at : {NoIndex}, ok : BOOLEAN, rule : {r}]

Enqueue(r) ==
  /\ status[r] = "none"
  /\ \E op \in RuleOps({r}, Len(CurrentRules)) \cup TextOps(r) :
       /\ op.kind \in OpKinds
       /\ ops' = [ops EXCEPT ![r] = op]
       /\ aim' = [aim EXCEPT ![r] = IF op.kind # "add" /\ InTree(CurrentRules, op)
                                    THEN <<CurrentRules[op.at + 1]>> ELSE <<>>]
  /\ status' = [status EXCEPT ![r] = "queued"]
  /\ UNCHANGED <<store, granted, lost, job, landed, runs, overlapped>>

-----------------------------------------------------------------------------
(* Nothing in the code keeps two of these threads off one tree.            *)
Begin(w) ==
  /\ job[w] = Idle
  /\ overlapped' = (overlapped \/ \E u \in Threads : job[u] # Idle)

(* resolve_change_request.  A request that is no longer queued is left     *)
(* alone, which is no step at all.                                         *)

(* Fault: a request that was decided before is decided again.              *)
ResolveGetAnew(w, r, approve) ==
  /\ Begin(w)
  /\ status[r] # "none"
  /\ job' = [job EXCEPT ![w] = [pc |-> "decide", req |-> r, approve |-> approve]]
  /\ UNCHANGED <<store, queue, landed, runs>>

ResolveGet(w, r, approve) ==
  /\ Begin(w)
  /\ status[r] = "queued"
  /\ job' = [job EXCEPT ![w] = [pc |-> "decide", req |-> r, approve |-> approve]]
  /\ UNCHANGED <<store, queue, landed, runs>>

(* Faults: the verb of the route is stored as the status; a rejected       *)
(* request is materialised as well; an approved one is only marked.        *)
ResolveCommitVerb(w) ==
  LET r == job[w].req
  IN  /\ job[w].pc = "decide"
      /\ status' = [status EXCEPT ![r] = IF job[w].approve THEN "approve" ELSE "reject"]
      /\ granted' = IF job[w].approve THEN granted \cup {r} ELSE granted
      /\ job' = [job EXCEPT ![w] = IF job[w].approve THEN [pc |-> "load", req |-> r] ELSE Idle]
      /\ UNCHANGED <<store, ops, aim, lost, landed, runs, overlapped>>

ResolveCommitAlways(w) ==
  LET r == job[w].req
  IN  /\ job[w].pc = "decide"
      /\ status' = [status EXCEPT ![r] = IF job[w].approve THEN "approved" ELSE "rejected"]
      /\ granted' = IF job[w].approve THEN granted \cup {r} ELSE granted
      /\ job' = [job EXCEPT ![w] = [pc |-> "load", req |-> r]]
      /\ UNCHANGED <<store, ops, aim, lost, landed, runs, overlapped>>

ResolveCommitMarks(w) ==
  LET r == job[w].req
  IN  /\ job[w].pc = "decide"
      /\ status' = [status EXCEPT ![r] = IF job[w].approve THEN "approved" ELSE "rejected"]
      /\ granted' = IF job[w].approve THEN granted \cup {r} ELSE granted
      /\ job' = [job EXCEPT ![w] = Idle]
      /\ UNCHANGED <<store, ops, aim, lost, landed, runs, overlapped>>

ResolveCommit(w) ==
  LET r == job[w].req
  IN  /\ job[w].pc = "decide"
      /\ status' = [status EXCEPT ![r] = IF job[w].approve THEN "approved" ELSE "rejected"]
      /\ granted' = IF job[w].approve THEN granted \cup {r} ELSE granted
      /\ job' = [job EXCEPT ![w] = IF job[w].approve THEN [pc |-> "load", req |-> r] ELSE Idle]
      /\ UNCHANGED <<store, ops, aim, lost, landed, runs, overlapped>>

(* Fault: the operation is applied to the tree as it was trained.          *)
MaterialiseLoadTrained(w) ==
  LET r   == job[w].req
      new == ApplyTreeOp(Learned, ops[r])
  IN  /\ job[w].pc = "load" /\ ops[r].kind # "text"
      /\ job' = [job EXCEPT ![w] = IF new = Learned THEN Idle
                                   ELSE [pc |-> "save", req |-> r, rules |-> new]]
      /\ UNCHANGED <<store, queue, landed, runs, overlapped>>

(* _materialise_decision_rule: load the tree, apply the operation; one     *)
(* that changes nothing is logged and nothing is saved.                    *)
MaterialiseLoad(w) ==
  LET r   == job[w].req
      new == ApplyTreeOp(CurrentRules, ops[r])
  IN  /\ job[w].pc = "load" /\ ops[r].kind # "text"
      /\ job' = [job EXCEPT ![w] = IF new = CurrentRules THEN Idle
                                   ELSE [pc |-> "save", req |-> r, rules |-> new]]
      /\ UNCHANGED <<store, queue, landed, runs, overlapped>>

(* upsert_decision_rule(category, new_rules, new_default): the node is     *)
(* written anew, without the default's title and description.              *)
MaterialiseSave(w) ==
  /\ job[w].pc = "save"
  /\ Store!UpsertGet(w, TreeNode, [rules |-> job[w].rules, said |-> FALSE])
  /\ job' = [job EXCEPT ![w] = [pc |-> "landing", req |-> job[w].req]]
  /\ UNCHANGED <<queue, landed, runs, overlapped>>

(* _materialise_request: a free text becomes a node of its own, named after *)
(* the request, unless its category is unknown.  Nobody else writes that   *)
(* node, so its session is one step.                                       *)
MaterialiseText(w) ==
  LET r == job[w].req
  IN  /\ job[w].pc = "load" /\ ops[r].kind = "text"
      /\ landed' = IF ops[r].ok THEN [landed EXCEPT ![r] = @ + 1] ELSE landed
      /\ job' = [job EXCEPT ![w] = Idle]
      /\ UNCHANGED <<store, queue, runs, overlapped>>

-----------------------------------------------------------------------------
(* train_decision_tree saves the learned rules, then has them described.   *)
Train(w) ==
  /\ Begin(w)
  /\ runs < MaxRuns
  /\ Store!UpsertGet(w, TreeNode, FirstTree)
  /\ job' = [job EXCEPT ![w] = [pc |-> "trained"]]
  /\ runs' = runs + 1
  /\ UNCHANGED <<queue, landed>>

(* describe_rules loads the tree and asks the language model, which may    *)
(* say nothing of the default case; a tree without rules is skipped.       *)
Described(said) == [rules |-> CurrentRules, said |-> said]

Describe(w) ==
  /\ Begin(w)
  /\ runs < MaxRuns
  /\ CurrentRules # <<>>
  /\ \E said \in BOOLEAN :
       job' = [job EXCEPT ![w] = [pc |-> "describe", tree |-> Described(said)]]
  /\ runs' = runs + 1
  /\ UNCHANGED <<store, queue, landed>>

DescribeTrained(w) ==
  /\ job[w].pc = "describeTrained"
  /\ \E said \in BOOLEAN :
       job' = [job EXCEPT ![w] = IF CurrentRules = <<>> THEN Idle
                                 ELSE [pc |-> "describe", tree |-> Described(said)]]
  /\ UNCHANGED <<store, queue, landed, runs, overlapped>>

DescribeSave(w) ==
  /\ job[w].pc = "describe"
  /\ Store!UpsertGet(w, TreeNode, job[w].tree)
  /\ job' = [job EXCEPT ![w] = [pc |-> "described"]]
  /\ UNCHANGED <<queue, landed, runs, overlapped>>

-----------------------------------------------------------------------------
(* The session a thread opened with one of the saves above goes on as the  *)
(* store has it.                                                           *)
Check(w) == Store!UpsertCheck(w) /\ UNCHANGED <<queue, job, landed, runs, overlapped>>

Commit(w) ==
  /\ Store!UpsertCommit(w)
  /\ job' = [job EXCEPT ![w] = IF @.pc = "trained" THEN [pc |-> "describeTrained"] ELSE Idle]
  /\ landed' = IF job[w].pc = "landing" THEN [landed EXCEPT ![job[w].req] = @ + 1] ELSE landed
  /\ UNCHANGED <<queue, runs, overlapped>>

(* The IntegrityError leaves the request as it is: approved.               *)
Conflicted(w) ==
  /\ Store!UpsertConflict(w)
  /\ job' = [job EXCEPT ![w] = Idle]
  /\ UNCHANGED <<queue, landed, runs, overlapped>>

(* An exception or a restart ends whatever the thread was doing.           *)
Fail(w) ==
  /\ Failures
  /\ job[w] # Idle
  /\ job' = [job EXCEPT ![w] = Idle]
  /\ txn' = [txn EXCEPT ![w] = Store!Idle]
  /\ lost' = IF job[w].pc \in {"load", "save", "landing"} THEN lost \cup {job[w].req} ELSE lost
  /\ UNCHANGED <<policies, policy_versions, status, ops, aim, granted, landed, runs, overlapped>>

-----------------------------------------------------------------------------
Save(w) == Check(w) \/ Commit(w) \/ Conflicted(w)

ReviewerStep(w) ==
  \/ ResolveCommit(w) \/ MaterialiseLoad(w) \/ MaterialiseText(w) \/ MaterialiseSave(w)
  \/ Save(w)

ReviewerNext(w) ==
  \/ \E r \in Requests, approve \in BOOLEAN : ResolveGet(w, r, approve)
  \/ ReviewerStep(w)

AuthorNext(w) ==
  \/ Train(w) \/ Describe(w) \/ DescribeTrained(w) \/ DescribeSave(w) \/ Save(w)

Next ==
  \/ \E r \in Requests : Enqueue(r)
  \/ \E w \in Reviewers : ReviewerNext(w)
  \/ \E w \in Authors : AuthorNext(w)
  \/ \E w \in Threads : Fail(w)

Spec == Init /\ [][Next]_vars

(* A request handler that has begun runs to its end; nobody is obliged to  *)
(* propose, to review or to train.                                         *)
FairSpec == Spec /\ \A w \in Reviewers : WF_vars(ReviewerStep(w))

-----------------------------------------------------------------------------
(* The types of the queue's own state.                                     *)
Jobs ==
  [pc : {"decide"}, req : Requests, approve : BOOLEAN]
    \cup [pc : {"load", "landing"}, req : Requests]
    \cup [pc : {"save"}, req : Requests, rules : Seq(Rules)]
    \cup [pc : {"describe"}, tree : Trees]
    \cup [pc : {"idle", "trained", "describeTrained", "described"}]

TypeOK ==
  /\ policies[TreeNode] \in Store!Rows
  /\ \A v \in 1..MaxVersion : policy_versions[TreeNode][v] \in Store!Snaps \cup {NoRow}
  /\ \A w \in Threads : txn[w] \in Store!Txns \cup {Store!Idle}
  /\ status \in [Requests -> {"none", "queued", "approved", "rejected"}]
  /\ \A r \in Requests : ops[r] = NoOp \/
       ops[r] \in [kind : {"add", "modify", "delete", "text"}, at : {NoIndex} \cup Nat, ok : BOOLEAN, rule : {r}]
  /\ \A w \in Threads : job[w] \in Jobs
  /\ landed \in [Requests -> Nat]
  /\ granted \subseteq Requests /\ lost \subseteq Requests
  /\ runs \in 0..MaxRuns
  /\ overlapped \in BOOLEAN

(* The human gate: a rule in the current tree, in any version of it, or in
   the hands of a session about to save, was learned by training or comes
   from a request that a reviewer approved; and nothing of a request has
   reached a node of the policy without an approval ("always queued for
   human approval; never auto-applied", propose_policy_change).            *)
Approved == granted \cup ToSet(Learned)

HumanGate ==
  /\ \A i \in DOMAIN CurrentRules : CurrentRules[i] \in Approved
  /\ \A v \in 1..MaxVersion : policy_versions[TreeNode][v] # NoRow =>
       \A i \in DOMAIN policy_versions[TreeNode][v].data.src.rules :
         policy_versions[TreeNode][v].data.src.rules[i] \in Approved
  /\ \A w \in Threads : txn[w] # Store!Idle =>
       \A i \in DOMAIN txn[w].text.rules : txn[w].text.rules[i] \in Approved
  /\ \A r \in Requests : landed[r] > 0 => r \in granted

(* An operation, or a text, lands once, and only that of a request that stands
   approved: "rejecting only marks it"; as long as no two threads have
   overlapped.                                                             *)
LandsOnce ==
  ~overlapped => \A r \in Requests : landed[r] > 0 => landed[r] = 1 /\ status[r] = "approved"

(* A commit changes the rules as its own job asks and in no other way: an
   approved operation is applied to the rules as they are when it lands,
   and a description changes no rule; as long as no two threads have
   overlapped.                                                             *)
CommitIsExact ==
  [][\A w \in Threads : ~overlapped /\ Commit(w) =>
       CASE job[w].pc = "landing"   -> CurrentRules' = ApplyTreeOp(CurrentRules, ops[job[w].req])
         [] job[w].pc = "trained"   -> CurrentRules' = Learned
         [] job[w].pc = "described" -> CurrentRules' = CurrentRules]_vars

(* A modify or delete replaces or removes the rule it was proposed for.    *)
HitsItsTarget ==
  [][\A w \in Threads : MaterialiseLoad(w) /\ job'[w].pc = "save" =>
       LET op == ops[job[w].req]
       IN  op.kind # "add" => aim[job[w].req] = <<CurrentRules[op.at + 1]>>]_vars

(* "Approving MATERIALISES the proposal": an approved request whose
   operation applies to any tree reaches the tree, and one with a text its
   node, unless its handler failed in between or two threads have
   overlapped.                                                             *)
AlwaysApplies(op) == op.kind \in {"add", "text"} /\ op.ok /\ op.at \in {NoIndex, 0}

ApprovedLands ==
  \A r \in Requests :
    (status[r] = "approved" /\ AlwaysApplies(ops[r])) ~> (landed[r] > 0 \/ r \in lost \/ overlapped)

=============================================================================
