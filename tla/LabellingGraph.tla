----------------------------- MODULE LabellingGraph -----------------------------
(***************************************************************************)
(* The labelling agent, labelling/labelling/graph.py: label_video runs a   *)
(* LangGraph of five nodes, LOAD -> RETRIEVE -> JUDGE -> SIDE_FX -> COMMIT, *)
(* over a window of shots that slides along one video, and marks the video *)
(* labelled at the end.                                                    *)
(*                                                                         *)
(* Each call keeps its graph state in memory and shares the database with  *)
(* the other calls: every request of SIDE_FX and every label of COMMIT is  *)
(* a transaction of its own, so a call that fails, or a process that dies, *)
(* leaves what it had written.                                             *)
(*                                                                         *)
(* A shot is its position in the video, counted from 1 (`idx` + 1; the     *)
(* segment id is made of it), and a row of `segments` is the segmentation  *)
(* it comes from, so that a label can be told to have judged another cut.  *)
(* Scores, texts, frames and the model's prose are left out.               *)
(***************************************************************************)
EXTENDS Integers, Sequences, FiniteSets, SequencesExt

CONSTANTS
  Calls,       \* calls of label_video for the video
  Structured,  \* categories with attribute definitions (and a tree, or in bootstrap)
  Holistic,    \* the other categories, scored by one free reply of the model
  WindowSize, WindowStride,
  Cut,         \* the segmentations a row may come from
  FirstRows,   \* the segments at the start, each by its segmentation
  MaxReplies,  \* bound: judgements in one holistic reply
  Bootstrap,   \* the values of label_video's `bootstrap` to consider
  Failures     \* whether a model call, a session or the process may fail

ASSUME WindowAssumption == WindowSize \in Nat /\ WindowStride \in Nat
ASSUME RowsAssumption   == FirstRows \in Seq(Cut)
ASSUME CategoriesAssumption == IsFiniteSet(Structured) /\ Structured \cap Holistic = {}
ASSUME ModelAssumption  == MaxReplies \in Nat /\ Bootstrap \subseteq BOOLEAN /\ Failures \in BOOLEAN

VARIABLES
  segments,  \* the rows of the video, each by its segmentation
  labels,    \* the rows of `labels`
  effects,   \* change requests queued and attributes drafted by SIDE_FX
  status,    \* videos.status
  call,      \* where each call stands
  work       \* what its current window has produced

vars == <<segments, labels, effects, status, call, work>>

Categories == Structured \cup Holistic

NotStarted ==
  [stage |-> "none", boot |-> FALSE, segs |-> <<>>, cursor |-> 0, steps |-> 0, made |-> 0]

NoWork == [confirm |-> <<>>, drafts |-> <<>>, proposals |-> <<>>]

Init ==
  /\ segments = FirstRows
  /\ labels = {}
  /\ effects = {}
  /\ status = "ingested"
  /\ call = [c \in Calls |-> NotStarted]
  /\ work = [c \in Calls |-> NoWork]

-----------------------------------------------------------------------------
(* LangGraph stops a run that has executed recursion_limit nodes.          *)
Windows(n) == LET stride == IF WindowStride < 1 THEN 1 ELSE WindowStride
                  k      == (n + stride - 1) \div stride
              IN  IF k < 1 THEN 1 ELSE k

(* Fault: one step per window.                                             *)
RecursionLimitWindows(n) == Windows(n) + 10

RecursionLimit(n) == Windows(n) * 6 + 10

Goto(k, node) ==
  IF k.steps < RecursionLimit(Len(k.segs))
  THEN [k EXCEPT !.stage = node, !.steps = @ + 1]
  ELSE [k EXCEPT !.stage = "exhausted"]

(* label_video: the segments are read once, before the graph starts.       *)
Start(c, boot) ==
  /\ call[c].stage = "none"
  /\ call' = [call EXCEPT ![c] =
                Goto([NotStarted EXCEPT !.boot = boot, !.segs = segments], "load")]
  /\ UNCHANGED <<segments, labels, effects, status, work>>

(* The window, and the shots this step commits: the head of the window, or *)
(* all of it when the stride is 0.                                         *)
WindowFromZero(k) ==   \* fault: idx, not idx + 1
  LET room == Len(k.segs) - k.cursor
  IN  [i \in 1..(IF room < WindowSize THEN room ELSE WindowSize) |-> k.cursor + i - 1]

Window(k) ==
  LET room == Len(k.segs) - k.cursor
  IN  [i \in 1..(IF room < WindowSize THEN room ELSE WindowSize) |-> k.cursor + i]

Confirm(k) ==
  LET head == SubSeq(Window(k), 1, IF WindowStride < Len(Window(k)) THEN WindowStride
                                   ELSE Len(Window(k)))
  IN  IF head = <<>> THEN Window(k) ELSE head

Load(c) ==
  /\ call[c].stage = "load"
  /\ call' = [call EXCEPT ![c] = Goto(@, "retrieve")]
  /\ work' = [work EXCEPT ![c].confirm = Confirm(call[c])]
  /\ UNCHANGED <<segments, labels, effects, status>>

(* Policies and precedents are read; only prompts depend on them.          *)
Retrieve(c) ==
  /\ call[c].stage = "retrieve"
  /\ call' = [call EXCEPT ![c] = Goto(@, "judge")]
  /\ UNCHANGED <<segments, labels, effects, status, work>>

-----------------------------------------------------------------------------
(* JUDGE.  For every shot: one draft per structured category, whatever the *)
(* model replies (_judge_pipeline, _judge_bootstrap_attrs), and one per    *)
(* judgement of a holistic reply that names a holistic category, be there  *)
(* none, one or several of them (_judge_holistic).                         *)
HolisticReplies == UNION {[1..n -> Holistic] : n \in 0..MaxReplies}

Drafts(confirm, reply) ==
  FlattenSeq([i \in DOMAIN confirm |->
    [j \in 1..(Cardinality(Structured) + Len(reply[i])) |->
      [shot |-> confirm[i],
       cat  |-> IF j <= Cardinality(Structured) THEN SetToSeq(Structured)[j]
                ELSE reply[i][j - Cardinality(Structured)]]]])

(* What a shot may ask for: a change of the tree when REVIEW flags it, and *)
(* in bootstrap the gaps and term lists of a holistic reply.               *)
Kinds(boot) ==
  CASE ~boot /\ Structured # {} -> {"request"}
    [] boot /\ Holistic # {}    -> {"request", "attribute"}
    [] OTHER                    -> {}

Asked(confirm, boot) == [1..Len(confirm) -> {"nothing"} \cup Kinds(boot)]

Proposals(confirm, asked) ==
  FlattenSeq([i \in DOMAIN confirm |->
    IF asked[i] = "nothing" THEN <<>> ELSE <<[shot |-> confirm[i], kind |-> asked[i]]>>])

Judge(c) ==
  LET confirm == work[c].confirm
  IN  /\ call[c].stage = "judge"
      /\ \E reply \in [1..Len(confirm) -> HolisticReplies],
            asked \in Asked(confirm, call[c].boot) :
           work' = [work EXCEPT ![c].drafts = Drafts(confirm, reply),
                                ![c].proposals = Proposals(confirm, asked)]
      /\ call' = [call EXCEPT ![c] = Goto(@, "side_fx")]
      /\ UNCHANGED <<segments, labels, effects, status>>

-----------------------------------------------------------------------------
(* SIDE_FX: one transaction per proposal.  A rule change or a gap becomes  *)
(* a queued request; a term list is written into the tree at once.         *)
SideEffect(c) ==
  LET asked == work[c].proposals
  IN  /\ call[c].stage = "side_fx"
      /\ asked # <<>>
      /\ effects' = effects \cup {[id |-> <<c, call[c].made>>, shot |-> Head(asked).shot,
                                   kind |-> Head(asked).kind]}
      /\ call' = [call EXCEPT ![c].made = @ + 1]
      /\ work' = [work EXCEPT ![c].proposals = Tail(asked)]
      /\ UNCHANGED <<segments, labels, status>>

SideEffectsDone(c) ==
  /\ call[c].stage = "side_fx"
  /\ work[c].proposals = <<>>
  /\ call' = [call EXCEPT ![c] = Goto(@, "commit")]
  /\ UNCHANGED <<segments, labels, effects, status, work>>

(* COMMIT: one transaction per label, under a fresh label_id.  The foreign *)
(* key wants its segment (VideoLifecycle has the call that has lost it).   *)
EmitLabel(c) ==
  LET drafts == work[c].drafts
      d      == Head(drafts)
  IN  /\ call[c].stage = "commit"
      /\ drafts # <<>>
      /\ d.shot \in DOMAIN segments
      /\ labels' = labels \cup {[id |-> <<c, call[c].made>>, shot |-> d.shot, cat |-> d.cat,
                                 cut |-> call[c].segs[d.shot]]}
      /\ call' = [call EXCEPT ![c].made = @ + 1]
      /\ work' = [work EXCEPT ![c].drafts = Tail(drafts)]
      /\ UNCHANGED <<segments, effects, status>>

(* Fault: the cursor moves by what was visible.                            *)
NextCursorWindow(k) == k.cursor + WindowSize

NextCursor(k) == k.cursor + WindowStride

(* Fault: the edge out of COMMIT always leads to LOAD.                     *)
CommitDoneLoads(c) ==
  LET k == [call[c] EXCEPT !.cursor = NextCursor(call[c])]
  IN  /\ call[c].stage = "commit"
      /\ work[c].drafts = <<>>
      /\ call' = [call EXCEPT ![c] = Goto(k, "load")]
      /\ UNCHANGED <<segments, labels, effects, status, work>>

(* The cursor advances, and _route loads the next window or ends.          *)
CommitDone(c) ==
  LET k == [call[c] EXCEPT !.cursor = NextCursor(call[c])]
  IN  /\ call[c].stage = "commit"
      /\ work[c].drafts = <<>>
      /\ call' = [call EXCEPT ![c] = IF k.cursor < Len(k.segs) THEN Goto(k, "load")
                                     ELSE [k EXCEPT !.stage = "status"]]
      /\ UNCHANGED <<segments, labels, effects, status, work>>

(* set_video_status, after graph.invoke has returned.                      *)
Finish(c) ==
  /\ call[c].stage = "status"
  /\ status' = "labelled"
  /\ call' = [call EXCEPT ![c].stage = "ended"]
  /\ UNCHANGED <<segments, labels, effects, work>>

(* A model call, a session or the process fails.                           *)
Running(c) == call[c].stage \notin {"none", "ended", "failed", "exhausted"}

Fail(c) ==
  /\ Failures
  /\ Running(c)
  /\ call' = [call EXCEPT ![c].stage = "failed"]
  /\ UNCHANGED <<segments, labels, effects, status, work>>

-----------------------------------------------------------------------------
Step(c) ==
  \/ Load(c) \/ Retrieve(c) \/ Judge(c)
  \/ SideEffect(c) \/ SideEffectsDone(c)
  \/ EmitLabel(c) \/ CommitDone(c)
  \/ Finish(c)

CallNext(c) == (\E boot \in Bootstrap : Start(c, boot)) \/ Step(c) \/ Fail(c)

Next == \E c \in Calls : CallNext(c)

Spec == Init /\ [][Next]_vars

(* A call is a plain loop in one thread: once begun it goes on.            *)
FairSpec == Spec /\ \A c \in Calls : WF_vars(Step(c))

-----------------------------------------------------------------------------
Stages == {"none", "load", "retrieve", "judge", "side_fx", "commit", "status",
           "ended", "failed", "exhausted"}

Ids == Calls \X Nat

(* The types of the tables and of the graph state (state.py, models.py).   *)
TypeOK ==
  /\ segments \in Seq(Cut)
  /\ labels \subseteq [id : Ids, shot : Nat \ {0}, cat : Categories, cut : Cut]
  /\ effects \subseteq [id : Ids, shot : Nat \ {0}, kind : {"request", "attribute"}]
  /\ status \in {"pending", "ingested", "labelled"}
  /\ call \in [Calls -> [stage : Stages, boot : BOOLEAN, segs : Seq(Cut), cursor : Nat,
                         steps : Nat, made : Nat]]
  /\ work \in [Calls ->
       [confirm : Seq(Nat \ {0}), drafts : Seq([shot : Nat \ {0}, cat : Categories]),
        proposals : Seq([shot : Nat \ {0}, kind : {"request", "attribute"}])]]

(* The labels and the drafts a call has for a shot in a category.          *)
Made(c, s, cat) ==
  Cardinality({l \in labels : l.id[1] = c /\ l.shot = s /\ l.cat = cat})

Drafted(c, s, cat) ==
  Cardinality({i \in DOMAIN work[c].drafts :
                 work[c].drafts[i].shot = s /\ work[c].drafts[i].cat = cat})

(* However a call ends, its structured labels are a prefix of the video:
   one for each shot before the cursor, none beyond the shots at hand, and
   there what is missing is still drafted.  So a failure costs no more than
   the current window, and a window neither repeats nor skips a shot
   (_load, _commit).                                                       *)
LabelsInOrder ==
  \A c \in Calls, cat \in Structured : \A s \in DOMAIN call[c].segs :
    /\ s <= call[c].cursor => Made(c, s, cat) = 1
    /\ s > call[c].cursor + WindowStride => Made(c, s, cat) = 0
    /\ s \in (call[c].cursor + 1)..(call[c].cursor + WindowStride) =>
         IF call[c].stage \in {"side_fx", "commit"}
         THEN Made(c, s, cat) + Drafted(c, s, cat) = 1
         ELSE Made(c, s, cat) <= 1

(* The recursion limit is never reached: n_windows * 6 + 10 leaves room for
   the five nodes of every window, for any number of shots (stride >= 1). *)
NeverExhausted == \A c \in Calls : call[c].stage # "exhausted"

(* A video that says "labelled" is: each of its rows has a label in every
   structured category, made on the segmentation the row comes from.       *)
StatusEarned ==
  status = "labelled" =>
    \A s \in DOMAIN segments, cat \in Structured :
      \E l \in labels : l.shot = s /\ l.cat = cat /\ l.cut = segments[s]

(* "The window slides until all segments are labelled": a call that has
   begun ends or fails for a reason of its own, never by the limit.        *)
CallsEnd == \A c \in Calls : Running(c) ~> call[c].stage \in {"ended", "failed"}

=============================================================================
