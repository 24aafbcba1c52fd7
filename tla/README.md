# A TLA+ model of GV Auto-Labelling Agent

The program labels game videos by content category. Videos are cut into shots by
a multimodal model, each shot is judged by a labelling agent against a policy tree
that a language model drafts, training learns and humans review, and the policy
tree is versioned so that a label can be audited afterwards. This directory holds a
model of its stateful core, checked by TLC on small instances and, for the results
listed below, proved by TLAPS for every instance.

All paths below are relative to the repository.

## 1. Inventory

| Component | Code | State it keeps | Operations |
|---|---|---|---|
| policy store | `packages/tools/tools/policy_store.py`, `db/db/models.py` | `policies`, `policy_versions`, `policy_sets` | `upsert_policy` and its wrappers, `update_structured_data`, `resolve_policy`, `snapshot_policy_set` |
| policy translation | `packages/tools/tools/translate.py` | none of its own; a Korean payload in `structured_data` | `translate_policy_node`, `translate_policy_tree` |
| change requests | `policy_store.py`, `app/backend/backend/routers/policy.py` | `policy_change_requests` | `enqueue_change_request`, `resolve_change_request`, `_materialise_*`, `apply_tree_op` |
| bootstrap | `policy/policy/bootstrap.py` | the rubric and attribute nodes of each category | `seed_from_pegi`, `author_category_policy`, `run_bootstrap` |
| tree training | `packages/tools/tools/tree_train.py` | the tree node of a category | `train_decision_tree`, `train_all` |
| rule description | `packages/tools/tools/tree_describe.py` | the tree node of a category | `describe_rules` |
| decision tree | `decision_tree.py`, `tracking.py`, `simulate.py` | none | scoring by rules, re-deriving which rule fired, preview of a change |
| labelling agent | `labelling/labelling/graph.py`, `tools.py`, `state.py` | graph state of a call; `labels` | the nodes LOAD, RETRIEVE, JUDGE, SIDE_FX, COMMIT; `label_video` |
| model providers | `packages/models/models/providers.py` | none | `_generate` with its retry; clients of external services |
| ingestion | `ingestion/ingestion/pipeline.py` | clip files, `videos`, `segments`, `utterances` | `ingest_video`, `resegment_video` |
| storage | `packages/tools/tools/storage.py` | the tables of videos | `upsert_video`, `upsert_segments`, `replace_segments`, `save_label`, `set_video_status` |
| runs | `app/backend/backend/routers/runs.py` | `_RUNS`, in memory | `POST /api/ingest`, `POST /api/label`, the background tasks |
| retrieval, embeddings | `packages/tools` | none | read only |
| backend routes, user interface, scripts | `app/`, `scripts/` | browser state | thin calls of the above |

How they interact. Everything meets in one Postgres database. Each function of
`policy_store` and of `storage` opens a session of its own; sessions run at READ
COMMITTED, take no row locks and do not autoflush (`db/db/base.py`). The HTTP
routes are synchronous functions in a thread pool, labelling tasks run in the same
pool, ingestion tasks on the event loop, training and bootstrap in scripts. So any
two operations may interleave between a SELECT and the commit that follows from it,
and several of them hold what they read across a model call of seconds. The policy
of a category goes round a loop: bootstrap writes its attribute definitions, shots
are labelled with them, training learns a tree from these labels, the tree scores
further shots, reviews of those propose changes of the tree, and its next training
reads all of the labels.

What makes each part correct, and hard:

- **policy store**: versions are dense and grow, what a label cites can be
  resolved to what the labeller read, a policy set names versions that exist. Hard
  because a version is numbered from a row read earlier, and because a translation
  rewrites a payload it read before a model call.
- **change requests**: nothing reaches the decision tree without a human, an
  approved operation reaches it exactly once and hits the rule it was meant for.
  Hard because approval and materialisation are separate transactions and the
  tree has three other authors.
- **bootstrap, training, JUDGE**: trees, definitions and labels fit together
  whatever is authored, trained and judged at the same time; a bootstrap reports
  what it has done. Hard because each is a long sequence of small transactions over
  the same nodes, with a model call between them, that may stop anywhere.
- **decision tree, tracking, preview**: the rules mean what the fitted tree meant;
  the rule derived from a stored label is the one that scored it. Hard because
  values change their form between the model's answer, the database and the
  training codes, and comparisons work across types.
- **labelling agent**: each shot is judged once, in order, whatever fails; the loop
  ends before LangGraph's recursion limit; the video's status says so only then; the
  requests about a shot end however answers are cut off.
- **ingestion and runs**: the segments of a video cover it without gaps and respect
  the cap, whatever the model answers; rows, clips, overview and labels describe the
  same segmentation, and the statuses claim no more than was done. Hard because
  overlapping windows are reconciled by a second answer, because the results are
  written by separate transactions, under ids that are positions, and because a
  restart takes the tasks and the registry with it.

The hazards this leads to are listed, with their lines and the properties that
watch over them, in `PROJECT.json`.

## 2. Modules

| Module | Models | Role |
|---|---|---|
| `VersionedStore` | what the policy store promises | abstract specification: an append-only log per node |
| `PolicyStore` | the store, translation, policy sets, citations | implements `VersionedStore` with one writer |
| `TreeOps` | `apply_tree_op` | used by `ChangeQueue` and `DecisionTree` |
| `ChangeQueue` | change requests, training, description | instantiates `PolicyStore` with trees as contents |
| `DecisionTree` | scoring by rules | operators; extends `TreeOps` |
| `TreeTraining` | codes of values, the fitted tree, its conversion into rules | operators; extends `DecisionTree` |
| `RuleLearning` | a category's tree: labelling, training, changes, tracking, preview | extends `TreeTraining` |
| `PolicyAuthoring` | bootstrap, `train_all`, JUDGE's choice of a path, drafts of term lists | several categories, one step per upsert |
| `LabellingGraph` | `label_video` and its graph | one action per node and per transaction |
| `VideoLifecycle` | ingestion, resegmentation, runs, restart | extends `LabellingGraph` with the writers of segments |
| `Segmentation` | `_omni_segments`, `_cap_and_fill` | how the bounds of the segments come about |
| `...Proofs` | | theorems about the module of that name; `VideoLifecycleProofs` uses `LabellingGraphProofs`, `RuleLearningProofs` uses `TreeTrainingProofs` |
| `MC...` | | small instances: sequences of rows, replies, symmetry |

Operators that no specification uses and whose comment begins with "Fault" are
variants of the operator that follows them, each with a plausible bug; putting one
in place of the other shows that a property can tell them apart.

### PolicyStore

A row of `policies` is `[version, text, data]`, where `data` has the English part
`src` of `structured_data` and the version `stamp` its Korean was made for. One
writer session is one function call of the code, cut at each SELECT and at the
commit:

| Code | Actions |
|---|---|
| `upsert_policy` | `UpsertGet` (read the row), `UpsertCheck` (look for the next version's snapshot), `UpsertCommit` or `UpsertConflict` |
| `translate_policy_node` + `update_structured_data` | `TranslateRead` (row read before the model call), `UpdateGet` (the row as it is now), `UpdateCheck` (its snapshot), `UpdateCommit` |
| `snapshot_policy_set` | `SnapLast`, `SnapActive`, `SnapInsert` |
| a label that cites a node | `Cite` |
| any failure | `Abort`: the open transaction is undone |

`Column` says what SQLAlchemy's flush does: an UPDATE sends only the columns that
the session changed from what it had loaded. `Conflict` is the primary key of
`policies` and the unique constraint on `(policy_id, version)`.

### ChangeQueue

The tree of one category is a node of the store. `ResolveGet` and `ResolveCommit`
are `resolve_change_request`; `MaterialiseLoad` and `MaterialiseSave` are
`_materialise_decision_rule`, after which the session goes on with the store's own
`UpsertCheck` and `UpsertCommit`; `MaterialiseText` makes a free text (an attribute
or an edge case that a bootstrap shot proposed) a node of its own, in one step
because no one else writes that node. `Train`, `Describe`, `DescribeTrained` and
`DescribeSave` are the other authors. A request is identified with the rule it
would write, so a rule in the tree tells where it came from. Four variables are
history: `landed` counts how often a request reached the tree or, with a text, its
node, `granted`
has the requests that were ever approved, `lost` those whose handler failed after
the approval, and `overlapped` tells whether a thread has begun while another was
at work, which nothing in the code prevents.

### DecisionTree, TreeTraining, RuleLearning

A value is its JSON type and its text; which texts are numbers is data (`Numeral`,
and `Float` for the text of a number that was made a float). `ValEq`, `Compared`
and `MatchCond` are the comparisons of `decision_tree.py` across types, `Fired` the
rule that scores. `TreeTraining` has the codes of `_Encoder`, the trees that
`DecisionTreeClassifier` may fit (`Fitted`: all that satisfy its stopping rules,
for which of several splits is best is a matter of its impurity measure), and
`TreeToRules`, which is `_tree_to_rules`.

`RuleLearning` runs them. A shot is begun (`Begin`, which picks the path and reads
the tree), its attributes are selected (`Select`), the model is asked (`Request`,
once per answer, with the retry of `_generate` and the second round over more
frames), and a label is stored, by one action per path: `StoreDecided` (the tree it
read scores what was extracted), `StoreBootstrap` (the model's own score) and
`StoreHolistic`. `Train` and `Approve` change the tree at any moment. Tracking and
preview are operators over the state: `SegmentsForRule`, `RuleSegmentCounts`,
`SimulateRuleChange`.

### PolicyAuthoring

The nodes of all categories, each reduced to who wrote it; `job` says where each
bootstrap, training and shot stands in its loop over the categories. `Seed`,
`Author` (the request to the policy model), `AuthorRubric`, `AuthorAttribute` and
`Authored` are `run_bootstrap`; `AuthorFails` is the exception it catches, at any of
them, and `Die` the end of its process. `TrainRead`, `TrainSave` and `TrainSkip` are
one category of `train_all`. `JudgeRead` is the one SELECT in which JUDGE reads a
category, `JudgeEnds` the labels it makes along the `Path` of each category, `Draft`
and `SaveLabels` the writes that follow. `drafted` and `author` are history. In
bootstrap a category with definitions is judged attribute by attribute, as the code
has it; `docs/AGENT_WORKFLOW.md` still sends every category of a bootstrap to the
holistic fallback.

### LabellingGraph

`call[c]` is where a call stands (`stage`, the rows it read, `cursor`, the number
of nodes executed) and `work[c]` what its current window has produced. The nodes
LOAD, RETRIEVE and JUDGE are one action each, for they write nothing; SIDE_FX and
COMMIT are one action per transaction (`SideEffect`, `EmitLabel`), followed by
`SideEffectsDone` and `CommitDone`, which also takes the edge `_route` chooses.
`Goto` counts nodes as LangGraph does and stops a call that reaches
`recursion_limit`. The model's replies are chosen freely: any number of holistic
judgements up to `MaxReplies`, any proposal. One proposal per shot stands for
several, which only repeat the same transaction.

### VideoLifecycle

Adds the clip files, the overview and the ingestion tasks: `Segment` (the number
of shots is free, also none), `BuildClips`, `UpsertVideo`, then `UpsertSegments`
(ingest) or `ReplaceSegments` / `ReplaceRefused` (resegment, which the foreign key
of `labels` refuses). A row is the segmentation it comes from, so that mixtures
can be seen. `EmitOrphan` is the foreign key of `labels`: a call that labels a
segment which is gone fails; it lives here because rows only disappear here.
`runs` is `_RUNS`: `Post` registers a run, `BeginRun`, `Record` and `EndRun` are its
background task, which starts the next of its tasks only when it is at it (`Turn`)
and counts it as done or failed. `Restart` ends every task of a run wherever it is
and forgets the runs; the tables and the clips stay. `overlapped` and `last` are
history: whether a task has begun while another was at work, and which task began
last.

### Segmentation

`final` is the list of scenes that `_omni_segments` joins, `out` what `_cap_and_fill`
returns, `i` the index of the loop at hand. One action is one turn of a loop: a
scene of a window (`TakeScene`, clamped as the code clamps it), a scene of the
second answer about an overlap (`TakeReconciled`, not clamped), the next window, the
tail (`CloseTail`), the first loop of `_cap_and_fill` (`Fill`) and one segment of its
second loop (`CapOne`). The model's answers are free, any number of scenes with any
times up to `Reach`. All windows are asked before the first scene is used, but an
answer matters only where its scenes are used, so they are chosen there. Times are
integer ticks; a boundary between two pieces is rounded down to a tick where the
code has a float.

## 3. Runs

Runs that pass:

| Run | Instance | Shows |
|---|---|---|
| `store_overlap` | 2 writers, 1 snapshotter, 2 contents, 3 versions | what holds under every overlap: types, a history without holes, citations that resolve, frozen texts |
| `store_serial` | 1 writer, 2 snapshotters, 2 contents, 3 versions | what holds when edits do not overlap: citations reproduce, the row is in the history; and the store implements `VersionedStore`, hence versions grow |
| `queue` | 1 reviewer, 1 author, 2 requests, every kind of operation, any overlap, failures, fairness | the human gate under every overlap; until threads overlap, an operation lands once and exactly, a description changes no rule, and what is approved reaches the tree or its handler has failed |
| `label_window` | 1 call, 5 shots, window 3, stride 2, a structured and a holistic category, bootstrap or not, failures, fairness | each shot once and in order, the recursion limit out of reach, and the call ends |
| `video` | a run that ingests and a run that labels one video, a resegmentation by script, any overlap, failures, restarts, fairness | `labelled` is true of every row; clips, overview and rows agree; labels stay on the shots they judged; what a run counts as done is done; a posted run ends |
| `segment_bounds` | 12 ticks (6 s), 3 overlapping windows, a cap of 5 ticks, 2 summaries, second answers within the video | the segments are contiguous from 0 to the end, capped, no slivers, and keep the summary of their scene |
| `rules` | a boolean and an ordinal attribute, 5 replies, 2 or 3 labels to start from and up to 4, 2 versions of the tree, 3 changes, fairness | learned rules partition the training labels, tracking and preview agree with what scored a shot, and a shot's requests end |
| `authoring` | 2 categories, one authored before, 2 attribute names, a bootstrap, a training and a shot in any overlap, a term list, failures, fairness | trees test defined attributes, labels carry what their tree tests, the bootstrap's summary is true and covers every category |

Runs that TLC refutes, each a disagreement between the code and what a doc,
comment or test says of it (quoted in `PROJECT.json`, "findings"):

| Run | Property | What happens |
|---|---|---|
| `store_pins` | `PinsReproduce` | two overlapping edits write one version: a citation resolves to a text nobody judged by |
| `queue_target` | `HitsItsTarget` | `rule_index` points at another rule by the time of approval, with one reviewer and no overlap |
| `video_resegment` | `OverviewOfRows` | the overview is stored before the new rows are refused |
| `rules_missing` | `RowsReproduced` | the empty text that stands for a missing boolean reads as false, so the rules of "false" and of "missing" fire on each other's rows |

A fifth one was met in `Segmentation` with `Reach` larger than `Duration`: second
answers of the model are not clamped to the video, and one that ends after it can
leave a last segment that is empty or starts after it ends, where
`_omni_segments` promises "a contiguous list" (`ingestion/ingestion/pipeline.py:178`).
`Gapless`, `Capped` and `SummariesCarry` hold even then; `NoSlivers` holds for second
answers within the video, which are those of the run.

Two more are seen in the modules when two sessions meet, and no run states them:

- **A translation can undo an edit.** `translate_policy_node` takes the English from a
  node it was given before its model call and stores it back with the Korean.
  `TranslateRead` by one writer, a whole `UpsertGet` - `UpsertCommit` by another, then
  `UpdateGet`, `UpdateCheck` and `UpdateCommit` by the first leave the row with the
  new version and text but the old English data, and write the old data into the new
  version's snapshot as well, which is thereby no longer what the edit stored. The
  docstrings say "The English source is never overwritten"
  (`packages/tools/tools/translate.py:5-6`) and "the English source text and its
  version are unchanged" (`policy_store.py:158-161`). It needs two writers. With one,
  as in `store_serial`, a translation is a stutter of `VersionedStore`, whose log has
  the text and the English data, and this is part of what the refinement shows.
- **Two decisions on one request both count.** `resolve_change_request` reads the
  status and commits the decision without a lock, so two reviewers who both pass the
  check (`ResolveGet` twice, then `ResolveCommit` twice) both decide: two approvals
  land the operation twice, a rejection is stored over an approval that goes on to
  land, or the other way round. The comment at the check says "already resolved —
  idempotent" (`policy_store.py:511`). `queue` has one reviewer, and `LandsOnce` is
  stated until threads overlap; `HumanGate` holds whatever they do.

Several properties are about a code path that nothing keeps to itself.
`PinsReproduce`, `RowInHistory` and the refinement hold with one
writer at a time, and `store_serial` has one. `LandsOnce`, `CommitIsExact` and
`ApprovedLands`, and likewise `LabelledEarned`, `CutsAgree` and
`LabelsOfRows`, say "until two threads (tasks) overlap", which the history variable
`overlapped` tells; they are checked in runs where threads do overlap, so that what
holds until then, and what holds regardless, is seen side by side. `RunsTell` speaks
of the task that began last, as long as none has met another. `TrackingAgrees` and
`PreviewAgrees` except answers of null and "", and numerals among the values of an
ordinal: there the code does derive another rule than the one that scored.
`RulesPartition` is stated for rows without a missing value and trainings in which
every boolean was answered; what happens otherwise is the finding of
`rules_missing`. It also excepts listed values that are numerals or read as booleans,
which equal values of another code. `TreeOverDefined` and `LabelCarriesTree` except attributes over
which a bootstrap shot drafted a term list, for that does replace the definition.

Bounds. `MaxVersion`, `MaxSets`, `MaxPins`, `MaxRuns`, `MaxReplies`, `MaxShots`,
`MaxLabels`, `MaxDrafts` and `Reach` cap counters and inputs; every module names its
own. Two writers and three versions are enough for each pattern of overlap in which
one edit straddles two others; a third writer only repeats a role. In `queue` the
version bound, 5, is what the start, two landings, a training and its description
need, so that no commit is held up by the bound. Five shots with window 3 and stride
2 give full, overlapping and short last windows. Twelve ticks with windows of 6 every
4 give a last window that ends where the video does, the case in which an off-by-one
in the starts shows, and a cap of 5 splits into two and into three pieces. In
`rules` the parameters of the training are smaller than the program's
(`MinRows` 3 for 8, depth 2 for 4, one row per leaf for two), so that three rows fit
a tree of two splits; the first labels have a missing value and a level whose text is
"none", the replies a null, an integer, a score above 5 and one that is no number;
the second version of the tree is a training on labels that the first one scored, or
an approved change. In `authoring` the categories are two because what one does to
the next is the question, the attribute names two because an earlier authoring must
leave one behind, and one label trains a tree.

Fairness. Five runs use it. In `ChangeQueue` a request handler that has begun
continues; nobody has to propose, review or train. In `LabellingGraph` a call that
has begun goes on, because it is a plain loop in one thread; so do a run's
background task in `VideoLifecycle` (`RunProgress`: its own steps and those of the
task whose turn it is; nothing is assumed of scripts), the requests of one shot in
`RuleLearning` (`Labeller`), and the loop of `run_bootstrap` in `PolicyAuthoring`
(`BootstrapStep`). Failures are allowed in all of them, and only a truncated answer
is ever asked for again, so the liveness properties say what is left: an approved
request lands unless its handler failed (`lost`), a call ends or fails but never by
the recursion limit, a posted run ends unless a restart forgets it, a shot's requests
end however often answers are cut off or ask for more frames, and a bootstrap goes
through all categories unless its process dies.

Deadlock is not checked where the system may really stop: all calls have ended, or
a bound is reached.

## 4. Proofs

`PolicyStoreProofs` proves for any sets of nodes, contents, writers and
snapshotters and any bounds:

- `StoreTypes`, `StoreHistoryDense`, `StorePinsResolve`: `Spec => []P` for the
  invariants of `store_overlap`;
- `StoreHistoryTextFrozen`: the action property of the same run.

The argument. `HistoryDense` is not inductive: a session that is about to commit
version N + 1 could leave a hole unless version N is in the history, and that is a
fact about what the session has read. `ReadsInHistory` states it for every open
session, and `IInv`, the conjunction of types, `HistoryDense`, `PinsResolve` and
`ReadsInHistory`, is inductive (`Inductive`). The key lemma, `StepGrows`, is that
no step takes a row or a snapshot away, so what a session knows stays true while
others write; `UpdateKeeps` and `CommitGrows` show it for the two actions that
change the tables, `OthersQuiet` for the rest. The proof has one step per action,
and one lemma per conjunct.

With one writer (`LoneWriter`, a hypothesis on `Writers`; snapshotters and labellers
are any number), and whatever is aborted, it also proves what `store_serial` checks:

- `StorePinsReproduce`, `StoreRowInHistory`: `Spec => []P`;
- `StoreImplementsLog`: the refinement of `VersionedStore`, each initial state and
  each step mapped through `Log` and `SetLog`.

`RowsInv` is why one writer is enough: what its session has read is still the row
(`SessionsCurrent`) and no snapshot is ahead of its row (`NothingAhead`), so a commit
of `upsert_policy` meets neither a conflict nor a snapshot and appends what it was
given, and one of `update_structured_data` finds row and snapshot alike and changes
both. For policy sets `SetsGrow` says that their numbers have no hole and that a set
names versions that were there, none older than in the set before. In the abstract
log the commit is then an `Edit`, `SnapInsert` a `Tag`, `Cite` a `Cite`, and everything
else, the translations included, a stutter. `SerialInv` joins these to `IInv`.

`ChangeQueueProofs` proves for any requests, threads and learned rules:

- `TypeCorrect` and `HumanGateHolds`, under every overlap and failure;
- `LandsOnceHolds` and `CommitsExact`, until two threads overlap.

The gate is not inductive: a rule reaches the tree from a session, the session has it
from a job, and the job computed it from the tree and the request. `GateInv` says of
all of them that their rules are learned or granted, with the store's types stated
for the trees over those rules (`Over`). `ApplyKeepsRules` is the fact about
`apply_tree_op` it rests on, `OverMonotonic` that granting more takes nothing away,
and `SaveBegins`, `SaveChecks`, `SaveCommits` and `SaveGivenUp` carry it through the
store's session once for all callers. `SerialInv` is for the other two: as long as
no two threads have overlapped, at most one is at work, and its job has not been
overtaken: the tree it computed from is still the tree, the request it decides is
still queued or, later, approved and not landed. It is proved action by action from
`GateInv`, and both properties are read off it.

`PolicyAuthoringProofs` proves for any categories, names, replies and any number of
bootstraps, trainings and shots in any overlap:

- `TypeCorrect`, `TreesOverDefinitions`, `LabelsCarryTrees`, `SummariesTell`.

`Types` describes the record of every kind of call. `KeepInv` says that what a tree
tests, what a training is about to save and what a shot has read is defined or was
drafted over. It is preserved because no step takes a definition away without
recording the draft (`DefinitionsStay`), and because one SELECT of JUDGE gives
definitions and tree of the same moment (`ReadCarries`). `ReportInv` relates a
bootstrap's progress through its loop to the nodes: where `author` says that it
alone has written a category since it was seeded, the rubric and the attributes
written so far are its own (`OwnedStays` for the steps of others).

`RuleLearningProofs` proves for any attributes, texts, replies and changes:

- `TrackingHolds`, `PreviewHolds`;
- `LearningTypes`: `TypeOK`;
- `LeavesPartition`: `RulesPartition`.

`MatchAgain` is the heart: an answer without nulls and empty texts matches the same
conditions before and after it was stored, although a number has become a float and
the attributes without an answer have empty values, which tracking drops; it rests
on `EqualAgain` and `ComparedAgain`, comparison by comparison. `ScoreAgain` lifts it
to the rule that fires. `Inv` says of each label which tree scored it, and that two
trees with one version are the same tree.

`LeavesPartition` is about `_tree_to_rules` and everything before it. In
`TreeTrainingProofs`, for any table of integers and any tree that `Fitted` allows,
two leaves part at some inner node (`LeavesPart`), so a row ends at no two of them
(`UniqueLeaf`); below the deepest inner node it is at, it ends at one (`SomeLeaf`).
A split has rows on both sides (`SplitIs`), so every leaf has rows (`LeafHasRows`)
and none is dropped as impossible (`AllPossible`). The integer cut takes the same
side as the threshold half-way between two codes (`HalfFloor`), so a leaf allows a
row's codes, attribute by attribute, exactly if the row ends there (`AllowedAtLeaf`):
this is the step that rounding towards zero would break. The order of the rules is a
strict total order of the leaves (`BeforeOrders`), so sorting places each leaf once
(`SortedExists`, `SortedOnto`), and `RulesOfLeaves` says what the rules are. In
`RuleLearningProofs`, `Decodes` shows that a stored value equals the decoding of a
code exactly if the code is its own, `LeafMatches` that the rule of a leaf matches
the stored values exactly if the row ends there, and `OneRuleMatches` that this is
one rule. `LearnInv` adds that a tree that has a fit is the one learned from it
(`FitInv`) and types the labels it is learned from. The proof brought out a proviso
that the instance of `rules` could not show, `ValuesAreWords`: a listed value that
is a numeral equals other numerals of the same number ("1" and "1.0"), which have
codes of their own, and one that reads as a boolean equals what is stored as a
boolean; then two rules match.

`LabellingGraphProofs` proves, for any number of calls and shots, any window and any
categories,

- `LabellingTypes`: `TypeOK`;
- `LimitOutOfReach`: no call is stopped by the recursion limit;
- `LabellingInOrder`: `LabelsInOrder`, for a stride between 1 and the window
  (`Orderly`; both are configured, by default 5 and 3).

`LimitOutOfReach`: with a stride of at least 1 no call
is ever stopped by the recursion limit, for any number of shots, any window and any
categories. `SInv` says that a call in its w-th window (from 0) has cursor
`w * WindowStride`, has executed `5 w` nodes and those of the window at hand, and has
begun the window only if the cursor is in the video. Then `w` is less than
`ceil(n / stride)` (`FewerWindows`, `WindowsCover`) and the limit, six times that and
ten, is larger than the steps taken (`RoomLeft`). With a stride of 0 the cursor never
moves and the limit is what ends the call; that is why the assumption is there.

`LabelsInOrder` counts labels by shot and category; `OrderInv` says the same of each
call without counting. A shot before the cursor has one label, a shot beyond the
window none, and of a shot in the window either the label is there or, from JUDGE to
COMMIT, exactly one draft of it (`Placed`, `AtHand`). JUDGE establishes it, because
the drafts of a window are those of its shots, each once: the drafts are a flattened
sequence of sequences, and what it contains, and what it contains once, is
`FlattenFrom`, proved from the least number where it would fail. EMIT LABEL turns a
draft into a label, and the cursor moves only when no draft is left, by a stride that
stays within what was judged. With a stride larger than the window shots would be
skipped.

`VideoLifecycleProofs` proves for any calls, ingestions, resegmentations and runs,
with every failure and restart:

- `LifecycleTypes`, `LabelsKeepTheirRows`, `OneCutAtRest`, `RunsTellTheTruth`:
  `LSpec => []P` for `LTypeOK`, `LabelsOfRows`, `CutsAgree` and `RunsTell`;
- `LabelledIsEarned`: `LabelledEarned`, if `Orderly`.

As long as no task has begun while another was at work, at most one is at work and it
is the one that began last (`Solo`). A call at work then has in memory the rows that
are in the database (`Read`), and between two transactions of a segmentation the
first still stands: the video announces the new cut and its clips are in place, while
the rows are still the old ones (`Announced`, `CutInv` with `ClipsAhead`). `Told` says
that what the last task left is there until another begins, and `DoneEnded` that what
a run counts as done has ended, also across restarts; `RunsTell` follows from both.
`Shared` is their conjunction with `LabelsOfRows`, and inductive over the types. For
`LabelledEarned`, the call that sets the status has its cursor past the rows it read
(`OrderInv`, which holds of the composed system too, `LNextOrdered`), and those are
the rows of the database.

`SegmentationProofs` proves for every video, window, overlap, cap and answer:

- `SegmentTypes`, `SegmentsGapless`, `SegmentsCapped`, `SummariesCarryThrough`:
  `SSpec => []P`, also for answers beyond the end of the video;
- `SegmentsNoSlivers`: the same under `Reach <= Duration`.

`Gapless` speaks of the end only. `IInv` adds that the scenes form a chain from 0 at
every step (`JoinedChained`, `TailChained`, `FilledChained`), that once the tail is
closed they end with the video, and that the output is a chain that ends where the
last segment split so far ends (`Concatenated`). The arithmetic of the pieces is in
`PieceLength`: a boundary is a multiple of the length over the number of pieces,
rounded down (`BoundaryFloor`), that number is the length over the cap rounded up
(`CountBounds`), so two neighbouring boundaries are at most the cap and more than
half of it apart. For the summaries, `CarryInv` says that every segment of the output
lies in a scene already split and has its summary; no boundary leaves its scene,
also when it is rounded (`BoundaryInside`). `LongInv` adds, for answers within the video, that every scene is
longer than half a second, which the tail can only lengthen.

The assumptions used are the named `ASSUME`s of the modules, which TLC evaluates in
every run: bounds are natural numbers, the sets of threads are disjoint, calls and
cutters have names of their own, structured categories are finitely many and none is
holistic, `NoRow` is no row, `None` no definition. Of values: the texts that the code
writes itself are texts, `float()` refuses "", "true" and "false", the values of a
definition are a list of texts, a number is the same number once it is a float. Of
inputs: the model's answers are values and its score is an integer or refused, an
operation that is `ok` carries an integer score and a list of conditions (`IsRule`,
which `_coerce_int` and `_well_formed_when` see to), and the labels a run starts from
were scored by no tree and carry all attributes or none. Three
hypotheses on constants stand in theorems rather than in an assumption, since what
holds without them is worth having too: `LoneWriter`, `Orderly`, and
`Reach <= Duration` in `SegmentsNoSlivers`.

Only model-checked: liveness under fairness (`CallsEnd`, `ApprovedLands`, `RunsEnd`,
`ShotEnds`, `EveryCategoryTried`), which like ENABLED is out of the prover's reach.
Every invariant and every action property of the runs that pass is a theorem, and so
is the refinement. Facts that would be shown by induction over data (what flattening
or sorting yields, that some leaf is reached) are proved from a least or a greatest
counterexample, for the prover has no induction over an operator: a non-empty set of
naturals has a least member (`Least`, `Smallest`, from the well-foundedness of <).
For the same reason `TreeToRules` says of the sorted leaves what they are (in
ascending order of `Before`) and not how they are sorted. What a step of sklearn's
fit prefers is external, so the proofs speak of all trees it may fit.

## 5. Not modelled

Embeddings, ranking and prompt texts (real numbers and prose); ASR utterances and
base attributes, with the maintenance script that fills in the latter; which of
several splits sklearn prefers; ground truth and its comparison; read-only routes and
listings; the user interface, whose fetch hook drops the reply of a request that was
superseded; migrations; one-off scripts. The reasons are in `PROJECT.json`, component
by component.

Within what is modelled: what a cut-off answer said (the retry of `_generate` discards
it) and whether an object without attributes, which replaces the first answer when
more frames were asked for, should do so; the import inside `_run_ingest` and
`_run_label`, whose failure before the status "running" (`app/backend/backend/routers/runs.py:35`, `:49`) would
leave a run queued; and an exception of `seed_from_pegi`, which is outside the `try`
of `run_bootstrap` and appears only as the end of its process (`Die`).

## 6. Plan

Done: the modules above. Left, in this order:

1. Runs with two reviewers of one request and with two writers one of whom
   translates, for the two disagreements of section 3 that no run states.
2. Proofs: the refinement and the citations for writers that take turns rather than
   for a single one; what of `LabelledEarned` and `LabelsOfRows` survives an overlap.
3. `backfill_base_attributes` as a third writer of segments, and the listings of a
   video read in pages while it is written.
4. The loop of the labelling agent over the trees of `PolicyAuthoring`, several
   shots long, so that the next window sees what the last one drafted.
