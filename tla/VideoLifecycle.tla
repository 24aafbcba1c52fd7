----------------------------- MODULE VideoLifecycle -----------------------------
(***************************************************************************)
(* One video between its two writers: the labelling calls of               *)
(* LabellingGraph, and ingest_video and resegment_video of                 *)
(* ingestion/ingestion/pipeline.py, over the tables of storage.py; with    *)
(* the registry of the runs that the backend starts (routers/runs.py of    *)
(* app/backend), which a restart loses.                                    *)
(*                                                                         *)
(* A cut is what one run of the segmentation yields: its name and its      *)
(* number of segments.  An ingester cuts the clips (files whose name is    *)
(* the position, so a new cut overwrites an old one), then writes the      *)
(* video with its overview, then the segments, each in a transaction of    *)
(* its own.  Both HTTP routes start background tasks, scripts call the     *)
(* same functions, and nothing keeps two tasks off one video: `overlapped` *)
(* tells whether that has happened.                                        *)
(*                                                                         *)
(* Left out: the utterances (ASR of the same media, the same each time),   *)
(* the embeddings, and the other videos of a run.                          *)
(***************************************************************************)
EXTENDS LabellingGraph

CONSTANTS
  Ingesters,   \* calls of ingest_video
  Resegmenters,\* calls of resegment_video
  MaxShots,    \* bound: segments of a cut
  NoCut,       \* no overview, no clip
  Tasks,       \* the runs posted to the backend: the tasks each is to do
  NoTask       \* nothing has run yet

Cutters == Ingesters \cup Resegmenters

ASSUME CutAssumption == Cutters \subseteq Cut /\ NoCut \notin Cut /\ MaxShots \in Nat

(* Every call has a name of its own.                                       *)
ASSUME NamesAssumption ==
  /\ Ingesters \cap Resegmenters = {}
  /\ Calls \cap Cutters = {}
  /\ NoTask \notin Calls \cup Cutters

ASSUME TasksAssumption == \A r \in DOMAIN Tasks : Tasks[r] \in Seq(Calls \cup Ingesters)

VARIABLES
  clips,     \* the clip file of each position, by the cut it was made for
  overview,  \* the cut that videos.global_overview summarises
  cutter,    \* what each ingestion task is doing
  runs,      \* _RUNS
  overlapped,\* history: a task has begun while another was at work
  last       \* history: the task that began last, as long as none has met another

files   == <<clips, overview, cutter>>
history == <<overlapped, last>>
lvars   == <<vars, files, runs, history>>

(* A video that was collected and not ingested has no rows and is pending; *)
(* one that was has its clips and its overview.                            *)
LInit ==
  /\ segments = FirstRows
  /\ labels = {}
  /\ effects = {}
  /\ status = IF FirstRows = <<>> THEN "pending" ELSE "ingested"
  /\ call = [c \in Calls |-> NotStarted]
  /\ work = [c \in Calls |-> NoWork]
  /\ clips = FirstRows
  /\ overview = IF FirstRows = <<>> THEN NoCut ELSE FirstRows[1]
  /\ cutter = [g \in Cutters |-> [stage |-> "none", size |-> 0]]
  /\ runs = [r \in DOMAIN Tasks |-> [status |-> "none", left |-> <<>>, done |-> {}, failed |-> {}]]
  /\ overlapped = FALSE
  /\ last = NoTask

Over(stage) == [stage |-> stage, size |-> 0]

Busy(g) == cutter[g].stage \in {"clips", "video", "segments"}

AtWork == {g \in Cutters : Busy(g)} \cup {c \in Calls : Running(c)}

Quiet == AtWork = {}

(* A task of a run waits for its turn in it; any other is a script's.      *)
Posted == UNION {ToSet(Tasks[r]) : r \in DOMAIN Tasks}

Turn(r, t) == runs[r].status = "running" /\ runs[r].left # <<>> /\ Head(runs[r].left) = t

Begin(t) ==
  /\ t \in Posted => \E r \in DOMAIN Tasks : Turn(r, t)
  /\ overlapped' = (overlapped \/ ~Quiet)
  /\ last' = IF overlapped' THEN NoTask ELSE t

(* seq with its first n elements set to x, longer if need be.              *)
Overwrite(seq, n, x) ==
  [i \in 1..(IF n > Len(seq) THEN n ELSE Len(seq)) |-> IF i <= n THEN x ELSE seq[i]]

-----------------------------------------------------------------------------
(* Segmentation: the media is cut into some number of segments (none when  *)
(* the model finds no scene).  It is the id of the task that names the cut. *)
Segment(g) ==
  /\ cutter[g].stage = "none"
  /\ Begin(g)
  /\ \E n \in 0..MaxShots : cutter' = [cutter EXCEPT ![g] = [stage |-> "clips", size |-> n]]
  /\ UNCHANGED <<vars, clips, overview, runs>>

(* _build_segments moves every clip to its place.                          *)
BuildClips(g) ==
  /\ cutter[g].stage = "clips"
  /\ clips' = Overwrite(clips, cutter[g].size, g)
  /\ cutter' = [cutter EXCEPT ![g].stage = "video"]
  /\ UNCHANGED <<vars, overview, runs, history>>

(* Fault: the video keeps the status it had.                               *)
UpsertVideoQuiet(g) ==
  /\ cutter[g].stage = "video"
  /\ overview' = IF cutter[g].size = 0 THEN NoCut ELSE g
  /\ cutter' = [cutter EXCEPT ![g].stage = "segments"]
  /\ UNCHANGED <<vars, clips, runs, history>>

(* upsert_video: the status is "ingested" again, and the overview is the   *)
(* new one, or none when there is no segment to summarise.                 *)
UpsertVideo(g) ==
  /\ cutter[g].stage = "video"
  /\ status' = "ingested"
  /\ overview' = IF cutter[g].size = 0 THEN NoCut ELSE g
  /\ cutter' = [cutter EXCEPT ![g].stage = "segments"]
  /\ UNCHANGED <<segments, labels, effects, call, work, clips, runs, history>>

(* Fault: rows that exist are left as they are.                            *)
UpsertSegmentsInsertOnly(g) ==
  /\ g \in Ingesters
  /\ cutter[g].stage = "segments"
  /\ segments' = [i \in 1..(IF cutter[g].size > Len(segments) THEN cutter[g].size
                            ELSE Len(segments)) |->
                    IF i \in DOMAIN segments THEN segments[i] ELSE g]
  /\ cutter' = [cutter EXCEPT ![g] = Over("ended")]
  /\ UNCHANGED <<labels, effects, status, call, work, clips, overview, runs, history>>

(* ingest_video ends with upsert_segments: rows are overwritten or added,  *)
(* never removed.                                                          *)
UpsertSegments(g) ==
  /\ g \in Ingesters
  /\ cutter[g].stage = "segments"
  /\ segments' = Overwrite(segments, cutter[g].size, g)
  /\ cutter' = [cutter EXCEPT ![g] = Over("ended")]
  /\ UNCHANGED <<labels, effects, status, call, work, clips, overview, runs, history>>

(* Fault: labels do not reference their segments.                          *)
ReplaceSegmentsUnguarded(g) ==
  /\ g \in Resegmenters
  /\ cutter[g].stage = "segments"
  /\ segments' = [i \in 1..cutter[g].size |-> g]
  /\ cutter' = [cutter EXCEPT ![g] = Over("ended")]
  /\ UNCHANGED <<labels, effects, status, call, work, clips, overview, runs, history>>

(* resegment_video ends with replace_segments.  Its DELETE violates the    *)
(* foreign key of labels when one of the rows has a label, and the whole   *)
(* transaction is undone.                                                  *)
ReplaceSegments(g) ==
  /\ g \in Resegmenters
  /\ cutter[g].stage = "segments"
  /\ labels = {}
  /\ segments' = [i \in 1..cutter[g].size |-> g]
  /\ cutter' = [cutter EXCEPT ![g] = Over("ended")]
  /\ UNCHANGED <<labels, effects, status, call, work, clips, overview, runs, history>>

ReplaceRefused(g) ==
  /\ g \in Resegmenters
  /\ cutter[g].stage = "segments"
  /\ labels # {}
  /\ cutter' = [cutter EXCEPT ![g] = Over("failed")]
  /\ UNCHANGED <<vars, clips, overview, runs, history>>

FailCut(g) ==
  /\ Failures
  /\ Busy(g)
  /\ cutter' = [cutter EXCEPT ![g] = Over("failed")]
  /\ UNCHANGED <<vars, clips, overview, runs, history>>

-----------------------------------------------------------------------------
StartLabelling(c) ==
  /\ \E boot \in Bootstrap : Start(c, boot)
  /\ Begin(c)
  /\ UNCHANGED <<files, runs>>

LabelStep(c) == (Step(c) \/ Fail(c)) /\ UNCHANGED <<files, runs, history>>

(* save_label for a segment that is gone violates the foreign key, and the *)
(* exception ends the call.                                                *)
EmitOrphan(c) ==
  /\ call[c].stage = "commit"
  /\ work[c].drafts # <<>>
  /\ Head(work[c].drafts).shot \notin DOMAIN segments
  /\ call' = [call EXCEPT ![c].stage = "failed"]
  /\ UNCHANGED <<segments, labels, effects, status, work, files, runs, history>>

-----------------------------------------------------------------------------
(* runs.py.  A request registers a run, and a background task works it off.*)
Post(r) ==
  /\ runs[r].status = "none"
  /\ runs' = [runs EXCEPT ![r].status = "queued", ![r].left = Tasks[r]]
  /\ UNCHANGED <<vars, files, history>>

BeginRun(r) ==
  /\ runs[r].status = "queued"
  /\ runs' = [runs EXCEPT ![r].status = "running"]
  /\ UNCHANGED <<vars, files, history>>

Stage(t) == IF t \in Calls THEN call[t].stage ELSE cutter[t].stage

(* Fault: an exception ends the loop.                                      *)
RecordDone(r) ==
  LET t == Head(runs[r].left)
  IN  /\ runs[r].status = "running" /\ runs[r].left # <<>>
      /\ Stage(t) = "ended"
      /\ runs' = [runs EXCEPT ![r].left = Tail(@), ![r].done = @ \cup {t}]
      /\ UNCHANGED <<vars, files, history>>

(* Fault: what has run is done.                                            *)
RecordAll(r) ==
  LET t == Head(runs[r].left)
  IN  /\ runs[r].status = "running" /\ runs[r].left # <<>>
      /\ Stage(t) \in {"ended", "failed", "exhausted"}
      /\ runs' = [runs EXCEPT ![r].left = Tail(@), ![r].done = @ \cup {t}]
      /\ UNCHANGED <<vars, files, history>>

(* Whatever ends a task is caught, and the run goes on with the next one.  *)
Record(r) ==
  LET t == Head(runs[r].left)
  IN  /\ runs[r].status = "running" /\ runs[r].left # <<>>
      /\ Stage(t) \in {"ended", "failed", "exhausted"}
      /\ runs' = [runs EXCEPT ![r].left = Tail(@),
                              ![r].done = IF Stage(t) = "ended" THEN @ \cup {t} ELSE @,
                              ![r].failed = IF Stage(t) = "ended" THEN @ ELSE @ \cup {t}]
      /\ UNCHANGED <<vars, files, history>>

EndRun(r) ==
  /\ runs[r].status = "running" /\ runs[r].left = <<>>
  /\ runs' = [runs EXCEPT ![r].status = IF runs[r].failed = {} THEN "completed" ELSE "failed"]
  /\ UNCHANGED <<vars, files, history>>

(* The backend restarts: the tasks of its runs are gone, and so is what it *)
(* knew of them.  The database, the clips and the scripts stay.            *)
Restart ==
  /\ Failures
  /\ \E r \in DOMAIN Tasks : runs[r].status \notin {"none", "unknown"}
  /\ runs' = [r \in DOMAIN Tasks |->
                IF runs[r].status = "none" THEN runs[r]
                ELSE [status |-> "unknown", left |-> <<>>, done |-> {}, failed |-> {}]]
  /\ call' = [c \in Calls |-> IF c \in Posted /\ Running(c) THEN [call[c] EXCEPT !.stage = "failed"]
                              ELSE call[c]]
  /\ cutter' = [g \in Cutters |->
                 IF g \in Posted /\ Busy(g) THEN Over("failed")
                 ELSE cutter[g]]
  /\ UNCHANGED <<segments, labels, effects, status, work, clips, overview, history>>

-----------------------------------------------------------------------------
LabelNext(c) == StartLabelling(c) \/ LabelStep(c) \/ EmitOrphan(c)

CutNext(g) ==
  \/ Segment(g) \/ BuildClips(g) \/ UpsertVideo(g)
  \/ UpsertSegments(g) \/ ReplaceSegments(g) \/ ReplaceRefused(g)
  \/ FailCut(g)

LNext ==
  \/ \E c \in Calls : LabelNext(c)
  \/ \E g \in Cutters : CutNext(g)
  \/ \E r \in DOMAIN Tasks : Post(r) \/ BeginRun(r) \/ Record(r) \/ EndRun(r)
  \/ Restart

LSpec == LInit /\ [][LNext]_lvars

(* A run is worked off by one background task, its steps one after the     *)
(* other; nothing is assumed of the scripts.                               *)
RunProgress(r) ==
  \/ BeginRun(r) \/ Record(r) \/ EndRun(r)
  \/ \E c \in Calls : Turn(r, c) /\ LabelNext(c)
  \/ \E g \in Ingesters : Turn(r, g) /\ CutNext(g)

FairLSpec == LSpec /\ \A r \in DOMAIN Tasks : WF_lvars(RunProgress(r))

-----------------------------------------------------------------------------
(* The types of what is added here (pipeline.py, runs.py).                 *)
LTypeOK ==
  /\ TypeOK
  /\ clips \in Seq(Cut)
  /\ overview \in Cut \cup {NoCut}
  /\ \A g \in Cutters :
       /\ cutter[g].stage \in {"none", "clips", "video", "segments", "ended", "failed"}
       /\ cutter[g].size \in Nat
  /\ \A r \in DOMAIN Tasks :
       /\ runs[r].status \in {"none", "queued", "running", "completed", "failed", "unknown"}
       /\ runs[r].left \in Seq(Posted)
       /\ runs[r].done \cup runs[r].failed \subseteq ToSet(Tasks[r])
  /\ overlapped \in BOOLEAN
  /\ last \in Calls \cup Cutters \cup {NoTask}

(* A video that says "labelled" is, as long as no two tasks were on it at
   once and whatever failed or was restarted in between: each of its rows
   has a label in every structured category, made on the row's own cut.    *)
LabelledEarned == ~overlapped => StatusEarned

(* When nobody is at work on a video, no task has failed and none met
   another, its rows, its clip files and its overview are of one cut each: a
   row has the clip that was cut for it, and the overview summarises the
   first row's cut.                                                        *)
CutsAgree ==
  Quiet /\ ~overlapped /\ (\A g \in Cutters : cutter[g].stage # "failed") =>
    /\ \A s \in DOMAIN segments : clips[s] = segments[s]
    /\ overview # NoCut => segments # <<>> /\ segments[1] = overview

(* resegment_video "replaces the video's segments and refreshes
   global_overview": they go together, also when the task fails.           *)
OverviewOfRows ==
  Quiet /\ ~overlapped /\ overview # NoCut => segments # <<>> /\ segments[1] = overview

(* The foreign key of labels protects them from resegmentation: the shot a
   label names stays, and stays of the cut it was judged on, unless an
   ingestion has overwritten it.                                           *)
LabelsOfRows ==
  ~overlapped => \A l \in labels :
    l.shot \in DOMAIN segments /\ segments[l.shot] \in {l.cut} \cup Ingesters

(* A run that counts its video as done tells the truth: while nothing else
   has been at the video since, a labelling run has left it labelled, and an
   ingestion run has left it ingested, with its rows and its overview
   (_run_label, _run_ingest).                                              *)
RunsTell ==
  \A r \in DOMAIN Tasks :
    last \in runs[r].done =>
      IF last \in Calls
      THEN status = "labelled"
      ELSE /\ status = "ingested"
           /\ overview = NoCut \/ (overview = last /\ segments[1] = last)

(* A run that was posted ends, whatever its tasks do, unless a restart
   makes the backend forget it.                                            *)
RunsEnd ==
  \A r \in DOMAIN Tasks :
    runs[r].status = "queued" ~> runs[r].status \in {"completed", "failed", "unknown"}

=============================================================================
