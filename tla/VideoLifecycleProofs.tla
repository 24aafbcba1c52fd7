--------------------------- MODULE VideoLifecycleProofs ---------------------------
(***************************************************************************)
(* One video between its labelling calls, its ingestions, its              *)
(* resegmentations and the runs of the backend, whatever fails, is         *)
(* restarted or overlaps.                                                  *)
(*                                                                         *)
(* The argument: as long as no task has begun while another was at work,   *)
(* at most one task is at work (Solo), and it is the last that began.  So  *)
(* a labelling call still sees the segments it has read (Read), and        *)
(* between the transactions of a segmentation nobody else writes           *)
(* (Announced, CutInv).  What the last task has left when it ended is      *)
(* still there as long as none has begun since (Told).                     *)
(***************************************************************************)
EXTENDS VideoLifecycle, LabellingGraphProofs

CutStages == {"none", "clips", "video", "segments", "ended", "failed"}
RunStates == {"none", "queued", "running", "completed", "failed", "unknown"}

RunRecords(r) ==
  [status : RunStates, left : Seq(ToSet(Tasks[r])),
   done : SUBSET ToSet(Tasks[r]), failed : SUBSET ToSet(Tasks[r])]

LTypeInv ==
  /\ TypeInv
  /\ clips \in Seq(Cut)
  /\ overview \in Cut \cup {NoCut}
  /\ cutter \in [Cutters -> [stage : CutStages, size : Nat]]
  /\ runs = [r \in DOMAIN Tasks |-> runs[r]]
  /\ \A r \in DOMAIN Tasks : runs[r] \in RunRecords(r)
  /\ overlapped \in BOOLEAN
  /\ last \in Calls \cup Cutters \cup {NoTask}

-----------------------------------------------------------------------------
(* The tasks of a run are calls and ingesters.                             *)
LEMMA TasksOfRun ==
  ASSUME NEW r \in DOMAIN Tasks
  PROVE  Tasks[r] \in Seq(ToSet(Tasks[r])) /\ ToSet(Tasks[r]) \subseteq Calls \cup Ingesters
<1>1. PICK s : s = Tasks[r]
  OBVIOUS
<1>2. s \in Seq(Calls \cup Ingesters)
  BY <1>1, TasksAssumption
<1>3. DOMAIN s = 1..Len(s) /\ Len(s) \in Nat /\ s = [i \in 1..Len(s) |-> s[i]]
  BY <1>2, LenProperties
<1>4. \A i \in 1..Len(s) : s[i] \in Calls \cup Ingesters
  BY <1>2, ElementOfSeq
<1>5. ToSet(s) = {s[i] : i \in 1..Len(s)}
  BY <1>3 DEF ToSet
<1>6. s \in [1..Len(s) -> ToSet(s)]
  BY <1>3, <1>5
<1>7. s \in Seq(ToSet(s))
  BY <1>3, <1>6, SeqDef
<1>8. QED
  BY <1>1, <1>4, <1>5, <1>7

(* o is rows with the first n set to x, longer if need be.                 *)
Overwritten(o, rows, n, x) ==
  /\ o \in Seq(Cut)
  /\ \A i \in 1..n : i \in DOMAIN o /\ o[i] = x
  /\ \A i \in DOMAIN rows : i \in DOMAIN o /\ (i > n => o[i] = rows[i])
  /\ \A i \in DOMAIN o : i \in 1..n \/ (i > n /\ i \in DOMAIN rows)

(* That is what Overwrite makes.                                           *)
LEMMA OverwriteIs ==
  ASSUME NEW seq \in Seq(Cut), NEW n \in Nat, NEW x \in Cut
  PROVE  Overwritten(Overwrite(seq, n, x), seq, n, x)
<1>0. PICK o : o = Overwrite(seq, n, x)
  OBVIOUS
<1>1. PICK p \in Nat : p = Len(seq) /\ DOMAIN seq = 1..p
  BY LenProperties
<1>2. PICK m : m = IF n > p THEN n ELSE p
  OBVIOUS
<1>3. m \in Nat /\ n <= m /\ p <= m /\ (m = n \/ m = p)
  BY <1>2
<1>4. o = [i \in 1..m |-> IF i <= n THEN x ELSE seq[i]]
  BY <1>0, <1>1, <1>2 DEF Overwrite
<1>5. \A i \in 1..m : i \in 1..n \/ (i > n /\ i \in DOMAIN seq)
  BY <1>1, <1>3
<1>6. \A i \in 1..m : o[i] \in Cut
  <2>1. \A i \in DOMAIN seq : seq[i] \in Cut
    BY <1>1, ElementOfSeq
  <2>2. QED
    BY <1>4, <1>5, <2>1
<1>7. o \in [1..m -> Cut]
  BY <1>4, <1>6
<1>8. o \in Seq(Cut)
  BY <1>3, <1>7, SeqDef
<1>9. \A i \in 1..n : i \in DOMAIN o /\ o[i] = x
  BY <1>3, <1>4
<1>10. \A i \in DOMAIN seq : i \in DOMAIN o /\ (i > n => o[i] = seq[i])
  <2>1. \A i \in 1..p : i \in 1..m /\ (i > n => ~(i <= n))
    BY <1>3
  <2>2. QED
    BY <1>1, <1>4, <2>1
<1>11. \A i \in DOMAIN o : i \in 1..n \/ (i > n /\ i \in DOMAIN seq)
  BY <1>4, <1>5
<1>12. QED
  BY <1>0, <1>8, <1>9, <1>10, <1>11 DEF Overwritten

(* Steps of the cutters and of the runs leave the calls alone.             *)
LEMMA TypedFrame ==
  ASSUME TypeInv, UNCHANGED <<labels, effects, call, work>>, segments' \in Seq(Cut),
         status' \in {"pending", "ingested", "labelled"}
  PROVE  TypeInv'
<1>1. \A c \in Calls : CallTyped(call'[c], work'[c])
  BY DEF TypeInv
<1>2. \A c \in Calls : CallTyped(call[c], work[c])'
  BY <1>1 DEF CallTyped, WorkOf, CallRecords, Confirm, Window
<1>3. QED
  BY <1>2 DEF TypeInv

(* A call that is stopped keeps its types.                                 *)
LEMMA StoppedTyped ==
  ASSUME NEW k, NEW w, CallTyped(k, w), NEW m, m = [k EXCEPT !.stage = "failed"]
  PROVE  /\ CallTyped(m, w) /\ m \in CallRecords
         /\ m.stage = "failed" /\ m.segs = k.segs /\ m.cursor = k.cursor
<1>1. k \in CallRecords /\ w \in WorkOf(k)
  BY DEF CallTyped
<1>2. m \in CallRecords /\ m.stage = "failed" /\ m.segs = k.segs /\ m.cursor = k.cursor
  BY <1>1 DEF CallRecords, Stages
<1>3. QED
  BY <1>1, <1>2 DEF CallTyped, WorkOf, Nodes

(* What a step of a running call may change besides its own work.          *)
LEMMA LabelStepIs ==
  ASSUME TypeInv, NEW c \in Calls, Step(c) \/ Fail(c) \/ EmitOrphan(c)
  PROVE  /\ TypeInv'
         /\ Running(c)
         /\ segments' = segments
         /\ \A d \in Calls : d # c => call'[d] = call[d]
         /\ call'[c].segs = call[c].segs /\ call[c].stage # "ended"
         /\ call'[c].stage = "ended" => status' = "labelled"
         /\ \/ status' = status
            \/ status' = "labelled" /\ call[c].stage = "status" /\ labels' = labels
         /\ labels \subseteq labels'
         /\ \A l \in labels' : \/ l \in labels
                               \/ l.shot \in DOMAIN segments /\ l.cut = call[c].segs[l.shot]
<1>1. PICK k, wk : k = call[c] /\ wk = work[c]
  OBVIOUS
<1>2. CallTyped(k, wk) /\ k \in CallRecords
  BY <1>1 DEF TypeInv, CallTyped
<1>3. ASSUME NEW m, m.segs = k.segs, call' = [call EXCEPT ![c] = m]
      PROVE  /\ \A d \in Calls : d # c => call'[d] = call[d]
             /\ call'[c] = m /\ call'[c].segs = call[c].segs
  BY <1>1, <1>3 DEF TypeInv
<1>4. ASSUME NEW x \in CallRecords, x.segs = k.segs, NEW node \in Nodes,
             call' = [call EXCEPT ![c] = Goto(x, node)]
      PROVE  /\ \A d \in Calls : d # c => call'[d] = call[d]
             /\ call'[c].segs = call[c].segs
             /\ call'[c].stage # "ended"
  <2>1. PICK g : g = Goto(x, node)
    OBVIOUS
  <2>2. g.segs = x.segs /\ g.stage \in {node, "exhausted"}
    BY <2>1, GotoIs
  <2>3. node # "ended"
    BY DEF Nodes
  <2>4. call' = [call EXCEPT ![c] = g] /\ g.segs = k.segs
    BY <1>4, <2>1, <2>2
  <2>5. QED
    BY <1>3, <2>2, <2>3, <2>4
<1>5. ASSUME NEW node \in Nodes, call' = [call EXCEPT ![c] = Goto(call[c], node)]
      PROVE  /\ \A d \in Calls : d # c => call'[d] = call[d]
             /\ call'[c].segs = call[c].segs
             /\ call'[c].stage # "ended"
  BY <1>1, <1>2, <1>4, <1>5
<1>6. ASSUME NEW stop \in Stages, call' = [call EXCEPT ![c].stage = stop]
      PROVE  /\ \A d \in Calls : d # c => call'[d] = call[d]
             /\ call'[c].segs = call[c].segs
             /\ call'[c].stage = stop
  <2>1. PICK m : m = [k EXCEPT !.stage = stop]
    OBVIOUS
  <2>2. m.segs = k.segs /\ m.stage = stop
    BY <1>2, <2>1 DEF CallRecords
  <2>3. call' = [call EXCEPT ![c] = m]
    BY <1>1, <1>6, <2>1 DEF TypeInv
  <2>4. QED
    BY <1>3, <2>2, <2>3
<1>7. ASSUME call' = [call EXCEPT ![c].made = @ + 1]
      PROVE  /\ \A d \in Calls : d # c => call'[d] = call[d]
             /\ call'[c].segs = call[c].segs
             /\ call'[c].stage = call[c].stage
  <2>1. PICK m : m = [k EXCEPT !.made = @ + 1]
    OBVIOUS
  <2>2. m.segs = k.segs /\ m.stage = k.stage
    BY <1>2, <2>1 DEF CallRecords
  <2>3. call' = [call EXCEPT ![c] = m]
    BY <1>1, <1>7, <2>1 DEF TypeInv
  <2>4. QED
    BY <1>1, <1>3, <2>2, <2>3
<1>8. CASE Load(c)
  <2>1. call[c].stage = "load" /\ call' = [call EXCEPT ![c] = Goto(call[c], "retrieve")]
        /\ UNCHANGED <<segments, labels, status>>
    BY <1>8 DEF Load
  <2>2. TypeInv'
    BY <1>8, CallNextTyped DEF CallNext, Step
  <2>3. "retrieve" \in Nodes
    BY DEF Nodes
  <2>4. QED
    BY <1>5, <2>1, <2>2, <2>3 DEF Running
<1>9. CASE Retrieve(c)
  <2>1. call[c].stage = "retrieve" /\ call' = [call EXCEPT ![c] = Goto(call[c], "judge")]
        /\ UNCHANGED <<segments, labels, status>>
    BY <1>9 DEF Retrieve
  <2>2. TypeInv'
    BY <1>9, CallNextTyped DEF CallNext, Step
  <2>3. "judge" \in Nodes
    BY DEF Nodes
  <2>4. QED
    BY <1>5, <2>1, <2>2, <2>3 DEF Running
<1>10. CASE Judge(c)
  <2>1. call[c].stage = "judge" /\ call' = [call EXCEPT ![c] = Goto(call[c], "side_fx")]
        /\ UNCHANGED <<segments, labels, status>>
    BY <1>10 DEF Judge
  <2>2. TypeInv'
    BY <1>10, CallNextTyped DEF CallNext, Step
  <2>3. "side_fx" \in Nodes
    BY DEF Nodes
  <2>4. QED
    BY <1>5, <2>1, <2>2, <2>3 DEF Running
<1>11. CASE SideEffect(c)
  <2>1. call[c].stage = "side_fx" /\ call' = [call EXCEPT ![c].made = @ + 1]
        /\ UNCHANGED <<segments, labels, status>>
    BY <1>11 DEF SideEffect
  <2>2. TypeInv'
    BY <1>11, CallNextTyped DEF CallNext, Step
  <2>3. QED
    BY <1>7, <2>1, <2>2 DEF Running
<1>12. CASE SideEffectsDone(c)
  <2>1. call[c].stage = "side_fx" /\ call' = [call EXCEPT ![c] = Goto(call[c], "commit")]
        /\ UNCHANGED <<segments, labels, status>>
    BY <1>12 DEF SideEffectsDone
  <2>2. TypeInv'
    BY <1>12, CallNextTyped DEF CallNext, Step
  <2>3. "commit" \in Nodes
    BY DEF Nodes
  <2>4. QED
    BY <1>5, <2>1, <2>2, <2>3 DEF Running
<1>13. CASE EmitLabel(c)
  <2>1. PICK d : d = Head(work[c].drafts)
    OBVIOUS
  <2>2. PICK l : l = [id |-> <<c, call[c].made>>, shot |-> d.shot, cat |-> d.cat,
                      cut |-> call[c].segs[d.shot]]
    OBVIOUS
  <2>3. /\ call[c].stage = "commit" /\ call' = [call EXCEPT ![c].made = @ + 1]
        /\ labels' = labels \cup {l} /\ d.shot \in DOMAIN segments
        /\ UNCHANGED <<segments, status>>
    BY <1>13, <2>1, <2>2 DEF EmitLabel
  <2>4. l.shot \in DOMAIN segments /\ l.cut = call[c].segs[l.shot]
    BY <2>2, <2>3
  <2>5. TypeInv'
    BY <1>13, CallNextTyped DEF CallNext, Step
  <2>6. QED
    BY <1>7, <2>3, <2>4, <2>5 DEF Running
<1>14. CASE CommitDone(c)
  <2>1. PICK x : x = [k EXCEPT !.cursor = NextCursor(k)]
    OBVIOUS
  <2>2. x \in CallRecords /\ x.segs = k.segs
    <3>1. NextCursor(k) \in Nat
      BY <1>2, WindowAssumption DEF NextCursor, CallRecords
    <3>2. QED
      BY <1>2, <2>1, <3>1 DEF CallRecords
  <2>3. call[c].stage = "commit" /\ UNCHANGED <<segments, labels, status>>
    BY <1>14 DEF CommitDone
  <2>4. TypeInv'
    BY <1>14, CallNextTyped DEF CallNext, Step
  <2>5. CASE x.cursor < Len(x.segs)
    <3>1. call' = [call EXCEPT ![c] = Goto(x, "load")] /\ "load" \in Nodes
      BY <1>1, <1>14, <2>1, <2>5 DEF CommitDone, Nodes
    <3>2. QED
      BY <1>4, <2>2, <2>3, <2>4, <3>1 DEF Running
  <2>6. CASE ~(x.cursor < Len(x.segs))
    <3>1. PICK m : m = [x EXCEPT !.stage = "status"]
      OBVIOUS
    <3>2. call' = [call EXCEPT ![c] = m]
      BY <1>1, <1>14, <2>1, <2>6, <3>1 DEF CommitDone
    <3>3. m.segs = k.segs /\ m.stage = "status"
      BY <2>2, <3>1 DEF CallRecords
    <3>4. QED
      BY <1>3, <2>3, <2>4, <3>2, <3>3 DEF Running
  <2>7. QED
    BY <2>5, <2>6
<1>15. CASE Finish(c)
  <2>1. call[c].stage = "status" /\ call' = [call EXCEPT ![c].stage = "ended"]
        /\ status' = "labelled" /\ UNCHANGED <<segments, labels>>
    BY <1>15 DEF Finish
  <2>2. TypeInv'
    BY <1>15, CallNextTyped DEF CallNext, Step
  <2>3. "ended" \in Stages
    BY DEF Stages
  <2>4. QED
    BY <1>6, <2>1, <2>2, <2>3 DEF Running
<1>16. CASE Fail(c)
  <2>1. Running(c) /\ call' = [call EXCEPT ![c].stage = "failed"]
        /\ UNCHANGED <<segments, labels, status>>
    BY <1>16 DEF Fail
  <2>2. TypeInv'
    BY <1>16, CallNextTyped DEF CallNext
  <2>3. "failed" \in Stages
    BY DEF Stages
  <2>4. QED
    BY <1>6, <2>1, <2>2, <2>3 DEF Running
<1>17. CASE EmitOrphan(c)
  <2>1. call[c].stage = "commit" /\ call' = [call EXCEPT ![c].stage = "failed"]
        /\ UNCHANGED <<segments, labels, effects, status, work>>
    BY <1>17 DEF EmitOrphan
  <2>2. TypeInv'
    <3>1. PICK m : m = [k EXCEPT !.stage = "failed"]
      OBVIOUS
    <3>2. CallTyped(m, wk)
      BY <1>2, <3>1, StoppedTyped
    <3>3. call' = [call EXCEPT ![c] = m] /\ work' = [work EXCEPT ![c] = wk]
      BY <1>1, <2>1, <3>1 DEF TypeInv
    <3>4. QED
      BY <2>1, <3>2, <3>3, OneCallTyped DEF TypeInv
  <2>3. "failed" \in Stages
    BY DEF Stages
  <2>4. QED
    BY <1>6, <2>1, <2>2, <2>3 DEF Running
<1>18. QED
  BY <1>8, <1>9, <1>10, <1>11, <1>12, <1>13, <1>14, <1>15, <1>16, <1>17 DEF Step

-----------------------------------------------------------------------------
Clock == overlapped \in BOOLEAN /\ last \in Calls \cup Cutters \cup {NoTask}

(* What tells of the tasks so far keeps its type.                          *)
LEMMA BeginTyped ==
  ASSUME LTypeInv, NEW t \in Calls \cup Cutters, Begin(t)
  PROVE  Clock'
<1>1. overlapped' \in BOOLEAN
  BY DEF Begin
<1>2. last' = t \/ last' = NoTask
  BY DEF Begin
<1>3. QED
  BY <1>1, <1>2 DEF Clock

(* A changed record of a cutter is one.                                    *)
LEMMA CutterExcept ==
  ASSUME LTypeInv, NEW g \in Cutters, NEW st \in CutStages, NEW n \in Nat
  PROVE  /\ [cutter EXCEPT ![g] = [stage |-> st, size |-> n]] \in [Cutters -> [stage : CutStages, size : Nat]]
         /\ [cutter EXCEPT ![g].stage = st] \in [Cutters -> [stage : CutStages, size : Nat]]
         /\ [cutter EXCEPT ![g].stage = st] = [cutter EXCEPT ![g] = [stage |-> st, size |-> cutter[g].size]]
<1>1. PICK R, x : R = [stage : CutStages, size : Nat] /\ x = cutter[g]
  OBVIOUS
<1>2. cutter \in [Cutters -> R] /\ x \in R
  BY <1>1 DEF LTypeInv
<1>3. [stage |-> st, size |-> n] \in R /\ [x EXCEPT !.stage = st] \in R
  BY <1>1, <1>2
<1>4. [x EXCEPT !.stage = st] = [stage |-> st, size |-> x.size]
  BY <1>1, <1>2
<1>5. [cutter EXCEPT ![g].stage = st] = [cutter EXCEPT ![g] = [x EXCEPT !.stage = st]]
  BY <1>1, <1>2
<1>6. QED
  BY <1>1, <1>2, <1>3, <1>4, <1>5

(* What an ingestion task may change.                                      *)
LEMMA CutTyped ==
  ASSUME LTypeInv, NEW g \in Cutters, CutNext(g)
  PROVE  LTypeInv'
<1>1. /\ TypeInv /\ clips \in Seq(Cut) /\ overview \in Cut \cup {NoCut} /\ Clock
      /\ runs = [r \in DOMAIN Tasks |-> runs[r]] /\ \A r \in DOMAIN Tasks : runs[r] \in RunRecords(r)
      /\ status \in {"pending", "ingested", "labelled"} /\ segments \in Seq(Cut)
  BY DEF LTypeInv, Clock, TypeInv
<1>2. ASSUME TypeInv', clips' \in Seq(Cut), overview' \in Cut \cup {NoCut}, Clock', runs' = runs,
             cutter' \in [Cutters -> [stage : CutStages, size : Nat]]
      PROVE  LTypeInv'
  BY <1>1, <1>2 DEF LTypeInv, Clock, RunRecords
<1>3. g \in Cut /\ g \in Calls \cup Cutters
  BY CutAssumption
<1>4. PICK n \in Nat : n = cutter[g].size
  BY DEF LTypeInv
<1>5. \A st \in CutStages : [cutter EXCEPT ![g].stage = st] \in [Cutters -> [stage : CutStages, size : Nat]]
  BY CutterExcept
<1>6. \A st \in CutStages : [cutter EXCEPT ![g] = Over(st)] \in [Cutters -> [stage : CutStages, size : Nat]]
  BY CutterExcept DEF Over
<1>7. {"clips", "video", "segments", "ended", "failed"} \subseteq CutStages
  BY DEF CutStages
<1>8. UNCHANGED vars => TypeInv'
  <2>1. ASSUME UNCHANGED vars PROVE TypeInv'
    BY <1>1, <2>1, TypedFrame DEF vars
  <2>2. QED
    BY <2>1
<1>9. UNCHANGED history => Clock'
  BY <1>1 DEF history, Clock
<1>10. CASE Segment(g)
  <2>1. PICK m \in 0..MaxShots : cutter' = [cutter EXCEPT ![g] = [stage |-> "clips", size |-> m]]
    BY <1>10 DEF Segment
  <2>2. m \in Nat
    BY CutAssumption
  <2>3. cutter' \in [Cutters -> [stage : CutStages, size : Nat]]
    BY <1>7, <2>1, <2>2, CutterExcept
  <2>4. Begin(g) /\ UNCHANGED <<vars, clips, overview, runs>>
    BY <1>10 DEF Segment
  <2>5. Clock'
    BY <1>3, <2>4, BeginTyped
  <2>6. QED
    BY <1>1, <1>2, <1>8, <2>3, <2>4, <2>5
<1>11. CASE BuildClips(g)
  <2>1. /\ clips' = Overwrite(clips, n, g) /\ cutter' = [cutter EXCEPT ![g].stage = "video"]
        /\ UNCHANGED <<vars, overview, runs, history>>
    BY <1>4, <1>11 DEF BuildClips
  <2>2. clips' \in Seq(Cut)
    BY <1>1, <1>3, <2>1, OverwriteIs DEF Overwritten
  <2>3. QED
    BY <1>1, <1>2, <1>5, <1>7, <1>8, <1>9, <2>1, <2>2
<1>12. CASE UpsertVideo(g)
  <2>1. /\ status' = "ingested" /\ overview' = (IF n = 0 THEN NoCut ELSE g)
        /\ cutter' = [cutter EXCEPT ![g].stage = "segments"]
        /\ UNCHANGED <<segments, labels, effects, call, work, clips, runs, history>>
    BY <1>4, <1>12 DEF UpsertVideo
  <2>2. TypeInv'
    BY <1>1, <2>1, TypedFrame
  <2>3. overview' \in Cut \cup {NoCut}
    BY <1>3, <2>1
  <2>4. QED
    BY <1>1, <1>2, <1>5, <1>7, <1>9, <2>1, <2>2, <2>3
<1>13. CASE UpsertSegments(g)
  <2>1. /\ segments' = Overwrite(segments, n, g) /\ cutter' = [cutter EXCEPT ![g] = Over("ended")]
        /\ UNCHANGED <<labels, effects, status, call, work, clips, overview, runs, history>>
    BY <1>4, <1>13 DEF UpsertSegments
  <2>2. segments' \in Seq(Cut)
    BY <1>1, <1>3, <2>1, OverwriteIs DEF Overwritten
  <2>3. TypeInv'
    BY <1>1, <2>1, <2>2, TypedFrame
  <2>4. QED
    BY <1>1, <1>2, <1>6, <1>7, <1>9, <2>1, <2>3
<1>14. CASE ReplaceSegments(g)
  <2>1. /\ segments' = [i \in 1..n |-> g] /\ cutter' = [cutter EXCEPT ![g] = Over("ended")]
        /\ UNCHANGED <<labels, effects, status, call, work, clips, overview, runs, history>>
    BY <1>4, <1>14 DEF ReplaceSegments
  <2>2. segments' \in Seq(Cut)
    <3>1. segments' \in [1..n -> Cut]
      BY <1>3, <2>1
    <3>2. QED
      BY <3>1, SeqDef
  <2>3. TypeInv'
    BY <1>1, <2>1, <2>2, TypedFrame
  <2>4. QED
    BY <1>1, <1>2, <1>6, <1>7, <1>9, <2>1, <2>3
<1>15. CASE ReplaceRefused(g) \/ FailCut(g)
  <2>1. /\ cutter' = [cutter EXCEPT ![g] = Over("failed")]
        /\ UNCHANGED <<vars, clips, overview, runs, history>>
    BY <1>15 DEF ReplaceRefused, FailCut
  <2>2. QED
    BY <1>1, <1>2, <1>6, <1>7, <1>8, <1>9, <2>1
<1>16. QED
  BY <1>10, <1>11, <1>12, <1>13, <1>14, <1>15 DEF CutNext

(* Every step of a run keeps its record's type.                            *)
LEMMA RunTyped ==
  ASSUME LTypeInv, NEW r \in DOMAIN Tasks, Post(r) \/ BeginRun(r) \/ Record(r) \/ EndRun(r)
  PROVE  LTypeInv'
<1>1. PICK S, x : S = ToSet(Tasks[r]) /\ x = runs[r]
  OBVIOUS
<1>2. RunRecords(r) = [status : RunStates, left : Seq(S), done : SUBSET S, failed : SUBSET S]
  BY <1>1 DEF RunRecords
<1>3. PICK Q : Q = Seq(S)
  OBVIOUS
<1>4. x \in [status : RunStates, left : Q, done : SUBSET S, failed : SUBSET S]
  BY <1>1, <1>2, <1>3 DEF LTypeInv
<1>5. ASSUME NEW y, y \in [status : RunStates, left : Q, done : SUBSET S, failed : SUBSET S],
             runs' = [runs EXCEPT ![r] = y], UNCHANGED <<vars, files, history>>
      PROVE  LTypeInv'
  <2>1. runs' = [q \in DOMAIN Tasks |-> runs'[q]]
    BY <1>5 DEF LTypeInv
  <2>2. \A q \in DOMAIN Tasks : runs'[q] \in RunRecords(q)
    BY <1>2, <1>3, <1>5 DEF LTypeInv
  <2>3. TypeInv'
    BY <1>5, TypedFrame DEF LTypeInv, TypeInv, vars
  <2>4. QED
    BY <1>5, <2>1, <2>2, <2>3 DEF LTypeInv, files, history, RunRecords
<1>6. CASE Post(r)
  <2>1. PICK y : y = [x EXCEPT !.status = "queued", !.left = Tasks[r]]
    OBVIOUS
  <2>2. Tasks[r] \in Q
    BY <1>1, <1>3, TasksOfRun
  <2>3. y \in [status : RunStates, left : Q, done : SUBSET S, failed : SUBSET S]
    BY <1>4, <2>1, <2>2 DEF RunStates
  <2>4. runs' = [runs EXCEPT ![r] = y] /\ UNCHANGED <<vars, files, history>>
    BY <1>1, <1>6, <2>1 DEF Post, LTypeInv
  <2>5. QED
    BY <1>5, <2>3, <2>4
<1>7. CASE BeginRun(r)
  <2>1. PICK y : y = [x EXCEPT !.status = "running"]
    OBVIOUS
  <2>2. y \in [status : RunStates, left : Q, done : SUBSET S, failed : SUBSET S]
    BY <1>4, <2>1 DEF RunStates
  <2>3. runs' = [runs EXCEPT ![r] = y] /\ UNCHANGED <<vars, files, history>>
    BY <1>1, <1>7, <2>1 DEF BeginRun, LTypeInv
  <2>4. QED
    BY <1>5, <2>2, <2>3
<1>8. CASE Record(r)
  <2>1. PICK t : t = Head(x.left)
    OBVIOUS
  <2>2. x.left \in Seq(S) /\ x.left # <<>>
    BY <1>1, <1>3, <1>4, <1>8 DEF Record
  <2>3. t \in S /\ Tail(x.left) \in Q
    BY <1>3, <2>1, <2>2, HeadTailProperties
  <2>4. PICK y : y = [x EXCEPT !.left = Tail(@),
                               !.done = IF Stage(t) = "ended" THEN @ \cup {t} ELSE @,
                               !.failed = IF Stage(t) = "ended" THEN @ ELSE @ \cup {t}]
    OBVIOUS
  <2>5. y \in [status : RunStates, left : Q, done : SUBSET S, failed : SUBSET S]
    BY <1>4, <2>3, <2>4
  <2>6. runs' = [runs EXCEPT ![r] = y] /\ UNCHANGED <<vars, files, history>>
    BY <1>1, <1>8, <2>1, <2>4 DEF Record, LTypeInv
  <2>7. QED
    BY <1>5, <2>5, <2>6
<1>9. CASE EndRun(r)
  <2>1. PICK st : st = IF x.failed = {} THEN "completed" ELSE "failed"
    OBVIOUS
  <2>2. PICK y : y = [x EXCEPT !.status = st]
    OBVIOUS
  <2>3. y \in [status : RunStates, left : Q, done : SUBSET S, failed : SUBSET S]
    BY <1>4, <2>1, <2>2 DEF RunStates
  <2>4. runs' = [runs EXCEPT ![r] = y] /\ UNCHANGED <<vars, files, history>>
    BY <1>1, <1>9, <2>1, <2>2 DEF EndRun, LTypeInv
  <2>5. QED
    BY <1>5, <2>3, <2>4
<1>10. QED
  BY <1>6, <1>7, <1>8, <1>9

(* What a restart makes of the calls and of the cutters.                   *)
LEMMA RestartIs ==
  ASSUME LTypeInv, Restart
  PROVE  /\ \A c \in Calls : \/ call'[c] = call[c]
                             \/ /\ Running(c) /\ call'[c] = [call[c] EXCEPT !.stage = "failed"]
                                /\ call'[c].stage = "failed"
         /\ \A g \in Cutters : cutter'[g] = cutter[g] \/ (Busy(g) /\ cutter'[g] = Over("failed"))
         /\ call' = [c \in Calls |-> call'[c]] /\ cutter' = [g \in Cutters |-> cutter'[g]]
         /\ UNCHANGED <<segments, labels, effects, status, work, clips, overview, history>>
<1>1. /\ call' = [c \in Calls |-> IF c \in Posted /\ Running(c) THEN [call[c] EXCEPT !.stage = "failed"]
                                  ELSE call[c]]
      /\ cutter' = [g \in Cutters |-> IF g \in Posted /\ Busy(g) THEN Over("failed") ELSE cutter[g]]
      /\ UNCHANGED <<segments, labels, effects, status, work, clips, overview, history>>
  BY DEF Restart
<1>2. \A c \in Calls : call'[c] = call[c] \/ (Running(c) /\ call'[c] = [call[c] EXCEPT !.stage = "failed"])
  BY <1>1
<1>3. ASSUME NEW c \in Calls PROVE [call[c] EXCEPT !.stage = "failed"].stage = "failed"
  BY DEF LTypeInv, TypeInv, CallTyped, CallRecords
<1>4. \A g \in Cutters : cutter'[g] = cutter[g] \/ (Busy(g) /\ cutter'[g] = Over("failed"))
  BY <1>1
<1>5. call' = [c \in Calls |-> call'[c]] /\ cutter' = [g \in Cutters |-> cutter'[g]]
  BY <1>1
<1>6. QED
  BY <1>1, <1>2, <1>3, <1>4, <1>5

(* A restart leaves what is stored within its types.                       *)
LEMMA RestartTyped ==
  ASSUME LTypeInv, Restart
  PROVE  LTypeInv'
<1>1. TypeInv'
  <2>1. ASSUME NEW c \in Calls PROVE CallTyped(call'[c], work'[c])
    <3>1. CallTyped(call[c], work[c]) /\ work' = work
      BY RestartIs DEF LTypeInv, TypeInv
    <3>2. call'[c] = call[c] \/ call'[c] = [call[c] EXCEPT !.stage = "failed"]
      BY RestartIs
    <3>3. QED
      BY <3>1, <3>2, StoppedTyped
  <2>2. \A c \in Calls : CallTyped(call[c], work[c])'
    BY <2>1 DEF CallTyped, WorkOf, CallRecords, Confirm, Window
  <2>3. QED
    BY <2>2, RestartIs DEF TypeInv, LTypeInv
<1>2. cutter' \in [Cutters -> [stage : CutStages, size : Nat]]
  <2>1. Over("failed") \in [stage : CutStages, size : Nat]
    BY DEF Over, CutStages
  <2>2. \A g \in Cutters : cutter'[g] \in [stage : CutStages, size : Nat]
    BY <2>1, RestartIs DEF LTypeInv
  <2>3. QED
    BY <2>2, RestartIs
<1>3. /\ runs' = [r \in DOMAIN Tasks |-> runs'[r]]
      /\ \A r \in DOMAIN Tasks : runs'[r] \in RunRecords(r)
  <2>1. runs' = [r \in DOMAIN Tasks |->
                  IF runs[r].status = "none" THEN runs[r]
                  ELSE [status |-> "unknown", left |-> <<>>, done |-> {}, failed |-> {}]]
    BY DEF Restart
  <2>2. ASSUME NEW r \in DOMAIN Tasks PROVE runs'[r] \in RunRecords(r)
    <3>1. [status |-> "unknown", left |-> <<>>, done |-> {}, failed |-> {}] \in RunRecords(r)
      BY DEF RunRecords, RunStates
    <3>2. QED
      BY <2>1, <3>1 DEF LTypeInv
  <2>3. QED
    BY <2>1, <2>2
<1>4. QED
  BY <1>1, <1>2, <1>3, RestartIs DEF LTypeInv, history, RunRecords

(* Types are inductive: one step per action.                               *)
LEMMA LNextTyped ==
  ASSUME LTypeInv, [LNext]_lvars
  PROVE  LTypeInv'
<1>1. ASSUME TypeInv', UNCHANGED <<files, runs>>, Clock' PROVE LTypeInv'
  BY <1>1 DEF LTypeInv, Clock, files, RunRecords
<1>2. ASSUME NEW c \in Calls, StartLabelling(c) PROVE LTypeInv'
  <2>1. TypeInv'
    BY <1>2, CallNextTyped DEF StartLabelling, CallNext, LTypeInv
  <2>2. Clock'
    BY <1>2, BeginTyped DEF StartLabelling
  <2>3. QED
    BY <1>1, <1>2, <2>1, <2>2 DEF StartLabelling
<1>3. ASSUME NEW c \in Calls, LabelStep(c) \/ EmitOrphan(c) PROVE LTypeInv'
  <2>1. TypeInv' /\ UNCHANGED <<files, runs, history>>
    BY <1>3, LabelStepIs DEF LabelStep, EmitOrphan, LTypeInv
  <2>2. QED
    BY <1>1, <2>1 DEF history, Clock, LTypeInv
<1>4. CASE UNCHANGED lvars
  <2>1. TypeInv'
    BY <1>4, TypedFrame DEF LTypeInv, TypeInv, lvars, vars
  <2>2. QED
    BY <1>1, <1>4, <2>1 DEF lvars, history, Clock, LTypeInv
<1>5. QED
  BY <1>2, <1>3, <1>4, CutTyped, RunTyped, RestartTyped DEF LNext, LabelNext

(* The initial state is within its types.                                  *)
LEMMA LInitTyped == LInit => LTypeInv
<1>1. ASSUME LInit PROVE LTypeInv
  <2>1. TypeInv
    <3>1. CallTyped(NotStarted, NoWork)
      BY DEF CallTyped, NotStarted, NoWork, CallRecords, WorkOf, Stages, Nodes
    <3>2. QED
      BY <1>1, <3>1, RowsAssumption DEF LInit, TypeInv
  <2>2. overview \in Cut \cup {NoCut}
    <3>1. CASE FirstRows = <<>>
      BY <1>1, <3>1 DEF LInit
    <3>2. CASE FirstRows # <<>>
      <4>1. FirstRows[1] \in Cut
        BY <3>2, RowsAssumption, HeadTailProperties
      <4>2. QED
        BY <1>1, <3>2, <4>1 DEF LInit
    <3>3. QED
      BY <3>1, <3>2
  <2>3. cutter \in [Cutters -> [stage : CutStages, size : Nat]]
    BY <1>1 DEF LInit, CutStages
  <2>4. runs = [r \in DOMAIN Tasks |-> runs[r]] /\ \A r \in DOMAIN Tasks : runs[r] \in RunRecords(r)
    BY <1>1 DEF LInit, RunRecords, RunStates
  <2>5. QED
    BY <1>1, <2>1, <2>2, <2>3, <2>4, RowsAssumption DEF LInit, LTypeInv
<1>2. QED
  BY <1>1

(* The tables, the files and the runs keep their types, whatever overlaps, *)
(* fails or is restarted (pipeline.py, runs.py).                           *)
THEOREM LifecycleTypes == LSpec => []LTypeOK
<1>1. LTypeInv => LTypeOK
  <2>1. ASSUME LTypeInv PROVE LTypeOK
    <3>1. TypeOK
      BY <2>1, TypeInvTypes DEF LTypeInv
    <3>2. ASSUME NEW r \in DOMAIN Tasks
          PROVE  /\ runs[r].status \in RunStates
                 /\ runs[r].left \in Seq(Posted)
                 /\ runs[r].done \cup runs[r].failed \subseteq ToSet(Tasks[r])
      <4>1. PICK S : S = ToSet(Tasks[r])
        OBVIOUS
      <4>2. S \subseteq Posted
        BY <4>1 DEF Posted
      <4>3. /\ runs[r].status \in RunStates /\ runs[r].left \in Seq(S)
            /\ runs[r].done \subseteq S /\ runs[r].failed \subseteq S
        BY <2>1, <4>1 DEF LTypeInv, RunRecords
      <4>4. runs[r].left \in Seq(Posted)
        BY <4>2, <4>3, SeqMonotonic
      <4>5. QED
        BY <4>1, <4>3, <4>4
    <3>3. \A g \in Cutters : cutter[g].stage \in CutStages /\ cutter[g].size \in Nat
      BY <2>1 DEF LTypeInv
    <3>4. QED
      BY <2>1, <3>1, <3>2, <3>3 DEF LTypeInv, LTypeOK, CutStages, RunStates
  <2>2. QED
    BY <2>1
<1>2. LTypeInv /\ [LNext]_lvars => LTypeInv'
  BY LNextTyped
<1>3. QED
  BY <1>1, <1>2, LInitTyped, PTL DEF LSpec

-----------------------------------------------------------------------------
(* As long as no task has begun while another was at work, the one at work *)
(* is the one that began last.                                             *)
Solo ==
  /\ last # NoTask => ~overlapped
  /\ ~overlapped => /\ \A x \in Calls : Running(x) => x = last
                    /\ \A y \in Cutters : Busy(y) => y = last

(* A call at work has in memory the rows that are in the database.         *)
Read == ~overlapped => \A x \in Calls : Running(x) => call[x].segs = segments

(* Between its last two transactions, a cutter's first one stands.         *)
Announced ==
  ~overlapped => \A y \in Cutters : cutter[y].stage = "segments" =>
    status = "ingested" /\ overview = IF cutter[y].size = 0 THEN NoCut ELSE y

RowsHaveClips ==
  \A s \in DOMAIN segments : s \in DOMAIN clips /\ clips[s] = segments[s]

(* The clips of the new cut are in place, and its rows are not.            *)
ClipsAhead(y) ==
  /\ \A s \in 1..cutter[y].size : s \in DOMAIN clips /\ clips[s] = y
  /\ \A s \in DOMAIN segments : s > cutter[y].size => s \in DOMAIN clips /\ clips[s] = segments[s]

FirstSummarised == overview # NoCut => segments # <<>> /\ segments[1] = overview

Unfailed == ~overlapped /\ \A y \in Cutters : cutter[y].stage # "failed"

CutInv ==
  Unfailed =>
    /\ (\A y \in Cutters : cutter[y].stage \notin {"video", "segments"}) => RowsHaveClips
    /\ (\A y \in Cutters : cutter[y].stage # "segments") => FirstSummarised
    /\ \A y \in Cutters : cutter[y].stage \in {"video", "segments"} => ClipsAhead(y)

(* What the last task has left when it ended is there until another begins. *)
Told ==
  /\ last \in Calls => (call[last].stage = "ended" => status = "labelled")
  /\ last \in Cutters => (cutter[last].stage = "ended" =>
       status = "ingested" /\ (overview = NoCut \/ (overview = last /\ segments[1] = last)))

Shared == Solo /\ Read /\ Announced /\ CutInv /\ Told /\ LabelsOfRows

(* When tasks have met, nothing is claimed.                                *)
LEMMA MetShared ==
  ASSUME overlapped', last' = NoTask
  PROVE  Shared'
BY NamesAssumption DEF Shared, Solo, Read, Announced, CutInv, Unfailed, Told, LabelsOfRows

(* A task that begins alone finds everybody at rest.                       *)
LEMMA BeginsAlone ==
  ASSUME NEW t, Begin(t)
  PROVE  \/ overlapped' /\ last' = NoTask
         \/ ~overlapped' /\ ~overlapped /\ last' = t /\ (\A x \in Calls : ~Running(x))
            /\ (\A y \in Cutters : ~Busy(y))
BY DEF Begin, Quiet, AtWork

(* A call at work is alone as long as no tasks have met.                   *)
LEMMA CallAlone ==
  ASSUME Solo, ~overlapped, NEW c \in Calls, Running(c)
  PROVE  last = c /\ (\A x \in Calls : Running(x) => x = c) /\ (\A y \in Cutters : ~Busy(y))
BY NamesAssumption DEF Solo

(* And so is a cutter.                                                     *)
LEMMA CutterAlone ==
  ASSUME Solo, ~overlapped, NEW g \in Cutters, Busy(g)
  PROVE  last = g /\ (\A x \in Calls : ~Running(x)) /\ (\A y \in Cutters : Busy(y) => y = g)
BY NamesAssumption DEF Solo

(* A step of a call that is at work.                                       *)
LEMMA LabelStepShared ==
  ASSUME LTypeInv, Shared, NEW c \in Calls, Step(c) \/ Fail(c) \/ EmitOrphan(c),
         UNCHANGED <<files, runs, history>>
  PROVE  Shared'
<1>1. /\ Running(c) /\ segments' = segments
      /\ \A d \in Calls : d # c => call'[d] = call[d]
      /\ call'[c].segs = call[c].segs
      /\ call'[c].stage = "ended" => status' = "labelled"
      /\ \A l \in labels' : \/ l \in labels
                            \/ l.shot \in DOMAIN segments /\ l.cut = call[c].segs[l.shot]
  BY LabelStepIs DEF LTypeInv
<1>2. clips' = clips /\ overview' = overview /\ cutter' = cutter /\ overlapped' = overlapped /\ last' = last
  BY DEF files, history
<1>3. CASE overlapped
  BY <1>2, <1>3, MetShared DEF Shared, Solo
<1>4. CASE ~overlapped
  <2>1. /\ last = c /\ (\A x \in Calls : Running(x) => x = c) /\ (\A y \in Cutters : ~Busy(y))
        /\ call[c].segs = segments
    BY <1>1, <1>4, CallAlone DEF Shared, Read
  <2>2. \A x \in Calls : Running(x)' => x = c
    BY <1>1, <2>1 DEF Running
  <2>3. Solo'
    BY <1>2, <1>4, <2>1, <2>2 DEF Solo, Busy
  <2>4. Read'
    BY <1>1, <1>2, <2>1, <2>2 DEF Read
  <2>5. Announced'
    BY <1>2, <2>1 DEF Announced, Busy
  <2>6. CutInv'
    BY <1>1, <1>2 DEF Shared, CutInv, Unfailed, RowsHaveClips, FirstSummarised, ClipsAhead
  <2>7. Told'
    BY <1>1, <1>2, <2>1, NamesAssumption DEF Told
  <2>8. LabelsOfRows'
    BY <1>1, <1>2, <1>4, <2>1 DEF Shared, LabelsOfRows
  <2>9. QED
    BY <2>3, <2>4, <2>5, <2>6, <2>7, <2>8 DEF Shared
<1>5. QED
  BY <1>3, <1>4

(* What the start of a call changes.                                       *)
LEMMA StartIs ==
  ASSUME TypeInv, NEW c \in Calls, NEW boot \in Bootstrap, Start(c, boot)
  PROVE  /\ \A d \in Calls : d # c => call'[d] = call[d]
         /\ call[c].stage = "none"
         /\ call'[c].segs = segments /\ call'[c].stage \in {"load", "exhausted"}
         /\ UNCHANGED <<segments, labels, effects, status, work>>
<1>1. PICK s, g : s = [NotStarted EXCEPT !.boot = boot, !.segs = segments] /\ g = Goto(s, "load")
  OBVIOUS
<1>2. s \in CallRecords /\ s.segs = segments
  <2>1. s = [stage |-> "none", boot |-> boot, segs |-> segments, cursor |-> 0, steps |-> 0, made |-> 0]
    BY <1>1 DEF NotStarted
  <2>2. segments \in Seq(Cut) /\ boot \in BOOLEAN /\ "none" \in Stages
    BY ModelAssumption DEF TypeInv, Stages
  <2>3. QED
    BY <2>1, <2>2 DEF CallRecords
<1>3. g.stage \in {"load", "exhausted"} /\ g.segs = segments
  BY <1>1, <1>2, GotoIs DEF Nodes
<1>4. call' = [call EXCEPT ![c] = g] /\ call[c].stage = "none"
      /\ UNCHANGED <<segments, labels, effects, status, work>>
  BY <1>1 DEF Start
<1>5. QED
  BY <1>3, <1>4 DEF TypeInv

(* A call that begins has read the rows that are there.                    *)
LEMMA StartShared ==
  ASSUME LTypeInv, Shared, NEW c \in Calls, StartLabelling(c)
  PROVE  Shared'
<1>1. PICK boot \in Bootstrap : Start(c, boot)
  BY DEF StartLabelling
<1>2. Begin(c) /\ clips' = clips /\ overview' = overview /\ cutter' = cutter
  BY DEF StartLabelling, files
<1>3. /\ \A d \in Calls : d # c => call'[d] = call[d]
      /\ call'[c].segs = segments /\ call'[c].stage \in {"load", "exhausted"}
      /\ UNCHANGED <<segments, labels, status>>
  BY <1>1, StartIs DEF LTypeInv
<1>4. CASE overlapped'
  BY <1>2, <1>4, BeginsAlone, MetShared
<1>5. CASE ~overlapped'
  <2>1. ~overlapped /\ last' = c /\ (\A x \in Calls : ~Running(x)) /\ (\A y \in Cutters : ~Busy(y))
    BY <1>2, <1>5, BeginsAlone
  <2>2. \A x \in Calls : Running(x)' => x = c
    BY <1>3, <2>1 DEF Running
  <2>3. Solo'
    BY <1>2, <1>5, <2>1, <2>2 DEF Solo, Busy
  <2>4. Read'
    BY <1>3, <2>2 DEF Read
  <2>5. Announced'
    BY <1>2, <2>1 DEF Announced, Busy
  <2>6. CutInv'
    BY <1>2, <1>3, <2>1 DEF Shared, CutInv, Unfailed, RowsHaveClips, FirstSummarised, ClipsAhead
  <2>7. Told'
    BY <1>3, <2>1, NamesAssumption DEF Told
  <2>8. LabelsOfRows'
    BY <1>3, <2>1 DEF Shared, LabelsOfRows
  <2>9. QED
    BY <2>3, <2>4, <2>5, <2>6, <2>7, <2>8 DEF Shared
<1>6. QED
  BY <1>4, <1>5

(* What a step of an ingestion task does to the stages of the cutters.     *)
LEMMA CutterMoves ==
  ASSUME LTypeInv, NEW g \in Cutters, NEW st \in CutStages,
         cutter' = [cutter EXCEPT ![g].stage = st]
  PROVE  /\ \A y \in Cutters : y # g => cutter'[y] = cutter[y]
         /\ cutter'[g].stage = st /\ cutter'[g].size = cutter[g].size
<1>1. PICK R, x : R = [stage : CutStages, size : Nat] /\ x = cutter[g]
  OBVIOUS
<1>2. cutter \in [Cutters -> R] /\ x \in R
  BY <1>1 DEF LTypeInv
<1>3. PICK m : m = [x EXCEPT !.stage = st]
  OBVIOUS
<1>4. m.stage = st /\ m.size = x.size
  BY <1>1, <1>2, <1>3
<1>5. cutter' = [cutter EXCEPT ![g] = m]
  BY <1>1, <1>2, <1>3
<1>6. QED
  BY <1>1, <1>2, <1>4, <1>5

(* What a step of one cutter leaves to the others.                         *)
LEMMA CutterStops ==
  ASSUME LTypeInv, NEW g \in Cutters, NEW st, NEW n,
         cutter' = [cutter EXCEPT ![g] = [stage |-> st, size |-> n]]
  PROVE  /\ \A y \in Cutters : y # g => cutter'[y] = cutter[y]
         /\ cutter'[g].stage = st /\ cutter'[g].size = n
BY DEF LTypeInv

(* The parts that a step of a cutter at work keeps whatever it does.       *)
LEMMA CutterShared ==
  ASSUME LTypeInv, Shared, NEW g \in Cutters, Busy(g), ~overlapped,
         \A y \in Cutters : y # g => cutter'[y] = cutter[y],
         UNCHANGED <<labels, call, history>>
  PROVE  /\ Solo' /\ Read'
         /\ overlapped' = overlapped /\ last' = g /\ g \notin Calls
         /\ \A y \in Cutters : y # g => cutter'[y].stage \notin {"clips", "video", "segments"}
<1>1. /\ last = g /\ (\A x \in Calls : ~Running(x)) /\ (\A y \in Cutters : Busy(y) => y = g)
  BY CutterAlone DEF Shared
<1>2. \A x \in Calls : ~Running(x)'
  BY <1>1 DEF Running
<1>3. last' = last /\ overlapped' = overlapped
  BY DEF history
<1>4. \A y \in Cutters : y # g => cutter'[y].stage \notin {"clips", "video", "segments"}
  BY <1>1 DEF Busy
<1>5. Solo'
  BY <1>1, <1>2, <1>3, <1>4 DEF Solo, Busy
<1>6. Read'
  BY <1>2 DEF Read
<1>7. QED
  BY <1>1, <1>3, <1>4, <1>5, <1>6, NamesAssumption

(* A cutter that begins has changed no table and no file.                  *)
LEMMA SegmentShared ==
  ASSUME LTypeInv, Shared, NEW g \in Cutters, Segment(g)
  PROVE  Shared'
<1>1. PICK m : cutter' = [cutter EXCEPT ![g] = [stage |-> "clips", size |-> m]]
  BY DEF Segment
<1>2. Begin(g) /\ cutter[g].stage = "none"
  BY DEF Segment
<1>3. UNCHANGED <<segments, labels, status, call, clips, overview>>
  BY DEF Segment, vars
<1>4. /\ \A y \in Cutters : y # g => cutter'[y] = cutter[y]
      /\ cutter'[g].stage = "clips"
  BY <1>1, CutterStops
<1>5. CASE overlapped'
  BY <1>2, <1>5, BeginsAlone, MetShared
<1>6. CASE ~overlapped'
  <2>1. ~overlapped /\ last' = g /\ (\A x \in Calls : ~Running(x)) /\ (\A y \in Cutters : ~Busy(y))
    BY <1>2, <1>6, BeginsAlone
  <2>2. /\ \A x \in Calls : ~Running(x)'
        /\ \A y \in Cutters : y # g => cutter'[y].stage \notin {"clips", "video", "segments"}
    BY <1>3, <1>4, <2>1 DEF Running, Busy
  <2>3. Solo'
    BY <1>6, <2>1, <2>2 DEF Solo, Busy
  <2>4. Read'
    BY <2>2 DEF Read
  <2>5. \A y \in Cutters : cutter'[y].stage \notin {"video", "segments"}
    BY <1>4, <2>2
  <2>6. Announced'
    BY <2>5 DEF Announced
  <2>7. CutInv'
    <3>1. \A y \in Cutters : cutter[y].stage \notin {"video", "segments"}
      BY <2>1 DEF Busy
    <3>2. Unfailed' => RowsHaveClips /\ FirstSummarised
      BY <1>2, <1>4, <2>1, <3>1 DEF Shared, CutInv, Unfailed
    <3>3. QED
      BY <1>3, <2>5, <3>2 DEF CutInv, RowsHaveClips, FirstSummarised
  <2>8. Told'
    BY <1>4, <2>1, NamesAssumption DEF Told
  <2>9. LabelsOfRows'
    BY <1>3, <2>1 DEF Shared, LabelsOfRows
  <2>10. QED
    BY <2>3, <2>4, <2>6, <2>7, <2>8, <2>9 DEF Shared
<1>7. QED
  BY <1>5, <1>6

(* The clips of the new cut are written over those of the old one.         *)
LEMMA BuildShared ==
  ASSUME LTypeInv, Shared, NEW g \in Cutters, BuildClips(g), ~overlapped
  PROVE  Shared'
<1>1. PICK n \in Nat : n = cutter[g].size
  BY DEF LTypeInv
<1>2. /\ cutter[g].stage = "clips" /\ clips' = Overwrite(clips, n, g)
      /\ cutter' = [cutter EXCEPT ![g].stage = "video"]
      /\ UNCHANGED <<segments, labels, status, call, overview, history>>
  BY <1>1 DEF BuildClips, vars
<1>3. /\ \A y \in Cutters : y # g => cutter'[y] = cutter[y]
      /\ cutter'[g].stage = "video" /\ cutter'[g].size = n
  BY <1>1, <1>2, CutterMoves DEF CutStages
<1>4. Busy(g)
  BY <1>2 DEF Busy
<1>5. /\ Solo' /\ Read' /\ overlapped' = overlapped /\ last' = g /\ g \notin Calls
      /\ \A y \in Cutters : y # g => cutter'[y].stage \notin {"clips", "video", "segments"}
  BY <1>2, <1>3, <1>4, CutterShared
<1>6. Announced'
  BY <1>3, <1>5 DEF Announced
<1>7. CutInv'
  <2>1. ASSUME Unfailed'
        PROVE  RowsHaveClips /\ FirstSummarised
    <3>1. \A y \in Cutters : cutter[y].stage \notin {"video", "segments", "failed"}
      BY <1>2, <1>3, <1>5, <2>1 DEF Unfailed
    <3>2. QED
      BY <3>1 DEF Shared, CutInv, Unfailed
  <2>2. ASSUME RowsHaveClips PROVE ClipsAhead(g)'
    <3>1. /\ \A i \in 1..n : i \in DOMAIN clips' /\ clips'[i] = g
          /\ \A i \in DOMAIN clips : i \in DOMAIN clips' /\ (i > n => clips'[i] = clips[i])
      <4>1. clips \in Seq(Cut) /\ g \in Cut
        BY CutAssumption DEF LTypeInv
      <4>2. QED
        BY <1>2, <4>1, OverwriteIs DEF Overwritten
    <3>2. QED
      BY <1>2, <1>3, <2>2, <3>1 DEF RowsHaveClips, ClipsAhead
  <2>3. FirstSummarised => FirstSummarised'
    BY <1>2 DEF FirstSummarised
  <2>4. QED
    BY <1>3, <1>5, <2>1, <2>2, <2>3 DEF CutInv
<1>8. Told'
  BY <1>3, <1>5 DEF Told
<1>9. LabelsOfRows'
  BY <1>2, <1>5 DEF Shared, LabelsOfRows
<1>10. QED
  BY <1>5, <1>6, <1>7, <1>8, <1>9 DEF Shared

(* The row of the video announces the new cut.                             *)
LEMMA UpsertVideoShared ==
  ASSUME LTypeInv, Shared, NEW g \in Cutters, UpsertVideo(g), ~overlapped
  PROVE  Shared'
<1>1. PICK n \in Nat : n = cutter[g].size
  BY DEF LTypeInv
<1>2. /\ cutter[g].stage = "video" /\ status' = "ingested"
      /\ overview' = IF n = 0 THEN NoCut ELSE g
      /\ cutter' = [cutter EXCEPT ![g].stage = "segments"]
      /\ UNCHANGED <<segments, labels, call, clips, history>>
  BY <1>1 DEF UpsertVideo
<1>3. /\ \A y \in Cutters : y # g => cutter'[y] = cutter[y]
      /\ cutter'[g].stage = "segments" /\ cutter'[g].size = n
  BY <1>1, <1>2, CutterMoves DEF CutStages
<1>4. Busy(g)
  BY <1>2 DEF Busy
<1>5. /\ Solo' /\ Read' /\ overlapped' = overlapped /\ last' = g /\ g \notin Calls
      /\ \A y \in Cutters : y # g => cutter'[y].stage \notin {"clips", "video", "segments"}
  BY <1>2, <1>3, <1>4, CutterShared
<1>6. Announced'
  BY <1>2, <1>3, <1>5 DEF Announced
<1>7. CutInv'
  <2>1. Unfailed' => ClipsAhead(g)
    BY <1>2, <1>3, <1>5 DEF Shared, CutInv, Unfailed
  <2>2. ClipsAhead(g) => ClipsAhead(g)'
    BY <1>1, <1>2, <1>3 DEF ClipsAhead
  <2>3. QED
    BY <1>3, <1>5, <2>1, <2>2 DEF CutInv
<1>8. Told'
  BY <1>3, <1>5 DEF Told
<1>9. LabelsOfRows'
  BY <1>2, <1>5 DEF Shared, LabelsOfRows
<1>10. QED
  BY <1>5, <1>6, <1>7, <1>8, <1>9 DEF Shared

(* The rows of the new cut are written: nobody else has been at the video  *)
(* since its clips and its overview were.                                  *)
LEMMA RowsShared ==
  ASSUME LTypeInv, Shared, NEW g \in Cutters, ~overlapped, cutter[g].stage = "segments",
         cutter' = [cutter EXCEPT ![g] = Over("ended")],
         UNCHANGED <<labels, status, call, clips, overview, history>>,
         \A i \in 1..cutter[g].size : i \in DOMAIN segments' /\ segments'[i] = g,
         \A i \in DOMAIN segments' : \/ i \in 1..cutter[g].size
                                     \/ i > cutter[g].size /\ i \in DOMAIN segments
                                        /\ segments'[i] = segments[i],
         LabelsOfRows'
  PROVE  Shared'
<1>1. PICK n \in Nat : n = cutter[g].size
  BY DEF LTypeInv
<1>2. /\ \A y \in Cutters : y # g => cutter'[y] = cutter[y]
      /\ cutter'[g].stage = "ended"
  BY CutterStops DEF Over
<1>3. Busy(g)
  BY DEF Busy
<1>4. /\ Solo' /\ Read' /\ overlapped' = overlapped /\ last' = g /\ g \notin Calls
      /\ \A y \in Cutters : y # g => cutter'[y].stage \notin {"clips", "video", "segments"}
  BY <1>2, <1>3, CutterShared
<1>5. \A y \in Cutters : cutter'[y].stage \notin {"clips", "video", "segments"}
  BY <1>2, <1>4
<1>6. Announced'
  BY <1>5 DEF Announced
<1>7. status = "ingested" /\ overview = (IF n = 0 THEN NoCut ELSE g)
  BY <1>1 DEF Shared, Announced
<1>8. overview # NoCut => overview = g /\ segments' # <<>> /\ segments'[1] = g
  <2>1. ASSUME overview # NoCut PROVE overview = g /\ segments' # <<>> /\ segments'[1] = g
    <3>1. overview = g /\ 1 \in 1..n
      BY <1>7, <2>1
    <3>2. 1 \in DOMAIN segments' /\ segments'[1] = g
      BY <1>1, <3>1
    <3>3. DOMAIN <<>> = {}
      OBVIOUS
    <3>4. QED
      BY <3>1, <3>2, <3>3
  <2>2. QED
    BY <2>1
<1>9. CutInv'
  <2>1. ASSUME Unfailed' PROVE RowsHaveClips'
    <3>1. ClipsAhead(g)
      BY <1>2, <1>4, <2>1 DEF Shared, CutInv, Unfailed
    <3>2. QED
      BY <1>1, <3>1 DEF ClipsAhead, RowsHaveClips
  <2>2. FirstSummarised'
    BY <1>8 DEF FirstSummarised
  <2>3. QED
    BY <1>5, <2>1, <2>2 DEF CutInv
<1>10. Told'
  BY <1>4, <1>7, <1>8 DEF Told
<1>11. QED
  BY <1>4, <1>6, <1>9, <1>10 DEF Shared

(* With its rows the new cut is complete.                                  *)
LEMMA UpsertSegmentsShared ==
  ASSUME LTypeInv, Shared, NEW g \in Cutters, UpsertSegments(g), ~overlapped
  PROVE  Shared'
<1>1. PICK n \in Nat : n = cutter[g].size
  BY DEF LTypeInv
<1>2. /\ g \in Ingesters /\ cutter[g].stage = "segments"
      /\ segments' = Overwrite(segments, n, g) /\ cutter' = [cutter EXCEPT ![g] = Over("ended")]
      /\ UNCHANGED <<labels, status, call, clips, overview, history>>
  BY <1>1 DEF UpsertSegments
<1>3. PICK o : o = segments'
  OBVIOUS
<1>4. PICK rows : rows = segments
  OBVIOUS
<1>5. Overwritten(o, rows, n, g)
  <2>1. rows \in Seq(Cut) /\ g \in Cut
    BY <1>4, CutAssumption DEF LTypeInv, TypeInv
  <2>2. QED
    BY <1>2, <1>3, <1>4, <2>1, OverwriteIs
<1>6. /\ \A i \in 1..n : i \in DOMAIN o /\ o[i] = g
      /\ \A i \in DOMAIN segments : i \in DOMAIN o
      /\ \A i \in DOMAIN o : i \in 1..n \/ (i > n /\ i \in DOMAIN segments /\ o[i] = segments[i])
  BY <1>4, <1>5 DEF Overwritten
<1>7. LabelsOfRows'
  <2>1. ASSUME NEW l \in labels
        PROVE  l.shot \in DOMAIN o /\ o[l.shot] \in {l.cut} \cup Ingesters
    <3>1. l.shot \in DOMAIN segments /\ segments[l.shot] \in {l.cut} \cup Ingesters
      BY DEF Shared, LabelsOfRows
    <3>2. l.shot \in DOMAIN o
      BY <1>6, <3>1
    <3>3. CASE l.shot \in 1..n
      BY <1>2, <1>6, <3>2, <3>3
    <3>4. CASE o[l.shot] = segments[l.shot]
      BY <3>1, <3>2, <3>4
    <3>5. QED
      BY <1>6, <3>2, <3>3, <3>4
  <2>2. QED
    BY <1>2, <1>3, <2>1 DEF LabelsOfRows
<1>8. QED
  BY <1>1, <1>2, <1>3, <1>6, <1>7, RowsShared

(* Segments and overview are replaced in one transaction.                  *)
LEMMA ReplaceSegmentsShared ==
  ASSUME LTypeInv, Shared, NEW g \in Cutters, ReplaceSegments(g), ~overlapped
  PROVE  Shared'
<1>1. PICK n \in Nat : n = cutter[g].size
  BY DEF LTypeInv
<1>2. /\ cutter[g].stage = "segments" /\ labels = {}
      /\ segments' = [i \in 1..n |-> g] /\ cutter' = [cutter EXCEPT ![g] = Over("ended")]
      /\ UNCHANGED <<labels, status, call, clips, overview, history>>
  BY <1>1 DEF ReplaceSegments
<1>3. LabelsOfRows'
  BY <1>2 DEF LabelsOfRows
<1>4. \A i \in 1..n : i \in DOMAIN segments' /\ segments'[i] = g
  BY <1>2
<1>5. \A i \in DOMAIN segments' : i \in 1..n
  BY <1>2
<1>6. QED
  BY <1>1, <1>2, <1>3, <1>4, <1>5, RowsShared

(* A cutter that is stopped: nothing is claimed of its clips any more.     *)
LEMMA StoppedShared ==
  ASSUME LTypeInv, Shared, NEW g \in Cutters, ~overlapped, Busy(g),
         cutter' = [cutter EXCEPT ![g] = Over("failed")],
         UNCHANGED <<segments, labels, status, call, clips, overview, history>>
  PROVE  Shared'
<1>1. /\ \A y \in Cutters : y # g => cutter'[y] = cutter[y]
      /\ cutter'[g].stage = "failed"
  BY CutterStops DEF Over
<1>2. /\ Solo' /\ Read' /\ overlapped' = overlapped /\ last' = g /\ g \notin Calls
      /\ \A y \in Cutters : y # g => cutter'[y].stage \notin {"clips", "video", "segments"}
  BY <1>1, CutterShared
<1>3. Announced'
  BY <1>1, <1>2 DEF Announced
<1>4. CutInv'
  BY <1>1 DEF CutInv, Unfailed
<1>5. Told'
  BY <1>1, <1>2 DEF Told
<1>6. LabelsOfRows'
  BY <1>2 DEF Shared, LabelsOfRows
<1>7. QED
  BY <1>2, <1>3, <1>4, <1>5, <1>6 DEF Shared

(* So each step of a cut keeps the invariant.                              *)
LEMMA CutNextShared ==
  ASSUME LTypeInv, Shared, NEW g \in Cutters, CutNext(g)
  PROVE  Shared'
<1>1. CASE Segment(g)
  BY <1>1, SegmentShared
<1>2. CASE overlapped /\ ~Segment(g)
  <2>1. UNCHANGED history
    BY <1>2 DEF CutNext, BuildClips, UpsertVideo, UpsertSegments, ReplaceSegments, ReplaceRefused, FailCut
  <2>2. overlapped' /\ last' = NoTask
    BY <1>2, <2>1 DEF history, Shared, Solo
  <2>3. QED
    BY <2>2, MetShared
<1>3. CASE ~overlapped /\ (ReplaceRefused(g) \/ FailCut(g))
  <2>1. /\ Busy(g) /\ cutter' = [cutter EXCEPT ![g] = Over("failed")]
        /\ UNCHANGED <<segments, labels, status, call, clips, overview, history>>
    BY <1>3 DEF ReplaceRefused, FailCut, Busy, vars
  <2>2. QED
    BY <1>3, <2>1, StoppedShared
<1>4. QED
  BY <1>1, <1>2, <1>3, BuildShared, UpsertVideoShared, UpsertSegmentsShared, ReplaceSegmentsShared DEF CutNext

(* Steps of the runs leave the video, its tasks and their history alone.   *)
LEMMA FrameShared ==
  ASSUME Shared, UNCHANGED <<vars, files, history>>
  PROVE  Shared'
<1>1. UNCHANGED <<segments, labels, status, call, clips, overview, cutter, overlapped, last>>
  BY DEF vars, files, history
<1>2. Solo' /\ Read' /\ Announced'
  BY <1>1 DEF Shared, Solo, Read, Announced, Running, Busy
<1>3. CutInv'
  BY <1>1 DEF Shared, CutInv, Unfailed, RowsHaveClips, FirstSummarised, ClipsAhead
<1>4. Told' /\ LabelsOfRows'
  BY <1>1 DEF Shared, Told, LabelsOfRows
<1>5. QED
  BY <1>2, <1>3, <1>4 DEF Shared

(* A restart only stops what was at work.                                  *)
LEMMA RestartShared ==
  ASSUME LTypeInv, Shared, Restart
  PROVE  Shared'
<1>1. /\ \A c \in Calls : call'[c] = call[c] \/ call'[c].stage = "failed"
      /\ \A g \in Cutters : cutter'[g] = cutter[g] \/ cutter'[g].stage = "failed"
      /\ UNCHANGED <<segments, labels, status, clips, overview>>
      /\ overlapped' = overlapped /\ last' = last
  BY RestartIs DEF Over, history
<1>2. /\ \A c \in Calls : Running(c)' => Running(c) /\ call'[c] = call[c]
      /\ \A g \in Cutters : Busy(g)' => Busy(g) /\ cutter'[g] = cutter[g]
  BY <1>1 DEF Running, Busy
<1>3. Solo' /\ Read'
  BY <1>1, <1>2 DEF Shared, Solo, Read
<1>4. Announced'
  <2>1. \A g \in Cutters : cutter'[g].stage = "segments" => cutter'[g] = cutter[g]
    BY <1>2 DEF Busy
  <2>2. QED
    BY <1>1, <2>1 DEF Shared, Announced
<1>5. CutInv'
  <2>1. ASSUME Unfailed' PROVE Unfailed /\ \A g \in Cutters : cutter'[g] = cutter[g]
    BY <1>1, <2>1 DEF Unfailed
  <2>2. QED
    BY <1>1, <2>1 DEF Shared, CutInv, RowsHaveClips, FirstSummarised, ClipsAhead
<1>6. Told'
  <2>1. /\ \A c \in Calls : call'[c].stage = "ended" => call[c].stage = "ended"
        /\ \A g \in Cutters : cutter'[g].stage = "ended" => cutter[g].stage = "ended"
    BY <1>1
  <2>2. QED
    BY <1>1, <2>1 DEF Shared, Told
<1>7. LabelsOfRows'
  BY <1>1 DEF Shared, LabelsOfRows
<1>8. QED
  BY <1>3, <1>4, <1>5, <1>6, <1>7 DEF Shared

(* And each step of anybody: one step per action.                          *)
LEMMA LNextShared ==
  ASSUME LTypeInv, Shared, [LNext]_lvars
  PROVE  Shared'
<1>1. ASSUME NEW c \in Calls, LabelNext(c) PROVE Shared'
  <2>1. CASE StartLabelling(c)
    BY <2>1, StartShared
  <2>2. CASE LabelStep(c) \/ EmitOrphan(c)
    BY <2>2, LabelStepShared DEF LabelStep, EmitOrphan
  <2>3. QED
    BY <1>1, <2>1, <2>2 DEF LabelNext
<1>2. ASSUME NEW r \in DOMAIN Tasks, Post(r) \/ BeginRun(r) \/ Record(r) \/ EndRun(r)
      PROVE  Shared'
  <2>1. UNCHANGED <<vars, files, history>>
    BY <1>2 DEF Post, BeginRun, Record, EndRun
  <2>2. QED
    BY <2>1, FrameShared
<1>3. CASE UNCHANGED lvars
  BY <1>3, FrameShared DEF lvars
<1>4. QED
  BY <1>1, <1>2, <1>3, CutNextShared, RestartShared DEF LNext

(* At the start everything is of one cut.                                  *)
LEMMA LInitShared == LInit => Shared
<1>1. ASSUME LInit PROVE Shared
  <2>1. /\ segments = FirstRows /\ clips = FirstRows /\ labels = {} /\ last = NoTask /\ ~overlapped
        /\ overview = (IF FirstRows = <<>> THEN NoCut ELSE FirstRows[1])
        /\ \A c \in Calls : call[c].stage = "none"
        /\ \A g \in Cutters : cutter[g].stage = "none"
    BY <1>1 DEF LInit, NotStarted
  <2>2. Solo /\ Read
    BY <2>1 DEF Solo, Read, Running, Busy
  <2>3. Announced /\ CutInv
    BY <2>1 DEF Announced, CutInv, RowsHaveClips, FirstSummarised
  <2>4. Told /\ LabelsOfRows
    BY <2>1, NamesAssumption DEF Told, LabelsOfRows
  <2>5. QED
    BY <2>2, <2>3, <2>4 DEF Shared
<1>2. QED
  BY <1>1

(* Types and agreement hold throughout.                                    *)
LEMMA SharedAlways == LSpec => [](LTypeInv /\ Shared)
<1>1. LInit => LTypeInv /\ Shared
  BY LInitTyped, LInitShared
<1>2. LTypeInv /\ Shared /\ [LNext]_lvars => (LTypeInv /\ Shared)'
  BY LNextTyped, LNextShared
<1>3. QED
  BY <1>1, <1>2, PTL DEF LSpec

(* Whatever failed on the way, and as long as no two tasks met, a label is *)
(* of a row that is there, and of the cut that row is of unless an         *)
(* ingestion has overwritten it: the foreign key (replace_segments).       *)
THEOREM LabelsKeepTheirRows == LSpec => []LabelsOfRows
<1>1. Shared => LabelsOfRows
  BY DEF Shared
<1>2. QED
  BY <1>1, SharedAlways, PTL

(* At rest, with no task failed and none met, the rows, the clip files and *)
(* the overview are of one cut (ingest_video, resegment_video).            *)
THEOREM OneCutAtRest == LSpec => []CutsAgree
<1>1. Shared => CutsAgree
  <2>1. ASSUME CutInv, Quiet, Unfailed
        PROVE  /\ \A s \in DOMAIN segments : clips[s] = segments[s]
               /\ overview # NoCut => segments # <<>> /\ segments[1] = overview
    <3>1. \A y \in Cutters : cutter[y].stage \notin {"video", "segments"}
      BY <2>1 DEF Quiet, AtWork, Busy
    <3>2. RowsHaveClips /\ FirstSummarised
      BY <2>1, <3>1 DEF CutInv
    <3>3. QED
      BY <3>2 DEF RowsHaveClips, FirstSummarised
  <2>2. QED
    BY <2>1 DEF Shared, CutsAgree, Unfailed
<1>2. QED
  BY <1>1, SharedAlways, PTL

-----------------------------------------------------------------------------
(* What a run counts as done has ended, and does not begin again.          *)
DoneEnded == \A r \in DOMAIN Tasks : \A t \in runs[r].done : Stage(t) = "ended"

(* A run that told its end keeps it.                                       *)
LEMMA DoneKept ==
  ASSUME LTypeInv, DoneEnded, runs' = runs,
         \A c \in Calls : call[c].stage = "ended" => call'[c].stage = "ended",
         \A g \in Cutters : cutter[g].stage = "ended" => cutter'[g].stage = "ended"
  PROVE  DoneEnded'
<1>1. ASSUME NEW r \in DOMAIN Tasks, NEW t \in runs[r].done PROVE Stage(t)' = "ended"
  <2>1. t \in Calls \cup Cutters
    BY TasksOfRun DEF LTypeInv, RunRecords, Cutters
  <2>2. Stage(t) = "ended"
    BY DEF DoneEnded
  <2>3. QED
    BY <2>1, <2>2 DEF Stage
<1>2. QED
  BY <1>1 DEF DoneEnded

(* What runs told stays true: one step per action.                         *)
LEMMA LNextDone ==
  ASSUME LTypeInv, DoneEnded, [LNext]_lvars
  PROVE  DoneEnded'
<1>1. ASSUME NEW c \in Calls, LabelNext(c) PROVE DoneEnded'
  <2>1. runs' = runs /\ cutter' = cutter
    BY <1>1 DEF LabelNext, StartLabelling, LabelStep, EmitOrphan, files
  <2>2. \A d \in Calls : call[d].stage = "ended" => call'[d].stage = "ended"
    <3>1. CASE StartLabelling(c)
      BY <3>1, StartIs DEF StartLabelling, LTypeInv
    <3>2. CASE LabelStep(c) \/ EmitOrphan(c)
      BY <3>2, LabelStepIs DEF LabelStep, LTypeInv
    <3>3. QED
      BY <1>1, <3>1, <3>2 DEF LabelNext
  <2>3. QED
    BY <2>1, <2>2, DoneKept
<1>2. ASSUME NEW g \in Cutters, CutNext(g) PROVE DoneEnded'
  <2>1. runs' = runs /\ call' = call /\ cutter[g].stage # "ended"
    BY <1>2 DEF CutNext, Segment, BuildClips, UpsertVideo, UpsertSegments, ReplaceSegments,
                ReplaceRefused, FailCut, Busy, vars
  <2>2. cutter' = [cutter EXCEPT ![g] = cutter'[g]]
    <3>1. \E x : cutter' = [cutter EXCEPT ![g] = x]
      BY <1>2 DEF CutNext, Segment, BuildClips, UpsertVideo, UpsertSegments, ReplaceSegments,
                  ReplaceRefused, FailCut
    <3>2. QED
      BY <3>1 DEF LTypeInv
  <2>3. \A y \in Cutters : y # g => cutter'[y] = cutter[y]
    BY <2>2 DEF LTypeInv
  <2>4. QED
    BY <2>1, <2>3, DoneKept
<1>3. ASSUME NEW r \in DOMAIN Tasks, Post(r) \/ BeginRun(r) \/ Record(r) \/ EndRun(r)
      PROVE  DoneEnded'
  <2>1. call' = call /\ cutter' = cutter
    BY <1>3 DEF Post, BeginRun, Record, EndRun, vars, files
  <2>2. /\ \A q \in DOMAIN Tasks : q # r => runs'[q] = runs[q]
        /\ \A t \in runs'[r].done : t \in runs[r].done \/ Stage(t) = "ended"
    <3>1. PICK S, x, Q : S = ToSet(Tasks[r]) /\ x = runs[r] /\ Q = Seq(S)
      OBVIOUS
    <3>2. x \in [status : RunStates, left : Q, done : SUBSET S, failed : SUBSET S]
      BY <3>1 DEF LTypeInv, RunRecords
    <3>3. ASSUME NEW y, runs' = [runs EXCEPT ![r] = y],
                 \A t \in y.done : t \in x.done \/ Stage(t) = "ended"
          PROVE  /\ \A q \in DOMAIN Tasks : q # r => runs'[q] = runs[q]
                 /\ \A t \in runs'[r].done : t \in runs[r].done \/ Stage(t) = "ended"
      BY <3>1, <3>3 DEF LTypeInv
    <3>4. CASE Post(r)
      <4>1. PICK y : y = [x EXCEPT !.status = "queued", !.left = Tasks[r]]
        OBVIOUS
      <4>2. y.done = x.done
        BY <3>2, <4>1
      <4>3. runs' = [runs EXCEPT ![r] = y]
        BY <3>1, <3>4, <4>1 DEF Post, LTypeInv
      <4>4. QED
        BY <3>3, <4>2, <4>3
    <3>5. CASE BeginRun(r)
      <4>1. PICK y : y = [x EXCEPT !.status = "running"]
        OBVIOUS
      <4>2. y.done = x.done
        BY <3>2, <4>1
      <4>3. runs' = [runs EXCEPT ![r] = y]
        BY <3>1, <3>5, <4>1 DEF BeginRun, LTypeInv
      <4>4. QED
        BY <3>3, <4>2, <4>3
    <3>6. CASE Record(r)
      <4>1. PICK t : t = Head(x.left)
        OBVIOUS
      <4>2. PICK D, F, ts : /\ D = IF Stage(t) = "ended" THEN x.done \cup {t} ELSE x.done
                            /\ F = IF Stage(t) = "ended" THEN x.failed ELSE x.failed \cup {t}
                            /\ ts = Tail(x.left)
        OBVIOUS
      <4>3. PICK y : y = [x EXCEPT !.left = ts, !.done = D, !.failed = F]
        OBVIOUS
      <4>4. y.done = D
        BY <3>2, <4>3
      <4>5. runs' = [runs EXCEPT ![r] = y]
        BY <3>1, <3>6, <4>1, <4>2, <4>3 DEF Record, LTypeInv
      <4>6. \A u \in y.done : u \in x.done \/ Stage(u) = "ended"
        BY <4>2, <4>4
      <4>7. QED
        BY <3>3, <4>5, <4>6
    <3>7. CASE EndRun(r)
      <4>1. PICK st : st = IF x.failed = {} THEN "completed" ELSE "failed"
        OBVIOUS
      <4>2. PICK y : y = [x EXCEPT !.status = st]
        OBVIOUS
      <4>3. y.done = x.done
        BY <3>2, <4>2
      <4>4. runs' = [runs EXCEPT ![r] = y]
        BY <3>1, <3>7, <4>1, <4>2 DEF EndRun, LTypeInv
      <4>5. QED
        BY <3>3, <4>3, <4>4
    <3>8. QED
      BY <1>3, <3>4, <3>5, <3>6, <3>7
  <2>3. \A t : Stage(t)' = Stage(t)
    BY <2>1 DEF Stage
  <2>4. ASSUME NEW q \in DOMAIN Tasks, NEW t \in runs'[q].done PROVE Stage(t) = "ended"
    BY <2>2 DEF DoneEnded
  <2>5. QED
    BY <2>3, <2>4 DEF DoneEnded
<1>4. CASE Restart
  <2>1. \A q \in DOMAIN Tasks : runs'[q].done \subseteq runs[q].done
    BY <1>4 DEF Restart
  <2>2. /\ \A c \in Calls : call[c].stage = "ended" => call'[c].stage = "ended"
        /\ \A g \in Cutters : cutter[g].stage = "ended" => cutter'[g].stage = "ended"
    BY <1>4, RestartIs DEF Running, Busy
  <2>3. ASSUME NEW q \in DOMAIN Tasks, NEW t \in runs'[q].done PROVE Stage(t)' = "ended"
    <3>1. t \in runs[q].done
      BY <2>1
    <3>2. t \in Calls \cup Cutters
      BY <3>1, TasksOfRun DEF LTypeInv, RunRecords, Cutters
    <3>3. QED
      BY <2>2, <3>1, <3>2 DEF DoneEnded, Stage
  <2>4. QED
    BY <2>3 DEF DoneEnded
<1>5. CASE UNCHANGED lvars
  BY <1>5, DoneKept DEF lvars, vars, files
<1>6. QED
  BY <1>1, <1>2, <1>3, <1>4, <1>5 DEF LNext

(* A run that counts its video as done tells the truth as long as nothing  *)
(* else has been at the video since, also when other tasks of the run      *)
(* failed or the backend was restarted (_run_label, _run_ingest).          *)
THEOREM RunsTellTheTruth == LSpec => []RunsTell
<1>1. LInit => DoneEnded
  BY DEF LInit, DoneEnded
<1>2. LTypeInv /\ DoneEnded /\ [LNext]_lvars => DoneEnded'
  BY LNextDone
<1>3. LTypeInv /\ Shared /\ DoneEnded => RunsTell
  <2>1. ASSUME LTypeInv, Told, DoneEnded, NEW r \in DOMAIN Tasks, last \in runs[r].done
        PROVE  IF last \in Calls THEN status = "labelled"
               ELSE /\ status = "ingested"
                    /\ overview = NoCut \/ (overview = last /\ segments[1] = last)
    <3>1. last \in Calls \cup Ingesters /\ Stage(last) = "ended"
      BY <2>1, TasksOfRun DEF LTypeInv, RunRecords, DoneEnded
    <3>2. QED
      BY <2>1, <3>1 DEF Told, Stage, Cutters
  <2>2. QED
    BY <2>1 DEF Shared, RunsTell
<1>4. QED
  BY <1>1, <1>2, <1>3, SharedAlways, PTL DEF LSpec

-----------------------------------------------------------------------------
(* A step that leaves labels and status keeps their order.                 *)
LEMMA OrderFrame ==
  ASSUME OrderInv, UNCHANGED <<labels, call, work>>
  PROVE  OrderInv'
<1>1. \A c \in Calls : CallOrder(c, call'[c], work'[c], labels')
  BY DEF OrderInv
<1>2. QED
  BY <1>1 DEF OrderInv, CallOrder, Placed, AtHand, Named, Waiting, IsOne

(* A call that is stopped leaves its labels in order.                      *)
LEMMA StoppedOrdered ==
  ASSUME TypeInv, OrderInv, NEW c \in Calls, NEW m, m = [call[c] EXCEPT !.stage = "failed"]
  PROVE  CallOrder(c, m, work[c], labels)
<1>1. PICK k, w : k = call[c] /\ w = work[c]
  OBVIOUS
<1>2. CallTyped(k, w) /\ CallOrder(c, k, w, labels)
  BY <1>1 DEF TypeInv, OrderInv
<1>3. m \in CallRecords /\ m.stage = "failed" /\ m.segs = k.segs /\ m.cursor = k.cursor
  BY <1>1, <1>2, StoppedTyped
<1>4. k \in CallRecords
  BY <1>2 DEF CallTyped
<1>5. CallOrder(c, m, w, labels)
  BY <1>2, <1>3, <1>4, StageMoves
<1>6. QED
  BY <1>1, <1>5

(* The order is inductive: one step per action.                            *)
LEMMA LNextOrdered ==
  ASSUME Orderly, LTypeInv, OrderInv, [LNext]_lvars
  PROVE  OrderInv'
<1>1. TypeInv
  BY DEF LTypeInv
<1>2. ASSUME NEW c \in Calls, LabelNext(c) PROVE OrderInv'
  <2>1. CASE StartLabelling(c) \/ LabelStep(c)
    BY <1>1, <2>1, CallNextOrdered DEF StartLabelling, LabelStep, CallNext
  <2>2. CASE EmitOrphan(c)
    <3>1. PICK m, w : m = [call[c] EXCEPT !.stage = "failed"] /\ w = work[c]
      OBVIOUS
    <3>2. CallOrder(c, m, w, labels)
      BY <1>1, <3>1, StoppedOrdered
    <3>3. /\ call' = [call EXCEPT ![c] = m] /\ work' = [work EXCEPT ![c] = w] /\ labels' = labels
      BY <1>1, <2>2, <3>1 DEF EmitOrphan, TypeInv
    <3>4. QED
      BY <1>1, <3>2, <3>3, OneCallOrdered
  <2>3. QED
    BY <1>2, <2>1, <2>2 DEF LabelNext
<1>3. ASSUME NEW g \in Cutters, CutNext(g) PROVE OrderInv'
  BY <1>3, OrderFrame DEF CutNext, Segment, BuildClips, UpsertVideo, UpsertSegments, ReplaceSegments,
                          ReplaceRefused, FailCut, vars
<1>4. ASSUME NEW r \in DOMAIN Tasks, Post(r) \/ BeginRun(r) \/ Record(r) \/ EndRun(r)
      PROVE  OrderInv'
  BY <1>4, OrderFrame DEF Post, BeginRun, Record, EndRun, vars
<1>5. CASE Restart
  <2>1. work' = work /\ labels' = labels
    BY <1>5, RestartIs
  <2>2. ASSUME NEW c \in Calls PROVE CallOrder(c, call'[c], work'[c], labels')
    <3>1. PICK m : m = call'[c]
      OBVIOUS
    <3>2. m = call[c] \/ m = [call[c] EXCEPT !.stage = "failed"]
      BY <1>5, <3>1, RestartIs
    <3>3. CallOrder(c, call[c], work[c], labels)
      BY DEF OrderInv
    <3>4. CallOrder(c, m, work[c], labels)
      BY <1>1, <3>2, <3>3, StoppedOrdered
    <3>5. QED
      BY <2>1, <3>1, <3>4
  <2>3. QED
    BY <2>2 DEF OrderInv, CallOrder, Placed, AtHand, Named, Waiting, IsOne
<1>6. CASE UNCHANGED lvars
  BY <1>6, OrderFrame DEF lvars, vars
<1>7. QED
  BY <1>2, <1>3, <1>4, <1>5, <1>6 DEF LNext

(* Labels that cover the rows go on covering them.                         *)
LEMMA EarnedStays ==
  ASSUME LabelledEarned, overlapped => overlapped', segments' = segments, status' = status,
         labels \subseteq labels'
  PROVE  LabelledEarned'
<1>1. ASSUME StatusEarned PROVE StatusEarned'
  BY <1>1 DEF StatusEarned
<1>2. QED
  BY <1>1 DEF LabelledEarned

(* Only a call that labelled a video marks it labelled.                    *)
LEMMA LNextEarned ==
  ASSUME LTypeInv, Shared, OrderInv, LabelledEarned, [LNext]_lvars
  PROVE  LabelledEarned'
<1>1. overlapped => overlapped'
  BY DEF LNext, LabelNext, CutNext, StartLabelling, LabelStep, EmitOrphan, Segment, Begin, BuildClips,
         UpsertVideo, UpsertSegments, ReplaceSegments, ReplaceRefused, FailCut, Post, BeginRun,
         Record, EndRun, Restart, history, lvars
<1>2. ASSUME ~overlapped', segments' = segments, labels \subseteq labels', status' = status
      PROVE  LabelledEarned'
  BY <1>1, <1>2, EarnedStays
<1>3. ASSUME status' # "labelled" PROVE LabelledEarned'
  BY <1>3 DEF LabelledEarned, StatusEarned
<1>4. ASSUME overlapped' PROVE LabelledEarned'
  BY <1>4 DEF LabelledEarned
<1>5. ASSUME NEW c \in Calls, LabelNext(c), ~overlapped' PROVE LabelledEarned'
  <2>1. CASE StartLabelling(c)
    BY <1>2, <1>5, <2>1, StartIs DEF StartLabelling, LTypeInv
  <2>2. CASE LabelStep(c) \/ EmitOrphan(c)
    <3>1. /\ segments' = segments /\ labels \subseteq labels' /\ Running(c)
          /\ \/ status' = status
             \/ status' = "labelled" /\ call[c].stage = "status" /\ labels' = labels
      BY <2>2, LabelStepIs DEF LabelStep, LTypeInv
    <3>2. CASE status' = status
      BY <1>2, <1>5, <3>1, <3>2
    <3>3. CASE call[c].stage = "status" /\ labels' = labels
      <4>1. call[c].segs = segments
        BY <1>1, <1>5, <3>1 DEF Shared, Read
      <4>2. ASSUME NEW s \in DOMAIN segments, NEW cat \in Structured
            PROVE  \E l \in labels : l.shot = s /\ l.cat = cat /\ l.cut = segments[s]
        BY <3>3, <4>1, EndedHasAll DEF LTypeInv
      <4>3. StatusEarned'
        BY <3>1, <3>3, <4>2 DEF StatusEarned
      <4>4. QED
        BY <4>3 DEF LabelledEarned
    <3>4. QED
      BY <3>1, <3>2, <3>3
  <2>3. QED
    BY <1>5, <2>1, <2>2 DEF LabelNext
<1>6. ASSUME NEW g \in Cutters, CutNext(g), ~overlapped' PROVE LabelledEarned'
  <2>1. CASE Segment(g) \/ BuildClips(g) \/ ReplaceRefused(g) \/ FailCut(g)
    BY <1>2, <1>6, <2>1 DEF Segment, BuildClips, ReplaceRefused, FailCut, vars
  <2>2. CASE UpsertVideo(g)
    BY <1>3, <2>2 DEF UpsertVideo
  <2>3. CASE UpsertSegments(g) \/ ReplaceSegments(g)
    <3>1. status' = status /\ cutter[g].stage = "segments"
      BY <2>3 DEF UpsertSegments, ReplaceSegments
    <3>2. status = "ingested"
      BY <1>1, <1>6, <3>1 DEF Shared, Announced
    <3>3. QED
      BY <1>3, <3>1, <3>2
  <2>4. QED
    BY <1>6, <2>1, <2>2, <2>3 DEF CutNext
<1>7. ASSUME NEW r \in DOMAIN Tasks, Post(r) \/ BeginRun(r) \/ Record(r) \/ EndRun(r), ~overlapped'
      PROVE  LabelledEarned'
  BY <1>2, <1>7 DEF Post, BeginRun, Record, EndRun, vars
<1>8. CASE Restart /\ ~overlapped'
  BY <1>2, <1>8, RestartIs
<1>9. CASE UNCHANGED lvars /\ ~overlapped'
  BY <1>2, <1>9 DEF lvars, vars
<1>10. QED
  BY <1>4, <1>5, <1>6, <1>7, <1>8, <1>9 DEF LNext

(* As long as no two tasks met on it, and whatever failed or was restarted *)
(* in between, a video that says "labelled" has a label for each of its    *)
(* rows in each structured category, made on the row's own cut             *)
(* (set_video_status, upsert_video, replace_segments).                     *)
THEOREM LabelledIsEarned ==
  ASSUME Orderly
  PROVE  LSpec => []LabelledEarned
<1>1. LInit => OrderInv /\ LabelledEarned
  <2>1. LInit => OrderInv
    <3>1. ASSUME LInit PROVE OrderInv
      <4>1. ASSUME NEW c \in Calls PROVE CallOrder(c, call[c], work[c], labels)
        <5>1. call[c] = NotStarted /\ work[c] = NoWork /\ labels = {}
          BY <3>1 DEF LInit
        <5>2. NotStarted.segs = <<>> /\ NotStarted.stage = "none" /\ DOMAIN <<>> = {}
          BY DEF NotStarted
        <5>3. QED
          BY <5>1, <5>2 DEF CallOrder
      <4>2. QED
        BY <4>1 DEF OrderInv
    <3>2. QED
      BY <3>1
  <2>2. LInit => LabelledEarned
    BY DEF LInit, LabelledEarned, StatusEarned
  <2>3. QED
    BY <2>1, <2>2
<1>2. LTypeInv /\ Shared /\ OrderInv /\ LabelledEarned /\ [LNext]_lvars
        => (OrderInv /\ LabelledEarned)'
  BY LNextOrdered, LNextEarned
<1>3. QED
  BY <1>1, <1>2, SharedAlways, PTL DEF LSpec

=============================================================================
