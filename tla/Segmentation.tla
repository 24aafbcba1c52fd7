------------------------------ MODULE Segmentation ------------------------------
(***************************************************************************)
(* How ingestion cuts a video into segments: _omni_segments and            *)
(* _cap_and_fill of ingestion/ingestion/pipeline.py.                       *)
(*                                                                         *)
(* Overlapping windows of the video are shown to a multimodal model, which *)
(* answers with scenes; the overlap of two windows is shown to it again    *)
(* and its second answer decides between the two.  Every scene that ends   *)
(* more than half a second after what is already covered is appended, the  *)
(* tail is drawn to the end of the video, and long segments are split.     *)
(*                                                                         *)
(* Times are ticks.  A scene is taken from a reply one at a time, and a    *)
(* reply may hold any number of them, also none: the order is the code's,  *)
(* and a reply matters only through the scenes it holds.  All windows are  *)
(* asked before the first scene is used; the replies do not depend on each *)
(* other, so a scene is chosen when it is used.  A piece of a long segment *)
(* ends on a tick, where the code has a float.                             *)
(***************************************************************************)
EXTENDS Integers, Sequences

CONSTANTS
  Duration,    \* ticks of the video
  Second,      \* ticks of a second
  W,           \* omni_window_seconds, in ticks
  O,           \* omni_overlap_seconds, in ticks
  MaxSeconds,  \* max_segment_seconds, in ticks; 0 or less disables the cap
  Reach,       \* bound: the latest time the model names
  Summaries    \* texts the model gives a scene

ASSUME SegmentAssumption ==
  /\ {Duration, Second, W, Reach} \subseteq Nat \ {0}
  /\ O \in Nat /\ MaxSeconds \in Int
  /\ Second % 2 = 0

Lesser(a, b)  == IF a <= b THEN a ELSE b
Greater(a, b) == IF a >= b THEN a ELSE b
Half == Second \div 2

VARIABLES
  stage,  \* which loop is running
  i,      \* the window of the loop over windows; how far the cap has come
  final,  \* the scenes joined so far; the contiguous list of the cap
  out     \* the segments that are returned

svars == <<stage, i, final, out>>

-----------------------------------------------------------------------------
(* The windows.  A window starts every Step ticks, as long as there is     *)
(* video left, and the last ones are cut off at its end.                   *)
Step == Greater(W - O, Second)
Start(w) == w * Step
WinEnd(w) == Start(w) + Lesser(W, Duration - Start(w))

(* Fault: one window too many when the steps come out even.                *)
LastWindowLate(w) == Start(w + 1) > Duration

LastWindow(w) == Start(w + 1) >= Duration

(* The scenes of a window are used up to the start of the next one.        *)
Hi(w) == IF LastWindow(w) THEN Duration ELSE Start(w + 1)

Segments == [t_start : Int, t_end : Int, summary : Summaries]

Cover == IF final = <<>> THEN 0 ELSE final[Len(final)].t_end

(* Fault: every scene that ends after the cover is appended.               *)
JoinedAll(end, summary) ==
  IF end > Cover
  THEN Append(final, [t_start |-> Cover, t_end |-> end, summary |-> summary])
  ELSE final

(* _append: a scene starts where the last one ended, whatever it says.     *)
Joined(end, summary) ==
  IF end > Cover + Half
  THEN Append(final, [t_start |-> Cover, t_end |-> end, summary |-> summary])
  ELSE final

SInit == stage = "scenes" /\ i = 0 /\ final = <<>> /\ out = <<>>

(* A scene of window i, clamped to the window.                             *)
TakeScene ==
  /\ stage = "scenes"
  /\ \E start, end \in 0..Reach, summary \in Summaries :
       LET a == Greater(Start(i), start)
           b == Lesser(WinEnd(i), end)
       IN  /\ b > a
           /\ a < Hi(i)
           /\ final' = Joined(b, summary)
  /\ UNCHANGED <<stage, i, out>>

ToOverlap ==
  /\ stage = "scenes" /\ ~LastWindow(i)
  /\ stage' = "overlap"
  /\ UNCHANGED <<i, final, out>>

(* A scene of the second answer: neither clamped nor compared with the     *)
(* overlap, and its start is not used.                                     *)
TakeReconciled ==
  /\ stage = "overlap"
  /\ \E end \in 0..Reach, summary \in Summaries : final' = Joined(end, summary)
  /\ UNCHANGED <<stage, i, out>>

NextWindow ==
  /\ stage = "overlap"
  /\ stage' = "scenes" /\ i' = i + 1
  /\ UNCHANGED <<final, out>>

(* Fault: the tail stays where the last scene ended.                       *)
WithTailOpen(segs) == segs

WithTail(segs) ==
  IF segs = <<>> THEN segs ELSE [segs EXCEPT ![Len(segs)].t_end = Duration]

CloseTail ==
  /\ stage = "scenes" /\ LastWindow(i)
  /\ stage' = "fill" /\ final' = WithTail(final)
  /\ UNCHANGED <<i, out>>

-----------------------------------------------------------------------------
(* _cap_and_fill.                                                          *)

(* Its first loop: each segment starts where the one before it ended.      *)
Filled(segs) ==
  [j \in 1..Len(segs) |->
     [segs[j] EXCEPT !.t_start = IF j = 1 THEN 0 ELSE segs[j - 1].t_end]]

Fill ==
  /\ stage = "fill"
  /\ stage' = "cap" /\ i' = 0 /\ final' = WithTail(Filled(final))
  /\ UNCHANGED out

(* Fault: the number of pieces is rounded down.                            *)
PieceCountDown(d) == Greater(d \div MaxSeconds, 1)

(* Its second loop: a segment longer than the cap becomes the fewest equal *)
(* pieces that respect it.                                                 *)
PieceCount(d) == (d + MaxSeconds - 1) \div MaxSeconds

(* Fault: the pieces are measured from the start of the video.             *)
BoundaryAbsolute(seg, j, k) ==
  IF j = k THEN seg.t_end ELSE (j * (seg.t_end - seg.t_start)) \div k

Boundary(seg, j, k) ==
  IF j = k THEN seg.t_end ELSE seg.t_start + (j * (seg.t_end - seg.t_start)) \div k

Pieces(seg) ==
  LET d == seg.t_end - seg.t_start
      k == PieceCount(d)
  IN  IF MaxSeconds <= 0 \/ d <= MaxSeconds
      THEN <<seg>>
      ELSE [j \in 1..k |-> [t_start |-> Boundary(seg, j - 1, k),
                            t_end   |-> Boundary(seg, j, k),
                            summary |-> seg.summary]]

CapOne ==
  /\ stage = "cap" /\ i < Len(final)
  /\ i' = i + 1 /\ out' = out \o Pieces(final[i + 1])
  /\ UNCHANGED <<stage, final>>

Return ==
  /\ stage = "cap" /\ i = Len(final)
  /\ stage' = "done"
  /\ UNCHANGED <<i, final, out>>

SNext ==
  \/ TakeScene \/ ToOverlap \/ TakeReconciled \/ NextWindow \/ CloseTail
  \/ Fill \/ CapOne \/ Return

SSpec == SInit /\ [][SNext]_svars

-----------------------------------------------------------------------------
(* Properties.                                                             *)

(* Types, and the window at hand is one of the video.                      *)
SegTypeOK ==
  /\ stage \in {"scenes", "overlap", "fill", "cap", "done"}
  /\ i \in Nat
  /\ final \in Seq(Segments) /\ out \in Seq(Segments)
  /\ stage \in {"scenes", "overlap"} => Start(i) < Duration

Chained(segs) ==
  /\ segs # <<>> => segs[1].t_start = 0
  /\ \A j \in 2..Len(segs) : segs[j].t_start = segs[j - 1].t_end

(* "gap-free from 0 to duration": each segment starts where the one before *)
(* it ended, the first at 0, and the last ends with the video, whatever    *)
(* the model answers, unless nothing it answered could be used.            *)
Gapless ==
  stage = "done" =>
    /\ Chained(out)
    /\ out = <<>> <=> final = <<>>
    /\ out # <<>> => out[Len(out)].t_end = Duration

(* "with every segment capped at max_seconds".                             *)
Capped ==
  MaxSeconds > 0 => \A j \in 1..Len(out) : out[j].t_end - out[j].t_start <= MaxSeconds

(* No segment is a sliver: it is longer than half a second, or it is a     *)
(* piece of more than half the cap, rounded down to a tick.  Holds when    *)
(* the second answers stay within the video (Reach <= Duration).           *)
NoSlivers ==
  \A j \in 1..Len(out) :
    LET d == out[j].t_end - out[j].t_start
    IN  d > Half \/ (MaxSeconds > 0 /\ 2 * (d + 1) > MaxSeconds)

(* "Summaries carry through": a segment has the summary of the scene it    *)
(* lies in, whatever the model answers.                                    *)
SummariesCarry ==
  \A j \in 1..Len(out) : \E s \in 1..Len(final) :
    /\ final[s].t_start <= out[j].t_start /\ out[j].t_end <= final[s].t_end
    /\ final[s].summary = out[j].summary

=============================================================================
