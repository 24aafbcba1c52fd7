--------------------------- MODULE SegmentationProofs ---------------------------
(***************************************************************************)
(* What _omni_segments returns, for any video, windows, cap and answers of *)
(* the model: contiguous from 0 to the end of the video, and capped.  When *)
(* the second answers stay within the video, no segment is a sliver.       *)
(*                                                                         *)
(* The argument: the list of scenes is a chain from 0 at every step, and   *)
(* so is the output of the cap, whose end is that of the last segment it   *)
(* has split (IInv).  A piece has its cap because its boundaries are       *)
(* multiples of the length over the number of pieces, rounded down, and    *)
(* that number is the length over the cap, rounded up (PieceLength).       *)
(***************************************************************************)
EXTENDS Segmentation, TLAPS

(* What integer division returns.                                          *)
LEMMA Floor ==
  ASSUME NEW a \in Int, NEW k \in Nat \ {0}
  PROVE  /\ a \div k \in Int
         /\ (a \div k) * k <= a
         /\ a < (a \div k) * k + k
  OBVIOUS

(* A positive factor can be cancelled.                                     *)
LEMMA MonoMul ==
  ASSUME NEW a \in Int, NEW b \in Int, NEW k \in Nat \ {0}, a * k < b * k
  PROVE  a < b
<1>1. SUFFICES ASSUME b <= a PROVE b * k <= a * k
  BY Z3
<1>2. a - b \in Nat /\ a = b + (a - b)
  BY <1>1
<1>3. PICK d \in Nat : a = b + d
  BY <1>2
<1>4. a * k = b * k + d * k
  BY <1>3
<1>5. d * k \in Nat
  BY <1>3
<1> QED
  BY <1>4, <1>5

(* The number of pieces is the length over the cap, rounded up.            *)
LEMMA CountBounds ==
  ASSUME NEW d \in Int, MaxSeconds > 0, MaxSeconds < d
  PROVE  /\ PieceCount(d) \in Nat \ {0, 1}
         /\ d <= PieceCount(d) * MaxSeconds
         /\ PieceCount(d) * MaxSeconds <= d + MaxSeconds - 1
<1> DEFINE k == PieceCount(d)
<1>1. /\ k \in Int
      /\ k * MaxSeconds <= d + MaxSeconds - 1
      /\ d + MaxSeconds - 1 < k * MaxSeconds + MaxSeconds
  BY SegmentAssumption, Floor DEF PieceCount
<1>2. d <= k * MaxSeconds
  BY <1>1, SegmentAssumption
<1>3. 1 * MaxSeconds < k * MaxSeconds
  BY <1>2, <1>1, SegmentAssumption
<1>4. 1 < k
  BY <1>3, <1>1, MonoMul, SegmentAssumption
<1> QED
  BY <1>1, <1>2, <1>4

(* How long a segment is, in ticks.                                        *)
Length(seg) == seg.t_end - seg.t_start

(* A boundary is a multiple of the length over the number of pieces,       *)
(* rounded down.                                                           *)
LEMMA BoundaryFloor ==
  ASSUME NEW seg \in Segments, NEW k \in Nat \ {0}, NEW j \in 0..k
  PROVE  /\ Boundary(seg, j, k) \in Int
         /\ (Boundary(seg, j, k) - seg.t_start) * k <= j * Length(seg)
         /\ j * Length(seg) < (Boundary(seg, j, k) - seg.t_start) * k + k
<1>1. seg.t_start \in Int /\ seg.t_end \in Int /\ Length(seg) \in Int
  BY DEF Segments, Length
<1>2. CASE j = k
  BY <1>1, <1>2 DEF Boundary, Length
<1>3. CASE j # k
  <2> DEFINE q == (j * Length(seg)) \div k
  <2>1. j * Length(seg) \in Int
    BY <1>1
  <2>2. q \in Int /\ q * k <= j * Length(seg) /\ j * Length(seg) < q * k + k
    BY <2>1, Floor
  <2>3. Boundary(seg, j, k) = seg.t_start + q
    BY <1>3 DEF Boundary, Length
  <2>4. Boundary(seg, j, k) \in Int /\ Boundary(seg, j, k) - seg.t_start = q
    BY <2>2, <2>3, <1>1
  <2> QED
    BY <2>2, <2>4
<1> QED
  BY <1>2, <1>3

(* A piece is at most the cap, and more than half of it up to a tick.      *)
LEMMA PieceLength ==
  ASSUME NEW seg \in Segments, MaxSeconds > 0, MaxSeconds < Length(seg),
         NEW k, k = PieceCount(Length(seg)), NEW j \in 1..k
  PROVE  /\ Boundary(seg, j, k) - Boundary(seg, j - 1, k) <= MaxSeconds
         /\ 2 * (Boundary(seg, j, k) - Boundary(seg, j - 1, k) + 1) > MaxSeconds
<1> DEFINE d == Length(seg)
           p == Boundary(seg, j - 1, k) - seg.t_start
           q == Boundary(seg, j, k) - seg.t_start
<1>1. seg.t_start \in Int /\ d \in Int
  BY DEF Segments, Length
<1>2. k \in Nat \ {0} /\ d <= k * MaxSeconds /\ k * MaxSeconds <= d + MaxSeconds - 1
  BY <1>1, CountBounds
<1>3. p \in Int /\ p * k <= (j - 1) * d /\ (j - 1) * d < p * k + k
  BY <1>1, <1>2, BoundaryFloor, j - 1 \in 0..k
<1>4. q \in Int /\ q * k <= j * d /\ j * d < q * k + k
  BY <1>1, <1>2, BoundaryFloor, j \in 0..k
<1>5. (j - 1) * d = j * d - d
  BY <1>1, <1>2
<1>6. (q - p) * k = q * k - p * k
  BY <1>2, <1>3, <1>4
<1>7. (q - p) * k < d + k
  BY <1>3, <1>4, <1>5, <1>6, <1>2, <1>1
<1>8. d < (q - p) * k + k
  BY <1>3, <1>4, <1>5, <1>6, <1>2, <1>1
<1>9. q - p < MaxSeconds + 1
  <2>1. (MaxSeconds + 1) * k = k * MaxSeconds + k
    BY <1>2, SegmentAssumption
  <2>2. (q - p) * k < (MaxSeconds + 1) * k
    <3> DEFINE l == (q - p) * k
               m == k * MaxSeconds
    <3>1. l \in Int /\ m \in Int
      BY <1>2, <1>3, <1>4, SegmentAssumption
    <3>2. l < d + k /\ d <= m
      BY <1>2, <1>7
    <3> HIDE DEF l, m, d
    <3>3. l < m + k
      BY <3>1, <3>2, <1>1, <1>2
    <3> QED
      BY <3>3, <2>1 DEF l, m
  <2> QED
    BY <2>2, <1>2, <1>3, <1>4, MonoMul, SegmentAssumption
<1>10. MaxSeconds < 2 * (q - p + 1)
  <2>1. (2 * (q - p + 1)) * k = 2 * ((q - p) * k + k)
    BY <1>2, <1>3, <1>4
  <2>2. MaxSeconds * k < (2 * (q - p + 1)) * k
    BY <2>1, <1>8, <1>2, <1>6, <1>3, <1>4, <1>1, SegmentAssumption
  <2> QED
    BY <2>2, <1>2, <1>3, <1>4, MonoMul, SegmentAssumption
<1>11. /\ Boundary(seg, j, k) - Boundary(seg, j - 1, k) = q - p
       /\ Boundary(seg, j, k) \in Int /\ Boundary(seg, j - 1, k) \in Int
  BY <1>1, <1>2, BoundaryFloor, j - 1 \in 0..k, j \in 0..k
<1> QED
  BY <1>3, <1>4, <1>9, <1>10, <1>11, SegmentAssumption

(* Each segment starts where the one before it ends.                       *)
Links(segs) == \A j \in 2..Len(segs) : segs[j].t_start = segs[j - 1].t_end

(* Each segment respects the cap.                                          *)
Short(segs) == MaxSeconds > 0 => \A j \in 1..Len(segs) : Length(segs[j]) <= MaxSeconds

(* The segment is longer than half a second or a piece of half the cap.    *)
NoSliver(seg) == Length(seg) > Half \/ (MaxSeconds > 0 /\ 2 * (Length(seg) + 1) > MaxSeconds)

(* The pieces of a segment cover it, in order, and respect the cap.        *)
LEMMA PiecesOfSegment ==
  ASSUME NEW seg \in Segments
  PROVE  LET ps == Pieces(seg)
         IN  /\ ps \in Seq(Segments) /\ Len(ps) \in Nat \ {0}
             /\ ps[1].t_start = seg.t_start /\ ps[Len(ps)].t_end = seg.t_end
             /\ Links(ps) /\ Short(ps)
             /\ Length(seg) > Half => \A j \in 1..Len(ps) : NoSliver(ps[j])
<1> DEFINE k == PieceCount(Length(seg))
           ps == Pieces(seg)
<1>1. seg.t_start \in Int /\ seg.t_end \in Int /\ Length(seg) \in Int
  BY DEF Segments, Length
<1>2. CASE MaxSeconds <= 0 \/ Length(seg) <= MaxSeconds
  <2>1. ps = <<seg>>
    BY <1>2 DEF Pieces, Length
  <2> QED
    BY <2>1, <1>2, <1>1, SegmentAssumption DEF Links, Short, NoSliver
<1>3. CASE MaxSeconds > 0 /\ MaxSeconds < Length(seg)
  <2>1. k \in Nat \ {0, 1}
    BY <1>1, <1>3, CountBounds
  <2>2. ps = [j \in 1..k |-> [t_start |-> Boundary(seg, j - 1, k),
                              t_end   |-> Boundary(seg, j, k),
                              summary |-> seg.summary]]
    BY <1>3, <1>1, SegmentAssumption DEF Pieces, Length
  <2>3. \A j \in 0..k : Boundary(seg, j, k) \in Int
    BY <2>1, BoundaryFloor
  <2>4. \A j \in 1..k : ps[j] \in Segments
    BY <2>1, <2>2, <2>3 DEF Segments
  <2>5. ps \in Seq(Segments) /\ Len(ps) = k
    BY <2>1, <2>2, <2>4
  <2>6. ps[1].t_start = seg.t_start
    <3>1. Boundary(seg, 0, k) \in Int
      BY <2>1, <2>3
    <3>2. /\ (Boundary(seg, 0, k) - seg.t_start) * k <= 0
          /\ 0 < (Boundary(seg, 0, k) - seg.t_start) * k + k
      BY <2>1, <1>1, BoundaryFloor, 0 \in 0..k, 0 * Length(seg) = 0
    <3>3. (Boundary(seg, 0, k) - seg.t_start) * k < 1 * k
      BY <3>1, <3>2, <1>1, <2>1
    <3>4. Boundary(seg, 0, k) - seg.t_start < 1
      BY <3>1, <3>3, <1>1, <2>1, MonoMul
    <3>5. (0 - 1) * k < (Boundary(seg, 0, k) - seg.t_start) * k
      BY <3>1, <3>2, <1>1, <2>1
    <3>6. 0 - 1 < Boundary(seg, 0, k) - seg.t_start
      BY <3>1, <3>5, <1>1, <2>1, MonoMul
    <3>7. Boundary(seg, 0, k) = seg.t_start
      BY <3>1, <3>4, <3>6, <1>1
    <3> QED
      BY <3>7, <2>1, <2>2
  <2>7. ps[Len(ps)].t_end = seg.t_end
    BY <2>1, <2>2, <2>5 DEF Boundary
  <2>8. Links(ps)
    BY <2>1, <2>2, <2>5 DEF Links
  <2>9. \A j \in 1..k : Length(ps[j]) <= MaxSeconds /\ NoSliver(ps[j])
    <3>1. TAKE j \in 1..k
    <3>2. Length(ps[j]) = Boundary(seg, j, k) - Boundary(seg, j - 1, k)
      BY <2>1, <2>2 DEF Length
    <3> QED
      BY <3>2, <1>3, PieceLength DEF NoSliver
  <2> QED
    BY <2>1, <2>5, <2>6, <2>7, <2>8, <2>9 DEF Short
<1> QED
  BY <1>1, <1>2, <1>3, SegmentAssumption

(* The last segment ends at t.                                             *)
EndsAt(segs, t) == segs # <<>> => segs[Len(segs)].t_end = t

(* The loop over windows has not ended.                                    *)
Windowing == stage \in {"scenes", "overlap"}

(* The inductive invariant: the scenes form a chain, and the output a      *)
(* chain that has come as far as the cap.                                  *)
IInv ==
  /\ SegTypeOK
  /\ stage = "overlap" => Start(i + 1) < Duration
  /\ Chained(final)
  /\ ~Windowing => EndsAt(final, Duration)
  /\ stage \in {"scenes", "overlap", "fill"} => out = <<>>
  /\ stage \in {"cap", "done"} =>
       /\ i \in 0..Len(final)
       /\ Chained(out)
       /\ out = <<>> <=> i = 0
       /\ i > 0 => EndsAt(out, final[i].t_end)
  /\ stage = "done" => i = Len(final)
  /\ Short(out)

(* The constants and what is computed from them are natural numbers.       *)
LEMMA Constants ==
  /\ Duration \in Nat \ {0} /\ Second \in Nat \ {0} /\ W \in Nat \ {0} /\ Reach \in Nat \ {0}
  /\ O \in Nat /\ MaxSeconds \in Int
  /\ Half \in Nat
  /\ Step \in Nat \ {0}
<1>1. Second \div 2 \in Nat
  BY SegmentAssumption
<1> QED
  BY <1>1, SegmentAssumption DEF Half, Step, Greater

(* A window ends with the video at the latest.                             *)
LEMMA Windows ==
  ASSUME NEW w \in Nat
  PROVE  /\ Start(w) \in Nat
         /\ WinEnd(w) \in Int /\ WinEnd(w) <= Duration
         /\ ~LastWindow(w) <=> Start(w + 1) < Duration
<1>1. Start(w) \in Nat /\ Start(w + 1) \in Nat
  BY Constants DEF Start
<1> QED
  BY <1>1, Constants DEF WinEnd, LastWindow, Lesser

(* _append keeps the chain.                                                *)
LEMMA JoinedChained ==
  ASSUME final \in Seq(Segments), Chained(final),
         NEW end \in Int, NEW summary \in Summaries
  PROVE  /\ Joined(end, summary) \in Seq(Segments)
         /\ Chained(Joined(end, summary))
<1>1. Cover \in Int
  <2>1. final # <<>> => Len(final) \in 1..Len(final) /\ final[Len(final)] \in Segments
    OBVIOUS
  <2> QED
    BY <2>1 DEF Cover, Segments
<1> DEFINE seg == [t_start |-> Cover, t_end |-> end, summary |-> summary]
<1>2. seg \in Segments
  BY <1>1 DEF Segments
<1>3. Append(final, seg) \in Seq(Segments)
  BY <1>2
<1>4. Chained(Append(final, seg))
  <2>1. CASE final = <<>>
    BY <2>1, <1>2 DEF Chained, Cover
  <2>2. CASE final # <<>>
    <3>1. Cover = final[Len(final)].t_end
      BY <2>2 DEF Cover
    <3>2. Append(final, seg)[1] = final[1]
      BY <2>2, <1>2
    <3>3. \A j \in 2..Len(final) :
            Append(final, seg)[j] = final[j] /\ Append(final, seg)[j - 1] = final[j - 1]
      BY <1>2
    <3>4. /\ Append(final, seg)[Len(final) + 1] = seg
          /\ Append(final, seg)[Len(final)] = final[Len(final)]
          /\ Len(Append(final, seg)) = Len(final) + 1
      BY <2>2, <1>2
    <3>5. ASSUME NEW j \in 2..(Len(final) + 1)
          PROVE  Append(final, seg)[j].t_start = Append(final, seg)[j - 1].t_end
      BY <3>1, <3>3, <3>4 DEF Chained
    <3> QED
      BY <2>2, <3>2, <3>4, <3>5 DEF Chained
  <2> QED
    BY <2>1, <2>2
<1> QED
  BY <1>3, <1>4 DEF Joined

(* Drawing the tail to the end keeps the chain, and only changes the last  *)
(* end.                                                                    *)
LEMMA TailChained ==
  ASSUME NEW segs \in Seq(Segments), Chained(segs)
  PROVE  /\ WithTail(segs) \in Seq(Segments)
         /\ Len(WithTail(segs)) = Len(segs)
         /\ Chained(WithTail(segs))
         /\ EndsAt(WithTail(segs), Duration)
         /\ \A j \in 1..Len(segs) :
              /\ WithTail(segs)[j].t_start = segs[j].t_start
              /\ WithTail(segs)[j].t_end = IF j = Len(segs) THEN Duration ELSE segs[j].t_end
<1>1. CASE segs = <<>>
  BY <1>1 DEF WithTail, EndsAt
<1>2. CASE segs # <<>>
  <2> DEFINE n == Len(segs)
             last == [segs[n] EXCEPT !.t_end = Duration]
  <2>1. WithTail(segs) = [segs EXCEPT ![n] = last]
    BY <1>2 DEF WithTail
  <2>2. n \in Nat \ {0} /\ segs[n] \in Segments
    BY <1>2
  <2>3. last \in Segments /\ last.t_end = Duration /\ last.t_start = segs[n].t_start
    <3>1. Duration \in Int
      BY Constants
    <3> HIDE DEF n
    <3> QED
      BY <2>2, <3>1 DEF Segments
  <2>4. /\ WithTail(segs) \in Seq(Segments) /\ Len(WithTail(segs)) = n
        /\ \A j \in 1..n : WithTail(segs)[j] = IF j = n THEN last ELSE segs[j]
    <3> HIDE DEF last
    <3>1. segs \in [1..n -> Segments]
      OBVIOUS
    <3>2. WithTail(segs) = [j \in 1..n |-> IF j = n THEN last ELSE segs[j]]
      BY <2>1, <3>1
    <3>3. \A j \in 1..n : (IF j = n THEN last ELSE segs[j]) \in Segments
      BY <2>3, <3>1
    <3> HIDE DEF n
    <3> QED
      BY <2>2, <3>2, <3>3
  <2>5. /\ \A j \in 1..n : WithTail(segs)[j].t_start = segs[j].t_start
        /\ \A j \in 1..(n - 1) : WithTail(segs)[j].t_end = segs[j].t_end
        /\ WithTail(segs)[n].t_end = Duration
    <3> HIDE DEF last
    <3> QED
      BY <2>2, <2>3, <2>4
  <2>6. Chained(WithTail(segs))
    <3>1. ASSUME NEW j \in 2..n
          PROVE  WithTail(segs)[j].t_start = WithTail(segs)[j - 1].t_end
      <4>1. segs[j].t_start = segs[j - 1].t_end
        BY DEF Chained
      <4>2. WithTail(segs)[j].t_start = segs[j].t_start
        BY <2>2, <2>5, j \in 1..n
      <4>3. WithTail(segs)[j - 1].t_end = segs[j - 1].t_end
        BY <2>2, <2>5, j - 1 \in 1..(n - 1)
      <4> QED
        BY <4>1, <4>2, <4>3
    <3>2. WithTail(segs)[1].t_start = 0
      BY <1>2, <2>2, <2>5 DEF Chained
    <3> QED
      BY <2>4, <3>1, <3>2 DEF Chained
  <2>7. EndsAt(WithTail(segs), Duration)
    BY <2>2, <2>4, <2>5 DEF EndsAt
  <2>8. \A j \in 1..n : j # n => j \in 1..(n - 1)
    BY <2>2
  <2> QED
    BY <2>4, <2>5, <2>6, <2>7, <2>8
<1> QED
  BY <1>1, <1>2

(* The first loop of _cap_and_fill makes a chain of any list.              *)
LEMMA FilledChained ==
  ASSUME NEW segs \in Seq(Segments)
  PROVE  /\ Filled(segs) \in Seq(Segments) /\ Chained(Filled(segs))
         /\ Len(Filled(segs)) = Len(segs)
         /\ \A j \in 1..Len(segs) :
              /\ Filled(segs)[j].t_start = IF j = 1 THEN 0 ELSE segs[j - 1].t_end
              /\ Filled(segs)[j].t_end = segs[j].t_end
<1>1. \A j \in 1..Len(segs) : segs[j] \in Segments
  OBVIOUS
<1>2. \A j \in 1..Len(segs) :
        [segs[j] EXCEPT !.t_start = IF j = 1 THEN 0 ELSE segs[j - 1].t_end] \in Segments
  <2>1. TAKE j \in 1..Len(segs)
  <2>2. (IF j = 1 THEN 0 ELSE segs[j - 1].t_end) \in Int
    BY <1>1 DEF Segments
  <2> QED
    BY <1>1, <2>2 DEF Segments
<1>3. Filled(segs) \in Seq(Segments) /\ Len(Filled(segs)) = Len(segs)
  BY <1>2 DEF Filled
<1>4. \A j \in 1..Len(segs) :
        /\ Filled(segs)[j].t_start = IF j = 1 THEN 0 ELSE segs[j - 1].t_end
        /\ Filled(segs)[j].t_end = segs[j].t_end
  BY <1>1 DEF Filled, Segments
<1> QED
  BY <1>3, <1>4 DEF Chained

(* A chain followed by linked segments that start where it ends is a       *)
(* chain.                                                                  *)
LEMMA Concatenated ==
  ASSUME NEW a \in Seq(Segments), NEW b \in Seq(Segments), Len(b) \in Nat \ {0},
         Chained(a), Links(b),
         a = <<>> => b[1].t_start = 0,
         a # <<>> => b[1].t_start = a[Len(a)].t_end
  PROVE  /\ a \o b \in Seq(Segments) /\ a \o b # <<>>
         /\ Chained(a \o b)
         /\ EndsAt(a \o b, b[Len(b)].t_end)
         /\ \A j \in 1..Len(a \o b) :
              \/ j \in 1..Len(a) /\ (a \o b)[j] = a[j]
              \/ j - Len(a) \in 1..Len(b) /\ (a \o b)[j] = b[j - Len(a)]
<1> DEFINE c == a \o b
           n == Len(a)
           m == Len(b)
<1>1. n \in Nat /\ m \in Nat \ {0} /\ a = <<>> <=> n = 0
  OBVIOUS
<1>2. c \in Seq(Segments) /\ Len(c) = n + m
  OBVIOUS
<1>3. /\ \A j \in 1..n : c[j] = a[j]
      /\ \A j \in (n + 1)..(n + m) : c[j] = b[j - n]
  OBVIOUS
<1> HIDE DEF c
<1>4. ASSUME NEW j \in 2..(n + m)
      PROVE  c[j].t_start = c[j - 1].t_end
  <2>1. CASE j <= n
    BY <1>1, <1>3, <2>1, j \in 2..n, j - 1 \in 1..n, SMTT(30) DEF Chained
  <2>2. CASE j = n + 1
    <3>1. c[j] = b[1]
      BY <1>1, <1>3, <2>2
    <3>2. c[j - 1] = a[n] /\ n # 0
      BY <1>1, <1>3, <2>2
    <3> QED
      BY <1>1, <3>1, <3>2
  <2>3. CASE j > n + 1
    <3>1. c[j] = b[j - n]
      BY <1>1, <1>3, <2>3
    <3>2. c[j - 1] = b[j - n - 1]
      <4>1. j - 1 \in (n + 1)..(n + m) /\ (j - 1) - n = j - n - 1
        BY <1>1, <2>3
      <4> QED
        BY <1>3, <4>1
    <3>3. j - n \in 2..m
      BY <1>1, <2>3
    <3> QED
      BY <3>1, <3>2, <3>3 DEF Links
  <2> QED
    BY <1>1, <2>1, <2>2, <2>3
<1>5. c[1].t_start = 0
  <2>1. CASE n = 0
    BY <1>1, <1>3, <2>1
  <2>2. CASE n > 0
    BY <1>1, <1>3, <2>2, 1 \in 1..n DEF Chained
  <2> QED
    BY <1>1, <2>1, <2>2
<1>6. Chained(c)
  BY <1>2, <1>4, <1>5 DEF Chained
<1>7. EndsAt(c, b[m].t_end)
  BY <1>1, <1>2, <1>3, n + m \in (n + 1)..(n + m), (n + m) - n = m DEF EndsAt
<1>8. \A j \in 1..Len(c) :
        \/ j \in 1..n /\ c[j] = a[j]
        \/ j - n \in 1..m /\ c[j] = b[j - n]
  BY <1>1, <1>2, <1>3
<1>9. c # <<>>
  BY <1>1, <1>2
<1> QED
  BY <1>2, <1>6, <1>7, <1>8, <1>9 DEF c

(* The invariant holds before the first window.                            *)
LEMMA Initially == SInit => IInv
<1> SUFFICES ASSUME SInit PROVE IInv
  OBVIOUS
<1>1. Start(0) = 0
  BY Constants DEF Start
<1> QED
  BY <1>1, Constants DEF SInit, IInv, SegTypeOK, Windowing, Chained, Short

(* Every step of the two loops keeps the invariant.                        *)
LEMMA StepInv == IInv /\ [SNext]_svars => IInv'
<1> SUFFICES ASSUME IInv, [SNext]_svars PROVE IInv'
  OBVIOUS
<1> USE DEF IInv, SegTypeOK
<1>1. CASE TakeScene
  <2>1. PICK start \in 0..Reach, end \in 0..Reach, summary \in Summaries :
          final' = Joined(Lesser(WinEnd(i), end), summary)
    BY <1>1 DEF TakeScene
  <2>2. Lesser(WinEnd(i), end) \in Int
    BY Windows, Constants DEF Lesser
  <2>3. final' \in Seq(Segments) /\ Chained(final)'
    BY <2>1, <2>2, JoinedChained DEF Chained
  <2> QED
    BY <1>1, <2>3 DEF TakeScene, Windowing, Chained, Short
<1>2. CASE ToOverlap
  BY <1>2, Windows DEF ToOverlap, Windowing, Chained, Short
<1>3. CASE TakeReconciled
  <2>1. PICK end \in 0..Reach, summary \in Summaries : final' = Joined(end, summary)
    BY <1>3 DEF TakeReconciled
  <2>2. final' \in Seq(Segments) /\ Chained(final)'
    BY <2>1, JoinedChained, Constants DEF Chained
  <2> QED
    BY <1>3, <2>2 DEF TakeReconciled, Windowing, Chained, Short
<1>4. CASE NextWindow
  BY <1>4 DEF NextWindow, Windowing, Chained, Short
<1>5. CASE CloseTail
  <2>1. final' \in Seq(Segments) /\ Chained(final)' /\ EndsAt(final, Duration)'
    BY <1>5, TailChained DEF CloseTail, Chained, EndsAt
  <2> QED
    BY <1>5, <2>1 DEF CloseTail, Windowing, Chained, Short
<1>6. CASE Fill
  <2>1. final' \in Seq(Segments) /\ Chained(final)' /\ EndsAt(final, Duration)'
    BY <1>6, TailChained, FilledChained DEF Fill, Chained, EndsAt
  <2> QED
    BY <1>6, <2>1 DEF Fill, Windowing, Chained, Short
<1>7. CASE CapOne
  <2> DEFINE seg == final[i + 1]
             ps == Pieces(seg)
  <2>1. seg \in Segments /\ i + 1 \in 1..Len(final)
    BY <1>7 DEF CapOne
  <2>2. /\ ps \in Seq(Segments) /\ Len(ps) \in Nat \ {0}
        /\ ps[1].t_start = seg.t_start /\ ps[Len(ps)].t_end = seg.t_end
        /\ Links(ps) /\ Short(ps)
    BY <2>1, PiecesOfSegment
  <2>3. out = <<>> => seg.t_start = 0
    BY <1>7, <2>1 DEF CapOne, Chained
  <2>4. out # <<>> => seg.t_start = out[Len(out)].t_end
    <3>1. SUFFICES ASSUME out # <<>> PROVE seg.t_start = out[Len(out)].t_end
      OBVIOUS
    <3>2. i > 0 /\ i + 1 \in 2..Len(final)
      BY <1>7, <2>1, <3>1 DEF CapOne
    <3>3. out[Len(out)].t_end = final[i].t_end
      BY <1>7, <3>1, <3>2 DEF CapOne, EndsAt
    <3>4. seg.t_start = final[(i + 1) - 1].t_end
      BY <3>2 DEF Chained
    <3>5. (i + 1) - 1 = i
      OBVIOUS
    <3> QED
      BY <3>3, <3>4, <3>5
  <2> HIDE DEF ps
  <2>5. Chained(out)
    BY <1>7 DEF CapOne
  <2>6. /\ out \o ps \in Seq(Segments) /\ out \o ps # <<>>
        /\ Chained(out \o ps) /\ EndsAt(out \o ps, ps[Len(ps)].t_end)
        /\ \A j \in 1..Len(out \o ps) :
             \/ j \in 1..Len(out) /\ (out \o ps)[j] = out[j]
             \/ j - Len(out) \in 1..Len(ps) /\ (out \o ps)[j] = ps[j - Len(out)]
    BY <2>2, <2>3, <2>4, <2>5, Concatenated
  <2>7. Short(out \o ps)
    BY <2>2, <2>6 DEF Short
  <2>8. /\ out' = out \o ps /\ final' = final /\ i' = i + 1 /\ stage' = "cap"
    BY <1>7 DEF CapOne, ps
  <2>9. SegTypeOK'
    BY <1>7, <2>1, <2>6, <2>8
  <2>10. Chained(final)' /\ EndsAt(final, Duration)'
    BY <1>7, <2>8 DEF CapOne, Windowing, Chained, EndsAt
  <2>11. /\ (i \in 0..Len(final))' /\ Chained(out)' /\ out' # <<>> /\ i' > 0
         /\ EndsAt(out, final[i].t_end)'
    <3>1. (i \in 0..Len(final))' /\ i' > 0 /\ final'[i'].t_end = seg.t_end
      BY <2>1, <2>8
    <3>2. Chained(out)' /\ out' # <<>>
      BY <2>6, <2>8 DEF Chained
    <3>3. EndsAt(out', seg.t_end)
      BY <2>2, <2>6, <2>8
    <3> HIDE DEF seg
    <3> QED
      BY <3>1, <3>2, <3>3 DEF EndsAt
  <2>12. Short(out)'
    BY <2>7, <2>8 DEF Short
  <2> QED
    BY <2>8, <2>9, <2>10, <2>11, <2>12 DEF Windowing
<1>8. CASE Return
  BY <1>8 DEF Return, Windowing, Chained, EndsAt, Short
<1>9. CASE UNCHANGED svars
  BY <1>9 DEF svars, Windowing, Chained, EndsAt, Short
<1> QED
  BY <1>1, <1>2, <1>3, <1>4, <1>5, <1>6, <1>7, <1>8, <1>9 DEF SNext

(* The invariant holds in every state.                                     *)
THEOREM SegmentInvariant == SSpec => []IInv
<1> QED
  BY Initially, StepInv, PTL DEF SSpec

(* What _omni_segments returns is contiguous, from 0 to the end of the     *)
(* video.                                                                  *)
THEOREM SegmentsGapless == SSpec => []Gapless
<1>1. IInv => Gapless
  <2> SUFFICES ASSUME IInv, stage = "done" PROVE Gapless
    BY DEF Gapless
  <2>1. Chained(out) /\ (out = <<>> <=> i = 0) /\ i = Len(final) /\ i \in Nat
    BY DEF IInv, SegTypeOK
  <2>2. out = <<>> <=> final = <<>>
    BY <2>1 DEF IInv, SegTypeOK
  <2>3. out # <<>> => out[Len(out)].t_end = Duration
    BY <2>1, <2>2 DEF IInv, EndsAt, Windowing
  <2> QED
    BY <2>1, <2>2, <2>3 DEF Gapless
<1> QED
  BY <1>1, SegmentInvariant, PTL

(* No segment that _cap_and_fill returns is longer than the cap.           *)
THEOREM SegmentsCapped == SSpec => []Capped
<1>1. IInv => Capped
  BY DEF IInv, Short, Capped, Length
<1> QED
  BY <1>1, SegmentInvariant, PTL

(* Each scene is longer than half a second.                                *)
LongScenes(segs) == \A j \in 1..Len(segs) : Length(segs[j]) > Half

(* No scene ends after the video.                                          *)
Within(segs) == \A j \in 1..Len(segs) : segs[j].t_end <= Duration

(* What is added to the invariant when the answers stay within the video.  *)
LongInv ==
  /\ LongScenes(final)
  /\ Windowing => Within(final)
  /\ \A j \in 1..Len(out) : NoSliver(out[j])

(* _append only adds scenes that are long enough.                          *)
LEMMA JoinedLong ==
  ASSUME final \in Seq(Segments), LongScenes(final), Within(final),
         NEW end \in Int, end <= Duration, NEW summary \in Summaries
  PROVE  LongScenes(Joined(end, summary)) /\ Within(Joined(end, summary))
<1> DEFINE seg == [t_start |-> Cover, t_end |-> end, summary |-> summary]
<1>1. CASE end > Cover + Half
  <2>1. Joined(end, summary) = Append(final, seg)
    BY <1>1 DEF Joined
  <2>2. Cover \in Int
    <3>1. final # <<>> => Len(final) \in 1..Len(final) /\ final[Len(final)] \in Segments
      OBVIOUS
    <3> QED
      BY <3>1 DEF Cover, Segments
  <2>3. Length(seg) > Half /\ seg.t_end <= Duration
    BY <1>1, <2>2, Constants DEF Length
  <2> HIDE DEF seg
  <2>4. /\ Len(Append(final, seg)) = Len(final) + 1
        /\ \A j \in 1..(Len(final) + 1) :
             Append(final, seg)[j] = IF j = Len(final) + 1 THEN seg ELSE final[j]
    OBVIOUS
  <2> QED
    BY <2>1, <2>3, <2>4 DEF LongScenes, Within
<1>2. CASE ~(end > Cover + Half)
  BY <1>2 DEF Joined
<1> QED
  BY <1>1, <1>2

(* Every step keeps LongInv when the answers stay within the video.        *)
LEMMA StepLong ==
  ASSUME Reach <= Duration, IInv, IInv', LongInv, [SNext]_svars
  PROVE  LongInv'
<1>0. /\ final \in Seq(Segments) /\ Chained(final) /\ i \in Nat
      /\ final' \in Seq(Segments)
  BY DEF IInv, SegTypeOK
<1>1. CASE TakeScene
  <2>1. PICK start \in 0..Reach, end \in 0..Reach, summary \in Summaries :
          final' = Joined(Lesser(WinEnd(i), end), summary)
    BY <1>1 DEF TakeScene
  <2>2. Lesser(WinEnd(i), end) \in Int /\ Lesser(WinEnd(i), end) <= Duration
    BY <1>0, Windows, Constants DEF Lesser
  <2>3. LongScenes(final') /\ Within(final')
    BY <1>0, <1>1, <2>1, <2>2, JoinedLong DEF LongInv, TakeScene, Windowing
  <2> QED
    BY <1>1, <2>3 DEF TakeScene, LongInv, LongScenes, Within
<1>2. CASE ToOverlap
  BY <1>2 DEF ToOverlap, LongInv, LongScenes, Within, Windowing
<1>3. CASE TakeReconciled
  <2>1. PICK end \in 0..Reach, summary \in Summaries : final' = Joined(end, summary)
    BY <1>3 DEF TakeReconciled
  <2>2. end \in Int /\ end <= Duration
    BY <2>1, Constants
  <2>3. LongScenes(final') /\ Within(final')
    BY <1>0, <1>3, <2>1, <2>2, JoinedLong DEF LongInv, TakeReconciled, Windowing
  <2> QED
    BY <1>3, <2>3 DEF TakeReconciled, LongInv, LongScenes, Within
<1>4. CASE NextWindow
  BY <1>4 DEF NextWindow, LongInv, LongScenes, Within, Windowing
<1>5. CASE CloseTail
  <2>1. Within(final) /\ LongScenes(final)
    BY <1>5 DEF CloseTail, LongInv, Windowing
  <2>2. /\ final' = WithTail(final) /\ Len(final') = Len(final)
        /\ \A j \in 1..Len(final) :
             /\ final'[j].t_start = final[j].t_start
             /\ final'[j].t_end = IF j = Len(final) THEN Duration ELSE final[j].t_end
    BY <1>0, <1>5, TailChained DEF CloseTail
  <2>3. ASSUME NEW j \in 1..Len(final) PROVE Length(final'[j]) > Half
    <3>1. Length(final[j]) > Half /\ final[j].t_end <= Duration
      BY <2>1 DEF LongScenes, Within
    <3>2. final[j].t_start \in Int /\ final[j].t_end \in Int
      <4>1. final[j] \in Segments
        BY <1>0
      <4> QED
        BY <4>1 DEF Segments
    <3>3. final'[j].t_start = final[j].t_start /\ final'[j].t_end >= final[j].t_end
      BY <2>2, <3>1, <3>2
    <3>4. final'[j].t_end \in Int
      BY <2>2, <3>2, Constants
    <3> QED
      BY <3>1, <3>2, <3>3, <3>4, Constants DEF Length
  <2> QED
    BY <1>5, <2>2, <2>3 DEF CloseTail, LongInv, LongScenes, Windowing
<1>6. CASE Fill
  <2> DEFINE filled == Filled(final)
  <2>1. /\ filled \in Seq(Segments) /\ Chained(filled) /\ Len(filled) = Len(final)
        /\ \A j \in 1..Len(final) :
             /\ filled[j].t_start = IF j = 1 THEN 0 ELSE final[j - 1].t_end
             /\ filled[j].t_end = final[j].t_end
    BY <1>0, FilledChained
  <2>2. final' = WithTail(filled)
    BY <1>6 DEF Fill
  <2> HIDE DEF filled
  <2>3. /\ Len(final') = Len(final)
        /\ \A j \in 1..Len(final) :
             /\ final'[j].t_start = filled[j].t_start
             /\ final'[j].t_end = IF j = Len(final) THEN Duration ELSE filled[j].t_end
    BY <2>1, <2>2, TailChained
  <2>4. ASSUME NEW j \in 1..Len(final) PROVE Length(final'[j]) > Half
    <3>1. final'[j].t_start = final[j].t_start
      <4>1. j # 1 => j \in 2..Len(final)
        OBVIOUS
      <4> QED
        BY <1>0, <2>1, <2>3, <4>1 DEF Chained
    <3>2. final'[j].t_end = final[j].t_end
      BY <1>6, <2>1, <2>3 DEF IInv, EndsAt, Fill, Windowing
    <3> QED
      BY <3>1, <3>2 DEF Length, LongInv, LongScenes
  <2> QED
    BY <1>6, <2>3, <2>4 DEF Fill, LongInv, LongScenes, Windowing
<1>7. CASE CapOne
  <2> DEFINE ps == Pieces(final[i + 1])
  <2>1. i + 1 \in 1..Len(final) /\ final[i + 1] \in Segments
    BY <1>0, <1>7 DEF CapOne
  <2>2. /\ ps \in Seq(Segments)
        /\ \A j \in 1..Len(ps) : NoSliver(ps[j])
    BY <2>1, PiecesOfSegment DEF LongInv, LongScenes
  <2>3. out' = out \o ps /\ final' = final /\ stage' = "cap"
    BY <1>7 DEF CapOne
  <2> HIDE DEF ps
  <2>4. out \in Seq(Segments)
    BY DEF IInv, SegTypeOK
  <2>5. \A j \in 1..Len(out') : \/ j \in 1..Len(out) /\ out'[j] = out[j]
                                \/ j - Len(out) \in 1..Len(ps) /\ out'[j] = ps[j - Len(out)]
    BY <2>2, <2>3, <2>4
  <2> QED
    BY <2>2, <2>3, <2>5 DEF LongInv, LongScenes, Windowing
<1>8. CASE Return
  BY <1>8 DEF Return, LongInv, LongScenes, Windowing
<1>9. CASE UNCHANGED svars
  BY <1>9 DEF svars, LongInv, LongScenes, Within, Windowing
<1> QED
  BY <1>1, <1>2, <1>3, <1>4, <1>5, <1>6, <1>7, <1>8, <1>9 DEF SNext

(* With answers within the video, no segment that is returned is a sliver. *)
THEOREM SegmentsNoSlivers == ASSUME Reach <= Duration PROVE SSpec => []NoSlivers
<1>1. SInit => LongInv
  BY DEF SInit, LongInv, LongScenes, Within
<1>2. IInv /\ IInv' /\ LongInv /\ [SNext]_svars => LongInv'
  BY StepLong
<1>3. LongInv => NoSlivers
  BY DEF LongInv, NoSliver, NoSlivers, Length
<1> QED
  BY <1>1, <1>2, <1>3, SegmentInvariant, PTL DEF SSpec

(* The types of the two loops' state, for any constants.                   *)
THEOREM SegmentTypes == SSpec => []SegTypeOK
<1>1. IInv => SegTypeOK
  BY DEF IInv
<1> QED
  BY <1>1, SegmentInvariant, PTL

-----------------------------------------------------------------------------
(* The piece lies in the segment and has its summary.                      *)
Lies(piece, seg) ==
  /\ seg.t_start <= piece.t_start /\ piece.t_end <= seg.t_end
  /\ seg.summary = piece.summary

(* Every piece of what has been split lies in one of its scenes.           *)
CarryInv ==
  \A j \in 1..Len(out) : \E s \in 1..i : s \in 1..Len(final) /\ Lies(out[j], final[s])

(* A boundary lies in the segment, also when rounding moves it.            *)
LEMMA BoundaryInside ==
  ASSUME NEW seg \in Segments, NEW k \in Nat \ {0}, NEW j \in 0..k, Length(seg) \in Nat
  PROVE  seg.t_start <= Boundary(seg, j, k) /\ Boundary(seg, j, k) <= seg.t_end
<1>1. PICK d, q, s : d = Length(seg) /\ q = Boundary(seg, j, k) - seg.t_start /\ s = seg.t_start
  OBVIOUS
<1>2. Boundary(seg, j, k) \in Int /\ q * k <= j * d /\ j * d < q * k + k
  BY <1>1, BoundaryFloor
<1>3. /\ d \in Nat /\ q \in Int /\ s \in Int
      /\ Boundary(seg, j, k) = s + q /\ seg.t_end = s + d
  BY <1>1, <1>2 DEF Length, Segments
<1>4. j * d \in Nat /\ j * d <= d * k
  <2>1. PICK e \in Nat : k = j + e
    <3>1. k - j \in Nat /\ k = j + (k - j)
      OBVIOUS
    <3>2. QED
      BY <3>1
  <2>2. d \in Nat /\ j \in Nat
    BY <1>3
  <2>3. d * (j + e) = d * j + d * e /\ j * d = d * j
    BY <2>2
  <2>4. d * e \in Nat /\ d * j \in Nat
    BY <2>2
  <2>5. QED
    BY <2>1, <2>3, <2>4
<1>5. 0 - 1 < q
  <2>1. (0 - 1) * k < q * k
    BY <1>2, <1>3, <1>4
  <2>2. QED
    BY <1>3, <2>1, MonoMul
<1>6. q < d + 1
  <2>1. (d + 1) * k = d * k + k /\ d * k \in Nat /\ q * k \in Int
    BY <1>3
  <2>2. q * k < (d + 1) * k
    BY <1>2, <1>4, <2>1
  <2>3. QED
    BY <1>3, <2>2, MonoMul
<1>7. QED
  BY <1>1, <1>3, <1>5, <1>6

(* The pieces of a segment lie in it.                                      *)
LEMMA PiecesLie ==
  ASSUME NEW seg \in Segments
  PROVE  \A j \in 1..Len(Pieces(seg)) : Lies(Pieces(seg)[j], seg)
<1>1. seg.t_start \in Int /\ seg.t_end \in Int /\ Length(seg) \in Int
  BY DEF Segments, Length
<1>2. CASE MaxSeconds <= 0 \/ Length(seg) <= MaxSeconds
  <2>1. Pieces(seg) = <<seg>>
    BY <1>2 DEF Pieces, Length
  <2>2. QED
    BY <1>1, <2>1 DEF Lies
<1>3. CASE MaxSeconds > 0 /\ MaxSeconds < Length(seg)
  <2>1. PICK k : k = PieceCount(Length(seg))
    OBVIOUS
  <2>2. k \in Nat \ {0} /\ Length(seg) \in Nat
    BY <1>1, <1>3, <2>1, CountBounds, SegmentAssumption
  <2>3. Pieces(seg) = [j \in 1..k |-> [t_start |-> Boundary(seg, j - 1, k),
                                       t_end   |-> Boundary(seg, j, k),
                                       summary |-> seg.summary]]
    BY <1>1, <1>3, <2>1, SegmentAssumption DEF Pieces, Length
  <2>4. \A j \in 0..k : seg.t_start <= Boundary(seg, j, k) /\ Boundary(seg, j, k) <= seg.t_end
    BY <2>2, BoundaryInside
  <2>5. ASSUME NEW j \in 1..k PROVE Lies(Pieces(seg)[j], seg)
    BY <2>2, <2>3, <2>4, j - 1 \in 0..k, j \in 0..k DEF Lies
  <2>6. Len(Pieces(seg)) = k
    BY <2>2, <2>3
  <2>7. QED
    BY <2>5, <2>6
<1>4. QED
  BY <1>1, <1>2, <1>3, SegmentAssumption

(* Every step carries the summaries along.                                 *)
LEMMA StepCarry ==
  ASSUME IInv, CarryInv, [SNext]_svars
  PROVE  CarryInv'
<1>1. final \in Seq(Segments) /\ out \in Seq(Segments) /\ i \in Nat
  BY DEF IInv, SegTypeOK
<1>2. CASE TakeScene \/ ToOverlap \/ TakeReconciled \/ NextWindow \/ CloseTail \/ Fill
  <2>1. out' = <<>>
    BY <1>2 DEF IInv, TakeScene, ToOverlap, TakeReconciled, NextWindow, CloseTail, Fill
  <2>2. QED
    BY <2>1 DEF CarryInv
<1>3. CASE CapOne
  <2>1. PICK seg, ps : seg = final[i + 1] /\ ps = Pieces(seg)
    OBVIOUS
  <2>2. i + 1 \in 1..Len(final) /\ seg \in Segments
    BY <1>1, <1>3, <2>1 DEF CapOne
  <2>3. ps \in Seq(Segments) /\ \A j \in 1..Len(ps) : Lies(ps[j], seg)
    BY <2>1, <2>2, PiecesOfSegment, PiecesLie
  <2>4. out' = out \o ps /\ final' = final /\ i' = i + 1
    BY <1>3, <2>1 DEF CapOne
  <2>5. \A j \in 1..Len(out') : \/ j \in 1..Len(out) /\ out'[j] = out[j]
                                \/ j - Len(out) \in 1..Len(ps) /\ out'[j] = ps[j - Len(out)]
    BY <1>1, <2>3, <2>4
  <2>6. ASSUME NEW j \in 1..Len(out')
        PROVE  \E s \in 1..(i + 1) : s \in 1..Len(final) /\ Lies(out'[j], final[s])
    <3>1. CASE j \in 1..Len(out) /\ out'[j] = out[j]
      <4>1. PICK s \in 1..i : s \in 1..Len(final) /\ Lies(out[j], final[s])
        BY <3>1 DEF CarryInv
      <4>2. s \in 1..(i + 1)
        BY <1>1
      <4>3. QED
        BY <3>1, <4>1, <4>2
    <3>2. CASE j - Len(out) \in 1..Len(ps) /\ out'[j] = ps[j - Len(out)]
      <4>1. i + 1 \in 1..(i + 1)
        BY <1>1
      <4>2. QED
        BY <2>1, <2>2, <2>3, <3>2, <4>1
    <3>3. QED
      BY <2>5, <3>1, <3>2
  <2>7. QED
    BY <2>4, <2>6 DEF CarryInv, Lies
<1>4. CASE Return \/ UNCHANGED svars
  BY <1>4 DEF Return, svars, CarryInv, Lies
<1>5. QED
  BY <1>2, <1>3, <1>4 DEF SNext

(* A segment that _cap_and_fill returns lies in one of the scenes, and has *)
(* its summary, also when the model names times after the video's end.     *)
THEOREM SummariesCarryThrough == SSpec => []SummariesCarry
<1>1. SInit => CarryInv
  BY DEF SInit, CarryInv
<1>2. IInv /\ CarryInv /\ [SNext]_svars => CarryInv'
  BY StepCarry
<1>3. CarryInv => SummariesCarry
  BY DEF CarryInv, Lies, SummariesCarry
<1> QED
  BY <1>1, <1>2, <1>3, SegmentInvariant, PTL DEF SSpec

=============================================================================
