-------------------------- MODULE LabellingGraphProofs --------------------------
(***************************************************************************)
(* Three results about every call of label_video, for any number of shots, *)
(* any categories and any failures.                                        *)
(*                                                                         *)
(* The recursion limit leaves room for every window when the stride is at  *)
(* least 1: in its w-th window (from 0) a call has executed 5 w nodes and  *)
(* those of the window at hand, and it only begins a window whose first    *)
(* shot, w * WindowStride, is in the video.  So w is less than the number  *)
(* of windows, and six times that number is never reached.                 *)
(*                                                                         *)
(* The tables and the graph state keep their types, TypeInv: nothing a     *)
(* call has drafted is about a shot outside the video it has read.         *)
(*                                                                         *)
(* The structured labels of a call follow its cursor, OrderInv, when the   *)
(* stride is between 1 and the window.  That JUDGE drafts each category of *)
(* each shot once is a fact about SetToSeq and the recursive FlattenSeq,   *)
(* proved by looking at the least length at which it would fail.           *)
(***************************************************************************)
EXTENDS LabellingGraph, FiniteSetTheorems, SequenceTheorems, WellFoundedInduction, TLAPS

Nodes == {"load", "retrieve", "judge", "side_fx", "commit"}

(* The place of a node in its window.                                      *)
Place(stage) ==
  CASE stage = "load"     -> 1
    [] stage = "retrieve" -> 2
    [] stage = "judge"    -> 3
    [] stage = "side_fx"  -> 4
    [] stage = "commit"   -> 5
    [] OTHER              -> 0

CallRecords ==
  [stage : Stages, boot : BOOLEAN, segs : Seq(Cut), cursor : Nat, steps : Nat, made : Nat]

(* A call about to execute a node of its w-th window.                      *)
Before(k, node, w) ==
  /\ k.cursor = w * WindowStride
  /\ k.steps = 5 * w + Place(node) - 1
  /\ w = 0 \/ k.cursor < Len(k.segs)

(* A call in its w-th window.                                              *)
InWindow(k, w) ==
  /\ k.cursor = w * WindowStride
  /\ k.steps = 5 * w + Place(k.stage)
  /\ w = 0 \/ k.cursor < Len(k.segs)

CallInv(k) ==
  /\ k.stage # "exhausted"
  /\ k.stage \in Nodes => \E w \in Nat : InWindow(k, w)

SInv ==
  /\ segments \in Seq(Cut)
  /\ call \in [Calls -> CallRecords]
  /\ \A c \in Calls : CallInv(call[c])

(* Multiplication by a positive stride keeps the order of the windows.     *)
LEMMA FewerWindows ==
  ASSUME NEW s \in Nat, s >= 1, NEW w \in Nat, NEW q \in Nat, NEW n \in Nat,
         w * s < n, n <= q * s
  PROVE  w < q
<1>1. SUFFICES ASSUME q <= w PROVE FALSE
  OBVIOUS
<1>2. PICK d \in Nat : w = q + d
  <2>1. w - q \in Nat /\ w = q + (w - q)
    BY <1>1
  <2>2. QED
    BY <2>1
<1>3. w * s = q * s + d * s
  BY <1>2
<1>4. d * s \in Nat
  OBVIOUS
<1>5. q * s \in Nat
  OBVIOUS
<1>6. QED
  BY <1>3, <1>4, <1>5

(* n_windows is the ceiling of the shots over the stride, at least 1.      *)
LEMMA WindowsCover ==
  ASSUME WindowStride >= 1, NEW n \in Nat
  PROVE  Windows(n) \in Nat /\ Windows(n) >= 1 /\ n <= Windows(n) * WindowStride
<1> DEFINE s == WindowStride
           k == (n + s - 1) \div s
<1>1. s \in Nat /\ s >= 1
  BY WindowAssumption
<1>2. Windows(n) = IF k < 1 THEN 1 ELSE k
  BY <1>1 DEF Windows
<1> HIDE DEF s
<1>3. k \in Int /\ n + s - 1 = k * s + ((n + s - 1) % s) /\ (n + s - 1) % s \in 0..(s - 1)
  BY <1>1
<1>4. n <= k * s
  BY <1>1, <1>3
<1>5. CASE k < 1
  <2>1. k * s <= 0
    BY <1>1, <1>3, <1>5
  <2>2. n = 0
    BY <1>4, <2>1, <1>3, <1>1
  <2>3. QED
    BY <1>1, <1>2, <1>5, <2>2 DEF s
<1>6. CASE ~(k < 1)
  BY <1>2, <1>3, <1>4, <1>6 DEF s
<1>7. QED
  BY <1>5, <1>6

(* Before every node of a window the limit is out of reach.                *)
LEMMA RoomLeft ==
  ASSUME WindowStride >= 1, NEW k \in CallRecords, NEW w \in Nat, NEW node \in Nodes,
         Before(k, node, w)
  PROVE  k.steps < RecursionLimit(Len(k.segs))
<1> DEFINE n == Len(k.segs)
           q == Windows(n)
<1>1. n \in Nat
  BY DEF CallRecords
<1>2. q \in Nat /\ q >= 1 /\ n <= q * WindowStride
  BY <1>1, WindowsCover
<1>3. w < q
  <2>1. CASE w = 0
    BY <1>2, <2>1
  <2>2. CASE w * WindowStride < n
    BY <1>1, <1>2, <2>2, FewerWindows, WindowAssumption
  <2>3. QED
    BY <2>1, <2>2 DEF Before
<1>4. k.steps <= 5 * w + 4
  <2>1. Place(node) \in 1..5
    BY DEF Place, Nodes
  <2>2. QED
    BY <2>1 DEF Before
<1>5. RecursionLimit(n) = q * 6 + 10
  BY DEF RecursionLimit
<1>6. k.steps \in Nat
  BY DEF CallRecords
<1>7. 5 * w + 4 < q * 6 + 10
  BY <1>2, <1>3
<1>8. QED
  BY <1>2, <1>4, <1>5, <1>6, <1>7

(* So the graph moves on to that node.                                     *)
LEMMA GotoMovesOn ==
  ASSUME WindowStride >= 1, NEW k \in CallRecords, NEW w \in Nat, NEW node \in Nodes,
         Before(k, node, w)
  PROVE  Goto(k, node) \in CallRecords /\ CallInv(Goto(k, node))
<1>1. Goto(k, node) = [k EXCEPT !.stage = node, !.steps = @ + 1]
  BY RoomLeft DEF Goto
<1>2. node \in Stages /\ node # "exhausted"
  BY DEF Nodes, Stages
<1>3. Goto(k, node) \in CallRecords
  <2>1. k.steps \in Nat /\ k.steps + 1 \in Nat
    BY DEF CallRecords
  <2>2. [k EXCEPT !.stage = node, !.steps = k.steps + 1] \in CallRecords
    BY <1>2, <2>1 DEF CallRecords
  <2>3. QED
    BY <1>1, <2>2
<1>4. InWindow(Goto(k, node), w)
  <2>1. Place(node) \in 1..5
    BY DEF Place, Nodes
  <2>2. QED
    BY <1>1, <2>1 DEF Before, InWindow, CallRecords
<1>5. QED
  BY <1>1, <1>2, <1>3, <1>4 DEF CallInv, CallRecords

(* From a node to the next one of the same window.                         *)
LEMMA NextNode ==
  ASSUME WindowStride >= 1, NEW k \in CallRecords, CallInv(k), NEW node \in Nodes,
         k.stage \in Nodes, Place(node) = Place(k.stage) + 1
  PROVE  Goto(k, node) \in CallRecords /\ CallInv(Goto(k, node))
<1>1. PICK w \in Nat : InWindow(k, w)
  BY DEF CallInv
<1>2. Place(k.stage) \in 1..5
  BY DEF Place, Nodes
<1>3. Before(k, node, w)
  BY <1>1, <1>2 DEF InWindow, Before
<1>4. QED
  BY <1>3, GotoMovesOn

(* Before its start a call is in no window.                                *)
LEMMA InitSInv == Init => SInv
<1>1. ASSUME Init PROVE SInv
  <2>1. NotStarted \in CallRecords
    BY DEF NotStarted, CallRecords, Stages
  <2>2. CallInv(NotStarted)
    BY DEF NotStarted, CallInv, Nodes
  <2>3. QED
    BY <1>1, <2>1, <2>2, RowsAssumption DEF Init, SInv
<1>2. QED
  BY <1>1

(* A step that changes one call keeps the invariant if that call keeps it. *)
LEMMA OneCall ==
  ASSUME SInv, NEW c \in Calls, NEW k, segments' = segments,
         call' = [call EXCEPT ![c] = k], k \in CallRecords, CallInv(k)
  PROVE  SInv'
<1>1. call' \in [Calls -> CallRecords]
  BY DEF SInv
<1>2. ASSUME NEW d \in Calls PROVE CallInv(call'[d])
  BY DEF SInv
<1>3. QED
  BY <1>1, <1>2 DEF SInv, CallInv, InWindow, CallRecords

(* Every action keeps the invariant: those that execute a node by NextNode *)
(* or GotoMovesOn, the others because they leave cursor and steps alone.   *)
LEMMA NextSInv ==
  ASSUME WindowStride >= 1, SInv, [Next]_vars
  PROVE  SInv'
<1>1. ASSUME NEW c \in Calls, NEW boot \in Bootstrap, Start(c, boot) PROVE SInv'
  <2> DEFINE k == [NotStarted EXCEPT !.boot = boot, !.segs = segments]
  <2>1. k \in CallRecords
    BY ModelAssumption DEF SInv, NotStarted, CallRecords, Stages
  <2>2. Before(k, "load", 0)
    <3>1. 0 = 0 * WindowStride /\ 0 = 5 * 0 + Place("load") - 1
      BY WindowAssumption DEF Place
    <3>2. k.cursor = 0 /\ k.steps = 0
      BY DEF NotStarted
    <3>3. QED
      BY <3>1, <3>2 DEF Before
  <2>3. Goto(k, "load") \in CallRecords /\ CallInv(Goto(k, "load"))
    <3> HIDE DEF k
    <3>1. QED
      BY <2>1, <2>2, GotoMovesOn DEF Nodes
  <2>4. QED
    BY <1>1, <2>3, OneCall DEF Start
<1>2. ASSUME NEW c \in Calls, NEW node \in Nodes, call[c].stage \in Nodes,
             Place(node) = Place(call[c].stage) + 1,
             call' = [call EXCEPT ![c] = Goto(call[c], node)], segments' = segments
      PROVE  SInv'
  <2>1. call[c] \in CallRecords /\ CallInv(call[c])
    BY DEF SInv
  <2>2. Goto(call[c], node) \in CallRecords /\ CallInv(Goto(call[c], node))
    BY <1>2, <2>1, NextNode
  <2>3. QED
    BY <1>2, <2>2, OneCall
<1>3. ASSUME NEW c \in Calls, Load(c) PROVE SInv'
  <2>1. call[c].stage = "load" /\ segments' = segments
    BY <1>3 DEF Load
  <2>2. call' = [call EXCEPT ![c] = Goto(call[c], "retrieve")]
    BY <1>3 DEF Load
  <2>3. "load" \in Nodes /\ "retrieve" \in Nodes /\ Place("retrieve") = Place("load") + 1
    BY DEF Nodes, Place
  <2>4. QED
    BY <1>2, <2>1, <2>2, <2>3
<1>4. ASSUME NEW c \in Calls, Retrieve(c) PROVE SInv'
  <2>1. call[c].stage = "retrieve" /\ segments' = segments
    BY <1>4 DEF Retrieve
  <2>2. call' = [call EXCEPT ![c] = Goto(call[c], "judge")]
    BY <1>4 DEF Retrieve
  <2>3. "retrieve" \in Nodes /\ "judge" \in Nodes /\ Place("judge") = Place("retrieve") + 1
    BY DEF Nodes, Place
  <2>4. QED
    BY <1>2, <2>1, <2>2, <2>3
<1>5. ASSUME NEW c \in Calls, Judge(c) PROVE SInv'
  <2>1. call[c].stage = "judge" /\ segments' = segments
    BY <1>5 DEF Judge
  <2>2. call' = [call EXCEPT ![c] = Goto(call[c], "side_fx")]
    BY <1>5 DEF Judge
  <2>3. "judge" \in Nodes /\ "side_fx" \in Nodes /\ Place("side_fx") = Place("judge") + 1
    BY DEF Nodes, Place
  <2>4. QED
    BY <1>2, <2>1, <2>2, <2>3
<1>6. ASSUME NEW c \in Calls, SideEffectsDone(c) PROVE SInv'
  <2>1. call[c].stage = "side_fx" /\ segments' = segments
    BY <1>6 DEF SideEffectsDone
  <2>2. call' = [call EXCEPT ![c] = Goto(call[c], "commit")]
    BY <1>6 DEF SideEffectsDone
  <2>3. "side_fx" \in Nodes /\ "commit" \in Nodes /\ Place("commit") = Place("side_fx") + 1
    BY DEF Nodes, Place
  <2>4. QED
    BY <1>2, <2>1, <2>2, <2>3
<1>7. ASSUME NEW c \in Calls, CommitDone(c) PROVE SInv'
  <2> DEFINE k == [call[c] EXCEPT !.cursor = NextCursor(call[c])]
  <2>1. call[c] \in CallRecords /\ CallInv(call[c]) /\ call[c].stage = "commit"
    BY <1>7 DEF SInv, CommitDone
  <2>2. PICK w \in Nat : InWindow(call[c], w)
    BY <2>1 DEF CallInv, Nodes
  <2>3. k \in CallRecords
    <3>1. NextCursor(call[c]) \in Nat
      BY <2>1, WindowAssumption DEF NextCursor, CallRecords
    <3>2. QED
      BY <2>1, <3>1 DEF CallRecords
  <2>4. CASE k.cursor < Len(k.segs)
    <3>1. Before(k, "load", w + 1)
      <4>1. call[c].cursor = w * WindowStride /\ call[c].steps = 5 * w + 5
        BY <2>1, <2>2 DEF InWindow, Place
      <4>2. k.cursor = w * WindowStride + WindowStride /\ k.steps = 5 * w + 5
        BY <2>1, <4>1 DEF NextCursor, CallRecords
      <4>3. w * WindowStride + WindowStride = (w + 1) * WindowStride
        BY WindowAssumption
      <4>4. QED
        BY <2>4, <4>2, <4>3 DEF Before, Place
    <3>2. Goto(k, "load") \in CallRecords /\ CallInv(Goto(k, "load"))
      <4> HIDE DEF k
      <4>1. w + 1 \in Nat /\ "load" \in Nodes
        BY DEF Nodes
      <4>2. QED
        BY <2>3, <3>1, <4>1, GotoMovesOn
    <3>3. call' = [call EXCEPT ![c] = Goto(k, "load")] /\ segments' = segments
      BY <1>7, <2>4 DEF CommitDone
    <3>4. QED
      BY <3>2, <3>3, OneCall
  <2>5. CASE ~(k.cursor < Len(k.segs))
    <3>1. call' = [call EXCEPT ![c] = [k EXCEPT !.stage = "status"]] /\ segments' = segments
      BY <1>7, <2>5 DEF CommitDone
    <3>2. [k EXCEPT !.stage = "status"] \in CallRecords
      BY <2>3 DEF CallRecords, Stages
    <3>3. CallInv([k EXCEPT !.stage = "status"])
      BY <2>3 DEF CallInv, Nodes, CallRecords
    <3>4. QED
      BY <3>1, <3>2, <3>3, OneCall
  <2>6. QED
    BY <2>4, <2>5
<1>8. ASSUME NEW c \in Calls, call' = [call EXCEPT ![c].made = @ + 1], segments' = segments
      PROVE  SInv'
  <2> DEFINE k == [call[c] EXCEPT !.made = @ + 1]
  <2>1. call[c] \in CallRecords /\ CallInv(call[c])
    BY DEF SInv
  <2>2. k \in CallRecords
    BY <2>1 DEF CallRecords
  <2>3. CallInv(k)
    BY <2>1 DEF CallRecords, CallInv, InWindow
  <2>4. call' = [call EXCEPT ![c] = k]
    BY <1>8 DEF SInv
  <2>5. QED
    BY <1>8, <2>2, <2>3, <2>4, OneCall
<1>9. ASSUME NEW c \in Calls, SideEffect(c) PROVE SInv'
  BY <1>8, <1>9 DEF SideEffect
<1>10. ASSUME NEW c \in Calls, EmitLabel(c) PROVE SInv'
  BY <1>8, <1>10 DEF EmitLabel
<1>11. ASSUME NEW c \in Calls, NEW stop \in {"failed", "ended"},
              call' = [call EXCEPT ![c].stage = stop], segments' = segments
       PROVE  SInv'
  <2> DEFINE k == [call[c] EXCEPT !.stage = stop]
  <2>1. call[c] \in CallRecords
    BY DEF SInv
  <2>2. k \in CallRecords /\ CallInv(k)
    BY <2>1 DEF CallRecords, Stages, CallInv, Nodes
  <2>3. call' = [call EXCEPT ![c] = k]
    BY <1>11 DEF SInv
  <2>4. QED
    BY <1>11, <2>2, <2>3, OneCall
<1>12. ASSUME NEW c \in Calls, Finish(c) PROVE SInv'
  BY <1>11, <1>12 DEF Finish
<1>13. ASSUME NEW c \in Calls, Fail(c) PROVE SInv'
  BY <1>11, <1>13 DEF Fail
<1>14. CASE UNCHANGED vars
  BY <1>14 DEF SInv, CallInv, InWindow, CallRecords, vars
<1>15. QED
  BY <1>1, <1>3, <1>4, <1>5, <1>6, <1>7, <1>9, <1>10, <1>12, <1>13, <1>14
  DEF Next, CallNext, Step

(* No call is ever stopped by the recursion limit (label_video's           *)
(* n_windows * 6 + 10), whatever the shots, the window and the categories, *)
(* as long as the configured stride is at least 1.                         *)
THEOREM LimitOutOfReach ==
  ASSUME WindowStride >= 1
  PROVE  Spec => []NeverExhausted
<1>1. SInv => NeverExhausted
  BY DEF SInv, NeverExhausted, CallInv
<1>2. SInv /\ [Next]_vars => SInv'
  BY NextSInv
<1>3. QED
  BY <1>1, <1>2, InitSInv, PTL DEF Spec

-----------------------------------------------------------------------------
(* Of any natural numbers one is the least: what is used for induction.    *)
LEMMA MinOf ==
  ASSUME NEW R, IsWellFoundedOn(R, Nat), \A x, y \in Nat : y < x => <<y, x>> \in R,
         NEW T, T \subseteq Nat, T # {}
  PROVE  \E x \in T : \A y \in T : x <= y
<1>1. PICK x \in T : \A y \in T : ~ (<<y, x>> \in R)
  BY WFMin
<1>2. ASSUME NEW y \in T PROVE x <= y
  <2>1. ~(y < x)
     BY <1>1
  <2> QED BY <2>1
<1>4. QED
  BY <1>2

(* A set of naturals with a member has a least one.                        *)
LEMMA Smallest ==
  ASSUME NEW T, T \subseteq Nat, T # {}
  PROVE  \E x \in T : \A y \in T : x <= y
<1>1. \A x, y \in Nat : y < x => <<y, x>> \in OpToRel(<, Nat)
  BY DEF OpToRel
<1>4. QED
  BY <1>1, MinOf, NatLessThanWellFounded

(* What the first n sequences of s hold, and what they hold once.          *)
Occurs(s, n, x) == \E k \in 1..n : \E j \in DOMAIN s[k] : s[k][j] = x

Single(s, n, x) ==
  \A k, l \in 1..n : \A i \in DOMAIN s[k], j \in DOMAIN s[l] :
    s[k][i] = x /\ s[l][j] = x => k = l /\ i = j

Joins(f, s, n, T) ==
  /\ f \in Seq(T)
  /\ \A p \in DOMAIN f : Occurs(s, n, f[p])
  /\ \A k \in 1..n : \A j \in DOMAIN s[k] : \E p \in DOMAIN f : f[p] = s[k][j]
  /\ \A p, q \in DOMAIN f : f[p] = f[q] /\ Single(s, n, f[p]) => p = q

(* f is the recursive function of FlattenSeq on the first n of s.          *)
Flattens(f, s, n) == f = [i \in 1..n |-> IF i = 1 THEN s[i] ELSE f[i-1] \o s[i]]

(* One sequence more is appended to the flattened ones.                    *)
LEMMA FlattenStep ==
  ASSUME NEW T, NEW s \in Seq(Seq(T)), NEW n \in Nat, n >= 1, n + 1 <= Len(s),
         NEW f, Joins(f, s, n, T)
  PROVE  Joins(f \o s[n+1], s, n + 1, T)
<1> DEFINE g == s[n+1]
           h == f \o g
<1>1. f \in Seq(T) /\ g \in Seq(T)
  BY DEF Joins
<1>2. /\ h \in Seq(T)
      /\ Len(h) = Len(f) + Len(g)
      /\ \A p \in 1..Len(f) + Len(g) : h[p] = IF p <= Len(f) THEN f[p] ELSE g[p - Len(f)]
  BY <1>1, ConcatProperties
<1>3. DOMAIN f = 1..Len(f) /\ DOMAIN g = 1..Len(g) /\ DOMAIN h = 1..Len(h)
      /\ Len(f) \in Nat /\ Len(g) \in Nat
  BY <1>1, <1>2, LenProperties
<1>4. 1..(n+1) = 1..n \cup {n+1} /\ n+1 \in 1..(n+1) /\ 1..n \subseteq 1..(n+1)
  OBVIOUS
<1> HIDE DEF g, h
<1>5. g = s[n+1]
  BY DEF g
<1>6. ASSUME NEW p \in DOMAIN h PROVE Occurs(s, n+1, h[p])
  <2>1. CASE p <= Len(f)
    <3>1. p \in DOMAIN f /\ h[p] = f[p]
      BY <1>2, <1>3, <2>1
    <3>2. Occurs(s, n, f[p])
      BY <3>1 DEF Joins
    <3>3. QED
      BY <1>4, <3>1, <3>2 DEF Occurs
  <2>2. CASE ~(p <= Len(f))
    <3>1. p - Len(f) \in DOMAIN g /\ h[p] = g[p - Len(f)]
      BY <1>2, <1>3, <2>2
    <3>2. QED
      BY <1>4, <1>5, <3>1 DEF Occurs
  <2>3. QED
    BY <2>1, <2>2
<1>7. ASSUME NEW k \in 1..(n+1), NEW j \in DOMAIN s[k]
      PROVE  \E p \in DOMAIN h : h[p] = s[k][j]
  <2>1. CASE k \in 1..n
    <3>1. PICK p \in DOMAIN f : f[p] = s[k][j]
      BY <2>1 DEF Joins
    <3>2. p \in DOMAIN h /\ h[p] = f[p]
      BY <1>2, <1>3
    <3>3. QED
      BY <3>1, <3>2
  <2>2. CASE k = n+1
    <3>1. j \in DOMAIN g
      BY <1>5, <2>2
    <3>2. PICK p : p = Len(f) + j
      OBVIOUS
    <3>3. p \in 1..Len(f) + Len(g) /\ ~(p <= Len(f)) /\ p - Len(f) = j
      <4>1. j \in Nat /\ 1 <= j /\ j <= Len(g) /\ Len(f) \in Nat /\ Len(g) \in Nat
        BY <1>3, <3>1
      <4>2. QED
        BY <3>2, <4>1
    <3>4. p \in DOMAIN h /\ h[p] = g[j]
      BY <1>2, <1>3, <3>3
    <3>5. QED
      BY <1>5, <2>2, <3>4
  <2>3. QED
    BY <1>4, <2>1, <2>2
<1>8. ASSUME NEW p \in DOMAIN h, NEW q \in DOMAIN h, h[p] = h[q], Single(s, n+1, h[p])
      PROVE  p = q
  <2>1. ASSUME NEW u \in DOMAIN h, NEW v \in DOMAIN h, h[u] = h[v], Single(s, n+1, h[u]),
               u <= Len(f), v > Len(f)
        PROVE  FALSE
    <3>1. u \in DOMAIN f /\ h[u] = f[u] /\ v - Len(f) \in DOMAIN g /\ h[v] = g[v - Len(f)]
      <4>1. u \in 1..Len(f) + Len(g) /\ v \in 1..Len(f) + Len(g)
        BY <1>2, <1>3
      <4>2. u \in 1..Len(f) /\ v - Len(f) \in 1..Len(g) /\ ~(v <= Len(f))
        BY <1>3, <2>1, <4>1, SMTT(30)
      <4>3. QED
        BY <1>2, <1>3, <2>1, <4>1, <4>2
    <3>2. PICK k \in 1..n : \E j \in DOMAIN s[k] : s[k][j] = f[u]
      BY <3>1 DEF Joins, Occurs
    <3>3. k = n+1
      BY <1>4, <1>5, <2>1, <3>1, <3>2 DEF Single
    <3>4. QED
      BY <3>3
  <2>2. CASE p <= Len(f) /\ q <= Len(f)
    <3>1. p \in DOMAIN f /\ h[p] = f[p] /\ q \in DOMAIN f /\ h[q] = f[q]
      BY <1>2, <1>3, <2>2
    <3>2. Single(s, n, f[p])
      BY <1>4, <1>8, <3>1 DEF Single
    <3>3. QED
      BY <1>8, <3>1, <3>2 DEF Joins
  <2>3. CASE p > Len(f) /\ q > Len(f)
    <3>1. /\ p - Len(f) \in DOMAIN g /\ h[p] = g[p - Len(f)]
          /\ q - Len(f) \in DOMAIN g /\ h[q] = g[q - Len(f)]
      <4>1. ASSUME NEW r \in DOMAIN h, r > Len(f)
            PROVE  r - Len(f) \in DOMAIN g /\ h[r] = g[r - Len(f)]
        <5>1. r \in 1..Len(f) + Len(g)
          BY <1>2, <1>3
        <5>2. r - Len(f) \in 1..Len(g) /\ ~(r <= Len(f))
          BY <1>3, <4>1, <5>1
        <5>3. QED
          BY <1>2, <1>3, <5>1, <5>2
      <4>2. QED
        BY <2>3, <4>1
    <3>2. p - Len(f) = q - Len(f)
      BY <1>4, <1>5, <1>8, <3>1 DEF Single
    <3>3. QED
      BY <1>3, <3>2
  <2>4. QED
    BY <1>3, <1>8, <2>1, <2>2, <2>3
<1>9. QED
  BY <1>2, <1>6, <1>7, <1>8 DEF Joins, h, g

(* So every flattening joins its parts: there is no least counterexample.  *)
LEMMA FlattenFrom ==
  ASSUME NEW T, NEW s \in Seq(Seq(T)), NEW n \in 1..Len(s)
  PROVE  \E f : Flattens(f, s, n) /\ Joins(f[n], s, n, T)
<1> DEFINE Good(m) == \E f : Flattens(f, s, m) /\ Joins(f[m], s, m, T)
           Bad == {m \in 1..Len(s) : ~Good(m)}
<1>0. Len(s) \in Nat /\ DOMAIN s = 1..Len(s) /\ \A i \in 1..Len(s) : s[i] \in Seq(T)
  BY LenProperties, ElementOfSeq
<1>1. SUFFICES ASSUME Bad # {} PROVE FALSE
  OBVIOUS
<1>2. PICK m \in Bad : \A i \in Bad : m <= i
  <2>1. Bad \subseteq Nat
    BY <1>0
  <2>2. QED
    BY <1>1, <2>1, Smallest
<1>3. m \in 1..Len(s) /\ m \in Nat /\ m >= 1 /\ ~Good(m)
  BY <1>0
<1>4. m # 1
  <2>1. SUFFICES ASSUME m = 1 PROVE FALSE
    OBVIOUS
  <2> DEFINE f == [i \in 1..1 |-> s[i]]
  <2>2. Flattens(f, s, 1) /\ f[1] = s[1]
    BY DEF Flattens
  <2>3. s[1] \in Seq(T) /\ DOMAIN s[1] = 1..Len(s[1])
    BY <1>0, <1>3, <2>1
  <2>4. Joins(s[1], s, 1, T)
    <3>1. 1..1 = {1}
      OBVIOUS
    <3>2. \A p \in DOMAIN s[1] : Occurs(s, 1, s[1][p])
      BY <3>1 DEF Occurs
    <3>3. \A p, q \in DOMAIN s[1] : s[1][p] = s[1][q] /\ Single(s, 1, s[1][p]) => p = q
      BY <3>1 DEF Single
    <3>4. QED
      BY <2>3, <3>1, <3>2, <3>3 DEF Joins
  <2>5. QED
    BY <1>3, <2>1, <2>2, <2>4
<1>5. PICK f : Flattens(f, s, m-1) /\ Joins(f[m-1], s, m-1, T)
  <2>1. m-1 \in 1..Len(s) /\ ~(m <= m-1)
    BY <1>0, <1>3, <1>4
  <2>2. QED
    BY <1>2, <2>1
<1>h. PICK h : h = [i \in 1..m |-> IF i < m THEN f[i] ELSE f[m-1] \o s[m]]
  OBVIOUS
<1>6. Flattens(h, s, m) /\ h[m] = f[m-1] \o s[m]
  <2>1. ASSUME NEW i \in 1..m PROVE h[i] = IF i = 1 THEN s[i] ELSE h[i-1] \o s[i]
    <3>1. CASE i < m
      <4>1. i \in 1..(m-1) /\ i \in Nat
        BY <1>3, <3>1
      <4>2. f[i] = IF i = 1 THEN s[i] ELSE f[i-1] \o s[i]
        BY <1>5, <4>1 DEF Flattens
      <4>3. i # 1 => i-1 \in 1..m /\ i-1 < m
        BY <1>3, <4>1
      <4>4. h[i] = f[i]
        BY <1>h, <3>1
      <4>5. i # 1 => h[i-1] = f[i-1]
        BY <1>h, <4>3
      <4>6. CASE i = 1
        BY <4>2, <4>4, <4>6
      <4>7. CASE i # 1
        BY <4>2, <4>4, <4>5, <4>7
      <4>8. QED
        BY <4>6, <4>7
    <3>2. CASE i = m
      <4>1. i # 1 /\ i-1 \in 1..m /\ i-1 < m
        BY <1>3, <1>4, <3>2
      <4>2. h[i] = f[i-1] \o s[i]
        <5>1. m \in 1..m /\ ~(m < m)
          BY <1>3
        <5>2. h[m] = f[m-1] \o s[m]
          BY <1>h, <5>1
        <5>3. QED
          BY <3>2, <5>2
      <4>3. h[i-1] = f[i-1]
        BY <1>h, <4>1
      <4>4. QED
        BY <4>1, <4>2, <4>3
    <3>3. QED
      BY <1>3, <3>1, <3>2
  <2>2. h = [i \in 1..m |-> h[i]] /\ h[m] = f[m-1] \o s[m]
    <3>1. m \in 1..m /\ ~(m < m)
      BY <1>3
    <3>2. h[m] = f[m-1] \o s[m]
      BY <1>h, <3>1
    <3>3. h = [i \in 1..m |-> h[i]]
      BY <1>h
    <3>4. QED
      BY <3>2, <3>3
  <2>3. h = [i \in 1..m |-> IF i = 1 THEN s[i] ELSE h[i-1] \o s[i]]
    BY <2>1, <2>2
  <2>4. QED
    BY <2>2, <2>3 DEF Flattens
<1>7. Joins(f[m-1] \o s[m], s, m, T)
  <2>1. m-1 \in Nat /\ m-1 >= 1 /\ (m-1)+1 = m /\ (m-1)+1 <= Len(s)
    BY <1>3, <1>4
  <2>2. QED
    BY <1>5, <2>1, FlattenStep
<1>8. QED
  BY <1>3, <1>6, <1>7

(* FlattenSeq joins all of them.                                           *)
LEMMA FlattenJoins ==
  ASSUME NEW T, NEW s \in Seq(Seq(T))
  PROVE  Joins(FlattenSeq(s), s, Len(s), T)
<1>1. CASE Len(s) = 0
  <2>1. FlattenSeq(s) = <<>> /\ <<>> \in Seq(T) /\ DOMAIN <<>> = {}
    BY <1>1, EmptySeq DEF FlattenSeq
  <2>2. QED
    BY <1>1, <2>1 DEF Joins
<1>2. CASE Len(s) # 0
  <2> DEFINE n == Len(s)
             F == CHOOSE f : Flattens(f, s, n)
  <2>1. n \in 1..Len(s)
    BY <1>2, LenProperties
  <2>2. PICK f : Flattens(f, s, n) /\ Joins(f[n], s, n, T)
    BY <2>1, FlattenFrom
  <2>3. Flattens(F, s, n)
    BY <2>2
  <2>4. FlattenSeq(s) = F[n]
    BY <1>2 DEF FlattenSeq, Flattens
  <2>5. F = f
    <3>1. SUFFICES ASSUME F # f PROVE FALSE
      OBVIOUS
    <3> HIDE DEF F
    <3> DEFINE D == {i \in 1..n : F[i] # f[i]}
    <3>2. D # {} /\ D \subseteq Nat
      <4>1. F = [i \in 1..n |-> F[i]] /\ f = [i \in 1..n |-> f[i]]
        BY <2>2, <2>3 DEF Flattens
      <4>2. QED
        BY <3>1, <4>1
    <3>3. PICK i \in D : \A j \in D : i <= j
      BY <3>2, Smallest
    <3>4. i # 1 => i-1 \in 1..n /\ F[i-1] = f[i-1]
      BY <2>1, <3>3
    <3>5. /\ F[i] = IF i = 1 THEN s[i] ELSE F[i-1] \o s[i]
          /\ f[i] = IF i = 1 THEN s[i] ELSE f[i-1] \o s[i]
      BY <2>2, <2>3 DEF Flattens
    <3>6. QED
      BY <3>3, <3>4, <3>5
  <2>6. QED
    BY <2>2, <2>4, <2>5
<1>3. QED
  BY <1>1, <1>2

-----------------------------------------------------------------------------
(* SetToSeq lists the structured categories, each once.                    *)
LEMMA StructuredListed ==
  LET C == Cardinality(Structured)
      L == SetToSeq(Structured)
  IN  /\ C \in Nat
      /\ L \in [1..C -> Structured]
      /\ \A i, j \in 1..C : L[i] = L[j] => i = j
      /\ \A cat \in Structured : \E j \in 1..C : L[j] = cat
<1> DEFINE C == Cardinality(Structured)
           L == SetToSeq(Structured)
<1>1. C \in Nat /\ ExistsBijection(1..C, Structured)
  BY CategoriesAssumption, FS_CardinalityType
<1>2. \E f : f \in [1..C -> Structured] /\ IsInjective(f)
  BY <1>1 DEF ExistsBijection, Bijection, Injection
<1>3. L \in [1..C -> Structured] /\ IsInjective(L)
  BY <1>2 DEF SetToSeq
<1>4. L \in Surjection(1..C, Structured)
  <2>1. L \in Injection(1..C, Structured)
    BY <1>3 DEF Injection
  <2>2. Cardinality(1..C) = C
    BY <1>1, FS_Interval
  <2>3. QED
    BY <2>1, <2>2, CategoriesAssumption, FS_Injection
<1>5. \A i, j \in 1..C : L[i] = L[j] => i = j
  BY <1>3 DEF IsInjective
<1>6. \A cat \in Structured : \E j \in 1..C : L[j] = cat
  BY <1>4 DEF Surjection
<1>7. QED
  BY <1>1, <1>3, <1>5, <1>6

(* The shots of a window that begins at a cursor in the video.             *)
LEMMA WindowIs ==
  ASSUME NEW k \in CallRecords, k.cursor <= Len(k.segs)
  PROVE  \E n \in Nat :
           /\ Window(k) = [i \in 1..n |-> k.cursor + i]
           /\ n <= WindowSize /\ n <= Len(k.segs) - k.cursor
           /\ n = WindowSize \/ n = Len(k.segs) - k.cursor
<1> DEFINE room == Len(k.segs) - k.cursor
           n    == IF room < WindowSize THEN room ELSE WindowSize
<1>1. Len(k.segs) \in Nat /\ k.cursor \in Nat /\ WindowSize \in Nat
  BY WindowAssumption DEF CallRecords
<1>2. n \in Nat /\ n <= WindowSize /\ n <= room /\ (n = WindowSize \/ n = room)
  BY <1>1
<1>3. Window(k) = [i \in 1..n |-> k.cursor + i]
  BY DEF Window
<1> HIDE DEF n
<1>4. QED
  BY <1>2, <1>3

(* The n shots after a.                                                    *)
Shots(a, n) == [i \in 1..n |-> a + i]

(* The confirmed shots follow the cursor, and as many as the stride says.  *)
LEMMA ConfirmIs ==
  ASSUME NEW k \in CallRecords, k.cursor <= Len(k.segs)
  PROVE  \E n \in Nat :
           /\ Confirm(k) = Shots(k.cursor, n)
           /\ n <= Len(k.segs) - k.cursor
           /\ WindowStride >= 1 /\ WindowStride <= WindowSize =>
                n <= WindowStride /\ (n = WindowStride \/ n = Len(k.segs) - k.cursor)
<1>1. PICK m \in Nat :
           /\ Window(k) = [i \in 1..m |-> k.cursor + i]
           /\ m <= WindowSize /\ m <= Len(k.segs) - k.cursor
           /\ m = WindowSize \/ m = Len(k.segs) - k.cursor
  BY WindowIs
<1>2. Len(k.segs) \in Nat /\ k.cursor \in Nat /\ WindowSize \in Nat /\ WindowStride \in Nat
  BY WindowAssumption DEF CallRecords
<1>3. Window(k) \in Seq(Nat) /\ Len(Window(k)) = m
  <2>1. \A i \in 1..m : k.cursor + i \in Nat
    BY <1>2
  <2>2. QED
    BY <1>1, <2>1, IsASeq
<1>4. PICK n : n = IF WindowStride < m THEN WindowStride ELSE m
  OBVIOUS
<1>5. n \in Nat /\ n <= m
  BY <1>2, <1>4
<1>6. PICK head : head = SubSeq(Window(k), 1, n)
  OBVIOUS
<1>7. head = [i \in 1..n |-> k.cursor + i] /\ head \in Seq(Nat) /\ Len(head) = n
  <2>1. head = [i \in 1..n |-> Window(k)[1 + i - 1]]
    BY <1>5, <1>6
  <2>2. ASSUME NEW i \in 1..n PROVE Window(k)[1 + i - 1] = k.cursor + i /\ k.cursor + i \in Nat
    <3>1. i \in 1..m /\ 1 + i - 1 = i
      BY <1>5
    <3>2. QED
      BY <1>1, <1>2, <3>1
  <2>3. head = [i \in 1..n |-> k.cursor + i]
    BY <2>1, <2>2
  <2>4. QED
    BY <1>5, <2>2, <2>3, IsASeq
<1>8. Confirm(k) = IF head = <<>> THEN Window(k) ELSE head
  BY <1>3, <1>4, <1>6 DEF Confirm
<1>9. CASE head = <<>>
  <2>1. n = 0
    BY <1>7, <1>9, EmptySeq
  <2>2. WindowStride >= 1 => m = 0
    BY <1>2, <1>4, <2>1
  <2>3. Confirm(k) = [i \in 1..m |-> k.cursor + i]
    BY <1>1, <1>8, <1>9
  <2>4. m <= Len(k.segs) - k.cursor /\ (WindowStride >= 1 =>
          m <= WindowStride /\ (m = WindowStride \/ m = Len(k.segs) - k.cursor \/ WindowSize = 0))
    BY <1>1, <1>2, <2>2
  <2>5. WindowStride >= 1 /\ WindowStride <= WindowSize => WindowSize # 0
    BY <1>2
  <2>6. QED
    BY <2>3, <2>4, <2>5 DEF Shots
<1>10. CASE head # <<>>
  <2>1. Confirm(k) = [i \in 1..n |-> k.cursor + i]
    BY <1>7, <1>8, <1>10
  <2>2. n <= Len(k.segs) - k.cursor
    BY <1>1, <1>2, <1>5
  <2>3. WindowStride >= 1 /\ WindowStride <= WindowSize =>
          n <= WindowStride /\ (n = WindowStride \/ n = Len(k.segs) - k.cursor)
    BY <1>1, <1>2, <1>4
  <2>4. QED
    BY <1>5, <2>1, <2>2, <2>3 DEF Shots
<1>11. QED
  BY <1>9, <1>10

(* A reply is a sequence of judgements.                                    *)
LEMMA RepliesAreSequences ==
  ASSUME NEW r \in HolisticReplies
  PROVE  r \in Seq(Holistic) /\ Len(r) \in Nat /\ DOMAIN r = 1..Len(r)
<1>1. PICK n \in 0..MaxReplies : r \in [1..n -> Holistic]
  BY DEF HolisticReplies
<1>2. n \in Nat
  BY ModelAssumption
<1>3. r \in Seq(Holistic)
  BY <1>1, <1>2, SeqDef
<1>4. QED
  BY <1>3, LenProperties

EachOnce(D, shots) ==
  \A s \in shots, cat \in Structured :
    \E p \in DOMAIN D : \A q \in DOMAIN D :
      D[q].shot = s /\ D[q].cat = cat <=> q = p

(* JUDGE drafts each structured category of each confirmed shot once, and  *)
(* nothing for another shot.                                               *)
LEMMA DraftsAre ==
  ASSUME NEW a \in Nat, NEW n \in Nat,
         NEW reply \in [1..n -> HolisticReplies],
         NEW D, D = Drafts(Shots(a, n), reply)
  PROVE  /\ D \in Seq([shot : (a+1)..(a+n), cat : Categories])
         /\ EachOnce(D, (a+1)..(a+n))
<1>1. PICK C, L : C = Cardinality(Structured) /\ L = SetToSeq(Structured)
  OBVIOUS
<1>2. /\ C \in Nat
      /\ L \in [1..C -> Structured]
      /\ \A i, j \in 1..C : L[i] = L[j] => i = j
      /\ \A cat \in Structured : \E j \in 1..C : L[j] = cat
  BY <1>1, StructuredListed
<1>c. PICK confirm : confirm = Shots(a, n)
  OBVIOUS
<1>t. PICK T : T = [shot : (a+1)..(a+n), cat : Categories]
  OBVIOUS
<1> DEFINE d(i, j) == [shot |-> confirm[i], cat |-> IF j <= C THEN L[j] ELSE reply[i][j - C]]
<1>3. PICK s : s = [i \in DOMAIN confirm |-> [j \in 1..(C + Len(reply[i])) |-> d(i, j)]]
  OBVIOUS
<1>4. D = FlattenSeq(s)
  BY <1>1, <1>3, <1>c DEF Drafts
<1>5. DOMAIN confirm = 1..n /\ DOMAIN s = 1..n /\ Len(confirm) = n
      /\ \A i \in 1..n : confirm[i] = a + i /\ confirm[i] \in (a+1)..(a+n)
  BY <1>3, <1>c DEF Shots
<1>6. ASSUME NEW i \in 1..n
      PROVE  /\ s[i] \in Seq(T) /\ DOMAIN s[i] = 1..(C + Len(reply[i]))
             /\ Len(reply[i]) \in Nat
             /\ \A j \in DOMAIN s[i] : s[i][j] \in T /\ s[i][j].shot = a + i
                  /\ (j <= C => s[i][j].cat = L[j]) /\ (j > C => s[i][j].cat \in Holistic)
  <2>1. reply[i] \in Seq(Holistic) /\ Len(reply[i]) \in Nat /\ DOMAIN reply[i] = 1..Len(reply[i])
    BY RepliesAreSequences
  <2>2. s[i] = [j \in 1..(C + Len(reply[i])) |-> d(i, j)]
    BY <1>3, <1>5
  <2>3. ASSUME NEW j \in 1..(C + Len(reply[i]))
        PROVE  /\ d(i, j) \in T /\ d(i, j).shot = a + i
               /\ (j <= C => d(i, j).cat = L[j]) /\ (j > C => d(i, j).cat \in Holistic)
    <3>1. CASE j <= C
      <4>1. L[j] \in Structured
        BY <1>2, <2>1, <3>1
      <4>2. QED
        BY <1>2, <1>5, <1>t, <3>1, <4>1 DEF Categories
    <3>2. CASE ~(j <= C)
      <4>1. j - C \in DOMAIN reply[i]
        BY <1>2, <2>1, <3>2
      <4>2. reply[i][j - C] \in Holistic
        BY <2>1, <4>1, ElementOfSeq
      <4>3. QED
        BY <1>2, <1>5, <1>t, <3>2, <4>2 DEF Categories
    <3>3. QED
      BY <3>1, <3>2
  <2> HIDE DEF d
  <2>4. s[i] \in Seq(T) /\ DOMAIN s[i] = 1..(C + Len(reply[i]))
    <3>1. PICK m \in Nat : m = C + Len(reply[i])
      BY <1>2, <2>1
    <3>2. s[i] = [j \in 1..m |-> d(i, j)] /\ \A j \in 1..m : d(i, j) \in T
      BY <2>2, <2>3, <3>1
    <3>3. \A j \in 1..m : s[i][j] \in T
      BY <3>2
    <3>4. s[i] = [j \in 1..m |-> s[i][j]]
      BY <3>2
    <3>5. s[i] \in [1..m -> T]
      BY <3>3, <3>4
    <3>6. s[i] \in Seq(T)
      BY <3>5, SeqDef
    <3>7. QED
      BY <3>1, <3>4, <3>6
  <2>5. QED
    BY <2>1, <2>2, <2>3, <2>4
<1>7. s \in Seq(Seq(T)) /\ Len(s) = n
  <2>1. s = [i \in 1..n |-> s[i]]
    BY <1>3, <1>5
  <2>2. \A i \in 1..n : s[i] \in Seq(T)
    BY <1>6
  <2>3. s \in [1..n -> Seq(T)]
    BY <2>1, <2>2
  <2>4. s \in Seq(Seq(T))
    BY <2>3, SeqDef
  <2>5. QED
    BY <1>5, <2>4, LenProperties
<1> HIDE DEF d
<1>e. \A i \in 1..n : \A j \in DOMAIN s[i] :
        /\ s[i][j].shot = a + i
        /\ j \in 1..(C + Len(reply[i])) /\ Len(reply[i]) \in Nat
        /\ (j <= C => s[i][j].cat = L[j]) /\ (j > C => s[i][j].cat \in Holistic)
  BY <1>6
<1>8. D = FlattenSeq(s)
  BY <1>4
<1>9. Joins(D, s, n, T)
  BY <1>7, <1>8, FlattenJoins
<1>10. ASSUME NEW shot \in (a+1)..(a+n), NEW cat \in Structured
       PROVE  \E p \in DOMAIN D : \A q \in DOMAIN D :
                    D[q].shot = shot /\ D[q].cat = cat <=> q = p
  <2>1. PICK i \in 1..n : shot = a + i
    <3>1. shot - a \in 1..n /\ shot = a + (shot - a)
      OBVIOUS
    <3>2. QED
      BY <3>1
  <2>2. PICK j \in 1..C : L[j] = cat
    BY <1>2
  <2>3. j \in DOMAIN s[i] /\ s[i][j] \in T /\ s[i][j].shot = shot /\ s[i][j].cat = cat
    <3>1. j \in DOMAIN s[i] /\ j <= C
      <4>1. Len(reply[i]) \in Nat /\ DOMAIN s[i] = 1..(C + Len(reply[i]))
        BY <1>6
      <4>2. QED
        BY <1>2, <2>2, <4>1
    <3>2. s[i][j] \in T
      BY <1>6, <3>1
    <3>3. QED
      BY <1>6, <2>1, <2>2, <3>1, <3>2
  <2>4. PICK p \in DOMAIN D : D[p] = s[i][j]
    BY <1>9, <2>3 DEF Joins
  <2>5. Single(s, n, D[p])
    <3> SUFFICES \A k, l \in 1..n : \A u \in DOMAIN s[k], v \in DOMAIN s[l] :
                   s[k][u] = D[p] /\ s[l][v] = D[p] => k = l /\ u = v
      BY DEF Single
    <3> TAKE k, l \in 1..n
    <3> TAKE u \in DOMAIN s[k], v \in DOMAIN s[l]
    <3>1. HAVE s[k][u] = D[p] /\ s[l][v] = D[p]
    <3>2. k = i /\ l = i
      <4>1. s[k][u].shot = a + k /\ s[l][v].shot = a + l
        BY <1>e
      <4>2. a + k = a + i /\ a + l = a + i
        BY <2>1, <2>3, <2>4, <3>1, <4>1
      <4>3. QED
        BY <4>2
    <3>3. u \in 1..C /\ v \in 1..C
      <4>1. cat \notin Holistic
        BY CategoriesAssumption
      <4>2. /\ u \in 1..(C + Len(reply[k])) /\ v \in 1..(C + Len(reply[l]))
            /\ Len(reply[k]) \in Nat /\ Len(reply[l]) \in Nat
        BY <1>e
      <4>3. s[k][u].cat = cat /\ s[l][v].cat = cat
        BY <2>3, <2>4, <3>1
      <4>4. ~(u > C) /\ ~(v > C)
        BY <1>e, <4>1, <4>3
      <4>5. u \in Nat /\ v \in Nat /\ u >= 1 /\ v >= 1
        BY <1>2, <4>2
      <4>6. QED
        BY <1>2, <4>4, <4>5
    <3>4. L[u] = cat /\ L[v] = cat
      <4>1. u <= C /\ v <= C
        BY <1>2, <3>3
      <4>2. s[k][u].cat = L[u] /\ s[l][v].cat = L[v]
        BY <1>e, <4>1
      <4>3. s[k][u].cat = cat /\ s[l][v].cat = cat
        BY <2>3, <2>4, <3>1
      <4>4. QED
        BY <4>2, <4>3
    <3>5. QED
      BY <1>2, <3>2, <3>3, <3>4
  <2>6. ASSUME NEW q \in DOMAIN D, D[q].shot = shot, D[q].cat = cat PROVE q = p
    <3>1. D[q] \in T /\ D[p] \in T
      <4>1. D \in Seq(T)
        BY <1>9 DEF Joins
      <4>2. QED
        BY <4>1, ElementOfSeq, LenProperties
    <3>2. D[q] = D[p]
      <4>1. D[q] = [shot |-> D[q].shot, cat |-> D[q].cat]
        BY <1>t, <3>1
      <4>2. D[p] = [shot |-> D[p].shot, cat |-> D[p].cat]
        BY <1>t, <3>1
      <4>3. D[p].shot = shot /\ D[p].cat = cat
        BY <2>3, <2>4
      <4>4. QED
        BY <2>6, <4>1, <4>2, <4>3
    <3>3. QED
      BY <1>9, <2>5, <3>2 DEF Joins
  <2>7. D[p].shot = shot /\ D[p].cat = cat
    BY <2>3, <2>4
  <2>8. \A q \in DOMAIN D : D[q].shot = shot /\ D[q].cat = cat <=> q = p
    BY <2>6, <2>7
  <2>9. QED
    BY <2>8
<1>11. D \in Seq(T)
  BY <1>9 DEF Joins
<1>12. QED
  BY <1>10, <1>11, <1>t DEF EachOnce

-----------------------------------------------------------------------------
(* The types of what a call has produced: only shots of its own video.     *)
WorkOf(k) ==
  LET shots == 1..Len(k.segs)
  IN  [confirm   : Seq(shots),
       drafts    : Seq([shot : shots, cat : Categories]),
       proposals : Seq([shot : shots, kind : {"request", "attribute"}])]

CallTyped(k, wk) ==
  /\ k \in CallRecords
  /\ wk \in WorkOf(k)
  /\ k.stage = "none" => wk = NoWork
  /\ k.stage \in Nodes => k.cursor <= Len(k.segs)
  /\ k.stage \in {"retrieve", "judge"} => wk.confirm = Confirm(k)

TypeInv ==
  /\ segments \in Seq(Cut)
  /\ labels \subseteq [id : Ids, shot : Nat \ {0}, cat : Categories, cut : Cut]
  /\ effects \subseteq [id : Ids, shot : Nat \ {0}, kind : {"request", "attribute"}]
  /\ status \in {"pending", "ingested", "labelled"}
  /\ call = [c \in Calls |-> call[c]] /\ work = [c \in Calls |-> work[c]]
  /\ \A c \in Calls : CallTyped(call[c], work[c])


(* What a request phase proposes is a sequence of proposals.               *)
LEMMA ProposalsAre ==
  ASSUME NEW S, NEW confirm \in Seq(S), NEW boot, NEW asked \in Asked(confirm, boot)
  PROVE  Proposals(confirm, asked) \in Seq([shot : S, kind : {"request", "attribute"}])
<1> DEFINE K == {"request", "attribute"}
           one(i) == IF asked[i] = "nothing" THEN <<>>
                     ELSE <<[shot |-> confirm[i], kind |-> asked[i]]>>
<1>t. PICK T : T = [shot : S, kind : K]
  OBVIOUS
<1>1. PICK n \in Nat : n = Len(confirm) /\ DOMAIN confirm = 1..n
  BY LenProperties
<1>2. PICK s : s = [i \in DOMAIN confirm |-> one(i)]
  OBVIOUS
<1>3. ASSUME NEW i \in 1..n PROVE one(i) \in Seq(T)
  <2>1. confirm[i] \in S
    BY <1>1, ElementOfSeq
  <2>2. asked[i] \in {"nothing"} \cup K
    BY <1>1 DEF Asked, Kinds
  <2>3. asked[i] # "nothing" => [shot |-> confirm[i], kind |-> asked[i]] \in T
    BY <1>t, <2>1, <2>2
  <2>4. QED
    BY <2>3
<1>4. s \in Seq(Seq(T))
  <2>1. \A i \in 1..n : one(i) \in Seq(T)
    BY <1>3
  <2> HIDE DEF one
  <2>2. s \in [1..n -> Seq(T)]
    BY <1>1, <1>2, <2>1
  <2>3. QED
    BY <2>2, SeqDef
<1>5. Proposals(confirm, asked) = FlattenSeq(s)
  BY <1>2 DEF Proposals
<1>6. FlattenSeq(s) \in Seq(T)
  BY <1>4, FlattenJoins DEF Joins
<1>7. QED
  BY <1>t, <1>5, <1>6

(* Goto keeps all but the stage and the count of the nodes.                *)
LEMMA GotoIs ==
  ASSUME NEW k \in CallRecords, NEW node \in Nodes, NEW g, g = Goto(k, node)
  PROVE  /\ g \in CallRecords
         /\ g.stage \in {node, "exhausted"} /\ g.stage # "none"
         /\ g.segs = k.segs /\ g.cursor = k.cursor /\ g.made = k.made /\ g.boot = k.boot
<1>1. node \in Stages /\ node # "none" /\ "exhausted" \in Stages
  BY DEF Nodes, Stages
<1>2. k.steps + 1 \in Nat
  BY DEF CallRecords
<1>3. g = [k EXCEPT !.stage = node, !.steps = k.steps + 1] \/ g = [k EXCEPT !.stage = "exhausted"]
  BY DEF Goto
<1>4. QED
  BY <1>1, <1>2, <1>3, ZenonT(40) DEF CallRecords

(* A call that goes on to a node stays a typed call.                       *)
LEMMA GotoTyped ==
  ASSUME NEW k \in CallRecords, NEW node \in Nodes, NEW wk \in WorkOf(k),
         k.cursor <= Len(k.segs),
         node \in {"retrieve", "judge"} => wk.confirm = Confirm(k)
  PROVE  CallTyped(Goto(k, node), wk)
<1>1. PICK g : g = Goto(k, node)
  OBVIOUS
<1>2. /\ g \in CallRecords
      /\ g.stage \in {node, "exhausted"} /\ g.stage # "none"
      /\ g.segs = k.segs /\ g.cursor = k.cursor
  BY <1>1, GotoIs
<1>3. WorkOf(g) = WorkOf(k) /\ Confirm(g) = Confirm(k)
  BY <1>2 DEF WorkOf, Confirm, Window
<1>4. QED
  BY <1>1, <1>2, <1>3 DEF CallTyped

(* What a window confirms are shots of the video.                          *)
LEMMA ConfirmTyped ==
  ASSUME NEW k \in CallRecords, k.cursor <= Len(k.segs)
  PROVE  Confirm(k) \in Seq(1..Len(k.segs))
<1>1. PICK n \in Nat : /\ Confirm(k) = Shots(k.cursor, n)
                       /\ n <= Len(k.segs) - k.cursor
  BY ConfirmIs
<1>2. k.cursor \in Nat /\ Len(k.segs) \in Nat
  BY DEF CallRecords
<1>3. \A i \in 1..n : k.cursor + i \in 1..Len(k.segs)
  BY <1>1, <1>2
<1>4. Confirm(k) \in [1..n -> 1..Len(k.segs)]
  BY <1>1, <1>3 DEF Shots
<1>5. QED
  BY <1>4, SeqDef

(* What JUDGE makes of them is about them.                                 *)
LEMMA JudgeTyped ==
  ASSUME NEW k \in CallRecords, k.cursor <= Len(k.segs),
         NEW reply \in [1..Len(Confirm(k)) -> HolisticReplies]
  PROVE  Drafts(Confirm(k), reply) \in Seq([shot : 1..Len(k.segs), cat : Categories])
<1>1. PICK n \in Nat : /\ Confirm(k) = Shots(k.cursor, n)
                       /\ n <= Len(k.segs) - k.cursor
  BY ConfirmIs
<1>2. k.cursor \in Nat /\ Len(k.segs) \in Nat
  BY DEF CallRecords
<1>3. PICK D : D = Drafts(Confirm(k), reply)
  OBVIOUS
<1>4. Len(Confirm(k)) = n
  BY <1>1, <1>2 DEF Shots
<1>5. PICK S, T : /\ S = [shot : (k.cursor + 1)..(k.cursor + n), cat : Categories]
                  /\ T = [shot : 1..Len(k.segs), cat : Categories]
  OBVIOUS
<1>6. D \in Seq(S)
  BY <1>1, <1>2, <1>3, <1>4, <1>5, DraftsAre
<1>7. S \subseteq T
  BY <1>1, <1>2, <1>5
<1>8. D \in Seq(T)
  BY <1>6, <1>7, SeqMonotonic
<1>9. QED
  BY <1>3, <1>5, <1>8

(* A step of one call leaves the types of the others.                      *)
LEMMA OneCallTyped ==
  ASSUME TypeInv, NEW c \in Calls, NEW k, NEW wk, CallTyped(k, wk),
         call' = [call EXCEPT ![c] = k], work' = [work EXCEPT ![c] = wk],
         segments' \in Seq(Cut),
         labels' \subseteq [id : Ids, shot : Nat \ {0}, cat : Categories, cut : Cut],
         effects' \subseteq [id : Ids, shot : Nat \ {0}, kind : {"request", "attribute"}],
         status' \in {"pending", "ingested", "labelled"}
  PROVE  TypeInv'
<1>1. call' = [d \in Calls |-> call'[d]] /\ work' = [d \in Calls |-> work'[d]]
  BY DEF TypeInv
<1>2. ASSUME NEW d \in Calls PROVE CallTyped(call'[d], work'[d])
  <2>1. CASE d = c
    <3>1. call'[d] = k /\ work'[d] = wk
      BY <2>1 DEF TypeInv
    <3>2. QED
      BY <3>1
  <2>2. CASE d # c
    <3>1. call'[d] = call[d] /\ work'[d] = work[d]
      BY <2>2 DEF TypeInv
    <3>2. QED
      BY <3>1 DEF TypeInv
  <2>3. QED
    BY <2>1, <2>2
<1>3. \A d \in Calls : CallTyped(call[d], work[d])'
  BY <1>2 DEF CallTyped, WorkOf, CallRecords, Confirm, Window
<1>4. QED
  BY <1>1, <1>3 DEF TypeInv
(* Every action of a call keeps the types.                                 *)
LEMMA CallNextTyped ==
  ASSUME TypeInv, NEW c \in Calls, CallNext(c)
  PROVE  TypeInv'
<1>1. PICK k, wk : k = call[c] /\ wk = work[c]
  OBVIOUS
<1>2. /\ CallTyped(k, wk)
      /\ k \in CallRecords /\ wk \in WorkOf(k)
      /\ k.stage \in Nodes => k.cursor <= Len(k.segs)
      /\ k.stage \in {"retrieve", "judge"} => wk.confirm = Confirm(k)
  BY <1>1 DEF TypeInv, CallTyped
<1>3. UNCHANGED work => work' = [work EXCEPT ![c] = wk]
  BY <1>1 DEF TypeInv
<1>4. PICK S : S = 1..Len(k.segs)
  OBVIOUS
<1>t. PICK D, P : /\ D = [shot : S, cat : Categories]
                  /\ P = [shot : S, kind : {"request", "attribute"}]
  OBVIOUS
<1>5. WorkOf(k) = [confirm : Seq(S), drafts : Seq(D), proposals : Seq(P)]
  BY <1>4, <1>t DEF WorkOf
<1>6. S \subseteq Nat \ {0}
  BY <1>2, <1>4 DEF CallRecords
<1>7. ASSUME NEW boot \in Bootstrap, Start(c, boot) PROVE TypeInv'
  <2>1. PICK s : s = [NotStarted EXCEPT !.boot = boot, !.segs = segments]
    OBVIOUS
  <2>2. s \in CallRecords /\ s.cursor = 0 /\ 0 <= Len(s.segs)
    <3>1. s = [stage |-> "none", boot |-> boot, segs |-> segments, cursor |-> 0, steps |-> 0, made |-> 0]
      BY <2>1 DEF NotStarted
    <3>2. segments \in Seq(Cut) /\ Len(segments) \in Nat /\ boot \in BOOLEAN /\ "none" \in Stages
      BY ModelAssumption DEF TypeInv, Stages
    <3>3. QED
      BY <3>1, <3>2 DEF CallRecords
  <2>3. wk = NoWork
    BY <1>1, <1>2, <1>7 DEF CallTyped, Start
  <2>4. wk \in WorkOf(s)
    BY <2>3 DEF WorkOf, NoWork
  <2>5. CallTyped(Goto(s, "load"), wk)
    BY <2>2, <2>4, GotoTyped DEF Nodes
  <2>6. call' = [call EXCEPT ![c] = Goto(s, "load")] /\ UNCHANGED <<segments, labels, effects, status, work>>
    BY <1>7, <2>1 DEF Start
  <2>7. QED
    BY <1>3, <2>5, <2>6, OneCallTyped DEF TypeInv
<1>8. CASE Load(c)
  <2>1. k.cursor <= Len(k.segs)
    BY <1>1, <1>2, <1>8 DEF Load, Nodes
  <2>2. PICK w : w = [wk EXCEPT !.confirm = Confirm(k)]
    OBVIOUS
  <2>3. w \in WorkOf(k) /\ w.confirm = Confirm(k)
    <3>1. Confirm(k) \in Seq(S)
      BY <1>2, <1>4, <2>1, ConfirmTyped
    <3>2. wk \in [confirm : Seq(S), drafts : Seq(D), proposals : Seq(P)]
      BY <1>2, <1>5
    <3>3. w \in [confirm : Seq(S), drafts : Seq(D), proposals : Seq(P)] /\ w.confirm = Confirm(k)
      BY <2>2, <3>1, <3>2
    <3>4. QED
      BY <1>5, <3>3
  <2>4. CallTyped(Goto(k, "retrieve"), w)
    BY <1>2, <2>1, <2>3, GotoTyped DEF Nodes
  <2>5. /\ call' = [call EXCEPT ![c] = Goto(k, "retrieve")]
        /\ work' = [work EXCEPT ![c] = w]
        /\ UNCHANGED <<segments, labels, effects, status>>
    BY <1>1, <1>8, <2>2 DEF Load, TypeInv
  <2>6. QED
    BY <2>4, <2>5, OneCallTyped DEF TypeInv
<1>9. CASE Retrieve(c)
  <2>1. k.stage = "retrieve" /\ k.cursor <= Len(k.segs) /\ wk.confirm = Confirm(k)
    BY <1>1, <1>2, <1>9 DEF Retrieve, Nodes
  <2>2. CallTyped(Goto(k, "judge"), wk)
    BY <1>2, <2>1, GotoTyped DEF Nodes
  <2>3. call' = [call EXCEPT ![c] = Goto(k, "judge")] /\ UNCHANGED <<segments, labels, effects, status, work>>
    BY <1>1, <1>9 DEF Retrieve
  <2>4. QED
    BY <1>3, <2>2, <2>3, OneCallTyped DEF TypeInv
<1>10. CASE Judge(c)
  <2>1. k.stage = "judge" /\ k.cursor <= Len(k.segs) /\ wk.confirm = Confirm(k)
    BY <1>1, <1>2, <1>10 DEF Judge, Nodes
  <2>2. PICK reply \in [1..Len(Confirm(k)) -> HolisticReplies], asked \in Asked(Confirm(k), k.boot) :
          work' = [work EXCEPT ![c].drafts = Drafts(Confirm(k), reply),
                               ![c].proposals = Proposals(Confirm(k), asked)]
    BY <1>1, <1>10, <2>1 DEF Judge
  <2>3. PICK w : w = [wk EXCEPT !.drafts = Drafts(Confirm(k), reply),
                                !.proposals = Proposals(Confirm(k), asked)]
    OBVIOUS
  <2>4. w \in WorkOf(k) /\ w.confirm = wk.confirm
    <3>1. Drafts(Confirm(k), reply) \in Seq(D)
      BY <1>2, <1>4, <1>t, <2>1, JudgeTyped
    <3>2. Proposals(Confirm(k), asked) \in Seq(P)
      <4>1. Confirm(k) \in Seq(S)
        BY <1>2, <1>4, <2>1, ConfirmTyped
      <4>2. QED
        BY <1>t, <4>1, ProposalsAre
    <3>3. wk \in [confirm : Seq(S), drafts : Seq(D), proposals : Seq(P)]
      BY <1>2, <1>5
    <3>4. w \in [confirm : Seq(S), drafts : Seq(D), proposals : Seq(P)] /\ w.confirm = wk.confirm
      BY <2>3, <3>1, <3>2, <3>3
    <3>5. QED
      BY <1>5, <3>4
  <2>5. CallTyped(Goto(k, "side_fx"), w)
    BY <1>2, <2>1, <2>4, GotoTyped DEF Nodes
  <2>6. /\ call' = [call EXCEPT ![c] = Goto(k, "side_fx")]
        /\ UNCHANGED <<segments, labels, effects, status>>
    BY <1>1, <1>10 DEF Judge
  <2>7. work' = [work EXCEPT ![c] = w]
    BY <1>1, <2>2, <2>3 DEF TypeInv
  <2>8. QED
    BY <2>5, <2>6, <2>7, OneCallTyped DEF TypeInv
<1>11. ASSUME k.stage \in {"side_fx", "commit"}
       PROVE  /\ [k EXCEPT !.made = @ + 1] \in CallRecords
              /\ \A w \in WorkOf(k) : CallTyped([k EXCEPT !.made = @ + 1], w)
              /\ <<c, k.made>> \in Ids
  <2>1. PICK m : m = [k EXCEPT !.made = @ + 1]
    OBVIOUS
  <2>2. k.made \in Nat
    BY <1>2 DEF CallRecords
  <2>3. m \in CallRecords /\ m.stage = k.stage /\ m.segs = k.segs /\ m.cursor = k.cursor
    BY <1>2, <2>1, <2>2 DEF CallRecords
  <2>4. \A w \in WorkOf(k) : CallTyped(m, w)
    BY <1>2, <1>11, <2>3 DEF CallTyped, WorkOf, Nodes
  <2>5. QED
    BY <2>1, <2>2, <2>3, <2>4 DEF Ids
<1>12. CASE SideEffect(c)
  <2>1. PICK asked : asked = wk.proposals
    OBVIOUS
  <2>3. asked \in Seq(P) /\ asked # <<>> /\ k.stage = "side_fx"
    BY <1>1, <1>2, <1>5, <1>12, <2>1 DEF SideEffect
  <2>4. Head(asked) \in P /\ Tail(asked) \in Seq(P)
    BY <2>3, HeadTailProperties
  <2>5. PICK w : w = [wk EXCEPT !.proposals = Tail(asked)]
    OBVIOUS
  <2>6. w \in WorkOf(k)
    <3>1. wk \in [confirm : Seq(S), drafts : Seq(D), proposals : Seq(P)]
      BY <1>2, <1>5
    <3>2. w \in [confirm : Seq(S), drafts : Seq(D), proposals : Seq(P)]
      BY <2>4, <2>5, <3>1
    <3>3. QED
      BY <1>5, <3>2
  <2>7. CallTyped([k EXCEPT !.made = @ + 1], w) /\ <<c, k.made>> \in Ids
    BY <1>11, <2>3, <2>6
  <2>8. /\ call' = [call EXCEPT ![c] = [k EXCEPT !.made = @ + 1]]
        /\ work' = [work EXCEPT ![c] = w]
        /\ effects' = effects \cup {[id |-> <<c, k.made>>, shot |-> Head(asked).shot,
                                     kind |-> Head(asked).kind]}
        /\ UNCHANGED <<segments, labels, status>>
    BY <1>1, <1>12, <2>1, <2>5 DEF SideEffect, TypeInv
  <2>9. effects' \subseteq [id : Ids, shot : Nat \ {0}, kind : {"request", "attribute"}]
    <3>1. Head(asked).shot \in Nat \ {0} /\ Head(asked).kind \in {"request", "attribute"}
      BY <1>6, <1>t, <2>4
    <3>2. QED
      BY <2>7, <2>8, <3>1, SMTT(30) DEF TypeInv
  <2>10. QED
    BY <2>7, <2>8, <2>9, OneCallTyped DEF TypeInv
<1>13. CASE SideEffectsDone(c)
  <2>1. k.cursor <= Len(k.segs)
    BY <1>1, <1>2, <1>13 DEF SideEffectsDone, Nodes
  <2>2. CallTyped(Goto(k, "commit"), wk)
    BY <1>2, <2>1, GotoTyped DEF Nodes
  <2>3. call' = [call EXCEPT ![c] = Goto(k, "commit")] /\ UNCHANGED <<segments, labels, effects, status, work>>
    BY <1>1, <1>13 DEF SideEffectsDone
  <2>4. QED
    BY <1>3, <2>2, <2>3, OneCallTyped DEF TypeInv
<1>14. CASE EmitLabel(c)
  <2>1. PICK drafts : drafts = wk.drafts
    OBVIOUS
  <2>3. drafts \in Seq(D) /\ drafts # <<>> /\ k.stage = "commit"
    BY <1>1, <1>2, <1>5, <1>14, <2>1 DEF EmitLabel
  <2>4. Head(drafts) \in D /\ Tail(drafts) \in Seq(D)
    BY <2>3, HeadTailProperties
  <2>5. PICK w : w = [wk EXCEPT !.drafts = Tail(drafts)]
    OBVIOUS
  <2>6. w \in WorkOf(k)
    <3>1. wk \in [confirm : Seq(S), drafts : Seq(D), proposals : Seq(P)]
      BY <1>2, <1>5
    <3>2. w \in [confirm : Seq(S), drafts : Seq(D), proposals : Seq(P)]
      BY <2>4, <2>5, <3>1
    <3>3. QED
      BY <1>5, <3>2
  <2>7. CallTyped([k EXCEPT !.made = @ + 1], w) /\ <<c, k.made>> \in Ids
    BY <1>11, <2>3, <2>6
  <2>8. /\ call' = [call EXCEPT ![c] = [k EXCEPT !.made = @ + 1]]
        /\ work' = [work EXCEPT ![c] = w]
        /\ labels' = labels \cup {[id |-> <<c, k.made>>, shot |-> Head(drafts).shot,
                                   cat |-> Head(drafts).cat, cut |-> k.segs[Head(drafts).shot]]}
        /\ UNCHANGED <<segments, effects, status>>
    BY <1>1, <1>14, <2>1, <2>5 DEF EmitLabel, TypeInv
  <2>9. labels' \subseteq [id : Ids, shot : Nat \ {0}, cat : Categories, cut : Cut]
    <3>1. Head(drafts).shot \in S /\ Head(drafts).cat \in Categories
      BY <1>t, <2>4
    <3>2. k.segs[Head(drafts).shot] \in Cut
      BY <1>2, <1>4, <3>1, ElementOfSeq DEF CallRecords
    <3>3. PICK shot, cat, cut : shot = Head(drafts).shot /\ cat = Head(drafts).cat /\ cut = k.segs[shot]
      OBVIOUS
    <3>4. [id |-> <<c, k.made>>, shot |-> shot, cat |-> cat, cut |-> cut]
            \in [id : Ids, shot : Nat \ {0}, cat : Categories, cut : Cut]
      BY <1>6, <2>7, <3>1, <3>2, <3>3
    <3>5. QED
      BY <2>8, <3>3, <3>4 DEF TypeInv
  <2>10. QED
    BY <2>7, <2>8, <2>9, OneCallTyped DEF TypeInv
<1>15. CASE CommitDone(c)
  <2>1. PICK m : m = [k EXCEPT !.cursor = NextCursor(k)]
    OBVIOUS
  <2>2. m \in CallRecords /\ m.segs = k.segs
    <3>1. NextCursor(k) \in Nat
      BY <1>2, WindowAssumption DEF NextCursor, CallRecords
    <3>2. QED
      BY <1>2, <2>1, <3>1 DEF CallRecords
  <2>3. wk \in WorkOf(m)
    BY <1>2, <2>2 DEF WorkOf
  <2>4. UNCHANGED <<segments, labels, effects, status, work>>
    BY <1>15 DEF CommitDone
  <2>5. CASE m.cursor < Len(m.segs)
    <3>1. m.cursor <= Len(m.segs)
      BY <2>2, <2>5 DEF CallRecords
    <3>2. CallTyped(Goto(m, "load"), wk)
      BY <2>2, <2>3, <3>1, GotoTyped DEF Nodes
    <3>3. call' = [call EXCEPT ![c] = Goto(m, "load")]
      BY <1>1, <1>15, <2>1, <2>5 DEF CommitDone
    <3>4. QED
      BY <1>3, <2>4, <3>2, <3>3, OneCallTyped DEF TypeInv
  <2>6. CASE ~(m.cursor < Len(m.segs))
    <3>1. CallTyped([m EXCEPT !.stage = "status"], wk)
      BY <2>2, <2>3 DEF CallTyped, CallRecords, Stages, Nodes, WorkOf
    <3>2. call' = [call EXCEPT ![c] = [m EXCEPT !.stage = "status"]]
      BY <1>1, <1>15, <2>1, <2>6 DEF CommitDone
    <3>3. QED
      BY <1>3, <2>4, <3>1, <3>2, OneCallTyped DEF TypeInv
  <2>7. QED
    BY <2>5, <2>6
<1>16. \A stop \in {"ended", "failed"} : CallTyped([k EXCEPT !.stage = stop], wk)
  BY <1>2 DEF CallTyped, CallRecords, Stages, Nodes, WorkOf
<1>17. CASE Finish(c)
  <2>1. /\ call' = [call EXCEPT ![c] = [k EXCEPT !.stage = "ended"]]
        /\ status' = "labelled" /\ UNCHANGED <<segments, labels, effects, work>>
    BY <1>1, <1>17 DEF Finish, TypeInv
  <2>2. QED
    BY <1>3, <1>16, <2>1, OneCallTyped DEF TypeInv
<1>18. CASE Fail(c)
  <2>1. /\ call' = [call EXCEPT ![c] = [k EXCEPT !.stage = "failed"]]
        /\ UNCHANGED <<segments, labels, effects, status, work>>
    BY <1>1, <1>18 DEF Fail, TypeInv
  <2>2. QED
    BY <1>3, <1>16, <2>1, OneCallTyped DEF TypeInv
<1>19. QED
  BY <1>7, <1>8, <1>9, <1>10, <1>12, <1>13, <1>14, <1>15, <1>17, <1>18 DEF CallNext, Step

(* At the start nothing runs and nothing is stored.                        *)
LEMMA InitTyped == Init => TypeInv
<1>1. ASSUME Init PROVE TypeInv
  <2>1. CallTyped(NotStarted, NoWork)
    BY DEF CallTyped, NotStarted, NoWork, CallRecords, WorkOf, Stages, Nodes
  <2>2. QED
    BY <1>1, <2>1, RowsAssumption DEF Init, TypeInv
<1>2. QED
  BY <1>1

(* The invariant implies the types the run checks.                         *)
LEMMA TypeInvTypes == TypeInv => TypeOK
<1>1. ASSUME TypeInv PROVE TypeOK
  <2>1. call \in [Calls -> CallRecords]
    BY <1>1 DEF TypeInv, CallTyped
  <2>2. PICK W : W = [confirm : Seq(Nat \ {0}), drafts : Seq([shot : Nat \ {0}, cat : Categories]),
                      proposals : Seq([shot : Nat \ {0}, kind : {"request", "attribute"}])]
    OBVIOUS
  <2>3. ASSUME NEW c \in Calls PROVE work[c] \in W
    <3>1. PICK k, wk, S : k = call[c] /\ wk = work[c] /\ S = 1..Len(k.segs)
      OBVIOUS
    <3>2. /\ k \in CallRecords
          /\ wk \in [confirm   : Seq(S),
                     drafts    : Seq([shot : S, cat : Categories]),
                     proposals : Seq([shot : S, kind : {"request", "attribute"}])]
      BY <1>1, <3>1 DEF TypeInv, CallTyped, WorkOf
    <3>3. S \subseteq Nat \ {0}
      BY <3>1, <3>2 DEF CallRecords
    <3>4. PICK D, E, P, Q : /\ D = [shot : S, cat : Categories]
                            /\ E = [shot : Nat \ {0}, cat : Categories]
                            /\ P = [shot : S, kind : {"request", "attribute"}]
                            /\ Q = [shot : Nat \ {0}, kind : {"request", "attribute"}]
      OBVIOUS
    <3>5. D \subseteq E /\ P \subseteq Q
      BY <3>3, <3>4
    <3>6. wk.confirm \in Seq(S) /\ wk.drafts \in Seq(D) /\ wk.proposals \in Seq(P)
      BY <3>2, <3>4
    <3>7. wk.confirm \in Seq(Nat \ {0}) /\ wk.drafts \in Seq(E) /\ wk.proposals \in Seq(Q)
      BY <3>3, <3>5, <3>6, SeqMonotonic
    <3>8. wk = [confirm |-> wk.confirm, drafts |-> wk.drafts, proposals |-> wk.proposals]
      BY <3>2
    <3>9. QED
      BY <2>2, <3>1, <3>4, <3>7, <3>8
  <2>4. work \in [Calls -> W]
    BY <1>1, <2>3 DEF TypeInv
  <2>5. QED
    BY <1>1, <2>1, <2>2, <2>4 DEF TypeInv, TypeOK, CallRecords
<1>2. QED
  BY <1>1

(* The tables and the graph state keep their types, whatever the window    *)
(* and the stride: in particular no draft is about a shot outside the      *)
(* video the call has read (_load, _commit).                               *)
THEOREM LabellingTypes == Spec => []TypeOK
<1>1. TypeInv /\ [Next]_vars => TypeInv'
  <2>1. ASSUME TypeInv, UNCHANGED vars PROVE TypeInv'
    <3>1. call' = call /\ work' = work
      BY <2>1 DEF vars
    <3>2. \A c \in Calls : CallTyped(call'[c], work'[c])
      BY <2>1, <3>1 DEF TypeInv
    <3>3. \A c \in Calls : CallTyped(call[c], work[c])'
      BY <3>2 DEF CallTyped, WorkOf, CallRecords, Confirm, Window
    <3>4. QED
      BY <2>1, <3>3 DEF TypeInv, vars
  <2>2. QED
    BY <2>1, CallNextTyped DEF Next
<1>2. QED
  BY <1>1, InitTyped, TypeInvTypes, PTL DEF Spec

-----------------------------------------------------------------------------
Named(L, c, s, cat) == {l \in L : l.id[1] = c /\ l.shot = s /\ l.cat = cat}

Waiting(wk, s, cat) ==
  {i \in DOMAIN wk.drafts : wk.drafts[i].shot = s /\ wk.drafts[i].cat = cat}

IsOne(S) == \E x \in S : S = {x}

(* The labels N and the drafts W of a shot at hand.                        *)
AtHand(stage, N, W) ==
  /\ stage \in {"load", "retrieve", "judge"} => N = {}
  /\ stage \in {"side_fx", "commit"} => (IsOne(N) /\ W = {}) \/ (N = {} /\ IsOne(W))
  /\ N = {} \/ IsOne(N)

Placed(k, s, N, W) ==
  /\ s <= k.cursor => IsOne(N)
  /\ s > k.cursor + WindowStride => N = {}
  /\ s > k.cursor /\ s <= k.cursor + WindowStride => AtHand(k.stage, N, W)

CallOrder(c, k, wk, L) ==
  /\ \A l \in L : l.id[1] = c =>
       k.stage # "none" /\ l.shot \in DOMAIN k.segs /\ l.cut = k.segs[l.shot]
  /\ k.stage \in {"status", "ended"} => k.cursor >= Len(k.segs)
  /\ k.stage \in {"side_fx", "commit"} => \A i \in DOMAIN wk.drafts :
       wk.drafts[i].shot \in (k.cursor + 1)..(k.cursor + WindowStride)
  /\ \A cat \in Structured, s \in DOMAIN k.segs :
       Placed(k, s, Named(L, c, s, cat), Waiting(wk, s, cat))

OrderInv == \A c \in Calls : CallOrder(c, call[c], work[c], labels)

Orderly == WindowStride >= 1 /\ WindowStride <= WindowSize

(* A singleton is one; nothing is not.                                     *)
LEMMA OneOf == \A x : IsOne({x}) /\ ~IsOne({})
BY DEF IsOne

(* The order of a call speaks of its stage, cursor, segments and drafts    *)
(* only, and of its own labels.                                            *)
LEMMA OneCallOrdered ==
  ASSUME TypeInv, OrderInv, NEW c \in Calls, NEW k, NEW wk, CallOrder(c, k, wk, labels'),
         call' = [call EXCEPT ![c] = k], work' = [work EXCEPT ![c] = wk],
         \A l \in labels' : l \in labels \/ l.id[1] = c, labels \subseteq labels'
  PROVE  OrderInv'
<1>1. ASSUME NEW d \in Calls PROVE CallOrder(d, call'[d], work'[d], labels')
  <2>1. CASE d = c
    <3>1. call'[d] = k /\ work'[d] = wk
      BY <2>1 DEF TypeInv
    <3>2. QED
      BY <2>1, <3>1
  <2>2. CASE d # c
    <3>1. call'[d] = call[d] /\ work'[d] = work[d]
      BY <2>2 DEF TypeInv
    <3>2. CallOrder(d, call[d], work[d], labels)
      BY DEF OrderInv
    <3>3. \A cat, s : Named(labels', d, s, cat) = Named(labels, d, s, cat)
      BY <2>2 DEF Named
    <3>4. \A l \in labels' : l.id[1] = d => l \in labels
      BY <2>2
    <3>5. QED
      BY <3>1, <3>2, <3>3, <3>4 DEF CallOrder
  <2>3. QED
    BY <2>1, <2>2
<1>2. QED
  BY <1>1 DEF OrderInv, CallOrder, Placed, AtHand, Named, Waiting, IsOne

(* A step that adds no label and leaves the drafts alone keeps the order   *)
(* of a call whose stage says no less.                                     *)
LEMMA StageMoves ==
  ASSUME NEW c, NEW L, NEW k \in CallRecords, NEW w, NEW m \in CallRecords, NEW v,
         CallOrder(c, k, w, L), v.drafts = w.drafts,
         m.segs = k.segs, m.cursor = k.cursor, m.stage # "none",
         \/ m.stage \in {"failed", "exhausted"}
         \/ m.stage = k.stage
         \/ k.stage = "load" /\ m.stage = "retrieve"
         \/ k.stage = "retrieve" /\ m.stage = "judge"
         \/ k.stage = "side_fx" /\ m.stage = "commit"
         \/ k.stage = "status" /\ m.stage = "ended"
  PROVE  CallOrder(c, m, v, L)
<1>1. \A s, cat : Waiting(v, s, cat) = Waiting(w, s, cat)
  BY DEF Waiting
<1>2. \A l \in L : l.id[1] = c =>
        m.stage # "none" /\ l.shot \in DOMAIN m.segs /\ l.cut = m.segs[l.shot]
  BY DEF CallOrder
<1>3. /\ m.stage \in {"status", "ended"} => m.cursor >= Len(m.segs)
      /\ m.stage \in {"side_fx", "commit"} => \A i \in DOMAIN v.drafts :
           v.drafts[i].shot \in (m.cursor + 1)..(m.cursor + WindowStride)
  BY DEF CallOrder
<1>4. ASSUME NEW N, NEW W, AtHand(k.stage, N, W) PROVE AtHand(m.stage, N, W)
  BY <1>4 DEF AtHand
<1>5. ASSUME NEW s, NEW N, NEW W, Placed(k, s, N, W) PROVE Placed(m, s, N, W)
  BY <1>4, <1>5 DEF Placed
<1>6. \A cat \in Structured, s \in DOMAIN m.segs :
       Placed(m, s, Named(L, c, s, cat), Waiting(v, s, cat))
  BY <1>1, <1>5 DEF CallOrder
<1>7. QED
  BY <1>2, <1>3, <1>6 DEF CallOrder

(* A call that has just read the segments has no label yet.                *)
LEMMA StartOrdered ==
  ASSUME NEW c, NEW L, \A l \in L : l.id[1] # c,
         NEW k \in CallRecords, NEW w, w.drafts = <<>>, k.cursor = 0,
         k.stage \in {"load", "exhausted"}
  PROVE  CallOrder(c, k, w, L)
<1>1. \A s, cat : Named(L, c, s, cat) = {}
  BY DEF Named
<1>2. ASSUME NEW s \in DOMAIN k.segs, NEW W PROVE Placed(k, s, {}, W)
  <2>1. s \in Nat /\ s >= 1
    <3>1. DOMAIN k.segs = 1..Len(k.segs) /\ Len(k.segs) \in Nat
      BY LenProperties DEF CallRecords
    <3>2. QED
      BY <3>1
  <2>2. QED
    BY <2>1 DEF Placed, AtHand
<1>3. QED
  BY <1>1, <1>2 DEF CallOrder

(* JUDGE: what was missing in the window is drafted.                       *)
LEMMA JudgeOrdered ==
  ASSUME Orderly, NEW c, NEW L, NEW k \in CallRecords, NEW w, CallOrder(c, k, w, L),
         k.stage = "judge", k.cursor <= Len(k.segs),
         NEW reply \in [1..Len(Confirm(k)) -> HolisticReplies],
         NEW m \in CallRecords, m.segs = k.segs, m.cursor = k.cursor,
         m.stage \in {"side_fx", "exhausted"},
         NEW v, v.drafts = Drafts(Confirm(k), reply)
  PROVE  CallOrder(c, m, v, L)
<1>1. PICK n \in Nat : /\ Confirm(k) = Shots(k.cursor, n)
                       /\ n <= Len(k.segs) - k.cursor
                       /\ n <= WindowStride /\ (n = WindowStride \/ n = Len(k.segs) - k.cursor)
  BY ConfirmIs DEF Orderly
<1>2. k.cursor \in Nat /\ Len(k.segs) \in Nat /\ DOMAIN k.segs = 1..Len(k.segs)
      /\ WindowStride \in Nat
  BY WindowAssumption, LenProperties DEF CallRecords
<1>3. PICK D : D = v.drafts
  OBVIOUS
<1>4. PICK T : T = [shot : (k.cursor+1)..(k.cursor+n), cat : Categories]
  OBVIOUS
<1>5. /\ D \in Seq(T)
      /\ \A s \in (k.cursor+1)..(k.cursor+n), cat \in Structured :
           \E p \in DOMAIN D : \A q \in DOMAIN D :
             D[q].shot = s /\ D[q].cat = cat <=> q = p
  <2>1. Len(Confirm(k)) = n
    BY <1>1 DEF Shots
  <2>2. reply \in [1..n -> HolisticReplies] /\ D = Drafts(Shots(k.cursor, n), reply)
    BY <1>1, <1>3, <2>1
  <2>3. D \in Seq(T)
    BY <1>2, <1>4, <2>2, DraftsAre
  <2>4. EachOnce(D, (k.cursor+1)..(k.cursor+n))
    BY <1>2, <2>2, DraftsAre
  <2>5. QED
    BY <2>3, <2>4 DEF EachOnce
<1>6. \A i \in DOMAIN D : D[i].shot \in (m.cursor + 1)..(m.cursor + WindowStride)
  <2>1. ASSUME NEW i \in DOMAIN D PROVE D[i].shot \in (k.cursor + 1)..(k.cursor + WindowStride)
    <3>1. D[i] \in T
      BY <1>5, ElementOfSeq, LenProperties
    <3>2. D[i].shot \in (k.cursor+1)..(k.cursor+n)
      BY <1>4, <3>1
    <3>3. QED
      BY <1>1, <1>2, <3>2
  <2>2. QED
    BY <2>1
<1>7. ASSUME NEW cat \in Structured, NEW s \in DOMAIN k.segs
      PROVE  Placed(m, s, Named(L, c, s, cat), Waiting(v, s, cat))
  <2>1. PICK N, W : N = Named(L, c, s, cat) /\ W = Waiting(v, s, cat)
    OBVIOUS
  <2>2. Placed(k, s, N, Waiting(w, s, cat))
    BY <1>7, <2>1 DEF CallOrder
  <2>3. s \in Nat /\ s <= Len(k.segs)
    BY <1>2
  <2>4. CASE s > k.cursor /\ s <= k.cursor + WindowStride
    <3>1. N = {}
      BY <2>2, <2>4 DEF Placed, AtHand
    <3>2. s \in (k.cursor+1)..(k.cursor+n)
      BY <1>1, <1>2, <2>3, <2>4
    <3>3. PICK p \in DOMAIN D : \A q \in DOMAIN D :
                D[q].shot = s /\ D[q].cat = cat <=> q = p
      BY <1>5, <3>2
    <3>4. W = {p}
      BY <1>3, <2>1, <3>3 DEF Waiting
    <3>5. IsOne(W)
      BY <3>4, OneOf
    <3>6. QED
      BY <1>2, <2>1, <2>3, <2>4, <3>1, <3>5 DEF Placed, AtHand
  <2>5. CASE ~(s > k.cursor /\ s <= k.cursor + WindowStride)
    BY <1>2, <2>1, <2>2, <2>3, <2>5 DEF Placed
  <2>6. QED
    BY <2>4, <2>5
<1>8. \A l \in L : l.id[1] = c =>
        m.stage # "none" /\ l.shot \in DOMAIN m.segs /\ l.cut = m.segs[l.shot]
  BY DEF CallOrder
<1>9. QED
  BY <1>3, <1>6, <1>7, <1>8 DEF CallOrder

(* COMMIT: the first draft becomes a label.                                *)
LEMMA EmitOrdered ==
  ASSUME NEW c, NEW L, NEW k \in CallRecords, NEW w, CallOrder(c, k, w, L), k.stage = "commit",
         NEW T, w.drafts \in Seq(T), w.drafts # <<>>,
         NEW l, l.id[1] = c, l.shot = Head(w.drafts).shot, l.cat = Head(w.drafts).cat,
         l.shot \in DOMAIN k.segs, l.cut = k.segs[l.shot],
         NEW m \in CallRecords, m.segs = k.segs, m.cursor = k.cursor, m.stage = "commit",
         NEW v, v.drafts = Tail(w.drafts)
  PROVE  CallOrder(c, m, v, L \cup {l})
<1>1. PICK D, E, n : D = w.drafts /\ E = v.drafts /\ n = Len(E)
  OBVIOUS
<1>2. /\ n \in Nat /\ DOMAIN D = 1..(n + 1) /\ DOMAIN E = 1..n
      /\ D[1] = Head(D) /\ \A i \in 1..n : E[i] = D[i + 1]
  <2>1. D \in Seq(T) /\ D # <<>> /\ E = Tail(D)
    BY <1>1
  <2>2. /\ E \in Seq(T) /\ Len(E) = Len(D) - 1 /\ Head(D) = D[1]
        /\ \A i \in 1..Len(E) : E[i] = D[i + 1]
    BY <2>1, HeadTailProperties
  <2>3. Len(D) \in Nat /\ DOMAIN D = 1..Len(D) /\ Len(E) \in Nat /\ DOMAIN E = 1..Len(E)
    BY <2>1, <2>2, LenProperties
  <2>4. QED
    BY <1>1, <2>2, <2>3
<1>3. \A i \in DOMAIN E : E[i].shot \in (m.cursor + 1)..(m.cursor + WindowStride)
  <2>1. \A i \in 1..n : i + 1 \in 1..(n + 1)
    BY <1>2
  <2>2. QED
    BY <1>1, <1>2, <2>1 DEF CallOrder
<1>4. \A x \in L \cup {l} : x.id[1] = c =>
        m.stage # "none" /\ x.shot \in DOMAIN m.segs /\ x.cut = m.segs[x.shot]
  BY DEF CallOrder
<1>5. ASSUME NEW cat \in Structured, NEW s \in DOMAIN k.segs
      PROVE  Placed(m, s, Named(L \cup {l}, c, s, cat), Waiting(v, s, cat))
  <2>1. PICK N, W, M, V : /\ N = Named(L, c, s, cat) /\ W = Waiting(w, s, cat)
                          /\ M = Named(L \cup {l}, c, s, cat) /\ V = Waiting(v, s, cat)
    OBVIOUS
  <2>2. Placed(k, s, N, W)
    BY <2>1 DEF CallOrder
  <2>3. /\ W = {i \in 1..(n + 1) : D[i].shot = s /\ D[i].cat = cat}
        /\ V = {i \in 1..n : D[i + 1].shot = s /\ D[i + 1].cat = cat}
    BY <1>1, <1>2, <2>1 DEF Waiting
  <2>4. CASE l.shot = s /\ l.cat = cat
    <3>1. 1 \in W
      BY <1>1, <1>2, <2>3, <2>4
    <3>2. s \in (k.cursor + 1)..(k.cursor + WindowStride)
      BY <1>1, <1>2, <2>4 DEF CallOrder
    <3>3. k.cursor \in Nat /\ WindowStride \in Nat
      BY WindowAssumption DEF CallRecords
    <3>4. AtHand("commit", N, W)
      BY <2>2, <3>2, <3>3 DEF Placed
    <3>5. N = {} /\ IsOne(W)
      BY <3>1, <3>4 DEF AtHand
    <3>6. W = {1}
      BY <3>1, <3>5 DEF IsOne
    <3>7. V = {}
      <4>1. \A i \in 1..n : i + 1 \in 1..(n + 1) /\ i + 1 # 1
        BY <1>2
      <4>2. QED
        BY <2>3, <3>6, <4>1
    <3>8. M = {l}
      BY <2>1, <2>4, <3>5 DEF Named
    <3>9. IsOne(M)
      BY <3>8, OneOf
    <3>10. AtHand(m.stage, M, V)
      BY <3>7, <3>9 DEF AtHand
    <3>11. ~(s > m.cursor + WindowStride)
      BY <3>2, <3>3
    <3>12. QED
      BY <2>1, <3>9, <3>10, <3>11 DEF Placed
  <2>5. CASE ~(l.shot = s /\ l.cat = cat)
    <3>1. M = N
      BY <2>1, <2>5 DEF Named
    <3>2. 1 \notin W
      BY <1>1, <1>2, <2>3, <2>5
    <3>3. \A i \in 1..n : i \in V <=> i + 1 \in W
      <4>1. \A i \in 1..n : i + 1 \in 1..(n + 1)
        BY <1>2
      <4>2. QED
        BY <2>3, <4>1
    <3>4. \A i \in W : i - 1 \in V /\ (i - 1) + 1 = i
      <4>1. ASSUME NEW i \in W PROVE i - 1 \in V /\ (i - 1) + 1 = i
        <5>1. i \in 1..(n + 1) /\ i # 1
          BY <2>3, <3>2
        <5>2. i - 1 \in 1..n /\ (i - 1) + 1 = i
          BY <1>2, <5>1
        <5>3. QED
          BY <3>3, <5>2
      <4>2. QED
        BY <4>1
    <3>5. W = {} => V = {}
      BY <2>3, <3>3
    <3>6. IsOne(W) => IsOne(V)
      <4>1. SUFFICES ASSUME IsOne(W) PROVE IsOne(V)
        OBVIOUS
      <4>2. PICK i \in W : W = {i}
        BY <4>1 DEF IsOne
      <4>3. i - 1 \in V
        BY <3>4
      <4>4. ASSUME NEW j \in V PROVE j = i - 1
        <5>1. j \in 1..n /\ j + 1 \in W
          BY <2>3, <3>3
        <5>2. j + 1 = i
          BY <4>2, <5>1
        <5>3. QED
          BY <1>2, <5>1, <5>2
      <4>5. V = {i - 1}
        BY <4>3, <4>4
      <4>6. QED
        BY <4>5, OneOf
    <3>7. QED
      BY <2>1, <2>2, <3>1, <3>5, <3>6 DEF Placed, AtHand
  <2>6. QED
    BY <2>4, <2>5
<1>6. QED
  BY <1>1, <1>3, <1>4, <1>5 DEF CallOrder

(* The cursor passes over the window once nothing of it waits.             *)
LEMMA WindowOrdered ==
  ASSUME NEW c, NEW L, NEW k \in CallRecords, NEW w, CallOrder(c, k, w, L), k.stage = "commit",
         w.drafts = <<>>,
         NEW m \in CallRecords, m.segs = k.segs, m.cursor = NextCursor(k),
         \/ m.stage \in {"load", "exhausted"}
         \/ m.stage = "status" /\ m.cursor >= Len(m.segs)
  PROVE  CallOrder(c, m, w, L)
<1>1. k.cursor \in Nat /\ WindowStride \in Nat /\ Len(k.segs) \in Nat /\ DOMAIN k.segs = 1..Len(k.segs)
      /\ m.cursor = k.cursor + WindowStride
  BY WindowAssumption, LenProperties DEF CallRecords, NextCursor
<1>2. \A l \in L : l.id[1] = c =>
        m.stage # "none" /\ l.shot \in DOMAIN m.segs /\ l.cut = m.segs[l.shot]
  BY DEF CallOrder
<1>3. ASSUME NEW cat \in Structured, NEW s \in DOMAIN k.segs
      PROVE  Placed(m, s, Named(L, c, s, cat), Waiting(w, s, cat))
  <2>1. PICK N, W : N = Named(L, c, s, cat) /\ W = Waiting(w, s, cat)
    OBVIOUS
  <2>2. Placed(k, s, N, W)
    BY <2>1 DEF CallOrder
  <2>3. W = {}
    BY <2>1 DEF Waiting
  <2>4. s \in Nat
    BY <1>1
  <2>5. s <= m.cursor => IsOne(N)
    <3>1. ~IsOne(W)
      BY <2>3, OneOf
    <3>2. QED
      BY <1>1, <2>2, <2>4, <3>1 DEF Placed, AtHand
  <2>6. s > m.cursor => N = {}
    BY <1>1, <2>2, <2>4 DEF Placed
  <2>7. QED
    BY <1>1, <2>1, <2>3, <2>4, <2>5, <2>6 DEF Placed, AtHand
<1>4. QED
  BY <1>2, <1>3 DEF CallOrder

(* Every action of a call keeps the order.                                 *)
LEMMA CallNextOrdered ==
  ASSUME Orderly, TypeInv, OrderInv, NEW c \in Calls, CallNext(c)
  PROVE  OrderInv'
<1>1. PICK k, wk : k = call[c] /\ wk = work[c]
  OBVIOUS
<1>2. /\ CallOrder(c, k, wk, labels) /\ CallTyped(k, wk)
      /\ k \in CallRecords /\ wk \in WorkOf(k)
  BY <1>1 DEF TypeInv, OrderInv, CallTyped
<1>3. UNCHANGED work => work' = [work EXCEPT ![c] = wk]
  BY <1>1 DEF TypeInv
<1>4. ASSUME NEW boot \in Bootstrap, Start(c, boot) PROVE OrderInv'
  <2>1. PICK s, g : s = [NotStarted EXCEPT !.boot = boot, !.segs = segments] /\ g = Goto(s, "load")
    OBVIOUS
  <2>2. s \in CallRecords /\ s.cursor = 0
    <3>1. s = [stage |-> "none", boot |-> boot, segs |-> segments, cursor |-> 0, steps |-> 0, made |-> 0]
      BY <2>1 DEF NotStarted
    <3>2. segments \in Seq(Cut) /\ boot \in BOOLEAN /\ "none" \in Stages
      BY ModelAssumption DEF TypeInv, Stages
    <3>3. QED
      BY <3>1, <3>2 DEF CallRecords
  <2>3. g \in CallRecords /\ g.stage \in {"load", "exhausted"} /\ g.cursor = 0
    BY <2>1, <2>2, GotoIs, ZenonT(40) DEF Nodes
  <2>4. wk.drafts = <<>> /\ \A l \in labels : l.id[1] # c
    BY <1>1, <1>2, <1>4 DEF CallTyped, Start, NoWork, CallOrder
  <2>5. CallOrder(c, g, wk, labels)
    BY <2>3, <2>4, StartOrdered
  <2>6. call' = [call EXCEPT ![c] = g] /\ UNCHANGED <<segments, labels, effects, status, work>>
    BY <1>4, <2>1 DEF Start
  <2>7. QED
    BY <1>3, <2>5, <2>6, OneCallOrdered
<1>5. CASE Load(c)
  <2>1. PICK g, w : g = Goto(k, "retrieve") /\ w = [wk EXCEPT !.confirm = Confirm(k)]
    OBVIOUS
  <2>2. /\ g \in CallRecords /\ g.stage \in {"retrieve", "exhausted"}
        /\ g.segs = k.segs /\ g.cursor = k.cursor
    BY <1>2, <2>1, GotoIs DEF Nodes
  <2>3. k.stage = "load" /\ w.drafts = wk.drafts
    BY <1>1, <1>2, <1>5, <2>1 DEF Load, WorkOf
  <2>4. CallOrder(c, g, w, labels)
    BY <1>2, <2>2, <2>3, StageMoves
  <2>5. call' = [call EXCEPT ![c] = g] /\ work' = [work EXCEPT ![c] = w] /\ labels' = labels
    BY <1>1, <1>5, <2>1 DEF Load, TypeInv
  <2>6. QED
    BY <2>4, <2>5, OneCallOrdered
<1>6. CASE Retrieve(c)
  <2>1. PICK g : g = Goto(k, "judge")
    OBVIOUS
  <2>2. /\ g \in CallRecords /\ g.stage \in {"judge", "exhausted"}
        /\ g.segs = k.segs /\ g.cursor = k.cursor
    BY <1>2, <2>1, GotoIs DEF Nodes
  <2>3. k.stage = "retrieve"
    BY <1>1, <1>6 DEF Retrieve
  <2>4. CallOrder(c, g, wk, labels)
    BY <1>2, <2>2, <2>3, StageMoves
  <2>5. call' = [call EXCEPT ![c] = g] /\ work' = work /\ labels' = labels
    BY <1>1, <1>6, <2>1 DEF Retrieve
  <2>6. QED
    BY <1>3, <2>4, <2>5, OneCallOrdered
<1>7. CASE Judge(c)
  <2>1. k.stage = "judge" /\ k.cursor <= Len(k.segs) /\ wk.confirm = Confirm(k)
    BY <1>1, <1>2, <1>7 DEF Judge, Nodes, CallTyped
  <2>2. PICK reply \in [1..Len(Confirm(k)) -> HolisticReplies], asked \in Asked(Confirm(k), k.boot) :
          work' = [work EXCEPT ![c].drafts = Drafts(Confirm(k), reply),
                               ![c].proposals = Proposals(Confirm(k), asked)]
    BY <1>1, <1>7, <2>1 DEF Judge
  <2>3. PICK g, w : /\ g = Goto(k, "side_fx")
                    /\ w = [wk EXCEPT !.drafts = Drafts(Confirm(k), reply),
                                      !.proposals = Proposals(Confirm(k), asked)]
    OBVIOUS
  <2>4. /\ g \in CallRecords /\ g.stage \in {"side_fx", "exhausted"}
        /\ g.segs = k.segs /\ g.cursor = k.cursor
    BY <1>2, <2>3, GotoIs DEF Nodes
  <2>5. w.drafts = Drafts(Confirm(k), reply)
    BY <1>2, <2>3 DEF WorkOf
  <2>6. CallOrder(c, g, w, labels)
    BY <1>2, <2>1, <2>4, <2>5, JudgeOrdered
  <2>7. call' = [call EXCEPT ![c] = g] /\ labels' = labels
    BY <1>1, <1>7, <2>3 DEF Judge
  <2>8. work' = [work EXCEPT ![c] = w]
    BY <1>1, <2>2, <2>3 DEF TypeInv
  <2>9. QED
    BY <2>6, <2>7, <2>8, OneCallOrdered
<1>8. ASSUME NEW m, m = [k EXCEPT !.made = @ + 1]
      PROVE  /\ m \in CallRecords /\ m.segs = k.segs /\ m.cursor = k.cursor /\ m.stage = k.stage
  <2>1. k.made \in Nat
    BY <1>2 DEF CallRecords
  <2>2. QED
    BY <1>2, <1>8, <2>1 DEF CallRecords
<1>9. CASE SideEffect(c)
  <2>1. PICK m, w : m = [k EXCEPT !.made = @ + 1] /\ w = [wk EXCEPT !.proposals = Tail(wk.proposals)]
    OBVIOUS
  <2>2. m \in CallRecords /\ m.segs = k.segs /\ m.cursor = k.cursor /\ m.stage = k.stage
    BY <1>8, <2>1
  <2>3. w.drafts = wk.drafts /\ k.stage = "side_fx"
    BY <1>1, <1>2, <1>9, <2>1 DEF WorkOf, SideEffect
  <2>4. CallOrder(c, m, w, labels)
    BY <1>2, <2>2, <2>3, StageMoves
  <2>5. call' = [call EXCEPT ![c] = m] /\ work' = [work EXCEPT ![c] = w] /\ labels' = labels
    BY <1>1, <1>9, <2>1 DEF SideEffect, TypeInv
  <2>6. QED
    BY <2>4, <2>5, OneCallOrdered
<1>10. CASE SideEffectsDone(c)
  <2>1. PICK g : g = Goto(k, "commit")
    OBVIOUS
  <2>2. /\ g \in CallRecords /\ g.stage \in {"commit", "exhausted"}
        /\ g.segs = k.segs /\ g.cursor = k.cursor
    BY <1>2, <2>1, GotoIs DEF Nodes
  <2>3. k.stage = "side_fx"
    BY <1>1, <1>10 DEF SideEffectsDone
  <2>4. CallOrder(c, g, wk, labels)
    BY <1>2, <2>2, <2>3, StageMoves
  <2>5. call' = [call EXCEPT ![c] = g] /\ work' = work /\ labels' = labels
    BY <1>1, <1>10, <2>1 DEF SideEffectsDone
  <2>6. QED
    BY <1>3, <2>4, <2>5, OneCallOrdered
<1>11. CASE EmitLabel(c)
  <2>1. PICK drafts, d : drafts = wk.drafts /\ d = Head(drafts)
    OBVIOUS
  <2>2. PICK S, T : S = 1..Len(k.segs) /\ T = [shot : S, cat : Categories]
    OBVIOUS
  <2>3. drafts \in Seq(T) /\ drafts # <<>> /\ k.stage = "commit"
    BY <1>1, <1>2, <1>11, <2>1, <2>2 DEF EmitLabel, WorkOf
  <2>4. d \in T
    BY <2>1, <2>3, HeadTailProperties
  <2>5. PICK m, w, l : /\ m = [k EXCEPT !.made = @ + 1] /\ w = [wk EXCEPT !.drafts = Tail(drafts)]
                       /\ l = [id |-> <<c, k.made>>, shot |-> d.shot, cat |-> d.cat,
                               cut |-> k.segs[d.shot]]
    OBVIOUS
  <2>6. m \in CallRecords /\ m.segs = k.segs /\ m.cursor = k.cursor /\ m.stage = "commit"
    BY <1>8, <2>3, <2>5
  <2>7. w.drafts = Tail(wk.drafts)
    BY <1>2, <2>1, <2>5 DEF WorkOf
  <2>8. /\ l.id[1] = c /\ l.shot = Head(wk.drafts).shot /\ l.cat = Head(wk.drafts).cat
        /\ l.shot \in DOMAIN k.segs /\ l.cut = k.segs[l.shot]
    <3>1. d.shot \in DOMAIN k.segs
      BY <1>2, <2>2, <2>4, LenProperties DEF CallRecords
    <3>2. QED
      BY <2>1, <2>5, <3>1
  <2>9. CallOrder(c, m, w, labels \cup {l})
    BY <1>2, <2>1, <2>3, <2>6, <2>7, <2>8, EmitOrdered
  <2>10. call' = [call EXCEPT ![c] = m] /\ work' = [work EXCEPT ![c] = w] /\ labels' = labels \cup {l}
    BY <1>1, <1>11, <2>1, <2>5 DEF EmitLabel, TypeInv
  <2>11. CallOrder(c, m, w, labels')
    BY <2>9, <2>10
  <2>12. QED
    BY <2>8, <2>10, <2>11, OneCallOrdered
<1>12. CASE CommitDone(c)
  <2>1. PICK m : m = [k EXCEPT !.cursor = NextCursor(k)]
    OBVIOUS
  <2>2. m \in CallRecords /\ m.segs = k.segs /\ m.cursor = NextCursor(k)
    <3>1. NextCursor(k) \in Nat
      BY <1>2, WindowAssumption DEF NextCursor, CallRecords
    <3>2. QED
      BY <1>2, <2>1, <3>1 DEF CallRecords
  <2>3. PICK g : g = IF m.cursor < Len(m.segs) THEN Goto(m, "load") ELSE [m EXCEPT !.stage = "status"]
    OBVIOUS
  <2>4. /\ g \in CallRecords /\ g.segs = k.segs /\ g.cursor = NextCursor(k)
        /\ \/ g.stage \in {"load", "exhausted"}
           \/ g.stage = "status" /\ g.cursor >= Len(g.segs)
    <3>1. CASE m.cursor < Len(m.segs)
      BY <2>2, <2>3, <3>1, GotoIs DEF Nodes
    <3>2. CASE ~(m.cursor < Len(m.segs))
      <4>1. g = [m EXCEPT !.stage = "status"]
        BY <2>3, <3>2
      <4>2. /\ g \in CallRecords /\ g.segs = m.segs /\ g.cursor = m.cursor /\ g.stage = "status"
        BY <2>2, <4>1 DEF CallRecords, Stages
      <4>3. m.cursor >= Len(m.segs)
        BY <2>2, <3>2 DEF CallRecords
      <4>4. QED
        BY <2>2, <4>2, <4>3
    <3>3. QED
      BY <3>1, <3>2
  <2>5. wk.drafts = <<>> /\ k.stage = "commit"
    BY <1>1, <1>12 DEF CommitDone
  <2>6. CallOrder(c, g, wk, labels)
    BY <1>2, <2>4, <2>5, WindowOrdered
  <2>7. call' = [call EXCEPT ![c] = g] /\ work' = work /\ labels' = labels
    BY <1>1, <1>12, <2>1, <2>3 DEF CommitDone
  <2>8. QED
    BY <1>3, <2>6, <2>7, OneCallOrdered
<1>13. ASSUME NEW m, NEW stop, m = [k EXCEPT !.stage = stop],
              stop = "failed" \/ (stop = "ended" /\ k.stage = "status")
       PROVE  CallOrder(c, m, wk, labels)
  <2>1. /\ m \in CallRecords /\ m.segs = k.segs /\ m.cursor = k.cursor /\ m.stage = stop
    BY <1>2, <1>13 DEF CallRecords, Stages
  <2>2. QED
    BY <1>2, <1>13, <2>1, StageMoves
<1>14. CASE Finish(c)
  <2>1. PICK m : m = [k EXCEPT !.stage = "ended"]
    OBVIOUS
  <2>2. k.stage = "status"
    BY <1>1, <1>14 DEF Finish
  <2>3. CallOrder(c, m, wk, labels)
    BY <1>13, <2>1, <2>2
  <2>4. call' = [call EXCEPT ![c] = m] /\ work' = work /\ labels' = labels
    BY <1>1, <1>14, <2>1 DEF Finish, TypeInv
  <2>5. QED
    BY <1>3, <2>3, <2>4, OneCallOrdered
<1>15. CASE Fail(c)
  <2>1. PICK m, stop : m = [k EXCEPT !.stage = stop] /\ stop = "failed"
    OBVIOUS
  <2>2. CallOrder(c, m, wk, labels)
    BY <1>13, <2>1
  <2>3. call' = [call EXCEPT ![c] = m] /\ work' = work /\ labels' = labels
    BY <1>1, <1>15, <2>1 DEF Fail, TypeInv
  <2>4. QED
    BY <1>3, <2>2, <2>3, OneCallOrdered
<1>16. QED
  BY <1>4, <1>5, <1>6, <1>7, <1>9, <1>10, <1>11, <1>12, <1>14, <1>15 DEF CallNext, Step

(* At the start there is no label to be out of order.                      *)
LEMMA InitOrdered == Init => OrderInv
<1>1. ASSUME Init, NEW c \in Calls PROVE CallOrder(c, call[c], work[c], labels)
  <2>1. call[c] = NotStarted /\ work[c] = NoWork /\ labels = {}
    BY <1>1 DEF Init
  <2>2. CallOrder(c, NotStarted, NoWork, {})
    <3>1. NotStarted.segs = <<>> /\ NotStarted.stage = "none" /\ DOMAIN <<>> = {}
      BY DEF NotStarted
    <3>2. QED
      BY <3>1 DEF CallOrder
  <2>3. QED
    BY <2>1, <2>2
<1>2. QED
  BY <1>1 DEF OrderInv

(* None counts 0, one counts 1.                                            *)
LEMMA CountsOfOne ==
  /\ Cardinality({}) = 0
  /\ \A S : IsOne(S) => Cardinality(S) = 1
<1>1. ASSUME NEW S, IsOne(S) PROVE Cardinality(S) = 1
  <2>1. PICK x \in S : S = {x}
    BY <1>1 DEF IsOne
  <2>2. QED
    BY <2>1, FS_Singleton
<1>2. QED
  BY <1>1, FS_EmptySet

(* A call whose labels are in order has made as many as the run asks for.  *)
LEMMA OrderCounts == TypeInv /\ OrderInv => LabelsInOrder
<1>1. ASSUME TypeInv, OrderInv, NEW c \in Calls, NEW cat \in Structured,
             NEW s \in DOMAIN call[c].segs
      PROVE  /\ s <= call[c].cursor => Made(c, s, cat) = 1
             /\ s > call[c].cursor + WindowStride => Made(c, s, cat) = 0
             /\ s \in (call[c].cursor + 1)..(call[c].cursor + WindowStride) =>
                  IF call[c].stage \in {"side_fx", "commit"}
                  THEN Made(c, s, cat) + Drafted(c, s, cat) = 1
                  ELSE Made(c, s, cat) <= 1
  <2>1. PICK k, N, W : /\ k = call[c] /\ N = Named(labels, c, s, cat)
                       /\ W = Waiting(work[c], s, cat)
    OBVIOUS
  <2>2. Placed(k, s, N, W)
    BY <1>1, <2>1 DEF OrderInv, CallOrder
  <2>3. Made(c, s, cat) = Cardinality(N) /\ Drafted(c, s, cat) = Cardinality(W)
    BY <2>1 DEF Made, Drafted, Named, Waiting
  <2>4. k.cursor \in Nat /\ WindowStride \in Nat
    BY <1>1, <2>1, WindowAssumption DEF TypeInv, CallTyped, CallRecords
  <2>5. s <= k.cursor => Cardinality(N) = 1
    BY <2>2, CountsOfOne DEF Placed
  <2>6. s > k.cursor + WindowStride => Cardinality(N) = 0
    BY <2>2, CountsOfOne DEF Placed
  <2>7. ASSUME s \in (k.cursor + 1)..(k.cursor + WindowStride)
        PROVE  IF k.stage \in {"side_fx", "commit"} THEN Cardinality(N) + Cardinality(W) = 1
               ELSE Cardinality(N) <= 1
    <3>1. AtHand(k.stage, N, W)
      BY <2>2, <2>4, <2>7 DEF Placed
    <3>2. QED
      BY <3>1, CountsOfOne DEF AtHand
  <2>8. QED
    BY <2>1, <2>3, <2>5, <2>6, <2>7
<1>2. QED
  BY <1>1 DEF LabelsInOrder

(* However a call fails, and for any stride between 1 and the window, its  *)
(* structured labels are one for each shot before the cursor, none beyond  *)
(* the window, and what is missing there is drafted (_load, _commit).      *)
THEOREM LabellingInOrder ==
  ASSUME Orderly
  PROVE  Spec => []LabelsInOrder
<1>1. Init => TypeInv /\ OrderInv
  BY InitTyped, InitOrdered
<1>2. TypeInv /\ OrderInv /\ [Next]_vars => (TypeInv /\ OrderInv)'
  <2>1. ASSUME TypeInv, OrderInv, UNCHANGED vars PROVE TypeInv' /\ OrderInv'
    <3>1. call' = call /\ work' = work /\ labels' = labels
      BY <2>1 DEF vars
    <3>2. TypeInv'
      <4>1. \A c \in Calls : CallTyped(call'[c], work'[c])
        BY <2>1, <3>1 DEF TypeInv
      <4>2. \A c \in Calls : CallTyped(call[c], work[c])'
        BY <4>1 DEF CallTyped, WorkOf, CallRecords, Confirm, Window
      <4>3. QED
        BY <2>1, <4>2 DEF TypeInv, vars
    <3>3. \A c \in Calls : CallOrder(c, call'[c], work'[c], labels')
      BY <2>1, <3>1 DEF OrderInv
    <3>4. OrderInv'
      BY <3>3 DEF OrderInv, CallOrder, Placed, AtHand, Named, Waiting, IsOne
    <3>5. QED
      BY <3>2, <3>4
  <2>2. QED
    BY <2>1, CallNextTyped, CallNextOrdered DEF Next
<1>3. QED
  BY <1>1, <1>2, OrderCounts, PTL DEF Spec

(* A call that has ended has one label of its own for each shot it read,   *)
(* in each structured category, and it says which cut it judged.           *)
LEMMA EndedHasAll ==
  ASSUME TypeInv, OrderInv, NEW c \in Calls, call[c].stage \in {"status", "ended"},
         NEW s \in DOMAIN call[c].segs, NEW cat \in Structured
  PROVE  \E l \in labels : /\ l.id[1] = c /\ l.shot = s /\ l.cat = cat
                           /\ l.cut = call[c].segs[s]
<1>1. PICK k, N : k = call[c] /\ N = Named(labels, c, s, cat)
  OBVIOUS
<1>2. k \in CallRecords /\ k.cursor >= Len(k.segs)
  BY <1>1 DEF TypeInv, OrderInv, CallTyped, CallOrder
<1>3. s <= k.cursor
  <2>1. s \in 1..Len(k.segs) /\ Len(k.segs) \in Nat /\ k.cursor \in Nat
    BY <1>1, <1>2, LenProperties DEF CallRecords
  <2>2. QED
    BY <1>2, <2>1
<1>4. IsOne(N)
  BY <1>1, <1>3 DEF OrderInv, CallOrder, Placed
<1>5. PICK l \in labels : l.id[1] = c /\ l.shot = s /\ l.cat = cat
  BY <1>1, <1>4 DEF IsOne, Named
<1>6. QED
  BY <1>5 DEF OrderInv, CallOrder

=============================================================================
