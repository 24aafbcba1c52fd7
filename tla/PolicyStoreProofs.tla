--------------------------- MODULE PolicyStoreProofs ---------------------------
(***************************************************************************)
(* What holds of the policy store for every set of nodes, contents and     *)
(* threads and for every bound, however the sessions overlap.              *)
(*                                                                         *)
(* IInv is inductive.  HistoryDense alone is not: the version a session    *)
(* will write is computed from the row it read long before, so the         *)
(* invariant also says that what was read is still in the history.         *)
(*                                                                         *)
(* While writers do not overlap (LoneWriter) the store promises more, next *)
(* to any number of snapshotters and labellers: it implements the          *)
(* append-only log of VersionedStore.  With nobody else writing, what a    *)
(* session has read is still the row when it commits (SessionsCurrent),    *)
(* and no version is ahead of the row (NothingAhead).  So a commit of      *)
(* upsert_policy finds neither a conflict nor a snapshot and appends       *)
(* exactly what it was given, and one of update_structured_data changes    *)
(* row and snapshot alike.                                                 *)
(***************************************************************************)
EXTENDS PolicyStore, Sequences, SequenceTheorems, TLAPS

IInv == TypeOK /\ HistoryDense /\ PinsResolve /\ ReadsInHistory

USE BoundsAssumption, NoRowAssumption

(* In the initial state nothing is stored and no session is open.          *)
LEMMA InitIInv == Init => IInv
  <1> SUFFICES ASSUME Init PROVE IInv
    OBVIOUS
  <1>1. TypeOK
    BY DEF Init, TypeOK
  <1>2. HistoryDense
    BY DEF Init, HistoryDense
  <1>3. PinsResolve
    BY DEF Init, PinsResolve
  <1>4. ReadsInHistory
    BY DEF Init, ReadsInHistory
  <1> QED
    BY <1>1, <1>2, <1>3, <1>4 DEF IInv

-----------------------------------------------------------------------------
(* Each action keeps the types.                                            *)

(* get_policy at the start of an edit returns a row or nothing.            *)
LEMMA UpsertGetType ==
  ASSUME TypeOK, NEW w \in Writers, NEW n \in Nodes, NEW c \in Contents, UpsertGet(w, n, c)
  PROVE  TypeOK'
  <1>1. Fresh(c) \in Data
    BY DEF Fresh, Data
  <1>2. txn'[w] \in Txns
    BY <1>1 DEF UpsertGet, TypeOK, Txns
  <1> QED
    BY <1>2 DEF UpsertGet, TypeOK

(* The look-up of the next version returns a snapshot or nothing.          *)
LEMMA UpsertCheckType ==
  ASSUME TypeOK, ReadsInHistory, NEW w \in Writers, UpsertCheck(w)
  PROVE  TypeOK'
  <1>1. txn[w] \in Txns
    BY DEF UpsertCheck, TypeOK, Idle
  <1>2. NextVersion(txn[w].read) \in Versions
    BY <1>1 DEF UpsertCheck, ReadsInHistory, Idle
  <1>3. policy_versions[txn[w].node][NextVersion(txn[w].read)] \in Snaps \cup {NoRow}
    BY <1>1, <1>2 DEF TypeOK, Txns
  <1>4. txn'[w] \in Txns
    BY <1>1, <1>3 DEF UpsertCheck, TypeOK, Txns
  <1> QED
    BY <1>4 DEF UpsertCheck, TypeOK

(* What the flush writes is a row.                                         *)
LEMMA FlushedType ==
  ASSUME TypeOK, ReadsInHistory, NEW w \in Writers, txn[w].pc = "flush"
  PROVE  /\ txn[w] \in Txns
         /\ Flushed(txn[w]) \in Rows
         /\ Flushed(txn[w]).version = NextVersion(txn[w].read)
         /\ [text |-> txn[w].text, data |-> txn[w].data] \in Snaps
         /\ NextVersion(txn[w].read) \in Versions
  <1> DEFINE t == txn[w]
  <1>1. t \in Txns
    BY DEF TypeOK, Idle
  <1>2. NextVersion(t.read) \in Versions
    BY <1>1 DEF ReadsInHistory, Idle
  <1>3. CASE t.read = NoRow
    BY <1>1, <1>2, <1>3 DEF Flushed, NextVersion, Txns, Rows, Snaps
  <1>4. CASE t.read # NoRow
    <2>1. policies[t.node] \in Rows
      BY <1>1, <1>4 DEF ReadsInHistory, TypeOK, Txns, Idle
    <2>2. Column(t.text, t.read.text, policies[t.node].text) \in Contents
      BY <1>1, <2>1 DEF Column, Txns, Rows
    <2>3. Column(t.data, t.read.data, policies[t.node].data) \in Data
      BY <1>1, <2>1 DEF Column, Txns, Rows
    <2> QED
      BY <1>1, <1>2, <1>4, <2>2, <2>3 DEF Flushed, Txns, Rows, Snaps
  <1> QED
    BY <1>3, <1>4

(* The commit of an edit stores one row and at most one snapshot.          *)
LEMMA UpsertCommitType ==
  ASSUME TypeOK, ReadsInHistory, NEW w \in Writers, UpsertCommit(w)
  PROVE  TypeOK'
  <1>1. txn[w].pc = "flush"
    BY DEF UpsertCommit
  <1>2. policies' \in [Nodes -> Rows \cup {NoRow}]
    BY <1>1, FlushedType DEF UpsertCommit, TypeOK
  <1>3. policy_versions' \in [Nodes -> [Versions -> Snaps \cup {NoRow}]]
    BY <1>1, FlushedType DEF UpsertCommit, TypeOK
  <1> QED
    BY <1>2, <1>3 DEF UpsertCommit, TypeOK

(* A translation starts from the row it has read.                          *)
LEMMA TranslateReadType ==
  ASSUME TypeOK, NEW w \in Writers, NEW n \in Nodes, TranslateRead(w, n)
  PROVE  TypeOK'
  <1>1. policies[n] \in Rows
    BY DEF TranslateRead, TypeOK
  <1>2. [src |-> policies[n].data.src, stamp |-> policies[n].version] \in Data
    BY <1>1 DEF Rows, Data, Versions
  <1>3. txn'[w] \in Txns
    BY <1>1, <1>2 DEF TranslateRead, TypeOK, Txns, Rows
  <1> QED
    BY <1>3 DEF TranslateRead, TypeOK

(* An in-place update finds a row.                                         *)
LEMMA UpdateGetType ==
  ASSUME TypeOK, NEW w \in Writers, UpdateGet(w)
  PROVE  TypeOK'
  <1>1. txn[w] \in Txns
    BY DEF UpdateGet, TypeOK, Idle
  <1>2. policies[txn[w].node] \in Rows
    BY <1>1 DEF UpdateGet, TypeOK, Txns
  <1>3. txn'[w] \in Txns
    BY <1>1, <1>2 DEF UpdateGet, TypeOK, Txns
  <1> QED
    BY <1>3 DEF UpdateGet, TypeOK

(* Its look-up in the history finds a snapshot or nothing.                 *)
LEMMA UpdateCheckType ==
  ASSUME TypeOK, ReadsInHistory, NEW w \in Writers, UpdateCheck(w)
  PROVE  TypeOK'
  <1>1. txn[w] \in Txns
    BY DEF UpdateCheck, TypeOK, Idle
  <1>2. txn[w].read \in Rows
    BY <1>1 DEF UpdateCheck, ReadsInHistory, Txns, Idle
  <1>3. policy_versions[txn[w].node][txn[w].read.version] \in Snaps \cup {NoRow}
    BY <1>1, <1>2 DEF TypeOK, Txns, Rows
  <1>4. txn'[w] \in Txns
    BY <1>1, <1>3 DEF UpdateCheck, TypeOK, Txns
  <1> QED
    BY <1>4 DEF UpdateCheck, TypeOK

(* What an in-place update finds in the two tables.                        *)
LEMMA UpdateFacts ==
  ASSUME TypeOK, HistoryDense, ReadsInHistory, NEW w \in Writers, txn[w].pc = "update"
  PROVE  /\ txn[w] \in Txns
         /\ policies[txn[w].node] \in Rows
         /\ txn[w].read \in Rows
         /\ policy_versions[txn[w].node][txn[w].read.version] \in Snaps
  <1>1. txn[w] \in Txns
    BY DEF TypeOK, Idle
  <1>2. txn[w].read \in Rows
    BY <1>1 DEF ReadsInHistory, Txns, Idle
  <1>3. policies[txn[w].node] \in Rows
    BY <1>1, <1>2 DEF ReadsInHistory, TypeOK, Txns, Idle
  <1>4. policy_versions[txn[w].node][txn[w].read.version] \in Snaps
    BY <1>1, <1>2 DEF ReadsInHistory, TypeOK, Txns, Rows, Idle
  <1> QED
    BY <1>1, <1>2, <1>3, <1>4

(* The commit of an in-place update rewrites both in place.                *)
LEMMA UpdateCommitType ==
  ASSUME TypeOK, HistoryDense, ReadsInHistory, NEW w \in Writers, UpdateCommit(w)
  PROVE  TypeOK'
  <1> DEFINE t == txn[w]
             n == t.node
             v == t.read.version
  <1>1. /\ t \in Txns
        /\ policies[n] \in Rows
        /\ t.read \in Rows
        /\ policy_versions[n][v] \in Snaps
    BY UpdateFacts DEF UpdateCommit
  <1>2. Column(t.data, t.read.data, policies[n].data) \in Data
    BY <1>1 DEF Column, Txns, Rows
  <1>3. [policies[n] EXCEPT !.data = Column(t.data, t.read.data, policies[n].data)] \in Rows
    BY <1>1, <1>2 DEF Rows
  <1>4. policies' \in [Nodes -> Rows \cup {NoRow}]
    BY <1>1, <1>3 DEF UpdateCommit, TypeOK, Txns
  <1>5. policy_versions' \in [Nodes -> [Versions -> Snaps \cup {NoRow}]]
    <2>1. CASE t.seen = NoRow
      BY <2>1 DEF UpdateCommit, TypeOK
    <2>2. CASE t.seen # NoRow
      <3>1. t.seen \in Snaps
        BY <1>1, <2>2 DEF Txns
      <3>2. Column(t.data, t.seen.data, policy_versions[n][v].data) \in Data
        BY <1>1, <3>1 DEF Column, Txns, Snaps
      <3>3. [policy_versions[n][v] EXCEPT
               !.data = Column(t.data, t.seen.data, policy_versions[n][v].data)] \in Snaps
        BY <1>1, <3>2 DEF Snaps
      <3> QED
        BY <1>1, <2>2, <3>3 DEF UpdateCommit, TypeOK, Txns, Rows
    <2> QED
      BY <2>1, <2>2
  <1> QED
    BY <1>4, <1>5 DEF UpdateCommit, TypeOK

(* So every step of a writer keeps the types.                              *)
LEMMA WriterType ==
  ASSUME TypeOK, HistoryDense, ReadsInHistory, NEW w \in Writers, WriterNext(w)
  PROVE  TypeOK'
  <1>1. ASSUME NEW n \in Nodes, NEW c \in Contents, UpsertGet(w, n, c) PROVE TypeOK'
    BY <1>1, UpsertGetType
  <1>2. CASE UpsertCheck(w)
    BY <1>2, UpsertCheckType
  <1>3. CASE UpsertCommit(w)
    BY <1>3, UpsertCommitType
  <1>4. CASE UpsertConflict(w)
    BY <1>4 DEF UpsertConflict, TypeOK
  <1>5. ASSUME NEW n \in Nodes, TranslateRead(w, n) PROVE TypeOK'
    BY <1>5, TranslateReadType
  <1>6. CASE UpdateGet(w)
    BY <1>6, UpdateGetType
  <1>7. CASE UpdateCommit(w)
    BY <1>7, UpdateCommitType
  <1>8. CASE Abort(w)
    BY <1>8 DEF Abort, TypeOK
  <1>9. CASE UpdateCheck(w)
    BY <1>9, UpdateCheckType
  <1> QED
    BY <1>1, <1>2, <1>3, <1>4, <1>5, <1>6, <1>7, <1>8, <1>9 DEF WriterNext

(* A snapshotter's session holds a number and a map of versions.           *)
LEMMA SnapType ==
  ASSUME TypeOK, ReadsInHistory, NEW k \in Snapshotters, SnapNext(k)
  PROVE  TypeOK'
  <1>1. CASE SnapLast(k)
    <2>1. snap'[k] \in SnapTxns
      BY <1>1 DEF SnapLast, TypeOK, SnapTxns, SetMaps
    <2> QED
      BY <1>1, <2>1 DEF SnapLast, TypeOK
  <1>2. CASE SnapActive(k)
    <2>1. snap[k] \in SnapTxns
      BY <1>2 DEF SnapActive, TypeOK, Idle
    <2>2. [n \in Nodes |-> IF policies[n] = NoRow THEN 0 ELSE policies[n].version] \in SetMaps
      BY DEF TypeOK, SetMaps, Rows, Versions
    <2>3. snap'[k] \in SnapTxns
      BY <1>2, <2>1, <2>2 DEF SnapActive, TypeOK, SnapTxns
    <2> QED
      BY <1>2, <2>3 DEF SnapActive, TypeOK
  <1>3. CASE SnapInsert(k)
    <2>1. snap[k] \in SnapTxns
      BY <1>3 DEF SnapInsert, TypeOK, Idle
    <2>2. policy_sets' \in [1..MaxSets -> SetMaps \cup {NoRow}]
      BY <1>3, <2>1 DEF SnapInsert, TypeOK, SnapTxns
    <2> QED
      BY <1>3, <2>2 DEF SnapInsert, TypeOK
  <1> QED
    BY <1>1, <1>2, <1>3 DEF SnapNext

(* A label's citation pins versions of rows.                               *)
LEMMA CiteType ==
  ASSUME TypeOK, NEW n \in Nodes, Cite(n)
  PROVE  TypeOK'
  <1>1. policies[n] \in Rows
    BY DEF Cite, TypeOK
  <1>2. pins' \in SUBSET Pins
    BY <1>1 DEF Cite, TypeOK, Pins, Rows, Data
  <1> QED
    BY <1>2 DEF Cite, TypeOK

-----------------------------------------------------------------------------
(* What is stored stays stored.                                            *)

Grows ==
  /\ \A n \in Nodes : policies[n] # NoRow => policies'[n] # NoRow
  /\ \A n \in Nodes, v \in Versions : policy_versions[n][v] # NoRow =>
       /\ policy_versions'[n][v] # NoRow
       /\ policy_versions'[n][v].text = policy_versions[n][v].text

(* A commit inserts the version above one that is in the history, and      *)
(* makes the current row one of a version in the history.                  *)
LEMMA CommitGrows ==
  ASSUME IInv, NEW w \in Writers, UpsertCommit(w)
  PROVE  /\ Grows
         /\ LET t == txn[w]
                 v == NextVersion(t.read)
            IN  /\ policies'[t.node] # NoRow
                /\ policies'[t.node].version = v
                /\ policy_versions'[t.node][v] # NoRow
                /\ \A m \in Nodes : m # t.node => /\ policies'[m] = policies[m]
                                                  /\ policy_versions'[m] = policy_versions[m]
                /\ \A u \in Versions : u # v =>
                     policy_versions'[t.node][u] = policy_versions[t.node][u]
  <1> DEFINE t == txn[w]
             v == NextVersion(t.read)
  <1>1. /\ t.pc = "flush"
        /\ t \in Txns
        /\ t.node \in Nodes
        /\ Flushed(t) \in Rows
        /\ Flushed(t).version = v
        /\ [text |-> t.text, data |-> t.data] \in Snaps
        /\ v \in Versions
    BY FlushedType DEF UpsertCommit, IInv, Txns
  <1>2. /\ policies' = [policies EXCEPT ![t.node] = Flushed(t)]
        /\ policies'[t.node] = Flushed(t)
        /\ Flushed(t) # NoRow
        /\ \A m \in Nodes : m # t.node => policies'[m] = policies[m]
    BY <1>1 DEF UpsertCommit, IInv, TypeOK
  <1>3. CASE t.seen # NoRow
    <2>1. policy_versions' = policy_versions
      BY <1>3 DEF UpsertCommit
    <2>2. policy_versions[t.node][v] # NoRow
      BY <1>1, <1>3 DEF IInv, ReadsInHistory, Idle
    <2> QED
      BY <1>1, <1>2, <2>1, <2>2 DEF Grows
  <1>4. CASE t.seen = NoRow
    <2>1. policy_versions' =
            [policy_versions EXCEPT ![t.node][v] = [text |-> t.text, data |-> t.data]]
      BY <1>4 DEF UpsertCommit
    <2>2. policy_versions[t.node][v] = NoRow
      BY <1>4 DEF UpsertCommit, Conflict
    <2>3. /\ policy_versions'[t.node][v] # NoRow
          /\ \A u \in Versions : u # v =>
               policy_versions'[t.node][u] = policy_versions[t.node][u]
          /\ \A m \in Nodes : m # t.node => policy_versions'[m] = policy_versions[m]
      BY <1>1, <2>1 DEF IInv, TypeOK
    <2>4. Grows
      BY <1>1, <1>2, <2>2, <2>3 DEF Grows
    <2> QED
      BY <1>1, <1>2, <2>3, <2>4
  <1> QED
    BY <1>3, <1>4

(* An in-place update adds no version and removes none.                    *)
LEMMA UpdateKeeps ==
  ASSUME IInv, NEW w \in Writers, UpdateCommit(w)
  PROVE  /\ Grows
         /\ \A n \in Nodes : policies[n] = NoRow => policies'[n] = NoRow
         /\ \A n \in Nodes : policies[n] # NoRow => policies'[n].version = policies[n].version
         /\ \A n \in Nodes, v \in Versions : policy_versions[n][v] = NoRow =>
              policy_versions'[n][v] = NoRow
  <1> DEFINE t == txn[w]
             n == t.node
             v == t.read.version
             row == [policies[n] EXCEPT !.data = Column(t.data, t.read.data, @)]
             shot == [policy_versions[n][v] EXCEPT !.data = Column(t.data, t.seen.data, @)]
  <1>1. /\ t \in Txns /\ n \in Nodes
        /\ policies[n] \in Rows
        /\ t.read \in Rows /\ v \in Versions
        /\ policy_versions[n][v] \in Snaps
    BY UpdateFacts DEF UpdateCommit, IInv, Txns, Rows
  <1>2. /\ row.version = policies[n].version
        /\ row \in Rows
    <2>1. Column(t.data, t.read.data, policies[n].data) \in Data
      BY <1>1 DEF Column, Txns, Rows
    <2> QED
      BY <1>1, <2>1 DEF Rows
  <1>3. /\ policies'[n] = row
        /\ \A m \in Nodes : m # n => policies'[m] = policies[m]
    BY <1>1 DEF UpdateCommit, IInv, TypeOK
  <1>4. /\ \A m \in Nodes : policies[m] # NoRow =>
             policies'[m] # NoRow /\ policies'[m].version = policies[m].version
        /\ \A m \in Nodes : policies[m] = NoRow => policies'[m] = NoRow
    BY <1>1, <1>2, <1>3
  <1>5. \A m \in Nodes, u \in Versions :
          /\ policy_versions[m][u] # NoRow =>
               /\ policy_versions'[m][u] # NoRow
               /\ policy_versions'[m][u].text = policy_versions[m][u].text
          /\ policy_versions[m][u] = NoRow => policy_versions'[m][u] = NoRow
    <2>1. CASE t.seen = NoRow
      BY <2>1 DEF UpdateCommit
    <2>2. CASE t.seen # NoRow
      <3>1. shot.text = policy_versions[n][v].text /\ shot # NoRow
        <4>1. t.seen \in Snaps
          BY <1>1, <2>2 DEF Txns
        <4>2. Column(t.data, t.seen.data, policy_versions[n][v].data) \in Data
          BY <1>1, <4>1 DEF Column, Txns, Snaps
        <4>3. shot \in Snaps
          BY <1>1, <4>2 DEF Snaps
        <4> QED
          BY <1>1, <4>3 DEF Snaps
      <3>2. policy_versions' = [policy_versions EXCEPT ![n][v] = shot]
        BY <2>2 DEF UpdateCommit
      <3>3. /\ policy_versions'[n][v] = shot
            /\ \A u \in Versions : u # v => policy_versions'[n][u] = policy_versions[n][u]
            /\ \A m \in Nodes : m # n => policy_versions'[m] = policy_versions[m]
        BY <1>1, <3>2 DEF IInv, TypeOK
      <3> QED
        BY <1>1, <3>1, <3>3
    <2> QED
      BY <2>1, <2>2
  <1> QED
    BY <1>4, <1>5 DEF Grows

(* Every other step leaves both tables alone.                              *)
LEMMA OthersQuiet ==
  ASSUME [Next]_vars, \A w \in Writers : ~UpsertCommit(w) /\ ~UpdateCommit(w)
  PROVE  UNCHANGED <<policies, policy_versions>>
  BY DEF Next, WriterNext, SnapNext, vars, UpsertGet, UpsertCheck, UpsertConflict,
         TranslateRead, UpdateGet, UpdateCheck, Abort, SnapLast, SnapActive, SnapInsert, Cite

(* No step takes a version out of the history or a row off the table.      *)
LEMMA StepGrows ==
  ASSUME IInv, [Next]_vars
  PROVE  Grows
  <1>1. ASSUME NEW w \in Writers, UpsertCommit(w) PROVE Grows
    BY <1>1, CommitGrows
  <1>2. ASSUME NEW w \in Writers, UpdateCommit(w) PROVE Grows
    BY <1>2, UpdateKeeps
  <1>3. CASE \A w \in Writers : ~UpsertCommit(w) /\ ~UpdateCommit(w)
    BY <1>3, OthersQuiet DEF Grows
  <1> QED
    BY <1>1, <1>2, <1>3

(* A commit adds the version that follows the one it read.                 *)
LEMMA StepHistoryDense ==
  ASSUME IInv, [Next]_vars
  PROVE  HistoryDense'
  <1>1. ASSUME NEW w \in Writers, UpsertCommit(w) PROVE HistoryDense'
    <2> DEFINE t == txn[w]
               top == NextVersion(t.read)
    <2>1. /\ t \in Txns /\ t.node \in Nodes
          /\ top \in Versions
          /\ t.read # NoRow => policy_versions[t.node][t.read.version] # NoRow
          /\ t.read # NoRow => t.read.version \in Versions /\ top = t.read.version + 1
          /\ t.read = NoRow => top = 1
      <3>1. t.pc = "flush" /\ t # Idle
        BY <1>1 DEF UpsertCommit, Idle
      <3>2. t \in Txns /\ top \in Versions
        BY <3>1, FlushedType DEF IInv
      <3>3. t.read # NoRow => policy_versions[t.node][t.read.version] # NoRow
        BY <3>1 DEF IInv, ReadsInHistory
      <3>4. /\ t.node \in Nodes
            /\ t.read # NoRow => t.read.version \in Versions /\ top = t.read.version + 1
            /\ t.read = NoRow => top = 1
        BY <3>2 DEF Txns, Rows, NextVersion
      <3> QED
        BY <3>2, <3>3, <3>4
    <2>2. SUFFICES ASSUME NEW n \in Nodes
                   PROVE  /\ \A v \in Versions, u \in Versions :
                               u < v /\ policy_versions'[n][v] # NoRow =>
                                 policy_versions'[n][u] # NoRow
                          /\ policies'[n] # NoRow =>
                               policy_versions'[n][policies'[n].version] # NoRow
      BY DEF HistoryDense
    <2>3. CASE n # t.node
      BY <1>1, <2>3, CommitGrows DEF IInv, HistoryDense
    <2>4. CASE n = t.node
      <3>1. ASSUME NEW v \in Versions, NEW u \in Versions, u < v,
                   policy_versions'[n][v] # NoRow
            PROVE  policy_versions'[n][u] # NoRow
        <4>1. CASE v # top
          <5>1. policy_versions[n][v] # NoRow
            BY <1>1, <2>4, <3>1, <4>1, CommitGrows
          <5>2. policy_versions[n][u] # NoRow
            BY <3>1, <5>1 DEF IInv, HistoryDense
          <5> QED
            BY <1>1, <5>2, CommitGrows DEF Grows
        <4>2. CASE v = top
          <5>1. t.read # NoRow /\ (u = t.read.version \/ u < t.read.version)
            BY <2>1, <3>1, <4>2 DEF Versions
          <5>2. policy_versions[n][u] # NoRow
            BY <2>1, <2>4, <5>1 DEF IInv, HistoryDense
          <5> QED
            BY <1>1, <5>2, CommitGrows DEF Grows
        <4> QED
          BY <4>1, <4>2
      <3>2. policy_versions'[n][policies'[n].version] # NoRow
        BY <1>1, <2>4, CommitGrows
      <3> QED
        BY <3>1, <3>2
    <2> QED
      BY <2>3, <2>4
  <1>2. ASSUME NEW w \in Writers, UpdateCommit(w) PROVE HistoryDense'
    <2>1. \A n \in Nodes : policies[n] # NoRow => policies[n].version \in Versions
      BY DEF IInv, TypeOK, Rows
    <2> QED
      BY <1>2, <2>1, UpdateKeeps DEF IInv, HistoryDense, Grows
  <1>3. CASE \A w \in Writers : ~UpsertCommit(w) /\ ~UpdateCommit(w)
    BY <1>3, OthersQuiet DEF IInv, HistoryDense
  <1> QED
    BY <1>1, <1>2, <1>3

(* Citing a node, or tagging it, names a version that history has.         *)
LEMMA StepPinsResolve ==
  ASSUME IInv, [Next]_vars
  PROVE  PinsResolve'
  <1>0. Grows
    BY StepGrows
  <1> DEFINE Known(n, v) == v \in Versions /\ policy_versions'[n][v] # NoRow
  <1>1. \A p \in pins : p \in Pins /\ Known(p.node, p.version)
    BY <1>0 DEF IInv, TypeOK, PinsResolve, Pins, Grows
  <1>2. \A i \in 1..MaxSets : policy_sets[i] # NoRow =>
          \A n \in Nodes : policy_sets[i][n] # 0 => Known(n, policy_sets[i][n])
    BY <1>0 DEF IInv, TypeOK, PinsResolve, SetMaps, Versions, Grows
  <1>3. ASSUME NEW n \in Nodes, Cite(n) PROVE PinsResolve'
    <2>1. policies[n] \in Rows /\ policy_versions[n][policies[n].version] # NoRow
      BY <1>3 DEF Cite, IInv, TypeOK, HistoryDense
    <2>2. \A p \in pins' : policy_versions'[p.node][p.version] # NoRow
      BY <1>1, <1>3, <2>1 DEF Cite
    <2> QED
      BY <1>2, <1>3, <2>2 DEF Cite, PinsResolve
  <1>4. ASSUME NEW k \in Snapshotters, SnapInsert(k) PROVE PinsResolve'
    <2> DEFINE j == snap[k].last + 1
    <2>1. snap[k] \in SnapTxns /\ j \in 1..MaxSets
      BY <1>4 DEF SnapInsert, IInv, TypeOK, ReadsInHistory, SnapTxns, Idle
    <2>2. \A n \in Nodes : snap[k].active[n] # 0 => Known(n, snap[k].active[n])
      BY <1>0, <1>4, <2>1 DEF SnapInsert, IInv, ReadsInHistory, SnapTxns, SetMaps, Versions, Grows, Idle
    <2>3. \A i \in 1..MaxSets : policy_sets'[i] = policy_sets[i] \/ policy_sets'[i] = snap[k].active
      BY <1>4, <2>1 DEF SnapInsert, IInv, TypeOK
    <2>4. \A i \in 1..MaxSets : policy_sets'[i] # NoRow =>
            \A n \in Nodes : policy_sets'[i][n] # 0 => Known(n, policy_sets'[i][n])
      BY <1>2, <2>2, <2>3
    <2>5. pins' = pins
      BY <1>4 DEF SnapInsert
    <2> QED
      BY <1>1, <2>4, <2>5 DEF PinsResolve
  <1>5. CASE UNCHANGED <<policy_sets, pins>>
    BY <1>1, <1>2, <1>5 DEF PinsResolve
  <1>6. \/ \E n \in Nodes : Cite(n)
        \/ \E k \in Snapshotters : SnapInsert(k)
        \/ UNCHANGED <<policy_sets, pins>>
    BY DEF Next, WriterNext, SnapNext, vars, UpsertGet, UpsertCheck, UpsertCommit,
           UpsertConflict, TranslateRead, UpdateGet, UpdateCheck, UpdateCommit, Abort, SnapLast, SnapActive
  <1> QED
    BY <1>3, <1>4, <1>5, <1>6

(* A session that has not just read or checked keeps what it knows,        *)
(* because the tables only grow.                                           *)
LEMMA StepReadsInHistory ==
  ASSUME IInv, [Next]_vars
  PROVE  ReadsInHistory'
  <1> DEFINE OpenTxn(t) ==
               /\ t.read # NoRow => /\ policies[t.node] # NoRow
                                   /\ policy_versions[t.node][t.read.version] # NoRow
               /\ t.pc \in {"embed", "flush"} => NextVersion(t.read) \in Versions
               /\ t.pc = "flush" /\ t.seen # NoRow =>
                    policy_versions[t.node][NextVersion(t.read)] # NoRow
               /\ t.pc \in {"llm", "sync", "update"} => t.read # NoRow
             OpenSnap(k) ==
               /\ snap[k].last < MaxSets
               /\ \A n \in Nodes : snap[k].active[n] # 0 =>
                    policy_versions[n][snap[k].active[n]] # NoRow
  <1>0. Grows
    BY StepGrows
  <1>1. ASSUME NEW w \in Writers, txn'[w] # Idle
        PROVE  OpenTxn(txn[w])'
    <2>1. CASE txn'[w] = txn[w]
      <3>1. txn[w] \in Txns
        BY <1>1, <2>1 DEF IInv, TypeOK
      <3>2. OpenTxn(txn[w])
        BY <1>1, <2>1 DEF IInv, ReadsInHistory
      <3>3. /\ txn[w].node \in Nodes
            /\ txn[w].read # NoRow => txn[w].read.version \in Versions
        BY <3>1 DEF Txns, Rows
      <3> QED
        BY <1>0, <2>1, <3>2, <3>3 DEF Grows, NextVersion
    <2>2. ASSUME NEW n \in Nodes, NEW c \in Contents, UpsertGet(w, n, c)
          PROVE  OpenTxn(txn[w])'
      <3>1. /\ txn'[w].pc = "embed" /\ txn'[w].node = n /\ txn'[w].read = policies[n]
            /\ policies' = policies /\ policy_versions' = policy_versions
        BY <2>2 DEF UpsertGet, IInv, TypeOK
      <3>2. NextVersion(policies[n]) \in Versions
        BY <2>2 DEF UpsertGet, NextVersion, IInv, TypeOK, Rows, Versions
      <3>3. policies[n] # NoRow => policy_versions[n][policies[n].version] # NoRow
        BY DEF IInv, HistoryDense
      <3> QED
        BY <3>1, <3>2, <3>3
    <2>3. CASE UpsertCheck(w)
      <3>1. txn[w] \in Txns /\ txn[w] # Idle /\ txn[w].pc = "embed"
        BY <2>3 DEF UpsertCheck, IInv, TypeOK, Idle
      <3>2. /\ txn'[w] = [txn[w] EXCEPT !.pc = "flush",
                    !.seen = policy_versions[txn[w].node][NextVersion(txn[w].read)]]
            /\ policies' = policies /\ policy_versions' = policy_versions
        BY <2>3 DEF UpsertCheck, IInv, TypeOK
      <3>3. /\ txn'[w].pc = "flush" /\ txn'[w].node = txn[w].node /\ txn'[w].read = txn[w].read
            /\ txn'[w].seen = policy_versions[txn[w].node][NextVersion(txn[w].read)]
        BY <3>1, <3>2 DEF Txns
      <3>4. OpenTxn(txn[w])
        BY <3>1 DEF IInv, ReadsInHistory
      <3> QED
        BY <3>1, <3>2, <3>3, <3>4
    <2>4. ASSUME NEW n \in Nodes, TranslateRead(w, n)
          PROVE  OpenTxn(txn[w])'
      <3>1. /\ txn'[w].pc = "llm" /\ txn'[w].node = n /\ txn'[w].read = policies[n]
            /\ policies[n] # NoRow
            /\ policies' = policies /\ policy_versions' = policy_versions
        BY <2>4 DEF TranslateRead, IInv, TypeOK
      <3>2. policy_versions[n][policies[n].version] # NoRow
        BY <3>1 DEF IInv, HistoryDense
      <3> QED
        BY <3>1, <3>2
    <2>5. CASE UpdateGet(w)
      <3> DEFINE n == txn[w].node
      <3>1. txn[w] \in Txns /\ n \in Nodes
        BY <2>5 DEF UpdateGet, IInv, TypeOK, Txns, Idle
      <3>2. /\ txn'[w] = [txn[w] EXCEPT !.pc = "sync", !.read = policies[n]]
            /\ policies[n] # NoRow
            /\ policies' = policies /\ policy_versions' = policy_versions
        BY <2>5 DEF UpdateGet, IInv, TypeOK
      <3>3. /\ txn'[w].pc = "sync" /\ txn'[w].node = n /\ txn'[w].read = policies[n]
        BY <3>1, <3>2 DEF Txns
      <3>4. policy_versions[n][policies[n].version] # NoRow
        BY <3>1, <3>2 DEF IInv, HistoryDense
      <3> QED
        BY <3>2, <3>3, <3>4
    <2>6. CASE UpdateCheck(w)
      <3>1. txn[w] \in Txns /\ txn[w] # Idle /\ txn[w].pc = "sync"
        BY <2>6 DEF UpdateCheck, IInv, TypeOK, Idle
      <3>2. /\ txn'[w] = [txn[w] EXCEPT !.pc = "update",
                            !.seen = policy_versions[txn[w].node][txn[w].read.version]]
            /\ policies' = policies /\ policy_versions' = policy_versions
        BY <2>6 DEF UpdateCheck, IInv, TypeOK
      <3>3. txn'[w].pc = "update" /\ txn'[w].node = txn[w].node /\ txn'[w].read = txn[w].read
        BY <3>1, <3>2 DEF Txns
      <3>4. OpenTxn(txn[w])
        BY <3>1 DEF IInv, ReadsInHistory
      <3> QED
        BY <3>1, <3>2, <3>3, <3>4
    <2>7. \/ txn'[w] = txn[w]
          \/ \E n \in Nodes, c \in Contents : UpsertGet(w, n, c)
          \/ UpsertCheck(w)
          \/ \E n \in Nodes : TranslateRead(w, n)
          \/ UpdateGet(w)
          \/ UpdateCheck(w)
      <3>1. ASSUME NEW x \in Writers, WriterNext(x), x # w
            PROVE  txn'[w] = txn[w]
        BY <3>1 DEF WriterNext, UpsertGet, UpsertCheck, UpsertCommit, UpsertConflict,
                    TranslateRead, UpdateGet, UpdateCheck, UpdateCommit, Abort, IInv, TypeOK
      <3>2. CASE WriterNext(w)
        <4>1. ~UpsertCommit(w) /\ ~UpsertConflict(w) /\ ~UpdateCommit(w) /\ ~Abort(w)
          BY <1>1 DEF UpsertCommit, UpsertConflict, UpdateCommit, Abort, IInv, TypeOK
        <4> QED
          BY <3>2, <4>1 DEF WriterNext
      <3>3. ASSUME NEW k \in Snapshotters, SnapNext(k) PROVE txn'[w] = txn[w]
        BY <3>3 DEF SnapNext, SnapLast, SnapActive, SnapInsert
      <3>4. ASSUME NEW n \in Nodes, Cite(n) PROVE txn'[w] = txn[w]
        BY <3>4 DEF Cite
      <3> QED
        BY <3>1, <3>2, <3>3, <3>4 DEF Next, vars
    <2> QED
      BY <2>1, <2>2, <2>3, <2>4, <2>5, <2>6, <2>7
  <1>2. ASSUME NEW k \in Snapshotters, snap'[k] # Idle
        PROVE  OpenSnap(k)'
    <2>1. CASE snap'[k] = snap[k]
      <3>1. snap[k] \in SnapTxns /\ OpenSnap(k)
        BY <1>2, <2>1 DEF IInv, TypeOK, ReadsInHistory
      <3>2. \A n \in Nodes : snap[k].active[n] # 0 => snap[k].active[n] \in Versions
        BY <3>1 DEF SnapTxns, SetMaps, Versions
      <3> QED
        BY <1>0, <2>1, <3>1, <3>2 DEF Grows
    <2>2. CASE SnapLast(k)
      <3>1. PICK i \in 0..(MaxSets - 1) :
              snap'[k] = [pc |-> "active", last |-> i, active |-> [n \in Nodes |-> 0]]
        BY <2>2 DEF SnapLast, IInv, TypeOK
      <3> QED
        BY <3>1
    <2>3. CASE SnapActive(k)
      <3>1. snap[k] \in SnapTxns /\ snap[k] # Idle
        BY <2>3 DEF SnapActive, IInv, TypeOK, Idle
      <3>2. snap'[k] = [snap[k] EXCEPT !.pc = "insert",
                          !.active = [n \in Nodes |-> IF policies[n] = NoRow THEN 0
                                                      ELSE policies[n].version]]
        BY <2>3 DEF SnapActive, IInv, TypeOK
      <3>3. /\ snap'[k].last = snap[k].last
            /\ snap'[k].active = [n \in Nodes |-> IF policies[n] = NoRow THEN 0
                                                 ELSE policies[n].version]
        BY <3>1, <3>2 DEF SnapTxns
      <3>4. snap[k].last < MaxSets
        BY <3>1 DEF IInv, ReadsInHistory
      <3>5. policy_versions' = policy_versions
        BY <2>3 DEF SnapActive
      <3> QED
        BY <3>3, <3>4, <3>5 DEF IInv, HistoryDense
    <2>4. snap'[k] = snap[k] \/ SnapLast(k) \/ SnapActive(k)
      <3>1. ASSUME NEW x \in Snapshotters, SnapNext(x), x # k PROVE snap'[k] = snap[k]
        BY <3>1 DEF SnapNext, SnapLast, SnapActive, SnapInsert, IInv, TypeOK
      <3>2. ~SnapInsert(k)
        BY <1>2 DEF SnapInsert, IInv, TypeOK
      <3>3. ASSUME NEW w \in Writers, WriterNext(w) PROVE snap'[k] = snap[k]
        BY <3>3 DEF WriterNext, UpsertGet, UpsertCheck, UpsertCommit, UpsertConflict,
                    TranslateRead, UpdateGet, UpdateCheck, UpdateCommit, Abort
      <3>4. ASSUME NEW n \in Nodes, Cite(n) PROVE snap'[k] = snap[k]
        BY <3>4 DEF Cite
      <3> QED
        BY <3>1, <3>2, <3>3, <3>4 DEF Next, SnapNext, vars
    <2> QED
      BY <2>1, <2>2, <2>3, <2>4
  <1> QED
    BY <1>1, <1>2 DEF ReadsInHistory

(* Every step of the store keeps every type.                               *)
LEMMA StepTypeOK ==
  ASSUME IInv, [Next]_vars
  PROVE  TypeOK'
  <1>1. ASSUME NEW w \in Writers, WriterNext(w) PROVE TypeOK'
    BY <1>1, WriterType DEF IInv
  <1>2. ASSUME NEW k \in Snapshotters, SnapNext(k) PROVE TypeOK'
    BY <1>2, SnapType DEF IInv
  <1>3. ASSUME NEW n \in Nodes, Cite(n) PROVE TypeOK'
    BY <1>3, CiteType DEF IInv
  <1>4. CASE UNCHANGED vars
    BY <1>4 DEF IInv, TypeOK, vars
  <1> QED
    BY <1>1, <1>2, <1>3, <1>4 DEF Next

-----------------------------------------------------------------------------
(* The invariant, which carries every theorem below.                       *)
THEOREM Inductive == Spec => []IInv
  <1>1. IInv /\ [Next]_vars => IInv'
    BY StepTypeOK, StepHistoryDense, StepPinsResolve, StepReadsInHistory DEF IInv
  <1> QED
    BY InitIInv, <1>1, PTL DEF Spec

(* Every variable keeps its type (policy_store.py, db/models.py).          *)
THEOREM StoreTypes == Spec => []TypeOK
  BY Inductive, PTL DEF IInv

(* The history of a node has no holes and contains its current version,
   however many upsert_policy calls overlap.                               *)
THEOREM StoreHistoryDense == Spec => []HistoryDense
  BY Inductive, PTL DEF IInv

(* Whatever overlaps, a version that a label cites or a policy set names is
   in policy_versions: resolve_policy never falls back to the current row. *)
THEOREM StorePinsResolve == Spec => []PinsResolve
  BY Inductive, PTL DEF IInv

(* No step of any session rewrites the text of a snapshot or loses one.    *)
THEOREM StoreHistoryTextFrozen == Spec => HistoryTextFrozen
  <1>1. IInv /\ [Next]_vars =>
          [\A n \in Nodes, v \in Versions : policy_versions[n][v] # NoRow =>
             /\ policy_versions'[n][v] # NoRow
             /\ policy_versions'[n][v].text = policy_versions[n][v].text]_vars
    BY StepGrows DEF Grows
  <1> QED
    BY Inductive, <1>1, PTL DEF Spec, HistoryTextFrozen

-----------------------------------------------------------------------------
(* One writer at a time.                                                   *)
LoneWriter == \A v, w \in Writers : v = w

(* The version the row of a node has, 0 when there is none.                *)
Current(n) == IF policies[n] = NoRow THEN 0 ELSE policies[n].version

SessionsCurrent ==
  \A w \in Writers :
    LET t == txn[w]
    IN  /\ t.pc \in {"embed", "flush"} => t.read = policies[t.node] /\ t.data = Fresh(t.text)
        /\ t.pc = "flush" => t.seen = policy_versions[t.node][NextVersion(t.read)]
        /\ t.pc \in {"llm", "sync", "update"} =>
             policies[t.node] # NoRow /\ t.data.src = policies[t.node].data.src
        /\ t.pc \in {"sync", "update"} => t.read = policies[t.node]
        /\ t.pc = "update" => t.seen = policy_versions[t.node][t.read.version]

NothingAhead ==
  \A n \in Nodes, v \in Versions :
    policy_versions[n][v] # NoRow => policies[n] # NoRow /\ v <= policies[n].version

PinsSame ==
  \A p \in pins :
    LET h == policy_versions[p.node][p.version]
    IN  h.text = p.text /\ h.data.src = p.src

(* Policy sets are numbered without a hole, no set names a version that is *)
(* not there yet, and a set about to be inserted is not older than the one *)
(* it was numbered after.                                                  *)
SetsGrow ==
  /\ \A i, j \in 1..MaxSets : i < j /\ policy_sets[j] # NoRow => policy_sets[i] # NoRow
  /\ \A i \in 1..MaxSets, n \in Nodes : policy_sets[i] # NoRow => policy_sets[i][n] <= Current(n)
  /\ \A k \in Snapshotters :
       /\ snap[k] # Idle /\ snap[k].last > 0 => policy_sets[snap[k].last] # NoRow
       /\ snap[k].pc = "insert" => \A n \in Nodes :
            /\ snap[k].active[n] <= Current(n)
            /\ snap[k].last > 0 => policy_sets[snap[k].last][n] <= snap[k].active[n]

RowsInv == SessionsCurrent /\ NothingAhead /\ RowInHistory /\ PinsSame

(* In the initial state nothing is stored and nobody is at work.           *)
LEMMA InitSerial == Init => RowsInv /\ SetsGrow
  <1> SUFFICES ASSUME Init PROVE RowsInv /\ SetsGrow
    OBVIOUS
  <1>1. SessionsCurrent
    BY DEF Init, SessionsCurrent, Idle
  <1>2. NothingAhead /\ RowInHistory /\ PinsSame
    BY DEF Init, NothingAhead, RowInHistory, PinsSame
  <1>3. SetsGrow
    BY DEF Init, SetsGrow, Idle
  <1> QED
    BY <1>1, <1>2, <1>3 DEF RowsInv

(* The commit of an edit appends the version after the row's, with what    *)
(* the author wrote, and no other version changes.                         *)
LEMMA EditAppends ==
  ASSUME IInv, RowsInv, NEW w \in Writers, UpsertCommit(w)
  PROVE  LET n == txn[w].node
             v == NextVersion(policies[n])
             c == txn[w].text
         IN  /\ n \in Nodes /\ v \in Versions /\ c \in Contents
             /\ policies' = [policies EXCEPT ![n] =
                               [version |-> v, text |-> c, data |-> Fresh(c)]]
             /\ policy_versions' = [policy_versions EXCEPT ![n][v] =
                                      [text |-> c, data |-> Fresh(c)]]
             /\ policy_versions[n][v] = NoRow
  <1> DEFINE t == txn[w]
             n == t.node
             v == NextVersion(policies[n])
  <1>1. /\ t.pc = "flush"
        /\ t \in Txns
        /\ n \in Nodes
        /\ t.text \in Contents
        /\ NextVersion(t.read) \in Versions
    BY FlushedType DEF UpsertCommit, IInv, Txns
  <1>2. /\ t.read = policies[n]
        /\ t.data = Fresh(t.text)
        /\ t.seen = policy_versions[n][v]
    BY <1>1 DEF RowsInv, SessionsCurrent
  <1>3. policy_versions[n][v] = NoRow
    <2>1. ASSUME policy_versions[n][v] # NoRow PROVE FALSE
      <3>1. policies[n] # NoRow /\ v <= policies[n].version
        BY <1>1, <1>2, <2>1 DEF RowsInv, NothingAhead
      <3>2. policies[n] \in Rows
        BY <1>1, <3>1 DEF IInv, TypeOK
      <3> QED
        BY <3>1, <3>2 DEF NextVersion, Rows, Versions
    <2> QED
      BY <2>1
  <1>4. Flushed(t) = [version |-> v, text |-> t.text, data |-> Fresh(t.text)]
    <2>1. CASE t.read = NoRow
      BY <1>2, <2>1 DEF Flushed, NextVersion
    <2>2. CASE t.read # NoRow
      BY <1>2, <2>2 DEF Flushed, Column
    <2> QED
      BY <2>1, <2>2
  <1>5. /\ policies' = [policies EXCEPT ![n] = Flushed(t)]
        /\ policy_versions' = [policy_versions EXCEPT ![n][v] = [text |-> t.text, data |-> t.data]]
    BY <1>2, <1>3 DEF UpsertCommit
  <1> QED
    BY <1>1, <1>2, <1>3, <1>4, <1>5

(* The commit of a translation stamps the row and its snapshot alike, and  *)
(* leaves the English of both.                                             *)
LEMMA StampAgrees ==
  ASSUME IInv, RowsInv, NEW w \in Writers, UpdateCommit(w)
  PROVE  LET n == txn[w].node
             v == policies[n].version
             d == txn[w].data
         IN  /\ n \in Nodes /\ v \in Versions /\ d \in Data
             /\ policies[n] \in Rows /\ policy_versions[n][v] \in Snaps
             /\ d.src = policies[n].data.src
             /\ d.src = policy_versions[n][v].data.src
             /\ policies' = [policies EXCEPT ![n].data = d]
             /\ policy_versions' = [policy_versions EXCEPT ![n][v].data = d]
  <1> DEFINE t == txn[w]
             n == t.node
             v == policies[n].version
  <1>1. /\ t.pc = "update"
        /\ t \in Txns
        /\ policies[n] \in Rows
        /\ policy_versions[n][t.read.version] \in Snaps
    BY UpdateFacts DEF UpdateCommit, IInv
  <1>2. n \in Nodes /\ t.data \in Data /\ v \in Versions
    BY <1>1 DEF Txns, Rows
  <1>3. /\ t.read = policies[n]
        /\ t.seen = policy_versions[n][v]
        /\ t.data.src = policies[n].data.src
    BY <1>1 DEF RowsInv, SessionsCurrent
  <1>4. policies[n] # NoRow /\ t.seen # NoRow
    BY <1>1, <1>3
  <1>5. policy_versions[n][v].data = policies[n].data
    BY <1>2, <1>4 DEF RowsInv, RowInHistory
  <1>6. policies' = [policies EXCEPT ![n].data = t.data]
    <2>1. Column(t.data, t.read.data, policies[n].data) = t.data
      BY <1>3 DEF Column
    <2>2. policies' = [policies EXCEPT ![n].data = Column(t.data, t.read.data, policies[n].data)]
      BY <1>2 DEF UpdateCommit, IInv, TypeOK
    <2> QED
      BY <2>1, <2>2
  <1>7. policy_versions' = [policy_versions EXCEPT ![n][v].data = t.data]
    <2>1. Column(t.data, t.seen.data, policy_versions[n][v].data) = t.data
      BY <1>3 DEF Column
    <2>2. policy_versions' = [policy_versions EXCEPT ![n][v].data =
                                Column(t.data, t.seen.data, policy_versions[n][v].data)]
      BY <1>2, <1>3, <1>4 DEF UpdateCommit, IInv, TypeOK
    <2> QED
      BY <2>1, <2>2
  <1> QED
    BY <1>1, <1>2, <1>3, <1>5, <1>6, <1>7

(* What one session holds; SessionsCurrent says it of every writer.        *)
SessionCurrent(t) ==
  /\ t.pc \in {"embed", "flush"} => t.read = policies[t.node] /\ t.data = Fresh(t.text)
  /\ t.pc = "flush" => t.seen = policy_versions[t.node][NextVersion(t.read)]
  /\ t.pc \in {"llm", "sync", "update"} =>
       policies[t.node] # NoRow /\ t.data.src = policies[t.node].data.src
  /\ t.pc \in {"sync", "update"} => t.read = policies[t.node]
  /\ t.pc = "update" => t.seen = policy_versions[t.node][t.read.version]

(* A step of the lone writer that touches no table keeps what holds of its *)
(* session.                                                                *)
LEMMA ReadSteps ==
  ASSUME LoneWriter, IInv, RowsInv, NEW w \in Writers,
         WriterNext(w), ~UpsertCommit(w), ~UpdateCommit(w)
  PROVE  UNCHANGED <<policies, policy_versions, pins>> /\ SessionsCurrent'
  <1>1. UNCHANGED <<policies, policy_versions, pins>>
    BY DEF WriterNext, UpsertGet, UpsertCheck, UpsertConflict, TranslateRead, UpdateGet, UpdateCheck, Abort
  <1>2. SessionCurrent(txn[w]) /\ txn[w] \in Txns \cup {Idle}
    BY DEF RowsInv, SessionsCurrent, SessionCurrent, IInv, TypeOK
  <1>3. SessionCurrent(txn'[w])
    <2>1. ASSUME NEW n \in Nodes, NEW c \in Contents, UpsertGet(w, n, c)
          PROVE  SessionCurrent(txn'[w])
      BY <2>1 DEF UpsertGet, SessionCurrent, IInv, TypeOK
    <2>2. CASE UpsertCheck(w)
      BY <1>2, <2>2 DEF UpsertCheck, SessionCurrent, Txns, Idle, IInv, TypeOK
    <2>3. ASSUME NEW n \in Nodes, TranslateRead(w, n) PROVE SessionCurrent(txn'[w])
      BY <2>3 DEF TranslateRead, SessionCurrent, IInv, TypeOK
    <2>4. CASE UpdateGet(w)
      BY <1>2, <2>4, SMTT(30) DEF UpdateGet, SessionCurrent, Txns, Idle, IInv, TypeOK
    <2>5. CASE UpsertConflict(w) \/ Abort(w)
      BY <2>5 DEF UpsertConflict, Abort, SessionCurrent, Idle, IInv, TypeOK
    <2>6. CASE UpdateCheck(w)
      BY <1>2, <2>6, SMTT(30) DEF UpdateCheck, SessionCurrent, Txns, Idle, IInv, TypeOK
    <2> QED
      BY <2>1, <2>2, <2>3, <2>4, <2>5, <2>6 DEF WriterNext
  <1>4. ASSUME NEW v \in Writers PROVE SessionCurrent(txn'[v])
    BY <1>3 DEF LoneWriter
  <1> QED
    BY <1>1, <1>4 DEF SessionsCurrent, SessionCurrent

(* The commit of the lone writer leaves no session open.                   *)
LEMMA CommitEnds ==
  ASSUME LoneWriter, TypeOK, NEW w \in Writers, UpsertCommit(w) \/ UpdateCommit(w)
  PROVE  SessionsCurrent'
  <1>1. \A v \in Writers : txn'[v] = Idle
    BY DEF LoneWriter, UpsertCommit, UpdateCommit, TypeOK
  <1> QED
    BY <1>1 DEF SessionsCurrent, Idle

(* An edit puts the new version into both tables.                          *)
LEMMA EditKeepsRows ==
  ASSUME LoneWriter, IInv, RowsInv, NEW w \in Writers, UpsertCommit(w)
  PROVE  RowsInv'
  <1> DEFINE n == txn[w].node
             v == NextVersion(policies[n])
             c == txn[w].text
             row == [version |-> v, text |-> c, data |-> Fresh(c)]
             shot == [text |-> c, data |-> Fresh(c)]
  <1>1. /\ n \in Nodes /\ v \in Versions
        /\ policies' = [policies EXCEPT ![n] = row]
        /\ policy_versions' = [policy_versions EXCEPT ![n][v] = shot]
        /\ policy_versions[n][v] = NoRow
    BY EditAppends
  <1>2. row # NoRow
    BY <1>1, EditAppends DEF Rows, Fresh, Data
  <1>3. /\ policies'[n] = row
        /\ policy_versions'[n][v] = shot
        /\ \A m \in Nodes : m # n => /\ policies'[m] = policies[m]
                                    /\ policy_versions'[m] = policy_versions[m]
        /\ \A u \in Versions : u # v => policy_versions'[n][u] = policy_versions[n][u]
    BY <1>1 DEF IInv, TypeOK
  <1>4. SessionsCurrent'
    BY CommitEnds DEF IInv
  <1>5. NothingAhead'
    <2> SUFFICES ASSUME NEW m \in Nodes, NEW u \in Versions, policy_versions'[m][u] # NoRow
                 PROVE  policies'[m] # NoRow /\ u <= policies'[m].version
      BY DEF NothingAhead
    <2>1. CASE m # n
      BY <1>3, <2>1 DEF RowsInv, NothingAhead
    <2>2. CASE m = n /\ u = v
      BY <1>2, <1>3, <2>2 DEF Versions
    <2>3. CASE m = n /\ u # v
      <3>1. policies[n] # NoRow /\ u <= policies[n].version
        BY <1>1, <1>3, <2>3 DEF RowsInv, NothingAhead
      <3>2. policies[n].version \in Nat
        BY <1>1, <3>1 DEF IInv, TypeOK, Rows, Versions
      <3>3. u <= v
        BY <3>1, <3>2 DEF NextVersion, Versions
      <3> QED
        BY <1>2, <1>3, <2>3, <3>3
    <2> QED
      BY <2>1, <2>2, <2>3
  <1>6. RowInHistory'
    <2> SUFFICES ASSUME NEW m \in Nodes, policies'[m] # NoRow
                 PROVE  /\ policy_versions'[m][policies'[m].version].text = policies'[m].text
                        /\ policy_versions'[m][policies'[m].version].data = policies'[m].data
      BY DEF RowInHistory
    <2>1. CASE m # n
      BY <1>3, <2>1 DEF RowsInv, RowInHistory
    <2>2. CASE m = n
      BY <1>3, <2>2
    <2> QED
      BY <2>1, <2>2
  <1>7. PinsSame'
    <2> SUFFICES ASSUME NEW p \in pins
                 PROVE  policy_versions'[p.node][p.version] = policy_versions[p.node][p.version]
      BY DEF PinsSame, RowsInv, UpsertCommit
    <2>1. p.node \in Nodes /\ p.version \in Versions /\ policy_versions[p.node][p.version] # NoRow
      BY DEF IInv, TypeOK, Pins, PinsResolve
    <2> QED
      BY <1>1, <1>3, <2>1
  <1> QED
    BY <1>4, <1>5, <1>6, <1>7 DEF RowsInv

(* A stamp changes the payload of the row and of its own snapshot.         *)
LEMMA StampKeepsRows ==
  ASSUME LoneWriter, IInv, RowsInv, NEW w \in Writers, UpdateCommit(w)
  PROVE  RowsInv'
  <1> DEFINE n == txn[w].node
             v == policies[n].version
             d == txn[w].data
  <1>1. /\ n \in Nodes /\ v \in Versions /\ d \in Data
        /\ policies[n] \in Rows /\ policy_versions[n][v] \in Snaps
        /\ d.src = policies[n].data.src
        /\ d.src = policy_versions[n][v].data.src
        /\ policies' = [policies EXCEPT ![n].data = d]
        /\ policy_versions' = [policy_versions EXCEPT ![n][v].data = d]
    BY StampAgrees
  <1>2. /\ policies'[n] = [policies[n] EXCEPT !.data = d]
        /\ policy_versions'[n][v] = [policy_versions[n][v] EXCEPT !.data = d]
        /\ \A m \in Nodes : m # n => /\ policies'[m] = policies[m]
                                    /\ policy_versions'[m] = policy_versions[m]
        /\ \A u \in Versions : u # v => policy_versions'[n][u] = policy_versions[n][u]
    BY <1>1 DEF IInv, TypeOK
  <1>3. /\ policies'[n].version = v /\ policies'[n].text = policies[n].text
        /\ policies'[n].data = d
        /\ policy_versions'[n][v].text = policy_versions[n][v].text
        /\ policy_versions'[n][v].data = d
    <2>1. PICK r \in Rows : r = policies[n]
      BY <1>1
    <2>2. PICK s \in Snaps : s = policy_versions[n][v]
      BY <1>1
    <2>3. /\ policies'[n].version = v /\ policies'[n].text = policies[n].text
          /\ policies'[n].data = d
      <3>1. policies'[n] = [r EXCEPT !.data = d]
        BY <1>2, <2>1
      <3> QED
        BY <2>1, <3>1 DEF Rows
    <2>4. /\ policy_versions'[n][v].text = policy_versions[n][v].text
          /\ policy_versions'[n][v].data = d
      <3>1. policy_versions'[n][v] = [s EXCEPT !.data = d]
        BY <1>2, <2>2
      <3> QED
        BY <2>2, <3>1 DEF Snaps
    <2> QED
      BY <2>3, <2>4
  <1>4. policies[n] # NoRow /\ policy_versions[n][v] # NoRow
    BY <1>1
  <1>5. SessionsCurrent'
    BY CommitEnds DEF IInv
  <1>6. NothingAhead'
    <2> SUFFICES ASSUME NEW m \in Nodes, NEW u \in Versions, policy_versions'[m][u] # NoRow
                 PROVE  policies'[m] # NoRow /\ u <= policies'[m].version
      BY DEF NothingAhead
    <2>1. policies[m] # NoRow /\ u <= policies[m].version
      BY <1>2, <1>4, SMTT(30) DEF RowsInv, NothingAhead
    <2>2. policies'[m] # NoRow
      BY <2>1, UpdateKeeps DEF Grows
    <2> QED
      BY <1>2, <1>3, <2>1, <2>2
  <1>7. RowInHistory'
    <2> SUFFICES ASSUME NEW m \in Nodes, policies'[m] # NoRow
                 PROVE  /\ policy_versions'[m][policies'[m].version].text = policies'[m].text
                        /\ policy_versions'[m][policies'[m].version].data = policies'[m].data
      BY DEF RowInHistory
    <2>1. CASE m # n
      BY <1>2, <2>1 DEF RowsInv, RowInHistory
    <2>2. CASE m = n
      BY <1>1, <1>3, <1>4, <2>2 DEF RowsInv, RowInHistory
    <2> QED
      BY <2>1, <2>2
  <1>8. PinsSame'
    <2> SUFFICES ASSUME NEW p \in pins
                 PROVE  /\ policy_versions'[p.node][p.version].text = p.text
                        /\ policy_versions'[p.node][p.version].data.src = p.src
      BY DEF PinsSame, UpdateCommit
    <2>1. p.node \in Nodes /\ p.version \in Versions
      BY DEF IInv, TypeOK, Pins
    <2>2. /\ policy_versions[p.node][p.version].text = p.text
          /\ policy_versions[p.node][p.version].data.src = p.src
      BY DEF RowsInv, PinsSame
    <2>3. CASE p.node = n /\ p.version = v
      BY <1>1, <1>3, <2>2, <2>3
    <2>4. CASE ~(p.node = n /\ p.version = v)
      <3>1. policy_versions'[p.node][p.version] = policy_versions[p.node][p.version]
        BY <1>2, <2>1, <2>4
      <3> QED
        BY <2>2, <3>1
    <2> QED
      BY <2>3, <2>4
  <1> QED
    BY <1>5, <1>6, <1>7, <1>8 DEF RowsInv

(* Of the other steps only a citation matters: it pins the current row,    *)
(* which its snapshot agrees with.                                         *)
LEMMA StepRowsInv ==
  ASSUME LoneWriter, IInv, RowsInv, [Next]_vars
  PROVE  RowsInv'
  <1>1. ASSUME NEW w \in Writers, WriterNext(w) PROVE RowsInv'
    <2>1. CASE UpsertCommit(w)
      BY <2>1, EditKeepsRows
    <2>2. CASE UpdateCommit(w)
      BY <2>2, StampKeepsRows
    <2>3. CASE ~UpsertCommit(w) /\ ~UpdateCommit(w)
      BY <1>1, <2>3, ReadSteps DEF RowsInv, NothingAhead, RowInHistory, PinsSame
    <2> QED
      BY <2>1, <2>2, <2>3
  <1>2. CASE UNCHANGED <<policies, policy_versions, txn, pins>>
    BY <1>2 DEF RowsInv, SessionsCurrent, NothingAhead, RowInHistory, PinsSame
  <1>3. ASSUME NEW k \in Snapshotters, SnapNext(k) PROVE RowsInv'
    BY <1>2, <1>3 DEF SnapNext, SnapLast, SnapActive, SnapInsert
  <1>4. ASSUME NEW n \in Nodes, Cite(n) PROVE RowsInv'
    <2>1. UNCHANGED <<policies, policy_versions, txn>>
      BY <1>4 DEF Cite
    <2>2. SessionsCurrent' /\ NothingAhead' /\ RowInHistory'
      BY <2>1 DEF RowsInv, SessionsCurrent, NothingAhead, RowInHistory
    <2>3. ASSUME NEW p \in pins' PROVE /\ policy_versions[p.node][p.version].text = p.text
                                       /\ policy_versions[p.node][p.version].data.src = p.src
      <3>1. CASE p \in pins
        BY <3>1 DEF RowsInv, PinsSame
      <3>2. CASE p = [node |-> n, version |-> policies[n].version, text |-> policies[n].text,
                      src |-> policies[n].data.src]
        BY <1>4, <3>2 DEF Cite, RowsInv, RowInHistory
      <3> QED
        BY <1>4, <3>1, <3>2 DEF Cite
    <2> QED
      BY <2>1, <2>2, <2>3 DEF RowsInv, PinsSame
  <1> QED
    BY <1>1, <1>2, <1>3, <1>4 DEF Next, vars

(* The version of a row never goes back.                                   *)
LEMMA CurrentGrows ==
  ASSUME IInv, RowsInv, [Next]_vars, NEW n \in Nodes
  PROVE  /\ Current(n) \in 0..MaxVersion
         /\ Current(n)' \in 0..MaxVersion
         /\ Current(n) <= Current(n)'
  <1>1. TypeOK /\ TypeOK'
    BY StepTypeOK DEF IInv
  <1>2. Current(n) \in 0..MaxVersion
    BY <1>1 DEF TypeOK, Current, Rows, Versions
  <1>3. Current(n)' \in 0..MaxVersion
    BY <1>1 DEF TypeOK, Current, Rows, Versions
  <1>4. Current(n) <= Current(n)'
    <2>1. ASSUME NEW w \in Writers, UpsertCommit(w) PROVE Current(n) <= Current(n)'
      <3> DEFINE m == txn[w].node
                 v == NextVersion(policies[m])
      <3>1. /\ m \in Nodes /\ v \in Versions
            /\ policies' = [policies EXCEPT ![m] = [version |-> v, text |-> txn[w].text,
                                                    data |-> Fresh(txn[w].text)]]
        BY <2>1, EditAppends
      <3>2. CASE n # m
        BY <1>1, <1>2, <3>1, <3>2 DEF TypeOK, Current
      <3>3. CASE n = m
        <4>1. policies'[n].version = v /\ policies'[n] # NoRow
          BY <1>1, <2>1, <3>1, <3>3, CommitGrows DEF TypeOK
        <4>2. Current(n)' = NextVersion(policies[n])
          BY <3>3, <4>1 DEF Current
        <4> QED
          BY <1>2, <4>2 DEF Current, NextVersion
      <3> QED
        BY <3>2, <3>3
    <2>2. ASSUME NEW w \in Writers, UpdateCommit(w) PROVE Current(n) <= Current(n)'
      <3>1. /\ policies[n] = NoRow => policies'[n] = NoRow
            /\ policies[n] # NoRow => policies'[n].version = policies[n].version
            /\ policies[n] # NoRow => policies'[n] # NoRow
        BY <2>2, UpdateKeeps DEF Grows
      <3> QED
        BY <1>2, <3>1 DEF Current
    <2>3. CASE \A w \in Writers : ~UpsertCommit(w) /\ ~UpdateCommit(w)
      BY <1>2, <2>3, OthersQuiet DEF Current
    <2> QED
      BY <2>1, <2>2, <2>3
  <1> QED
    BY <1>2, <1>3, <1>4

(* The versions of a set are those of the rows when the session read them, *)
(* and rows only grow; the slot after the last set is the next one.        *)
LEMMA StepSetsGrow ==
  ASSUME IInv, RowsInv, SetsGrow, [Next]_vars
  PROVE  SetsGrow'
  <1>0. \A n \in Nodes : /\ Current(n) \in Nat /\ Current(n)' \in Nat
                         /\ Current(n) <= Current(n)'
    BY CurrentGrows
  <1>1. TypeOK /\ TypeOK'
    BY StepTypeOK DEF IInv
  <1>2. CASE UNCHANGED <<policy_sets, snap>>
    <2>1. \A i \in 1..MaxSets, n \in Nodes : policy_sets[i] # NoRow => policy_sets[i][n] \in Nat
      BY <1>1 DEF TypeOK, SetMaps
    <2>2. \A k \in Snapshotters, n \in Nodes : snap[k].pc = "insert" => snap[k].active[n] \in Nat
      BY <1>1 DEF TypeOK, SnapTxns, SetMaps, Idle
    <2> QED
      BY <1>0, <1>2, <2>1, <2>2 DEF SetsGrow
  <1>3. ASSUME NEW k \in Snapshotters, SnapLast(k) PROVE SetsGrow'
    <2>1. UNCHANGED <<policies, policy_sets>>
      BY <1>3 DEF SnapLast
    <2>2. PICK i \in 0..(MaxSets - 1) :
            /\ LastSet(i)
            /\ snap' = [snap EXCEPT ![k] = [pc |-> "active", last |-> i,
                                            active |-> [n \in Nodes |-> 0]]]
      BY <1>3 DEF SnapLast
    <2>3. /\ snap'[k].pc = "active" /\ snap'[k].last = i
          /\ \A j \in Snapshotters : j # k => snap'[j] = snap[j]
      BY <1>1, <2>2 DEF TypeOK
    <2> QED
      BY <2>1, <2>2, <2>3 DEF SetsGrow, LastSet, Current
  <1>4. ASSUME NEW k \in Snapshotters, SnapActive(k) PROVE SetsGrow'
    <2>1. UNCHANGED <<policies, policy_sets>>
      BY <1>4 DEF SnapActive
    <2>2. snap[k] \in SnapTxns /\ snap[k] # Idle
      BY <1>1, <1>4 DEF SnapActive, TypeOK, Idle, SnapTxns
    <2>3. /\ snap'[k].pc = "insert" /\ snap'[k].last = snap[k].last
          /\ \A n \in Nodes : snap'[k].active[n] = Current(n)
          /\ \A j \in Snapshotters : j # k => snap'[j] = snap[j]
      BY <1>1, <1>4, <2>2 DEF SnapActive, TypeOK, SnapTxns, Current
    <2>4. snap[k].last > 0 => /\ policy_sets[snap[k].last] # NoRow
                              /\ snap[k].last \in 1..MaxSets
      BY <2>2 DEF SetsGrow, SnapTxns
    <2>5. \A n \in Nodes : Current(n)' = Current(n)
      BY <2>1 DEF Current
    <2>6. /\ snap'[k].last > 0 => policy_sets'[snap'[k].last] # NoRow
          /\ \A n \in Nodes :
               /\ snap'[k].active[n] <= Current(n)'
               /\ snap'[k].last > 0 => policy_sets'[snap'[k].last][n] <= snap'[k].active[n]
      BY <1>0, <2>1, <2>3, <2>4, <2>5 DEF SetsGrow
    <2> QED
      BY <2>1, <2>3, <2>5, <2>6 DEF SetsGrow
  <1>5. ASSUME NEW k \in Snapshotters, SnapInsert(k) PROVE SetsGrow'
    <2> DEFINE i == snap[k].last + 1
    <2>1. UNCHANGED policies /\ snap' = [snap EXCEPT ![k] = Idle]
      BY <1>5 DEF SnapInsert
    <2>2. snap[k] \in SnapTxns /\ snap[k] # Idle /\ snap[k].pc = "insert"
      BY <1>1, <1>5 DEF SnapInsert, TypeOK, Idle, SnapTxns
    <2>3. i \in 1..MaxSets
      BY <2>2 DEF SnapTxns, IInv, ReadsInHistory
    <2>4. /\ snap'[k] = Idle /\ Idle.pc # "insert"
          /\ \A j \in Snapshotters : j # k => snap'[j] = snap[j]
      BY <1>1, <2>1 DEF TypeOK, Idle
    <2>5. \A n \in Nodes : Current(n)' = Current(n)
      BY <2>1 DEF Current
    <2>6. CASE policy_sets[i] # NoRow
      <3>1. policy_sets' = policy_sets
        BY <1>5, <2>6 DEF SnapInsert
      <3> QED
        BY <2>4, <2>5, <3>1 DEF SetsGrow
    <2>7. CASE policy_sets[i] = NoRow
      <3>1. policy_sets' = [policy_sets EXCEPT ![i] = snap[k].active]
        BY <1>5, <2>7 DEF SnapInsert
      <3>2. /\ policy_sets'[i] = snap[k].active
            /\ \A j \in 1..MaxSets : j # i => policy_sets'[j] = policy_sets[j]
        BY <1>1, <2>3, <3>1 DEF TypeOK
      <3>3. snap[k].active # NoRow
        BY <2>2 DEF SnapTxns
      <3>4. \A j \in 1..MaxSets : policy_sets[j] # NoRow => policy_sets'[j] = policy_sets[j]
        BY <2>7, <3>2
      <3>5. ASSUME NEW a \in 1..MaxSets, NEW b \in 1..MaxSets, a < b, policy_sets'[b] # NoRow
            PROVE  policy_sets'[a] # NoRow
        <4>1. CASE b # i
          BY <3>2, <3>3, <3>5, <4>1 DEF SetsGrow
        <4>2. CASE b = i
          <5>1. snap[k].last \in 1..MaxSets /\ snap[k].last > 0 /\ a <= snap[k].last
            BY <2>2, <2>3, <3>5, <4>2 DEF SnapTxns
          <5>2. policy_sets[a] # NoRow
            BY <2>2, <5>1 DEF SetsGrow
          <5> QED
            BY <3>4, <5>2
        <4> QED
          BY <4>1, <4>2
      <3>6. ASSUME NEW j \in 1..MaxSets, NEW n \in Nodes, policy_sets'[j] # NoRow
            PROVE  policy_sets'[j][n] <= Current(n)'
        BY <2>2, <2>5, <3>2, <3>6 DEF SetsGrow
      <3>7. ASSUME NEW j \in Snapshotters, snap'[j] # Idle
            PROVE  /\ j # k /\ snap'[j] = snap[j]
                   /\ snap[j].last > 0 => policy_sets'[snap[j].last] = policy_sets[snap[j].last]
        <4>1. j # k /\ snap'[j] = snap[j] /\ snap[j] \in SnapTxns
          BY <1>1, <2>4, <3>7 DEF TypeOK
        <4>2. snap[j].last > 0 => snap[j].last \in 1..MaxSets /\ policy_sets[snap[j].last] # NoRow
          BY <3>7, <4>1 DEF SetsGrow, SnapTxns
        <4> QED
          BY <3>4, <4>1, <4>2
      <3> QED
        BY <2>4, <2>5, <3>5, <3>6, <3>7 DEF SetsGrow
    <2> QED
      BY <2>6, <2>7
  <1>6. ASSUME NEW w \in Writers, WriterNext(w) PROVE SetsGrow'
    BY <1>2, <1>6 DEF WriterNext, UpsertGet, UpsertCheck, UpsertCommit, UpsertConflict,
                      TranslateRead, UpdateGet, UpdateCheck, UpdateCommit, Abort
  <1> QED
    BY <1>2, <1>3, <1>4, <1>5, <1>6 DEF Next, SnapNext, Cite, vars

-----------------------------------------------------------------------------
(* The refinement: what Log, SetLog and Cited do in each step.             *)

LogEntries == {[text |-> c, src |-> c] : c \in Contents}

SnapEntries == [text : Contents, src : Contents]

(* A node's log is as long as its version.                                 *)
LEMMA LogLength ==
  ASSUME TypeOK, RowInHistory, HistoryDense, NEW n \in Nodes
  PROVE  /\ Log[n] \in Seq(SnapEntries)
         /\ Len(Log[n]) = Current(n)
         /\ \A v \in 1..Current(n) : Log[n][v] = SnapOf(n, v)
  <1>1. CASE policies[n] = NoRow
    BY <1>1 DEF Log, Current
  <1>2. CASE policies[n] # NoRow
    <2>1. Current(n) = policies[n].version /\ Current(n) \in Versions /\ Current(n) \in Nat
      BY <1>2 DEF Current, TypeOK, Rows, Versions
    <2>2. ASSUME NEW v \in 1..Current(n) PROVE SnapOf(n, v) \in SnapEntries
      <3>1. policy_versions[n][v] # NoRow /\ v \in Versions
        BY <1>2, <2>1 DEF HistoryDense, Versions
      <3>2. policy_versions[n][v] \in Snaps
        BY <3>1 DEF TypeOK
      <3> QED
        BY <3>2 DEF SnapOf, Snaps, Data, SnapEntries
    <2>3. Log[n] = [v \in 1..Current(n) |-> SnapOf(n, v)]
      BY <1>2, <2>1 DEF Log
    <2> QED
      BY <2>1, <2>2, <2>3
  <1> QED
    BY <1>1, <1>2

(* There is one last set, and the log of sets ends with it.                *)
LEMMA SetLogEnds ==
  ASSUME NEW i \in 0..MaxSets, LastSet(i)
  PROVE  SetLog = [j \in 1..i |-> policy_sets[j]]
  <1>1. ASSUME NEW j \in 0..MaxSets, LastSet(j) PROVE j = i
    BY <1>1 DEF LastSet
  <1>2. (CHOOSE j \in 0..MaxSets : LastSet(j)) = i
    BY <1>1
  <1> QED
    BY <1>2 DEF SetLog

(* An edit appends one entry to the log of its node.                       *)
LEMMA EditRefines ==
  ASSUME IInv, RowsInv, NEW w \in Writers, UpsertCommit(w)
  PROVE  \E n \in Nodes, e \in LogEntries :
           Log' = [Log EXCEPT ![n] = Append(@, e)] /\ UNCHANGED <<SetLog, Cited>>
  <1>1. PICK n \in Nodes, v \in Versions, c \in Contents :
          /\ v = NextVersion(policies[n])
          /\ policies' = [policies EXCEPT ![n] =
                            [version |-> v, text |-> c, data |-> Fresh(c)]]
          /\ policy_versions' = [policy_versions EXCEPT ![n][v] =
                                   [text |-> c, data |-> Fresh(c)]]
    BY EditAppends
  <1> DEFINE row == [version |-> v, text |-> c, data |-> Fresh(c)]
             shot == [text |-> c, data |-> Fresh(c)]
             e == [text |-> c, src |-> c]
  <1>2. row # NoRow
    BY <1>1 DEF Rows, Fresh, Data
  <1>3. /\ policies'[n] = row
        /\ policy_versions'[n][v] = shot
        /\ \A m \in Nodes : m # n => /\ policies'[m] = policies[m]
                                    /\ policy_versions'[m] = policy_versions[m]
        /\ \A u \in Versions : u # v => policy_versions'[n][u] = policy_versions[n][u]
    BY <1>1 DEF IInv, TypeOK
  <1>4. e \in LogEntries /\ e \in SnapEntries
    BY <1>1 DEF LogEntries, SnapEntries
  <1>5. /\ Log[n] \in Seq(SnapEntries)
        /\ Len(Log[n]) = Current(n)
        /\ \A u \in 1..Current(n) : Log[n][u] = SnapOf(n, u)
    BY <1>1, LogLength DEF IInv, RowsInv
  <1>6. v = Current(n) + 1 /\ Current(n) \in 0..MaxVersion
    BY <1>1 DEF NextVersion, Current, IInv, TypeOK, Rows, Versions
  <1>7. Log'[n] = [u \in 1..v |-> IF u = v THEN e ELSE SnapOf(n, u)]
    <2>1. policies'[n] # NoRow /\ policies'[n].version = v
      BY <1>2, <1>3
    <2>2. Log'[n] = [u \in 1..v |-> SnapOf(n, u)']
      BY <1>1, <2>1 DEF Log
    <2>3. SnapOf(n, v)' = e
      BY <1>3 DEF SnapOf, Fresh
    <2>4. ASSUME NEW u \in 1..v, u # v PROVE SnapOf(n, u)' = SnapOf(n, u)
      <3>1. u \in Versions
        BY <1>1 DEF Versions
      <3> QED
        BY <1>3, <2>4, <3>1 DEF SnapOf
    <2> QED
      BY <2>2, <2>3, <2>4
  <1>8. Log'[n] = Append(Log[n], e)
    <2>1. /\ Append(Log[n], e) \in Seq(SnapEntries)
          /\ Len(Append(Log[n], e)) = v
          /\ \A u \in 1..Current(n) : Append(Log[n], e)[u] = Log[n][u]
          /\ Append(Log[n], e)[v] = e
      BY <1>4, <1>5, <1>6, AppendProperties
    <2>2. /\ Log'[n] \in Seq(SnapEntries)
          /\ Len(Log'[n]) = v
          /\ \A u \in 1..v : Log'[n][u] = IF u = v THEN e ELSE SnapOf(n, u)
      <3>1. \A u \in 1..v : (IF u = v THEN e ELSE SnapOf(n, u)) \in SnapEntries
        <4> SUFFICES ASSUME NEW u \in 1..v, u # v PROVE SnapOf(n, u) \in SnapEntries
          BY <1>4
        <4>1. u \in 1..Current(n)
          BY <1>6
        <4>2. Log[n][u] \in SnapEntries
          BY <1>5, <4>1, ElementOfSeq
        <4> QED
          BY <1>5, <4>1, <4>2
      <3> QED
        BY <1>6, <1>7, <3>1
    <2>3. \A u \in 1..v : Log'[n][u] = Append(Log[n], e)[u]
      BY <1>5, <1>6, <2>1, <2>2
    <2> QED
      BY <2>1, <2>2, <2>3, SeqEqual
  <1>9. ASSUME NEW m \in Nodes, m # n PROVE Log'[m] = Log[m]
    BY <1>3, <1>9 DEF Log, SnapOf
  <1>10. Log' = [Log EXCEPT ![n] = Append(@, e)]
    <2>1. Log' = [m \in Nodes |-> Log'[m]]
      BY DEF Log
    <2>2. [Log EXCEPT ![n] = Append(Log[n], e)]
            = [m \in Nodes |-> IF m = n THEN Append(Log[n], e) ELSE Log[m]]
      BY <1>1 DEF Log
    <2> QED
      BY <1>8, <1>9, <2>1, <2>2
  <1>11. UNCHANGED <<SetLog, Cited>>
    BY DEF UpsertCommit, SetLog, LastSet, Cited
  <1> QED
    BY <1>1, <1>4, <1>10, <1>11

(* A stamp changes nothing a reader of the log sees.                       *)
LEMMA StampStutters ==
  ASSUME IInv, RowsInv, NEW w \in Writers, UpdateCommit(w)
  PROVE  UNCHANGED <<Log, SetLog, Cited>>
  <1>1. PICK n \in Nodes, v \in Versions, d \in Data :
          /\ v = policies[n].version
          /\ policies[n] \in Rows /\ policy_versions[n][v] \in Snaps
          /\ d.src = policy_versions[n][v].data.src
          /\ policies' = [policies EXCEPT ![n].data = d]
          /\ policy_versions' = [policy_versions EXCEPT ![n][v].data = d]
    <2> DEFINE n == txn[w].node
               v == policies[n].version
               d == txn[w].data
    <2>1. /\ n \in Nodes /\ v \in Versions /\ d \in Data
          /\ policies[n] \in Rows /\ policy_versions[n][v] \in Snaps
          /\ d.src = policy_versions[n][v].data.src
          /\ policies' = [policies EXCEPT ![n].data = d]
          /\ policy_versions' = [policy_versions EXCEPT ![n][v].data = d]
      BY StampAgrees
    <2> HIDE DEF d
    <2> QED
      BY <2>1
  <1>2. PICK s \in Snaps : s = policy_versions[n][v]
    BY <1>1
  <1>3. ASSUME NEW m \in Nodes, NEW u \in Versions PROVE SnapOf(m, u)' = SnapOf(m, u)
    <2>1. CASE m = n /\ u = v
      <3>1. policy_versions'[n][v] = [s EXCEPT !.data = d]
        BY <1>1, <1>2 DEF IInv, TypeOK
      <3>2. policy_versions'[n][v].text = s.text /\ policy_versions'[n][v].data.src = s.data.src
        BY <1>1, <1>2, <3>1 DEF Snaps
      <3> QED
        BY <1>2, <2>1, <3>2 DEF SnapOf
    <2>2. CASE ~(m = n /\ u = v)
      <3>1. policy_versions'[m][u] = policy_versions[m][u]
        BY <1>1, <2>2 DEF IInv, TypeOK
      <3> QED
        BY <3>1 DEF SnapOf
    <2> QED
      BY <2>1, <2>2
  <1>4. ASSUME NEW m \in Nodes PROVE Log'[m] = Log[m]
    <2>1. /\ policies[m] = NoRow <=> policies'[m] = NoRow
          /\ policies[m] # NoRow => policies'[m].version = policies[m].version
      BY UpdateKeeps DEF Grows
    <2>2. CASE policies[m] = NoRow
      BY <2>1, <2>2 DEF Log
    <2>3. CASE policies[m] # NoRow
      <3>1. policies[m].version \in Versions
        BY <2>3 DEF IInv, TypeOK, Rows
      <3>2. \A u \in 1..policies[m].version : u \in Versions
        BY <3>1 DEF Versions
      <3>3. [u \in 1..policies[m].version |-> SnapOf(m, u)']
              = [u \in 1..policies[m].version |-> SnapOf(m, u)]
        BY <1>3, <3>2
      <3> QED
        BY <2>1, <2>3, <3>3 DEF Log
    <2> QED
      BY <2>2, <2>3
  <1>5. Log' = Log
    <2>1. Log' = [m \in Nodes |-> Log'[m]] /\ Log = [m \in Nodes |-> Log[m]]
      BY DEF Log
    <2> QED
      BY <1>4, <2>1
  <1> QED
    BY <1>5 DEF UpdateCommit, SetLog, LastSet, Cited

(* An insertion that finds its number free tags a set; otherwise it fails. *)
LEMMA InsertRefines ==
  ASSUME IInv, RowsInv, SetsGrow, NEW k \in Snapshotters, SnapInsert(k)
  PROVE  \/ UNCHANGED <<Log, SetLog, Cited>>
         \/ \E m \in [Nodes -> UNION {0..Len(Log[n]) : n \in Nodes}] :
              /\ \A n \in Nodes : m[n] <= Len(Log[n])
              /\ SetLog # <<>> => \A n \in Nodes : SetLog[Len(SetLog)][n] <= m[n]
              /\ SetLog' = Append(SetLog, m)
              /\ UNCHANGED <<Log, Cited>>
  <1>1. UNCHANGED <<Log, Cited>>
    BY DEF SnapInsert, Log, SnapOf, Cited
  <1>2. snap[k] \in SnapTxns /\ snap[k] # Idle /\ snap[k].pc = "insert"
    BY DEF IInv, TypeOK, SnapInsert, Idle, SnapTxns
  <1>3. PICK i \in 0..MaxSets, m \in SetMaps : i = snap[k].last /\ m = snap[k].active
    BY <1>2 DEF SnapTxns
  <1>4. i + 1 \in 1..MaxSets
    BY <1>2, <1>3 DEF IInv, ReadsInHistory
  <1>5. CASE policy_sets[i + 1] # NoRow
    BY <1>1, <1>3, <1>5 DEF SnapInsert, SetLog, LastSet
  <1>6. CASE policy_sets[i + 1] = NoRow
    <2>1. /\ policy_sets' = [policy_sets EXCEPT ![i + 1] = m]
          /\ policy_sets'[i + 1] = m
          /\ \A j \in 1..MaxSets : j # i + 1 => policy_sets'[j] = policy_sets[j]
      BY <1>3, <1>4, <1>6 DEF SnapInsert, IInv, TypeOK
    <2>2. LastSet(i)
      <3>1. i > 0 => policy_sets[i] # NoRow
        BY <1>2, <1>3 DEF SetsGrow
      <3>2. ASSUME NEW j \in (i + 1)..MaxSets PROVE policy_sets[j] = NoRow
        <4>1. j \in 1..MaxSets /\ (j = i + 1 \/ i + 1 < j)
          BY <1>3
        <4> QED
          BY <1>4, <1>6, <4>1 DEF SetsGrow
      <3> QED
        BY <3>1, <3>2 DEF LastSet
    <2>3. LastSet(i + 1)'
      <3>1. m # NoRow
        OBVIOUS
      <3>2. ASSUME NEW j \in (i + 2)..MaxSets PROVE policy_sets'[j] = NoRow
        <4>1. j \in (i + 1)..MaxSets /\ j \in 1..MaxSets /\ j # i + 1
          BY <1>3
        <4> QED
          BY <2>1, <2>2, <4>1 DEF LastSet
      <3>3. (i + 1) + 1 = i + 2
        BY <1>3
      <3> QED
        BY <2>1, <3>1, <3>2, <3>3 DEF LastSet
    <2>4. SetLog = [j \in 1..i |-> policy_sets[j]]
      BY <2>2, SetLogEnds
    <2>5. SetLog' = [j \in 1..(i + 1) |-> policy_sets'[j]]
      <3>1. ASSUME NEW j \in 0..MaxSets, LastSet(j)' PROVE j = i + 1
        BY <1>4, <2>3, <3>1 DEF LastSet
      <3>2. (CHOOSE j \in 0..MaxSets : LastSet(j)') = i + 1
        BY <1>4, <2>3, <3>1
      <3> QED
        BY <3>2 DEF SetLog
    <2>6. SetLog \in Seq(SetMaps) /\ Len(SetLog) = i
      <3>1. \A j \in 1..i : policy_sets[j] \in SetMaps
        <4> SUFFICES ASSUME NEW j \in 1..i PROVE policy_sets[j] \in SetMaps
          OBVIOUS
        <4>1. i > 0 /\ policy_sets[i] # NoRow /\ i \in 1..MaxSets /\ j \in 1..MaxSets
          BY <2>2 DEF LastSet
        <4>2. policy_sets[j] # NoRow
          BY <4>1 DEF SetsGrow
        <4> QED
          BY <4>1, <4>2 DEF IInv, TypeOK
      <3> QED
        BY <2>4, <3>1
    <2>7. SetLog' \in Seq(SetMaps) /\ Len(SetLog') = i + 1
      <3>1. \A j \in 1..(i + 1) : policy_sets'[j] \in SetMaps
        <4> SUFFICES ASSUME NEW j \in 1..(i + 1), j # i + 1 PROVE policy_sets'[j] \in SetMaps
          BY <2>1
        <4>1. j \in 1..i /\ j \in 1..MaxSets
          BY <1>4
        <4>2. policy_sets'[j] = SetLog[j]
          BY <2>1, <2>4, <4>1
        <4> QED
          BY <2>6, <4>1, <4>2, ElementOfSeq
      <3> QED
        BY <2>5, <3>1
    <2>8. SetLog' = Append(SetLog, m)
      <3>1. /\ Append(SetLog, m) \in Seq(SetMaps)
            /\ Len(Append(SetLog, m)) = i + 1
            /\ \A j \in 1..i : Append(SetLog, m)[j] = SetLog[j]
            /\ Append(SetLog, m)[i + 1] = m
        BY <2>6, AppendProperties
      <3>2. ASSUME NEW j \in 1..(i + 1) PROVE SetLog'[j] = Append(SetLog, m)[j]
        <4>1. CASE j = i + 1
          BY <2>1, <2>5, <3>1, <4>1
        <4>2. CASE j # i + 1
          <5>1. j \in 1..i /\ j \in 1..MaxSets
            BY <1>4, <4>2
          <5> QED
            BY <2>1, <2>4, <2>5, <3>1, <5>1
        <4> QED
          BY <4>1, <4>2
      <3> QED
        BY <2>7, <3>1, <3>2, SeqEqual
    <2>9. /\ \A n \in Nodes : Len(Log[n]) = Current(n) /\ m[n] <= Len(Log[n])
          /\ m \in [Nodes -> UNION {0..Len(Log[n]) : n \in Nodes}]
      <3>1. ASSUME NEW n \in Nodes
            PROVE  Len(Log[n]) = Current(n) /\ m[n] <= Current(n) /\ m[n] \in 0..Len(Log[n])
        <4>1. Len(Log[n]) = Current(n)
          BY LogLength DEF IInv, RowsInv
        <4>2. m[n] <= Current(n)
          BY <1>2, <1>3 DEF SetsGrow
        <4>3. m[n] \in Nat /\ Current(n) \in Nat
          BY DEF SetMaps, Current, IInv, TypeOK, Rows, Versions
        <4> QED
          BY <4>1, <4>2, <4>3
      <3>2. m \in [Nodes -> UNION {0..Len(Log[n]) : n \in Nodes}]
        BY <3>1 DEF SetMaps
      <3> QED
        BY <3>1, <3>2
    <2>10. SetLog # <<>> => \A n \in Nodes : SetLog[Len(SetLog)][n] <= m[n]
      <3> SUFFICES ASSUME SetLog # <<>>, NEW n \in Nodes PROVE SetLog[i][n] <= m[n]
        BY <2>6
      <3>1. i > 0 /\ i \in 1..i
        BY <2>6, EmptySeq
      <3> QED
        BY <1>2, <1>3, <2>4, <3>1 DEF SetsGrow
    <2> QED
      BY <1>1, <2>8, <2>9, <2>10
  <1> QED
    BY <1>5, <1>6

(* A citation reads the last entry of the log.                             *)
LEMMA CiteRefines ==
  ASSUME IInv, RowsInv, NEW n \in Nodes, Cite(n)
  PROVE  /\ Log[n] # <<>>
         /\ Cited' = Cited \cup {[node |-> n, version |-> Len(Log[n]),
                                  entry |-> Log[n][Len(Log[n])]]}
         /\ UNCHANGED <<Log, SetLog>>
  <1>1. policies[n] # NoRow /\ policies[n] \in Rows
    BY DEF Cite, IInv, TypeOK
  <1>2. Current(n) = policies[n].version /\ Current(n) \in Nat /\ Current(n) >= 1
    BY <1>1 DEF Current, Rows, Versions
  <1>3. Len(Log[n]) = Current(n) /\ Log[n][Current(n)] = SnapOf(n, Current(n))
    BY <1>2, LogLength DEF IInv, RowsInv
  <1>4. SnapOf(n, Current(n)) = [text |-> policies[n].text, src |-> policies[n].data.src]
    BY <1>1, <1>2 DEF SnapOf, RowsInv, RowInHistory
  <1>5. Log[n] # <<>>
    BY <1>2, <1>3, EmptySeq
  <1>6. pins' = pins \cup {[node |-> n, version |-> policies[n].version, text |-> policies[n].text,
                            src |-> policies[n].data.src]}
    BY DEF Cite
  <1>7. Cited' = Cited \cup {[node |-> n, version |-> policies[n].version,
                              entry |-> [text |-> policies[n].text, src |-> policies[n].data.src]]}
    <2> DEFINE F(p) == [node |-> p.node, version |-> p.version,
                        entry |-> [text |-> p.text, src |-> p.src]]
               new == [node |-> n, version |-> policies[n].version, text |-> policies[n].text,
                       src |-> policies[n].data.src]
    <2>1. Cited = {F(p) : p \in pins} /\ Cited' = {F(p) : p \in pins'}
      BY DEF Cited
    <2>2. F(new) = [node |-> n, version |-> policies[n].version,
                    entry |-> [text |-> policies[n].text, src |-> policies[n].data.src]]
      OBVIOUS
    <2>3. pins' = pins \cup {new}
      BY <1>6
    <2> HIDE DEF F, new
    <2>4. {F(p) : p \in pins'} = {F(p) : p \in pins} \cup {F(new)}
      BY <2>3
    <2> QED
      BY <2>1, <2>2, <2>4
  <1> QED
    BY <1>2, <1>3, <1>4, <1>5, <1>7 DEF Cite, Log, SnapOf, SetLog, LastSet

-----------------------------------------------------------------------------
(* The invariant of the lone writer.                                       *)
SerialInv == IInv /\ RowsInv /\ SetsGrow

(* With one writer both invariants hold throughout.                        *)
LEMMA SerialInductive ==
  ASSUME LoneWriter
  PROVE  Spec => []SerialInv
  <1>1. Init => SerialInv
    BY InitIInv, InitSerial DEF SerialInv
  <1>2. SerialInv /\ [Next]_vars => SerialInv'
    <2>1. IInv /\ [Next]_vars => IInv'
      BY StepTypeOK, StepHistoryDense, StepPinsResolve, StepReadsInHistory DEF IInv
    <2> QED
      BY <2>1, StepRowsInv, StepSetsGrow DEF SerialInv
  <1> QED
    BY <1>1, <1>2, PTL DEF Spec

(* resolve_policy reproduces for every citation exactly what the labeller
   read, as long as one writer is at work at a time.                       *)
THEOREM StorePinsReproduce ==
  ASSUME LoneWriter
  PROVE  Spec => []PinsReproduce
  <1>1. SerialInv => PinsReproduce
    BY DEF SerialInv, RowsInv, PinsSame, IInv, TypeOK, Pins, PinsResolve, PinsReproduce, Resolve
  <1> QED
    BY <1>1, SerialInductive, PTL

(* The row of a node and the snapshot of its version say the same, Korean
   included (update_structured_data keeps them in sync).                   *)
THEOREM StoreRowInHistory ==
  ASSUME LoneWriter
  PROVE  Spec => []RowInHistory
  BY SerialInductive, PTL DEF SerialInv, RowsInv

(* The initial store is the empty log.                                     *)
LEMMA InitRefines == Init => Abstract!Init
  <1> SUFFICES ASSUME Init PROVE Abstract!Init
    OBVIOUS
  <1>1. Log = [n \in Nodes |-> <<>>]
    BY DEF Init, Log
  <1>2. SetLog = <<>>
    <2>1. LastSet(0)
      BY DEF Init, LastSet
    <2>2. SetLog = [j \in 1..0 |-> policy_sets[j]]
      BY <2>1, SetLogEnds
    <2> QED
      BY <2>2
  <1>3. Cited = {}
    BY DEF Init, Cited
  <1> QED
    BY <1>1, <1>2, <1>3 DEF Abstract!Init

(* Every step is one of the log's, or changes nothing that it shows.       *)
LEMMA StepRefines ==
  ASSUME SerialInv, [Next]_vars
  PROVE  [Abstract!Next]_<<Log, SetLog, Cited>>
  <1>1. ASSUME NEW w \in Writers, UpsertCommit(w) PROVE Abstract!Next
    <2>1. PICK n \in Nodes, e \in LogEntries :
            Log' = [Log EXCEPT ![n] = Append(@, e)] /\ UNCHANGED <<SetLog, Cited>>
      BY <1>1, EditRefines DEF SerialInv
    <2>2. Abstract!Edit(n, e)
      BY <2>1 DEF Abstract!Edit
    <2> QED
      BY <2>2 DEF Abstract!Next, LogEntries
  <1>2. ASSUME NEW w \in Writers, UpdateCommit(w) PROVE UNCHANGED <<Log, SetLog, Cited>>
    BY <1>2, StampStutters DEF SerialInv
  <1>3. CASE UNCHANGED <<policies, policy_versions, policy_sets, pins>>
    BY <1>3 DEF Log, SnapOf, SetLog, LastSet, Cited
  <1>4. ASSUME NEW w \in Writers, WriterNext(w) PROVE [Abstract!Next]_<<Log, SetLog, Cited>>
    <2>1. CASE UpsertCommit(w)
      BY <1>1, <2>1
    <2>2. CASE UpdateCommit(w)
      BY <1>2, <2>2
    <2>3. CASE ~UpsertCommit(w) /\ ~UpdateCommit(w)
      BY <1>3, <1>4, <2>3 DEF WriterNext, UpsertGet, UpsertCheck, UpsertConflict, TranslateRead,
                              UpdateGet, UpdateCheck, Abort
    <2> QED
      BY <2>1, <2>2, <2>3
  <1>5. ASSUME NEW k \in Snapshotters, SnapNext(k) PROVE [Abstract!Next]_<<Log, SetLog, Cited>>
    <2>1. CASE SnapLast(k) \/ SnapActive(k)
      BY <1>3, <2>1 DEF SnapLast, SnapActive
    <2>2. CASE SnapInsert(k)
      <3>1. CASE UNCHANGED <<Log, SetLog, Cited>>
        BY <3>1
      <3>2. ASSUME NEW m \in [Nodes -> UNION {0..Len(Log[n]) : n \in Nodes}],
                   /\ \A n \in Nodes : m[n] <= Len(Log[n])
                   /\ SetLog # <<>> => \A n \in Nodes : SetLog[Len(SetLog)][n] <= m[n]
                   /\ SetLog' = Append(SetLog, m)
                   /\ UNCHANGED <<Log, Cited>>
            PROVE  Abstract!Next
        BY <3>2 DEF Abstract!Next, Abstract!Tag
      <3> QED
        BY <2>2, <3>1, <3>2, InsertRefines DEF SerialInv
    <2> QED
      BY <1>5, <2>1, <2>2 DEF SnapNext
  <1>6. ASSUME NEW n \in Nodes, Cite(n) PROVE Abstract!Next
    BY <1>6, CiteRefines DEF SerialInv, Abstract!Next, Abstract!Cite
  <1> QED
    BY <1>3, <1>4, <1>5, <1>6 DEF Next, vars

(* With one writer at a time, next to any number of snapshotters and
   labellers, the store is the append-only log of VersionedStore: each
   upsert_policy that commits appends one entry, each policy set names
   versions that exist and never goes back, and whoever cites a node cites
   its last entry.                                                         *)
THEOREM StoreImplementsLog ==
  ASSUME LoneWriter
  PROVE  Spec => ImplementsLog
  <1>1. Init => Abstract!Init
    BY InitRefines
  <1>2. SerialInv /\ [Next]_vars => [Abstract!Next]_<<Log, SetLog, Cited>>
    BY StepRefines
  <1> QED
    BY <1>1, <1>2, SerialInductive, PTL DEF Spec, ImplementsLog, Abstract!Spec
=============================================================================
