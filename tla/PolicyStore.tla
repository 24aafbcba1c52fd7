------------------------------ MODULE PolicyStore ------------------------------
(***************************************************************************)
(* The versioned policy store, packages/tools/tools/policy_store.py.       *)
(*                                                                         *)
(* A policy node is a row of `policies` (its current version) and one row  *)
(* of `policy_versions` per version.  Every function of the store opens a  *)
(* database session of its own; a session takes no row lock and runs at    *)
(* READ COMMITTED with autoflush off (db/db/base.py), so each SELECT sees  *)
(* what is committed when it runs and every write happens at the commit.   *)
(* A session is therefore modelled as one step per SELECT and one step for *)
(* the commit, and the steps of different sessions interleave: the HTTP    *)
(* routes run in a thread pool, next to the labelling tasks and the        *)
(* training and bootstrap scripts.                                         *)
(*                                                                         *)
(* What an edit says is an element of Contents.  `text` and the English    *)
(* part `src` of `structured_data` are kept apart, for an in-place update  *)
(* of structured_data touches only the second.  The Korean rendering is    *)
(* always one of the `src` stored beside it; what is kept of it is the     *)
(* version it was stamped with (`_src_version`), 0 when there is none.     *)
(* The embedding is left out: no property tells one from another, and an   *)
(* embedding server that is down never blocks a write.                     *)
(***************************************************************************)
EXTENDS Integers, FiniteSets

CONSTANTS
  Nodes,         \* policy ids
  Contents,      \* what the author of an edit may write
  Writers,       \* threads that edit or translate nodes
  Snapshotters,  \* threads that tag the tree as a policy set
  MaxVersion,    \* bound: versions a node may reach
  MaxSets,       \* bound: policy sets taken
  MaxPins,       \* bound: distinct pins recorded
  NoRow          \* what a SELECT that finds nothing returns

Versions == 1..MaxVersion
Data     == [src : Contents, stamp : 0..MaxVersion]
Rows     == [version : Versions, text : Contents, data : Data]
Snaps    == [text : Contents, data : Data]
SetMaps  == [Nodes -> 0..MaxVersion]

ASSUME BoundsAssumption == MaxVersion \in Nat \ {0} /\ MaxSets \in Nat \ {0} /\ MaxPins \in Nat
ASSUME NoRowAssumption  == NoRow \notin Rows \cup Snaps \cup SetMaps

VARIABLES
  policies,         \* the current row of each node
  policy_versions,  \* the history: the row of each node at each version
  policy_sets,      \* the policy sets, by number
  txn,              \* what each writer's session holds
  snap,             \* what each snapshotter's session holds
  pins              \* what labels cited: the pin and what the labeller read

vars == <<policies, policy_versions, policy_sets, txn, snap, pins>>

Idle == [pc |-> "idle"]

Txns == [pc : {"embed", "flush", "llm", "sync", "update"}, node : Nodes, read : Rows \cup {NoRow},
         seen : Snaps \cup {NoRow}, text : Contents, data : Data]

SnapTxns == [pc : {"active", "insert"}, last : 0..MaxSets, active : SetMaps]

Pins == [node : Nodes, version : Versions, text : Contents, src : Contents]

Init ==
  /\ policies = [n \in Nodes |-> NoRow]
  /\ policy_versions = [n \in Nodes |-> [v \in Versions |-> NoRow]]
  /\ policy_sets = [i \in 1..MaxSets |-> NoRow]
  /\ txn = [w \in Writers |-> Idle]
  /\ snap = [k \in Snapshotters |-> Idle]
  /\ pins = {}

-----------------------------------------------------------------------------
(* Helpers.                                                                *)

(* An edit starts from structured_data without a Korean payload.           *)
Fresh(c) == [src |-> c, stamp |-> 0]

(* Faults for checking the properties: the bump is forgotten, or done twice. *)
NextVersionStuck(r) == IF r = NoRow THEN 1 ELSE r.version
NextVersionTwice(r) == IF r = NoRow THEN 1 ELSE r.version + 2

(* The version an edit that read row r gives the node.                     *)
NextVersion(r) == IF r = NoRow THEN 1 ELSE r.version + 1

(* The value a column has after an UPDATE: the flush sends a column only   *)
(* when the session changed it from what it had loaded.                    *)
Column(new, loaded, current) == IF new = loaded THEN current ELSE new

(* The Korean payload is missing or stamped for another version.           *)
NeedsTranslation(r) == r.data.stamp # r.version

(* What resolve_policy returns for a pin: the historical row, and the      *)
(* current one for a version that history does not have.                   *)
Resolve(n, v) ==
  IF policy_versions[n][v] # NoRow THEN policy_versions[n][v]
  ELSE [text |-> policies[n].text, data |-> policies[n].data]

-----------------------------------------------------------------------------
(* upsert_policy: read the row, embed the text, look for a snapshot of the *)
(* next version, write both tables in one transaction.                     *)

UpsertGet(w, n, c) ==
  /\ txn[w] = Idle
  /\ NextVersion(policies[n]) <= MaxVersion
  /\ txn' = [txn EXCEPT ![w] = [pc |-> "embed", node |-> n, read |-> policies[n],
                                seen |-> NoRow, text |-> c, data |-> Fresh(c)]]
  /\ UNCHANGED <<policies, policy_versions, policy_sets, snap, pins>>

(* Fault: the question is asked before the version is bumped.              *)
UpsertCheckEarly(w) ==
  /\ txn[w].pc = "embed"
  /\ LET t == txn[w]
     IN  txn' = [txn EXCEPT ![w].pc = "flush",
                            ![w].seen = IF t.read = NoRow THEN NoRow
                                        ELSE policy_versions[t.node][t.read.version]]
  /\ UNCHANGED <<policies, policy_versions, policy_sets, snap, pins>>

(* The embedding call is over; the session asks policy_versions.           *)
UpsertCheck(w) ==
  /\ txn[w].pc = "embed"
  /\ txn' = [txn EXCEPT ![w].pc = "flush",
                        ![w].seen = policy_versions[txn[w].node][NextVersion(txn[w].read)]]
  /\ UNCHANGED <<policies, policy_versions, policy_sets, snap, pins>>

(* A key the session is about to insert was inserted by someone else.      *)
Conflict(t) ==
  \/ t.read = NoRow /\ policies[t.node] # NoRow
  \/ t.seen = NoRow /\ policy_versions[t.node][NextVersion(t.read)] # NoRow

(* The row after the flush: an INSERT, or an UPDATE of changed columns.    *)
Flushed(t) ==
  LET cur == policies[t.node]
  IN  IF t.read = NoRow
      THEN [version |-> 1, text |-> t.text, data |-> t.data]
      ELSE [version |-> NextVersion(t.read),
            text    |-> Column(t.text, t.read.text, cur.text),
            data    |-> Column(t.data, t.read.data, cur.data)]

(* Faults: only edits are snapshotted; a snapshot found is overwritten.    *)
UpsertCommitEditsOnly(w) ==
  LET t == txn[w]
  IN  /\ t.pc = "flush"
      /\ ~Conflict(t)
      /\ policies' = [policies EXCEPT ![t.node] = Flushed(t)]
      /\ policy_versions' =
           IF t.seen # NoRow \/ t.read = NoRow THEN policy_versions
           ELSE [policy_versions EXCEPT ![t.node][NextVersion(t.read)] =
                   [text |-> t.text, data |-> t.data]]
      /\ txn' = [txn EXCEPT ![w] = Idle]
      /\ UNCHANGED <<policy_sets, snap, pins>>

UpsertCommitMerge(w) ==
  LET t == txn[w]
  IN  /\ t.pc = "flush"
      /\ ~Conflict(t)
      /\ policies' = [policies EXCEPT ![t.node] = Flushed(t)]
      /\ policy_versions' = [policy_versions EXCEPT ![t.node][NextVersion(t.read)] =
                               [text |-> t.text, data |-> t.data]]
      /\ txn' = [txn EXCEPT ![w] = Idle]
      /\ UNCHANGED <<policy_sets, snap, pins>>

UpsertCommit(w) ==
  LET t == txn[w]
      v == NextVersion(t.read)
  IN  /\ t.pc = "flush"
      /\ ~Conflict(t)
      /\ policies' = [policies EXCEPT ![t.node] = Flushed(t)]
      /\ policy_versions' =
           IF t.seen # NoRow THEN policy_versions
           ELSE [policy_versions EXCEPT ![t.node][v] = [text |-> t.text, data |-> t.data]]
      /\ txn' = [txn EXCEPT ![w] = Idle]
      /\ UNCHANGED <<policy_sets, snap, pins>>

(* IntegrityError: the primary key of policies or the unique constraint of *)
(* policy_versions undoes the whole transaction.                           *)
UpsertConflict(w) ==
  /\ txn[w].pc = "flush"
  /\ Conflict(txn[w])
  /\ txn' = [txn EXCEPT ![w] = Idle]
  /\ UNCHANGED <<policies, policy_versions, policy_sets, snap, pins>>

-----------------------------------------------------------------------------
(* translate_policy_node: read the node, ask the language model, and store *)
(* the old English with the Korean through update_structured_data.  An     *)
(* edit that commits during the model call loses its English to the old    *)
(* one: one reason more why the serial properties below need one writer.   *)

(* Fault: the Korean is stamped for the version to come.                   *)
TranslateReadAhead(w, n) ==
  /\ txn[w] = Idle
  /\ policies[n] # NoRow
  /\ NeedsTranslation(policies[n])
  /\ LET r == policies[n]
     IN  txn' = [txn EXCEPT ![w] =
                   [pc |-> "llm", node |-> n, read |-> r, seen |-> NoRow, text |-> r.text,
                    data |-> [src |-> r.data.src, stamp |-> r.version + 1]]]
  /\ UNCHANGED <<policies, policy_versions, policy_sets, snap, pins>>

TranslateRead(w, n) ==
  /\ txn[w] = Idle
  /\ policies[n] # NoRow
  /\ NeedsTranslation(policies[n])
  /\ LET r == policies[n]
     IN  txn' = [txn EXCEPT ![w] =
                   [pc |-> "llm", node |-> n, read |-> r, seen |-> NoRow, text |-> r.text,
                    data |-> [src |-> r.data.src, stamp |-> r.version]]]
  /\ UNCHANGED <<policies, policy_versions, policy_sets, snap, pins>>

(* update_structured_data loads the row as it is now ...                   *)
UpdateGet(w) ==
  /\ txn[w].pc = "llm"
  /\ policies[txn[w].node] # NoRow
  /\ txn' = [txn EXCEPT ![w].pc = "sync", ![w].read = policies[txn[w].node]]
  /\ UNCHANGED <<policies, policy_versions, policy_sets, snap, pins>>

(* ... then the snapshot of the version that row had.                      *)
UpdateCheck(w) ==
  /\ txn[w].pc = "sync"
  /\ txn' = [txn EXCEPT ![w].pc = "update",
                        ![w].seen = policy_versions[txn[w].node][txn[w].read.version]]
  /\ UNCHANGED <<policies, policy_versions, policy_sets, snap, pins>>

(* Fault: the snapshot is not kept in sync.                               *)
UpdateCommitRowOnly(w) ==
  /\ txn[w].pc = "update"
  /\ policies' = [policies EXCEPT ![txn[w].node].data = txn[w].data]
  /\ txn' = [txn EXCEPT ![w] = Idle]
  /\ UNCHANGED <<policy_versions, policy_sets, snap, pins>>

UpdateCommit(w) ==
  LET t == txn[w]
      v == t.read.version
  IN  /\ t.pc = "update"
      /\ policies' = [policies EXCEPT ![t.node].data = Column(t.data, t.read.data, @)]
      /\ policy_versions' =
           IF t.seen = NoRow THEN policy_versions
           ELSE [policy_versions EXCEPT ![t.node][v].data = Column(t.data, t.seen.data, @)]
      /\ txn' = [txn EXCEPT ![w] = Idle]
      /\ UNCHANGED <<policy_sets, snap, pins>>

(* The model call fails, the connection drops, the process dies: nothing   *)
(* of an open transaction remains.                                         *)
Abort(w) ==
  /\ txn[w] # Idle
  /\ txn' = [txn EXCEPT ![w] = Idle]
  /\ UNCHANGED <<policies, policy_versions, policy_sets, snap, pins>>

-----------------------------------------------------------------------------
(* snapshot_policy_set: the highest number, then the versions of the       *)
(* active nodes, then the INSERT of number + 1.                            *)

LastSet(i) ==
  /\ i > 0 => policy_sets[i] # NoRow
  /\ \A j \in (i + 1)..MaxSets : policy_sets[j] = NoRow

SnapLast(k) ==
  /\ snap[k] = Idle
  /\ \E i \in 0..(MaxSets - 1) :
       /\ LastSet(i)
       /\ snap' = [snap EXCEPT ![k] = [pc |-> "active", last |-> i,
                                       active |-> [n \in Nodes |-> 0]]]
  /\ UNCHANGED <<policies, policy_versions, policy_sets, txn, pins>>

SnapActive(k) ==
  /\ snap[k].pc = "active"
  /\ snap' = [snap EXCEPT ![k].pc = "insert",
                          ![k].active = [n \in Nodes |-> IF policies[n] = NoRow THEN 0
                                                         ELSE policies[n].version]]
  /\ UNCHANGED <<policies, policy_versions, policy_sets, txn, pins>>

(* Fault: the number is drawn at the INSERT, after the versions were read. *)
SnapInsertLate(k) ==
  /\ snap[k].pc = "insert"
  /\ policy_sets' = [policy_sets EXCEPT ![(CHOOSE i \in 0..MaxSets : LastSet(i)) + 1] =
                       snap[k].active]
  /\ snap' = [snap EXCEPT ![k] = Idle]
  /\ UNCHANGED <<policies, policy_versions, txn, pins>>

(* Two sessions that computed the same number: the primary key lets only   *)
(* the first one in, the other call fails.                                 *)
SnapInsert(k) ==
  LET i == snap[k].last + 1
  IN  /\ snap[k].pc = "insert"
      /\ policy_sets' = IF policy_sets[i] # NoRow THEN policy_sets
                        ELSE [policy_sets EXCEPT ![i] = snap[k].active]
      /\ snap' = [snap EXCEPT ![k] = Idle]
      /\ UNCHANGED <<policies, policy_versions, txn, pins>>

-----------------------------------------------------------------------------
(* A labelling task reads a node with get_policy_tree, judges a shot by    *)
(* what it read, and cites (policy_id, version) on the label.              *)
Cite(n) ==
  LET r == policies[n]
  IN  /\ r # NoRow
      /\ Cardinality(pins) < MaxPins
      /\ pins' = pins \cup {[node |-> n, version |-> r.version, text |-> r.text,
                             src |-> r.data.src]}
      /\ UNCHANGED <<policies, policy_versions, policy_sets, txn, snap>>

-----------------------------------------------------------------------------
WriterNext(w) ==
  \/ \E n \in Nodes, c \in Contents : UpsertGet(w, n, c)
  \/ UpsertCheck(w)
  \/ UpsertCommit(w)
  \/ UpsertConflict(w)
  \/ \E n \in Nodes : TranslateRead(w, n)
  \/ UpdateGet(w)
  \/ UpdateCheck(w)
  \/ UpdateCommit(w)
  \/ Abort(w)

SnapNext(k) == SnapLast(k) \/ SnapActive(k) \/ SnapInsert(k)

Next ==
  \/ \E w \in Writers : WriterNext(w)
  \/ \E k \in Snapshotters : SnapNext(k)
  \/ \E n \in Nodes : Cite(n)

Spec == Init /\ [][Next]_vars

-----------------------------------------------------------------------------
(* The types of what is stored and of what the sessions hold
   (policy_store.py and db/models.py).                                     *)
TypeOK ==
  /\ policies \in [Nodes -> Rows \cup {NoRow}]
  /\ policy_versions \in [Nodes -> [Versions -> Snaps \cup {NoRow}]]
  /\ policy_sets \in [1..MaxSets -> SetMaps \cup {NoRow}]
  /\ txn \in [Writers -> Txns \cup {Idle}]
  /\ snap \in [Snapshotters -> SnapTxns \cup {Idle}]
  /\ pins \in SUBSET Pins

(* History has no holes: when a version of a node has its snapshot, so has
   every earlier one, and the current row's version is one of them.  It
   holds for any number of writers, because a writer only ever numbers its
   version one above a version it has read (upsert_policy).                *)
HistoryDense ==
  \A n \in Nodes :
    /\ \A v \in Versions, u \in Versions :
         u < v /\ policy_versions[n][v] # NoRow => policy_versions[n][u] # NoRow
    /\ policies[n] # NoRow => policy_versions[n][policies[n].version] # NoRow

(* resolve_policy never takes its fallback: a version a label cites or a
   policy set names is in the history of its node.                         *)
PinsResolve ==
  /\ \A p \in pins : policy_versions[p.node][p.version] # NoRow
  /\ \A i \in 1..MaxSets : policy_sets[i] # NoRow =>
       \A n \in Nodes : policy_sets[i][n] # 0 =>
         policy_versions[n][policy_sets[i][n]] # NoRow

(* What a session has read stays in the history until it writes, and the
   number an upsert will give is within reach of that history: the fact
   that makes HistoryDense survive overlapping sessions.                   *)
ReadsInHistory ==
  /\ \A w \in Writers : txn[w] # Idle =>
       LET t == txn[w]
       IN  /\ t.read # NoRow => /\ policies[t.node] # NoRow
                               /\ policy_versions[t.node][t.read.version] # NoRow
           /\ t.pc \in {"embed", "flush"} => NextVersion(t.read) \in Versions
           /\ t.pc = "flush" /\ t.seen # NoRow =>
                policy_versions[t.node][NextVersion(t.read)] # NoRow
           /\ t.pc \in {"llm", "sync", "update"} => t.read # NoRow
  /\ \A k \in Snapshotters : snap[k] # Idle =>
       /\ snap[k].last < MaxSets
       /\ \A n \in Nodes : snap[k].active[n] # 0 =>
            policy_versions[n][snap[k].active[n]] # NoRow

(* The text of a snapshot is never rewritten and a snapshot is never lost,
   whatever overlaps: policy_versions is append-only up to structured_data. *)
HistoryTextFrozen ==
  [][\A n \in Nodes, v \in Versions : policy_versions[n][v] # NoRow =>
       /\ policy_versions'[n][v] # NoRow
       /\ policy_versions'[n][v].text = policy_versions[n][v].text]_vars

(* resolve_policy reproduces for every citation exactly what the labeller
   read ("the text as it was at that version").  It needs writers that do
   not overlap: see the violation run store_pins.                          *)
PinsReproduce ==
  \A p \in pins :
    LET h == Resolve(p.node, p.version)
    IN  h.text = p.text /\ h.data.src = p.src

(* The Korean stored with the current version of a node is served from its
   snapshot too: row and snapshot agree, payload included
   (update_structured_data keeps "the current-version history in sync").   *)
RowInHistory ==
  \A n \in Nodes : policies[n] # NoRow =>
    LET h == policy_versions[n][policies[n].version]
    IN  h.text = policies[n].text /\ h.data = policies[n].data

(* The append-only log this store implements while writers do not overlap. *)
SnapOf(n, v) == [text |-> policy_versions[n][v].text, src |-> policy_versions[n][v].data.src]

Log == [n \in Nodes |-> IF policies[n] = NoRow THEN <<>>
                        ELSE [v \in 1..policies[n].version |-> SnapOf(n, v)]]

SetLog == LET last == CHOOSE i \in 0..MaxSets : LastSet(i)
          IN  [i \in 1..last |-> policy_sets[i]]

Cited == {[node |-> p.node, version |-> p.version, entry |-> [text |-> p.text, src |-> p.src]]
            : p \in pins}

Abstract == INSTANCE VersionedStore
              WITH Entries <- {[text |-> c, src |-> c] : c \in Contents},
                   log <- Log, sets <- SetLog, cited <- Cited

(* The store implements the append-only log: every step appends one entry,
   tags one set, makes one citation, or changes nothing a reader sees.     *)
ImplementsLog == Abstract!Spec

=============================================================================
