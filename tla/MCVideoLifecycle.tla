---------------------------- MODULE MCVideoLifecycle ----------------------------
(* Small instances of VideoLifecycle for TLC.                              *)
EXTENDS VideoLifecycle

CONSTANTS
  cut0,    \* the segmentation of a video that was ingested before
  c, g     \* a labelling call and an ingestion

OneRow  == <<cut0>>
TwoRows == <<cut0, cut0>>

(* A request to ingest the video, and one to label it.                     *)
TwoRuns == [ingest |-> <<g>>, label |-> <<c>>]
NoRuns  == [r \in {} |-> <<>>]

=============================================================================
