---------------------------- MODULE MCLabellingGraph ----------------------------
(* Small instances of LabellingGraph for TLC.                              *)
EXTENDS LabellingGraph

CONSTANTS cut1   \* the segmentation of the video

FiveShots == [i \in 1..5 |-> cut1]

=============================================================================
