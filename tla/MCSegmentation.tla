----------------------------- MODULE MCSegmentation -----------------------------
(* Small instances of Segmentation for TLC.                                *)
EXTENDS Segmentation, TLC

Interchangeable == Permutations(Summaries)

=============================================================================
