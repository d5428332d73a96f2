--------------------------- MODULE MCVolumeAppend ---------------------------
(* Instances of VolumeAppend for TLC. *)
EXTENDS VolumeAppend, TLC

Symmetry == Permutations(Appenders) \cup Permutations(Readers)
=============================================================================
