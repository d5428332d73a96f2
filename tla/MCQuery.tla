------------------------------ MODULE MCQuery ------------------------------
(* A built volume ending inside a block, and one appended after a gap. *)
EXTENDS Query

MCVolumes == {[built |-> 6, appended |-> 6, n |-> 6],
              [built |-> 3, appended |-> 6, n |-> 8]}

=============================================================================
