------------------------------ MODULE MCDaemon ------------------------------
(* Instances of Daemon for TLC. *)
EXTENDS Daemon, TLC

CONSTANTS c1, c2, c3

\* The first connection arrives on the socket file, the others over TCP.
MCTransport == [c \in Connections |-> IF c = c1 THEN "unix" ELSE "tcp"]

Symmetry == Permutations(Workers)
=============================================================================
