--------------------------- MODULE MCConnections ---------------------------
(* Instances of Connections for TLC. *)
EXTENDS Connections, TLC

CONSTANTS c1, c2, i1

\* All connections are for one instance.
OneId == [c \in Conns |-> i1]

ConnSymmetry == Permutations(Conns)
=============================================================================
