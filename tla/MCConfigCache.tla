--------------------------- MODULE MCConfigCache ---------------------------
(* Instances of ConfigCache for TLC. *)
EXTENDS ConfigRefinement, TLC

CONSTANTS i1, i2, d1, d2

\* All dialers ask for the same instance.
OneTarget == [d \in Dialers |-> i1]

\* Each dialer asks for an instance of its own.
TwoTargets == d1 :> i1 @@ d2 :> i2

DialerSymmetry == Permutations({d1, d2})
=============================================================================
