------------------------------ MODULE MCProjection ----------------------------
(***************************************************************************)
(* A small instance of Projection: a command line and two daemons.         *)
(***************************************************************************)
EXTENDS Projection, TLC

CONSTANTS p1, p2, p3

AnyProcess == Permutations(Proc)

=============================================================================
