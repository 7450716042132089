---------------------------- MODULE MCProcessTree ---------------------------
(***************************************************************************)
(* Instances of ProcessTree: a child with two descendants.                 *)
(***************************************************************************)
EXTENDS ProcessTree

CONSTANTS child, d1, d2

AllDeaf    == {child, d2}
OneShy     == {d2}

=============================================================================
