----------------------------- MODULE Documented -----------------------------
(***************************************************************************)
(* A statement of the project's documents about the control plane that its *)
(* code does not keep, checked by a run that TLC ends with a counterexample.*)
(***************************************************************************)
EXTENDS ControlPlane

\* docs/phase-2-plan.md:73, ceilings are "enforced and released during
\* recovery": what a dead process holds is released some day.  Recovery only
\* looks at tasks in flight, not at those that reached review or failed.
HoldersLetGo == \A c \in Claim : Holding(c) ~> ~Holding(c)

=============================================================================
