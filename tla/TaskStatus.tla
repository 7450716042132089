----------------------------- MODULE TaskStatus -----------------------------
(***************************************************************************)
(* The life of a task: its statuses and the table of permitted steps that  *)
(* every checked transition of the database consults.                      *)
(***************************************************************************)
EXTENDS FiniteSets

Status ==
    {"draft", "ready", "leased", "planning", "awaiting_approval", "running",
     "verifying", "review", "completed", "paused", "blocked", "failed",
     "cancelled", "superseded"}

\* Statuses no transition leaves.
Terminal == {"completed", "cancelled", "superseded"}

\* The statuses that the table lists after each status.
Successors(from) ==
    CASE from = "draft" -> {"ready", "cancelled", "superseded"}
      [] from = "ready" -> {"leased", "paused", "cancelled", "superseded"}
      [] from = "leased" -> {"planning", "paused", "failed"}
      [] from = "planning" ->
            {"awaiting_approval", "running", "paused", "blocked", "failed"}
      [] from = "awaiting_approval" -> {"running", "paused", "cancelled"}
      [] from = "running" ->
            {"verifying", "paused", "blocked", "failed", "cancelled"}
      [] from = "verifying" -> {"review", "failed"}
      [] from = "review" -> {"completed", "ready", "cancelled"}
      [] from \in {"paused", "blocked", "failed"} -> {"ready", "cancelled"}
      [] OTHER -> {}

CanTransition(from, to) == to \in Successors(from)

\* Fault: recovery forgets tasks whose agent has exited.
RecoverableButVerifying == {"leased", "planning", "awaiting_approval", "running"}

\* The statuses in which an unreleased, expired run lease is recovered.
Recoverable ==
    {"leased", "planning", "awaiting_approval", "running", "verifying"}

=============================================================================
