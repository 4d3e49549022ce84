----------------------------- MODULE MCCliCollab -----------------------------
(* One session's message delivery, for TLC. *)
EXTENDS CliCollab

=============================================================================
