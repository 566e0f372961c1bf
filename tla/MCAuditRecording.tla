-------------------------- MODULE MCAuditRecording --------------------------
(* AuditRecording with few removals, and what the documentation says of it *)
EXTENDS AuditRecording

\* docs/organizations-and-audit.md: "Entries with a recording have a Replay
\* session recording button", which the page shows for hasRecording.
ReplayOffered == Settled /\ entry /\ gz = "full" => has
=============================================================================
