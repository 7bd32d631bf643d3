----------------------------- MODULE MCReceipts -----------------------------
(* Small instances of TransitionReceipts for TLC. *)
EXTENDS TransitionReceipts

CONSTANTS c1, r1

Base == [branch |-> "main", head |-> "a", dirty |-> FALSE]
QuietRepo == {Base}

\* Everything about handoffs that writes a receipt or changes what it says.
AuditOperations ==
  {"message", "handoff", "accept", "launch", "follow", "resolve", "crash"}
=============================================================================
