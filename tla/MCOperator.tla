----------------------------- MODULE MCOperator -----------------------------
(* Small instances of OperatorStep for TLC. *)
EXTENDS OperatorStep

CONSTANTS c1, c2, r1

Base == [branch |-> "main", head |-> "a", dirty |-> FALSE]
Moved == [branch |-> "topic", head |-> "a", dirty |-> TRUE]
Unreadable == [branch |-> "", head |-> "", dirty |-> FALSE]

QuietRepo == {Base}
\* From Base to Moved and back drift is major; with Unreadable on one side it
\* is none or, by the dirty flag alone, minor.
DriftingRepo == {Base, Moved, Unreadable}

\* Everything about the local lineage.
LocalOperations ==
  {"message", "checkpoint", "run", "manual", "continue", "record",
   "rebrief", "resume", "finalize", "crash"}

\* Runs, recovery and handoffs together.
HandoffOperations ==
  {"message", "run", "manual", "record", "resume", "finalize", "rebrief",
   "handoff", "accept", "launch", "resolve", "crash"}

=============================================================================
