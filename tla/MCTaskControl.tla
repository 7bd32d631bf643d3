-------------------------- MODULE MCTaskControl --------------------------
(* A small instance of TaskControl for TLC. *)
EXTENDS TaskControl

CONSTANTS c1, c2, r1

Base == [branch |-> "main", head |-> "a", dirty |-> FALSE]

QuietRepo == {Base}

\* A daemon that does not crash.
SteadyOperations ==
  {"message", "checkpoint", "run", "noop", "manual", "continue", "record", "rebrief",
   "resume", "finalize", "handoff", "accept", "launch", "follow", "resolve"}

=============================================================================
