---------------------------- MODULE MCTornReads ----------------------------
(* Small instances of TornReads for TLC. *)
EXTENDS TornReads

CONSTANTS c1, c2, r1

Base == [branch |-> "main", head |-> "a", dirty |-> FALSE]
QuietRepo == {Base}

\* What commits under a reader of the local lineage.
TornOperations ==
  {"message", "checkpoint", "run", "noop", "manual", "continue", "record", "rebrief",
   "resume", "finalize", "handoff", "crash"}

=============================================================================
