---------------------------- MODULE RunControl ----------------------------
(***************************************************************************)
(* RunTask (orchestrator/service.go): the staged real run -- a transaction *)
(* that marks it RUNNING, the worker outside any transaction, a            *)
(* transaction that records the result -- the no-op run, and the manual    *)
(* complete and interrupt actions.                                         *)
(***************************************************************************)
EXTENDS TaskStore

\* Variant with a fault: the gate looks at the brief and the phase only.
RunMayStartByPhase ==
  /\ caps.brief # 0
  /\ caps.phase = "BRIEF_READY"
  /\ Len(runs) < MaxRuns

\* The gate both kinds of run pass inside their transaction.
RunMayStart ==
  /\ caps.brief # 0
  /\ runStartEligibility(db, repo)
  /\ Len(runs) < MaxRuns

\* prepareRealRun: re-anchor, RUNNING run, EXECUTING, checkpoint before
\* execution; then Execute is called.
PrepareRealRun ==
  /\ MayBegin("run") /\ RunMayStart
  /\ runs' = Append(runs, [status |-> "RUNNING", brief |-> caps.brief])
  /\ caps' = [Bumped(caps, "EXECUTING") EXCEPT !.anchor = repo]
  /\ cp' = NewCheckpoint(caps', Len(runs'), TRUE, NoIssue)
  /\ workers' = workers \cup {Len(runs')}
  /\ UNCHANGED <<act, packets, lastRes, repo, pending, launches>>

\* Variant with a fault: the version is not moved.
CompleteRunUnversioned(id) ==
  /\ runs' = EndRun(id, "COMPLETED")
  /\ caps' = [caps EXCEPT !.phase = "VALIDATING"]
  /\ cp' = NewCheckpoint(caps', id, TRUE, NoIssue)

\* markRunCompleted, completeRun
CompleteRun(id) ==
  /\ runs' = EndRun(id, "COMPLETED")
  /\ caps' = Bumped(caps, "VALIDATING")
  /\ cp' = NewCheckpoint(caps', id, TRUE, NoIssue)

\* Variant with a fault: the phase is written for the status.
InterruptRunAsPaused(id) ==
  /\ runs' = EndRun(id, "PAUSED")
  /\ caps' = Bumped(caps, "PAUSED")
  /\ cp' = NewCheckpoint(caps', id, TRUE, NoIssue)

\* markRunFailed on a cancelled context, interruptRun
InterruptRun(id) ==
  /\ runs' = EndRun(id, "INTERRUPTED")
  /\ caps' = Bumped(caps, "PAUSED")
  /\ cp' = NewCheckpoint(caps', id, TRUE, NoIssue)

\* markRunFailed on any other error
FailRun(id) ==
  /\ runs' = EndRun(id, "FAILED")
  /\ caps' = Bumped(caps, "BLOCKED")
  /\ cp' = NewCheckpoint(caps', id, FALSE, NoIssue)

\* Variant with a fault: the run's status is not read again.
FinalizeRealRunUnchecked(id) ==
  /\ id \in workers
  /\ CompleteRun(id) \/ InterruptRun(id) \/ FailRun(id)
  /\ workers' = workers \ {id}
  /\ UNCHANGED <<act, packets, lastRes, repo, pending, launches>>

\* Variant with a fault: an execution error returns before the run is marked.
FinalizeRealRunLosesErrors(id) ==
  /\ id \in workers
  /\ runs[id].status = "RUNNING"
  /\ CompleteRun(id) \/ UNCHANGED <<runs, caps, cp>>
  /\ workers' = workers \ {id}
  /\ UNCHANGED <<act, packets, lastRes, repo, pending, launches>>

\* finalizeRealRun for a run that is still RUNNING.  The anchor is not
\* captured again: the checkpoint keeps the one from before the execution.
FinalizeRealRun(id) ==
  /\ id \in workers
  /\ runs[id].status = "RUNNING"
  /\ CompleteRun(id) \/ InterruptRun(id) \/ FailRun(id)
  /\ workers' = workers \ {id}
  /\ UNCHANGED <<act, packets, lastRes, repo, pending, launches>>

\* finalizeRealRun for a run that somebody else ended: an error, nothing of
\* the worker's result is recorded.
FinalizeRealRunRefused(id) ==
  /\ id \in workers
  /\ runs[id].status # "RUNNING"
  /\ workers' = workers \ {id}
  /\ UNCHANGED <<database, repo, pending, launches>>

\* startRunNoop: no worker and no re-anchoring.
StartRunNoop ==
  /\ MayBegin("noop") /\ RunMayStart
  /\ runs' = Append(runs, [status |-> "RUNNING", brief |-> caps.brief])
  /\ caps' = Bumped(caps, "EXECUTING")
  /\ cp' = NewCheckpoint(caps', Len(runs'), TRUE, NoIssue)
  /\ UNCHANGED <<act, packets, lastRes, repo, pending, workers, launches>>

\* startRunNoop with SimulateInterrupt: started and interrupted in one
\* transaction.
StartRunNoopInterrupted ==
  /\ MayBegin("noop") /\ RunMayStart
  /\ runs' = Append(runs, [status |-> "INTERRUPTED", brief |-> caps.brief])
  /\ caps' = Bumped(Bumped(caps, "EXECUTING"), "PAUSED")
  /\ cp' = [NewCheckpoint(caps', Len(runs'), TRUE, NoIssue) EXCEPT !.id = cp.id + 2]
  /\ UNCHANGED <<act, packets, lastRes, repo, pending, workers, launches>>

\* RunTask with action complete or interrupt: resolveRunForAction picks the
\* RUNNING run, real or no-op, whether or not its worker still executes.
ManualRunAction(id) ==
  /\ MayBegin("manual") /\ runs[id].status = "RUNNING"
  /\ CompleteRun(id) \/ InterruptRun(id)
  /\ UNCHANGED <<act, packets, lastRes, repo, pending, workers, launches>>

RunStep ==
  \/ PrepareRealRun
  \/ StartRunNoop
  \/ StartRunNoopInterrupted
  \/ \E id \in DOMAIN runs :
       FinalizeRealRun(id) \/ FinalizeRealRunRefused(id) \/ ManualRunAction(id)

=============================================================================
