-------------------------- MODULE ContinueControl --------------------------
(***************************************************************************)
(* ContinueTask (orchestrator/service.go): an assessment outside any       *)
(* transaction, and, when it asks for a mutation, a transaction that acts  *)
(* on it if the capsule version is still the assessed one.                 *)
(***************************************************************************)
EXTENDS TaskStore

\* ContinueTask: a safe outcome mutates only when the next run is ready.
ContinueMutates(d, anchor) ==
  /\ RequiresMutation(d, anchor)
  /\ ContinueOutcome(d, anchor) = "Safe" =>
       RecoveryClass(d, anchor) = "READY_NEXT_RUN"

ContinueAssessment(d, anchor) ==
  [Idle EXCEPT !.op = "continue", !.ver = d.caps.ver, !.anchor = anchor,
               !.outcome = ContinueOutcome(d, anchor),
               !.reason = ContinueReason(d), !.run = LatestRunID(d)]

\* assessContinue.  An assessment without mutation answers the request and
\* writes proof events only (recordNoMutationContinueOutcome).
AssessContinue(c) ==
  /\ Free(c, "continue")
  /\ ContinueMutates(db, repo)
  /\ pending' = [pending EXCEPT ![c] = ContinueAssessment(db, repo)]
  /\ UNCHANGED <<database, repo, workers, launches>>

(***************************************************************************)
(* The snapshot after each transaction of finalizeContinue, from the       *)
(* snapshot d with the capsule k the transaction works on.                 *)
(***************************************************************************)
Recorded(d, k, run, resumable, reason) ==
  [d EXCEPT !.caps = k, !.cp = Checkpoint(d.cp.id + 1, k, run, resumable, reason)]

blockedContinueByInconsistency(d, k, reason) ==
  Recorded(d, Bumped(k, "BLOCKED"), 0, FALSE, reason)

\* blockedContinueByDrift and awaitDecisionOnContinue leave the same state.
awaitDecisionOnContinue(d, k) ==
  Recorded(d, Bumped(k, "AWAITING_DECISION"), 0, FALSE, NoIssue)

\* Variant with a fault: the checkpoint is taken before the version moves.
safeContinueEarly(d, k, run) ==
  [Recorded(d, k, run, TRUE, NoIssue) EXCEPT !.caps = Bumped(k, k.phase)]

safeContinue(d, k, run) == Recorded(d, Bumped(k, k.phase), run, TRUE, NoIssue)

reconcileStaleRun(d, k, run) ==
  [Recorded(d, Bumped(k, "PAUSED"), run, TRUE, NoIssue)
     EXCEPT !.runs = [d.runs EXCEPT ![run].status = "INTERRUPTED"]]

\* finalizeContinue for the assessment p: a moved version blocks the task;
\* otherwise the capsule takes the assessed anchor, the outcome decides.
finalizeContinue(d, p) ==
  LET k == [d.caps EXCEPT !.anchor = p.anchor]
  IN IF p.ver # d.caps.ver
     THEN blockedContinueByInconsistency(d, d.caps, VersionChanged(p.ver, d.caps.ver))
     ELSE CASE p.outcome = "StaleReconciled" ->
                 IF d.runs[p.run].status = "RUNNING"
                 THEN reconcileStaleRun(d, k, p.run)
                 ELSE blockedContinueByInconsistency(d, k,
                        Issue(98, d.runs[p.run].status, p.run, 0))
            [] p.outcome \in {"BlockedDrift", "NeedsDecision"} ->
                 awaitDecisionOnContinue(d, k)
            [] p.outcome = "BlockedInconsistent" ->
                 blockedContinueByInconsistency(d, k, p.reason)
            [] p.outcome = "Safe" -> safeContinue(d, k, p.run)

\* ContinueTask's transaction.
FinalizeContinue(c) ==
  LET after == finalizeContinue(db, pending[c])
  IN /\ pending[c].op = "continue"
     /\ caps' = after.caps
     /\ runs' = after.runs
     /\ cp' = after.cp
     /\ Done(c)
     /\ UNCHANGED <<act, packets, lastRes, repo, workers, launches>>

\* ContinueTask from start to end with nobody in between.
ContinueTask(d, anchor) ==
  IF ContinueMutates(d, anchor)
  THEN finalizeContinue(d, ContinueAssessment(d, anchor))
  ELSE d

ContinueStep ==
  \E c \in Clients :
    AssessContinue(c) \/ FinalizeContinue(c)

=============================================================================
