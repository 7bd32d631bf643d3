----------------------------- MODULE Recovery -----------------------------
(***************************************************************************)
(* From the continuity assessment to what the operator may do next         *)
(* (recovery.go, handoff_continuity.go, launch_control.go,                 *)
(* branch_provenance.go, operator_action_authority.go): the state of the   *)
(* active Claude handoff, the recovery class, the way the latest recovery  *)
(* action moves that class, and the gates in front of local operations.    *)
(* Pure functions of a snapshot d and the captured anchor.                 *)
(***************************************************************************)
EXTENDS Continuity

RecoveryClasses ==
  {"READY_NEXT_RUN", "INTERRUPTED_RUN_RECOVERABLE",
   "ACCEPTED_HANDOFF_LAUNCH_READY", "HANDOFF_LAUNCH_PENDING_OUTCOME",
   "HANDOFF_LAUNCH_COMPLETED", "HANDOFF_FOLLOW_THROUGH_REVIEW_REQUIRED",
   "FAILED_RUN_REVIEW_REQUIRED", "VALIDATION_REVIEW_REQUIRED",
   "STALE_RUN_RECONCILIATION_REQUIRED", "DECISION_REQUIRED",
   "CONTINUE_EXECUTION_REQUIRED", "BLOCKED_DRIFT", "REPAIR_REQUIRED",
   "REBRIEF_REQUIRED"}

\* The kinds an operator can record (prepareRecoveryActionRecord).
RecordableKinds ==
  {"FAILED_RUN_REVIEWED", "INTERRUPTED_RUN_REVIEWED", "VALIDATION_REVIEWED",
   "DECISION_CONTINUE", "DECISION_REGENERATE_BRIEF",
   "REPAIR_INTENT_RECORDED", "PENDING_LAUNCH_REVIEWED"}

\* The kinds written by ExecuteInterruptedResume and ExecuteContinueRecovery.
ExecutedKinds == {"INTERRUPTED_RESUME_EXECUTED", "CONTINUE_EXECUTED"}

ActionKinds == {"NONE"} \cup RecordableKinds \cup ExecutedKinds

FollowKinds == {"PROOF_OF_LIFE", "CONFIRMED", "UNKNOWN", "STALLED"}

----------------------------------------------------------------------------
(***************************************************************************)
(* assessHandoffContinuity over assessLaunchControl.  Its callers pass the *)
(* active packet, which is accepted and unresolved by construction, or     *)
(* none (id 0); every packet targets Claude.                               *)
(***************************************************************************)
assessHandoffContinuity(d, id) ==
  IF id = 0 \/ ~d.packets[id].resumable THEN "NOT_APPLICABLE"
  ELSE LET p == d.packets[id]
       IN CASE p.launch = "NONE"      -> "ACCEPTED_NOT_LAUNCHED"
            [] p.launch = "REQUESTED" -> "LAUNCH_PENDING_OUTCOME"
            [] p.launch = "FAILED"    -> "LAUNCH_FAILED_RETRYABLE"
            [] p.launch = "COMPLETED" /\ p.ack = "NONE" ->
                 "LAUNCH_COMPLETED_ACK_MISSING"
            [] p.launch = "COMPLETED" /\ p.ack # "NONE" /\ p.follow = "NONE" ->
                 "LAUNCH_COMPLETED"
            [] OTHER -> "FOLLOW_THROUGH"

\* recoveryFromContinueAssessment's cases for an accepted, resumable packet.
HandoffClass(d, id) ==
  LET state == assessHandoffContinuity(d, id)
  IN CASE state \in {"ACCEPTED_NOT_LAUNCHED", "LAUNCH_FAILED_RETRYABLE"} ->
            "ACCEPTED_HANDOFF_LAUNCH_READY"
       [] state = "LAUNCH_PENDING_OUTCOME" -> "HANDOFF_LAUNCH_PENDING_OUTCOME"
       [] state = "FOLLOW_THROUGH" /\ d.packets[id].follow = "STALLED" ->
            "HANDOFF_FOLLOW_THROUGH_REVIEW_REQUIRED"
       [] state = "FOLLOW_THROUGH" /\ d.packets[id].follow # "STALLED" ->
            "HANDOFF_LAUNCH_COMPLETED"
       [] state = "LAUNCH_COMPLETED" -> "HANDOFF_LAUNCH_COMPLETED"
       [] OTHER -> "REPAIR_REQUIRED"

----------------------------------------------------------------------------
(***************************************************************************)
(* Local classification once continuity is safe and no handoff is active.  *)
(***************************************************************************)
InterruptedClass(d) ==
  IF d.cp.id # 0 /\ d.cp.resumable THEN "INTERRUPTED_RUN_RECOVERABLE"
  ELSE "REPAIR_REQUIRED"

LocalClass(d) ==
  LET status == LatestStatus(d)
  IN IF d.caps.phase = "BRIEF_READY" THEN "READY_NEXT_RUN"
     ELSE IF status = "INTERRUPTED" THEN InterruptedClass(d)
     ELSE IF status = "FAILED" THEN "FAILED_RUN_REVIEW_REQUIRED"
     ELSE IF d.caps.phase = "VALIDATING" THEN "VALIDATION_REVIEW_REQUIRED"
     ELSE IF d.caps.phase = "PAUSED" THEN InterruptedClass(d)
     ELSE "REPAIR_REQUIRED"

\* briefReadyRecoveryOverride: a brief that is ready but whose continue was
\* not finalized.
briefReadyRecoveryOverride(d) ==
  d.act.kind \in {"DECISION_CONTINUE", "INTERRUPTED_RESUME_EXECUTED"}

\* applyRecoveryActionProgression
applyRecoveryActionProgression(d, class) ==
  LET kind    == d.act.kind
      sameRun == d.act.run = LatestRunID(d)
  IN CASE /\ kind = "FAILED_RUN_REVIEWED"
          /\ class = "FAILED_RUN_REVIEW_REQUIRED" /\ sameRun ->
            "DECISION_REQUIRED"
       [] /\ kind = "VALIDATION_REVIEWED"
          /\ class = "VALIDATION_REVIEW_REQUIRED" /\ (~HasRun(d) \/ sameRun) ->
            "DECISION_REQUIRED"
       [] /\ kind = "INTERRUPTED_RESUME_EXECUTED"
          /\ class \in {"INTERRUPTED_RUN_RECOVERABLE", "READY_NEXT_RUN",
                        "CONTINUE_EXECUTION_REQUIRED"} ->
            "CONTINUE_EXECUTION_REQUIRED"
       [] /\ kind = "DECISION_CONTINUE"
          /\ class \in {"DECISION_REQUIRED", "FAILED_RUN_REVIEW_REQUIRED",
                        "VALIDATION_REVIEW_REQUIRED", "READY_NEXT_RUN"} ->
            "CONTINUE_EXECUTION_REQUIRED"
       [] kind = "DECISION_REGENERATE_BRIEF" /\ class # "READY_NEXT_RUN" ->
            "REBRIEF_REQUIRED"
       [] OTHER -> class

\* Variant with a fault: only a launched handoff counts.
SafeClassOnceLaunched(d) ==
  LET id == ActiveHandoff(d)
  IN IF id # 0 /\ d.packets[id].launch # "NONE" THEN HandoffClass(d, id)
     ELSE LocalClass(d)

\* recoveryFromContinueAssessment, before the latest action is applied.
SafeClass(d) ==
  LET id == ActiveHandoff(d)
  IN IF id # 0 /\ d.packets[id].resumable THEN HandoffClass(d, id)
     ELSE LocalClass(d)

BaseClass(d, anchor) ==
  LET outcome == ContinueOutcome(d, anchor)
  IN CASE outcome = "BlockedInconsistent" -> "REPAIR_REQUIRED"
       [] outcome = "BlockedDrift"        -> "BLOCKED_DRIFT"
       [] outcome = "NeedsDecision"       -> "DECISION_REQUIRED"
       [] outcome = "StaleReconciled"     -> "STALE_RUN_RECONCILIATION_REQUIRED"
       [] OTHER                           -> SafeClass(d)

RecoveryClass(d, anchor) ==
  LET class == BaseClass(d, anchor)
  IN IF class = "READY_NEXT_RUN" /\ briefReadyRecoveryOverride(d)
     THEN "CONTINUE_EXECUTION_REQUIRED"
     ELSE applyRecoveryActionProgression(d, class)

----------------------------------------------------------------------------
(***************************************************************************)
(* Gates.                                                                  *)
(***************************************************************************)
\* deriveActiveBranchProvenanceFromAssessment: Claude owns the task as long
\* as an accepted handoff is unresolved, whatever its launch state.
ClaudeOwnsBranch(d) == ActiveHandoff(d) # 0

\* deriveOperatorActionAuthoritySet for LOCAL_MESSAGE_MUTATION and
\* CREATE_CHECKPOINT, as localMutationBlockedByClaudeHandoff reads it.
localMutationBlockedByClaudeHandoff(d) == ClaudeOwnsBranch(d)

\* ... and for START_LOCAL_RUN, as runStartEligibility reads it: the class
\* READY_NEXT_RUN allows the start, every other class blocks it.
runStartEligibility(d, anchor) == RecoveryClass(d, anchor) = "READY_NEXT_RUN"

=============================================================================
