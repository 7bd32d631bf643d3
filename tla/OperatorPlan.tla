---------------------------- MODULE OperatorPlan ----------------------------
(***************************************************************************)
(* What the operator is told to do next: the authority of every operator   *)
(* action (operator_action_authority.go over local_resume_authority.go,    *)
(* local_run_finalization.go and branch_provenance.go), the execution plan *)
(* made from it (operator_execution_plan.go, operator_decision_summary.go) *)
(* and the command each step is executed with                              *)
(* (operator_command_surface.go).  Pure functions of a snapshot d and the  *)
(* captured anchor; texts are left out.                                    *)
(***************************************************************************)
EXTENDS Recovery

LocalActions ==
  {"LOCAL_MESSAGE_MUTATION", "CREATE_CHECKPOINT", "START_LOCAL_RUN",
   "RECONCILE_STALE_RUN", "INSPECT_FAILED_RUN", "REVIEW_VALIDATION_STATE",
   "MAKE_RESUME_DECISION", "RESUME_INTERRUPTED_LINEAGE",
   "FINALIZE_CONTINUE_RECOVERY", "EXECUTE_REBRIEF"}

OperatorActions ==
  LocalActions \cup {"LAUNCH_ACCEPTED_HANDOFF", "REVIEW_HANDOFF_FOLLOW_THROUGH",
                     "RESOLVE_ACTIVE_HANDOFF", "REPAIR_CONTINUITY"}

----------------------------------------------------------------------------
(***************************************************************************)
(* Required next action.                                                   *)
(***************************************************************************)
\* Variant with a fault: a decision that is due counts as made.
operatorActionFromRecoveryDecided(class) ==
  CASE class = "READY_NEXT_RUN" -> "START_LOCAL_RUN"
    [] class = "INTERRUPTED_RUN_RECOVERABLE" -> "RESUME_INTERRUPTED_LINEAGE"
    [] class \in {"DECISION_REQUIRED", "CONTINUE_EXECUTION_REQUIRED"} ->
         "FINALIZE_CONTINUE_RECOVERY"
    [] OTHER -> "NONE"

\* operatorActionFromRecovery over the recommended action of the class.
\* Waiting for a launch and monitoring one are not operator actions.
operatorActionFromRecovery(class) ==
  CASE class = "READY_NEXT_RUN" -> "START_LOCAL_RUN"
    [] class = "INTERRUPTED_RUN_RECOVERABLE" -> "RESUME_INTERRUPTED_LINEAGE"
    [] class = "ACCEPTED_HANDOFF_LAUNCH_READY" -> "LAUNCH_ACCEPTED_HANDOFF"
    [] class = "HANDOFF_FOLLOW_THROUGH_REVIEW_REQUIRED" -> "REVIEW_HANDOFF_FOLLOW_THROUGH"
    [] class = "FAILED_RUN_REVIEW_REQUIRED" -> "INSPECT_FAILED_RUN"
    [] class = "VALIDATION_REVIEW_REQUIRED" -> "REVIEW_VALIDATION_STATE"
    [] class = "STALE_RUN_RECONCILIATION_REQUIRED" -> "RECONCILE_STALE_RUN"
    [] class \in {"DECISION_REQUIRED", "BLOCKED_DRIFT"} -> "MAKE_RESUME_DECISION"
    [] class = "CONTINUE_EXECUTION_REQUIRED" -> "FINALIZE_CONTINUE_RECOVERY"
    [] class = "REPAIR_REQUIRED" -> "REPAIR_CONTINUITY"
    [] class = "REBRIEF_REQUIRED" -> "EXECUTE_REBRIEF"
    [] OTHER -> "NONE"

RequiredNext(d, anchor) == operatorActionFromRecovery(RecoveryClass(d, anchor))

----------------------------------------------------------------------------
(***************************************************************************)
(* Authority.                                                              *)
(***************************************************************************)
\* The classes the switch of deriveOperatorActionAuthoritySet blocks a
\* fresh run in.
RunBlockingClasses ==
  RecoveryClasses \ {"READY_NEXT_RUN", "ACCEPTED_HANDOFF_LAUNCH_READY",
                     "HANDOFF_LAUNCH_PENDING_OUTCOME", "HANDOFF_LAUNCH_COMPLETED",
                     "HANDOFF_FOLLOW_THROUGH_REVIEW_REQUIRED"}

\* deriveLocalResumeAuthority
deriveLocalResumeAuthority(d, class) ==
  IF ClaudeOwnsBranch(d) THEN "BLOCKED"
  ELSE CASE class = "INTERRUPTED_RUN_RECOVERABLE" -> "RESUME"
         [] class = "CONTINUE_EXECUTION_REQUIRED" -> "FINALIZE"
         [] class = "READY_NEXT_RUN"              -> "FRESH"
         [] OTHER                                 -> "NONE"

\* deriveLocalRunFinalization, as far as the authorities read it
deriveLocalRunFinalization(d) ==
  CASE LatestStatus(d) = "RUNNING" -> "STALE_RECONCILIATION_NEEDED"
    [] LatestStatus(d) = "FAILED"  -> "FAILED_REVIEW_REQUIRED"
    [] OTHER                       -> "NO_REVIEW_NEEDED"

\* The actions each class allows, next to the ones decided below.
AllowedByClass(action, class) ==
  operatorActionFromRecovery(class) = action
    /\ action \notin {"RESUME_INTERRUPTED_LINEAGE", "FINALIZE_CONTINUE_RECOVERY"}

LocalAuthority(d, class, action) ==
  LET owned  == ClaudeOwnsBranch(d)
      resume == deriveLocalResumeAuthority(d, class)
      final  == deriveLocalRunFinalization(d)
  IN CASE action \in {"LOCAL_MESSAGE_MUTATION", "CREATE_CHECKPOINT"} ->
            IF owned THEN "BLOCKED" ELSE "ALLOWED"
       [] action = "RESUME_INTERRUPTED_LINEAGE" ->
            IF resume = "RESUME" THEN "ALLOWED"
            ELSE IF resume = "BLOCKED" \/ (resume = "NONE" /\ final # "NO_REVIEW_NEEDED")
                 THEN "BLOCKED" ELSE "NOT_APPLICABLE"
       [] action = "FINALIZE_CONTINUE_RECOVERY" ->
            IF resume = "FINALIZE" THEN "ALLOWED"
            ELSE IF owned THEN "BLOCKED" ELSE "NOT_APPLICABLE"
       [] OTHER ->
            IF AllowedByClass(action, class) THEN "ALLOWED"
            ELSE IF owned \/ (action = "START_LOCAL_RUN" /\ class \in RunBlockingClasses)
                 THEN "BLOCKED" ELSE "NOT_APPLICABLE"

HandoffAuthority(d, class, action) ==
  LET state == assessHandoffContinuity(d, ActiveHandoff(d))
      open  == ClaudeOwnsBranch(d) /\ state # "NOT_APPLICABLE"
      allowed ==
        CASE action = "LAUNCH_ACCEPTED_HANDOFF" ->
               open /\ state \in {"ACCEPTED_NOT_LAUNCHED", "LAUNCH_FAILED_RETRYABLE"}
          [] action = "RESOLVE_ACTIVE_HANDOFF" -> open
          [] action = "REVIEW_HANDOFF_FOLLOW_THROUGH" ->
               ClaudeOwnsBranch(d) /\ AllowedByClass(action, class)
          [] action = "REPAIR_CONTINUITY" -> AllowedByClass(action, class)
  IN IF allowed THEN "ALLOWED" ELSE "NOT_APPLICABLE"

\* deriveOperatorActionAuthoritySet: the required action is marked last,
\* whatever it was before.
Authority(d, anchor, action) ==
  LET class == RecoveryClass(d, anchor)
  IN IF action = operatorActionFromRecovery(class) THEN "REQUIRED_NEXT"
     ELSE IF action \in LocalActions THEN LocalAuthority(d, class, action)
     ELSE HandoffAuthority(d, class, action)

----------------------------------------------------------------------------
(***************************************************************************)
(* The plan.                                                               *)
(***************************************************************************)
LocalOrder ==
  <<"RESUME_INTERRUPTED_LINEAGE", "FINALIZE_CONTINUE_RECOVERY",
    "START_LOCAL_RUN", "RECONCILE_STALE_RUN", "INSPECT_FAILED_RUN",
    "EXECUTE_REBRIEF", "LOCAL_MESSAGE_MUTATION", "CREATE_CHECKPOINT">>

HandoffOrder ==
  <<"RESOLVE_ACTIVE_HANDOFF", "LAUNCH_ACCEPTED_HANDOFF",
    "REVIEW_HANDOFF_FOLLOW_THROUGH">>

\* primaryExecutionStep: the required action, else the first allowed one.
primaryExecutionStep(d, anchor) ==
  LET order == IF ClaudeOwnsBranch(d) THEN HandoffOrder \o LocalOrder
               ELSE LocalOrder \o
                    <<"LAUNCH_ACCEPTED_HANDOFF", "RESOLVE_ACTIVE_HANDOFF",
                      "REVIEW_HANDOFF_FOLLOW_THROUGH">>
      offers == {i \in DOMAIN order : Authority(d, anchor, order[i]) = "ALLOWED"}
  IN IF RequiredNext(d, anchor) # "NONE" THEN RequiredNext(d, anchor)
     ELSE IF offers # {}
     THEN order[CHOOSE i \in offers : \A j \in offers : i <= j]
     ELSE "NONE"

\* canonicalOperatorCommandSurface
canonicalOperatorCommandSurface(action) ==
  CASE action \in {"INSPECT_FAILED_RUN", "REVIEW_VALIDATION_STATE",
                   "REVIEW_HANDOFF_FOLLOW_THROUGH", "REPAIR_CONTINUITY"} ->
         "INSPECT_FALLBACK"
    [] action = "NONE" -> "NONE"
    [] OTHER -> "DEDICATED"

\* The cases of dispatchPrimaryOperatorStep.
DispatchedActions ==
  {"START_LOCAL_RUN", "RESUME_INTERRUPTED_LINEAGE",
   "FINALIZE_CONTINUE_RECOVERY", "EXECUTE_REBRIEF",
   "LAUNCH_ACCEPTED_HANDOFF", "RESOLVE_ACTIVE_HANDOFF"}

=============================================================================
