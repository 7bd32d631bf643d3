---------------------------- MODULE OperatorStep ----------------------------
(***************************************************************************)
(* "operator next": ExecutePrimaryOperatorStep                             *)
(* (operator_step_execution.go) reads the plan outside any transaction,    *)
(* dispatches its primary step to the operation that executes it, and      *)
(* writes a receipt in a transaction of its own.  It runs among all the    *)
(* other requests of TaskControl; the dispatched operations assess the     *)
(* task again for themselves.                                              *)
(***************************************************************************)
EXTENDS TaskControl, OperatorPlan

CONSTANTS
  Operator,      \* the client that executes operator steps
  MaxReceipts    \* bound on the receipts

ASSUME OperatorAssumption == Operator \in Clients /\ MaxReceipts \in Nat

VARIABLES
  step,          \* the operator step being executed
  receipts       \* the operator_step_receipts table

stepVars == <<vars, step, receipts>>

ResultClasses == {"SUCCEEDED", "REJECTED", "FAILED"}

Receipts == [action : OperatorActions \cup {"NONE"}, class : ResultClasses,
             handoff : Nat, run : Nat, attempt : Nat]

\* stage "planned": the step is about to be dispatched; "assessed": a
\* recovery operation waits for its transaction; "running": the worker
\* executes; "launching": the launcher executes; "resulted": the receipt is
\* not written yet.  run and attempt are what this step itself started.
Steps == [stage : {"idle", "planned", "assessed", "running", "launching", "resulted"},
          action : OperatorActions \cup {"NONE"},
          class : ResultClasses \cup {"NONE"},
          handoff : Nat, run : Nat, attempt : Nat]

NoStep == [stage |-> "idle", action |-> "NONE", class |-> "NONE",
           handoff |-> 0, run |-> 0, attempt |-> 0]

StepInit == Init /\ step = NoStep /\ receipts = <<>>

----------------------------------------------------------------------------
(***************************************************************************)
(* ExecutePrimaryOperatorStep up to the dispatch.  No step, a step that is *)
(* only guidance and a step without a case in the dispatch are rejected    *)
(* without being attempted.                                                *)
(***************************************************************************)
PlanStep ==
  LET action == primaryExecutionStep(db, repo)
  IN /\ step.stage = "idle" /\ pending[Operator].op = "idle"
     /\ Len(receipts) < MaxReceipts /\ caps.ver < MaxVersion
     /\ step' = IF action \in DispatchedActions
                THEN [NoStep EXCEPT !.stage = "planned", !.action = action,
                                    !.handoff = ActiveHandoff(db)]
                ELSE [NoStep EXCEPT !.stage = "resulted", !.action = action,
                                    !.class = "REJECTED",
                                    !.handoff = ActiveHandoff(db)]
     /\ UNCHANGED <<vars, receipts>>

Planned(action) == step.stage = "planned" /\ step.action = action

Moves(stage) == step' = [step EXCEPT !.stage = stage] /\ UNCHANGED receipts

Results(class) ==
  step' = [step EXCEPT !.stage = "resulted", !.class = class] /\ UNCHANGED receipts

----------------------------------------------------------------------------
(***************************************************************************)
(* dispatchPrimaryOperatorStep, START_LOCAL_RUN.                           *)
(***************************************************************************)
StartLocalRun ==
  /\ Planned("START_LOCAL_RUN")
  /\ PrepareRealRun
  /\ step' = [step EXCEPT !.stage = "running", !.run = Len(runs')]
  /\ UNCHANGED receipts

\* RunTask answers a start that its gate refuses without an error: the
\* dispatch takes that for a started run.
StartLocalRunBlocked ==
  /\ Planned("START_LOCAL_RUN")
  /\ ~(caps.brief # 0 /\ runStartEligibility(db, repo))
  /\ Results("SUCCEEDED")
  /\ UNCHANGED vars

\* A worker that failed is a run that was started.
LocalRunReturns ==
  /\ step.stage = "running"
  /\ FinalizeRealRun(step.run)
  /\ Results("SUCCEEDED")

\* "run %s is not RUNNING during finalization": classifyOperatorStepError
\* reads "not " and calls it rejected; the receipt names no run.
LocalRunLost ==
  /\ step.stage = "running"
  /\ FinalizeRealRunRefused(step.run)
  /\ step' = [step EXCEPT !.stage = "resulted", !.class = "REJECTED", !.run = 0]
  /\ UNCHANGED receipts

----------------------------------------------------------------------------
(***************************************************************************)
(* The recovery operations: RESUME_INTERRUPTED_LINEAGE,                    *)
(* FINALIZE_CONTINUE_RECOVERY and EXECUTE_REBRIEF.                         *)
(***************************************************************************)
RecoveryAction == {"RESUME_INTERRUPTED_LINEAGE", "FINALIZE_CONTINUE_RECOVERY",
                   "EXECUTE_REBRIEF"}

\* The gate each of them applies to its own assessment.
RecoveryGate(action) ==
  LET class == RecoveryClass(db, repo)
  IN CASE action = "RESUME_INTERRUPTED_LINEAGE" ->
            class = "INTERRUPTED_RUN_RECOVERABLE"
       [] action = "FINALIZE_CONTINUE_RECOVERY" ->
            /\ class = "CONTINUE_EXECUTION_REQUIRED"
            /\ act.kind \in {"DECISION_CONTINUE", "INTERRUPTED_RESUME_EXECUTED"}
       [] action = "EXECUTE_REBRIEF" ->
            class = "REBRIEF_REQUIRED" /\ act.kind = "DECISION_REGENERATE_BRIEF"

DispatchRecovery ==
  /\ step.stage = "planned"
  /\ \/ step.action = "RESUME_INTERRUPTED_LINEAGE" /\ AssessResume(Operator)
     \/ step.action = "FINALIZE_CONTINUE_RECOVERY" /\ AssessFinalize(Operator)
     \/ step.action = "EXECUTE_REBRIEF" /\ AssessRebrief(Operator)
  /\ Moves("assessed")

\* "... has already been executed", "... can only be executed while ..."
RecoveryRejected ==
  /\ step.stage = "planned" /\ step.action \in RecoveryAction
  /\ ~RecoveryGate(step.action)
  /\ Results("REJECTED")
  /\ UNCHANGED vars

CommitRecovery ==
  /\ step.stage = "assessed"
  /\ \/ ExecuteInterruptedResume(Operator)
     \/ ExecuteContinueRecovery(Operator)
     \/ ExecuteRebrief(Operator)
  /\ Results("SUCCEEDED")

\* "task state changed during ... preparation" has none of the words of a
\* rejection.
RecoveryFailed ==
  /\ step.stage = "assessed"
  /\ RefuseStaleRecovery(Operator)
  /\ Results("FAILED")

----------------------------------------------------------------------------
(***************************************************************************)
(* LAUNCH_ACCEPTED_HANDOFF, for the packet of the plan.                    *)
(***************************************************************************)
LaunchAcceptedHandoff ==
  /\ Planned("LAUNCH_ACCEPTED_HANDOFF")
  /\ PrepareHandoffLaunch(step.handoff)
  /\ step' = [step EXCEPT !.stage = "launching",
                          !.attempt = packets'[step.handoff].attempt]
  /\ UNCHANGED receipts

\* Variant with a fault: a launch under way counts as launched.
LaunchAnsweredEarly ==
  LET packet == packets[step.handoff]
  IN /\ Planned("LAUNCH_ACCEPTED_HANDOFF")
     /\ \/ packet.launch \in {"REQUESTED", "COMPLETED"} /\ Results("SUCCEEDED")
        \/ /\ LaunchRetryable(step.handoff) /\ ~LaunchSafe(step.handoff)
           /\ Results("REJECTED")
     /\ UNCHANGED vars

\* launchDispatchFromResult for an answer without a launch of its own: an
\* unsafe launch and one that is under way are blocked; a completed one is
\* answered with its launch id, which is never the one the plan saw.
LaunchAnswered ==
  LET packet == packets[step.handoff]
  IN /\ Planned("LAUNCH_ACCEPTED_HANDOFF")
     /\ \/ /\ packet.launch = "COMPLETED" /\ packet.ack # "NONE"
           /\ Results("SUCCEEDED")
        \/ /\ packet.launch = "COMPLETED" => packet.ack = "NONE"
           /\ ~(LaunchRetryable(step.handoff) /\ LaunchSafe(step.handoff))
           /\ Results("REJECTED")
     /\ UNCHANGED vars

LaunchReturns ==
  /\ step.stage = "launching"
  /\ FinalizeHandoffLaunch([packet |-> step.handoff, attempt |-> step.attempt])
  /\ Results(IF packets'[step.handoff].launch = "FAILED" THEN "FAILED" ELSE "SUCCEEDED")

----------------------------------------------------------------------------
(***************************************************************************)
(* RESOLVE_ACTIVE_HANDOFF, for the packet of the plan.                     *)
(***************************************************************************)
\* Variant with a fault: whatever handoff is active is resolved.
ResolveWhateverIsActive ==
  /\ Planned("RESOLVE_ACTIVE_HANDOFF")
  /\ RecordHandoffResolution
  /\ Results("SUCCEEDED")

\* validateHandoffResolutionTarget
ResolveActiveHandoff ==
  /\ Planned("RESOLVE_ACTIVE_HANDOFF")
  /\ ActiveHandoff(db) = step.handoff
  /\ RecordHandoffResolution
  /\ Results("SUCCEEDED")

\* Another packet is active, or none is; in the latter case a resolution of
\* this packet with the same kind and summary is replayed.
ResolveAnswered ==
  /\ Planned("RESOLVE_ACTIVE_HANDOFF")
  /\ ActiveHandoff(db) # step.handoff
  /\ \/ Results("REJECTED")
     \/ /\ ActiveHandoff(db) = 0 /\ lastRes = step.handoff
        /\ Results("SUCCEEDED")
  /\ UNCHANGED vars

----------------------------------------------------------------------------
\* recordOperatorStepReceipt
RecordOperatorStepReceipt ==
  /\ step.stage = "resulted"
  /\ receipts' = Append(receipts,
       [action |-> step.action, class |-> step.class, handoff |-> step.handoff,
        run |-> step.run, attempt |-> step.attempt])
  /\ step' = NoStep
  /\ UNCHANGED vars

OwnStep ==
  \/ PlanStep
  \/ StartLocalRun \/ StartLocalRunBlocked \/ LocalRunReturns \/ LocalRunLost
  \/ DispatchRecovery \/ RecoveryRejected \/ CommitRecovery \/ RecoveryFailed
  \/ LaunchAcceptedHandoff \/ LaunchAnswered \/ LaunchReturns
  \/ ResolveActiveHandoff \/ ResolveAnswered
  \/ RecordOperatorStepReceipt

\* What the operator's request has open is continued by nobody else.
Own == <<pending[Operator], step.run \in workers,
         [packet |-> step.handoff, attempt |-> step.attempt] \in launches>>

OthersStep ==
  /\ \/ LocalMutationStep \/ RunStep \/ ContinueStep \/ RecoveryStep
     \/ HandoffStep \/ RepositoryChanges
  /\ UNCHANGED <<step, receipts>>
  /\ Own' = Own

\* The step under way is lost, with or without its effect; so is its receipt.
CrashDuringStep == DaemonCrash /\ step' = NoStep /\ UNCHANGED receipts

StepNext == OwnStep \/ OthersStep \/ CrashDuringStep

StepSpec == StepInit /\ [][StepNext]_stepVars

----------------------------------------------------------------------------
\* The step under way and the receipts hold values of their types.
StepTypeOK == step \in Steps /\ receipts \in Seq(Receipts)

\* The plan and the operations agree: a primary step that operator next
\* would dispatch is one its operation accepts in the same state.  The plan
\* is derived from authorities and the operations have gates of their own.
OfferedStepsAreAccepted ==
  LET action == primaryExecutionStep(db, repo)
      id     == ActiveHandoff(db)
  IN /\ action = "START_LOCAL_RUN" => caps.brief # 0 /\ runStartEligibility(db, repo)
     /\ action \in RecoveryAction => RecoveryGate(action)
     /\ action = "LAUNCH_ACCEPTED_HANDOFF" => LaunchRetryable(id) /\ LaunchSafe(id)
     /\ action = "RESOLVE_ACTIVE_HANDOFF" =>
          assessHandoffContinuity(db, id) # "NOT_APPLICABLE"

\* What a receipt calls a success stays true, whatever happened between the
\* plan and the receipt: the run it names has ended, the handoff it names has
\* a completed launch or is resolved.
SuccessIsDurable ==
  \A i \in DOMAIN receipts :
    LET r == receipts[i]
    IN r.class = "SUCCEEDED" =>
         /\ r.run # 0 => r.run \in DOMAIN runs /\ runs[r.run].status # "RUNNING"
         /\ r.action = "LAUNCH_ACCEPTED_HANDOFF" => packets[r.handoff].launch = "COMPLETED"
         /\ r.action = "RESOLVE_ACTIVE_HANDOFF" => packets[r.handoff].resolved

\* A step that was planned for one handoff never resolves another, although
\* handoffs are resolved and accepted in between.
ResolvesWhatWasPlanned ==
  [][\A id \in DOMAIN packets :
       /\ packets'[id].resolved # packets[id].resolved
       /\ step.stage = "planned" /\ step'.stage = "resulted"
       => id = step.handoff]_stepVars

\* The dispatched operation has just committed something.
StepCommits ==
  /\ step.stage # "resulted" /\ step'.stage = "resulted"
  /\ step'.class = "SUCCEEDED" /\ database' # database

\* Operator next makes progress: a step whose effect was just committed is
\* not the primary step of the state it leads to.  A step about a handoff
\* may be offered again for another handoff; EXECUTE_REBRIEF may be,
\* when the decision to regenerate was about the repository: the rebrief
\* leaves the drift.
StepsAdvance ==
  [][/\ StepCommits /\ step.action # "EXECUTE_REBRIEF"
     /\ step.handoff # 0 => ActiveHandoff(db') \in {0, step.handoff}
     => primaryExecutionStep(db', repo') # step.action]_stepVars
=============================================================================
