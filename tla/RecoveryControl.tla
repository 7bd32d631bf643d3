-------------------------- MODULE RecoveryControl --------------------------
(***************************************************************************)
(* The operator's recovery operations: RecordRecoveryAction                *)
(* (recovery_action.go), ExecuteRebrief (rebrief.go),                      *)
(* ExecuteInterruptedResume (interrupted_resume.go) and                    *)
(* ExecuteContinueRecovery (continue_execution.go).  Each assesses outside *)
(* any transaction and commits only at the assessed capsule version; a     *)
(* moved version is an error that writes nothing.                          *)
(***************************************************************************)
EXTENDS TaskStore

\* prepareRecoveryActionRecord: the class a kind may be recorded in ...
KindAllowed(kind, class) ==
  CASE kind = "FAILED_RUN_REVIEWED" -> class = "FAILED_RUN_REVIEW_REQUIRED"
    [] kind = "INTERRUPTED_RUN_REVIEWED" -> class = "INTERRUPTED_RUN_RECOVERABLE"
    [] kind = "VALIDATION_REVIEWED" -> class = "VALIDATION_REVIEW_REQUIRED"
    [] kind \in {"DECISION_CONTINUE", "DECISION_REGENERATE_BRIEF"} ->
         class = "DECISION_REQUIRED"
    [] kind = "REPAIR_INTENT_RECORDED" ->
         class \in {"REPAIR_REQUIRED", "BLOCKED_DRIFT"}
    [] kind = "PENDING_LAUNCH_REVIEWED" ->
         class = "HANDOFF_LAUNCH_PENDING_OUTCOME"

\* ... and the references the record takes from the assessment.
ActionTemplate(kind, d) ==
  LET handoff == ActiveHandoff(d)
  IN [kind    |-> kind,
      run     |-> IF kind \in {"REPAIR_INTENT_RECORDED", "PENDING_LAUNCH_REVIEWED"}
                  THEN 0 ELSE LatestRunID(d),
      cp      |-> IF kind = "PENDING_LAUNCH_REVIEWED" THEN 0 ELSE d.cp.id,
      handoff |-> IF kind \in {"DECISION_CONTINUE", "DECISION_REGENERATE_BRIEF",
                               "PENDING_LAUNCH_REVIEWED", "CONTINUE_EXECUTED"}
                  THEN handoff ELSE 0,
      attempt |-> IF kind = "PENDING_LAUNCH_REVIEWED" /\ handoff # 0
                  THEN d.packets[handoff].attempt ELSE 0]

\* replayableLatestRecoveryAction: a request without a summary of its own
\* that repeats the latest kind is answered with the latest record.
Replayed(kind, ownSummary) == act.kind = kind /\ ~ownSummary

Assessed(c, op, record) ==
  /\ pending' = [pending EXCEPT ![c] =
       [Idle EXCEPT !.op = op, !.ver = caps.ver, !.act = record]]
  /\ UNCHANGED <<database, repo, workers, launches>>

\* RecordRecoveryAction up to its transaction.
AssessRecord(c, kind, ownSummary) ==
  /\ Free(c, "record")
  /\ ~Replayed(kind, ownSummary)
  /\ KindAllowed(kind, RecoveryClass(db, repo))
  /\ Assessed(c, "record", ActionTemplate(kind, db))

\* The transaction: a decision moves the phase, a review does not.
RecordRecoveryAction(c) ==
  LET p == pending[c]
  IN /\ p.op = "record" /\ p.ver = caps.ver
     /\ \/ /\ p.act.kind = "DECISION_CONTINUE"
           /\ caps' = Bumped(caps, "BRIEF_READY")
        \/ /\ p.act.kind = "DECISION_REGENERATE_BRIEF"
           /\ caps' = Bumped(caps, "BLOCKED")
        \/ /\ p.act.kind \notin {"DECISION_CONTINUE", "DECISION_REGENERATE_BRIEF"}
           /\ UNCHANGED caps
     /\ act' = p.act
     /\ Done(c)
     /\ UNCHANGED <<runs, cp, packets, lastRes, repo, workers, launches>>

\* ExecuteRebrief
AssessRebrief(c) ==
  /\ Free(c, "rebrief")
  /\ RecoveryClass(db, repo) = "REBRIEF_REQUIRED"
  /\ act.kind = "DECISION_REGENERATE_BRIEF"
  /\ Assessed(c, "rebrief", NoAction)

\* The same intent, a new brief; the decision stays the latest action.  The
\* brief to revise exists: once a task has one it never loses it.
ExecuteRebrief(c) ==
  /\ pending[c].op = "rebrief" /\ pending[c].ver = caps.ver
  /\ caps' = [Bumped(caps, "BRIEF_READY") EXCEPT !.brief = caps.ver + 1]
  /\ Done(c)
  /\ UNCHANGED <<runs, cp, act, packets, lastRes, repo, workers, launches>>

\* ExecuteInterruptedResume
AssessResume(c) ==
  /\ Free(c, "resume")
  /\ RecoveryClass(db, repo) = "INTERRUPTED_RUN_RECOVERABLE"
  /\ Assessed(c, "resume", ActionTemplate("INTERRUPTED_RESUME_EXECUTED", db))

\* ExecuteContinueRecovery
AssessFinalize(c) ==
  /\ Free(c, "finalize")
  /\ RecoveryClass(db, repo) = "CONTINUE_EXECUTION_REQUIRED"
  /\ act.kind \in {"DECISION_CONTINUE", "INTERRUPTED_RESUME_EXECUTED"}
  /\ Assessed(c, "finalize", ActionTemplate("CONTINUE_EXECUTED", db))

\* Variant with a fault: the step is not recorded.
ClearBriefUnrecorded(c, op) ==
  /\ pending[c].op = op /\ pending[c].ver = caps.ver
  /\ caps' = Bumped(caps, "BRIEF_READY")
  /\ Done(c)
  /\ UNCHANGED <<runs, cp, act, packets, lastRes, repo, workers, launches>>

\* The transaction of either: the current brief is ready, the step is recorded.
ClearBrief(c, op) ==
  /\ pending[c].op = op /\ pending[c].ver = caps.ver
  /\ caps' = Bumped(caps, "BRIEF_READY")
  /\ act' = pending[c].act
  /\ Done(c)
  /\ UNCHANGED <<runs, cp, packets, lastRes, repo, workers, launches>>

ExecuteInterruptedResume(c) == ClearBrief(c, "resume")

ExecuteContinueRecovery(c) == ClearBrief(c, "finalize")

\* "task state changed during ... preparation"
RefuseStaleRecovery(c) ==
  /\ pending[c].op \in {"record", "rebrief", "resume", "finalize"}
  /\ pending[c].ver # caps.ver
  /\ Done(c)
  /\ UNCHANGED <<database, repo, workers, launches>>

RecoveryStep ==
  \E c \in Clients :
    \/ \E kind \in RecordableKinds, ownSummary \in BOOLEAN :
         AssessRecord(c, kind, ownSummary)
    \/ AssessRebrief(c) \/ AssessResume(c) \/ AssessFinalize(c)
    \/ RecordRecoveryAction(c) \/ ExecuteRebrief(c)
    \/ ExecuteInterruptedResume(c) \/ ExecuteContinueRecovery(c)
    \/ RefuseStaleRecovery(c)

=============================================================================
