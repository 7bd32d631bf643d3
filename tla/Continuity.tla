---------------------------- MODULE Continuity ----------------------------
(***************************************************************************)
(* The continuity assessment of one task: what internal/orchestrator       *)
(* reads from the durable store (continuity.go, loadContinuitySnapshot),   *)
(* which inconsistencies it reports (validateContinuitySnapshot), how it   *)
(* classifies repository drift, and the outcome ContinueTask acts on       *)
(* (service.go, assessContinue).  Everything here is a pure function of a  *)
(* database snapshot d and of the repository anchor just captured.         *)
(*                                                                         *)
(* A snapshot d is a record with the fields                                *)
(*   caps     the work capsule: version, phase, brief, intent and anchor   *)
(*   runs     every execution run of the task, oldest first                *)
(*   cp       the latest checkpoint (checkpoints are never updated)        *)
(*   act      the latest recovery action                                   *)
(*   packets  every handoff packet, oldest first, each with its latest     *)
(*            launch, acknowledgment, follow-through and resolution        *)
(*   lastRes  the handoff of the latest resolution of the task, 0 if none  *)
(* Runs and packets are named by their position, briefs and intents by     *)
(* the capsule version that introduced them, checkpoints by their number;  *)
(* 0 stands for the empty reference.  Briefs and intents are never         *)
(* deleted and one database holds one task here, so the checks for         *)
(* dangling references and foreign tasks have no counterpart.              *)
(***************************************************************************)
EXTENDS Naturals, Sequences

CONSTANT Anchors   \* what a git capture can return: [branch, head, dirty]

(***************************************************************************)
(* Value sets.                                                             *)
(***************************************************************************)
Phases == {"INTAKE", "BRIEF_READY", "EXECUTING", "VALIDATING", "PAUSED",
           "BLOCKED", "AWAITING_DECISION"}

RunStatuses == {"RUNNING", "COMPLETED", "FAILED", "INTERRUPTED"}

LaunchStatuses == {"NONE", "REQUESTED", "COMPLETED", "FAILED"}

Outcomes == {"Safe", "NeedsDecision", "BlockedDrift",
             "BlockedInconsistent", "StaleReconciled"}

\* A continuity violation: its position in the validation order, and the
\* facts its message prints (a phase or status, and two references).
Issue(at, word, a, b) == [at |-> at, word |-> word, a |-> a, b |-> b]

NoIssue == Issue(0, "", 0, 0)

\* finalizeContinue's "task state changed during continue assessment".
VersionChanged(old, new) == Issue(99, "VERSION", old, new)

\* anchorFromCapsule and createCheckpoint: the checkpoint copies the capsule
\* as the transaction leaves it.
Checkpoint(id, caps, run, resumable, reason) ==
  [id |-> id, ver |-> caps.ver, phase |-> caps.phase, brief |-> caps.brief,
   intent |-> caps.intent, anchor |-> caps.anchor, run |-> run,
   resumable |-> resumable, reason |-> reason]

----------------------------------------------------------------------------
(***************************************************************************)
(* Reading the snapshot.                                                   *)
(***************************************************************************)
LatestRunID(d) == Len(d.runs)

HasRun(d) == d.runs # <<>>

LatestStatus(d) == IF HasRun(d) THEN d.runs[Len(d.runs)].status ELSE "NONE"

LatestIsRunning(d) == LatestStatus(d) = "RUNNING"

\* loadActiveClaudeHandoffBranch: the newest accepted packet that was not
\* resolved.  The code looks at the twelve newest packets only, so a model
\* with at most twelve packets loses nothing.
ActivePackets(d) ==
  {p \in DOMAIN d.packets :
     d.packets[p].status = "ACCEPTED" /\ ~d.packets[p].resolved}

ActiveHandoff(d) ==
  IF ActivePackets(d) = {} THEN 0
  ELSE CHOOSE p \in ActivePackets(d) : \A q \in ActivePackets(d) : q <= p

----------------------------------------------------------------------------
(***************************************************************************)
(* Validation: the set of violations, each with its position in the order  *)
(* the code appends them.  Two groups of checks have no counterpart: that  *)
(* the capsule's intent is the latest one (an intent and the capsule that  *)
(* names it are committed together, so a snapshot can only fail it when    *)
(* the version has moved), and the references of resolutions and recovery  *)
(* actions, which are written with what they refer to.                     *)
(***************************************************************************)
When(condition, issue) == IF condition THEN {issue} ELSE {}

validateCheckpointContinuity(d) ==
  When(d.cp.id # 0 /\ d.cp.resumable
         /\ d.cp.phase \in {"AWAITING_DECISION", "BLOCKED"},
       Issue(2, d.cp.phase, d.cp.id, 0))

validateRunContinuity(d) ==
  LET id  == LatestRunID(d)
      run == d.runs[id]
  IN IF run.status = "RUNNING"
     THEN When(d.caps.phase # "EXECUTING", Issue(3, d.caps.phase, id, 0))
          \cup When(d.caps.brief # 0 /\ d.caps.brief # run.brief,
                    Issue(4, "", run.brief, d.caps.brief))
          \cup When(d.cp.id # 0 /\ d.cp.run # id, Issue(5, "", id, d.cp.run))
     ELSE When(d.caps.phase = "EXECUTING", Issue(6, run.status, 0, 0))

\* The latest packet, whatever its status, with its own launch records; up to the
\* checks of the latest resolution.
validateHandoffContinuity(d) ==
  LET id == Len(d.packets)
      p  == d.packets[id]
  IN When(p.resumable /\ ~p.cp.resumable, Issue(7, "", id, p.cp.id))
     \cup When(p.brief # p.cp.brief, Issue(8, "", p.brief, p.cp.brief))
     \cup When(p.intent # 0 /\ p.cp.intent # 0 /\ p.intent # p.cp.intent,
               Issue(9, "", p.intent, p.cp.intent))
     \cup When(p.launch = "COMPLETED" /\ p.ack = "NONE",
               Issue(10, "", p.attempt, id))
     \cup When(p.launch = "FAILED" /\ p.ack # "NONE",
               Issue(11, "", p.attempt, 0))
     \cup When(p.follow # "NONE" /\ p.launch # "COMPLETED",
               Issue(12, "", id, p.attempt))
     \cup When(p.follow # "NONE" /\ p.followAttempt # p.attempt,
               Issue(13, "", p.followAttempt, p.attempt))

validateContinuitySnapshot(d) ==
  When(d.caps.brief = 0, Issue(1, "", 0, 0))
  \cup validateCheckpointContinuity(d)
  \cup (IF HasRun(d) THEN validateRunContinuity(d)
        ELSE When(d.caps.phase = "EXECUTING", Issue(6, "NONE", 0, 0)))
  \cup (IF d.packets = <<>> THEN {} ELSE validateHandoffContinuity(d))

\* firstContinuityViolationMessage
FirstIssue(issues) ==
  IF issues = {} THEN NoIssue
  ELSE CHOOSE i \in issues : \A j \in issues : i.at <= j.at

----------------------------------------------------------------------------
(***************************************************************************)
(* Drift.  A branch (or repository root) change is major, a head or        *)
(* dirty-flag change is minor.  An empty branch or head, which is what a   *)
(* failed git command leaves in the capture, is never compared.            *)
(***************************************************************************)
classifyAnchorDrift(baseline, current) ==
  IF baseline.branch # "" /\ current.branch # "" /\ baseline.branch # current.branch
  THEN "MAJOR"
  ELSE IF \/ baseline.head # "" /\ current.head # "" /\ baseline.head # current.head
          \/ baseline.dirty # current.dirty
  THEN "MINOR"
  ELSE "NONE"

\* assessContinue's baseline: the latest checkpoint, else the capsule.
Baseline(d) == IF d.cp.id # 0 THEN d.cp.anchor ELSE d.caps.anchor

----------------------------------------------------------------------------
(***************************************************************************)
(* When the latest checkpoint already says what continue would record.     *)
(***************************************************************************)
canReuseSafeCheckpoint(d, anchor) ==
  /\ d.cp.id # 0 /\ d.cp.resumable
  /\ d.cp.brief = d.caps.brief /\ d.cp.intent = d.caps.intent
  /\ d.cp.phase = d.caps.phase /\ d.cp.ver = d.caps.ver
  /\ d.cp.anchor = anchor
  /\ HasRun(d) /\ d.cp.run # 0 => d.cp.run = LatestRunID(d)

canReuseDecisionCheckpoint(d, anchor) ==
  /\ d.cp.id # 0 /\ ~d.cp.resumable
  /\ d.cp.phase = "AWAITING_DECISION" /\ d.caps.phase = "AWAITING_DECISION"
  /\ d.cp.anchor = anchor

\* The descriptor of the checkpoint must contain the issue's message.
canReuseInconsistencyCheckpoint(d, anchor, issue) ==
  /\ d.cp.id # 0 /\ ~d.cp.resumable
  /\ d.cp.phase = "BLOCKED" /\ d.caps.phase = "BLOCKED"
  /\ d.cp.anchor = anchor
  /\ d.cp.reason = issue

----------------------------------------------------------------------------
(***************************************************************************)
(* assessContinue: the outcome, and what is needed to act on it.  Drift    *)
(* counts only when the snapshot is consistent and nothing is RUNNING.     *)
(***************************************************************************)
ContinueOutcome(d, anchor) ==
  LET drift == classifyAnchorDrift(Baseline(d), anchor)
  IN IF validateContinuitySnapshot(d) # {} THEN "BlockedInconsistent"
     ELSE IF LatestIsRunning(d) THEN "StaleReconciled"
     ELSE IF drift = "MAJOR" THEN "BlockedDrift"
     ELSE IF drift = "MINOR" \/ d.caps.phase = "AWAITING_DECISION"
          THEN "NeedsDecision"
     ELSE "Safe"

ContinueReason(d) == FirstIssue(validateContinuitySnapshot(d))

\* RequiresMutation
RequiresMutation(d, anchor) ==
  LET outcome == ContinueOutcome(d, anchor)
  IN CASE outcome = "BlockedInconsistent" ->
            ~canReuseInconsistencyCheckpoint(d, anchor, ContinueReason(d))
       [] outcome \in {"BlockedDrift", "NeedsDecision"} ->
            ~canReuseDecisionCheckpoint(d, anchor)
       [] outcome = "Safe" ->
            ~canReuseSafeCheckpoint(d, anchor)
       [] OTHER -> TRUE

=============================================================================
