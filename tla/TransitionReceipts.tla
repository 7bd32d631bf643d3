------------------------- MODULE TransitionReceipts -------------------------
(***************************************************************************)
(* The audit trail of a task's handoffs: the transaction that records a    *)
(* launch's outcome or a resolution also assesses the task before and      *)
(* after, and stores a receipt of the difference with the review posture   *)
(* of the shell transcript at that time.  The posture is that of one       *)
(* session reviewed for every source.                                      *)
(***************************************************************************)
EXTENDS TaskControl

CONSTANTS
  MaxEvidence,  \* bound: transcript chunks
  MaxGapAcks    \* bound: acknowledgments of review gaps

VARIABLES
  transitions, \* continuity_transition_receipts, in the order of insertion
  evidence,    \* newest retained sequence number
  reviewed,    \* sequence number the latest review covers, 0 for none
  acks         \* acknowledgments of review gaps, in the order of insertion

trail == <<transitions, evidence, reviewed, acks>>
auditVars == <<vars, trail>>

Gap == IF evidence > 0 /\ reviewed = 0 THEN "missing_review_marker"
       ELSE IF evidence > reviewed THEN "stale_review"
       ELSE "none"

\* The latest acknowledgment is of this gap and of all of its evidence.
transitionReviewGapAckCurrent ==
  /\ Gap # "none" /\ acks # <<>>
  /\ acks[Len(acks)].class = Gap
  /\ evidence > 0 => acks[Len(acks)].newest >= evidence

\* Variant with a fault: the snapshot is of the newest packet.
SnapshotOfNewest(d) ==
  LET id == Len(d.packets)
  IN [class   |-> IF ClaudeOwnsBranch(d) THEN "HANDOFF_CLAUDE" ELSE "LOCAL",
      ref     |-> id,
      state   |-> assessHandoffContinuity(d, id),
      launch  |-> IF id = 0 THEN "NONE" ELSE d.packets[id].launch,
      attempt |-> IF id = 0 THEN 0 ELSE d.packets[id].attempt]

\* captureContinuityTransitionSnapshot: the branch, the handoff and its
\* launch, of the active handoff only (0 stands for the local lineage).
Snapshot(d) ==
  LET id == ActiveHandoff(d)
  IN [class   |-> IF ClaudeOwnsBranch(d) THEN "HANDOFF_CLAUDE" ELSE "LOCAL",
      ref     |-> id,
      state   |-> assessHandoffContinuity(d, id),
      launch  |-> IF id = 0 THEN "NONE" ELSE d.packets[id].launch,
      attempt |-> IF id = 0 THEN 0 ELSE d.packets[id].attempt]

\* Variant with a fault: every launch outcome counts.
materialContinuityTransitionAlways(before, after) == TRUE

materialContinuityTransition(before, after) ==
  \/ before.class # after.class \/ before.ref # after.ref
  \/ before.state # after.state
  \/ before.attempt # after.attempt \/ before.launch # after.launch

Receipt(kind, id, before, after) ==
  [kind |-> kind, packet |-> id, before |-> before, after |-> after,
   gap |-> Gap, newest |-> evidence, acked |-> transitionReviewGapAckCurrent]

\* recordContinuityTransitionReceipt
RecordReceipt(kind, id) ==
  LET before == Snapshot(db)
      after  == Snapshot(db)'
  IN /\ transitions' = IF materialContinuityTransition(before, after)
                       THEN Append(transitions, Receipt(kind, id, before, after))
                       ELSE transitions
     /\ UNCHANGED <<evidence, reviewed, acks>>

\* finalizeHandoffLaunch with its receipt, for both outcomes.
FinishLaunch(l) ==
  /\ FinalizeHandoffLaunch(l)
  /\ RecordReceipt("HANDOFF_LAUNCH", l.packet)

\* RecordHandoffResolution with its receipt.
Resolve ==
  /\ RecordHandoffResolution
  /\ RecordReceipt("HANDOFF_RESOLUTION", ActiveHandoff(db))

\* Nothing else writes a receipt.
OtherHandoffStep ==
  \/ \E c \in Clients :
       \/ \E req \in HandoffReqs : AssessHandoff(c, req)
       \/ CreateHandoffNothing(c)
       \/ CreateHandoff(c)
  \/ \E id \in DOMAIN packets : AcceptHandoff(id) \/ PrepareHandoffLaunch(id)
  \/ \E kind \in FollowKinds : RecordHandoffFollowThrough(kind)

\* The shell transcript goes on.
EvidenceArrives ==
  /\ evidence < MaxEvidence
  /\ evidence' = evidence + 1
  /\ UNCHANGED <<vars, transitions, reviewed, acks>>

ReviewEvidence ==
  /\ reviewed < evidence
  /\ reviewed' = evidence
  /\ UNCHANGED <<vars, transitions, evidence, acks>>

AcknowledgeGap ==
  /\ Gap # "none" /\ Len(acks) < MaxGapAcks
  /\ acks' = Append(acks, [class |-> Gap, newest |-> evidence])
  /\ UNCHANGED <<vars, transitions, evidence, reviewed>>

AuditInit ==
  /\ Init
  /\ transitions = <<>> /\ evidence = 0 /\ reviewed = 0 /\ acks = <<>>

\* Runs, continues and recovery actions touch neither a packet nor what a
\* receipt tells of one, and are left out here.
AuditNext ==
  \/ \E l \in launches : FinishLaunch(l)
  \/ Resolve
  \/ OtherHandoffStep /\ UNCHANGED trail
  \/ LocalMutationStep /\ UNCHANGED trail
  \/ DaemonCrash /\ UNCHANGED trail
  \/ EvidenceArrives
  \/ ReviewEvidence
  \/ AcknowledgeGap

AuditSpec == AuditInit /\ [][AuditNext]_auditVars

----------------------------------------------------------------------------
HandoffStates ==
  {"NOT_APPLICABLE", "ACCEPTED_NOT_LAUNCHED", "LAUNCH_PENDING_OUTCOME",
   "LAUNCH_FAILED_RETRYABLE", "LAUNCH_COMPLETED_ACK_MISSING",
   "LAUNCH_COMPLETED", "FOLLOW_THROUGH"}

TransitionSnapshots ==
  [class : {"LOCAL", "HANDOFF_CLAUDE"}, ref : Nat, state : HandoffStates,
   launch : LaunchStatuses, attempt : Nat]

\* Every variable holds values of its table.
AuditTypeOK ==
  /\ transitions \in Seq([kind : {"HANDOFF_LAUNCH", "HANDOFF_RESOLUTION"},
                          packet : DOMAIN packets,
                          before : TransitionSnapshots, after : TransitionSnapshots,
                          gap : {"none", "missing_review_marker", "stale_review"},
                          newest : Nat, acked : BOOLEAN])
  /\ evidence \in Nat /\ reviewed \in 0..evidence
  /\ acks \in Seq([class : {"missing_review_marker", "stale_review"}, newest : Nat])

\* A receipt is about the handoff it names: the snapshots are taken of the
\* active handoff, which need not be the one whose launch just ended, and
\* the launch it shows is the one that was pending.  A review gap it shows
\* as acknowledged was acknowledged with all the evidence it counts,
\* whatever arrived between the two.
ReceiptsTellTheirOwn ==
  \A i \in DOMAIN transitions :
    LET r == transitions[i]
    IN /\ r.before.ref = r.packet
       /\ r.kind = "HANDOFF_LAUNCH" =>
            /\ r.after.ref = r.packet
            /\ r.before.state = "LAUNCH_PENDING_OUTCOME"
            /\ r.after.state \in {"LAUNCH_COMPLETED", "LAUNCH_FAILED_RETRYABLE",
                                  "FOLLOW_THROUGH"}
       /\ r.kind = "HANDOFF_RESOLUTION" => r.after.ref # r.packet
       /\ r.acked => \E a \in DOMAIN acks : acks[a] = [class |-> r.gap, newest |-> r.newest]

\* A resolution ends a handoff's trail: exactly one receipt of it, and none
\* of a launch whose outcome arrives later.
ResolutionEndsTheTrail ==
  \A id \in DOMAIN packets :
    LET of == {i \in DOMAIN transitions : transitions[i].packet = id}
        ends == {i \in of : transitions[i].kind = "HANDOFF_RESOLUTION"}
    IN /\ packets[id].resolved => Cardinality(ends) = 1
       /\ ~packets[id].resolved => ends = {}
       /\ \A e \in ends, i \in of : i <= e
=============================================================================
