-------------------------- MODULE HandoffControl --------------------------
(***************************************************************************)
(* Cross-worker handoff: CreateHandoff and AcceptHandoff (handoff.go), the *)
(* staged LaunchHandoff (handoff_launch.go), RecordHandoffFollowThrough    *)
(* and RecordHandoffResolution.  None of them moves the capsule version.   *)
(***************************************************************************)
EXTENDS TaskStore, FiniteSets

\* hasValidResumableHandoffCheckpoint
ValidHandoffCheckpoint(k, point) ==
  /\ point.id # 0 /\ point.resumable
  /\ point.brief # 0 /\ point.brief = k.brief
  /\ point.intent # 0 /\ k.intent # 0 => point.intent = k.intent
  /\ point.phase = k.phase

\* validateHandoffSafety = "" (canCreateHandoffCheckpoint included)
HandoffSafe(d, anchor) ==
  LET outcome  == ContinueOutcome(d, anchor)
      reusable == ValidHandoffCheckpoint(d.caps, d.cp)
  IN /\ outcome \in {"Safe", "NeedsDecision"}
     /\ outcome = "NeedsDecision" => reusable
     /\ d.caps.phase # "EXECUTING" /\ d.caps.brief # 0
     /\ reusable \/ d.caps.phase \notin {"AWAITING_DECISION", "BLOCKED"}

\* CreateHandoff up to its transaction; an unsafe task only gets a proof
\* event (recordBlockedHandoffReason).
AssessHandoff(c, req) ==
  /\ Free(c, "handoff")
  /\ Len(packets) + Cardinality({x \in Clients : pending[x].op = "handoff"})
       < MaxPackets
  /\ HandoffSafe(db, repo)
  /\ pending' = [pending EXCEPT ![c] =
       [Idle EXCEPT !.op = "handoff", !.ver = caps.ver, !.run = LatestRunID(db),
                    !.runStatus = LatestStatus(db), !.cp = cp.id,
                    !.lastRes = lastRes, !.req = req]]
  /\ UNCHANGED <<database, repo, workers, launches>>

\* canReuseHandoffPacket, for the latest packet
ReusablePacket(p) ==
  LET id == Len(packets)
  IN /\ packets # <<>>
     /\ p.lastRes # id
     /\ packets[id].req = p.req
     /\ packets[id].brief = caps.brief /\ packets[id].intent = caps.intent
     /\ packets[id].phase = caps.phase /\ packets[id].ver = caps.ver
     /\ packets[id].run = p.run /\ packets[id].runStatus = p.runStatus
     /\ ValidHandoffCheckpoint(caps, packets[id].cp)

\* CreateHandoff's transaction when it writes nothing but proof events: the
\* version moved, or the latest packet says the same.
CreateHandoffNothing(c) ==
  LET p == pending[c]
  IN /\ p.op = "handoff"
     /\ p.ver # caps.ver \/ ReusablePacket(p)
     /\ Done(c)
     /\ UNCHANGED <<database, repo, workers, launches>>

\* CreateHandoff's transaction: the latest checkpoint if it is the assessed
\* one and still fits, else a new one, and the packet.
CreateHandoff(c) ==
  LET p      == pending[c]
      reuse  == cp.id = p.cp /\ ValidHandoffCheckpoint(caps, cp)
      anchor == IF reuse THEN cp ELSE NewCheckpoint(caps, p.run, TRUE, NoIssue)
  IN /\ p.op = "handoff" /\ p.ver = caps.ver /\ ~ReusablePacket(p)
     /\ cp' = anchor
     /\ packets' = Append(packets,
          [status |-> "CREATED", req |-> p.req, brief |-> caps.brief,
           intent |-> caps.intent, phase |-> caps.phase, ver |-> caps.ver,
           run |-> p.run, runStatus |-> p.runStatus, cp |-> anchor,
           resumable |-> anchor.resumable, launch |-> "NONE", attempt |-> 0,
           ack |-> "NONE", follow |-> "NONE", followAttempt |-> 0,
           resolved |-> FALSE])
     /\ Done(c)
     /\ UNCHANGED <<caps, runs, act, lastRes, repo, workers, launches>>

\* AcceptHandoff: one transaction, no assessment; accepting twice is a no-op.
AcceptHandoff(id) ==
  /\ "accept" \in Operations
  /\ packets[id].status = "CREATED"
  /\ packets' = [packets EXCEPT ![id].status = "ACCEPTED"]
  /\ UNCHANGED <<caps, runs, cp, act, lastRes, repo, pending, workers, launches>>

\* validateLaunchSafety = ""
LaunchSafe(id) ==
  /\ ~packets[id].resolved
  /\ ContinueOutcome(db, repo) = "Safe"
  /\ packets[id].resumable /\ packets[id].cp.resumable
  /\ packets[id].brief = packets[id].cp.brief

\* Variant with a fault: only a completed launch is not repeated.
LaunchRetryableUnlessCompleted(id) == packets[id].launch # "COMPLETED"

\* tryReusePriorLaunchOutcome: a requested or completed launch is never
\* repeated.
LaunchRetryable(id) == packets[id].launch \in {"NONE", "FAILED"}

\* prepareHandoffLaunch for a packet named by its id (created or accepted)
\* or for the active one; the launcher is called next.
PrepareHandoffLaunch(id) ==
  /\ "launch" \in Operations
  /\ LaunchRetryable(id) /\ LaunchSafe(id)
  /\ packets[id].attempt < MaxAttempts
  /\ packets' = [packets EXCEPT ![id].launch = "REQUESTED", ![id].attempt = @ + 1]
  /\ launches' = launches \cup {[packet |-> id, attempt |-> packets'[id].attempt]}
  /\ UNCHANGED <<caps, runs, cp, act, lastRes, repo, pending, workers>>

\* Variant with a fault: a launcher error is returned, not recorded.
FinalizeHandoffLaunchLosesErrors(l) ==
  /\ launches' = launches \ {l}
  /\ packets[l.packet].attempt = l.attempt
  /\ packets[l.packet].launch = "REQUESTED"
  /\ \/ UNCHANGED packets
     \/ \E ack \in {"CAPTURED", "UNAVAILABLE"} :
          packets' = [packets EXCEPT ![l.packet].launch = "COMPLETED",
                                     ![l.packet].ack = ack]
  /\ UNCHANGED <<caps, runs, cp, act, lastRes, repo, pending, workers>>

\* Variant with a fault: a completed launch is recorded without its
\* acknowledgment.
FinalizeHandoffLaunchNoAck(l) ==
  /\ launches' = launches \ {l}
  /\ packets[l.packet].attempt = l.attempt
  /\ packets[l.packet].launch = "REQUESTED"
  /\ \E status \in {"FAILED", "COMPLETED"} :
       packets' = [packets EXCEPT ![l.packet].launch = status]
  /\ UNCHANGED <<caps, runs, cp, act, lastRes, repo, pending, workers>>

\* finalizeHandoffLaunch: the launcher's result for the attempt it was
\* started for, which must still be REQUESTED.
FinalizeHandoffLaunch(l) ==
  /\ launches' = launches \ {l}
  /\ packets[l.packet].attempt = l.attempt
  /\ packets[l.packet].launch = "REQUESTED"
  /\ \/ packets' = [packets EXCEPT ![l.packet].launch = "FAILED"]
     \/ \E ack \in {"CAPTURED", "UNAVAILABLE"} :
          packets' = [packets EXCEPT ![l.packet].launch = "COMPLETED",
                                     ![l.packet].ack = ack]
  /\ UNCHANGED <<caps, runs, cp, act, lastRes, repo, pending, workers>>

\* RecordHandoffFollowThrough: the posture is checked again in the
\* transaction, so the earlier check only refuses more.
RecordHandoffFollowThrough(kind) ==
  LET id == ActiveHandoff(db)
  IN /\ "follow" \in Operations
     /\ assessHandoffContinuity(db, id) \in {"LAUNCH_COMPLETED", "FOLLOW_THROUGH"}
     /\ packets[id].follow # kind
     /\ packets' = [packets EXCEPT ![id].follow = kind,
                                   ![id].followAttempt = packets[id].attempt]
     /\ UNCHANGED <<caps, runs, cp, act, lastRes, repo, pending, workers, launches>>

\* RecordHandoffResolution: likewise checked again in the transaction.
RecordHandoffResolution ==
  LET id == ActiveHandoff(db)
  IN /\ "resolve" \in Operations
     /\ assessHandoffContinuity(db, id) # "NOT_APPLICABLE"
     /\ packets' = [packets EXCEPT ![id].resolved = TRUE]
     /\ lastRes' = id
     /\ UNCHANGED <<caps, runs, cp, act, repo, pending, workers, launches>>

HandoffStep ==
  \/ \E c \in Clients :
       \/ \E req \in HandoffReqs : AssessHandoff(c, req)
       \/ CreateHandoffNothing(c)
       \/ CreateHandoff(c)
  \/ \E id \in DOMAIN packets : AcceptHandoff(id) \/ PrepareHandoffLaunch(id)
  \/ \E l \in launches : FinalizeHandoffLaunch(l)
  \/ \E kind \in FollowKinds : RecordHandoffFollowThrough(kind)
  \/ RecordHandoffResolution

=============================================================================
