--------------------------- MODULE LocalMutation ---------------------------
(***************************************************************************)
(* MessageTask and CreateCheckpoint (orchestrator/service.go).  Both ask,  *)
(* outside any transaction, whether an accepted Claude handoff owns the    *)
(* task (localMutationBlockedByClaudeHandoff), and then write in a         *)
(* transaction that looks at neither the handoffs nor the capsule version  *)
(* again.                                                                  *)
(***************************************************************************)
EXTENDS TaskStore

\* The preflight of either operation; a blocked request ends with an error.
PreflightMutation(c, op) ==
  /\ Free(c, op)
  /\ ~localMutationBlockedByClaudeHandoff(db)
  /\ pending' = [pending EXCEPT ![c] = [Idle EXCEPT !.op = op]]
  /\ UNCHANGED <<database, repo, workers, launches>>

\* MessageTask's transaction: re-anchor, compile intent and brief.  No
\* checkpoint is taken and a run in progress is not considered.
MessageTask(c) ==
  /\ pending[c].op = "message"
  /\ caps' = [Bumped(caps, "BRIEF_READY")
                EXCEPT !.anchor = repo, !.intent = caps.ver + 1,
                       !.brief = caps.ver + 1]
  /\ Done(c)
  /\ UNCHANGED <<runs, cp, act, packets, lastRes, repo, workers, launches>>

\* CreateCheckpoint's transaction: re-anchor, a manual checkpoint that names
\* no run.
CreateCheckpoint(c) ==
  /\ pending[c].op = "checkpoint"
  /\ caps' = [Bumped(caps, caps.phase) EXCEPT !.anchor = repo]
  /\ cp' = NewCheckpoint(caps', 0,
             caps.brief # 0 /\ caps.phase \notin {"BLOCKED", "AWAITING_DECISION"},
             NoIssue)
  /\ Done(c)
  /\ UNCHANGED <<runs, act, packets, lastRes, repo, workers, launches>>

LocalMutationStep ==
  \E c \in Clients :
    \/ \E op \in {"message", "checkpoint"} : PreflightMutation(c, op)
    \/ MessageTask(c)
    \/ CreateCheckpoint(c)

=============================================================================
