---------------------------- MODULE TaskControl ----------------------------
(***************************************************************************)
(* The control plane of one task: every operation of the daemon on it,     *)
(* interleaved with each other, with the repository and with crashes.      *)
(***************************************************************************)
EXTENDS LocalMutation, RunControl, ContinueControl, RecoveryControl, HandoffControl

Init == StartTask

Next ==
  \/ LocalMutationStep
  \/ RunStep
  \/ ContinueStep
  \/ RecoveryStep
  \/ HandoffStep
  \/ RepositoryChanges
  \/ DaemonCrash

Spec == Init /\ [][Next]_vars

----------------------------------------------------------------------------
\* Every variable holds values of its table or goroutine.
TypeOK ==
  /\ caps \in Capsules
  /\ runs \in Seq(Runs)
  /\ cp \in Checkpoints
  /\ act \in Actions
  /\ packets \in Seq(Packets)
  /\ lastRes \in Nat
  /\ repo \in Anchors
  /\ pending \in [Clients -> Requests]
  /\ workers \subseteq Nat
  /\ launches \subseteq Launches

----------------------------------------------------------------------------
(***************************************************************************)
(* Safety.                                                                 *)
(***************************************************************************)
\* Only the latest run can be RUNNING.  Nothing in prepareRealRun or
\* startRunNoop looks for a RUNNING run: it is the recovery class of a
\* snapshot with one, whatever operators recorded, that keeps them out.
OnlyLatestRunning ==
  \A i \in DOMAIN runs : runs[i].status = "RUNNING" => i = Len(runs)

\* A terminal run is history: a late worker, a manual action and a
\* reconciliation racing each other never change its status or its brief.
TerminalRunsStay ==
  [][\A i \in DOMAIN runs :
       runs[i].status # "RUNNING" => i \in DOMAIN runs' /\ runs'[i] = runs[i]]_vars

\* The capsule version is a sound witness for "nothing changed since the
\* assessment": a request assessed at the current version still names the
\* latest run and its status.  So finalizeContinue's branch "latest run is
\* not RUNNING" is unreachable, no recovery action is recorded about another
\* run than the latest, and no packet carries an outdated run status.
AssessedRun(p) ==
  /\ p.op \in {"continue", "handoff"} => p.run = Len(runs)
  /\ p.op = "handoff" => p.runStatus = LatestStatus(db)
  /\ p.op = "continue" /\ p.outcome = "StaleReconciled" => LatestIsRunning(db)
  /\ p.op \in {"record", "resume", "finalize"} => p.act.run \in {0, Len(runs)}

CurrentVersionCurrentRun ==
  \A c \in Clients :
    pending[c].op # "idle" /\ pending[c].ver = caps.ver => AssessedRun(pending[c])

\* The code's own continuity validation never meets a state it calls
\* corrupt, except the two it cannot rule out: a task without a brief, and
\* operations that moved the task under a RUNNING run.  In particular no
\* interleaving of operations and crashes leaves a resumable checkpoint in a
\* blocked phase, an EXECUTING capsule without a RUNNING run, a completed
\* launch without its acknowledgment, or a packet at odds with its checkpoint.
OnlyOpenRunsAreInconsistent ==
  \A i \in validateContinuitySnapshot(db) :
    i.at # 1 => LatestIsRunning(db) /\ i.at \in {3, 4, 5}

\* Continue reaches a fixed point: with nobody in between and a repository
\* that stands still, a third ContinueTask finds nothing left to record.  (A
\* second one may: the BLOCKED it records is itself what the next validation
\* message reports of a RUNNING run.)
ContinueSettles ==
  ~ContinueMutates(ContinueTask(ContinueTask(db, repo), repo), repo)

\* No local run starts while an accepted Claude handoff is unresolved.  The
\* gate is the recovery class only, which recovery actions can move.
NoRunWhileClaudeOwns ==
  [][Len(runs') > Len(runs) => ~ClaudeOwnsBranch(db)]_vars

\* A launcher that is executing is the one its packet waits for: no packet
\* is launched twice at once, no outcome is recorded for another attempt.
LaunchersAwaited ==
  \A l \in launches :
    /\ l.packet \in DOMAIN packets
    /\ packets[l.packet].launch = "REQUESTED"
    /\ packets[l.packet].attempt = l.attempt

\* Whatever changes the capsule or a run moves the capsule version: the
\* optimistic check of every two-step operation relies on it.
VersionCoversChanges ==
  [][<<caps, runs>>' # <<caps, runs>> => caps'.ver > caps.ver]_vars

----------------------------------------------------------------------------
(***************************************************************************)
(* Refinement.                                                             *)
(***************************************************************************)
\* The refinement mapping: the ledger is the status column.
Statuses == [i \in DOMAIN runs |-> runs[i].status]

Ledger == INSTANCE RunLedger WITH ledger <- Statuses

\* The runs of a task are a run ledger: no race between prepareRealRun,
\* finalizeRealRun, manual actions and continue's reconciliation overlaps
\* two runs or ends one twice.
ImplementsRunLedger == Ledger!LedgerSpec

----------------------------------------------------------------------------
(***************************************************************************)
(* Liveness.  Goroutines are scheduled: a request that was assessed gets   *)
(* its transaction, and a worker and a launcher return, because both run   *)
(* under context.WithTimeout (adapters/codex/adapter.go, Execute, and      *)
(* adapters/claude/launcher.go, LaunchHandoff).  Nothing is assumed of     *)
(* operators or of the repository.                                         *)
(***************************************************************************)
CommitRequest(c) ==
  \/ MessageTask(c) \/ CreateCheckpoint(c)
  \/ FinalizeContinue(c)
  \/ RecordRecoveryAction(c) \/ ExecuteRebrief(c)
  \/ ExecuteInterruptedResume(c) \/ ExecuteContinueRecovery(c)
  \/ RefuseStaleRecovery(c)
  \/ CreateHandoff(c) \/ CreateHandoffNothing(c)

WorkerReturns(id) == FinalizeRealRun(id) \/ FinalizeRealRunRefused(id)

LauncherReturns(id, n) ==
  LET l == [packet |-> id, attempt |-> n]
  IN l \in launches /\ FinalizeHandoffLaunch(l)

Fairness ==
  /\ \A c \in Clients : WF_vars(CommitRequest(c))
  /\ \A id \in 1..MaxRuns : WF_vars(WorkerReturns(id))
  /\ \A id \in 1..MaxPackets, n \in 1..MaxAttempts :
       WF_vars(LauncherReturns(id, n))

\* Liveness is claimed of a daemon that does not crash.
SteadyNext == "crash" \notin Operations /\ Next

FairSpec == Init /\ [][SteadyNext]_vars /\ Fairness

\* In a daemon that does not crash, a real run leaves RUNNING, however the
\* other operations interfere with it.
LiveRunsEnd ==
  \A id \in 1..MaxRuns :
    id \in workers ~> id \in DOMAIN runs /\ runs[id].status # "RUNNING"

\* In a daemon that does not crash, a launch that was requested gets a
\* durable outcome, so "outcome is unknown" does not last.
LaunchesConclude ==
  \A id \in 1..MaxPackets :
    id \in DOMAIN packets /\ packets[id].launch = "REQUESTED"
      ~> id \in DOMAIN packets /\ packets[id].launch \in {"COMPLETED", "FAILED"}

=============================================================================
