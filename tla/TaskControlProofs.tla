------------------------- MODULE TaskControlProofs -------------------------
(***************************************************************************)
(* Theorems about TaskControl, for any clients, anchors, operations and    *)
(* bounds.  The argument: (1) the building blocks have their types; (2)    *)
(* every step either moves the capsule version and starts no request, or   *)
(* leaves capsule and runs alone (Shape), so an assessment at the current  *)
(* version still names the latest run; (3) every step does to the runs     *)
(* what a run ledger allows (RunsChange), which for the start of a run     *)
(* rests on the recovery class and for the reconciliation of one on (2);   *)
(* (4) TaskInv is inductive; (5) the theorems about it.  Then, for         *)
(* OnlyOpenRunsAreInconsistent: (6) no step leaves a resumable checkpoint  *)
(* in a phase that waits for an operator, and a checkpoint written under a *)
(* RUNNING run moves the version (CheckpointStep); the strengthening is    *)
(* what an assessment at the current version says of the phase; (7) the    *)
(* task is EXECUTING only under a RUNNING run (PhaseStep); (8) a packet    *)
(* agrees with its checkpoint and its launch with its acknowledgment and   *)
(* follow-through (SoundPacket).  Last, for ContinueSettles: (9) what a    *)
(* continue records is what the next one would record (SettlesAtOnce),     *)
(* except that the first BLOCKED may itself be the next objection; a       *)
(* second one finds the same objections again (BlockedSettles).            *)
(***************************************************************************)
EXTENDS TaskControl, SequenceTheorems, WellFoundedInduction, TLAPS

----------------------------------------------------------------------------
(***************************************************************************)
(* Types of the building blocks.                                           *)
(***************************************************************************)
\* A set of naturals has a least element.
LEMMA LeastNatural ==
  ASSUME NEW T, T \subseteq Nat, T # {}
  PROVE  \E t \in T : \A u \in T : t <= u
<1> DEFINE R == OpToRel(<, Nat)
<1>1. IsWellFoundedOn(R, Nat)
  BY NatLessThanWellFounded
<1>2. \A x, y \in Nat : x < y => <<x, y>> \in R
  BY DEF OpToRel
<1> HIDE DEF R
<1>3. PICK x \in T : \A y \in T : ~(<<y, x>> \in R)
  BY <1>1, WFMin
<1>4. \A y \in T : ~(y < x)
  BY <1>2, <1>3
<1>5. \A y \in T : x <= y
  BY <1>4
<1> QED
  BY <1>5

\* A bounded set of naturals has a greatest element.
LEMMA GreatestNatural ==
  ASSUME NEW n \in Nat, NEW T, T \subseteq 0..n, T # {}
  PROVE  \E t \in T : \A u \in T : u <= t
<1> DEFINE D == {n - t : t \in T}
<1>1. D \subseteq Nat /\ D # {}
  <2>1. \A t \in T : n - t \in Nat
    OBVIOUS
  <2>2. PICK t0 \in T : TRUE
    OBVIOUS
  <2>3. n - t0 \in D
    OBVIOUS
  <2> QED
    BY <2>1, <2>3
<1>2. PICK m \in D : \A u \in D : m <= u
  <2> HIDE DEF D
  <2> QED BY <1>1, LeastNatural
<1>3. PICK t \in T : m = n - t
  OBVIOUS
<1>4. \A u \in T : n - t <= n - u
  BY <1>2, <1>3
<1>5. \A u \in T : u <= t
  BY <1>4
<1> QED
  BY <1>5

\* The empty request is a request.
LEMMA IdleType == Idle \in Requests /\ NoAction \in Actions /\ NoIssue \in Issues
<1>1. NoIssue \in Issues
  BY DEF NoIssue, Issue, Issues
<1>2. NoAction \in Actions
  BY DEF NoAction, Actions, ActionKinds
<1>3. (CHOOSE a \in Anchors : TRUE) \in Anchors
  BY AnchorsAssumption
<1>4. (CHOOSE r \in HandoffReqs : TRUE) \in HandoffReqs
  BY ClientsAssumption
<1> QED
  BY <1>1, <1>2, <1>3, <1>4 DEF Idle, Requests, Outcomes

\* An update of the capsule row yields a capsule row, one version further.
LEMMA BumpedType ==
  ASSUME NEW k \in Capsules, NEW ph \in Phases
  PROVE  Bumped(k, ph) \in Capsules /\ Bumped(k, ph).ver = k.ver + 1
<1> DEFINE v == k.ver + 1
<1>1. v \in Nat
  BY DEF Capsules
<1>2. Bumped(k, ph) = [k EXCEPT !.ver = v, !.phase = ph]
  BY DEF Bumped
<1> HIDE DEF v
<1>3. /\ [k EXCEPT !.ver = v, !.phase = ph] \in Capsules
      /\ [k EXCEPT !.ver = v, !.phase = ph].ver = v
  BY <1>1 DEF Capsules
<1> QED
  BY <1>2, <1>3 DEF v

\* A checkpoint of a capsule row is a checkpoint row.
LEMMA CheckpointType ==
  ASSUME NEW id \in Nat, NEW k \in Capsules, NEW run \in Nat,
         NEW resumable \in BOOLEAN, NEW reason \in Issues
  PROVE  Checkpoint(id, k, run, resumable, reason) \in Checkpoints
  BY DEF Checkpoint, Checkpoints, Capsules

\* The same for the next checkpoint of the task.
LEMMA NewCheckpointType ==
  ASSUME cp \in Checkpoints, NEW k \in Capsules, NEW run \in Nat,
         NEW resumable \in BOOLEAN, NEW reason \in Issues
  PROVE  NewCheckpoint(k, run, resumable, reason) \in Checkpoints
<1>1. cp.id + 1 \in Nat
  BY DEF Checkpoints
<1> QED
  BY <1>1, CheckpointType DEF NewCheckpoint

\* Ending a run changes no other run, no length and no brief.
LEMMA EndRunType ==
  ASSUME runs \in Seq(Runs), NEW id \in DOMAIN runs, NEW status \in RunStatuses
  PROVE  /\ EndRun(id, status) \in Seq(Runs)
         /\ Len(EndRun(id, status)) = Len(runs)
         /\ DOMAIN EndRun(id, status) = DOMAIN runs
         /\ EndRun(id, status)[id].status = status
         /\ \A i \in DOMAIN runs : i # id => EndRun(id, status)[i] = runs[i]
<1> DEFINE r == runs[id]
           x == [r EXCEPT !.status = status]
<1>1. r \in Runs
  OBVIOUS
<1>2. EndRun(id, status) = [runs EXCEPT ![id] = x]
  BY DEF EndRun
<1> HIDE DEF r
<1>3. x \in Runs /\ x.status = status
  BY <1>1 DEF Runs
<1> HIDE DEF x
<1> QED
  BY <1>2, <1>3

\* A request replaces a client's earlier one.
LEMMA PendingType ==
  ASSUME pending \in [Clients -> Requests], NEW c \in Clients, NEW p \in Requests
  PROVE  /\ [pending EXCEPT ![c] = p] \in [Clients -> Requests]
         /\ [pending EXCEPT ![c] = p][c] = p
         /\ \A x \in Clients : x # c => [pending EXCEPT ![c] = p][x] = pending[x]
  OBVIOUS

----------------------------------------------------------------------------
(***************************************************************************)
(* Types of the assessment.                                                *)
(***************************************************************************)
\* The first violation, when there is one, is one of the violations.
LEMMA FirstIssueType ==
  ASSUME NEW issues, issues \subseteq Issues
  PROVE  FirstIssue(issues) \in Issues
<1>1. CASE issues = {}
  BY <1>1, IdleType DEF FirstIssue
<1>2. CASE issues # {}
  <2> DEFINE T == {i.at : i \in issues}
  <2>1. T \subseteq Nat /\ T # {}
    BY <1>2 DEF Issues
  <2>2. PICK t \in T : \A u \in T : t <= u
    <3> HIDE DEF T
    <3> QED BY <2>1, LeastNatural
  <2>3. \E i \in issues : \A j \in issues : i.at <= j.at
    BY <2>2
  <2>4. FirstIssue(issues) \in issues
    BY <1>2, <2>3 DEF FirstIssue
  <2> QED
    BY <2>4
<1> QED
  BY <1>1, <1>2

\* What an assessment reads, whether in one instant or table by table.
Snapshots == [caps : Capsules, runs : Seq(Runs), cp : Checkpoints, act : Actions,
              packets : Seq(Packets), lastRes : Nat]

\* One instant of the database is such a snapshot.
LEMMA DatabaseType ==
  ASSUME TypeOK
  PROVE  db \in Snapshots
  BY DEF TypeOK, Snapshots, db

\* What validation reports are issues.
LEMMA ValidationType ==
  ASSUME NEW d \in Snapshots
  PROVE  validateContinuitySnapshot(d) \subseteq Issues
<1>0. /\ d.caps \in Capsules /\ d.runs \in Seq(Runs) /\ d.cp \in Checkpoints
      /\ d.packets \in Seq(Packets)
  BY DEF Snapshots
<1>1. \A condition, issue : issue \in Issues => When(condition, issue) \subseteq Issues
  BY DEF When
<1>2. \A at, a, b \in Nat, word \in {"", "NONE", "VERSION"} \cup Phases \cup RunStatuses :
        Issue(at, word, a, b) \in Issues
  BY DEF Issue, Issues
<1>3. validateCheckpointContinuity(d) \subseteq Issues
  <2>1. Issue(2, d.cp.phase, d.cp.id, 0) \in Issues
    BY <1>0, <1>2 DEF Checkpoints
  <2> QED
    BY <1>1, <2>1 DEF validateCheckpointContinuity
<1>4. ASSUME HasRun(d) PROVE validateRunContinuity(d) \subseteq Issues
  <2> DEFINE id == Len(d.runs)
             run == d.runs[id]
  <2>1. id \in Nat /\ run \in Runs
    BY <1>0, <1>4 DEF HasRun
  <2> HIDE DEF run
  <2>2. /\ Issue(3, d.caps.phase, id, 0) \in Issues
        /\ Issue(4, "", run.brief, d.caps.brief) \in Issues
        /\ Issue(5, "", id, d.cp.run) \in Issues
        /\ Issue(6, run.status, 0, 0) \in Issues
    BY <1>0, <1>2, <2>1 DEF Capsules, Runs, Checkpoints
  <2> QED
    BY <1>1, <2>2 DEF validateRunContinuity, LatestRunID, run
<1>5. ASSUME d.packets # <<>> PROVE validateHandoffContinuity(d) \subseteq Issues
  <2> DEFINE id == Len(d.packets)
             p  == d.packets[id]
  <2>1. id \in Nat /\ p \in Packets
    BY <1>0, <1>5
  <2> HIDE DEF p
  <2>2. /\ p.cp \in Checkpoints /\ p.brief \in Nat /\ p.intent \in Nat
        /\ p.attempt \in Nat /\ p.followAttempt \in Nat
    BY <2>1 DEF Packets
  <2>3. /\ Issue(7, "", id, p.cp.id) \in Issues
        /\ Issue(8, "", p.brief, p.cp.brief) \in Issues
        /\ Issue(9, "", p.intent, p.cp.intent) \in Issues
        /\ Issue(10, "", p.attempt, id) \in Issues
        /\ Issue(11, "", p.attempt, 0) \in Issues
        /\ Issue(12, "", id, p.attempt) \in Issues
        /\ Issue(13, "", p.followAttempt, p.attempt) \in Issues
    BY <1>2, <2>1, <2>2 DEF Checkpoints
  <2>4. ASSUME NEW i \in validateHandoffContinuity(d)
        PROVE  \/ i = Issue(7, "", id, p.cp.id)
               \/ i = Issue(8, "", p.brief, p.cp.brief)
               \/ i = Issue(9, "", p.intent, p.cp.intent)
               \/ i = Issue(10, "", p.attempt, id)
               \/ i = Issue(11, "", p.attempt, 0)
               \/ i = Issue(12, "", id, p.attempt)
               \/ i = Issue(13, "", p.followAttempt, p.attempt)
    BY Zenon DEF validateHandoffContinuity, When, p
  <2> QED
    BY <2>3, <2>4
<1>6. Issue(1, "", 0, 0) \in Issues /\ Issue(6, "NONE", 0, 0) \in Issues
  BY <1>2
<1> QED
  BY <1>1, <1>3, <1>4, <1>5, <1>6 DEF validateContinuitySnapshot

\* An active handoff is a packet of the task: accepted and not resolved.
LEMMA ActiveHandoffType ==
  ASSUME TypeOK
  PROVE  /\ ActiveHandoff(db) \in Nat
         /\ ActiveHandoff(db) = 0 <=> ActivePackets(db) = {}
         /\ ActiveHandoff(db) # 0 => ActiveHandoff(db) \in ActivePackets(db)
         /\ ActivePackets(db) \subseteq DOMAIN packets
<1> DEFINE T == ActivePackets(db)
<1>1. T \subseteq DOMAIN packets
  BY DEF ActivePackets, db
<1>2. T \subseteq 0..Len(packets) /\ T \subseteq Nat /\ Len(packets) \in Nat /\ 0 \notin T
  BY <1>1 DEF TypeOK
<1>3. CASE T = {}
  BY <1>1, <1>3 DEF ActiveHandoff
<1>4. CASE T # {}
  <2>1. \E t \in T : \A u \in T : u <= t
    <3> HIDE DEF T
    <3> QED BY <1>2, <1>4, GreatestNatural
  <2>2. ActiveHandoff(db) \in T
    BY <1>4, <2>1 DEF ActiveHandoff
  <2> QED
    BY <1>1, <1>2, <1>4, <2>2
<1> QED
  BY <1>3, <1>4

----------------------------------------------------------------------------
(***************************************************************************)
(* Steps.                                                                  *)
(***************************************************************************)
\* No request was assessed at a version the capsule has not reached.
VersionsBehind == \A c \in Clients : pending[c].ver <= caps.ver

\* Every packet is created from a resumable checkpoint.
PacketsResumable == \A id \in DOMAIN packets : packets[id].resumable

\* The inductive invariant.
TaskInv ==
  /\ TypeOK
  /\ VersionsBehind /\ CurrentVersionCurrentRun
  /\ LaunchersAwaited /\ PacketsResumable
  /\ OnlyLatestRunning

\* What every step does to version, runs and requests.
Answered(c) == pending'[c] \in {pending[c], Idle}

Shape ==
  \/ /\ caps'.ver > caps.ver
     /\ \A c \in Clients : Answered(c)
  \/ /\ caps' = caps /\ runs' = runs
     /\ \A c \in Clients :
          Answered(c) \/ (pending'[c].ver <= caps.ver /\ AssessedRun(pending'[c]))

\* What every step does to the runs.
EndStatuses == {"COMPLETED", "FAILED", "INTERRUPTED"}

RunsChange ==
  \/ runs' = runs
  \/ /\ ~LatestIsRunning(db) /\ ~ClaudeOwnsBranch(db)
     /\ \E status \in {"RUNNING", "INTERRUPTED"}, brief \in Nat :
          runs' = Append(runs, [status |-> status, brief |-> brief])
  \/ \E id \in DOMAIN runs, status \in EndStatuses :
       runs[id].status = "RUNNING" /\ runs' = EndRun(id, status)

StepOK == TypeOK' /\ Shape /\ RunsChange

\* The capsule row one version further, in any phase.
LEMMA BumpedCapsule ==
  ASSUME TypeOK, NEW ph \in Phases
  PROVE  /\ Bumped(caps, ph) \in Capsules
         /\ Bumped(caps, ph).ver = caps.ver + 1
         /\ caps.ver \in Nat /\ caps.ver + 1 \in Nat
<1>1. caps.ver \in Nat
  BY DEF TypeOK, Capsules
<1> QED
  BY <1>1, BumpedType DEF TypeOK

\* Every phase the code sets is a phase.
LEMMA PhaseNames ==
  /\ "BRIEF_READY" \in Phases /\ "EXECUTING" \in Phases /\ "PAUSED" \in Phases
  /\ "VALIDATING" \in Phases /\ "BLOCKED" \in Phases
  /\ "AWAITING_DECISION" \in Phases
  /\ (TypeOK => caps.phase \in Phases)
  BY DEF Phases, TypeOK, Capsules

\* Answering a request leaves the others alone.
LEMMA DoneType ==
  ASSUME pending \in [Clients -> Requests], NEW c \in Clients, Done(c)
  PROVE  pending' \in [Clients -> Requests] /\ \A x \in Clients : Answered(x)
  BY IdleType, PendingType DEF Done, Answered

\* MessageTask and CreateCheckpoint, preflight and transaction.
LEMMA LocalMutationShape ==
  ASSUME TaskInv, LocalMutationStep
  PROVE  StepOK
<1> USE DEF TaskInv
<1>1. ASSUME NEW c \in Clients, NEW op \in {"message", "checkpoint"},
             PreflightMutation(c, op)
      PROVE  StepOK
  <2> DEFINE p == [Idle EXCEPT !.op = op]
  <2>1. p \in Requests /\ p.op = op /\ p.ver = 0
    BY IdleType DEF Requests, Idle
  <2>2. pending' = [pending EXCEPT ![c] = p]
    BY <1>1 DEF PreflightMutation
  <2> HIDE DEF p
  <2>3. TypeOK'
    BY <1>1, <2>1, <2>2, PendingType DEF PreflightMutation, TypeOK, database
  <2>4. \A x \in Clients : Answered(x) \/ pending'[x] = p
    BY <2>1, <2>2, PendingType DEF TypeOK, Answered
  <2>5. p.ver <= caps.ver /\ AssessedRun(p)
    BY <2>1 DEF TypeOK, Capsules, AssessedRun
  <2>6. caps' = caps /\ runs' = runs
    BY <1>1 DEF PreflightMutation, database
  <2> QED
    BY <2>3, <2>4, <2>5, <2>6 DEF StepOK, Shape, RunsChange
<1>2. ASSUME NEW c \in Clients, MessageTask(c)
      PROVE  StepOK
  <2> DEFINE k == Bumped(caps, "BRIEF_READY")
             v == caps.ver + 1
  <2>1. k \in Capsules /\ k.ver = caps.ver + 1 /\ v \in Nat
    BY BumpedCapsule, PhaseNames
  <2>2. caps' = [k EXCEPT !.anchor = repo, !.intent = v, !.brief = v]
    BY <1>2 DEF MessageTask
  <2> HIDE DEF k, v
  <2>3. caps' \in Capsules /\ caps'.ver = caps.ver + 1
    BY <2>1, <2>2 DEF TypeOK, Capsules
  <2>4. pending' \in [Clients -> Requests] /\ \A x \in Clients : Answered(x)
    BY <1>2, DoneType DEF TypeOK, MessageTask
  <2>5. TypeOK'
    BY <1>2, <2>3, <2>4 DEF TypeOK, MessageTask
  <2>6. caps'.ver > caps.ver
    BY <2>3 DEF TypeOK, Capsules
  <2> QED
    BY <1>2, <2>4, <2>5, <2>6 DEF StepOK, Shape, RunsChange, MessageTask
<1>3. ASSUME NEW c \in Clients, CreateCheckpoint(c)
      PROVE  StepOK
  <2> DEFINE k == Bumped(caps, caps.phase)
             resumable == caps.brief # 0 /\ caps.phase \notin {"BLOCKED", "AWAITING_DECISION"}
  <2>1. k \in Capsules /\ k.ver = caps.ver + 1
    BY BumpedCapsule, PhaseNames
  <2>2. caps' = [k EXCEPT !.anchor = repo]
    BY <1>3 DEF CreateCheckpoint
  <2>3. cp' = NewCheckpoint(caps', 0, resumable, NoIssue) /\ resumable \in BOOLEAN
    BY <1>3 DEF CreateCheckpoint
  <2> HIDE DEF k, resumable
  <2>4. caps' \in Capsules /\ caps'.ver = caps.ver + 1
    BY <2>1, <2>2 DEF TypeOK, Capsules
  <2>5. cp' \in Checkpoints
    BY <2>3, <2>4, NewCheckpointType, IdleType DEF TypeOK
  <2>6. pending' \in [Clients -> Requests] /\ \A x \in Clients : Answered(x)
    BY <1>3, DoneType DEF TypeOK, CreateCheckpoint
  <2>7. TypeOK'
    BY <1>3, <2>4, <2>5, <2>6 DEF TypeOK, CreateCheckpoint
  <2>8. caps'.ver > caps.ver
    BY <2>4 DEF TypeOK, Capsules
  <2> QED
    BY <1>3, <2>6, <2>7, <2>8 DEF StepOK, Shape, RunsChange, CreateCheckpoint
<1> QED
  BY <1>1, <1>2, <1>3 DEF LocalMutationStep

\* No recovery action makes a task ready that was not: whatever the latest
\* action is, applyRecoveryActionProgression never introduces READY_NEXT_RUN.
LEMMA ProgressionKeepsReady ==
  ASSUME NEW d, NEW class,
         applyRecoveryActionProgression(d, class) = "READY_NEXT_RUN"
  PROVE  class = "READY_NEXT_RUN"
  BY DEF applyRecoveryActionProgression

\* A RUNNING run keeps runStartEligibility from letting another one start.
LEMMA RunningBlocksStart ==
  ASSUME NEW d, NEW anchor, LatestIsRunning(d)
  PROVE  ~runStartEligibility(d, anchor)
<1>1. ContinueOutcome(d, anchor) \in {"BlockedInconsistent", "StaleReconciled"}
  BY DEF ContinueOutcome
<1>2. BaseClass(d, anchor) # "READY_NEXT_RUN"
  BY <1>1 DEF BaseClass
<1> QED
  BY <1>2, ProgressionKeepsReady DEF runStartEligibility, RecoveryClass

\* No run starts while Claude owns the branch: every packet is resumable, so
\* an active one decides the class, and no handoff class lets a run start.
LEMMA HandoffBlocksStart ==
  ASSUME TypeOK, PacketsResumable, runStartEligibility(db, repo)
  PROVE  ~ClaudeOwnsBranch(db)
<1>1. BaseClass(db, repo) = "READY_NEXT_RUN"
  BY ProgressionKeepsReady DEF runStartEligibility, RecoveryClass
<1>2. SafeClass(db) = "READY_NEXT_RUN"
  BY <1>1 DEF BaseClass
<1>3. HandoffClass(db, ActiveHandoff(db)) # "READY_NEXT_RUN"
  BY DEF HandoffClass
<1>4. ActiveHandoff(db) # 0 => packets[ActiveHandoff(db)].resumable
  BY ActiveHandoffType DEF PacketsResumable
<1>5. db.packets = packets
  BY DEF db
<1> QED
  BY <1>2, <1>3, <1>4, <1>5 DEF SafeClass, ClaudeOwnsBranch

\* Starting a run.
LEMMA AppendRun ==
  ASSUME TypeOK, PacketsResumable, NEW status \in {"RUNNING", "INTERRUPTED"},
         runStartEligibility(db, repo),
         runs' = Append(runs, [status |-> status, brief |-> caps.brief])
  PROVE  runs' \in Seq(Runs) /\ Len(runs') \in Nat /\ RunsChange
<1>1. caps.brief \in Nat
  BY DEF TypeOK, Capsules
<1>2. [status |-> status, brief |-> caps.brief] \in Runs
  BY <1>1 DEF Runs, RunStatuses
<1>3. runs' \in Seq(Runs) /\ Len(runs') \in Nat
  BY <1>2 DEF TypeOK
<1>4. ~LatestIsRunning(db) /\ ~ClaudeOwnsBranch(db)
  BY RunningBlocksStart, HandoffBlocksStart
<1> QED
  BY <1>1, <1>3, <1>4 DEF RunsChange

\* Ending a run, by whatever path.
LEMMA EndingRun ==
  ASSUME TypeOK, NEW id \in DOMAIN runs, runs[id].status = "RUNNING",
         CompleteRun(id) \/ InterruptRun(id) \/ FailRun(id)
  PROVE  /\ caps' \in Capsules /\ caps'.ver > caps.ver
         /\ cp' \in Checkpoints
         /\ runs' \in Seq(Runs)
         /\ RunsChange
<1>1. PICK status \in EndStatuses, ph \in Phases, resumable \in BOOLEAN :
        /\ runs' = EndRun(id, status)
        /\ caps' = Bumped(caps, ph)
        /\ cp' = NewCheckpoint(caps', id, resumable, NoIssue)
  BY PhaseNames DEF CompleteRun, InterruptRun, FailRun, EndStatuses
<1>2. caps' \in Capsules /\ caps'.ver > caps.ver
  BY <1>1, BumpedCapsule
<1>3. status \in RunStatuses /\ id \in Nat /\ cp \in Checkpoints /\ runs \in Seq(Runs)
  BY DEF EndStatuses, RunStatuses, TypeOK
<1>4. cp' \in Checkpoints
  BY <1>1, <1>2, <1>3, NewCheckpointType, IdleType
<1>5. runs' \in Seq(Runs)
  BY <1>1, <1>3, EndRunType
<1> QED
  BY <1>1, <1>2, <1>4, <1>5 DEF RunsChange

\* RunTask: starts, worker results, manual actions.
LEMMA RunShape ==
  ASSUME TaskInv, RunStep
  PROVE  StepOK
<1> USE DEF TaskInv
<1>1. ASSUME PrepareRealRun
      PROVE  StepOK
  <2> DEFINE k == Bumped(caps, "EXECUTING")
  <2>1. k \in Capsules /\ k.ver = caps.ver + 1 /\ caps.ver \in Nat
    BY BumpedCapsule, PhaseNames
  <2>2. caps' = [k EXCEPT !.anchor = repo]
    BY <1>1 DEF PrepareRealRun
  <2> HIDE DEF k
  <2>3. caps' \in Capsules /\ caps'.ver > caps.ver
    BY <2>1, <2>2 DEF TypeOK, Capsules
  <2>4. runs' \in Seq(Runs) /\ Len(runs') \in Nat /\ RunsChange
    BY <1>1, AppendRun DEF PrepareRealRun, RunMayStart
  <2>5. cp' \in Checkpoints
    BY <1>1, <2>3, <2>4, NewCheckpointType, IdleType DEF PrepareRealRun, TypeOK
  <2>6. TypeOK' /\ \A c \in Clients : Answered(c)
    BY <1>1, <2>3, <2>4, <2>5 DEF PrepareRealRun, TypeOK, Answered
  <2> QED
    BY <2>3, <2>4, <2>6 DEF StepOK, Shape
<1>2. ASSUME StartRunNoop
      PROVE  StepOK
  <2>1. caps' \in Capsules /\ caps'.ver > caps.ver
    BY <1>2, BumpedCapsule, PhaseNames DEF StartRunNoop
  <2>2. runs' \in Seq(Runs) /\ Len(runs') \in Nat /\ RunsChange
    BY <1>2, AppendRun DEF StartRunNoop, RunMayStart
  <2>3. cp' \in Checkpoints
    BY <1>2, <2>1, <2>2, NewCheckpointType, IdleType DEF StartRunNoop, TypeOK
  <2>4. TypeOK' /\ \A c \in Clients : Answered(c)
    BY <1>2, <2>1, <2>2, <2>3 DEF StartRunNoop, TypeOK, Answered
  <2> QED
    BY <2>1, <2>2, <2>4 DEF StepOK, Shape
<1>3. ASSUME StartRunNoopInterrupted
      PROVE  StepOK
  <2> DEFINE k == Bumped(caps, "EXECUTING")
             p == NewCheckpoint(caps', Len(runs'), TRUE, NoIssue)
             n == cp.id + 2
  <2>1. k \in Capsules /\ k.ver = caps.ver + 1 /\ caps.ver \in Nat
    BY BumpedCapsule, PhaseNames
  <2>2. caps' = Bumped(k, "PAUSED") /\ cp' = [p EXCEPT !.id = n]
    BY <1>3 DEF StartRunNoopInterrupted
  <2> HIDE DEF k
  <2>3. caps' \in Capsules /\ caps'.ver > caps.ver
    <3>1. caps' \in Capsules /\ caps'.ver = k.ver + 1
      BY <2>1, <2>2, BumpedType, PhaseNames
    <3> QED
      BY <2>1, <3>1
  <2>4. runs' \in Seq(Runs) /\ Len(runs') \in Nat /\ RunsChange
    BY <1>3, AppendRun DEF StartRunNoopInterrupted, RunMayStart
  <2>5. p \in Checkpoints
    BY <2>3, <2>4, NewCheckpointType, IdleType DEF TypeOK
  <2>6. n \in Nat
    BY DEF TypeOK, Checkpoints
  <2> HIDE DEF p, n
  <2>7. cp' \in Checkpoints
    BY <2>2, <2>5, <2>6 DEF Checkpoints
  <2>8. TypeOK' /\ \A c \in Clients : Answered(c)
    BY <1>3, <2>3, <2>4, <2>7 DEF StartRunNoopInterrupted, TypeOK, Answered
  <2> QED
    BY <2>3, <2>4, <2>8 DEF StepOK, Shape
<1>4. ASSUME NEW id \in DOMAIN runs, FinalizeRealRun(id)
      PROVE  StepOK
  <2>1. /\ caps' \in Capsules /\ caps'.ver > caps.ver
        /\ cp' \in Checkpoints /\ runs' \in Seq(Runs) /\ RunsChange
    BY <1>4, EndingRun DEF FinalizeRealRun
  <2>2. TypeOK' /\ \A c \in Clients : Answered(c)
    BY <1>4, <2>1 DEF FinalizeRealRun, TypeOK, Answered
  <2> QED
    BY <2>1, <2>2 DEF StepOK, Shape
<1>5. ASSUME NEW id \in DOMAIN runs, FinalizeRealRunRefused(id)
      PROVE  StepOK
  BY <1>5 DEF FinalizeRealRunRefused, database, TypeOK, StepOK, Shape, RunsChange, Answered
<1>6. ASSUME NEW id \in DOMAIN runs, ManualRunAction(id)
      PROVE  StepOK
  <2>1. /\ caps' \in Capsules /\ caps'.ver > caps.ver
        /\ cp' \in Checkpoints /\ runs' \in Seq(Runs) /\ RunsChange
    BY <1>6, EndingRun DEF ManualRunAction
  <2>2. TypeOK' /\ \A c \in Clients : Answered(c)
    BY <1>6, <2>1 DEF ManualRunAction, TypeOK, Answered
  <2> QED
    BY <2>1, <2>2 DEF StepOK, Shape
<1> QED
  BY <1>1, <1>2, <1>3, <1>4, <1>5, <1>6 DEF RunStep

\* The assessment of a snapshot is a request, and it names the snapshot's
\* latest run.
LEMMA ContinueAssessmentType ==
  ASSUME NEW d \in Snapshots, NEW anchor \in Anchors
  PROVE  LET p == ContinueAssessment(d, anchor)
         IN /\ p \in Requests /\ p.op = "continue" /\ p.ver = d.caps.ver
            /\ p.run = Len(d.runs) /\ p.outcome = ContinueOutcome(d, anchor)
            /\ p.outcome = "StaleReconciled" => LatestIsRunning(d)
<1> DEFINE outcome == ContinueOutcome(d, anchor)
           reason  == ContinueReason(d)
           ver     == d.caps.ver
           run     == Len(d.runs)
<1>1. outcome \in Outcomes /\ (outcome = "StaleReconciled" => LatestIsRunning(d))
  BY DEF ContinueOutcome, Outcomes
<1>2. reason \in Issues
  BY ValidationType, FirstIssueType DEF ContinueReason
<1>3. ver \in Nat /\ run \in Nat
  BY DEF Snapshots, Capsules
<1> DEFINE q == [Idle EXCEPT !.op = "continue", !.ver = ver, !.anchor = anchor,
                             !.outcome = outcome, !.reason = reason, !.run = run]
<1>4. ContinueAssessment(d, anchor) = q
  BY DEF ContinueAssessment, LatestRunID
<1> HIDE DEF outcome, reason, ver, run
<1>5. /\ q \in Requests /\ q.op = "continue" /\ q.ver = ver
      /\ q.run = run /\ q.outcome = outcome
  BY <1>1, <1>2, <1>3, IdleType DEF Requests
<1> HIDE DEF q
<1> QED
  BY <1>1, <1>4, <1>5 DEF outcome, ver, run

\* Every branch of finalizeContinue: the capsule moves one version on, a
\* checkpoint follows, and at most the assessed run is interrupted, which
\* is then still RUNNING.
ContinueEffect(after, k, run, resumable, reason) ==
  /\ after.caps = k /\ k \in Capsules /\ k.ver = caps.ver + 1
  /\ after.cp = NewCheckpoint(k, run, resumable, reason)
  /\ \/ after.runs = runs
     \/ /\ run \in DOMAIN runs /\ runs[run].status = "RUNNING"
        /\ after.runs = EndRun(run, "INTERRUPTED")

\* finalizeContinue has that effect, whatever was assessed.
LEMMA FinalizeContinueEffect ==
  ASSUME TaskInv, NEW c \in Clients, pending[c].op = "continue"
  PROVE  \E k \in Capsules, run \in Nat, resumable \in BOOLEAN, reason \in Issues :
           ContinueEffect(finalizeContinue(db, pending[c]), k, run, resumable, reason)
<1> DEFINE p == pending[c]
           k0 == [caps EXCEPT !.anchor = p.anchor]
           after == finalizeContinue(db, p)
<1> USE DEF TaskInv
<1>1. /\ p \in Requests /\ p.op = "continue" /\ p.run \in Nat /\ p.ver \in Nat
      /\ p.anchor \in Anchors /\ p.reason \in Issues /\ p.outcome \in Outcomes
  BY DEF TypeOK, Requests
<1>2. k0 \in Capsules /\ k0.ver = caps.ver /\ k0.phase \in Phases
      /\ caps \in Capsules /\ caps.ver \in Nat /\ caps.phase \in Phases
  BY <1>1 DEF TypeOK, Capsules
<1>3. \A ph \in Phases :
        /\ Bumped(caps, ph) \in Capsules /\ Bumped(caps, ph).ver = caps.ver + 1
        /\ Bumped(k0, ph) \in Capsules /\ Bumped(k0, ph).ver = caps.ver + 1
  <2> HIDE DEF k0
  <2> QED BY <1>2, BumpedType
<1>4. db.caps = caps /\ db.runs = runs
  BY DEF db
<1>5. p.ver = caps.ver => AssessedRun(p)
  BY <1>1 DEF CurrentVersionCurrentRun
<1>6. \A at \in Nat, word \in RunStatuses \cup {"VERSION"}, a \in Nat, b \in Nat :
        Issue(at, word, a, b) \in Issues
  BY DEF Issue, Issues
<1> HIDE DEF k0
<1>7. ASSUME NEW k \in {caps, k0}, NEW reason \in Issues,
             after = blockedContinueByInconsistency(db, k, reason)
      PROVE  \E r \in Issues :
               ContinueEffect(after, Bumped(k, "BLOCKED"), 0, FALSE, r)
  <2> HIDE DEF after
  <2>1. Bumped(k, "BLOCKED") \in Capsules /\ Bumped(k, "BLOCKED").ver = caps.ver + 1
    BY <1>3, PhaseNames
  <2> QED
    BY <1>7, <2>1
    DEF blockedContinueByInconsistency, ContinueEffect, Recorded, db, NewCheckpoint
<1>8. CASE p.ver # caps.ver
  <2>1. VersionChanged(p.ver, caps.ver) \in Issues
    BY <1>1, <1>2, <1>6 DEF VersionChanged
  <2>2. after = blockedContinueByInconsistency(db, caps, VersionChanged(p.ver, caps.ver))
    BY <1>4, <1>8 DEF finalizeContinue
  <2> HIDE DEF after, p
  <2> QED
    BY <1>3, <1>7, <2>1, <2>2, PhaseNames DEF after, p
<1>9. CASE p.ver = caps.ver /\ p.outcome = "StaleReconciled"
  <2>1. p.run = Len(runs) /\ LatestIsRunning(db)
    BY <1>1, <1>5, <1>9 DEF AssessedRun
  <2>2. p.run \in DOMAIN runs /\ runs[p.run].status = "RUNNING"
    BY <2>1 DEF LatestIsRunning, LatestStatus, HasRun, db, TypeOK
  <2>3. after = reconcileStaleRun(db, k0, p.run)
    BY <1>4, <1>9, <2>2 DEF finalizeContinue, k0
  <2>4. Bumped(k0, "PAUSED") \in Capsules /\ Bumped(k0, "PAUSED").ver = caps.ver + 1
    BY <1>3, PhaseNames
  <2> DEFINE r == Recorded(db, Bumped(k0, "PAUSED"), p.run, TRUE, NoIssue)
  <2>5. after = [r EXCEPT !.runs = EndRun(p.run, "INTERRUPTED")]
    BY <1>4, <2>3 DEF reconcileStaleRun, EndRun
  <2>6. after.caps = r.caps /\ after.cp = r.cp /\ after.runs = EndRun(p.run, "INTERRUPTED")
    BY <2>5 DEF Recorded, db
  <2>7. r.caps = Bumped(k0, "PAUSED")
        /\ r.cp = NewCheckpoint(Bumped(k0, "PAUSED"), p.run, TRUE, NoIssue)
    BY DEF Recorded, db, NewCheckpoint
  <2> HIDE DEF after, r, p
  <2>8. ContinueEffect(after, Bumped(k0, "PAUSED"), p.run, TRUE, NoIssue)
    BY <2>2, <2>4, <2>6, <2>7 DEF ContinueEffect
  <2> QED
    BY <1>1, <2>4, <2>8, IdleType DEF after, p
<1>10. CASE p.ver = caps.ver /\ p.outcome \in {"BlockedDrift", "NeedsDecision"}
  <2>1. after = awaitDecisionOnContinue(db, k0)
    BY <1>4, <1>10 DEF finalizeContinue, k0
  <2> DEFINE k == Bumped(k0, "AWAITING_DECISION")
  <2>2. k \in Capsules /\ k.ver = caps.ver + 1
    BY <1>3, PhaseNames
  <2> HIDE DEF after
  <2>3. ContinueEffect(after, k, 0, FALSE, NoIssue)
    BY <2>1, <2>2
    DEF awaitDecisionOnContinue, ContinueEffect, Recorded, db, NewCheckpoint
  <2> QED
    BY <2>2, <2>3, IdleType DEF after
<1>11. CASE p.ver = caps.ver /\ p.outcome = "BlockedInconsistent"
  <2>1. after = blockedContinueByInconsistency(db, k0, p.reason)
    BY <1>4, <1>11 DEF finalizeContinue, k0
  <2> HIDE DEF after, p
  <2> QED
    BY <1>1, <1>3, <1>7, <2>1, PhaseNames DEF after, p
<1>12. CASE p.ver = caps.ver /\ p.outcome = "Safe"
  <2>1. after = safeContinue(db, k0, p.run)
    BY <1>4, <1>12 DEF finalizeContinue, k0
  <2> DEFINE k == Bumped(k0, k0.phase)
  <2>2. k \in Capsules /\ k.ver = caps.ver + 1
    BY <1>2, <1>3
  <2> HIDE DEF after
  <2>3. ContinueEffect(after, k, p.run, TRUE, NoIssue)
    BY <2>1, <2>2
    DEF safeContinue, ContinueEffect, Recorded, db, NewCheckpoint
  <2> QED
    BY <1>1, <2>2, <2>3, IdleType DEF after
<1> QED
  BY <1>1, <1>8, <1>9, <1>10, <1>11, <1>12 DEF Outcomes

\* ContinueTask, assessment and transaction.
LEMMA ContinueShape ==
  ASSUME TaskInv, ContinueStep
  PROVE  StepOK
<1> USE DEF TaskInv
<1>1. ASSUME NEW c \in Clients, AssessContinue(c)
      PROVE  StepOK
  <2> DEFINE p == ContinueAssessment(db, repo)
  <2>1. /\ p \in Requests /\ p.op = "continue" /\ p.ver = caps.ver
        /\ p.run = Len(runs)
        /\ p.outcome = "StaleReconciled" => LatestIsRunning(db)
    <3>1. db \in Snapshots /\ repo \in Anchors
      BY DatabaseType DEF TypeOK
    <3>2. db.caps = caps /\ db.runs = runs
      BY DEF db
    <3> QED
      BY <3>1, <3>2, ContinueAssessmentType
  <2>2. pending' = [pending EXCEPT ![c] = p]
    BY <1>1 DEF AssessContinue
  <2> HIDE DEF p
  <2>3. p.ver <= caps.ver /\ AssessedRun(p)
    BY <2>1, BumpedCapsule, PhaseNames DEF AssessedRun
  <2>4. \A x \in Clients : Answered(x) \/ pending'[x] = p
    BY <2>1, <2>2, PendingType DEF TypeOK, Answered
  <2>5. TypeOK'
    BY <1>1, <2>1, <2>2, PendingType DEF AssessContinue, TypeOK, database
  <2>6. caps' = caps /\ runs' = runs
    BY <1>1 DEF AssessContinue, database
  <2> QED
    BY <2>3, <2>4, <2>5, <2>6 DEF StepOK, Shape, RunsChange
<1>2. ASSUME NEW c \in Clients, FinalizeContinue(c)
      PROVE  StepOK
  <2> DEFINE after == finalizeContinue(db, pending[c])
  <2>1. /\ pending[c].op = "continue" /\ Done(c)
        /\ caps' = after.caps /\ runs' = after.runs /\ cp' = after.cp
    BY <1>2 DEF FinalizeContinue
  <2>2. PICK k \in Capsules, run \in Nat, resumable \in BOOLEAN, reason \in Issues :
          ContinueEffect(after, k, run, resumable, reason)
    BY <2>1, FinalizeContinueEffect
  <2> HIDE DEF after
  <2>3. caps' \in Capsules /\ caps'.ver > caps.ver
    BY <2>1, <2>2, BumpedCapsule, PhaseNames DEF ContinueEffect
  <2>4. cp' \in Checkpoints
    BY <2>1, <2>2, NewCheckpointType DEF ContinueEffect, TypeOK
  <2>5. runs' \in Seq(Runs) /\ RunsChange
    BY <2>1, <2>2, EndRunType
    DEF ContinueEffect, RunsChange, EndStatuses, RunStatuses, TypeOK
  <2>6. pending' \in [Clients -> Requests] /\ \A x \in Clients : Answered(x)
    BY <2>1, DoneType DEF TypeOK
  <2>7. TypeOK'
    BY <1>2, <2>3, <2>4, <2>5, <2>6 DEF TypeOK, FinalizeContinue
  <2> QED
    BY <2>3, <2>5, <2>6, <2>7 DEF StepOK, Shape
<1> QED
  BY <1>1, <1>2 DEF ContinueStep

\* A recovery record takes its references from the snapshot.
LEMMA ActionTemplateType ==
  ASSUME TypeOK, NEW kind \in ActionKinds
  PROVE  /\ ActionTemplate(kind, db) \in Actions
         /\ ActionTemplate(kind, db).run \in {0, Len(runs)}
<1> DEFINE h == ActiveHandoff(db)
<1>1. h \in Nat /\ (h # 0 => h \in DOMAIN packets)
  BY ActiveHandoffType
<1>2. Len(runs) \in Nat /\ cp.id \in Nat /\ packets \in Seq(Packets)
  BY DEF TypeOK, Checkpoints
<1>3. h # 0 => packets[h].attempt \in Nat
  <2> HIDE DEF h
  <2>1. h # 0 => packets[h] \in Packets
    BY <1>1, <1>2
  <2> QED
    BY <2>1 DEF Packets
<1> HIDE DEF h
<1> QED
  BY <1>1, <1>2, <1>3 DEF ActionTemplate, LatestRunID, db, Actions, h

\* An assessed recovery request that carries a record about the latest run.
LEMMA AssessedShape ==
  ASSUME TypeOK, NEW c \in Clients,
         NEW op \in {"record", "rebrief", "resume", "finalize"},
         NEW record \in Actions, record.run \in {0, Len(runs)},
         Assessed(c, op, record)
  PROVE  StepOK
<1> DEFINE p == [Idle EXCEPT !.op = op, !.ver = caps.ver, !.act = record]
<1>1. caps.ver \in Nat
  BY BumpedCapsule, PhaseNames
<1>2. p \in Requests /\ p.op = op /\ p.ver = caps.ver /\ p.act = record
  BY <1>1, IdleType DEF Requests
<1>3. pending' = [pending EXCEPT ![c] = p]
  BY DEF Assessed
<1> HIDE DEF p
<1>4. p.ver <= caps.ver /\ AssessedRun(p)
  BY <1>1, <1>2 DEF AssessedRun
<1>5. \A x \in Clients : Answered(x) \/ pending'[x] = p
  BY <1>2, <1>3, PendingType DEF TypeOK, Answered
<1>6. TypeOK'
  BY <1>2, <1>3, PendingType DEF Assessed, TypeOK, database
<1>7. caps' = caps /\ runs' = runs
  BY DEF Assessed, database
<1> QED
  BY <1>4, <1>5, <1>6, <1>7 DEF StepOK, Shape, RunsChange

\* The recovery operations, assessment and transaction.
LEMMA RecoveryShape ==
  ASSUME TaskInv, RecoveryStep
  PROVE  StepOK
<1> USE DEF TaskInv
<1>1. ASSUME NEW c \in Clients, NEW kind \in RecordableKinds, NEW own \in BOOLEAN,
             AssessRecord(c, kind, own)
      PROVE  StepOK
  <2>1. kind \in ActionKinds
    BY DEF ActionKinds
  <2> QED
    BY <1>1, <2>1, ActionTemplateType, AssessedShape DEF AssessRecord
<1>2. ASSUME NEW c \in Clients, AssessRebrief(c)
      PROVE  StepOK
  <2>1. NoAction \in Actions /\ NoAction.run \in {0, Len(runs)}
    BY IdleType DEF NoAction
  <2> QED
    BY <1>2, <2>1, AssessedShape DEF AssessRebrief
<1>3. ASSUME NEW c \in Clients, AssessResume(c) \/ AssessFinalize(c)
      PROVE  StepOK
  <2>1. "INTERRUPTED_RESUME_EXECUTED" \in ActionKinds /\ "CONTINUE_EXECUTED" \in ActionKinds
    BY DEF ActionKinds, ExecutedKinds
  <2> QED
    BY <1>3, <2>1, ActionTemplateType, AssessedShape DEF AssessResume, AssessFinalize
<1>4. ASSUME NEW c \in Clients, RecordRecoveryAction(c)
      PROVE  StepOK
  <2>1. act' \in Actions
    BY <1>4 DEF RecordRecoveryAction, TypeOK, Requests
  <2>2. pending' \in [Clients -> Requests] /\ \A x \in Clients : Answered(x)
    BY <1>4, DoneType DEF TypeOK, RecordRecoveryAction
  <2>3. \/ caps' \in Capsules /\ caps'.ver > caps.ver
        \/ caps' = caps
    BY <1>4, BumpedCapsule, PhaseNames DEF RecordRecoveryAction
  <2>4. caps' \in Capsules
    BY <2>3 DEF TypeOK
  <2>5. TypeOK'
    BY <1>4, <2>1, <2>2, <2>4 DEF TypeOK, RecordRecoveryAction
  <2>6. runs' = runs
    BY <1>4 DEF RecordRecoveryAction
  <2> QED
    BY <2>2, <2>3, <2>5, <2>6 DEF StepOK, Shape, RunsChange
<1>5. ASSUME NEW c \in Clients, ExecuteRebrief(c)
      PROVE  StepOK
  <2> DEFINE k == Bumped(caps, "BRIEF_READY")
             v == caps.ver + 1
  <2>1. k \in Capsules /\ k.ver = caps.ver + 1 /\ v \in Nat /\ caps.ver \in Nat
    BY BumpedCapsule, PhaseNames
  <2>2. caps' = [k EXCEPT !.brief = v]
    BY <1>5 DEF ExecuteRebrief
  <2> HIDE DEF k, v
  <2>3. caps' \in Capsules /\ caps'.ver > caps.ver
    BY <2>1, <2>2 DEF Capsules
  <2>4. pending' \in [Clients -> Requests] /\ \A x \in Clients : Answered(x)
    BY <1>5, DoneType DEF TypeOK, ExecuteRebrief
  <2>5. TypeOK' /\ runs' = runs
    BY <1>5, <2>3, <2>4 DEF TypeOK, ExecuteRebrief
  <2> QED
    BY <2>3, <2>4, <2>5 DEF StepOK, Shape, RunsChange
<1>6. ASSUME NEW c \in Clients, NEW op, ClearBrief(c, op)
      PROVE  StepOK
  <2>1. act' \in Actions
    BY <1>6 DEF ClearBrief, TypeOK, Requests
  <2>2. caps' \in Capsules /\ caps'.ver > caps.ver
    BY <1>6, BumpedCapsule, PhaseNames DEF ClearBrief
  <2>3. pending' \in [Clients -> Requests] /\ \A x \in Clients : Answered(x)
    BY <1>6, DoneType DEF TypeOK, ClearBrief
  <2>4. TypeOK' /\ runs' = runs
    BY <1>6, <2>1, <2>2, <2>3 DEF TypeOK, ClearBrief
  <2> QED
    BY <2>2, <2>3, <2>4 DEF StepOK, Shape, RunsChange
<1>7. ASSUME NEW c \in Clients, RefuseStaleRecovery(c)
      PROVE  StepOK
  <2>1. pending' \in [Clients -> Requests] /\ \A x \in Clients : Answered(x)
    BY <1>7, DoneType DEF TypeOK, RefuseStaleRecovery
  <2>2. TypeOK' /\ runs' = runs /\ caps' = caps
    BY <1>7, <2>1 DEF TypeOK, RefuseStaleRecovery, database
  <2> QED
    BY <2>1, <2>2 DEF StepOK, Shape, RunsChange
<1> QED
  BY <1>1, <1>2, <1>3, <1>4, <1>5, <1>6, <1>7
  DEF RecoveryStep, ExecuteInterruptedResume, ExecuteContinueRecovery

\* A packet row is replaced by a packet row.
LEMMA PacketUpdate ==
  ASSUME packets \in Seq(Packets), NEW id \in DOMAIN packets, NEW x \in Packets
  PROVE  /\ [packets EXCEPT ![id] = x] \in Seq(Packets)
         /\ DOMAIN [packets EXCEPT ![id] = x] = DOMAIN packets
         /\ [packets EXCEPT ![id] = x][id] = x
         /\ \A i \in DOMAIN packets : i # id => [packets EXCEPT ![id] = x][i] = packets[i]
  OBVIOUS

\* What every step does to the handoffs.
HandoffsOK == LaunchersAwaited' /\ PacketsResumable'

\* The handoff operations.
LEMMA HandoffShape ==
  ASSUME TaskInv, HandoffStep
  PROVE  StepOK /\ HandoffsOK
<1> USE DEF TaskInv
<1>0. /\ packets \in Seq(Packets) /\ pending \in [Clients -> Requests]
      /\ caps.ver \in Nat /\ Len(runs) \in Nat
      /\ \A id \in DOMAIN packets : packets[id] \in Packets
  BY DEF TypeOK, Capsules
<1>1. ASSUME NEW c \in Clients, NEW req \in HandoffReqs, AssessHandoff(c, req)
      PROVE  StepOK /\ HandoffsOK
  <2> DEFINE st == LatestStatus(db)
             p == [Idle EXCEPT !.op = "handoff", !.ver = caps.ver, !.run = Len(runs),
                               !.runStatus = st, !.cp = cp.id,
                               !.lastRes = lastRes, !.req = req]
  <2>1. st \in {"NONE"} \cup RunStatuses
    <3>1. runs # <<>> => runs[Len(runs)] \in Runs
      BY DEF TypeOK
    <3> QED
      BY <3>1 DEF LatestStatus, HasRun, db, Runs
  <2>2. cp.id \in Nat /\ lastRes \in Nat
    BY DEF TypeOK, Checkpoints
  <2>3. pending' = [pending EXCEPT ![c] = p]
    BY <1>1 DEF AssessHandoff, LatestRunID, db
  <2> HIDE DEF st
  <2>4. /\ p \in Requests /\ p.op = "handoff" /\ p.ver = caps.ver
        /\ p.run = Len(runs) /\ p.runStatus = st
    BY <1>0, <2>1, <2>2, IdleType DEF Requests
  <2> HIDE DEF p
  <2>5. p.ver <= caps.ver /\ AssessedRun(p)
    BY <1>0, <2>4 DEF AssessedRun, st
  <2>6. \A x \in Clients : Answered(x) \/ pending'[x] = p
    BY <1>0, <2>3, <2>4, PendingType DEF Answered
  <2>7. TypeOK'
    BY <1>1, <2>3, <2>4, PendingType DEF AssessHandoff, TypeOK, database
  <2>8. caps' = caps /\ runs' = runs /\ packets' = packets /\ launches' = launches
    BY <1>1 DEF AssessHandoff, database
  <2>9. HandoffsOK
    BY <2>8 DEF HandoffsOK, LaunchersAwaited, PacketsResumable
  <2> QED
    BY <2>5, <2>6, <2>7, <2>8, <2>9 DEF StepOK, Shape, RunsChange
<1>2. ASSUME NEW c \in Clients, CreateHandoffNothing(c)
      PROVE  StepOK /\ HandoffsOK
  <2>1. pending' \in [Clients -> Requests] /\ \A x \in Clients : Answered(x)
    BY <1>0, <1>2, DoneType DEF CreateHandoffNothing
  <2>2. TypeOK' /\ runs' = runs /\ caps' = caps
    BY <1>2, <2>1 DEF TypeOK, CreateHandoffNothing, database
  <2>3. HandoffsOK
    BY <1>2 DEF HandoffsOK, LaunchersAwaited, PacketsResumable,
                CreateHandoffNothing, database
  <2> QED
    BY <2>1, <2>2, <2>3 DEF StepOK, Shape, RunsChange
<1>3. ASSUME NEW c \in Clients, CreateHandoff(c)
      PROVE  StepOK /\ HandoffsOK
  <2> DEFINE p == pending[c]
  <2>1. /\ p \in Requests /\ p.run \in Nat /\ p.req \in HandoffReqs
        /\ p.runStatus \in {"NONE"} \cup RunStatuses
    BY <1>0 DEF Requests
  <2>2. cp' \in Checkpoints /\ cp'.resumable
    <3>1. /\ NewCheckpoint(caps, p.run, TRUE, NoIssue) \in Checkpoints
          /\ NewCheckpoint(caps, p.run, TRUE, NoIssue).resumable
      BY <2>1, NewCheckpointType, IdleType DEF TypeOK, NewCheckpoint, Checkpoint
    <3> QED
      BY <1>3, <3>1 DEF CreateHandoff, ValidHandoffCheckpoint, TypeOK
  <2> DEFINE x == [status |-> "CREATED", req |-> p.req, brief |-> caps.brief,
                   intent |-> caps.intent, phase |-> caps.phase, ver |-> caps.ver,
                   run |-> p.run, runStatus |-> p.runStatus, cp |-> cp',
                   resumable |-> cp'.resumable, launch |-> "NONE", attempt |-> 0,
                   ack |-> "NONE", follow |-> "NONE", followAttempt |-> 0,
                   resolved |-> FALSE]
  <2>3. packets' = Append(packets, x)
    BY <1>3 DEF CreateHandoff
  <2> HIDE DEF p
  <2>4. x \in Packets /\ x.resumable
    <3>1. caps.brief \in Nat /\ caps.intent \in Nat /\ caps.phase \in Phases
      BY DEF TypeOK, Capsules
    <3>2. cp'.resumable = TRUE
      BY <2>2 DEF Checkpoints
    <3> QED
      BY <1>0, <2>1, <2>2, <3>1, <3>2 DEF Packets, LaunchStatuses
  <2> HIDE DEF x
  <2>5. pending' \in [Clients -> Requests] /\ \A y \in Clients : Answered(y)
    BY <1>0, <1>3, DoneType DEF CreateHandoff
  <2>6. packets' \in Seq(Packets)
    BY <1>0, <2>3, <2>4
  <2>7. TypeOK' /\ runs' = runs /\ caps' = caps
    BY <1>3, <2>2, <2>5, <2>6 DEF TypeOK, CreateHandoff
  <2>8. /\ DOMAIN packets' = DOMAIN packets \cup {Len(packets) + 1}
        /\ packets'[Len(packets) + 1] = x
        /\ \A i \in DOMAIN packets : packets'[i] = packets[i]
    BY <1>0, <2>3, <2>4
  <2>9. launches' = launches
    BY <1>3 DEF CreateHandoff
  <2>10. LaunchersAwaited'
    BY <2>8, <2>9 DEF LaunchersAwaited
  <2>11. PacketsResumable'
    BY <2>4, <2>8 DEF PacketsResumable
  <2> QED
    BY <2>5, <2>7, <2>10, <2>11 DEF StepOK, Shape, RunsChange, HandoffsOK
<1>4. ASSUME NEW id \in DOMAIN packets, NEW x \in Packets,
             x.resumable = packets[id].resumable,
             packets' = [packets EXCEPT ![id] = x],
             lastRes' \in Nat, launches' \subseteq Launches,
             UNCHANGED <<caps, runs, cp, act, repo, pending, workers>>
      PROVE  StepOK /\ PacketsResumable'
  <2>1. /\ packets' \in Seq(Packets) /\ DOMAIN packets' = DOMAIN packets
        /\ packets'[id] = x
        /\ \A i \in DOMAIN packets : i # id => packets'[i] = packets[i]
    BY <1>0, <1>4, PacketUpdate
  <2>2. TypeOK'
    BY <1>4, <2>1 DEF TypeOK
  <2>3. PacketsResumable'
    BY <1>4, <2>1 DEF PacketsResumable
  <2> QED
    BY <1>4, <2>2, <2>3 DEF StepOK, Shape, RunsChange, Answered
<1>10. ASSUME NEW id \in DOMAIN packets, NEW x \in Packets,
              x.resumable = packets[id].resumable,
              x.launch = packets[id].launch, x.attempt = packets[id].attempt,
              packets' = [packets EXCEPT ![id] = x], lastRes' \in Nat,
              UNCHANGED <<caps, runs, cp, act, repo, pending, workers, launches>>
       PROVE  StepOK /\ HandoffsOK
  <2>1. /\ DOMAIN packets' = DOMAIN packets /\ packets'[id] = x
        /\ \A i \in DOMAIN packets : i # id => packets'[i] = packets[i]
    BY <1>0, <1>10, PacketUpdate
  <2>2. LaunchersAwaited'
    BY <1>10, <2>1 DEF LaunchersAwaited
  <2>3. launches' \subseteq Launches
    BY <1>10 DEF TypeOK
  <2>4. StepOK /\ PacketsResumable'
    BY <1>4, <1>10, <2>3
  <2> QED
    BY <2>2, <2>4 DEF HandoffsOK
<1>5. ASSUME NEW id \in DOMAIN packets, AcceptHandoff(id)
      PROVE  StepOK /\ HandoffsOK
  <2> DEFINE r == packets[id]
             x == [r EXCEPT !.status = "ACCEPTED"]
  <2>1. packets' = [packets EXCEPT ![id] = x]
    BY <1>5 DEF AcceptHandoff
  <2>2. r \in Packets
    BY <1>0
  <2> HIDE DEF r
  <2>3. /\ x \in Packets /\ x.resumable = r.resumable
        /\ x.launch = r.launch /\ x.attempt = r.attempt
    BY <2>2 DEF Packets
  <2> HIDE DEF x
  <2> QED
    BY <1>10, <1>5, <2>1, <2>3 DEF AcceptHandoff, TypeOK, r
<1>6. ASSUME NEW id \in DOMAIN packets, PrepareHandoffLaunch(id)
      PROVE  StepOK /\ HandoffsOK
  <2> DEFINE r == packets[id]
             n == r.attempt + 1
             x == [r EXCEPT !.launch = "REQUESTED", !.attempt = n]
  <2>1. packets' = [packets EXCEPT ![id] = x]
    BY <1>6 DEF PrepareHandoffLaunch
  <2>2. r \in Packets
    BY <1>0
  <2> HIDE DEF r
  <2>3. n \in Nat
    BY <2>2 DEF Packets
  <2> HIDE DEF n
  <2>4. /\ x \in Packets /\ x.resumable = r.resumable
        /\ x.launch = "REQUESTED" /\ x.attempt = n
    BY <2>2, <2>3 DEF Packets, LaunchStatuses
  <2> HIDE DEF x
  <2>5. /\ packets'[id] = x /\ id \in Nat /\ DOMAIN packets' = DOMAIN packets
        /\ \A i \in DOMAIN packets : i # id => packets'[i] = packets[i]
    BY <1>0, <2>1, <2>4, PacketUpdate
  <2>6. [packet |-> id, attempt |-> packets'[id].attempt] \in Launches
    BY <2>4, <2>5 DEF Packets, Launches
  <2>7. launches' \subseteq Launches
    BY <1>6, <2>6 DEF PrepareHandoffLaunch, TypeOK
  <2>8. StepOK /\ PacketsResumable'
    BY <1>4, <1>6, <2>1, <2>4, <2>7 DEF PrepareHandoffLaunch, TypeOK, r
  <2>9. \A l \in launches : l.packet # id
    BY <1>6 DEF PrepareHandoffLaunch, LaunchRetryable, LaunchersAwaited
  <2>10. launches' = launches \cup {[packet |-> id, attempt |-> n]}
    BY <1>6, <2>4, <2>5 DEF PrepareHandoffLaunch
  <2>11. ASSUME NEW m \in launches'
         PROVE  /\ m.packet \in DOMAIN packets'
                /\ packets'[m.packet].launch = "REQUESTED"
                /\ packets'[m.packet].attempt = m.attempt
    <3>1. CASE m \in launches
      BY <2>5, <2>9, <3>1 DEF LaunchersAwaited
    <3>2. CASE m = [packet |-> id, attempt |-> n]
      BY <2>4, <2>5, <3>2
    <3> QED
      BY <2>10, <3>1, <3>2
  <2>12. LaunchersAwaited'
    BY <2>11 DEF LaunchersAwaited
  <2> QED
    BY <2>8, <2>12 DEF HandoffsOK
<1>7. ASSUME NEW l \in launches, FinalizeHandoffLaunch(l)
      PROVE  StepOK /\ HandoffsOK
  <2> DEFINE r == packets[l.packet]
  <2>0. l.packet \in DOMAIN packets
    BY DEF LaunchersAwaited
  <2>1. r \in Packets
    BY <1>0, <2>0
  <2>2. PICK x \in Packets : /\ x.resumable = r.resumable
                             /\ packets' = [packets EXCEPT ![l.packet] = x]
    <3>1. CASE packets' = [packets EXCEPT ![l.packet].launch = "FAILED"]
      <4> DEFINE x == [r EXCEPT !.launch = "FAILED"]
      <4>1. packets' = [packets EXCEPT ![l.packet] = x]
        BY <3>1
      <4> HIDE DEF r
      <4>2. x \in Packets /\ x.resumable = r.resumable
        BY <2>1 DEF Packets, LaunchStatuses
      <4> HIDE DEF x
      <4> QED
        BY <4>1, <4>2
    <3>2. ASSUME NEW ack \in {"CAPTURED", "UNAVAILABLE"},
                 packets' = [packets EXCEPT ![l.packet].launch = "COMPLETED",
                                            ![l.packet].ack = ack]
          PROVE  \E x \in Packets : /\ x.resumable = r.resumable
                                    /\ packets' = [packets EXCEPT ![l.packet] = x]
      <4> DEFINE x == [r EXCEPT !.launch = "COMPLETED", !.ack = ack]
      <4>1. packets' = [packets EXCEPT ![l.packet] = x]
        BY <1>0, <2>0, <3>2
      <4> HIDE DEF r
      <4>2. x \in Packets /\ x.resumable = r.resumable
        BY <2>1 DEF Packets, LaunchStatuses
      <4> HIDE DEF x
      <4> QED
        BY <4>1, <4>2
    <3> QED
      BY <1>7, <3>1, <3>2 DEF FinalizeHandoffLaunch
  <2>3. StepOK /\ PacketsResumable'
    BY <1>4, <1>7, <2>0, <2>2 DEF FinalizeHandoffLaunch, TypeOK
  <2>4. \A m \in launches : m # l => m.packet # l.packet
    BY DEF LaunchersAwaited, TypeOK, Launches
  <2>5. /\ DOMAIN packets' = DOMAIN packets
        /\ \A i \in DOMAIN packets : i # l.packet => packets'[i] = packets[i]
    BY <1>0, <2>0, <2>2, PacketUpdate
  <2>6. LaunchersAwaited'
    BY <1>7, <2>4, <2>5 DEF FinalizeHandoffLaunch, LaunchersAwaited
  <2> QED
    BY <2>3, <2>6 DEF HandoffsOK
<1>8. ASSUME NEW kind \in FollowKinds, RecordHandoffFollowThrough(kind)
      PROVE  StepOK /\ HandoffsOK
  <2> DEFINE id == ActiveHandoff(db)
             r == packets[id]
             x == [r EXCEPT !.follow = kind, !.followAttempt = r.attempt]
  <2>1. id \in DOMAIN packets
    BY <1>8, ActiveHandoffType DEF RecordHandoffFollowThrough, assessHandoffContinuity
  <2>2. packets' = [packets EXCEPT ![id] = x]
    BY <1>0, <1>8, <2>1 DEF RecordHandoffFollowThrough
  <2> HIDE DEF id
  <2>3. r \in Packets
    BY <1>0, <2>1
  <2> HIDE DEF r
  <2>4. /\ x \in Packets /\ x.resumable = r.resumable
        /\ x.launch = r.launch /\ x.attempt = r.attempt
    BY <2>3 DEF Packets
  <2> HIDE DEF x
  <2> QED
    BY <1>10, <1>8, <2>1, <2>2, <2>4 DEF RecordHandoffFollowThrough, TypeOK, r
<1>9. ASSUME RecordHandoffResolution
      PROVE  StepOK /\ HandoffsOK
  <2> DEFINE id == ActiveHandoff(db)
             r == packets[id]
             x == [r EXCEPT !.resolved = TRUE]
  <2>1. id \in DOMAIN packets /\ id \in Nat
    BY <1>9, ActiveHandoffType DEF RecordHandoffResolution, assessHandoffContinuity
  <2>2. packets' = [packets EXCEPT ![id] = x] /\ lastRes' = id
    BY <1>9 DEF RecordHandoffResolution
  <2> HIDE DEF id
  <2>3. r \in Packets
    BY <1>0, <2>1
  <2> HIDE DEF r
  <2>4. /\ x \in Packets /\ x.resumable = r.resumable
        /\ x.launch = r.launch /\ x.attempt = r.attempt
    BY <2>3 DEF Packets
  <2> HIDE DEF x
  <2> QED
    BY <1>10, <1>9, <2>1, <2>2, <2>4 DEF RecordHandoffResolution, r
<1> QED
  BY <1>1, <1>2, <1>3, <1>5, <1>6, <1>7, <1>8, <1>9 DEF HandoffStep

----------------------------------------------------------------------------
(***************************************************************************)
(* The invariant is inductive.                                             *)
(***************************************************************************)
\* A step of this shape keeps assessments at the current version current: a
\* moved version leaves every older request behind, an unmoved one leaves
\* the runs alone.
LEMMA ShapeKeepsAssessments ==
  ASSUME TaskInv, TypeOK', Shape
  PROVE  VersionsBehind' /\ CurrentVersionCurrentRun'
<1> USE DEF TaskInv
<1>1. /\ caps.ver \in Nat /\ caps'.ver \in Nat /\ Idle.ver = 0 /\ Idle.op = "idle"
      /\ \A c \in Clients : pending[c].ver \in Nat /\ pending'[c].ver \in Nat
  BY DEF TypeOK, Capsules, Requests, Idle
<1>2. ASSUME caps'.ver > caps.ver, NEW c \in Clients, Answered(c)
      PROVE  /\ pending'[c].ver <= caps'.ver
             /\ pending'[c].op # "idle" => pending'[c].ver # caps'.ver
  <2>1. pending[c].ver <= caps.ver
    BY DEF VersionsBehind
  <2>2. CASE pending'[c] = Idle
    BY <1>1, <2>2
  <2>3. CASE pending'[c] = pending[c]
    BY <1>1, <1>2, <2>1, <2>3
  <2> QED
    BY <1>2, <2>2, <2>3 DEF Answered
<1>3. ASSUME caps' = caps, runs' = runs, NEW c \in Clients,
             Answered(c) \/ (pending'[c].ver <= caps.ver /\ AssessedRun(pending'[c]))
      PROVE  /\ pending'[c].ver <= caps'.ver
             /\ pending'[c].op # "idle" /\ pending'[c].ver = caps'.ver =>
                  AssessedRun(pending'[c])
  <2>1. /\ pending[c].ver <= caps.ver
        /\ pending[c].op # "idle" /\ pending[c].ver = caps.ver =>
             AssessedRun(pending[c])
    BY DEF VersionsBehind, CurrentVersionCurrentRun
  <2>2. CASE pending'[c] = Idle
    BY <1>1, <2>2
  <2>3. CASE pending'[c] = pending[c]
    BY <1>3, <2>1, <2>3
  <2> QED
    BY <1>3, <2>2, <2>3 DEF Answered
<1>4. ASSUME runs' = runs
      PROVE  \A c \in Clients : AssessedRun(pending'[c]) <=> AssessedRun(pending[c])'
  BY <1>4 DEF AssessedRun, LatestIsRunning, LatestStatus, HasRun, db
<1>5. VersionsBehind'
  BY <1>2, <1>3 DEF Shape, VersionsBehind
<1>6. CurrentVersionCurrentRun'
  <2>1. CASE caps'.ver > caps.ver /\ \A c \in Clients : Answered(c)
    BY <1>2, <2>1 DEF CurrentVersionCurrentRun
  <2>2. CASE /\ caps' = caps /\ runs' = runs
             /\ \A c \in Clients :
                  Answered(c) \/ (pending'[c].ver <= caps.ver /\ AssessedRun(pending'[c]))
    <3>1. \A c \in Clients :
            pending'[c].op # "idle" /\ pending'[c].ver = caps'.ver =>
              AssessedRun(pending[c])'
      BY <1>3, <1>4, <2>2
    <3> QED
      BY <3>1 DEF CurrentVersionCurrentRun
  <2> QED
    BY <2>1, <2>2 DEF Shape
<1> QED
  BY <1>5, <1>6

\* Nothing outside the handoff operations writes a packet or a launch.
LEMMA OthersKeepHandoffs ==
  ASSUME LocalMutationStep \/ RunStep \/ ContinueStep \/ RecoveryStep
  PROVE  packets' = packets /\ launches' = launches
<1>1. CASE LocalMutationStep
  BY <1>1 DEF LocalMutationStep, PreflightMutation, MessageTask, CreateCheckpoint, database
<1>2. CASE RunStep
  BY <1>2 DEF RunStep, PrepareRealRun, StartRunNoop, StartRunNoopInterrupted,
              FinalizeRealRun, FinalizeRealRunRefused, ManualRunAction, database
<1>3. CASE ContinueStep
  BY <1>3 DEF ContinueStep, AssessContinue, FinalizeContinue, database
<1>4. CASE RecoveryStep
  BY <1>4 DEF RecoveryStep, AssessRecord, AssessRebrief, AssessResume,
              AssessFinalize, Assessed, RecordRecoveryAction, ExecuteRebrief,
              ExecuteInterruptedResume, ExecuteContinueRecovery, ClearBrief,
              RefuseStaleRecovery, database
<1> QED
  BY <1>1, <1>2, <1>3, <1>4

\* When the latest run is not RUNNING, none is.
LEMMA NoneRunning ==
  ASSUME TypeOK, OnlyLatestRunning, ~LatestIsRunning(db)
  PROVE  \A i \in DOMAIN runs : runs[i].status # "RUNNING"
<1> SUFFICES ASSUME NEW i \in DOMAIN runs, runs[i].status = "RUNNING"
             PROVE  FALSE
  OBVIOUS
<1>1. i = Len(runs) /\ runs # <<>>
  BY DEF OnlyLatestRunning, TypeOK
<1> QED
  BY <1>1 DEF LatestIsRunning, LatestStatus, HasRun, db

\* What a step does to the runs keeps RUNNING runs last and ended runs as
\* they are, and is a step of the run ledger.
LEMMA RunsChangeKeepsLedger ==
  ASSUME TypeOK, OnlyLatestRunning, RunsChange
  PROVE  /\ OnlyLatestRunning'
         /\ \A i \in DOMAIN runs :
              runs[i].status # "RUNNING" => i \in DOMAIN runs' /\ runs'[i] = runs[i]
         /\ Len(runs') > Len(runs) => ~ClaudeOwnsBranch(db)
<1>0. runs \in Seq(Runs) /\ Len(runs) \in Nat
  BY DEF TypeOK
<1>1. CASE runs' = runs
  BY <1>0, <1>1 DEF OnlyLatestRunning
<1>2. ASSUME ~LatestIsRunning(db), ~ClaudeOwnsBranch(db), NEW r \in Runs,
             runs' = Append(runs, r)
      PROVE  /\ OnlyLatestRunning'
             /\ \A i \in DOMAIN runs : i \in DOMAIN runs' /\ runs'[i] = runs[i]
  <2>1. /\ Len(runs') = Len(runs) + 1
        /\ DOMAIN runs' = DOMAIN runs \cup {Len(runs) + 1}
        /\ \A i \in DOMAIN runs : runs'[i] = runs[i]
    BY <1>0, <1>2
  <2> QED
    BY <1>2, <2>1, NoneRunning DEF OnlyLatestRunning
<1>3. ASSUME NEW id \in DOMAIN runs, NEW status \in EndStatuses,
             runs[id].status = "RUNNING", runs' = EndRun(id, status)
      PROVE  /\ OnlyLatestRunning' /\ Len(runs') = Len(runs)
             /\ \A i \in DOMAIN runs :
                  runs[i].status # "RUNNING" => i \in DOMAIN runs' /\ runs'[i] = runs[i]
  <2>1. status \in RunStatuses /\ status # "RUNNING"
    BY DEF EndStatuses, RunStatuses
  <2>2. /\ Len(runs') = Len(runs) /\ DOMAIN runs' = DOMAIN runs
        /\ runs'[id].status = status
        /\ \A i \in DOMAIN runs : i # id => runs'[i] = runs[i]
    BY <1>0, <1>3, <2>1, EndRunType
  <2> QED
    BY <1>3, <2>1, <2>2 DEF OnlyLatestRunning
<1>4. \A status \in {"RUNNING", "INTERRUPTED"}, brief \in Nat :
        [status |-> status, brief |-> brief] \in Runs
  BY DEF Runs, RunStatuses
<1>5. CASE \E id \in DOMAIN runs, status \in EndStatuses :
             runs[id].status = "RUNNING" /\ runs' = EndRun(id, status)
  <2>1. PICK id \in DOMAIN runs, status \in EndStatuses :
             runs[id].status = "RUNNING" /\ runs' = EndRun(id, status)
    BY <1>5
  <2>2. Len(runs') = Len(runs)
    BY <1>3, <2>1
  <2> QED
    BY <1>0, <1>3, <2>1, <2>2
<1>6. CASE /\ ~LatestIsRunning(db) /\ ~ClaudeOwnsBranch(db)
           /\ \E status \in {"RUNNING", "INTERRUPTED"}, brief \in Nat :
                runs' = Append(runs, [status |-> status, brief |-> brief])
  BY <1>2, <1>4, <1>6
<1> QED
  BY <1>1, <1>5, <1>6 DEF RunsChange

\* Every step, whole: TaskInv is kept, and the step has the shape above.
LEMMA StepKeepsInvariant ==
  ASSUME TaskInv, [Next]_vars
  PROVE  TaskInv' /\ Shape /\ RunsChange
<1>1. StepOK /\ HandoffsOK
  <2> USE DEF TaskInv
  <2>1. CASE LocalMutationStep \/ RunStep \/ ContinueStep \/ RecoveryStep
    <3>1. packets' = packets /\ launches' = launches
      BY <2>1, OthersKeepHandoffs
    <3>2. HandoffsOK
      BY <3>1 DEF HandoffsOK, LaunchersAwaited, PacketsResumable
    <3> HIDE DEF TaskInv
    <3> QED
      BY <2>1, <3>2, LocalMutationShape, RunShape, ContinueShape, RecoveryShape
  <2>2. CASE HandoffStep
    BY <2>2, HandoffShape
  <2>3. CASE RepositoryChanges
    <3>1. caps' = caps /\ runs' = runs /\ pending' = pending
          /\ packets' = packets /\ launches' = launches
      BY <2>3 DEF RepositoryChanges, database, volatile
    <3>2. TypeOK'
      BY <2>3 DEF RepositoryChanges, database, volatile, TypeOK
    <3> QED
      BY <3>1, <3>2 DEF StepOK, Shape, RunsChange, Answered, HandoffsOK,
                        LaunchersAwaited, PacketsResumable
  <2>4. CASE DaemonCrash
    <3>1. /\ caps' = caps /\ runs' = runs /\ packets' = packets /\ launches' = {}
          /\ pending' = [c \in Clients |-> Idle]
      BY <2>4 DEF DaemonCrash, database
    <3>2. TypeOK'
      BY <2>4, IdleType DEF DaemonCrash, database, TypeOK
    <3> QED
      BY <3>1, <3>2 DEF StepOK, Shape, RunsChange, Answered, HandoffsOK,
                        LaunchersAwaited, PacketsResumable
  <2>5. CASE UNCHANGED vars
    BY <2>5 DEF vars, TypeOK, StepOK, Shape, RunsChange, Answered, HandoffsOK,
                LaunchersAwaited, PacketsResumable
  <2> QED
    BY <2>1, <2>2, <2>3, <2>4, <2>5 DEF Next
<1>2. TypeOK' /\ Shape /\ RunsChange /\ LaunchersAwaited' /\ PacketsResumable'
  BY <1>1 DEF StepOK, HandoffsOK
<1>3. VersionsBehind' /\ CurrentVersionCurrentRun'
  BY <1>2, ShapeKeepsAssessments
<1>4. OnlyLatestRunning'
  BY <1>2, RunsChangeKeepsLedger DEF TaskInv
<1> QED
  BY <1>2, <1>3, <1>4 DEF TaskInv

\* StartTask establishes the invariant.
LEMMA InitEstablishesInvariant ==
  ASSUME Init
  PROVE  TaskInv
<1> USE DEF Init, StartTask
<1>1. caps \in Capsules
  BY DEF Capsules, Phases
<1>2. cp \in Checkpoints
  BY <1>1, CheckpointType, IdleType
<1>3. /\ runs \in Seq(Runs) /\ packets \in Seq(Packets)
      /\ act \in Actions /\ lastRes \in Nat /\ repo \in Anchors
      /\ workers \subseteq Nat /\ launches \subseteq Launches
  BY IdleType
<1>4. pending \in [Clients -> Requests] /\ \A c \in Clients : pending[c] = Idle
  BY IdleType
<1>5. TypeOK
  BY <1>1, <1>2, <1>3, <1>4 DEF TypeOK
<1>6. Idle.ver = 0 /\ Idle.op = "idle" /\ caps.ver = 1
  BY DEF Idle
<1>7. VersionsBehind /\ CurrentVersionCurrentRun
  BY <1>4, <1>6 DEF VersionsBehind, CurrentVersionCurrentRun
<1> QED
  BY <1>5, <1>7 DEF TaskInv, LaunchersAwaited, PacketsResumable, OnlyLatestRunning

\* TaskInv holds in every state of every behaviour.
LEMMA Invariant == Spec => []TaskInv
<1>1. Init => TaskInv
  BY InitEstablishesInvariant
<1>2. TaskInv /\ [Next]_vars => TaskInv'
  BY StepKeepsInvariant
<1> QED
  BY <1>1, <1>2, PTL DEF Spec

----------------------------------------------------------------------------
(***************************************************************************)
(* The theorems.                                                           *)
(***************************************************************************)
\* Whatever the operations do, every table row and goroutine keeps its type.
THEOREM TypeCorrect == Spec => []TypeOK
<1>1. TaskInv => TypeOK
  BY DEF TaskInv
<1> QED
  BY <1>1, Invariant, PTL

\* An assessment whose capsule version is still current names the latest run
\* and its status (finalizeContinue, CreateHandoff, the recovery actions).
THEOREM AssessmentsStayCurrent == Spec => []CurrentVersionCurrentRun
<1>1. TaskInv => CurrentVersionCurrentRun
  BY DEF TaskInv
<1> QED
  BY <1>1, Invariant, PTL

\* Two runs of a task are never RUNNING at once (prepareRealRun,
\* startRunNoop and whatever ends runs, in any interleaving).
THEOREM RunsDoNotOverlap == Spec => []OnlyLatestRunning
<1>1. TaskInv => OnlyLatestRunning
  BY DEF TaskInv
<1> QED
  BY <1>1, Invariant, PTL

\* An executing launcher is the one its packet waits for (LaunchHandoff).
THEOREM LaunchesAreExclusive == Spec => []LaunchersAwaited
<1>1. TaskInv => LaunchersAwaited
  BY DEF TaskInv
<1> QED
  BY <1>1, Invariant, PTL

\* A run that ended is never written again (finalizeRealRun, markRun...,
\* completeRun, interruptRun, reconcileStaleRun).
THEOREM EndedRunsStay == Spec => TerminalRunsStay
<1>1. TaskInv /\ [Next]_vars =>
        [\A i \in DOMAIN runs :
           runs[i].status # "RUNNING" => i \in DOMAIN runs' /\ runs'[i] = runs[i]]_vars
  BY StepKeepsInvariant, RunsChangeKeepsLedger DEF TaskInv
<1> QED
  BY <1>1, Invariant, PTL DEF Spec, TerminalRunsStay

\* The capsule version moves with every change of the capsule or of a run.
THEOREM VersionIsAWitness == Spec => VersionCoversChanges
<1>1. TaskInv /\ [Next]_vars =>
        [<<caps, runs>>' # <<caps, runs>> => caps'.ver > caps.ver]_vars
  BY StepKeepsInvariant DEF Shape
<1> QED
  BY <1>1, Invariant, PTL DEF Spec, VersionCoversChanges

\* No run starts while an accepted handoff is unresolved
\* (runStartEligibility), whatever recovery actions were recorded.
THEOREM ClaudeBranchBlocksRuns == Spec => NoRunWhileClaudeOwns
<1>1. TaskInv /\ [Next]_vars =>
        [Len(runs') > Len(runs) => ~ClaudeOwnsBranch(db)]_vars
  BY StepKeepsInvariant, RunsChangeKeepsLedger DEF TaskInv
<1> QED
  BY <1>1, Invariant, PTL DEF Spec, NoRunWhileClaudeOwns

\* A change of the runs is, seen through their statuses, a ledger step.
LEMMA RunsChangeIsLedgerStep ==
  ASSUME TypeOK, OnlyLatestRunning, RunsChange
  PROVE  [Ledger!LedgerNext]_Statuses
<1>1. runs \in Seq(Runs) /\ Len(runs) \in Nat /\ DOMAIN runs = 1..Len(runs)
  BY DEF TypeOK
<1>2. \A i \in DOMAIN runs : runs[i] \in Runs
  BY <1>1
<1>3. DOMAIN Statuses = DOMAIN runs /\ \A i \in DOMAIN runs : Statuses[i] = runs[i].status
  BY DEF Statuses
<1>4. \A i \in DOMAIN runs : runs[i].status \in RunStatuses
  BY <1>2 DEF Runs
<1>5. /\ runs \in Seq(Runs) /\ Len(runs) \in Nat /\ DOMAIN runs = 1..Len(runs)
      /\ DOMAIN Statuses = DOMAIN runs
      /\ \A i \in DOMAIN runs : Statuses[i] = runs[i].status /\ runs[i].status \in RunStatuses
  BY <1>1, <1>3, <1>4
<1>6. Statuses \in Seq(RunStatuses) /\ Len(Statuses) = Len(runs)
  BY <1>5 DEF Statuses
<1>7. CASE runs' = runs
  BY <1>7 DEF Statuses
<1>8. CASE /\ ~LatestIsRunning(db) /\ ~ClaudeOwnsBranch(db)
           /\ \E status \in {"RUNNING", "INTERRUPTED"}, brief \in Nat :
                runs' = Append(runs, [status |-> status, brief |-> brief])
  <2>1. PICK status \in {"RUNNING", "INTERRUPTED"}, brief \in Nat :
          runs' = Append(runs, [status |-> status, brief |-> brief])
    BY <1>8
  <2> DEFINE n == Len(runs) + 1
  <2>2. /\ DOMAIN runs' = 1..n /\ runs'[n].status = status
        /\ \A i \in DOMAIN runs : runs'[i] = runs[i]
    BY <1>5, <2>1
  <2> DEFINE t == Append(Statuses, status)
  <2>3. status \in RunStatuses /\ n \in Nat
    BY <1>5 DEF RunStatuses
  <2>4. /\ t \in Seq(RunStatuses) /\ Len(t) = n /\ t[n] = status
        /\ \A i \in 1..Len(runs) : t[i] = Statuses[i]
    BY <1>6, <2>3, AppendProperties
  <2> DEFINE u == [i \in 1..n |-> runs'[i].status]
  <2>5. Statuses' = u
    BY <2>2 DEF Statuses
  <2>6. ASSUME NEW i \in 1..n
        PROVE  u[i] = t[i] /\ t[i] \in RunStatuses
    <3>1. CASE i = n
      BY <2>2, <2>3, <2>4, <3>1
    <3>2. CASE i \in 1..Len(runs)
      BY <1>5, <2>2, <2>4, <3>2
    <3> QED
      BY <1>5, <3>1, <3>2
  <2>7. u \in Seq(RunStatuses) /\ Len(u) = n
    <3>1. \A i \in 1..n : runs'[i].status \in RunStatuses
      BY <2>6
    <3> HIDE DEF n
    <3> QED
      BY <2>3, <3>1
  <2>8. u = t
    <3> HIDE DEF u, t
    <3> QED
      BY <2>4, <2>6, <2>7, SeqEqual
  <2>9. Ledger!Open = {}
    BY <1>5, <1>8, NoneRunning DEF Ledger!Open
  <2> QED
    BY <2>5, <2>8, <2>9 DEF Ledger!LedgerNext, Ledger!Start
<1>9. CASE \E id \in DOMAIN runs, status \in EndStatuses :
             runs[id].status = "RUNNING" /\ runs' = EndRun(id, status)
  <2>1. PICK id \in DOMAIN runs, status \in EndStatuses :
             runs[id].status = "RUNNING" /\ runs' = EndRun(id, status)
    BY <1>9
  <2>2. status \in RunStatuses /\ status \in Ledger!Terminal
    BY DEF EndStatuses, RunStatuses, Ledger!Terminal
  <2>3. /\ DOMAIN runs' = DOMAIN runs /\ runs'[id].status = status
        /\ \A i \in DOMAIN runs : i # id => runs'[i] = runs[i]
    BY <1>5, <2>1, <2>2, EndRunType
  <2>4. Statuses' = [i \in DOMAIN runs |-> runs'[i].status]
    BY <2>3 DEF Statuses
  <2>5. Statuses' = [Statuses EXCEPT ![id] = status]
    BY <1>5, <2>3, <2>4
  <2>6. id \in Ledger!Open
    BY <1>5, <2>1 DEF Ledger!Open
  <2> QED
    BY <2>2, <2>5, <2>6 DEF Ledger!LedgerNext, Ledger!End
<1> QED
  BY <1>7, <1>8, <1>9 DEF RunsChange

\* The runs of a task implement the run ledger.
THEOREM RunsAreALedger == Spec => ImplementsRunLedger
<1>1. Init => Ledger!LedgerInit
  BY DEF Init, StartTask, Ledger!LedgerInit, Statuses
<1>2. TaskInv /\ [Next]_vars => [Ledger!LedgerNext]_Statuses
  BY StepKeepsInvariant, RunsChangeIsLedgerStep DEF TaskInv
<1> QED
  BY <1>1, <1>2, Invariant, PTL DEF Spec, ImplementsRunLedger, Ledger!LedgerSpec

----------------------------------------------------------------------------
(***************************************************************************)
(* What continuity validation can find in a state the operations produce.  *)
(***************************************************************************)

\* The phases in which the task waits for an operator.
Undecided == {"AWAITING_DECISION", "BLOCKED"}

SoundCheckpoint(x) == x.resumable => x.phase \notin Undecided

\* What an assessment at the current version found out about the phase.
AssessedPhase(p) ==
  /\ p.op = "continue" /\ p.outcome = "Safe" => caps.phase \notin Undecided
  /\ p.op = "handoff" => caps.phase \notin Undecided /\ ~LatestIsRunning(db)

PhasesAreCurrent ==
  \A c \in Clients :
    pending[c].op # "idle" /\ pending[c].ver = caps.ver => AssessedPhase(pending[c])

LocalInv == TaskInv /\ SoundCheckpoint(cp) /\ PhasesAreCurrent

\* What every step does to the latest checkpoint and the requests; packets
\* are never deleted.
CheckpointStep ==
  /\ cp' = cp \/ (SoundCheckpoint(cp') /\ (caps'.ver > caps.ver \/ ~LatestIsRunning(db)))
  /\ \A c \in Clients : Answered(c) \/ AssessedPhase(pending'[c])
  /\ DOMAIN packets \subseteq DOMAIN packets'

\* A capsule that was moved to a phase is in it.
LEMMA BumpedPhase ==
  ASSUME TypeOK, NEW ph \in Phases
  PROVE  /\ Bumped(caps, ph).phase = ph
         /\ [Bumped(caps, ph) EXCEPT !.anchor = repo].phase = ph
  BY DEF TypeOK, Capsules, Bumped

\* The phases in which runs leave the task wait for nobody.
LEMMA RunPhases ==
  /\ {"EXECUTING", "VALIDATING", "PAUSED", "BRIEF_READY"} \subseteq Phases \ Undecided
  /\ Undecided \subseteq Phases
  BY DEF Undecided, Phases

----------------------------------------------------------------------------
(***************************************************************************)
(* One lemma per component.                                                *)
(***************************************************************************)
\* Messages and manual checkpoints.
LEMMA LocalMutationCheckpoints ==
  ASSUME LocalInv, LocalMutationStep
  PROVE  CheckpointStep
<1>0. /\ TypeOK /\ pending \in [Clients -> Requests] /\ caps.phase \in Phases
      /\ packets \in Seq(Packets) /\ TaskInv
  BY DEF LocalInv, TaskInv, TypeOK, Capsules
<1>1. packets' = packets /\ DOMAIN packets \subseteq DOMAIN packets'
  BY <1>0, OthersKeepHandoffs
<1>2. ASSUME NEW c \in Clients, NEW op \in {"message", "checkpoint"},
             PreflightMutation(c, op)
      PROVE  CheckpointStep
  <2> DEFINE p == [Idle EXCEPT !.op = op]
  <2>1. p \in Requests /\ p.op = op
    BY IdleType DEF Requests, Idle
  <2>2. pending' = [pending EXCEPT ![c] = p] /\ cp' = cp
    BY <1>2 DEF PreflightMutation, database
  <2> HIDE DEF p
  <2>3. \A x \in Clients : Answered(x) \/ AssessedPhase(pending'[x])
    BY <1>0, <2>1, <2>2, PendingType DEF Answered, AssessedPhase
  <2> QED
    BY <1>1, <2>2, <2>3 DEF CheckpointStep
<1>3. ASSUME NEW c \in Clients, MessageTask(c)
      PROVE  CheckpointStep
  <2>1. \A x \in Clients : Answered(x)
    BY <1>0, <1>3, DoneType DEF MessageTask
  <2> QED
    BY <1>1, <1>3, <2>1 DEF CheckpointStep, MessageTask
<1>4. ASSUME NEW c \in Clients, CreateCheckpoint(c)
      PROVE  CheckpointStep
  <2>1. \A x \in Clients : Answered(x)
    BY <1>0, <1>4, DoneType DEF CreateCheckpoint
  <2> DEFINE resumable == caps.brief # 0 /\ caps.phase \notin {"BLOCKED", "AWAITING_DECISION"}
  <2>2. caps'.phase = caps.phase
    BY <1>0, <1>4, BumpedPhase DEF CreateCheckpoint
  <2>3. cp'.resumable = resumable /\ cp'.phase = caps'.phase
    BY <1>4 DEF CreateCheckpoint, NewCheckpoint, Checkpoint
  <2>4. SoundCheckpoint(cp')
    BY <2>2, <2>3 DEF SoundCheckpoint, Undecided
  <2>5. caps'.ver > caps.ver
    BY <1>0, <1>4 DEF CreateCheckpoint, TypeOK, Capsules, Bumped
  <2> QED
    BY <1>1, <2>1, <2>4, <2>5 DEF CheckpointStep
<1> QED
  BY <1>2, <1>3, <1>4 DEF LocalMutationStep

\* Runs.
LEMMA RunCheckpoints ==
  ASSUME LocalInv, RunStep
  PROVE  CheckpointStep
<1>0. TypeOK /\ packets \in Seq(Packets) /\ TaskInv
  BY DEF LocalInv, TaskInv, TypeOK
<1>1. packets' = packets /\ DOMAIN packets \subseteq DOMAIN packets'
  BY <1>0, OthersKeepHandoffs
<1>2. pending' = pending /\ \A c \in Clients : Answered(c)
  BY DEF RunStep, PrepareRealRun, StartRunNoop, StartRunNoopInterrupted, FinalizeRealRun,
         FinalizeRealRunRefused, ManualRunAction, Answered
<1>3. cp' = cp \/ SoundCheckpoint(cp')
  <2>1. CASE PrepareRealRun \/ StartRunNoop
    <3>1. caps'.phase = "EXECUTING"
      BY <1>0, <2>1, BumpedPhase, RunPhases DEF PrepareRealRun, StartRunNoop
    <3>2. cp'.phase = caps'.phase
      BY <2>1 DEF PrepareRealRun, StartRunNoop, NewCheckpoint, Checkpoint
    <3> QED
      BY <3>1, <3>2, RunPhases DEF SoundCheckpoint
  <2>2. CASE StartRunNoopInterrupted
    <3> DEFINE k == Bumped(caps, "EXECUTING")
               x == NewCheckpoint(caps', Len(runs'), TRUE, NoIssue)
               n == cp.id + 2
    <3>1. k \in Capsules
      BY <1>0, BumpedCapsule, PhaseNames
    <3>2. caps' = Bumped(k, "PAUSED") /\ cp' = [x EXCEPT !.id = n]
      BY <2>2 DEF StartRunNoopInterrupted
    <3>3. Bumped(k, "PAUSED").phase = "PAUSED"
      <4> HIDE DEF k
      <4> QED BY <3>1 DEF Bumped, Capsules
    <3>4. cp'.phase = caps'.phase
      BY <3>2 DEF NewCheckpoint, Checkpoint
    <3> QED
      BY <3>2, <3>3, <3>4, RunPhases DEF SoundCheckpoint
  <2>3. ASSUME NEW id, CompleteRun(id) \/ InterruptRun(id) \/ FailRun(id)
        PROVE  SoundCheckpoint(cp')
    <3>1. CASE CompleteRun(id) \/ InterruptRun(id)
      <4>1. caps'.phase \in {"VALIDATING", "PAUSED"}
        BY <1>0, <3>1, BumpedPhase, RunPhases DEF CompleteRun, InterruptRun
      <4>2. cp'.phase = caps'.phase
        BY <3>1 DEF CompleteRun, InterruptRun, NewCheckpoint, Checkpoint
      <4> QED
        BY <4>1, <4>2, RunPhases DEF SoundCheckpoint
    <3>2. CASE FailRun(id)
      <4>1. cp'.resumable = FALSE
        BY <3>2 DEF FailRun, NewCheckpoint, Checkpoint
      <4> QED
        BY <4>1 DEF SoundCheckpoint
    <3> QED
      BY <2>3, <3>1, <3>2
  <2>4. CASE \E id \in DOMAIN runs : FinalizeRealRun(id) \/ ManualRunAction(id)
    BY <2>3, <2>4 DEF FinalizeRealRun, ManualRunAction
  <2>5. CASE \E id \in DOMAIN runs : FinalizeRealRunRefused(id)
    BY <2>5 DEF FinalizeRealRunRefused, database
  <2> QED
    BY <2>1, <2>2, <2>4, <2>5 DEF RunStep
<1>4. cp' = cp \/ caps'.ver > caps.ver
  <2>1. Shape
    BY <1>0, RunShape DEF StepOK
  <2>2. CASE caps' = caps
    <3>1. ASSUME NEW id \in DOMAIN runs, FinalizeRealRunRefused(id)
          PROVE  cp' = cp
      BY <3>1 DEF FinalizeRealRunRefused, database
    <3>2. \A ph \in Phases : Bumped(caps, ph).ver > caps.ver
                             /\ [Bumped(caps, ph) EXCEPT !.anchor = repo].ver > caps.ver
      BY <1>0 DEF TypeOK, Capsules, Bumped
    <3>3. Bumped(Bumped(caps, "EXECUTING"), "PAUSED").ver > caps.ver
      BY <1>0 DEF TypeOK, Capsules, Bumped
    <3>4. caps.ver \in Nat /\ ~(caps.ver > caps.ver)
      BY <1>0 DEF TypeOK, Capsules
    <3> QED
      BY <2>2, <3>1, <3>2, <3>3, <3>4, PhaseNames
      DEF RunStep, PrepareRealRun, StartRunNoop, StartRunNoopInterrupted, FinalizeRealRun,
          ManualRunAction, CompleteRun, InterruptRun, FailRun
  <2> QED
    BY <2>1, <2>2 DEF Shape
<1> QED
  BY <1>1, <1>2, <1>3, <1>4 DEF CheckpointStep

\* A continue that mutates because all is well found the brief ready: the
\* recovery class of any other phase is another one.
LEMMA SafeMeansReady ==
  ASSUME NEW d, NEW anchor, ContinueMutates(d, anchor),
         ContinueOutcome(d, anchor) = "Safe"
  PROVE  d.caps.phase = "BRIEF_READY"
<1>1. RecoveryClass(d, anchor) = "READY_NEXT_RUN"
  BY DEF ContinueMutates
<1>2. BaseClass(d, anchor) = "READY_NEXT_RUN"
  BY <1>1, ProgressionKeepsReady DEF RecoveryClass
<1>3. SafeClass(d) = "READY_NEXT_RUN"
  BY <1>2 DEF BaseClass
<1>4. HandoffClass(d, ActiveHandoff(d)) # "READY_NEXT_RUN"
  BY DEF HandoffClass
<1>5. LocalClass(d) = "READY_NEXT_RUN"
  BY <1>3, <1>4 DEF SafeClass
<1> QED
  BY <1>5 DEF LocalClass, InterruptedClass

\* The checkpoint of every branch of finalizeContinue.
LEMMA FinalizeContinueCheckpoint ==
  ASSUME LocalInv, NEW c \in Clients, pending[c].op = "continue"
  PROVE  SoundCheckpoint(finalizeContinue(db, pending[c]).cp)
<1> DEFINE p == pending[c]
           k0 == [caps EXCEPT !.anchor = p.anchor]
           after == finalizeContinue(db, p)
<1>0. TypeOK /\ TaskInv
  BY DEF LocalInv, TaskInv
<1>1. /\ p.op = "continue" /\ p.outcome \in Outcomes /\ p.op # "idle"
      /\ p.ver = caps.ver => AssessedRun(p) /\ AssessedPhase(p)
  BY <1>0 DEF TypeOK, Requests, LocalInv, TaskInv, CurrentVersionCurrentRun, PhasesAreCurrent
<1>2. db.caps = caps /\ db.runs = runs
  BY DEF db
<1>3. k0 \in Capsules /\ k0.phase = caps.phase
  BY <1>0 DEF TypeOK, Capsules, Requests
<1>4. \A d, k, run, reason : SoundCheckpoint(Recorded(d, k, run, FALSE, reason).cp)
                             \/ ~("cp" \in DOMAIN d)
  BY DEF Recorded, Checkpoint, SoundCheckpoint
<1>5. "cp" \in DOMAIN db
  BY DEF db
<1> HIDE DEF k0
<1>6. \A ph \in Phases : Bumped(k0, ph).phase = ph
  BY <1>3 DEF Bumped, Capsules
<1>7. CASE p.ver # caps.ver
  <2>1. after = blockedContinueByInconsistency(db, caps, VersionChanged(p.ver, caps.ver))
    BY <1>2, <1>7 DEF finalizeContinue
  <2> HIDE DEF after
  <2> QED
    BY <1>4, <1>5, <2>1 DEF blockedContinueByInconsistency, after
<1>8. CASE p.ver = caps.ver /\ p.outcome = "StaleReconciled"
  <2>1. p.run = Len(runs) /\ LatestIsRunning(db)
    BY <1>1, <1>8 DEF AssessedRun
  <2>2. runs[p.run].status = "RUNNING"
    BY <2>1 DEF LatestIsRunning, LatestStatus, HasRun, db
  <2>3. after = reconcileStaleRun(db, k0, p.run)
    BY <1>2, <1>8, <2>2 DEF finalizeContinue, k0
  <2> DEFINE k == Bumped(k0, "PAUSED")
             r == Recorded(db, k, p.run, TRUE, NoIssue)
             e == [db.runs EXCEPT ![p.run].status = "INTERRUPTED"]
  <2>4. k.phase = "PAUSED"
    BY <1>6, PhaseNames
  <2>5. r.cp.phase = k.phase /\ after = [r EXCEPT !.runs = e]
    BY <2>3 DEF reconcileStaleRun, Recorded, Checkpoint, db
  <2>6. after.cp = r.cp
    BY <2>5 DEF Recorded, db
  <2> HIDE DEF after, k, r
  <2> QED
    BY <2>4, <2>5, <2>6, RunPhases DEF SoundCheckpoint, after
<1>9. CASE p.ver = caps.ver /\ p.outcome \in {"BlockedDrift", "NeedsDecision"}
  <2>1. after = awaitDecisionOnContinue(db, k0)
    BY <1>2, <1>9 DEF finalizeContinue, k0
  <2> HIDE DEF after
  <2> QED
    BY <1>4, <1>5, <2>1 DEF awaitDecisionOnContinue, after
<1>10. CASE p.ver = caps.ver /\ p.outcome = "BlockedInconsistent"
  <2>1. after = blockedContinueByInconsistency(db, k0, p.reason)
    BY <1>2, <1>10 DEF finalizeContinue, k0
  <2> HIDE DEF after
  <2> QED
    BY <1>4, <1>5, <2>1 DEF blockedContinueByInconsistency, after
<1>11. CASE p.ver = caps.ver /\ p.outcome = "Safe"
  <2>1. after = safeContinue(db, k0, p.run)
    BY <1>2, <1>11 DEF finalizeContinue, k0
  <2> DEFINE k == Bumped(k0, k0.phase)
  <2>2. k.phase = caps.phase
    BY <1>3, <1>6 DEF Capsules
  <2> DEFINE r == Recorded(db, k, p.run, TRUE, NoIssue)
  <2>3. r.cp.phase = k.phase /\ after = r
    <3>1. after = r
      BY <2>1 DEF safeContinue
    <3> HIDE DEF after, k
    <3>2. r.cp.phase = k.phase
      BY DEF Recorded, Checkpoint, db
    <3> QED
      BY <3>1, <3>2
  <2>4. caps.phase \notin Undecided
    BY <1>1, <1>11 DEF AssessedPhase
  <2> HIDE DEF after, k, r
  <2> QED
    BY <2>2, <2>3, <2>4 DEF SoundCheckpoint, after
<1> QED
  BY <1>1, <1>7, <1>8, <1>9, <1>10, <1>11 DEF Outcomes

\* Continue.
LEMMA ContinueCheckpoints ==
  ASSUME LocalInv, ContinueStep
  PROVE  CheckpointStep
<1>0. /\ TypeOK /\ TaskInv /\ pending \in [Clients -> Requests] /\ repo \in Anchors
      /\ db \in Snapshots
  BY DatabaseType DEF LocalInv, TaskInv, TypeOK
<1>1. packets' = packets /\ DOMAIN packets \subseteq DOMAIN packets'
  BY OthersKeepHandoffs
<1>2. ASSUME NEW c \in Clients, AssessContinue(c)
      PROVE  CheckpointStep
  <2> DEFINE p == ContinueAssessment(db, repo)
  <2>1. p \in Requests /\ p.op = "continue" /\ p.outcome = ContinueOutcome(db, repo)
    BY <1>0, ContinueAssessmentType
  <2>2. /\ pending' = [pending EXCEPT ![c] = p] /\ cp' = cp
        /\ ContinueMutates(db, repo)
    BY <1>2 DEF AssessContinue, database
  <2> HIDE DEF p
  <2>3. p.outcome = "Safe" => caps.phase \notin Undecided
    <3>1. db.caps = caps
      BY DEF db
    <3> QED
      BY <2>1, <2>2, <3>1, SafeMeansReady, RunPhases
  <2>4. AssessedPhase(p)
    BY <2>1, <2>3 DEF AssessedPhase
  <2>5. \A x \in Clients : Answered(x) \/ AssessedPhase(pending'[x])
    BY <1>0, <2>1, <2>2, <2>4, PendingType DEF Answered
  <2> QED
    BY <1>1, <2>2, <2>5 DEF CheckpointStep
<1>3. ASSUME NEW c \in Clients, FinalizeContinue(c)
      PROVE  CheckpointStep
  <2> DEFINE after == finalizeContinue(db, pending[c])
  <2>1. /\ pending[c].op = "continue" /\ Done(c)
        /\ caps' = after.caps /\ cp' = after.cp
    BY <1>3 DEF FinalizeContinue
  <2>2. PICK k \in Capsules, run \in Nat, resumable \in BOOLEAN, reason \in Issues :
          ContinueEffect(after, k, run, resumable, reason)
    BY <1>0, <2>1, FinalizeContinueEffect
  <2>3. SoundCheckpoint(after.cp)
    BY <2>1, FinalizeContinueCheckpoint
  <2> HIDE DEF after
  <2>4. caps'.ver > caps.ver
    BY <1>0, <2>1, <2>2, BumpedCapsule, PhaseNames DEF ContinueEffect
  <2>5. \A x \in Clients : Answered(x)
    BY <1>0, <2>1, DoneType
  <2> QED
    BY <1>1, <2>1, <2>3, <2>4, <2>5 DEF CheckpointStep
<1> QED
  BY <1>2, <1>3 DEF ContinueStep

\* Recovery actions write no checkpoint.
LEMMA RecoveryCheckpoints ==
  ASSUME LocalInv, RecoveryStep
  PROVE  CheckpointStep
<1>0. TypeOK /\ pending \in [Clients -> Requests]
  BY DEF LocalInv, TaskInv, TypeOK
<1>1. packets' = packets /\ DOMAIN packets \subseteq DOMAIN packets'
  BY OthersKeepHandoffs
<1>2. cp' = cp
  BY DEF RecoveryStep, AssessRecord, AssessRebrief, AssessResume,
         AssessFinalize, Assessed, RecordRecoveryAction, ExecuteRebrief,
         ExecuteInterruptedResume, ExecuteContinueRecovery, ClearBrief,
         RefuseStaleRecovery, database
<1>3. ASSUME NEW c \in Clients, NEW op \in {"record", "rebrief", "resume", "finalize"},
             NEW record, Assessed(c, op, record)
      PROVE  \A x \in Clients : Answered(x) \/ AssessedPhase(pending'[x])
  <2> DEFINE p == [Idle EXCEPT !.op = op, !.ver = caps.ver, !.act = record]
  <2>1. p.op = op
    BY DEF Idle
  <2>2. pending' = [pending EXCEPT ![c] = p]
    BY <1>3 DEF Assessed
  <2> HIDE DEF p
  <2>3. \A x \in Clients : pending'[x] \in {pending[x], p}
    BY <1>0, <2>2
  <2>4. AssessedPhase(p)
    BY <2>1 DEF AssessedPhase
  <2> QED
    BY <2>3, <2>4 DEF Answered
<1>4. CASE \E c \in Clients :
             \/ RecordRecoveryAction(c) \/ ExecuteRebrief(c)
             \/ ExecuteInterruptedResume(c) \/ ExecuteContinueRecovery(c)
             \/ RefuseStaleRecovery(c)
  <2>1. PICK c \in Clients : Done(c)
    BY <1>4 DEF RecordRecoveryAction, ExecuteRebrief, ExecuteInterruptedResume,
                ExecuteContinueRecovery, ClearBrief, RefuseStaleRecovery
  <2> QED
    BY <1>0, <1>1, <1>2, <2>1, DoneType DEF CheckpointStep
<1>5. CASE \E c \in Clients :
             \/ \E kind \in RecordableKinds, own \in BOOLEAN : AssessRecord(c, kind, own)
             \/ AssessRebrief(c) \/ AssessResume(c) \/ AssessFinalize(c)
  <2>1. \A x \in Clients : Answered(x) \/ AssessedPhase(pending'[x])
    BY <1>3, <1>5 DEF AssessRecord, AssessRebrief, AssessResume, AssessFinalize
  <2> QED
    BY <1>1, <1>2, <2>1 DEF CheckpointStep
<1> QED
  BY <1>4, <1>5 DEF RecoveryStep

\* Handoffs: creation writes the only checkpoint that does not move the
\* version, and only while nothing is RUNNING.
LEMMA HandoffCheckpoints ==
  ASSUME LocalInv, HandoffStep
  PROVE  CheckpointStep
<1>0. /\ TypeOK /\ pending \in [Clients -> Requests] /\ packets \in Seq(Packets)
  BY DEF LocalInv, TaskInv, TypeOK
<1>1. ASSUME NEW c \in Clients, NEW req \in HandoffReqs, AssessHandoff(c, req)
      PROVE  CheckpointStep
  <2> DEFINE p == [Idle EXCEPT !.op = "handoff", !.ver = caps.ver, !.run = LatestRunID(db),
                               !.runStatus = LatestStatus(db), !.cp = cp.id,
                               !.lastRes = lastRes, !.req = req]
  <2>1. p.op = "handoff"
    BY DEF Idle
  <2>2. /\ pending' = [pending EXCEPT ![c] = p] /\ cp' = cp /\ packets' = packets
        /\ HandoffSafe(db, repo)
    BY <1>1 DEF AssessHandoff, database
  <2>3. ~LatestIsRunning(db)
    BY <2>2 DEF HandoffSafe, ContinueOutcome
  <2>4. caps.phase \notin Undecided
    <3>1. db.caps = caps /\ db.cp = cp
      BY DEF db
    <3> QED
      BY <2>2, <3>1
      DEF HandoffSafe, ValidHandoffCheckpoint, LocalInv, SoundCheckpoint, Undecided
  <2> HIDE DEF p
  <2>5. \A x \in Clients : pending'[x] \in {pending[x], p}
    BY <1>0, <2>2
  <2>6. AssessedPhase(p)
    BY <2>1, <2>3, <2>4 DEF AssessedPhase
  <2> QED
    BY <2>2, <2>5, <2>6 DEF CheckpointStep, Answered
<1>2. ASSUME NEW c \in Clients, CreateHandoffNothing(c)
      PROVE  CheckpointStep
  <2>1. \A x \in Clients : Answered(x)
    BY <1>0, <1>2, DoneType DEF CreateHandoffNothing
  <2> QED
    BY <1>2, <2>1 DEF CheckpointStep, CreateHandoffNothing, database
<1>3. ASSUME NEW c \in Clients, CreateHandoff(c)
      PROVE  CheckpointStep
  <2>1. \A x \in Clients : Answered(x)
    BY <1>0, <1>3, DoneType DEF CreateHandoff
  <2>2. caps.phase \notin Undecided /\ ~LatestIsRunning(db)
    BY <1>3 DEF CreateHandoff, LocalInv, PhasesAreCurrent, AssessedPhase
  <2>3. cp' = cp \/ cp'.phase = caps.phase
    BY <1>3 DEF CreateHandoff, NewCheckpoint, Checkpoint
  <2>4. DOMAIN packets \subseteq DOMAIN packets'
    BY <1>0, <1>3 DEF CreateHandoff
  <2> QED
    BY <2>1, <2>2, <2>3, <2>4 DEF CheckpointStep, SoundCheckpoint
<1>4. ASSUME \/ \E id \in DOMAIN packets : AcceptHandoff(id) \/ PrepareHandoffLaunch(id)
             \/ \E l \in launches : FinalizeHandoffLaunch(l)
             \/ \E kind \in FollowKinds : RecordHandoffFollowThrough(kind)
             \/ RecordHandoffResolution
      PROVE  CheckpointStep
  <2>1. cp' = cp /\ pending' = pending
    BY <1>4 DEF AcceptHandoff, PrepareHandoffLaunch, FinalizeHandoffLaunch,
                RecordHandoffFollowThrough, RecordHandoffResolution
  <2>2. DOMAIN packets' = DOMAIN packets
    BY <1>4 DEF AcceptHandoff, PrepareHandoffLaunch, FinalizeHandoffLaunch,
                RecordHandoffFollowThrough, RecordHandoffResolution
  <2> QED
    BY <2>1, <2>2 DEF CheckpointStep, Answered
<1> QED
  BY <1>1, <1>2, <1>3, <1>4 DEF HandoffStep

----------------------------------------------------------------------------
(***************************************************************************)
(* Every step of TaskControl.                                              *)
(***************************************************************************)
LEMMA EveryCheckpointStep ==
  ASSUME LocalInv, [Next]_vars
  PROVE  CheckpointStep
<1>1. CASE RepositoryChanges
  BY <1>1 DEF RepositoryChanges, database, volatile, CheckpointStep, Answered
<1>2. CASE DaemonCrash
  BY <1>2 DEF DaemonCrash, database, CheckpointStep, Answered
<1>3. CASE UNCHANGED vars
  BY <1>3 DEF vars, CheckpointStep, Answered
<1> QED
  BY <1>1, <1>2, <1>3, LocalMutationCheckpoints, RunCheckpoints, ContinueCheckpoints,
     RecoveryCheckpoints, HandoffCheckpoints DEF Next

\* LocalInv is kept, and a step is of the shape TaskControlProofs describes.
LEMMA StepKeepsLocalInv ==
  ASSUME LocalInv, [Next]_vars
  PROVE  LocalInv' /\ Shape /\ RunsChange /\ CheckpointStep
<1>1. TaskInv' /\ Shape /\ RunsChange
  BY StepKeepsInvariant DEF LocalInv
<1>2. CheckpointStep
  BY EveryCheckpointStep
<1>3. SoundCheckpoint(cp)'
  BY <1>2 DEF CheckpointStep, LocalInv, SoundCheckpoint
<1>4. PhasesAreCurrent'
  <2>0. /\ caps.ver \in Nat /\ caps'.ver \in Nat /\ Idle.op = "idle"
        /\ \A c \in Clients : pending[c].ver \in Nat /\ pending[c].ver <= caps.ver
    BY <1>1 DEF LocalInv, TaskInv, TypeOK, Capsules, Requests, Idle, VersionsBehind
  <2>1. CASE caps'.ver > caps.ver /\ \A c \in Clients : Answered(c)
    BY <2>0, <2>1 DEF PhasesAreCurrent, Answered
  <2>2. CASE caps' = caps /\ runs' = runs
    <3>1. LatestIsRunning(db)' = LatestIsRunning(db)
      BY <2>2 DEF LatestIsRunning, LatestStatus, HasRun, db
    <3>2. \A c \in Clients : AssessedPhase(pending'[c]) => AssessedPhase(pending[c])'
      BY <2>2, <3>1 DEF AssessedPhase
    <3>3. ASSUME NEW c \in Clients, pending'[c].op # "idle", pending'[c].ver = caps'.ver
          PROVE  AssessedPhase(pending'[c])
      <4>1. CASE pending'[c] = pending[c]
        BY <2>2, <3>3, <4>1 DEF LocalInv, PhasesAreCurrent
      <4> QED
        BY <1>2, <2>0, <3>3, <4>1 DEF CheckpointStep, Answered
    <3> QED
      BY <3>2, <3>3 DEF PhasesAreCurrent
  <2> QED
    BY <1>1, <2>1, <2>2 DEF Shape
<1> QED
  BY <1>1, <1>2, <1>3, <1>4 DEF LocalInv

----------------------------------------------------------------------------
(***************************************************************************)
(* The phase of the task and the RUNNING run.                              *)
(***************************************************************************)
\* A step that leaves the task EXECUTING started a run or touched neither
\* the phase nor the runs.
PhaseStep ==
  \/ caps'.phase = caps.phase /\ runs' = runs
  \/ caps'.phase # "EXECUTING"
  \/ LatestIsRunning(db)'

\* A run that was appended is the latest.
LEMMA AppendedIsLatest ==
  ASSUME TypeOK, NEW brief \in Nat,
         runs' = Append(runs, [status |-> "RUNNING", brief |-> brief])
  PROVE  LatestIsRunning(db)'
<1> DEFINE r == [status |-> "RUNNING", brief |-> brief]
<1>1. r \in Runs /\ r.status = "RUNNING"
  BY DEF Runs, RunStatuses
<1> HIDE DEF r
<1>2. runs \in Seq(Runs) /\ runs' = Append(runs, r)
  BY DEF TypeOK, r
<1>3. runs' # <<>> /\ runs'[Len(runs')] = r
  BY <1>1, <1>2
<1> QED
  BY <1>1, <1>3 DEF LatestIsRunning, LatestStatus, HasRun, db

\* Runs: a start appends a RUNNING run, an end leaves EXECUTING.
LEMMA RunPhaseStep ==
  ASSUME TypeOK, RunStep
  PROVE  PhaseStep
<1>0. caps \in Capsules /\ caps.brief \in Nat
  BY DEF TypeOK, Capsules
<1>1. CASE PrepareRealRun \/ StartRunNoop
  BY <1>0, <1>1, AppendedIsLatest DEF PrepareRealRun, StartRunNoop, PhaseStep
<1>2. CASE StartRunNoopInterrupted
  <2> DEFINE k == Bumped(caps, "EXECUTING")
  <2>1. k \in Capsules
    BY <1>0, BumpedCapsule, PhaseNames
  <2>2. caps' = Bumped(k, "PAUSED")
    BY <1>2 DEF StartRunNoopInterrupted
  <2> HIDE DEF k
  <2> QED
    BY <2>1, <2>2 DEF Bumped, Capsules, PhaseStep
<1>3. ASSUME NEW id, CompleteRun(id) \/ InterruptRun(id) \/ FailRun(id)
      PROVE  PhaseStep
  BY <1>3, BumpedPhase, PhaseNames DEF CompleteRun, InterruptRun, FailRun, PhaseStep
<1>4. CASE \E id \in DOMAIN runs : FinalizeRealRun(id) \/ ManualRunAction(id)
  BY <1>3, <1>4 DEF FinalizeRealRun, ManualRunAction
<1>5. CASE \E id \in DOMAIN runs : FinalizeRealRunRefused(id)
  BY <1>5 DEF FinalizeRealRunRefused, database, PhaseStep
<1> QED
  BY <1>1, <1>2, <1>4, <1>5 DEF RunStep

\* Continue: only a safe continue keeps the phase, and it leaves the runs.
LEMMA ContinuePhaseStep ==
  ASSUME TaskInv, ContinueStep
  PROVE  PhaseStep
<1>1. CASE \E c \in Clients : AssessContinue(c)
  BY <1>1 DEF AssessContinue, database, PhaseStep
<1>2. ASSUME NEW c \in Clients, FinalizeContinue(c)
      PROVE  PhaseStep
  <2> DEFINE p == pending[c]
             k0 == [caps EXCEPT !.anchor = p.anchor]
             after == finalizeContinue(db, p)
  <2>1. /\ p.op = "continue" /\ p.outcome \in Outcomes
        /\ p.ver = caps.ver => AssessedRun(p)
    BY <1>2 DEF FinalizeContinue, TaskInv, TypeOK, Requests, CurrentVersionCurrentRun
  <2>2. db.caps = caps /\ db.runs = runs
    BY DEF db
  <2>3. k0 \in Capsules /\ caps \in Capsules /\ k0.phase = caps.phase /\ caps.phase \in Phases
    BY DEF TaskInv, TypeOK, Capsules, Requests
  <2>4. caps' = after.caps /\ runs' = after.runs
    BY <1>2 DEF FinalizeContinue
  <2> HIDE DEF k0
  <2>5. \A k \in Capsules, ph \in Phases : Bumped(k, ph).phase = ph
    BY DEF Bumped, Capsules
  <2>6. CASE \E k \in Capsules : \E reason : after = blockedContinueByInconsistency(db, k, reason)
    <3>1. PICK k \in Capsules : caps' = Bumped(k, "BLOCKED")
      <4> HIDE DEF after
      <4> QED BY <2>4, <2>6 DEF blockedContinueByInconsistency, Recorded, db
    <3> QED
      BY <2>5, <3>1, PhaseNames DEF PhaseStep
  <2>7. CASE p.ver # caps.ver
    <3>1. after = blockedContinueByInconsistency(db, caps, VersionChanged(p.ver, caps.ver))
      BY <2>2, <2>7 DEF finalizeContinue
    <3> HIDE DEF after, p
    <3> QED
      BY <2>3, <2>6, <3>1
  <2>8. CASE p.ver = caps.ver /\ p.outcome = "StaleReconciled"
    <3>1. p.run = Len(runs) /\ LatestIsRunning(db)
      BY <2>1, <2>8 DEF AssessedRun
    <3>2. runs[p.run].status = "RUNNING"
      BY <3>1 DEF LatestIsRunning, LatestStatus, HasRun, db
    <3>3. after = reconcileStaleRun(db, k0, p.run)
      BY <2>2, <2>8, <3>2 DEF finalizeContinue, k0
    <3>4. after.caps = Bumped(k0, "PAUSED")
      BY <3>3 DEF reconcileStaleRun, Recorded, db
    <3> HIDE DEF after
    <3> QED
      BY <2>3, <2>4, <2>5, <3>4, PhaseNames DEF PhaseStep
  <2>9. CASE p.ver = caps.ver /\ p.outcome \in {"BlockedDrift", "NeedsDecision"}
    <3>1. after = awaitDecisionOnContinue(db, k0)
      BY <2>2, <2>9 DEF finalizeContinue, k0
    <3>2. after.caps = Bumped(k0, "AWAITING_DECISION")
      BY <3>1 DEF awaitDecisionOnContinue, Recorded, db
    <3> HIDE DEF after
    <3> QED
      BY <2>3, <2>4, <2>5, <3>2, PhaseNames DEF PhaseStep
  <2>10. CASE p.ver = caps.ver /\ p.outcome = "BlockedInconsistent"
    <3>1. after = blockedContinueByInconsistency(db, k0, p.reason)
      BY <2>2, <2>10 DEF finalizeContinue, k0
    <3> HIDE DEF after, p
    <3> QED
      BY <2>3, <2>6, <3>1
  <2>11. CASE p.ver = caps.ver /\ p.outcome = "Safe"
    <3>1. after = safeContinue(db, k0, p.run)
      BY <2>2, <2>11 DEF finalizeContinue, k0
    <3>2. after.caps = Bumped(k0, k0.phase) /\ after.runs = runs
      BY <3>1 DEF safeContinue, Recorded, db
    <3> HIDE DEF after
    <3> QED
      BY <2>3, <2>4, <2>5, <3>2 DEF PhaseStep
  <2> QED
    BY <2>1, <2>7, <2>8, <2>9, <2>10, <2>11 DEF Outcomes
<1> QED
  BY <1>1, <1>2 DEF ContinueStep

\* Handoffs leave the capsule and the runs alone.
LEMMA HandoffPhaseStep ==
  ASSUME HandoffStep
  PROVE  PhaseStep
<1>1. ASSUME NEW c \in Clients,
             \/ \E req \in HandoffReqs : AssessHandoff(c, req)
             \/ CreateHandoffNothing(c)
      PROVE  caps' = caps /\ runs' = runs
  BY <1>1 DEF AssessHandoff, CreateHandoffNothing, database
<1>2. ASSUME NEW c \in Clients, CreateHandoff(c)
      PROVE  caps' = caps /\ runs' = runs
  BY <1>2 DEF CreateHandoff
<1>3. ASSUME NEW id, AcceptHandoff(id) \/ PrepareHandoffLaunch(id)
      PROVE  caps' = caps /\ runs' = runs
  BY <1>3 DEF AcceptHandoff, PrepareHandoffLaunch
<1>4. ASSUME NEW l, FinalizeHandoffLaunch(l)
      PROVE  caps' = caps /\ runs' = runs
  BY <1>4 DEF FinalizeHandoffLaunch
<1>5. ASSUME NEW kind, RecordHandoffFollowThrough(kind)
      PROVE  caps' = caps /\ runs' = runs
  BY <1>5 DEF RecordHandoffFollowThrough
<1>6. ASSUME RecordHandoffResolution
      PROVE  caps' = caps /\ runs' = runs
  BY <1>6 DEF RecordHandoffResolution
<1>7. caps' = caps /\ runs' = runs
  <2>1. CASE \E c \in Clients : \/ \E req \in HandoffReqs : AssessHandoff(c, req)
                              \/ CreateHandoffNothing(c) \/ CreateHandoff(c)
    BY <1>1, <1>2, <2>1
  <2>2. CASE \E id \in DOMAIN packets : AcceptHandoff(id) \/ PrepareHandoffLaunch(id)
    BY <1>3, <2>2
  <2>3. CASE \E l \in launches : FinalizeHandoffLaunch(l)
    BY <1>4, <2>3
  <2>4. CASE \E kind \in FollowKinds : RecordHandoffFollowThrough(kind)
    BY <1>5, <2>4
  <2> QED
    BY <1>6, <2>1, <2>2, <2>3, <2>4 DEF HandoffStep
<1> QED
  BY <1>7 DEF PhaseStep

\* Every step.
LEMMA EveryPhaseStep ==
  ASSUME TaskInv, [Next]_vars
  PROVE  PhaseStep
<1>0. TypeOK /\ caps \in Capsules /\ caps.phase \in Phases
  BY DEF TaskInv, TypeOK, Capsules
<1>1. \A ph \in Phases : Bumped(caps, ph).phase = ph
  BY <1>0, BumpedPhase
<1>2. CASE LocalMutationStep
  <2>1. ASSUME NEW c \in Clients, MessageTask(c)
        PROVE  caps'.phase = "BRIEF_READY"
    <3> DEFINE k == Bumped(caps, "BRIEF_READY")
               v == caps.ver + 1
    <3>1. k \in Capsules /\ k.phase = "BRIEF_READY"
      BY <1>0, <1>1, BumpedCapsule, PhaseNames
    <3>2. caps' = [k EXCEPT !.anchor = repo, !.intent = v, !.brief = v]
      BY <2>1 DEF MessageTask
    <3> HIDE DEF k, v
    <3> QED
      BY <3>1, <3>2 DEF Capsules
  <2>2. ASSUME NEW c \in Clients, CreateCheckpoint(c)
        PROVE  caps'.phase = caps.phase /\ runs' = runs
    BY <1>0, <2>2, BumpedPhase DEF CreateCheckpoint
  <2>3. ASSUME NEW c \in Clients, NEW op \in {"message", "checkpoint"}, PreflightMutation(c, op)
        PROVE  caps' = caps /\ runs' = runs
    BY <2>3 DEF PreflightMutation, database
  <2> QED
    BY <1>2, <2>1, <2>2, <2>3 DEF LocalMutationStep, PhaseStep
<1>3. CASE RecoveryStep
  <2>0. ASSUME NEW c, NEW op, NEW record, Assessed(c, op, record)
        PROVE  caps' = caps /\ runs' = runs
    BY <2>0 DEF Assessed, database
  <2>1. CASE \E c \in Clients :
               \/ \E kind \in RecordableKinds, own \in BOOLEAN : AssessRecord(c, kind, own)
               \/ AssessRebrief(c) \/ AssessResume(c) \/ AssessFinalize(c)
    BY <2>0, <2>1 DEF AssessRecord, AssessRebrief, AssessResume, AssessFinalize, PhaseStep
  <2>2. CASE \E c \in Clients :
               \/ RecordRecoveryAction(c) \/ ExecuteInterruptedResume(c)
               \/ ExecuteContinueRecovery(c) \/ RefuseStaleRecovery(c)
    BY <1>1, <2>2, PhaseNames
    DEF RecordRecoveryAction, ExecuteInterruptedResume, ExecuteContinueRecovery, ClearBrief,
        RefuseStaleRecovery, database, PhaseStep
  <2>3. [Bumped(caps, "BRIEF_READY") EXCEPT !.brief = caps.ver + 1].phase = "BRIEF_READY"
    <3> DEFINE k == Bumped(caps, "BRIEF_READY")
               v == caps.ver + 1
    <3>1. k \in Capsules /\ k.phase = "BRIEF_READY"
      BY <1>0, <1>1, BumpedCapsule, PhaseNames
    <3>2. [k EXCEPT !.brief = v].phase = k.phase
      <4> HIDE DEF k, v
      <4> QED BY <3>1 DEF Capsules
    <3> QED
      BY <3>1, <3>2
  <2>4. CASE \E c \in Clients : ExecuteRebrief(c)
    BY <2>3, <2>4 DEF ExecuteRebrief, PhaseStep
  <2> QED
    BY <1>3, <2>1, <2>2, <2>4 DEF RecoveryStep
<1>5. CASE RepositoryChanges \/ DaemonCrash \/ UNCHANGED vars
  BY <1>5 DEF RepositoryChanges, DaemonCrash, database, vars, PhaseStep
<1> QED
  BY <1>0, <1>2, <1>3, <1>5, RunPhaseStep, ContinuePhaseStep, HandoffPhaseStep DEF Next

----------------------------------------------------------------------------
(***************************************************************************)
(* The packets.                                                            *)
(***************************************************************************)
\* A packet agrees with its checkpoint; a launch is COMPLETED exactly when
\* its acknowledgment is recorded, and a follow-through is about it.
SoundPacket(p) ==
  /\ p.resumable => p.cp.resumable
  /\ p.brief = p.cp.brief
  /\ p.intent # 0 /\ p.cp.intent # 0 => p.intent = p.cp.intent
  /\ p.launch = "COMPLETED" <=> p.ack # "NONE"
  /\ p.follow # "NONE" => p.launch = "COMPLETED" /\ p.followAttempt = p.attempt

PacketsAreSound == \A id \in DOMAIN packets : SoundPacket(packets[id])

\* One packet is replaced by a sound one.
LEMMA SoundUpdate ==
  ASSUME packets \in Seq(Packets), PacketsAreSound, NEW id \in DOMAIN packets,
         NEW x \in Packets, SoundPacket(x), packets' = [packets EXCEPT ![id] = x]
  PROVE  PacketsAreSound'
<1>1. /\ DOMAIN packets' = DOMAIN packets /\ packets'[id] = x
      /\ \A i \in DOMAIN packets : i # id => packets'[i] = packets[i]
  BY PacketUpdate
<1>2. \A i \in DOMAIN packets' : SoundPacket(packets'[i])
  BY <1>1 DEF PacketsAreSound
<1> QED
  BY <1>2 DEF PacketsAreSound, SoundPacket

\* Every step of a handoff.
LEMMA HandoffsKeepPacketsSound ==
  ASSUME TaskInv, PacketsAreSound, HandoffStep
  PROVE  PacketsAreSound'
<1>0. /\ TypeOK /\ packets \in Seq(Packets)
      /\ \A id \in DOMAIN packets : packets[id] \in Packets /\ SoundPacket(packets[id])
  BY DEF TaskInv, TypeOK, PacketsAreSound
<1>1. ASSUME packets' = packets
      PROVE  PacketsAreSound'
  BY <1>1 DEF PacketsAreSound
<1>2. ASSUME NEW c \in Clients,
             (\E req \in HandoffReqs : AssessHandoff(c, req)) \/ CreateHandoffNothing(c)
      PROVE  packets' = packets
  BY <1>2 DEF AssessHandoff, CreateHandoffNothing, database
<1>3. ASSUME NEW c \in Clients, CreateHandoff(c)
      PROVE  PacketsAreSound'
  <2> DEFINE p == pending[c]
             new == NewCheckpoint(caps, p.run, TRUE, NoIssue)
             x == [status |-> "CREATED", req |-> p.req, brief |-> caps.brief,
                   intent |-> caps.intent, phase |-> caps.phase, ver |-> caps.ver,
                   run |-> p.run, runStatus |-> p.runStatus, cp |-> cp',
                   resumable |-> cp'.resumable, launch |-> "NONE", attempt |-> 0,
                   ack |-> "NONE", follow |-> "NONE", followAttempt |-> 0,
                   resolved |-> FALSE]
  <2>1. new.brief = caps.brief /\ new.intent = caps.intent
    BY DEF NewCheckpoint, Checkpoint
  <2>2. cp' = new \/ (cp' = cp /\ ValidHandoffCheckpoint(caps, cp))
    BY <1>3 DEF CreateHandoff
  <2>3. /\ cp'.brief = caps.brief
        /\ caps.intent # 0 /\ cp'.intent # 0 => caps.intent = cp'.intent
    <3> HIDE DEF new
    <3> QED BY <2>1, <2>2 DEF ValidHandoffCheckpoint
  <2>4. packets' = Append(packets, x)
    BY <1>3 DEF CreateHandoff
  <2> HIDE DEF p
  <2>5. SoundPacket(x)
    BY <2>3 DEF SoundPacket
  <2> HIDE DEF x
  <2>6. /\ DOMAIN packets' = DOMAIN packets \cup {Len(packets) + 1}
        /\ packets'[Len(packets) + 1] = x
        /\ \A i \in DOMAIN packets : packets'[i] = packets[i]
    BY <1>0, <2>4
  <2>7. \A i \in DOMAIN packets' : SoundPacket(packets'[i])
    BY <1>0, <2>5, <2>6
  <2> QED
    BY <2>7 DEF PacketsAreSound, SoundPacket
<1>4. ASSUME NEW id \in DOMAIN packets, AcceptHandoff(id)
      PROVE  PacketsAreSound'
  <2> DEFINE r == packets[id]
             x == [r EXCEPT !.status = "ACCEPTED"]
  <2>1. packets' = [packets EXCEPT ![id] = x] /\ r \in Packets /\ SoundPacket(r)
    BY <1>0, <1>4 DEF AcceptHandoff
  <2> HIDE DEF r
  <2>2. x \in Packets /\ SoundPacket(x)
    BY <2>1 DEF Packets, SoundPacket
  <2> HIDE DEF x
  <2> QED
    BY <1>0, <2>1, <2>2, SoundUpdate
<1>5. ASSUME NEW id \in DOMAIN packets, PrepareHandoffLaunch(id)
      PROVE  PacketsAreSound'
  <2> DEFINE r == packets[id]
             n == r.attempt + 1
             x == [r EXCEPT !.launch = "REQUESTED", !.attempt = n]
  <2>1. /\ packets' = [packets EXCEPT ![id] = x] /\ r \in Packets /\ SoundPacket(r)
        /\ r.launch \in {"NONE", "FAILED"}
    BY <1>0, <1>5 DEF PrepareHandoffLaunch, LaunchRetryable
  <2> HIDE DEF r
  <2>2. n \in Nat
    BY <2>1 DEF Packets
  <2> HIDE DEF n
  <2>3. x \in Packets /\ SoundPacket(x)
    BY <2>1, <2>2 DEF Packets, LaunchStatuses, SoundPacket
  <2> HIDE DEF x
  <2> QED
    BY <1>0, <2>1, <2>3, SoundUpdate
<1>6. ASSUME NEW l \in launches, FinalizeHandoffLaunch(l)
      PROVE  PacketsAreSound'
  <2> DEFINE id == l.packet
             r == packets[id]
  <2>1. /\ id \in DOMAIN packets /\ r \in Packets /\ SoundPacket(r)
        /\ r.launch = "REQUESTED"
    BY <1>0 DEF TaskInv, LaunchersAwaited
  <2>2. CASE packets' = [packets EXCEPT ![l.packet].launch = "FAILED"]
    <3> DEFINE x == [r EXCEPT !.launch = "FAILED"]
    <3>1. packets' = [packets EXCEPT ![id] = x]
      BY <2>2
    <3> HIDE DEF r
    <3>2. x \in Packets /\ SoundPacket(x)
      BY <2>1 DEF Packets, LaunchStatuses, SoundPacket
    <3> HIDE DEF x, id
    <3> QED
      BY <1>0, <2>1, <3>1, <3>2, SoundUpdate
  <2>3. ASSUME NEW ack \in {"CAPTURED", "UNAVAILABLE"},
               packets' = [packets EXCEPT ![l.packet].launch = "COMPLETED",
                                          ![l.packet].ack = ack]
        PROVE  PacketsAreSound'
    <3> DEFINE x == [r EXCEPT !.launch = "COMPLETED", !.ack = ack]
    <3>1. packets' = [packets EXCEPT ![id] = x]
      BY <1>0, <2>1, <2>3
    <3> HIDE DEF r
    <3>2. x \in Packets /\ SoundPacket(x)
      BY <2>1 DEF Packets, LaunchStatuses, SoundPacket
    <3> HIDE DEF x, id
    <3> QED
      BY <1>0, <2>1, <3>1, <3>2, SoundUpdate
  <2> QED
    BY <1>6, <2>2, <2>3 DEF FinalizeHandoffLaunch
<1>7. ASSUME NEW kind \in FollowKinds, RecordHandoffFollowThrough(kind)
      PROVE  PacketsAreSound'
  <2> DEFINE id == ActiveHandoff(db)
             r == packets[id]
             x == [r EXCEPT !.follow = kind, !.followAttempt = r.attempt]
  <2>1. id \in DOMAIN packets
    BY <1>0, <1>7, ActiveHandoffType DEF RecordHandoffFollowThrough, assessHandoffContinuity
  <2>2. packets' = [packets EXCEPT ![id] = x]
    BY <1>0, <1>7, <2>1 DEF RecordHandoffFollowThrough
  <2>3. db.packets = packets
    BY DEF db
  <2>4. assessHandoffContinuity(db, id) \in {"LAUNCH_COMPLETED", "FOLLOW_THROUGH"}
    BY <1>7 DEF RecordHandoffFollowThrough
  <2> HIDE DEF id
  <2>5. r \in Packets /\ SoundPacket(r)
    BY <1>0, <2>1
  <2>6. r.launch = "COMPLETED"
    BY <2>3, <2>4, <2>5 DEF assessHandoffContinuity, Packets, LaunchStatuses
  <2> HIDE DEF r
  <2>7. x \in Packets /\ SoundPacket(x)
    BY <2>5, <2>6 DEF Packets, SoundPacket
  <2> HIDE DEF x
  <2> QED
    BY <1>0, <2>1, <2>2, <2>7, SoundUpdate
<1>8. ASSUME RecordHandoffResolution
      PROVE  PacketsAreSound'
  <2> DEFINE id == ActiveHandoff(db)
             r == packets[id]
             x == [r EXCEPT !.resolved = TRUE]
  <2>1. id \in DOMAIN packets
    BY <1>0, <1>8, ActiveHandoffType DEF RecordHandoffResolution, assessHandoffContinuity
  <2>2. packets' = [packets EXCEPT ![id] = x]
    BY <1>8 DEF RecordHandoffResolution
  <2> HIDE DEF id
  <2>3. r \in Packets /\ SoundPacket(r)
    BY <1>0, <2>1
  <2> HIDE DEF r
  <2>4. x \in Packets /\ SoundPacket(x)
    BY <2>3 DEF Packets, SoundPacket
  <2> HIDE DEF x
  <2> QED
    BY <1>0, <2>1, <2>2, <2>4, SoundUpdate
<1> QED
  BY <1>1, <1>2, <1>3, <1>4, <1>5, <1>6, <1>7, <1>8 DEF HandoffStep

----------------------------------------------------------------------------
(***************************************************************************)
(* What validation can find.                                               *)
(***************************************************************************)
ExecutingRuns == caps.phase = "EXECUTING" => LatestIsRunning(db)

\* The inductive invariant.
ConsistencyInv == LocalInv /\ ExecutingRuns /\ PacketsAreSound

LEMMA ConsistencyInvariance == Spec => []ConsistencyInv
<1>1. Init => ConsistencyInv
  <2> SUFFICES ASSUME Init PROVE ConsistencyInv
    OBVIOUS
  <2>1. TaskInv
    BY InitEstablishesInvariant
  <2>2. cp.resumable = FALSE /\ caps.phase = "INTAKE" /\ packets = <<>>
        /\ \A c \in Clients : pending[c].op = "idle"
    BY DEF Init, StartTask, Checkpoint, Idle
  <2>3. SoundCheckpoint(cp) /\ PhasesAreCurrent
    BY <2>2 DEF SoundCheckpoint, PhasesAreCurrent
  <2>4. ExecutingRuns /\ PacketsAreSound
    BY <2>2 DEF ExecutingRuns, PacketsAreSound
  <2> QED
    BY <2>1, <2>3, <2>4 DEF ConsistencyInv, LocalInv
<1>2. ConsistencyInv /\ [Next]_vars => ConsistencyInv'
  <2> SUFFICES ASSUME ConsistencyInv, [Next]_vars PROVE ConsistencyInv'
    OBVIOUS
  <2>1. LocalInv' /\ PhaseStep
    BY StepKeepsLocalInv, EveryPhaseStep DEF ConsistencyInv, LocalInv
  <2>2. ExecutingRuns'
    <3>1. runs' = runs => (LatestIsRunning(db)' <=> LatestIsRunning(db))
      BY DEF LatestIsRunning, LatestStatus, HasRun, db
    <3> QED
      BY <2>1, <3>1 DEF PhaseStep, ConsistencyInv, ExecutingRuns
  <2>3. PacketsAreSound'
    <3>1. CASE HandoffStep
      BY <3>1, HandoffsKeepPacketsSound DEF ConsistencyInv, LocalInv
    <3>2. CASE ~HandoffStep
      <4>1. packets' = packets
        BY <3>2, OthersKeepHandoffs
        DEF Next, RepositoryChanges, DaemonCrash, database, vars
      <4> QED
        BY <4>1 DEF ConsistencyInv, PacketsAreSound
    <3> QED
      BY <3>1, <3>2
  <2> QED
    BY <2>1, <2>2, <2>3 DEF ConsistencyInv
<1> QED
  BY <1>1, <1>2, PTL DEF Spec

\* The code's own continuity validation (validateContinuitySnapshot) never
\* meets a state it calls corrupt, whatever operations and crashes came
\* before, except a task without a brief and a task that was moved under a
\* RUNNING run.
THEOREM OperationsKeepContinuity == Spec => []OnlyOpenRunsAreInconsistent
<1>1. ConsistencyInv => OnlyOpenRunsAreInconsistent
  <2> SUFFICES ASSUME ConsistencyInv, NEW i \in validateContinuitySnapshot(db), i.at # 1
               PROVE  LatestIsRunning(db) /\ i.at \in {3, 4, 5}
    BY DEF OnlyOpenRunsAreInconsistent
  <2>0. /\ db.caps = caps /\ db.runs = runs /\ db.cp = cp /\ db.packets = packets
        /\ \A at, word, a, b : Issue(at, word, a, b).at = at
    BY DEF db, Issue
  <2>1. i \notin When(caps.brief = 0, Issue(1, "", 0, 0))
    <3>1. Issue(1, "", 0, 0).at = 1
      BY <2>0
    <3> QED
      BY <3>1 DEF When
  <2>2. i \notin validateCheckpointContinuity(db)
    BY <2>0 DEF validateCheckpointContinuity, When, ConsistencyInv, LocalInv,
                SoundCheckpoint, Undecided
  <2>3. CASE HasRun(db) /\ i \in validateRunContinuity(db)
    <3>1. CASE LatestIsRunning(db)
      <4> DEFINE id == LatestRunID(db)
      <4>1. db.runs[id].status = "RUNNING"
        BY <2>3, <3>1 DEF LatestIsRunning, LatestStatus, LatestRunID
      <4>2. i \in When(db.caps.phase # "EXECUTING", Issue(3, db.caps.phase, id, 0))
                 \cup When(db.caps.brief # 0 /\ db.caps.brief # db.runs[id].brief,
                           Issue(4, "", db.runs[id].brief, db.caps.brief))
                 \cup When(db.cp.id # 0 /\ db.cp.run # id, Issue(5, "", id, db.cp.run))
        BY <2>3, <4>1 DEF validateRunContinuity
      <4> HIDE DEF id
      <4>3. \/ i = Issue(3, db.caps.phase, id, 0)
            \/ i = Issue(4, "", db.runs[id].brief, db.caps.brief)
            \/ i = Issue(5, "", id, db.cp.run)
        BY <4>2 DEF When
      <4>4. /\ Issue(3, db.caps.phase, id, 0).at = 3
            /\ Issue(4, "", db.runs[id].brief, db.caps.brief).at = 4
            /\ Issue(5, "", id, db.cp.run).at = 5
        BY DEF Issue
      <4>5. i.at \in {3, 4, 5}
        BY <4>3, <4>4, Zenon
      <4> QED
        BY <3>1, <4>5
    <3>2. CASE ~LatestIsRunning(db)
      <4>1. runs[Len(runs)].status # "RUNNING" /\ caps.phase # "EXECUTING"
        BY <2>0, <2>3, <3>2
        DEF LatestIsRunning, LatestStatus, ConsistencyInv, ExecutingRuns
      <4>2. FALSE
        BY <2>0, <2>3, <4>1, Zenon DEF validateRunContinuity, LatestRunID, When
      <4> QED
        BY <4>2
    <3> QED
      BY <3>1, <3>2
  <2>4. ASSUME ~HasRun(db)
        PROVE  i \notin When(db.caps.phase = "EXECUTING", Issue(6, "NONE", 0, 0))
    <3>1. ~LatestIsRunning(db)
      BY <2>4 DEF LatestIsRunning, LatestStatus
    <3>2. caps.phase # "EXECUTING"
      BY <3>1 DEF ConsistencyInv, ExecutingRuns
    <3> QED
      BY <2>0, <3>2 DEF When
  <2>5. ASSUME packets # <<>>
        PROVE  i \notin validateHandoffContinuity(db)
    <3> DEFINE id == Len(packets)
               p == packets[id]
    <3>1. p \in Packets /\ SoundPacket(p)
      <4>1. packets \in Seq(Packets)
        BY DEF ConsistencyInv, LocalInv, TaskInv, TypeOK
      <4>2. id \in DOMAIN packets
        BY <2>5, <4>1
      <4> QED
        BY <4>1, <4>2 DEF ConsistencyInv, PacketsAreSound
    <3> HIDE DEF p
    <3>2. /\ ~(p.resumable /\ ~p.cp.resumable) /\ ~(p.brief # p.cp.brief)
          /\ ~(p.intent # 0 /\ p.cp.intent # 0 /\ p.intent # p.cp.intent)
          /\ ~(p.launch = "COMPLETED" /\ p.ack = "NONE")
          /\ ~(p.launch = "FAILED" /\ p.ack # "NONE")
          /\ ~(p.follow # "NONE" /\ p.launch # "COMPLETED")
          /\ ~(p.follow # "NONE" /\ p.followAttempt # p.attempt)
      BY <3>1 DEF SoundPacket
    <3>3. validateHandoffContinuity(db) = {}
      BY <2>0, <3>2 DEF validateHandoffContinuity, When, p
    <3> QED
      BY <3>3
  <2> QED
    BY <2>0, <2>1, <2>2, <2>3, <2>4, <2>5 DEF validateContinuitySnapshot
<1> QED
  BY <1>1, ConsistencyInvariance, PTL

----------------------------------------------------------------------------
(***************************************************************************)
(* ContinueTask with nobody in between.                                    *)
(***************************************************************************)
\* What a recorded outcome leaves in the capsule and its checkpoint.
RecordedAs(e, d, anchor, ph, run, resumable, reason) ==
  /\ e \in Snapshots /\ e.runs = d.runs /\ e.packets = d.packets
  /\ e.caps.phase = ph /\ e.caps.brief = d.caps.brief
  /\ e.cp.id # 0 /\ e.cp.resumable = resumable /\ e.cp.reason = reason
  /\ e.cp.phase = e.caps.phase /\ e.cp.brief = e.caps.brief
  /\ e.cp.intent = e.caps.intent /\ e.cp.ver = e.caps.ver
  /\ e.cp.anchor = anchor /\ e.cp.run = run

\* Every outcome that ends no run is recorded so.
LEMMA RecordedFields ==
  ASSUME NEW d \in Snapshots, NEW anchor \in Anchors, NEW ph \in Phases, NEW run \in Nat,
         NEW resumable \in BOOLEAN, NEW reason \in Issues,
         NEW k, k = [d.caps EXCEPT !.anchor = anchor]
  PROVE  RecordedAs(Recorded(d, Bumped(k, ph), run, resumable, reason),
                    d, anchor, ph, run, resumable, reason)
<1> DEFINE n  == Bumped(k, ph)
           id == d.cp.id + 1
           x  == Checkpoint(id, n, run, resumable, reason)
           e  == [d EXCEPT !.caps = n, !.cp = x]
<1>1. d.caps \in Capsules /\ d.cp \in Checkpoints
  BY DEF Snapshots
<1>2. k \in Capsules /\ k.anchor = anchor /\ k.brief = d.caps.brief
  BY <1>1 DEF Capsules
<1>3. id \in Nat /\ id # 0
  BY <1>1 DEF Checkpoints
<1>4. n \in Capsules /\ n.phase = ph /\ n.anchor = anchor /\ n.brief = d.caps.brief
  <2>1. n \in Capsules
    BY <1>2, BumpedType
  <2>2. n.phase = ph /\ n.anchor = k.anchor /\ n.brief = k.brief
    BY <1>2 DEF Bumped, Capsules
  <2> QED
    BY <1>2, <2>1, <2>2
<1> HIDE DEF n, id
<1>5. /\ x \in Checkpoints
      /\ x.id = id /\ x.resumable = resumable /\ x.reason = reason /\ x.run = run
      /\ x.phase = n.phase /\ x.brief = n.brief /\ x.intent = n.intent
      /\ x.ver = n.ver /\ x.anchor = n.anchor
  <2>1. x \in Checkpoints
    BY <1>3, <1>4, CheckpointType
  <2> QED
    BY <2>1 DEF Checkpoint
<1> HIDE DEF x
<1>6. /\ e \in Snapshots /\ e.caps = n /\ e.cp = x /\ e.runs = d.runs /\ e.packets = d.packets
  BY <1>4, <1>5 DEF Snapshots
<1>7. e = Recorded(d, Bumped(k, ph), run, resumable, reason)
  BY DEF Recorded, x, n, id
<1> HIDE DEF e
<1>8. RecordedAs(e, d, anchor, ph, run, resumable, reason)
  BY <1>3, <1>4, <1>5, <1>6 DEF RecordedAs
<1> QED
  BY <1>7, <1>8

\* Validation reads of the packets what it reads of the same packets later.
LEMMA HandoffIssuesSame ==
  ASSUME NEW d, NEW e, e.packets = d.packets
  PROVE  validateHandoffContinuity(e) = validateHandoffContinuity(d)
  BY DEF validateHandoffContinuity

\* A task that was consistent and at rest is so after an outcome is recorded
\* that is not resumable in a phase that waits.
LEMMA StaysConsistent ==
  ASSUME NEW d, NEW e, validateContinuitySnapshot(d) = {},
         e.packets = d.packets, e.caps.brief = d.caps.brief,
         e.cp.resumable => e.cp.phase \notin {"AWAITING_DECISION", "BLOCKED"},
         e.caps.phase # "EXECUTING", ~LatestIsRunning(e)
  PROVE  validateContinuitySnapshot(e) = {}
<1>1. /\ d.caps.brief # 0
      /\ d.packets # <<>> => validateHandoffContinuity(d) = {}
  BY DEF validateContinuitySnapshot, When
<1>2. validateCheckpointContinuity(e) = {}
  BY DEF validateCheckpointContinuity, When
<1>3. HasRun(e) => validateRunContinuity(e) = {}
  BY DEF validateRunContinuity, When, LatestIsRunning, LatestStatus, LatestRunID
<1>4. e.packets # <<>> => validateHandoffContinuity(e) = {}
  BY <1>1, HandoffIssuesSame
<1> QED
  BY <1>1, <1>2, <1>3, <1>4 DEF validateContinuitySnapshot, When

\* A checkpoint that was just taken shows no drift.
LEMMA NoDrift ==
  ASSUME NEW e, NEW anchor, e.cp.id # 0, e.cp.anchor = anchor
  PROVE  classifyAnchorDrift(Baseline(e), anchor) = "NONE"
  BY DEF classifyAnchorDrift, Baseline

\* Once the task is BLOCKED, blocking it again changes nothing validation reads.
LEMMA BlockedIssuesSame ==
  ASSUME NEW d, NEW e, e.packets = d.packets, e.runs = d.runs,
         e.caps.brief = d.caps.brief,
         d.caps.phase = "BLOCKED", e.caps.phase = "BLOCKED",
         ~d.cp.resumable, ~e.cp.resumable, d.cp.run = 0, e.cp.run = 0,
         d.cp.id # 0, e.cp.id # 0
  PROVE  validateContinuitySnapshot(e) = validateContinuitySnapshot(d)
<1>1. validateCheckpointContinuity(e) = {} /\ validateCheckpointContinuity(d) = {}
  BY DEF validateCheckpointContinuity, When
<1>2. HasRun(e) = HasRun(d)
  BY DEF HasRun
<1>3. validateRunContinuity(e) = validateRunContinuity(d)
  BY DEF validateRunContinuity, When, LatestRunID
<1>4. validateHandoffContinuity(e) = validateHandoffContinuity(d)
  BY HandoffIssuesSame
<1> QED
  BY <1>1, <1>2, <1>3, <1>4 DEF validateContinuitySnapshot

\* A RUNNING run in a BLOCKED task is an issue.
LEMMA BlockedUnderRun ==
  ASSUME NEW d, LatestIsRunning(d), d.caps.phase = "BLOCKED"
  PROVE  validateContinuitySnapshot(d) # {}
<1>1. HasRun(d) /\ d.runs[LatestRunID(d)].status = "RUNNING"
  BY DEF LatestIsRunning, LatestStatus, LatestRunID
<1>2. validateRunContinuity(d) # {}
  BY <1>1 DEF validateRunContinuity, When
<1> QED
  BY <1>1, <1>2 DEF validateContinuitySnapshot

\* Only a task whose brief is ready is ready for a run.
LEMMA ReadyClass ==
  ASSUME NEW d, NEW anchor, RecoveryClass(d, anchor) = "READY_NEXT_RUN"
  PROVE  ContinueOutcome(d, anchor) = "Safe" /\ d.caps.phase = "BRIEF_READY"
<1>1. BaseClass(d, anchor) = "READY_NEXT_RUN"
  BY ProgressionKeepsReady DEF RecoveryClass
<1>2. ContinueOutcome(d, anchor) \in
        {"BlockedInconsistent", "StaleReconciled", "BlockedDrift", "NeedsDecision", "Safe"}
  BY DEF ContinueOutcome
<1>3. ContinueOutcome(d, anchor) = "Safe" /\ SafeClass(d) = "READY_NEXT_RUN"
  BY <1>1, <1>2 DEF BaseClass
<1>4. \A id : HandoffClass(d, id) # "READY_NEXT_RUN"
  BY DEF HandoffClass
<1>5. LocalClass(d) = "READY_NEXT_RUN" => d.caps.phase = "BRIEF_READY"
  BY DEF LocalClass, InterruptedClass
<1> QED
  BY <1>3, <1>4, <1>5 DEF SafeClass

\* An uninterrupted continue records what it found out.
LEMMA ContinueRecords ==
  ASSUME NEW d \in Snapshots, NEW anchor \in Anchors, ContinueMutates(d, anchor),
         NEW k, k = [d.caps EXCEPT !.anchor = anchor],
         NEW outcome, outcome = ContinueOutcome(d, anchor)
  PROVE  /\ outcome = "StaleReconciled" =>
              ContinueTask(d, anchor) = reconcileStaleRun(d, k, Len(d.runs))
         /\ outcome \in {"BlockedDrift", "NeedsDecision"} =>
              ContinueTask(d, anchor) = awaitDecisionOnContinue(d, k)
         /\ outcome = "BlockedInconsistent" =>
              ContinueTask(d, anchor) = blockedContinueByInconsistency(d, k, ContinueReason(d))
         /\ outcome = "Safe" =>
              ContinueTask(d, anchor) = safeContinue(d, k, Len(d.runs))
<1> DEFINE p == ContinueAssessment(d, anchor)
           ver == d.caps.ver
           run == Len(d.runs)
           reason == ContinueReason(d)
<1>1. ver \in Nat /\ run \in Nat
  BY DEF Snapshots, Capsules
<1>2. reason \in Issues
  BY ValidationType, FirstIssueType DEF ContinueReason
<1>3. outcome \in Outcomes
  BY DEF ContinueOutcome, Outcomes
<1>4. p = [Idle EXCEPT !.op = "continue", !.ver = ver, !.anchor = anchor,
                       !.outcome = outcome, !.reason = reason, !.run = run]
  BY DEF ContinueAssessment, LatestRunID
<1> HIDE DEF p, reason
<1>5. /\ p.ver = ver /\ p.anchor = anchor /\ p.outcome = outcome /\ p.reason = reason
      /\ p.run = run
  BY <1>1, <1>2, <1>3, <1>4, IdleType DEF Requests
<1>6. ContinueTask(d, anchor) = finalizeContinue(d, p)
  BY DEF ContinueTask, p
<1>7. outcome = "StaleReconciled" => d.runs[run].status = "RUNNING"
  BY DEF ContinueOutcome, LatestIsRunning, LatestStatus
<1> QED
  BY <1>5, <1>6, <1>7 DEF finalizeContinue, reason

\* What that leaves in the task.
LEMMA RecordedOutcomes ==
  ASSUME NEW d \in Snapshots, NEW anchor \in Anchors, ContinueMutates(d, anchor),
         NEW outcome, outcome = ContinueOutcome(d, anchor),
         NEW e, e = ContinueTask(d, anchor)
  PROVE  /\ outcome = "Safe" =>
              RecordedAs(e, d, anchor, d.caps.phase, Len(d.runs), TRUE, NoIssue)
         /\ outcome \in {"BlockedDrift", "NeedsDecision"} =>
              RecordedAs(e, d, anchor, "AWAITING_DECISION", 0, FALSE, NoIssue)
         /\ outcome = "BlockedInconsistent" =>
              RecordedAs(e, d, anchor, "BLOCKED", 0, FALSE, ContinueReason(d))
<1> DEFINE k == [d.caps EXCEPT !.anchor = anchor]
           run == Len(d.runs)
<1>1. /\ d.caps \in Capsules /\ run \in Nat /\ NoIssue \in Issues
      /\ ContinueReason(d) \in Issues
      /\ "BLOCKED" \in Phases /\ "AWAITING_DECISION" \in Phases
      /\ d.caps.phase \in Phases /\ k.phase = d.caps.phase
  BY ValidationType, FirstIssueType, IdleType, PhaseNames
  DEF ContinueReason, Snapshots, Capsules
<1> HIDE DEF k, run
<1>2. CASE outcome = "Safe"
  <2>1. e = Recorded(d, Bumped(k, d.caps.phase), run, TRUE, NoIssue)
    BY <1>1, <1>2, ContinueRecords DEF safeContinue, k, run
  <2> QED
    BY <1>1, <1>2, <2>1, RecordedFields DEF k, run
<1>3. CASE outcome \in {"BlockedDrift", "NeedsDecision"}
  <2>1. e = Recorded(d, Bumped(k, "AWAITING_DECISION"), 0, FALSE, NoIssue)
    BY <1>3, ContinueRecords DEF awaitDecisionOnContinue, k
  <2> QED
    BY <1>1, <1>3, <2>1, RecordedFields DEF k
<1>4. CASE outcome = "BlockedInconsistent"
  <2>1. e = Recorded(d, Bumped(k, "BLOCKED"), 0, FALSE, ContinueReason(d))
    BY <1>4, ContinueRecords DEF blockedContinueByInconsistency, k
  <2> QED
    BY <1>1, <1>4, <2>1, RecordedFields DEF k
<1> QED
  BY <1>2, <1>3, <1>4

\* The reconciliation of a stale run leaves the task PAUSED behind it.
LEMMA Reconciled ==
  ASSUME NEW d \in Snapshots, NEW anchor \in Anchors, ContinueMutates(d, anchor),
         ContinueOutcome(d, anchor) = "StaleReconciled",
         NEW e, e = ContinueTask(d, anchor)
  PROVE  /\ e.packets = d.packets /\ e.caps.phase = "PAUSED" /\ e.caps.brief = d.caps.brief
         /\ e.cp.id # 0 /\ e.cp.phase = "PAUSED" /\ e.cp.anchor = anchor
         /\ ~LatestIsRunning(e)
<1> DEFINE k == [d.caps EXCEPT !.anchor = anchor]
           run == Len(d.runs)
           r == Recorded(d, Bumped(k, "PAUSED"), run, TRUE, NoIssue)
           ended == [d.runs EXCEPT ![run].status = "INTERRUPTED"]
<1>1. e = [r EXCEPT !.runs = ended]
  BY ContinueRecords DEF reconcileStaleRun
<1>2. /\ d.runs \in Seq(Runs) /\ run \in Nat /\ NoIssue \in Issues /\ "PAUSED" \in Phases
      /\ d.runs # <<>>
  BY IdleType, PhaseNames DEF Snapshots, ContinueOutcome, LatestIsRunning, LatestStatus, HasRun
<1>3. RecordedAs(r, d, anchor, "PAUSED", run, TRUE, NoIssue)
  BY <1>2, RecordedFields
<1>4. Len(ended) = run /\ ended[run].status = "INTERRUPTED" /\ ended # <<>>
  <2>1. run \in DOMAIN d.runs /\ d.runs[run] \in Runs
    BY <1>2
  <2> DEFINE old == d.runs[run]
             x == [old EXCEPT !.status = "INTERRUPTED"]
  <2>2. ended = [d.runs EXCEPT ![run] = x]
    OBVIOUS
  <2> HIDE DEF old
  <2>3. x \in Runs /\ x.status = "INTERRUPTED"
    BY <2>1 DEF Runs, RunStatuses, old
  <2> HIDE DEF x, ended
  <2>4. Len(ended) = Len(d.runs) /\ ended[run] = x
    BY <1>2, <2>1, <2>2, <2>3
  <2> QED
    BY <1>2, <2>1, <2>3, <2>4
<1> HIDE DEF r, ended
<1>5. /\ e.caps = r.caps /\ e.cp = r.cp /\ e.packets = r.packets /\ e.runs = ended
  BY <1>1, <1>3 DEF RecordedAs, Snapshots
<1> QED
  BY <1>3, <1>4, <1>5 DEF RecordedAs, LatestIsRunning, LatestStatus, HasRun, run

\* After any outcome but an inconsistency there is nothing left to record.
LEMMA SettlesAtOnce ==
  ASSUME NEW d \in Snapshots, NEW anchor \in Anchors, ContinueMutates(d, anchor),
         ContinueOutcome(d, anchor) # "BlockedInconsistent",
         NEW e, e = ContinueTask(d, anchor)
  PROVE  ~ContinueMutates(e, anchor)
<1> DEFINE outcome == ContinueOutcome(d, anchor)
<1>1. /\ validateContinuitySnapshot(d) = {}
      /\ outcome \in {"StaleReconciled", "BlockedDrift", "NeedsDecision", "Safe"}
      /\ outcome # "StaleReconciled" => ~LatestIsRunning(d)
  BY DEF ContinueOutcome
<1>2. CASE outcome = "StaleReconciled"
  <2>1. /\ e.packets = d.packets /\ e.caps.phase = "PAUSED" /\ e.caps.brief = d.caps.brief
        /\ e.cp.id # 0 /\ e.cp.phase = "PAUSED" /\ e.cp.anchor = anchor
        /\ ~LatestIsRunning(e)
    BY <1>2, Reconciled
  <2>2. validateContinuitySnapshot(e) = {}
    BY <1>1, <2>1, StaysConsistent
  <2>3. classifyAnchorDrift(Baseline(e), anchor) = "NONE"
    BY <2>1, NoDrift
  <2>4. ContinueOutcome(e, anchor) = "Safe"
    BY <2>1, <2>2, <2>3 DEF ContinueOutcome
  <2>5. RecoveryClass(e, anchor) # "READY_NEXT_RUN"
    BY <2>1, ReadyClass
  <2> QED
    BY <2>4, <2>5 DEF ContinueMutates
<1>3. CASE outcome \in {"BlockedDrift", "NeedsDecision"}
  <2>1. RecordedAs(e, d, anchor, "AWAITING_DECISION", 0, FALSE, NoIssue)
    BY <1>3, RecordedOutcomes
  <2>2. ~LatestIsRunning(e)
    BY <1>1, <1>3, <2>1 DEF RecordedAs, LatestIsRunning, LatestStatus, HasRun
  <2>3. validateContinuitySnapshot(e) = {}
    BY <1>1, <2>1, <2>2, StaysConsistent DEF RecordedAs
  <2>4. classifyAnchorDrift(Baseline(e), anchor) = "NONE"
    BY <2>1, NoDrift DEF RecordedAs
  <2>5. ContinueOutcome(e, anchor) = "NeedsDecision"
    BY <2>1, <2>2, <2>3, <2>4 DEF ContinueOutcome, RecordedAs
  <2>6. canReuseDecisionCheckpoint(e, anchor)
    BY <2>1 DEF canReuseDecisionCheckpoint, RecordedAs
  <2> QED
    BY <2>5, <2>6 DEF ContinueMutates, RequiresMutation
<1>4. CASE outcome = "Safe"
  <2>1. RecordedAs(e, d, anchor, d.caps.phase, Len(d.runs), TRUE, NoIssue)
    BY <1>4, RecordedOutcomes
  <2>2. d.caps.phase = "BRIEF_READY"
    BY <1>4, ReadyClass DEF ContinueMutates
  <2>3. ~LatestIsRunning(e)
    BY <1>1, <1>4, <2>1 DEF RecordedAs, LatestIsRunning, LatestStatus, HasRun
  <2>4. validateContinuitySnapshot(e) = {}
    BY <1>1, <2>1, <2>2, <2>3, StaysConsistent DEF RecordedAs
  <2>5. classifyAnchorDrift(Baseline(e), anchor) = "NONE"
    BY <2>1, NoDrift DEF RecordedAs
  <2>6. ContinueOutcome(e, anchor) = "Safe"
    BY <2>1, <2>2, <2>3, <2>4, <2>5 DEF ContinueOutcome, RecordedAs
  <2>7. canReuseSafeCheckpoint(e, anchor)
    BY <2>1 DEF canReuseSafeCheckpoint, RecordedAs, LatestRunID
  <2> QED
    BY <2>6, <2>7 DEF ContinueMutates, RequiresMutation
<1> QED
  BY <1>1, <1>2, <1>3, <1>4

\* After an inconsistency one more continue is enough: the first one moved
\* the task to BLOCKED, which may itself be the next objection.
LEMMA BlockedSettles ==
  ASSUME NEW d \in Snapshots, NEW anchor \in Anchors, ContinueMutates(d, anchor),
         ContinueOutcome(d, anchor) = "BlockedInconsistent",
         NEW e, e = ContinueTask(d, anchor), ContinueMutates(e, anchor),
         NEW f, f = ContinueTask(e, anchor)
  PROVE  ~ContinueMutates(f, anchor)
<1>0. RecordedAs(e, d, anchor, "BLOCKED", 0, FALSE, ContinueReason(d))
  BY RecordedOutcomes
<1>1. RecordedAs(e, d, anchor, "BLOCKED", 0, FALSE, ContinueReason(d)) /\ e \in Snapshots
  BY <1>0 DEF RecordedAs
<1>2. ContinueOutcome(e, anchor) = "BlockedInconsistent"
  <2> SUFFICES ASSUME validateContinuitySnapshot(e) = {}
               PROVE  FALSE
    BY DEF ContinueOutcome
  <2>1. ~LatestIsRunning(e)
    BY <1>1, BlockedUnderRun DEF RecordedAs
  <2>2. classifyAnchorDrift(Baseline(e), anchor) = "NONE"
    BY <1>1, NoDrift DEF RecordedAs
  <2>3. ContinueOutcome(e, anchor) = "Safe"
    BY <1>1, <2>1, <2>2 DEF ContinueOutcome, RecordedAs
  <2> QED
    BY <1>1, <2>3, ReadyClass DEF ContinueMutates, RecordedAs
<1>3. RecordedAs(f, e, anchor, "BLOCKED", 0, FALSE, ContinueReason(e))
  BY <1>1, <1>2, RecordedOutcomes
<1>4. validateContinuitySnapshot(f) = validateContinuitySnapshot(e)
  BY <1>1, <1>3, BlockedIssuesSame DEF RecordedAs
<1>5. ContinueOutcome(f, anchor) = "BlockedInconsistent"
  BY <1>2, <1>4 DEF ContinueOutcome
<1>6. ContinueReason(f) = ContinueReason(e)
  BY <1>4 DEF ContinueReason
<1>7. canReuseInconsistencyCheckpoint(f, anchor, ContinueReason(f))
  BY <1>3, <1>6 DEF canReuseInconsistencyCheckpoint, RecordedAs
<1> QED
  BY <1>5, <1>7 DEF ContinueMutates, RequiresMutation

\* Two uninterrupted continues leave nothing to record, in every state of the
\* task (ContinueTask, canReuseSafeCheckpoint, canReuseDecisionCheckpoint,
\* canReuseInconsistencyCheckpoint).
THEOREM ContinueReachesAFixedPoint == Spec => []ContinueSettles
<1>1. ASSUME TaskInv
      PROVE  ContinueSettles
  <2> DEFINE e == ContinueTask(db, repo)
             f == ContinueTask(e, repo)
  <2>1. db \in Snapshots /\ repo \in Anchors
    BY <1>1, DatabaseType DEF TaskInv, TypeOK
  <2>2. CASE ~ContinueMutates(e, repo)
    <3>1. f = e
      BY <2>2 DEF ContinueTask
    <3> QED
      BY <2>2, <3>1 DEF ContinueSettles
  <2>3. CASE ContinueMutates(e, repo)
    <3>1. ContinueMutates(db, repo)
      BY <2>3 DEF ContinueTask
    <3> HIDE DEF e
    <3>2. ContinueOutcome(db, repo) = "BlockedInconsistent"
      BY <2>1, <2>3, <3>1, SettlesAtOnce DEF e
    <3>3. ~ContinueMutates(f, repo)
      BY <2>1, <2>3, <3>1, <3>2, BlockedSettles DEF e
    <3> QED
      BY <3>3 DEF ContinueSettles, e
  <2> QED
    BY <2>2, <2>3
<1> QED
  BY <1>1, Invariant, PTL
=============================================================================
