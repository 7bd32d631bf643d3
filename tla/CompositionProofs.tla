------------------------- MODULE CompositionProofs -------------------------
(***************************************************************************)
(* Theorems about the compositions of TaskControl with a client whose      *)
(* steps are longer than a transaction, for any clients, anchors,          *)
(* operations and bounds.                                                  *)
(***************************************************************************)
EXTENDS TornReads, TransitionReceipts, OperatorStep, TaskControlProofs, FiniteSetTheorems

----------------------------------------------------------------------------
(***************************************************************************)
(* TornReads.  TaskControlProofs says what a step of the other operations  *)
(* does to version, runs and checkpoint (Shape, CheckpointStep); so a torn *)
(* snapshot is the local lineage itself as long as its version stands      *)
(* (SnapshotInv), and the assessment made from it is as good as one made   *)
(* in an instant.                                                          *)
(***************************************************************************)
ReadSteps == {"runs", "cp", "packets", "acks", "resolution", "act", "read"}

\* A snapshot being read is behind the database, and as long as its version
\* is not, it has the same capsule and runs, and the same checkpoint unless
\* nothing is RUNNING.
SnapshotInv ==
  reading # "idle" =>
    /\ reading \in ReadSteps
    /\ snap \in Snapshots /\ SoundCheckpoint(snap.cp)
    /\ DOMAIN snap.packets \subseteq DOMAIN packets
    /\ snap.caps.ver <= caps.ver
    /\ snap.caps.ver = caps.ver =>
         /\ snap.caps = caps /\ snap.runs = runs
         /\ snap.cp = cp \/ ~LatestIsRunning(db)

TornInv == LocalInv /\ SnapshotInv

\* After a table that is not the last comes another one.
LEMMA NextStepType ==
  ASSUME reading \in ReadSteps \ {"read"}
  PROVE  NextStep(reading) \in ReadSteps
<1> DEFINE T == TableOrder
           i == CHOOSE j \in DOMAIN T : T[j] = reading
<1>1. DOMAIN T = 1..8
  BY DEF TableOrder
<1>2. \E j \in DOMAIN T : T[j] = reading
  BY DEF TableOrder, ReadSteps
<1>3. i \in DOMAIN T /\ T[i] = reading
  BY <1>2
<1>4. NextStep(reading) = T[i + 1]
  BY DEF NextStep
<1> HIDE DEF i
<1>5. i \in 1..7
  BY <1>1, <1>3 DEF TableOrder, ReadSteps
<1> QED
  BY <1>4, <1>5 DEF TableOrder, ReadSteps

\* The acknowledgments of packets already read make packets of them.
LEMMA WithAcksType ==
  ASSUME TypeOK, NEW old \in Seq(Packets), DOMAIN old \subseteq DOMAIN packets
  PROVE  WithAcks(old) \in Seq(Packets) /\ DOMAIN WithAcks(old) = DOMAIN old
<1>1. ASSUME NEW id \in DOMAIN old
      PROVE  WithAcks(old)[id] \in Packets
  <2> DEFINE r == old[id]
             q == packets[id]
             a == q.ack
             f == q.follow
             n == q.followAttempt
  <2>1. r \in Packets /\ q \in Packets
    BY DEF TypeOK
  <2>2. WithAcks(old)[id] = [r EXCEPT !.ack = a, !.follow = f, !.followAttempt = n]
    BY DEF WithAcks
  <2> HIDE DEF r, q
  <2>3. /\ a \in {"NONE", "CAPTURED", "UNAVAILABLE"} /\ n \in Nat
        /\ f \in {"NONE"} \cup FollowKinds
    BY <2>1 DEF Packets
  <2> HIDE DEF a, f, n
  <2> QED
    BY <2>1, <2>2, <2>3 DEF Packets
<1>2. DOMAIN WithAcks(old) = DOMAIN old /\ DOMAIN old = 1..Len(old) /\ Len(old) \in Nat
  BY DEF WithAcks
<1>3. WithAcks(old) = [id \in 1..Len(old) |-> WithAcks(old)[id]]
  BY <1>2 DEF WithAcks
<1> DEFINE w == WithAcks(old)
<1>4. w = [id \in 1..Len(old) |-> w[id]] /\ \A id \in 1..Len(old) : w[id] \in Packets
  BY <1>1, <1>2, <1>3
<1> HIDE DEF w
<1>5. w \in Seq(Packets)
  BY <1>2, <1>4
<1> QED
  BY <1>2, <1>5 DEF w

\* Reading a table keeps the snapshot what it is.
LEMMA ReadingKeepsSnapshot ==
  ASSUME TornInv, BeginSnapshot \/ ReadTable
  PROVE  SnapshotInv'
<1>0. /\ TypeOK /\ db \in Snapshots /\ SoundCheckpoint(cp)
      /\ caps.ver \in Nat
  BY DatabaseType DEF TornInv, LocalInv, TaskInv, TypeOK, Capsules
<1>1. /\ caps' = caps /\ runs' = runs /\ cp' = cp /\ packets' = packets
      /\ LatestIsRunning(db)' = LatestIsRunning(db)
  BY DEF BeginSnapshot, ReadTable, vars, LatestIsRunning, LatestStatus, HasRun, db
<1>2. CASE BeginSnapshot
  <2>1. reading' = "runs" /\ snap' = db
    BY <1>2 DEF BeginSnapshot
  <2>2. /\ db.caps = caps /\ db.runs = runs /\ db.cp = cp /\ db.packets = packets
    BY DEF db
  <2> QED
    BY <1>0, <1>1, <2>1, <2>2 DEF SnapshotInv, ReadSteps
<1>3. CASE ReadTable
  <2>1. reading \in ReadSteps \ {"read"} /\ reading # "idle" /\ reading' = NextStep(reading)
    BY <1>3 DEF ReadTable, TornInv, SnapshotInv
  <2>2. /\ snap \in Snapshots /\ SoundCheckpoint(snap.cp)
        /\ DOMAIN snap.packets \subseteq DOMAIN packets
        /\ snap.caps.ver <= caps.ver
        /\ snap.caps.ver = caps.ver =>
             /\ snap.caps = caps /\ snap.runs = runs
             /\ snap.cp = cp \/ ~LatestIsRunning(db)
    BY <2>1 DEF TornInv, SnapshotInv
  <2>3. /\ WithAcks(snap.packets) \in Seq(Packets)
        /\ DOMAIN WithAcks(snap.packets) \subseteq DOMAIN packets
    BY <1>0, <2>2, WithAcksType DEF Snapshots
  <2> DEFINE w == WithAcks(snap.packets)
  <2>4. \/ snap' = [snap EXCEPT !.runs = runs]
        \/ snap' = [snap EXCEPT !.cp = cp]
        \/ snap' = [snap EXCEPT !.packets = packets]
        \/ snap' = [snap EXCEPT !.packets = w]
        \/ snap' = [snap EXCEPT !.lastRes = lastRes]
        \/ snap' = [snap EXCEPT !.act = act]
    BY <1>3, <2>1 DEF ReadTable, ReadSteps
  <2> HIDE DEF w
  <2>5. /\ snap' \in Snapshots /\ SoundCheckpoint(snap'.cp)
        /\ DOMAIN snap'.packets \subseteq DOMAIN packets
        /\ snap'.caps = snap.caps /\ snap'.runs \in {snap.runs, runs}
        /\ snap'.cp \in {snap.cp, cp}
    BY <1>0, <2>2, <2>3, <2>4 DEF Snapshots, TypeOK, w
  <2>6. reading' \in ReadSteps
    BY <2>1, NextStepType
  <2> QED
    BY <1>1, <2>2, <2>5, <2>6 DEF SnapshotInv
<1> QED
  BY <1>2, <1>3

\* What the other operations do under a reader: a version that stands is a
\* lineage that stands.
LEMMA OthersKeepSnapshot ==
  ASSUME TornInv, LocalInv', Shape, CheckpointStep, UNCHANGED <<reading, snap>>
  PROVE  SnapshotInv'
<1> SUFFICES ASSUME reading # "idle"
             PROVE  SnapshotInv'
  BY DEF SnapshotInv
<1>1. /\ reading \in ReadSteps /\ snap \in Snapshots /\ SoundCheckpoint(snap.cp)
      /\ DOMAIN snap.packets \subseteq DOMAIN packets
      /\ snap.caps.ver <= caps.ver
      /\ snap.caps.ver = caps.ver =>
           /\ snap.caps = caps /\ snap.runs = runs
           /\ snap.cp = cp \/ ~LatestIsRunning(db)
  BY DEF TornInv, SnapshotInv
<1>2. snap.caps.ver \in Nat /\ caps.ver \in Nat /\ caps'.ver \in Nat
  BY <1>1 DEF Snapshots, TornInv, LocalInv, TaskInv, TypeOK, Capsules
<1>3. DOMAIN snap.packets \subseteq DOMAIN packets'
  BY <1>1 DEF CheckpointStep
<1>4. CASE caps'.ver > caps.ver
  BY <1>1, <1>2, <1>3, <1>4 DEF SnapshotInv
<1>5. CASE caps' = caps /\ runs' = runs
  <2>1. LatestIsRunning(db)' = LatestIsRunning(db)
    BY <1>5 DEF LatestIsRunning, LatestStatus, HasRun, db
  <2>2. cp' = cp \/ ~LatestIsRunning(db)
    BY <1>2, <1>5 DEF CheckpointStep
  <2> QED
    BY <1>1, <1>3, <1>5, <2>1, <2>2 DEF SnapshotInv
<1> QED
  BY <1>4, <1>5 DEF Shape

\* The assessment of what was read is true of the task if its version is
\* the current one, and is left behind if it is not.
LEMMA AssessmentKeepsInv ==
  ASSUME TornInv, AssessSnapshot
  PROVE  TornInv' /\ caps' = caps /\ runs' = runs
<1>0. /\ TypeOK /\ TaskInv /\ pending \in [Clients -> Requests] /\ repo \in Anchors
      /\ Reader \in Clients
  BY ReaderAssumption DEF TornInv, LocalInv, TaskInv, TypeOK
<1>1. /\ caps' = caps /\ runs' = runs /\ cp' = cp /\ packets' = packets
      /\ launches' = launches /\ reading' = "idle"
      /\ UNCHANGED <<act, lastRes, repo, workers>>
  BY DEF AssessSnapshot, database
<1>2. LatestIsRunning(db)' = LatestIsRunning(db) /\ LatestStatus(db)' = LatestStatus(db)
  BY <1>1 DEF LatestIsRunning, LatestStatus, HasRun, db
<1> DEFINE p == ContinueAssessment(snap, repo)
<1>3. /\ snap \in Snapshots /\ snap.caps.ver <= caps.ver
      /\ snap.caps.ver = caps.ver => snap.caps = caps /\ snap.runs = runs
  BY DEF AssessSnapshot, TornInv, SnapshotInv
<1>4. /\ p \in Requests /\ p.op = "continue" /\ p.ver = snap.caps.ver
      /\ p.run = Len(snap.runs) /\ p.outcome = ContinueOutcome(snap, repo)
      /\ p.outcome = "StaleReconciled" => LatestIsRunning(snap)
  BY <1>0, <1>3, ContinueAssessmentType
<1>5. \/ pending' = pending
      \/ ContinueMutates(snap, repo) /\ pending' = [pending EXCEPT ![Reader] = p]
  BY DEF AssessSnapshot
<1> HIDE DEF p
<1>6. ASSUME ContinueMutates(snap, repo), p.ver = caps.ver
      PROVE  AssessedRun(p) /\ AssessedPhase(p)
  <2>1. snap.caps = caps /\ snap.runs = runs
    BY <1>3, <1>4, <1>6
  <2>2. LatestIsRunning(snap) = LatestIsRunning(db)
    BY <2>1 DEF LatestIsRunning, LatestStatus, HasRun, db
  <2>3. AssessedRun(p)
    BY <1>4, <2>1, <2>2 DEF AssessedRun
  <2>4. p.outcome = "Safe" => caps.phase \notin Undecided
    BY <1>4, <1>6, <2>1, SafeMeansReady, RunPhases
  <2>5. AssessedPhase(p)
    BY <1>4, <2>4 DEF AssessedPhase
  <2> QED
    BY <2>3, <2>5
<1>7. \A c \in Clients :
        \/ pending'[c] = pending[c]
        \/ /\ pending'[c] = p /\ p.ver <= caps.ver
           /\ p.ver = caps.ver => AssessedRun(p) /\ AssessedPhase(p)
  BY <1>0, <1>3, <1>4, <1>5, <1>6, PendingType
<1>8. TypeOK'
  BY <1>0, <1>1, <1>4, <1>5, PendingType DEF TypeOK
<1>9. VersionsBehind'
  BY <1>0, <1>1, <1>7 DEF VersionsBehind, TaskInv
<1>10. \A c \in Clients : /\ AssessedRun(pending'[c]) <=> AssessedRun(pending[c])'
                          /\ AssessedPhase(pending'[c]) <=> AssessedPhase(pending[c])'
  BY <1>1, <1>2 DEF AssessedRun, AssessedPhase
<1>11. CurrentVersionCurrentRun'
  BY <1>0, <1>1, <1>7, <1>10 DEF CurrentVersionCurrentRun, TaskInv
<1>12. PhasesAreCurrent'
  BY <1>1, <1>7, <1>10 DEF PhasesAreCurrent, TornInv, LocalInv
<1>13. LaunchersAwaited' /\ PacketsResumable' /\ OnlyLatestRunning' /\ SoundCheckpoint(cp)'
  BY <1>0, <1>1 DEF LaunchersAwaited, PacketsResumable, OnlyLatestRunning,
                    SoundCheckpoint, TaskInv, TornInv, LocalInv
<1>14. SnapshotInv'
  BY <1>1 DEF SnapshotInv
<1> QED
  BY <1>1, <1>8, <1>9, <1>11, <1>12, <1>13, <1>14 DEF TornInv, LocalInv, TaskInv

----------------------------------------------------------------------------
(***************************************************************************)
(* The invariant is inductive.                                             *)
(***************************************************************************)
\* What a step with a reader does to the version and the runs.
LEMMA TornStep ==
  ASSUME TornInv, [TornNext]_tornVars
  PROVE  /\ TornInv' /\ RunsChange
         /\ <<caps, runs>>' # <<caps, runs>> => caps'.ver > caps.ver
<1>1. CASE BeginSnapshot \/ ReadTable
  <2>1. UNCHANGED vars
    BY <1>1 DEF BeginSnapshot, ReadTable
  <2>2. LocalInv' /\ caps' = caps /\ runs' = runs
    BY <2>1, StepKeepsLocalInv DEF TornInv, vars
  <2> QED
    BY <1>1, <2>2, ReadingKeepsSnapshot DEF TornInv, RunsChange
<1>2. CASE AssessSnapshot
  BY <1>2, AssessmentKeepsInv DEF RunsChange
<1>3. ASSUME Next \/ UNCHANGED vars, UNCHANGED <<reading, snap>> \/ reading' = "idle"
      PROVE  /\ TornInv' /\ RunsChange
             /\ <<caps, runs>>' # <<caps, runs>> => caps'.ver > caps.ver
  <2>1. LocalInv' /\ Shape /\ RunsChange /\ CheckpointStep
    BY <1>3, StepKeepsLocalInv DEF TornInv
  <2>2. SnapshotInv'
    <3>1. CASE reading' = "idle"
      BY <3>1 DEF SnapshotInv
    <3> QED
      BY <1>3, <2>1, <3>1, OthersKeepSnapshot
  <2> QED
    BY <2>1, <2>2 DEF TornInv, Shape
<1>4. CASE UNCHANGED tornVars
  BY <1>3, <1>4 DEF tornVars
<1>5. CASE TornNext /\ ~BeginSnapshot /\ ~ReadTable /\ ~AssessSnapshot
  BY <1>3, <1>5 DEF TornNext, OtherStep, Next, ContinueStep
<1> QED
  BY <1>1, <1>2, <1>4, <1>5

\* TornInv holds from the start of the task on.
LEMMA TornInvariance == TornSpec => []TornInv
<1>1. TornInit => TornInv
  <2> SUFFICES ASSUME TornInit PROVE TornInv
    OBVIOUS
  <2>1. TaskInv /\ SnapshotInv
    BY InitEstablishesInvariant DEF TornInit, SnapshotInv
  <2>2. cp.resumable = FALSE /\ \A c \in Clients : pending[c].op = "idle"
    BY DEF TornInit, Init, StartTask, Checkpoint, Idle
  <2> QED
    BY <2>1, <2>2 DEF TornInv, LocalInv, SoundCheckpoint, PhasesAreCurrent
<1>2. TornInv /\ [TornNext]_tornVars => TornInv'
  BY TornStep
<1> QED
  BY <1>1, <1>2, PTL DEF TornSpec

----------------------------------------------------------------------------
(***************************************************************************)
(* The theorems.                                                           *)
(***************************************************************************)
\* What validation says of the local lineage is in its first six checks.
LEMMA LocalIssuesAre ==
  ASSUME NEW d
  PROVE  LocalIssues(d) =
           When(d.caps.brief = 0, Issue(1, "", 0, 0))
           \cup validateCheckpointContinuity(d)
           \cup (IF HasRun(d) THEN validateRunContinuity(d)
                 ELSE When(d.caps.phase = "EXECUTING", Issue(6, "NONE", 0, 0)))
<1>1. \A at, word, a, b : Issue(at, word, a, b).at = at
  BY DEF Issue
<1>2. \A i \in validateHandoffContinuity(d) : i.at \in {7, 8, 9, 10, 11, 12, 13}
  <2> SUFFICES ASSUME NEW i \in validateHandoffContinuity(d)
               PROVE  i.at \in {7, 8, 9, 10, 11, 12, 13}
    OBVIOUS
  <2>1. \E at \in {7, 8, 9, 10, 11, 12, 13} : \E word, a, b : i = Issue(at, word, a, b)
    BY Zenon DEF validateHandoffContinuity, When
  <2> QED
    BY <1>1, <2>1
<1>3. \A i \in validateRunContinuity(d) : i.at \in {3, 4, 5, 6}
  <2> SUFFICES ASSUME NEW i \in validateRunContinuity(d)
               PROVE  i.at \in {3, 4, 5, 6}
    OBVIOUS
  <2>1. \E at \in {3, 4, 5, 6} : \E word, a, b : i = Issue(at, word, a, b)
    BY Zenon DEF validateRunContinuity, When
  <2> QED
    BY <1>1, <2>1
<1>4. \A i \in validateCheckpointContinuity(d) : i.at = 2
  <2> SUFFICES ASSUME NEW i \in validateCheckpointContinuity(d)
               PROVE  i.at = 2
    OBVIOUS
  <2>1. i = Issue(2, d.cp.phase, d.cp.id, 0)
    BY Zenon DEF validateCheckpointContinuity, When
  <2> QED
    BY <1>1, <2>1
<1>5. /\ \A i \in When(d.caps.brief = 0, Issue(1, "", 0, 0)) : i.at = 1
      /\ \A i \in When(d.caps.phase = "EXECUTING", Issue(6, "NONE", 0, 0)) : i.at = 6
  <2>1. \A condition, issue : \A i \in When(condition, issue) : i = issue
    BY DEF When
  <2>2. Issue(1, "", 0, 0).at = 1 /\ Issue(6, "NONE", 0, 0).at = 6
    BY DEF Issue
  <2> QED
    BY <2>1, <2>2, Zenon
<1> DEFINE A == When(d.caps.brief = 0, Issue(1, "", 0, 0))
           B == validateCheckpointContinuity(d)
           C == IF HasRun(d) THEN validateRunContinuity(d)
                ELSE When(d.caps.phase = "EXECUTING", Issue(6, "NONE", 0, 0))
           D == IF d.packets = <<>> THEN {} ELSE validateHandoffContinuity(d)
<1>6. /\ \A i \in A \cup B \cup C : i.at <= 6
      /\ \A i \in D : ~(i.at <= 6)
  <2>1. \A i \in A \cup B \cup C : i.at \in {1, 2, 3, 4, 5, 6}
    <3>1. \A i \in A : i.at = 1
      BY <1>5
    <3>2. \A i \in C : i.at \in {3, 4, 5, 6}
      BY <1>3, <1>5
    <3> HIDE DEF A, C
    <3> QED
      BY <1>4, <3>1, <3>2
  <2>2. \A i \in D : i.at \in {7, 8, 9, 10, 11, 12, 13}
    BY <1>2
  <2> HIDE DEF A, B, C, D
  <2> QED
    BY <2>1, <2>2
<1>7. LocalIssues(d) = {i \in A \cup B \cup C \cup D : i.at <= 6}
  BY DEF LocalIssues, validateContinuitySnapshot
<1> HIDE DEF A, B, C, D
<1>8. LocalIssues(d) = A \cup B \cup C
  BY <1>6, <1>7
<1> QED
  BY <1>8 DEF A, B, C

\* A snapshot read table by table whose version is still current agrees with
\* the database on the local lineage (loadContinuitySnapshot,
\* finalizeContinue).
THEOREM SnapshotsAreVouched == TornSpec => []VersionVouchesForSnapshot
<1>1. TornInv => VersionVouchesForSnapshot
  <2> SUFFICES ASSUME TornInv, reading = "read", snap.caps.ver = caps.ver
               PROVE  /\ snap.caps = caps /\ snap.runs = runs
                      /\ LocalIssues(snap) = LocalIssues(db)
    BY DEF VersionVouchesForSnapshot
  <2>1. /\ snap.caps = caps /\ snap.runs = runs
        /\ snap.cp = cp \/ ~LatestIsRunning(db)
        /\ SoundCheckpoint(snap.cp) /\ SoundCheckpoint(cp)
    BY DEF TornInv, SnapshotInv, LocalInv
  <2>2. db.caps = caps /\ db.runs = runs /\ db.cp = cp
    BY DEF db
  <2>3. validateCheckpointContinuity(snap) = {} /\ validateCheckpointContinuity(db) = {}
    BY <2>1, <2>2 DEF validateCheckpointContinuity, When, SoundCheckpoint, Undecided
  <2>4. HasRun(snap) = HasRun(db)
    BY <2>1, <2>2 DEF HasRun
  <2>5. HasRun(db) => validateRunContinuity(snap) = validateRunContinuity(db)
    <3>1. CASE snap.cp = cp
      BY <2>1, <2>2, <3>1 DEF validateRunContinuity, LatestRunID
    <3>2. CASE ~LatestIsRunning(db) /\ HasRun(db)
      <4>1. runs[Len(runs)].status # "RUNNING"
        BY <2>2, <3>2 DEF LatestIsRunning, LatestStatus
      <4> QED
        BY <2>1, <2>2, <4>1 DEF validateRunContinuity, LatestRunID
    <3> QED
      BY <2>1, <3>1, <3>2
  <2> QED
    BY <2>1, <2>2, <2>3, <2>4, <2>5, LocalIssuesAre
<1> QED
  BY <1>1, TornInvariance, PTL

\* However the tables were read, a request assessed at the version that is
\* still current names the latest run and its status.
THEOREM TornAssessmentsStayCurrent == TornSpec => []CurrentVersionCurrentRun
<1>1. TornInv => CurrentVersionCurrentRun
  BY DEF TornInv, LocalInv, TaskInv
<1> QED
  BY <1>1, TornInvariance, PTL

\* And the runs are still a run ledger (prepareRealRun, finalizeRealRun,
\* manual actions, reconcileStaleRun on a torn assessment).
THEOREM TornRunsAreALedger == TornSpec => ImplementsRunLedger
<1>1. TornInit => Ledger!LedgerInit
  BY DEF TornInit, Init, StartTask, Ledger!LedgerInit, Statuses
<1>2. TornInv /\ [TornNext]_tornVars => [Ledger!LedgerNext]_Statuses
  BY TornStep, RunsChangeIsLedgerStep DEF TornInv, LocalInv, TaskInv
<1> QED
  BY <1>1, <1>2, TornInvariance, PTL
  DEF TornSpec, ImplementsRunLedger, Ledger!LedgerSpec

----------------------------------------------------------------------------
(***************************************************************************)
(* What a step does to the packets.                                        *)
(***************************************************************************)
\* Packets are never deleted, no completed launch is launched again, no
\* resolution is taken back, and a new packet is open.
PacketsMove ==
  /\ DOMAIN packets \subseteq DOMAIN packets'
  /\ \A id \in DOMAIN packets :
       /\ packets[id].launch = "COMPLETED" => packets'[id].launch = "COMPLETED"
       /\ packets[id].resolved => packets'[id].resolved
  /\ \A id \in DOMAIN packets' \ DOMAIN packets : ~packets'[id].resolved

ResolutionsStay ==
  \A id \in DOMAIN packets : packets'[id].resolved = packets[id].resolved

\* The outcome of a launch is recorded in its packet, and nothing else is.
LEMMA OutcomeRecorded ==
  ASSUME TaskInv, NEW l \in launches, FinalizeHandoffLaunch(l)
  PROVE  /\ l.packet \in DOMAIN packets /\ packets[l.packet].launch = "REQUESTED"
         /\ DOMAIN packets' = DOMAIN packets
         /\ \A id \in DOMAIN packets :
              /\ packets'[id].status = packets[id].status
              /\ packets'[id].resolved = packets[id].resolved
              /\ id # l.packet => packets'[id] = packets[id]
         /\ packets'[l.packet].launch \in {"COMPLETED", "FAILED"}
<1> DEFINE k == l.packet
           r == packets[k]
<1>1. /\ packets \in Seq(Packets) /\ k \in DOMAIN packets /\ r \in Packets
      /\ r.launch = "REQUESTED"
  BY DEF TaskInv, TypeOK, LaunchersAwaited
<1>2. PICK x \in Packets : /\ packets' = [packets EXCEPT ![k] = x]
                           /\ x.status = r.status /\ x.resolved = r.resolved
                           /\ x.launch \in {"COMPLETED", "FAILED"}
  <2>1. CASE packets' = [packets EXCEPT ![l.packet].launch = "FAILED"]
    <3> DEFINE x == [r EXCEPT !.launch = "FAILED"]
    <3>1. packets' = [packets EXCEPT ![k] = x]
      BY <2>1
    <3> HIDE DEF r
    <3>2. x \in Packets /\ x.status = r.status /\ x.resolved = r.resolved /\ x.launch = "FAILED"
      BY <1>1 DEF Packets, LaunchStatuses
    <3> HIDE DEF x
    <3> QED
      BY <3>1, <3>2
  <2>2. ASSUME NEW ack \in {"CAPTURED", "UNAVAILABLE"},
               packets' = [packets EXCEPT ![l.packet].launch = "COMPLETED",
                                          ![l.packet].ack = ack]
        PROVE  \E x \in Packets : /\ packets' = [packets EXCEPT ![k] = x]
                                  /\ x.status = r.status /\ x.resolved = r.resolved
                                  /\ x.launch \in {"COMPLETED", "FAILED"}
    <3> DEFINE x == [r EXCEPT !.launch = "COMPLETED", !.ack = ack]
    <3>1. packets' = [packets EXCEPT ![k] = x]
      BY <1>1, <2>2
    <3> HIDE DEF r
    <3>2. /\ x \in Packets /\ x.status = r.status /\ x.resolved = r.resolved
          /\ x.launch = "COMPLETED"
      BY <1>1 DEF Packets, LaunchStatuses
    <3> HIDE DEF x
    <3> QED
      BY <3>1, <3>2
  <2> QED
    BY <2>1, <2>2 DEF FinalizeHandoffLaunch
<1> HIDE DEF k
<1>3. /\ DOMAIN packets' = DOMAIN packets /\ packets'[k] = x
      /\ \A i \in DOMAIN packets : i # k => packets'[i] = packets[i]
  BY <1>1, <1>2, PacketUpdate
<1>4. \A id \in DOMAIN packets : packets'[id].status = packets[id].status
                                 /\ packets'[id].resolved = packets[id].resolved
  BY <1>2, <1>3
<1> QED
  BY <1>1, <1>2, <1>3, <1>4 DEF k

\* A resolution is recorded in the active packet, and nothing else is.
LEMMA ResolutionRecorded ==
  ASSUME TaskInv, RecordHandoffResolution
  PROVE  /\ ActiveHandoff(db) \in DOMAIN packets
         /\ DOMAIN packets' = DOMAIN packets
         /\ ~packets[ActiveHandoff(db)].resolved
         /\ packets'[ActiveHandoff(db)].resolved
         /\ \A id \in DOMAIN packets :
              /\ packets'[id].launch = packets[id].launch
              /\ id # ActiveHandoff(db) => packets'[id] = packets[id]
         /\ lastRes' = ActiveHandoff(db)
<1> DEFINE k == ActiveHandoff(db)
           r == packets[k]
           x == [r EXCEPT !.resolved = TRUE]
<1>0. TypeOK /\ packets \in Seq(Packets)
  BY DEF TaskInv, TypeOK
<1>1. k \in ActivePackets(db) /\ k \in DOMAIN packets
  BY <1>0, ActiveHandoffType DEF RecordHandoffResolution, assessHandoffContinuity
<1>2. ~r.resolved /\ r \in Packets
  BY <1>0, <1>1 DEF ActivePackets, db
<1>3. packets' = [packets EXCEPT ![k] = x] /\ lastRes' = k
  BY DEF RecordHandoffResolution
<1> HIDE DEF k, r
<1>4. x \in Packets /\ x.resolved /\ x.launch = r.launch
  BY <1>2 DEF Packets
<1> HIDE DEF x
<1>5. /\ DOMAIN packets' = DOMAIN packets /\ packets'[k] = x
      /\ \A i \in DOMAIN packets : i # k => packets'[i] = packets[i]
  BY <1>0, <1>1, <1>3, <1>4, PacketUpdate
<1>6. \A id \in DOMAIN packets : packets'[id].launch = packets[id].launch
  BY <1>4, <1>5 DEF r
<1> QED
  BY <1>1, <1>2, <1>3, <1>4, <1>5, <1>6 DEF k, r

\* The other steps of a handoff.
LEMMA OtherHandoffMoves ==
  ASSUME TaskInv, OtherHandoffStep
  PROVE  PacketsMove /\ ResolutionsStay
<1>0. /\ TypeOK /\ packets \in Seq(Packets)
      /\ \A id \in DOMAIN packets : packets[id] \in Packets
  BY DEF TaskInv, TypeOK
<1>1. ASSUME packets' = packets
      PROVE  PacketsMove /\ ResolutionsStay
  BY <1>1 DEF PacketsMove, ResolutionsStay
<1>2. ASSUME NEW c \in Clients,
             (\E req \in HandoffReqs : AssessHandoff(c, req)) \/ CreateHandoffNothing(c)
      PROVE  packets' = packets
  BY <1>2 DEF AssessHandoff, CreateHandoffNothing, database
<1>3. ASSUME NEW c \in Clients, CreateHandoff(c)
      PROVE  PacketsMove /\ ResolutionsStay
  <2> DEFINE p == pending[c]
             x == [status |-> "CREATED", req |-> p.req, brief |-> caps.brief,
                   intent |-> caps.intent, phase |-> caps.phase, ver |-> caps.ver,
                   run |-> p.run, runStatus |-> p.runStatus, cp |-> cp',
                   resumable |-> cp'.resumable, launch |-> "NONE", attempt |-> 0,
                   ack |-> "NONE", follow |-> "NONE", followAttempt |-> 0,
                   resolved |-> FALSE]
  <2>1. packets' = Append(packets, x) /\ x.resolved = FALSE
    BY <1>3 DEF CreateHandoff
  <2> HIDE DEF x
  <2>2. /\ DOMAIN packets' = DOMAIN packets \cup {Len(packets) + 1}
        /\ packets'[Len(packets) + 1] = x
        /\ \A i \in DOMAIN packets : packets'[i] = packets[i]
    BY <1>0, <2>1
  <2> QED
    BY <2>1, <2>2 DEF PacketsMove, ResolutionsStay
<1>4. ASSUME NEW k \in DOMAIN packets, NEW x \in Packets,
             packets' = [packets EXCEPT ![k] = x], x.resolved = packets[k].resolved,
             packets[k].launch = "COMPLETED" => x.launch = "COMPLETED"
      PROVE  PacketsMove /\ ResolutionsStay
  <2>1. /\ DOMAIN packets' = DOMAIN packets /\ packets'[k] = x
        /\ \A i \in DOMAIN packets : i # k => packets'[i] = packets[i]
    BY <1>0, <1>4, PacketUpdate
  <2> QED
    BY <1>4, <2>1 DEF PacketsMove, ResolutionsStay
<1>5. ASSUME NEW id \in DOMAIN packets, AcceptHandoff(id)
      PROVE  PacketsMove /\ ResolutionsStay
  <2> DEFINE r == packets[id]
             x == [r EXCEPT !.status = "ACCEPTED"]
  <2>1. packets' = [packets EXCEPT ![id] = x] /\ r \in Packets
    BY <1>0, <1>5 DEF AcceptHandoff
  <2> HIDE DEF r
  <2>2. x \in Packets /\ x.resolved = r.resolved /\ x.launch = r.launch
    BY <2>1 DEF Packets
  <2> HIDE DEF x
  <2> QED
    BY <1>4, <2>1, <2>2 DEF r
<1>6. ASSUME NEW id \in DOMAIN packets, PrepareHandoffLaunch(id)
      PROVE  PacketsMove /\ ResolutionsStay
  <2> DEFINE r == packets[id]
             n == r.attempt + 1
             x == [r EXCEPT !.launch = "REQUESTED", !.attempt = n]
  <2>1. /\ packets' = [packets EXCEPT ![id] = x] /\ r \in Packets
        /\ r.launch \in {"NONE", "FAILED"}
    BY <1>0, <1>6 DEF PrepareHandoffLaunch, LaunchRetryable
  <2> HIDE DEF r
  <2>2. n \in Nat
    BY <2>1 DEF Packets
  <2> HIDE DEF n
  <2>3. x \in Packets /\ x.resolved = r.resolved
    BY <2>1, <2>2 DEF Packets, LaunchStatuses
  <2> HIDE DEF x
  <2> QED
    BY <1>4, <2>1, <2>3 DEF r
<1>7. ASSUME NEW kind \in FollowKinds, RecordHandoffFollowThrough(kind)
      PROVE  PacketsMove /\ ResolutionsStay
  <2> DEFINE id == ActiveHandoff(db)
             r == packets[id]
             x == [r EXCEPT !.follow = kind, !.followAttempt = r.attempt]
  <2>1. id \in DOMAIN packets
    BY <1>0, <1>7, ActiveHandoffType DEF RecordHandoffFollowThrough, assessHandoffContinuity
  <2>2. packets' = [packets EXCEPT ![id] = x]
    BY <1>0, <1>7, <2>1 DEF RecordHandoffFollowThrough
  <2> HIDE DEF id
  <2>3. r \in Packets
    BY <1>0, <2>1
  <2> HIDE DEF r
  <2>4. x \in Packets /\ x.resolved = r.resolved /\ x.launch = r.launch
    BY <2>3 DEF Packets
  <2> HIDE DEF x
  <2> QED
    BY <1>4, <2>1, <2>2, <2>4 DEF r
<1> QED
  BY <1>1, <1>2, <1>3, <1>5, <1>6, <1>7 DEF OtherHandoffStep

\* A resolution is recorded by RecordHandoffResolution only.
LEMMA EveryPacketsMove ==
  ASSUME TaskInv, [Next]_vars
  PROVE  PacketsMove /\ (ResolutionsStay \/ RecordHandoffResolution)
<1>0. packets \in Seq(Packets) /\ TypeOK
  BY DEF TaskInv, TypeOK
<1>1. ASSUME packets' = packets
      PROVE  PacketsMove /\ ResolutionsStay
  BY <1>1 DEF PacketsMove, ResolutionsStay
<1>2. CASE HandoffStep
  <2>1. CASE OtherHandoffStep
    BY <2>1, OtherHandoffMoves
  <2>2. ASSUME NEW l \in launches, FinalizeHandoffLaunch(l)
        PROVE  PacketsMove /\ ResolutionsStay
    BY <2>2, OutcomeRecorded DEF PacketsMove, ResolutionsStay
  <2>3. CASE RecordHandoffResolution
    BY <2>3, ResolutionRecorded DEF PacketsMove
  <2> QED
    BY <1>2, <2>1, <2>2, <2>3 DEF HandoffStep, OtherHandoffStep
<1>3. CASE ~HandoffStep
  <2>1. packets' = packets
    BY <1>0, <1>3, OthersKeepHandoffs
    DEF Next, RepositoryChanges, DaemonCrash, database, vars
  <2> QED
    BY <1>1, <2>1
<1> QED
  BY <1>2, <1>3

----------------------------------------------------------------------------
(***************************************************************************)
(* TransitionReceipts.                                                     *)
(***************************************************************************)
\* A launch or a resolution with its receipt is a step of TaskControl.
LEMMA AuditStep ==
  ASSUME [AuditNext]_auditVars
  PROVE  [Next]_vars
<1>1. CASE \E l \in launches : FinishLaunch(l)
  BY <1>1 DEF FinishLaunch, HandoffStep, Next
<1>2. CASE Resolve
  BY <1>2 DEF Resolve, HandoffStep, Next
<1>3. CASE OtherHandoffStep
  BY <1>3 DEF OtherHandoffStep, HandoffStep, Next
<1>4. CASE LocalMutationStep \/ DaemonCrash
  BY <1>4 DEF Next
<1>5. CASE EvidenceArrives \/ ReviewEvidence \/ AcknowledgeGap
  BY <1>5 DEF EvidenceArrives, ReviewEvidence, AcknowledgeGap
<1>6. CASE UNCHANGED auditVars
  BY <1>6 DEF auditVars
<1> QED
  BY <1>1, <1>2, <1>3, <1>4, <1>5, <1>6 DEF AuditNext

\* TransitionReceipts adds receipts to TaskControl and takes nothing away:
\* whatever holds of the control plane holds of it with its receipts
\* (finalizeHandoffLaunch and RecordHandoffResolution in one transaction
\* with recordContinuityTransitionReceipt).
THEOREM AuditedTaskIsTask == AuditSpec => Spec
<1>1. AuditInit => Init
  BY DEF AuditInit
<1>2. [AuditNext]_auditVars => [Next]_vars
  BY AuditStep
<1> QED
  BY <1>1, <1>2, PTL DEF AuditSpec, Spec

\* A sequence over a set is one over every larger set.
LEMMA LargerSet ==
  ASSUME NEW S, NEW T, S \subseteq T, NEW s \in Seq(S)
  PROVE  s \in Seq(T)
<1>1. Len(s) \in Nat /\ \A i \in 1..Len(s) : s[i] \in T
  OBVIOUS
<1>2. s = [i \in 1..Len(s) |-> s[i]]
  OBVIOUS
<1> QED
  BY <1>1, <1>2

\* The active handoff of the state a step leads to.
LEMMA ActiveHandoffNext ==
  (TypeOK => /\ ActiveHandoff(db) # 0 => ActiveHandoff(db) \in ActivePackets(db)
             /\ ActivePackets(db) \subseteq DOMAIN packets)'
<1>1. TypeOK => /\ ActiveHandoff(db) # 0 => ActiveHandoff(db) \in ActivePackets(db)
                /\ ActivePackets(db) \subseteq DOMAIN packets
  BY ActiveHandoffType
<1> QED
  BY <1>1, PTL

\* What a snapshot shows.
LEMMA SnapshotShows ==
  ASSUME TypeOK
  PROVE  /\ Snapshot(db) \in TransitionSnapshots
         /\ Snapshot(db).ref = ActiveHandoff(db)
         /\ Snapshot(db).state = assessHandoffContinuity(db, ActiveHandoff(db))
<1> DEFINE k == ActiveHandoff(db)
           launch == IF k = 0 THEN "NONE" ELSE packets[k].launch
           n == IF k = 0 THEN 0 ELSE packets[k].attempt
           st == assessHandoffContinuity(db, k)
           c == IF ClaudeOwnsBranch(db) THEN "HANDOFF_CLAUDE" ELSE "LOCAL"
<1>1. k \in Nat /\ (k # 0 => k \in DOMAIN packets)
  BY ActiveHandoffType
<1>2. k # 0 => packets[k] \in Packets
  BY <1>1 DEF TypeOK
<1>3. st \in HandoffStates
  <2> HIDE DEF k
  <2> QED BY DEF assessHandoffContinuity, HandoffStates
<1>4. Snapshot(db) = [class |-> c, ref |-> k, state |-> st, launch |-> launch, attempt |-> n]
  BY DEF Snapshot, db
<1> HIDE DEF k, st
<1>5. launch \in LaunchStatuses /\ n \in Nat
  BY <1>2 DEF Packets, LaunchStatuses
<1>6. c \in {"LOCAL", "HANDOFF_CLAUDE"}
  OBVIOUS
<1> HIDE DEF launch, n, c
<1> QED
  BY <1>1, <1>3, <1>4, <1>5, <1>6 DEF TransitionSnapshots, k, st

\* The same of the state a step leads to.
LEMMA SnapshotShowsNext ==
  (TypeOK => /\ Snapshot(db) \in TransitionSnapshots
             /\ Snapshot(db).ref = ActiveHandoff(db)
             /\ Snapshot(db).state = assessHandoffContinuity(db, ActiveHandoff(db)))'
<1>1. TypeOK => /\ Snapshot(db) \in TransitionSnapshots
                /\ Snapshot(db).ref = ActiveHandoff(db)
                /\ Snapshot(db).state = assessHandoffContinuity(db, ActiveHandoff(db))
  BY SnapshotShows
<1> QED
  BY <1>1, PTL

\* The receipt of a launch's outcome, if there is one, is about the active
\* handoff, and about this launch.
LEMMA LaunchReceipt ==
  ASSUME ConsistencyInv, ConsistencyInv', NEW l \in launches, FinishLaunch(l)
  PROVE  \/ transitions' = transitions
         \/ /\ transitions' = Append(transitions,
                 Receipt("HANDOFF_LAUNCH", l.packet, Snapshot(db), Snapshot(db)'))
            /\ Snapshot(db).ref = l.packet /\ Snapshot(db)'.ref = l.packet
            /\ Snapshot(db).state = "LAUNCH_PENDING_OUTCOME"
            /\ Snapshot(db)'.state \in {"LAUNCH_COMPLETED", "LAUNCH_FAILED_RETRYABLE",
                                        "FOLLOW_THROUGH"}
<1> DEFINE k == ActiveHandoff(db)
<1>0. TypeOK /\ TypeOK' /\ TaskInv /\ packets \in Seq(Packets) /\ packets' \in Seq(Packets)
  BY DEF ConsistencyInv, LocalInv, TaskInv, TypeOK
<1>1. /\ l.packet \in DOMAIN packets /\ packets[l.packet].launch = "REQUESTED"
      /\ DOMAIN packets' = DOMAIN packets
      /\ \A id \in DOMAIN packets :
           /\ packets'[id].status = packets[id].status
           /\ packets'[id].resolved = packets[id].resolved
           /\ id # l.packet => packets'[id] = packets[id]
      /\ packets'[l.packet].launch \in {"COMPLETED", "FAILED"}
  BY <1>0, OutcomeRecorded DEF FinishLaunch
<1>2. ActivePackets(db)' = ActivePackets(db)
  BY <1>1 DEF ActivePackets, db
<1>3. ActiveHandoff(db)' = k
  BY <1>2 DEF ActiveHandoff
<1>4. /\ k \in Nat /\ (k # 0 => k \in DOMAIN packets)
      /\ l.packet # 0
  BY <1>0, <1>1, ActiveHandoffType
<1>5. CASE k # l.packet
  <2>1. k # 0 => packets'[k] = packets[k]
    BY <1>1, <1>4, <1>5
  <2>2. ClaudeOwnsBranch(db)' = ClaudeOwnsBranch(db)
    BY <1>3 DEF ClaudeOwnsBranch
  <2> DEFINE st == assessHandoffContinuity(db, k)
  <2>3. assessHandoffContinuity(db, ActiveHandoff(db))' = st
    BY <1>3, <2>1 DEF assessHandoffContinuity, db
  <2>4. Snapshot(db)' = Snapshot(db)
    <3> HIDE DEF st, k
    <3> QED BY <1>3, <2>1, <2>2, <2>3 DEF Snapshot, db, st, k
  <2>5. ~materialContinuityTransition(Snapshot(db), Snapshot(db)')
    BY <2>4 DEF materialContinuityTransition
  <2> QED
    BY <2>5 DEF FinishLaunch, RecordReceipt
<1>6. CASE k = l.packet
  <2>1. Snapshot(db).ref = l.packet /\ Snapshot(db)'.ref = l.packet
    BY <1>0, <1>3, <1>6, SnapshotShows, SnapshotShowsNext
  <2>2. packets[k].resumable /\ packets'[k].resumable
    BY <1>1, <1>6 DEF ConsistencyInv, LocalInv, TaskInv, PacketsResumable
  <2>3. Snapshot(db).state = "LAUNCH_PENDING_OUTCOME"
    <3>1. assessHandoffContinuity(db, k) = "LAUNCH_PENDING_OUTCOME"
      <4> HIDE DEF k
      <4> QED BY <1>1, <1>4, <1>6, <2>2 DEF assessHandoffContinuity, db
    <3> QED
      BY <1>0, <3>1, SnapshotShows
  <2>4. packets'[k].launch = "COMPLETED" <=> packets'[k].ack # "NONE"
    BY <1>1, <1>6 DEF ConsistencyInv, PacketsAreSound, SoundPacket
  <2>5. assessHandoffContinuity(db, ActiveHandoff(db))'
          \in {"LAUNCH_COMPLETED", "LAUNCH_FAILED_RETRYABLE", "FOLLOW_THROUGH"}
    <3> HIDE DEF k
    <3>1. k # 0 /\ packets'[k].launch \in {"COMPLETED", "FAILED"}
      BY <1>1, <1>4, <1>6
    <3> QED
      BY <1>3, <2>2, <2>4, <3>1 DEF assessHandoffContinuity, db
  <2>6. Snapshot(db)'.state \in {"LAUNCH_COMPLETED", "LAUNCH_FAILED_RETRYABLE",
                                 "FOLLOW_THROUGH"}
    BY <1>0, <2>5, SnapshotShowsNext
  <2> QED
    BY <2>1, <2>3, <2>6 DEF FinishLaunch, RecordReceipt
<1> QED
  BY <1>5, <1>6

\* A resolution always has its receipt: the handoff it resolves is not the
\* active one any more.
LEMMA ResolutionReceipt ==
  ASSUME TaskInv, TaskInv', Resolve
  PROVE  /\ transitions' = Append(transitions,
              Receipt("HANDOFF_RESOLUTION", ActiveHandoff(db), Snapshot(db), Snapshot(db)'))
         /\ Snapshot(db).ref = ActiveHandoff(db)
         /\ Snapshot(db)'.ref # ActiveHandoff(db)
<1> DEFINE k == ActiveHandoff(db)
<1>0. TypeOK /\ TypeOK'
  BY DEF TaskInv
<1>1. k \in DOMAIN packets /\ k # 0 /\ packets'[k].resolved
  BY <1>0, ResolutionRecorded DEF Resolve, TypeOK
<1>2. k \notin ActivePackets(db)'
  BY <1>1 DEF ActivePackets, db
<1>3. ActiveHandoff(db)' # k
  <2> HIDE DEF k
  <2> QED
    BY <1>0, <1>1, <1>2, ActiveHandoffNext
<1>4. Snapshot(db).ref = k /\ Snapshot(db)'.ref # k
  BY <1>0, <1>3, SnapshotShows, SnapshotShowsNext
<1>5. materialContinuityTransition(Snapshot(db), Snapshot(db)')
  BY <1>4 DEF materialContinuityTransition
<1> QED
  BY <1>4, <1>5 DEF Resolve, RecordReceipt

\* The receipts of a handoff, and those of its resolution.
TrailOf(id) == {i \in DOMAIN transitions : transitions[i].packet = id}

EndsOf(id) == {i \in TrailOf(id) : transitions[i].kind = "HANDOFF_RESOLUTION"}

\* A resolved handoff has one receipt of its resolution, its last one; an
\* open one has none.
TrailsEnd ==
  \A id \in DOMAIN packets :
    /\ packets[id].resolved =>
         \E e \in TrailOf(id) : EndsOf(id) = {e} /\ \A i \in TrailOf(id) : i <= e
    /\ ~packets[id].resolved => EndsOf(id) = {}

\* No acknowledgment covers evidence that has not arrived.
AcksBehind == \A a \in DOMAIN acks : acks[a].newest <= evidence

\* The inductive invariant, next to ConsistencyInv.
AuditInv == AuditTypeOK /\ AcksBehind /\ ReceiptsTellTheirOwn /\ TrailsEnd

GapClasses == {"missing_review_marker", "stale_review"}

\* The rows of receipts about the packets P.
ReceiptRows(P) ==
  [kind : {"HANDOFF_LAUNCH", "HANDOFF_RESOLUTION"}, packet : P,
   before : TransitionSnapshots, after : TransitionSnapshots,
   gap : {"none"} \cup GapClasses, newest : Nat, acked : BOOLEAN]

\* What ReceiptsTellTheirOwn says of one receipt.
TellsItsOwn(r) ==
  /\ r.before.ref = r.packet
  /\ r.kind = "HANDOFF_LAUNCH" =>
       /\ r.after.ref = r.packet
       /\ r.before.state = "LAUNCH_PENDING_OUTCOME"
       /\ r.after.state \in {"LAUNCH_COMPLETED", "LAUNCH_FAILED_RETRYABLE",
                             "FOLLOW_THROUGH"}
  /\ r.kind = "HANDOFF_RESOLUTION" => r.after.ref # r.packet
  /\ r.acked => \E a \in DOMAIN acks : acks[a] = [class |-> r.gap, newest |-> r.newest]

\* The types of the receipts, the evidence and the acknowledgments.
LEMMA AuditTypes ==
  ASSUME AuditTypeOK
  PROVE  /\ transitions \in Seq(ReceiptRows(DOMAIN packets))
         /\ evidence \in Nat /\ reviewed \in Nat /\ reviewed <= evidence
         /\ acks \in Seq([class : GapClasses, newest : Nat])
         /\ Gap \in {"none"} \cup GapClasses
<1>1. transitions \in Seq(ReceiptRows(DOMAIN packets))
  <2>1. {"none"} \cup GapClasses = {"none", "missing_review_marker", "stale_review"}
    BY DEF GapClasses
  <2> QED
    BY <2>1, Zenon DEF AuditTypeOK, ReceiptRows
<1>2. Gap \in {"none"} \cup GapClasses
  BY DEF Gap, GapClasses
<1> QED
  BY <1>1, <1>2 DEF AuditTypeOK, GapClasses

\* A gap that counts as acknowledged was acknowledged with all its evidence.
LEMMA AckedGap ==
  ASSUME AuditTypeOK, AcksBehind, transitionReviewGapAckCurrent
  PROVE  \E a \in DOMAIN acks : acks[a] = [class |-> Gap, newest |-> evidence]
<1> DEFINE a == Len(acks)
           x == acks[a]
<1>1. a \in DOMAIN acks /\ x \in [class : GapClasses, newest : Nat]
  <2> DEFINE S == [class : GapClasses, newest : Nat]
  <2>1. acks \in Seq(S)
    BY AuditTypes
  <2>2. acks # <<>>
    BY DEF transitionReviewGapAckCurrent
  <2> HIDE DEF S
  <2>3. a \in DOMAIN acks /\ x \in S
    BY <2>1, <2>2
  <2> QED
    BY <2>3 DEF S
<1>2. evidence > 0
  <2>1. Gap # "none"
    BY DEF transitionReviewGapAckCurrent
  <2>2. evidence \in Nat /\ reviewed \in Nat
    BY AuditTypes
  <2> QED
    BY <2>1, <2>2 DEF Gap
<1>3. x.class = Gap /\ x.newest >= evidence /\ x.newest <= evidence
  BY <1>1, <1>2 DEF transitionReviewGapAckCurrent, AcksBehind
<1> HIDE DEF x
<1>4. x.newest = evidence
  BY <1>1, <1>3, AuditTypes
<1>5. x = [class |-> Gap, newest |-> evidence]
  BY <1>1, <1>3, <1>4
<1> QED
  BY <1>1, <1>5 DEF x

\* A receipt is a row, and tells of acknowledgments what they say.
LEMMA ReceiptRow ==
  ASSUME AuditTypeOK, AcksBehind, NEW P, NEW id \in P,
         NEW kind \in {"HANDOFF_LAUNCH", "HANDOFF_RESOLUTION"},
         NEW before \in TransitionSnapshots, NEW after \in TransitionSnapshots,
         NEW r, r = Receipt(kind, id, before, after)
  PROVE  /\ r \in ReceiptRows(P)
         /\ r.kind = kind /\ r.packet = id /\ r.before = before /\ r.after = after
         /\ r.acked =>
              \E a \in DOMAIN acks : acks[a] = [class |-> r.gap, newest |-> r.newest]
<1> DEFINE b == transitionReviewGapAckCurrent
           g == Gap
<1>1. b \in BOOLEAN
  BY DEF transitionReviewGapAckCurrent
<1>2. g \in {"none"} \cup GapClasses /\ evidence \in Nat
  BY AuditTypes
<1>3. b => \E a \in DOMAIN acks : acks[a] = [class |-> g, newest |-> evidence]
  BY AckedGap
<1>4. r = [kind |-> kind, packet |-> id, before |-> before, after |-> after,
           gap |-> g, newest |-> evidence, acked |-> b]
  BY DEF Receipt
<1> HIDE DEF b, g
<1> QED
  BY <1>1, <1>2, <1>3, <1>4 DEF ReceiptRows

\* One more receipt.
LEMMA OneMoreReceipt ==
  ASSUME NEW S, transitions \in Seq(S), NEW r \in S, transitions' = Append(transitions, r)
  PROVE  /\ transitions' \in Seq(S)
         /\ DOMAIN transitions' = DOMAIN transitions \cup {Len(transitions) + 1}
         /\ transitions'[Len(transitions) + 1] = r
         /\ \A i \in DOMAIN transitions : transitions'[i] = transitions[i]
         /\ DOMAIN transitions = 1..Len(transitions) /\ Len(transitions) \in Nat
  OBVIOUS

\* One more receipt about a handoff is the last one of its trail, and other
\* trails stay what they are.
LEMMA OneMoreOnTrail ==
  ASSUME NEW S, transitions \in Seq(S), NEW r \in S, transitions' = Append(transitions, r)
  PROVE  /\ \A id : id # r.packet => TrailOf(id)' = TrailOf(id) /\ EndsOf(id)' = EndsOf(id)
         /\ TrailOf(r.packet)' = TrailOf(r.packet) \cup {Len(transitions) + 1}
         /\ TrailOf(r.packet) \subseteq 1..Len(transitions)
         /\ r.kind = "HANDOFF_RESOLUTION" =>
              EndsOf(r.packet)' = EndsOf(r.packet) \cup {Len(transitions) + 1}
         /\ r.kind # "HANDOFF_RESOLUTION" => EndsOf(r.packet)' = EndsOf(r.packet)
<1> DEFINE n == Len(transitions) + 1
<1>1. /\ DOMAIN transitions' = DOMAIN transitions \cup {n}
      /\ transitions'[n] = r /\ n \notin DOMAIN transitions
      /\ \A i \in DOMAIN transitions : transitions'[i] = transitions[i]
      /\ DOMAIN transitions = 1..Len(transitions)
  BY OneMoreReceipt
<1> HIDE DEF n
<1>2. ASSUME NEW id, id # r.packet
      PROVE  TrailOf(id)' = TrailOf(id) /\ EndsOf(id)' = EndsOf(id)
  <2>1. TrailOf(id)' = TrailOf(id)
    BY <1>1, <1>2 DEF TrailOf
  <2>2. \A i \in TrailOf(id) : transitions'[i] = transitions[i]
    BY <1>1 DEF TrailOf
  <2> QED
    BY <2>1, <2>2 DEF EndsOf
<1>3. TrailOf(r.packet)' = TrailOf(r.packet) \cup {n}
  BY <1>1 DEF TrailOf
<1>4. TrailOf(r.packet) \subseteq 1..Len(transitions) /\ n \notin TrailOf(r.packet)
  BY <1>1 DEF TrailOf
<1>5. \A i \in TrailOf(r.packet) : transitions'[i] = transitions[i]
  BY <1>1 DEF TrailOf
<1>6. /\ r.kind = "HANDOFF_RESOLUTION" => EndsOf(r.packet)' = EndsOf(r.packet) \cup {n}
      /\ r.kind # "HANDOFF_RESOLUTION" => EndsOf(r.packet)' = EndsOf(r.packet)
  <2> DEFINE T == TrailOf(r.packet)
             E == {i \in T \cup {n} : transitions'[i].kind = "HANDOFF_RESOLUTION"}
             D == {i \in T : transitions[i].kind = "HANDOFF_RESOLUTION"}
  <2>1. EndsOf(r.packet)' = E /\ EndsOf(r.packet) = D
    BY <1>3 DEF EndsOf
  <2>2. \A i \in T : transitions'[i] = transitions[i]
    BY <1>5
  <2> HIDE DEF T
  <2>3. /\ r.kind = "HANDOFF_RESOLUTION" => E = D \cup {n}
        /\ r.kind # "HANDOFF_RESOLUTION" => E = D
    BY <1>1, <2>2
  <2> QED
    BY <2>1, <2>3
<1> QED
  BY <1>2, <1>3, <1>4, <1>6 DEF n

\* Without a new receipt and without a resolution trails stay ended.
LEMMA QuietStepKeepsTrails ==
  ASSUME AuditTypeOK, TrailsEnd, PacketsMove, ResolutionsStay, transitions' = transitions
  PROVE  TrailsEnd'
<1>1. \A id : TrailOf(id)' = TrailOf(id) /\ EndsOf(id)' = EndsOf(id)
  BY DEF TrailOf, EndsOf
<1>2. \A i \in DOMAIN transitions : transitions[i].packet \in DOMAIN packets
  <2>1. \A i \in DOMAIN transitions : transitions[i] \in ReceiptRows(DOMAIN packets)
    BY AuditTypes
  <2> QED
    BY <2>1 DEF ReceiptRows
<1>3. \A id : id \notin DOMAIN packets => EndsOf(id) = {}
  BY <1>2 DEF EndsOf, TrailOf
<1>4. ASSUME NEW id \in DOMAIN packets'
      PROVE  /\ packets'[id].resolved =>
                  \E e \in TrailOf(id) : EndsOf(id) = {e} /\ \A i \in TrailOf(id) : i <= e
             /\ ~packets'[id].resolved => EndsOf(id) = {}
  <2>1. CASE id \in DOMAIN packets
    <3>1. packets'[id].resolved = packets[id].resolved
      BY <2>1 DEF ResolutionsStay
    <3> QED
      BY <2>1, <3>1, Zenon DEF TrailsEnd
  <2>2. CASE id \notin DOMAIN packets
    BY <1>3, <2>2 DEF PacketsMove
  <2> QED
    BY <2>1, <2>2
<1> QED
  BY <1>1, <1>4, Zenon DEF TrailsEnd

\* A receipt of a launch lengthens the trail of an open handoff.
LEMMA LaunchKeepsTrails ==
  ASSUME NEW S, transitions \in Seq(S), NEW r \in S, transitions' = Append(transitions, r),
         r.kind = "HANDOFF_LAUNCH", r.packet \in DOMAIN packets,
         ~packets[r.packet].resolved,
         TrailsEnd, DOMAIN packets' = DOMAIN packets, ResolutionsStay
  PROVE  TrailsEnd'
<1>1. \A id : EndsOf(id)' = EndsOf(id)
  BY OneMoreOnTrail
<1>2. \A id : id # r.packet => TrailOf(id)' = TrailOf(id)
  BY OneMoreOnTrail
<1>3. \A id \in DOMAIN packets : packets'[id].resolved = packets[id].resolved
  BY DEF ResolutionsStay
<1>4. ASSUME NEW id \in DOMAIN packets
      PROVE  /\ packets'[id].resolved =>
                  \E e \in TrailOf(id)' : EndsOf(id)' = {e} /\ \A i \in TrailOf(id)' : i <= e
             /\ ~packets'[id].resolved => EndsOf(id)' = {}
  <2>1. CASE id = r.packet
    BY <1>1, <1>3, <2>1 DEF TrailsEnd
  <2>2. CASE id # r.packet
    BY <1>1, <1>2, <1>3, <2>2 DEF TrailsEnd
  <2> QED
    BY <2>1, <2>2
<1> QED
  BY <1>4, Zenon DEF TrailsEnd

\* A receipt of a resolution ends the trail of the handoff that is resolved.
LEMMA ResolutionKeepsTrails ==
  ASSUME NEW S, transitions \in Seq(S), NEW r \in S, transitions' = Append(transitions, r),
         r.kind = "HANDOFF_RESOLUTION", r.packet \in DOMAIN packets,
         ~packets[r.packet].resolved, packets'[r.packet].resolved,
         TrailsEnd, DOMAIN packets' = DOMAIN packets,
         \A id \in DOMAIN packets : id # r.packet => packets'[id] = packets[id]
  PROVE  TrailsEnd'
<1> DEFINE n == Len(transitions) + 1
<1>1. \A id : id # r.packet => TrailOf(id)' = TrailOf(id) /\ EndsOf(id)' = EndsOf(id)
  BY OneMoreOnTrail
<1>2. /\ TrailOf(r.packet)' = TrailOf(r.packet) \cup {n}
      /\ EndsOf(r.packet)' = EndsOf(r.packet) \cup {n}
      /\ TrailOf(r.packet) \subseteq 1..Len(transitions) /\ Len(transitions) \in Nat
  BY OneMoreOnTrail
<1>3. EndsOf(r.packet) = {}
  BY DEF TrailsEnd
<1>4. ASSUME NEW id \in DOMAIN packets
      PROVE  /\ packets'[id].resolved =>
                  \E e \in TrailOf(id)' : EndsOf(id)' = {e} /\ \A i \in TrailOf(id)' : i <= e
             /\ ~packets'[id].resolved => EndsOf(id)' = {}
  <2>1. CASE id = r.packet
    <3>1. n \in TrailOf(id)' /\ EndsOf(id)' = {n}
      BY <1>2, <1>3, <2>1
    <3>2. \A i \in TrailOf(id)' : i <= n
      BY <1>2, <2>1
    <3> QED
      BY <2>1, <3>1, <3>2
  <2>2. CASE id # r.packet
    BY <1>1, <2>2 DEF TrailsEnd
  <2> QED
    BY <2>1, <2>2
<1> QED
  BY <1>4, Zenon DEF TrailsEnd

\* A step without a receipt: evidence arrives, is reviewed or acknowledged,
\* or packets move without a resolution.
LEMMA QuietStep ==
  ASSUME AuditInv, PacketsMove, ResolutionsStay, transitions' = transitions,
         evidence' \in Nat, evidence <= evidence', reviewed' \in 0..evidence',
         \/ acks' = acks
         \/ \E g \in GapClasses : acks' = Append(acks, [class |-> g, newest |-> evidence])
  PROVE  AuditInv'
<1> DEFINE S == [class : GapClasses, newest : Nat]
<1>1. /\ transitions \in Seq(ReceiptRows(DOMAIN packets)) /\ evidence \in Nat
      /\ acks \in Seq(S)
  BY AuditTypes DEF AuditInv
<1>2. /\ acks' \in Seq(S) /\ DOMAIN acks \subseteq DOMAIN acks'
      /\ \A a \in DOMAIN acks : acks'[a] = acks[a]
      /\ \A a \in DOMAIN acks' \ DOMAIN acks : acks'[a].newest = evidence
  <2>1. CASE acks' = acks
    BY <1>1, <2>1
  <2>2. ASSUME NEW g \in GapClasses, acks' = Append(acks, [class |-> g, newest |-> evidence])
        PROVE  /\ acks' \in Seq(S) /\ DOMAIN acks \subseteq DOMAIN acks'
               /\ \A a \in DOMAIN acks : acks'[a] = acks[a]
               /\ \A a \in DOMAIN acks' \ DOMAIN acks : acks'[a].newest = evidence
    <3> DEFINE x == [class |-> g, newest |-> evidence]
    <3>1. x \in S /\ x.newest = evidence
      BY <1>1
    <3>2. acks' = Append(acks, x)
      BY <2>2
    <3> HIDE DEF S, x
    <3> QED
      BY <1>1, <3>1, <3>2
  <2> QED
    BY <2>1, <2>2
<1>3. transitions' \in Seq(ReceiptRows(DOMAIN packets'))
  <2>1. ReceiptRows(DOMAIN packets) \subseteq ReceiptRows(DOMAIN packets')
    BY DEF PacketsMove, ReceiptRows
  <2> QED
    BY <1>1, <2>1, LargerSet
<1>4. AuditTypeOK'
  <2>1. {"none"} \cup GapClasses = {"none", "missing_review_marker", "stale_review"}
    BY DEF GapClasses
  <2>2. acks' \in Seq([class : {"missing_review_marker", "stale_review"}, newest : Nat])
    BY <1>2 DEF GapClasses
  <2>3. transitions' \in Seq([kind : {"HANDOFF_LAUNCH", "HANDOFF_RESOLUTION"},
                              packet : DOMAIN packets',
                              before : TransitionSnapshots, after : TransitionSnapshots,
                              gap : {"none", "missing_review_marker", "stale_review"},
                              newest : Nat, acked : BOOLEAN])
    BY <1>3, <2>1, Zenon DEF ReceiptRows
  <2> QED
    BY <2>2, <2>3 DEF AuditTypeOK
<1>5. AcksBehind'
  <2>1. \A a \in DOMAIN acks : acks[a].newest \in Nat /\ acks[a].newest <= evidence
    <3>1. \A a \in DOMAIN acks : acks[a] \in S
      <4> HIDE DEF S
      <4> QED BY <1>1
    <3> QED
      BY <3>1 DEF AuditInv, AcksBehind
  <2>2. \A a \in DOMAIN acks' : acks'[a].newest <= evidence'
    BY <1>1, <1>2, <2>1
  <2> QED
    BY <2>2 DEF AcksBehind
<1>6. ReceiptsTellTheirOwn'
  <2>1. \A i \in DOMAIN transitions : TellsItsOwn(transitions[i])
    BY DEF AuditInv, ReceiptsTellTheirOwn, TellsItsOwn
  <2>2. ASSUME NEW r, TellsItsOwn(r)
        PROVE  TellsItsOwn(r)'
    BY <1>2, <2>2 DEF TellsItsOwn
  <2>3. \A i \in DOMAIN transitions' : TellsItsOwn(transitions[i])'
    BY <2>1, <2>2 DEF TellsItsOwn
  <2> QED
    BY <2>3 DEF ReceiptsTellTheirOwn, TellsItsOwn
<1>7. TrailsEnd'
  BY QuietStepKeepsTrails DEF AuditInv
<1> QED
  BY <1>4, <1>5, <1>6, <1>7 DEF AuditInv

\* A step with a receipt that is a row and tells its own.
LEMMA ReceiptedStep ==
  ASSUME AuditInv, NEW r \in ReceiptRows(DOMAIN packets),
         transitions' = Append(transitions, r), TellsItsOwn(r), TrailsEnd',
         DOMAIN packets' = DOMAIN packets, UNCHANGED <<evidence, reviewed, acks>>
  PROVE  AuditInv'
<1> DEFINE S == ReceiptRows(DOMAIN packets)
<1>1. transitions \in Seq(S)
  BY AuditTypes DEF AuditInv
<1>2. /\ transitions' \in Seq(S)
      /\ DOMAIN transitions' = DOMAIN transitions \cup {Len(transitions) + 1}
      /\ transitions'[Len(transitions) + 1] = r
      /\ \A i \in DOMAIN transitions : transitions'[i] = transitions[i]
  <2> HIDE DEF S
  <2>1. r \in S
    BY DEF S
  <2> QED
    BY <1>1, <2>1, OneMoreReceipt
<1>3. AuditTypeOK'
  <2>1. {"none"} \cup GapClasses = {"none", "missing_review_marker", "stale_review"}
    BY DEF GapClasses
  <2>2. transitions' \in Seq([kind : {"HANDOFF_LAUNCH", "HANDOFF_RESOLUTION"},
                              packet : DOMAIN packets,
                              before : TransitionSnapshots, after : TransitionSnapshots,
                              gap : {"none", "missing_review_marker", "stale_review"},
                              newest : Nat, acked : BOOLEAN])
    BY <1>2, <2>1, Zenon DEF ReceiptRows
  <2> QED
    BY <2>2 DEF AuditTypeOK, AuditInv
<1>4. AcksBehind'
  BY DEF AcksBehind, AuditInv
<1>5. ReceiptsTellTheirOwn'
  <2>1. \A i \in DOMAIN transitions : TellsItsOwn(transitions[i])
    BY DEF AuditInv, ReceiptsTellTheirOwn, TellsItsOwn
  <2>2. \A i \in DOMAIN transitions' : TellsItsOwn(transitions'[i])
    BY <1>2, <2>1
  <2>3. acks' = acks
    OBVIOUS
  <2> QED
    BY <2>2, <2>3 DEF ReceiptsTellTheirOwn, TellsItsOwn
<1> QED
  BY <1>3, <1>4, <1>5 DEF AuditInv

\* The receipt of a launch of an open handoff.
LEMMA LaunchReceipted ==
  ASSUME AuditInv, NEW id \in DOMAIN packets, ~packets[id].resolved,
         DOMAIN packets' = DOMAIN packets, ResolutionsStay,
         UNCHANGED <<evidence, reviewed, acks>>,
         NEW before \in TransitionSnapshots, NEW after \in TransitionSnapshots,
         before.ref = id, after.ref = id, before.state = "LAUNCH_PENDING_OUTCOME",
         after.state \in {"LAUNCH_COMPLETED", "LAUNCH_FAILED_RETRYABLE", "FOLLOW_THROUGH"},
         transitions' = Append(transitions, Receipt("HANDOFF_LAUNCH", id, before, after))
  PROVE  AuditInv'
<1> DEFINE r == Receipt("HANDOFF_LAUNCH", id, before, after)
<1>1. /\ AuditTypeOK /\ AcksBehind /\ TrailsEnd
      /\ transitions \in Seq(ReceiptRows(DOMAIN packets))
  BY AuditTypes DEF AuditInv
<1>2. /\ r \in ReceiptRows(DOMAIN packets)
      /\ r.kind = "HANDOFF_LAUNCH" /\ r.packet = id
      /\ r.before = before /\ r.after = after
      /\ r.acked =>
           \E a \in DOMAIN acks : acks[a] = [class |-> r.gap, newest |-> r.newest]
  BY <1>1, ReceiptRow
<1> HIDE DEF r
<1>3. TellsItsOwn(r)
  BY <1>2 DEF TellsItsOwn
<1>4. transitions' = Append(transitions, r)
  BY DEF r
<1>5. TrailsEnd'
  BY <1>1, <1>2, <1>4, LaunchKeepsTrails
<1> QED
  BY <1>2, <1>3, <1>4, <1>5, ReceiptedStep

\* A step of the task with its evidence and its receipts keeps the invariant.
LEMMA AuditStepKeepsInvariant ==
  ASSUME ConsistencyInv, ConsistencyInv', AuditInv, [AuditNext]_auditVars
  PROVE  AuditInv'
<1>0. /\ TaskInv /\ TaskInv' /\ TypeOK /\ TypeOK' /\ AuditTypeOK /\ AcksBehind /\ TrailsEnd
      /\ transitions \in Seq(ReceiptRows(DOMAIN packets))
      /\ evidence \in Nat /\ reviewed \in Nat /\ reviewed <= evidence
  BY AuditTypes DEF ConsistencyInv, LocalInv, TaskInv, AuditInv
<1>1. /\ Snapshot(db) \in TransitionSnapshots /\ Snapshot(db)' \in TransitionSnapshots
      /\ Snapshot(db).ref = ActiveHandoff(db)
  BY <1>0, SnapshotShows, SnapshotShowsNext
<1>2. ASSUME PacketsMove, ResolutionsStay, UNCHANGED trail
      PROVE  AuditInv'
  BY <1>0, <1>2, QuietStep DEF trail
<1>3. ASSUME NEW l \in launches, FinishLaunch(l)
      PROVE  AuditInv'
  <2>0. UNCHANGED <<evidence, reviewed, acks>> /\ FinalizeHandoffLaunch(l)
    BY <1>3 DEF FinishLaunch, RecordReceipt
  <2>1. /\ l.packet \in DOMAIN packets /\ DOMAIN packets' = DOMAIN packets
        /\ PacketsMove /\ ResolutionsStay
    <3>1. [Next]_vars
      BY <2>0 DEF Next, HandoffStep
    <3> QED
      BY <1>0, <2>0, <3>1, OutcomeRecorded, EveryPacketsMove DEF ResolutionsStay
  <2>2. CASE transitions' = transitions
    BY <1>2, <2>0, <2>1, <2>2 DEF trail
  <2>3. CASE /\ transitions' = Append(transitions,
                  Receipt("HANDOFF_LAUNCH", l.packet, Snapshot(db), Snapshot(db)'))
             /\ Snapshot(db).ref = l.packet /\ Snapshot(db)'.ref = l.packet
             /\ Snapshot(db).state = "LAUNCH_PENDING_OUTCOME"
             /\ Snapshot(db)'.state \in {"LAUNCH_COMPLETED", "LAUNCH_FAILED_RETRYABLE",
                                         "FOLLOW_THROUGH"}
    <3>1. ActiveHandoff(db) = l.packet /\ l.packet # 0
      BY <1>0, <1>1, <2>1, <2>3 DEF TypeOK
    <3>2. l.packet \in ActivePackets(db)
      BY <1>0, <3>1, ActiveHandoffType
    <3>3. ~packets[l.packet].resolved
      BY <3>2 DEF ActivePackets, db
    <3> QED
      BY <1>1, <2>0, <2>1, <2>3, <3>3, LaunchReceipted
  <2> QED
    BY <1>3, <2>2, <2>3, LaunchReceipt
<1>4. CASE Resolve
  <2> DEFINE k == ActiveHandoff(db)
             before == Snapshot(db)
             after == Snapshot(db)'
             r == Receipt("HANDOFF_RESOLUTION", k, before, after)
  <2>0. UNCHANGED <<evidence, reviewed, acks>> /\ RecordHandoffResolution
    BY <1>4 DEF Resolve, RecordReceipt
  <2>1. /\ k \in DOMAIN packets /\ DOMAIN packets' = DOMAIN packets
        /\ ~packets[k].resolved /\ packets'[k].resolved
        /\ \A id \in DOMAIN packets : id # k => packets'[id] = packets[id]
    BY <1>0, <2>0, ResolutionRecorded
  <2>2. /\ transitions' = Append(transitions, r)
        /\ before.ref = k /\ after.ref # k
    BY <1>0, <1>4, ResolutionReceipt
  <2>3. before \in TransitionSnapshots /\ after \in TransitionSnapshots
    BY <1>1
  <2> HIDE DEF k, before, after
  <2>4. /\ r \in ReceiptRows(DOMAIN packets)
        /\ r.kind = "HANDOFF_RESOLUTION" /\ r.packet = k
        /\ r.before = before /\ r.after = after
        /\ r.acked =>
             \E a \in DOMAIN acks : acks[a] = [class |-> r.gap, newest |-> r.newest]
    BY <1>0, <2>1, <2>3, ReceiptRow
  <2> HIDE DEF r
  <2>5. TellsItsOwn(r)
    BY <2>2, <2>4 DEF TellsItsOwn
  <2>6. TrailsEnd'
    BY <1>0, <2>1, <2>2, <2>4, ResolutionKeepsTrails
  <2> QED
    BY <2>0, <2>1, <2>2, <2>4, <2>5, <2>6, ReceiptedStep
<1>5. CASE OtherHandoffStep /\ UNCHANGED trail
  BY <1>0, <1>2, <1>5, OtherHandoffMoves
<1>6. CASE (LocalMutationStep \/ DaemonCrash) /\ UNCHANGED trail
  <2>1. packets' = packets
    BY <1>6, OthersKeepHandoffs DEF DaemonCrash, database
  <2>2. PacketsMove /\ ResolutionsStay
    BY <2>1 DEF PacketsMove, ResolutionsStay
  <2> QED
    BY <1>2, <1>6, <2>2
<1>7. CASE EvidenceArrives \/ ReviewEvidence \/ AcknowledgeGap \/ UNCHANGED auditVars
  <2>1. packets' = packets /\ transitions' = transitions
    BY <1>7 DEF EvidenceArrives, ReviewEvidence, AcknowledgeGap, auditVars, trail, vars
  <2>2. PacketsMove /\ ResolutionsStay
    BY <2>1 DEF PacketsMove, ResolutionsStay
  <2>3. /\ evidence' \in Nat /\ evidence <= evidence' /\ reviewed' \in 0..evidence'
    BY <1>0, <1>7 DEF EvidenceArrives, ReviewEvidence, AcknowledgeGap, auditVars, trail
  <2>4. \/ acks' = acks
        \/ \E g \in GapClasses : acks' = Append(acks, [class |-> g, newest |-> evidence])
    <3>1. Gap \in {"none"} \cup GapClasses
      BY <1>0, AuditTypes
    <3> QED
      BY <1>7, <3>1 DEF EvidenceArrives, ReviewEvidence, AcknowledgeGap, auditVars, trail
  <2> QED
    BY <2>1, <2>2, <2>3, <2>4, QuietStep
<1> QED
  BY <1>3, <1>4, <1>5, <1>6, <1>7 DEF AuditNext

\* AuditInv holds from the start of the task on.
LEMMA AuditInvariance == AuditSpec => []AuditInv
<1>1. AuditInit => AuditInv
  <2> SUFFICES ASSUME AuditInit PROVE AuditInv
    OBVIOUS
  <2>1. transitions = <<>> /\ packets = <<>> /\ acks = <<>> /\ evidence = 0 /\ reviewed = 0
    BY DEF AuditInit, Init, StartTask
  <2>2. DOMAIN transitions = {} /\ DOMAIN packets = {} /\ DOMAIN acks = {}
    BY <2>1
  <2>3. AuditTypeOK
    <3>1. \A S : <<>> \in Seq(S)
      OBVIOUS
    <3> QED
      BY <2>1, <3>1 DEF AuditTypeOK
  <2> QED
    BY <2>2, <2>3 DEF AuditInv, AcksBehind, ReceiptsTellTheirOwn, TrailsEnd
<1>2. ConsistencyInv /\ ConsistencyInv' /\ AuditInv /\ [AuditNext]_auditVars => AuditInv'
  BY AuditStepKeepsInvariant
<1> QED
  BY <1>1, <1>2, AuditedTaskIsTask, ConsistencyInvariance, PTL DEF AuditSpec

\* The receipts of a task are rows of their table, about packets that exist.
THEOREM AuditTypeCorrect == AuditSpec => []AuditTypeOK
<1>1. AuditInv => AuditTypeOK
  BY DEF AuditInv
<1> QED
  BY <1>1, AuditInvariance, PTL

\* A receipt is about the handoff it names, shows the launch that was
\* pending, and counts a review gap as acknowledged only if all its evidence
\* was (recordContinuityTransitionReceipt, captureContinuityTransitionSnapshot).
THEOREM ReceiptsAreTrue == AuditSpec => []ReceiptsTellTheirOwn
<1>1. AuditInv => ReceiptsTellTheirOwn
  BY DEF AuditInv
<1> QED
  BY <1>1, AuditInvariance, PTL

\* A resolution has exactly one receipt, and no receipt of its handoff
\* follows it, whatever launch ends later (RecordHandoffResolution,
\* finalizeHandoffLaunch).
THEOREM TrailsEndOnce == AuditSpec => []ResolutionEndsTheTrail
<1>1. AuditInv => ResolutionEndsTheTrail
  <2> SUFFICES ASSUME TrailsEnd, NEW id \in DOMAIN packets
               PROVE  /\ packets[id].resolved => Cardinality(EndsOf(id)) = 1
                      /\ ~packets[id].resolved => EndsOf(id) = {}
                      /\ \A e \in EndsOf(id), i \in TrailOf(id) : i <= e
    BY DEF AuditInv, ResolutionEndsTheTrail, EndsOf, TrailOf
  <2>1. CASE packets[id].resolved
    <3>1. PICK e \in TrailOf(id) : EndsOf(id) = {e} /\ \A i \in TrailOf(id) : i <= e
      BY <2>1 DEF TrailsEnd
    <3>2. Cardinality({e}) = 1
      BY FS_Singleton
    <3> QED
      BY <2>1, <3>1, <3>2
  <2>2. CASE ~packets[id].resolved
    BY <2>2 DEF TrailsEnd
  <2> QED
    BY <2>1, <2>2
<1> QED
  BY <1>1, AuditInvariance, PTL

----------------------------------------------------------------------------
(***************************************************************************)
(* OperatorStep: what the plan offers.                                     *)
(***************************************************************************)
\* The order the plan looks for an allowed action in.
PlanOrder(d) ==
  IF ClaudeOwnsBranch(d) THEN HandoffOrder \o LocalOrder
  ELSE LocalOrder \o
       <<"LAUNCH_ACCEPTED_HANDOFF", "RESOLVE_ACTIVE_HANDOFF",
         "REVIEW_HANDOFF_FOLLOW_THROUGH">>

\* The actions in it.
PlannedActions ==
  {"RESUME_INTERRUPTED_LINEAGE", "FINALIZE_CONTINUE_RECOVERY",
   "START_LOCAL_RUN", "RECONCILE_STALE_RUN", "INSPECT_FAILED_RUN",
   "EXECUTE_REBRIEF", "LOCAL_MESSAGE_MUTATION", "CREATE_CHECKPOINT",
   "RESOLVE_ACTIVE_HANDOFF", "LAUNCH_ACCEPTED_HANDOFF",
   "REVIEW_HANDOFF_FOLLOW_THROUGH"}

\* It is a sequence of actions.
LEMMA PlanOrderType ==
  ASSUME NEW d
  PROVE  PlanOrder(d) \in Seq(PlannedActions)
<1>1. LocalOrder \in Seq(PlannedActions) /\ HandoffOrder \in Seq(PlannedActions)
  BY DEF LocalOrder, HandoffOrder, PlannedActions
<1>2. <<"LAUNCH_ACCEPTED_HANDOFF", "RESOLVE_ACTIVE_HANDOFF",
         "REVIEW_HANDOFF_FOLLOW_THROUGH">> \in Seq(PlannedActions)
  BY DEF PlannedActions
<1> QED
  BY <1>1, <1>2 DEF PlanOrder

\* The primary step is the required action or an allowed one.
LEMMA PrimaryStep ==
  ASSUME NEW d, NEW anchor, NEW action, action = primaryExecutionStep(d, anchor)
  PROVE  \/ action = "NONE"
         \/ action = RequiredNext(d, anchor)
         \/ /\ RequiredNext(d, anchor) = "NONE"
            /\ action \in PlannedActions /\ Authority(d, anchor, action) = "ALLOWED"
<1> DEFINE order == PlanOrder(d)
           offers == {i \in DOMAIN order : Authority(d, anchor, order[i]) = "ALLOWED"}
           k == CHOOSE i \in offers : \A j \in offers : i <= j
<1>1. action = IF RequiredNext(d, anchor) # "NONE" THEN RequiredNext(d, anchor)
               ELSE IF offers # {} THEN order[k] ELSE "NONE"
  BY DEF primaryExecutionStep, PlanOrder
<1>2. order \in Seq(PlannedActions)
  BY PlanOrderType
<1> HIDE DEF order
<1>3. ASSUME offers # {}
      PROVE  k \in offers
  <2>1. offers \subseteq Nat
    BY <1>2
  <2>2. \E i \in offers : \A j \in offers : i <= j
    BY <1>3, <2>1, LeastNatural
  <2> QED
    BY <2>2
<1> HIDE DEF k
<1>4. offers # {} => order[k] \in PlannedActions /\ Authority(d, anchor, order[k]) = "ALLOWED"
  BY <1>2, <1>3
<1> QED
  BY <1>1, <1>4

\* The classes of a task with an active handoff.
HandoffClasses ==
  {"ACCEPTED_HANDOFF_LAUNCH_READY", "HANDOFF_LAUNCH_PENDING_OUTCOME",
   "HANDOFF_LAUNCH_COMPLETED", "HANDOFF_FOLLOW_THROUGH_REVIEW_REQUIRED"}

\* The classes of a task, before and after the latest recovery action.
LEMMA Classes ==
  ASSUME NEW d, NEW anchor
  PROVE  /\ BaseClass(d, anchor) \in RecoveryClasses
         /\ RecoveryClass(d, anchor) \in RecoveryClasses
         /\ RecoveryClass(d, anchor) \in HandoffClasses \cup {"READY_NEXT_RUN"} =>
              BaseClass(d, anchor) = RecoveryClass(d, anchor)
         /\ BaseClass(d, anchor) \in HandoffClasses \cup {"READY_NEXT_RUN"} =>
              /\ ContinueOutcome(d, anchor) = "Safe"
              /\ BaseClass(d, anchor) = SafeClass(d)
<1>1. ContinueOutcome(d, anchor) \in
        {"BlockedInconsistent", "StaleReconciled", "BlockedDrift", "NeedsDecision", "Safe"}
  BY DEF ContinueOutcome
<1>2. LocalClass(d) \in RecoveryClasses \ HandoffClasses
  BY DEF LocalClass, InterruptedClass, RecoveryClasses, HandoffClasses
<1>3. \A id : HandoffClass(d, id) \in RecoveryClasses
  BY DEF HandoffClass, RecoveryClasses
<1>4. SafeClass(d) \in RecoveryClasses
  BY <1>2, <1>3 DEF SafeClass
<1>5. BaseClass(d, anchor) \in RecoveryClasses
  BY <1>4 DEF BaseClass, RecoveryClasses
<1>6. BaseClass(d, anchor) \in HandoffClasses \cup {"READY_NEXT_RUN"} =>
        /\ ContinueOutcome(d, anchor) = "Safe"
        /\ BaseClass(d, anchor) = SafeClass(d)
  BY <1>1 DEF BaseClass, HandoffClasses
<1>7. ASSUME NEW class \in RecoveryClasses
      PROVE  \/ applyRecoveryActionProgression(d, class) = class
             \/ applyRecoveryActionProgression(d, class) \in
                  {"DECISION_REQUIRED", "CONTINUE_EXECUTION_REQUIRED", "REBRIEF_REQUIRED"}
  BY DEF applyRecoveryActionProgression
<1>8. \/ RecoveryClass(d, anchor) = BaseClass(d, anchor)
      \/ RecoveryClass(d, anchor) \in
           {"DECISION_REQUIRED", "CONTINUE_EXECUTION_REQUIRED", "REBRIEF_REQUIRED"}
  BY <1>5, <1>7 DEF RecoveryClass
<1> QED
  BY <1>5, <1>6, <1>8 DEF RecoveryClasses, HandoffClasses

\* The classes only a recovery action leads to, and the one it leads away from.
LEMMA ActionClasses ==
  ASSUME NEW d, NEW anchor
  PROVE  /\ RecoveryClass(d, anchor) = "CONTINUE_EXECUTION_REQUIRED" =>
              d.act.kind \in {"DECISION_CONTINUE", "INTERRUPTED_RESUME_EXECUTED"}
         /\ RecoveryClass(d, anchor) = "REBRIEF_REQUIRED" =>
              d.act.kind = "DECISION_REGENERATE_BRIEF"
         /\ RecoveryClass(d, anchor) = "INTERRUPTED_RUN_RECOVERABLE" =>
              d.act.kind # "INTERRUPTED_RESUME_EXECUTED"
<1>1. /\ LocalClass(d) \notin {"CONTINUE_EXECUTION_REQUIRED", "REBRIEF_REQUIRED"}
      /\ \A id : HandoffClass(d, id) \notin {"CONTINUE_EXECUTION_REQUIRED", "REBRIEF_REQUIRED"}
  BY DEF LocalClass, InterruptedClass, HandoffClass
<1>2. BaseClass(d, anchor) \notin {"CONTINUE_EXECUTION_REQUIRED", "REBRIEF_REQUIRED"}
  BY <1>1 DEF BaseClass, SafeClass
<1>3. ASSUME NEW class, class \notin {"CONTINUE_EXECUTION_REQUIRED", "REBRIEF_REQUIRED"}
      PROVE  /\ applyRecoveryActionProgression(d, class) = "CONTINUE_EXECUTION_REQUIRED" =>
                  d.act.kind \in {"DECISION_CONTINUE", "INTERRUPTED_RESUME_EXECUTED"}
             /\ applyRecoveryActionProgression(d, class) = "REBRIEF_REQUIRED" =>
                  d.act.kind = "DECISION_REGENERATE_BRIEF"
             /\ applyRecoveryActionProgression(d, class) = "INTERRUPTED_RUN_RECOVERABLE" =>
                  d.act.kind # "INTERRUPTED_RESUME_EXECUTED"
  BY <1>3 DEF applyRecoveryActionProgression
<1> QED
  BY <1>2, <1>3 DEF RecoveryClass, briefReadyRecoveryOverride

\* A class of handoffs is that of an active, resumable one.
LEMMA HandoffClassOf ==
  ASSUME NEW d, NEW anchor, RecoveryClass(d, anchor) \in HandoffClasses
  PROVE  /\ ContinueOutcome(d, anchor) = "Safe"
         /\ ActiveHandoff(d) # 0 /\ d.packets[ActiveHandoff(d)].resumable
         /\ RecoveryClass(d, anchor) = HandoffClass(d, ActiveHandoff(d))
<1>1. /\ ContinueOutcome(d, anchor) = "Safe"
      /\ RecoveryClass(d, anchor) = SafeClass(d)
  BY Classes
<1>2. LocalClass(d) \notin HandoffClasses
  BY DEF LocalClass, InterruptedClass, HandoffClasses
<1> QED
  BY <1>1, <1>2 DEF SafeClass

\* A step that is executed for the task is the required one, except a resolution.
LEMMA DispatchedIsRequired ==
  ASSUME NEW d, NEW anchor, NEW action, action = primaryExecutionStep(d, anchor),
         action \in DispatchedActions, action # "RESOLVE_ACTIVE_HANDOFF"
  PROVE  action = RequiredNext(d, anchor)
<1> SUFFICES ASSUME RequiredNext(d, anchor) = "NONE",
                    Authority(d, anchor, action) = "ALLOWED"
             PROVE  FALSE
  BY PrimaryStep DEF DispatchedActions
<1> DEFINE class == RecoveryClass(d, anchor)
<1>1. class \in {"HANDOFF_LAUNCH_PENDING_OUTCOME", "HANDOFF_LAUNCH_COMPLETED"}
  <2>1. class \in RecoveryClasses
    BY Classes
  <2> QED
    BY <2>1 DEF RequiredNext, operatorActionFromRecovery, RecoveryClasses
<1>2. assessHandoffContinuity(d, ActiveHandoff(d)) \notin
        {"ACCEPTED_NOT_LAUNCHED", "LAUNCH_FAILED_RETRYABLE"}
  BY <1>1, HandoffClassOf DEF HandoffClasses, HandoffClass
<1>3. operatorActionFromRecovery(class) = "NONE"
  BY DEF RequiredNext
<1>4. CASE action = "LAUNCH_ACCEPTED_HANDOFF"
  BY <1>2, <1>3, <1>4 DEF Authority, HandoffAuthority, LocalActions
<1>5. CASE action \in LocalActions
  <2>1. action \in {"START_LOCAL_RUN", "EXECUTE_REBRIEF", "RESUME_INTERRUPTED_LINEAGE",
                    "FINALIZE_CONTINUE_RECOVERY"}
    BY <1>5 DEF DispatchedActions, LocalActions
  <2>2. LocalAuthority(d, class, action) = "ALLOWED"
    BY <1>3, <1>5, <2>1 DEF Authority
  <2>3. deriveLocalResumeAuthority(d, class) \in {"BLOCKED", "NONE"}
    BY <1>1 DEF deriveLocalResumeAuthority
  <2>4. ~AllowedByClass(action, class)
    BY <1>3, <2>1 DEF AllowedByClass
  <2> QED
    BY <2>1, <2>2, <2>3, <2>4 DEF LocalAuthority
<1> QED
  BY <1>4, <1>5 DEF DispatchedActions, LocalActions

\* A resolution is offered for an active handoff in a state that can be resolved.
LEMMA OfferedResolution ==
  ASSUME NEW d, NEW anchor, primaryExecutionStep(d, anchor) = "RESOLVE_ACTIVE_HANDOFF"
  PROVE  /\ ActiveHandoff(d) # 0
         /\ assessHandoffContinuity(d, ActiveHandoff(d)) # "NOT_APPLICABLE"
<1>1. RequiredNext(d, anchor) # "RESOLVE_ACTIVE_HANDOFF"
  BY DEF RequiredNext, operatorActionFromRecovery
<1>2. /\ Authority(d, anchor, "RESOLVE_ACTIVE_HANDOFF") = "ALLOWED"
      /\ RequiredNext(d, anchor) = "NONE"
  BY <1>1, PrimaryStep
<1> QED
  BY <1>2 DEF Authority, HandoffAuthority, LocalActions, ClaudeOwnsBranch, RequiredNext

\* The class the task is in when a step is offered.
LEMMA OfferedClass ==
  ASSUME NEW d, NEW anchor, NEW action, action = primaryExecutionStep(d, anchor)
  PROVE  LET class == RecoveryClass(d, anchor)
         IN /\ action = "START_LOCAL_RUN" => class = "READY_NEXT_RUN"
            /\ action = "RESUME_INTERRUPTED_LINEAGE" => class = "INTERRUPTED_RUN_RECOVERABLE"
            /\ action = "FINALIZE_CONTINUE_RECOVERY" => class = "CONTINUE_EXECUTION_REQUIRED"
            /\ action = "EXECUTE_REBRIEF" => class = "REBRIEF_REQUIRED"
            /\ action = "LAUNCH_ACCEPTED_HANDOFF" => class = "ACCEPTED_HANDOFF_LAUNCH_READY"
<1>1. action \in DispatchedActions /\ action # "RESOLVE_ACTIVE_HANDOFF" =>
        action = operatorActionFromRecovery(RecoveryClass(d, anchor))
  BY DispatchedIsRequired DEF RequiredNext
<1> QED
  BY <1>1 DEF DispatchedActions, operatorActionFromRecovery

\* A step about a handoff is offered only while one is active.
LEMMA OfferedHandoff ==
  ASSUME NEW d, NEW anchor,
         primaryExecutionStep(d, anchor) \in
           {"LAUNCH_ACCEPTED_HANDOFF", "RESOLVE_ACTIVE_HANDOFF"}
  PROVE  ActiveHandoff(d) # 0
  BY OfferedResolution, OfferedClass, HandoffClassOf DEF HandoffClasses

\* What the plan says has the type of an action.
LEMMA PlanType ==
  ASSUME NEW d, NEW anchor
  PROVE  primaryExecutionStep(d, anchor) \in OperatorActions \cup {"NONE"}
<1>1. RequiredNext(d, anchor) \in OperatorActions \cup {"NONE"}
  BY DEF RequiredNext, operatorActionFromRecovery, OperatorActions, LocalActions
<1>2. PlannedActions \subseteq OperatorActions
  BY DEF PlannedActions, OperatorActions, LocalActions
<1> QED
  BY <1>1, <1>2, PrimaryStep

\* In a consistent state an operation accepts what the plan offers.
LEMMA PlanAgrees ==
  ASSUME ConsistencyInv
  PROVE  OfferedStepsAreAccepted
<1> DEFINE action == primaryExecutionStep(db, repo)
           id     == ActiveHandoff(db)
<1>0. TypeOK /\ PacketsAreSound /\ db.packets = packets /\ db.caps = caps /\ db.act = act
  BY DEF ConsistencyInv, LocalInv, TaskInv, db
<1>1. ASSUME action = "START_LOCAL_RUN"
      PROVE  caps.brief # 0 /\ runStartEligibility(db, repo)
  <2>1. RecoveryClass(db, repo) = "READY_NEXT_RUN"
    BY <1>1, OfferedClass
  <2>2. ContinueOutcome(db, repo) = "Safe"
    BY <2>1, ReadyClass
  <2>3. validateContinuitySnapshot(db) = {}
    BY <2>2 DEF ContinueOutcome
  <2>4. db.caps.brief # 0
    BY <2>3 DEF validateContinuitySnapshot, When
  <2> QED
    BY <1>0, <2>1, <2>4 DEF runStartEligibility
<1>2. ASSUME action \in RecoveryAction
      PROVE  RecoveryGate(action)
  BY <1>0, <1>2, OfferedClass, ActionClasses DEF RecoveryAction, RecoveryGate
<1>3. ASSUME action = "LAUNCH_ACCEPTED_HANDOFF"
      PROVE  LaunchRetryable(id) /\ LaunchSafe(id)
  <2>1. RecoveryClass(db, repo) = "ACCEPTED_HANDOFF_LAUNCH_READY"
    BY <1>3, OfferedClass
  <2>2. /\ ContinueOutcome(db, repo) = "Safe"
        /\ id # 0 /\ packets[id].resumable
        /\ HandoffClass(db, id) = "ACCEPTED_HANDOFF_LAUNCH_READY"
    BY <1>0, <2>1, HandoffClassOf DEF HandoffClasses
  <2>3. assessHandoffContinuity(db, id) \in {"ACCEPTED_NOT_LAUNCHED", "LAUNCH_FAILED_RETRYABLE"}
    BY <2>2 DEF HandoffClass
  <2>4. id \in DOMAIN packets /\ ~packets[id].resolved
    BY <1>0, <2>2, ActiveHandoffType DEF ActivePackets
  <2>5. packets[id].cp.resumable /\ packets[id].brief = packets[id].cp.brief
    BY <1>0, <2>2, <2>4 DEF PacketsAreSound, SoundPacket
  <2>6. LaunchRetryable(id)
    BY <1>0, <2>2, <2>3 DEF LaunchRetryable, assessHandoffContinuity
  <2> QED
    BY <2>2, <2>4, <2>5, <2>6 DEF LaunchSafe
<1>4. ASSUME action = "RESOLVE_ACTIVE_HANDOFF"
      PROVE  assessHandoffContinuity(db, id) # "NOT_APPLICABLE"
  BY <1>4, OfferedResolution
<1> QED
  BY <1>1, <1>2, <1>3, <1>4 DEF OfferedStepsAreAccepted

----------------------------------------------------------------------------
(***************************************************************************)
(* OperatorStep: the step under way and its receipts.                      *)
(***************************************************************************)
\* What a receipt, or the step it will be written of, calls a success.
Succeeded(r) ==
  r.class = "SUCCEEDED" =>
    /\ r.run # 0 => r.run \in DOMAIN runs /\ runs[r.run].status # "RUNNING"
    /\ r.action = "LAUNCH_ACCEPTED_HANDOFF" =>
         r.handoff \in DOMAIN packets /\ packets[r.handoff].launch = "COMPLETED"
    /\ r.action = "RESOLVE_ACTIVE_HANDOFF" =>
         r.handoff \in DOMAIN packets /\ packets[r.handoff].resolved

\* The steps that are about a handoff.
HandoffActions == {"LAUNCH_ACCEPTED_HANDOFF", "RESOLVE_ACTIVE_HANDOFF"}

\* What a step has in its hands at each of its stages.
StageInv ==
  /\ step.stage \in {"idle", "planned", "assessed", "launching"} => step.run = 0
  /\ step.stage = "planned" /\ step.action \in HandoffActions =>
       step.handoff \in DOMAIN packets
  /\ step.stage = "assessed" => step.action \in RecoveryAction
  /\ step.stage = "running" =>
       step.action = "START_LOCAL_RUN" /\ step.run \in DOMAIN runs
  /\ step.stage = "launching" =>
       /\ step.action = "LAUNCH_ACCEPTED_HANDOFF"
       /\ [packet |-> step.handoff, attempt |-> step.attempt] \in launches
  /\ step.stage = "resulted" => step.class \in ResultClasses /\ Succeeded(step)

\* The resolution the task remembers is that of a resolved packet.
LastResolved ==
  lastRes # 0 => lastRes \in DOMAIN packets /\ packets[lastRes].resolved

\* Every receipt does.
ReceiptsHold == \A i \in DOMAIN receipts : Succeeded(receipts[i])

\* The inductive invariant, next to TaskInv.
StepInv == StepTypeOK /\ StageInv /\ LastResolved /\ ReceiptsHold

\* Every step of the operator, and every step beside it, is one of TaskControl.
LEMMA OperatorStepIsTaskStep ==
  ASSUME TaskInv, StageInv, StepTypeOK, [StepNext]_stepVars
  PROVE  [Next]_vars
<1>1. CASE PlanStep \/ StartLocalRunBlocked \/ RecoveryRejected \/ LaunchAnswered
           \/ ResolveAnswered \/ RecordOperatorStepReceipt \/ UNCHANGED stepVars
  BY <1>1 DEF PlanStep, StartLocalRunBlocked, RecoveryRejected, LaunchAnswered,
              ResolveAnswered, RecordOperatorStepReceipt, stepVars
<1>2. CASE StartLocalRun
  BY <1>2 DEF StartLocalRun, RunStep, Next
<1>3. CASE LocalRunReturns \/ LocalRunLost
  <2>1. step.run \in DOMAIN runs /\ (FinalizeRealRun(step.run) \/ FinalizeRealRunRefused(step.run))
    BY <1>3 DEF LocalRunReturns, LocalRunLost, StageInv
  <2> QED
    BY <2>1 DEF RunStep, Next
<1>4. CASE DispatchRecovery \/ CommitRecovery \/ RecoveryFailed
  <2>1. Operator \in Clients
    BY OperatorAssumption
  <2>2. RecoveryStep
    BY <1>4, <2>1 DEF DispatchRecovery, CommitRecovery, RecoveryFailed, RecoveryStep
  <2> QED
    BY <2>2 DEF Next
<1>5. CASE LaunchAcceptedHandoff
  BY <1>5 DEF LaunchAcceptedHandoff, Planned, StageInv, HandoffActions, HandoffStep, Next
<1>6. CASE LaunchReturns
  BY <1>6 DEF LaunchReturns, StageInv, HandoffStep, Next
<1>7. CASE ResolveActiveHandoff
  BY <1>7 DEF ResolveActiveHandoff, HandoffStep, Next
<1>8. CASE OthersStep \/ CrashDuringStep
  BY <1>8 DEF OthersStep, CrashDuringStep, Next
<1> QED
  BY <1>1, <1>2, <1>3, <1>4, <1>5, <1>6, <1>7, <1>8 DEF StepNext, OwnStep

\* The row of the latest resolution is that of a resolved packet.
LEMMA LastResolvedStays ==
  ASSUME TaskInv, LastResolved, [Next]_vars
  PROVE  LastResolved'
<1>1. CASE lastRes' = lastRes
  BY <1>1, EveryPacketsMove DEF LastResolved, PacketsMove
<1>2. CASE RecordHandoffResolution
  <2>1. /\ lastRes' = ActiveHandoff(db) /\ ActiveHandoff(db) \in DOMAIN packets'
        /\ packets'[ActiveHandoff(db)].resolved
    BY <1>2, ResolutionRecorded
  <2> QED
    BY <2>1 DEF LastResolved
<1>3. lastRes' = lastRes \/ RecordHandoffResolution
  <2>1. CASE LocalMutationStep
    BY <2>1 DEF LocalMutationStep, PreflightMutation, MessageTask, CreateCheckpoint, database
  <2>2. CASE RunStep
    BY <2>2 DEF RunStep, PrepareRealRun, StartRunNoop, StartRunNoopInterrupted,
                FinalizeRealRun, FinalizeRealRunRefused, ManualRunAction, database
  <2>3. CASE ContinueStep
    BY <2>3 DEF ContinueStep, AssessContinue, FinalizeContinue, database
  <2>4. CASE RecoveryStep
    BY <2>4 DEF RecoveryStep, AssessRecord, AssessRebrief, AssessResume,
                AssessFinalize, Assessed, RecordRecoveryAction, ExecuteRebrief,
                ExecuteInterruptedResume, ExecuteContinueRecovery, ClearBrief,
                RefuseStaleRecovery, database
  <2>5. CASE HandoffStep
    BY <2>5 DEF HandoffStep, AssessHandoff, CreateHandoffNothing, CreateHandoff,
                AcceptHandoff, PrepareHandoffLaunch, FinalizeHandoffLaunch,
                RecordHandoffFollowThrough, database
  <2>6. CASE RepositoryChanges \/ DaemonCrash \/ UNCHANGED vars
    BY <2>6 DEF RepositoryChanges, DaemonCrash, database, vars
  <2> QED
    BY <2>1, <2>2, <2>3, <2>4, <2>5, <2>6 DEF Next
<1> QED
  BY <1>1, <1>2, <1>3

\* Runs are never deleted, and what ended stays ended.
LEMMA EveryRunsMove ==
  ASSUME TaskInv, [Next]_vars
  PROVE  /\ DOMAIN runs \subseteq DOMAIN runs'
         /\ \A i \in DOMAIN runs : runs[i].status # "RUNNING" => runs'[i] = runs[i]
<1>0. TypeOK /\ runs \in Seq(Runs) /\ OnlyLatestRunning /\ RunsChange
  BY StepKeepsInvariant DEF TaskInv, TypeOK
<1>1. CASE runs' = runs
  BY <1>1
<1>2. ASSUME NEW r \in Runs, runs' = Append(runs, r)
      PROVE  DOMAIN runs \subseteq DOMAIN runs'
  BY <1>0, <1>2
<1>3. ASSUME NEW id \in DOMAIN runs, NEW status \in EndStatuses, runs' = EndRun(id, status)
      PROVE  DOMAIN runs' = DOMAIN runs
  BY <1>0, <1>3, EndRunType DEF EndStatuses, RunStatuses
<1>4. \A status \in {"RUNNING", "INTERRUPTED"}, brief \in Nat :
        [status |-> status, brief |-> brief] \in Runs
  BY DEF Runs, RunStatuses
<1>5. DOMAIN runs \subseteq DOMAIN runs'
  BY <1>0, <1>1, <1>2, <1>3, <1>4 DEF RunsChange
<1> QED
  BY <1>0, <1>5, RunsChangeKeepsLedger

\* A success stays one.
LEMMA SuccessStays ==
  ASSUME TaskInv, [Next]_vars, NEW r, Succeeded(r)
  PROVE  r.class = "SUCCEEDED" =>
           /\ r.run # 0 => r.run \in DOMAIN runs' /\ runs'[r.run].status # "RUNNING"
           /\ r.action = "LAUNCH_ACCEPTED_HANDOFF" =>
                r.handoff \in DOMAIN packets' /\ packets'[r.handoff].launch = "COMPLETED"
           /\ r.action = "RESOLVE_ACTIVE_HANDOFF" =>
                r.handoff \in DOMAIN packets' /\ packets'[r.handoff].resolved
<1>1. PacketsMove
  BY EveryPacketsMove
<1>2. /\ DOMAIN runs \subseteq DOMAIN runs'
      /\ \A i \in DOMAIN runs : runs[i].status # "RUNNING" => runs'[i] = runs[i]
  BY EveryRunsMove
<1> QED
  BY <1>1, <1>2 DEF Succeeded, PacketsMove

\* So do the successes of the receipts.
LEMMA ReceiptsStay ==
  ASSUME TaskInv, [Next]_vars, ReceiptsHold, receipts' = receipts
  PROVE  ReceiptsHold'
  BY SuccessStays DEF ReceiptsHold, Succeeded

\* What is written into the row of the step under way.
LEMMA StepRow ==
  ASSUME NEW s \in Steps,
         NEW stage \in {"idle", "planned", "assessed", "running", "launching", "resulted"},
         NEW class \in ResultClasses \cup {"NONE"}, NEW run \in Nat, NEW attempt \in Nat
  PROVE  /\ [s EXCEPT !.stage = stage] \in Steps
         /\ [s EXCEPT !.stage = stage, !.class = class] \in Steps
         /\ [s EXCEPT !.stage = stage, !.class = class, !.run = run] \in Steps
         /\ [s EXCEPT !.stage = stage, !.run = run] \in Steps
         /\ [s EXCEPT !.stage = stage, !.attempt = attempt] \in Steps
  BY DEF Steps

\* No step is under way.
LEMMA NoStepType ==
  /\ NoStep \in Steps /\ NoStep.stage = "idle" /\ NoStep.run = 0
  /\ NoStep.stage # "resulted"
  BY DEF NoStep, Steps, ResultClasses

\* A receipt is written, and the step is over.
LEMMA ReceiptWritten ==
  ASSUME TaskInv, StepInv, RecordOperatorStepReceipt
  PROVE  StepTypeOK' /\ StageInv' /\ ReceiptsHold'
<1> DEFINE r == [action |-> step.action, class |-> step.class, handoff |-> step.handoff,
                 run |-> step.run, attempt |-> step.attempt]
<1>1. /\ step \in Steps /\ receipts \in Seq(Receipts) /\ ReceiptsHold
      /\ step.class \in ResultClasses /\ Succeeded(step)
  BY DEF StepInv, StepTypeOK, StageInv, RecordOperatorStepReceipt
<1>2. receipts' = Append(receipts, r) /\ step' = NoStep /\ UNCHANGED vars
  BY DEF RecordOperatorStepReceipt
<1>3. r \in Receipts
  BY <1>1 DEF Receipts, Steps
<1>4. Succeeded(r)
  BY <1>1 DEF Succeeded
<1> HIDE DEF r
<1>5. StepTypeOK'
  BY <1>1, <1>2, <1>3, NoStepType DEF StepTypeOK
<1>6. StageInv'
  BY <1>2, NoStepType DEF StageInv
<1>7. /\ DOMAIN receipts' = DOMAIN receipts \cup {Len(receipts) + 1}
      /\ receipts'[Len(receipts) + 1] = r
      /\ \A i \in DOMAIN receipts : receipts'[i] = receipts[i]
  BY <1>1, <1>2, <1>3
<1>8. \A i \in DOMAIN receipts' : Succeeded(receipts'[i])
  BY <1>1, <1>4, <1>7 DEF ReceiptsHold
<1>9. runs' = runs /\ packets' = packets
  BY <1>2 DEF vars, database
<1>10. ReceiptsHold'
  BY <1>8, <1>9 DEF ReceiptsHold, Succeeded
<1> QED
  BY <1>5, <1>6, <1>10

\* The result of a step that claims no more than it has done.
LEMMA Resulted ==
  ASSUME StepTypeOK, NEW class \in ResultClasses, Results(class),
         class = "SUCCEEDED" =>
           /\ step.run # 0 => step.run \in DOMAIN runs' /\ runs'[step.run].status # "RUNNING"
           /\ step.action = "LAUNCH_ACCEPTED_HANDOFF" =>
                step.handoff \in DOMAIN packets' /\ packets'[step.handoff].launch = "COMPLETED"
           /\ step.action = "RESOLVE_ACTIVE_HANDOFF" =>
                step.handoff \in DOMAIN packets' /\ packets'[step.handoff].resolved
  PROVE  StepTypeOK' /\ StageInv' /\ receipts' = receipts
<1> DEFINE s == [step EXCEPT !.stage = "resulted", !.class = class]
<1>1. step' = s /\ receipts' = receipts /\ step \in Steps
  BY DEF Results, StepTypeOK
<1>2. s \in Steps
  BY <1>1 DEF Steps
<1>3. /\ s.stage = "resulted" /\ s.class = class /\ s.run = step.run
      /\ s.action = step.action /\ s.handoff = step.handoff
  BY <1>1 DEF Steps
<1> HIDE DEF s
<1>4. StepTypeOK'
  BY <1>1, <1>2 DEF StepTypeOK
<1>5. Succeeded(step)'
  BY <1>1, <1>3 DEF Succeeded
<1>6. StageInv'
  BY <1>1, <1>3, <1>5 DEF StageInv
<1> QED
  BY <1>1, <1>4, <1>6

\* A step that hands over to the next stage.
LEMMA Moved ==
  ASSUME StepTypeOK, step.run = 0, Moves("assessed"), step.action \in RecoveryAction
  PROVE  StepTypeOK' /\ StageInv' /\ receipts' = receipts
<1> DEFINE s == [step EXCEPT !.stage = "assessed"]
<1>1. step' = s /\ receipts' = receipts /\ step \in Steps
  BY DEF Moves, StepTypeOK
<1>2. s \in Steps /\ s.stage = "assessed" /\ s.run = 0 /\ s.action = step.action
  BY <1>1 DEF Steps
<1> HIDE DEF s
<1> QED
  BY <1>1, <1>2 DEF StepTypeOK, StageInv

\* The plan.
LEMMA PlanKeeps ==
  ASSUME TaskInv, StepInv, PlanStep
  PROVE  StepTypeOK' /\ StageInv' /\ receipts' = receipts
<1> DEFINE action == primaryExecutionStep(db, repo)
           id     == ActiveHandoff(db)
<1>0. TypeOK /\ StepTypeOK /\ NoStep.run = 0 /\ UNCHANGED vars /\ receipts' = receipts
  BY NoStepType DEF TaskInv, StepInv, PlanStep
<1>1. /\ id \in Nat /\ (id # 0 => id \in DOMAIN packets)
      /\ action \in OperatorActions \cup {"NONE"}
      /\ action \in HandoffActions => id # 0
  BY <1>0, ActiveHandoffType, PlanType, OfferedHandoff DEF HandoffActions
<1>2. \/ step' = [NoStep EXCEPT !.stage = "planned", !.action = action, !.handoff = id]
      \/ step' = [NoStep EXCEPT !.stage = "resulted", !.action = action,
                                !.class = "REJECTED", !.handoff = id]
  BY DEF PlanStep
<1> HIDE DEF action, id
<1>3. /\ step' \in Steps /\ step'.action = action /\ step'.handoff = id /\ step'.run = 0
      /\ step'.stage = "planned" \/ (step'.stage = "resulted" /\ step'.class = "REJECTED")
  <2>1. CASE step' = [NoStep EXCEPT !.stage = "planned", !.action = action, !.handoff = id]
    BY <1>1, <2>1 DEF NoStep, Steps, ResultClasses
  <2>2. CASE step' = [NoStep EXCEPT !.stage = "resulted", !.action = action,
                                    !.class = "REJECTED", !.handoff = id]
    BY <1>1, <2>2 DEF NoStep, Steps, ResultClasses
  <2> QED
    BY <1>2, <2>1, <2>2
<1>4. packets' = packets
  BY <1>0 DEF vars, database
<1>5. StageInv'
  BY <1>1, <1>3, <1>4 DEF StageInv, Succeeded, ResultClasses
<1> QED
  BY <1>0, <1>3, <1>5 DEF StepTypeOK

\* A run is started.
LEMMA StartKeeps ==
  ASSUME TaskInv, TypeOK', StepInv, StartLocalRun
  PROVE  StepTypeOK' /\ StageInv' /\ receipts' = receipts
<1> DEFINE n == Len(runs')
           s == [step EXCEPT !.stage = "running", !.run = n]
<1>1. /\ step \in Steps /\ step.action = "START_LOCAL_RUN" /\ receipts' = receipts
      /\ StepTypeOK
  BY DEF StepInv, StepTypeOK, StartLocalRun, Planned
<1>2. n \in Nat /\ n \in DOMAIN runs'
  <2>1. /\ runs' = Append(runs, [status |-> "RUNNING", brief |-> caps.brief])
        /\ runs' \in Seq(Runs) /\ runs \in Seq(Runs)
    BY DEF StartLocalRun, PrepareRealRun, TypeOK, TaskInv
  <2>2. Len(runs') = Len(runs) + 1 /\ Len(runs) \in Nat
    BY <2>1
  <2>3. Len(runs') >= 1 /\ DOMAIN runs' = 1..Len(runs') /\ Len(runs') \in Nat
    BY <2>1, <2>2
  <2> QED
    BY <2>3
<1>3. step' = s
  BY DEF StartLocalRun
<1> HIDE DEF n
<1>4. s \in Steps /\ s.stage = "running" /\ s.run = n /\ s.action = "START_LOCAL_RUN"
  BY <1>1, <1>2 DEF Steps
<1> HIDE DEF s
<1>5. StageInv'
  BY <1>2, <1>3, <1>4 DEF StageInv, n
<1> QED
  BY <1>1, <1>3, <1>4, <1>5 DEF StepTypeOK

\* A run that was finalized is no longer RUNNING.
LEMMA FinalizedRun ==
  ASSUME TaskInv, NEW id \in DOMAIN runs, FinalizeRealRun(id)
  PROVE  id \in DOMAIN runs' /\ runs'[id].status # "RUNNING"
<1>1. PICK status \in EndStatuses : runs' = EndRun(id, status)
  BY DEF FinalizeRealRun, CompleteRun, InterruptRun, FailRun, EndStatuses
<1>2. status \in RunStatuses /\ status # "RUNNING" /\ runs \in Seq(Runs)
  BY DEF EndStatuses, RunStatuses, TaskInv, TypeOK
<1> QED
  BY <1>1, <1>2, EndRunType

\* The run returns, or was ended by somebody else.
LEMMA RunReturnKeeps ==
  ASSUME TaskInv, StepInv, LocalRunReturns \/ LocalRunLost
  PROVE  StepTypeOK' /\ StageInv' /\ receipts' = receipts
<1>1. /\ StepTypeOK /\ step \in Steps /\ step.action = "START_LOCAL_RUN"
      /\ step.run \in DOMAIN runs
  BY DEF StepInv, StepTypeOK, StageInv, LocalRunReturns, LocalRunLost
<1>2. CASE LocalRunReturns
  <2>1. step.run \in DOMAIN runs' /\ runs'[step.run].status # "RUNNING"
    BY <1>1, <1>2, FinalizedRun DEF LocalRunReturns
  <2> QED
    BY <1>1, <1>2, <2>1, Resulted DEF LocalRunReturns, ResultClasses
<1>3. CASE LocalRunLost
  <2> DEFINE s == [step EXCEPT !.stage = "resulted", !.class = "REJECTED", !.run = 0]
  <2>1. step' = s /\ receipts' = receipts
    BY <1>3 DEF LocalRunLost
  <2>2. s \in Steps /\ s.stage = "resulted" /\ s.class = "REJECTED"
    BY <1>1 DEF Steps, ResultClasses
  <2> HIDE DEF s
  <2> QED
    BY <1>1, <2>1, <2>2 DEF StepTypeOK, StageInv, Succeeded, ResultClasses
<1> QED
  BY <1>2, <1>3

\* The recovery operations.
LEMMA RecoveryKeeps ==
  ASSUME TaskInv, StepInv,
         DispatchRecovery \/ CommitRecovery \/ RecoveryFailed \/ RecoveryRejected
         \/ StartLocalRunBlocked
  PROVE  StepTypeOK' /\ StageInv' /\ receipts' = receipts
<1>0. StepTypeOK /\ StageInv
  BY DEF StepInv
<1>1. CASE DispatchRecovery
  <2>1. step.run = 0 /\ step.action \in RecoveryAction /\ Moves("assessed")
    BY <1>0, <1>1 DEF DispatchRecovery, StageInv, RecoveryAction
  <2> QED
    BY <1>0, <2>1, Moved
<1>2. CASE CommitRecovery
  <2>1. step.run = 0 /\ step.action \in RecoveryAction /\ Results("SUCCEEDED")
    BY <1>0, <1>2 DEF CommitRecovery, StageInv
  <2> QED
    BY <1>0, <2>1, Resulted DEF RecoveryAction, ResultClasses
<1>3. CASE RecoveryFailed
  BY <1>0, <1>3, Resulted DEF RecoveryFailed, ResultClasses
<1>4. CASE RecoveryRejected
  BY <1>0, <1>4, Resulted DEF RecoveryRejected, ResultClasses
<1>5. CASE StartLocalRunBlocked
  <2>1. step.run = 0 /\ step.action = "START_LOCAL_RUN" /\ Results("SUCCEEDED")
    BY <1>0, <1>5 DEF StartLocalRunBlocked, Planned, StageInv
  <2> QED
    BY <1>0, <2>1, Resulted DEF ResultClasses
<1> QED
  BY <1>1, <1>2, <1>3, <1>4, <1>5

\* The launch of the planned handoff.
LEMMA LaunchKeeps ==
  ASSUME TaskInv, TypeOK', StepInv, LaunchAcceptedHandoff
  PROVE  StepTypeOK' /\ StageInv' /\ receipts' = receipts
<1> DEFINE id == step.handoff
           n == packets'[id].attempt
           s == [step EXCEPT !.stage = "launching", !.attempt = n]
<1>1. /\ step \in Steps /\ step.action = "LAUNCH_ACCEPTED_HANDOFF" /\ step.run = 0
      /\ id \in DOMAIN packets /\ receipts' = receipts /\ step' = s /\ StepTypeOK
  BY DEF StepInv, StepTypeOK, StageInv, LaunchAcceptedHandoff, Planned, HandoffActions
<1>2. [packet |-> id, attempt |-> n] \in launches'
  BY DEF LaunchAcceptedHandoff, PrepareHandoffLaunch
<1>3. n \in Nat
  BY <1>2 DEF TypeOK, Launches
<1> HIDE DEF n
<1>4. /\ s \in Steps /\ s.stage = "launching" /\ s.run = 0 /\ s.attempt = n
      /\ s.action = "LAUNCH_ACCEPTED_HANDOFF" /\ s.handoff = id
  BY <1>1, <1>3 DEF Steps
<1> HIDE DEF s, id
<1>5. StageInv'
  BY <1>1, <1>2, <1>4 DEF StageInv
<1> QED
  BY <1>1, <1>4, <1>5 DEF StepTypeOK

\* The answer to a launch request, and the outcome of a launch.
LEMMA LaunchReturnKeeps ==
  ASSUME TaskInv, StepInv, LaunchAnswered \/ LaunchReturns
  PROVE  StepTypeOK' /\ StageInv' /\ receipts' = receipts
<1>0. StepTypeOK /\ StageInv
  BY DEF StepInv
<1>1. CASE LaunchAnswered
  <2>1. /\ step.run = 0 /\ step.action = "LAUNCH_ACCEPTED_HANDOFF"
        /\ step.handoff \in DOMAIN packets
    BY <1>0, <1>1 DEF LaunchAnswered, Planned, StageInv, HandoffActions
  <2>2. packets' = packets
    BY <1>1 DEF LaunchAnswered, vars, database
  <2>3. CASE packets[step.handoff].launch = "COMPLETED" /\ Results("SUCCEEDED")
    BY <1>0, <2>1, <2>2, <2>3, Resulted DEF ResultClasses
  <2>4. CASE Results("REJECTED")
    BY <1>0, <2>4, Resulted DEF ResultClasses
  <2> QED
    BY <1>1, <2>3, <2>4 DEF LaunchAnswered
<1>2. CASE LaunchReturns
  <2> DEFINE l == [packet |-> step.handoff, attempt |-> step.attempt]
  <2>1. /\ step.run = 0 /\ step.action = "LAUNCH_ACCEPTED_HANDOFF"
        /\ l \in launches /\ FinalizeHandoffLaunch(l) /\ l.packet = step.handoff
    BY <1>0, <1>2 DEF LaunchReturns, StageInv
  <2>2. Results(IF packets'[step.handoff].launch = "FAILED" THEN "FAILED" ELSE "SUCCEEDED")
    BY <1>2 DEF LaunchReturns
  <2> HIDE DEF l
  <2>3. /\ step.handoff \in DOMAIN packets'
        /\ packets'[step.handoff].launch \in {"COMPLETED", "FAILED"}
    BY <2>1, OutcomeRecorded
  <2>4. CASE packets'[step.handoff].launch = "FAILED"
    <3>1. Results("FAILED")
      BY <2>2, <2>4
    <3> QED
      BY <1>0, <3>1, Resulted DEF ResultClasses
  <2>5. CASE packets'[step.handoff].launch = "COMPLETED"
    <3>1. Results("SUCCEEDED")
      BY <2>2, <2>5
    <3> QED
      BY <1>0, <2>1, <2>3, <2>5, <3>1, Resulted DEF ResultClasses
  <2> QED
    BY <2>3, <2>4, <2>5
<1> QED
  BY <1>1, <1>2

\* The resolution of the planned handoff, or the answer without one.
LEMMA ResolveKeeps ==
  ASSUME TaskInv, StepInv, ResolveActiveHandoff \/ ResolveAnswered
  PROVE  StepTypeOK' /\ StageInv' /\ receipts' = receipts
<1>0. /\ StepTypeOK /\ StageInv /\ LastResolved
      /\ packets \in Seq(Packets)
  BY DEF StepInv, TaskInv, TypeOK
<1>1. /\ step.run = 0 /\ step.action = "RESOLVE_ACTIVE_HANDOFF"
      /\ step.handoff \in DOMAIN packets
  BY <1>0 DEF ResolveActiveHandoff, ResolveAnswered, Planned, StageInv, HandoffActions
<1>2. CASE ResolveActiveHandoff
  <2>1. step.handoff \in DOMAIN packets' /\ packets'[step.handoff].resolved
    BY <1>2, ResolutionRecorded DEF ResolveActiveHandoff
  <2>2. Results("SUCCEEDED")
    BY <1>2 DEF ResolveActiveHandoff
  <2> QED
    BY <1>0, <1>1, <2>1, <2>2, Resulted DEF ResultClasses
<1>3. CASE ResolveAnswered
  <2>1. packets' = packets
    BY <1>3 DEF ResolveAnswered, vars, database
  <2>2. CASE Results("REJECTED")
    BY <1>0, <2>2, Resulted DEF ResultClasses
  <2>3. CASE lastRes = step.handoff /\ Results("SUCCEEDED")
    <3>1. step.handoff # 0
      BY <1>0, <1>1
    <3>2. packets[step.handoff].resolved
      BY <1>0, <2>3, <3>1 DEF LastResolved
    <3> QED
      BY <1>0, <1>1, <2>1, <2>3, <3>2, Resulted DEF ResultClasses
  <2> QED
    BY <1>3, <2>2, <2>3 DEF ResolveAnswered
<1> QED
  BY <1>2, <1>3

\* Everything beside the step.
LEMMA OthersKeep ==
  ASSUME TaskInv, StepInv, [Next]_vars, OthersStep \/ CrashDuringStep \/ UNCHANGED stepVars
  PROVE  StepTypeOK' /\ StageInv' /\ receipts' = receipts
<1>0. StepTypeOK /\ StageInv
  BY DEF StepInv
<1>1. CASE CrashDuringStep
  BY <1>0, <1>1, NoStepType DEF CrashDuringStep, StepTypeOK, StageInv
<1>2. CASE OthersStep \/ UNCHANGED stepVars
  <2> DEFINE l == [packet |-> step.handoff, attempt |-> step.attempt]
  <2>1. step' = step /\ receipts' = receipts
    BY <1>2 DEF OthersStep, stepVars
  <2>2. l \in launches => l \in launches'
    <3>1. CASE OthersStep
      <4>1. Own' = Own
        BY <3>1 DEF OthersStep
      <4>2. Own[3] = (l \in launches)
        BY DEF Own
      <4>3. Own'[3] = (l \in launches')
        BY <2>1 DEF Own
      <4> HIDE DEF Own, l
      <4> QED
        BY <4>1, <4>2, <4>3
    <3>2. CASE UNCHANGED stepVars
      BY <3>2 DEF stepVars, vars, volatile
    <3> QED
      BY <1>2, <3>1, <3>2
  <2>3. DOMAIN packets \subseteq DOMAIN packets' /\ DOMAIN runs \subseteq DOMAIN runs'
    BY EveryPacketsMove, EveryRunsMove DEF PacketsMove
  <2>4. Succeeded(step) => Succeeded(step)'
    BY <2>1, SuccessStays DEF Succeeded
  <2>5. StageInv'
    BY <1>0, <2>1, <2>2, <2>3, <2>4 DEF StageInv
  <2> QED
    BY <1>0, <2>1, <2>5 DEF StepTypeOK
<1> QED
  BY <1>1, <1>2

\* What the operator's request was assessed for.
AssessedInv ==
  step.stage = "assessed" =>
    LET p == pending[Operator]
    IN \/ /\ step.action = "RESUME_INTERRUPTED_LINEAGE" /\ p.op = "resume"
          /\ p.act.kind = "INTERRUPTED_RESUME_EXECUTED"
       \/ /\ step.action = "FINALIZE_CONTINUE_RECOVERY" /\ p.op = "finalize"
          /\ p.act.kind = "CONTINUE_EXECUTED"
       \/ step.action = "EXECUTE_REBRIEF" /\ p.op = "rebrief"

\* A request keeps the operation and the record it was assessed with.
LEMMA AssessedRequest ==
  ASSUME TypeOK, NEW c \in Clients, NEW op \in {"rebrief", "resume", "finalize"},
         NEW record \in Actions, Assessed(c, op, record)
  PROVE  pending'[c].op = op /\ pending'[c].act = record
<1> DEFINE p == [Idle EXCEPT !.op = op, !.ver = caps.ver, !.act = record]
<1>1. caps.ver \in Nat
  BY BumpedCapsule, PhaseNames
<1>2. p \in Requests /\ p.op = op /\ p.act = record
  BY <1>1, IdleType DEF Requests
<1>3. pending' = [pending EXCEPT ![c] = p]
  BY DEF Assessed
<1> HIDE DEF p
<1> QED
  BY <1>2, <1>3, PendingType DEF TypeOK

\* The request in the operator's hands stays what it was assessed for.
LEMMA AssessedStays ==
  ASSUME TaskInv, StepInv, AssessedInv, [StepNext]_stepVars
  PROVE  AssessedInv'
<1>0. TypeOK /\ Operator \in Clients /\ StepTypeOK /\ step \in Steps
  BY OperatorAssumption DEF TaskInv, StepInv, StepTypeOK
<1>1. CASE DispatchRecovery
  <2>1. step' = [step EXCEPT !.stage = "assessed"]
    BY <1>1 DEF DispatchRecovery, Moves
  <2>2. step'.action = step.action
    BY <1>0, <2>1 DEF Steps
  <2>3. CASE step.action = "RESUME_INTERRUPTED_LINEAGE" /\ AssessResume(Operator)
    <3> DEFINE r == ActionTemplate("INTERRUPTED_RESUME_EXECUTED", db)
    <3>1. r \in Actions /\ r.kind = "INTERRUPTED_RESUME_EXECUTED"
      BY <1>0, ActionTemplateType DEF ActionTemplate, ActionKinds, ExecutedKinds
    <3> HIDE DEF r
    <3>2. Assessed(Operator, "resume", r)
      BY <2>3 DEF AssessResume, r
    <3>3. pending'[Operator].op = "resume" /\ pending'[Operator].act = r
      BY <1>0, <3>1, <3>2, AssessedRequest
    <3> QED
      BY <2>2, <2>3, <3>1, <3>3 DEF AssessedInv
  <2>4. CASE step.action = "FINALIZE_CONTINUE_RECOVERY" /\ AssessFinalize(Operator)
    <3> DEFINE r == ActionTemplate("CONTINUE_EXECUTED", db)
    <3>1. r \in Actions /\ r.kind = "CONTINUE_EXECUTED"
      BY <1>0, ActionTemplateType DEF ActionTemplate, ActionKinds, ExecutedKinds
    <3> HIDE DEF r
    <3>2. Assessed(Operator, "finalize", r)
      BY <2>4 DEF AssessFinalize, r
    <3>3. pending'[Operator].op = "finalize" /\ pending'[Operator].act = r
      BY <1>0, <3>1, <3>2, AssessedRequest
    <3> QED
      BY <2>2, <2>4, <3>1, <3>3 DEF AssessedInv
  <2>5. CASE step.action = "EXECUTE_REBRIEF" /\ AssessRebrief(Operator)
    <3>1. Assessed(Operator, "rebrief", NoAction)
      BY <2>5 DEF AssessRebrief
    <3>2. pending'[Operator].op = "rebrief"
      BY <1>0, <3>1, IdleType, AssessedRequest
    <3> QED
      BY <2>2, <2>5, <3>2 DEF AssessedInv
  <2> QED
    BY <1>1, <2>3, <2>4, <2>5 DEF DispatchRecovery
<1>2. CASE OthersStep \/ UNCHANGED stepVars
  <2>1. step' = step /\ pending'[Operator] = pending[Operator]
    BY <1>2 DEF OthersStep, Own, stepVars, vars, volatile
  <2> QED
    BY <2>1 DEF AssessedInv
<1>3. CASE CrashDuringStep
  BY <1>3, NoStepType DEF CrashDuringStep, AssessedInv, NoStep
<1>4. CASE OwnStep /\ ~DispatchRecovery
  <2>1. step'.stage # "assessed"
    <3>1. CASE PlanStep
      BY <3>1 DEF PlanStep, NoStep
    <3>2. CASE StartLocalRun \/ LocalRunLost \/ LaunchAcceptedHandoff
      BY <1>0, <3>2 DEF StartLocalRun, LocalRunLost, LaunchAcceptedHandoff, Steps
    <3>3. CASE \E class : Results(class)
      BY <1>0, <3>3 DEF Results, Steps
    <3>4. CASE RecordOperatorStepReceipt
      BY <3>4, NoStepType DEF RecordOperatorStepReceipt, NoStep
    <3>5. StartLocalRunBlocked \/ LocalRunReturns \/ RecoveryRejected \/ CommitRecovery
          \/ RecoveryFailed \/ LaunchAnswered \/ LaunchReturns \/ ResolveActiveHandoff
          \/ ResolveAnswered => \E class : Results(class)
      BY DEF StartLocalRunBlocked, LocalRunReturns, RecoveryRejected, CommitRecovery,
             RecoveryFailed, LaunchAnswered, LaunchReturns, ResolveActiveHandoff,
             ResolveAnswered
    <3> QED
      BY <1>4, <3>1, <3>2, <3>3, <3>4, <3>5 DEF OwnStep
  <2> QED
    BY <2>1 DEF AssessedInv
<1> QED
  BY <1>1, <1>2, <1>3, <1>4 DEF StepNext

\* The inductive invariant, whole.
OperatorInv == TaskInv /\ StepInv /\ AssessedInv

\* A step of the operator, or beside it, keeps the invariant.
LEMMA OperatorStepKeepsInvariant ==
  ASSUME OperatorInv, [StepNext]_stepVars
  PROVE  OperatorInv' /\ [Next]_vars
<1>0. TaskInv /\ StepInv /\ AssessedInv /\ StepTypeOK /\ StageInv /\ LastResolved /\ ReceiptsHold
  BY DEF OperatorInv, StepInv
<1>1. [Next]_vars
  BY <1>0, OperatorStepIsTaskStep
<1>2. TaskInv' /\ TypeOK'
  BY <1>0, <1>1, StepKeepsInvariant DEF TaskInv
<1>3. LastResolved'
  BY <1>0, <1>1, LastResolvedStays
<1>4. AssessedInv'
  BY <1>0, AssessedStays
<1>5. CASE RecordOperatorStepReceipt
  BY <1>0, <1>2, <1>3, <1>4, <1>5, <1>1, ReceiptWritten DEF OperatorInv, StepInv
<1>6. ASSUME ~RecordOperatorStepReceipt
      PROVE  StepTypeOK' /\ StageInv' /\ receipts' = receipts
  <2>1. CASE PlanStep
    BY <1>0, <2>1, PlanKeeps
  <2>2. CASE StartLocalRun
    BY <1>0, <1>2, <2>2, StartKeeps
  <2>3. CASE LocalRunReturns \/ LocalRunLost
    BY <1>0, <2>3, RunReturnKeeps
  <2>4. CASE DispatchRecovery \/ CommitRecovery \/ RecoveryFailed \/ RecoveryRejected
             \/ StartLocalRunBlocked
    BY <1>0, <2>4, RecoveryKeeps
  <2>5. CASE LaunchAcceptedHandoff
    BY <1>0, <1>2, <2>5, LaunchKeeps
  <2>6. CASE LaunchAnswered \/ LaunchReturns
    BY <1>0, <2>6, LaunchReturnKeeps
  <2>7. CASE ResolveActiveHandoff \/ ResolveAnswered
    BY <1>0, <2>7, ResolveKeeps
  <2>8. CASE OthersStep \/ CrashDuringStep \/ UNCHANGED stepVars
    BY <1>0, <1>1, <2>8, OthersKeep
  <2> QED
    BY <1>6, <2>1, <2>2, <2>3, <2>4, <2>5, <2>6, <2>7, <2>8 DEF StepNext, OwnStep
<1>7. ASSUME ~RecordOperatorStepReceipt
      PROVE  ReceiptsHold'
  BY <1>0, <1>1, <1>6, <1>7, ReceiptsStay
<1> QED
  BY <1>1, <1>2, <1>3, <1>4, <1>5, <1>6, <1>7 DEF OperatorInv, StepInv

\* OperatorInv holds from the start of the task on.
LEMMA OperatorInvariance == StepSpec => []OperatorInv
<1>1. StepInit => OperatorInv
  <2> SUFFICES ASSUME StepInit PROVE OperatorInv
    OBVIOUS
  <2>1. TaskInv
    BY InitEstablishesInvariant DEF StepInit
  <2>2. step = NoStep /\ receipts = <<>> /\ lastRes = 0
    BY DEF StepInit, Init, StartTask
  <2>3. StepTypeOK /\ ReceiptsHold
    BY <2>2, NoStepType DEF StepTypeOK, ReceiptsHold
  <2>4. StageInv /\ AssessedInv /\ LastResolved
    BY <2>2, NoStepType DEF StageInv, AssessedInv, LastResolved, NoStep
  <2> QED
    BY <2>1, <2>3, <2>4 DEF OperatorInv, StepInv
<1>2. OperatorInv /\ [StepNext]_stepVars => OperatorInv'
  BY OperatorStepKeepsInvariant
<1> QED
  BY <1>1, <1>2, PTL DEF StepSpec

----------------------------------------------------------------------------
(***************************************************************************)
(* OperatorStep: the theorems.                                             *)
(***************************************************************************)
\* An operator who executes primary steps does nothing to a task that its
\* operations do not do by themselves: what holds of the task holds beside
\* such an operator (ExecutePrimaryOperatorStep, dispatchPrimaryOperatorStep).
THEOREM OperatedTaskIsTask == StepSpec => Spec
<1>1. StepInit => Init
  BY DEF StepInit
<1>2. OperatorInv /\ [StepNext]_stepVars => [Next]_vars
  BY OperatorStepKeepsInvariant
<1> QED
  BY <1>1, <1>2, OperatorInvariance, PTL DEF StepSpec, Spec

\* The operator's step and the receipts keep their types
\* (recordOperatorStepReceipt).
THEOREM StepTypeCorrect == StepSpec => []StepTypeOK
<1>1. OperatorInv => StepTypeOK
  BY DEF OperatorInv, StepInv
<1> QED
  BY <1>1, OperatorInvariance, PTL

\* The plan and the operations agree in every state of the task
\* (primaryExecutionStep, and the gates of the dispatched operations).
THEOREM PlanAndOperationsAgree == StepSpec => []OfferedStepsAreAccepted
<1>1. ConsistencyInv => OfferedStepsAreAccepted
  BY PlanAgrees
<1> QED
  BY <1>1, OperatedTaskIsTask, ConsistencyInvariance, PTL

\* What a receipt calls a success is true when it is written and stays true,
\* whatever happens between dispatch and receipt (recordOperatorStepReceipt).
THEOREM SuccessesLast == StepSpec => []SuccessIsDurable
<1>1. OperatorInv => SuccessIsDurable
  BY DEF OperatorInv, StepInv, ReceiptsHold, Succeeded, SuccessIsDurable
<1> QED
  BY <1>1, OperatorInvariance, PTL

\* No other handoff than the planned one is resolved by a step
\* (validateHandoffResolutionTarget).
THEOREM PlannedHandoffIsResolved == StepSpec => ResolvesWhatWasPlanned
<1>1. ASSUME OperatorInv, StepNext, NEW id \in DOMAIN packets,
             packets'[id].resolved # packets[id].resolved,
             step.stage = "planned", step'.stage = "resulted"
      PROVE  id = step.handoff
  <2>0. TaskInv /\ step \in Steps
    BY <1>1 DEF OperatorInv, StepInv, StepTypeOK
  <2>1. CASE ResolveActiveHandoff
    BY <1>1, <2>0, <2>1, ResolutionRecorded DEF ResolveActiveHandoff
  <2>2. CASE PlanStep \/ StartLocalRunBlocked \/ RecoveryRejected \/ LaunchAnswered
             \/ ResolveAnswered \/ RecordOperatorStepReceipt
    BY <1>1, <2>2 DEF PlanStep, StartLocalRunBlocked, RecoveryRejected, LaunchAnswered,
                      ResolveAnswered, RecordOperatorStepReceipt, vars, database
  <2>3. CASE StartLocalRun \/ DispatchRecovery \/ LaunchAcceptedHandoff
    BY <1>1, <2>0, <2>3 DEF StartLocalRun, DispatchRecovery, LaunchAcceptedHandoff, Moves, Steps
  <2>4. CASE LocalRunReturns \/ LocalRunLost \/ CommitRecovery \/ RecoveryFailed \/ LaunchReturns
    BY <1>1, <2>4 DEF LocalRunReturns, LocalRunLost, CommitRecovery, RecoveryFailed, LaunchReturns
  <2>5. CASE OthersStep \/ CrashDuringStep
    BY <1>1, <2>5, NoStepType DEF OthersStep, CrashDuringStep
  <2> QED
    BY <1>1, <2>1, <2>2, <2>3, <2>4, <2>5 DEF StepNext, OwnStep
<1>2. OperatorInv /\ [StepNext]_stepVars =>
        [\A id \in DOMAIN packets :
           /\ packets'[id].resolved # packets[id].resolved
           /\ step.stage = "planned" /\ step'.stage = "resulted"
           => id = step.handoff]_stepVars
  BY <1>1
<1> QED
  BY <1>2, OperatorInvariance, PTL DEF StepSpec, ResolvesWhatWasPlanned

\* The steps that commit something.
LEMMA Commits ==
  ASSUME OperatorInv, StepNext, StepCommits
  PROVE  LocalRunReturns \/ CommitRecovery \/ LaunchReturns \/ ResolveActiveHandoff
<1>0. step \in Steps
  BY DEF OperatorInv, StepInv, StepTypeOK
<1>1. ~(PlanStep \/ StartLocalRunBlocked \/ RecoveryRejected \/ LaunchAnswered
        \/ ResolveAnswered \/ RecordOperatorStepReceipt)
  BY DEF StepCommits, PlanStep, StartLocalRunBlocked, RecoveryRejected, LaunchAnswered,
         ResolveAnswered, RecordOperatorStepReceipt, vars, database
<1>2. ~(StartLocalRun \/ LaunchAcceptedHandoff \/ DispatchRecovery \/ LocalRunLost
        \/ RecoveryFailed)
  BY <1>0 DEF StepCommits, StartLocalRun, LaunchAcceptedHandoff, DispatchRecovery, Moves,
              LocalRunLost, RecoveryFailed, Results, Steps
<1>3. ~(OthersStep \/ CrashDuringStep)
  BY NoStepType DEF StepCommits, OthersStep, CrashDuringStep
<1> QED
  BY <1>1, <1>2, <1>3 DEF StepNext, OwnStep

\* A committed step is not offered again.
LEMMA CommittedStepAdvances ==
  ASSUME OperatorInv, StepNext, StepCommits, step.action # "EXECUTE_REBRIEF",
         step.handoff # 0 => ActiveHandoff(db') \in {0, step.handoff}
  PROVE  primaryExecutionStep(db', repo') # step.action
<1>0. /\ TaskInv /\ TypeOK /\ StageInv /\ AssessedInv /\ step \in Steps
      /\ packets \in Seq(Packets) /\ Operator \in Clients
  BY OperatorAssumption DEF OperatorInv, StepInv, StepTypeOK, TaskInv, TypeOK
<1>1. /\ db'.caps = caps' /\ db'.act = act' /\ db'.packets = packets'
      /\ TypeOK'
  BY OperatorStepKeepsInvariant DEF db, OperatorInv, TaskInv
<1>2. CASE LocalRunReturns
  <2>1. step.action = "START_LOCAL_RUN" /\ FinalizeRealRun(step.run)
    BY <1>0, <1>2 DEF LocalRunReturns, StageInv
  <2>2. caps'.phase # "BRIEF_READY"
    <3>1. PICK ph \in {"VALIDATING", "PAUSED", "BLOCKED"} : caps' = Bumped(caps, ph)
      BY <2>1 DEF FinalizeRealRun, CompleteRun, InterruptRun, FailRun
    <3>2. caps'.phase = ph
      BY <1>0, <3>1, PhaseNames, BumpedPhase
    <3> QED
      BY <3>2
  <2> QED
    BY <1>1, <2>1, <2>2, OfferedClass, ReadyClass
<1>3. CASE CommitRecovery
  <2>1. \/ /\ step.action = "RESUME_INTERRUPTED_LINEAGE"
           /\ act'.kind = "INTERRUPTED_RESUME_EXECUTED"
        \/ /\ step.action = "FINALIZE_CONTINUE_RECOVERY"
           /\ act'.kind = "CONTINUE_EXECUTED"
    BY <1>0, <1>3 DEF CommitRecovery, AssessedInv, ExecuteInterruptedResume,
                      ExecuteContinueRecovery, ExecuteRebrief, ClearBrief
  <2> QED
    BY <1>1, <2>1, OfferedClass, ActionClasses
<1>4. CASE LaunchReturns
  <2> DEFINE l == [packet |-> step.handoff, attempt |-> step.attempt]
  <2>1. /\ step.action = "LAUNCH_ACCEPTED_HANDOFF"
        /\ l \in launches /\ FinalizeHandoffLaunch(l) /\ l.packet = step.handoff
    BY <1>0, <1>4 DEF LaunchReturns, StageInv
  <2> HIDE DEF l
  <2>2. /\ step.handoff \in DOMAIN packets
        /\ packets'[step.handoff].launch \in {"COMPLETED", "FAILED"}
    BY <1>0, <2>1, OutcomeRecorded
  <2>3. packets'[step.handoff].launch # "FAILED"
    BY <1>0, <1>4 DEF LaunchReturns, Results, StepCommits, Steps
  <2>4. ActiveHandoff(db') \in {0, step.handoff}
    BY <1>0, <2>2
  <2>5. SUFFICES ASSUME primaryExecutionStep(db', repo') = "LAUNCH_ACCEPTED_HANDOFF"
                 PROVE  FALSE
    BY <2>1
  <2>6. /\ ActiveHandoff(db') = step.handoff
        /\ HandoffClass(db', step.handoff) = "ACCEPTED_HANDOFF_LAUNCH_READY"
    BY <2>4, <2>5, OfferedClass, HandoffClassOf DEF HandoffClasses
  <2>7. assessHandoffContinuity(db', step.handoff)
          \in {"ACCEPTED_NOT_LAUNCHED", "LAUNCH_FAILED_RETRYABLE"}
    BY <2>6 DEF HandoffClass
  <2> QED
    BY <1>1, <2>2, <2>3, <2>7 DEF assessHandoffContinuity
<1>5. CASE ResolveActiveHandoff
  <2>1. /\ step.action = "RESOLVE_ACTIVE_HANDOFF" /\ step.handoff \in DOMAIN packets
        /\ packets'[step.handoff].resolved
    BY <1>0, <1>5, ResolutionRecorded
    DEF ResolveActiveHandoff, Planned, StageInv, HandoffActions
  <2>2. ActiveHandoff(db') \in {0, step.handoff}
    BY <1>0, <2>1
  <2>3. ActiveHandoff(db') # 0 => ActiveHandoff(db') \in ActivePackets(db')
    BY <1>1, ActiveHandoffNext
  <2>4. ActiveHandoff(db') = 0
    BY <1>1, <2>1, <2>2, <2>3 DEF ActivePackets
  <2> QED
    BY <2>1, <2>4, OfferedHandoff
<1> QED
  BY <1>2, <1>3, <1>4, <1>5, Commits

\* What a step commits moves the task on: its action is not the next one the
\* plan offers (ExecutePrimaryOperatorStep over deriveOperatorExecutionPlan).
THEOREM CommittedStepsAdvance == StepSpec => StepsAdvance
<1>1. OperatorInv /\ [StepNext]_stepVars =>
        [/\ StepCommits /\ step.action # "EXECUTE_REBRIEF"
         /\ step.handoff # 0 => ActiveHandoff(db') \in {0, step.handoff}
         => primaryExecutionStep(db', repo') # step.action]_stepVars
  BY CommittedStepAdvances
<1> QED
  BY <1>1, OperatorInvariance, PTL DEF StepSpec, StepsAdvance
=============================================================================
