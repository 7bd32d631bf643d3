# Tuku: a verification project for the continuity control plane

Tuku is a local orchestration daemon (`tukud`) with a command line and a terminal
interface. It keeps one *work capsule* per task in SQLite, compiles user messages
into intents and briefs, lets workers (Codex) execute bounded runs, hands tasks
over to Claude, keeps transcripts of interactive shells and an audit trail of
handoffs, and tells the operator how to recover when runs fail, are interrupted,
or when the repository moved. Its promise is *continuity*: whatever happens, the
durable state says truthfully what was done and what may be done next. This
project models that promise in TLA+, checks it with TLC and proves its central
properties with TLAPS.

## 1. Inventory

| Component (src/internal/...) | State | Operations | Interacts with |
|---|---|---|---|
| task lifecycle (orchestrator/service.go) | capsule row: version, phase, brief, intent, anchor | StartTask, MessageTask, CreateCheckpoint | everything reads the capsule; its version is the only concurrency check |
| continuity (orchestrator/continuity.go, service.go) | none of its own: a snapshot of all tables and a git capture | loadContinuitySnapshot, validateContinuitySnapshot, assessContinue | called by every operation below |
| recovery (orchestrator/recovery.go, handoff_continuity.go, launch_control.go, branch_provenance.go) | none | recoveryFromContinueAssessment, gates | decides what operations may do |
| execution runs (orchestrator/service.go) | execution_runs rows; the executing worker, in memory | RunTask: start, no-op, complete, interrupt; finalizeRealRun | worker adapters, outside any transaction |
| continue (orchestrator/service.go) | checkpoints rows | ContinueTask, five outcomes | reconciles runs, moves phases |
| recovery actions (recovery_action.go, rebrief.go, interrupted_resume.go, continue_execution.go) | recovery_actions rows; only the latest is read | record, rebrief, resume, finalize continue | move phases, steer the recovery class |
| handoffs (handoff*.go) | packets, launches, acknowledgments, follow-throughs, resolutions; the executing launcher | create, accept, launch, follow-through, resolve | an accepted packet blocks local operations |
| operator plan and steps (operator_action_authority.go, local_*_*.go, operator_decision_summary.go, operator_execution_plan.go, operator_command_surface.go, operator_step_execution.go) | operator_step_receipts rows | derive the plan, execute its primary step, write a receipt | dispatches the operations above |
| transcripts and reviews (orchestrator/shell_transcript.go, shell_session_transcripts.go, operator_review_*.go; storage/sqlite/shell_session_repo.go) | chunks under a retention limit, a summary row, review marks, gap acknowledgments | append, review, acknowledge, progression | shells write, operators review |
| shell sessions (orchestrator/shell_sessions.go, shell_lifecycle.go) | a row per session, milestones; once in SQLite, once in memory | report, classify, offer for reattachment | shells report over IPC |
| the shell itself (tui/shell/app.go, *_host.go, session_registry.go) | the worker's terminal, the event loop, evidence waiting to be stored | start, read, drain, fall back, close, heartbeat | daemon over IPC |
| transition receipts (continuity_transition_receipts.go) | receipts of handoff transitions | written with a launch's outcome and a resolution | read continuity and review posture before and after |
| incidents (continuity_incident_*.go) | triage and follow-up receipts | triage, follow up, histories in pages, closure, task risk, slices | read the three receipt tables in windows |
| daemon and entry (runtime/daemon, ipc, app/bootstrap.go, repo_entry.go) | the socket's name, connections | start-up, accept, deadline; dial, launch, wait, resolve the repository's task | several terminals, several daemons |
| storage (storage/sqlite) | WAL database | transactions; latest row by `created_at` text | |
| git anchor (git/anchor) | none | Capture: branch, head, dirty; empty on failure | the repository is nobody's lock |
| compilation and synthesis (intent_stub.go, compiled_*.go, brief_builder.go, response) | none | text processing | MessageTask |
| rendering (tui/shell view model), flags, payload mapping | none | formatting and copying | |

What is hard here. Every request runs in its own goroutine. Most operations have
two stages: an assessment outside any transaction, which itself reads table after
table, then a transaction that trusts it if the capsule version has not moved;
some do not even check that. Runs, launches and operator steps have three
stages, the middle one outside the database and up to minutes long. A transcript
append is several statements without a transaction. The daemon can die between
stages, and the next one recovers nothing at start-up; two daemons can start at
once. The repository changes at any moment. What steers recovery is the *latest*
row of several tables, so what a row means depends on what was written after it,
and "latest" is decided by comparing texts. Conclusions about incidents are drawn
from bounded windows and pages read while rows are added. `PROJECT.json` lists
these hazards line by line.

What makes the components correct. Runs never overlap and never end twice; an
assessment acted upon still describes the task, even when it was read table by
table; the code's own consistency check never fails in states its own operations
produce; a launch is never doubled; local work and Claude's branch exclude each
other; continue settles; the step an operator is told to take is accepted and
leads somewhere, and its receipt tells what happened; a review that reads as
current saw everything; transcripts lose only what retention drops; both
registries agree; a receipt is about its own handoff; "nothing open" is said only
when nothing is; a worker never outlives its shell unattended and its end reaches
the registry; start-ups that overlap leave a daemon that serves; runs, launches,
commands and stale sessions end.

## 2. Modules

| Module | Models |
|---|---|
| `Continuity` | the pure assessment: validation in the code's order, drift, outcome, checkpoint reuse |
| `Recovery` | recovery class, effect of the latest recovery action, gates |
| `TaskStore` | the database of one task, the repository, and what lives in goroutines; StartTask, crash, repository changes |
| `LocalMutation`, `RunControl`, `ContinueControl`, `RecoveryControl`, `HandoffControl` | the operations, one action per stage of a handler |
| `TaskControl` | their composition, its properties, fairness |
| `RunLedger` | the abstract specification of a task's runs, which `TaskControl` and `TornReads` implement |
| `TornReads` | `TaskControl` with one client whose snapshot is read table by table |
| `OperatorPlan` | authority of every operator action, plan, primary step (pure) |
| `OperatorStep` | `TaskControl` with an operator who executes primary steps and their receipts |
| `TransitionReceipts` | the handoff operations of `TaskControl` with the receipts they write and the review posture they record |
| `TranscriptStore` | appends to the SQLite transcript, statement by statement, with retention |
| `TranscriptReview` | reviews, gap acknowledgments and progression over `TranscriptStore` |
| `BoundedLog` | the abstract specification of a transcript, which `TranscriptReview` implements |
| `MemoryRegistry` | the in-memory registry |
| `TimestampText` | RFC3339Nano as text, and its order |
| `RegistryParity` | both registries given the same calls, over `TranscriptStore`, `MemoryRegistry` and `TimestampText` |
| `ShellHost` | one shell: event loop, terminal host, fallback host, evidence, lifecycle |
| `ShellSessions` | the session registry under reports that are on time, missed or late; classification and reattachment |
| `IncidentReads` | rollups, closure, task risk and status of the three receipt tables (pure) |
| `IncidentAudit` | transitions, triage and follow-up requests and paging readers over `IncidentReads` |
| `IncidentSlice` | the slice around an anchor, query by query |
| `DaemonEntry` | terminals, daemon processes, the socket and the repository's task |
| `MC*` | instances for TLC: sets of model values, symmetry |
| `TaskControlProofs`, `CompositionProofs`, `TranscriptProofs`, `ShellHostProofs`, `ShellSessionsProofs`, `IncidentAuditProofs`, `IncidentSliceProofs`, `DaemonEntryProofs` | theorems and their proofs |

Operators whose comment says "Variant with a fault" are used by no
specification: they show that the properties notice the fault.

### The task (`TaskStore` to `TaskControl`)

`caps`, `runs`, `cp`, `act`, `packets`, `lastRes` are the database: capsule row,
all runs, latest checkpoint, latest recovery action, all packets with their
latest launch, acknowledgment, follow-through and resolution, and the packet of
the task's latest resolution. `repo` is what a git capture returns now.
`pending[c]` is a request between assessment and transaction, with exactly what
the transaction will use of the assessment; `workers` and `launches` are
executions in progress. A crash clears these three and nothing else.

`Assess...` and `PreflightMutation` are the stages before a transaction; an
assessment that answers the request at once (no mutation, refused, replayed)
writes proof and conversation rows only and is no step. The action named after
the handler is its transaction, with every row it writes, checkpoints included.

Abstractions, all of them on data:

- Runs and packets are named by position, briefs and intents by the capsule
  version that introduced them, checkpoints by number; 0 is "none".
- A violation message is its position in the validation order and the facts it
  prints: canReuseInconsistencyCheckpoint searches a descriptor for the message,
  so this is all that can be told apart.
- An anchor is branch, head and dirty flag; a failed git command leaves "".
- A recovery request either repeats the latest summary and notes or has its own.
- Nothing in the code deletes rows, and one database holds one task, so the
  validation's checks for dangling and foreign references have no counterpart. Nor
  have those that the capsule's intent is the latest (continuity.go:201; an intent is
  committed with the capsule that names it, so only a snapshot of a version that has
  moved can fail it) and that a resolution or a recovery action agrees with what it
  refers to (continuity.go:629, 765; they are written together with it).
- An assessment is one instant in `TaskControl`; `TornReads` takes that back for
  ContinueTask. A transaction captures git at the instant it commits.
- Follow-through and resolution are checked again inside their transaction, so
  they are one step.
- The phases INTERPRETING, COMPLETED and FAILED are never set by the code.

`TornReads` adds `reading` and `snap`: the client `Reader` reads capsule, runs,
checkpoint, packet with its launch, acknowledgment and follow-through,
resolution and recovery action one at a time, every other operation in between.

### Plan and steps (`OperatorPlan`, `OperatorStep`)

`OperatorPlan` derives from a snapshot which of the operator actions are required,
allowed or blocked, in the code's order, and which one is the plan's primary
step. `OperatorStep` reads the plan, dispatches the operation (which assesses the
task again for itself) and writes the receipt in a transaction of its own; a
crash may fall between any two. Command texts are names.

### Handoff audit (`TransitionReceipts`)

The transaction that records a launch's outcome or a resolution assesses the task
before and after and stores a receipt of the difference. The review posture comes
from one transcript: its newest sequence number, the number the latest review
covers, and the acknowledgments.

### Transcripts and registries

A chunk is its sequence number and its source; texts are left out. An append
reads the last number, inserts chunk by chunk, prunes and writes the summary, each
statement on its own, and may stop after any of them. `BoundedLog` says what
remains of the promise: numbers are given once and in order, and what is retained
is a final stretch of them. `RegistryParity` gives the same calls to the registry in memory
(Go slices, one mutex) and to the tables, whose order is that of
`TimestampText`: a text without trailing zeros, compared character by character. The
calls come one after another; what overlapping appends do to SQLite is
`TranscriptReview`'s subject. Sorting is modelled as some order of the elements in which none comes
after one it is before (`InOrder`), which is what both sort.Slice and ORDER BY promise; a
loop that filters a slice keeps its places in that order.

### Shells

`ShellHost` follows app.go's loop turn by turn against a terminal that prints, a
worker that ends, and calls that fail. Lines are numbers, so order and loss can be
told. `gone` is a ghost: the lines the code knowingly drops.

In `ShellSessions` time runs by itself, in units as fine as one likes (`Tick`); no
shell holds it back. A shell that is up has Go's ticker: every `Beat` units (`phase`
reaches the end) it puts a tick into a channel of one place (`due`) or drops it, and
the loop takes the tick whenever it comes round to it (`Heartbeat`), which may be much
later, as every call of the loop is synchronous. Besides, the loop reports whenever
the host's status changed (`ReportStatus`). A call may fail, and one whose client gave
up may be served `late`, after newer ones, with the time at which its handler began.
The daemon compares ages with `StaleAfter`, strictly, as the code does; the clock is
taken as monotonic. Ghosts: `misses` (reports of a shell that failed since the last one
saved), `slow` (since then a tick waited for longer than `Delay` or was dropped), `back`
(a late call took the row back to an older report) and `vouched` (the worker ids some
client called authoritative).

### Incidents

A receipt is identified by its stamp, which is also the order of every query; the
sets of anchors are kept where the code keeps their counts. A triage or follow-up
request resolves its anchor, looks for an equivalent receipt and stamps the new
one before the transaction that inserts it, so receipts can be inserted out of
order. `IncidentSlice` reads anchor, neighbours and nearby rows in separate
queries while the task goes on. The reads of `IncidentAudit` are one instant each,
where the code asks one table after the other
(continuity_incident_followup.go:354); rows are only ever added to them, so what such a
read adds is newer than its beginning.

### Entry (`DaemonEntry`)

`path` is the daemon whose socket has the name, dead or alive: a daemon that
starts unlinks the name before it binds its own, and one whose listener fails
unlinks it again, whosever it is by then. A command dials, launches a daemon if nobody
answers, waits with a bounded number of retries, and asks for the repository's
task, which the handler looks up, creates and answers with in separate steps: a daemon
killed after the commit leaves a task its command was not told of. The lookup and the
transaction may fail. Commands give up on a deadline while their handler goes on.
`created` is a ghost: the tasks created for a command over all its requests. The code
orders a repository's tasks by status and time; here any of them may become the latest.

## 3. Runs

| Run | Instance | Shows |
|---|---|---|
| `operator_local` | 2 clients, one executing operator steps; clean, moved and unreadable repository; versions to 5, 1 run, crashes | a third continue has nothing left to record (`ContinueSettles`); what the plan offers is not refused unless the task moved meanwhile (`OfferedStepsAreAccepted`); an executed step does not lead back to itself (`StepsAdvance`) |
| `operator_handoff` | the same with 2 packets, 1 launch attempt each, versions to 4 | a receipt that says SUCCEEDED has its effect in the database (`SuccessIsDurable`); a resolution ends the packet the plan named (`ResolvesWhatWasPlanned`); the code's own validation only objects to a missing brief or to operations under a RUNNING run (`OnlyOpenRunsAreInconsistent`); no local run on Claude's branch (`NoRunWhileClaudeOwns`) |
| `torn_reads` | 2 clients, one reading table by table; versions to 5, 2 runs, 1 packet, crashes | the local part of a torn snapshot is the task's as long as its version is current (`VersionVouchesForSnapshot`); an assessment at the current version names the latest run (`CurrentVersionCurrentRun`); what changes the task moves the version (`VersionCoversChanges`); runs do not overlap, do not end twice, implement `RunLedger`; types |
| `liveness` | 2 clients, no crash; versions to 3, 1 run, 1 packet, 2 attempts | live runs end, launches conclude, no launch is doubled |
| `receipts` | handoff operations only; 2 packets, 1 attempt each, 2 chunks, 1 acknowledgment | a receipt tells the difference its own handoff made (`ReceiptsTellTheirOwn`), a resolution has exactly one, and no launch outcome that arrives after it has any (`ResolutionEndsTheTrail`) |
| `transcript` | 2 sources, retention 2, batches of 2, 3 chunks, 2 reviews, 1 acknowledgment | a review that reads as current saw every retained chunk (`CurrentMeansSeen`), progression and acknowledgments do not claim more than was seen (`ProgressionIsHonest`, `FreshAckSawAll`), the transcript implements `BoundedLog` |
| `registry` | 4 instants to the second, 7 instants, retention 2, 4 chunks, 2 rows | both registries answer alike (`ReadsAgree`), and where the order of rows differs they are of the same second (`LatestWithinASecond`) |
| `shell_host` | 4 lines, 2 may wait, 1 per flush, failing calls | evidence is stored in order and at most once (`EvidenceInOrder`), the shell never turns away from a running worker (`NoUnattendedWorker`), a worker's end reaches the registry (`EndsReachRegistry`) |
| `shell_sessions` | 1 shell, 1 other client, 1 worker id; a heartbeat every 2 units, stale after 5, ticks late by 1, 1 miss, 1 late call | a running shell does not read as stale unless two reports in a row failed, its loop was slow, or a late call took its row back (`RunningIsNotStale`), only vouched worker ids are offered for reattachment (`AttachableIsVouched`), a session whose shell is gone fades (`GoneSessionsFade`) |
| `incident` | 2 interchangeable requests, windows of 1, 2 and 3, pages of 1, 5 stamps | a follow-up cites a triage of its incident (`FollowUpsCiteTheirIncident`), a read that says "nothing open" is right (`QuietReadsAreTrue`), pages miss nothing that was there when paging began (`PagesAreComplete`) |
| `incident_slice` | 1 neighbour, 1 near row, 2 scanned, 7 stamps | a slice has no hole (`SliceIsContiguous`), hides nothing if the task stood still (`QuietSlicesHideNothing`), and a nearer row it missed is beyond the scanned ones (`NearMissesAreOld`) |
| `daemon_entry` | 2 terminals, 2 daemons, 1 retry, kills, accept failures, lost answers | when start-ups have settled the name leads to a daemon that listens (`SettledSocketServes`), a command given when there is a task creates none, and one given when there is none at most one (`CreatedOnlyIfNoneWas`), every command ends (`CommandsEnd`) |

Bounds. `MaxVersion` stops requests from beginning, never one that is under way,
so every race near the bound is complete. Five versions with two clients let two
operations interleave after message, run and its end; two runs are enough for a
record about an older run to meet a newer one, two packets for a resolved packet
to meet a new one, two attempts for a relaunch. `MaxPackets` is at most 12 because
the code looks for the active handoff among the twelve newest. Limits of the code
(retention, windows, pages, lines that wait, scan limits) are scaled down so that
each is exceeded: three chunks with retention 2, four lines with two waiting,
five stamps with windows of one to three. In `registry` two binary digits stand
for the nine decimal ones; what matters is that trailing zeros are dropped and
that `Z` sorts after digits and `.` before. A threshold of 5 units
with a heartbeat every 2 is the tightest that lets one report fail and a tick be late:
with 30 and 90 seconds one report may fail, ticks may be anything under 30 seconds
late, and two failures would leave no time for the third report. With 2 misses, or
without the exclusion of rows taken back, TLC finds `RunningIsNotStale` violated.
Symmetry is used for the requests of `incident`, which are interchangeable, and in no
run with liveness.

Deadlock is checked where the repository or the clock can always move, and not in
`transcript`, `registry`, `shell_host`, `incident`, `incident_slice` and
`daemon_entry`, where a bounded history or a finished command really stops.

Fairness, and why the code justifies it:

- `liveness`: an assessed request gets its transaction (goroutines are scheduled,
  `withTx` waits for nobody); a worker and a launcher return because both run
  under `context.WithTimeout` (adapters/codex/adapter.go, `Execute`;
  adapters/claude/launcher.go, `LaunchHandoff`). Nothing is assumed of operators,
  of the repository, or of a daemon that crashes.
- `shell_host`: the event loop goes round (a ticker wakes it), the goroutine that
  waits for the process returns when it ended, and not every heartbeat is lost
  (strong fairness of one that arrives: calls fail now and then, not for ever).
- `shell_sessions`: time passes, and nothing else: no shell is asked to report and no
  late call to be served.
- `daemon_entry`: every command takes its next step; each of its waits has a
  deadline (daemonReadyTimeout, the connection deadline). Nothing is assumed of
  daemons.

## 4. Proofs

All theorems hold for any sets of clients, anchors, operations, requests, shells,
worker ids, sources, terminals and daemons, any amount of output and any bounds and
limits, under the named assumptions of the modules (the sets are not empty, anchors
are records of branch, head and dirty flag, bounds are naturals, limits positive,
`Delay < Beat`, `(MaxMisses + 1) * Beat + Delay <= StaleAfter`,
`InspectWindow >= StatusWindow`, `ScanLimit >= NearLimit`,
a timestamp's fraction has a base of at least two and at least one place).
One further condition, on behaviours, is stated in the theorems themselves: those about
`TranscriptReview` are about histories in which no two appends are at their
insertions at once (`[]InsertsDoNotOverlap`), however many connections there are. The
code has no lock there: two appends that read the same last number, the first given up
by its client and still served, both count on from it. With one connection, as in the
run `transcript`, the condition holds by itself.

| Module | Theorem | States |
|---|---|---|
| `TaskControlProofs` | `TypeCorrect` | `[]TypeOK` |
| | `AssessmentsStayCurrent` | `[]CurrentVersionCurrentRun` |
| | `RunsDoNotOverlap` | `[]OnlyLatestRunning` |
| | `LaunchesAreExclusive` | `[]LaunchersAwaited` |
| | `EndedRunsStay` | `TerminalRunsStay` |
| | `VersionIsAWitness` | `VersionCoversChanges` |
| | `ClaudeBranchBlocksRuns` | `NoRunWhileClaudeOwns` |
| | `RunsAreALedger` | `ImplementsRunLedger`, the refinement |
| | `OperationsKeepContinuity` | `[]OnlyOpenRunsAreInconsistent` |
| | `ContinueReachesAFixedPoint` | `[]ContinueSettles` |
| `CompositionProofs` | `SnapshotsAreVouched` | `TornSpec => []VersionVouchesForSnapshot` |
| | `TornAssessmentsStayCurrent` | `TornSpec => []CurrentVersionCurrentRun` |
| | `TornRunsAreALedger` | `TornSpec => ImplementsRunLedger` |
| | `AuditedTaskIsTask` | `AuditSpec => Spec` |
| | `AuditTypeCorrect` | `AuditSpec => []AuditTypeOK` |
| | `ReceiptsAreTrue` | `AuditSpec => []ReceiptsTellTheirOwn` |
| | `TrailsEndOnce` | `AuditSpec => []ResolutionEndsTheTrail` |
| | `OperatedTaskIsTask` | `StepSpec => Spec` |
| | `StepTypeCorrect` | `StepSpec => []StepTypeOK` |
| | `PlanAndOperationsAgree` | `StepSpec => []OfferedStepsAreAccepted` |
| | `SuccessesLast` | `StepSpec => []SuccessIsDurable` |
| | `PlannedHandoffIsResolved` | `StepSpec => ResolvesWhatWasPlanned` |
| | `CommittedStepsAdvance` | `StepSpec => StepsAdvance` |
| `TranscriptProofs` | `CurrentReviewsAreCurrent` | `[]CurrentMeansSeen` |
| | `ProgressionTellsTheTruth` | `[]ProgressionIsHonest` |
| | `FreshAcknowledgmentsSawAll` | `[]FreshAckSawAll` |
| | `StoreIsABoundedLog` | `ImplementsBoundedLog`, the refinement |
| | `RegistriesReadAlike` | `ParitySpec => []ReadsAgree` |
| | `LatestIsOfItsSecond` | `ParitySpec => []LatestWithinASecond` |
| `ShellHostProofs` | `EvidenceIsOrdered` | `[]EvidenceInOrder` |
| | `WorkerIsAttended` | `[]NoUnattendedWorker` |
| `ShellSessionsProofs` | `TypesKept` | `[]TypeOK` |
| | `ReattachmentIsVouched` | `[]AttachableIsVouched` |
| | `RunningReadsAsRunning` | `[]RunningIsNotStale` |
| `IncidentAuditProofs` | `FollowUpsCite` | `[]FollowUpsCiteTheirIncident` |
| | `QuietReadsTellTheTruth` | `[]QuietReadsAreTrue` |
| | `PagingLosesNothing` | `[]PagesAreComplete` |
| `IncidentSliceProofs` | `SlicesHaveNoHoles` | `[]SliceIsContiguous` |
| | `QuietSlicesTellTheTruth` | `[]QuietSlicesHideNothing` |
| | `MissesAreOld` | `NearMissesAreOld` |
| `DaemonEntryProofs` | `SocketServes` | `[]SettledSocketServes` |
| | `NoSecondTask` | `[]CreatedOnlyIfNoneWas` |

Where a module also lists a theorem `...Invariance`, it states the inductive invariant
from which the others follow.

`TaskControlProofs`. The inductive invariant `TaskInv` is the conjunction of
`TypeOK`, `CurrentVersionCurrentRun`, `OnlyLatestRunning`, `LaunchersAwaited` and two
strengthenings. `VersionsBehind` (no request was assessed at a version the
capsule has not reached) is what makes a moved version leave every older
request behind; without it a request could become current again.
`PacketsResumable` (every packet was created from a resumable checkpoint) is why
an active handoff always decides the recovery class: a packet that were not
resumable would be skipped by recoveryFromContinueAssessment and a local run
could start beside it. The argument goes action by action to two facts about
every step: `Shape` (it moves the version and starts no request, or it leaves
capsule and runs alone, and a request it starts names the latest run) and
`RunsChange` (it leaves the runs alone, appends one while none is RUNNING and no
handoff is active, or ends a RUNNING one). `Shape` keeps assessments current;
that is what makes the run reconciled by a continue still RUNNING. `RunsChange`
for a start rests on `ProgressionKeepsReady` (no recovery action turns a task
READY_NEXT_RUN), `RunningBlocksStart` and `HandoffBlocksStart`.

`OperationsKeepContinuity`. Each of validation's thirteen objections needs its own
reason. A resumable checkpoint is never in a phase that waits for an operator: for
a continue that re-records the present phase this holds because an assessment at
the current version saw that phase (`AssessedPhase`, the strengthening), for a
handoff because it was assessed with such a checkpoint or phase. The task is
EXECUTING only under a RUNNING run, because a step that leaves it EXECUTING
started one or touched neither (`PhaseStep`). A packet agrees with its checkpoint
from its creation on, and its launch is COMPLETED exactly when an acknowledgment
is recorded, which no retry can undo because a COMPLETED launch is not retryable
(`SoundPacket`, with `LaunchersAwaited`). What remains are a missing brief and the
objections to a RUNNING run.

`ContinueReachesAFixedPoint`. `ContinueRecords` lists what an uninterrupted continue
can record, `RecordedOutcomes` what that leaves in the task: the phase and a checkpoint
at the anchor it assessed, so that the next continue sees no drift and, by `StaysConsistent`,
no new objection. After every outcome but BLOCKED the next assessment has the same
outcome and its checkpoint is reused (`SettlesAtOnce`). BLOCKED is different: under a
RUNNING run it is itself an objection the next time, and the message then changes. The
second BLOCKED changes nothing validation reads (`BlockedIssuesSame`), so the third
continue finds the very same objections (`BlockedSettles`). Nothing of `TaskInv` but the
types is needed: continue settles from any state of the right shape.

`CompositionProofs` is about the modules that put `TaskControl` beside something
longer than a transaction. For `TornReads`, `SnapshotInv` relates the half-read
snapshot to the database: it is behind it, and as long as its version is not,
capsule and runs are the same, and the checkpoint too unless nothing is RUNNING. The
exception is the checkpoint CreateHandoff writes without moving the version;
validation asks for the checkpoint's run only under a RUNNING run, which is why the
objections still agree.

For `TransitionReceipts`, every step is first shown to be one of `TaskControl`
(`AuditedTaskIsTask`), so that what is proved there may be used. `PacketsMove` says
what any step does to the packets: none is deleted, no completed launch is launched
again, no resolution is taken back; and only RecordHandoffResolution resolves, the
active one (`EveryPacketsMove`). The inductive invariant `AuditInv` adds to the
property about single receipts (`ReceiptsTellTheirOwn`) where the trail of a handoff
stands (`TrailsEnd`: resolved exactly if it has one receipt of its resolution, which
is the last) and that no acknowledgment covers evidence that has not arrived
(`AcksBehind`). The launch receipts rest on `LaunchersAwaited`: a launch that ends
was pending, so the snapshot before it cannot show another state; and a receipt is
written only if the active handoff is the launched one, which a resolved handoff
never is again, so its trail stays ended.

For `OperatorStep`, the plan and the gates of the operations both read the recovery
class, but along different code. `DispatchedIsRequired` shows that every step `operator
next` dispatches, resolutions apart, is the action the class requires, never one that
is merely allowed; so the class of the snapshot decides, and `PlanAgrees` goes
through the classes. That a launch offered is safe to make rests on `SoundPacket` of
the previous section. `OperatorInv` then says what the step has in its hands at each
stage (`StageInv`), that its request was assessed for its action (`AssessedInv`), that
the resolution the task remembers is that of a resolved packet (`LastResolved`), and
that every receipt tells the truth (`ReceiptsHold`). Steps of others keep receipts true
because runs that ended stay ended (`EveryRunsMove`) and completed launches and
resolutions are never taken back (`PacketsMove`). With it every behaviour of
`StepSpec` is one of `Spec` (`OperatedTaskIsTask`). `CommittedStepsAdvance` compares the
plan of the state a commit leads to, action by action (`Commits`,
`CommittedStepAdvances`).

`TranscriptProofs`, about `TranscriptReview`. `StoreInv` says that numbers are given once, that an append at
its insertions continues from the newest retained number, and that a saved row of
counters never counts as empty (`RowIsNotEmpty`): then the newest number in the
summary is the newest retained one, whatever a failure or a crash left in the row,
because pruning never takes the newest chunk. `EvidenceWasSeen` adds that every chunk
numbered up to a mark was there when its author looked (`Saw`). A chunk inserted
later has a larger number, so every statement of an append keeps it. The refinement
maps each statement to an append, a drop or a stutter of `BoundedLog`.

`TranscriptProofs`, about `RegistryParity`. `ParityInv` says what memory has (the
chunks numbered on from those it dropped, no more than the retention) and, at every
statement of an append, how far SQLite is behind: its chunks are numbered without a gap
from what it has dropped to what it has inserted, each with the source memory has for
that number; what is still in the batch is what memory has for the numbers to come;
and the pruning will drop exactly what memory has dropped (`HighestAreNumbered`). So
both have the same numbers when the append ends. Pages need more: SQLite takes the
newest rows in descending order and turns them round, memory takes the end of a filtered
slice. Both are all rows in ascending order of their numbers, cut alike, and there is one such
order (`AscendingIsUnique`, by the first place where two differ). For the latest rows,
every finite set can be put in any transitive order that puts nothing before itself
(`ArrangementExists`); the comparison of texts is one (`TextsAreOrdered`), it never
puts an earlier second first (`SecondDecides`), and in two orders by
descending second the same place holds rows of the same second (`NotALaterSecond`, by counting).
Inductions over numbers are done by hand there, on the least counterexample
(`LeastNumber`): so `PlaceIs` shows that the recursive function `Place` is
well defined.

`ShellHostProofs`. `Attended` ties the loop, the host it shows and the terminal
together: a worker runs only under a live host that the loop still shows, and the loop
turns away only after the reader saw its end. `Evidence` says that what is stored and
what waits is one ascending sequence without what is gone; `Stream` says the same of
the lines still in the terminal, which come after all of those. Lemmas about cutting,
joining and flushing ascending sequences carry each action.

`ShellSessionsProofs`. `SessionInv` is `TypeOK`, `SourcesAreSound` (whatever calls
itself authoritative, in a shell, a row or a late call, was vouched for) and
`AgesAreBounded`: the row of a running shell whose loop was not slow is no older than
its failed reports, and the tick that waits, allow in intervals of the ticker, plus the
ticker's phase (`AgesFit`). With no more than `MaxMisses` failures that is at most
`(MaxMisses + 1) * Beat + Delay`: a fact about time that runs freely, since the ticker
fires on it and not it on the ticker. What the bound leaves out is said in the
property: rows that a late call took back (`back`), and loops that were `slow`.
Every report goes through one operator, so one lemma, `ReportStep`, serves all actions.

`IncidentAuditProofs`. The tables are ledgers: finite, and a stamp names one receipt
(`TablesAreLedgers`), which the stamps reserved by requests under way must keep
(`StampsAreFresh`). What a request or a receipt cites is in the tables
(`ReceiptsCite`); nothing is deleted, so it stays. A reader that goes on owes only
receipts older than its cursor (`PagingIsComplete`); a late insertion adds to what it
may meet, never to what it owes. Conclusions from windows follow from one lemma on the
newest receipts of a ledger: what a window leaves out is older than all it holds, and
a read that says "nothing open" has seen the newest receipt of each anchor or says
nothing of it.

`IncidentSliceProofs`. Every query takes the first rows of an order, and one lemma
(`FirstsAre`) says what that returns: a set closed towards the beginning of the order,
everything if there is no more, and as many as asked for otherwise; `OneMoreTells` is
about the extra row that tells whether there are others. `SliceInv` adds what the task
may have changed between two queries: transitions only after the anchor, so the older
side stays complete (`OlderSideIsRead`); runs and actions only with stamps after the
read began (`MissedIsLate`); and the number of runs never falls.

`DaemonEntryProofs`. `NameIsAccountedFor` says that the socket's name leads to a daemon
that bound it and has not given it back, and that while it leads nowhere although some
daemon has bound, another has unlinked it and will bind, or one that was killed or left
is to blame; an invariant of settled states alone would not survive the steps of a
start-up. `FutureAttemptsAreFree` (an attempt a terminal has not made has no handler)
keeps the handlers of repeated commands apart, and `Deciders` says that a handler that
created a task, or is about to, serves a command given while there was none, and that
one about to create has created nothing yet, whichever daemons it has been through.

Every safety invariant and action property that a run checks is stated by a theorem.
Only model-checked: the liveness properties (`LiveRunsEnd`, `LaunchesConclude`,
`EndsReachRegistry`, `GoneSessionsFade`, `CommandsEnd`), which are out of the prover's
reach, as is ENABLED.

## 5. Where the program's words and its code disagree, or surprise

These were met while modelling. All are behaviours of the models, none is asserted as a
property.

- Continue reconciles a RUNNING run whose worker is alive and says that no
  execution handle was present; the worker's result is lost (service.go:800, 2376).
- A continue finalized under drift reports readiness for the next run, and the
  next run is refused (continue_execution.go:72).
- The review of a second failed run is taken for a repetition of the first
  (recovery_action.go:294).
- A regenerate decision about an earlier run applies to a later failure
  (recovery.go:396), and under drift rebriefing leads back to rebriefing.
- A repair intent hides a decision to continue that is not finalized
  (recovery.go:286).
- The advice given for an inconsistency, to send a message, does not remove it
  while a run is RUNNING (service.go:2469).
- A message checked before AcceptHandoff and committed after it writes a brief on
  a task that Claude owns (service.go:415).
- A packet resolved before an older one is offered again (handoff.go:465).
- A snapshot torn between packet and acknowledgment blocks a consistent task
  (continuity.go:64).
- The plan may ask for a decision that is refused on BLOCKED_DRIFT
  (recovery_action.go:202).
- A blocked start is recorded SUCCEEDED without a run, a reused launch SUCCEEDED
  without a launch (operator_step_execution.go:147, 256).
- The launch of a packet that is not the active one writes no receipt
  (continuity_transition_receipts.go:235); acceptance writes none either
  (handoff.go:182).
- Two appends of one session that overlap give a sequence number twice
  (shell_session_repo.go:527).
- A crash between prune and summary loses the count of dropped chunks
  (shell_session_repo.go:602).
- A worker that ends between two reads of its status in one turn has its end
  recorded only in the registry (tui/shell/app.go:301).
- A late heartbeat revives a session that ended, and takes the time of its last report
  back, so that a running session may read as stale until it is saved again
  (shell_session_repo.go:217).
- Two heartbeats in a row that fail make a running shell read as stale: the third comes
  90 seconds and a little after the last one saved (shell_sessions.go:630,
  session_registry.go:14).
- Rows of one second may be ordered against time (storage/sqlite/store.go:23).
- A triage with a blank note is not recognised as a repetition
  (continuity_incident_triage.go:304), and retriaging as NEEDS_FOLLOW_UP can read
  as closed (continuity_incident_triage.go:585).
- Status and inspect summarise different windows (service.go:2090).
- The nearest run is not shown if it is beyond the scan limit
  (continuity_incident_slice.go:352).
- Commands given at once, or again while an earlier handler still runs, create two
  tasks for one repository (repo_entry.go:40). A task whose command lost its answer
  after the commit stays, and the command finds it when it asks again.

## 6. Not modelled, and what is left

Not modelled: rendering and the view model, key handling and scratch notes,
the IPC payload mapping and the route table (they copy fields), flag parsing and
the commands that make a single call, prompts and output parsing of workers, the
wording of intents and briefs, response synthesis, telemetry (an empty package).
None of them keeps state that another step reads.

Left to do: an abstract specification of custody (who owns a task), implemented by
`HandoffControl`; larger instances of `operator_handoff` with two attempts and two runs.
