----------------------------- MODULE TaskStore -----------------------------
(***************************************************************************)
(* The state shared by every operation on one task: the SQLite database    *)
(* (which survives a daemon crash), the git repository (which nobody       *)
(* locks), and what only lives in the daemon's goroutines: requests that   *)
(* have assessed the task and not yet committed, worker executions and     *)
(* handoff launches in progress.  The daemon serves every connection in    *)
(* its own goroutine (runtime/daemon/service.go, Run), so these interleave *)
(* freely; a database transaction (withTx) is one atomic step.             *)
(***************************************************************************)
EXTENDS Recovery

CONSTANTS
  Clients,       \* concurrent requests
  HandoffReqs,   \* distinguishable handoff requests (mode, reason, notes)
  Operations,    \* the operations a run of the model explores
  MaxVersion,    \* no request begins at this capsule version or later
  MaxRuns,       \* bound on the number of execution runs
  MaxPackets,    \* no handoff is requested once there are that many
  MaxAttempts    \* bound on the number of handoff launch attempts

AllOperations ==
  {"message", "checkpoint", "run", "noop", "manual", "continue", "record",
   "rebrief", "resume", "finalize", "handoff", "accept", "launch", "follow",
   "resolve", "crash"}

ASSUME ClientsAssumption == Clients # {} /\ HandoffReqs # {}
ASSUME AnchorsAssumption ==
  /\ Anchors # {}
  /\ Anchors \subseteq [branch : STRING, head : STRING, dirty : BOOLEAN]
ASSUME OperationsAssumption == Operations \subseteq AllOperations
ASSUME BoundsAssumption ==
  /\ MaxVersion \in Nat /\ MaxRuns \in Nat
  /\ MaxPackets \in 0..12     \* loadActiveClaudeHandoffBranch lists twelve
  /\ MaxAttempts \in Nat

VARIABLES
  caps,       \* the work capsule row
  runs,       \* the execution_runs table
  cp,         \* the latest row of the checkpoints table
  act,        \* the latest row of the recovery_actions table
  packets,    \* the handoff tables
  lastRes,    \* the handoff of the latest handoff_resolutions row
  repo,       \* what a git capture returns now
  pending,    \* per client: the assessed request waiting for its transaction
  workers,    \* runs whose real worker is executing in this daemon
  launches    \* launch attempts whose launcher is executing: [packet, attempt]

database == <<caps, runs, cp, act, packets, lastRes>>
volatile == <<pending, workers, launches>>
vars == <<caps, runs, cp, act, packets, lastRes, repo, pending, workers, launches>>

\* loadContinuitySnapshot
db == [caps |-> caps, runs |-> runs, cp |-> cp, act |-> act,
       packets |-> packets, lastRes |-> lastRes]

----------------------------------------------------------------------------
Issues == [at : Nat, word : {"", "NONE", "VERSION"} \cup Phases \cup RunStatuses,
           a : Nat, b : Nat]

Capsules == [ver : Nat, phase : Phases, brief : Nat, intent : Nat,
             anchor : Anchors]

Runs == [status : RunStatuses, brief : Nat]

Checkpoints == [id : Nat, ver : Nat, phase : Phases, brief : Nat,
                intent : Nat, anchor : Anchors, run : Nat,
                resumable : BOOLEAN, reason : Issues]

Actions == [kind : ActionKinds, run : Nat, cp : Nat, handoff : Nat,
            attempt : Nat]

Packets == [status : {"CREATED", "ACCEPTED"}, req : HandoffReqs,
            brief : Nat, intent : Nat, phase : Phases, ver : Nat,
            run : Nat, runStatus : {"NONE"} \cup RunStatuses,
            cp : Checkpoints, resumable : BOOLEAN,
            launch : LaunchStatuses, attempt : Nat,
            ack : {"NONE", "CAPTURED", "UNAVAILABLE"},
            follow : {"NONE"} \cup FollowKinds, followAttempt : Nat,
            resolved : BOOLEAN]

NoAction == [kind |-> "NONE", run |-> 0, cp |-> 0, handoff |-> 0, attempt |-> 0]

\* A request between its assessment and its transaction.  op "idle" is no
\* request; the other fields are what the transaction reads of the
\* assessment: capsule version, captured anchor, outcome and its reason,
\* latest run and its status, latest checkpoint, latest resolution, the
\* recovery action to write, the handoff request.
Requests == [op : {"idle", "message", "checkpoint", "continue", "record",
                   "rebrief", "resume", "finalize", "handoff"},
             ver : Nat, anchor : Anchors, outcome : Outcomes, reason : Issues,
             run : Nat, runStatus : {"NONE"} \cup RunStatuses, cp : Nat,
             lastRes : Nat, act : Actions, req : HandoffReqs]

Launches == [packet : Nat, attempt : Nat]

Idle == [op |-> "idle", ver |-> 0, anchor |-> CHOOSE a \in Anchors : TRUE,
         outcome |-> "Safe", reason |-> NoIssue, run |-> 0,
         runStatus |-> "NONE", cp |-> 0, lastRes |-> 0, act |-> NoAction,
         req |-> CHOOSE r \in HandoffReqs : TRUE]

----------------------------------------------------------------------------
(***************************************************************************)
(* Building blocks of the transactions.                                    *)
(***************************************************************************)
\* The bound on versions stops new requests, never one that is under way.
MayBegin(op) == op \in Operations /\ caps.ver < MaxVersion

\* A client with nothing open begins op.
Free(c, op) == MayBegin(op) /\ pending[c].op = "idle"

Done(c) == pending' = [pending EXCEPT ![c] = Idle]

\* The capsule row as an update leaves it: one version further, in phase ph.
Bumped(c, ph) == [c EXCEPT !.ver = @ + 1, !.phase = ph]

\* createCheckpoint for the capsule c
NewCheckpoint(c, run, resumable, reason) ==
  Checkpoint(cp.id + 1, c, run, resumable, reason)

\* The latest run moves to a terminal status.
EndRun(id, status) == [runs EXCEPT ![id].status = status]

----------------------------------------------------------------------------
(***************************************************************************)
(* StartTask leaves a capsule in version 1, in INTAKE, without brief or    *)
(* intent, anchored where the repository is.                               *)
(***************************************************************************)
StartTask ==
  /\ repo \in Anchors
  /\ caps = [ver |-> 1, phase |-> "INTAKE", brief |-> 0, intent |-> 0,
             anchor |-> repo]
  /\ runs = <<>>
  /\ cp = Checkpoint(0, caps, 0, FALSE, NoIssue)    \* number 0: none yet
  /\ act = NoAction
  /\ packets = <<>>
  /\ lastRes = 0
  /\ pending = [c \in Clients |-> Idle]
  /\ workers = {}
  /\ launches = {}

\* Commits, checkouts and edits, by the developer or by a worker: the
\* repository is outside the daemon's control, and git itself may fail.
RepositoryChanges ==
  /\ repo' \in Anchors
  /\ UNCHANGED <<database, volatile>>

\* The daemon dies: goroutines are lost, committed transactions are not.
\* The next daemon recovers nothing at start-up (app/bootstrap.go).
DaemonCrash ==
  /\ "crash" \in Operations
  /\ pending' = [c \in Clients |-> Idle]
  /\ workers' = {}
  /\ launches' = {}
  /\ UNCHANGED <<database, repo>>

=============================================================================
