----------------------------- MODULE TornReads -----------------------------
(***************************************************************************)
(* assessContinue outside a transaction: loadContinuitySnapshot asks one   *)
(* table after the other, and every other operation may commit in between. *)
(* One client's ContinueTask works on such a snapshot; the other requests  *)
(* are those of TaskControl.  (The second read of the handoff tables, for  *)
(* the active handoff, decides nothing about a continue and is left out.)  *)
(***************************************************************************)
EXTENDS TaskControl

CONSTANTS Reader   \* the client whose snapshot is read table by table

ASSUME ReaderAssumption == Reader \in Clients

VARIABLES
  reading,  \* the table to be read next, "idle" or "read"
  snap      \* the snapshot so far, of a request under way

tornVars == <<vars, reading, snap>>

\* The queries of loadContinuitySnapshot in their order; the launch is read
\* with the latest packet, its acknowledgment and follow-through after it.
TableOrder == <<"caps", "runs", "cp", "packets", "acks", "resolution", "act", "read">>

NextStep(s) == TableOrder[(CHOOSE i \in DOMAIN TableOrder : TableOrder[i] = s) + 1]

NoSnapshot == <<>>

TornInit == Init /\ reading = "idle" /\ snap = NoSnapshot

BeginSnapshot ==
  /\ reading = "idle" /\ Free(Reader, "continue")
  /\ reading' = "runs"
  /\ snap' = db
  /\ UNCHANGED vars

\* Acknowledgment and follow-through rows of the packets already read.
WithAcks(old) ==
  [id \in DOMAIN old |-> [old[id] EXCEPT !.ack = packets[id].ack,
                                         !.follow = packets[id].follow,
                                         !.followAttempt = packets[id].followAttempt]]

ReadTable ==
  /\ reading \notin {"idle", "read"}
  /\ snap' = CASE reading = "runs" -> [snap EXCEPT !.runs = runs]
               [] reading = "cp" -> [snap EXCEPT !.cp = cp]
               [] reading = "packets" -> [snap EXCEPT !.packets = packets]
               [] reading = "acks" -> [snap EXCEPT !.packets = WithAcks(@)]
               [] reading = "resolution" -> [snap EXCEPT !.lastRes = lastRes]
               [] reading = "act" -> [snap EXCEPT !.act = act]
  /\ reading' = NextStep(reading)
  /\ UNCHANGED vars

\* ContinueTask on the snapshot: the assessment waits for its transaction, or
\* it answers without one.
AssessSnapshot ==
  /\ reading = "read" /\ pending[Reader].op = "idle"
  /\ IF ContinueMutates(snap, repo)
     THEN pending' = [pending EXCEPT ![Reader] = ContinueAssessment(snap, repo)]
     ELSE UNCHANGED pending
  /\ reading' = "idle" /\ snap' = NoSnapshot
  /\ UNCHANGED <<database, repo, workers, launches>>

\* While it reads, the client does nothing else; a crash ends the read.
OtherStep ==
  /\ reading # "idle" => pending'[Reader] = pending[Reader]
  /\ UNCHANGED <<reading, snap>>

TornNext ==
  \/ BeginSnapshot
  \/ ReadTable
  \/ AssessSnapshot
  \/ LocalMutationStep /\ OtherStep
  \/ RunStep /\ OtherStep
  \/ \E c \in Clients : FinalizeContinue(c) /\ OtherStep
  \/ \E c \in Clients \ {Reader} : AssessContinue(c) /\ OtherStep
  \/ RecoveryStep /\ OtherStep
  \/ HandoffStep /\ OtherStep
  \/ RepositoryChanges /\ OtherStep
  \/ DaemonCrash /\ reading' = "idle" /\ snap' = NoSnapshot

TornSpec == TornInit /\ [][TornNext]_tornVars

----------------------------------------------------------------------------
\* What the validation says of the local lineage.
LocalIssues(d) == {i \in validateContinuitySnapshot(d) : i.at <= 6}

\* A snapshot whose capsule version is still the current one when it has been
\* read agrees with the database on the local lineage, however it was torn:
\* capsule, runs and what validation says of them.  So a verdict about the
\* local lineage that passes the version check of finalizeContinue is true.
VersionVouchesForSnapshot ==
  reading = "read" /\ snap.caps.ver = caps.ver =>
    /\ snap.caps = caps /\ snap.runs = runs
    /\ LocalIssues(snap) = LocalIssues(db)
=============================================================================
