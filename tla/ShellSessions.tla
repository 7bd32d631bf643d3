--------------------------- MODULE ShellSessions ---------------------------
(* The registry of a task's shell sessions. Every `tuku shell' reports itself   *)
(* at its start, when its host changes, when its ticker fires and at its end;   *)
(* the daemon keeps one row per session and classifies the rows by the age of   *)
(* the last report. A call may fail, and a call whose client has given up may   *)
(* still be served, with the time at which its handler began. Other clients of  *)
(* the daemon may report sessions of their own and vouch for worker sessions    *)
(* that a new shell then reattaches to. Time runs on its own, in units as fine  *)
(* as one likes: nothing a shell owes holds it back, and a loop that is blocked *)
(* in another call takes its tick late or loses it.                             *)
EXTENDS Integers, FiniteSets

CONSTANTS
  Shells,       \* sessions of `tuku shell', each opened once
  Others,       \* sessions reported by other clients of the daemon
  WorkerIds,    \* session ids of codex or claude
  NoId,         \* the empty worker session id
  NoTarget,     \* no --reattach
  Beat,         \* shellSessionHeartbeatInterval (30 s) in units of time
  StaleAfter,   \* DefaultShellSessionStaleAfter (90 s) in units of time
  Delay,        \* a tick whose report comes later than this is late
  MaxMisses,    \* reports in a row that may fail before a session may read as stale
  MaxLate       \* bound: calls given up and still to be served

ASSUME SessionBounds ==
  /\ Beat \in Nat \ {0} /\ StaleAfter \in Nat /\ MaxLate \in Nat /\ MaxMisses \in Nat
  /\ Delay \in Nat /\ Delay < Beat
  /\ (MaxMisses + 1) * Beat + Delay <= StaleAfter
  /\ NoId \notin WorkerIds /\ NoTarget \notin Shells \cup Others
  /\ Shells \cap Others = {}
  /\ IsFiniteSet(Shells)

VARIABLES
  shell,    \* every shell: its process, host, worker and ticker; misses, slow (ghosts)
  row,      \* the registry
  late,     \* reports given up by their client and not served yet
  vouched   \* worker sessions another client called authoritative (ghost)

vars == <<shell, row, late, vouched>>

Sessions == Shells \cup Others
Ids == WorkerIds \cup {NoId}
IdSources == {"none", "authoritative", "heuristic", "unknown"}
HostStates == {"starting", "live", "fallback"}
Statuses == [state : HostStates, wid : Ids, src : IdSources]
Oldest == StaleAfter + 1
Ages == 0..Oldest

Records == [active : BOOLEAN, state : HostStates, wid : Ids, src : IdSources,
            attach : BOOLEAN, age : Ages]
NoRow == [known |-> FALSE]
Rows == {NoRow} \cup [known : {TRUE}, back : BOOLEAN, is : Records]

Off == [state |-> "starting", wid |-> NoId, src |-> "none"]
NotOpened == [pc |-> "unopened", host |-> Off, first |-> Off, wid |-> NoId, src |-> "none",
              phase |-> 0, due |-> FALSE, misses |-> 0, slow |-> FALSE]
Running(sh) == sh.pc \in {"boot", "up"}

-----------------------------------------------------------------------------
(* The daemon.                                                                  *)

normalizeSource(src, wid) == IF wid = NoId THEN "none" ELSE IF src = "none" THEN "unknown" ELSE src

UpsertAsOld(old, rec) ==
  [rec EXCEPT !.age = IF old = NoRow THEN @ ELSE old.is.age,
              !.wid = IF rec.wid # NoId \/ old = NoRow THEN @ ELSE old.is.wid,
              !.src = IF rec.wid # NoId \/ old = NoRow THEN normalizeSource(@, rec.wid)
                      ELSE old.is.src]

(* A report without a worker session id keeps the known one with its source.    *)
Upsert(old, rec) ==
  [rec EXCEPT !.wid = IF rec.wid # NoId \/ old = NoRow THEN @ ELSE old.is.wid,
              !.src = IF rec.wid # NoId \/ old = NoRow THEN normalizeSource(@, rec.wid)
                      ELSE old.is.src]

(* back (ghost): a call served late took the row back to an earlier report.     *)
Saved(s, rec, back) ==
  [row EXCEPT ![s] = [known |-> TRUE, back |-> back, is |-> Upsert(row[s], rec)]]

isAttachableRecord(rec) == rec.wid # NoId /\ rec.src = "authoritative" /\ rec.attach

classifyForever(rec) ==
  IF ~rec.active THEN "ended"
  ELSE IF isAttachableRecord(rec) THEN "attachable" ELSE "active_unattachable"

(* classifyShellSession *)
classify(rec) ==
  IF ~rec.active THEN "ended"
  ELSE IF rec.age > StaleAfter THEN "stale"
  ELSE IF isAttachableRecord(rec) THEN "attachable" ELSE "active_unattachable"

Class(s) == IF row[s] = NoRow THEN "none" ELSE classify(row[s].is)

(* inferActiveShellSessionID: a session a new run is bound to, one of the best  *)
(* rank.                                                                        *)
Inferable == LET best == {s \in Sessions : Class(s) = "attachable"}
             IN  IF best # {} THEN best ELSE {s \in Sessions : Class(s) = "active_unattachable"}

-----------------------------------------------------------------------------
(* The shells.                                                                  *)

refreshTrusting(sh, status) ==
  [wid |-> IF status.wid # NoId THEN status.wid ELSE sh.wid,
   src |-> IF status.wid # NoId /\ sh.src = "none" THEN "authoritative" ELSE sh.src]

(* refreshWorkerSessionAnchor: the host's id, if it has one, with its source.   *)
refreshAnchor(sh, status) ==
  [wid |-> IF status.wid # NoId THEN status.wid ELSE sh.wid,
   src |-> IF status.wid # NoId THEN normalizeSource(status.src, status.wid) ELSE sh.src]

reportOf(sh, status, active) ==
  LET a == refreshAnchor(sh, status)
  IN  [active |-> active, state |-> status.state, wid |-> a.wid, src |-> a.src, age |-> 0,
       attach |-> status.state = "live" /\ a.wid # NoId /\ a.src = "authoritative"]

More(n) == IF n > MaxMisses THEN n ELSE n + 1

(* The loop has left a tick in the channel for longer than Delay.               *)
Behind(sh) == sh.due /\ sh.phase > Delay

(* reportShellSession: the call succeeds, fails, or is given up and served late. *)
Report(s, sh, status, active) ==
  LET rec   == reportOf(sh, status, active)
      after == [sh EXCEPT !.wid = refreshAnchor(sh, status).wid,
                          !.src = refreshAnchor(sh, status).src]
  IN  \/ /\ row' = Saved(s, rec, FALSE)
         /\ shell' = [shell EXCEPT ![s] = [after EXCEPT !.misses = 0, !.slow = Behind(sh)]]
         /\ UNCHANGED late
      \/ /\ shell' = [shell EXCEPT ![s] = [after EXCEPT !.misses = More(@)]]
         /\ UNCHANGED <<row, late>>
      \/ /\ Cardinality(late) < MaxLate
         /\ late' = late \cup {[of |-> s, rec |-> rec]}
         /\ shell' = [shell EXCEPT ![s] = [after EXCEPT !.misses = More(@)]]
         /\ UNCHANGED row

(* resolveReattachTarget: only a session that reads as attachable.              *)
resolveReattachTarget(target) ==
  /\ target \in Sessions
  /\ Class(target) = "attachable"

OpenShell(s, target) ==
  /\ shell[s].pc = "unopened"
  /\ target = NoTarget \/ resolveReattachTarget(target)
  /\ LET sh == [NotOpened EXCEPT !.pc = "boot",
                                 !.wid = IF target = NoTarget THEN NoId ELSE row[target].is.wid,
                                 !.src = IF target = NoTarget THEN "none" ELSE row[target].is.src]
     IN  Report(s, sh, Off, TRUE)
  /\ UNCHANGED vouched

(* The ticker is made after the report of the host that started.                *)
StartHost(s) ==
  /\ shell[s].pc = "boot"
  /\ \E status \in {[state |-> "live", wid |-> shell[s].wid,
                     src |-> IF shell[s].wid = NoId THEN "none" ELSE "authoritative"],
                    [Off EXCEPT !.state = "fallback"]} :
       Report(s, [shell[s] EXCEPT !.pc = "up", !.host = status, !.first = status, !.phase = 0],
              status, TRUE)
  /\ UNCHANGED vouched

(* The worker prints something that looks like a session id.                    *)
DetectWorkerSessionID(s, w) ==
  /\ shell[s].pc = "up" /\ shell[s].host.state = "live"
  /\ shell[s].host.wid = NoId
  /\ shell' = [shell EXCEPT ![s].host = [@ EXCEPT !.wid = w, !.src = "heuristic"]]
  /\ UNCHANGED <<row, late, vouched>>

(* The loop takes the tick from the channel and reports.                        *)
Heartbeat(s) ==
  /\ shell[s].pc = "up" /\ shell[s].due
  /\ Report(s, [shell[s] EXCEPT !.due = FALSE], shell[s].host, TRUE)
  /\ UNCHANGED vouched

(* The report of a changed status at the end of a turn: hostStatusChanged also    *)
(* compares size, note and exit, which may change at any time and are left out.  *)
ReportStatus(s) ==
  /\ shell[s].pc = "up"
  /\ Report(s, shell[s], shell[s].host, TRUE)
  /\ UNCHANGED vouched

FallBack(s) ==
  /\ shell[s].pc = "up" /\ shell[s].host.state = "live"
  /\ LET status == [Off EXCEPT !.state = "fallback"]
     IN  Report(s, [shell[s] EXCEPT !.host = status], status, TRUE)
  /\ UNCHANGED vouched

Stop(sh) == [sh EXCEPT !.pc = "gone", !.phase = 0, !.due = FALSE, !.misses = 0, !.slow = FALSE]

(* The end is reported with the status of the start.                            *)
Quit(s) ==
  /\ shell[s].pc = "up"
  /\ Report(s, Stop(shell[s]), shell[s].first, FALSE)
  /\ UNCHANGED vouched

ShellCrash(s) ==
  /\ Running(shell[s])
  /\ shell' = [shell EXCEPT ![s] = Stop(@)]
  /\ UNCHANGED <<row, late, vouched>>

-----------------------------------------------------------------------------
(* The row as it was has no say: the report may be older than the one it holds. *)
ServeLate(call) ==
  /\ call \in late
  /\ late' = late \ {call}
  /\ LET old == row[call.of]
     IN  row' = Saved(call.of, call.rec, old # NoRow /\ (old.back \/ call.rec.age > old.is.age))
  /\ UNCHANGED <<shell, vouched>>

DaemonCrash ==
  /\ late # {}
  /\ late' = {}
  /\ UNCHANGED <<shell, row, vouched>>

(* Another client reports a session of its own over the socket.                 *)
OtherReports(s, w, active) ==
  /\ row' = Saved(s, [active |-> active, state |-> "live", wid |-> w, src |-> "authoritative",
                      attach |-> TRUE, age |-> 0], FALSE)
  /\ vouched' = vouched \cup {w}
  /\ UNCHANGED <<shell, late>>

Older(age) == IF age = Oldest THEN age ELSE age + 1

(* What a unit of time does to a shell. The ticker of a shell that is up fires  *)
(* every Beat units; its channel holds one tick, further ones are dropped. slow *)
(* (ghost): since the last report that was saved a tick waited for longer than  *)
(* Delay or was dropped, or the host took an interval or more to start.         *)
Pass(sh) ==
  LET fires == sh.phase = Beat - 1
      next  == [sh EXCEPT !.phase = IF fires THEN 0 ELSE @ + 1,
                          !.due = @ \/ (fires /\ sh.pc = "up")]
  IN  [next EXCEPT !.slow = @ \/ Behind(next) \/ (fires /\ (sh.due \/ sh.pc = "boot"))]

(* A unit of time passes, whatever the shells have done.                        *)
Tick ==
  /\ shell' = [s \in Shells |-> IF Running(shell[s]) THEN Pass(shell[s]) ELSE shell[s]]
  /\ row' = [s \in Sessions |-> IF row[s] = NoRow THEN NoRow
                                ELSE [row[s] EXCEPT !.is.age = Older(@)]]
  /\ late' = {[c EXCEPT !.rec.age = Older(@)] : c \in late}
  /\ UNCHANGED vouched

Init ==
  /\ shell = [s \in Shells |-> NotOpened]
  /\ row = [s \in Sessions |-> NoRow]
  /\ late = {} /\ vouched = {}

Next ==
  \/ \E s \in Shells :
       \/ \E target \in Sessions \cup {NoTarget} : OpenShell(s, target)
       \/ StartHost(s) \/ Heartbeat(s) \/ ReportStatus(s) \/ FallBack(s)
       \/ Quit(s) \/ ShellCrash(s)
       \/ \E w \in WorkerIds : DetectWorkerSessionID(s, w)
  \/ \E call \in late : ServeLate(call)
  \/ \E s \in Others, w \in WorkerIds, active \in BOOLEAN : OtherReports(s, w, active)
  \/ DaemonCrash
  \/ Tick

Spec == Init /\ [][Next]_vars

(* Time goes on. No shell is asked to report, and no late call to be served.     *)
FairSpec == Spec /\ WF_vars(Tick)

-----------------------------------------------------------------------------
(* Every variable keeps its type: a row has a source exactly if it has an id.   *)
TypeOK ==
  /\ shell \in [Shells -> [pc : {"unopened", "boot", "up", "gone"}, host : Statuses,
                           first : Statuses, wid : Ids, src : IdSources,
                           phase : 0..(Beat - 1), due : BOOLEAN,
                           misses : 0..(MaxMisses + 1), slow : BOOLEAN]]
  /\ row \in [Sessions -> Rows]
  /\ late \subseteq [of : Shells, rec : Records]
  /\ vouched \subseteq WorkerIds
  /\ \A s \in Sessions : row[s] # NoRow => (row[s].is.wid = NoId <=> row[s].is.src = "none")

(* A shell that runs does not read as stale as long as no more than MaxMisses   *)
(* of its reports failed in a row, its loop was not slow since the last one     *)
(* that was saved, and no call served late took the row back to an older one.   *)
(* With a heartbeat of 30 s and a threshold of 90 s that is one failed report   *)
(* and ticks served less than 30 s late; two failed reports leave no time for   *)
(* the third to arrive in.                                                      *)
RunningIsNotStale ==
  \A s \in Shells :
    /\ Running(shell[s]) /\ shell[s].misses <= MaxMisses /\ ~shell[s].slow
    /\ row[s] # NoRow /\ ~row[s].back
    => Class(s) # "stale"

(* A session is offered for reattachment only with a worker session some client *)
(* vouched for: an id found in a worker's output never becomes one, however     *)
(* shells reattach to shells that reattached, and reports arrive out of order.  *)
AttachableIsVouched ==
  \A s \in Sessions : Class(s) = "attachable" => row[s].is.wid \in vouched

(* The session of a shell that is gone, whether it said so or not, stops being  *)
(* one that runs are bound to, for good: late reports cannot keep it active.    *)
GoneSessionsFade ==
  \A s \in Shells : (shell[s].pc = "gone") ~> [](s \notin Inferable)
=============================================================================
