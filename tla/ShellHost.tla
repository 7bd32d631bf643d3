----------------------------- MODULE ShellHost -----------------------------
(* One `tuku shell`: a worker process behind a pseudo terminal, the goroutines  *)
(* that read its output and wait for its end, and the event loop that stores    *)
(* the output as evidence, records milestones, reports the session and falls    *)
(* back to the transcript when the worker ends. The loop asks the host for its  *)
(* status several times per turn, and the goroutines run in between.            *)
EXTENDS Integers, Sequences, FiniteSets

CONSTANTS
  MaxLines,     \* bound: lines the worker prints
  HostMaxLines, \* hostMaxLines: lines that may wait to be stored
  DrainLimit,   \* lines one flush takes (80 in the code)
  Lossy         \* whether calls to the daemon may fail

ASSUME HostBounds ==
  /\ MaxLines \in Nat
  /\ HostMaxLines \in Nat \ {0}
  /\ DrainLimit \in Nat \ {0}
  /\ Lossy \in BOOLEAN

VARIABLES
  worker,   \* the process: none, running, ended or broken (a non-zero exit code)
  wire,     \* lines printed and not read yet
  printed,  \* number of lines printed
  pty,      \* the PTY host: its state and whether its file is open
  pending,  \* its lines that wait to be stored
  host,     \* the host the loop uses: the PTY host or the transcript host
  notes,    \* the transcript host's state and notes that wait to be stored
  app,      \* the event loop: where it is and the statuses it remembers
  stored,   \* what the daemon stored of the worker's output, in order
  gone,     \* lines that overflowed or were lost with a failed call (ghost)
  life,     \* milestones recorded with the daemon, in order
  row       \* the session as last reported

vars == <<worker, wire, printed, pty, pending, host, notes, app, stored, gone, life, row>>

HostStates == {"none", "starting", "live", "exited", "failed", "fallback", "transcript-only"}
Ended == {"exited", "failed"}

Status == IF host = "pty" THEN pty.state ELSE notes.state

Init ==
  /\ worker = "none" /\ wire = <<>> /\ printed = 0
  /\ pty = [state |-> "starting", open |-> FALSE]
  /\ pending = <<>>
  /\ host = "pty"
  /\ notes = [state |-> "transcript-only", waiting |-> 1]
  /\ app = [pc |-> "boot", last |-> "none", current |-> "none", first |-> "none"]
  /\ stored = <<>> /\ gone = {} /\ life = <<>>
  /\ row = [active |-> TRUE, state |-> "starting"]

-----------------------------------------------------------------------------
(* The worker and the two goroutines of the PTY host.                           *)

WorkerPrints ==
  /\ worker = "running" /\ pty.open
  /\ printed < MaxLines
  /\ printed' = printed + 1
  /\ wire' = Append(wire, printed + 1)
  /\ UNCHANGED <<worker, pty, pending, host, notes, app, stored, gone, life, row>>

WorkerEnds ==
  /\ worker = "running"
  /\ worker' \in {"ended", "broken"}
  /\ UNCHANGED <<wire, printed, pty, pending, host, notes, app, stored, gone, life, row>>

(* appendLineLocked: the oldest lines give way.                                 *)
readStream ==
  /\ pty.open /\ wire # <<>>
  /\ wire' = Tail(wire)
  /\ LET all  == Append(pending, Head(wire))
         over == IF Len(all) > HostMaxLines THEN Len(all) - HostMaxLines ELSE 0
     IN  /\ pending' = SubSeq(all, over + 1, Len(all))
         /\ gone' = gone \cup {all[i] : i \in 1..over}
  /\ UNCHANGED <<worker, printed, pty, host, notes, app, stored, life, row>>

(* The process has ended: the file is closed, whatever is still unread.         *)
wait ==
  /\ worker \in {"ended", "broken"}
  /\ pty.state = "live"
  /\ pty' = [state |-> IF worker = "broken" THEN "failed" ELSE "exited", open |-> FALSE]
  /\ wire' = <<>>
  /\ UNCHANGED <<worker, printed, pending, host, notes, app, stored, gone, life, row>>

-----------------------------------------------------------------------------
(* What the event loop does with the daemon; a call may fail if Lossy.          *)

DrainNewest(lines) ==
  LET n == IF Len(lines) < DrainLimit THEN Len(lines) ELSE DrainLimit
  IN  [out |-> SubSeq(lines, Len(lines) - n + 1, Len(lines)), rest |-> SubSeq(lines, 1, Len(lines) - n)]

DrainTranscriptEvidence(lines) ==
  LET n == IF Len(lines) < DrainLimit THEN Len(lines) ELSE DrainLimit
  IN  [out |-> SubSeq(lines, 1, n), rest |-> SubSeq(lines, n + 1, Len(lines))]

(* A drained line is gone if the call fails.                                    *)
flushPTY ==
  LET drained == DrainTranscriptEvidence(pending)
      lines   == {drained.out[i] : i \in 1..Len(drained.out)}
  IN  /\ pending' = drained.rest
      /\ \/ stored' = stored \o drained.out /\ gone' = gone
         \/ Lossy /\ stored' = stored /\ gone' = gone \cup lines

flushTranscriptEvidence ==
  IF host = "pty" THEN flushPTY /\ UNCHANGED notes
  ELSE /\ notes' = [notes EXCEPT !.waiting = 0]
       /\ UNCHANGED <<pending, stored, gone>>

reportShellSession(state, active) ==
  \/ row' = [active |-> active, state |-> state]
  \/ Lossy /\ row' = row

Milestone(state) ==
  CASE state = "live" -> <<"host_started">>
    [] state \in Ended -> <<"host_exited">>
    [] state = "fallback" -> <<"fallback_activated">>
    [] OTHER -> <<>>

captureHostLifecycle(previous, current) ==
  \/ life' = IF previous = current THEN life ELSE life \o Milestone(current)
  \/ Lossy /\ life' = life

-----------------------------------------------------------------------------
(* Run, up to the loop.                                                         *)

startPreferredHost ==
  /\ app.pc = "boot"
  /\ \/ /\ worker' = "running"
        /\ pty' = [state |-> "live", open |-> TRUE]
        /\ UNCHANGED <<host, notes>>
        /\ app' = [app EXCEPT !.pc = "greet", !.first = "live"]
     \/ /\ pty' = [pty EXCEPT !.state = "failed"]
        /\ host' = "transcript"
        /\ notes' = [state |-> "fallback", waiting |-> 2]
        /\ app' = [app EXCEPT !.pc = "greet", !.first = "fallback"]
        /\ UNCHANGED worker
  /\ UNCHANGED <<wire, printed, pending, stored, gone, life, row>>

ReportFirstStatus ==
  /\ app.pc = "greet"
  /\ app' = [app EXCEPT !.pc = "settle"]
  /\ reportShellSession(Status, TRUE)
  /\ captureHostLifecycle("none", Status)
  /\ UNCHANGED <<worker, wire, printed, pty, pending, host, notes, stored, gone>>

HandleEventAsStarted ==
  /\ app.pc = "select"
  /\ app' = [app EXCEPT !.pc = "observe"]
  /\ \/ UNCHANGED <<pending, stored, gone, notes, row>>
     \/ flushTranscriptEvidence /\ UNCHANGED row
     \/ reportShellSession(app.first, TRUE) /\ UNCHANGED <<pending, stored, gone, notes>>
  /\ UNCHANGED <<worker, wire, printed, pty, host, life>>

(* One turn of the loop: an event, a look at the host, a look whether it ended, *)
(* and a last look that the next turn compares with.                            *)
HandleEvent ==
  /\ app.pc = "select"
  /\ app' = [app EXCEPT !.pc = "observe"]
  /\ \/ UNCHANGED <<pending, stored, gone, notes, row>>
     \/ flushTranscriptEvidence /\ UNCHANGED row
     \/ reportShellSession(Status, TRUE) /\ UNCHANGED <<pending, stored, gone, notes>>
  /\ UNCHANGED <<worker, wire, printed, pty, host, life>>

ObserveHost ==
  /\ app.pc = "observe"
  /\ app' = [app EXCEPT !.pc = "transit", !.current = Status]
  /\ captureHostLifecycle(app.last, Status)
  /\ IF Status = app.last THEN UNCHANGED row ELSE reportShellSession(Status, TRUE)
  /\ UNCHANGED <<worker, wire, printed, pty, pending, host, notes, stored, gone>>

transitionExitedHost ==
  /\ app.pc = "transit"
  /\ app' = [app EXCEPT !.pc = "settle"]
  /\ IF Status \in Ended
     THEN /\ flushPTY
          /\ host' = "transcript"
          /\ notes' = [state |-> "fallback", waiting |-> notes.waiting + 1]
          /\ captureHostLifecycle(app.current, "fallback")
          /\ reportShellSession("fallback", TRUE)
     ELSE UNCHANGED <<pending, stored, gone, host, notes, life, row>>
  /\ UNCHANGED <<worker, wire, printed, pty>>

SettleStatus ==
  /\ app.pc = "settle"
  /\ app' = [app EXCEPT !.pc = "select", !.last = Status]
  /\ UNCHANGED <<worker, wire, printed, pty, pending, host, notes, stored, gone, life, row>>

-----------------------------------------------------------------------------
(* The operator quits: the deferred calls run in reverse order, with the host   *)
(* and the status they were given when they were deferred.                      *)

Quit ==
  /\ app.pc = "select"
  /\ app' = [app EXCEPT !.pc = "flush"]
  /\ UNCHANGED <<worker, wire, printed, pty, pending, host, notes, stored, gone, life, row>>

FlushOnExit ==
  /\ app.pc = "flush"
  /\ app' = [app EXCEPT !.pc = "stop"]
  /\ IF app.first = "live" THEN flushPTY ELSE UNCHANGED <<pending, stored, gone>>
  /\ UNCHANGED <<worker, wire, printed, pty, host, notes, life, row>>

StopClosing ==
  /\ app.pc = "stop"
  /\ app' = [app EXCEPT !.pc = "farewell"]
  /\ pty' = [pty EXCEPT !.open = FALSE]
  /\ UNCHANGED <<worker, wire, printed, pending, host, notes, stored, gone, life, row>>

Stop ==
  /\ app.pc = "stop"
  /\ app' = [app EXCEPT !.pc = "farewell"]
  /\ IF host = "pty"
     THEN /\ pty' = [pty EXCEPT !.open = FALSE]
          /\ worker' = IF pty.state \in {"live", "starting"} /\ worker = "running"
                       THEN "broken" ELSE worker
     ELSE UNCHANGED <<pty, worker>>
  /\ UNCHANGED <<wire, printed, pending, host, notes, stored, gone, life, row>>

ReportEnd ==
  /\ app.pc = "farewell"
  /\ app' = [app EXCEPT !.pc = "done"]
  /\ reportShellSession(app.first, FALSE)
  /\ UNCHANGED <<worker, wire, printed, pty, pending, host, notes, stored, gone, life>>

Loop ==
  \/ startPreferredHost \/ ReportFirstStatus
  \/ HandleEvent \/ ObserveHost \/ transitionExitedHost \/ SettleStatus
  \/ FlushOnExit \/ Stop \/ ReportEnd

Next ==
  \/ app.pc # "done" /\ (WorkerPrints \/ WorkerEnds \/ readStream \/ wait)
  \/ Loop \/ Quit

Spec == Init /\ [][Next]_vars

HeartbeatArrives == HandleEvent /\ row' = [active |-> TRUE, state |-> Status]

(* The loop and the goroutines go on; nobody has to quit, no worker to end. Any *)
(* call may fail, but the ticker repeats the heartbeat and not all of them do.  *)
FairSpec == Spec /\ WF_vars(Loop) /\ WF_vars(wait) /\ SF_vars(HeartbeatArrives)

-----------------------------------------------------------------------------
(* Every variable keeps its type.                                               *)
TypeOK ==
  /\ worker \in {"none", "running", "ended", "broken"}
  /\ wire \in Seq(Nat) /\ pending \in Seq(Nat) /\ stored \in Seq(Nat)
  /\ printed \in Nat /\ gone \subseteq Nat
  /\ pty \in [state : HostStates, open : BOOLEAN]
  /\ host \in {"pty", "transcript"}
  /\ notes \in [state : HostStates, waiting : Nat]
  /\ app \in [pc : {"boot", "greet", "select", "observe", "transit", "settle", "flush",
                    "stop", "farewell", "done"},
              last : HostStates, current : HostStates, first : HostStates]
  /\ life \in Seq({"host_started", "host_exited", "fallback_activated"})
  /\ row \in [active : BOOLEAN, state : HostStates]

(* The stored evidence is the worker's output in its order, each line once, and *)
(* a line is missing before a stored one only if it overflowed the buffer or    *)
(* was in a call that failed: the change of hosts and the flush on exit, which  *)
(* drains the host of the start, skip and repeat nothing.                       *)
EvidenceInOrder ==
  /\ \A i, j \in 1..Len(stored) : i < j => stored[i] < stored[j]
  /\ \A i \in 1..Len(stored) : \A n \in 1..stored[i] :
       n \in gone \/ \E j \in 1..i : stored[j] = n

(* The shell never turns away from a running worker: not when it falls back to  *)
(* the transcript, and not when it ends.                                        *)
NoUnattendedWorker ==
  host = "transcript" \/ app.pc = "done" => worker # "running"

(* Once the worker has ended the registry learns of it before the shell is left, *)
(* although the loop may have noted the new status before it compared it with    *)
(* the old one and the report of the change may have failed.                     *)
EndsReachRegistry ==
  (pty.state \in Ended) ~> (row.state = "fallback" \/ ~row.active \/ app.pc = "done")
=============================================================================
