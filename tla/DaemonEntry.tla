---------------------------- MODULE DaemonEntry ----------------------------
(* How `tuku' finds its daemon and its task. A command dials the socket; when   *)
(* nobody answers it launches a daemon process and dials again until it is      *)
(* answered, its daemon has exited or its patience ends. A daemon unlinks       *)
(* whatever file has the socket's name and binds a new one; nothing tells it    *)
(* whether another daemon serves. The request asks for the latest task of the   *)
(* repository and creates one when there is none, the lookup outside the        *)
(* transaction that creates. A client's 30 s deadline ends its wait and not     *)
(* its handler, and a user may give the command again.                          *)
EXTENDS Integers, Sequences

CONSTANTS
  Clients,      \* terminals in which `tuku' is run
  Daemons,      \* daemon processes that may be launched
  Nobody,       \* no daemon
  MaxAttempts,  \* bound: commands given in one terminal
  MaxRetries,   \* daemonReadyTimeout / daemonRetryInterval
  MaxUpdates,   \* bound: later operations on a task of the repository
  Faults        \* whether processes are killed and accept fails

ASSUME EntryBounds ==
  /\ MaxAttempts \in Nat \ {0} /\ MaxRetries \in Nat /\ MaxUpdates \in Nat
  /\ Nobody \notin Daemons /\ Faults \in BOOLEAN

VARIABLES
  path,      \* the daemon whose socket has the name, dead or alive
  daemon,    \* how far every daemon process is
  client,    \* the command of every terminal
  handler,   \* what a daemon does with the request of a command
  tasks,     \* the repository's tasks, the one updated last at the end
  updates

vars == <<path, daemon, client, handler, tasks, updates>>

DaemonStates == {"unborn", "opening", "opened", "unlinked", "bound", "listening",
                 "closing", "failed", "stopped", "killed"}
Starting == {"opening", "opened", "unlinked", "bound"}
Dead == {"failed", "stopped", "killed"}
Attempts == Clients \X (1..MaxAttempts)
TaskIds == Nat \ {0}
NoTask == 0
\* created (ghost): the tasks created for a command, over all of its requests.
Handlers == [state : {"none", "queued", "deciding", "committed", "answered", "erred"},
             at : Daemons \cup {Nobody}, task : TaskIds \cup {NoTask}, created : Nat]
NoHandler == [state |-> "none", at |-> Nobody, task |-> NoTask, created |-> 0]
Commands == [pc : {"idle", "dial", "launch", "wait", "check", "shell", "failed"},
             attempt : 0..MaxAttempts, launched : Daemons \cup {Nobody},
             retries : 0..MaxRetries, since : Nat]
Idle == [pc |-> "idle", attempt |-> 0, launched |-> Nobody, retries |-> 0, since |-> 0]

Init ==
  /\ path = Nobody /\ daemon = [d \in Daemons |-> "unborn"]
  /\ client = [c \in Clients |-> Idle] /\ handler = [a \in Attempts |-> NoHandler]
  /\ tasks = <<>> /\ updates = 0

Own(c) == <<c, client[c].attempt>>

-----------------------------------------------------------------------------
(* The daemon process.                                                          *)

OpenStore(d) ==
  /\ daemon[d] = "opening"
  /\ \E s \in {"opened"} \cup (IF Faults THEN {"failed"} ELSE {}) : daemon' = [daemon EXCEPT ![d] = s]
  /\ UNCHANGED <<path, client, handler, tasks, updates>>

RemoveSocket(d) ==
  /\ daemon[d] = "opened"
  /\ daemon' = [daemon EXCEPT ![d] = "unlinked"]
  /\ path' = Nobody
  /\ UNCHANGED <<client, handler, tasks, updates>>

BindCleaningUp(d) ==
  /\ daemon[d] = "unlinked"
  /\ daemon' = [daemon EXCEPT ![d] = IF path = Nobody THEN "bound" ELSE "failed"]
  /\ path' = IF path = Nobody THEN d ELSE Nobody
  /\ UNCHANGED <<client, handler, tasks, updates>>

\* The deferred removal is registered after net.Listen: a daemon that finds the
\* name taken leaves it alone.
Bind(d) ==
  /\ daemon[d] = "unlinked"
  /\ daemon' = [daemon EXCEPT ![d] = IF path = Nobody THEN "bound" ELSE "failed"]
  /\ path' = IF path = Nobody THEN d ELSE path
  /\ UNCHANGED <<client, handler, tasks, updates>>

Listen(d) ==
  /\ daemon[d] = "bound"
  /\ daemon' = [daemon EXCEPT ![d] = "listening"]
  /\ UNCHANGED <<path, client, handler, tasks, updates>>

\* What is answered is in the connection and survives the daemon.
Unanswered == {"queued", "deciding", "committed"}
Dropped(d) ==
  [a \in Attempts |-> IF handler[a].at = d /\ handler[a].state \in Unanswered
                      THEN [NoHandler EXCEPT !.created = handler[a].created] ELSE handler[a]]

\* Accept fails for good: the listener is closed, which unlinks the name, whoever has it ...
AcceptFails(d) ==
  /\ Faults /\ daemon[d] = "listening"
  /\ daemon' = [daemon EXCEPT ![d] = "closing"]
  /\ path' = Nobody
  /\ UNCHANGED <<client, handler, tasks, updates>>

\* ... and the deferred removal unlinks it again before the process exits.
ExitDaemon(d) ==
  /\ daemon[d] = "closing"
  /\ daemon' = [daemon EXCEPT ![d] = "stopped"]
  /\ path' = Nobody
  /\ handler' = Dropped(d)
  /\ UNCHANGED <<client, tasks, updates>>

\* No signal is handled: a daemon that is killed leaves its socket file behind.
KillDaemon(d) ==
  /\ Faults /\ daemon[d] \in Starting \cup {"listening", "closing"}
  /\ daemon' = [daemon EXCEPT ![d] = "killed"]
  /\ handler' = Dropped(d)
  /\ UNCHANGED <<path, client, tasks, updates>>

-----------------------------------------------------------------------------
(* handleConn and ResolveShellTaskForRepo.                                      *)

Running(a) == daemon[handler[a].at] \in {"listening", "closing"}

LatestByRepoRoot == tasks[Len(tasks)]

LookUpInProcess(a) ==
  /\ handler[a].state = "queued" /\ Running(a)
  /\ handler' = [handler EXCEPT ![a] =
       IF \E b \in Attempts : handler[b].created > 0 /\ handler[b].at = handler[a].at
       THEN [@ EXCEPT !.state = "answered", !.task = LatestByRepoRoot]
       ELSE [@ EXCEPT !.state = "deciding"]]
  /\ UNCHANGED <<path, daemon, client, tasks, updates>>

LookUp(a) ==
  /\ handler[a].state = "queued" /\ Running(a)
  /\ handler' = [handler EXCEPT ![a] =
       IF tasks # <<>> THEN [@ EXCEPT !.state = "answered", !.task = LatestByRepoRoot]
       ELSE [@ EXCEPT !.state = "deciding"]]
  /\ UNCHANGED <<path, daemon, client, tasks, updates>>

\* A transaction of its own, which asks for no other task of the repository.
StartTask(a) ==
  /\ handler[a].state = "deciding" /\ Running(a)
  /\ LET id == Len(tasks) + 1 IN
       /\ tasks' = Append(tasks, id)
       /\ handler' = [handler EXCEPT ![a] = [@ EXCEPT !.state = "committed", !.task = id,
                                                      !.created = handler[a].created + 1]]
  /\ UNCHANGED <<path, daemon, client, updates>>

\* The answer is encoded after the commit: a daemon killed in between leaves a task
\* its command was not told of.
Encode(a) ==
  /\ handler[a].state = "committed" /\ Running(a)
  /\ handler' = [handler EXCEPT ![a].state = "answered"]
  /\ UNCHANGED <<path, daemon, client, tasks, updates>>

\* The lookup fails, or the transaction: SQLite refuses a busy database at once, as
\* no busy timeout is set.
ResolveFails(a) ==
  /\ handler[a].state \in {"queued", "deciding"} /\ Running(a)
  /\ handler' = [handler EXCEPT ![a].state = "erred"]
  /\ UNCHANGED <<path, daemon, client, tasks, updates>>

\* Any later operation on a task of the repository may make it the latest: the code
\* orders by status first and by time then, here any task may come to the front.
UpdateTask(i) ==
  /\ updates < MaxUpdates
  /\ tasks' = SubSeq(tasks, 1, i - 1) \o SubSeq(tasks, i + 1, Len(tasks)) \o <<tasks[i]>>
  /\ updates' = updates + 1
  /\ UNCHANGED <<path, daemon, client, handler>>

-----------------------------------------------------------------------------
(* The command line.                                                            *)

Invoke(c) ==
  /\ client[c].pc \in {"idle", "shell", "failed"} /\ client[c].attempt < MaxAttempts
  /\ client' = [client EXCEPT ![c] = [pc |-> "dial", attempt |-> @.attempt + 1, launched |-> Nobody,
                                      retries |-> 0, since |-> Len(tasks)]]
  /\ UNCHANGED <<path, daemon, handler, tasks, updates>>

\* isDaemonUnavailableError: the first time a daemon is launched, then it is waited for.
Unavailable(c) ==
  [client EXCEPT ![c].pc = IF client[c].launched = Nobody THEN "launch" ELSE "check"]

Reachable == path # Nobody /\ daemon[path] = "listening"

Dial(c) ==
  /\ client[c].pc = "dial"
  /\ IF Reachable
       THEN /\ client' = [client EXCEPT ![c].pc = "wait"]
            /\ handler' = [handler EXCEPT ![Own(c)] =
                   [@ EXCEPT !.state = "queued", !.at = path, !.task = NoTask]]
       ELSE client' = Unavailable(c) /\ UNCHANGED handler
  /\ UNCHANGED <<path, daemon, tasks, updates>>

launchLocalDaemonProcess(c) ==
  /\ client[c].pc = "launch"
  /\ \E d \in Daemons :
       /\ daemon[d] = "unborn"
       /\ daemon' = [daemon EXCEPT ![d] = "opening"]
       /\ client' = [client EXCEPT ![c].pc = "dial", ![c].launched = d]
  /\ UNCHANGED <<path, handler, tasks, updates>>

LaunchFails(c) ==
  /\ Faults /\ client[c].pc = "launch"
  /\ client' = [client EXCEPT ![c].pc = "failed"]
  /\ UNCHANGED <<path, daemon, handler, tasks, updates>>

CheckWithoutDeadline(c) ==
  /\ client[c].pc = "check"
  /\ client' = [client EXCEPT ![c].pc = IF daemon[client[c].launched] \in Dead THEN "failed" ELSE "dial"]
  /\ UNCHANGED <<path, daemon, handler, tasks, updates>>

\* Its daemon has exited, or daemonReadyTimeout is over, or it sleeps and dials again.
Check(c) ==
  /\ client[c].pc = "check"
  /\ client' = [client EXCEPT ![c] =
       IF daemon[@.launched] \in Dead \/ @.retries = MaxRetries THEN [@ EXCEPT !.pc = "failed"]
       ELSE [@ EXCEPT !.pc = "dial", !.retries = client[c].retries + 1]]
  /\ UNCHANGED <<path, daemon, handler, tasks, updates>>

Receive(c) ==
  /\ client[c].pc = "wait" /\ handler[Own(c)].state \in {"answered", "erred"}
  /\ client' = [client EXCEPT ![c].pc = IF handler[Own(c)].state = "answered" THEN "shell" ELSE "failed"]
  /\ UNCHANGED <<path, daemon, handler, tasks, updates>>

\* The connection ends without an answer: a reset counts as unavailable, an end of
\* file does not. Which of the two the kernel reports depends on what was read.
ConnectionLost(c) ==
  /\ client[c].pc = "wait" /\ handler[Own(c)].state = "none"
  /\ \/ client' = Unavailable(c)
     \/ client' = [client EXCEPT ![c].pc = "failed"]
  /\ UNCHANGED <<path, daemon, handler, tasks, updates>>

Deadline(c) ==
  /\ client[c].pc = "wait" /\ handler[Own(c)].state \in Unanswered
  /\ client' = [client EXCEPT ![c].pc = "failed"]
  /\ UNCHANGED <<path, daemon, handler, tasks, updates>>

-----------------------------------------------------------------------------
ClientStep(c) == \/ Dial(c) \/ launchLocalDaemonProcess(c) \/ LaunchFails(c)
                 \/ Check(c) \/ Receive(c) \/ ConnectionLost(c) \/ Deadline(c)
DaemonStep(d) == \/ OpenStore(d) \/ RemoveSocket(d) \/ Bind(d) \/ Listen(d)
                 \/ AcceptFails(d) \/ ExitDaemon(d) \/ KillDaemon(d)
HandlerStep(a) == LookUp(a) \/ StartTask(a) \/ Encode(a) \/ ResolveFails(a)

Next == \/ \E c \in Clients : Invoke(c) \/ ClientStep(c)
        \/ \E d \in Daemons : DaemonStep(d)
        \/ \E a \in Attempts : HandlerStep(a)
        \/ \E i \in DOMAIN tasks : UpdateTask(i)

Spec == Init /\ [][Next]_vars

\* The command itself runs, and its deadlines pass; nothing is asked of a daemon.
FairSpec == Spec /\ \A c \in Clients : WF_vars(ClientStep(c))

-----------------------------------------------------------------------------
\* Every process and every row keeps its type; a handler is at a daemon of the pool
\* and answers with a task of the table.
TypeOK ==
  /\ path \in Daemons \cup {Nobody} /\ daemon \in [Daemons -> DaemonStates]
  /\ client \in [Clients -> Commands] /\ handler \in [Attempts -> Handlers]
  /\ tasks \in Seq(TaskIds) /\ updates \in 0..MaxUpdates

\* However the start-ups of several daemons overlap, once they are over and none
\* was killed or lost its listener, the socket leads to a daemon that serves:
\* the unlinking of Service.Run never takes the name from the last one bound.
SettledSocketServes ==
  (/\ \A d \in Daemons : daemon[d] \in {"unborn", "listening", "failed"}
   /\ \E d \in Daemons : daemon[d] = "listening") => Reachable

\* A command given when the repository has a task never creates another one, and
\* one given when it has none creates at most one: a command whose answer was lost
\* with its daemon after the commit asks again and is given the task it created
\* (ResolveShellTaskForRepo). Two commands given at once may create one each.
CreatedOnlyIfNoneWas ==
  \A c \in Clients :
    client[c].pc # "idle" /\ handler[Own(c)].created > 0 =>
      client[c].since = 0 /\ handler[Own(c)].created = 1

\* A command always ends, with a shell or an error: every wait has a deadline
\* (resolveShellTaskForRepoWithDaemonBootstrap, CallUnix).
CommandsEnd ==
  \A c \in Clients : client[c].pc = "dial" ~> client[c].pc \in {"shell", "failed"}
=============================================================================
