------------------------- MODULE DaemonEntryProofs -------------------------
(* Theorems about DaemonEntry, for any number of terminals and daemons, any     *)
(* bounds, with and without faults. The name of the socket and the row of tasks *)
(* have nothing to do with each other, and each has an invariant of its own.    *)
EXTENDS DaemonEntry, TLAPS

(* The name leads to a daemon that bound it and did not give it back, and while *)
(* it leads nowhere although a daemon has bound, somebody is to blame: a daemon *)
(* that has unlinked it and will bind, or one that is gone.                     *)
NameIsAccountedFor ==
  /\ path # Nobody => daemon[path] \in {"bound", "listening", "killed"}
  /\ path = Nobody /\ (\E d \in Daemons : daemon[d] \in {"bound", "listening"})
       => \E d \in Daemons : daemon[d] \in {"unlinked", "closing", "stopped", "killed"}

(* A command is numbered, and the requests of commands still to be given do not *)
(* exist yet.                                                                   *)
FutureAttemptsAreFree ==
  \A c \in Clients :
    /\ client[c].pc # "idle" => client[c].attempt \in 1..MaxAttempts
    /\ \A k \in 1..MaxAttempts : k > client[c].attempt => handler[<<c, k>>] = NoHandler

(* A handler that is about to create a task, or has, serves a command that was  *)
(* given while there was none; who is about to has not created any before, and  *)
(* once there is a task there always is one.                                    *)
Decides(h, since) ==
  /\ h.state = "deciding" => since = 0 /\ h.created = 0
  /\ h.created > 0 => since = 0 /\ h.created = 1 /\ tasks # <<>>

Deciders ==
  \A c \in Clients : client[c].pc # "idle" =>
    /\ client[c].since > 0 => tasks # <<>>
    /\ Decides(handler[Own(c)], client[c].since)

EntryInv == TypeOK /\ NameIsAccountedFor /\ FutureAttemptsAreFree /\ Deciders

-----------------------------------------------------------------------------
(* An attempt is a terminal and a number; the request of a command is one.      *)
LEMMA OwnIsAttempt ==
  ASSUME TypeOK, FutureAttemptsAreFree, NEW c \in Clients, client[c].pc # "idle"
  PROVE  /\ Own(c) \in Attempts /\ Own(c) = <<c, client[c].attempt>>
         /\ client[c] \in Commands /\ handler[Own(c)] \in Handlers
BY DEF TypeOK, FutureAttemptsAreFree, Own, Attempts, Commands, Handlers

(* The requests of different terminals are different.                           *)
LEMMA OwnIsOwn ==
  ASSUME NEW c \in Clients, NEW e \in Clients, Own(c) = Own(e)
  PROVE  c = e
BY DEF Own

(* The start.                                                                   *)
LEMMA EntryStarts == Init => EntryInv
<1> SUFFICES ASSUME Init PROVE EntryInv
  OBVIOUS
<1>1. TypeOK
  BY EntryBounds DEF Init, TypeOK, Idle, NoHandler, DaemonStates, Commands, Handlers, NoTask
<1>2. NameIsAccountedFor
  BY DEF Init, NameIsAccountedFor
<1>3. FutureAttemptsAreFree /\ Deciders
  BY DEF Init, FutureAttemptsAreFree, Deciders, Idle, Attempts
<1> QED BY <1>1, <1>2, <1>3 DEF EntryInv

(* What a step of a daemon's own does: of the handlers it only drops some.      *)
LEMMA DaemonTypes ==
  ASSUME EntryInv, NEW d \in Daemons, DaemonStep(d)
  PROVE  /\ TypeOK'
         /\ UNCHANGED <<client, tasks, updates>>
         /\ \A a \in Attempts :
              \/ handler'[a] = handler[a]
              \/ /\ handler[a].state \in Unanswered
                 /\ handler'[a] = [NoHandler EXCEPT !.created = handler[a].created]
<1> USE DEF EntryInv, TypeOK
<1>1. CASE OpenStore(d) \/ RemoveSocket(d) \/ Bind(d) \/ Listen(d) \/ AcceptFails(d)
  <2>1. UNCHANGED <<client, handler, tasks, updates>>
    BY <1>1 DEF OpenStore, RemoveSocket, Bind, Listen, AcceptFails
  <2>2. daemon' \in [Daemons -> DaemonStates] /\ path' \in Daemons \cup {Nobody}
    BY <1>1 DEF OpenStore, RemoveSocket, Bind, Listen, AcceptFails, DaemonStates
  <2> QED BY <2>1, <2>2
<1>2. CASE ExitDaemon(d) \/ KillDaemon(d)
  <2>1. /\ UNCHANGED <<client, tasks, updates>> /\ handler' = Dropped(d)
        /\ daemon' \in [Daemons -> DaemonStates] /\ path' \in Daemons \cup {Nobody}
    BY <1>2 DEF ExitDaemon, KillDaemon, DaemonStates
  <2>2. ASSUME NEW a \in Attempts
        PROVE  /\ handler'[a] \in Handlers
               /\ \/ handler'[a] = handler[a]
                  \/ /\ handler[a].state \in Unanswered
                     /\ handler'[a] = [NoHandler EXCEPT !.created = handler[a].created]
    <3>1. handler[a] \in Handlers /\ [NoHandler EXCEPT !.created = handler[a].created] \in Handlers
      BY DEF Handlers, NoHandler, NoTask
    <3> QED BY <2>1, <3>1 DEF Dropped
  <2>3. handler' \in [Attempts -> Handlers]
    BY <2>1, <2>2 DEF Dropped
  <2> QED BY <2>1, <2>2, <2>3
<1> QED BY <1>1, <1>2 DEF DaemonStep

(* No step of a daemon loses the name without taking the blame.                 *)
LEMMA DaemonKeepsName ==
  ASSUME EntryInv, NEW d \in Daemons, DaemonStep(d)
  PROVE  NameIsAccountedFor'
<1> USE EntryBounds DEF EntryInv, TypeOK, NameIsAccountedFor
<1>1. CASE OpenStore(d)
  BY <1>1 DEF OpenStore
<1>2. CASE RemoveSocket(d)
  BY <1>2 DEF RemoveSocket
<1>3. CASE Bind(d)
  BY <1>3 DEF Bind
<1>4. CASE Listen(d)
  BY <1>4 DEF Listen
<1>5. CASE AcceptFails(d)
  BY <1>5 DEF AcceptFails
<1>6. CASE ExitDaemon(d)
  BY <1>6 DEF ExitDaemon
<1>7. CASE KillDaemon(d)
  BY <1>7 DEF KillDaemon, Starting
<1> QED BY <1>1, <1>2, <1>3, <1>4, <1>5, <1>6, <1>7 DEF DaemonStep

LEMMA DaemonStepKeeps ==
  ASSUME EntryInv, NEW d \in Daemons, DaemonStep(d)
  PROVE  EntryInv'
<1>1. /\ UNCHANGED <<client, tasks, updates>>
      /\ \A a \in Attempts :
           \/ handler'[a] = handler[a]
           \/ /\ handler[a].state \in Unanswered
              /\ handler'[a] = [NoHandler EXCEPT !.created = handler[a].created]
  BY DaemonTypes
<1>2. FutureAttemptsAreFree'
  <2>1. ASSUME NEW c \in Clients, NEW k \in 1..MaxAttempts, k > client[c].attempt
        PROVE  handler'[<<c, k>>] = NoHandler
    <3>1. /\ handler[<<c, k>>] = NoHandler /\ NoHandler.state \notin Unanswered
          /\ <<c, k>> \in Attempts
      BY <2>1 DEF FutureAttemptsAreFree, EntryInv, NoHandler, Attempts, Unanswered
    <3> QED BY <1>1, <3>1
  <2> QED BY <1>1, <2>1 DEF FutureAttemptsAreFree, EntryInv
<1>3. Deciders'
  <2> SUFFICES ASSUME NEW c \in Clients, client[c].pc # "idle"
               PROVE  /\ client[c].since > 0 => tasks # <<>>
                      /\ Decides(handler'[Own(c)], client[c].since)
    BY <1>1 DEF Deciders, Own, Decides
  <2>1. Own(c) \in Attempts /\ handler[Own(c)] \in Handlers
    BY OwnIsAttempt DEF EntryInv
  <2>2. \/ handler'[Own(c)] = handler[Own(c)]
        \/ handler'[Own(c)].state = "none" /\ handler'[Own(c)].created = handler[Own(c)].created
    BY <1>1, <2>1 DEF Handlers, NoHandler
  <2> QED BY <2>2 DEF EntryInv, Deciders, Decides
<1> QED BY DaemonTypes, DaemonKeepsName, <1>2, <1>3 DEF EntryInv

-----------------------------------------------------------------------------
(* What a step makes of handler a: it begins to create only while there is no   *)
(* task, and creates one task at a time.                                        *)
Turns(a, h) ==
  LET old == handler[a]
  IN  /\ h.state = "deciding" => h.created = old.created /\ tasks = <<>>
      /\ \/ h.created = old.created
         \/ old.state = "deciding" /\ h.created = old.created + 1 /\ tasks' # <<>>

(* Handlers: one handler moves, and the row of tasks never becomes empty.       *)
LEMMA HandlerStepKeeps ==
  ASSUME EntryInv, NEW a \in Attempts, HandlerStep(a)
  PROVE  EntryInv'
<1> USE DEF EntryInv
<1>1. handler[a] \in Handlers /\ handler[a].state # "none"
  BY DEF TypeOK, HandlerStep, LookUp, StartTask, Encode, ResolveFails
<1>2. /\ UNCHANGED <<path, daemon, client, updates>>
      /\ tasks' \in Seq(TaskIds) /\ (tasks # <<>> => tasks' # <<>>)
      /\ \E h \in Handlers :
           /\ handler' = [handler EXCEPT ![a] = h]
           /\ Turns(a, h)
  <2>1. CASE LookUp(a)
    <3> DEFINE h == IF tasks # <<>> THEN [handler[a] EXCEPT !.state = "answered", !.task = LatestByRepoRoot]
                    ELSE [handler[a] EXCEPT !.state = "deciding"]
    <3>1. handler' = [handler EXCEPT ![a] = h] /\ UNCHANGED <<path, daemon, client, tasks, updates>>
      BY <2>1 DEF LookUp, TypeOK
    <3>2. tasks # <<>> => LatestByRepoRoot \in TaskIds
      BY DEF LatestByRepoRoot, TypeOK
    <3>3. h \in Handlers /\ Turns(a, h)
      BY <1>1, <3>2 DEF Handlers, Turns
    <3> QED BY <3>1, <3>3 DEF TypeOK
  <2>2. CASE StartTask(a)
    <3> DEFINE id == Len(tasks) + 1
               h == [handler[a] EXCEPT !.state = "committed", !.task = id,
                                          !.created = handler[a].created + 1]
    <3>1. /\ handler' = [handler EXCEPT ![a] = h] /\ UNCHANGED <<path, daemon, client, updates>>
          /\ tasks' = Append(tasks, id) /\ handler[a].state = "deciding"
      BY <2>2, <1>1 DEF StartTask, TypeOK
    <3>2. id \in TaskIds /\ tasks' \in Seq(TaskIds) /\ tasks' # <<>>
      BY <3>1 DEF TypeOK, TaskIds
    <3> HIDE DEF id
    <3>3. h \in Handlers /\ h.state = "committed" /\ h.created = handler[a].created + 1
      <4> DEFINE n == handler[a].created + 1
      <4>1. n \in Nat
        BY <1>1 DEF Handlers
      <4> HIDE DEF n
      <4>2. [handler[a] EXCEPT !.state = "committed", !.task = id, !.created = n] \in Handlers
        BY <1>1, <3>2, <4>1 DEF Handlers
      <4>3. h = [handler[a] EXCEPT !.state = "committed", !.task = id, !.created = n]
        BY DEF n
      <4> HIDE DEF h
      <4>4. h.state = "committed" /\ h.created = n
        BY <1>1, <4>3 DEF Handlers
      <4> QED BY <4>2, <4>3, <4>4 DEF n
    <3>4. Turns(a, h)
      BY <3>1, <3>2, <3>3 DEF Turns
    <3> HIDE DEF h
    <3> QED BY <3>1, <3>2, <3>3, <3>4
  <2>3. CASE Encode(a) \/ ResolveFails(a)
    <3>1. PICK p \in {"answered", "erred"} :
            /\ handler' = [handler EXCEPT ![a] = [handler[a] EXCEPT !.state = p]]
            /\ UNCHANGED <<path, daemon, client, tasks, updates>>
      BY <2>3, <1>1 DEF Encode, ResolveFails, TypeOK
    <3> DEFINE h == [handler[a] EXCEPT !.state = p]
    <3>2. h \in Handlers /\ Turns(a, h)
      BY <1>1 DEF Handlers, Turns
    <3> QED BY <3>1, <3>2 DEF TypeOK
  <2> QED BY <2>1, <2>2, <2>3 DEF HandlerStep
<1>3. PICK h \in Handlers : handler' = [handler EXCEPT ![a] = h] /\ Turns(a, h)
  BY <1>2
<1>4. TypeOK'
  BY <1>2, <1>3 DEF TypeOK
<1>5. NameIsAccountedFor'
  BY <1>2 DEF NameIsAccountedFor
<1>6. FutureAttemptsAreFree'
  <2>1. \A c \in Clients : \A k \in 1..MaxAttempts :
          k > client[c].attempt => <<c, k>> # a /\ <<c, k>> \in Attempts
    BY <1>1 DEF FutureAttemptsAreFree, NoHandler, Attempts
  <2> QED BY <2>1, <1>2, <1>3 DEF FutureAttemptsAreFree, TypeOK
<1>7. Deciders'
  <2> SUFFICES ASSUME NEW c \in Clients, client[c].pc # "idle"
               PROVE  /\ client[c].since > 0 => tasks' # <<>>
                      /\ Decides(handler[Own(c)], client[c].since)'
    BY <1>2 DEF Deciders, Own
  <2>1. Own(c) \in Attempts /\ client[c].since \in Nat
    BY OwnIsAttempt DEF Commands
  <2>2. handler'[Own(c)] = IF Own(c) = a THEN h ELSE handler[Own(c)]
    BY <1>3, <2>1 DEF TypeOK
  <2>3. /\ client[c].since > 0 => tasks # <<>>
        /\ Decides(handler[Own(c)], client[c].since)
    BY DEF Deciders
  <2>4. (client[c].since)' = client[c].since /\ Own(c)' = Own(c)
    BY <1>2 DEF Own
  <2>5. CASE Own(c) = a
    <3>1. handler[a] \in Handlers /\ h.created \in Nat /\ handler[a].created \in Nat
      BY <1>1 DEF Handlers
    <3> QED BY <1>2, <1>3, <2>1, <2>2, <2>3, <2>4, <2>5, <3>1 DEF Decides, Turns
  <2>6. CASE Own(c) # a
    BY <1>2, <2>2, <2>3, <2>4, <2>6 DEF Decides
  <2> QED BY <1>2, <2>3, <2>5, <2>6
<1> QED BY <1>4, <1>5, <1>6, <1>7

(* A later operation changes the order of the tasks.                            *)
LEMMA UpdateTaskKeeps ==
  ASSUME EntryInv, NEW i \in DOMAIN tasks, UpdateTask(i)
  PROVE  EntryInv'
<1>1. tasks' \in Seq(TaskIds) /\ tasks' # <<>> /\ updates' \in 0..MaxUpdates
  <2>1. /\ SubSeq(tasks, 1, i - 1) \in Seq(TaskIds)
        /\ SubSeq(tasks, i + 1, Len(tasks)) \in Seq(TaskIds) /\ <<tasks[i]>> \in Seq(TaskIds)
    BY DEF EntryInv, TypeOK
  <2>2. updates' \in 0..MaxUpdates
    BY EntryBounds DEF UpdateTask, EntryInv, TypeOK
  <2> QED BY <2>1, <2>2 DEF UpdateTask
<1>2. UNCHANGED <<path, daemon, client, handler>>
  BY DEF UpdateTask
<1> QED BY <1>1, <1>2 DEF EntryInv, TypeOK, NameIsAccountedFor, FutureAttemptsAreFree, Deciders, Decides, Own

-----------------------------------------------------------------------------
(* A new command: its request does not exist yet, and it remembers whether      *)
(* there is a task.                                                             *)
LEMMA InvokeKeeps ==
  ASSUME EntryInv, NEW c \in Clients, Invoke(c)
  PROVE  EntryInv'
<1> USE DEF EntryInv
<1> DEFINE new == [pc |-> "dial", attempt |-> client[c].attempt + 1, launched |-> Nobody,
                   retries |-> 0, since |-> Len(tasks)]
<1>1. client[c] \in Commands /\ client[c].attempt \in 0..MaxAttempts /\ client[c].attempt < MaxAttempts
  BY DEF TypeOK, Commands, Invoke
<1>2. /\ client' = [client EXCEPT ![c] = new]
      /\ UNCHANGED <<path, daemon, handler, tasks, updates>>
  BY DEF Invoke, TypeOK
<1>3. new \in Commands /\ new.attempt \in 1..MaxAttempts /\ new.attempt > client[c].attempt
  BY <1>1, EntryBounds DEF Commands, TypeOK
<1>4. TypeOK' /\ NameIsAccountedFor'
  BY <1>2, <1>3 DEF TypeOK, NameIsAccountedFor
<1>5. FutureAttemptsAreFree'
  BY <1>1, <1>2, <1>3 DEF FutureAttemptsAreFree, TypeOK
<1>6. Deciders'
  <2> SUFFICES ASSUME NEW e \in Clients, client'[e].pc # "idle"
               PROVE  /\ client'[e].since > 0 => tasks # <<>>
                      /\ Decides(handler[Own(e)'], client'[e].since)
    BY <1>2 DEF Deciders, Own, Decides
  <2>1. CASE e # c
    BY <2>1, <1>2 DEF TypeOK, Own, Deciders
  <2>2. CASE e = c
    <3>1. client'[e] = new /\ Own(e)' = <<c, client[c].attempt + 1>>
      BY <2>2, <1>2 DEF TypeOK, Own
    <3>2. handler[Own(e)'] = NoHandler
      BY <3>1, <1>3, <1>1 DEF FutureAttemptsAreFree
    <3> QED BY <3>1, <3>2 DEF NoHandler, TypeOK, Decides
  <2> QED BY <2>1, <2>2
<1> QED BY <1>4, <1>5, <1>6

(* A command that moves keeps everything else.                                  *)
Moves(r, m) == m \in Commands /\ m.pc # "idle" /\ m.attempt = r.attempt /\ m.since = r.since

LEMMA Moved ==
  ASSUME NEW r \in Commands, NEW p \in {"dial", "launch", "wait", "check", "shell", "failed"}
  PROVE  /\ Moves(r, [r EXCEPT !.pc = p])
         /\ \A n \in 0..MaxRetries : Moves(r, [r EXCEPT !.pc = p, !.retries = n])
         /\ \A l \in Daemons : Moves(r, [r EXCEPT !.pc = p, !.launched = l])
BY DEF Commands, Moves

(* Every other step of a command: it keeps its number and what it remembers,    *)
(* and starts its request afresh if anything.                                   *)
LEMMA ClientShape ==
  ASSUME EntryInv, NEW c \in Clients, ClientStep(c)
  PROVE  /\ UNCHANGED <<path, tasks, updates>>
         /\ daemon' \in [Daemons -> DaemonStates]
         /\ \/ UNCHANGED daemon
            \/ \E d \in Daemons : daemon[d] = "unborn" /\ daemon' = [daemon EXCEPT ![d] = "opening"]
         /\ client[c].pc # "idle"
         /\ \E r : client' = [client EXCEPT ![c] = r] /\ Moves(client[c], r)
         /\ \/ UNCHANGED handler
            \/ \E h \in Handlers : /\ handler' = [handler EXCEPT ![Own(c)] = h]
                                   /\ h.state = "queued"
                                   /\ h.created = handler[Own(c)].created
<1> USE EntryBounds DEF EntryInv, TypeOK
<1> DEFINE Goes(r) == client' = [client EXCEPT ![c] = r] /\ Moves(client[c], r)
<1>1. client[c] \in Commands
  OBVIOUS
<1>2. CASE Dial(c)
  <2>0. UNCHANGED <<path, daemon, tasks, updates>> /\ client[c].pc # "idle"
    BY <1>2 DEF Dial
  <2>1. CASE Reachable
    <3> DEFINE h == [handler[Own(c)] EXCEPT !.state = "queued", !.at = path, !.task = NoTask]
    <3>1. h \in Handlers /\ h.state = "queued" /\ h.created = handler[Own(c)].created
      <4>1. handler[Own(c)] \in Handlers
        BY <2>0, OwnIsAttempt
      <4> QED BY <4>1 DEF Handlers, NoTask
    <3>2. /\ handler' = [handler EXCEPT ![Own(c)] = h]
          /\ client' = [client EXCEPT ![c] = [client[c] EXCEPT !.pc = "wait"]]
      BY <1>2, <2>1 DEF Dial
    <3>3. \E r : Goes(r)
      BY <1>1, <3>2, Moved, Zenon
    <3> HIDE DEF h
    <3> QED BY <2>0, <3>1, <3>2, <3>3
  <2>2. CASE ~Reachable
    <3>1. /\ handler' = handler
          /\ \E p \in {"launch", "check"} : client' = [client EXCEPT ![c] = [client[c] EXCEPT !.pc = p]]
      BY <1>2, <2>2 DEF Dial, Unavailable
    <3>2. \E r : Goes(r)
      BY <1>1, <3>1, Moved, Zenon
    <3> QED BY <2>0, <3>1, <3>2
  <2> QED BY <2>1, <2>2
<1>3. CASE launchLocalDaemonProcess(c)
  <2>1. PICK d \in Daemons :
          /\ daemon[d] = "unborn" /\ daemon' = [daemon EXCEPT ![d] = "opening"]
          /\ client' = [client EXCEPT ![c].pc = "dial", ![c].launched = d]
    BY <1>3 DEF launchLocalDaemonProcess
  <2>2. client' = [client EXCEPT ![c] = [client[c] EXCEPT !.pc = "dial", !.launched = d]]
    BY <2>1
  <2>3. UNCHANGED <<path, handler, tasks, updates>> /\ client[c].pc = "launch"
    BY <1>3 DEF launchLocalDaemonProcess
  <2>4. daemon' \in [Daemons -> DaemonStates]
    BY <2>1 DEF DaemonStates
  <2>5. \E r : Goes(r)
    BY <1>1, <2>2, Moved, Zenon
  <2> QED BY <2>1, <2>3, <2>4, <2>5
<1>4. CASE LaunchFails(c) \/ Receive(c) \/ ConnectionLost(c) \/ Deadline(c)
  <2>1. UNCHANGED <<path, daemon, handler, tasks, updates>> /\ client[c].pc # "idle"
    BY <1>4 DEF LaunchFails, Receive, ConnectionLost, Deadline
  <2>2. \E p \in {"failed", "shell", "launch", "check"} :
          client' = [client EXCEPT ![c] = [client[c] EXCEPT !.pc = p]]
    BY <1>4 DEF LaunchFails, Receive, ConnectionLost, Deadline, Unavailable
  <2>3. \E r : Goes(r)
    BY <1>1, <2>2, Moved, Zenon
  <2> QED BY <2>1, <2>3
<1>5. CASE Check(c)
  <2>1. UNCHANGED <<path, daemon, handler, tasks, updates>> /\ client[c].pc # "idle"
    BY <1>5 DEF Check
  <2>2. \/ client' = [client EXCEPT ![c] = [client[c] EXCEPT !.pc = "failed"]]
        \/ /\ client[c].retries # MaxRetries
           /\ client' = [client EXCEPT ![c] = [client[c] EXCEPT !.pc = "dial", !.retries = client[c].retries + 1]]
    <3> DEFINE old == client[c]
               new == IF daemon[old.launched] \in Dead \/ old.retries = MaxRetries
                      THEN [old EXCEPT !.pc = "failed"]
                      ELSE [old EXCEPT !.pc = "dial", !.retries = old.retries + 1]
    <3>1. client' = [client EXCEPT ![c] = new]
      BY <1>5 DEF Check
    <3>2. \/ new = [old EXCEPT !.pc = "failed"]
          \/ /\ old.retries # MaxRetries
             /\ new = [old EXCEPT !.pc = "dial", !.retries = old.retries + 1]
      BY Zenon
    <3> HIDE DEF new
    <3> QED BY <3>1, <3>2, Zenon
  <2>3. client[c].retries # MaxRetries => client[c].retries + 1 \in 0..MaxRetries
    BY <1>1 DEF Commands
  <2>4. \E r : Goes(r)
    BY <1>1, <2>2, <2>3, Moved, Zenon
  <2> QED BY <2>1, <2>4
<1> QED BY <1>2, <1>3, <1>4, <1>5 DEF ClientStep

LEMMA ClientStepKeeps ==
  ASSUME EntryInv, NEW c \in Clients, ClientStep(c)
  PROVE  EntryInv'
<1> USE DEF EntryInv
<1>1. UNCHANGED <<path, tasks, updates>> /\ client[c].pc # "idle"
  BY ClientShape
<1>2. PICK r \in Commands :
        /\ client' = [client EXCEPT ![c] = r]
        /\ r.pc # "idle" /\ r.attempt = client[c].attempt /\ r.since = client[c].since
  BY ClientShape DEF Moves
<1>3. \/ UNCHANGED handler
      \/ \E h \in Handlers : /\ handler' = [handler EXCEPT ![Own(c)] = h]
                             /\ h.state = "queued" /\ h.created = handler[Own(c)].created
  BY ClientShape
<1>4. Own(c) \in Attempts
  BY <1>1, OwnIsAttempt
<1>5. handler' \in [Attempts -> Handlers]
      /\ \A a \in Attempts : \/ handler'[a] = handler[a]
                             \/ /\ a = Own(c) /\ handler'[a].state = "queued"
                                /\ handler'[a].created = handler[a].created
  BY <1>3, <1>4 DEF TypeOK
<1>6. TypeOK'
  BY <1>1, <1>2, <1>5, ClientShape DEF TypeOK
<1>7. NameIsAccountedFor'
  BY <1>1, ClientShape DEF NameIsAccountedFor, TypeOK
<1>8. \A e \in Clients : /\ client'[e].attempt = client[e].attempt /\ client'[e].since = client[e].since
                         /\ Own(e)' = Own(e)
                         /\ client'[e].pc # "idle" => client[e].pc # "idle"
  BY <1>1, <1>2 DEF TypeOK, Own
<1>9. FutureAttemptsAreFree'
  <2>1. \A e \in Clients : \A k \in 1..MaxAttempts :
          k > client[e].attempt => <<e, k>> # Own(c) /\ <<e, k>> \in Attempts
    <3>1. client[c].attempt \in 0..MaxAttempts
      BY DEF TypeOK, Commands
    <3> QED BY <3>1 DEF Own, Attempts
  <2> QED BY <2>1, <1>5, <1>8 DEF FutureAttemptsAreFree
<1>10. Deciders'
  <2> SUFFICES ASSUME NEW e \in Clients, client'[e].pc # "idle"
               PROVE  /\ client[e].since > 0 => tasks # <<>>
                      /\ Decides(handler'[Own(e)], client[e].since)
    BY <1>1, <1>8 DEF Deciders, Decides
  <2>1. client[e].pc # "idle" /\ Own(e) \in Attempts
    BY <1>8, OwnIsAttempt
  <2> QED BY <2>1, <1>5 DEF Deciders, Decides
<1> QED BY <1>6, <1>7, <1>9, <1>10

-----------------------------------------------------------------------------
(* The invariant: types, the name of the socket, and what deciding handlers     *)
(* were asked for.                                                              *)
THEOREM EntryInvariance == Spec => []EntryInv
<1>1. EntryInv /\ [Next]_vars => EntryInv'
  <2> SUFFICES ASSUME EntryInv, [Next]_vars PROVE EntryInv'
    OBVIOUS
  <2>1. CASE UNCHANGED vars
    <3>1. UNCHANGED <<path, daemon, client, handler, tasks, updates>>
      BY <2>1 DEF vars
    <3> QED BY <3>1 DEF EntryInv, TypeOK, NameIsAccountedFor, FutureAttemptsAreFree, Deciders, Decides, Own
  <2>2. CASE Next
    BY <2>2, InvokeKeeps, ClientStepKeeps, DaemonStepKeeps, HandlerStepKeeps, UpdateTaskKeeps DEF Next
  <2> QED BY <2>1, <2>2
<1> QED BY EntryStarts, <1>1, PTL DEF Spec

(* Service.Run, however many daemons start at once: after every start-up is     *)
(* over and unless one was killed or lost its listener, the socket's name leads *)
(* to a daemon that serves.                                                     *)
THEOREM SocketServes == Spec => []SettledSocketServes
<1>1. EntryInv => SettledSocketServes
  BY EntryBounds DEF EntryInv, TypeOK, NameIsAccountedFor, SettledSocketServes, Reachable
<1> QED BY <1>1, EntryInvariance, PTL

(* ResolveShellTaskForRepo: a command given when the repository had a task      *)
(* never creates another and one given before creates at most one, over any     *)
(* number of terminals, retries, daemons, kills and lost answers.               *)
THEOREM NoSecondTask == Spec => []CreatedOnlyIfNoneWas
<1>1. EntryInv => CreatedOnlyIfNoneWas
  BY DEF EntryInv, Deciders, Decides, CreatedOnlyIfNoneWas
<1> QED BY <1>1, EntryInvariance, PTL
=============================================================================
