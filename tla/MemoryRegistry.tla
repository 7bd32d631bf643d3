--------------------------- MODULE MemoryRegistry ---------------------------
(* MemoryShellSessionRegistry, the registry the tests of the orchestrator run   *)
(* with: slices under one mutex, so that every call is one step. One session's  *)
(* transcript, and the rows (reviews, acknowledgments of review gaps, lifecycle *)
(* events) of the sessions of one task.                                         *)
EXTENDS Integers, Sequences, FiniteSets

CONSTANTS
  Sources,    \* the values of TranscriptSource
  Sessions,   \* the shell sessions of the task
  Retention   \* DefaultTranscriptRetentionChunks

VARIABLES
  memChunks,   \* transcriptsBySession, oldest first
  memLast,     \* LastSequenceNo and
  memDropped,  \* DroppedChunks of transcriptSummaryBySession
  memRows      \* the slices of rows, in the order of the calls

memVars == <<memChunks, memLast, memDropped, memRows>>

Kinds == {"review", "ack", "event"}

(* at: CreatedAt; the id of a row is made of the clock too and orders alike     *)
Rows == [kind : Kinds, session : Sessions, scope : Sources \cup {""}, at : Nat]

normalizeTranscriptSourceValue(s) == IF s \in Sources THEN s ELSE "worker_output"

MemInit ==
  /\ memChunks = <<>>
  /\ memLast = 0
  /\ memDropped = 0
  /\ memRows = <<>>

(* The elements of a set so that none comes after one it is before.             *)
InOrder(S, Before(_, _)) ==
  CHOOSE f \in [1..Cardinality(S) -> S] :
    \A i, j \in 1..Cardinality(S) : i < j => f[i] # f[j] /\ ~Before(f[j], f[i])

Last(s, n) == SubSeq(s, IF Len(s) > n THEN Len(s) - n + 1 ELSE 1, Len(s))

(* The chunks go to the end, numbered on from the summary; the slice is cut to  *)
(* the retention and the summary is filled in from what is left.                *)
MemAppendTranscript(batch) ==
  LET entries == [i \in 1..Len(batch) |->
                    [seq |-> memLast + i,
                     source |-> normalizeTranscriptSourceValue(batch[i])]]
      all     == memChunks \o entries
  IN  /\ memChunks' = Last(all, Retention)
      /\ memLast' = IF all = <<>> THEN memLast ELSE all[Len(all)].seq
      /\ memDropped' = memDropped + Len(all) - Len(memChunks')
      /\ UNCHANGED memRows

MemTranscriptSummary ==
  [ retained |-> Len(memChunks),
    dropped  |-> memDropped,
    last     |-> memLast,
    oldest   |-> IF memChunks = <<>> THEN 0 ELSE memChunks[1].seq,
    newest   |-> IF memChunks = <<>> THEN 0 ELSE memChunks[Len(memChunks)].seq ]

MemSourceCount(source) ==
  Cardinality({i \in 1..Len(memChunks) : memChunks[i].source = source})

(* The loop keeps what fits, in the order it has.                               *)
MemTranscriptPage(before, limit, source) ==
  LET fits     == {i \in 1..Len(memChunks) : /\ before > 0 => memChunks[i].seq < before
                                             /\ source # "" => memChunks[i].source = source}
      place    == InOrder(fits, LAMBDA i, j : i < j)
      filtered == [k \in 1..Cardinality(fits) |-> memChunks[place[k]]]
  IN  [page |-> Last(filtered, limit), more |-> Len(filtered) > limit]

MemAppendTranscriptReview(session, scope, at) ==
  /\ memRows' = Append(memRows, [kind |-> "review", session |-> session, scope |-> scope,
                                 at |-> at])
  /\ UNCHANGED <<memChunks, memLast, memDropped>>

MemAppendAcknowledgment(session, at) ==
  /\ memRows' = Append(memRows, [kind |-> "ack", session |-> session, scope |-> "", at |-> at])
  /\ UNCHANGED <<memChunks, memLast, memDropped>>

MemAppendEvent(session, at) ==
  /\ memRows' = Append(memRows, [kind |-> "event", session |-> session, scope |-> "", at |-> at])
  /\ UNCHANGED <<memChunks, memLast, memDropped>>

(* Newest first, cut to the limit: sort.Slice compares the instants.            *)
MemNewest(rows, limit) ==
  LET s == InOrder(rows, LAMBDA r, q : r.at > q.at)
  IN  SubSeq(s, 1, IF Len(s) > limit THEN limit ELSE Len(s))

MemRowsOf(kind) == {memRows[i] : i \in {j \in 1..Len(memRows) : memRows[j].kind = kind}}

MemListReviews(session, scope, limit) ==
  MemNewest({r \in MemRowsOf("review") : r.session = session /\ r.scope = scope}, limit)

MemListReviewsAnyScope(session, limit) ==
  MemNewest({r \in MemRowsOf("review") : r.session = session}, limit)

(* No session stands for every session of the task.                             *)
MemListAcknowledgments(session, limit) ==
  MemNewest({r \in MemRowsOf("ack") : session # "" => r.session = session}, limit)

MemListEvents(session, limit) ==
  MemNewest({r \in MemRowsOf("event") : session # "" => r.session = session}, limit)
=============================================================================
