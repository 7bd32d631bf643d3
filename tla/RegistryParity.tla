--------------------------- MODULE RegistryParity ---------------------------
(* The two registries of shell sessions side by side, given the same calls: the *)
(* one in memory that the orchestrator's tests use, and the one in SQLite that  *)
(* the daemon uses (TranscriptStore, and the tables of rows below). A test that *)
(* passes with the first speaks for the program only as far as they agree.      *)
EXTENDS TranscriptStore, Sequences, TimestampText

CONSTANTS
  Sessions,  \* the shell sessions of the task; the transcript is of one of them
  MaxTime,   \* bound: instants of the clock
  MaxRows    \* bound: rows stored

VARIABLES
  memChunks, memLast, memDropped, memRows,
  sqlRows,   \* the tables of reviews, acknowledgments and events
  batch,     \* the sources of the chunks SQLite is being given
  stored,    \* chunks ever inserted
  now        \* the clock

Memory == INSTANCE MemoryRegistry

memVars == <<memChunks, memLast, memDropped, memRows>>
parityVars == <<storeVars, memVars, sqlRows, batch, stored, now>>

SqlIdle == \A h \in Handlers : op[h].pc = "idle"

-----------------------------------------------------------------------------
SqlSourceCount(source) == Cardinality({c \in chunks : c.source = source})

SqlRowsBefore(before, source) == {c \in OfSource(chunks, source) : before > 0 => c.seq < before}

SqlTranscriptPageFromOldest(before, limit, source) ==
  LET rows == SqlRowsBefore(before, source)
      asc  == Memory!InOrder(rows, LAMBDA c, d : c.seq < d.seq)
      n    == IF Len(asc) > limit THEN limit ELSE Len(asc)
  IN  [page |-> [i \in 1..n |-> [seq |-> asc[i].seq, source |-> asc[i].source]],
       more |-> Len(asc) > limit]

(* The newest rows before a number, one more than asked for, turned round.      *)
SqlTranscriptPage(before, limit, source) ==
  LET rows == SqlRowsBefore(before, source)
      desc == Memory!InOrder(rows, LAMBDA c, d : c.seq > d.seq)
      n    == IF Len(desc) > limit THEN limit ELSE Len(desc)
  IN  [page |-> [i \in 1..n |-> [seq |-> desc[n + 1 - i].seq, source |-> desc[n + 1 - i].source]],
       more |-> Len(desc) > limit]

SqlNewestAscending(rows, limit) ==
  LET s == Memory!InOrder(rows, LAMBDA r, q : TextBefore(r.at, q.at))
  IN  SubSeq(s, 1, IF Len(s) > limit THEN limit ELSE Len(s))

(* ORDER BY created_at DESC, id DESC LIMIT n: SQLite compares the texts.        *)
SqlNewest(rows, limit) ==
  LET s == Memory!InOrder(rows, LAMBDA r, q : TextBefore(q.at, r.at))
  IN  SubSeq(s, 1, IF Len(s) > limit THEN limit ELSE Len(s))

SqlRowsOf(kind) == {r \in sqlRows : r.kind = kind}

SqlListReviews(session, scope, limit) ==
  SqlNewest({r \in SqlRowsOf("review") : r.session = session /\ r.scope = scope}, limit)

SqlListReviewsAnyScope(session, limit) ==
  SqlNewest({r \in SqlRowsOf("review") : r.session = session}, limit)

SqlListAcknowledgments(session, limit) ==
  SqlNewest({r \in SqlRowsOf("ack") : session # "" => r.session = session}, limit)

SqlListEvents(session, limit) ==
  SqlNewest({r \in SqlRowsOf("event") : session # "" => r.session = session}, limit)

SqlInsertRow(kind, session, scope) ==
  sqlRows' = sqlRows \cup {[kind |-> kind, session |-> session, scope |-> scope, at |-> now]}

-----------------------------------------------------------------------------
ParityInit ==
  /\ StoreInit
  /\ Memory!MemInit
  /\ sqlRows = {}
  /\ batch = <<>>
  /\ stored = 0
  /\ now = 0

Tick ==
  /\ now < MaxTime
  /\ now' = now + 1
  /\ UNCHANGED <<storeVars, memVars, sqlRows, batch, stored>>

(* appendShellTranscript, on both: SQLite has read the summary. The registries  *)
(* are given one call after the other.                                          *)
AppendBoth(h, b) ==
  /\ SqlIdle
  /\ AppendTranscript(h, Len(b), stored)
  /\ Memory!MemAppendTranscript(b)
  /\ batch' = b
  /\ UNCHANGED <<sqlRows, stored, now>>

FinishAppend(h) ==
  \/ /\ batch # <<>>
     /\ InsertChunk(h, Head(batch), stored)
     /\ batch' = Tail(batch)
     /\ stored' = stored + 1
     /\ UNCHANGED <<memVars, sqlRows, now>>
  \/ PruneTranscript(h) /\ UNCHANGED <<memVars, sqlRows, batch, stored, now>>
  \/ CountRetained(h) /\ UNCHANGED <<memVars, sqlRows, batch, stored, now>>
  \/ SaveTranscriptMeta(h) /\ UNCHANGED <<memVars, sqlRows, batch, stored, now>>

(* The id of a row is made of the clock's nanosecond and is the primary key.    *)
(* The registries take what they are given; the coordinator has checked it.     *)
NewRow(kind) ==
  /\ SqlIdle
  /\ Cardinality(sqlRows) < MaxRows
  /\ \A r \in SqlRowsOf(kind) : r.at # now
  /\ UNCHANGED <<storeVars, batch, stored, now>>

AppendReview(session, scope) ==
  /\ NewRow("review")
  /\ SqlInsertRow("review", session, scope)
  /\ Memory!MemAppendTranscriptReview(session, scope, now)

AppendAcknowledgment(session) ==
  /\ NewRow("ack")
  /\ SqlInsertRow("ack", session, "")
  /\ Memory!MemAppendAcknowledgment(session, now)

AppendEvent(session) ==
  /\ NewRow("event")
  /\ SqlInsertRow("event", session, "")
  /\ Memory!MemAppendEvent(session, now)

Batches == UNION {[1..n -> AnySource] : n \in 1..MaxBatch}

ParityNext ==
  \/ Tick
  \/ \E h \in Handlers, b \in Batches : AppendBoth(h, b)
  \/ \E h \in Handlers : FinishAppend(h)
  \/ \E s \in Sessions, scope \in Sources \cup {""} : AppendReview(s, scope)
  \/ \E s \in Sessions : AppendAcknowledgment(s) \/ AppendEvent(s)

ParitySpec == ParityInit /\ [][ParityNext]_parityVars

-----------------------------------------------------------------------------
(* Every variable holds values of its columns and fields.                       *)
ParityTypeOK ==
  /\ chunks \in SUBSET Chunks
  /\ meta \in Metas
  /\ op \in [Handlers -> Ops]
  /\ memChunks \in Seq([seq : Nat, source : Sources])
  /\ memLast \in Nat
  /\ memDropped \in Nat
  /\ memRows \in Seq(Memory!Rows)
  /\ sqlRows \in SUBSET Memory!Rows
  /\ batch \in Seq(AnySource)
  /\ stored \in Nat
  /\ now \in Nat

Limits == 1..(Retention + 1)

(* Between appends both registries count and number the transcript alike,       *)
(* whatever was dropped and however the batches were cut                        *)
(* (hydrateMemoryTranscriptSummary, populateTranscriptSummaryBoundsAndSources), *)
(* and every page of it is the same from both, with the same answer to whether  *)
(* there is an older one, for every cursor, limit and source.                   *)
ReadsAgree ==
  SqlIdle =>
    /\ TranscriptSummary = Memory!MemTranscriptSummary
    /\ \A s \in Sources : SqlSourceCount(s) = Memory!MemSourceCount(s)
    /\ \A before \in 0..(MaxChunks + 1), limit \in Limits, source \in Sources \cup {""} :
         SqlTranscriptPage(before, limit, source) = Memory!MemTranscriptPage(before, limit, source)

(* The latest review, acknowledgment or event that SQLite reports is from the   *)
(* same second as the one that really is the latest: comparing texts misorders  *)
(* no rows of different seconds.                                                *)
LatestWithinASecond ==
  LET Near(sql, mem) == /\ Len(sql) = Len(mem)
                        /\ \A i \in 1..Len(sql) : sql[i].at \div Second = mem[i].at \div Second
  IN  \A n \in 1..2, s \in Sessions :
        /\ \A c \in Sources \cup {""} :
             Near(SqlListReviews(s, c, n), Memory!MemListReviews(s, c, n))
        /\ Near(SqlListReviewsAnyScope(s, n), Memory!MemListReviewsAnyScope(s, n))
        /\ \A t \in {s, ""} :
             /\ Near(SqlListAcknowledgments(t, n), Memory!MemListAcknowledgments(t, n))
             /\ Near(SqlListEvents(t, n), Memory!MemListEvents(t, n))
=============================================================================
