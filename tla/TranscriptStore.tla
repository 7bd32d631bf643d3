-------------------------- MODULE TranscriptStore --------------------------
(* The bounded transcript of one shell session as SQLite keeps it: a table of   *)
(* chunks and a row of counters. The repository runs every statement by itself, *)
(* outside any transaction (shellSessionRepo.q is the database), so an append   *)
(* is a chain of steps that may fail, be cut off by a crash, or overlap another *)
(* append whose client has given up waiting.                                    *)
EXTENDS Integers, FiniteSets

CONSTANTS
  Sources,     \* the values of TranscriptSource: worker_output, system_note, fallback_note
  Handlers,    \* connection goroutines of the daemon that may serve an append
  Retention,   \* DefaultTranscriptRetentionChunks
  MaxBatch,    \* bound: chunks of one append
  MaxChunks    \* bound: chunks ever inserted

ASSUME TranscriptBounds ==
  /\ "worker_output" \in Sources
  /\ {"", "unknown"} \cap Sources = {}
  /\ Retention \in Nat \ {0}
  /\ MaxBatch \in Nat \ {0}
  /\ MaxChunks \in Nat
  /\ IsFiniteSet(Handlers)

VARIABLES
  chunks,   \* shell_session_transcript_chunks; id is the order of insertion
  meta,     \* shell_session_transcript_meta, or NoMeta
  op        \* what each handler has read and has still to write

storeVars == <<chunks, meta, op>>

AnySource == Sources \cup {"unknown"}

Chunks == [id : Nat, seq : Nat, source : Sources]
NoMeta == [saved |-> FALSE, retained |-> 0, dropped |-> 0, last |-> 0]
Metas == [saved : BOOLEAN, retained : Nat, dropped : Nat, last : Nat]

Idle == [pc |-> "idle", todo |-> 0, last |-> 0, dropped |-> 0, kept |-> 0]
Ops == [pc : {"idle", "insert", "prune", "count", "save"}, todo : Nat,
        last : Nat, dropped : Nat, kept : Nat]

normalizeTranscriptSource(s) == IF s \in Sources THEN s ELSE "worker_output"

(* The chunk of a set with the highest (lowest) sequence number; 0 for none.    *)
NewestSeq(C) == IF C = {} THEN 0 ELSE (CHOOSE c \in C : \A d \in C : d.seq <= c.seq).seq
OldestSeq(C) == IF C = {} THEN 0 ELSE (CHOOSE c \in C : \A d \in C : c.seq <= d.seq).seq

OfSource(C, source) == {c \in C : source = "" \/ c.source = source}

TranscriptSummaryOfRow ==
  [retained |-> meta.retained, dropped |-> meta.dropped, last |-> meta.last,
   oldest |-> OldestSeq(chunks), newest |-> NewestSeq(chunks)]

(* The counters come from the saved row and are completed from the chunks. The  *)
(* row counts as empty if it says so, even if there are chunks.                 *)
TranscriptSummary ==
  LET retained == IF meta.saved THEN meta.retained ELSE Cardinality(chunks)
      some     == retained > 0 /\ chunks # {}
  IN  [ retained |-> retained,
        dropped  |-> meta.dropped,
        last     |-> IF some THEN NewestSeq(chunks) ELSE meta.last,
        oldest   |-> IF some THEN OldestSeq(chunks) ELSE 0,
        newest   |-> IF some THEN NewestSeq(chunks) ELSE 0 ]

PruneKeepsOldest(K) ==
  /\ K \subseteq chunks
  /\ Cardinality(K) = IF Cardinality(chunks) < Retention THEN Cardinality(chunks) ELSE Retention
  /\ \A c \in K, d \in chunks \ K : c.seq <= d.seq

(* The rows LIMIT -1 OFFSET retention spares: as many as fit, none older than a *)
(* row that goes. Rows with equal numbers are ordered by nothing.               *)
PruneKeeps(K) ==
  /\ K \subseteq chunks
  /\ Cardinality(K) = IF Cardinality(chunks) < Retention THEN Cardinality(chunks) ELSE Retention
  /\ \A c \in K, d \in chunks \ K : c.seq >= d.seq

StoreInit ==
  /\ chunks = {}
  /\ meta = NoMeta
  /\ op = [h \in Handlers |-> Idle]

(* RecordShellTranscript drops empty chunks and reads the summary.              *)
AppendTranscript(h, n, inserted) ==
  /\ op[h].pc = "idle"
  /\ inserted + n <= MaxChunks
  /\ op' = [op EXCEPT ![h] = [Idle EXCEPT !.pc = "insert", !.todo = n,
                                          !.last = TranscriptSummary.last,
                                          !.dropped = TranscriptSummary.dropped]]
  /\ UNCHANGED <<chunks, meta>>

InsertChunk(h, source, inserted) ==
  /\ op[h].pc = "insert"
  /\ chunks' = chunks \cup {[id |-> inserted + 1, seq |-> op[h].last + 1,
                             source |-> normalizeTranscriptSource(source)]}
  /\ op' = [op EXCEPT ![h].todo = @ - 1, ![h].last = @ + 1,
                      ![h].pc = IF op[h].todo = 1 THEN "prune" ELSE "insert"]
  /\ UNCHANGED meta

PruneTranscript(h) ==
  /\ op[h].pc = "prune"
  /\ \E K \in SUBSET chunks :
       /\ PruneKeeps(K)
       /\ chunks' = K
       /\ op' = [op EXCEPT ![h].pc = "count", ![h].dropped = @ + Cardinality(chunks \ K)]
  /\ UNCHANGED meta

CountRetained(h) ==
  /\ op[h].pc = "count"
  /\ op' = [op EXCEPT ![h].pc = "save", ![h].kept = Cardinality(chunks)]
  /\ UNCHANGED <<chunks, meta>>

SaveTranscriptMeta(h) ==
  /\ op[h].pc = "save"
  /\ meta' = [saved |-> TRUE, retained |-> op[h].kept, dropped |-> op[h].dropped,
              last |-> op[h].last]
  /\ op' = [op EXCEPT ![h] = Idle]
  /\ UNCHANGED chunks

(* A statement reports an error, such as a busy database: the append ends.      *)
AppendFails(h) ==
  /\ op[h].pc # "idle"
  /\ op' = [op EXCEPT ![h] = Idle]
  /\ UNCHANGED <<chunks, meta>>

StoreCrash ==
  /\ \E h \in Handlers : op[h].pc # "idle"
  /\ op' = [h \in Handlers |-> Idle]
  /\ UNCHANGED <<chunks, meta>>
=============================================================================
