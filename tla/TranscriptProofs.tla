-------------------------- MODULE TranscriptProofs --------------------------
(***************************************************************************)
(* Theorems about TranscriptReview and RegistryParity, for any sources,    *)
(* retention, batches and connections.                                     *)
(*                                                                         *)
(* TranscriptReview, on the one condition that no two appends are at their *)
(* insertions at once: the summary's newest number is the newest retained  *)
(* one whatever a failure or a crash left in the row of counters, so an    *)
(* append continues the numbering; a chunk inserted after an operator      *)
(* looked has a number above all that was looked at.                       *)
(*                                                                         *)
(* RegistryParity: the registry in memory is ahead of SQLite during an     *)
(* append and both have come to the same chunks and numbers at its end; a  *)
(* page is the one way to put its rows in the order of their numbers; and  *)
(* the texts of timestamps are ordered, their first character being the    *)
(* second, so that rows of one place are of one second in both orders.     *)
(***************************************************************************)
EXTENDS TranscriptReview, RegistryParity, FiniteSetTheorems, SequenceTheorems, WellFoundedInduction, TLAPS

(* The client side: an append is sent when the one before has been answered.   *)
InsertsDoNotOverlap ==
  \A g, h \in Handlers : op[g].pc = "insert" /\ op[h].pc = "insert" => g = h

(* Numbers are given once, and never more of them than insertions.              *)
ChunksAreNumbered ==
  /\ IsFiniteSet(chunks)
  /\ \A c \in chunks : c.seq \in 1..inserted /\ c.id <= inserted
  /\ \A c, d \in chunks : c.seq = d.seq => c = d

(* A saved row of counters never counts as empty: an append that reaches it has *)
(* inserted a chunk, and no pruning takes the last one.                         *)
RowIsNotEmpty ==
  /\ meta.saved => meta.retained > 0 /\ chunks # {}
  /\ ~meta.saved => meta.last = 0

AppendsContinue ==
  \A h \in Handlers :
    /\ op[h].pc = "insert" => op[h].todo > 0 /\ op[h].last = NewestSeq(chunks)
    /\ op[h].pc \in {"prune", "count", "save"} => chunks # {}
    /\ op[h].pc = "save" => op[h].kept > 0

(* Who looked up to a number, when `at' chunks had been inserted, saw every     *)
(* chunk of C up to that number.                                                *)
Saw(C, upTo, at) ==
  /\ upTo <= NewestSeq(C)
  /\ \A c \in C : c.seq <= upTo => c.id <= at

EvidenceWasSeen ==
  /\ \A i \in 1..Len(reviews) : Saw(chunks, reviews[i].upTo, reviews[i].at)
  /\ \A ack \in acks : Saw(chunks, ack.newest, ack.at)
  /\ reader.pc \in {"looked", "reviewing"} => Saw(chunks, reader.upTo, reader.at)
  /\ reader.pc = "acking" => Saw(chunks, reader.newest, reader.at)

StoreInv == TypeOK /\ ChunksAreNumbered /\ RowIsNotEmpty /\ AppendsContinue
ReviewInv == StoreInv /\ EvidenceWasSeen

-----------------------------------------------------------------------------
(* The newest number of a set of chunks.                                       *)

\* A set of naturals has a least element.
LEMMA LeastNumber ==
  ASSUME NEW T, T \subseteq Nat, T # {}
  PROVE  \E t \in T : \A u \in T : t <= u
<1> DEFINE R == OpToRel(<, Nat)
<1>1. IsWellFoundedOn(R, Nat)
  BY NatLessThanWellFounded
<1>2. \A x, y \in Nat : x < y => <<x, y>> \in R
  BY DEF OpToRel
<1> HIDE DEF R
<1>3. PICK x \in T : \A y \in T : ~(<<y, x>> \in R)
  BY <1>1, WFMin
<1>4. \A y \in T : ~(y < x)
  BY <1>2, <1>3
<1> QED BY <1>4

\* The newest number is the number of a chunk, and no chunk has a higher one.
LEMMA NewestSeqIs ==
  ASSUME NEW C, NEW n \in Nat, \A c \in C : c.seq \in 1..n
  PROVE  /\ NewestSeq(C) \in 0..n /\ \A c \in C : c.seq <= NewestSeq(C)
         /\ C # {} => NewestSeq(C) > 0 /\ \E c \in C : c.seq = NewestSeq(C)
<1>1. CASE C = {}
  BY <1>1 DEF NewestSeq
<1>2. CASE C # {}
  <2> DEFINE D == {n - c.seq : c \in C}
  <2>1. D \subseteq Nat /\ D # {}
    <3>1. PICK c0 \in C : TRUE
      BY <1>2
    <3>2. n - c0.seq \in D
      OBVIOUS
    <3> QED BY <3>2
  <2>2. PICK m \in D : \A u \in D : m <= u
    <3> HIDE DEF D
    <3> QED BY <2>1, LeastNumber
  <2>3. PICK c \in C : m = n - c.seq
    OBVIOUS
  <2>4. \A d \in C : n - c.seq <= n - d.seq
    BY <2>2, <2>3
  <2>5. \A d \in C : d.seq <= c.seq
    BY <2>4
  <2> DEFINE top == CHOOSE k \in C : \A d \in C : d.seq <= k.seq
  <2>6. top \in C /\ \A d \in C : d.seq <= top.seq
    BY <2>5
  <2>7. NewestSeq(C) = top.seq
    BY <1>2 DEF NewestSeq
  <2> HIDE DEF top
  <2> QED BY <2>6, <2>7
<1> QED BY <1>1, <1>2

\* Whichever chunk has the highest number, its number is the newest.
LEMMA NewestSeqUnique ==
  ASSUME NEW C, NEW n \in Nat, \A c \in C : c.seq \in 1..n,
         NEW k \in C, \A c \in C : c.seq <= k.seq
  PROVE  NewestSeq(C) = k.seq
<1>1. PICK c \in C : c.seq = NewestSeq(C)
  BY NewestSeqIs
<1>2. k.seq <= NewestSeq(C)
  BY NewestSeqIs
<1> QED BY <1>1, <1>2

\* What the invariant says of the retained chunks.
LEMMA NewestIs ==
  ASSUME StoreInv
  PROVE  /\ NewestSeq(chunks) \in 0..inserted /\ NewestSeq(chunks) \in Nat
         /\ \A c \in chunks : c.seq <= NewestSeq(chunks)
         /\ chunks # {} => NewestSeq(chunks) > 0 /\ \E c \in chunks : c.seq = NewestSeq(chunks)
<1>1. inserted \in Nat /\ \A c \in chunks : c.seq \in 1..inserted
  BY DEF StoreInv, TypeOK, ChunksAreNumbered
<1>2. /\ NewestSeq(chunks) \in 0..inserted /\ \A c \in chunks : c.seq <= NewestSeq(chunks)
      /\ chunks # {} => NewestSeq(chunks) > 0 /\ \E c \in chunks : c.seq = NewestSeq(chunks)
  BY <1>1, NewestSeqIs
<1> QED BY <1>1, <1>2

\* The summary is right about the numbers and about there being evidence,
\* whatever an append that failed half-way left in the row of counters.
LEMMA SummaryIs ==
  ASSUME StoreInv
  PROVE  /\ TranscriptSummary.last = NewestSeq(chunks)
         /\ TranscriptSummary.newest = NewestSeq(chunks)
         /\ TranscriptSummary.retained \in Nat /\ TranscriptSummary.dropped \in Nat
         /\ TranscriptSummary.retained > 0 <=> chunks # {}
<1> DEFINE retained == IF meta.saved THEN meta.retained ELSE Cardinality(chunks)
<1>1. meta \in Metas /\ meta.saved \in BOOLEAN /\ meta.retained \in Nat /\ meta.dropped \in Nat
  BY DEF StoreInv, TypeOK, Metas
<1>2. Cardinality(chunks) \in Nat /\ (Cardinality(chunks) = 0 <=> chunks = {})
  BY FS_CardinalityType, FS_EmptySet DEF StoreInv, ChunksAreNumbered
<1>3. retained \in Nat /\ (retained > 0 <=> chunks # {})
  BY <1>1, <1>2 DEF StoreInv, RowIsNotEmpty
<1>4. chunks = {} => meta.last = 0 /\ NewestSeq(chunks) = 0
  BY <1>1 DEF StoreInv, RowIsNotEmpty, NewestSeq
<1>5. /\ TranscriptSummary.retained = retained /\ TranscriptSummary.dropped = meta.dropped
      /\ TranscriptSummary.last =
            IF retained > 0 /\ chunks # {} THEN NewestSeq(chunks) ELSE meta.last
      /\ TranscriptSummary.newest =
            IF retained > 0 /\ chunks # {} THEN NewestSeq(chunks) ELSE 0
  BY DEF TranscriptSummary
<1> HIDE DEF retained
<1> QED BY <1>1, <1>3, <1>4, <1>5

-----------------------------------------------------------------------------
(* The steps of an append.                                                     *)

\* What was seen stays seen as long as new chunks have higher numbers.
Advances ==
  /\ NewestSeq(chunks) <= NewestSeq(chunks')
  /\ \A c \in chunks' : c \in chunks \/ c.seq > NewestSeq(chunks)

LEMMA SawLasts ==
  ASSUME StoreInv, StoreInv', Advances
  PROVE  \A upTo \in Nat, at \in Nat : Saw(chunks, upTo, at) => Saw(chunks', upTo, at)
<1> SUFFICES ASSUME NEW upTo \in Nat, NEW at \in Nat, Saw(chunks, upTo, at)
             PROVE  Saw(chunks', upTo, at)
  OBVIOUS
<1>1. NewestSeq(chunks) \in Nat
  BY NewestIs
<1>2. NewestSeq(chunks') \in Nat /\ \A c \in chunks' : c.seq \in Nat
  <2>1. inserted' \in Nat /\ \A c \in chunks' : c.seq \in 1..inserted'
    BY DEF StoreInv, TypeOK, ChunksAreNumbered
  <2>2. NewestSeq(chunks') \in 0..inserted'
    BY <2>1, NewestSeqIs
  <2> QED BY <2>1, <2>2
<1>3. upTo <= NewestSeq(chunks')
  BY <1>1, <1>2 DEF Saw, Advances
<1>4. \A c \in chunks' : c.seq <= upTo => c.id <= at
  BY <1>1, <1>2 DEF Saw, Advances
<1> QED BY <1>3, <1>4 DEF Saw

LEMMA EvidenceTypes ==
  ASSUME TypeOK
  PROVE  /\ \A i \in 1..Len(reviews) : reviews[i].upTo \in Nat /\ reviews[i].at \in Nat
         /\ \A ack \in acks : ack.newest \in Nat /\ ack.at \in Nat
         /\ reader.upTo \in Nat /\ reader.newest \in Nat /\ reader.at \in Nat
<1>1. \A i \in 1..Len(reviews) : reviews[i] \in Reviews
  BY DEF TypeOK
<1>2. \A ack \in acks : ack \in Acks
  BY DEF TypeOK
<1>3. reader \in Readers
  BY DEF TypeOK
<1>4. \A r \in Reviews : r.upTo \in Nat /\ r.at \in Nat
  BY DEF Reviews
<1>5. \A k \in Acks : k.newest \in Nat /\ k.at \in Nat
  BY DEF Acks
<1>6. reader.upTo \in Nat /\ reader.newest \in Nat /\ reader.at \in Nat
  BY <1>3 DEF Readers
<1> QED BY <1>1, <1>2, <1>4, <1>5, <1>6

LEMMA EvidenceLasts ==
  ASSUME ReviewInv, StoreInv', Advances, UNCHANGED <<reviews, acks>>,
         UNCHANGED reader \/ reader' = Away
  PROVE  EvidenceWasSeen'
<1>1. \A upTo \in Nat, at \in Nat : Saw(chunks, upTo, at) => Saw(chunks', upTo, at)
  BY SawLasts DEF ReviewInv
<1>2. /\ \A i \in 1..Len(reviews) : reviews[i].upTo \in Nat /\ reviews[i].at \in Nat
      /\ \A ack \in acks : ack.newest \in Nat /\ ack.at \in Nat
      /\ reader.upTo \in Nat /\ reader.newest \in Nat /\ reader.at \in Nat
  BY EvidenceTypes DEF ReviewInv, StoreInv
<1>3. Away.pc = "away"
  BY DEF Away
<1> QED BY <1>1, <1>2, <1>3 DEF ReviewInv, EvidenceWasSeen

LEMMA OpTypes ==
  ASSUME TypeOK, NEW h \in Handlers
  PROVE  /\ op[h] \in Ops /\ op[h].todo \in Nat /\ op[h].last \in Nat
         /\ op[h].dropped \in Nat /\ op[h].kept \in Nat
<1>1. op[h] \in Ops
  BY DEF TypeOK
<1> QED BY <1>1 DEF Ops

\* A step that leaves the tables alone and moves one handler.
LEMMA HandlerMoves ==
  ASSUME StoreInv, NEW h \in Handlers, NEW x \in Ops, op' = [op EXCEPT ![h] = x],
         UNCHANGED <<chunks, meta, inserted, reviews, acks, reader>>,
         x.pc = "insert" => x.todo > 0 /\ x.last = NewestSeq(chunks),
         x.pc \in {"prune", "count", "save"} => chunks # {},
         x.pc = "save" => x.kept > 0
  PROVE  StoreInv' /\ Advances
<1>1. TypeOK'
  BY DEF StoreInv, TypeOK
<1>2. \A g \in Handlers : op'[g] = IF g = h THEN x ELSE op[g]
  BY DEF StoreInv, TypeOK
<1>3. AppendsContinue'
  BY <1>2 DEF StoreInv, AppendsContinue
<1>4. ChunksAreNumbered' /\ RowIsNotEmpty'
  BY DEF StoreInv, ChunksAreNumbered, RowIsNotEmpty
<1>5. Advances
  BY NewestIs DEF Advances
<1> QED BY <1>1, <1>3, <1>4, <1>5 DEF StoreInv

LEMMA IdleIsAnOp == Idle \in Ops /\ Idle.pc = "idle"
BY DEF Idle, Ops

LEMMA AppendKeeps ==
  ASSUME StoreInv, NEW h \in Handlers, NEW n \in 1..MaxBatch, AppendTranscript(h, n, inserted),
         UNCHANGED <<inserted, reviews, acks, reader>>
  PROVE  StoreInv' /\ Advances
<1> DEFINE last == TranscriptSummary.last
           dropped == TranscriptSummary.dropped
           x == [Idle EXCEPT !.pc = "insert", !.todo = n, !.last = last, !.dropped = dropped]
<1>1. op' = [op EXCEPT ![h] = x] /\ UNCHANGED <<chunks, meta>>
  BY DEF AppendTranscript
<1>2. last = NewestSeq(chunks) /\ last \in Nat /\ dropped \in Nat
  BY SummaryIs, NewestIs
<1>3. n \in Nat /\ n > 0
  <2>1. MaxBatch \in Nat
    BY TranscriptBounds
  <2> HIDE DEF last, dropped, x
  <2> QED BY <2>1
<1> HIDE DEF last, dropped
<1>4. /\ x \in Ops /\ x.pc = "insert"
      /\ x.todo > 0 /\ x.last = NewestSeq(chunks)
  BY <1>2, <1>3, IdleIsAnOp DEF Ops
<1> HIDE DEF x
<1> QED BY <1>1, <1>4, HandlerMoves

LEMMA CountKeeps ==
  ASSUME StoreInv, NEW h \in Handlers, CountRetained(h),
         UNCHANGED <<inserted, reviews, acks, reader>>
  PROVE  StoreInv' /\ Advances
<1> DEFINE n == Cardinality(chunks)
           x == [op[h] EXCEPT !.pc = "save", !.kept = n]
<1>1. op[h] \in Ops
  BY OpTypes DEF StoreInv
<1>2. op' = [op EXCEPT ![h] = x] /\ UNCHANGED <<chunks, meta>>
  BY <1>1 DEF CountRetained, StoreInv, TypeOK
<1>3. chunks # {}
  BY DEF CountRetained, StoreInv, AppendsContinue
<1>4. n \in Nat /\ n > 0
  <2>1. IsFiniteSet(chunks)
    BY DEF StoreInv, ChunksAreNumbered
  <2>2. n \in Nat /\ n # 0
    BY <1>3, <2>1, FS_CardinalityType, FS_EmptySet
  <2> QED BY <2>2
<1> HIDE DEF n
<1>5. x \in Ops /\ x.pc = "save" /\ x.kept > 0
  BY <1>1, <1>4 DEF Ops
<1> HIDE DEF x
<1> QED BY <1>2, <1>3, <1>5, HandlerMoves

LEMMA FailKeeps ==
  ASSUME StoreInv, NEW h \in Handlers, AppendFails(h),
         UNCHANGED <<inserted, reviews, acks, reader>>
  PROVE  StoreInv' /\ Advances
<1>1. op' = [op EXCEPT ![h] = Idle] /\ UNCHANGED <<chunks, meta>>
  BY DEF AppendFails
<1> QED BY <1>1, IdleIsAnOp, HandlerMoves

LEMMA SaveKeeps ==
  ASSUME StoreInv, NEW h \in Handlers, SaveTranscriptMeta(h),
         UNCHANGED <<inserted, reviews, acks, reader>>
  PROVE  StoreInv' /\ Advances
<1>1. op[h].pc = "save" /\ op' = [op EXCEPT ![h] = Idle] /\ UNCHANGED chunks
  BY DEF SaveTranscriptMeta
<1>2. /\ chunks # {} /\ op[h].kept > 0 /\ op[h].kept \in Nat
      /\ op[h].dropped \in Nat /\ op[h].last \in Nat
  BY <1>1, OpTypes DEF StoreInv, AppendsContinue
<1>3. meta' \in Metas /\ meta'.saved = TRUE /\ meta'.retained = op[h].kept
  BY <1>2 DEF SaveTranscriptMeta, Metas
<1>4. TypeOK'
  BY <1>1, <1>3, IdleIsAnOp DEF StoreInv, TypeOK
<1>5. RowIsNotEmpty'
  BY <1>1, <1>2, <1>3 DEF RowIsNotEmpty
<1>6. \A g \in Handlers : op'[g] = IF g = h THEN Idle ELSE op[g]
  BY <1>1 DEF StoreInv, TypeOK
<1>7. AppendsContinue'
  BY <1>1, <1>6, IdleIsAnOp DEF StoreInv, AppendsContinue
<1>8. ChunksAreNumbered'
  BY <1>1 DEF StoreInv, ChunksAreNumbered
<1>9. Advances
  BY <1>1, NewestIs DEF Advances
<1> QED BY <1>4, <1>5, <1>7, <1>8, <1>9 DEF StoreInv

LEMMA InsertKeeps ==
  ASSUME StoreInv, InsertsDoNotOverlap, NEW h \in Handlers, NEW source \in AnySource,
         InsertChunk(h, source, inserted), inserted' = inserted + 1,
         UNCHANGED <<reviews, acks, reader>>
  PROVE  /\ StoreInv' /\ Advances /\ NewestSeq(chunks') = NewestSeq(chunks) + 1
         /\ chunks' = chunks \cup {[id |-> inserted + 1, seq |-> NewestSeq(chunks) + 1,
                                   source |-> normalizeTranscriptSource(source)]}
         /\ normalizeTranscriptSource(source) \in Sources
<1> DEFINE s == normalizeTranscriptSource(source)
           top == NewestSeq(chunks)
           c == [id |-> inserted + 1, seq |-> top + 1, source |-> s]
           x == [op[h] EXCEPT !.todo = op[h].todo - 1, !.last = top + 1,
                              !.pc = IF op[h].todo = 1 THEN "prune" ELSE "insert"]
<1>1. s \in Sources
  BY TranscriptBounds DEF normalizeTranscriptSource
<1>2. /\ op[h].pc = "insert" /\ op[h].last = top /\ op[h].todo > 0
      /\ op[h] \in Ops /\ op[h].todo \in Nat
  BY OpTypes DEF InsertChunk, StoreInv, AppendsContinue
<1>3. /\ top \in 0..inserted /\ top \in Nat /\ inserted \in Nat
      /\ \A d \in chunks : d.seq <= top /\ d.seq \in 1..inserted /\ d.id <= inserted /\ d.id \in Nat
  BY NewestIs DEF StoreInv, TypeOK, ChunksAreNumbered, Chunks
<1>4. chunks' = chunks \cup {c} /\ UNCHANGED meta
  BY <1>2 DEF InsertChunk
<1>5. op' = [op EXCEPT ![h] = x]
  BY <1>2 DEF InsertChunk, StoreInv, TypeOK
<1>6. x \in Ops
  <2>1. op[h].todo - 1 \in Nat /\ top + 1 \in Nat
    BY <1>2, <1>3
  <2>2. (IF op[h].todo = 1 THEN "prune" ELSE "insert") \in {"idle", "insert", "prune", "count", "save"}
    OBVIOUS
  <2> HIDE DEF top
  <2> QED BY <1>2, <2>1, <2>2 DEF Ops
<1>7. /\ x.last = top + 1 /\ x.pc \in {"insert", "prune"}
      /\ x.pc = "insert" => x.todo > 0
  <2> HIDE DEF top
  <2> QED BY <1>2 DEF Ops
<1>8. c \in Chunks /\ c.seq = top + 1 /\ c.id = inserted + 1
  <2> HIDE DEF top, s
  <2> QED BY <1>1, <1>3 DEF Chunks
<1> HIDE DEF s, top, c, x
<1>9. TypeOK'
  <2>1. chunks' \in SUBSET Chunks
    BY <1>4, <1>8 DEF StoreInv, TypeOK
  <2> QED BY <1>3, <1>4, <1>5, <1>6, <2>1 DEF StoreInv, TypeOK
<1>10. \A d \in chunks' : d.seq \in 1..inserted' /\ d.id <= inserted' /\ d.seq <= c.seq
  BY <1>3, <1>4, <1>8
<1>11. NewestSeq(chunks') = top + 1
  <2>1. c \in chunks' /\ inserted' \in Nat
    BY <1>3, <1>4
  <2> QED BY <1>8, <1>10, <2>1, NewestSeqUnique
<1>12. ChunksAreNumbered'
  <2>1. IsFiniteSet(chunks')
    BY <1>4, FS_AddElement DEF StoreInv, ChunksAreNumbered
  <2>2. \A d \in chunks : d.seq # c.seq
    BY <1>3, <1>8
  <2>3. \A d, e \in chunks' : d.seq = e.seq => d = e
    BY <1>4, <2>2 DEF StoreInv, ChunksAreNumbered
  <2> QED BY <1>10, <2>1, <2>3 DEF ChunksAreNumbered
<1>13. RowIsNotEmpty'
  BY <1>4 DEF StoreInv, RowIsNotEmpty
<1>14. \A g \in Handlers : op'[g] = IF g = h THEN x ELSE op[g]
  BY <1>5 DEF StoreInv, TypeOK
<1>15. AppendsContinue'
  <2>1. \A g \in Handlers : g # h => op[g].pc # "insert"
    BY <1>2 DEF InsertsDoNotOverlap
  <2>2. chunks' # {}
    BY <1>4
  <2> QED BY <1>7, <1>11, <1>14, <2>1, <2>2 DEF StoreInv, AppendsContinue
<1>16. Advances
  BY <1>3, <1>4, <1>8, <1>11 DEF Advances, top
<1> QED BY <1>1, <1>4, <1>9, <1>11, <1>12, <1>13, <1>15, <1>16 DEF StoreInv, s, top, c

\* What a pruning leaves: the newest chunks, and never nothing of something.
LEMMA PruneIs ==
  ASSUME StoreInv, NEW K \in SUBSET chunks, PruneKeeps(K)
  PROVE  /\ IsFiniteSet(K) /\ NewestSeq(K) = NewestSeq(chunks)
         /\ chunks # {} => K # {}
         /\ Cardinality(chunks \ K) \in Nat
         /\ K # chunks => Cardinality(K) = Retention
<1>1. IsFiniteSet(chunks) /\ IsFiniteSet(K) /\ IsFiniteSet(chunks \ K)
  <2>1. chunks \ K \in SUBSET chunks /\ IsFiniteSet(chunks)
    BY DEF StoreInv, ChunksAreNumbered
  <2> QED BY <2>1, FS_Subset
<1>2. Cardinality(chunks) \in Nat /\ Cardinality(K) \in Nat /\ Cardinality(chunks \ K) \in Nat
  BY <1>1, FS_CardinalityType
<1>3. Cardinality(K) = IF Cardinality(chunks) < Retention THEN Cardinality(chunks) ELSE Retention
  BY DEF PruneKeeps
<1>4. chunks # {} => K # {}
  <2>1. chunks # {} => Cardinality(chunks) # 0
    BY <1>1, FS_EmptySet
  <2>2. K = {} => Cardinality(K) = 0
    BY FS_EmptySet
  <2> QED BY <1>2, <1>3, <2>1, <2>2, TranscriptBounds
<1>5. K # chunks => Cardinality(K) = Retention
  <2>1. Cardinality(chunks) = Cardinality(K) => chunks = K
    BY <1>1, FS_Subset
  <2> QED BY <1>3, <2>1
<1>6. NewestSeq(K) = NewestSeq(chunks)
  <2>1. CASE chunks = {}
    <3>1. K = chunks
      BY <2>1
    <3> QED BY <3>1
  <2>2. CASE chunks # {}
    <3>1. PICK c \in chunks : c.seq = NewestSeq(chunks)
      BY <2>2, NewestIs
    <3>2. inserted \in Nat /\ (\A d \in chunks : d.seq \in 1..inserted) /\ \A d \in K : d.seq \in 1..inserted
      BY DEF StoreInv, TypeOK, ChunksAreNumbered
    <3>3. \A d \in chunks : d.seq <= c.seq
      BY <3>1, NewestIs
    <3>4. \E k \in K : k.seq = c.seq
      <4>1. CASE c \in K
        BY <4>1
      <4>2. CASE c \notin K
        <5>1. PICK k \in K : TRUE
          BY <1>4, <2>2
        <5>2. k.seq >= c.seq /\ k.seq <= c.seq
          BY <3>3, <4>2 DEF PruneKeeps
        <5> QED BY <3>2, <5>2
      <4> QED BY <4>1, <4>2
    <3>5. PICK k \in K : k.seq = c.seq
      BY <3>4
    <3>6. \A d \in K : d.seq <= k.seq
      BY <3>3, <3>5
    <3>7. NewestSeq(K) = k.seq
      BY <3>2, <3>6, NewestSeqUnique
    <3> QED BY <3>1, <3>5, <3>7
  <2> QED BY <2>1, <2>2
<1> QED BY <1>1, <1>2, <1>4, <1>5, <1>6

LEMMA PruneKeepsInv ==
  ASSUME StoreInv, NEW h \in Handlers, PruneTranscript(h),
         UNCHANGED <<inserted, reviews, acks, reader>>
  PROVE  /\ StoreInv' /\ Advances
         /\ \E K \in SUBSET chunks : PruneKeeps(K) /\ chunks' = K
<1>1. PICK K \in SUBSET chunks :
        /\ PruneKeeps(K) /\ chunks' = K
        /\ op' = [op EXCEPT ![h].pc = "count", ![h].dropped = @ + Cardinality(chunks \ K)]
  BY DEF PruneTranscript
<1>2. op[h].pc = "prune" /\ UNCHANGED meta
  BY DEF PruneTranscript
<1>3. /\ IsFiniteSet(K) /\ NewestSeq(K) = NewestSeq(chunks) /\ (chunks # {} => K # {})
      /\ Cardinality(chunks \ K) \in Nat
  BY <1>1, PruneIs
<1> DEFINE n == Cardinality(chunks \ K)
           x == [op[h] EXCEPT !.pc = "count", !.dropped = op[h].dropped + n]
<1>4. op[h] \in Ops /\ op[h].dropped \in Nat
  BY OpTypes DEF StoreInv
<1>5. op' = [op EXCEPT ![h] = x]
  BY <1>1, <1>4 DEF StoreInv, TypeOK
<1> HIDE DEF n
<1>6. x \in Ops /\ x.pc = "count"
  <2>1. op[h].dropped + n \in Nat
    BY <1>3, <1>4 DEF n
  <2> QED BY <1>4, <2>1 DEF Ops
<1> HIDE DEF x
<1>7. TypeOK'
  BY <1>1, <1>2, <1>5, <1>6 DEF StoreInv, TypeOK
<1>8. ChunksAreNumbered'
  BY <1>1, <1>3 DEF StoreInv, ChunksAreNumbered
<1>9. RowIsNotEmpty'
  BY <1>1, <1>2, <1>3 DEF StoreInv, RowIsNotEmpty
<1>10. \A g \in Handlers : op'[g] = IF g = h THEN x ELSE op[g]
  BY <1>5 DEF StoreInv, TypeOK
<1>11. chunks # {}
  BY <1>2 DEF StoreInv, AppendsContinue
<1>12. AppendsContinue'
  BY <1>1, <1>3, <1>6, <1>10, <1>11 DEF StoreInv, AppendsContinue
<1>13. Advances
  BY <1>1, <1>3, NewestIs DEF Advances
<1> QED BY <1>1, <1>7, <1>8, <1>9, <1>12, <1>13 DEF StoreInv

LEMMA TranscribeKeeps ==
  ASSUME ReviewInv, InsertsDoNotOverlap, NEW h \in Handlers, Transcribe(h)
  PROVE  ReviewInv'
<1>1. StoreInv
  BY DEF ReviewInv
<1>2. UNCHANGED <<reviews, acks, reader>>
  BY DEF Transcribe, reviewVars
<1>3. StoreInv' /\ Advances
  <2>1. ASSUME NEW n \in 1..MaxBatch, AppendTranscript(h, n, inserted), UNCHANGED <<reviewVars, reader>>
        PROVE  StoreInv' /\ Advances
    BY <1>1, <2>1, AppendKeeps DEF reviewVars
  <2>2. ASSUME NEW source \in AnySource, InsertChunk(h, source, inserted), inserted' = inserted + 1
        PROVE  StoreInv' /\ Advances
    BY <1>1, <1>2, <2>2, InsertKeeps
  <2>3. CASE PruneTranscript(h) /\ UNCHANGED <<reviewVars, reader>>
    BY <1>1, <2>3, PruneKeepsInv DEF reviewVars
  <2>4. CASE CountRetained(h) /\ UNCHANGED <<reviewVars, reader>>
    BY <1>1, <2>4, CountKeeps DEF reviewVars
  <2>5. CASE SaveTranscriptMeta(h) /\ UNCHANGED <<reviewVars, reader>>
    BY <1>1, <2>5, SaveKeeps DEF reviewVars
  <2>6. CASE AppendFails(h) /\ UNCHANGED <<reviewVars, reader>>
    BY <1>1, <2>6, FailKeeps DEF reviewVars
  <2> QED BY <2>1, <2>2, <2>3, <2>4, <2>5, <2>6 DEF Transcribe
<1>4. EvidenceWasSeen'
  BY <1>2, <1>3, EvidenceLasts
<1> QED BY <1>3, <1>4 DEF ReviewInv

LEMMA AwayIsAReader == Away \in Readers /\ Away.pc = "away"
BY DEF Away, Readers, Scopes, AckClasses

LEMMA CrashKeeps ==
  ASSUME ReviewInv, Crash
  PROVE  ReviewInv'
<1>1. /\ op' = [h \in Handlers |-> Idle] /\ reader' = Away
      /\ UNCHANGED <<chunks, meta, inserted, reviews, acks>>
  BY DEF Crash, StoreCrash, reviewVars
<1>2. TypeOK'
  BY <1>1, IdleIsAnOp, AwayIsAReader DEF ReviewInv, StoreInv, TypeOK
<1>3. AppendsContinue'
  BY <1>1, IdleIsAnOp DEF AppendsContinue
<1>4. StoreInv'
  BY <1>1, <1>2, <1>3 DEF ReviewInv, StoreInv, ChunksAreNumbered, RowIsNotEmpty
<1>5. Advances
  BY <1>1, NewestIs DEF Advances, ReviewInv
<1> QED BY <1>1, <1>4, <1>5, EvidenceLasts DEF ReviewInv

-----------------------------------------------------------------------------
(* The steps of an operator leave the store alone.                             *)

LEMMA StoreAlone ==
  ASSUME StoreInv, UNCHANGED <<storeVars, inserted>>, TypeOK'
  PROVE  StoreInv'
BY DEF StoreInv, storeVars, ChunksAreNumbered, RowIsNotEmpty, AppendsContinue

\* Who looks now at the numbers up to the newest sees all that is retained.
LEMMA LookingSees ==
  ASSUME StoreInv, NEW upTo, upTo <= NewestSeq(chunks)
  PROVE  Saw(chunks, upTo, inserted)
BY DEF StoreInv, ChunksAreNumbered, Saw

LEMMA ReadKeeps ==
  ASSUME ReviewInv, NEW scope \in Scopes, ReadShellTranscript(scope)
  PROVE  ReviewInv'
<1> DEFINE C == OfSource(chunks, scope)
           upTo == NewestSeq(C)
<1>1. StoreInv /\ TypeOK /\ inserted \in Nat
  BY DEF ReviewInv, StoreInv, TypeOK
<1>2. \A c \in C : c \in chunks /\ c.seq \in 1..inserted
  BY <1>1 DEF OfSource, StoreInv, ChunksAreNumbered
<1>3. C # {} /\ UNCHANGED <<chunks, meta, op, inserted, reviews, acks>>
      /\ reader' = [Away EXCEPT !.pc = "looked", !.scope = scope, !.at = inserted, !.upTo = upTo]
  BY DEF ReadShellTranscript, storeVars, reviewVars
<1> HIDE DEF C
<1>4. upTo \in Nat /\ \E c \in C : c.seq = upTo
  <2>1. \A c \in C : c.seq \in 1..inserted
    BY <1>2
  <2>2. /\ NewestSeq(C) \in 0..inserted
        /\ C # {} => NewestSeq(C) > 0 /\ \E c \in C : c.seq = NewestSeq(C)
    BY <1>1, <2>1, NewestSeqIs
  <2>3. NewestSeq(C) \in Nat
    BY <1>1, <2>2
  <2> QED BY <1>3, <2>2, <2>3
<1> HIDE DEF upTo
<1>5. reader' \in Readers /\ reader'.pc = "looked" /\ reader'.upTo = upTo /\ reader'.at = inserted
  BY <1>1, <1>3, <1>4, AwayIsAReader DEF Readers
<1>6. upTo <= NewestSeq(chunks)
  BY <1>1, <1>2, <1>4, NewestIs
<1>7. Saw(chunks, upTo, inserted)
  BY <1>1, <1>6, LookingSees
<1>8. TypeOK'
  BY <1>1, <1>3, <1>5 DEF TypeOK
<1>9. StoreInv'
  BY <1>1, <1>3, <1>8, StoreAlone DEF storeVars
<1>10. EvidenceWasSeen'
  BY <1>3, <1>5, <1>7 DEF ReviewInv, EvidenceWasSeen
<1> QED BY <1>9, <1>10 DEF ReviewInv

LEMMA BeginReviewKeeps ==
  ASSUME ReviewInv, BeginTranscriptReview
  PROVE  ReviewInv'
<1> DEFINE newest == TranscriptSummary.newest
<1>1. StoreInv /\ TypeOK
  BY DEF ReviewInv, StoreInv
<1>2. reader.pc = "looked" /\ UNCHANGED <<chunks, meta, op, inserted, reviews, acks>>
      /\ reader' = [reader EXCEPT !.pc = "reviewing", !.newest = newest]
  BY DEF BeginTranscriptReview, storeVars, reviewVars
<1>3. newest \in Nat
  BY <1>1, SummaryIs, NewestIs
<1> HIDE DEF newest
<1>4. /\ reader' \in Readers /\ reader'.pc = "reviewing"
      /\ reader'.upTo = reader.upTo /\ reader'.at = reader.at
  BY <1>1, <1>2, <1>3 DEF TypeOK, Readers
<1>5. TypeOK'
  BY <1>1, <1>2, <1>4 DEF TypeOK
<1>6. StoreInv'
  BY <1>1, <1>2, <1>5, StoreAlone DEF storeVars
<1>7. EvidenceWasSeen'
  BY <1>2, <1>4 DEF ReviewInv, EvidenceWasSeen
<1> QED BY <1>6, <1>7 DEF ReviewInv

LEMMA BeginAckKeeps ==
  ASSUME ReviewInv, BeginGapAcknowledgment
  PROVE  ReviewInv'
<1> DEFINE newest == TranscriptSummary.newest
           class == AcknowledgmentClass[ReviewProgression]
<1>1. StoreInv /\ TypeOK /\ inserted \in Nat
  BY DEF ReviewInv, StoreInv, TypeOK
<1>2. UNCHANGED <<chunks, meta, op, inserted, reviews, acks>>
      /\ reader' = [Away EXCEPT !.pc = "acking", !.at = inserted, !.class = class, !.newest = newest]
  BY DEF BeginGapAcknowledgment, storeVars, reviewVars
<1>3. class \in AckClasses
  BY DEF BeginGapAcknowledgment, AcknowledgmentClass, AckClasses
<1>4. newest = NewestSeq(chunks) /\ newest \in Nat
  BY <1>1, SummaryIs, NewestIs
<1> HIDE DEF newest, class
<1>5. reader' \in Readers /\ reader'.pc = "acking" /\ reader'.newest = newest /\ reader'.at = inserted
  BY <1>1, <1>2, <1>3, <1>4, AwayIsAReader DEF Readers
<1>6. Saw(chunks, newest, inserted)
  BY <1>1, <1>4, LookingSees
<1>7. TypeOK'
  BY <1>1, <1>2, <1>5 DEF TypeOK
<1>8. StoreInv'
  BY <1>1, <1>2, <1>7, StoreAlone DEF storeVars
<1>9. EvidenceWasSeen'
  BY <1>2, <1>5, <1>6 DEF ReviewInv, EvidenceWasSeen
<1> QED BY <1>8, <1>9 DEF ReviewInv

LEMMA RecordReviewKeeps ==
  ASSUME ReviewInv, RecordShellTranscriptReview
  PROVE  ReviewInv'
<1> DEFINE r == [scope |-> reader.scope, upTo |-> reader.upTo, newest |-> reader.newest,
                 at |-> reader.at]
<1>1. StoreInv /\ TypeOK /\ reader \in Readers /\ reviews \in Seq(Reviews)
  BY DEF ReviewInv, StoreInv, TypeOK
<1>2. /\ reader.pc = "reviewing" /\ UNCHANGED <<chunks, meta, op, inserted, acks>>
      /\ reader' = Away /\ reviews' = Append(reviews, r)
  BY DEF RecordShellTranscriptReview, StoreReview, storeVars
<1>3. r \in Reviews /\ r.upTo = reader.upTo /\ r.at = reader.at
  BY <1>1 DEF Readers, Reviews
<1> HIDE DEF r
<1>4. reviews' \in Seq(Reviews) /\ Len(reviews') = Len(reviews) + 1 /\ Len(reviews) \in Nat
  BY <1>1, <1>2, <1>3
<1>5. \A i \in 1..Len(reviews') :
         reviews'[i] = IF i = Len(reviews) + 1 THEN r ELSE reviews[i]
  BY <1>1, <1>2, <1>3
<1>6. TypeOK'
  BY <1>1, <1>2, <1>4, AwayIsAReader DEF TypeOK
<1>7. StoreInv'
  BY <1>1, <1>2, <1>6, StoreAlone DEF storeVars
<1>8. \A i \in 1..Len(reviews') : Saw(chunks, reviews'[i].upTo, reviews'[i].at)
  <2> SUFFICES ASSUME NEW i \in 1..Len(reviews')
               PROVE  Saw(chunks, reviews'[i].upTo, reviews'[i].at)
    OBVIOUS
  <2>1. CASE i = Len(reviews) + 1
    BY <1>2, <1>3, <1>5, <2>1 DEF ReviewInv, EvidenceWasSeen
  <2>2. CASE i # Len(reviews) + 1
    <3>1. i \in 1..Len(reviews) /\ reviews'[i] = reviews[i]
      BY <1>4, <1>5, <2>2
    <3> QED BY <3>1 DEF ReviewInv, EvidenceWasSeen
  <2> QED BY <2>1, <2>2
<1>9. EvidenceWasSeen'
  BY <1>2, <1>8, AwayIsAReader DEF ReviewInv, EvidenceWasSeen
<1> QED BY <1>7, <1>9 DEF ReviewInv

LEMMA RecordAckKeeps ==
  ASSUME ReviewInv, RecordGapAcknowledgment
  PROVE  ReviewInv'
<1> DEFINE k == [class |-> reader.class, newest |-> reader.newest, at |-> reader.at]
<1>1. StoreInv /\ TypeOK /\ reader \in Readers
  BY DEF ReviewInv, StoreInv, TypeOK
<1>2. /\ reader.pc = "acking" /\ UNCHANGED <<chunks, meta, op, inserted, reviews>>
      /\ reader' = Away /\ acks' = acks \cup {k}
  BY DEF RecordGapAcknowledgment, storeVars
<1>3. k \in Acks /\ k.newest = reader.newest /\ k.at = reader.at
  BY <1>1 DEF Readers, Acks
<1> HIDE DEF k
<1>4. TypeOK'
  BY <1>1, <1>2, <1>3, AwayIsAReader DEF TypeOK
<1>5. StoreInv'
  BY <1>1, <1>2, <1>4, StoreAlone DEF storeVars
<1>6. EvidenceWasSeen'
  BY <1>2, <1>3, AwayIsAReader DEF ReviewInv, EvidenceWasSeen
<1> QED BY <1>5, <1>6 DEF ReviewInv

LEMMA LeaveKeeps ==
  ASSUME ReviewInv, RefuseTranscriptReview \/ LeaveTranscript
  PROVE  ReviewInv'
<1>1. reader' = Away /\ UNCHANGED <<chunks, meta, op, inserted, reviews, acks>>
  BY DEF RefuseTranscriptReview, LeaveTranscript, storeVars, reviewVars
<1>2. TypeOK'
  BY <1>1, AwayIsAReader DEF ReviewInv, StoreInv, TypeOK
<1>3. StoreInv'
  BY <1>1, <1>2, StoreAlone DEF storeVars, ReviewInv
<1>4. EvidenceWasSeen'
  BY <1>1, AwayIsAReader DEF ReviewInv, EvidenceWasSeen
<1> QED BY <1>3, <1>4 DEF ReviewInv

LEMMA InitReview == Init => ReviewInv
<1> SUFFICES ASSUME Init PROVE ReviewInv
  OBVIOUS
<1>1. /\ chunks = {} /\ meta = NoMeta /\ op = [h \in Handlers |-> Idle] /\ inserted = 0
      /\ reviews = <<>> /\ acks = {} /\ reader = Away
  BY DEF Init, StoreInit
<1>2. NoMeta \in Metas /\ NoMeta.saved = FALSE /\ NoMeta.last = 0
  BY DEF NoMeta, Metas
<1>3. TypeOK
  BY <1>1, <1>2, IdleIsAnOp, AwayIsAReader DEF TypeOK
<1>4. ChunksAreNumbered /\ RowIsNotEmpty
  BY <1>1, <1>2, FS_EmptySet DEF ChunksAreNumbered, RowIsNotEmpty
<1>5. AppendsContinue
  BY <1>1, IdleIsAnOp DEF AppendsContinue
<1>6. EvidenceWasSeen
  BY <1>1, AwayIsAReader DEF EvidenceWasSeen
<1> QED BY <1>3, <1>4, <1>5, <1>6 DEF ReviewInv, StoreInv

LEMMA NextReview == ReviewInv /\ InsertsDoNotOverlap /\ [Next]_vars => ReviewInv'
<1> SUFFICES ASSUME ReviewInv, InsertsDoNotOverlap, [Next]_vars PROVE ReviewInv'
  OBVIOUS
<1>1. ASSUME NEW h \in Handlers, Transcribe(h) PROVE ReviewInv'
  BY <1>1, TranscribeKeeps
<1>2. ASSUME NEW scope \in Scopes, ReadShellTranscript(scope) PROVE ReviewInv'
  BY <1>2, ReadKeeps
<1>3. CASE BeginTranscriptReview
  BY <1>3, BeginReviewKeeps
<1>4. CASE RecordShellTranscriptReview
  BY <1>4, RecordReviewKeeps
<1>5. CASE RefuseTranscriptReview \/ LeaveTranscript
  BY <1>5, LeaveKeeps
<1>6. CASE BeginGapAcknowledgment
  BY <1>6, BeginAckKeeps
<1>7. CASE RecordGapAcknowledgment
  BY <1>7, RecordAckKeeps
<1>8. CASE Crash
  BY <1>8, CrashKeeps
<1>9. CASE UNCHANGED vars
  BY <1>9 DEF vars, storeVars, ReviewInv, StoreInv, TypeOK, ChunksAreNumbered, RowIsNotEmpty,
              AppendsContinue, EvidenceWasSeen
<1> QED BY <1>1, <1>2, <1>3, <1>4, <1>5, <1>6, <1>7, <1>8, <1>9 DEF Next

\* Whatever fails, crashes or is pruned, and whenever the operator looks,
\* reports and acknowledges, the invariant holds as long as no two calls of
\* RecordShellTranscript insert at once.
THEOREM ReviewInvariance == Spec /\ []InsertsDoNotOverlap => []ReviewInv
<1>1. Init => ReviewInv
  BY InitReview
<1>2. ReviewInv /\ InsertsDoNotOverlap /\ [Next]_vars => ReviewInv'
  BY NextReview
<1> QED BY <1>1, <1>2, PTL DEF Spec

-----------------------------------------------------------------------------
(* What the reads tell the operator.                                           *)

\* The latest review, of a scope or of any, is one that was stored.
LEMMA LatestIsStored ==
  ASSUME TypeOK
  PROVE  /\ LatestReviewAnyScope # NoReview =>
               \E i \in 1..Len(reviews) : LatestReviewAnyScope = reviews[i]
         /\ \A filter \in Scopes : latestShellTranscriptReview(filter) # NoReview =>
               \E i \in 1..Len(reviews) : latestShellTranscriptReview(filter) = reviews[i]
<1>1. reviews \in Seq(Reviews) /\ Len(reviews) \in Nat
  BY DEF TypeOK
<1>2. LatestReviewAnyScope # NoReview =>
          \E i \in 1..Len(reviews) : LatestReviewAnyScope = reviews[i]
  <2> SUFFICES ASSUME LatestReviewAnyScope # NoReview
               PROVE  \E i \in 1..Len(reviews) : LatestReviewAnyScope = reviews[i]
    OBVIOUS
  <2>1. reviews # <<>> /\ LatestReviewAnyScope = reviews[Len(reviews)]
    BY DEF LatestReviewAnyScope
  <2>2. Len(reviews) \in 1..Len(reviews)
    BY <1>1, <2>1
  <2> QED BY <2>1, <2>2
<1>3. ASSUME NEW scope, LatestReviewOf(scope) # NoReview
      PROVE  \E i \in 1..Len(reviews) : LatestReviewOf(scope) = reviews[i]
  <2> DEFINE fit == {i \in 1..Len(reviews) : reviews[i].scope = scope}
             top == CHOOSE i \in fit : \A j \in fit : j <= i
  <2>1. fit # {} /\ LatestReviewOf(scope) = reviews[top]
    BY <1>3 DEF LatestReviewOf
  <2>2. \E i \in fit : \A j \in fit : j <= i
    <3> DEFINE D == {Len(reviews) - i : i \in fit}
    <3>1. D \subseteq Nat /\ D # {}
      <4>1. PICK i \in fit : TRUE
        BY <2>1
      <4>2. Len(reviews) - i \in D
        OBVIOUS
      <4> QED BY <1>1, <4>2
    <3>2. PICK m \in D : \A u \in D : m <= u
      <4> HIDE DEF D
      <4> QED BY <3>1, LeastNumber
    <3>3. PICK i \in fit : m = Len(reviews) - i
      OBVIOUS
    <3>4. \A j \in fit : Len(reviews) - i <= Len(reviews) - j
      BY <3>2, <3>3
    <3> QED BY <1>1, <3>4
  <2>3. top \in fit
    <3> HIDE DEF fit
    <3> QED BY <2>2
  <2> HIDE DEF top
  <2> QED BY <2>1, <2>3
<1>4. ASSUME NEW filter \in Scopes, latestShellTranscriptReview(filter) # NoReview
      PROVE  \E i \in 1..Len(reviews) : latestShellTranscriptReview(filter) = reviews[i]
  BY <1>2, <1>3, <1>4 DEF latestShellTranscriptReview
<1> QED BY <1>2, <1>4

\* What the number compared with a review bounds.
LEMMA ComparedNumberBounds ==
  ASSUME StoreInv, NEW review, NEW scope, NEW c \in OfSource(chunks, scope)
  PROVE  /\ NewestForScope(review, scope) \in Nat
         /\ c.seq <= NewestForScope(review, scope)
<1> DEFINE C == OfSource(chunks, scope)
<1>1. inserted \in Nat /\ \A d \in C : d \in chunks /\ d.seq \in 1..inserted
  BY DEF StoreInv, TypeOK, ChunksAreNumbered, OfSource
<1>2. c \in C
  OBVIOUS
<1> HIDE DEF C
<1>3. NewestSeq(C) \in Nat /\ NewestSeq(C) > 0 /\ c.seq <= NewestSeq(C)
  BY <1>1, <1>2, NewestSeqIs
<1>4. NewestSeq(chunks) \in Nat /\ NewestSeq(chunks) > 0 /\ c.seq <= NewestSeq(chunks)
  BY <1>1, <1>2, NewestIs
<1>5. TranscriptSummary.newest = NewestSeq(chunks)
  BY SummaryIs
<1>6. NewestForScope(review, scope) \in {NewestSeq(C), NewestSeq(chunks)}
  BY <1>3, <1>4, <1>5 DEF NewestForScope, C
<1> QED BY <1>3, <1>4, <1>6

LEMMA CurrentReviewSaw ==
  ASSUME ReviewInv
  PROVE  CurrentMeansSeen
<1> SUFFICES ASSUME NEW filter \in Scopes,
                    deriveTranscriptReviewClosure(filter) \in
                        {"global_current", "source_scoped_current"},
                    NEW c \in OfSource(chunks, EffectiveScope(latestShellTranscriptReview(filter), filter))
             PROVE  c.id <= latestShellTranscriptReview(filter).at
  BY DEF CurrentMeansSeen
<1> DEFINE review == latestShellTranscriptReview(filter)
           scope == EffectiveScope(review, filter)
<1>1. review # NoReview /\ ~(NewestForScope(review, scope) > review.upTo)
  BY DEF deriveTranscriptReviewClosure
<1>2. StoreInv /\ TypeOK
  BY DEF ReviewInv, StoreInv
<1>3. PICK i \in 1..Len(reviews) : review = reviews[i]
  BY <1>1, <1>2, LatestIsStored
<1>4. Saw(chunks, review.upTo, review.at)
  BY <1>3 DEF ReviewInv, EvidenceWasSeen
<1>5. review.upTo \in Nat
  BY <1>2, <1>3, EvidenceTypes
<1>6. c \in OfSource(chunks, scope)
  OBVIOUS
<1> HIDE DEF review, scope
<1>7. NewestForScope(review, scope) \in Nat /\ c.seq <= NewestForScope(review, scope)
  BY <1>2, <1>6, ComparedNumberBounds
<1>8. c \in chunks /\ c.seq \in Nat
  <2>1. c \in chunks
    BY <1>6 DEF OfSource
  <2> QED BY <1>2, <2>1 DEF StoreInv, ChunksAreNumbered
<1>9. c.seq <= review.upTo
  BY <1>1, <1>5, <1>7, <1>8
<1>10. c.id <= review.at
  BY <1>4, <1>8, <1>9 DEF Saw
<1> QED BY <1>10 DEF review

LEMMA ProgressionTells ==
  ASSUME ReviewInv
  PROVE  ProgressionIsHonest
<1> DEFINE review == LatestReviewAnyScope
<1>1. StoreInv /\ TypeOK
  BY DEF ReviewInv, StoreInv
<1>2. ReviewProgression = "no_retained_evidence" => chunks = {}
  <2> SUFFICES ASSUME ReviewProgression = "no_retained_evidence" PROVE chunks = {}
    OBVIOUS
  <2>1. TranscriptSummary.retained = 0
    BY DEF ReviewProgression
  <2> QED BY <1>1, <2>1, SummaryIs
<1>3. ASSUME ReviewProgression = "global_review_current", NEW c \in chunks
      PROVE  c.id <= review.at
  <2>1. review # NoReview /\ ~(TranscriptSummary.newest > review.upTo)
    BY <1>3 DEF ReviewProgression
  <2>2. PICK i \in 1..Len(reviews) : review = reviews[i]
    BY <1>1, <2>1, LatestIsStored
  <2>3. Saw(chunks, review.upTo, review.at)
    BY <2>2 DEF ReviewInv, EvidenceWasSeen
  <2>4. review.upTo \in Nat
    BY <1>1, <2>2, EvidenceTypes
  <2>5. TranscriptSummary.newest = NewestSeq(chunks) /\ NewestSeq(chunks) \in Nat
        /\ c.seq <= NewestSeq(chunks) /\ c.seq \in Nat
    BY <1>1, SummaryIs, NewestIs DEF StoreInv, ChunksAreNumbered
  <2> HIDE DEF review
  <2>6. c.seq <= review.upTo
    BY <2>1, <2>4, <2>5
  <2> QED BY <2>3, <2>6 DEF Saw
<1> QED BY <1>2, <1>3 DEF ProgressionIsHonest

LEMMA FreshAckSaw ==
  ASSUME ReviewInv
  PROVE  FreshAckSawAll
<1> SUFFICES ASSUME NEW ack \in acks, ~StaleBehindCurrent(ack), NEW c \in chunks
             PROVE  c.id <= ack.at
  BY DEF FreshAckSawAll
<1>1. StoreInv /\ TypeOK /\ Saw(chunks, ack.newest, ack.at)
  BY DEF ReviewInv, StoreInv, EvidenceWasSeen
<1>2. TranscriptSummary.newest = NewestSeq(chunks) /\ NewestSeq(chunks) \in Nat
      /\ c.seq <= NewestSeq(chunks) /\ c.seq \in Nat
  BY <1>1, SummaryIs, NewestIs DEF StoreInv, ChunksAreNumbered
<1>3. ack.newest \in Nat /\ ~(TranscriptSummary.newest > ack.newest)
  BY <1>1, EvidenceTypes DEF StaleBehindCurrent
<1>4. c.seq <= ack.newest
  BY <1>2, <1>3
<1> QED BY <1>1, <1>4 DEF Saw

\* A transcript that deriveTranscriptReviewClosure calls current, in any
\* filter, holds nothing of the scope that the reviewer could not have seen.
THEOREM CurrentReviewsAreCurrent ==
  Spec /\ []InsertsDoNotOverlap => []CurrentMeansSeen
<1>1. ReviewInv => CurrentMeansSeen
  BY CurrentReviewSaw
<1> QED BY <1>1, ReviewInvariance, PTL

\* The progression every surface shows says there is no evidence only if there
\* is none, and that the session is reviewed only if all of it was seen.
THEOREM ProgressionTellsTheTruth ==
  Spec /\ []InsertsDoNotOverlap => []ProgressionIsHonest
<1>1. ReviewInv => ProgressionIsHonest
  BY ProgressionTells
<1> QED BY <1>1, ReviewInvariance, PTL

\* An acknowledgment that is not behind the evidence was given with all of it
\* in view, although the evidence is read before the acknowledgment is stored.
THEOREM FreshAcknowledgmentsSawAll ==
  Spec /\ []InsertsDoNotOverlap => []FreshAckSawAll
<1>1. ReviewInv => FreshAckSawAll
  BY FreshAckSaw
<1> QED BY <1>1, ReviewInvariance, PTL

-----------------------------------------------------------------------------
(* The store implements the bounded log.                                       *)

Entry(c) == [seq |-> c.seq, source |-> c.source]
Entries(C) == {Entry(c) : c \in C}

LogStep ==
  \/ Entries(chunks') = Entries(chunks) /\ NewestSeq(chunks') = NewestSeq(chunks)
  \/ /\ NewestSeq(chunks') = NewestSeq(chunks) + 1
     /\ \E s \in Sources :
          Entries(chunks') = Entries(chunks) \cup {[seq |-> NewestSeq(chunks) + 1, source |-> s]}
  \/ /\ NewestSeq(chunks') = NewestSeq(chunks)
     /\ Entries(chunks') # Entries(chunks) /\ Cardinality(Entries(chunks')) >= Retention
     /\ \E first \in 1..NewestSeq(chunks) :
          Entries(chunks') = {e \in Entries(chunks) : e.seq >= first}

\* Chunks with numbers of their own make as many entries.
LEMMA EntriesCount ==
  ASSUME NEW C, IsFiniteSet(C), \A c, d \in C : c.seq = d.seq => c = d
  PROVE  Cardinality(Entries(C)) = Cardinality(C)
<1> DEFINE f == [c \in C |-> Entry(c)]
<1>1. \A c, d \in C : Entry(c) = Entry(d) => c = d
  BY DEF Entry
<1>2. f \in Bijection(C, Entries(C))
  <2>1. f \in [C -> Entries(C)]
    BY DEF Entries
  <2>2. \A e \in Entries(C) : \E c \in C : f[c] = e
    BY DEF Entries
  <2>3. \A c, d \in C : f[c] = f[d] => c = d
    BY <1>1
  <2> HIDE DEF f
  <2> QED BY <2>1, <2>2, <2>3 DEF Bijection, Injection, Surjection, IsInjective
<1>3. ExistsBijection(C, Entries(C))
  BY <1>2 DEF ExistsBijection
<1> QED BY <1>3, FS_Bijection

\* Pruning cuts the numbers at one point: the first number it keeps.
LEMMA PruneTrims ==
  ASSUME StoreInv, NEW K \in SUBSET chunks, PruneKeeps(K), chunks' = K
  PROVE  LogStep
<1>1. /\ IsFiniteSet(K) /\ NewestSeq(K) = NewestSeq(chunks) /\ (chunks # {} => K # {})
      /\ (K # chunks => Cardinality(K) = Retention)
  BY PruneIs
<1>2. CASE K = chunks
  BY <1>2 DEF LogStep
<1>3. CASE K # chunks
  <2>1. PICK d \in chunks : d \notin K
    BY <1>3
  <2>2. inserted \in Nat /\ (\A c \in chunks : c.seq \in 1..inserted)
        /\ \A c, e \in chunks : c.seq = e.seq => c = e
    BY DEF StoreInv, TypeOK, ChunksAreNumbered
  <2> DEFINE T == {c.seq : c \in K}
  <2>3. T \subseteq Nat /\ T # {}
    <3>1. K # {}
      BY <1>1, <2>1
    <3> QED BY <2>2, <3>1
  <2>4. PICK first \in T : \A t \in T : first <= t
    <3> HIDE DEF T
    <3> QED BY <2>3, LeastNumber
  <2>5. PICK k \in K : first = k.seq
    OBVIOUS
  <2>6. \A c \in K : first <= c.seq
    BY <2>4
  <2> HIDE DEF T
  <2>7. \A c \in chunks : c.seq >= first <=> c \in K
    <3> SUFFICES ASSUME NEW c \in chunks, c \notin K PROVE ~(c.seq >= first)
      BY <2>6, <2>2, <2>5
    <3>1. first >= c.seq
      BY <2>5 DEF PruneKeeps
    <3>2. first # c.seq
      BY <2>2, <2>5
    <3> QED BY <2>2, <2>5, <3>1, <3>2
  <2>8. Entries(K) = {e \in Entries(chunks) : e.seq >= first}
    <3>1. \A c : Entry(c).seq = c.seq
      BY DEF Entry
    <3> QED BY <2>7, <3>1 DEF Entries
  <2>9. Entries(K) # Entries(chunks)
    <3>1. Entry(d) \in Entries(chunks) /\ Entry(d).seq = d.seq
      BY DEF Entries, Entry
    <3>2. ~(d.seq >= first)
      BY <2>1, <2>7
    <3> QED BY <2>8, <3>1, <3>2
  <2>10. first \in 1..NewestSeq(chunks)
    <3>1. k.seq <= NewestSeq(chunks) /\ NewestSeq(chunks) \in Nat
      BY <2>5, NewestIs
    <3> QED BY <2>2, <2>5, <3>1
  <2>11. Cardinality(Entries(K)) >= Retention
    <3>1. Cardinality(Entries(K)) = Cardinality(K)
      BY <1>1, <2>2, EntriesCount
    <3>2. Retention \in Nat
      BY TranscriptBounds
    <3> QED BY <1>1, <1>3, <3>1, <3>2
  <2> QED BY <1>1, <2>8, <2>9, <2>10, <2>11 DEF LogStep
<1> QED BY <1>2, <1>3

LEMMA StepIsLogStep ==
  ASSUME ReviewInv, InsertsDoNotOverlap, [Next]_vars
  PROVE  LogStep
<1>1. StoreInv
  BY DEF ReviewInv
<1>2. ASSUME NEW h \in Handlers, Transcribe(h) PROVE LogStep
  <2>1. UNCHANGED <<reviews, acks, reader>>
    BY <1>2 DEF Transcribe, reviewVars
  <2>2. ASSUME NEW source \in AnySource, InsertChunk(h, source, inserted), inserted' = inserted + 1
        PROVE  LogStep
    <3> DEFINE s == normalizeTranscriptSource(source)
               x == [id |-> inserted + 1, seq |-> NewestSeq(chunks) + 1, source |-> s]
    <3>1. /\ NewestSeq(chunks') = NewestSeq(chunks) + 1 /\ chunks' = chunks \cup {x}
          /\ s \in Sources
      BY <1>1, <2>1, <2>2, InsertKeeps
    <3>2. Entry(x) = [seq |-> NewestSeq(chunks) + 1, source |-> s]
      BY DEF Entry
    <3> HIDE DEF s, x
    <3>3. Entries(chunks') = Entries(chunks) \cup {Entry(x)}
      BY <3>1 DEF Entries
    <3> QED BY <3>1, <3>2, <3>3 DEF LogStep
  <2>3. CASE PruneTranscript(h)
    <3>1. PICK K \in SUBSET chunks : PruneKeeps(K) /\ chunks' = K
      BY <2>3 DEF PruneTranscript
    <3> QED BY <1>1, <3>1, PruneTrims
  <2>4. CASE UNCHANGED chunks
    BY <2>4 DEF LogStep
  <2> QED BY <1>2, <2>2, <2>3, <2>4 DEF Transcribe, AppendTranscript, CountRetained,
                                      SaveTranscriptMeta, AppendFails
<1>3. CASE UNCHANGED chunks
  BY <1>3 DEF LogStep
<1>4. \/ \E h \in Handlers : Transcribe(h)
      \/ UNCHANGED chunks
  BY DEF Next, ReadShellTranscript, BeginTranscriptReview, RecordShellTranscriptReview,
         RefuseTranscriptReview, BeginGapAcknowledgment, RecordGapAcknowledgment,
         LeaveTranscript, Crash, StoreCrash, storeVars, vars
<1> QED BY <1>2, <1>3, <1>4

\* The log counts its entries as this module counts.
LEMMA LogCounts ==
  ASSUME NEW S
  PROVE  Log!Cardinality(S) = Cardinality(S)
BY DEF Log!Cardinality, Cardinality

LEMMA LogStepRefines == LogStep => [Log!LogNext]_Log!logVars
<1> SUFFICES ASSUME LogStep PROVE [Log!LogNext]_Log!logVars
  OBVIOUS
<1> USE DEF Log!LogNext, Log!logVars, Entries, Entry
<1>1. CASE Entries(chunks') = Entries(chunks) /\ NewestSeq(chunks') = NewestSeq(chunks)
  BY <1>1
<1>2. ASSUME NewestSeq(chunks') = NewestSeq(chunks) + 1, NEW s \in Sources,
             Entries(chunks') = Entries(chunks) \cup {[seq |-> NewestSeq(chunks) + 1, source |-> s]}
      PROVE  Log!LogNext
  BY <1>2 DEF Log!Put
<1>3. ASSUME NewestSeq(chunks') = NewestSeq(chunks), Entries(chunks') # Entries(chunks),
             Cardinality(Entries(chunks')) >= Retention, NEW first \in 1..NewestSeq(chunks),
             Entries(chunks') = {e \in Entries(chunks) : e.seq >= first}
      PROVE  Log!LogNext
  <2> DEFINE old == {[seq |-> c.seq, source |-> c.source] : c \in chunks}
             new == {[seq |-> c.seq, source |-> c.source] : c \in chunks'}
  <2>1. old = Entries(chunks) /\ new = Entries(chunks')
    OBVIOUS
  <2>2. new = {e \in old : e.seq >= first} /\ new # old /\ Cardinality(new) >= Retention
    <3> HIDE DEF old, new, Entries
    <3> QED BY <1>3, <2>1
  <2>3. Log!Trim <=>
          /\ \E f \in 1..NewestSeq(chunks) :
               new = {e \in old : e.seq >= f} /\ new # old /\ Cardinality(new) >= Retention
          /\ NewestSeq(chunks') = NewestSeq(chunks)
    BY LogCounts DEF Log!Trim
  <2> HIDE DEF old, new
  <2>4. Log!Trim
    BY <1>3, <2>2, <2>3
  <2> QED BY <2>4
<1> QED BY <1>1, <1>2, <1>3 DEF LogStep

\* The rows RecordShellTranscript inserts and prunes, statement by statement,
\* are the bounded log the registry in memory keeps under its mutex: numbered
\* without gap or repetition, only the oldest dropped, never below retention.
THEOREM StoreIsABoundedLog ==
  Spec /\ []InsertsDoNotOverlap => ImplementsBoundedLog
<1>1. Init => Log!LogInit
  BY DEF Init, StoreInit, Log!LogInit, NewestSeq
<1>2. ReviewInv /\ InsertsDoNotOverlap /\ [Next]_vars => [Log!LogNext]_Log!logVars
  BY StepIsLogStep, LogStepRefines
<1> QED BY <1>1, <1>2, ReviewInvariance, PTL DEF Spec, ImplementsBoundedLog, Log!LogSpec

-----------------------------------------------------------------------------
(* RegistryParity: sets put in an order.                                        *)

\* A relation that puts no element before itself, and is transitive.
Orders(S, R) ==
  /\ \A x \in S : <<x, x>> \notin R
  /\ \A x, y, z \in S : <<x, y>> \in R /\ <<y, z>> \in R => <<x, z>> \in R

\* Every element once, none after one it is before.
Arranged(f, S, R) ==
  /\ f \in [1..Cardinality(S) -> S]
  /\ \A i, j \in 1..Cardinality(S) : i < j => f[i] # f[j] /\ <<f[j], f[i]>> \notin R

\* Some element has none before it.
LEMMA FirstExists ==
  ASSUME NEW S, IsFiniteSet(S), S # {}, NEW R, Orders(S, R)
  PROVE  \E x \in S : \A y \in S : <<y, x>> \notin R
<1> DEFINE Below(x) == {y \in S : <<y, x>> \in R}
           Ranks == {Cardinality(Below(x)) : x \in S}
<1>1. \A x \in S : IsFiniteSet(Below(x)) /\ Cardinality(Below(x)) \in Nat
  BY FS_Subset, FS_CardinalityType
<1>2. PICK m \in Ranks : \A u \in Ranks : m <= u
  <2>1. Ranks \subseteq Nat /\ Ranks # {}
    BY <1>1
  <2> HIDE DEF Ranks
  <2> QED BY <2>1, LeastNumber
<1>3. PICK x \in S : m = Cardinality(Below(x))
  OBVIOUS
<1>4. ASSUME NEW y \in S, <<y, x>> \in R
      PROVE  FALSE
  <2>1. Below(y) \subseteq Below(x) /\ y \in Below(x) /\ y \notin Below(y)
    BY <1>4 DEF Orders
  <2>2. Cardinality(Below(y)) <= Cardinality(Below(x)) /\ Cardinality(Below(y)) # Cardinality(Below(x))
    <3> HIDE DEF Below
    <3> QED BY <1>1, <2>1, FS_Subset
  <2>3. Cardinality(Below(x)) <= Cardinality(Below(y))
    BY <1>2, <1>3
  <2> QED
    <3> HIDE DEF Below
    <3> QED BY <1>1, <2>2, <2>3
<1> QED BY <1>4

\* A set with its first element put in front is arranged if the rest is.
LEMMA PutFirst ==
  ASSUME NEW S, IsFiniteSet(S), NEW R, NEW x \in S, \A y \in S : <<y, x>> \notin R,
         NEW g, Arranged(g, S \ {x}, R)
  PROVE  \E f : Arranged(f, S, R)
<1> DEFINE n == Cardinality(S)
           f == [i \in 1..n |-> IF i = 1 THEN x ELSE g[i - 1]]
<1>1. n \in Nat /\ Cardinality(S \ {x}) = n - 1 /\ n # 0
  BY FS_RemoveElement, FS_CardinalityType, FS_EmptySet
<1>2. /\ g \in [1..(n - 1) -> S \ {x}]
      /\ \A i, j \in 1..(n - 1) : i < j => g[i] # g[j] /\ <<g[j], g[i]>> \notin R
  BY <1>1 DEF Arranged
<1> HIDE DEF n
<1>3. \A i \in 1..n : i # 1 => i - 1 \in 1..(n - 1) /\ g[i - 1] \in S \ {x}
  BY <1>1, <1>2
<1>4. f \in [1..n -> S]
  BY <1>3
<1>5. ASSUME NEW i \in 1..n, NEW j \in 1..n, i < j
      PROVE  f[i] # f[j] /\ <<f[j], f[i]>> \notin R
  <2>1. j # 1 /\ f[j] = g[j - 1] /\ j - 1 \in 1..(n - 1) /\ f[j] \in S \ {x}
    BY <1>3, <1>5
  <2>2. CASE i = 1
    BY <2>1, <2>2
  <2>3. CASE i # 1
    <3>1. f[i] = g[i - 1] /\ i - 1 \in 1..(n - 1) /\ i - 1 < j - 1
      BY <1>3, <1>5, <2>3
    <3> HIDE DEF f
    <3> QED BY <1>2, <2>1, <3>1
  <2> QED BY <2>2, <2>3
<1> HIDE DEF f
<1>6. Arranged(f, S, R)
  BY <1>4, <1>5 DEF Arranged, n
<1> QED BY <1>6

\* Every finite set can be arranged.
LEMMA ArrangementExists ==
  ASSUME NEW S, IsFiniteSet(S), NEW R, Orders(S, R)
  PROVE  \E f : Arranged(f, S, R)
<1> SUFFICES ASSUME ~\E f : Arranged(f, S, R)
             PROVE  FALSE
  OBVIOUS
<1> DEFINE Bad == {T \in SUBSET S : ~\E f : Arranged(f, T, R)}
           Sizes == {Cardinality(T) : T \in Bad}
<1>1. \A T \in SUBSET S : IsFiniteSet(T) /\ Cardinality(T) \in Nat /\ Orders(T, R)
  BY FS_Subset, FS_CardinalityType DEF Orders
<1>2. Sizes \subseteq Nat /\ Sizes # {}
  <2>1. Bad \subseteq SUBSET S /\ S \in Bad
    OBVIOUS
  <2> HIDE DEF Bad
  <2> QED BY <1>1, <2>1
<1>3. PICK n \in Sizes : \A m \in Sizes : n <= m
  <2> HIDE DEF Sizes
  <2> QED BY <1>2, LeastNumber
<1>4. PICK T \in Bad : n = Cardinality(T)
  BY <1>3
<1>5. CASE T = {}
  <2>1. Cardinality(T) = 0
    BY <1>5, FS_EmptySet
  <2>2. Arranged([i \in 1..Cardinality(T) |-> 0], T, R)
    BY <2>1 DEF Arranged
  <2> QED BY <1>4, <2>2
<1>6. CASE T # {}
  <2>1. PICK x \in T : \A y \in T : <<y, x>> \notin R
    BY <1>1, <1>4, <1>6, FirstExists
  <2>2. T \ {x} \in SUBSET S /\ Cardinality(T \ {x}) = Cardinality(T) - 1
    BY <1>1, <1>4, <2>1, FS_RemoveElement
  <2>3. ~(Cardinality(T) <= Cardinality(T \ {x}))
    BY <1>1, <1>4, <2>2
  <2>4. T \ {x} \notin Bad
    <3>1. T \ {x} \in Bad => Cardinality(T \ {x}) \in Sizes
      OBVIOUS
    <3> QED BY <1>3, <1>4, <2>3, <3>1
  <2>5. PICK g : Arranged(g, T \ {x}, R)
    BY <2>2, <2>4
  <2>6. \E f : Arranged(f, T, R)
    BY <1>1, <1>4, <2>1, <2>5, PutFirst
  <2> QED BY <1>4, <2>6
<1> QED BY <1>5, <1>6

\* The numbers up to one are as many.
LEMMA FirstNumbersCount ==
  ASSUME NEW n \in Nat
  PROVE  IsFiniteSet(1..n) /\ Cardinality(1..n) = n
<1>1. 1 \in Int /\ n \in Int /\ (IF 1 > n THEN 0 ELSE n - 1 + 1) = n
  OBVIOUS
<1>2. IsFiniteSet(1..n) /\ Cardinality(1..n) = IF 1 > n THEN 0 ELSE n - 1 + 1
  BY <1>1, FS_Interval
<1> QED BY <1>1, <1>2

\* An arrangement leaves nothing out.
LEMMA ArrangedIsOnto ==
  ASSUME NEW S, IsFiniteSet(S), NEW R, NEW f, Arranged(f, S, R)
  PROVE  \A x \in S : \E i \in 1..Cardinality(S) : f[i] = x
<1> DEFINE n == Cardinality(S)
<1>1. n \in Nat /\ IsFiniteSet(1..n) /\ Cardinality(1..n) = n
  BY FS_CardinalityType, FirstNumbersCount
<1>2. f \in [1..n -> S] /\ \A i, j \in 1..n : i < j => f[i] # f[j]
  BY DEF Arranged
<1> HIDE DEF n
<1>3. \A i, j \in 1..n : f[i] = f[j] => i = j
  BY <1>1, <1>2
<1>4. f \in Injection(1..n, S)
  BY <1>2, <1>3 DEF Injection, IsInjective
<1>5. f \in Surjection(1..n, S)
  BY <1>1, <1>4, FS_Injection DEF n
<1> QED BY <1>5 DEF Surjection, n

\* All of a set, by ascending numbers.
Ascending(f, n, E) ==
  /\ f \in [1..n -> E]
  /\ \A i, j \in 1..n : i < j => f[i].seq < f[j].seq
  /\ \A e \in E : \E i \in 1..n : f[i] = e

\* Two enumerations that differ first differ somewhere.
LEMMA FirstDifference ==
  ASSUME NEW n \in Nat, NEW E, NEW f, NEW g, Ascending(f, n, E), Ascending(g, n, E), f # g
  PROVE  \E i \in 1..n : f[i] # g[i] /\ \A k \in 1..n : k < i => f[k] = g[k]
<1> DEFINE D == {i \in 1..n : f[i] # g[i]}
<1>1. D \subseteq Nat /\ D # {}
  <2>1. (\A i \in 1..n : f[i] = g[i]) => f = g
    BY DEF Ascending
  <2>2. PICK i \in 1..n : f[i] # g[i]
    BY <2>1
  <2>3. i \in D
    BY <2>2
  <2>4. \A k \in D : k \in 1..n
    OBVIOUS
  <2> HIDE DEF D
  <2> QED BY <2>3, <2>4
<1>2. PICK i \in D : \A k \in D : i <= k
  <2> HIDE DEF D
  <2> QED BY <1>1, LeastNumber
<1> QED BY <1>2

\* Where one enumeration differs from another for the first time, it has the
\* smaller number.
LEMMA SmallerComesFirst ==
  ASSUME NEW n \in Nat, NEW E, NEW f, NEW g, Ascending(f, n, E), Ascending(g, n, E),
         NEW i \in 1..n, f[i] # g[i], \A k \in 1..n : k < i => f[k] = g[k],
         \A e \in E : e.seq \in Nat
  PROVE  g[i].seq < f[i].seq
<1>1. PICK j \in 1..n : g[j] = f[i]
  BY DEF Ascending
<1>2. j # i
  BY <1>1
<1>3. ASSUME j < i
      PROVE  FALSE
  <2>1. f[j].seq < f[i].seq /\ f[j] = f[i]
    BY <1>1, <1>3 DEF Ascending
  <2>2. f[i].seq \in Nat
    BY DEF Ascending
  <2> DEFINE a == f[i].seq
  <2>3. a \in Nat /\ a < a
    BY <2>1, <2>2
  <2> HIDE DEF a
  <2> QED BY <2>3
<1>4. i < j
  BY <1>2, <1>3
<1> QED BY <1>1, <1>4 DEF Ascending

\* There is one way to put a set in the order of its numbers.
LEMMA AscendingIsUnique ==
  ASSUME NEW n \in Nat, NEW E, NEW f, NEW g, Ascending(f, n, E), Ascending(g, n, E),
         \A e \in E : e.seq \in Nat
  PROVE  f = g
<1> SUFFICES ASSUME f # g
             PROVE  FALSE
  OBVIOUS
<1>1. f \in [1..n -> E] /\ g \in [1..n -> E]
  BY DEF Ascending
<1>2. PICK i \in 1..n : f[i] # g[i] /\ \A k \in 1..n : k < i => f[k] = g[k]
  BY FirstDifference
<1>3. g[i].seq < f[i].seq
  BY <1>2, SmallerComesFirst
<1>4. f[i].seq < g[i].seq
  BY <1>2, SmallerComesFirst
<1> DEFINE a == f[i].seq
           b == g[i].seq
<1>5. a \in Nat /\ b \in Nat /\ a < b /\ b < a
  BY <1>1, <1>2, <1>3, <1>4
<1> HIDE DEF a, b
<1> QED BY <1>5

-----------------------------------------------------------------------------
(* TimestampText: what a place counts, and the order of the texts.              *)

\* The places up to one of them.
PlacesTo(g, n) ==
  /\ g \in [0..n -> Nat] /\ g[0] = 1
  /\ \A k \in 1..n : g[k] = Base * g[k - 1]

\* They can be listed up to any place.
LEMMA PlacesExist ==
  ASSUME NEW n \in Nat
  PROVE  \E g : PlacesTo(g, n)
<1> SUFFICES ASSUME ~\E g : PlacesTo(g, n)
             PROVE  FALSE
  OBVIOUS
<1> DEFINE Bad == {m \in Nat : ~\E g : PlacesTo(g, m)}
<1>1. PICK m \in Bad : \A k \in Bad : m <= k
  <2>1. Bad \subseteq Nat /\ n \in Bad
    OBVIOUS
  <2> HIDE DEF Bad
  <2> QED BY <2>1, LeastNumber
<1>2. CASE m = 0
  <2>1. PlacesTo([i \in 0..0 |-> 1], 0)
    BY DEF PlacesTo
  <2> QED BY <1>1, <1>2, <2>1
<1>3. CASE m # 0
  <2>1. m - 1 \in Nat /\ m \in Nat /\ m - 1 \notin Bad
    BY <1>1, <1>3
  <2>2. PICK g : PlacesTo(g, m - 1)
    BY <2>1
  <2> DEFINE f == [i \in 0..m |-> IF i = m THEN Base * g[m - 1] ELSE g[i]]
  <2>3. \A i \in 0..m : i # m => i \in 0..(m - 1) /\ g[i] \in Nat
    BY <2>1, <2>2 DEF PlacesTo
  <2>4. Base * g[m - 1] \in Nat /\ m - 1 \in 0..m /\ m - 1 # m
    BY <2>1, <2>3, TimestampBounds
  <2>5. f \in [0..m -> Nat]
    BY <2>3, <2>4
  <2>6. f[0] = 1 /\ f[m] = Base * f[m - 1]
    BY <1>3, <2>1, <2>2, <2>4 DEF PlacesTo
  <2>7. ASSUME NEW k \in 1..m, k # m
        PROVE  f[k] = Base * f[k - 1]
    <3>1. k \in 1..(m - 1) /\ k \in 0..m /\ k - 1 \in 0..m /\ k - 1 # m
      BY <2>1, <2>7
    <3>2. f[k] = g[k] /\ f[k - 1] = g[k - 1]
      BY <2>7, <3>1
    <3> QED BY <2>2, <3>1, <3>2 DEF PlacesTo
  <2> HIDE DEF f
  <2>8. PlacesTo(f, m)
    BY <2>5, <2>6, <2>7 DEF PlacesTo
  <2> QED BY <1>1, <2>8
<1> QED BY <1>2, <1>3

\* Two lists agree as far as both go.
LEMMA PlacesAgree ==
  ASSUME NEW m \in Nat, NEW n \in Nat, NEW g, NEW h, PlacesTo(g, m), PlacesTo(h, n),
         NEW k \in Nat, k <= m, k <= n
  PROVE  g[k] = h[k]
<1> SUFFICES ASSUME g[k] # h[k]
             PROVE  FALSE
  OBVIOUS
<1> DEFINE Bad == {i \in Nat : i <= k /\ g[i] # h[i]}
<1>1. PICK i \in Bad : \A j \in Bad : i <= j
  <2>1. Bad \subseteq Nat /\ k \in Bad
    OBVIOUS
  <2> HIDE DEF Bad
  <2> QED BY <2>1, LeastNumber
<1>2. i # 0
  BY <1>1 DEF PlacesTo
<1>3. i - 1 \in Nat /\ i - 1 \notin Bad /\ i - 1 <= k
  BY <1>1, <1>2
<1>4. g[i - 1] = h[i - 1]
  BY <1>3
<1>5. i \in 1..m /\ i \in 1..n
  BY <1>1, <1>2
<1> QED BY <1>1, <1>4, <1>5 DEF PlacesTo

\* The recursive function is well defined.
LEMMA PlaceIs ==
  /\ Place[0] = 1
  /\ \A k \in Nat \ {0} : Place[k] = Base * Place[k - 1]
<1> DEFINE G(k) == CHOOSE g : PlacesTo(g, k)
           P == [k \in Nat |-> G(k)[k]]
<1>1. \A k \in Nat : PlacesTo(G(k), k)
  BY PlacesExist
<1> HIDE DEF G
<1>2. P[0] = 1
  BY <1>1 DEF PlacesTo
<1>3. ASSUME NEW k \in Nat \ {0}
      PROVE  P[k] = Base * P[k - 1]
  <2>1. PlacesTo(G(k), k) /\ PlacesTo(G(k - 1), k - 1) /\ k - 1 \in Nat /\ k \in 1..k
    BY <1>1
  <2>2. G(k)[k] = Base * G(k)[k - 1]
    BY <2>1 DEF PlacesTo
  <2>3. G(k)[k - 1] = G(k - 1)[k - 1]
    BY <2>1, PlacesAgree
  <2> QED BY <2>1, <2>2, <2>3
<1>4. \A k \in Nat : P[k] = IF k = 0 THEN 1 ELSE Base * P[k - 1]
  BY <1>2, <1>3
<1>5. P = [k \in Nat |-> P[k]]
  OBVIOUS
<1> HIDE DEF P
<1>6. P = [k \in Nat |-> IF k = 0 THEN 1 ELSE Base * P[k - 1]]
  BY <1>4, <1>5
<1>7. Place = [k \in Nat |-> IF k = 0 THEN 1 ELSE Base * Place[k - 1]]
  BY <1>6 DEF Place
<1> HIDE DEF Place
<1> QED BY <1>7

\* A place counts something.
LEMMA PlaceIsPositive ==
  ASSUME NEW n \in Nat
  PROVE  Place[n] \in Nat /\ Place[n] > 0
<1> SUFFICES ASSUME ~(Place[n] \in Nat /\ Place[n] > 0)
             PROVE  FALSE
  OBVIOUS
<1> DEFINE Bad == {k \in Nat : ~(Place[k] \in Nat /\ Place[k] > 0)}
<1>1. PICK k \in Bad : \A j \in Bad : k <= j
  <2>1. Bad \subseteq Nat /\ n \in Bad
    OBVIOUS
  <2> HIDE DEF Bad
  <2> QED BY <2>1, LeastNumber
<1>2. k \in Nat \ {0}
  BY <1>1, PlaceIs
<1>3. k - 1 \in Nat /\ k - 1 \notin Bad
  BY <1>1, <1>2
<1> DEFINE p == Place[k - 1]
<1>4. p \in Nat /\ p > 0
  BY <1>3
<1>5. Place[k] = Base * p
  BY <1>2, PlaceIs
<1>6. ~(Place[k] \in Nat /\ Place[k] > 0)
  BY <1>1
<1> HIDE DEF p
<1>7. Base * p \in Nat /\ Base * p > 0
  BY <1>4, TimestampBounds
<1> QED BY <1>5, <1>6, <1>7

\* Quotients are numbers, and grow with what is divided.
LEMMA QuotientType ==
  ASSUME NEW p \in Nat, p > 0, NEW t \in Nat
  PROVE  t \div p \in Nat
OBVIOUS

LEMMA QuotientsGrow ==
  ASSUME NEW p \in Nat, p > 0, NEW t \in Nat, NEW u \in Nat, t <= u
  PROVE  t \div p <= u \div p
<1> DEFINE q == t \div p
           r == t % p
           w == u \div p
           x == u % p
<1>1. /\ q \in Nat /\ r \in Nat /\ t = p * q + r /\ r < p
      /\ w \in Nat /\ x \in Nat /\ u = p * w + x /\ x < p
  OBVIOUS
<1> HIDE DEF q, r, w, x
<1> SUFFICES ASSUME w < q
             PROVE  FALSE
  BY <1>1 DEF q, w
<1>2. PICK d \in Nat : q = w + 1 + d
  <2>1. q - w - 1 \in Nat /\ q = w + 1 + (q - w - 1)
    BY <1>1
  <2> QED BY <2>1
<1>3. p * q = p * w + p + p * d /\ p * d \in Nat /\ p * w \in Nat
  BY <1>1, <1>2
<1> DEFINE a == p * w
           b == p * d
<1>4. t = a + p + b + r /\ u = a + x /\ a \in Nat /\ b \in Nat
  BY <1>1, <1>3
<1> HIDE DEF a, b
<1> QED BY <1>1, <1>4

\* A text is a sequence of characters that begins with the second.
LEMMA TextIs ==
  ASSUME NEW t \in Nat
  PROVE  /\ Text(t) \in Seq(Int) /\ Len(Text(t)) >= 1
         /\ Text(t)[1] = t \div Second
<1> DEFINE kept == {k \in 1..Digits : \E j \in k..Digits : FractionDigit(t, j) # 0}
           n == Cardinality(kept)
           fraction == [k \in 1..n |-> FractionDigit(t, k)]
           first == t \div Second
           middle == IF kept = {} THEN <<>> ELSE <<Point>> \o fraction
<1>1. first \in Nat
  BY PlaceIsPositive, TimestampBounds DEF Second
<1>2. n \in Nat /\ n <= Digits
  <2>1. IsFiniteSet(1..Digits) /\ Cardinality(1..Digits) = Digits
    BY FirstNumbersCount, TimestampBounds
  <2>2. kept \in SUBSET (1..Digits)
    OBVIOUS
  <2> HIDE DEF kept
  <2> QED BY <2>1, <2>2, FS_Subset, FS_CardinalityType
<1>3. \A k \in 1..Digits : FractionDigit(t, k) \in Int
  <2> SUFFICES ASSUME NEW k \in 1..Digits
               PROVE  FractionDigit(t, k) \in Int
    OBVIOUS
  <2> DEFINE p == Place[Digits - k]
             q == t \div p
  <2>1. p \in Nat /\ p > 0
    BY PlaceIsPositive, TimestampBounds
  <2>2. q \in Nat
    <3> HIDE DEF p
    <3> QED BY <2>1
  <2>3. FractionDigit(t, k) = q % Base
    BY DEF FractionDigit
  <2> HIDE DEF q
  <2> QED BY <2>2, <2>3, TimestampBounds
<1> HIDE DEF n, kept
<1>4. fraction \in Seq(Int)
  <2>1. \A k \in 1..n : FractionDigit(t, k) \in Int
    BY <1>2, <1>3, TimestampBounds
  <2> QED BY <1>2, <2>1
<1>5. Point \in Int /\ Zulu \in Int
  BY TimestampBounds DEF Point, Zulu
<1> HIDE DEF fraction
<1>6. middle \in Seq(Int)
  BY <1>4, <1>5
<1>7. Text(t) = <<first>> \o middle \o <<Zulu>>
  BY DEF Text, kept, n, fraction
<1> HIDE DEF middle, first
<1>8. Text(t) \in Seq(Int) /\ Len(Text(t)) = 1 + Len(middle) + 1 /\ Text(t)[1] = first
  BY <1>1, <1>5, <1>6, <1>7
<1> QED BY <1>6, <1>8 DEF first

\* A text of an earlier second comes before.
LEMMA SecondDecides ==
  ASSUME NEW t \in Nat, NEW u \in Nat, t \div Second < u \div Second
  PROVE  TextBefore(t, u)
<1>1. 1 \in 1..Len(Text(t)) /\ 1 <= Len(Text(u)) /\ Text(t)[1] < Text(u)[1]
  BY TextIs
<1> QED BY <1>1 DEF TextBefore

\* Where a text comes before another.
At(t, u, i) ==
  /\ i \in 1..Len(Text(t)) /\ i <= Len(Text(u))
  /\ \A j \in 1..(i - 1) : Text(t)[j] = Text(u)[j]
  /\ Text(t)[i] < Text(u)[i]

\* Texts are ordered.
LEMMA TextsAreOrdered ==
  ASSUME NEW t \in Nat, NEW u \in Nat, NEW v \in Nat
  PROVE  /\ ~TextBefore(t, t)
         /\ TextBefore(t, u) /\ TextBefore(u, v) => TextBefore(t, v)
<1> DEFINE a == Text(t)
           b == Text(u)
           c == Text(v)
<1>1. a \in Seq(Int) /\ b \in Seq(Int) /\ c \in Seq(Int)
  BY TextIs
<1>2. ~TextBefore(t, t)
  <2> SUFFICES ASSUME NEW i \in 1..Len(a), a[i] < a[i]
               PROVE  FALSE
    BY DEF TextBefore
  <2> HIDE DEF a
  <2>1. a[i] \in Int
    BY <1>1
  <2> QED BY <2>1
<1>3. ASSUME TextBefore(t, u), TextBefore(u, v)
      PROVE  TextBefore(t, v)
  <2>1. PICK i : At(t, u, i)
    BY <1>3 DEF TextBefore, At
  <2>2. PICK j : At(u, v, j)
    BY <1>3 DEF TextBefore, At
  <2>3. /\ i \in 1..Len(a) /\ i <= Len(b) /\ a[i] < b[i]
        /\ \A k \in 1..(i - 1) : a[k] = b[k]
        /\ j \in 1..Len(b) /\ j <= Len(c) /\ b[j] < c[j]
        /\ \A k \in 1..(j - 1) : b[k] = c[k]
    BY <2>1, <2>2 DEF At
  <2>4. \E k : At(t, v, k)
    <3> HIDE DEF a, b, c
    <3> DEFINE la == Len(a)
               lb == Len(b)
               lc == Len(c)
    <3>a. la \in Nat /\ lb \in Nat /\ lc \in Nat
      BY <1>1
    <3>b. i \in 1..la /\ i <= lb /\ j \in 1..lb /\ j <= lc
      BY <2>3
    <3>0. /\ i \in Nat /\ i > 0 /\ i <= la /\ i <= lb
          /\ j \in Nat /\ j > 0 /\ j <= lb /\ j <= lc
      <4> HIDE DEF la, lb, lc
      <4> QED BY <3>a, <3>b
    <3>1. a[i] \in Int /\ b[i] \in Int /\ b[j] \in Int /\ c[j] \in Int
      <4>1. i \in 1..Len(a) /\ i \in 1..Len(b) /\ j \in 1..Len(b) /\ j \in 1..Len(c)
        BY <3>0, <3>a
      <4>2. /\ \A k \in 1..Len(a) : a[k] \in Int
            /\ \A k \in 1..Len(b) : b[k] \in Int
            /\ \A k \in 1..Len(c) : c[k] \in Int
        BY <1>1
      <4> QED BY <4>1, <4>2
    <3>2. CASE i < j
      <4>1. b[i] = c[i] /\ i <= Len(c) /\ \A k \in 1..(i - 1) : a[k] = c[k]
        <5>1. i \in 1..(j - 1) /\ i <= Len(c) /\ \A k \in 1..(i - 1) : k \in 1..(j - 1)
          BY <3>0, <3>2
        <5> QED BY <2>3, <5>1
      <4>2. a[i] < c[i]
        BY <2>3, <4>1
      <4>3. At(t, v, i)
        BY <2>3, <4>1, <4>2 DEF At, a, c
      <4> QED BY <4>3
    <3>3. CASE i = j
      <4>1. a[i] < c[i] /\ i <= Len(c) /\ \A k \in 1..(i - 1) : a[k] = c[k]
        <5>1. b[i] < c[i] /\ i <= Len(c) /\ \A k \in 1..(i - 1) : a[k] = c[k]
          BY <2>3, <3>3
        <5>2. a[i] \in Int /\ b[i] \in Int /\ c[i] \in Int /\ a[i] < b[i]
          BY <2>3, <3>1, <3>3
        <5> QED BY <5>1, <5>2
      <4>2. At(t, v, i)
        BY <2>3, <4>1 DEF At, a, c
      <4> QED BY <4>2
    <3>4. CASE j < i
      <4>1. a[j] = b[j] /\ j \in 1..Len(a) /\ \A k \in 1..(j - 1) : a[k] = c[k]
        <5>1. j \in 1..(i - 1) /\ j \in 1..Len(a) /\ \A k \in 1..(j - 1) : k \in 1..(i - 1)
          BY <3>0, <3>4
        <5> QED BY <2>3, <5>1
      <4>2. a[j] < c[j]
        BY <2>3, <4>1
      <4>3. At(t, v, j)
        BY <2>3, <4>1, <4>2 DEF At, a, c
      <4> QED BY <4>3
    <3> QED BY <3>0, <3>2, <3>3, <3>4
  <2> QED BY <2>4 DEF TextBefore, At
<1> QED BY <1>2, <1>3

-----------------------------------------------------------------------------
(* RegistryParity: the newest rows.                                             *)

SecondOf(r) == r.at \div Second

\* All of a set, by descending seconds.
Downwards(f, S) ==
  /\ f \in [1..Cardinality(S) -> S]
  /\ \A i, j \in 1..Cardinality(S) : i < j => f[i] # f[j] /\ SecondOf(f[j]) <= SecondOf(f[i])

LEMMA SecondType ==
  ASSUME NEW r, r.at \in Nat
  PROVE  SecondOf(r) \in Nat
<1>1. Second \in Nat /\ Second > 0
  BY PlaceIsPositive, TimestampBounds DEF Second
<1> HIDE DEF Second
<1>2. r.at \div Second \in Nat
  BY <1>1, QuotientType
<1> QED BY <1>2 DEF SecondOf

\* A lambda of one instance is one of the other.
LEMMA MemCounts ==
  ASSUME NEW S
  PROVE  Memory!Cardinality(S) = Cardinality(S)
BY DEF Memory!Cardinality, Cardinality

\* SQLite puts the rows so, comparing texts.
LEMMA TextOrderDescends ==
  ASSUME NEW S, IsFiniteSet(S), \A r \in S : r.at \in Nat
  PROVE  Downwards(Memory!InOrder(S, LAMBDA r, q : TextBefore(q.at, r.at)), S)
<1> DEFINE n == Cardinality(S)
           R == {e \in S \X S : TextBefore(e[2].at, e[1].at)}
           s == Memory!InOrder(S, LAMBDA r, q : TextBefore(q.at, r.at))
<1>1. \A r, q \in S : <<r, q>> \in R <=> TextBefore(q.at, r.at)
  OBVIOUS
<1> HIDE DEF R
<1>2. Orders(S, R)
  BY <1>1, TextsAreOrdered DEF Orders
<1>3. PICK f : Arranged(f, S, R)
  BY <1>2, ArrangementExists
<1>4. /\ f \in [1..n -> S]
      /\ \A i, j \in 1..n : i < j => f[i] # f[j] /\ ~TextBefore(f[i].at, f[j].at)
  BY <1>1, <1>3 DEF Arranged
<1>5. s = CHOOSE h \in [1..n -> S] :
            \A i, j \in 1..n : i < j => h[i] # h[j] /\ ~TextBefore(h[i].at, h[j].at)
  BY MemCounts DEF Memory!InOrder
<1> HIDE DEF n
<1>6. /\ s \in [1..n -> S]
      /\ \A i, j \in 1..n : i < j => s[i] # s[j] /\ ~TextBefore(s[i].at, s[j].at)
  <2> HIDE DEF s
  <2> QED BY <1>4, <1>5
<1> HIDE DEF s
<1>7. ASSUME NEW i \in 1..n, NEW j \in 1..n, i < j
      PROVE  SecondOf(s[j]) <= SecondOf(s[i])
  <2>1. s[i].at \in Nat /\ s[j].at \in Nat /\ ~TextBefore(s[i].at, s[j].at)
    BY <1>6, <1>7
  <2>2. ~(SecondOf(s[i]) < SecondOf(s[j]))
    BY <2>1, SecondDecides DEF SecondOf
  <2>3. SecondOf(s[i]) \in Nat /\ SecondOf(s[j]) \in Nat
    BY <2>1, SecondType
  <2> QED BY <2>2, <2>3
<1> QED BY <1>6, <1>7 DEF Downwards, n, s

\* So does the memory, comparing instants.
LEMMA InstantOrderDescends ==
  ASSUME NEW S, IsFiniteSet(S), \A r \in S : r.at \in Nat
  PROVE  Downwards(Memory!InOrder(S, LAMBDA r, q : r.at > q.at), S)
<1> DEFINE n == Cardinality(S)
           R == {e \in S \X S : e[1].at > e[2].at}
           s == Memory!InOrder(S, LAMBDA r, q : r.at > q.at)
<1>1. \A r, q \in S : <<r, q>> \in R <=> r.at > q.at
  OBVIOUS
<1> HIDE DEF R
<1>2. Orders(S, R)
  BY <1>1 DEF Orders
<1>3. PICK f : Arranged(f, S, R)
  BY <1>2, ArrangementExists
<1>4. /\ f \in [1..n -> S]
      /\ \A i, j \in 1..n : i < j => f[i] # f[j] /\ ~(f[j].at > f[i].at)
  BY <1>1, <1>3 DEF Arranged
<1>5. s = CHOOSE h \in [1..n -> S] :
            \A i, j \in 1..n : i < j => h[i] # h[j] /\ ~(h[j].at > h[i].at)
  BY MemCounts DEF Memory!InOrder
<1> HIDE DEF n
<1>6. /\ s \in [1..n -> S]
      /\ \A i, j \in 1..n : i < j => s[i] # s[j] /\ ~(s[j].at > s[i].at)
  <2> HIDE DEF s
  <2> QED BY <1>4, <1>5
<1> HIDE DEF s
<1>7. ASSUME NEW i \in 1..n, NEW j \in 1..n, i < j
      PROVE  SecondOf(s[j]) <= SecondOf(s[i])
  <2>1. s[i].at \in Nat /\ s[j].at \in Nat /\ s[j].at <= s[i].at
    BY <1>6, <1>7
  <2>2. Second \in Nat /\ Second > 0
    BY PlaceIsPositive, TimestampBounds DEF Second
  <2> HIDE DEF Second
  <2> QED BY <2>1, <2>2, QuotientsGrow DEF SecondOf
<1> QED BY <1>6, <1>7 DEF Downwards, n, s

\* In two such orders the same place holds rows of the same second.
LEMMA NotALaterSecond ==
  ASSUME NEW S, IsFiniteSet(S), \A r \in S : r.at \in Nat,
         NEW f, NEW g, Downwards(f, S), Downwards(g, S), NEW i \in 1..Cardinality(S)
  PROVE  SecondOf(g[i]) <= SecondOf(f[i])
<1> DEFINE n == Cardinality(S)
           A == {r \in S : SecondOf(g[i]) <= SecondOf(r)}
           front == [k \in 1..i |-> g[k]]
           back == [k \in 1..(i - 1) |-> f[k]]
           B == {f[k] : k \in 1..(i - 1)}
<1>1. /\ n \in Nat /\ \A r \in S : SecondOf(r) \in Nat
      /\ f \in [1..n -> S] /\ g \in [1..n -> S]
      /\ \A j, k \in 1..n : j < k => f[j] # f[k] /\ SecondOf(f[k]) <= SecondOf(f[j])
      /\ \A j, k \in 1..n : j < k => g[j] # g[k] /\ SecondOf(g[k]) <= SecondOf(g[j])
  BY FS_CardinalityType, SecondType DEF Downwards
<1>2. \A r \in S : \E k \in 1..n : f[k] = r
  <2>1. Arranged(f, S, {})
    BY <1>1 DEF Arranged
  <2> QED BY <2>1, ArrangedIsOnto
<1> SUFFICES ASSUME ~(SecondOf(g[i]) <= SecondOf(f[i]))
             PROVE  FALSE
  OBVIOUS
<1> HIDE DEF n
<1>3. i \in 1..n /\ i \in Nat /\ i - 1 \in Nat
  BY <1>1 DEF n
<1>4. IsFiniteSet(A) /\ Cardinality(A) \in Nat
  BY FS_Subset, FS_CardinalityType
<1>5. i <= Cardinality(A)
  <2>1. \A k \in 1..i : k \in 1..n /\ g[k] \in A
    BY <1>1, <1>3
  <2> HIDE DEF A
  <2>2. front \in [1..i -> A]
    BY <2>1
  <2>3. \A j, k \in 1..i : front[j] = front[k] => j = k
    BY <1>1, <2>1
  <2>4. front \in Injection(1..i, A)
    <3> HIDE DEF front
    <3> QED BY <2>2, <2>3 DEF Injection, IsInjective
  <2>5. Cardinality(1..i) = i
    BY <1>3, FirstNumbersCount
  <2> QED BY <1>4, <2>4, <2>5, FS_Injection
<1>6. A \subseteq B
  <2> SUFFICES ASSUME NEW r \in A
               PROVE  r \in B
    OBVIOUS
  <2>1. PICK k \in 1..n : f[k] = r
    BY <1>2
  <2>2. SecondOf(g[i]) <= SecondOf(f[k])
    BY <2>1
  <2>3. ~(i <= k)
    <3>1. f[i] \in S /\ g[i] \in S /\ f[k] \in S
      BY <1>1, <1>3
    <3>2. SecondOf(f[i]) \in Nat /\ SecondOf(g[i]) \in Nat /\ SecondOf(f[k]) \in Nat
      BY <1>1, <3>1
    <3>3. i < k => SecondOf(f[k]) <= SecondOf(f[i])
      BY <1>1, <1>3
    <3>4. i = k => SecondOf(f[k]) = SecondOf(f[i])
      OBVIOUS
    <3> QED BY <1>3, <2>2, <3>2, <3>3, <3>4
  <2>4. k \in 1..(i - 1)
    BY <1>3, <2>3
  <2> QED BY <2>1, <2>4
<1>7. IsFiniteSet(B) /\ Cardinality(B) <= i - 1
  <2>1. back \in Surjection(1..(i - 1), B)
    <3>1. back \in [1..(i - 1) -> B]
      OBVIOUS
    <3>2. \A r \in B : \E k \in 1..(i - 1) : back[k] = r
      OBVIOUS
    <3> HIDE DEF back, B
    <3> QED BY <3>1, <3>2 DEF Surjection
  <2>2. IsFiniteSet(1..(i - 1)) /\ Cardinality(1..(i - 1)) = i - 1
    BY <1>3, FirstNumbersCount
  <2> HIDE DEF back, B
  <2> QED BY <2>1, <2>2, FS_Surjection
<1>8. Cardinality(A) <= i - 1
  <2>1. Cardinality(B) \in Nat
    BY <1>7, FS_CardinalityType
  <2>2. Cardinality(A) <= Cardinality(B)
    BY <1>6, <1>7, FS_Subset
  <2> HIDE DEF A, B
  <2> QED BY <1>3, <1>4, <1>7, <2>1, <2>2
<1> HIDE DEF A
<1> QED BY <1>3, <1>4, <1>5, <1>8

\* Cut to a limit, they still do.
LEMMA NewestAreNear ==
  ASSUME NEW S, IsFiniteSet(S), \A r \in S : r.at \in Nat, NEW limit \in Nat,
         NEW sql, sql = SqlNewest(S, limit), NEW mem, mem = Memory!MemNewest(S, limit)
  PROVE  /\ Len(sql) = Len(mem)
         /\ \A i \in 1..Len(sql) : sql[i].at \div Second = mem[i].at \div Second
<1> DEFINE n == Cardinality(S)
           f == Memory!InOrder(S, LAMBDA r, q : TextBefore(q.at, r.at))
           g == Memory!InOrder(S, LAMBDA r, q : r.at > q.at)
           m == IF n > limit THEN limit ELSE n
<1>1. Downwards(f, S) /\ Downwards(g, S) /\ n \in Nat
  BY TextOrderDescends, InstantOrderDescends, FS_CardinalityType
<1>2. sql = SubSeq(f, 1, IF Len(f) > limit THEN limit ELSE Len(f))
  BY DEF SqlNewest
<1>3. mem = SubSeq(g, 1, IF Len(g) > limit THEN limit ELSE Len(g))
  BY DEF Memory!MemNewest
<1> HIDE DEF f, g
<1>4. f \in [1..n -> S] /\ g \in [1..n -> S]
  BY <1>1 DEF Downwards
<1>5. \A i \in 1..n : SecondOf(f[i]) = SecondOf(g[i])
  <2> SUFFICES ASSUME NEW i \in 1..n
               PROVE  SecondOf(f[i]) = SecondOf(g[i])
    OBVIOUS
  <2>1. SecondOf(g[i]) <= SecondOf(f[i]) /\ SecondOf(f[i]) <= SecondOf(g[i])
    BY <1>1, NotALaterSecond
  <2>2. f[i].at \in Nat /\ g[i].at \in Nat
    BY <1>4
  <2>3. SecondOf(g[i]) \in Nat /\ SecondOf(f[i]) \in Nat
    BY <2>2, SecondType
  <2> QED BY <2>1, <2>3
<1> HIDE DEF n
<1>6. f \in Seq(S) /\ g \in Seq(S) /\ Len(f) = n /\ Len(g) = n
  BY <1>1, <1>4
<1>7. m \in 0..n
  BY <1>1
<1>8. /\ Len(sql) = m /\ Len(mem) = m
      /\ \A i \in 1..m : sql[i] = f[i] /\ mem[i] = g[i]
  BY <1>1, <1>2, <1>3, <1>6, <1>7
<1> HIDE DEF m
<1>9. \A i \in 1..m : i \in 1..n
  BY <1>1, <1>7
<1> QED BY <1>5, <1>8, <1>9 DEF SecondOf

-----------------------------------------------------------------------------
(* RegistryParity: the two transcripts.                                         *)

\* The numbers of some chunks are those after one and up to another.
Numbered(C, lo, hi) ==
  /\ lo \in Nat /\ hi \in Nat /\ lo <= hi
  /\ \A c \in C : c.seq \in (lo + 1)..hi
  /\ \A k \in (lo + 1)..hi : \E c \in C : c.seq = k
  /\ \A c, d \in C : c.seq = d.seq => c = d

\* As many chunks as numbers.
LEMMA NumbersCount ==
  ASSUME NEW C, NEW lo, NEW hi, Numbered(C, lo, hi)
  PROVE  IsFiniteSet(C) /\ Cardinality(C) = hi - lo
<1> DEFINE D == (lo + 1)..hi
           f == [k \in D |-> CHOOSE c \in C : c.seq = k]
<1>1. IsFiniteSet(D) /\ Cardinality(D) = hi - lo
  <2>1. lo \in Nat /\ hi \in Nat /\ lo <= hi
    BY DEF Numbered
  <2>2. lo + 1 \in Int /\ hi \in Int /\ (IF lo + 1 > hi THEN 0 ELSE hi - (lo + 1) + 1) = hi - lo
    BY <2>1
  <2>3. IsFiniteSet(D) /\ Cardinality(D) = IF lo + 1 > hi THEN 0 ELSE hi - (lo + 1) + 1
    BY <2>2, FS_Interval
  <2> HIDE DEF D
  <2> QED BY <2>2, <2>3
<1>2. \A k \in D : f[k] \in C /\ f[k].seq = k
  BY DEF Numbered
<1>3. f \in [D -> C]
  BY <1>2
<1> HIDE DEF f
<1>4. \A c \in C : c.seq \in D /\ f[c.seq] = c
  BY <1>2 DEF Numbered
<1> HIDE DEF D
<1>5. f \in Bijection(D, C)
  <2>1. \A j, k \in D : f[j] = f[k] => j = k
    BY <1>2
  <2>2. \A c \in C : \E k \in D : f[k] = c
    BY <1>4
  <2> QED BY <1>3, <2>1, <2>2 DEF Bijection, Injection, Surjection, IsInjective
<1>6. ExistsBijection(D, C)
  BY <1>5 DEF ExistsBijection
<1> QED BY <1>1, <1>6, FS_Bijection

\* What memory keeps: the chunks after those that were dropped.
MemoryIsTheRest ==
  /\ memChunks \in Seq([seq : Nat, source : Sources])
  /\ memDropped \in Nat /\ memLast = memDropped + Len(memChunks)
  /\ Len(memChunks) <= Retention
  /\ \A i \in 1..Len(memChunks) : memChunks[i].seq = memDropped + i

\* What SQLite keeps is what memory keeps, as far as the append has got.
SourcesAgree ==
  /\ \A c \in chunks : c.id = c.seq
  /\ \A c \in chunks : c.seq > memDropped => c.source = memChunks[c.seq - memDropped].source
  /\ \A i \in 1..Len(batch) :
       stored + i > memDropped =>
         memChunks[stored + i - memDropped].source = normalizeTranscriptSource(batch[i])

IdleAgrees ==
  /\ batch = <<>>
  /\ Numbered(chunks, memDropped, stored)
  /\ meta.saved => meta.retained = Len(memChunks)
  /\ meta.dropped = memDropped /\ meta.last = memLast

AppendAgrees(h) ==
  /\ \A g \in Handlers \ {h} : op[g].pc = "idle"
  /\ op[h].last = stored
  /\ Numbered(chunks, op[h].dropped, stored)
  /\ op[h].pc = "insert" => batch # <<>> /\ op[h].todo = Len(batch)
  /\ op[h].pc # "insert" => batch = <<>>
  /\ op[h].pc \in {"insert", "prune"} =>
       memDropped = IF memLast - op[h].dropped > Retention THEN memLast - Retention
                    ELSE op[h].dropped
  /\ op[h].pc \in {"count", "save"} => op[h].dropped = memDropped
  /\ op[h].pc = "save" => op[h].kept = Len(memChunks)

TranscriptsAgree ==
  /\ chunks \subseteq Chunks /\ meta \in Metas /\ op \in [Handlers -> Ops]
  /\ stored \in Nat /\ batch \in Seq(AnySource) /\ memLast = stored + Len(batch)
  /\ SourcesAgree
  /\ SqlIdle => IdleAgrees
  /\ \A h \in Handlers : op[h].pc # "idle" => AppendAgrees(h)

\* The rows are those of memory, whose order is that of the calls.
RowsAgree ==
  /\ memRows \in Seq(Memory!Rows)
  /\ sqlRows = {memRows[i] : i \in 1..Len(memRows)} /\ IsFiniteSet(sqlRows)
  /\ now \in Nat

ParityInv == MemoryIsTheRest /\ TranscriptsAgree /\ RowsAgree

-----------------------------------------------------------------------------
(* RegistryParity: the steps.                                                   *)

LEMMA InitParity == ParityInit => ParityInv
<1> SUFFICES ASSUME ParityInit
             PROVE  ParityInv
  OBVIOUS
<1>1. /\ chunks = {} /\ meta = NoMeta /\ op = [h \in Handlers |-> Idle]
      /\ memChunks = <<>> /\ memLast = 0 /\ memDropped = 0 /\ memRows = <<>>
      /\ sqlRows = {} /\ batch = <<>> /\ stored = 0 /\ now = 0
  BY DEF ParityInit, StoreInit, Memory!MemInit
<1>2. Idle \in Ops /\ Idle.pc = "idle" /\ NoMeta \in Metas
  BY DEF Idle, Ops, NoMeta, Metas
<1>3. MemoryIsTheRest
  <2>1. Len(memChunks) = 0 /\ memChunks \in Seq([seq : Nat, source : Sources])
    BY <1>1
  <2>2. Retention \in Nat
    BY TranscriptBounds
  <2> QED BY <1>1, <2>1, <2>2 DEF MemoryIsTheRest
<1>4. Len(batch) = 0 /\ batch \in Seq(AnySource)
  BY <1>1
<1>5. SourcesAgree
  BY <1>1, <1>4 DEF SourcesAgree
<1>6. IdleAgrees
  BY <1>1 DEF IdleAgrees, Numbered, NoMeta
<1>7. \A h \in Handlers : op[h] = Idle
  BY <1>1
<1>8. chunks \subseteq Chunks /\ meta \in Metas /\ op \in [Handlers -> Ops]
  BY <1>1, <1>2
<1>9. TranscriptsAgree
  BY <1>1, <1>2, <1>4, <1>5, <1>6, <1>7, <1>8 DEF TranscriptsAgree
<1>10. RowsAgree
  <2>1. Len(memRows) = 0 /\ memRows \in Seq(Memory!Rows) /\ IsFiniteSet(sqlRows)
    BY <1>1, FS_EmptySet
  <2> QED BY <1>1, <2>1 DEF RowsAgree
<1> QED BY <1>3, <1>9, <1>10 DEF ParityInv

\* A row is added to both.
LEMMA RowKeeps ==
  ASSUME ParityInv, NEW r \in Memory!Rows, memRows' = Append(memRows, r),
         sqlRows' = sqlRows \cup {r},
         UNCHANGED <<storeVars, batch, stored, now, memChunks, memLast, memDropped>>
  PROVE  ParityInv'
<1>1. /\ memRows \in Seq(Memory!Rows) /\ sqlRows = {memRows[i] : i \in 1..Len(memRows)}
      /\ IsFiniteSet(sqlRows)
  BY DEF ParityInv, RowsAgree
<1>2. memRows' \in Seq(Memory!Rows)
  BY <1>1
<1>3. sqlRows' = {memRows'[i] : i \in 1..Len(memRows')}
  <2>1. /\ Len(memRows') = Len(memRows) + 1 /\ memRows'[Len(memRows) + 1] = r
        /\ \A i \in 1..Len(memRows) : memRows'[i] = memRows[i]
    BY <1>1
  <2> QED BY <1>1, <2>1
<1>4. IsFiniteSet(sqlRows')
  BY <1>1, FS_AddElement
<1>5. RowsAgree'
  BY <1>2, <1>3, <1>4 DEF RowsAgree, ParityInv
<1>6. MemoryIsTheRest'
  BY DEF ParityInv, MemoryIsTheRest
<1>7. TranscriptsAgree'
  BY DEF ParityInv, TranscriptsAgree, SourcesAgree, IdleAgrees, AppendAgrees, SqlIdle, storeVars
<1> QED BY <1>5, <1>6, <1>7 DEF ParityInv

LEMMA RetentionType == Retention \in Nat /\ Retention > 0
<1>1. Retention \in Nat \ {0}
  BY TranscriptBounds
<1> QED BY <1>1

\* What the summary of an idle transcript says.
LEMMA IdleSummary ==
  ASSUME ParityInv, SqlIdle
  PROVE  TranscriptSummary = Memory!MemTranscriptSummary
<1>1. /\ memChunks \in Seq([seq : Nat, source : Sources]) /\ Len(memChunks) \in Nat
      /\ memDropped \in Nat /\ memLast = memDropped + Len(memChunks)
      /\ \A i \in 1..Len(memChunks) : memChunks[i].seq = memDropped + i
  BY DEF ParityInv, MemoryIsTheRest
<1>2. /\ Numbered(chunks, memDropped, stored) /\ meta \in Metas
      /\ meta.saved => meta.retained = Len(memChunks)
      /\ meta.dropped = memDropped /\ meta.last = memLast
  BY DEF ParityInv, TranscriptsAgree, IdleAgrees
<1>3. stored = memLast
  <2>1. batch = <<>> /\ memLast = stored + Len(batch) /\ stored \in Nat
    BY DEF ParityInv, TranscriptsAgree, IdleAgrees
  <2>2. Len(batch) = 0
    BY <2>1
  <2> QED BY <2>1, <2>2
<1>4. /\ \A c \in chunks : c.seq \in (memDropped + 1)..memLast
      /\ \A k \in (memDropped + 1)..memLast : \E c \in chunks : c.seq = k
      /\ Cardinality(chunks) = Len(memChunks)
  <2>1. Cardinality(chunks) = memLast - memDropped
    BY <1>2, <1>3, NumbersCount
  <2> QED BY <1>1, <1>2, <1>3, <2>1 DEF Numbered
<1>5. CASE Len(memChunks) = 0
  <2>1. chunks = {} /\ memChunks = <<>> /\ memLast = memDropped
    BY <1>1, <1>4, <1>5
  <2>2. (IF meta.saved THEN meta.retained ELSE Cardinality(chunks)) = Len(memChunks)
    BY <1>2, <1>4
  <2> QED BY <1>2, <1>5, <2>1, <2>2 DEF TranscriptSummary, Memory!MemTranscriptSummary
<1>6. CASE Len(memChunks) # 0
  <2> DEFINE n == Len(memChunks)
             old == CHOOSE c \in chunks : \A d \in chunks : c.seq <= d.seq
             new == CHOOSE c \in chunks : \A d \in chunks : d.seq <= c.seq
  <2>1. n \in Nat /\ n > 0 /\ memChunks # <<>>
    BY <1>1, <1>6
  <2>0. memDropped + 1 \in (memDropped + 1)..memLast /\ memLast \in (memDropped + 1)..memLast
    <3>1. memLast = memDropped + n /\ memDropped \in Nat
      BY <1>1
    <3> HIDE DEF n
    <3> QED BY <2>1, <3>1
  <2>2. PICK c \in chunks : c.seq = memDropped + 1
    BY <1>4, <2>0
  <2>3. PICK d \in chunks : d.seq = memLast
    BY <1>4, <2>0
  <2>4. old \in chunks /\ \A e \in chunks : old.seq <= e.seq
    <3>1. \A e \in chunks : c.seq <= e.seq
      BY <1>1, <1>4, <2>2
    <3> QED BY <3>1
  <2>5. new \in chunks /\ \A e \in chunks : e.seq <= new.seq
    <3>1. \A e \in chunks : e.seq <= d.seq
      BY <1>1, <1>4, <2>3
    <3> QED BY <3>1
  <2>6. OldestSeq(chunks) = old.seq /\ NewestSeq(chunks) = new.seq /\ chunks # {}
    BY <2>2 DEF OldestSeq, NewestSeq
  <2> HIDE DEF old, new
  <2>7. OldestSeq(chunks) = memDropped + 1 /\ NewestSeq(chunks) = memLast
    <3>1. old.seq <= memDropped + 1 /\ old.seq \in (memDropped + 1)..memLast
      BY <1>4, <2>2, <2>4
    <3>2. memLast <= new.seq /\ new.seq \in (memDropped + 1)..memLast
      BY <1>4, <2>3, <2>5
    <3>3. memLast \in Int
      BY <1>1
    <3> QED BY <1>1, <2>6, <3>1, <3>2, <3>3
  <2>8. memChunks[1].seq = memDropped + 1 /\ memChunks[n].seq = memLast
    BY <1>1, <2>1
  <2>9. (IF meta.saved THEN meta.retained ELSE Cardinality(chunks)) = n
    BY <1>2, <1>4
  <2> QED
    BY <1>2, <2>1, <2>6, <2>7, <2>8, <2>9 DEF TranscriptSummary, Memory!MemTranscriptSummary
<1> QED BY <1>5, <1>6

\* The end of a sequence.
LEMMA EndOf ==
  ASSUME NEW X, NEW s \in Seq(X), NEW lo \in Nat, lo <= Len(s)
  PROVE  /\ SubSeq(s, lo + 1, Len(s)) \in Seq(X)
         /\ Len(SubSeq(s, lo + 1, Len(s))) = Len(s) - lo
         /\ \A i \in 1..(Len(s) - lo) : SubSeq(s, lo + 1, Len(s))[i] = s[lo + i]
<1>1. Len(s) \in Nat /\ \A i \in 1..Len(s) : s[i] \in X
  OBVIOUS
<1> DEFINE n == Len(s)
           e == SubSeq(s, lo + 1, n)
<1>2. e = [i \in 1..(n - lo) |-> s[lo + i]]
  BY <1>1
<1>3. \A i \in 1..(n - lo) : lo + i \in 1..n
  BY <1>1
<1>4. n - lo \in Nat
  BY <1>1
<1> HIDE DEF n, e
<1>5. \A i \in 1..(n - lo) : s[lo + i] \in X
  BY <1>1, <1>3 DEF n
<1>6. e \in Seq(X) /\ Len(e) = n - lo /\ \A i \in 1..(n - lo) : e[i] = s[lo + i]
  BY <1>2, <1>4, <1>5
<1> QED BY <1>6 DEF e, n

\* One sequence after another.
Joined(s, t, u) ==
  /\ Len(u) = Len(s) + Len(t)
  /\ \A i \in 1..Len(s) : u[i] = s[i]
  /\ \A i \in 1..Len(t) : u[Len(s) + i] = t[i]

LEMMA JoinIs ==
  ASSUME NEW X, NEW s \in Seq(X), NEW t \in Seq(X)
  PROVE  s \o t \in Seq(X) /\ Joined(s, t, s \o t)
<1>1. s \o t \in Seq(X)
  OBVIOUS
<1>2. Len(s \o t) = Len(s) + Len(t) /\ Len(s) \in Nat /\ Len(t) \in Nat
  OBVIOUS
<1>3. \A i \in 1..Len(s) : (s \o t)[i] = s[i]
  OBVIOUS
<1>4. \A i \in 1..Len(t) : (s \o t)[Len(s) + i] = t[i]
  OBVIOUS
<1> QED BY <1>1, <1>2, <1>3, <1>4 DEF Joined

\* An append puts memory ahead: it has numbered, kept and dropped all.
LEMMA MemoryAppends ==
  ASSUME MemoryIsTheRest, NEW b \in Seq(AnySource), b # <<>>, Memory!MemAppendTranscript(b)
  PROVE  /\ MemoryIsTheRest' /\ memLast' = memLast + Len(b)
         /\ memDropped' = IF memLast' - memDropped > Retention THEN memLast' - Retention
                          ELSE memDropped
         /\ \A k \in (memDropped' + 1)..memLast :
              memChunks'[k - memDropped'].source = memChunks[k - memDropped].source
         /\ \A i \in 1..Len(b) : memLast + i > memDropped' =>
              memChunks'[memLast + i - memDropped'].source = normalizeTranscriptSource(b[i])
<1> DEFINE m == Len(memChunks)
           n == Len(b)
           entries == [i \in 1..n |-> [seq |-> memLast + i,
                                        source |-> Memory!normalizeTranscriptSourceValue(b[i])]]
           all == memChunks \o entries
           lo == IF m + n > Retention THEN m + n - Retention ELSE 0
<1>1. /\ memChunks \in Seq([seq : Nat, source : Sources]) /\ m \in Nat
      /\ memDropped \in Nat /\ memLast = memDropped + m /\ m <= Retention
      /\ \A i \in 1..m : memChunks[i].seq = memDropped + i
  BY DEF MemoryIsTheRest
<1>2. n \in Nat /\ n > 0 /\ memLast \in Nat
  BY <1>1
<1>3. \A i \in 1..n : Memory!normalizeTranscriptSourceValue(b[i]) \in Sources
  BY TranscriptBounds DEF Memory!normalizeTranscriptSourceValue
<1>4. \A i \in 1..n :
        Memory!normalizeTranscriptSourceValue(b[i]) = normalizeTranscriptSource(b[i])
  BY DEF Memory!normalizeTranscriptSourceValue, normalizeTranscriptSource
<1>5. /\ entries \in Seq([seq : Nat, source : Sources]) /\ Len(entries) = n
      /\ \A i \in 1..n : /\ entries[i].seq = memLast + i
                         /\ entries[i].source = normalizeTranscriptSource(b[i])
  BY <1>2, <1>3, <1>4
<1>6. /\ memChunks' = Memory!Last(all, Retention)
      /\ memLast' = IF all = <<>> THEN memLast ELSE all[Len(all)].seq
      /\ memDropped' = memDropped + Len(all) - Len(memChunks')
  BY DEF Memory!MemAppendTranscript
<1> HIDE DEF entries, n, m
<1>7. /\ all \in Seq([seq : Nat, source : Sources]) /\ Len(all) = m + n
      /\ \A i \in 1..m : all[i] = memChunks[i]
      /\ \A i \in 1..n : all[m + i] = entries[i]
  <2> DEFINE X == [seq : Nat, source : Sources]
  <2>1. memChunks \in Seq(X) /\ entries \in Seq(X) /\ Len(memChunks) = m /\ Len(entries) = n
    BY <1>1, <1>5 DEF m
  <2> HIDE DEF X
  <2>2. /\ all \in Seq(X) /\ Len(all) = m + n
        /\ \A i \in 1..m : all[i] = memChunks[i]
        /\ \A i \in 1..n : all[m + i] = entries[i]
    <3>1. all \in Seq(X) /\ Joined(memChunks, entries, all)
      BY <2>1, JoinIs
    <3> HIDE DEF all
    <3> QED BY <2>1, <3>1 DEF Joined
  <2> QED BY <2>2 DEF X
<1>8. \A i \in 1..(m + n) : all[i].seq = memDropped + i
  <2> SUFFICES ASSUME NEW i \in 1..(m + n)
               PROVE  all[i].seq = memDropped + i
    OBVIOUS
  <2>1. CASE i <= m
    <3>1. i \in 1..m
      BY <1>1, <1>2, <2>1
    <3> QED BY <1>1, <1>7, <3>1
  <2>2. CASE i > m
    <3>1. i - m \in 1..n /\ i = m + (i - m)
      BY <1>1, <1>2, <2>2
    <3>2. all[i] = entries[i - m]
      BY <1>7, <3>1
    <3> QED BY <1>1, <1>2, <1>5, <3>1, <3>2
  <2>3. i <= m \/ i > m
    BY <1>1
  <2> QED BY <2>1, <2>2, <2>3
<1> HIDE DEF all
<1>9. lo \in Nat /\ lo <= m + n /\ m + n - lo <= Retention /\ m + n - lo \in Nat
  BY <1>1, <1>2, RetentionType
<1>10. /\ memChunks' \in Seq([seq : Nat, source : Sources]) /\ Len(memChunks') = m + n - lo
       /\ \A i \in 1..(m + n - lo) : memChunks'[i] = all[lo + i]
  <2>1. memChunks' = SubSeq(all, lo + 1, m + n)
    BY <1>1, <1>2, <1>6, <1>7, RetentionType DEF Memory!Last
  <2> HIDE DEF lo
  <2> DEFINE X == [seq : Nat, source : Sources]
  <2>2. all \in Seq(X) /\ Len(all) = m + n
    BY <1>7
  <2> HIDE DEF X
  <2>3. lo \in Nat /\ lo <= Len(all)
    BY <1>9, <2>2
  <2>4. /\ memChunks' \in Seq(X) /\ Len(memChunks') = Len(all) - lo
        /\ \A i \in 1..(Len(all) - lo) : memChunks'[i] = all[lo + i]
    <3>1. memChunks' = SubSeq(all, lo + 1, Len(all))
      BY <2>1, <2>2
    <3> QED BY <2>2, <2>3, <3>1, EndOf, Zenon
  <2>5. Len(all) - lo = m + n - lo
    BY <1>1, <1>2, <1>9, <2>2
  <2>6. /\ memChunks' \in Seq(X) /\ Len(memChunks') = m + n - lo
        /\ \A i \in 1..(m + n - lo) : memChunks'[i] = all[lo + i]
    BY <2>4, <2>5, Zenon
  <2> QED BY <2>6, Zenon DEF X
<1>11. memDropped' = memDropped + lo
  <2> HIDE DEF lo
  <2> QED BY <1>1, <1>2, <1>6, <1>7, <1>9, <1>10
<1>12. memLast' = memDropped + m + n /\ memLast' = memLast + n
  <2>1. all # <<>> /\ Len(all) = m + n /\ m + n \in 1..(m + n)
    BY <1>1, <1>2, <1>7
  <2>2. memLast' = memDropped + (m + n)
    BY <1>6, <1>8, <2>1
  <2> QED BY <1>1, <1>2, <2>2
<1>13. MemoryIsTheRest'
  <2> HIDE DEF lo
  <2>1. \A i \in 1..Len(memChunks') : memChunks'[i].seq = memDropped' + i
    <3> SUFFICES ASSUME NEW i \in 1..(m + n - lo)
                 PROVE  memChunks'[i].seq = memDropped' + i
      BY <1>10
    <3>1. lo + i \in 1..(m + n) /\ memChunks'[i] = all[lo + i]
      BY <1>1, <1>2, <1>9, <1>10
    <3>2. all[lo + i].seq = memDropped + (lo + i)
      BY <1>8, <3>1
    <3> QED BY <1>1, <1>9, <1>11, <3>1, <3>2
  <2>2. memDropped' \in Nat /\ memLast' = memDropped' + Len(memChunks')
    BY <1>1, <1>2, <1>9, <1>10, <1>11, <1>12
  <2> QED BY <1>9, <1>10, <2>1, <2>2 DEF MemoryIsTheRest
<1>14. memDropped' = IF memLast' - memDropped > Retention THEN memLast' - Retention
                     ELSE memDropped
  BY <1>1, <1>2, <1>11, <1>12, RetentionType
<1>15. ASSUME NEW k \in (memDropped' + 1)..memLast
       PROVE  memChunks'[k - memDropped'].source = memChunks[k - memDropped].source
  <2> HIDE DEF lo
  <2>1. k - memDropped' \in 1..(m + n - lo) /\ k - memDropped \in 1..m
        /\ lo + (k - memDropped') = k - memDropped
    BY <1>1, <1>2, <1>9, <1>11
  <2> QED BY <1>7, <1>10, <2>1
<1>16. ASSUME NEW i \in 1..n, memLast + i > memDropped'
       PROVE  memChunks'[memLast + i - memDropped'].source = normalizeTranscriptSource(b[i])
  <2> HIDE DEF lo
  <2>1. memLast + i - memDropped' \in 1..(m + n - lo)
        /\ lo + (memLast + i - memDropped') = m + i
    BY <1>1, <1>2, <1>9, <1>11, <1>16
  <2>2. memChunks'[memLast + i - memDropped'] = entries[i]
    BY <1>7, <1>10, <2>1
  <2> QED BY <1>5, <2>2
<1> HIDE DEF lo
<1> QED BY <1>12, <1>13, <1>14, <1>15, <1>16 DEF n

\* The highest of some numbered chunks are numbered too.
LEMMA HighestAreNumbered ==
  ASSUME NEW C, NEW lo, NEW hi, Numbered(C, lo, hi), NEW m \in Nat, lo <= m, m <= hi,
         NEW K \in SUBSET C, Cardinality(K) = hi - m, \A c \in K, d \in C \ K : c.seq >= d.seq
  PROVE  Numbered(K, m, hi) /\ Cardinality(C \ K) = m - lo
<1> DEFINE T == {c \in C : c.seq > m}
<1>1. /\ lo \in Nat /\ hi \in Nat /\ lo <= hi
      /\ \A c \in C : c.seq \in (lo + 1)..hi
      /\ \A k \in (lo + 1)..hi : \E c \in C : c.seq = k
      /\ \A c, d \in C : c.seq = d.seq => c = d
  BY DEF Numbered
<1>2. IsFiniteSet(C) /\ Cardinality(C) = hi - lo
  BY NumbersCount
<1>3. Numbered(T, m, hi)
  <2>1. \A c \in T : c \in C /\ c.seq \in (m + 1)..hi
    BY <1>1
  <2>2. \A k \in (m + 1)..hi : \E c \in T : c.seq = k
    <3> SUFFICES ASSUME NEW k \in (m + 1)..hi
                 PROVE  \E c \in T : c.seq = k
      OBVIOUS
    <3>1. k \in (lo + 1)..hi /\ k > m
      BY <1>1
    <3>2. PICK c \in C : c.seq = k
      BY <1>1, <3>1
    <3> QED BY <3>1, <3>2
  <2> HIDE DEF T
  <2> QED BY <1>1, <2>1, <2>2 DEF Numbered
<1>4. IsFiniteSet(T) /\ Cardinality(T) = hi - m
  BY <1>3, NumbersCount
<1>5. T \subseteq K
  <2> SUFFICES ASSUME NEW d \in T, d \notin K
               PROVE  FALSE
    OBVIOUS
  <2>1. K \subseteq T \ {d}
    <3> SUFFICES ASSUME NEW c \in K
                 PROVE  c \in T /\ c # d
      OBVIOUS
    <3>1. c \in C /\ c.seq >= d.seq /\ d.seq > m /\ c.seq \in (lo + 1)..hi /\ d.seq \in (lo + 1)..hi
      BY <1>1
    <3> QED BY <1>1, <3>1
  <2> HIDE DEF T
  <2>2. IsFiniteSet(T \ {d}) /\ Cardinality(T \ {d}) = Cardinality(T) - 1
    BY <1>4, FS_RemoveElement
  <2>3. Cardinality(K) <= Cardinality(T \ {d})
    BY <2>1, <2>2, FS_Subset
  <2> QED BY <1>1, <1>4, <2>2, <2>3
<1>6. K = T
  <2> HIDE DEF T
  <2>1. IsFiniteSet(K)
    BY <1>2, FS_Subset
  <2> QED BY <1>4, <1>5, <2>1, FS_Subset
<1>7. Cardinality(C \ K) = m - lo
  <2>1. IsFiniteSet(C) /\ K \subseteq C
    BY <1>2
  <2>2. Cardinality(C \ K) = Cardinality(C) - Cardinality(C \cap K) /\ C \cap K = K
    BY <2>1, FS_Difference
  <2>3. Cardinality(C \ K) = (hi - lo) - (hi - m)
    BY <1>2, <2>2
  <2> QED BY <1>1, <2>3
<1> QED BY <1>3, <1>6, <1>7

\* The next number is added.
LEMMA NextIsNumbered ==
  ASSUME NEW C, NEW lo, NEW hi, Numbered(C, lo, hi), NEW c, c.seq = hi + 1
  PROVE  Numbered(C \cup {c}, lo, hi + 1)
<1>1. /\ lo \in Nat /\ hi \in Nat /\ lo <= hi
      /\ \A d \in C : d.seq \in (lo + 1)..hi
      /\ \A k \in (lo + 1)..hi : \E d \in C : d.seq = k
      /\ \A d, e \in C : d.seq = e.seq => d = e
  BY DEF Numbered
<1>2. \A d \in C \cup {c} : d.seq \in (lo + 1)..(hi + 1)
  BY <1>1
<1>3. \A k \in (lo + 1)..(hi + 1) : \E d \in C \cup {c} : d.seq = k
  <2> SUFFICES ASSUME NEW k \in (lo + 1)..(hi + 1)
               PROVE  \E d \in C \cup {c} : d.seq = k
    OBVIOUS
  <2>1. k \in (lo + 1)..hi \/ k = hi + 1
    BY <1>1
  <2> QED BY <1>1, <2>1
<1>4. \A d \in C : d.seq # hi + 1
  BY <1>1
<1>5. \A d, e \in C \cup {c} : d.seq = e.seq => d = e
  BY <1>1, <1>4
<1> QED BY <1>1, <1>2, <1>3, <1>5 DEF Numbered

\* An append begins on both.
LEMMA AppendBegins ==
  ASSUME ParityInv, NEW h \in Handlers, NEW b \in Batches, AppendBoth(h, b)
  PROVE  ParityInv'
<1>1. /\ SqlIdle /\ AppendTranscript(h, Len(b), stored) /\ Memory!MemAppendTranscript(b)
      /\ batch' = b /\ UNCHANGED <<sqlRows, stored, now>>
  BY DEF AppendBoth
<1>2. b \in Seq(AnySource) /\ b # <<>> /\ Len(b) \in Nat /\ Len(b) > 0
  <2>1. PICK n \in 1..MaxBatch : b \in [1..n -> AnySource]
    BY DEF Batches
  <2> QED BY <2>1
<1>3. MemoryIsTheRest /\ memDropped \in Nat /\ memLast \in Nat
  BY DEF ParityInv, MemoryIsTheRest
<1>4. /\ chunks \subseteq Chunks /\ meta \in Metas /\ op \in [Handlers -> Ops]
      /\ stored \in Nat /\ batch \in Seq(AnySource) /\ memLast = stored + Len(batch)
      /\ SourcesAgree /\ IdleAgrees
  BY <1>1 DEF ParityInv, TranscriptsAgree
<1>5. memLast = stored /\ Numbered(chunks, memDropped, memLast)
  <2>1. Len(batch) = 0
    BY <1>4 DEF IdleAgrees
  <2> QED BY <1>4, <2>1 DEF IdleAgrees
<1>6. TranscriptSummary.last = memLast /\ TranscriptSummary.dropped = memDropped
  BY <1>1, IdleSummary DEF Memory!MemTranscriptSummary
<1>7. /\ MemoryIsTheRest' /\ memLast' = memLast + Len(b)
      /\ memDropped' = IF memLast' - memDropped > Retention THEN memLast' - Retention
                       ELSE memDropped
      /\ \A k \in (memDropped' + 1)..memLast :
           memChunks'[k - memDropped'].source = memChunks[k - memDropped].source
      /\ \A i \in 1..Len(b) : memLast + i > memDropped' =>
           memChunks'[memLast + i - memDropped'].source = normalizeTranscriptSource(b[i])
  BY <1>1, <1>2, <1>3, MemoryAppends
<1> DEFINE last == TranscriptSummary.last
           dropped == TranscriptSummary.dropped
           todo == Len(b)
           x == [Idle EXCEPT !.pc = "insert", !.todo = todo, !.last = last, !.dropped = dropped]
<1>8. op' = [op EXCEPT ![h] = x] /\ chunks' = chunks /\ meta' = meta
  BY <1>1 DEF AppendTranscript
<1>9. /\ op' \in [Handlers -> Ops]
      /\ x.pc = "insert" /\ x.todo = Len(b) /\ x.last = memLast /\ x.dropped = memDropped
  <2>1. last = memLast /\ dropped = memDropped /\ last \in Nat /\ dropped \in Nat
        /\ todo \in Nat
    BY <1>2, <1>3, <1>6
  <2> HIDE DEF last, dropped, todo
  <2>2. /\ x \in Ops /\ x.pc = "insert"
        /\ x.todo = todo /\ x.last = last /\ x.dropped = dropped
    BY <2>1, IdleIsAnOp DEF Ops
  <2> HIDE DEF x
  <2> QED BY <1>4, <1>8, <2>1, <2>2 DEF todo
<1> HIDE DEF x
<1>10. \A g \in Handlers \ {h} : op'[g].pc = "idle"
  BY <1>1, <1>4, <1>8 DEF SqlIdle
<1>11. /\ op'[h].pc = "insert" /\ op'[h].todo = Len(b) /\ op'[h].last = memLast
       /\ op'[h].dropped = memDropped
  BY <1>4, <1>8, <1>9
<1>12. SourcesAgree'
  <2>1. ASSUME NEW c \in chunks, c.seq > memDropped'
        PROVE  c.source = memChunks'[c.seq - memDropped'].source
    <3>1. c.seq \in (memDropped + 1)..memLast /\ memDropped' \in Nat
      BY <1>5, <1>7 DEF Numbered, MemoryIsTheRest
    <3>2. c.seq \in (memDropped' + 1)..memLast /\ c.seq > memDropped
      BY <1>3, <2>1, <3>1
    <3>3. c.source = memChunks[c.seq - memDropped].source
      BY <1>4, <3>2 DEF SourcesAgree
    <3> QED BY <1>7, <3>2, <3>3
  <2>2. \A c \in chunks : c.id = c.seq
    BY <1>4 DEF SourcesAgree
  <2>3. \A i \in 1..Len(b) : stored + i > memDropped' =>
          memChunks'[stored + i - memDropped'].source = normalizeTranscriptSource(b[i])
    BY <1>5, <1>7
  <2> QED BY <1>1, <1>8, <2>1, <2>2, <2>3 DEF SourcesAgree
<1>13. AppendAgrees(h)'
  BY <1>1, <1>2, <1>5, <1>7, <1>8, <1>10, <1>11 DEF AppendAgrees
<1>14. ~SqlIdle'
  BY <1>11 DEF SqlIdle
<1>15. \A g \in Handlers : op'[g].pc # "idle" => AppendAgrees(g)'
  BY <1>10, <1>13
<1>16. TranscriptsAgree'
  <2>1. memLast' = stored' + Len(batch') /\ stored' \in Nat /\ batch' \in Seq(AnySource)
    BY <1>1, <1>2, <1>4, <1>5, <1>7
  <2> QED BY <1>4, <1>8, <1>9, <1>12, <1>14, <1>15, <2>1 DEF TranscriptsAgree
<1>17. RowsAgree'
  <2>1. memRows' = memRows
    BY <1>1 DEF Memory!MemAppendTranscript
  <2> QED BY <1>1, <2>1 DEF ParityInv, RowsAgree
<1> QED BY <1>7, <1>16, <1>17 DEF ParityInv

\* What is known while a handler is at work.
LEMMA AtWork ==
  ASSUME ParityInv, NEW h \in Handlers, op[h].pc # "idle"
  PROVE  /\ MemoryIsTheRest /\ memDropped \in Nat /\ memLast \in Nat
         /\ chunks \subseteq Chunks /\ meta \in Metas /\ op \in [Handlers -> Ops] /\ op[h] \in Ops
         /\ stored \in Nat /\ batch \in Seq(AnySource) /\ memLast = stored + Len(batch)
         /\ SourcesAgree /\ AppendAgrees(h)
<1>1. MemoryIsTheRest /\ memDropped \in Nat /\ memLast \in Nat
  BY DEF ParityInv, MemoryIsTheRest
<1>2. op \in [Handlers -> Ops]
  BY DEF ParityInv, TranscriptsAgree
<1> QED BY <1>1, <1>2 DEF ParityInv, TranscriptsAgree

\* A handler moves on, or ends: the others are idle.
LEMMA WorkGoesOn ==
  ASSUME ParityInv, NEW h \in Handlers, op[h].pc # "idle", NEW x \in Ops,
         op' = [op EXCEPT ![h] = x],
         UNCHANGED <<memChunks, memLast, memDropped, memRows, sqlRows, now>>,
         chunks' \subseteq Chunks, meta' \in Metas, stored' \in Nat, batch' \in Seq(AnySource),
         memLast = stored' + Len(batch'), SourcesAgree',
         x.pc = "idle" => IdleAgrees', x.pc # "idle" => AppendAgrees(h)'
  PROVE  ParityInv'
<1>1. op \in [Handlers -> Ops] /\ AppendAgrees(h)
  BY AtWork
<1>2. op' \in [Handlers -> Ops] /\ op'[h] = x /\ \A g \in Handlers \ {h} : op'[g].pc = "idle"
  BY <1>1 DEF AppendAgrees
<1>3. MemoryIsTheRest'
  BY DEF ParityInv, MemoryIsTheRest
<1>4. RowsAgree'
  BY DEF ParityInv, RowsAgree
<1>5. (SqlIdle => IdleAgrees)'
  BY <1>2 DEF SqlIdle
<1>6. \A g \in Handlers : op'[g].pc # "idle" => AppendAgrees(g)'
  BY <1>2
<1>7. TranscriptsAgree'
  BY <1>2, <1>5, <1>6 DEF TranscriptsAgree
<1> QED BY <1>3, <1>4, <1>7 DEF ParityInv

\* Each statement of an append brings SQLite nearer to memory: a chunk is inserted,
LEMMA InsertCatchesUp ==
  ASSUME ParityInv, NEW h \in Handlers, batch # <<>>, InsertChunk(h, Head(batch), stored),
         batch' = Tail(batch), stored' = stored + 1,
         UNCHANGED <<memVars, sqlRows, now>>
  PROVE  ParityInv'
<1> DEFINE source == normalizeTranscriptSource(Head(batch))
           c == [id |-> stored + 1, seq |-> op[h].last + 1, source |-> source]
           n == Len(batch)
           x == [op[h] EXCEPT !.todo = op[h].todo - 1, !.last = op[h].last + 1,
                              !.pc = IF op[h].todo = 1 THEN "prune" ELSE "insert"]
<1>1. op[h].pc = "insert" /\ op[h].pc # "idle"
  BY DEF InsertChunk
<1>2. /\ memDropped \in Nat /\ memLast \in Nat /\ chunks \subseteq Chunks /\ meta \in Metas
      /\ op \in [Handlers -> Ops] /\ op[h] \in Ops /\ stored \in Nat
      /\ batch \in Seq(AnySource) /\ memLast = stored + n /\ SourcesAgree /\ AppendAgrees(h)
  BY <1>1, AtWork
<1>3. /\ op[h].last = stored /\ op[h].todo = n /\ Numbered(chunks, op[h].dropped, stored)
      /\ \A g \in Handlers \ {h} : op[g].pc = "idle"
      /\ memDropped = IF memLast - op[h].dropped > Retention THEN memLast - Retention
                      ELSE op[h].dropped
  BY <1>1, <1>2 DEF AppendAgrees
<1>4. n \in Nat /\ n > 0
  BY <1>2
<1>5. /\ Tail(batch) \in Seq(AnySource) /\ Len(Tail(batch)) = n - 1 /\ Head(batch) = batch[1]
      /\ \A i \in 1..(n - 1) : Tail(batch)[i] = batch[i + 1]
  BY <1>2
<1>6. source \in Sources /\ source = normalizeTranscriptSource(batch[1])
  BY <1>5, TranscriptBounds DEF normalizeTranscriptSource
<1> HIDE DEF source, n
<1>7. op' = [op EXCEPT ![h] = x]
  BY <1>2 DEF InsertChunk
<1>8. chunks' = chunks \cup {c} /\ meta' = meta
  BY DEF InsertChunk, source
<1>9. /\ x \in Ops /\ x.todo = n - 1 /\ x.last = stored + 1 /\ x.dropped = op[h].dropped
      /\ x.pc = IF n = 1 THEN "prune" ELSE "insert"
  <2> DEFINE y == op[h]
             pc == IF n = 1 THEN "prune" ELSE "insert"
  <2>1. y \in Ops /\ pc \in {"insert", "prune"} /\ n - 1 \in Nat /\ stored + 1 \in Nat
    BY <1>2, <1>4
  <2>2. x = [y EXCEPT !.todo = n - 1, !.last = stored + 1, !.pc = pc]
    BY <1>3
  <2> HIDE DEF y, pc, x
  <2>3. /\ x \in Ops /\ x.todo = n - 1 /\ x.last = stored + 1 /\ x.dropped = y.dropped
        /\ x.pc = pc
    BY <2>1, <2>2 DEF Ops
  <2> QED BY <2>3 DEF y, pc
<1>10. c.id = stored + 1 /\ c.seq = stored + 1 /\ c.source = source /\ c \in Chunks
  BY <1>2, <1>3, <1>6 DEF Chunks
<1> HIDE DEF c, x
<1>11. op'[h] = x
  BY <1>2, <1>7
<1>12. Numbered(chunks', x.dropped, stored + 1)
  BY <1>3, <1>8, <1>9, <1>10, NextIsNumbered
<1>13. SourcesAgree'
  <2>1. ASSUME NEW i \in 1..n, stored + i > memDropped
        PROVE  memChunks[stored + i - memDropped].source = normalizeTranscriptSource(batch[i])
    BY <1>2, <2>1 DEF SourcesAgree, n
  <2>2. c.seq > memDropped => c.source = memChunks[c.seq - memDropped].source
    <3>1. 1 \in 1..n /\ (c.seq > memDropped => stored + 1 > memDropped)
      BY <1>4, <1>10
    <3>2. c.seq - memDropped = stored + 1 - memDropped
      BY <1>2, <1>10
    <3> QED BY <1>6, <1>10, <2>1, <3>1, <3>2
  <2>3. \A d \in chunks' : d.seq > memDropped => d.source = memChunks[d.seq - memDropped].source
    BY <1>2, <1>8, <2>2 DEF SourcesAgree
  <2>4. \A d \in chunks' : d.id = d.seq
    BY <1>2, <1>8, <1>10 DEF SourcesAgree
  <2>5. ASSUME NEW i \in 1..(n - 1), stored + 1 + i > memDropped
        PROVE  memChunks[stored + 1 + i - memDropped].source
                 = normalizeTranscriptSource(Tail(batch)[i])
    <3>1. /\ i + 1 \in 1..n /\ stored + (i + 1) > memDropped
          /\ stored + (i + 1) - memDropped = stored + 1 + i - memDropped
      BY <1>2, <1>4, <2>5
    <3>2. memChunks[stored + (i + 1) - memDropped].source = normalizeTranscriptSource(batch[i + 1])
      BY <2>1, <3>1
    <3> QED BY <1>5, <3>1, <3>2
  <2>6. memChunks' = memChunks /\ memDropped' = memDropped /\ Len(batch') = n - 1
    BY <1>5 DEF memVars
  <2> QED BY <2>3, <2>4, <2>5, <2>6 DEF SourcesAgree
<1>14. AppendAgrees(h)'
  <2>1. \A g \in Handlers \ {h} : op'[g].pc = "idle"
    BY <1>2, <1>3, <1>7
  <2>2. Len(batch') = n - 1 /\ (n # 1 => batch' # <<>>) /\ (n = 1 => batch' = <<>>)
    <3> DEFINE rest == Tail(batch)
    <3>1. batch' = rest /\ rest \in Seq(AnySource) /\ Len(rest) = n - 1
      BY <1>5
    <3> HIDE DEF rest
    <3>2. rest = <<>> <=> Len(rest) = 0
      BY <3>1, EmptySeq
    <3> QED BY <1>4, <3>1, <3>2
  <2>3. memLast' = memLast /\ memDropped' = memDropped
    BY DEF memVars
  <2> QED BY <1>3, <1>9, <1>11, <1>12, <2>1, <2>2, <2>3 DEF AppendAgrees
<1>15. chunks' \subseteq Chunks /\ meta' \in Metas /\ stored' \in Nat /\ batch' \in Seq(AnySource)
  BY <1>2, <1>5, <1>8, <1>10
<1>16. memLast = stored' + Len(batch')
  BY <1>2, <1>4, <1>5
<1>17. x.pc # "idle" /\ UNCHANGED <<memChunks, memLast, memDropped, memRows, sqlRows, now>>
  BY <1>9 DEF memVars
<1> QED BY <1>1, <1>7, <1>9, <1>13, <1>14, <1>15, <1>16, <1>17, WorkGoesOn

\* what memory has dropped is pruned,
LEMMA PruneCatchesUp ==
  ASSUME ParityInv, NEW h \in Handlers, PruneTranscript(h),
         UNCHANGED <<memVars, sqlRows, batch, stored, now>>
  PROVE  ParityInv'
<1>1. op[h].pc = "prune" /\ op[h].pc # "idle"
  BY DEF PruneTranscript
<1>2. /\ memDropped \in Nat /\ memLast \in Nat /\ chunks \subseteq Chunks /\ meta \in Metas
      /\ op \in [Handlers -> Ops] /\ op[h] \in Ops /\ stored \in Nat
      /\ batch \in Seq(AnySource) /\ memLast = stored + Len(batch)
      /\ SourcesAgree /\ AppendAgrees(h)
  BY <1>1, AtWork
<1> DEFINE D == op[h].dropped
<1>3. /\ op[h].last = stored /\ batch = <<>> /\ Numbered(chunks, D, stored)
      /\ \A g \in Handlers \ {h} : op[g].pc = "idle"
      /\ memDropped = IF memLast - D > Retention THEN memLast - Retention ELSE D
  BY <1>1, <1>2 DEF AppendAgrees
<1>4. memLast = stored
  <2>1. Len(batch) = 0
    BY <1>3
  <2> QED BY <1>2, <2>1
<1>5. D \in Nat /\ D <= stored /\ IsFiniteSet(chunks) /\ Cardinality(chunks) = stored - D
  <2> HIDE DEF D
  <2>1. D \in Nat /\ D <= stored
    BY <1>3 DEF Numbered
  <2> QED BY <1>3, <2>1, NumbersCount
<1>6. PICK K \in SUBSET chunks :
        /\ PruneKeeps(K) /\ chunks' = K /\ meta' = meta
        /\ op' = [op EXCEPT ![h].pc = "count", ![h].dropped = @ + Cardinality(chunks \ K)]
  BY DEF PruneTranscript
<1>7. Cardinality(K) = stored - memDropped /\ D <= memDropped /\ memDropped <= stored
  <2> HIDE DEF D
  <2>1. Cardinality(K) = IF stored - D < Retention THEN stored - D ELSE Retention
    BY <1>5, <1>6 DEF PruneKeeps
  <2>2. memDropped = IF stored - D > Retention THEN stored - Retention ELSE D
    BY <1>3, <1>4
  <2> DEFINE k == Cardinality(K)
  <2>3. k = IF stored - D < Retention THEN stored - D ELSE Retention
    BY <2>1
  <2> HIDE DEF k
  <2>4. k = stored - memDropped /\ D <= memDropped /\ memDropped <= stored
    BY <1>2, <1>5, <2>2, <2>3, RetentionType
  <2> QED BY <2>4 DEF k
<1>8. Numbered(K, memDropped, stored) /\ Cardinality(chunks \ K) = memDropped - D
  <2> HIDE DEF D
  <2>1. \A c \in K, d \in chunks \ K : c.seq >= d.seq
    BY <1>6 DEF PruneKeeps
  <2> QED BY <1>2, <1>3, <1>7, <2>1, HighestAreNumbered
<1> DEFINE x == [op[h] EXCEPT !.pc = "count", !.dropped = D + Cardinality(chunks \ K)]
<1>9. op' = [op EXCEPT ![h] = x]
  BY <1>2, <1>6
<1>10. x \in Ops /\ x.pc = "count" /\ x.last = stored /\ x.dropped = memDropped
  <2>1. D + Cardinality(chunks \ K) = memDropped
    <3> HIDE DEF D
    <3> QED BY <1>2, <1>5, <1>8
  <2>2. D + Cardinality(chunks \ K) \in Nat
    BY <1>2, <2>1
  <2> QED BY <1>2, <1>3, <2>1, <2>2 DEF Ops
<1> HIDE DEF D, x
<1>11. op'[h] = x /\ \A g \in Handlers \ {h} : op'[g].pc = "idle"
  BY <1>2, <1>3, <1>9
<1>12. SourcesAgree'
  BY <1>2, <1>6 DEF SourcesAgree, memVars
<1>13. AppendAgrees(h)'
  BY <1>3, <1>6, <1>8, <1>10, <1>11 DEF AppendAgrees, memVars
<1>14. chunks' \subseteq Chunks /\ meta' \in Metas
  BY <1>2, <1>6
<1>15. UNCHANGED <<memChunks, memLast, memDropped, memRows, sqlRows, now>>
  BY DEF memVars
<1> QED BY <1>1, <1>2, <1>9, <1>10, <1>12, <1>13, <1>14, <1>15, WorkGoesOn

\* what memory keeps is counted,
LEMMA CountCatchesUp ==
  ASSUME ParityInv, NEW h \in Handlers, CountRetained(h),
         UNCHANGED <<memVars, sqlRows, batch, stored, now>>
  PROVE  ParityInv'
<1>1. op[h].pc = "count" /\ op[h].pc # "idle" /\ chunks' = chunks /\ meta' = meta
  BY DEF CountRetained
<1>2. /\ MemoryIsTheRest /\ memDropped \in Nat /\ chunks \subseteq Chunks /\ meta \in Metas
      /\ op \in [Handlers -> Ops] /\ op[h] \in Ops /\ stored \in Nat
      /\ batch \in Seq(AnySource) /\ memLast = stored + Len(batch)
      /\ SourcesAgree /\ AppendAgrees(h)
  BY <1>1, AtWork
<1>3. /\ op[h].last = stored /\ batch = <<>> /\ op[h].dropped = memDropped
      /\ Numbered(chunks, memDropped, stored) /\ \A g \in Handlers \ {h} : op[g].pc = "idle"
  BY <1>1, <1>2 DEF AppendAgrees
<1> DEFINE n == Cardinality(chunks)
           x == [op[h] EXCEPT !.pc = "save", !.kept = n]
<1>4. n = Len(memChunks) /\ n \in Nat
  <2>1. n = stored - memDropped
    BY <1>3, NumbersCount
  <2>2. Len(batch) = 0 /\ Len(memChunks) \in Nat
    BY <1>2, <1>3 DEF MemoryIsTheRest
  <2>3. memLast = memDropped + Len(memChunks)
    BY <1>2 DEF MemoryIsTheRest
  <2> HIDE DEF n
  <2> QED BY <1>2, <2>1, <2>2, <2>3
<1>5. op' = [op EXCEPT ![h] = x]
  BY <1>2 DEF CountRetained
<1> HIDE DEF n
<1>6. /\ x \in Ops /\ x.pc = "save" /\ x.last = stored /\ x.dropped = memDropped
      /\ x.kept = Len(memChunks)
  BY <1>2, <1>3, <1>4 DEF Ops
<1> HIDE DEF x
<1>7. op'[h] = x /\ \A g \in Handlers \ {h} : op'[g].pc = "idle"
  BY <1>2, <1>3, <1>5
<1>8. UNCHANGED <<memChunks, memLast, memDropped, memRows, sqlRows, now>>
  BY DEF memVars
<1>9. SourcesAgree'
  BY <1>1, <1>2, <1>8 DEF SourcesAgree
<1>10. AppendAgrees(h)'
  BY <1>1, <1>3, <1>6, <1>7, <1>8 DEF AppendAgrees
<1> QED BY <1>1, <1>2, <1>5, <1>6, <1>8, <1>9, <1>10, WorkGoesOn

\* and the counters memory has are saved.
LEMMA SaveCatchesUp ==
  ASSUME ParityInv, NEW h \in Handlers, SaveTranscriptMeta(h),
         UNCHANGED <<memVars, sqlRows, batch, stored, now>>
  PROVE  ParityInv'
<1>1. /\ op[h].pc = "save" /\ op[h].pc # "idle" /\ chunks' = chunks
      /\ meta' = [saved |-> TRUE, retained |-> op[h].kept, dropped |-> op[h].dropped,
                  last |-> op[h].last]
      /\ op' = [op EXCEPT ![h] = Idle]
  BY DEF SaveTranscriptMeta
<1>2. /\ memDropped \in Nat /\ chunks \subseteq Chunks
      /\ op \in [Handlers -> Ops] /\ op[h] \in Ops /\ stored \in Nat
      /\ batch \in Seq(AnySource) /\ memLast = stored + Len(batch)
      /\ SourcesAgree /\ AppendAgrees(h)
  BY <1>1, AtWork
<1>3. /\ op[h].last = stored /\ batch = <<>> /\ op[h].dropped = memDropped
      /\ Numbered(chunks, memDropped, stored) /\ op[h].kept = Len(memChunks)
  BY <1>1, <1>2 DEF AppendAgrees
<1>4. memLast = stored
  <2>1. Len(batch) = 0
    BY <1>3
  <2> QED BY <1>2, <2>1
<1>5. /\ meta' \in Metas /\ meta'.dropped = memDropped /\ meta'.last = memLast
      /\ meta'.retained = Len(memChunks)
  BY <1>1, <1>2, <1>3, <1>4 DEF Metas, Ops
<1>6. UNCHANGED <<memChunks, memLast, memDropped, memRows, sqlRows, now>>
  BY DEF memVars
<1>7. SourcesAgree'
  BY <1>1, <1>2, <1>6 DEF SourcesAgree
<1>8. IdleAgrees'
  BY <1>1, <1>3, <1>5, <1>6 DEF IdleAgrees
<1> QED BY <1>1, <1>2, <1>5, <1>6, <1>7, <1>8, IdleIsAnOp, WorkGoesOn

\* A review, an acknowledgment or an event is stored by both.
LEMMA RowAdded ==
  ASSUME ParityInv, NEW kind \in Memory!Kinds, NEW session \in Sessions,
         NEW scope \in Sources \cup {""}, NewRow(kind), SqlInsertRow(kind, session, scope),
         memRows' = Append(memRows, [kind |-> kind, session |-> session, scope |-> scope,
                                     at |-> now]),
         UNCHANGED <<memChunks, memLast, memDropped>>
  PROVE  ParityInv'
<1> DEFINE r == [kind |-> kind, session |-> session, scope |-> scope, at |-> now]
<1>1. r \in Memory!Rows
  <2>1. now \in Nat
    BY DEF ParityInv, RowsAgree
  <2> QED BY <2>1 DEF Memory!Rows
<1>2. memRows' = Append(memRows, r) /\ sqlRows' = sqlRows \cup {r}
  BY DEF SqlInsertRow
<1>3. UNCHANGED <<storeVars, batch, stored, now, memChunks, memLast, memDropped>>
  BY DEF NewRow
<1> HIDE DEF r
<1> QED BY <1>1, <1>2, <1>3, RowKeeps

\* Time passes.
LEMMA TimeKeeps ==
  ASSUME ParityInv, now' \in Nat, UNCHANGED <<storeVars, memVars, sqlRows, batch, stored>>
  PROVE  ParityInv'
<1>1. RowsAgree'
  BY DEF ParityInv, RowsAgree, memVars
<1>2. MemoryIsTheRest'
  BY DEF ParityInv, MemoryIsTheRest, memVars
<1>3. TranscriptsAgree'
  BY DEF ParityInv, TranscriptsAgree, SourcesAgree, IdleAgrees, AppendAgrees, SqlIdle,
         storeVars, memVars
<1> QED BY <1>1, <1>2, <1>3 DEF ParityInv

LEMMA NextParity == ParityInv /\ [ParityNext]_parityVars => ParityInv'
<1> SUFFICES ASSUME ParityInv, [ParityNext]_parityVars
             PROVE  ParityInv'
  OBVIOUS
<1>1. now \in Nat
  BY DEF ParityInv, RowsAgree
<1>2. CASE Tick
  <2>1. now' \in Nat
    BY <1>1, <1>2 DEF Tick
  <2> QED BY <1>2, <2>1, TimeKeeps DEF Tick
<1>3. ASSUME NEW h \in Handlers, NEW b \in Batches, AppendBoth(h, b)
      PROVE  ParityInv'
  BY <1>3, AppendBegins
<1>4. ASSUME NEW h \in Handlers, FinishAppend(h)
      PROVE  ParityInv'
  <2>1. CASE /\ batch # <<>> /\ InsertChunk(h, Head(batch), stored) /\ batch' = Tail(batch)
             /\ stored' = stored + 1 /\ UNCHANGED <<memVars, sqlRows, now>>
    BY <2>1, InsertCatchesUp
  <2>2. CASE PruneTranscript(h) /\ UNCHANGED <<memVars, sqlRows, batch, stored, now>>
    BY <2>2, PruneCatchesUp
  <2>3. CASE CountRetained(h) /\ UNCHANGED <<memVars, sqlRows, batch, stored, now>>
    BY <2>3, CountCatchesUp
  <2>4. CASE SaveTranscriptMeta(h) /\ UNCHANGED <<memVars, sqlRows, batch, stored, now>>
    BY <2>4, SaveCatchesUp
  <2> QED BY <1>4, <2>1, <2>2, <2>3, <2>4 DEF FinishAppend
<1>5. ASSUME NEW s \in Sessions, NEW scope \in Sources \cup {""}, AppendReview(s, scope)
      PROVE  ParityInv'
  <2>1. "review" \in Memory!Kinds
    BY DEF Memory!Kinds
  <2> QED BY <1>5, <2>1, RowAdded DEF AppendReview, Memory!MemAppendTranscriptReview
<1>6. ASSUME NEW s \in Sessions, AppendAcknowledgment(s)
      PROVE  ParityInv'
  <2>1. "ack" \in Memory!Kinds
    BY DEF Memory!Kinds
  <2> QED BY <1>6, <2>1, RowAdded DEF AppendAcknowledgment, Memory!MemAppendAcknowledgment
<1>7. ASSUME NEW s \in Sessions, AppendEvent(s)
      PROVE  ParityInv'
  <2>1. "event" \in Memory!Kinds
    BY DEF Memory!Kinds
  <2> QED BY <1>7, <2>1, RowAdded DEF AppendEvent, Memory!MemAppendEvent
<1>8. CASE UNCHANGED parityVars
  BY <1>1, <1>8, TimeKeeps DEF parityVars
<1> QED BY <1>2, <1>3, <1>4, <1>5, <1>6, <1>7, <1>8 DEF ParityNext

(* The two registries stay in step through every append: memory has all of it   *)
(* at once, and SQLite, which inserts chunk by chunk, prunes, counts and only   *)
(* then saves its row of counters, comes to the same numbers.                   *)
THEOREM ParityInvariance == ParitySpec => []ParityInv
<1>1. ParityInit => ParityInv
  BY InitParity
<1>2. ParityInv /\ [ParityNext]_parityVars => ParityInv'
  BY NextParity
<1> QED BY <1>1, <1>2, PTL DEF ParitySpec

-----------------------------------------------------------------------------
(* RegistryParity: what is read.                                                *)

\* Both have the same rows of a kind.
LEMMA RowsOfAgree ==
  ASSUME ParityInv, NEW kind
  PROVE  /\ Memory!MemRowsOf(kind) = SqlRowsOf(kind) /\ IsFiniteSet(SqlRowsOf(kind))
         /\ \A r \in SqlRowsOf(kind) : r.at \in Nat
<1>1. /\ memRows \in Seq(Memory!Rows) /\ sqlRows = {memRows[i] : i \in 1..Len(memRows)}
      /\ IsFiniteSet(sqlRows)
  BY DEF ParityInv, RowsAgree
<1>2. Memory!MemRowsOf(kind) = SqlRowsOf(kind)
  BY <1>1 DEF Memory!MemRowsOf, SqlRowsOf
<1>3. SqlRowsOf(kind) \in SUBSET sqlRows
  BY DEF SqlRowsOf
<1>4. \A i \in 1..Len(memRows) : memRows[i] \in Memory!Rows
  BY <1>1
<1>5. \A r \in Memory!Rows : r.at \in Nat
  BY DEF Memory!Rows
<1>6. \A r \in SqlRowsOf(kind) : r.at \in Nat
  BY <1>1, <1>3, <1>4, <1>5
<1> QED BY <1>1, <1>2, <1>3, <1>6, FS_Subset

\* The sequences two registries answer with are of the same seconds.
Near(sql, mem) ==
  /\ Len(sql) = Len(mem)
  /\ \A i \in 1..Len(sql) : sql[i].at \div Second = mem[i].at \div Second

\* Whatever rows of a kind are asked for.
LEMMA ListsAreNear ==
  ASSUME ParityInv, NEW kind, NEW S \in SUBSET SqlRowsOf(kind), NEW n \in Nat
  PROVE  Near(SqlNewest(S, n), Memory!MemNewest(S, n))
<1>1. IsFiniteSet(S) /\ \A r \in S : r.at \in Nat
  BY RowsOfAgree, FS_Subset
<1> QED BY <1>1, NewestAreNear DEF Near

LEMMA LatestAgree == ParityInv => LatestWithinASecond
<1> SUFFICES ASSUME ParityInv
             PROVE  LatestWithinASecond
  OBVIOUS
<1>0. \A n \in 1..2 : n \in Nat
  OBVIOUS
<1>1. ASSUME NEW n \in 1..2, NEW s \in Sessions, NEW c \in Sources \cup {""}
      PROVE  Near(SqlListReviews(s, c, n), Memory!MemListReviews(s, c, n))
  <2> DEFINE S == {r \in SqlRowsOf("review") : r.session = s /\ r.scope = c}
  <2>1. Near(SqlNewest(S, n), Memory!MemNewest(S, n))
    <3>1. S \in SUBSET SqlRowsOf("review")
      OBVIOUS
    <3> HIDE DEF S
    <3> QED BY <1>0, <3>1, ListsAreNear
  <2> QED BY <2>1, RowsOfAgree DEF SqlListReviews, Memory!MemListReviews
<1>2. ASSUME NEW n \in 1..2, NEW s \in Sessions
      PROVE  Near(SqlListReviewsAnyScope(s, n), Memory!MemListReviewsAnyScope(s, n))
  <2> DEFINE S == {r \in SqlRowsOf("review") : r.session = s}
  <2>1. Near(SqlNewest(S, n), Memory!MemNewest(S, n))
    <3>1. S \in SUBSET SqlRowsOf("review")
      OBVIOUS
    <3> HIDE DEF S
    <3> QED BY <1>0, <3>1, ListsAreNear
  <2> QED BY <2>1, RowsOfAgree DEF SqlListReviewsAnyScope, Memory!MemListReviewsAnyScope
<1>3. ASSUME NEW n \in 1..2, NEW t
      PROVE  Near(SqlListAcknowledgments(t, n), Memory!MemListAcknowledgments(t, n))
  <2> DEFINE S == {r \in SqlRowsOf("ack") : t # "" => r.session = t}
  <2>1. Near(SqlNewest(S, n), Memory!MemNewest(S, n))
    <3>1. S \in SUBSET SqlRowsOf("ack")
      OBVIOUS
    <3> HIDE DEF S
    <3> QED BY <1>0, <3>1, ListsAreNear
  <2> QED BY <2>1, RowsOfAgree DEF SqlListAcknowledgments, Memory!MemListAcknowledgments
<1>4. ASSUME NEW n \in 1..2, NEW t
      PROVE  Near(SqlListEvents(t, n), Memory!MemListEvents(t, n))
  <2> DEFINE S == {r \in SqlRowsOf("event") : t # "" => r.session = t}
  <2>1. Near(SqlNewest(S, n), Memory!MemNewest(S, n))
    <3>1. S \in SUBSET SqlRowsOf("event")
      OBVIOUS
    <3> HIDE DEF S
    <3> QED BY <1>0, <3>1, ListsAreNear
  <2> QED BY <2>1, RowsOfAgree DEF SqlListEvents, Memory!MemListEvents
<1>5. \A n \in 1..2, s \in Sessions :
        /\ \A c \in Sources \cup {""} :
             Near(SqlListReviews(s, c, n), Memory!MemListReviews(s, c, n))
        /\ Near(SqlListReviewsAnyScope(s, n), Memory!MemListReviewsAnyScope(s, n))
        /\ \A t \in {s, ""} :
             /\ Near(SqlListAcknowledgments(t, n), Memory!MemListAcknowledgments(t, n))
             /\ Near(SqlListEvents(t, n), Memory!MemListEvents(t, n))
  BY <1>1, <1>2, <1>3, <1>4
<1> QED BY <1>5, Zenon DEF LatestWithinASecond, Near

(* ListTranscriptReviews, ListAcknowledgments and ListEvents: whatever digits   *)
(* the layout of the timestamps has dropped, the order that SQLite gives to the *)
(* texts of created_at puts no row of an earlier second before one of a later.  *)
THEOREM LatestIsOfItsSecond == ParitySpec => []LatestWithinASecond
<1>1. ParityInv => LatestWithinASecond
  BY LatestAgree
<1> QED BY <1>1, ParityInvariance, PTL

\* Between appends a chunk of SQLite is that of memory at the same place.
LEMMA IdleChunks ==
  ASSUME ParityInv, SqlIdle
  PROVE  /\ Len(memChunks) \in Nat /\ memDropped \in Nat
         /\ memChunks \in Seq([seq : Nat, source : Sources])
         /\ \A i \in 1..Len(memChunks) : memChunks[i].seq = memDropped + i
         /\ IsFiniteSet(chunks)
         /\ \A c \in chunks : /\ c.seq \in Nat /\ c.seq - memDropped \in 1..Len(memChunks)
                              /\ memChunks[c.seq - memDropped].source = c.source
                              /\ memChunks[c.seq - memDropped].seq = c.seq
         /\ \A i \in 1..Len(memChunks) : \E c \in chunks : c.seq = memDropped + i
         /\ \A c, d \in chunks : c.seq = d.seq => c = d
<1>1. /\ memChunks \in Seq([seq : Nat, source : Sources]) /\ Len(memChunks) \in Nat
      /\ memDropped \in Nat /\ memLast = memDropped + Len(memChunks)
      /\ \A i \in 1..Len(memChunks) : memChunks[i].seq = memDropped + i
  BY DEF ParityInv, MemoryIsTheRest
<1>2. Numbered(chunks, memDropped, stored) /\ batch = <<>> /\ SourcesAgree
      /\ memLast = stored + Len(batch) /\ stored \in Nat
  BY DEF ParityInv, TranscriptsAgree, IdleAgrees
<1>3. stored = memDropped + Len(memChunks)
  <2>1. Len(batch) = 0
    BY <1>2
  <2> QED BY <1>1, <1>2, <2>1
<1>4. /\ \A c \in chunks : c.seq \in (memDropped + 1)..stored
      /\ \A k \in (memDropped + 1)..stored : \E c \in chunks : c.seq = k
      /\ \A c, d \in chunks : c.seq = d.seq => c = d
  BY <1>2 DEF Numbered
<1>5. ASSUME NEW c \in chunks
      PROVE  /\ c.seq \in Nat /\ c.seq - memDropped \in 1..Len(memChunks)
             /\ memChunks[c.seq - memDropped].source = c.source
             /\ memChunks[c.seq - memDropped].seq = c.seq
  <2>1. /\ c.seq \in Nat /\ c.seq > memDropped /\ c.seq - memDropped \in 1..Len(memChunks)
        /\ memDropped + (c.seq - memDropped) = c.seq
    BY <1>1, <1>3, <1>4
  <2>2. c.source = memChunks[c.seq - memDropped].source
    BY <1>2, <2>1 DEF SourcesAgree
  <2> QED BY <1>1, <2>1, <2>2
<1>6. ASSUME NEW i \in 1..Len(memChunks)
      PROVE  \E c \in chunks : c.seq = memDropped + i
  <2>1. memDropped + i \in (memDropped + 1)..stored
    BY <1>1, <1>3
  <2> QED BY <1>4, <2>1
<1>7. IsFiniteSet(chunks)
  BY <1>2, NumbersCount
<1> QED BY <1>1, <1>4, <1>5, <1>6, <1>7

\* A set of chunks and the places in memory of the same numbers.
LEMMA PlacesCount ==
  ASSUME ParityInv, SqlIdle, NEW C \in SUBSET chunks, NEW I \in SUBSET (1..Len(memChunks)),
         \A c \in chunks : c \in C <=> c.seq - memDropped \in I
  PROVE  IsFiniteSet(C) /\ IsFiniteSet(I) /\ Cardinality(C) = Cardinality(I)
<1> DEFINE f == [c \in C |-> c.seq - memDropped]
<1>1. IsFiniteSet(C)
  BY IdleChunks, FS_Subset
<1>2. \A c \in C : c \in chunks /\ f[c] = c.seq - memDropped /\ f[c] \in I
  OBVIOUS
<1>3. f \in [C -> I]
  BY <1>2
<1>4. ASSUME NEW c \in C, NEW d \in C, f[c] = f[d]
      PROVE  c = d
  <2>1. c.seq - memDropped = d.seq - memDropped
    BY <1>2, <1>4
  <2> HIDE DEF f
  <2>2. c.seq \in Nat /\ d.seq \in Nat /\ memDropped \in Nat
    BY IdleChunks
  <2>3. c.seq = d.seq
    BY <2>1, <2>2
  <2> QED BY <2>3, IdleChunks
<1>5. ASSUME NEW i \in I
      PROVE  \E c \in C : f[c] = i
  <2>1. PICK c \in chunks : c.seq = memDropped + i
    BY IdleChunks
  <2>2. c.seq - memDropped = i
    BY <2>1, IdleChunks
  <2>3. c \in C
    BY <2>2
  <2> QED BY <1>2, <2>2, <2>3
<1> HIDE DEF f
<1>6. f \in Bijection(C, I)
  BY <1>3, <1>4, <1>5 DEF Bijection, Injection, Surjection, IsInjective
<1>7. ExistsBijection(C, I)
  BY <1>6 DEF ExistsBijection
<1> QED BY <1>1, <1>7, FS_Bijection

\* Chunks of a source are counted alike.
LEMMA CountsAgree ==
  ASSUME ParityInv, SqlIdle, NEW source \in Sources
  PROVE  SqlSourceCount(source) = Memory!MemSourceCount(source)
<1> DEFINE C == {c \in chunks : c.source = source}
           I == {i \in 1..Len(memChunks) : memChunks[i].source = source}
<1>1. \A c \in chunks : c \in C <=> c.seq - memDropped \in I
  BY IdleChunks
<1>2. C \in SUBSET chunks /\ I \in SUBSET (1..Len(memChunks))
  OBVIOUS
<1>3. SqlSourceCount(source) = Cardinality(C)
  BY DEF SqlSourceCount
<1>4. Memory!MemSourceCount(source) = Cardinality(I)
  BY MemCounts DEF Memory!MemSourceCount
<1> HIDE DEF C, I
<1> QED BY <1>1, <1>2, <1>3, <1>4, PlacesCount

\* All of a set, by descending numbers, or ascending.
ByNumber(f, S) ==
  /\ f \in [1..Cardinality(S) -> S]
  /\ \A i, j \in 1..Cardinality(S) : i < j => f[i].seq > f[j].seq
  /\ \A c \in S : \E i \in 1..Cardinality(S) : f[i] = c

ByPlace(f, S) ==
  /\ f \in [1..Cardinality(S) -> S]
  /\ \A i, j \in 1..Cardinality(S) : i < j => f[i] < f[j]
  /\ \A c \in S : \E i \in 1..Cardinality(S) : f[i] = c

\* The rows of a query, by descending number.
LEMMA RowsDescend ==
  ASSUME NEW S, IsFiniteSet(S), \A c \in S : c.seq \in Nat, \A c, d \in S : c.seq = d.seq => c = d
  PROVE  ByNumber(Memory!InOrder(S, LAMBDA c, d : c.seq > d.seq), S)
<1> DEFINE n == Cardinality(S)
           f == Memory!InOrder(S, LAMBDA c, d : c.seq > d.seq)
           R == {e \in S \X S : e[1].seq > e[2].seq}
<1>1. \A c, d \in S : <<c, d>> \in R <=> c.seq > d.seq
  OBVIOUS
<1> HIDE DEF R
<1>2. Orders(S, R)
  BY <1>1 DEF Orders
<1>3. PICK h : Arranged(h, S, R)
  BY <1>2, ArrangementExists
<1>4. /\ h \in [1..n -> S]
      /\ \A i, j \in 1..n : i < j => h[i] # h[j] /\ ~(h[j].seq > h[i].seq)
  BY <1>1, <1>3 DEF Arranged
<1>5. f = CHOOSE g \in [1..n -> S] :
            \A i, j \in 1..n : i < j => g[i] # g[j] /\ ~(g[j].seq > g[i].seq)
  BY MemCounts DEF Memory!InOrder
<1> HIDE DEF n
<1>6. /\ f \in [1..n -> S]
      /\ \A i, j \in 1..n : i < j => f[i] # f[j] /\ ~(f[j].seq > f[i].seq)
  <2> HIDE DEF f
  <2> QED BY <1>4, <1>5
<1> HIDE DEF f
<1>7. Arranged(f, S, R)
  BY <1>1, <1>6 DEF Arranged, n
<1>8. \A c \in S : \E i \in 1..n : f[i] = c
  BY <1>7, ArrangedIsOnto DEF n
<1>9. ASSUME NEW i \in 1..n, NEW j \in 1..n, i < j
      PROVE  f[i].seq > f[j].seq
  <2>1. f[i] \in S /\ f[j] \in S /\ f[i] # f[j] /\ ~(f[j].seq > f[i].seq)
    BY <1>6, <1>9
  <2>2. f[i].seq \in Nat /\ f[j].seq \in Nat /\ f[i].seq # f[j].seq
    BY <2>1
  <2> QED BY <2>1, <2>2
<1> QED BY <1>6, <1>8, <1>9 DEF ByNumber, n, f

\* The places of a slice, one after the other.
LEMMA PlacesAscend ==
  ASSUME NEW S \in SUBSET Nat, IsFiniteSet(S)
  PROVE  ByPlace(Memory!InOrder(S, LAMBDA i, j : i < j), S)
<1> DEFINE n == Cardinality(S)
           f == Memory!InOrder(S, LAMBDA i, j : i < j)
           R == {e \in S \X S : e[1] < e[2]}
<1>1. \A c, d \in S : <<c, d>> \in R <=> c < d
  OBVIOUS
<1> HIDE DEF R
<1>2. Orders(S, R)
  BY <1>1 DEF Orders
<1>3. PICK h : Arranged(h, S, R)
  BY <1>2, ArrangementExists
<1>4. /\ h \in [1..n -> S]
      /\ \A i, j \in 1..n : i < j => h[i] # h[j] /\ ~(h[j] < h[i])
  BY <1>1, <1>3 DEF Arranged
<1>5. f = CHOOSE g \in [1..n -> S] :
            \A i, j \in 1..n : i < j => g[i] # g[j] /\ ~(g[j] < g[i])
  BY MemCounts DEF Memory!InOrder
<1> HIDE DEF n
<1>6. /\ f \in [1..n -> S]
      /\ \A i, j \in 1..n : i < j => f[i] # f[j] /\ ~(f[j] < f[i])
  <2> HIDE DEF f
  <2> QED BY <1>4, <1>5
<1> HIDE DEF f
<1>7. Arranged(f, S, R)
  BY <1>1, <1>6 DEF Arranged, n
<1>8. \A c \in S : \E i \in 1..n : f[i] = c
  BY <1>7, ArrangedIsOnto DEF n
<1>9. ASSUME NEW i \in 1..n, NEW j \in 1..n, i < j
      PROVE  f[i] < f[j]
  <2>1. f[i] \in S /\ f[j] \in S /\ f[i] # f[j] /\ ~(f[j] < f[i])
    BY <1>6, <1>9
  <2>2. f[i] \in Nat /\ f[j] \in Nat
    BY <2>1
  <2> QED BY <2>1, <2>2
<1> QED BY <1>6, <1>8, <1>9 DEF ByPlace, n, f

\* Both cut the same rows, in the same order, at the same place.
LEMMA PagesAgree ==
  ASSUME ParityInv, SqlIdle, NEW before \in Nat, NEW limit \in Nat, limit > 0, NEW source
  PROVE  SqlTranscriptPage(before, limit, source) = Memory!MemTranscriptPage(before, limit, source)
<1> DEFINE rows == SqlRowsBefore(before, source)
           fits == {i \in 1..Len(memChunks) : /\ before > 0 => memChunks[i].seq < before
                                              /\ source # "" => memChunks[i].source = source}
           N == Cardinality(rows)
           E == {Entry(c) : c \in rows}
           desc == Memory!InOrder(rows, LAMBDA c, d : c.seq > d.seq)
           place == Memory!InOrder(fits, LAMBDA i, j : i < j)
           up == [i \in 1..N |-> Entry(desc[N + 1 - i])]
           filtered == [k \in 1..N |-> memChunks[place[k]]]
<1>1. rows \in SUBSET chunks
  BY DEF SqlRowsBefore, OfSource
<1>2. fits \in SUBSET (1..Len(memChunks))
  OBVIOUS
<1>3. \A c \in chunks : c \in rows <=> c.seq - memDropped \in fits
  BY IdleChunks DEF SqlRowsBefore, OfSource
<1> HIDE DEF rows, fits
<1>4. IsFiniteSet(rows) /\ IsFiniteSet(fits) /\ N = Cardinality(fits) /\ N \in Nat
  BY <1>1, <1>2, <1>3, PlacesCount, FS_CardinalityType
<1>5. /\ desc \in [1..N -> rows]
      /\ \A i, j \in 1..N : i < j => desc[i].seq > desc[j].seq
      /\ \A c \in rows : \E i \in 1..N : desc[i] = c
  <2>1. (\A c \in rows : c.seq \in Nat) /\ (\A c, d \in rows : c.seq = d.seq => c = d)
    BY <1>1, IdleChunks
  <2> QED BY <1>4, <2>1, RowsDescend DEF ByNumber
<1>6. /\ place \in [1..N -> fits]
      /\ \A i, j \in 1..N : i < j => place[i] < place[j]
      /\ \A c \in fits : \E i \in 1..N : place[i] = c
  <2>1. fits \in SUBSET Nat
    BY <1>2, IdleChunks
  <2> QED BY <1>4, <2>1, PlacesAscend DEF ByPlace
<1> HIDE DEF N, desc, place
<1>7. \A e \in E : e.seq \in Nat
  BY <1>1, IdleChunks DEF Entry
<1>8. Ascending(up, N, E)
  <2>1. \A i \in 1..N : N + 1 - i \in 1..N /\ N + 1 - (N + 1 - i) = i
    BY <1>4
  <2>2. up \in [1..N -> E]
    BY <1>5, <2>1
  <2>3. ASSUME NEW i \in 1..N, NEW j \in 1..N, i < j
        PROVE  up[i].seq < up[j].seq
    <3>1. N + 1 - j < N + 1 - i /\ N + 1 - i \in 1..N /\ N + 1 - j \in 1..N
      BY <1>4, <2>1, <2>3
    <3>2. desc[N + 1 - j].seq > desc[N + 1 - i].seq
      BY <1>5, <3>1
    <3>3. desc[N + 1 - j].seq \in Nat /\ desc[N + 1 - i].seq \in Nat
      BY <1>1, <1>5, <3>1, IdleChunks
    <3> QED BY <3>2, <3>3 DEF Entry
  <2>4. ASSUME NEW e \in E
        PROVE  \E i \in 1..N : up[i] = e
    <3>1. PICK c \in rows : e = Entry(c)
      OBVIOUS
    <3>2. PICK k \in 1..N : desc[k] = c
      BY <1>5
    <3>3. N + 1 - k \in 1..N /\ up[N + 1 - k] = Entry(desc[k])
      BY <2>1
    <3> QED BY <3>1, <3>2, <3>3
  <2> HIDE DEF up, E
  <2> QED BY <2>2, <2>3, <2>4 DEF Ascending
<1>9. /\ \A i \in fits : memChunks[i] \in E
      /\ \A c \in rows : Entry(c) = memChunks[c.seq - memDropped]
  <2>1. ASSUME NEW c \in rows
        PROVE  Entry(c) = memChunks[c.seq - memDropped]
    <3> DEFINE i == c.seq - memDropped
    <3>1. i \in 1..Len(memChunks) /\ memChunks[i].seq = c.seq /\ memChunks[i].source = c.source
      BY <1>1, IdleChunks
    <3> HIDE DEF i
    <3>2. memChunks[i] \in [seq : Nat, source : Sources]
      <4> DEFINE X == [seq : Nat, source : Sources]
      <4>1. memChunks \in Seq(X)
        BY IdleChunks
      <4> HIDE DEF X
      <4>2. memChunks[i] \in X
        BY <3>1, <4>1
      <4> QED BY <4>2 DEF X
    <3>3. memChunks[i] = [seq |-> memChunks[i].seq, source |-> memChunks[i].source]
      BY <3>2
    <3> QED BY <3>1, <3>3 DEF Entry, i
  <2>2. ASSUME NEW i \in fits
        PROVE  memChunks[i] \in E
    <3>1. PICK c \in chunks : c.seq = memDropped + i
      BY <1>2, IdleChunks
    <3>2. c.seq - memDropped = i
      BY <1>2, <3>1, IdleChunks
    <3>3. c \in rows
      BY <1>3, <3>2
    <3> QED BY <2>1, <3>2, <3>3
  <2> QED BY <2>1, <2>2
<1>10. Ascending(filtered, N, E)
  <2>1. filtered \in [1..N -> E]
    BY <1>6, <1>9
  <2>2. ASSUME NEW i \in 1..N, NEW j \in 1..N, i < j
        PROVE  filtered[i].seq < filtered[j].seq
    <3>1. place[i] < place[j] /\ place[i] \in 1..Len(memChunks) /\ place[j] \in 1..Len(memChunks)
      BY <1>2, <1>6, <2>2
    <3>2. memChunks[place[i]].seq = memDropped + place[i]
          /\ memChunks[place[j]].seq = memDropped + place[j] /\ memDropped \in Nat
      BY <3>1, IdleChunks
    <3> QED BY <3>1, <3>2
  <2>3. ASSUME NEW e \in E
        PROVE  \E k \in 1..N : filtered[k] = e
    <3>1. PICK c \in rows : e = Entry(c)
      OBVIOUS
    <3>2. c.seq - memDropped \in fits
      BY <1>1, <1>3
    <3>3. PICK k \in 1..N : place[k] = c.seq - memDropped
      BY <1>6, <3>2
    <3> QED BY <1>9, <3>1, <3>3
  <2> HIDE DEF filtered, E
  <2> QED BY <2>1, <2>2, <2>3 DEF Ascending
<1>11. up = filtered
  <2> HIDE DEF up, filtered, E
  <2> QED BY <1>4, <1>7, <1>8, <1>10, AscendingIsUnique
<1> DEFINE n == IF N > limit THEN limit ELSE N
           lo == N - n
<1>12. n \in Nat /\ lo \in Nat /\ lo <= N /\ n = N - lo
  BY <1>4
<1>13. Len(desc) = N /\ Len(filtered) = N /\ filtered \in Seq(E)
  <2>1. filtered \in [1..N -> E]
    BY <1>10 DEF Ascending
  <2>2. Len(filtered) = N /\ filtered \in Seq(E)
    <3> HIDE DEF filtered, E
    <3> QED BY <1>4, <2>1
  <2>3. Len(desc) = N
    BY <1>4, <1>5
  <2> QED BY <2>2, <2>3
<1>14. SqlTranscriptPage(before, limit, source)
         = [page |-> [i \in 1..n |-> Entry(desc[n + 1 - i])], more |-> N > limit]
  BY <1>13 DEF SqlTranscriptPage, Entry, desc, rows
<1>15. Memory!MemTranscriptPage(before, limit, source)
         = [page |-> Memory!Last(filtered, limit), more |-> N > limit]
  <2>1. Memory!Cardinality(fits) = N
    BY <1>4, MemCounts
  <2> QED BY <1>13, <2>1 DEF Memory!MemTranscriptPage, place, fits
<1>16. [i \in 1..n |-> Entry(desc[n + 1 - i])] = [i \in 1..n |-> filtered[lo + i]]
  <2> SUFFICES ASSUME NEW i \in 1..n
               PROVE  Entry(desc[n + 1 - i]) = filtered[lo + i]
    OBVIOUS
  <2> HIDE DEF n, lo
  <2>1. lo + i \in 1..N /\ N + 1 - (lo + i) = n + 1 - i
    BY <1>4, <1>12
  <2>2. up[lo + i] = Entry(desc[n + 1 - i])
    BY <2>1
  <2> HIDE DEF up, filtered
  <2> QED BY <1>11, <2>2
<1>17. Memory!Last(filtered, limit) = [i \in 1..n |-> filtered[lo + i]]
  <2>1. Memory!Last(filtered, limit) = SubSeq(filtered, lo + 1, N)
    <3> HIDE DEF filtered
    <3>1. lo + 1 = IF N > limit THEN N - limit + 1 ELSE 1
      BY <1>4
    <3> QED BY <1>13, <3>1 DEF Memory!Last
  <2> HIDE DEF filtered, n, lo, E
  <2>2. SubSeq(filtered, lo + 1, N) = [i \in 1..(N - lo) |-> filtered[lo + i]]
    BY <1>4, <1>12, <1>13
  <2> QED BY <1>12, <2>1, <2>2
<1> QED BY <1>14, <1>15, <1>16, <1>17

LEMMA ReadingsAgree == ParityInv => ReadsAgree
<1> SUFFICES ASSUME ParityInv, SqlIdle
             PROVE  ReadsAgree
  BY DEF ReadsAgree
<1>1. TranscriptSummary = Memory!MemTranscriptSummary
  BY IdleSummary
<1>2. \A s \in Sources : SqlSourceCount(s) = Memory!MemSourceCount(s)
  BY CountsAgree
<1>3. (\A before \in 0..(MaxChunks + 1) : before \in Nat)
      /\ (\A limit \in Limits : limit \in Nat /\ limit > 0)
  BY RetentionType DEF Limits
<1>4. \A before \in 0..(MaxChunks + 1), limit \in Limits, source \in Sources \cup {""} :
        SqlTranscriptPage(before, limit, source) = Memory!MemTranscriptPage(before, limit, source)
  BY <1>3, PagesAgree
<1> QED BY <1>1, <1>2, <1>4 DEF ReadsAgree

(* TranscriptSummary and TranscriptPage: between the appends of a transcript    *)
(* the registry the tests of the orchestrator run with and the one of the       *)
(* daemon report the same numbers and show the same pages.                      *)
THEOREM RegistriesReadAlike == ParitySpec => []ReadsAgree
<1>1. ParityInv => ReadsAgree
  BY ReadingsAgree
<1> QED BY <1>1, ParityInvariance, PTL
=============================================================================
