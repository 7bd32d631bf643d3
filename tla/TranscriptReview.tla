-------------------------- MODULE TranscriptReview --------------------------
(* Reviews of a session's transcript and acknowledgments of review gaps, over   *)
(* TranscriptStore. An operator looks at the transcript of a scope ("" is every *)
(* source), later reports it reviewed up to the newest sequence number seen,    *)
(* and every later read compares that number with what is retained by then.     *)
EXTENDS TranscriptStore, Sequences

CONSTANTS
  MaxReviews,  \* bound: reviews stored
  MaxAcks      \* bound: acknowledgments stored

VARIABLES
  inserted,  \* chunks ever inserted: the order of insertion, kept by no table
  reviews,   \* shell_session_transcript_reviews in the order of insertion
  acks,      \* shell_session_transcript_review_gap_acks
  reader     \* the operator between looking, reporting and storing

vars == <<storeVars, inserted, reviews, acks, reader>>
reviewVars == <<inserted, reviews, acks>>

Scopes == Sources \cup {""}
AckClasses == {"missing_review_marker", "stale_review", "source_scoped_only",
               "source_scoped_stale"}

(* at: the chunks inserted by the time the operator looked (ghost)              *)
Reviews == [scope : Scopes, upTo : Nat, newest : Nat, at : Nat]
Acks == [class : AckClasses, newest : Nat, at : Nat]
NoReview == [scope |-> "", upTo |-> 0, newest |-> 0, at |-> 0]
Away == [pc |-> "away", scope |-> "", upTo |-> 0, newest |-> 0, at |-> 0,
         class |-> "missing_review_marker"]
Readers == [pc : {"away", "looked", "reviewing", "acking"}, scope : Scopes,
            upTo : Nat, newest : Nat, at : Nat, class : AckClasses]

(* ORDER BY created_at DESC, review_id DESC LIMIT 1, of a scope or of any.      *)
LatestReviewOf(scope) ==
  LET fit == {i \in 1..Len(reviews) : reviews[i].scope = scope}
  IN  IF fit = {} THEN NoReview ELSE reviews[CHOOSE i \in fit : \A j \in fit : j <= i]
LatestReviewAnyScope == IF reviews = <<>> THEN NoReview ELSE reviews[Len(reviews)]

latestShellTranscriptReview(filter) ==
  IF filter = "" THEN LatestReviewAnyScope
  ELSE IF LatestReviewOf(filter) # NoReview THEN LatestReviewOf(filter)
  ELSE LatestReviewOf("")

NewestForScopeOrStored(review, scope) ==
  LET ofScope == NewestSeq(OfSource(chunks, scope))
  IN  IF scope # "" /\ ofScope > 0 THEN ofScope ELSE review.newest

(* The number a review is compared with: the newest chunk of its scope, of the  *)
(* whole transcript if the scope has none left, or the one stored with it.      *)
NewestForScope(review, scope) ==
  LET ofScope == NewestSeq(OfSource(chunks, scope))
      newest  == IF scope # "" /\ ofScope > 0 THEN ofScope ELSE TranscriptSummary.newest
  IN  IF newest > 0 THEN newest ELSE review.newest

EffectiveScope(review, filter) == IF filter # "" THEN filter ELSE review.scope

deriveTranscriptReviewClosure(filter) ==
  LET review == latestShellTranscriptReview(filter)
      scope  == EffectiveScope(review, filter)
      stale  == NewestForScope(review, scope) > review.upTo
  IN  IF review = NoReview THEN "none"
      ELSE IF scope = "" THEN IF stale THEN "global_stale" ELSE "global_current"
      ELSE IF stale THEN "source_scoped_stale" ELSE "source_scoped_current"

(* What every surface tells the operator about the session.                     *)
ReviewProgression ==
  LET review == LatestReviewAnyScope
      stale  == \/ NewestForScope(review, review.scope) > review.upTo
                \/ TranscriptSummary.newest > review.upTo
  IN  IF TranscriptSummary.retained = 0 THEN "no_retained_evidence"
      ELSE IF review = NoReview THEN "retained_evidence_unreviewed"
      ELSE IF review.scope = ""
           THEN IF stale THEN "global_review_stale" ELSE "global_review_current"
      ELSE IF stale THEN "source_scoped_review_stale" ELSE "source_scoped_review_current"

AcknowledgmentClass ==
  [ retained_evidence_unreviewed |-> "missing_review_marker",
    global_review_stale          |-> "stale_review",
    source_scoped_review_stale   |-> "source_scoped_stale",
    source_scoped_review_current |-> "source_scoped_only" ]

StaleBehindCurrent(ack) == TranscriptSummary.newest > ack.newest

Init ==
  /\ StoreInit
  /\ inserted = 0
  /\ reviews = <<>>
  /\ acks = {}
  /\ reader = Away

-----------------------------------------------------------------------------
Transcribe(h) ==
  \/ /\ \E n \in 1..MaxBatch : AppendTranscript(h, n, inserted)
     /\ UNCHANGED <<reviewVars, reader>>
  \/ /\ \E source \in AnySource : InsertChunk(h, source, inserted)
     /\ inserted' = inserted + 1
     /\ UNCHANGED <<reviews, acks, reader>>
  \/ PruneTranscript(h) /\ UNCHANGED <<reviewVars, reader>>
  \/ CountRetained(h) /\ UNCHANGED <<reviewVars, reader>>
  \/ SaveTranscriptMeta(h) /\ UNCHANGED <<reviewVars, reader>>
  \/ AppendFails(h) /\ UNCHANGED <<reviewVars, reader>>

Crash ==
  /\ StoreCrash
  /\ reader' = Away
  /\ UNCHANGED reviewVars

(* ReadShellTranscript, page by page to the end; nothing to report if empty.    *)
ReadShellTranscript(scope) ==
  /\ reader.pc = "away"
  /\ OfSource(chunks, scope) # {}
  /\ reader' = [Away EXCEPT !.pc = "looked", !.scope = scope, !.at = inserted,
                            !.upTo = NewestSeq(OfSource(chunks, scope))]
  /\ UNCHANGED <<storeVars, reviewVars>>

(* RecordShellTranscriptReview up to its first query, the summary.              *)
BeginTranscriptReview ==
  /\ reader.pc = "looked"
  /\ TranscriptSummary.retained > 0
  /\ reader' = [reader EXCEPT !.pc = "reviewing", !.newest = TranscriptSummary.newest]
  /\ UNCHANGED <<storeVars, reviewVars>>

(* The page of the scope, one chunk longer than the limit, must hold the number. *)
InReviewPage(seq, scope) ==
  LET limit == IF TranscriptSummary.retained > Retention THEN TranscriptSummary.retained
               ELSE Retention
  IN  \E c \in OfSource(chunks, scope) :
        /\ c.seq = seq
        /\ Cardinality({d \in OfSource(chunks, scope) : d.seq > seq}) <= limit

StoreReview ==
  Append(reviews, [scope |-> reader.scope, upTo |-> reader.upTo,
                   newest |-> reader.newest, at |-> reader.at])

RecordShellTranscriptReview ==
  /\ reader.pc = "reviewing"
  /\ Len(reviews) < MaxReviews
  /\ InReviewPage(reader.upTo, reader.scope)
  /\ reviews' = StoreReview
  /\ reader' = Away
  /\ UNCHANGED <<storeVars, inserted, acks>>

RefuseTranscriptReview ==
  /\ reader.pc = "reviewing"
  /\ ~InReviewPage(reader.upTo, reader.scope)
  /\ reader' = Away
  /\ UNCHANGED <<storeVars, reviewVars>>

(* RecordOperatorReviewGapAcknowledgment: the posture is derived first, and the *)
(* acknowledgment of the gap it found is stored later.                          *)
BeginGapAcknowledgment ==
  /\ reader.pc = "away"
  /\ ReviewProgression \in DOMAIN AcknowledgmentClass
  /\ reader' = [Away EXCEPT !.pc = "acking", !.at = inserted,
                            !.class = AcknowledgmentClass[ReviewProgression],
                            !.newest = TranscriptSummary.newest]
  /\ UNCHANGED <<storeVars, reviewVars>>

RecordGapAcknowledgmentOfNow ==
  /\ reader.pc = "acking"
  /\ Cardinality(acks) < MaxAcks
  /\ acks' = acks \cup {[class |-> reader.class, newest |-> TranscriptSummary.newest,
                         at |-> reader.at]}
  /\ reader' = Away
  /\ UNCHANGED <<storeVars, inserted, reviews>>

RecordGapAcknowledgment ==
  /\ reader.pc = "acking"
  /\ Cardinality(acks) < MaxAcks
  /\ acks' = acks \cup {[class |-> reader.class, newest |-> reader.newest, at |-> reader.at]}
  /\ reader' = Away
  /\ UNCHANGED <<storeVars, inserted, reviews>>

(* The operator leaves, or the call is lost.                                    *)
LeaveTranscript ==
  /\ reader.pc # "away"
  /\ reader' = Away
  /\ UNCHANGED <<storeVars, reviewVars>>

Next ==
  \/ \E h \in Handlers : Transcribe(h)
  \/ \E scope \in Scopes : ReadShellTranscript(scope)
  \/ BeginTranscriptReview \/ RecordShellTranscriptReview \/ RefuseTranscriptReview
  \/ BeginGapAcknowledgment \/ RecordGapAcknowledgment
  \/ LeaveTranscript
  \/ Crash

Spec == Init /\ [][Next]_vars

-----------------------------------------------------------------------------
(* Every variable holds values of its columns.                                  *)
TypeOK ==
  /\ chunks \in SUBSET Chunks
  /\ meta \in Metas
  /\ op \in [Handlers -> Ops]
  /\ inserted \in Nat
  /\ reviews \in Seq(Reviews)
  /\ acks \in SUBSET Acks
  /\ reader \in Readers

(* A transcript that reads as currently reviewed, in any filter, holds nothing  *)
(* of the scope that the reviewer could not have seen.                          *)
CurrentMeansSeen ==
  \A filter \in Scopes :
    LET review == latestShellTranscriptReview(filter)
    IN  deriveTranscriptReviewClosure(filter) \in {"global_current", "source_scoped_current"}
          => \A c \in OfSource(chunks, EffectiveScope(review, filter)) : c.id <= review.at

(* The session reads as without evidence only if there is none, and as reviewed *)
(* in full only if the latest review is of every source and saw every chunk.    *)
ProgressionIsHonest ==
  /\ ReviewProgression = "no_retained_evidence" => chunks = {}
  /\ ReviewProgression = "global_review_current"
       => \A c \in chunks : c.id <= LatestReviewAnyScope.at

(* An acknowledgment that is not marked as behind the evidence was given with   *)
(* all of it in view.                                                           *)
FreshAckSawAll ==
  \A ack \in acks : ~StaleBehindCurrent(ack) => \A c \in chunks : c.id <= ack.at

(* The refinement mapping: the log is the retained chunks.                      *)
Log == INSTANCE BoundedLog WITH
         entries <- {[seq |-> c.seq, source |-> c.source] : c \in chunks},
         last <- NewestSeq(chunks)

(* One append at a time, failures and crashes included, keeps a bounded log.    *)
ImplementsBoundedLog == Log!LogSpec
=============================================================================
