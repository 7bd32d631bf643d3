---------------------------- MODULE MCTranscript ----------------------------
(* Small instances of TranscriptReview for TLC.                                 *)
EXTENDS TranscriptReview

CONSTANTS h1
MCOne == {h1}
=============================================================================
