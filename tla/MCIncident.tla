----------------------------- MODULE MCIncident -----------------------------
(* Small instances of IncidentAudit for TLC: two requests, the receipts of two  *)
(* review postures, and windows that the histories outgrow.                     *)
EXTENDS IncidentAudit, TLC

CONSTANTS r1, r2
MCTwo == {r1, r2}
MCPostures == {"GLOBAL_REVIEW_CURRENT", "GLOBAL_REVIEW_STALE"}
MCHistories == {"transitions", "triages", "followups"}
MCByReceipt == {"TRANSITION_RECEIPT_ID"}
MCBlankOnly == {"blank"}
RequestSymmetry == Permutations(MCTwo)
=============================================================================
