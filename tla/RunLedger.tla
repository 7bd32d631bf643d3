----------------------------- MODULE RunLedger -----------------------------
(***************************************************************************)
(* What the execution runs of a task promise a reader of the proof log,    *)
(* whatever daemon goroutines, operators and crashes do: runs start one    *)
(* after the other, and each ends at most once.                            *)
(***************************************************************************)
EXTENDS Naturals, Sequences

VARIABLE ledger     \* the status of every run, oldest first

Terminal == {"COMPLETED", "FAILED", "INTERRUPTED"}

Open == {i \in DOMAIN ledger : ledger[i] = "RUNNING"}

LedgerInit == ledger = <<>>

\* A run starts when none is open; it may be recorded as interrupted at once.
Start ==
  /\ Open = {}
  /\ \E status \in {"RUNNING", "INTERRUPTED"} : ledger' = Append(ledger, status)

End ==
  \E i \in Open, status \in Terminal : ledger' = [ledger EXCEPT ![i] = status]

LedgerNext == Start \/ End

LedgerSpec == LedgerInit /\ [][LedgerNext]_ledger

=============================================================================
