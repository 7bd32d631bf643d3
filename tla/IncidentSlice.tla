---------------------------- MODULE IncidentSlice ----------------------------
(***************************************************************************)
(* ReadContinuityIncidentSlice: the transitions next to an anchor and the  *)
(* runs, recovery actions and proof events nearest to it in time.  Every   *)
(* list is a query of its own outside a transaction, so the task goes on   *)
(* between them.                                                           *)
(***************************************************************************)
EXTENDS IncidentReads, Sequences

CONSTANTS
    NeighborLimit,  \* transitions shown on each side of the anchor
    NearLimit,      \* rows of a kind shown
    ScanLimit,      \* newest rows of a kind looked at (12 or 20 times NearLimit)
    MaxNow          \* bound on the stamps handed out

ASSUME SliceBounds ==
    /\ NeighborLimit \in Nat \ {0} /\ NearLimit \in Nat \ {0}
    /\ ScanLimit \in Nat /\ ScanLimit >= NearLimit
    /\ MaxNow \in Nat

VARIABLES
    transitions,  \* continuity_transition_receipts
    rows,         \* execution_runs, recovery_actions and proof_events
    now,          \* the clock: the last stamp handed out
    slice         \* the read under way

vars == <<transitions, rows, now, slice>>

Kinds == {"run", "action", "event"}
Stamps == 1..MaxNow
Statuses == {"OPEN", "DONE", "FAILED", "INTERRUPTED"}

\* created: the order of ListByTask; occurred: the time the distance is taken
\* from, which an update or the end of a run moves.
Rows == [kind : Kinds, created : Stamps, occurred : Stamps, status : Statuses]

OfKind(kind) == {r \in rows : r.kind = kind}
Distance(r, anchor) == IF r.occurred < anchor THEN anchor - r.occurred ELSE r.occurred - anchor

NoSlice == [step |-> "none"]
Slices == [step : {"older", "newer"} \union Kinds \union {"done"}, anchor : Stamps,
           shown : SUBSET Stamps, hasOlder : BOOLEAN, hasNewer : BOOLEAN,
           near : SUBSET Rows, known : SUBSET Stamps, began : 0..MaxNow]

TypeOK ==
    /\ transitions \subseteq [at : Stamps]
    /\ rows \subseteq Rows
    /\ now \in 0..MaxNow
    /\ slice \in {NoSlice} \union Slices

Init ==
    /\ transitions = {} /\ rows = {} /\ now = 0
    /\ slice = NoSlice

-----------------------------------------------------------------------------
(* The task goes on.                                                       *)

RecordTransition ==
    /\ now < MaxNow
    /\ now' = now + 1
    /\ transitions' = transitions \union {[at |-> now + 1]}
    /\ UNCHANGED <<rows, slice>>

\* A run starts; an action is recorded; an event is appended.
AppendRow(kind) ==
    /\ now < MaxNow
    /\ now' = now + 1
    /\ rows' = rows \union {[kind |-> kind, created |-> now + 1, occurred |-> now + 1,
                             status |-> IF kind = "run" THEN "OPEN" ELSE "DONE"]}
    /\ UNCHANGED <<transitions, slice>>

\* A run ends: EndedAt is what it occurred at from now on.
EndRun(r, status) ==
    /\ now < MaxNow
    /\ r.kind = "run" /\ r.status = "OPEN" /\ status # "OPEN"
    /\ now' = now + 1
    /\ rows' = (rows \ {r}) \union {[r EXCEPT !.occurred = now + 1, !.status = status]}
    /\ UNCHANGED <<transitions, slice>>

-----------------------------------------------------------------------------
(* The read.                                                               *)

\* The latest transition, or a named one.
BeginSlice(anchor) ==
    /\ slice = NoSlice
    /\ slice' = [step |-> "older", anchor |-> anchor.at, shown |-> {anchor.at},
                 hasOlder |-> FALSE, hasNewer |-> FALSE, near |-> {}, known |-> {},
                 began |-> now]
    /\ UNCHANGED <<transitions, rows, now>>

\* ListByTaskFiltered, one row more than shown, which tells there are others.
ReadOlder ==
    /\ slice.step = "older"
    /\ LET found == PageBefore(transitions, slice.anchor, NeighborLimit + 1)
       IN slice' = [slice EXCEPT !.step = "newer",
                    !.hasOlder = Cardinality(found) > NeighborLimit,
                    !.shown = @ \union {t.at : t \in Window(found, NeighborLimit)}]
    /\ UNCHANGED <<transitions, rows, now>>

\* ListByTaskAfter: the n oldest transitions newer than the cursor.
ListByTaskAfter(S, cursor, n) ==
    {r \in S : r.at > cursor /\ Cardinality({q \in S : cursor < q.at /\ q.at < r.at}) < n}

ReadNewerUnbounded ==
    /\ slice.step = "newer"
    /\ LET found == ListByTaskAfter(transitions, slice.anchor, NeighborLimit)
       IN slice' = [slice EXCEPT !.step = "run",
                    !.hasNewer = Cardinality(found) > NeighborLimit,
                    !.shown = @ \union {t.at : t \in found},
                    !.known = {t.at : t \in transitions}]
    /\ UNCHANGED <<transitions, rows, now>>

ReadNewer ==
    /\ slice.step = "newer"
    /\ LET found == ListByTaskAfter(transitions, slice.anchor, NeighborLimit + 1)
       IN slice' = [slice EXCEPT !.step = "run",
                    !.hasNewer = Cardinality(found) > NeighborLimit,
                    !.shown = @ \union {t.at : t \in ListByTaskAfter(found, slice.anchor, NeighborLimit)},
                    !.known = {t.at : t \in transitions}]
    /\ UNCHANGED <<transitions, rows, now>>

\* ListByTask: the newest rows of a kind by creation.
Scanned(kind) ==
    {r \in OfKind(kind) :
        Cardinality({q \in OfKind(kind) : q.created > r.created}) < ScanLimit}

NearestByCreation(kind, anchor) ==
    {r \in Scanned(kind) :
        Cardinality({q \in Scanned(kind) : q.created > r.created}) < NearLimit}

\* incident...NearAnchor: the rows nearest to the anchor among the scanned
\* ones; of two equally near the later one.
Nearest(kind, anchor) ==
    LET Nearer(q, r) == \/ Distance(q, anchor) < Distance(r, anchor)
                        \/ /\ Distance(q, anchor) = Distance(r, anchor)
                           /\ q.occurred > r.occurred
    IN {r \in Scanned(kind) :
           Cardinality({q \in Scanned(kind) : Nearer(q, r)}) < NearLimit}

ReadNear(kind) ==
    /\ slice.step = kind
    /\ slice' = [slice EXCEPT !.near = @ \union Nearest(kind, slice.anchor),
                 !.step = CASE kind = "run" -> "action" [] kind = "action" -> "event"
                            [] kind = "event" -> "done"]
    /\ UNCHANGED <<transitions, rows, now>>

EndSlice ==
    /\ slice.step = "done"
    /\ slice' = NoSlice
    /\ UNCHANGED <<transitions, rows, now>>

RecentFailureAlone(s) == \E r \in s.near : r.kind = "action" \/ r.status = "FAILED"

\* continuityIncidentRiskSummaryFromAnchor: the activity near the anchor.
RecentFailureOrRecovery(s) ==
    \E r \in s.near : r.kind = "action" \/ r.status \in {"FAILED", "INTERRUPTED"}

Next ==
    \/ RecordTransition
    \/ \E k \in Kinds : AppendRow(k)
    \/ \E r \in rows, s \in Statuses : EndRun(r, s)
    \/ \E a \in transitions : BeginSlice(a)
    \/ ReadOlder
    \/ ReadNewer
    \/ \E k \in Kinds : ReadNear(k)
    \/ EndSlice

Spec == Init /\ [][Next]_vars

-----------------------------------------------------------------------------
\* The transitions of a slice are a stretch of the history without holes, and
\* what it says of more transitions outside is true of the history it was cut
\* from, although the two sides are read one after the other.
SliceIsContiguous ==
    slice.step \in Kinds \union {"done"} =>
        /\ \A t \in slice.known :
              (\E a, b \in slice.shown : a <= t /\ t <= b) => t \in slice.shown
        /\ slice.hasOlder <=> \E t \in slice.known : \A a \in slice.shown : t < a
        /\ slice.hasNewer <=> \E t \in slice.known : \A a \in slice.shown : t > a

\* A row the slice leaves out although it is nearer to the anchor than one it
\* shows was created before all the rows of its kind that the slice shows, and
\* there is none as long as the task has no more rows than are scanned.
NearMissesAreOld ==
    [][\A k \in Kinds :
          slice.step = k /\ slice'.step # k =>
              \A r \in OfKind(k) \ slice'.near, s \in OfKind(k) \cap slice'.near :
                  Distance(r, slice.anchor) < Distance(s, slice.anchor) =>
                      /\ Cardinality(OfKind(k)) > ScanLimit
                      /\ \A q \in OfKind(k) \cap slice'.near : r.created < q.created]_vars

\* A slice that reports no failure and no recovery hides none: when its read
\* began the task had no recovery action and, unless it has more runs than a
\* slice shows, no run that had failed or was interrupted.
QuietSlicesHideNothing ==
    slice.step = "done" /\ ~RecentFailureOrRecovery(slice) =>
        \A r \in rows :
            /\ r.kind = "action" => r.created > slice.began
            /\ r.kind = "run" /\ r.status \in {"FAILED", "INTERRUPTED"} =>
                  r.occurred > slice.began \/ Cardinality(OfKind("run")) > NearLimit
=============================================================================
