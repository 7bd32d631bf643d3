---------------------------- MODULE IncidentAudit ----------------------------
(***************************************************************************)
(* The incident audit trail of one task: transition receipts written by    *)
(* handoff launches and resolutions, triage and follow-up receipts written *)
(* by operators, and the readers that page and summarise them.  An         *)
(* operator request resolves its anchor, looks for an equivalent receipt   *)
(* and stamps the new one outside the transaction that inserts it, so      *)
(* requests of the daemon's connections interleave between those steps.    *)
(* A read is one instant, where the code asks the tables one after the     *)
(* other: rows are only ever added to them.                                *)
(***************************************************************************)
EXTENDS IncidentReads

CONSTANTS
    Requests,       \* concurrent operator requests (daemon connections)
    Postures,       \* review postures a transition may be recorded under
    Modes,          \* anchor modes: "LATEST_TRANSITION", "TRANSITION_RECEIPT_ID"
    Notes,          \* operator notes; Blank is the omitted one
    StatusWindow,   \* receipts a status read lists (3)
    InspectWindow,  \* receipts an inspect read lists (5)
    TriageWindow,   \* triages a follow-up read looks at (max(10, 3 * limit))
    Paged,          \* the histories the client pages through
    PageLimit,      \* receipts on a page of the history read
    MaxStamp,       \* bound on the receipts ever stamped
    MaxTransitions  \* bound on the transitions recorded

Histories == {"transitions", "triages", "followups"}
Blank == "blank"
Generated == "generated"

ASSUME AuditBounds ==
    /\ StatusWindow \in Nat \ {0} /\ InspectWindow \in Nat /\ InspectWindow >= StatusWindow
    /\ TriageWindow \in Nat \ {0} /\ PageLimit \in Nat \ {0}
    /\ MaxStamp \in Nat /\ MaxTransitions \in Nat
    /\ Modes \subseteq {"LATEST_TRANSITION", "TRANSITION_RECEIPT_ID"}
    /\ Paged \subseteq Histories
    /\ Postures \subseteq ReviewPostures /\ Blank \in Notes /\ Generated \notin Notes

VARIABLES
    transitions,  \* continuity_transition_receipts
    triages,      \* continuity_incident_triage_receipts
    followups,    \* continuity_incident_follow_up_receipts
    stamp,        \* the clock: the last creation stamp handed out
    request,      \* each request's receipt between stamping and insertion
    reader        \* one client paging through one of the three histories

vars == <<transitions, triages, followups, stamp, request, reader>>

Stamps == 1..MaxStamp
StoredNotes == (Notes \ {Blank}) \union {Generated}

Transitions == [at : Stamps, review : Postures, acked : BOOLEAN]
Triages == [at : Stamps, anchor : Stamps, mode : Modes, posture : TriagePostures,
            note : StoredNotes, review : Postures, acked : BOOLEAN]
FollowUps == [at : Stamps, anchor : Stamps, mode : Modes, triage : Stamps,
              action : FollowUpActions, note : StoredNotes, review : Postures, acked : BOOLEAN]

Free == [step |-> "free"]
Pending == [step : {"triage"}, receipt : Triages, note : Notes]
           \union [step : {"followup"}, receipt : FollowUps, note : Notes]

NotReading == [step |-> "away"]
Readings == [step : {"page", "end"}, history : Histories, cursor : Stamps \union {0},
             seen : SUBSET Stamps, listed : Nat, owed : SUBSET Stamps]

TypeOK ==
    /\ transitions \subseteq Transitions
    /\ triages \subseteq Triages
    /\ followups \subseteq FollowUps
    /\ stamp \in 0..MaxStamp
    /\ request \in [Requests -> {Free} \union Pending]
    /\ reader \in {NotReading} \union Readings

Init ==
    /\ transitions = {} /\ triages = {} /\ followups = {}
    /\ stamp = 0
    /\ request = [r \in Requests |-> Free]
    /\ reader = NotReading

\* recordContinuityTransitionReceipt, inside the launch or resolution
\* transaction; an acknowledgment counts only while the gap it is for exists.
RecordTransition(review, acked) ==
    /\ stamp < MaxStamp /\ Cardinality(transitions) < MaxTransitions
    /\ acked => ReviewGapPresent(review)
    /\ stamp' = stamp + 1
    /\ transitions' = transitions
           \union {[at |-> stamp + 1, review |-> review, acked |-> acked]}
    /\ UNCHANGED <<triages, followups, request, reader>>

\* resolveContinuityIncidentTriageAnchor: the latest transition, or a named one.
resolveAnchor(mode, anchor) ==
    IF mode = "LATEST_TRANSITION" THEN anchor = Newest(transitions) ELSE anchor \in transitions

\* normalizeContinuityIncident...Summary and the text generated for no note.
StoredNote(note) == IF note = Blank THEN Generated ELSE note

\* continuityIncidentTriageEquivalent: the stored text against the given one.
TriageEquivalent(old, mode, posture, note) ==
    old.mode = mode /\ old.posture = posture /\ old.note = note

\* continuityIncidentFollowUpEquivalent
FollowUpEquivalent(old, mode, triage, action, note) ==
    old.mode = mode /\ old.triage = triage.at /\ old.action = action /\ old.note = note

\* RecordContinuityIncidentTriage up to its transaction.
BeginTriage(r, mode, anchor, posture, note) ==
    /\ request[r] = Free /\ stamp < MaxStamp
    /\ transitions # {} /\ resolveAnchor(mode, anchor)
    /\ LET same == On(triages, anchor.at)
       IN same # {} => ~TriageEquivalent(Newest(same), mode, posture, note)
    /\ stamp' = stamp + 1
    /\ request' = [request EXCEPT ![r] =
           [step |-> "triage", note |-> note,
            receipt |-> [at |-> stamp + 1, anchor |-> anchor.at, mode |-> mode,
                         posture |-> posture, note |-> StoredNote(note),
                         review |-> anchor.review, acked |-> anchor.acked]]]
    /\ UNCHANGED <<transitions, triages, followups, reader>>

\* The check of the named triage's anchor is dropped.
TriageOfAnyAnchor(triage, anchor) == triage \in triages

\* A named triage receipt must be anchored where the request is.
TriageOfAnchor(triage, anchor) == triage \in triages /\ triage.anchor = anchor.at

\* RecordContinuityIncidentFollowUp up to its transaction; `named' tells
\* whether the request names the triage or takes the anchor's latest.
BeginFollowUp(r, mode, anchor, named, triage, action, note) ==
    /\ request[r] = Free /\ stamp < MaxStamp
    /\ transitions # {} /\ resolveAnchor(mode, anchor)
    /\ TriageOfAnchor(triage, anchor)
    /\ ~named => \A t \in On(triages, anchor.at) : t.at <= triage.at
    /\ LET same == On(followups, anchor.at)
       IN same # {} => ~FollowUpEquivalent(Newest(same), mode, triage, action, note)
    /\ stamp' = stamp + 1
    /\ request' = [request EXCEPT ![r] =
           [step |-> "followup", note |-> note,
            receipt |-> [at |-> stamp + 1, anchor |-> anchor.at, mode |-> mode,
                         triage |-> triage.at, action |-> action, note |-> StoredNote(note),
                         review |-> triage.review, acked |-> triage.acked]]]
    /\ UNCHANGED <<transitions, triages, followups, reader>>

\* The transaction that inserts the receipt and appends its proof event.
InsertReceipt(r) ==
    /\ request[r].step \in {"triage", "followup"}
    /\ IF request[r].step = "triage"
       THEN /\ triages' = triages \union {request[r].receipt}
            /\ UNCHANGED followups
       ELSE /\ followups' = followups \union {request[r].receipt}
            /\ UNCHANGED triages
    /\ request' = [request EXCEPT ![r] = Free]
    /\ UNCHANGED <<transitions, stamp, reader>>

\* The transaction fails, or the daemon dies before it commits.
LoseRequest(r) ==
    /\ request[r] # Free
    /\ request' = [request EXCEPT ![r] = Free]
    /\ UNCHANGED <<transitions, triages, followups, stamp, reader>>

\* The table a history reads, and a page of it.
Table(history) == CASE history = "transitions" -> transitions
                    [] history = "triages" -> triages
                    [] history = "followups" -> followups
HistoryPage(history, cursor) == PageBefore(Table(history), cursor, PageLimit)

\* The cursor taken from the extra row that only tells there is more.
NextCursorOfExtra(history, cursor) ==
    LET page == HistoryPage(history, cursor)
        older == {f \in Table(history) : \A p \in page : f.at < p.at}
    IN IF page = {} \/ older = {} THEN 0 ELSE Newest(older).at

\* The cursor of the page after this one: its oldest receipt (0: no older page).
NextCursor(history, cursor) ==
    LET page == HistoryPage(history, cursor)
        older == {f \in Table(history) : \A p \in page : f.at < p.at}
    IN IF page = {} \/ older = {} THEN 0
       ELSE CHOOSE at \in {p.at : p \in page} : \A p \in page : at <= p.at

\* The read of a history: first page, then one per cursor.
ReadPage(history, cursor, seen, listed, owed) ==
    LET page == HistoryPage(history, cursor)
    IN reader' = [step |-> IF NextCursor(history, cursor) = 0 THEN "end" ELSE "page",
                  history |-> history, cursor |-> NextCursor(history, cursor), owed |-> owed,
                  seen |-> seen \union {p.at : p \in page},
                  listed |-> listed + Cardinality(page)]

\* ReadContinuityTransitionHistory, ReadContinuityIncidentTriageHistory and
\* ReadContinuityIncidentFollowUpHistory without a cursor.
OpenHistory(history) ==
    /\ reader = NotReading /\ Table(history) # {}
    /\ ReadPage(history, MaxStamp + 1, {}, 0, {f.at : f \in Table(history)})
    /\ UNCHANGED <<transitions, triages, followups, stamp, request>>

\* The same reads with the cursor of the page before.
OlderPage ==
    /\ reader.step = "page"
    /\ ReadPage(reader.history, reader.cursor, reader.seen, reader.listed, reader.owed)
    /\ UNCHANGED <<transitions, triages, followups, stamp, request>>

CloseHistory ==
    /\ reader.step = "end"
    /\ reader' = NotReading
    /\ UNCHANGED <<transitions, triages, followups, stamp, request>>

Operator(r) ==
    \/ \E mode \in Modes, a \in transitions, p \in TriagePostures, n \in Notes :
           BeginTriage(r, mode, a, p, n)
    \/ \E mode \in Modes, a \in transitions, named \in BOOLEAN, t \in triages,
          k \in FollowUpActions, n \in Notes :
           BeginFollowUp(r, mode, a, named, t, k, n)
    \/ InsertReceipt(r)
    \/ LoseRequest(r)

Next ==
    \/ \E p \in Postures, b \in BOOLEAN : RecordTransition(p, b)
    \/ \E r \in Requests : Operator(r)
    \/ \E h \in Paged : OpenHistory(h)
    \/ OlderPage
    \/ CloseHistory

Spec == Init /\ [][Next]_vars

-----------------------------------------------------------------------------
(* The read models.                                                        *)

\* continuityIncidentTriageHistoryProjection and
\* continuityIncidentFollowUpHistoryProjection with a limit.
TriageRollupOf(n) == TriageRollup(Window(triages, n), transitions)
RollupOf(n) == Rollup(Window(followups, n), transitions, Window(triages, TriageWindow))
ClosureOf(n) == Closure(RollupOf(n), Window(followups, n))

\* Status, inspect and the shell snapshot hand the newest follow-up of any
\* anchor to the summary.
LatestFollowUp == IF followups = {} THEN {} ELSE {Newest(followups)}
StatusState == FollowUpState(transitions, triages, LatestFollowUp)
StatusAdvised(n) == FollowUpAdvised(StatusState, LatestFollowUp, {ClosureOf(n)})

\* Every anchor the triage window shows was last reported closed.
TriagedAnchorsAreClosed ==
    \A a \in Anchors(Window(triages, TriageWindow)) :
        On(followups, a) # {} /\ LatestAction(followups, a) = "CLOSED"

\* A follow-up receipt is about the incident it names: it cites a stored
\* triage of the same anchor, which is a stored transition, and repeats the
\* review evidence recorded with that transition, whatever was triaged or
\* recorded between the request's reads and its insertion.
FollowUpsCiteTheirIncident ==
    \A f \in followups :
        /\ \E t \in triages : t.at = f.triage /\ t.anchor = f.anchor /\ t.at < f.at
        /\ \E a \in transitions : a.at = f.anchor /\ a.review = f.review /\ a.acked = f.acked

\* A read that advises no follow-up: the newest transition was triaged and
\* every triaged incident in view was closed last.
NoAdviceIsTrue(n) ==
    transitions # {} /\ ~StatusAdvised(n) =>
        /\ Newest(transitions).at \in Anchors(triages)
        /\ TriagedAnchorsAreClosed

\* A closure or task-risk class of STABLE_BOUNDED: every triaged incident in
\* view was closed last and none in view was reopened after a closing.
StableIsTrue(n) ==
    "STABLE_BOUNDED" \in {ClosureOf(n).class,
                          TaskRisk(RollupOf(n), ClosureOf(n), Window(followups, n))} =>
        /\ TriagedAnchorsAreClosed
        /\ \A a \in Anchors(Window(followups, n)) :
               ReopenedAfterClosure(Window(followups, n), a) = {}

\* A triage history that raises nothing: the newest transition was triaged
\* without a review risk, that is its newest triage, and no receipt in view
\* is about another transition.
NoRiskIsTrue(n) ==
    triages # {} /\ ~TriageRollupOf(n).notable =>
        /\ Anchors(Window(triages, n)) = {Newest(transitions).at}
        /\ Newest(triages).posture = "TRIAGED"
        /\ ~ReviewGapPresent(Newest(transitions).review)

\* A status or inspect read that gives the operator nothing to do tells the
\* truth in each of its three summaries (follow-up advice, closure and task
\* risk, triage history), although its windows are shorter than the history
\* and a request may store a triage of an older transition after newer ones.
QuietReadsAreTrue ==
    \A n \in {StatusWindow, InspectWindow} :
        NoAdviceIsTrue(n) /\ StableIsTrue(n) /\ NoRiskIsTrue(n)

\* A client that pages through a history to its end has listed
\* every receipt stored when it began, and no page repeats a receipt, although
\* requests insert receipts, some of them stamped long before, between pages.
PagesAreComplete ==
    reader.step \in {"page", "end"} =>
        /\ reader.listed = Cardinality(reader.seen)
        /\ reader.step = "end" => reader.owed \subseteq reader.seen
=============================================================================
