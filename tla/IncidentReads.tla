---------------------------- MODULE IncidentReads ----------------------------
(***************************************************************************)
(* What the incident read models derive from the three receipt tables:     *)
(* continuity transitions, triages of a transition (its anchor), and       *)
(* follow-ups of a triage.  A receipt is identified by its creation stamp  *)
(* `at', which is also the order of every query.  The Go code counts       *)
(* anchors; here the sets of anchors it counts are kept instead.           *)
(***************************************************************************)
EXTENDS Integers, FiniteSets

TriagePostures == {"TRIAGED", "NEEDS_FOLLOW_UP", "DEFERRED"}
FollowUpActions == {"RECORDED_PENDING", "PROGRESSED", "CLOSED", "REOPENED"}
ReviewPostures == {"NONE", "NO_RETAINED_EVIDENCE", "RETAINED_EVIDENCE_UNREVIEWED",
                   "GLOBAL_REVIEW_CURRENT", "GLOBAL_REVIEW_STALE",
                   "SOURCE_SCOPED_REVIEW_CURRENT", "SOURCE_SCOPED_REVIEW_STALE"}

\* LatestByTask and LatestByTaskAnchor: ORDER BY created_at DESC LIMIT 1.
Newest(S) == CHOOSE r \in S : \A q \in S : q.at <= r.at

\* ListByTask: ORDER BY created_at DESC LIMIT n.
Window(S, n) == {r \in S : Cardinality({q \in S : q.at > r.at}) < n}

\* ListByTaskFiltered with a cursor: the n newest receipts older than it.
PageBefore(S, cursor, n) == Window({r \in S : r.at < cursor}, n)

On(S, anchor) == {r \in S : r.anchor = anchor}
Anchors(S) == {r.anchor : r \in S}

PostureIsStale(posture) ==
    posture \in {"RETAINED_EVIDENCE_UNREVIEWED", "GLOBAL_REVIEW_STALE",
                 "SOURCE_SCOPED_REVIEW_STALE"}
PostureIsSourceScoped(posture) ==
    posture \in {"SOURCE_SCOPED_REVIEW_CURRENT", "SOURCE_SCOPED_REVIEW_STALE"}

\* A review gap is present when acknowledging it is advisable.
ReviewGapPresent(posture) == PostureIsStale(posture) \/ PostureIsSourceScoped(posture)

LatestAction(receipts, anchor) == Newest(On(receipts, anchor)).action
OpenActions == FollowUpActions \ {"CLOSED"}

\* deriveContinuityIncidentFollowUpHistoryRollup
Rollup(receipts, transitions, triages) ==
    LET open == {a \in Anchors(receipts) : LatestAction(receipts, a) \in OpenActions}
    IN [open       |-> open,
        closed     |-> {a \in Anchors(receipts) : LatestAction(receipts, a) = "CLOSED"},
        reopened   |-> {a \in Anchors(receipts) : LatestAction(receipts, a) = "REOPENED"},
        behind     |-> {a \in open : transitions # {} /\ a # Newest(transitions).at},
        repeated   |-> {a \in Anchors(receipts) :
                           /\ Cardinality(On(receipts, a)) > 1
                           /\ \A r, q \in On(receipts, a) : r.action = q.action},
        unfollowed |-> Anchors(triages) \ Anchors(receipts)]

\* deriveContinuityIncidentTriageHistoryRollup
TriageRollup(receipts, transitions) ==
    LET needs    == {a \in Anchors(receipts) : Newest(On(receipts, a)).posture = "NEEDS_FOLLOW_UP"}
        deferred == {a \in Anchors(receipts) : Newest(On(receipts, a)).posture = "DEFERRED"}
        behind   == {a \in Anchors(receipts) : transitions # {} /\ a # Newest(transitions).at}
        repeated == {a \in Anchors(receipts) :
                        /\ Cardinality(On(receipts, a)) > 1
                        /\ \A r, q \in On(receipts, a) : r.posture = q.posture}
        risky    == {r \in receipts : ReviewGapPresent(r.review)}
    IN [notable |-> needs \union deferred \union behind # {} \/ repeated # {} \/ risky # {}]

\* Reopenings of an anchor that come after one of its closings.
ReopenedAfterClosure(receipts, anchor) ==
    {r \in On(receipts, anchor) :
        /\ r.action = "REOPENED"
        /\ \E q \in On(receipts, anchor) : q.action = "CLOSED" /\ q.at < r.at}

Stagnant(receipts, anchor) ==
    /\ Cardinality(On(receipts, anchor)) >= 2
    /\ \A r \in On(receipts, anchor) : r.action \in {"PROGRESSED", "RECORDED_PENDING"}

\* deriveContinuityIncidentClosureSummary
Closure(rollup, receipts) ==
    LET weakAnchors == {a \in Anchors(receipts) : ReopenedAfterClosure(receipts, a) # {}}
        loopAnchors == {a \in weakAnchors : Cardinality(ReopenedAfterClosure(receipts, a)) > 1}
        stagnant    == {a \in Anchors(receipts) : Stagnant(receipts, a)}
        weak        == weakAnchors # {} \/ stagnant # {} \/ rollup.repeated # {} \/ rollup.behind # {}
        unresolved  == weak \/ rollup.unfollowed # {} \/ rollup.open # {}
    IN [weakAnchors |-> weakAnchors, loopAnchors |-> loopAnchors, stagnant |-> stagnant,
        unresolved  |-> unresolved,
        class |-> IF loopAnchors # {} THEN "WEAK_CLOSURE_LOOP"
                  ELSE IF weakAnchors # {} THEN "WEAK_CLOSURE_REOPENED"
                  ELSE IF stagnant # {} \/ rollup.repeated # {} THEN "WEAK_CLOSURE_STAGNANT"
                  ELSE IF unresolved THEN "OPERATIONALLY_UNRESOLVED"
                  ELSE IF rollup.closed # {} THEN "STABLE_BOUNDED" ELSE "NONE"]

\* deriveContinuityIncidentTaskRiskSummary
TaskRisk(rollup, closure, receipts) ==
    LET signals == Cardinality(rollup.open) + Cardinality(rollup.reopened)
                   + Cardinality(rollup.unfollowed)
        distinct == Cardinality(Anchors(receipts))
    IN IF Cardinality(closure.weakAnchors) >= 2 \/ closure.loopAnchors # {}
           THEN "RECURRING_WEAK_CLOSURE"
       ELSE IF Cardinality(closure.stagnant) >= 2 \/ Cardinality(rollup.repeated) >= 2
           THEN "RECURRING_STAGNANT_FOLLOW_UP"
       ELSE IF Cardinality(rollup.unfollowed) >= 2
           THEN "RECURRING_TRIAGED_WITHOUT_FOLLOW_UP"
       ELSE IF closure.unresolved /\ distinct >= 2 /\ signals >= 2
           THEN "RECURRING_UNRESOLVED"
       ELSE IF distinct > 0 /\ ~closure.unresolved THEN "STABLE_BOUNDED" ELSE "NONE"

\* deriveContinuityIncidentFollowUpSummary; `latest' holds at most one receipt.
FollowUpState(transitions, triages, latest) ==
    IF transitions = {} THEN "NONE"
    ELSE IF triages = {} THEN "UNTRIAGED"
    ELSE LET triage == Newest(triages)
             mine == On(latest, triage.anchor)
         IN IF triage.anchor # Newest(transitions).at THEN "TRIAGE_BEHIND_LATEST"
            ELSE IF mine # {}
                 THEN CASE Newest(mine).action = "RECORDED_PENDING" -> "FOLLOW_UP_PENDING"
                        [] Newest(mine).action = "PROGRESSED" -> "FOLLOW_UP_PROGRESSED"
                        [] Newest(mine).action = "CLOSED" -> "FOLLOW_UP_CLOSED"
                        [] Newest(mine).action = "REOPENED" -> "FOLLOW_UP_REOPENED"
            ELSE IF triage.posture = "TRIAGED" THEN "TRIAGED_CURRENT" ELSE triage.posture

\* The closure signals are not added.
FollowUpAdvisedByState(state, latest, closures) ==
    \/ state \notin {"NONE", "TRIAGED_CURRENT", "FOLLOW_UP_CLOSED"}
    \/ state = "TRIAGED_CURRENT" /\ latest = {}

\* deriveFollowUpAwareAdvisory: FollowUpAdvised after the rollup and the
\* closure signals are added; a reader may have no rollup.
FollowUpAdvised(state, latest, closures) ==
    \/ state \notin {"NONE", "TRIAGED_CURRENT", "FOLLOW_UP_CLOSED"}
    \/ state = "TRIAGED_CURRENT" /\ latest = {}
    \/ \E c \in closures : c.unresolved

=============================================================================
