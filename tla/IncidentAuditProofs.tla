------------------------ MODULE IncidentAuditProofs ------------------------
(***************************************************************************)
(* Theorems about IncidentAudit, for any number of requests, any windows,  *)
(* pages, notes and bounds.  Every table is a ledger: its receipts have    *)
(* stamps of their own.  What a request has stamped and not inserted yet   *)
(* cites what is stored and will stay stored, so an insertion that comes   *)
(* late is as good as one that comes at once.                              *)
(***************************************************************************)
EXTENDS IncidentAudit, FiniteSetTheorems, WellFoundedInduction, TLAPS

\* A table: finite, and its stamps tell its receipts apart.
Ledger(S) ==
    /\ IsFiniteSet(S)
    /\ \A r \in S : r.at \in Stamps
    /\ \A r, q \in S : r.at = q.at => r = q

\* A receipt about a transition repeats what the transition recorded.
CitesTransition(r) ==
    \E a \in transitions : a.at = r.anchor /\ a.review = r.review /\ a.acked = r.acked

CitesTriage(f) == \E t \in triages : t.at = f.triage /\ t.anchor = f.anchor /\ t.at < f.at

TablesAreLedgers == Ledger(transitions) /\ Ledger(triages) /\ Ledger(followups)

\* Stamps are handed out once.
StampsAreFresh ==
    /\ \A r \in transitions \union triages \union followups : r.at <= stamp
    /\ \A r \in Requests : request[r] # Free =>
           /\ request[r].receipt.at <= stamp
           /\ \A t \in triages \union followups : t.at # request[r].receipt.at
           /\ \A q \in Requests : q # r /\ request[q] # Free =>
                  request[q].receipt.at # request[r].receipt.at

\* Stored receipts, and those still to be stored, cite what is stored.
ReceiptsCite ==
    /\ \A t \in triages \union followups : CitesTransition(t)
    /\ \A f \in followups : CitesTriage(f)
    /\ \A r \in Requests : request[r] # Free =>
           /\ CitesTransition(request[r].receipt)
           /\ request[r].step = "followup" => CitesTriage(request[r].receipt)

\* A reader has listed what is newer than its cursor, once, and what it owes
\* and has not listed is older and still in the table.
PagingIsComplete ==
    reader # NotReading =>
        /\ reader.listed = Cardinality(reader.seen)
        /\ \A x \in reader.owed : \E f \in Table(reader.history) : f.at = x
        /\ reader.step = "page" =>
               /\ reader.cursor \in Stamps
               /\ \A x \in reader.seen : x >= reader.cursor
               /\ \A x \in reader.owed : x \in reader.seen \/ x < reader.cursor
        /\ reader.step = "end" => reader.owed \subseteq reader.seen

AuditInv == TypeOK /\ TablesAreLedgers /\ StampsAreFresh /\ ReceiptsCite /\ PagingIsComplete

-----------------------------------------------------------------------------
(* Ledgers, their newest receipts and their windows.                       *)

\* A set of naturals has a least element.
LEMMA LeastStamp ==
    ASSUME NEW T, T \subseteq Nat, T # {}
    PROVE  \E t \in T : \A u \in T : t <= u
<1> DEFINE R == OpToRel(<, Nat)
<1>1. IsWellFoundedOn(R, Nat)
  BY NatLessThanWellFounded
<1>2. \A x, y \in Nat : x < y => <<x, y>> \in R
  BY DEF OpToRel
<1> HIDE DEF R
<1>3. PICK x \in T : \A y \in T : ~(<<y, x>> \in R)
  BY <1>1, WFMin
<1>4. \A y \in T : ~(y < x)
  BY <1>2, <1>3
<1> QED BY <1>4

\* And one that is bounded has a greatest.
LEMMA GreatestStamp ==
    ASSUME NEW T, T \subseteq Stamps, T # {}
    PROVE  \E t \in T : \A u \in T : u <= t
<1> DEFINE D == {MaxStamp - t : t \in T}
<1>0. \A t \in T : t \in Nat /\ MaxStamp - t \in Nat
  BY AuditBounds DEF Stamps
<1>1. D \subseteq Nat /\ D # {}
  <2>1. PICK t0 \in T : TRUE
    OBVIOUS
  <2>2. MaxStamp - t0 \in D
    OBVIOUS
  <2> QED BY <1>0, <2>2
<1>2. PICK m \in D : \A u \in D : m <= u
  <2> HIDE DEF D
  <2> QED BY <1>1, LeastStamp
<1>3. PICK t \in T : m = MaxStamp - t
  OBVIOUS
<1>4. \A u \in T : MaxStamp - t <= MaxStamp - u
  BY <1>2, <1>3
<1> QED BY <1>0, <1>4, AuditBounds

LEMMA LedgerSubset ==
    ASSUME NEW S, Ledger(S), NEW T \in SUBSET S
    PROVE  Ledger(T)
<1>1. IsFiniteSet(T)
  BY FS_Subset DEF Ledger
<1> QED BY <1>1 DEF Ledger

\* A new receipt with a stamp of its own.
LEMMA LedgerGrows ==
    ASSUME NEW S, Ledger(S), NEW x, x.at \in Stamps, \A r \in S : r.at # x.at
    PROVE  Ledger(S \union {x})
<1>1. IsFiniteSet(S \union {x})
  BY FS_AddElement DEF Ledger
<1> QED BY <1>1 DEF Ledger

LEMMA EmptyLedger == Ledger({})
BY FS_EmptySet DEF Ledger

\* The newest receipt of a ledger is in it, and no other is as new.
LEMMA NewestIs ==
    ASSUME NEW S, Ledger(S), S # {}
    PROVE  /\ Newest(S) \in S
           /\ \A q \in S : q.at <= Newest(S).at
           /\ \A r \in S : (\A q \in S : q.at <= r.at) => r = Newest(S)
<1> DEFINE T == {r.at : r \in S}
<1>1. T \subseteq Stamps /\ T # {}
  BY DEF Ledger
<1>2. PICK t \in T : \A u \in T : u <= t
  <2> HIDE DEF T
  <2> QED BY <1>1, GreatestStamp
<1>3. PICK r \in S : t = r.at
  OBVIOUS
<1>4. \A q \in S : q.at <= r.at
  BY <1>2, <1>3
<1>5. Newest(S) \in S /\ \A q \in S : q.at <= Newest(S).at
  BY <1>4 DEF Newest
<1>6. ASSUME NEW x \in S, \A q \in S : q.at <= x.at PROVE x = Newest(S)
  <2>1. x.at <= Newest(S).at /\ Newest(S).at <= x.at /\ x.at \in Nat /\ Newest(S).at \in Nat
    BY <1>5, <1>6 DEF Ledger, Stamps
  <2>2. x.at = Newest(S).at
    BY <2>1
  <2> QED BY <1>5, <2>2 DEF Ledger
<1> QED BY <1>5, <1>6

\* A window holds the newest receipts: what it leaves out is older than all
\* that it shows, and it shows the newest one.
LEMMA WindowIs ==
    ASSUME NEW S, Ledger(S), NEW n \in Nat \ {0}
    PROVE  /\ Window(S, n) \subseteq S /\ Ledger(Window(S, n))
           /\ \A f \in S, p \in Window(S, n) : f \notin Window(S, n) => f.at < p.at
           /\ S # {} => Newest(S) \in Window(S, n)
<1> DEFINE Above(r) == {q \in S : q.at > r.at}
<1>1. \A r \in S : IsFiniteSet(Above(r)) /\ Cardinality(Above(r)) \in Nat
  <2> SUFFICES ASSUME NEW r \in S PROVE IsFiniteSet(Above(r)) /\ Cardinality(Above(r)) \in Nat
    OBVIOUS
  <2>1. Above(r) \in SUBSET S
    OBVIOUS
  <2>2. IsFiniteSet(Above(r))
    <3> HIDE DEF Above
    <3> QED BY <2>1, FS_Subset DEF Ledger
  <2> HIDE DEF Above
  <2> QED BY <2>2, FS_CardinalityType
<1>2. \A r : r \in Window(S, n) <=> r \in S /\ Cardinality(Above(r)) < n
  BY DEF Window
<1>3. Window(S, n) \subseteq S /\ Ledger(Window(S, n))
  BY <1>2, LedgerSubset DEF Window
<1>4. ASSUME NEW f \in S, NEW p \in Window(S, n), f \notin Window(S, n)
      PROVE  f.at < p.at
  <2> SUFFICES ASSUME ~(f.at < p.at) PROVE FALSE
    OBVIOUS
  <2>1. p \in S /\ f.at \in Nat /\ p.at \in Nat /\ p.at <= f.at /\ \A q \in S : q.at \in Nat
    BY <1>3 DEF Ledger, Stamps
  <2>2. Above(f) \in SUBSET Above(p)
    BY <2>1
  <2>3. Cardinality(Above(f)) <= Cardinality(Above(p))
    <3> HIDE DEF Above
    <3> QED BY <1>1, <2>1, <2>2, FS_Subset
  <2> HIDE DEF Above
  <2>4. Cardinality(Above(p)) < n /\ ~(Cardinality(Above(f)) < n)
    BY <1>2, <1>4
  <2> QED BY <1>1, <2>1, <2>3, <2>4
<1>5. ASSUME S # {} PROVE Newest(S) \in Window(S, n)
  <2>1. Newest(S) \in S /\ \A q \in S : q.at <= Newest(S).at
    BY <1>5, NewestIs
  <2>2. Above(Newest(S)) = {}
    BY <2>1 DEF Ledger, Stamps
  <2>3. Cardinality(Above(Newest(S))) < n
    <3> HIDE DEF Above
    <3> QED BY <2>2, FS_EmptySet
  <2> HIDE DEF Above
  <2> QED BY <1>2, <2>1, <2>3
<1> QED BY <1>3, <1>4, <1>5

\* The newest receipt of an anchor that a window shows is the newest there is.
LEMMA NewestInWindow ==
    ASSUME NEW S, Ledger(S), NEW n \in Nat \ {0}, NEW a, a \in Anchors(Window(S, n))
    PROVE  /\ On(Window(S, n), a) # {} /\ On(S, a) # {}
           /\ Newest(On(Window(S, n), a)) = Newest(On(S, a))
           /\ Newest(On(S, a)) \in Window(S, n) /\ Newest(On(S, a)).anchor = a
<1> DEFINE W == Window(S, n)
<1>1. /\ W \subseteq S /\ Ledger(W)
      /\ \A f \in S, p \in W : f \notin W => f.at < p.at
  BY WindowIs
<1> HIDE DEF W
<1>2. PICK w \in W : w.anchor = a
  BY DEF Anchors, W
<1>3. w \in On(W, a) /\ On(W, a) \subseteq On(S, a) /\ On(W, a) \in SUBSET W /\ On(S, a) \in SUBSET S
  BY <1>1, <1>2 DEF On
<1>4. Ledger(On(W, a)) /\ Ledger(On(S, a)) /\ On(W, a) # {} /\ On(S, a) # {}
  BY <1>1, <1>3, LedgerSubset
<1>5. /\ Newest(On(W, a)) \in On(W, a)
      /\ \A q \in On(W, a) : q.at <= Newest(On(W, a)).at
  BY <1>4, NewestIs
<1>6. \A q \in On(S, a) : q.at <= Newest(On(W, a)).at
  <2> SUFFICES ASSUME NEW q \in On(S, a) PROVE q.at <= Newest(On(W, a)).at
    OBVIOUS
  <2>1. CASE q \in W
    BY <1>5, <2>1 DEF On
  <2>2. CASE q \notin W
    <3>1. q \in S /\ Newest(On(W, a)) \in W
      BY <1>3, <1>5
    <3>2. q.at < Newest(On(W, a)).at /\ q.at \in Nat /\ Newest(On(W, a)).at \in Nat
      BY <1>1, <2>2, <3>1 DEF Ledger, Stamps
    <3> QED BY <3>2
  <2> QED BY <2>1, <2>2
<1>7. Newest(On(W, a)) = Newest(On(S, a))
  BY <1>3, <1>4, <1>5, <1>6, NewestIs
<1> QED BY <1>3, <1>4, <1>5, <1>7 DEF On, W

\* A ledger has as many stamps as receipts.
LEMMA StampsCount ==
    ASSUME NEW S, Ledger(S)
    PROVE  /\ IsFiniteSet({r.at : r \in S})
           /\ Cardinality({r.at : r \in S}) = Cardinality(S)
<1> DEFINE A == {r.at : r \in S}
           f == [r \in S |-> r.at]
<1>1. f \in Bijection(S, A)
  BY DEF Ledger, Bijection, Injection, Surjection, IsInjective
<1>2. ExistsBijection(S, A)
  BY <1>1 DEF ExistsBijection
<1> HIDE DEF A
<1>3. IsFiniteSet(A) /\ Cardinality(A) = Cardinality(S)
  BY <1>2, FS_Bijection DEF Ledger
<1> QED BY <1>3 DEF A

-----------------------------------------------------------------------------
(* Pages of a history.                                                     *)

\* A page holds the newest receipts older than its cursor.
LEMMA PageIs ==
    ASSUME NEW T, Ledger(T), NEW cursor, NEW page, page = PageBefore(T, cursor, PageLimit)
    PROVE  /\ page \in SUBSET T /\ Ledger(page)
           /\ \A p \in page : p.at < cursor
           /\ \A f \in T : f.at < cursor /\ f \notin page =>
                  page # {} /\ \A p \in page : f.at < p.at
<1> DEFINE U == {r \in T : r.at < cursor}
<1>1. U \in SUBSET T
  OBVIOUS
<1>2. Ledger(U)
  BY <1>1, LedgerSubset
<1>3. page = Window(U, PageLimit) /\ PageLimit \in Nat \ {0}
  BY AuditBounds DEF PageBefore
<1>4. /\ page \subseteq U /\ Ledger(page)
      /\ \A f \in U, p \in page : f \notin page => f.at < p.at
      /\ U # {} => Newest(U) \in page
  <2> HIDE DEF U
  <2> QED BY <1>2, <1>3, WindowIs
<1> QED BY <1>4

\* Is `c' the cursor of the page after this one?
CursorAfter(T, cursor, page, c) ==
    \/ c = 0 /\ \A f \in T : f.at < cursor => f \in page
    \/ /\ c \in Stamps /\ c < cursor
       /\ \A p \in page : c <= p.at
       /\ \A f \in T : f.at < cursor /\ f \notin page => f.at < c

LEMMA NextCursorIs ==
    ASSUME NEW history, NEW cursor \in Nat, Ledger(Table(history))
    PROVE  CursorAfter(Table(history), cursor, HistoryPage(history, cursor),
                       NextCursor(history, cursor))
<1> DEFINE T == Table(history)
           page == HistoryPage(history, cursor)
           older == {f \in T : \A p \in page : f.at < p.at}
           ats == {p.at : p \in page}
<1>1. page = PageBefore(T, cursor, PageLimit) /\ Ledger(T)
  BY DEF HistoryPage
<1>2. /\ page \in SUBSET T /\ Ledger(page)
      /\ \A p \in page : p.at < cursor
      /\ \A f \in T : f.at < cursor /\ f \notin page =>
             page # {} /\ \A p \in page : f.at < p.at
  <2> HIDE DEF T, page
  <2> QED BY <1>1, PageIs
<1>3. NextCursor(history, cursor) =
          IF page = {} \/ older = {} THEN 0 ELSE CHOOSE at \in ats : \A p \in page : at <= p.at
  BY DEF NextCursor
<1> HIDE DEF T, page
<1>4. CASE page = {} \/ older = {}
  <2>1. \A f \in T : f.at < cursor => f \in page
    BY <1>2, <1>4
  <2>2. NextCursor(history, cursor) = 0
    BY <1>3, <1>4
  <2> HIDE DEF older
  <2> QED BY <2>1, <2>2 DEF CursorAfter, T, page
<1>5. CASE page # {} /\ older # {}
  <2>1. ats \subseteq Nat /\ ats # {}
    BY <1>2, <1>5 DEF Ledger, Stamps
  <2>2. PICK m \in ats : \A u \in ats : m <= u
    <3> HIDE DEF ats
    <3> QED BY <2>1, LeastStamp
  <2>3. \E at \in ats : \A p \in page : at <= p.at
    BY <2>2
  <2> DEFINE c == CHOOSE at \in ats : \A p \in page : at <= p.at
  <2>4. c \in ats /\ \A p \in page : c <= p.at
    <3> HIDE DEF ats
    <3> QED BY <2>3
  <2>5. NextCursor(history, cursor) = c
    BY <1>3, <1>5
  <2> HIDE DEF c
  <2>6. PICK q \in page : c = q.at
    BY <2>4
  <2>7. c \in Stamps /\ c < cursor
    BY <1>2, <2>6 DEF Ledger
  <2>8. \A f \in T : f.at < cursor /\ f \notin page => f.at < c
    BY <1>2, <2>6
  <2> QED BY <2>4, <2>5, <2>7, <2>8 DEF CursorAfter, T, page
<1> QED BY <1>4, <1>5

-----------------------------------------------------------------------------
(* Every step preserves the invariant.                                     *)

LEMMA PendingRequest ==
    ASSUME TypeOK, NEW r \in Requests, request[r] # Free
    PROVE  /\ request[r].step \in {"triage", "followup"} /\ request[r].receipt.at \in Stamps
           /\ request[r].step = "triage" => request[r].receipt \in Triages
           /\ request[r].step = "followup" => request[r].receipt \in FollowUps
<1>1. request[r] \in Pending
  BY DEF TypeOK
<1> QED BY <1>1 DEF Pending, Triages, FollowUps

\* What is cited stays cited while the tables grow.
LEMMA CitationsLast ==
    ASSUME transitions \subseteq transitions', triages \subseteq triages', NEW x
    PROVE  /\ CitesTransition(x) => CitesTransition(x)'
           /\ CitesTriage(x) => CitesTriage(x)'
BY DEF CitesTransition, CitesTriage

\* A reader between two pages is not disturbed by an insertion.
LEMMA ReaderUndisturbed ==
    ASSUME TypeOK, PagingIsComplete, UNCHANGED reader, transitions \subseteq transitions',
           triages \subseteq triages', followups \subseteq followups'
    PROVE  PagingIsComplete'
<1> SUFFICES ASSUME reader # NotReading PROVE PagingIsComplete'
  BY DEF PagingIsComplete
<1>1. reader \in Readings
  BY DEF TypeOK
<1>2. reader.history \in Histories
  BY <1>1 DEF Readings
<1>3. \A f \in Table(reader.history) : f \in Table(reader.history)'
  BY <1>2 DEF Histories, Table
<1>4. \A x \in reader.owed : \E f \in Table(reader.history)' : f.at = x
  BY <1>3 DEF PagingIsComplete
<1> QED BY <1>4 DEF PagingIsComplete

LEMMA RecordKeeps ==
    ASSUME AuditInv, NEW p \in Postures, NEW b \in BOOLEAN, RecordTransition(p, b)
    PROVE  AuditInv'
<1> USE DEF AuditInv
<1> DEFINE x == [at |-> stamp + 1, review |-> p, acked |-> b]
<1>1. /\ stamp' = stamp + 1 /\ transitions' = transitions \union {x}
      /\ UNCHANGED <<triages, followups, request, reader>>
  BY DEF RecordTransition
<1>2. stamp \in Nat /\ stamp' \in 0..MaxStamp /\ stamp + 1 \in Stamps
  BY AuditBounds DEF TypeOK, RecordTransition, Stamps
<1>3. x \in Transitions /\ x.at = stamp + 1
  BY <1>2 DEF Transitions
<1> HIDE DEF x
<1>4. TypeOK'
  BY <1>1, <1>2, <1>3 DEF TypeOK
<1>5. \A t \in transitions \union triages \union followups : t.at \in Nat /\ t.at <= stamp
  BY DEF TablesAreLedgers, Ledger, Stamps, StampsAreFresh
<1>6. Ledger(transitions')
  <2>1. \A t \in transitions : t.at # x.at
    BY <1>2, <1>3, <1>5
  <2> QED BY <1>1, <1>2, <1>3, <2>1, LedgerGrows DEF TablesAreLedgers
<1>7. TablesAreLedgers'
  BY <1>1, <1>6 DEF TablesAreLedgers
<1>8. StampsAreFresh'
  <2>1. \A t \in (transitions \union triages \union followups)' : t.at <= stamp'
    BY <1>1, <1>2, <1>3, <1>5
  <2>2. ASSUME NEW r \in Requests, request[r] # Free
        PROVE  request[r].receipt.at <= stamp'
    <3>1. request[r].receipt.at <= stamp /\ request[r].receipt.at \in Nat
      BY <2>2, PendingRequest DEF StampsAreFresh, Stamps
    <3> QED BY <1>1, <1>2, <3>1
  <2> QED BY <1>1, <2>1, <2>2 DEF StampsAreFresh
<1>9. ReceiptsCite'
  BY <1>1, CitationsLast DEF ReceiptsCite
<1>10. PagingIsComplete'
  BY <1>1, ReaderUndisturbed
<1> QED BY <1>4, <1>7, <1>8, <1>9, <1>10

\* A request reads and stamps: what it will insert cites what is stored.
LEMMA StampingKeeps ==
    ASSUME AuditInv, NEW r \in Requests, NEW new \in Pending, stamp < MaxStamp,
           stamp' = stamp + 1, new.receipt.at = stamp + 1,
           request' = [request EXCEPT ![r] = new],
           UNCHANGED <<transitions, triages, followups, reader>>,
           CitesTransition(new.receipt), new.step = "followup" => CitesTriage(new.receipt)
    PROVE  AuditInv'
<1> USE DEF AuditInv
<1>1. stamp \in Nat /\ stamp' \in 0..MaxStamp
  BY AuditBounds DEF TypeOK
<1>2. TypeOK'
  BY <1>1 DEF TypeOK
<1>3. TablesAreLedgers'
  BY DEF TablesAreLedgers
<1>4. \A t \in transitions \union triages \union followups : t.at \in Nat /\ t.at <= stamp
  BY DEF TablesAreLedgers, Ledger, Stamps, StampsAreFresh
<1>5. \A q \in Requests : request[q] # Free =>
          request[q].receipt.at \in Nat /\ request[q].receipt.at <= stamp
  BY PendingRequest DEF StampsAreFresh, Stamps
<1>6. \A q \in Requests : request'[q] = IF q = r THEN new ELSE request[q]
  BY DEF TypeOK
<1>7. StampsAreFresh'
  <2>1. \A t \in transitions \union triages \union followups : t.at <= stamp' /\ t.at # stamp + 1
    BY <1>1, <1>4
  <2>2. \A q \in Requests : request[q] # Free =>
            request[q].receipt.at <= stamp' /\ request[q].receipt.at # stamp + 1
    BY <1>1, <1>5
  <2>3. stamp + 1 <= stamp'
    BY <1>1
  <2>4. \A q \in Requests : request'[q] # Free => request'[q].receipt.at <= stamp'
    BY <1>6, <2>2, <2>3
  <2>5. \A q \in Requests : request'[q] # Free =>
            \A t \in triages \union followups : t.at # request'[q].receipt.at
    BY <1>6, <2>1 DEF StampsAreFresh
  <2>6. \A q, k \in Requests : k # q /\ request'[q] # Free /\ request'[k] # Free =>
            request'[k].receipt.at # request'[q].receipt.at
    BY <1>6, <2>2 DEF StampsAreFresh
  <2> QED BY <2>1, <2>4, <2>5, <2>6 DEF StampsAreFresh
<1>8. ReceiptsCite'
  <2>1. /\ \A t \in triages \union followups : CitesTransition(t)'
        /\ \A f \in followups : CitesTriage(f)'
    BY CitationsLast DEF ReceiptsCite
  <2>2. ASSUME NEW q \in Requests, request'[q] # Free
        PROVE  /\ CitesTransition(request'[q].receipt)
               /\ request'[q].step = "followup" => CitesTriage(request'[q].receipt)
    BY <1>6, <2>2 DEF ReceiptsCite
  <2>3. ASSUME NEW q \in Requests, request'[q] # Free
        PROVE  /\ CitesTransition(request[q].receipt)'
               /\ request'[q].step = "followup" => CitesTriage(request[q].receipt)'
    BY <2>2, <2>3 DEF CitesTransition, CitesTriage
  <2> QED BY <2>1, <2>3 DEF ReceiptsCite
<1>9. PagingIsComplete'
  BY ReaderUndisturbed
<1> QED BY <1>2, <1>3, <1>7, <1>8, <1>9

LEMMA BeginTriageKeeps ==
    ASSUME AuditInv, NEW r \in Requests, NEW mode \in Modes, NEW a \in transitions,
           NEW p \in TriagePostures, NEW n \in Notes, BeginTriage(r, mode, a, p, n)
    PROVE  AuditInv'
<1> DEFINE x == [at |-> stamp + 1, anchor |-> a.at, mode |-> mode, posture |-> p,
                 note |-> StoredNote(n), review |-> a.review, acked |-> a.acked]
           new == [step |-> "triage", note |-> n, receipt |-> x]
<1>1. stamp + 1 \in Stamps
  BY AuditBounds DEF AuditInv, TypeOK, BeginTriage, Stamps
<1>2. a \in Transitions
  BY DEF AuditInv, TypeOK
<1>3. StoredNote(n) \in StoredNotes
  BY DEF StoredNote, StoredNotes
<1>4. x \in Triages
  BY <1>1, <1>2, <1>3 DEF Transitions, Triages
<1>5. CitesTransition(x) /\ x.at = stamp + 1
  BY DEF CitesTransition
<1>6. request' = [request EXCEPT ![r] = new]
  BY DEF BeginTriage
<1>7. stamp < MaxStamp /\ stamp' = stamp + 1 /\ UNCHANGED <<transitions, triages, followups, reader>>
  BY DEF BeginTriage
<1> HIDE DEF x
<1>8. new \in Pending /\ new.receipt = x /\ new.step = "triage"
  BY <1>4 DEF Pending
<1> HIDE DEF new
<1>9. /\ new.receipt.at = stamp + 1 /\ CitesTransition(new.receipt)
      /\ new.step = "followup" => CitesTriage(new.receipt)
  BY <1>5, <1>8
<1> QED BY <1>6, <1>7, <1>8, <1>9, StampingKeeps

LEMMA BeginFollowUpKeeps ==
    ASSUME AuditInv, NEW r \in Requests, NEW mode \in Modes, NEW a \in transitions,
           NEW named \in BOOLEAN, NEW t \in triages, NEW k \in FollowUpActions,
           NEW n \in Notes, BeginFollowUp(r, mode, a, named, t, k, n)
    PROVE  AuditInv'
<1> DEFINE x == [at |-> stamp + 1, anchor |-> a.at, mode |-> mode, triage |-> t.at,
                 action |-> k, note |-> StoredNote(n), review |-> t.review, acked |-> t.acked]
           new == [step |-> "followup", note |-> n, receipt |-> x]
<1>1. stamp + 1 \in Stamps
  BY AuditBounds DEF AuditInv, TypeOK, BeginFollowUp, Stamps
<1>2. a \in Transitions /\ t \in Triages
  BY DEF AuditInv, TypeOK
<1>3. StoredNote(n) \in StoredNotes
  BY DEF StoredNote, StoredNotes
<1>4. x \in FollowUps
  BY <1>1, <1>2, <1>3 DEF Transitions, Triages, FollowUps
<1>5. t.anchor = a.at /\ t.at \in Nat /\ t.at <= stamp /\ stamp \in Nat
  BY <1>2 DEF BeginFollowUp, TriageOfAnchor, AuditInv, TypeOK, StampsAreFresh, Triages, Stamps
<1>6. CitesTransition(x)
  BY <1>5 DEF AuditInv, ReceiptsCite, CitesTransition
<1>7. CitesTriage(x) /\ x.at = stamp + 1
  BY <1>5 DEF CitesTriage
<1>8. request' = [request EXCEPT ![r] = new]
  BY DEF BeginFollowUp
<1>9. stamp < MaxStamp /\ stamp' = stamp + 1 /\ UNCHANGED <<transitions, triages, followups, reader>>
  BY DEF BeginFollowUp
<1> HIDE DEF x
<1>10. new \in Pending /\ new.receipt = x
  BY <1>4 DEF Pending
<1> HIDE DEF new
<1>11. /\ new.receipt.at = stamp + 1 /\ CitesTransition(new.receipt)
       /\ new.step = "followup" => CitesTriage(new.receipt)
  BY <1>6, <1>7, <1>10
<1> QED BY <1>8, <1>9, <1>10, <1>11, StampingKeeps

LEMMA InsertKeeps ==
    ASSUME AuditInv, NEW r \in Requests, InsertReceipt(r)
    PROVE  AuditInv'
<1> USE DEF AuditInv
<1> DEFINE x == request[r].receipt
<1>1. /\ request[r] # Free /\ request' = [request EXCEPT ![r] = Free]
      /\ UNCHANGED <<transitions, stamp, reader>>
  BY DEF InsertReceipt, Free
<1>2. /\ x.at \in Stamps
      /\ request[r].step = "triage" => x \in Triages
      /\ request[r].step = "followup" => x \in FollowUps
  BY <1>1, PendingRequest
<1>3. \/ request[r].step = "triage" /\ triages' = triages \union {x} /\ followups' = followups
      \/ request[r].step = "followup" /\ followups' = followups \union {x} /\ triages' = triages
  BY DEF InsertReceipt
<1>4. /\ x.at <= stamp /\ CitesTransition(x)
      /\ request[r].step = "followup" => CitesTriage(x)
      /\ \A t \in triages \union followups : t.at # x.at
      /\ \A q \in Requests : q # r /\ request[q] # Free => request[q].receipt.at # x.at
  BY <1>1 DEF StampsAreFresh, ReceiptsCite
<1> HIDE DEF x
<1>5. \A q \in Requests : request'[q] = IF q = r THEN Free ELSE request[q]
  BY <1>1 DEF TypeOK
<1>6. TypeOK'
  BY <1>1, <1>2, <1>3 DEF TypeOK
<1>7. TablesAreLedgers'
  <2>1. Ledger(triages \union {x}) /\ Ledger(followups \union {x})
    BY <1>2, <1>4, LedgerGrows DEF TablesAreLedgers
  <2> QED BY <1>1, <1>3, <2>1 DEF TablesAreLedgers
<1>8. StampsAreFresh'
  <2>1. \A t \in (transitions \union triages \union followups)' : t.at <= stamp
    BY <1>1, <1>3, <1>4 DEF StampsAreFresh
  <2>2. \A q \in Requests : request'[q] # Free => q # r /\ request[q] # Free /\ request'[q] = request[q]
    BY <1>5
  <2>3. \A q \in Requests : request'[q] # Free =>
            \A t \in (triages \union followups)' : t.at # request[q].receipt.at
    BY <1>3, <1>4, <2>2 DEF StampsAreFresh
  <2> QED BY <1>1, <2>1, <2>2, <2>3 DEF StampsAreFresh
<1>9. ReceiptsCite'
  <2>1. transitions \subseteq transitions' /\ triages \subseteq triages'
    BY <1>1, <1>3
  <2>2. \A y : /\ CitesTransition(y) => CitesTransition(y)'
               /\ CitesTriage(y) => CitesTriage(y)'
    BY <2>1, CitationsLast
  <2>3. \A t \in (triages \union followups)' : CitesTransition(t)'
    BY <1>3, <1>4, <2>2 DEF ReceiptsCite
  <2>4. \A f \in followups' : CitesTriage(f)'
    BY <1>3, <1>4, <2>2 DEF ReceiptsCite
  <2>5. ASSUME NEW q \in Requests, request'[q] # Free
        PROVE  /\ CitesTransition(request[q].receipt)'
               /\ request'[q].step = "followup" => CitesTriage(request[q].receipt)'
    <3>1. request[q] # Free /\ request'[q] = request[q]
      BY <1>5, <2>5
    <3>2. /\ CitesTransition(request[q].receipt)
          /\ request[q].step = "followup" => CitesTriage(request[q].receipt)
      BY <3>1 DEF ReceiptsCite
    <3> QED BY <2>1, <3>1, <3>2 DEF CitesTransition, CitesTriage
  <2> QED BY <2>3, <2>4, <2>5 DEF ReceiptsCite
<1>10. PagingIsComplete'
  BY <1>1, <1>3, ReaderUndisturbed
<1> QED BY <1>6, <1>7, <1>8, <1>9, <1>10

LEMMA LoseKeeps ==
    ASSUME AuditInv, NEW r \in Requests, LoseRequest(r)
    PROVE  AuditInv'
<1> USE DEF AuditInv
<1>1. /\ request' = [request EXCEPT ![r] = Free]
      /\ UNCHANGED <<transitions, triages, followups, stamp, reader>>
  BY DEF LoseRequest
<1>2. \A q \in Requests : request'[q] # Free => request[q] # Free /\ request'[q] = request[q]
  BY <1>1 DEF TypeOK
<1>3. TypeOK' /\ TablesAreLedgers' /\ PagingIsComplete'
  BY <1>1, ReaderUndisturbed DEF TypeOK, TablesAreLedgers
<1>4. StampsAreFresh'
  BY <1>1, <1>2 DEF StampsAreFresh
<1>5. ReceiptsCite'
  BY <1>1, <1>2 DEF ReceiptsCite, CitesTransition, CitesTriage
<1> QED BY <1>3, <1>4, <1>5

\* A reading of `seen' and `owed' that is complete down to its cursor.
CompleteTo(history, cursor, seen, listed, owed) ==
    /\ listed = Cardinality(seen)
    /\ \A x \in owed : \E f \in Table(history) : f.at = x
    /\ \A x \in seen : x >= cursor
    /\ \A x \in owed : x \in seen \/ x < cursor

LEMMA ReadKeeps ==
    ASSUME AuditInv, NEW history \in Histories, NEW cursor \in Nat,
           NEW seen \in SUBSET Stamps, NEW listed, NEW owed \in SUBSET Stamps,
           CompleteTo(history, cursor, seen, listed, owed),
           ReadPage(history, cursor, seen, listed, owed),
           UNCHANGED <<transitions, triages, followups, stamp, request>>
    PROVE  AuditInv'
<1> USE DEF AuditInv
<1> DEFINE T == Table(history)
           page == HistoryPage(history, cursor)
           ats == {p.at : p \in page}
           c == NextCursor(history, cursor)
<1>1. Ledger(T)
  BY DEF TablesAreLedgers, Table, Histories
<1>2. CursorAfter(T, cursor, page, c)
  BY <1>1, NextCursorIs
<1>3. reader' = [step |-> IF c = 0 THEN "end" ELSE "page", history |-> history,
                 cursor |-> c, owed |-> owed, seen |-> seen \union ats,
                 listed |-> listed + Cardinality(page)]
  BY DEF ReadPage
<1>4. page = PageBefore(T, cursor, PageLimit)
  BY DEF HistoryPage
<1> HIDE DEF T, page, c
<1>5. page \in SUBSET T /\ Ledger(page) /\ \A p \in page : p.at < cursor
  BY <1>1, <1>4, PageIs
<1>6. IsFiniteSet(ats) /\ Cardinality(ats) = Cardinality(page)
  BY <1>5, StampsCount
<1>7. ats \subseteq Stamps /\ seen \cap ats = {}
  <2>1. \A x \in ats : x \in Stamps /\ x < cursor
    BY <1>5 DEF Ledger
  <2>2. \A x \in seen : x >= cursor /\ x \in Nat
    BY DEF CompleteTo, Stamps
  <2>3. \A x \in ats : x \in Nat
    BY <2>1 DEF Stamps
  <2> HIDE DEF ats
  <2> QED BY <2>1, <2>2, <2>3
<1>8. /\ Cardinality(seen \union ats) = listed + Cardinality(page)
      /\ listed + Cardinality(page) \in Nat
  <2>1. IsFiniteSet(Stamps)
    BY AuditBounds, FS_Interval DEF Stamps
  <2>2. IsFiniteSet(seen)
    BY <2>1, FS_Subset
  <2> HIDE DEF ats
  <2>3. Cardinality(seen \union ats) = Cardinality(seen) + Cardinality(ats) - Cardinality({})
    BY <1>6, <1>7, <2>2, FS_Union
  <2>4. Cardinality({}) = 0 /\ Cardinality(seen) \in Nat /\ Cardinality(ats) \in Nat
    BY <1>6, <2>2, FS_EmptySet, FS_CardinalityType
  <2>5. listed = Cardinality(seen)
    BY DEF CompleteTo
  <2> QED BY <1>6, <2>3, <2>4, <2>5
<1>9. c \in Stamps \union {0}
  BY <1>2 DEF CursorAfter
<1>10. reader' \in Readings
  <2> HIDE DEF ats
  <2> QED BY <1>3, <1>7, <1>8, <1>9 DEF Readings
<1>11. TypeOK'
  BY <1>10 DEF TypeOK
<1>12. \A x \in owed : x \in seen \union ats \/ (c # 0 /\ x < c)
  <2> SUFFICES ASSUME NEW x \in owed, x \notin seen, x \notin ats PROVE c # 0 /\ x < c
    OBVIOUS
  <2>1. PICK f \in T : f.at = x
    BY DEF CompleteTo, T
  <2>2. f.at < cursor /\ f \notin page
    BY <2>1 DEF CompleteTo
  <2> HIDE DEF ats
  <2>3. c \in Stamps
    BY <1>2, <2>2 DEF CursorAfter
  <2>4. c # 0
    BY <2>3 DEF Stamps
  <2> QED BY <1>2, <2>1, <2>2, <2>4 DEF CursorAfter
<1>13. c # 0 => c \in Stamps /\ \A x \in seen \union ats : x >= c
  <2> SUFFICES ASSUME c # 0 PROVE c \in Stamps /\ \A x \in seen \union ats : x >= c
    OBVIOUS
  <2>1. c \in Stamps /\ c < cursor /\ \A p \in page : c <= p.at
    BY <1>2 DEF CursorAfter
  <2>2. \A x \in ats : x >= c
    BY <1>5, <2>1 DEF Ledger, Stamps
  <2>3. \A x \in seen : x >= c
    BY <2>1 DEF CompleteTo, Stamps
  <2> QED BY <2>1, <2>2, <2>3
<1>14. PagingIsComplete'
  <2> HIDE DEF ats
  <2>1. /\ reader'.listed = Cardinality(reader'.seen) /\ reader'.owed = owed
        /\ reader'.history = history /\ reader'.seen = seen \union ats /\ reader'.cursor = c
        /\ reader'.step = IF c = 0 THEN "end" ELSE "page"
    BY <1>3, <1>8
  <2>2. Table(history)' = Table(history)
    BY DEF Table
  <2>3. \A x \in reader'.owed : \E f \in Table(history)' : f.at = x
    BY <2>1, <2>2 DEF CompleteTo
  <2>4. reader'.step = "end" => reader'.owed \subseteq reader'.seen
    BY <1>12, <2>1
  <2>5. reader'.step = "page" =>
             /\ reader'.cursor \in Stamps
             /\ \A x \in reader'.seen : x >= reader'.cursor
             /\ \A x \in reader'.owed : x \in reader'.seen \/ x < reader'.cursor
    BY <1>12, <1>13, <2>1
  <2> QED BY <2>1, <2>3, <2>4, <2>5 DEF PagingIsComplete
<1>15. TablesAreLedgers' /\ StampsAreFresh' /\ ReceiptsCite'
  BY DEF TablesAreLedgers, StampsAreFresh, ReceiptsCite, CitesTransition, CitesTriage
<1> QED BY <1>11, <1>14, <1>15

LEMMA OpenKeeps ==
    ASSUME AuditInv, NEW h \in Histories, OpenHistory(h)
    PROVE  AuditInv'
<1> DEFINE owed == {f.at : f \in Table(h)}
<1>1. Ledger(Table(h))
  BY DEF AuditInv, TablesAreLedgers, Table, Histories
<1>2. owed \in SUBSET Stamps /\ {} \in SUBSET Stamps
  BY <1>1 DEF Ledger
<1>3. MaxStamp + 1 \in Nat
  BY AuditBounds
<1>4. \A x \in owed : x < MaxStamp + 1
  BY <1>2, AuditBounds DEF Stamps
<1>5. CompleteTo(h, MaxStamp + 1, {}, 0, owed)
  BY <1>4, FS_EmptySet DEF CompleteTo
<1>6. ReadPage(h, MaxStamp + 1, {}, 0, owed)
      /\ UNCHANGED <<transitions, triages, followups, stamp, request>>
  BY DEF OpenHistory
<1> HIDE DEF owed
<1> QED BY <1>2, <1>3, <1>5, <1>6, ReadKeeps

LEMMA OlderKeeps ==
    ASSUME AuditInv, OlderPage
    PROVE  AuditInv'
<1>1. reader # NotReading /\ reader.step = "page"
  BY DEF OlderPage, NotReading
<1>2. reader \in Readings
  BY <1>1 DEF AuditInv, TypeOK
<1>3. /\ reader.history \in Histories /\ reader.seen \in SUBSET Stamps
      /\ reader.owed \in SUBSET Stamps
  BY <1>2 DEF Readings
<1>4. reader.cursor \in Nat
  BY <1>1 DEF AuditInv, PagingIsComplete, Stamps
<1>5. CompleteTo(reader.history, reader.cursor, reader.seen, reader.listed, reader.owed)
  BY <1>1 DEF AuditInv, PagingIsComplete, CompleteTo
<1>6. ReadPage(reader.history, reader.cursor, reader.seen, reader.listed, reader.owed)
      /\ UNCHANGED <<transitions, triages, followups, stamp, request>>
  BY DEF OlderPage
<1> QED BY <1>3, <1>4, <1>5, <1>6, ReadKeeps

LEMMA CloseKeeps ==
    ASSUME AuditInv, CloseHistory
    PROVE  AuditInv'
<1>1. reader' = NotReading /\ UNCHANGED <<transitions, triages, followups, stamp, request>>
  BY DEF CloseHistory
<1> QED BY <1>1 DEF AuditInv, TypeOK, TablesAreLedgers, StampsAreFresh, ReceiptsCite,
                    CitesTransition, CitesTriage, PagingIsComplete

LEMMA InitAudit == Init => AuditInv
<1> SUFFICES ASSUME Init PROVE AuditInv
  OBVIOUS
<1>1. TypeOK
  BY AuditBounds DEF Init, TypeOK
<1>2. TablesAreLedgers
  BY EmptyLedger DEF Init, TablesAreLedgers
<1>3. \A r \in Requests : request[r] = Free
  BY DEF Init
<1>4. StampsAreFresh /\ ReceiptsCite /\ PagingIsComplete
  BY <1>3 DEF Init, StampsAreFresh, ReceiptsCite, PagingIsComplete
<1> QED BY <1>1, <1>2, <1>4 DEF AuditInv

LEMMA NextAudit == AuditInv /\ [Next]_vars => AuditInv'
<1> SUFFICES ASSUME AuditInv, [Next]_vars PROVE AuditInv'
  OBVIOUS
<1>1. ASSUME NEW p \in Postures, NEW b \in BOOLEAN, RecordTransition(p, b) PROVE AuditInv'
  BY <1>1, RecordKeeps
<1>2. ASSUME NEW r \in Requests, Operator(r) PROVE AuditInv'
  BY <1>2, BeginTriageKeeps, BeginFollowUpKeeps, InsertKeeps, LoseKeeps DEF Operator
<1>3. ASSUME NEW h \in Paged, OpenHistory(h) PROVE AuditInv'
  BY <1>3, OpenKeeps, AuditBounds
<1>4. CASE OlderPage
  BY <1>4, OlderKeeps
<1>5. CASE CloseHistory
  BY <1>5, CloseKeeps
<1>6. CASE UNCHANGED vars
  <2>1. TypeOK' /\ TablesAreLedgers'
    BY <1>6 DEF vars, AuditInv, TypeOK, TablesAreLedgers
  <2>2. StampsAreFresh'
    BY <1>6 DEF vars, AuditInv, StampsAreFresh
  <2>3. ReceiptsCite'
    BY <1>6 DEF vars, AuditInv, ReceiptsCite, CitesTransition, CitesTriage
  <2>4. PagingIsComplete'
    BY <1>6 DEF vars, AuditInv, PagingIsComplete, Table
  <2> QED BY <2>1, <2>2, <2>3, <2>4 DEF AuditInv
<1> QED BY <1>1, <1>2, <1>3, <1>4, <1>5, <1>6 DEF Next

\* Every reachable state has the types, the ledgers, the fresh stamps, the
\* citations and the complete pages of AuditInv, however the operators'
\* requests, the daemon's transitions and the client's page reads interleave.
THEOREM AuditInvariance == Spec => []AuditInv
<1>1. Init => AuditInv
  BY InitAudit
<1>2. AuditInv /\ [Next]_vars => AuditInv'
  BY NextAudit
<1> QED BY <1>1, <1>2, PTL DEF Spec

\* A follow-up is stored with a triage of its own anchor and the review
\* evidence of the transition it is anchored on, although
\* RecordContinuityIncidentFollowUp reads both outside the transaction that
\* inserts the receipt.
THEOREM FollowUpsCite == Spec => []FollowUpsCiteTheirIncident
<1>1. AuditInv => FollowUpsCiteTheirIncident
  BY DEF AuditInv, ReceiptsCite, CitesTransition, CitesTriage, FollowUpsCiteTheirIncident
<1> QED BY <1>1, AuditInvariance, PTL

\* A client that pages a history to its end has listed, once each, the
\* receipts stored when it began: the cursor of ReadContinuityTransitionHistory
\* and its siblings neither skips nor repeats one.
THEOREM PagingLosesNothing == Spec => []PagesAreComplete
<1>1. AuditInv => PagesAreComplete
  BY DEF AuditInv, PagingIsComplete, PagesAreComplete, NotReading
<1> QED BY <1>1, AuditInvariance, PTL

-----------------------------------------------------------------------------
(* What the read models say when they say nothing.                         *)

\* A closure that is not unresolved has no open, unfollowed or reopened anchor.
LEMMA ResolvedClosure ==
    ASSUME AuditInv, NEW n \in Nat \ {0}, ~ClosureOf(n).unresolved
    PROVE  /\ TriagedAnchorsAreClosed
           /\ \A a \in Anchors(Window(followups, n)) :
                  ReopenedAfterClosure(Window(followups, n), a) = {}
<1> DEFINE W == Window(followups, n)
           V == Window(triages, TriageWindow)
<1>1. RollupOf(n) = Rollup(W, transitions, V) /\ ClosureOf(n) = Closure(RollupOf(n), W)
  BY DEF RollupOf, ClosureOf
<1>2. Ledger(followups) /\ followups \subseteq FollowUps
  BY DEF AuditInv, TablesAreLedgers, TypeOK
<1>3. /\ {a \in Anchors(W) : ReopenedAfterClosure(W, a) # {}} = {}
      /\ RollupOf(n).unfollowed = {} /\ RollupOf(n).open = {}
  <2> HIDE DEF W, V
  <2> DEFINE R == RollupOf(n)
             weakAnchors == {a \in Anchors(W) : ReopenedAfterClosure(W, a) # {}}
             stagnant == {a \in Anchors(W) : Stagnant(W, a)}
  <2>1. Closure(R, W).unresolved =
            \/ weakAnchors # {} \/ stagnant # {} \/ R.repeated # {} \/ R.behind # {}
            \/ R.unfollowed # {} \/ R.open # {}
    BY DEF Closure
  <2>2. ~Closure(R, W).unresolved
    BY <1>1
  <2> HIDE DEF R, weakAnchors, stagnant
  <2>3. weakAnchors = {} /\ R.unfollowed = {} /\ R.open = {}
    BY <2>1, <2>2
  <2> QED BY <2>3 DEF R, weakAnchors
<1>4. Anchors(V) \subseteq Anchors(W) /\ \A a \in Anchors(W) : LatestAction(W, a) \notin OpenActions
  <2> HIDE DEF W, V
  <2> QED BY <1>1, <1>3 DEF Rollup
<1>5. ASSUME NEW a \in Anchors(V)
      PROVE  On(followups, a) # {} /\ LatestAction(followups, a) = "CLOSED"
  <2>1. a \in Anchors(W)
    BY <1>4
  <2>2. /\ On(followups, a) # {} /\ Newest(On(W, a)) = Newest(On(followups, a))
        /\ Newest(On(followups, a)) \in W
    BY <1>2, <2>1, NewestInWindow
  <2>3. Newest(On(followups, a)) \in followups
    BY <2>2 DEF Window
  <2>4. LatestAction(followups, a) \in FollowUpActions
    BY <1>2, <2>3 DEF LatestAction, FollowUps
  <2>5. LatestAction(followups, a) \notin OpenActions
    BY <1>4, <2>1, <2>2 DEF LatestAction
  <2> QED BY <2>2, <2>4, <2>5 DEF OpenActions
<1> QED BY <1>3, <1>5 DEF TriagedAnchorsAreClosed

LEMMA AdviceIsTrue ==
    ASSUME AuditInv, NEW n \in Nat \ {0}
    PROVE  NoAdviceIsTrue(n)
<1> SUFFICES ASSUME transitions # {}, ~StatusAdvised(n)
             PROVE  Newest(transitions).at \in Anchors(triages) /\ TriagedAnchorsAreClosed
  BY DEF NoAdviceIsTrue
<1>1. /\ StatusState \in {"NONE", "TRIAGED_CURRENT", "FOLLOW_UP_CLOSED"}
      /\ ~ClosureOf(n).unresolved
  BY DEF StatusAdvised, FollowUpAdvised
<1>2. triages # {} /\ Newest(triages).anchor = Newest(transitions).at
  BY <1>1 DEF StatusState, FollowUpState
<1>3. Ledger(triages)
  BY DEF AuditInv, TablesAreLedgers
<1>4. Newest(triages) \in triages
  BY <1>2, <1>3, NewestIs
<1> QED BY <1>1, <1>2, <1>4, ResolvedClosure DEF Anchors

LEMMA StabilityIsTrue ==
    ASSUME AuditInv, NEW n \in Nat \ {0}
    PROVE  StableIsTrue(n)
<1> SUFFICES ASSUME "STABLE_BOUNDED" \in {ClosureOf(n).class,
                        TaskRisk(RollupOf(n), ClosureOf(n), Window(followups, n))}
             PROVE  ~ClosureOf(n).unresolved
  BY ResolvedClosure DEF StableIsTrue
<1>1. CASE ClosureOf(n).class = "STABLE_BOUNDED"
  BY <1>1 DEF ClosureOf, Closure
<1>2. CASE TaskRisk(RollupOf(n), ClosureOf(n), Window(followups, n)) = "STABLE_BOUNDED"
  BY <1>2 DEF TaskRisk
<1> QED BY <1>1, <1>2

LEMMA RiskIsTrue ==
    ASSUME AuditInv, NEW n \in Nat \ {0}
    PROVE  NoRiskIsTrue(n)
<1> DEFINE W == Window(triages, n)
           t == Newest(triages)
           last == Newest(transitions)
<1> SUFFICES ASSUME triages # {}, ~TriageRollupOf(n).notable
             PROVE  /\ Anchors(W) = {last.at} /\ t.posture = "TRIAGED"
                    /\ ~ReviewGapPresent(last.review)
  BY DEF NoRiskIsTrue
<1>1. Ledger(triages) /\ Ledger(transitions) /\ triages \subseteq Triages
  BY DEF AuditInv, TablesAreLedgers, TypeOK
<1>2. t \in triages /\ \A q \in triages : q.at <= t.at
  BY <1>1, NewestIs
<1>3. W \subseteq triages /\ Ledger(W) /\ t \in W
  BY <1>1, WindowIs
<1>4. PICK a \in transitions : a.at = t.anchor /\ a.review = t.review
  BY <1>2 DEF AuditInv, ReceiptsCite, CitesTransition
<1>5. TriageRollupOf(n) = TriageRollup(W, transitions)
  BY DEF TriageRollupOf
<1> HIDE DEF W, t
<1>6. /\ \A x \in Anchors(W) : /\ Newest(On(W, x)).posture \notin {"NEEDS_FOLLOW_UP", "DEFERRED"}
                               /\ x = last.at
      /\ \A r \in W : ~ReviewGapPresent(r.review)
  <2> HIDE DEF last
  <2>1. ~TriageRollup(W, transitions).notable
    BY <1>5
  <2>2. /\ {x \in Anchors(W) : Newest(On(W, x)).posture = "NEEDS_FOLLOW_UP"} = {}
        /\ {x \in Anchors(W) : Newest(On(W, x)).posture = "DEFERRED"} = {}
        /\ {x \in Anchors(W) : transitions # {} /\ x # Newest(transitions).at} = {}
        /\ {r \in W : ReviewGapPresent(r.review)} = {}
    BY <2>1 DEF TriageRollup
  <2> QED BY <1>4, <2>2 DEF last
<1>7. t.anchor \in Anchors(W)
  BY <1>3 DEF Anchors
<1>8. t.anchor = last.at /\ Anchors(W) = {last.at}
  BY <1>6, <1>7
<1>9. a = last
  <2>1. last \in transitions
    BY <1>1, <1>4, NewestIs
  <2> QED BY <1>1, <1>4, <1>8, <2>1 DEF Ledger
<1>10. t = Newest(On(W, t.anchor))
  <2>1. On(W, t.anchor) \in SUBSET W /\ t \in On(W, t.anchor)
    BY <1>3 DEF On
  <2>2. Ledger(On(W, t.anchor)) /\ On(W, t.anchor) # {}
    BY <1>3, <2>1, LedgerSubset
  <2>3. \A q \in On(W, t.anchor) : q.at <= t.at
    BY <1>2, <1>3, <2>1
  <2> QED BY <2>1, <2>2, <2>3, NewestIs
<1>11. t.posture = "TRIAGED"
  <2>1. t.posture \in TriagePostures
    BY <1>1, <1>2 DEF Triages
  <2>2. t.posture \notin {"NEEDS_FOLLOW_UP", "DEFERRED"}
    BY <1>6, <1>7, <1>10
  <2> QED BY <2>1, <2>2 DEF TriagePostures
<1> QED BY <1>3, <1>4, <1>6, <1>8, <1>9, <1>11

\* Whatever the windows of status and inspect, a read that advises nothing,
\* calls the task stable or raises no triage signal is right about the whole
\* tables: what a window leaves out cannot contradict what it shows.
THEOREM QuietReadsTellTheTruth == Spec => []QuietReadsAreTrue
<1>1. StatusWindow \in Nat \ {0} /\ InspectWindow \in Nat \ {0}
  BY AuditBounds
<1>2. AuditInv => QuietReadsAreTrue
  BY <1>1, AdviceIsTrue, StabilityIsTrue, RiskIsTrue DEF QuietReadsAreTrue
<1> QED BY <1>2, AuditInvariance, PTL
=============================================================================
