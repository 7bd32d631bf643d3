------------------------ MODULE IncidentSliceProofs ------------------------
(***************************************************************************)
(* Theorems about IncidentSlice, for any limits and any history.  Every    *)
(* query of the read takes the first rows of an order (Firsts): the newest *)
(* before the anchor, the oldest after it, the newest of a kind, the       *)
(* nearest of those.  One lemma says what such a query returns; the rest   *)
(* is what the task may add between two queries.                           *)
(***************************************************************************)
EXTENDS IncidentSlice, FiniteSetTheorems, WellFoundedInduction, TLAPS

\* The tables are finite, their stamps are past, and creation stamps name rows.
TablesAreSound ==
    /\ IsFiniteSet(transitions) /\ \A t \in transitions : t.at <= now
    /\ IsFiniteSet(rows) /\ \A r \in rows : r.created <= now /\ r.occurred <= now
    /\ \A r, q \in rows : r.created = q.created => r = q

\* What a read knows when it has begun, and of its side older than the anchor.
OlderSideIsRead ==
    /\ slice.step # "none" =>
           /\ slice.anchor <= now /\ slice.began <= now
           /\ \E t \in transitions : t.at = slice.anchor
    /\ slice.step = "older" => slice.shown = {slice.anchor}
    /\ slice.step = "newer" =>
           /\ slice.anchor \in slice.shown
           /\ \A a \in slice.shown : a <= slice.anchor /\ \E t \in transitions : t.at = a
           /\ \A t \in transitions, a \in slice.shown :
                  a <= t.at /\ t.at <= slice.anchor => t.at \in slice.shown
           /\ slice.hasOlder <=> \E t \in transitions : \A a \in slice.shown : t.at < a

\* The kinds are read one after the other.
NearIsOfKindsRead ==
    /\ slice.step \in {"older", "newer", "run"} => slice.near = {}
    /\ slice.step = "action" => \A r \in slice.near : r.kind = "run"
    /\ slice.step = "event" => \A r \in slice.near : r.kind # "event"

Failing(r) == r.kind = "run" /\ r.status \in {"FAILED", "INTERRUPTED"}

\* What a read that has seen no failure may have missed.
MissedIsLate ==
    /\ slice.step \in {"action", "event", "done"} /\ ~RecentFailureOrRecovery(slice) =>
           \A r \in rows : Failing(r) =>
               r.occurred > slice.began \/ Cardinality(OfKind("run")) > NearLimit
    /\ slice.step \in {"event", "done"} /\ ~RecentFailureOrRecovery(slice) =>
           \A r \in rows : r.kind = "action" => r.created > slice.began

SliceInv ==
    /\ TypeOK /\ TablesAreSound
    /\ OlderSideIsRead /\ SliceIsContiguous /\ NearIsOfKindsRead /\ MissedIsLate

-----------------------------------------------------------------------------
(* The first rows of an order.                                             *)

Below(S, R, x) == {q \in S : <<q, x>> \in R}
Firsts(S, R, n) == {r \in S : Cardinality(Below(S, R, r)) < n}

IsOrder(S, R) ==
    /\ \A x \in S : <<x, x>> \notin R
    /\ \A x, y, z \in S : <<x, y>> \in R /\ <<y, z>> \in R => <<x, z>> \in R
IsTotal(S, R) == \A x, y \in S : x # y => <<x, y>> \in R \/ <<y, x>> \in R

\* A set of naturals has a least element.
LEMMA LeastOf ==
    ASSUME NEW T, T \subseteq Nat, T # {}
    PROVE  \E t \in T : \A u \in T : t <= u
<1> DEFINE R == OpToRel(<, Nat)
<1>1. IsWellFoundedOn(R, Nat)
  BY NatLessThanWellFounded
<1>2. \A x, y \in Nat : x < y => <<x, y>> \in R
  BY DEF OpToRel
<1> HIDE DEF R
<1>3. PICK x \in T : \A y \in T : ~(<<y, x>> \in R)
  BY <1>1, WFMin
<1>4. \A y \in T : ~(y < x)
  BY <1>2, <1>3
<1> QED BY <1>4

LEMMA BelowCounts ==
    ASSUME NEW S, IsFiniteSet(S), NEW R, NEW x
    PROVE  /\ IsFiniteSet(Below(S, R, x)) /\ Cardinality(Below(S, R, x)) \in Nat
           /\ Cardinality(Below(S, R, x)) <= Cardinality(S)
           /\ x \in S /\ <<x, x>> \notin R => Cardinality(Below(S, R, x)) < Cardinality(S)
<1>1. Below(S, R, x) \in SUBSET S
  BY DEF Below
<1>2. /\ IsFiniteSet(Below(S, R, x)) /\ Cardinality(Below(S, R, x)) <= Cardinality(S)
      /\ Cardinality(S) = Cardinality(Below(S, R, x)) => S = Below(S, R, x)
  BY <1>1, FS_Subset
<1>3. Cardinality(Below(S, R, x)) \in Nat /\ Cardinality(S) \in Nat
  BY <1>2, FS_CardinalityType
<1>4. ASSUME x \in S, <<x, x>> \notin R PROVE Cardinality(Below(S, R, x)) < Cardinality(S)
  <2>1. x \notin Below(S, R, x)
    BY <1>4 DEF Below
  <2>2. S # Below(S, R, x)
    BY <1>4, <2>1
  <2> QED BY <1>2, <1>3, <2>2
<1> QED BY <1>2, <1>3, <1>4

\* Who is below someone has fewer below him.
LEMMA BelowShrinks ==
    ASSUME NEW S, IsFiniteSet(S), NEW R, IsOrder(S, R), NEW x \in S, NEW y \in S, <<y, x>> \in R
    PROVE  /\ Cardinality(Below(S, R, y)) < Cardinality(Below(S, R, x))
           /\ Cardinality(Below(S, R, y)) \in Nat /\ Cardinality(Below(S, R, x)) \in Nat
<1>1. Below(S, R, y) \in SUBSET Below(S, R, x)
  BY DEF Below, IsOrder
<1>2. y \in Below(S, R, x) /\ y \notin Below(S, R, y)
  BY DEF Below, IsOrder
<1>3. Below(S, R, y) # Below(S, R, x)
  BY <1>2
<1>4. IsFiniteSet(Below(S, R, x)) /\ Cardinality(Below(S, R, x)) \in Nat
      /\ Cardinality(Below(S, R, y)) \in Nat
  BY BelowCounts
<1>5. /\ Cardinality(Below(S, R, y)) <= Cardinality(Below(S, R, x))
      /\ Cardinality(Below(S, R, x)) = Cardinality(Below(S, R, y)) => Below(S, R, x) = Below(S, R, y)
  BY <1>1, <1>4, FS_Subset
<1> QED BY <1>3, <1>4, <1>5

\* A set that is not empty has a first element.
LEMMA FirstOf ==
    ASSUME NEW S, IsFiniteSet(S), NEW R, IsOrder(S, R), NEW D \in SUBSET S, D # {}
    PROVE  \E x \in D : \A y \in D : <<y, x>> \notin R
<1> DEFINE T == {Cardinality(Below(S, R, x)) : x \in D}
<1>1. T \subseteq Nat /\ T # {}
  <2>1. \A x \in D : Cardinality(Below(S, R, x)) \in Nat
    BY BelowCounts
  <2>2. PICK x \in D : TRUE
    OBVIOUS
  <2>3. Cardinality(Below(S, R, x)) \in T
    OBVIOUS
  <2> QED BY <2>1, <2>3
<1>2. PICK t \in T : \A u \in T : t <= u
  <2> HIDE DEF T
  <2> QED BY <1>1, LeastOf
<1>3. PICK x \in D : t = Cardinality(Below(S, R, x))
  OBVIOUS
<1>4. ASSUME NEW y \in D, <<y, x>> \in R PROVE FALSE
  <2>1. /\ Cardinality(Below(S, R, y)) < Cardinality(Below(S, R, x))
        /\ Cardinality(Below(S, R, y)) \in Nat /\ Cardinality(Below(S, R, x)) \in Nat
    BY <1>4, BelowShrinks
  <2>2. Cardinality(Below(S, R, x)) <= Cardinality(Below(S, R, y))
    BY <1>2, <1>3
  <2> QED BY <2>1, <2>2
<1> QED BY <1>4

\* The first n elements: closed towards the beginning, all if there are no
\* more, at least n otherwise.
LEMMA FirstsAre ==
    ASSUME NEW S, IsFiniteSet(S), NEW R, IsOrder(S, R), NEW n \in Nat \ {0},
           NEW F, F = Firsts(S, R, n)
    PROVE  /\ F \in SUBSET S /\ IsFiniteSet(F) /\ Cardinality(F) \in Nat
           /\ \A p \in F, f \in S : <<f, p>> \in R => f \in F
           /\ Cardinality(S) <= n => F = S
           /\ S # {} => F # {}
           /\ F # S => Cardinality(F) >= n
<1>1. \A x : x \in F <=> x \in S /\ Cardinality(Below(S, R, x)) < n
  BY DEF Firsts
<1>2. F \in SUBSET S /\ IsFiniteSet(F) /\ Cardinality(F) \in Nat
  <2>1. F \in SUBSET S
    BY <1>1
  <2>2. IsFiniteSet(F)
    BY <2>1, FS_Subset
  <2> QED BY <2>1, <2>2, FS_CardinalityType
<1>3. ASSUME NEW p \in F, NEW f \in S, <<f, p>> \in R PROVE f \in F
  <2>1. p \in S /\ Cardinality(Below(S, R, p)) < n
    BY <1>1
  <2>2. /\ Cardinality(Below(S, R, f)) < Cardinality(Below(S, R, p))
        /\ Cardinality(Below(S, R, f)) \in Nat /\ Cardinality(Below(S, R, p)) \in Nat
    BY <1>3, <2>1, BelowShrinks
  <2>3. Cardinality(Below(S, R, f)) < n
    BY <2>1, <2>2
  <2> QED BY <1>1, <2>3
<1>4. ASSUME Cardinality(S) <= n PROVE F = S
  <2>1. ASSUME NEW x \in S PROVE x \in F
    <3>1. Cardinality(Below(S, R, x)) < Cardinality(S) /\ Cardinality(Below(S, R, x)) \in Nat
      BY BelowCounts DEF IsOrder
    <3>2. Cardinality(S) \in Nat
      BY FS_CardinalityType
    <3> QED BY <1>1, <1>4, <3>1, <3>2
  <2> QED BY <1>2, <2>1
<1>5. ASSUME S # {} PROVE F # {}
  <2>1. PICK x \in S : \A y \in S : <<y, x>> \notin R
    <3>1. S \in SUBSET S
      OBVIOUS
    <3> QED BY <1>5, <3>1, FirstOf
  <2>2. Below(S, R, x) = {}
    BY <2>1 DEF Below
  <2>3. Cardinality(Below(S, R, x)) = 0
    BY <2>2, FS_EmptySet
  <2> QED BY <1>1, <2>1, <2>3
<1>6. ASSUME F # S PROVE Cardinality(F) >= n
  <2> DEFINE D == S \ F
  <2>1. D \in SUBSET S /\ D # {}
    BY <1>2, <1>6
  <2>2. PICK x \in D : \A y \in D : <<y, x>> \notin R
    <3> HIDE DEF D
    <3> QED BY <2>1, FirstOf
  <2>3. Below(S, R, x) \in SUBSET F
    BY <2>2 DEF Below
  <2>4. Cardinality(Below(S, R, x)) <= Cardinality(F)
    BY <1>2, <2>3, FS_Subset
  <2>5. ~(Cardinality(Below(S, R, x)) < n) /\ Cardinality(Below(S, R, x)) \in Nat
    BY <1>1, BelowCounts
  <2> QED BY <1>2, <2>4, <2>5
<1> QED BY <1>2, <1>3, <1>4, <1>5, <1>6

LEMMA OrderOfSubset ==
    ASSUME NEW S, NEW R, IsOrder(S, R), IsTotal(S, R), NEW T \in SUBSET S
    PROVE  IsOrder(T, R) /\ IsTotal(T, R)
BY DEF IsOrder, IsTotal

\* One row more than is shown tells whether there are others.
LEMMA OneMoreTells ==
    ASSUME NEW U, IsFiniteSet(U), NEW R, IsOrder(U, R), IsTotal(U, R), NEW n \in Nat \ {0},
           NEW found, found = Firsts(U, R, n + 1), NEW side, side = Firsts(found, R, n)
    PROVE  /\ side \in SUBSET U
           /\ \A p \in side, f \in U : <<f, p>> \in R => f \in side
           /\ Cardinality(found) > n <=> side # U
<1>0. n + 1 \in Nat \ {0}
  OBVIOUS
<1>1. /\ found \in SUBSET U /\ IsFiniteSet(found) /\ Cardinality(found) \in Nat
      /\ \A p \in found, f \in U : <<f, p>> \in R => f \in found
      /\ found # U => Cardinality(found) >= n + 1
  BY <1>0, FirstsAre
<1>2. IsOrder(found, R) /\ IsTotal(found, R)
  BY <1>1, OrderOfSubset
<1>3. /\ side \in SUBSET found
      /\ \A p \in side, f \in found : <<f, p>> \in R => f \in side
      /\ Cardinality(found) <= n => side = found
  BY <1>1, <1>2, FirstsAre
<1>4. ASSUME Cardinality(found) > n PROVE side # U
  <2> DEFINE C == {e \in found \X found : <<e[2], e[1]>> \in R}
  <2>1. \A x, y \in found : <<x, y>> \in C <=> <<y, x>> \in R
    OBVIOUS
  <2> HIDE DEF C
  <2>2. IsOrder(found, C)
    <3>1. \A x \in found : <<x, x>> \notin C
      BY <1>2, <2>1 DEF IsOrder
    <3>2. ASSUME NEW x \in found, NEW y \in found, NEW z \in found, <<x, y>> \in C, <<y, z>> \in C
          PROVE  <<x, z>> \in C
      <4>1. <<z, y>> \in R /\ <<y, x>> \in R
        BY <2>1, <3>2
      <4>2. <<z, x>> \in R
        BY <1>2, <4>1 DEF IsOrder
      <4> QED BY <2>1, <4>2
    <3> QED BY <3>1, <3>2 DEF IsOrder
  <2>3. found # {} /\ found \in SUBSET found
    <3>1. found = {} => Cardinality(found) = 0
      BY FS_EmptySet
    <3> QED BY <1>1, <1>4, <3>1
  <2>4. PICK o \in found : \A y \in found : <<y, o>> \notin C
    BY <1>1, <2>2, <2>3, FirstOf
  <2>5. \A y \in found : y # o => <<y, o>> \in R
    BY <1>2, <2>1, <2>4 DEF IsTotal
  <2>6. Below(found, R, o) = found \ {o}
    BY <1>2, <2>5 DEF Below, IsOrder
  <2>7. Cardinality(found \ {o}) = Cardinality(found) - 1
    BY <1>1, FS_RemoveElement
  <2>8. ~(Cardinality(Below(found, R, o)) < n)
    BY <1>1, <1>4, <2>6, <2>7
  <2>9. o \notin side
    BY <2>8 DEF Firsts
  <2> QED BY <1>1, <2>9
<1>5. ASSUME ~(Cardinality(found) > n) PROVE side = U
  <2>1. Cardinality(found) <= n /\ ~(Cardinality(found) >= n + 1)
    BY <1>1, <1>5
  <2> QED BY <1>1, <1>3, <2>1
<1> QED BY <1>1, <1>3, <1>4, <1>5

-----------------------------------------------------------------------------
(* The queries of the read.                                                *)

NewerFirst(S) == {e \in S \X S : e[1].at > e[2].at}
OlderFirst(S) == {e \in S \X S : e[1].at < e[2].at}

\* A transition is its stamp.
LEMMA TransitionsAreStamps ==
    ASSUME SliceInv
    PROVE  /\ IsFiniteSet(transitions)
           /\ \A t \in transitions : t.at \in Nat /\ t.at \in Stamps /\ t.at <= now
           /\ \A t, u \in transitions : t.at = u.at => t = u
<1>1. \A t \in transitions : t \in [at : Stamps]
  BY DEF SliceInv, TypeOK
<1>2. \A t \in transitions : t = [at |-> t.at] /\ t.at \in Stamps
  BY <1>1
<1>3. IsFiniteSet(transitions) /\ \A t \in transitions : t.at <= now
  BY DEF SliceInv, TablesAreSound
<1>4. \A t \in transitions : t.at \in Nat
  BY <1>2 DEF Stamps
<1>5. \A t, u \in transitions : t.at = u.at => t = u
  BY <1>2
<1> QED BY <1>2, <1>3, <1>4, <1>5

LEMMA StampOrders ==
    ASSUME SliceInv, NEW U \in SUBSET transitions
    PROVE  /\ IsFiniteSet(U)
           /\ IsOrder(U, NewerFirst(U)) /\ IsTotal(U, NewerFirst(U))
           /\ IsOrder(U, OlderFirst(U)) /\ IsTotal(U, OlderFirst(U))
<1>1. /\ \A t \in U : t.at \in Nat
      /\ \A t, u \in U : t.at = u.at => t = u
  BY TransitionsAreStamps
<1>2. IsFiniteSet(U)
  BY TransitionsAreStamps, FS_Subset
<1>3. /\ \A x, y \in U : <<x, y>> \in NewerFirst(U) <=> x.at > y.at
      /\ \A x, y \in U : <<x, y>> \in OlderFirst(U) <=> x.at < y.at
  BY DEF NewerFirst, OlderFirst
<1>4. IsOrder(U, NewerFirst(U)) /\ IsTotal(U, NewerFirst(U))
  BY <1>1, <1>3 DEF IsOrder, IsTotal
<1>5. IsOrder(U, OlderFirst(U)) /\ IsTotal(U, OlderFirst(U))
  BY <1>1, <1>3 DEF IsOrder, IsTotal
<1> QED BY <1>2, <1>4, <1>5

\* ListByTask and ListByTaskFiltered.
LEMMA WindowIsFirsts ==
    ASSUME NEW U, NEW S \in SUBSET U, NEW n
    PROVE  Window(S, n) = Firsts(S, NewerFirst(U), n)
<1>1. \A r \in S : {q \in S : q.at > r.at} = Below(S, NewerFirst(U), r)
  BY DEF Below, NewerFirst
<1> QED BY <1>1 DEF Window, Firsts

\* ListByTaskAfter.
LEMMA AfterIsFirsts ==
    ASSUME NEW T, NEW cursor, NEW n, NEW U, NEW S, S = {r \in T : r.at > cursor}, S \in SUBSET U
    PROVE  ListByTaskAfter(T, cursor, n) = Firsts(S, OlderFirst(U), n)
<1>1. \A r \in S : {q \in T : cursor < q.at /\ q.at < r.at} = Below(S, OlderFirst(U), r)
  <2>1. \A q \in T : cursor < q.at <=> q.at > cursor
    OBVIOUS
  <2> QED BY <2>1 DEF Below, OlderFirst
<1>2. \A r : r \in ListByTaskAfter(T, cursor, n) <=>
         r \in S /\ Cardinality({q \in T : cursor < q.at /\ q.at < r.at}) < n
  BY DEF ListByTaskAfter
<1> QED BY <1>1, <1>2 DEF Firsts

LEMMA OlderSide ==
    ASSUME SliceInv, NEW anchor \in Nat,
           NEW found, found = PageBefore(transitions, anchor, NeighborLimit + 1),
           NEW side, side = Window(found, NeighborLimit)
    PROVE  /\ side \in SUBSET transitions /\ \A p \in side : p.at < anchor
           /\ \A p \in side, t \in transitions : p.at <= t.at /\ t.at < anchor => t \in side
           /\ Cardinality(found) > NeighborLimit <=>
                  \E t \in transitions : t.at < anchor /\ \A p \in side : t.at < p.at
<1> DEFINE U == {r \in transitions : r.at < anchor}
           R == NewerFirst(U)
<1>0. U \in SUBSET transitions /\ NeighborLimit \in Nat \ {0}
  BY SliceBounds
<1>1. found = Window(U, NeighborLimit + 1)
  BY DEF PageBefore
<1>2. \A t \in U : t \in transitions /\ t.at < anchor /\ t.at \in Nat
  BY TransitionsAreStamps
<1>3. \A t \in transitions : t.at < anchor => t \in U
  OBVIOUS
<1>4. \A x, y \in U : <<x, y>> \in R <=> x.at > y.at
  BY DEF NewerFirst
<1> HIDE DEF U, R
<1>5. IsFiniteSet(U) /\ IsOrder(U, R) /\ IsTotal(U, R)
  BY <1>0, StampOrders DEF R
<1>6. found = Firsts(U, R, NeighborLimit + 1) /\ found \in SUBSET U
  <2>1. U \in SUBSET U
    OBVIOUS
  <2>2. found = Firsts(U, R, NeighborLimit + 1)
    BY <1>1, <2>1, WindowIsFirsts DEF R
  <2> QED BY <2>2 DEF Firsts
<1>7. side = Firsts(found, R, NeighborLimit)
  BY <1>6, WindowIsFirsts DEF R
<1>8. /\ side \in SUBSET U
      /\ \A p \in side, f \in U : <<f, p>> \in R => f \in side
      /\ Cardinality(found) > NeighborLimit <=> side # U
  BY <1>0, <1>5, <1>6, <1>7, OneMoreTells
<1>9. ASSUME NEW p \in side, NEW t \in transitions, p.at <= t.at, t.at < anchor
      PROVE  t \in side
  <2>1. t \in U /\ p \in U /\ t.at \in Nat /\ p.at \in Nat /\ p \in transitions
    BY <1>2, <1>3, <1>8, <1>9
  <2>2. CASE t.at = p.at
    BY <2>1, <2>2, TransitionsAreStamps
  <2>3. CASE t.at # p.at
    <3>1. t.at > p.at
      BY <1>9, <2>1, <2>3
    <3> QED BY <1>4, <1>8, <2>1, <3>1
  <2> QED BY <2>2, <2>3
<1>10. ASSUME side # U
       PROVE  \E t \in transitions : t.at < anchor /\ \A p \in side : t.at < p.at
  <2>1. PICK t \in U : t \notin side
    BY <1>8, <1>10
  <2>2. ASSUME NEW p \in side PROVE t.at < p.at
    <3>1. p \in U /\ p.at \in Nat /\ t.at \in Nat /\ t \in transitions /\ t.at < anchor
      BY <1>2, <1>8
    <3>2. ~(p.at <= t.at)
      BY <1>9, <2>1, <3>1
    <3> QED BY <3>1, <3>2
  <2> QED BY <1>2, <2>1, <2>2
<1>11. ASSUME NEW t \in transitions, t.at < anchor, \A p \in side : t.at < p.at
       PROVE  side # U
  <2>1. t \in U /\ t.at \in Nat
    BY <1>2, <1>3, <1>11
  <2>2. t \notin side
    BY <1>11, <2>1
  <2> QED BY <2>1, <2>2
<1>12. \A p \in side : p \in transitions /\ p.at < anchor
  BY <1>2, <1>8
<1> QED BY <1>8, <1>9, <1>10, <1>11, <1>12

LEMMA NewerSide ==
    ASSUME SliceInv, NEW anchor \in Nat,
           NEW found, found = ListByTaskAfter(transitions, anchor, NeighborLimit + 1),
           NEW side, side = ListByTaskAfter(found, anchor, NeighborLimit)
    PROVE  /\ side \in SUBSET transitions /\ \A p \in side : p.at > anchor
           /\ \A p \in side, t \in transitions : t.at <= p.at /\ t.at > anchor => t \in side
           /\ Cardinality(found) > NeighborLimit <=>
                  \E t \in transitions : t.at > anchor /\ \A p \in side : t.at > p.at
<1> DEFINE U == {r \in transitions : r.at > anchor}
           R == OlderFirst(U)
<1>0. U \in SUBSET transitions /\ NeighborLimit \in Nat \ {0}
  BY SliceBounds
<1>2. \A t \in U : t \in transitions /\ t.at > anchor /\ t.at \in Nat
  BY TransitionsAreStamps
<1>3. \A t \in transitions : t.at > anchor => t \in U
  OBVIOUS
<1>4. \A x, y \in U : <<x, y>> \in R <=> x.at < y.at
  BY DEF OlderFirst
<1>6. found = Firsts(U, R, NeighborLimit + 1) /\ found \in SUBSET U
  <2>1. U \in SUBSET U
    OBVIOUS
  <2>2. found = Firsts(U, R, NeighborLimit + 1)
    BY <2>1, AfterIsFirsts
  <2> QED BY <2>2 DEF Firsts
<1>7. side = Firsts(found, R, NeighborLimit)
  <2>1. found = {r \in found : r.at > anchor}
    BY <1>6
  <2> HIDE DEF U
  <2> QED BY <1>6, <2>1, AfterIsFirsts
<1> HIDE DEF U, R
<1>5. IsFiniteSet(U) /\ IsOrder(U, R) /\ IsTotal(U, R)
  BY <1>0, StampOrders DEF R
<1>8. /\ side \in SUBSET U
      /\ \A p \in side, f \in U : <<f, p>> \in R => f \in side
      /\ Cardinality(found) > NeighborLimit <=> side # U
  BY <1>0, <1>5, <1>6, <1>7, OneMoreTells
<1>9. ASSUME NEW p \in side, NEW t \in transitions, t.at <= p.at, t.at > anchor
      PROVE  t \in side
  <2>1. t \in U /\ p \in U /\ t.at \in Nat /\ p.at \in Nat /\ p \in transitions
    BY <1>2, <1>3, <1>8, <1>9
  <2>2. CASE t.at = p.at
    BY <2>1, <2>2, TransitionsAreStamps
  <2>3. CASE t.at # p.at
    <3>1. t.at < p.at
      BY <1>9, <2>1, <2>3
    <3> QED BY <1>4, <1>8, <2>1, <3>1
  <2> QED BY <2>2, <2>3
<1>10. ASSUME side # U
       PROVE  \E t \in transitions : t.at > anchor /\ \A p \in side : t.at > p.at
  <2>1. PICK t \in U : t \notin side
    BY <1>8, <1>10
  <2>2. ASSUME NEW p \in side PROVE t.at > p.at
    <3>1. p \in U /\ p.at \in Nat /\ t.at \in Nat /\ t \in transitions /\ t.at > anchor
      BY <1>2, <1>8
    <3>2. ~(t.at <= p.at)
      BY <1>9, <2>1, <3>1
    <3> QED BY <3>1, <3>2
  <2> QED BY <1>2, <2>1, <2>2
<1>11. ASSUME NEW t \in transitions, t.at > anchor, \A p \in side : t.at > p.at
       PROVE  side # U
  <2>1. t \in U /\ t.at \in Nat
    BY <1>2, <1>3, <1>11
  <2>2. t \notin side
    BY <1>11, <2>1
  <2> QED BY <2>1, <2>2
<1>12. \A p \in side : p \in transitions /\ p.at > anchor
  BY <1>2, <1>8
<1> QED BY <1>8, <1>9, <1>10, <1>11, <1>12

-----------------------------------------------------------------------------
(* The rows near the anchor.                                               *)

CreatedLater(S) == {e \in S \X S : e[1].created > e[2].created}
NearerFirst(S, anchor) ==
    {e \in S \X S : \/ Distance(e[1], anchor) < Distance(e[2], anchor)
                    \/ /\ Distance(e[1], anchor) = Distance(e[2], anchor)
                       /\ e[1].occurred > e[2].occurred}

LEMMA DistanceType ==
    ASSUME NEW r, r.occurred \in Nat, NEW anchor \in Nat
    PROVE  Distance(r, anchor) \in Nat
BY DEF Distance

LEMMA RowsAre ==
    ASSUME SliceInv, NEW kind, NEW S, S = OfKind(kind)
    PROVE  /\ IsFiniteSet(S) /\ Cardinality(S) \in Nat
           /\ \A r \in S : r \in rows /\ r.kind = kind
           /\ \A r \in S : r.created \in Nat /\ r.occurred \in Nat
           /\ \A r, q \in S : r.created = q.created => r = q
<1>1. S \in SUBSET rows /\ \A r \in S : r.kind = kind
  BY DEF OfKind
<1>2. IsFiniteSet(rows) /\ \A r, q \in rows : r.created = q.created => r = q
  BY DEF SliceInv, TablesAreSound
<1>3. IsFiniteSet(S)
  BY <1>1, <1>2, FS_Subset
<1>4. \A r \in rows : r.created \in Nat /\ r.occurred \in Nat
  BY DEF SliceInv, TypeOK, Rows, Stamps
<1> QED BY <1>1, <1>2, <1>3, <1>4, FS_CardinalityType

\* ListByTask of a kind: the newest rows, all of them up to ScanLimit.
LEMMA Scans ==
    ASSUME SliceInv, NEW kind, NEW S, S = OfKind(kind), NEW F, F = Scanned(kind)
    PROVE  /\ F \in SUBSET S /\ IsFiniteSet(F) /\ Cardinality(F) \in Nat
           /\ \A p \in F, f \in S : f.created > p.created => f \in F
           /\ Cardinality(S) <= ScanLimit => F = S
           /\ S # {} => F # {}
           /\ F # S => Cardinality(F) >= ScanLimit
<1> DEFINE R == CreatedLater(S)
<1>1. \A x, y \in S : <<x, y>> \in R <=> x.created > y.created
  BY DEF CreatedLater
<1>2. \A r \in S : {q \in OfKind(kind) : q.created > r.created} = Below(S, R, r)
  BY <1>1 DEF Below
<1>3. F = Firsts(S, R, ScanLimit)
  BY <1>2 DEF Scanned, Firsts
<1> HIDE DEF R
<1>4. IsOrder(S, R)
  <2>1. \A r \in S : r.created \in Nat
    BY RowsAre
  <2> QED BY <1>1, <2>1 DEF IsOrder
<1>5. ScanLimit \in Nat \ {0}
  BY SliceBounds
<1>6. IsFiniteSet(S)
  BY RowsAre
<1>7. /\ F \in SUBSET S /\ IsFiniteSet(F) /\ Cardinality(F) \in Nat
      /\ \A p \in F, f \in S : <<f, p>> \in R => f \in F
      /\ Cardinality(S) <= ScanLimit => F = S
      /\ S # {} => F # {}
      /\ F # S => Cardinality(F) >= ScanLimit
  BY <1>3, <1>4, <1>5, <1>6, FirstsAre
<1>8. ASSUME NEW p \in F, NEW f \in S, f.created > p.created PROVE f \in F
  BY <1>1, <1>7, <1>8
<1> QED BY <1>7, <1>8

\* incident...NearAnchor: the nearest rows, all of them up to NearLimit.
LEMMA Nears ==
    ASSUME SliceInv, NEW kind, NEW anchor \in Nat, NEW F, F = Scanned(kind),
           NEW N, N = Nearest(kind, anchor)
    PROVE  /\ N \in SUBSET F
           /\ \A p \in N, f \in F : Distance(f, anchor) < Distance(p, anchor) => f \in N
           /\ Cardinality(F) <= NearLimit => N = F
           /\ F # {} => N # {}
<1> DEFINE R == NearerFirst(F, anchor)
<1>1. \A x, y \in F : <<x, y>> \in R <=>
         \/ Distance(x, anchor) < Distance(y, anchor)
         \/ Distance(x, anchor) = Distance(y, anchor) /\ x.occurred > y.occurred
  BY DEF NearerFirst
<1>2. \A r \in F :
         {q \in F : \/ Distance(q, anchor) < Distance(r, anchor)
                    \/ /\ Distance(q, anchor) = Distance(r, anchor)
                       /\ q.occurred > r.occurred} = Below(F, R, r)
  BY <1>1 DEF Below
<1>3. N = Firsts(F, R, NearLimit)
  BY <1>2 DEF Nearest, Firsts
<1> HIDE DEF R
<1>4. IsFiniteSet(F) /\ \A r \in F : r.occurred \in Nat /\ Distance(r, anchor) \in Nat
  <2>1. F \in SUBSET OfKind(kind) /\ IsFiniteSet(F)
    BY Scans
  <2>2. \A r \in F : r.occurred \in Nat
    BY <2>1, RowsAre
  <2> QED BY <2>1, <2>2, DistanceType
<1>5. IsOrder(F, R)
  <2>1. \A x \in F : <<x, x>> \notin R
    BY <1>1, <1>4
  <2>2. ASSUME NEW x \in F, NEW y \in F, NEW z \in F, <<x, y>> \in R, <<y, z>> \in R
        PROVE  <<x, z>> \in R
    BY <1>1, <1>4, <2>2
  <2> QED BY <2>1, <2>2 DEF IsOrder
<1>6. NearLimit \in Nat \ {0}
  BY SliceBounds
<1>7. /\ N \in SUBSET F
      /\ \A p \in N, f \in F : <<f, p>> \in R => f \in N
      /\ Cardinality(F) <= NearLimit => N = F
      /\ F # {} => N # {}
  BY <1>3, <1>4, <1>5, <1>6, FirstsAre
<1>8. ASSUME NEW p \in N, NEW f \in F, Distance(f, anchor) < Distance(p, anchor) PROVE f \in N
  BY <1>1, <1>7, <1>8
<1> QED BY <1>7, <1>8

-----------------------------------------------------------------------------
(* The task goes on under a read.                                          *)

LEMMA SliceFacts ==
    ASSUME SliceInv
    PROVE  /\ now \in Nat /\ now <= MaxNow /\ MaxNow \in Nat
           /\ slice.step # "none" => /\ slice \in Slices
                                     /\ slice.anchor \in Nat /\ slice.anchor <= now
                                     /\ slice.began \in Nat /\ slice.began <= now
                                     /\ \A a \in slice.shown : a \in Nat
<1>1. now \in Nat /\ now <= MaxNow /\ MaxNow \in Nat
  BY SliceBounds DEF SliceInv, TypeOK
<1>2. ASSUME slice.step # "none" PROVE slice \in Slices
  BY <1>2 DEF SliceInv, TypeOK, NoSlice
<1>3. ASSUME slice \in Slices
      PROVE  slice.anchor \in Nat /\ slice.began \in Nat /\ \A a \in slice.shown : a \in Nat
  BY <1>1, <1>3 DEF Slices, Stamps
<1>4. slice.step # "none" => slice.anchor <= now /\ slice.began <= now
  BY DEF SliceInv, OlderSideIsRead
<1> QED BY <1>1, <1>2, <1>3, <1>4

\* The transitions a read has passed are not those of the present.
LEMMA RecordKeeps ==
    ASSUME SliceInv, RecordTransition
    PROVE  SliceInv'
<1> DEFINE new == [at |-> now + 1]
<1>1. /\ now < MaxNow /\ now' = now + 1 /\ transitions' = transitions \union {new}
      /\ rows' = rows /\ slice' = slice /\ new.at = now + 1
  BY DEF RecordTransition
<1>2. now \in Nat /\ MaxNow \in Nat
  BY SliceFacts
<1>3. TypeOK'
  <2>1. new \in [at : Stamps] /\ now + 1 \in 0..MaxNow
    BY <1>1, <1>2 DEF Stamps
  <2> QED BY <1>1, <2>1 DEF SliceInv, TypeOK
<1>4. \A t \in transitions' : t = new \/ t \in transitions
  BY <1>1
<1>5. \A t \in transitions : t \in transitions' /\ t.at \in Nat /\ t.at <= now
  BY <1>1, TransitionsAreStamps
<1> HIDE DEF new
<1>6. TablesAreSound'
  <2>1. IsFiniteSet(transitions')
    BY <1>1, FS_AddElement DEF SliceInv, TablesAreSound
  <2>2. \A t \in transitions' : t.at <= now'
    BY <1>1, <1>2, <1>4, <1>5
  <2>3. \A r \in rows : r.created <= now' /\ r.occurred <= now'
    <3>1. \A r \in rows : r.created \in Nat /\ r.occurred \in Nat
      BY DEF SliceInv, TypeOK, Rows, Stamps
    <3>2. \A r \in rows : r.created <= now /\ r.occurred <= now
      BY DEF SliceInv, TablesAreSound
    <3> QED BY <1>1, <1>2, <3>1, <3>2
  <2> QED BY <1>1, <2>1, <2>2, <2>3 DEF SliceInv, TablesAreSound
<1>7. OlderSideIsRead'
  <2>1. ASSUME slice.step # "none"
        PROVE  /\ slice.anchor <= now' /\ slice.began <= now'
               /\ \E t \in transitions' : t.at = slice.anchor
    BY <1>1, <1>2, <1>5, <2>1, SliceFacts DEF SliceInv, OlderSideIsRead
  <2>2. ASSUME slice.step = "newer"
        PROVE  /\ \A a \in slice.shown : a <= slice.anchor /\ \E t \in transitions' : t.at = a
               /\ \A t \in transitions', a \in slice.shown :
                      a <= t.at /\ t.at <= slice.anchor => t.at \in slice.shown
               /\ slice.hasOlder <=> \E t \in transitions' : \A a \in slice.shown : t.at < a
    <3>1. /\ slice.anchor \in slice.shown
          /\ \A a \in slice.shown : a <= slice.anchor /\ \E t \in transitions : t.at = a
          /\ \A t \in transitions, a \in slice.shown :
                 a <= t.at /\ t.at <= slice.anchor => t.at \in slice.shown
          /\ slice.hasOlder <=> \E t \in transitions : \A a \in slice.shown : t.at < a
      BY <2>2 DEF SliceInv, OlderSideIsRead
    <3>2. slice.anchor \in Nat /\ slice.anchor <= now
      BY <2>2, SliceFacts
    <3>3. ~(new.at <= slice.anchor) /\ ~(new.at < slice.anchor)
      BY <1>1, <1>2, <3>2
    <3> QED BY <1>4, <1>5, <3>1, <3>3
  <2>3. slice.step = "older" => slice.shown = {slice.anchor}
    BY DEF SliceInv, OlderSideIsRead
  <2>4. slice.step = "newer" => slice.anchor \in slice.shown
    BY DEF SliceInv, OlderSideIsRead
  <2> QED BY <1>1, <2>1, <2>2, <2>3, <2>4 DEF OlderSideIsRead
<1>8. SliceIsContiguous' /\ NearIsOfKindsRead'
  BY <1>1 DEF SliceInv, SliceIsContiguous, NearIsOfKindsRead
<1>9. MissedIsLate'
  <2>1. OfKind("run")' = OfKind("run") /\ RecentFailureOrRecovery(slice)' = RecentFailureOrRecovery(slice)
    BY <1>1 DEF OfKind, RecentFailureOrRecovery
  <2> QED BY <1>1, <2>1 DEF SliceInv, MissedIsLate
<1> QED BY <1>3, <1>6, <1>7, <1>8, <1>9 DEF SliceInv

\* A change of the rows under a read that adds none with an earlier failure or
\* an earlier action, and keeps the number of runs, hides nothing from it.
LEMMA RowsChange ==
    ASSUME SliceInv, transitions' = transitions, slice' = slice, now' = now + 1,
           now + 1 <= MaxNow, rows' \subseteq Rows, IsFiniteSet(rows'),
           \A r \in rows' : r.created <= now + 1 /\ r.occurred <= now + 1,
           \A r, q \in rows' : r.created = q.created => r = q,
           \A r \in rows' \ rows : /\ Failing(r) => r.occurred = now + 1
                                   /\ r.kind = "action" => r.created = now + 1,
           Cardinality(OfKind("run"))' >= Cardinality(OfKind("run")),
           Cardinality(OfKind("run"))' \in Nat
    PROVE  SliceInv'
<1>1. now \in Nat /\ MaxNow \in Nat
  BY SliceFacts
<1>2. TypeOK'
  BY <1>1 DEF SliceInv, TypeOK
<1>3. TablesAreSound'
  <2>1. \A t \in transitions : t.at <= now + 1
    BY <1>1, TransitionsAreStamps
  <2> QED BY <2>1 DEF SliceInv, TablesAreSound
<1>4. OlderSideIsRead'
  <2>1. slice.step # "none" => slice.anchor <= now + 1 /\ slice.began <= now + 1
    BY <1>1, SliceFacts
  <2> QED BY <2>1 DEF SliceInv, OlderSideIsRead
<1>5. SliceIsContiguous' /\ NearIsOfKindsRead'
  BY DEF SliceInv, SliceIsContiguous, NearIsOfKindsRead
<1>6. MissedIsLate'
  <2>1. RecentFailureOrRecovery(slice)' = RecentFailureOrRecovery(slice)
    BY DEF RecentFailureOrRecovery
  <2>2. slice.step # "none" => now + 1 > slice.began
    BY <1>1, SliceFacts
  <2>3. ASSUME slice.step \in {"action", "event", "done"}, ~RecentFailureOrRecovery(slice),
               NEW r \in rows', Failing(r)
        PROVE  r.occurred > slice.began \/ Cardinality(OfKind("run"))' > NearLimit
    <3>1. CASE r \in rows
      <4>1. r.occurred > slice.began \/ Cardinality(OfKind("run")) > NearLimit
        BY <2>3, <3>1 DEF SliceInv, MissedIsLate
      <4>2. Cardinality(OfKind("run")) \in Nat /\ NearLimit \in Nat
        BY RowsAre, SliceBounds
      <4> QED BY <4>1, <4>2
    <3>2. CASE r \notin rows
      BY <2>2, <2>3, <3>2
    <3> QED BY <3>1, <3>2
  <2>4. ASSUME slice.step \in {"event", "done"}, ~RecentFailureOrRecovery(slice),
               NEW r \in rows', r.kind = "action"
        PROVE  r.created > slice.began
    <3>1. CASE r \in rows
      BY <2>4, <3>1 DEF SliceInv, MissedIsLate
    <3>2. CASE r \notin rows
      BY <2>2, <2>4, <3>2
    <3> QED BY <3>1, <3>2
  <2> QED BY <2>1, <2>3, <2>4 DEF MissedIsLate
<1> QED BY <1>2, <1>3, <1>4, <1>5, <1>6 DEF SliceInv

LEMMA RowsFacts ==
    ASSUME SliceInv
    PROVE  /\ rows \subseteq Rows /\ IsFiniteSet(rows)
           /\ \A r \in rows : /\ r.created \in Nat /\ r.created <= now
                              /\ r.occurred \in Nat /\ r.occurred <= now
           /\ \A r, q \in rows : r.created = q.created => r = q
<1>1. rows \subseteq Rows
  BY DEF SliceInv, TypeOK
<1>2. \A r \in rows : r.created \in Nat /\ r.occurred \in Nat
  BY <1>1 DEF Rows, Stamps
<1> QED BY <1>1, <1>2 DEF SliceInv, TablesAreSound

LEMMA AppendKeeps ==
    ASSUME SliceInv, NEW k \in Kinds, AppendRow(k)
    PROVE  SliceInv'
<1> DEFINE new == [kind |-> k, created |-> now + 1, occurred |-> now + 1,
                   status |-> IF k = "run" THEN "OPEN" ELSE "DONE"]
<1>1. /\ now < MaxNow /\ now' = now + 1 /\ rows' = rows \union {new}
      /\ transitions' = transitions /\ slice' = slice
  BY DEF AppendRow
<1>2. /\ new.kind = k /\ new.created = now + 1 /\ new.occurred = now + 1
      /\ new.status = IF k = "run" THEN "OPEN" ELSE "DONE"
  OBVIOUS
<1>3. now \in Nat /\ MaxNow \in Nat /\ now + 1 <= MaxNow
  BY <1>1, SliceFacts
<1>4. new \in Rows
  BY <1>3 DEF Rows, Stamps, Statuses
<1> HIDE DEF new
<1>5. /\ rows \subseteq Rows /\ IsFiniteSet(rows)
      /\ \A r \in rows : /\ r.created \in Nat /\ r.created <= now
                         /\ r.occurred \in Nat /\ r.occurred <= now
      /\ \A r, q \in rows : r.created = q.created => r = q
  BY RowsFacts
<1>6. rows' \subseteq Rows /\ IsFiniteSet(rows')
  BY <1>1, <1>4, <1>5, FS_AddElement
<1>7. \A r \in rows' : r.created <= now + 1 /\ r.occurred <= now + 1
  BY <1>1, <1>2, <1>3, <1>5
<1>8. \A r, q \in rows' : r.created = q.created => r = q
  BY <1>1, <1>2, <1>3, <1>5
<1>9. \A r \in rows' \ rows : /\ Failing(r) => r.occurred = now + 1
                              /\ r.kind = "action" => r.created = now + 1
  BY <1>1, <1>2 DEF Failing
<1>10. Cardinality(OfKind("run"))' >= Cardinality(OfKind("run"))
       /\ Cardinality(OfKind("run"))' \in Nat
  <2>1. OfKind("run") \in SUBSET OfKind("run")'
    BY <1>1 DEF OfKind
  <2>2. OfKind("run")' \in SUBSET rows'
    BY DEF OfKind
  <2>3. IsFiniteSet(OfKind("run")')
    BY <1>6, <2>2, FS_Subset
  <2>4. /\ Cardinality(OfKind("run")) <= Cardinality(OfKind("run")')
        /\ Cardinality(OfKind("run")') \in Nat /\ Cardinality(OfKind("run")) \in Nat
    BY <2>1, <2>3, FS_Subset, FS_CardinalityType, RowsAre
  <2> QED BY <2>4
<1> QED BY <1>1, <1>3, <1>6, <1>7, <1>8, <1>9, <1>10, RowsChange

LEMMA EndRunKeeps ==
    ASSUME SliceInv, NEW r \in rows, NEW status \in Statuses, EndRun(r, status)
    PROVE  SliceInv'
<1> DEFINE new == [r EXCEPT !.occurred = now + 1, !.status = status]
<1>1. /\ now < MaxNow /\ now' = now + 1 /\ rows' = (rows \ {r}) \union {new}
      /\ transitions' = transitions /\ slice' = slice /\ r.kind = "run"
  BY DEF EndRun
<1>2. now \in Nat /\ MaxNow \in Nat /\ now + 1 <= MaxNow
  BY <1>1, SliceFacts
<1>3. /\ rows \subseteq Rows /\ IsFiniteSet(rows)
      /\ \A q \in rows : /\ q.created \in Nat /\ q.created <= now
                         /\ q.occurred \in Nat /\ q.occurred <= now
      /\ \A p, q \in rows : p.created = q.created => p = q
  BY RowsFacts
<1>4. /\ new \in Rows /\ new.kind = "run" /\ new.created = r.created
      /\ new.occurred = now + 1
  <2>1. r \in Rows /\ now + 1 \in Stamps
    BY <1>2, <1>3 DEF Stamps
  <2> QED BY <1>1, <2>1 DEF Rows
<1> HIDE DEF new
<1>5. \A q \in rows' : q = new \/ (q \in rows /\ q # r)
  BY <1>1
<1>6. \A q \in rows \ {r} : q.created # new.created
  BY <1>3, <1>4
<1>7. rows' \subseteq Rows /\ IsFiniteSet(rows')
  BY <1>1, <1>3, <1>4, FS_AddElement, FS_RemoveElement
<1>8. \A q \in rows' : q.created <= now + 1 /\ q.occurred <= now + 1
  BY <1>2, <1>3, <1>4, <1>5
<1>9. \A p, q \in rows' : p.created = q.created => p = q
  BY <1>3, <1>5, <1>6
<1>10. \A q \in rows' \ rows : /\ Failing(q) => q.occurred = now + 1
                               /\ q.kind = "action" => q.created = now + 1
  BY <1>4, <1>5
<1>11. Cardinality(OfKind("run"))' >= Cardinality(OfKind("run"))
       /\ Cardinality(OfKind("run"))' \in Nat
  <2> DEFINE S == OfKind("run")
  <2>1. S' = (S \ {r}) \union {new} /\ r \in S
    BY <1>1, <1>4 DEF OfKind
  <2>2. new \notin S \ {r}
    BY <1>6 DEF OfKind
  <2>3. IsFiniteSet(S) /\ Cardinality(S) \in Nat
    BY RowsAre
  <2> HIDE DEF S
  <2>4. IsFiniteSet(S \ {r}) /\ Cardinality(S \ {r}) = Cardinality(S) - 1
    BY <2>1, <2>3, FS_RemoveElement
  <2>5. Cardinality((S \ {r}) \union {new}) = Cardinality(S \ {r}) + 1
    BY <2>2, <2>4, FS_AddElement
  <2>6. Cardinality(S') = Cardinality(S)
    BY <2>1, <2>3, <2>4, <2>5
  <2> QED BY <2>3, <2>6 DEF S
<1> QED BY <1>1, <1>2, <1>7, <1>8, <1>9, <1>10, <1>11, RowsChange

-----------------------------------------------------------------------------
(* The read.                                                               *)

LEMMA BeginKeeps ==
    ASSUME SliceInv, NEW a \in transitions, BeginSlice(a)
    PROVE  SliceInv'
<1>1. /\ transitions' = transitions /\ rows' = rows /\ now' = now
      /\ slice' = [step |-> "older", anchor |-> a.at, shown |-> {a.at},
                   hasOlder |-> FALSE, hasNewer |-> FALSE, near |-> {}, known |-> {},
                   began |-> now]
  BY DEF BeginSlice
<1>2. a.at \in Stamps /\ a.at <= now /\ now \in 0..MaxNow /\ now \in Nat
  BY TransitionsAreStamps, SliceFacts DEF SliceInv, TypeOK
<1>3. slice' \in Slices
  BY <1>1, <1>2 DEF Slices
<1>4. TypeOK' /\ TablesAreSound'
  BY <1>1, <1>3 DEF SliceInv, TypeOK, TablesAreSound
<1>5. OlderSideIsRead'
  BY <1>1, <1>2 DEF OlderSideIsRead
<1>6. SliceIsContiguous' /\ NearIsOfKindsRead' /\ MissedIsLate'
  BY <1>1 DEF SliceIsContiguous, NearIsOfKindsRead, MissedIsLate, Kinds
<1> QED BY <1>4, <1>5, <1>6 DEF SliceInv

LEMMA ReadOlderKeeps ==
    ASSUME SliceInv, ReadOlder
    PROVE  SliceInv'
<1> DEFINE anchor == slice.anchor
           found == PageBefore(transitions, anchor, NeighborLimit + 1)
           side == Window(found, NeighborLimit)
           seen == {t.at : t \in side}
           more == Cardinality(found) > NeighborLimit
<1>1. /\ transitions' = transitions /\ rows' = rows /\ now' = now
      /\ slice.step = "older"
      /\ slice' = [slice EXCEPT !.step = "newer", !.hasOlder = more,
                                !.shown = slice.shown \union seen]
  BY DEF ReadOlder
<1>2. \A x : x \in seen <=> \E t \in side : x = t.at
  OBVIOUS
<1>2a. more \in BOOLEAN
  OBVIOUS
<1> HIDE DEF seen, more
<1>3. slice \in Slices /\ anchor \in Nat /\ anchor <= now
  BY <1>1, SliceFacts
<1>4. slice.shown = {anchor} /\ \E t \in transitions : t.at = anchor
  BY <1>1 DEF SliceInv, OlderSideIsRead
<1>5. /\ side \in SUBSET transitions /\ \A p \in side : p.at < anchor
      /\ \A p \in side, t \in transitions : p.at <= t.at /\ t.at < anchor => t \in side
      /\ more <=> \E t \in transitions : t.at < anchor /\ \A p \in side : t.at < p.at
  BY <1>3, OlderSide DEF more
<1> HIDE DEF anchor, found, side
<1>6. \A t \in transitions : t.at \in Nat /\ t.at \in Stamps
  BY TransitionsAreStamps
<1>7. seen \subseteq Stamps
  BY <1>2, <1>5, <1>6
<1>8. /\ slice' \in Slices /\ slice'.step = "newer" /\ slice'.shown = {anchor} \union seen
      /\ slice'.anchor = anchor /\ slice'.began = slice.began /\ slice'.near = slice.near
      /\ slice'.hasOlder = more
  BY <1>1, <1>2a, <1>3, <1>4, <1>7 DEF Slices, anchor
<1>9. TypeOK' /\ TablesAreSound'
  BY <1>1, <1>8 DEF SliceInv, TypeOK, TablesAreSound
<1>10. OlderSideIsRead'
  <2>1. slice'.anchor <= now /\ slice'.began <= now /\ \E t \in transitions : t.at = slice'.anchor
    BY <1>1, <1>3, <1>4, <1>8, SliceFacts
  <2>2. ASSUME NEW a \in slice'.shown
        PROVE  a \in Nat /\ a <= anchor /\ \E t \in transitions : t.at = a
    BY <1>2, <1>3, <1>4, <1>5, <1>6, <1>8
  <2>3. ASSUME NEW t \in transitions, NEW a \in slice'.shown, a <= t.at, t.at <= anchor
        PROVE  t.at \in slice'.shown
    <3>1. CASE t.at = anchor
      BY <1>8, <3>1
    <3>2. CASE t.at # anchor
      <4>1. t.at \in Nat /\ t.at < anchor
        BY <1>3, <1>6, <2>3, <3>2
      <4>2. a # anchor
        BY <1>3, <2>3, <4>1
      <4>3. PICK p \in side : a = p.at
        BY <1>2, <1>8, <4>2
      <4>4. t \in side
        BY <1>5, <2>3, <4>1, <4>3
      <4> QED BY <1>2, <1>8, <4>4
    <3> QED BY <3>1, <3>2
  <2>4. more <=> \E t \in transitions : \A a \in slice'.shown : t.at < a
    <3>1. \A t \in transitions :
             (t.at < anchor /\ \A p \in side : t.at < p.at) <=> \A a \in slice'.shown : t.at < a
      BY <1>2, <1>8
    <3> QED BY <1>5, <3>1
  <2> QED BY <1>1, <1>8, <2>1, <2>2, <2>3, <2>4 DEF OlderSideIsRead
<1>11. SliceIsContiguous' /\ NearIsOfKindsRead' /\ MissedIsLate'
  <2>1. slice.near = {}
    BY <1>1 DEF SliceInv, NearIsOfKindsRead
  <2> QED BY <1>8, <2>1 DEF SliceIsContiguous, NearIsOfKindsRead, MissedIsLate, Kinds
<1> QED BY <1>9, <1>10, <1>11 DEF SliceInv

LEMMA ReadNewerKeeps ==
    ASSUME SliceInv, ReadNewer
    PROVE  SliceInv'
<1> DEFINE anchor == slice.anchor
           old == slice.shown
           found == ListByTaskAfter(transitions, anchor, NeighborLimit + 1)
           side == ListByTaskAfter(found, anchor, NeighborLimit)
           seen == {t.at : t \in side}
           all == {t.at : t \in transitions}
           more == Cardinality(found) > NeighborLimit
<1>1. /\ transitions' = transitions /\ rows' = rows /\ now' = now
      /\ slice.step = "newer"
      /\ slice' = [slice EXCEPT !.step = "run", !.hasNewer = more,
                                !.shown = old \union seen, !.known = all]
  BY DEF ReadNewer
<1>2. \A x : x \in seen <=> \E t \in side : x = t.at
  OBVIOUS
<1>2a. more \in BOOLEAN
  OBVIOUS
<1>2b. \A x : x \in all <=> \E t \in transitions : x = t.at
  OBVIOUS
<1> HIDE DEF seen, all, more
<1>3. slice \in Slices /\ anchor \in Nat /\ anchor <= now /\ \A a \in old : a \in Nat
  BY <1>1, SliceFacts
<1>4. /\ anchor \in old
      /\ \A a \in old : a <= anchor /\ \E t \in transitions : t.at = a
      /\ \A t \in transitions, a \in old : a <= t.at /\ t.at <= anchor => t.at \in old
      /\ slice.hasOlder <=> \E t \in transitions : \A a \in old : t.at < a
  BY <1>1 DEF SliceInv, OlderSideIsRead
<1>5. /\ side \in SUBSET transitions /\ \A p \in side : p.at > anchor
      /\ \A p \in side, t \in transitions : t.at <= p.at /\ t.at > anchor => t \in side
      /\ more <=> \E t \in transitions : t.at > anchor /\ \A p \in side : t.at > p.at
  BY <1>3, NewerSide DEF more
<1> HIDE DEF anchor, found, side, old
<1>6. \A t \in transitions : t.at \in Nat /\ t.at \in Stamps
  BY TransitionsAreStamps
<1>7. seen \subseteq Stamps /\ all \subseteq Stamps /\ \A x \in seen : x \in Nat /\ x > anchor
  BY <1>2, <1>2b, <1>5, <1>6
<1>8. /\ slice' \in Slices /\ slice'.step = "run" /\ slice'.shown = old \union seen
      /\ slice'.anchor = anchor /\ slice'.began = slice.began /\ slice'.near = slice.near
      /\ slice'.hasOlder = slice.hasOlder /\ slice'.hasNewer = more /\ slice'.known = all
  BY <1>1, <1>2a, <1>3, <1>7 DEF Slices, Kinds, anchor, old
<1>9. TypeOK' /\ TablesAreSound'
  BY <1>1, <1>8 DEF SliceInv, TypeOK, TablesAreSound
<1>10. OlderSideIsRead'
  <2>1. slice'.anchor <= now /\ slice'.began <= now /\ \E t \in transitions : t.at = slice'.anchor
    BY <1>1, <1>3, <1>4, <1>8, SliceFacts
  <2> QED BY <1>1, <1>8, <2>1 DEF OlderSideIsRead
<1>11. SliceIsContiguous'
  <2>1. ASSUME NEW t \in all, NEW a \in old \union seen, NEW b \in old \union seen,
               a <= t, t <= b
        PROVE  t \in old \union seen
    <3>1. PICK u \in transitions : t = u.at
      BY <1>2b
    <3>2. t \in Nat /\ a \in Nat /\ b \in Nat
      BY <1>3, <1>6, <1>7, <3>1
    <3>3. CASE t <= anchor
      <4>1. a \in old
        BY <1>3, <1>7, <2>1, <3>2, <3>3
      <4> QED BY <1>4, <2>1, <3>1, <3>3, <4>1
    <3>4. CASE t > anchor
      <4>1. b \notin old
        BY <1>3, <1>4, <2>1, <3>2, <3>4
      <4>2. PICK p \in side : b = p.at
        BY <1>2, <4>1
      <4>3. u \in side
        BY <1>5, <2>1, <3>1, <3>4, <4>2
      <4> QED BY <1>2, <3>1, <4>3
    <3> QED BY <1>3, <3>2, <3>3, <3>4
  <2>2. slice.hasOlder <=> \E t \in all : \A a \in old \union seen : t < a
    <3>1. ASSUME NEW t \in transitions, \A a \in old : t.at < a
          PROVE  \A a \in old \union seen : t.at < a
      <4>1. t.at \in Nat /\ t.at < anchor
        BY <1>4, <1>6, <3>1
      <4> QED BY <1>3, <1>7, <3>1, <4>1
    <3>2. ASSUME NEW t \in transitions, \A a \in old : t.at < a
          PROVE  \E u \in all : \A a \in old \union seen : u < a
      <4>1. t.at \in all
        BY <1>2b
      <4> QED BY <3>1, <3>2, <4>1
    <3>3. ASSUME NEW u \in all, \A a \in old \union seen : u < a
          PROVE  \E t \in transitions : \A a \in old : t.at < a
      <4>1. PICK t \in transitions : u = t.at
        BY <1>2b
      <4> QED BY <3>3, <4>1
    <3> QED BY <1>4, <3>2, <3>3
  <2>3. more <=> \E t \in all : \A a \in old \union seen : t > a
    <3>1. ASSUME NEW t \in transitions, t.at > anchor, \A p \in side : t.at > p.at
          PROVE  \A a \in old \union seen : t.at > a
      BY <1>2, <1>3, <1>4, <1>6, <3>1
    <3>2. ASSUME NEW t \in transitions, \A a \in old \union seen : t.at > a
          PROVE  t.at > anchor /\ \A p \in side : t.at > p.at
      BY <1>2, <1>4, <3>2
    <3> QED BY <1>2b, <1>5, <3>1, <3>2
  <2> QED BY <1>8, <2>1, <2>2, <2>3 DEF SliceIsContiguous
<1>12. NearIsOfKindsRead' /\ MissedIsLate'
  <2>1. slice.near = {}
    BY <1>1 DEF SliceInv, NearIsOfKindsRead
  <2> QED BY <1>8, <2>1 DEF NearIsOfKindsRead, MissedIsLate
<1> QED BY <1>9, <1>10, <1>11, <1>12 DEF SliceInv

\* What a slice looks at when it has read the runs, and the actions.
LEMMA NearRunsAreAll ==
    ASSUME SliceInv, NEW anchor \in Nat, NEW r \in rows, r.kind = "run",
           ~(Cardinality(OfKind("run")) > NearLimit)
    PROVE  r \in Nearest("run", anchor)
<1> DEFINE S == OfKind("run")
           F == Scanned("run")
           N == Nearest("run", anchor)
<1>1. r \in S
  BY DEF OfKind
<1>2. Cardinality(S) \in Nat
  BY RowsAre
<1>3. NearLimit \in Nat /\ ScanLimit \in Nat /\ NearLimit <= ScanLimit
  BY SliceBounds
<1>4. Cardinality(S) <= ScanLimit => F = S
  BY Scans
<1>5. Cardinality(F) <= NearLimit => N = F
  BY Nears
<1> HIDE DEF S, F, N
<1>6. Cardinality(S) <= NearLimit
  BY <1>2, <1>3 DEF S
<1>7. N = S
  BY <1>2, <1>3, <1>4, <1>5, <1>6
<1> QED BY <1>1, <1>7 DEF N

LEMMA NearIsNotEmpty ==
    ASSUME SliceInv, NEW anchor \in Nat, NEW r \in rows
    PROVE  Nearest(r.kind, anchor) # {}
<1>1. OfKind(r.kind) # {}
  BY DEF OfKind
<1>2. Scanned(r.kind) # {}
  BY <1>1, Scans
<1> QED BY <1>2, Nears

LEMMA NearIsOfKind ==
    ASSUME NEW kind, NEW anchor, NEW r \in Nearest(kind, anchor)
    PROVE  r \in rows /\ r.kind = kind
BY DEF Nearest, Scanned, OfKind

LEMMA ReadNearKeeps ==
    ASSUME SliceInv, NEW k \in Kinds, ReadNear(k)
    PROVE  SliceInv'
<1> DEFINE N == Nearest(k, slice.anchor)
           next == CASE k = "run" -> "action" [] k = "action" -> "event" [] k = "event" -> "done"
<1>1. /\ transitions' = transitions /\ rows' = rows /\ now' = now /\ slice.step = k
      /\ slice' = [slice EXCEPT !.near = slice.near \union N, !.step = next]
  BY DEF ReadNear
<1>2. /\ k = "run" => next = "action"
      /\ k = "action" => next = "event"
      /\ k = "event" => next = "done"
      /\ k = "run" \/ k = "action" \/ k = "event"
  BY DEF Kinds
<1> HIDE DEF next
<1>3. slice \in Slices /\ slice.anchor \in Nat
  BY <1>1, <1>2, SliceFacts
<1>4. N \subseteq Rows /\ \A r \in N : r \in rows /\ r.kind = k
  BY NearIsOfKind DEF SliceInv, TypeOK
<1> HIDE DEF N
<1>5. /\ slice' \in Slices /\ slice'.step = next /\ slice'.near = slice.near \union N
      /\ slice'.shown = slice.shown /\ slice'.known = slice.known
      /\ slice'.hasOlder = slice.hasOlder /\ slice'.hasNewer = slice.hasNewer
      /\ slice'.anchor = slice.anchor /\ slice'.began = slice.began
  BY <1>1, <1>2, <1>3, <1>4 DEF Slices, Kinds
<1>6. TypeOK' /\ TablesAreSound'
  BY <1>1, <1>5 DEF SliceInv, TypeOK, TablesAreSound
<1>7. OlderSideIsRead'
  BY <1>1, <1>2, <1>5 DEF SliceInv, OlderSideIsRead
<1>8. SliceIsContiguous'
  <2>1. slice.step \in Kinds \union {"done"}
    BY <1>1
  <2> QED BY <1>5, <2>1 DEF SliceInv, SliceIsContiguous
<1>9. NearIsOfKindsRead'
  BY <1>1, <1>2, <1>4, <1>5 DEF SliceInv, NearIsOfKindsRead
<1>10. MissedIsLate'
  <2> SUFFICES ASSUME ~RecentFailureOrRecovery(slice')
               PROVE  /\ slice'.step \in {"action", "event", "done"} =>
                             \A r \in rows : Failing(r) =>
                                 \/ r.occurred > slice.began
                                 \/ Cardinality(OfKind("run")) > NearLimit
                      /\ slice'.step \in {"event", "done"} =>
                             \A r \in rows : r.kind = "action" => r.created > slice.began
    BY <1>1, <1>5 DEF MissedIsLate, OfKind, RecentFailureOrRecovery
  <2>1. ~RecentFailureOrRecovery(slice)
    BY <1>5 DEF RecentFailureOrRecovery
  <2>2. CASE k = "run"
    <3>1. ASSUME NEW r \in rows, Failing(r), ~(Cardinality(OfKind("run")) > NearLimit)
          PROVE  FALSE
      <4>1. r.kind = "run" /\ r.status \in {"FAILED", "INTERRUPTED"}
        BY <3>1 DEF Failing
      <4>2. r \in Nearest("run", slice.anchor)
        BY <1>3, <3>1, <4>1, NearRunsAreAll
      <4>3. r \in slice'.near
        BY <1>5, <2>2, <4>2 DEF N
      <4> QED BY <4>1, <4>3 DEF RecentFailureOrRecovery
    <3> QED BY <1>2, <1>5, <2>2, <3>1
  <2>3. CASE k = "action"
    <3>1. ASSUME NEW r \in rows, r.kind = "action" PROVE FALSE
      <4>1. Nearest("action", slice.anchor) # {}
        BY <1>3, <3>1, NearIsNotEmpty
      <4>2. PICK q \in N : TRUE
        BY <2>3, <4>1 DEF N
      <4>3. q \in slice'.near /\ q.kind = "action"
        BY <1>4, <1>5, <2>3, <4>2
      <4> QED BY <4>3 DEF RecentFailureOrRecovery
    <3> QED BY <1>1, <2>1, <2>3, <3>1 DEF SliceInv, MissedIsLate
  <2>4. CASE k = "event"
    BY <1>1, <2>1, <2>4 DEF SliceInv, MissedIsLate
  <2> QED BY <1>2, <2>2, <2>3, <2>4
<1> QED BY <1>6, <1>7, <1>8, <1>9, <1>10 DEF SliceInv

-----------------------------------------------------------------------------
(* The theorems.                                                           *)

LEMMA SliceInit == Init => SliceInv
<1> SUFFICES ASSUME Init PROVE SliceInv
  OBVIOUS
<1>1. transitions = {} /\ rows = {} /\ now = 0 /\ slice = NoSlice /\ slice.step = "none"
  BY DEF Init, NoSlice
<1>2. TypeOK
  BY <1>1, SliceBounds DEF TypeOK
<1>3. TablesAreSound
  BY <1>1, FS_EmptySet DEF TablesAreSound
<1>4. OlderSideIsRead /\ SliceIsContiguous /\ NearIsOfKindsRead /\ MissedIsLate
  BY <1>1 DEF OlderSideIsRead, SliceIsContiguous, NearIsOfKindsRead, MissedIsLate, Kinds
<1> QED BY <1>2, <1>3, <1>4 DEF SliceInv

LEMMA SliceStep == SliceInv /\ [Next]_vars => SliceInv'
<1> SUFFICES ASSUME SliceInv, [Next]_vars PROVE SliceInv'
  OBVIOUS
<1>1. CASE RecordTransition
  BY <1>1, RecordKeeps
<1>2. ASSUME NEW k \in Kinds, AppendRow(k) PROVE SliceInv'
  BY <1>2, AppendKeeps
<1>3. ASSUME NEW r \in rows, NEW s \in Statuses, EndRun(r, s) PROVE SliceInv'
  BY <1>3, EndRunKeeps
<1>4. ASSUME NEW a \in transitions, BeginSlice(a) PROVE SliceInv'
  BY <1>4, BeginKeeps
<1>5. CASE ReadOlder
  BY <1>5, ReadOlderKeeps
<1>6. CASE ReadNewer
  BY <1>6, ReadNewerKeeps
<1>7. ASSUME NEW k \in Kinds, ReadNear(k) PROVE SliceInv'
  BY <1>7, ReadNearKeeps
<1>8. CASE EndSlice
  <2>1. /\ transitions' = transitions /\ rows' = rows /\ now' = now
        /\ slice' = NoSlice /\ slice'.step = "none"
    BY <1>8 DEF EndSlice, NoSlice
  <2>2. TypeOK' /\ TablesAreSound'
    BY <2>1 DEF SliceInv, TypeOK, TablesAreSound
  <2>3. OlderSideIsRead' /\ SliceIsContiguous' /\ NearIsOfKindsRead' /\ MissedIsLate'
    BY <2>1 DEF OlderSideIsRead, SliceIsContiguous, NearIsOfKindsRead, MissedIsLate, Kinds
  <2> QED BY <2>2, <2>3 DEF SliceInv
<1>9. CASE UNCHANGED vars
  BY <1>9 DEF vars, SliceInv, TypeOK, TablesAreSound, OlderSideIsRead, SliceIsContiguous,
              NearIsOfKindsRead, MissedIsLate, OfKind, RecentFailureOrRecovery
<1> QED BY <1>1, <1>2, <1>3, <1>4, <1>5, <1>6, <1>7, <1>8, <1>9 DEF Next

\* The inductive invariant of the tables and the read.
THEOREM SliceInvariance == Spec => []SliceInv
BY SliceInit, SliceStep, PTL DEF Spec

\* ReadContinuityIncidentSlice puts two queries together to a stretch of the
\* history without holes, and tells rightly whether there is more.
THEOREM SlicesHaveNoHoles == Spec => []SliceIsContiguous
<1>1. SliceInv => SliceIsContiguous
  BY DEF SliceInv
<1> QED BY <1>1, SliceInvariance, PTL

\* A slice that reports no failure and no recovery hides none.
THEOREM QuietSlicesTellTheTruth == Spec => []QuietSlicesHideNothing
<1>1. SliceInv => QuietSlicesHideNothing
  BY DEF SliceInv, MissedIsLate, QuietSlicesHideNothing, Failing
<1> QED BY <1>1, SliceInvariance, PTL

\* What incident...NearAnchor passes over is older than all it returns, and
\* that only when there are more rows than it scans.
THEOREM MissesAreOld == Spec => NearMissesAreOld
<1> DEFINE Step == \A k \in Kinds :
              slice.step = k /\ slice'.step # k =>
                  \A r \in OfKind(k) \ slice'.near, s \in OfKind(k) \cap slice'.near :
                      Distance(r, slice.anchor) < Distance(s, slice.anchor) =>
                          /\ Cardinality(OfKind(k)) > ScanLimit
                          /\ \A q \in OfKind(k) \cap slice'.near : r.created < q.created
<1>1. ASSUME SliceInv, [Next]_vars PROVE Step
  <2> SUFFICES ASSUME NEW k \in Kinds, slice.step = k, slice'.step # k
               PROVE  \A r \in OfKind(k) \ slice'.near, s \in OfKind(k) \cap slice'.near :
                         Distance(r, slice.anchor) < Distance(s, slice.anchor) =>
                             /\ Cardinality(OfKind(k)) > ScanLimit
                             /\ \A q \in OfKind(k) \cap slice'.near : r.created < q.created
    OBVIOUS
  <2> DEFINE anchor == slice.anchor
             S == OfKind(k)
             F == Scanned(k)
             N == Nearest(k, anchor)
  <2>1. ReadNear(k)
    <3>1. slice.step \notin {"none", "older", "newer", "done"} /\ slice' # slice
      BY DEF Kinds
    <3>2. CASE \E j \in Kinds : ReadNear(j)
      BY <3>2 DEF ReadNear
    <3>3. ~RecordTransition /\ ~(\E j \in Kinds : AppendRow(j))
      BY <3>1 DEF RecordTransition, AppendRow
    <3>4. ~(\E r \in rows, s \in Statuses : EndRun(r, s))
      BY <3>1 DEF EndRun
    <3>5. ~(\E a \in transitions : BeginSlice(a))
      BY <3>1 DEF BeginSlice, NoSlice
    <3>6. ~ReadOlder /\ ~ReadNewer /\ ~EndSlice
      BY <3>1 DEF ReadOlder, ReadNewer, EndSlice
    <3>7. ~(UNCHANGED vars)
      BY <3>1 DEF vars
    <3> QED BY <1>1, <3>2, <3>3, <3>4, <3>5, <3>6, <3>7 DEF Next
  <2>2. slice \in Slices /\ anchor \in Nat
    <3>1. slice.step # "none"
      BY DEF Kinds
    <3> QED BY <1>1, <3>1, SliceFacts
  <2>3. slice'.near = slice.near \union N
    BY <2>1, <2>2 DEF ReadNear, Slices
  <2>4. \A q \in S \cap slice'.near : q \in N
    <3>1. \A q \in slice.near : q.kind # k
      BY <1>1 DEF SliceInv, NearIsOfKindsRead, Kinds
    <3>2. \A q \in S : q.kind = k
      BY DEF OfKind
    <3> QED BY <2>3, <3>1, <3>2
  <2>5. /\ F \in SUBSET S
        /\ \A p \in F, f \in S : f.created > p.created => f \in F
        /\ Cardinality(S) <= ScanLimit => F = S
    BY <1>1, Scans
  <2>6. /\ N \in SUBSET F
        /\ \A p \in N, f \in F : Distance(f, anchor) < Distance(p, anchor) => f \in N
    BY <1>1, <2>2, Nears
  <2>7. /\ Cardinality(S) \in Nat
        /\ \A r \in S : r.created \in Nat
        /\ \A r, q \in S : r.created = q.created => r = q
    BY <1>1, RowsAre
  <2> HIDE DEF anchor, S, F, N
  <2>8. ASSUME NEW r \in S \ slice'.near, NEW s \in S \cap slice'.near,
               Distance(r, anchor) < Distance(s, anchor)
        PROVE  /\ Cardinality(S) > ScanLimit
               /\ \A q \in S \cap slice'.near : r.created < q.created
    <3>1. r \notin F
      BY <2>3, <2>4, <2>6, <2>8
    <3>2. ScanLimit \in Nat
      BY SliceBounds
    <3>3. Cardinality(S) > ScanLimit
      BY <2>5, <2>7, <3>1, <3>2
    <3>4. ASSUME NEW q \in S \cap slice'.near PROVE r.created < q.created
      <4>1. q \in F
        BY <2>4, <2>6
      <4>2. ~(r.created > q.created) /\ r # q
        BY <2>5, <3>1, <4>1
      <4> QED BY <2>7, <4>2
    <3> QED BY <3>3, <3>4
  <2> QED BY <2>8 DEF S, anchor
<1> HIDE DEF Step
<1>2. SliceInv /\ [Next]_vars => Step
  BY <1>1
<1>3. Step => [Step]_vars
  OBVIOUS
<1> QED BY <1>2, SliceInvariance, PTL DEF Spec, NearMissesAreOld, Step
=============================================================================
