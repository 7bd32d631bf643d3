----------------------- MODULE ShellSessionsProofs -----------------------
(* Theorems about ShellSessions, for any number of shells, other clients and    *)
(* worker sessions, any bounds. Every report of a shell goes through Report,    *)
(* so one lemma says what Report does to types, to the sources of worker ids    *)
(* and to the ages of rows; each action then only supplies its arguments.       *)
EXTENDS ShellSessions, TLAPS

ShellRecs == [pc : {"unopened", "boot", "up", "gone"}, host : Statuses, first : Statuses,
              wid : Ids, src : IdSources, phase : 0..(Beat - 1), due : BOOLEAN,
              misses : 0..(MaxMisses + 1), slow : BOOLEAN]

(* What calls itself authoritative is one of the ids V that were vouched for.   *)
Sound(x, V) == x.src = "authoritative" => x.wid \in V

SoundShell(sh, V) ==
  /\ Sound(sh, V) /\ Sound(sh.host, V) /\ Sound(sh.first, V)
  /\ sh.pc = "boot" /\ sh.wid # NoId => sh.wid \in V

(* No id is ever called authoritative that no client vouched for.               *)
SourcesAreSound ==
  /\ \A s \in Shells : SoundShell(shell[s], vouched)
  /\ \A s \in Sessions : row[s] # NoRow => Sound(row[s].is, vouched)
  /\ \A c \in late : Sound(c.rec, vouched)

(* How old the last report that was saved may be: every interval since is that  *)
(* of a report that failed or of the tick that waits, and one more has begun.   *)
Intervals(sh) == sh.misses + (IF sh.due THEN 1 ELSE 0)
Allowance(sh) == Intervals(sh) * Beat + sh.phase

Aged(sh, age) == Running(sh) /\ sh.misses <= MaxMisses /\ ~sh.slow => age <= Allowance(sh)

(* The ticker is made after the start, and a shell left behind is a slow one.   *)
Paced(sh) == (sh.pc = "boot" => ~sh.due) /\ (Running(sh) /\ Behind(sh) => sh.slow)

(* Rows that were not taken back are that young, and so are the calls still to  *)
(* be served while there is no row; a session not opened has neither.           *)
AgesFit(s, sh, r, calls) ==
  /\ Paced(sh)
  /\ sh.pc = "unopened" => r = NoRow /\ \A c \in calls : c.of # s
  /\ r # NoRow /\ ~r.back => Aged(sh, r.is.age)
  /\ r = NoRow => \A c \in calls : c.of = s => Aged(sh, c.rec.age)

AgesAreBounded == \A s \in Shells : AgesFit(s, shell[s], row[s], late)

SessionInv == TypeOK /\ SourcesAreSound /\ AgesAreBounded

-----------------------------------------------------------------------------
(* A known row is a row with a record.                                          *)
LEMMA RowCases ==
  ASSUME TypeOK, NEW s \in Sessions, row[s] # NoRow
  PROVE  /\ row[s] \in [known : {TRUE}, back : BOOLEAN, is : Records]
         /\ row[s].is \in Records
         /\ row[s].is.wid = NoId <=> row[s].is.src = "none"
BY DEF TypeOK, Rows

(* Ages are natural numbers.                                                    *)
LEMMA AgeTypes == Ages \subseteq Nat /\ \A rec \in Records : rec.age \in Nat
<1>1. Ages \subseteq Nat
  BY SessionBounds DEF Ages, Oldest
<1> QED
  BY <1>1 DEF Records

(* Off is a status and an unopened shell a shell.                               *)
LEMMA StartTypes == Off \in Statuses /\ NotOpened \in ShellRecs
BY SessionBounds DEF Off, NotOpened, Statuses, ShellRecs, HostStates, Ids, IdSources

(* What refreshWorkerSessionAnchor leaves: an id and a source, sound if both    *)
(* the shell and the host's status were.                                        *)
LEMMA AnchorFacts ==
  ASSUME NEW V, NEW sh \in ShellRecs, NEW status \in Statuses
  PROVE  /\ refreshAnchor(sh, status).wid \in Ids
         /\ refreshAnchor(sh, status).src \in IdSources
         /\ Sound(sh, V) /\ Sound(status, V) => Sound(refreshAnchor(sh, status), V)
BY DEF refreshAnchor, normalizeSource, ShellRecs, Statuses, IdSources, Ids, Sound

(* The report a shell sends.                                                    *)
LEMMA ReportType ==
  ASSUME NEW V, NEW sh \in ShellRecs, NEW status \in Statuses, NEW active \in BOOLEAN
  PROVE  /\ reportOf(sh, status, active) \in Records
         /\ reportOf(sh, status, active).age = 0
         /\ Sound(sh, V) /\ Sound(status, V) => Sound(reportOf(sh, status, active), V)
<1>1. refreshAnchor(sh, status).wid \in Ids /\ refreshAnchor(sh, status).src \in IdSources
  BY AnchorFacts
<1>2. 0 \in Ages
  BY SessionBounds DEF Ages, Oldest
<1>3. status.state \in HostStates
  BY DEF Statuses
<1>4. reportOf(sh, status, active) \in Records
  BY <1>1, <1>2, <1>3 DEF reportOf, Records
<1>5. /\ reportOf(sh, status, active).wid = refreshAnchor(sh, status).wid
      /\ reportOf(sh, status, active).src = refreshAnchor(sh, status).src
      /\ reportOf(sh, status, active).age = 0
  BY DEF reportOf
<1> QED
  BY <1>4, <1>5, AnchorFacts DEF Sound

(* What the registry stores for a record.                                       *)
LEMMA UpsertFacts ==
  ASSUME TypeOK, NEW V, NEW s \in Sessions, NEW rec \in Records
  PROVE  /\ Upsert(row[s], rec) \in Records
         /\ Upsert(row[s], rec).age = rec.age
         /\ Upsert(row[s], rec).wid = NoId <=> Upsert(row[s], rec).src = "none"
         /\ Sound(rec, V) /\ (row[s] # NoRow => Sound(row[s].is, V)) => Sound(Upsert(row[s], rec), V)
<1>1. CASE rec.wid # NoId \/ row[s] = NoRow
  <2>1. Upsert(row[s], rec) = [rec EXCEPT !.src = normalizeSource(rec.src, rec.wid)]
    BY <1>1 DEF Upsert, Records
  <2> QED
    BY <2>1 DEF normalizeSource, Records, IdSources, Sound
<1>2. CASE ~(rec.wid # NoId \/ row[s] = NoRow)
  <2>1. Upsert(row[s], rec) = [rec EXCEPT !.wid = row[s].is.wid, !.src = row[s].is.src]
    BY <1>2 DEF Upsert, Records
  <2>2. /\ row[s].is \in Records
        /\ row[s].is.wid = NoId <=> row[s].is.src = "none"
    BY <1>2, RowCases
  <2>3. row[s].is.wid \in Ids /\ row[s].is.src \in IdSources
    BY <2>2 DEF Records
  <2>4. Upsert(row[s], rec) \in Records
    BY <2>1, <2>3 DEF Records
  <2>5. /\ Upsert(row[s], rec).wid = row[s].is.wid
        /\ Upsert(row[s], rec).src = row[s].is.src
        /\ Upsert(row[s], rec).age = rec.age
    BY <2>1 DEF Records
  <2> QED
    BY <1>2, <2>2, <2>4, <2>5 DEF Sound
<1> QED
  BY <1>1, <1>2

(* The registry after a report.                                                 *)
LEMMA SavedFacts ==
  ASSUME TypeOK, NEW s \in Sessions, NEW rec \in Records, NEW l \in BOOLEAN
  PROVE  /\ Saved(s, rec, l) \in [Sessions -> Rows]
         /\ \A t \in Sessions : t # s => Saved(s, rec, l)[t] = row[t]
         /\ Saved(s, rec, l)[s] # NoRow
         /\ Saved(s, rec, l)[s].back = l
         /\ Saved(s, rec, l)[s].is = Upsert(row[s], rec)
<1> DEFINE new == [known |-> TRUE, back |-> l, is |-> Upsert(row[s], rec)]
<1>1. row \in [Sessions -> Rows]
  BY DEF TypeOK
<1>2. Upsert(row[s], rec) \in Records
  BY UpsertFacts
<1>3. new \in Rows
  BY <1>2 DEF Rows
<1>4. new.known # NoRow.known
  BY DEF NoRow
<1>5. Saved(s, rec, l) = [row EXCEPT ![s] = new]
  BY DEF Saved
<1>6. new.back = l /\ new.is = Upsert(row[s], rec)
  OBVIOUS
<1> HIDE DEF new
<1> QED
  BY <1>1, <1>3, <1>4, <1>5, <1>6

(* Time that goes by in heartbeats: one more of them adds a Beat.               *)
LEMMA BeatFacts ==
  ASSUME NEW n \in Nat
  PROVE  /\ n * Beat \in Nat /\ (n + 1) * Beat = n * Beat + Beat
         /\ \A k \in Nat : n <= k => n * Beat <= k * Beat
<1>1. Beat \in Nat /\ Beat > 0
  BY SessionBounds
<1>2. n * Beat \in Nat /\ (n + 1) * Beat = n * Beat + Beat
  BY <1>1
<1>3. ASSUME NEW k \in Nat, n <= k PROVE n * Beat <= k * Beat
  <2>1. (k - n) \in Nat /\ k = n + (k - n)
    BY <1>3
  <2>2. k * Beat = n * Beat + (k - n) * Beat /\ (k - n) * Beat \in Nat
    BY <2>1, <1>1
  <2> QED
    BY <2>2, <1>2
<1> QED
  BY <1>2, <1>3

LEMMA AllowanceFacts ==
  ASSUME NEW sh \in ShellRecs
  PROVE  /\ sh.misses \in Nat /\ sh.due \in BOOLEAN /\ sh.slow \in BOOLEAN
         /\ sh.phase \in Nat /\ sh.phase < Beat /\ Beat \in Nat /\ MaxMisses \in Nat
         /\ Intervals(sh) \in Nat /\ Intervals(sh) * Beat \in Nat /\ Allowance(sh) \in Nat
         /\ Allowance(sh) = Intervals(sh) * Beat + sh.phase
<1>1. /\ Beat \in Nat /\ Beat > 0 /\ MaxMisses \in Nat
      /\ sh.misses \in 0..(MaxMisses + 1) /\ sh.phase \in 0..(Beat - 1)
      /\ sh.due \in BOOLEAN /\ sh.slow \in BOOLEAN
  BY SessionBounds DEF ShellRecs
<1>2. Intervals(sh) \in Nat
  BY <1>1 DEF Intervals
<1>3. Intervals(sh) * Beat \in Nat
  BY <1>2, BeatFacts
<1> QED
  BY <1>1, <1>2, <1>3 DEF Allowance

(* What may be an age may be a lower one.                                       *)
LEMMA AgedDown ==
  ASSUME NEW sh \in ShellRecs, NEW a \in Nat, NEW b \in Nat, b <= a, Aged(sh, a)
  PROVE  Aged(sh, b)
BY AllowanceFacts DEF Aged

(* The shell after a report: m reports in a row failed, and it was slow or not. *)
After(sh, status, m, slow) ==
  [[sh EXCEPT !.wid = refreshAnchor(sh, status).wid, !.src = refreshAnchor(sh, status).src]
   EXCEPT !.misses = m, !.slow = slow]

(* It is a shell, and sound if it was and the status it reported is.            *)
LEMMA AfterFacts ==
  ASSUME NEW V, NEW sh \in ShellRecs, NEW status \in Statuses, NEW m \in 0..(MaxMisses + 1),
         NEW slow \in BOOLEAN, SoundShell(sh, V), Sound(status, V),
         sh.pc = "boot" => status.wid = NoId
  PROVE  /\ After(sh, status, m, slow) \in ShellRecs
         /\ After(sh, status, m, slow).pc = sh.pc /\ After(sh, status, m, slow).misses = m
         /\ After(sh, status, m, slow).due = sh.due /\ After(sh, status, m, slow).phase = sh.phase
         /\ After(sh, status, m, slow).slow = slow
         /\ SoundShell(After(sh, status, m, slow), V)
<1> DEFINE a == refreshAnchor(sh, status)
           new == After(sh, status, m, slow)
<1>1. a.wid \in Ids /\ a.src \in IdSources /\ Sound(a, V)
  BY AnchorFacts DEF SoundShell
<1>2. sh.pc = "boot" => a.wid = sh.wid
  BY DEF refreshAnchor
<1>3. new = [[sh EXCEPT !.wid = a.wid, !.src = a.src] EXCEPT !.misses = m, !.slow = slow]
  BY DEF After
<1> HIDE DEF a, new
<1>4. new \in ShellRecs
  BY <1>1, <1>3 DEF ShellRecs
<1>5. /\ new.pc = sh.pc /\ new.host = sh.host /\ new.first = sh.first /\ new.wid = a.wid
      /\ new.src = a.src /\ new.due = sh.due /\ new.phase = sh.phase
      /\ new.misses = m /\ new.slow = slow
  BY <1>3 DEF ShellRecs
<1>6. SoundShell(new, V)
  BY <1>1, <1>2, <1>5 DEF SoundShell, Sound
<1> QED
  BY <1>4, <1>5, <1>6 DEF new

(* Every shell is a record of its type.                                         *)
LEMMA ShellTypes ==
  ASSUME TypeOK
  PROVE  shell \in [Shells -> ShellRecs] /\ \A s \in Shells : shell[s] \in ShellRecs
BY DEF TypeOK, ShellRecs

LEMMA PacedFacts == SessionInv => \A s \in Shells : Paced(shell[s])
BY DEF SessionInv, AgesAreBounded, AgesFit

(* A row of the next state that differs from the old one in session s only,     *)
(* where a report was stored, keeps its type and its sources sound.             *)
LEMMA StoreStep ==
  ASSUME SessionInv, NEW s \in Sessions, NEW rec \in Records, NEW l \in BOOLEAN,
         NEW V, vouched \subseteq V, Sound(rec, V),
         row' = Saved(s, rec, l)
  PROVE  /\ row' \in [Sessions -> Rows]
         /\ \A t \in Sessions :
              row'[t] # NoRow => (row'[t].is.wid = NoId <=> row'[t].is.src = "none")
         /\ \A t \in Sessions : row'[t] # NoRow => Sound(row'[t].is, V)
         /\ \A t \in Sessions : t # s => row'[t] = row[t]
         /\ row'[s] # NoRow /\ row'[s].back = l
         /\ row'[s].is.age = rec.age
<1>1. TypeOK /\ SourcesAreSound
  BY DEF SessionInv
<1>2. /\ row' \in [Sessions -> Rows]
      /\ \A t \in Sessions : t # s => row'[t] = row[t]
      /\ row'[s] # NoRow /\ row'[s].back = l /\ row'[s].is = Upsert(row[s], rec)
  BY <1>1, SavedFacts
<1>3. \A t \in Sessions : row[t] # NoRow => Sound(row[t].is, V)
  BY <1>1 DEF SourcesAreSound, Sound
<1>4. /\ Upsert(row[s], rec).age = rec.age
      /\ Upsert(row[s], rec).wid = NoId <=> Upsert(row[s], rec).src = "none"
      /\ Sound(Upsert(row[s], rec), V)
  BY <1>1, <1>3, UpsertFacts
<1>5. \A t \in Sessions : row[t] # NoRow => (row[t].is.wid = NoId <=> row[t].is.src = "none")
  BY <1>1 DEF TypeOK
<1>6. row'[s].is.age = rec.age
  BY <1>2, <1>4
<1>7. ASSUME NEW t \in Sessions, row'[t] # NoRow
      PROVE  /\ row'[t].is.wid = NoId <=> row'[t].is.src = "none"
             /\ Sound(row'[t].is, V)
  <2>1. CASE t = s
    BY <2>1, <1>2, <1>4
  <2>2. CASE t # s
    BY <2>2, <1>7, <1>2, <1>3, <1>5
  <2> QED
    BY <2>1, <2>2
<1> QED
  BY <1>2, <1>6, <1>7

(* A report that fails is paid for with an interval: of the shell old and the   *)
(* shell sh that reports, sh may have consumed a tick or begun a new interval.  *)
Follows(old, sh) ==
  Running(sh) => /\ Running(old) /\ sh.misses = old.misses /\ sh.slow = old.slow
                 /\ Allowance(old) <= Allowance(sh) + Beat

LEMMA MissFacts ==
  ASSUME NEW old \in ShellRecs, NEW sh \in ShellRecs, NEW new \in ShellRecs, Follows(old, sh),
         new.pc = sh.pc, new.due = sh.due, new.phase = sh.phase, new.slow = sh.slow,
         new.misses = More(sh.misses), NEW age \in Nat, Aged(old, age)
  PROVE  Aged(new, age)
<1>1. SUFFICES ASSUME Running(new), new.misses <= MaxMisses, ~new.slow
               PROVE  age <= Allowance(new)
  BY DEF Aged
<1>2. /\ Running(old) /\ sh.misses = old.misses /\ ~old.slow
      /\ Allowance(old) <= Allowance(sh) + Beat
  BY <1>1 DEF Follows, Running
<1>3. new.misses = sh.misses + 1 /\ sh.misses <= MaxMisses
  BY <1>1, AllowanceFacts DEF More
<1>4. Intervals(new) = Intervals(sh) + 1
  BY <1>3, AllowanceFacts DEF Intervals
<1>5. Intervals(new) * Beat = Intervals(sh) * Beat + Beat
  BY <1>4, AllowanceFacts, BeatFacts
<1>6. age <= Allowance(old)
  BY <1>2, <1>3 DEF Aged
<1>7. Allowance(new) = Allowance(sh) + Beat
  <2>1. Allowance(new) = Intervals(new) * Beat + new.phase
    BY DEF Allowance
  <2>2. Allowance(sh) = Intervals(sh) * Beat + sh.phase
    BY DEF Allowance
  <2>3. Intervals(sh) * Beat \in Nat /\ sh.phase \in Nat /\ Beat \in Nat
    BY AllowanceFacts
  <2> QED
    BY <2>1, <2>2, <2>3, <1>5
<1>8. Allowance(old) \in Nat /\ Allowance(new) \in Nat
  BY AllowanceFacts
<1> QED
  BY <1>2, <1>6, <1>7, <1>8

(* Whatever becomes of the call, a shell that reports keeps the invariant if it *)
(* and the status it reports are sound.                                         *)
LEMMA ReportStep ==
  ASSUME SessionInv, NEW s \in Shells, NEW sh \in ShellRecs, NEW status \in Statuses,
         NEW active \in BOOLEAN,
         SoundShell(sh, vouched), Sound(status, vouched),
         sh.pc # "unopened", sh.pc = "boot" => status.wid = NoId,
         Paced(sh), shell[s].pc = "unopened" \/ Follows(shell[s], sh),
         Report(s, sh, status, active), UNCHANGED vouched
  PROVE  SessionInv'
<1> DEFINE rec == reportOf(sh, status, active)
           after == [sh EXCEPT !.wid = refreshAnchor(sh, status).wid,
                               !.src = refreshAnchor(sh, status).src]
           call == [of |-> s, rec |-> rec]
<1>1. /\ TypeOK /\ SourcesAreSound /\ AgesAreBounded
      /\ shell \in [Shells -> ShellRecs] /\ s \in Sessions
  BY ShellTypes DEF SessionInv, Sessions
<1>2. rec \in Records /\ rec.age = 0 /\ Sound(rec, vouched)
  BY ReportType DEF SoundShell
<1>3. sh.misses \in 0..(MaxMisses + 1) /\ MaxMisses \in Nat /\ sh.slow \in BOOLEAN
  BY SessionBounds DEF ShellRecs
<1>4. PICK m \in 0..(MaxMisses + 1), slow \in BOOLEAN :
        /\ shell' = [shell EXCEPT ![s] = After(sh, status, m, slow)]
        /\ \/ row' = Saved(s, rec, FALSE) /\ slow = Behind(sh) /\ UNCHANGED late
           \/ m = More(sh.misses) /\ slow = sh.slow /\ UNCHANGED <<row, late>>
           \/ m = More(sh.misses) /\ slow = sh.slow /\ late' = late \cup {call} /\ UNCHANGED row
  <2>1. after.misses = sh.misses /\ after.slow = sh.slow
    BY DEF ShellRecs
  <2>2. /\ 0 \in 0..(MaxMisses + 1) /\ More(sh.misses) \in 0..(MaxMisses + 1)
        /\ Behind(sh) \in BOOLEAN
    BY <1>3 DEF More, Behind
  <2>3. [after EXCEPT !.misses = More(@)] = After(sh, status, More(sh.misses), sh.slow)
    BY <2>1 DEF ShellRecs, After
  <2>4. [after EXCEPT !.misses = 0, !.slow = Behind(sh)] = After(sh, status, 0, Behind(sh))
    BY DEF After
  <2> QED
    BY <1>3, <2>2, <2>3, <2>4 DEF Report
<1> DEFINE new == After(sh, status, m, slow)
<1>5. /\ new \in ShellRecs /\ new.pc = sh.pc /\ new.misses = m /\ new.slow = slow
      /\ new.due = sh.due /\ new.phase = sh.phase /\ SoundShell(new, vouched)
  BY AfterFacts
<1> HIDE DEF new, after, rec
<1>6. /\ shell' \in [Shells -> ShellRecs] /\ shell'[s] = new
      /\ \A t \in Shells : t # s => shell'[t] = shell[t]
  BY <1>1, <1>4, <1>5 DEF new
<1>7. \A t \in Shells : SoundShell(shell'[t], vouched)
  BY <1>1, <1>5, <1>6 DEF SourcesAreSound
<1>8. /\ call \in [of : Shells, rec : Records] /\ call.of = s /\ call.rec = rec
      /\ late' \subseteq late \cup {call}
  BY <1>2, <1>4
<1> HIDE DEF call
<1>9. /\ late' \subseteq [of : Shells, rec : Records]
      /\ \A c \in late' : Sound(c.rec, vouched)
  <2>1. late \subseteq [of : Shells, rec : Records] /\ \A c \in late : Sound(c.rec, vouched)
    BY <1>1 DEF TypeOK, SourcesAreSound
  <2> QED
    BY <2>1, <1>2, <1>8
<1>10. \A t \in Shells : t # s => AgesFit(t, shell[t], row[t], late')
  BY <1>1, <1>8 DEF AgesAreBounded, AgesFit
<1>11. Paced(new) /\ new.pc # "unopened" /\ Aged(new, 0)
  <2>1. Behind(new) <=> Behind(sh)
    BY <1>5 DEF Behind
  <2>2. Running(new) <=> Running(sh)
    BY <1>5 DEF Running
  <2>3. Behind(sh) /\ Running(sh) => slow
    BY <1>4 DEF Paced
  <2>4. Aged(new, 0)
    BY <1>5, AllowanceFacts DEF Aged
  <2> QED
    BY <2>1, <2>2, <2>3, <2>4, <1>5 DEF Paced
<1>12. CASE row' = Saved(s, rec, FALSE)
  <2>1. /\ row' \in [Sessions -> Rows]
        /\ \A t \in Sessions :
             row'[t] # NoRow => (row'[t].is.wid = NoId <=> row'[t].is.src = "none")
        /\ \A t \in Sessions : row'[t] # NoRow => Sound(row'[t].is, vouched)
        /\ \A t \in Sessions : t # s => row'[t] = row[t]
        /\ row'[s] # NoRow /\ row'[s].is.age = 0
    BY <1>1, <1>2, <1>12, StoreStep
  <2>2. AgesFit(s, new, row'[s], late')
    BY <2>1, <1>11 DEF AgesFit
  <2>3. \A t \in Shells : AgesFit(t, shell'[t], row'[t], late')
    BY <2>1, <2>2, <1>6, <1>10 DEF Sessions
  <2>4. SourcesAreSound'
    BY <2>1, <1>7, <1>9 DEF SourcesAreSound
  <2>5. AgesAreBounded'
    BY <2>3 DEF AgesAreBounded
  <2>6. vouched' \subseteq WorkerIds
    BY <1>1 DEF TypeOK
  <2> QED
    BY <2>1, <2>4, <2>5, <2>6, <1>6, <1>9 DEF SessionInv, TypeOK, ShellRecs
<1>13. CASE m = More(sh.misses) /\ slow = sh.slow /\ row' = row
  <2>1. ASSUME NEW age \in Nat, shell[s].pc # "unopened", Aged(shell[s], age)
        PROVE  Aged(new, age)
    BY <2>1, <1>1, <1>5, <1>13, MissFacts
  <2>2. AgesFit(s, shell[s], row[s], late)
    BY <1>1 DEF AgesAreBounded
  <2>3. row[s] # NoRow /\ ~row[s].back => Aged(new, row[s].is.age)
    <3>1. SUFFICES ASSUME row[s] # NoRow, ~row[s].back PROVE Aged(new, row[s].is.age)
      OBVIOUS
    <3>2. row[s].is.age \in Nat
      BY <3>1, <1>1, RowCases, AgeTypes
    <3> QED
      BY <3>1, <3>2, <2>1, <2>2 DEF AgesFit
  <2>4. ASSUME row[s] = NoRow, NEW c \in late', c.of = s PROVE Aged(new, c.rec.age)
    <3>1. CASE c \in late
      <4>1. c.rec \in Records
        BY <3>1, <1>1 DEF TypeOK
      <4> QED
        BY <4>1, <3>1, <2>1, <2>2, <2>4, AgeTypes DEF AgesFit
    <3>2. CASE c = call
      BY <3>2, <1>2, <1>8, <1>11
    <3> QED
      BY <3>1, <3>2, <1>8
  <2>5. AgesFit(s, new, row[s], late')
    BY <2>3, <2>4, <1>11 DEF AgesFit
  <2>6. \A t \in Shells : AgesFit(t, shell'[t], row'[t], late')
    BY <2>5, <1>6, <1>10, <1>13
  <2>7. SourcesAreSound'
    BY <1>1, <1>7, <1>9, <1>13 DEF SourcesAreSound
  <2>8. AgesAreBounded'
    BY <2>6 DEF AgesAreBounded
  <2> QED
    BY <1>1, <2>7, <2>8, <1>6, <1>9, <1>13 DEF SessionInv, TypeOK, ShellRecs
<1> QED
  BY <1>4, <1>12, <1>13

-----------------------------------------------------------------------------
(* A session that reads as attachable has an authoritative worker session.      *)
LEMMA AttachableFacts ==
  ASSUME SessionInv, NEW s \in Sessions, Class(s) = "attachable"
  PROVE  /\ row[s] # NoRow /\ row[s].is \in Records
         /\ row[s].is.src = "authoritative" /\ row[s].is.wid \in vouched
<1>1. row[s] # NoRow /\ row[s].is.src = "authoritative"
  BY DEF Class, classify, isAttachableRecord
<1>2. row[s].is \in Records
  BY <1>1, RowCases DEF SessionInv
<1>3. Sound(row[s].is, vouched)
  BY <1>1 DEF SessionInv, SourcesAreSound
<1> QED
  BY <1>1, <1>2, <1>3 DEF Sound

(* A shell that opens takes over a worker session only from an attachable row.  *)
LEMMA OpenShellStep ==
  ASSUME SessionInv, NEW s \in Shells, NEW target \in Sessions \cup {NoTarget},
         OpenShell(s, target)
  PROVE  SessionInv'
<1> DEFINE w == IF target = NoTarget THEN NoId ELSE row[target].is.wid
           src == IF target = NoTarget THEN "none" ELSE row[target].is.src
           sh == [NotOpened EXCEPT !.pc = "boot", !.wid = w, !.src = src]
<1>1. /\ w \in Ids /\ src \in IdSources
      /\ src = "authoritative" => w \in vouched
      /\ w # NoId => w \in vouched
  <2>1. CASE target = NoTarget
    BY <2>1 DEF Ids, IdSources
  <2>2. CASE target # NoTarget
    <3>1. target \in Sessions /\ Class(target) = "attachable"
      BY <2>2 DEF OpenShell, resolveReattachTarget
    <3>2. /\ row[target].is \in Records /\ row[target].is.wid \in vouched
          /\ row[target].is.src = "authoritative"
      BY <3>1, AttachableFacts
    <3> QED
      BY <3>2, <2>2 DEF Records
  <2> QED
    BY <2>1, <2>2
<1>2. Report(s, sh, Off, TRUE) /\ shell[s].pc = "unopened" /\ UNCHANGED vouched
  BY DEF OpenShell
<1>3. NotOpened \in ShellRecs /\ Off \in Statuses
  BY StartTypes
<1> HIDE DEF w, src
<1>4. sh \in ShellRecs
  BY <1>1, <1>3 DEF ShellRecs
<1>5. /\ sh.pc = "boot" /\ sh.host = Off /\ sh.first = Off /\ sh.wid = w /\ sh.src = src
      /\ sh.due = FALSE
      /\ Off.wid = NoId /\ Off.src = "none"
  BY DEF NotOpened, Off
<1>6. SoundShell(sh, vouched) /\ Sound(Off, vouched) /\ Paced(sh)
  BY <1>1, <1>5 DEF SoundShell, Sound, Paced, Behind
<1> HIDE DEF sh
<1> QED
  BY <1>2, <1>3, <1>4, <1>5, <1>6, ReportStep

(* A host that starts calls the id it resumes authoritative.                    *)
LEMMA StartHostStep ==
  ASSUME SessionInv, NEW s \in Shells, StartHost(s)
  PROVE  SessionInv'
<1>1. /\ shell[s] \in ShellRecs /\ SoundShell(shell[s], vouched) /\ shell[s].pc = "boot"
  BY ShellTypes DEF SessionInv, SourcesAreSound, StartHost
<1>2. PICK status \in {[state |-> "live", wid |-> shell[s].wid,
                        src |-> IF shell[s].wid = NoId THEN "none" ELSE "authoritative"],
                       [Off EXCEPT !.state = "fallback"]} :
        Report(s, [shell[s] EXCEPT !.pc = "up", !.host = status, !.first = status, !.phase = 0],
               status, TRUE)
  BY DEF StartHost
<1>3. status \in Statuses /\ Sound(status, vouched)
  <2>1. shell[s].wid \in Ids
    BY <1>1 DEF ShellRecs
  <2>2. shell[s].wid # NoId => shell[s].wid \in vouched
    BY <1>1 DEF SoundShell
  <2> QED
    BY <2>1, <2>2, <1>2 DEF Statuses, Sound, Off, HostStates, IdSources, Ids
<1> DEFINE sh == [shell[s] EXCEPT !.pc = "up", !.host = status, !.first = status, !.phase = 0]
<1>4. sh \in ShellRecs
  <2>1. 0 \in 0..(Beat - 1)
    BY SessionBounds
  <2> QED
    BY <2>1, <1>1, <1>3 DEF ShellRecs
<1>5. /\ sh.pc = "up" /\ sh.host = status /\ sh.first = status /\ sh.wid = shell[s].wid
      /\ sh.src = shell[s].src /\ sh.misses = shell[s].misses /\ sh.slow = shell[s].slow
      /\ sh.due = shell[s].due /\ sh.phase = 0
  BY <1>1 DEF ShellRecs
<1>6. SoundShell(sh, vouched)
  BY <1>1, <1>3, <1>5 DEF SoundShell, Sound
<1>7. Report(s, sh, status, TRUE) /\ UNCHANGED vouched
  BY <1>2 DEF StartHost
<1> HIDE DEF sh
<1>8. Paced(sh)
  <2>1. ~shell[s].due
    BY <1>1, PacedFacts DEF Paced
  <2> QED
    BY <2>1, <1>5 DEF Paced, Behind
<1>9. Follows(shell[s], sh)
  <2>1. Intervals(sh) = Intervals(shell[s])
    BY <1>5 DEF Intervals
  <2>2. /\ Allowance(sh) = Intervals(sh) * Beat + 0
        /\ Allowance(shell[s]) = Intervals(sh) * Beat + shell[s].phase
    BY <2>1, <1>5 DEF Allowance
  <2>3. Allowance(shell[s]) <= Allowance(sh) + Beat
    BY <2>2, <1>1, <1>4, AllowanceFacts
  <2> QED
    BY <2>3, <1>1, <1>5 DEF Follows, Running
<1> QED
  BY <1>3, <1>4, <1>5, <1>6, <1>7, <1>8, <1>9, ReportStep

(* A heartbeat reports the host as it is; the tick it takes is the miss it may  *)
(* become.                                                                      *)
LEMMA HeartbeatStep ==
  ASSUME SessionInv, NEW s \in Shells, Heartbeat(s)
  PROVE  SessionInv'
<1> DEFINE sh == [shell[s] EXCEPT !.due = FALSE]
<1>1. /\ shell[s] \in ShellRecs /\ SoundShell(shell[s], vouched) /\ Paced(shell[s])
  BY ShellTypes, PacedFacts DEF SessionInv, SourcesAreSound
<1>2. shell[s].host \in Statuses /\ Sound(shell[s].host, vouched)
  BY <1>1 DEF ShellRecs, SoundShell
<1>3. /\ shell[s].pc = "up" /\ Report(s, sh, shell[s].host, TRUE)
      /\ shell[s].due /\ UNCHANGED vouched
  BY DEF Heartbeat
<1>4. sh \in ShellRecs
  BY <1>1 DEF ShellRecs
<1>5. /\ sh.pc = "up" /\ sh.host = shell[s].host /\ sh.first = shell[s].first
      /\ sh.wid = shell[s].wid /\ sh.src = shell[s].src /\ sh.misses = shell[s].misses
      /\ sh.slow = shell[s].slow /\ sh.phase = shell[s].phase /\ sh.due = FALSE
  BY <1>1, <1>3 DEF ShellRecs
<1>6. SoundShell(sh, vouched) /\ Paced(sh)
  BY <1>1, <1>5 DEF SoundShell, Sound, Paced, Behind
<1> HIDE DEF sh
<1>7. Follows(shell[s], sh)
  <2>1. Intervals(shell[s]) = Intervals(sh) + 1
    BY <1>1, <1>3, <1>5, AllowanceFacts DEF Intervals
  <2>2. /\ Intervals(shell[s]) * Beat = Intervals(sh) * Beat + Beat
        /\ Intervals(sh) * Beat \in Nat /\ sh.phase \in Nat /\ Beat \in Nat
    BY <2>1, <1>4, AllowanceFacts, BeatFacts
  <2>3. /\ Allowance(shell[s]) = Intervals(shell[s]) * Beat + sh.phase
        /\ Allowance(sh) = Intervals(sh) * Beat + sh.phase
    BY <1>5 DEF Allowance
  <2>4. Allowance(shell[s]) <= Allowance(sh) + Beat
    BY <2>2, <2>3
  <2> QED
    BY <2>4, <1>3, <1>5 DEF Follows, Running
<1> QED
  BY <1>2, <1>3, <1>4, <1>5, <1>6, <1>7, ReportStep

(* A report that leaves ticker and tick as they are follows the shell it is of. *)
LEMMA SameTicker ==
  ASSUME NEW old \in ShellRecs, NEW sh \in ShellRecs, Running(old),
         sh.misses = old.misses, sh.slow = old.slow, sh.due = old.due, sh.phase = old.phase
  PROVE  Follows(old, sh)
<1>1. Intervals(sh) = Intervals(old)
  BY DEF Intervals
<1>2. Allowance(sh) = Allowance(old)
  BY <1>1 DEF Allowance
<1>3. Allowance(old) <= Allowance(sh) + Beat
  BY <1>2, AllowanceFacts
<1> QED
  BY <1>3 DEF Follows

(* The report of a changed status leaves the shell as it is.                    *)
LEMMA ReportStatusStep ==
  ASSUME SessionInv, NEW s \in Shells, ReportStatus(s)
  PROVE  SessionInv'
<1>1. /\ shell[s] \in ShellRecs /\ SoundShell(shell[s], vouched) /\ Paced(shell[s])
  BY ShellTypes, PacedFacts DEF SessionInv, SourcesAreSound
<1>2. shell[s].host \in Statuses /\ Sound(shell[s].host, vouched)
  BY <1>1 DEF ShellRecs, SoundShell
<1>3. shell[s].pc = "up" /\ Report(s, shell[s], shell[s].host, TRUE) /\ UNCHANGED vouched
  BY DEF ReportStatus
<1>4. Follows(shell[s], shell[s])
  BY <1>1, <1>3, SameTicker DEF Running
<1> QED
  BY <1>1, <1>2, <1>3, <1>4, ReportStep

(* A host that falls back reports no id of its own.                             *)
LEMMA FallBackStep ==
  ASSUME SessionInv, NEW s \in Shells, FallBack(s)
  PROVE  SessionInv'
<1> DEFINE status == [Off EXCEPT !.state = "fallback"]
           sh == [shell[s] EXCEPT !.host = status]
<1>1. /\ shell[s] \in ShellRecs /\ SoundShell(shell[s], vouched) /\ Paced(shell[s])
  BY ShellTypes, PacedFacts DEF SessionInv, SourcesAreSound
<1>2. status \in Statuses /\ Sound(status, vouched)
  BY DEF Off, Statuses, HostStates, Ids, IdSources, Sound
<1>3. shell[s].pc = "up" /\ Report(s, sh, status, TRUE) /\ UNCHANGED vouched
  BY DEF FallBack
<1> HIDE DEF status
<1>4. sh \in ShellRecs
  BY <1>1, <1>2 DEF ShellRecs
<1>5. /\ sh.pc = "up" /\ sh.host = status /\ sh.first = shell[s].first
      /\ sh.wid = shell[s].wid /\ sh.src = shell[s].src /\ sh.misses = shell[s].misses
      /\ sh.slow = shell[s].slow /\ sh.due = shell[s].due /\ sh.phase = shell[s].phase
  BY <1>1, <1>3 DEF ShellRecs
<1>6. SoundShell(sh, vouched) /\ Paced(sh)
  BY <1>1, <1>2, <1>3, <1>5 DEF SoundShell, Sound, Paced, Behind, Running
<1> HIDE DEF sh
<1>7. Follows(shell[s], sh)
  BY <1>1, <1>3, <1>4, <1>5, SameTicker DEF Running
<1> QED
  BY <1>2, <1>3, <1>4, <1>5, <1>6, <1>7, ReportStep

(* A shell that stops is one, and leaves nothing to be on time for.             *)
LEMMA StopFacts ==
  ASSUME NEW V, NEW sh \in ShellRecs, SoundShell(sh, V)
  PROVE  /\ Stop(sh) \in ShellRecs /\ SoundShell(Stop(sh), V) /\ Stop(sh).pc = "gone"
         /\ Paced(Stop(sh)) /\ \A age : Aged(Stop(sh), age)
         /\ \A old : Follows(old, Stop(sh))
<1>1. Stop(sh) \in ShellRecs
  <2>1. 0 \in 0..(Beat - 1) /\ 0 \in 0..(MaxMisses + 1)
    BY SessionBounds
  <2> QED
    BY <2>1 DEF Stop, ShellRecs
<1>2. /\ Stop(sh).pc = "gone" /\ Stop(sh).host = sh.host /\ Stop(sh).first = sh.first
      /\ Stop(sh).wid = sh.wid /\ Stop(sh).src = sh.src /\ Stop(sh).due = FALSE
  BY DEF Stop, ShellRecs
<1>3. ~Running(Stop(sh))
  BY <1>2 DEF Running
<1>4. SoundShell(Stop(sh), V)
  BY <1>2 DEF SoundShell, Sound
<1> QED
  BY <1>1, <1>2, <1>3, <1>4 DEF Paced, Aged, Follows

(* The end is reported with the status of the start.                            *)
LEMMA QuitStep ==
  ASSUME SessionInv, NEW s \in Shells, Quit(s)
  PROVE  SessionInv'
<1>1. /\ shell[s] \in ShellRecs /\ SoundShell(shell[s], vouched)
  BY ShellTypes DEF SessionInv, SourcesAreSound
<1>2. shell[s].first \in Statuses /\ Sound(shell[s].first, vouched)
  BY <1>1 DEF ShellRecs, SoundShell
<1>3. Report(s, Stop(shell[s]), shell[s].first, FALSE) /\ UNCHANGED vouched
  BY DEF Quit
<1>4. /\ Stop(shell[s]) \in ShellRecs /\ SoundShell(Stop(shell[s]), vouched)
      /\ Stop(shell[s]).pc = "gone" /\ Paced(Stop(shell[s]))
      /\ Follows(shell[s], Stop(shell[s]))
  BY <1>1, StopFacts
<1> QED
  BY <1>2, <1>3, <1>4, ReportStep

(* Only the shell of session s changes: the rows may not become too old for it. *)
LEMMA ShellOnlyStep ==
  ASSUME SessionInv, NEW s \in Shells, NEW new \in ShellRecs,
         SoundShell(new, vouched), AgesFit(s, new, row[s], late),
         shell' = [shell EXCEPT ![s] = new], UNCHANGED <<row, late, vouched>>
  PROVE  SessionInv'
<1>1. TypeOK /\ SourcesAreSound /\ AgesAreBounded /\ shell \in [Shells -> ShellRecs]
  BY ShellTypes DEF SessionInv
<1>2. shell' \in [Shells -> ShellRecs] /\ \A t \in Shells : shell'[t] = IF t = s THEN new ELSE shell[t]
  BY <1>1
<1>3. SourcesAreSound'
  BY <1>1, <1>2 DEF SourcesAreSound
<1>4. AgesAreBounded'
  BY <1>1, <1>2 DEF AgesAreBounded
<1>5. TypeOK'
  BY <1>1, <1>2 DEF TypeOK, ShellRecs
<1> QED
  BY <1>3, <1>4, <1>5 DEF SessionInv

(* An id detected in the output is heuristic.                                   *)
LEMMA DetectStep ==
  ASSUME SessionInv, NEW s \in Shells, NEW w \in WorkerIds, DetectWorkerSessionID(s, w)
  PROVE  SessionInv'
<1> DEFINE host == [shell[s].host EXCEPT !.wid = w, !.src = "heuristic"]
           new == [shell[s] EXCEPT !.host = host]
<1>1. /\ shell[s] \in ShellRecs /\ SoundShell(shell[s], vouched) /\ AgesFit(s, shell[s], row[s], late)
      /\ shell \in [Shells -> ShellRecs]
  BY ShellTypes DEF SessionInv, SourcesAreSound, AgesAreBounded
<1>2. host \in Statuses /\ Sound(host, vouched)
  BY <1>1 DEF ShellRecs, Statuses, Ids, IdSources, Sound
<1>3. shell' = [shell EXCEPT ![s] = new] /\ UNCHANGED <<row, late, vouched>>
  BY <1>1 DEF DetectWorkerSessionID
<1> HIDE DEF host
<1>4. new \in ShellRecs
  BY <1>1, <1>2 DEF ShellRecs
<1>5. /\ new.pc = shell[s].pc /\ new.host = host /\ new.first = shell[s].first
      /\ new.wid = shell[s].wid /\ new.src = shell[s].src /\ new.misses = shell[s].misses
      /\ new.due = shell[s].due /\ new.phase = shell[s].phase /\ new.slow = shell[s].slow
  BY <1>1 DEF ShellRecs
<1>6. SoundShell(new, vouched)
  BY <1>1, <1>2, <1>5 DEF SoundShell, Sound
<1>7. AgesFit(s, new, row[s], late)
  <2>1. \A age : Aged(new, age) <=> Aged(shell[s], age)
    BY <1>5 DEF Aged, Allowance, Intervals, Running
  <2>2. Paced(new) <=> Paced(shell[s])
    BY <1>5 DEF Paced, Behind, Running
  <2> QED
    BY <2>1, <2>2, <1>1, <1>5 DEF AgesFit
<1> HIDE DEF new
<1> QED
  BY <1>3, <1>4, <1>6, <1>7, ShellOnlyStep

(* A shell that crashes says nothing.                                           *)
LEMMA ShellCrashStep ==
  ASSUME SessionInv, NEW s \in Shells, ShellCrash(s)
  PROVE  SessionInv'
<1>1. /\ shell[s] \in ShellRecs /\ SoundShell(shell[s], vouched)
      /\ shell \in [Shells -> ShellRecs]
  BY ShellTypes DEF SessionInv, SourcesAreSound
<1>2. shell' = [shell EXCEPT ![s] = Stop(shell[s])] /\ UNCHANGED <<row, late, vouched>>
  BY <1>1 DEF ShellCrash
<1>3. Stop(shell[s]) \in ShellRecs /\ SoundShell(Stop(shell[s]), vouched)
  BY <1>1, StopFacts
<1>4. AgesFit(s, Stop(shell[s]), row[s], late)
  BY <1>1, StopFacts DEF AgesFit
<1> QED
  BY <1>2, <1>3, <1>4, ShellOnlyStep

(* A call served late marks its row as taken back unless the report it brings   *)
(* is no older than the one the row holds, or there was none.                   *)
LEMMA ServeLateStep ==
  ASSUME SessionInv, NEW call \in late, ServeLate(call)
  PROVE  SessionInv'
<1> DEFINE s == call.of
           back == row[s] # NoRow /\ (row[s].back \/ call.rec.age > row[s].is.age)
<1>1. /\ TypeOK /\ SourcesAreSound /\ AgesAreBounded
      /\ shell \in [Shells -> ShellRecs] /\ row \in [Sessions -> Rows]
  BY ShellTypes DEF SessionInv, TypeOK
<1>2. s \in Sessions /\ s \in Shells /\ call.rec \in Records /\ Sound(call.rec, vouched)
  BY <1>1 DEF TypeOK, SourcesAreSound, Sessions
<1>3. row' = Saved(s, call.rec, back) /\ late' \subseteq late /\ UNCHANGED <<shell, vouched>>
  BY DEF ServeLate
<1>4. back \in BOOLEAN
  BY <1>1, <1>2, RowCases
<1>5. AgesFit(s, shell[s], row[s], late)
  BY <1>1, <1>2 DEF AgesAreBounded
<1>6. shell[s].pc # "unopened" /\ Paced(shell[s])
  BY <1>5 DEF AgesFit
<1>7. ~back => Aged(shell[s], call.rec.age)
  <2>1. CASE row[s] = NoRow
    BY <2>1, <1>5 DEF AgesFit
  <2>2. CASE row[s] # NoRow
    <3>1. SUFFICES ASSUME ~back PROVE Aged(shell[s], call.rec.age)
      OBVIOUS
    <3>2. Aged(shell[s], row[s].is.age)
      BY <2>2, <3>1, <1>5 DEF AgesFit
    <3>3. row[s].is.age \in Nat /\ call.rec.age \in Nat
      BY <2>2, <1>1, <1>2, RowCases, AgeTypes
    <3>4. call.rec.age <= row[s].is.age
      BY <2>2, <3>1, <3>3
    <3> QED
      BY <3>2, <3>3, <3>4, <1>1, <1>2, AgedDown
  <2> QED
    BY <2>1, <2>2
<1> HIDE DEF back
<1>8. /\ row' \in [Sessions -> Rows]
      /\ \A t \in Sessions :
           row'[t] # NoRow => (row'[t].is.wid = NoId <=> row'[t].is.src = "none")
      /\ \A t \in Sessions : row'[t] # NoRow => Sound(row'[t].is, vouched)
      /\ \A t \in Sessions : t # s => row'[t] = row[t]
      /\ row'[s] # NoRow /\ row'[s].back = back /\ row'[s].is.age = call.rec.age
  BY <1>2, <1>3, <1>4, StoreStep
<1>9. TypeOK'
  BY <1>1, <1>3, <1>8 DEF TypeOK
<1>10. SourcesAreSound'
  BY <1>1, <1>3, <1>8 DEF SourcesAreSound
<1>11. AgesAreBounded'
  <2>1. SUFFICES ASSUME NEW t \in Shells PROVE AgesFit(t, shell[t], row'[t], late')
    BY <1>3 DEF AgesAreBounded
  <2>2. CASE t = s
    BY <2>2, <1>6, <1>7, <1>8 DEF AgesFit
  <2>3. CASE t # s
    BY <2>1, <2>3, <1>1, <1>3, <1>8 DEF AgesAreBounded, AgesFit, Sessions
  <2> QED
    BY <2>2, <2>3
<1> QED
  BY <1>9, <1>10, <1>11 DEF SessionInv

(* Another client's report vouches for the worker session it names.             *)
LEMMA OtherReportsStep ==
  ASSUME SessionInv, NEW s \in Others, NEW w \in WorkerIds, NEW active \in BOOLEAN,
         OtherReports(s, w, active)
  PROVE  SessionInv'
<1> DEFINE rec == [active |-> active, state |-> "live", wid |-> w, src |-> "authoritative",
                   attach |-> TRUE, age |-> 0]
<1>1. TypeOK /\ SourcesAreSound /\ AgesAreBounded
  BY DEF SessionInv
<1>2. 0 \in Ages
  BY SessionBounds DEF Ages, Oldest
<1>3. rec \in Records
  BY <1>2 DEF Records, HostStates, Ids, IdSources
<1>4. row' = Saved(s, rec, FALSE) /\ vouched' = vouched \cup {w} /\ UNCHANGED <<shell, late>>
  BY DEF OtherReports
<1>5. Sound(rec, vouched') /\ vouched \subseteq vouched' /\ s \in Sessions /\ s \notin Shells
  BY <1>4, SessionBounds DEF Sound, Sessions
<1> HIDE DEF rec
<1>6. /\ row' \in [Sessions -> Rows]
      /\ \A t \in Sessions :
           row'[t] # NoRow => (row'[t].is.wid = NoId <=> row'[t].is.src = "none")
      /\ \A t \in Sessions : row'[t] # NoRow => Sound(row'[t].is, vouched')
      /\ \A t \in Sessions : t # s => row'[t] = row[t]
  <2> DEFINE V == vouched'
  <2>1. Sound(rec, V) /\ vouched \subseteq V
    BY <1>5
  <2> HIDE DEF V
  <2>2. /\ row' \in [Sessions -> Rows]
        /\ \A t \in Sessions :
             row'[t] # NoRow => (row'[t].is.wid = NoId <=> row'[t].is.src = "none")
        /\ \A t \in Sessions : row'[t] # NoRow => Sound(row'[t].is, V)
        /\ \A t \in Sessions : t # s => row'[t] = row[t]
    BY <2>1, <1>3, <1>4, <1>5, StoreStep
  <2> QED
    BY <2>2 DEF V
<1>7. TypeOK'
  BY <1>1, <1>4, <1>6 DEF TypeOK
<1>8. SourcesAreSound'
  BY <1>1, <1>4, <1>5, <1>6 DEF SourcesAreSound, SoundShell, Sound
<1>9. AgesAreBounded'
  BY <1>1, <1>4, <1>5, <1>6 DEF AgesAreBounded, Sessions
<1> QED
  BY <1>7, <1>8, <1>9 DEF SessionInv

(* A record that grows older by a unit of time.                                 *)
LEMMA OlderFacts ==
  ASSUME NEW rec \in Records, NEW old, old = [rec EXCEPT !.age = Older(rec.age)]
  PROVE  /\ old \in Records /\ old.wid = rec.wid /\ old.src = rec.src
         /\ rec.age \in Nat /\ old.age \in Nat /\ old.age <= rec.age + 1
<1>1. rec.age \in Ages
  BY DEF Records
<1>2. Older(rec.age) \in Ages /\ Older(rec.age) <= rec.age + 1 /\ Ages \subseteq Nat
  BY <1>1, SessionBounds DEF Older, Ages, Oldest
<1>3. old \in Records
  BY <1>2 DEF Records
<1>4. old.wid = rec.wid /\ old.src = rec.src /\ old.age = Older(rec.age)
  BY DEF Records
<1> QED
  BY <1>1, <1>2, <1>3, <1>4

(* What a unit of time does to a shell that runs: a tick that fires stands for  *)
(* the interval that ends.                                                      *)
LEMMA PassFacts ==
  ASSUME NEW V, NEW sh \in ShellRecs, Running(sh), SoundShell(sh, V), Paced(sh)
  PROVE  /\ Pass(sh) \in ShellRecs /\ SoundShell(Pass(sh), V) /\ Paced(Pass(sh))
         /\ Pass(sh).pc = sh.pc
         /\ \A a \in Nat, b \in Nat : b <= a + 1 /\ Aged(sh, a) => Aged(Pass(sh), b)
<1> DEFINE new   == Pass(sh)
           fires == sh.phase = Beat - 1
<1>1. /\ sh.phase \in Nat /\ sh.phase < Beat /\ Beat \in Nat /\ sh.due \in BOOLEAN
      /\ sh.slow \in BOOLEAN /\ sh.misses \in Nat /\ MaxMisses \in Nat
  BY AllowanceFacts
<1>2. /\ new.pc = sh.pc /\ new.host = sh.host /\ new.first = sh.first /\ new.wid = sh.wid
      /\ new.src = sh.src /\ new.misses = sh.misses
      /\ new.phase = (IF fires THEN 0 ELSE sh.phase + 1)
      /\ new.due = (sh.due \/ (fires /\ sh.pc = "up"))
  BY DEF Pass, ShellRecs
<1>3. new.slow = (sh.slow \/ Behind(new) \/ (fires /\ (sh.due \/ sh.pc = "boot")))
  BY <1>2 DEF Pass, ShellRecs, Behind
<1>4. new \in ShellRecs
  <2>1. (IF fires THEN 0 ELSE sh.phase + 1) \in 0..(Beat - 1)
    BY <1>1
  <2>2. Behind(new) \in BOOLEAN
    BY DEF Behind
  <2> QED
    BY <2>1, <1>1 DEF Pass, ShellRecs, Behind
<1> HIDE DEF new
<1>5. SoundShell(new, V)
  BY <1>2 DEF SoundShell, Sound
<1>6. Paced(new)
  BY <1>2, <1>3 DEF Paced, Running
<1>7. ASSUME NEW a \in Nat, NEW b \in Nat, b <= a + 1, Aged(sh, a),
             Running(new), new.misses <= MaxMisses, ~new.slow
      PROVE  b <= Allowance(new)
  <2>1. a <= Allowance(sh)
    BY <1>2, <1>3, <1>7 DEF Aged
  <2>2. /\ Allowance(sh) = Intervals(sh) * Beat + sh.phase
        /\ Allowance(new) = Intervals(new) * Beat + new.phase
        /\ Intervals(sh) \in Nat /\ Intervals(sh) * Beat \in Nat
    BY AllowanceFacts DEF Allowance
  <2>3. CASE fires
    <3>1. ~sh.due /\ new.due /\ new.phase = 0
      BY <2>3, <1>2, <1>3, <1>7 DEF Running
    <3>2. Intervals(new) = Intervals(sh) + 1
      BY <3>1, <1>1, <1>2 DEF Intervals
    <3>3. Intervals(new) * Beat = Intervals(sh) * Beat + Beat
      BY <3>2, <2>2, BeatFacts
    <3> QED
      BY <3>1, <3>3, <2>1, <2>2, <2>3, <1>1, <1>7
  <2>4. CASE ~fires
    <3>1. Intervals(new) = Intervals(sh) /\ new.phase = sh.phase + 1
      BY <2>4, <1>2 DEF Intervals
    <3> QED
      BY <3>1, <2>1, <2>2, <1>1, <1>7
  <2> QED
    BY <2>3, <2>4
<1> QED
  BY <1>2, <1>4, <1>5, <1>6, <1>7 DEF new, Aged

(* A unit of time passes for rows, calls and shells alike.                      *)
LEMMA TickStep ==
  ASSUME SessionInv, Tick
  PROVE  SessionInv'
<1>1. /\ TypeOK /\ SourcesAreSound /\ AgesAreBounded
      /\ shell \in [Shells -> ShellRecs] /\ row \in [Sessions -> Rows]
      /\ vouched' = vouched
  BY ShellTypes DEF SessionInv, TypeOK, Tick
<1>2. ASSUME NEW s \in Shells
      PROVE  /\ shell'[s] \in ShellRecs /\ SoundShell(shell'[s], vouched) /\ Paced(shell'[s])
             /\ shell'[s].pc = shell[s].pc
             /\ \A a \in Nat, b \in Nat : b <= a + 1 /\ Aged(shell[s], a) => Aged(shell'[s], b)
  <2>1. /\ shell[s] \in ShellRecs /\ SoundShell(shell[s], vouched) /\ Paced(shell[s])
        /\ shell'[s] = IF Running(shell[s]) THEN Pass(shell[s]) ELSE shell[s]
    BY <1>1 DEF Tick, SourcesAreSound, AgesAreBounded, AgesFit
  <2>2. CASE Running(shell[s])
    BY <2>1, <2>2, PassFacts
  <2>3. CASE ~Running(shell[s])
    BY <2>1, <2>3 DEF Aged
  <2> QED
    BY <2>2, <2>3
<1>3. shell' \in [Shells -> ShellRecs]
  BY <1>1, <1>2 DEF Tick
<1>4. ASSUME NEW s \in Sessions
      PROVE  /\ row'[s] \in Rows
             /\ row[s] = NoRow => row'[s] = NoRow
             /\ row[s] # NoRow =>
                  /\ row'[s] # NoRow /\ row'[s].back = row[s].back
                  /\ row'[s].is.wid = row[s].is.wid /\ row'[s].is.src = row[s].is.src
                  /\ row[s].is.age \in Nat /\ row'[s].is.age \in Nat
                  /\ row'[s].is.age <= row[s].is.age + 1
  <2>1. row'[s] = IF row[s] = NoRow THEN NoRow ELSE [row[s] EXCEPT !.is.age = Older(@)]
    BY DEF Tick
  <2>2. CASE row[s] = NoRow
    BY <2>1, <2>2 DEF Rows
  <2>3. CASE row[s] # NoRow
    <3> DEFINE rec == row[s].is
               old == [rec EXCEPT !.age = Older(rec.age)]
    <3>1. row[s] \in [known : {TRUE}, back : BOOLEAN, is : Records] /\ rec \in Records
      BY <2>3, <1>1, RowCases
    <3>2. row'[s] = [row[s] EXCEPT !.is = old]
      BY <2>1, <2>3, <3>1 DEF Records
    <3>3. /\ old \in Records /\ old.wid = rec.wid /\ old.src = rec.src
          /\ rec.age \in Nat /\ old.age \in Nat /\ old.age <= rec.age + 1
      BY <3>1, OlderFacts
    <3> HIDE DEF old
    <3>4. /\ row'[s] \in [known : {TRUE}, back : BOOLEAN, is : Records]
          /\ row'[s].is = old /\ row'[s].back = row[s].back
      BY <3>1, <3>2, <3>3
    <3>5. row'[s] # NoRow
      <4>1. row'[s].known # NoRow.known
        BY <3>4 DEF NoRow
      <4> QED
        BY <4>1
    <3> QED
      BY <2>3, <3>3, <3>4, <3>5 DEF Rows
  <2> QED
    BY <2>2, <2>3
<1>5. row' \in [Sessions -> Rows]
  BY <1>4 DEF Tick
<1>6. /\ late' \subseteq [of : Shells, rec : Records]
      /\ \A c \in late' : Sound(c.rec, vouched)
  <2>1. SUFFICES ASSUME NEW c \in late
                 PROVE  /\ [c EXCEPT !.rec.age = Older(@)] \in [of : Shells, rec : Records]
                        /\ Sound([c EXCEPT !.rec.age = Older(@)].rec, vouched)
    BY DEF Tick
  <2> DEFINE rec == c.rec
             old == [rec EXCEPT !.age = Older(rec.age)]
  <2>2. c \in [of : Shells, rec : Records] /\ rec \in Records /\ Sound(rec, vouched)
    BY <1>1 DEF TypeOK, SourcesAreSound
  <2>3. [c EXCEPT !.rec.age = Older(@)] = [c EXCEPT !.rec = old]
    BY <2>2 DEF Records
  <2>4. old \in Records /\ old.wid = rec.wid /\ old.src = rec.src
    BY <2>2, OlderFacts
  <2> HIDE DEF old
  <2>5. [c EXCEPT !.rec = old] \in [of : Shells, rec : Records] /\ [c EXCEPT !.rec = old].rec = old
    BY <2>2, <2>4
  <2> QED
    BY <2>2, <2>3, <2>4, <2>5 DEF Sound
<1>7. TypeOK'
  <2>1. \A s \in Sessions :
          row'[s] # NoRow => (row'[s].is.wid = NoId <=> row'[s].is.src = "none")
    BY <1>1, <1>4 DEF TypeOK
  <2> QED
    BY <2>1, <1>1, <1>3, <1>5, <1>6 DEF TypeOK, ShellRecs
<1>8. SourcesAreSound'
  <2>1. \A s \in Sessions : row'[s] # NoRow => Sound(row'[s].is, vouched)
    BY <1>1, <1>4 DEF SourcesAreSound, Sound
  <2> QED
    BY <2>1, <1>1, <1>2, <1>6 DEF SourcesAreSound
<1>9. ASSUME NEW c \in late'
      PROVE  \E d \in late : /\ c.of = d.of /\ d.rec.age \in Nat /\ c.rec.age \in Nat
                              /\ c.rec.age <= d.rec.age + 1
  <2>1. PICK d \in late : c = [d EXCEPT !.rec.age = Older(@)]
    BY DEF Tick
  <2> DEFINE rec == d.rec
             old == [rec EXCEPT !.age = Older(rec.age)]
  <2>2. d \in [of : Shells, rec : Records] /\ rec \in Records
    BY <1>1 DEF TypeOK
  <2>3. c = [d EXCEPT !.rec = old]
    BY <2>1, <2>2 DEF Records
  <2>4. rec.age \in Nat /\ old.age \in Nat /\ old.age <= rec.age + 1
    BY <2>2, OlderFacts
  <2> HIDE DEF old
  <2>5. c.of = d.of /\ c.rec = old
    BY <2>2, <2>3
  <2> QED
    BY <2>4, <2>5
<1>10. AgesAreBounded'
  <2>1. SUFFICES ASSUME NEW s \in Shells PROVE AgesFit(s, shell'[s], row'[s], late')
    BY DEF AgesAreBounded
  <2>2. AgesFit(s, shell[s], row[s], late) /\ s \in Sessions
    BY <1>1 DEF AgesAreBounded, Sessions
  <2>3. shell'[s].pc = "unopened" => row'[s] = NoRow /\ \A c \in late' : c.of # s
    BY <2>2, <1>2, <1>4, <1>9 DEF AgesFit
  <2>4. row'[s] # NoRow /\ ~row'[s].back => Aged(shell'[s], row'[s].is.age)
    BY <2>2, <1>2, <1>4 DEF AgesFit
  <2>5. ASSUME row'[s] = NoRow, NEW c \in late', c.of = s PROVE Aged(shell'[s], c.rec.age)
    <3>1. row[s] = NoRow
      BY <2>2, <2>5, <1>4
    <3>2. PICK d \in late : /\ c.of = d.of /\ d.rec.age \in Nat /\ c.rec.age \in Nat
                            /\ c.rec.age <= d.rec.age + 1
      BY <2>5, <1>9
    <3>3. Aged(shell[s], d.rec.age)
      BY <3>1, <3>2, <2>2, <2>5 DEF AgesFit
    <3> QED
      BY <3>2, <3>3, <1>2
  <2> QED
    BY <2>3, <2>4, <2>5, <1>2 DEF AgesFit
<1> QED
  BY <1>7, <1>8, <1>10 DEF SessionInv

-----------------------------------------------------------------------------
(* SessionInv holds at the start and every step keeps it.                       *)
THEOREM SessionInvariance == Spec => []SessionInv
<1>1. Init => SessionInv
  <2>1. SUFFICES ASSUME Init PROVE SessionInv
    OBVIOUS
  <2>2. \A s \in Shells : shell[s] = NotOpened
    BY <2>1 DEF Init
  <2>3. \A s \in Sessions : row[s] = NoRow
    BY <2>1 DEF Init
  <2>4. TypeOK
    BY <2>1, <2>3, StartTypes DEF Init, TypeOK, Rows, ShellRecs
  <2>5. NotOpened.src = "none" /\ NotOpened.host.src = "none" /\ NotOpened.first.src = "none"
        /\ NotOpened.wid = NoId
    BY DEF NotOpened, Off
  <2>6. SoundShell(NotOpened, vouched)
    BY <2>5 DEF SoundShell, Sound
  <2>7. SourcesAreSound
    BY <2>1, <2>2, <2>3, <2>6 DEF SourcesAreSound, Init
  <2>8. AgesAreBounded
    <3>1. Paced(NotOpened) /\ ~Running(NotOpened)
      BY DEF NotOpened, Paced, Running
    <3> QED
      BY <2>1, <2>2, <2>3, <3>1 DEF AgesAreBounded, AgesFit, Aged, Sessions, Init
  <2> QED
    BY <2>4, <2>7, <2>8 DEF SessionInv
<1>2. SessionInv /\ [Next]_vars => SessionInv'
  <2>1. SUFFICES ASSUME SessionInv, [Next]_vars PROVE SessionInv'
    OBVIOUS
  <2>2. ASSUME NEW s \in Shells, NEW target \in Sessions \cup {NoTarget}, OpenShell(s, target)
        PROVE  SessionInv'
    BY <2>1, <2>2, OpenShellStep
  <2>3. ASSUME NEW s \in Shells, StartHost(s) PROVE SessionInv'
    BY <2>1, <2>3, StartHostStep
  <2>4. ASSUME NEW s \in Shells, Heartbeat(s) PROVE SessionInv'
    BY <2>1, <2>4, HeartbeatStep
  <2>14. ASSUME NEW s \in Shells, ReportStatus(s) PROVE SessionInv'
    BY <2>1, <2>14, ReportStatusStep
  <2>5. ASSUME NEW s \in Shells, FallBack(s) PROVE SessionInv'
    BY <2>1, <2>5, FallBackStep
  <2>6. ASSUME NEW s \in Shells, Quit(s) PROVE SessionInv'
    BY <2>1, <2>6, QuitStep
  <2>7. ASSUME NEW s \in Shells, ShellCrash(s) PROVE SessionInv'
    BY <2>1, <2>7, ShellCrashStep
  <2>8. ASSUME NEW s \in Shells, NEW w \in WorkerIds, DetectWorkerSessionID(s, w)
        PROVE  SessionInv'
    BY <2>1, <2>8, DetectStep
  <2>9. ASSUME NEW call \in late, ServeLate(call) PROVE SessionInv'
    BY <2>1, <2>9, ServeLateStep
  <2>10. ASSUME NEW s \in Others, NEW w \in WorkerIds, NEW active \in BOOLEAN,
                OtherReports(s, w, active)
         PROVE  SessionInv'
    BY <2>1, <2>10, OtherReportsStep
  <2>11. CASE DaemonCrash
    BY <2>1, <2>11 DEF DaemonCrash, SessionInv, TypeOK, SourcesAreSound, AgesAreBounded, AgesFit
  <2>12. CASE Tick
    BY <2>1, <2>12, TickStep
  <2>13. CASE UNCHANGED vars
    BY <2>1, <2>13 DEF vars, SessionInv, TypeOK, SourcesAreSound, AgesAreBounded,
                       Class, Sound, SoundShell
  <2> QED
    BY <2>1, <2>2, <2>3, <2>4, <2>5, <2>6, <2>7, <2>8, <2>9, <2>10, <2>11, <2>12, <2>13,
       <2>14 DEF Next
<1> QED
  BY <1>1, <1>2, PTL DEF Spec

(* Types: every variable keeps its type, whatever shells, calls and clients do. *)
THEOREM TypesKept == Spec => []TypeOK
<1>1. SessionInv => TypeOK
  BY DEF SessionInv
<1> QED
  BY <1>1, SessionInvariance, PTL

(* A session is offered for reattachment only with a worker session that some   *)
(* client vouched for, however shells reattach and reports are delayed.         *)
THEOREM ReattachmentIsVouched == Spec => []AttachableIsVouched
<1>1. SessionInv => AttachableIsVouched
  BY AttachableFacts DEF AttachableIsVouched
<1> QED
  BY <1>1, SessionInvariance, PTL

(* A shell that runs does not read as stale as long as no more than MaxMisses   *)
(* reports in a row failed, its loop was not slow since the last one that was   *)
(* saved and no call served late took the row back. Units may be as small as    *)
(* one likes: nothing is assumed of when ticks, reports and calls fall.         *)
THEOREM RunningReadsAsRunning == Spec => []RunningIsNotStale
<1>1. SessionInv => RunningIsNotStale
  <2>1. SUFFICES ASSUME SessionInv, NEW s \in Shells,
                        Running(shell[s]), shell[s].misses <= MaxMisses, ~shell[s].slow,
                        row[s] # NoRow, ~row[s].back
                 PROVE  Class(s) # "stale"
    BY DEF RunningIsNotStale
  <2> DEFINE sh == shell[s]
             n  == Intervals(sh)
  <2>2. TypeOK /\ sh \in ShellRecs /\ s \in Sessions /\ AgesFit(s, sh, row[s], late)
    BY <2>1, ShellTypes DEF SessionInv, Sessions, AgesAreBounded
  <2>3. row[s].is.age \in Nat
    BY <2>1, <2>2, RowCases, AgeTypes
  <2>4. row[s].is.age <= Allowance(sh)
    BY <2>1, <2>2 DEF AgesFit, Aged
  <2>5. ~Behind(sh)
    BY <2>1, <2>2 DEF AgesFit, Paced
  <2> HIDE DEF sh
  <2>6. /\ sh.misses \in Nat /\ sh.misses <= MaxMisses /\ MaxMisses \in Nat /\ Beat \in Nat
        /\ sh.phase \in Nat /\ sh.phase < Beat /\ n \in Nat /\ n * Beat \in Nat
        /\ Allowance(sh) = n * Beat + sh.phase
        /\ Delay \in Nat /\ StaleAfter \in Nat /\ (MaxMisses + 1) * Beat + Delay <= StaleAfter
    BY <2>1, <2>2, AllowanceFacts, SessionBounds DEF sh
  <2>7. MaxMisses * Beat \in Nat /\ (MaxMisses + 1) * Beat = MaxMisses * Beat + Beat
    BY <2>6, BeatFacts
  <2>8. Allowance(sh) <= (MaxMisses + 1) * Beat + Delay
    <3>1. CASE sh.due
      <4>1. sh.phase <= Delay
        BY <3>1, <2>5, <2>6 DEF Behind
      <4>2. n <= MaxMisses + 1
        BY <3>1, <2>6 DEF Intervals
      <4>3. n * Beat <= (MaxMisses + 1) * Beat
        BY <4>2, <2>6, BeatFacts
      <4> HIDE DEF n
      <4> QED
        BY <4>1, <4>3, <2>6, <2>7
    <3>2. CASE ~sh.due
      <4>1. n <= MaxMisses
        BY <3>2, <2>6 DEF Intervals
      <4>2. n * Beat <= MaxMisses * Beat
        BY <4>1, <2>6, BeatFacts
      <4> HIDE DEF n
      <4> QED
        BY <4>2, <2>6, <2>7
    <3> QED
      BY <3>1, <3>2
  <2>9. ~(row[s].is.age > StaleAfter)
    <3>1. Allowance(sh) <= StaleAfter
      <4> DEFINE most == (MaxMisses + 1) * Beat + Delay
      <4>1. most \in Nat /\ most <= StaleAfter /\ Allowance(sh) <= most /\ Allowance(sh) \in Nat
        BY <2>6, <2>7, <2>8
      <4> HIDE DEF most
      <4> QED
        BY <4>1, <2>6
    <3> QED
      BY <3>1, <2>3, <2>4, <2>6
  <2> QED
    BY <2>1, <2>9 DEF Class, classify
<1> QED
  BY <1>1, SessionInvariance, PTL
=============================================================================
