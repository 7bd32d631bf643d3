-------------------------- MODULE ShellHostProofs --------------------------
(* Theorems about ShellHost, for any buffer size, any number of lines and of    *)
(* lines per flush, with and without calls that fail. The lines the worker      *)
(* printed are always cut in three, those stored, those waiting and those       *)
(* unread, and what is missing before a line that was read is in `gone'.        *)
EXTENDS ShellHost, SequenceTheorems, TLAPS

Lines(s) == {s[i] : i \in 1..Len(s)}
Ascending(s) == \A i, j \in 1..Len(s) : i < j => s[i] < s[j]

(* The lines st are stored, pe wait, and go holds what is missing.              *)
Evidence(st, pe, go) ==
  /\ Ascending(st) /\ Ascending(pe)
  /\ \A x \in Lines(st), y \in Lines(pe) : x < y
  /\ \A x \in Lines(st) \cup Lines(pe) : \A n \in 1..x : n \in go \cup Lines(st) \cup Lines(pe)

(* Every line up to m was read, and none after it.                              *)
ReadUpTo(st, pe, go, m) ==
  /\ \A x \in Lines(st) \cup Lines(pe) : x <= m
  /\ \A n \in 1..m : n \in go \cup Lines(st) \cup Lines(pe)

(* While the file is open the unread lines are the last ones printed, and every *)
(* line before them was read.                                                   *)
Stream(op, wi, pr, st, pe, go) ==
  op => /\ Len(wi) <= pr
        /\ \A i \in 1..Len(wi) : wi[i] = pr - Len(wi) + i
        /\ ReadUpTo(st, pe, go, pr - Len(wi))

Attended ==
  /\ worker = "running" => /\ pty.state = "live" /\ host = "pty"
                           /\ app.pc \notin {"boot", "farewell", "done"}
  /\ notes.state \notin Ended

BeforeBoot ==
  app.pc = "boot" => /\ worker = "none" /\ ~pty.open /\ host = "pty"
                     /\ printed = 0 /\ wire = <<>> /\ pending = <<>> /\ stored = <<>>

HostInv ==
  /\ TypeOK /\ Attended /\ BeforeBoot
  /\ Evidence(stored, pending, gone)
  /\ Stream(pty.open, wire, printed, stored, pending, gone)

-----------------------------------------------------------------------------
(* Lines are numbers.                                                           *)
LEMMA LinesAreNumbers ==
  ASSUME NEW s \in Seq(Nat)
  PROVE  \A x \in Lines(s) : x \in Nat
BY DEF Lines

(* A sequence cut in two.                                                       *)
LEMMA CutInTwo ==
  ASSUME NEW s \in Seq(Nat), NEW k \in 0..Len(s)
  PROVE  LET a == SubSeq(s, 1, k)
             b == SubSeq(s, k + 1, Len(s))
         IN  /\ a \in Seq(Nat) /\ b \in Seq(Nat)
             /\ Lines(s) = Lines(a) \cup Lines(b)
             /\ Ascending(s) => /\ Ascending(a) /\ Ascending(b)
                                /\ \A x \in Lines(a), y \in Lines(b) : x < y
<1> DEFINE a == SubSeq(s, 1, k)
           b == SubSeq(s, k + 1, Len(s))
<1>1. /\ a \in Seq(Nat) /\ Len(a) = k /\ \A i \in 1..k : a[i] = s[i]
      /\ b \in Seq(Nat) /\ Len(b) = Len(s) - k /\ \A i \in 1..(Len(s) - k) : b[i] = s[k + i]
  <2>1. a \in Seq(Nat) /\ Len(a) = k /\ \A i \in 1..k : a[i] = s[i]
    BY SubSeqProperties
  <2>2. /\ b \in Seq(Nat) /\ Len(b) = Len(s) - (k + 1) + 1
        /\ \A i \in 1..(Len(s) - (k + 1) + 1) : b[i] = s[(k + 1) + i - 1]
    BY SubSeqProperties
  <2> QED BY <2>1, <2>2
<1> HIDE DEF a, b
<1>0. Len(s) \in Nat /\ k \in Nat /\ k <= Len(s)
  OBVIOUS
<1>1a. \A i \in 1..Len(a) : i \in 1..Len(s) /\ i \in Nat /\ i <= k /\ a[i] = s[i]
  BY <1>0, <1>1
<1>1b. \A i \in 1..Len(b) : k + i \in 1..Len(s) /\ i \in Nat /\ i > 0 /\ b[i] = s[k + i]
  BY <1>0, <1>1
<1>2. Lines(s) = Lines(a) \cup Lines(b)
  <2>1. ASSUME NEW i \in 1..Len(s) PROVE s[i] \in Lines(a) \cup Lines(b)
    <3>1. CASE i <= k
      BY <1>1, <3>1 DEF Lines
    <3>2. CASE i > k
      <4>1. i - k \in 1..Len(b) /\ b[i - k] = s[i]
        BY <1>1, <3>2
      <4> QED BY <4>1 DEF Lines
    <3> QED BY <3>1, <3>2
  <2>2. \A i \in 1..Len(a) : a[i] \in Lines(s)
    BY <1>1 DEF Lines
  <2>3. \A i \in 1..Len(b) : b[i] \in Lines(s)
    <3> SUFFICES ASSUME NEW i \in 1..Len(b) PROVE b[i] \in Lines(s)
      OBVIOUS
    <3>1. k + i \in 1..Len(s) /\ b[i] = s[k + i]
      BY <1>1b
    <3> QED BY <3>1 DEF Lines
  <2> QED BY <2>1, <2>2, <2>3 DEF Lines
<1>3. ASSUME Ascending(s)
      PROVE  Ascending(a) /\ Ascending(b) /\ \A x \in Lines(a), y \in Lines(b) : x < y
  <2>1. Ascending(a)
    <3> SUFFICES ASSUME NEW i \in 1..Len(a), NEW j \in 1..Len(a), i < j PROVE a[i] < a[j]
      BY DEF Ascending
    <3>1. i \in 1..Len(s) /\ j \in 1..Len(s) /\ a[i] = s[i] /\ a[j] = s[j]
      BY <1>1a
    <3> QED BY <3>1, <1>3 DEF Ascending
  <2>2. Ascending(b)
    <3> SUFFICES ASSUME NEW i \in 1..Len(b), NEW j \in 1..Len(b), i < j PROVE b[i] < b[j]
      BY DEF Ascending
    <3>1. k + i \in 1..Len(s) /\ k + j \in 1..Len(s) /\ b[i] = s[k + i] /\ b[j] = s[k + j]
      BY <1>1b
    <3>2. i \in Nat /\ j \in Nat
      BY <1>1b
    <3>3. k + i < k + j
      BY <1>0, <3>2
    <3> QED BY <3>1, <3>3, <1>3 DEF Ascending
  <2>3. ASSUME NEW i \in 1..Len(a), NEW j \in 1..Len(b) PROVE a[i] < b[j]
    <3>1. i \in 1..Len(s) /\ a[i] = s[i] /\ i \in Nat /\ i <= k
      BY <1>1a
    <3>2. k + j \in 1..Len(s) /\ b[j] = s[k + j] /\ j \in Nat /\ j > 0
      BY <1>1b
    <3>3. i < k + j
      BY <1>0, <3>1, <3>2
    <3> QED BY <3>1, <3>2, <3>3, <1>3 DEF Ascending
  <2> QED BY <2>1, <2>2, <2>3 DEF Lines
<1> QED BY <1>1, <1>2, <1>3 DEF a, b

(* Two sequences one after the other, and one more line at the end.             *)
LEMMA Joined ==
  ASSUME NEW s \in Seq(Nat), NEW t \in Seq(Nat)
  PROVE  /\ s \o t \in Seq(Nat) /\ Lines(s \o t) = Lines(s) \cup Lines(t)
         /\ Ascending(s) /\ Ascending(t) /\ (\A x \in Lines(s), y \in Lines(t) : x < y)
              => Ascending(s \o t)
<1> DEFINE u == s \o t
<1>1. /\ u \in Seq(Nat) /\ Len(u) = Len(s) + Len(t)
      /\ \A i \in 1..Len(s) : u[i] = s[i]
      /\ \A i \in 1..Len(t) : u[Len(s) + i] = t[i]
  OBVIOUS
<1>0. \A i \in 1..Len(u) : i > Len(s) => i - Len(s) \in 1..Len(t) /\ u[i] = t[i - Len(s)]
  OBVIOUS
<1>0a. \A i \in 1..Len(u) : i <= Len(s) => i \in 1..Len(s) /\ u[i] = s[i]
  OBVIOUS
<1> HIDE DEF u
<1>2. Lines(u) = Lines(s) \cup Lines(t)
  <2>1. ASSUME NEW i \in 1..Len(u) PROVE u[i] \in Lines(s) \cup Lines(t)
    <3>1. CASE i <= Len(s)
      <4>1. i \in 1..Len(s) /\ u[i] = s[i]
        BY <1>0a, <3>1
      <4> QED BY <4>1 DEF Lines
    <3>2. CASE i > Len(s)
      BY <1>0, <3>2 DEF Lines
    <3> QED BY <3>1, <3>2
  <2>2. \A i \in 1..Len(s) : s[i] \in Lines(u)
    BY <1>1 DEF Lines
  <2>3. \A i \in 1..Len(t) : t[i] \in Lines(u)
    <3> SUFFICES ASSUME NEW i \in 1..Len(t) PROVE t[i] \in Lines(u)
      OBVIOUS
    <3>1. Len(s) + i \in 1..Len(u) /\ u[Len(s) + i] = t[i]
      BY <1>1
    <3> QED BY <3>1 DEF Lines
  <2> QED BY <2>1, <2>2, <2>3 DEF Lines
<1>3. ASSUME Ascending(s), Ascending(t), \A x \in Lines(s), y \in Lines(t) : x < y
      PROVE  Ascending(u)
  <2> SUFFICES ASSUME NEW i \in 1..Len(u), NEW j \in 1..Len(u), i < j PROVE u[i] < u[j]
    BY DEF Ascending
  <2>0. Len(s) \in Nat /\ i \in Nat /\ j \in Nat /\ 1 <= i /\ j <= Len(u)
    BY <1>1
  <2>1. CASE j <= Len(s)
    <3>0. i <= Len(s)
      BY <2>0, <2>1
    <3>1. i \in 1..Len(s) /\ j \in 1..Len(s) /\ u[i] = s[i] /\ u[j] = s[j]
      BY <1>0a, <2>1, <3>0
    <3> QED BY <1>3, <3>1 DEF Ascending
  <2>2. CASE i <= Len(s) /\ j > Len(s)
    <3>1. i \in 1..Len(s) /\ u[i] = s[i] /\ j - Len(s) \in 1..Len(t) /\ u[j] = t[j - Len(s)]
      BY <1>0, <1>0a, <2>2
    <3>2. u[i] \in Lines(s) /\ u[j] \in Lines(t)
      BY <3>1 DEF Lines
    <3> QED BY <1>3, <3>2
  <2>3. CASE i > Len(s)
    <3>1. /\ i - Len(s) \in 1..Len(t) /\ u[i] = t[i - Len(s)]
          /\ j - Len(s) \in 1..Len(t) /\ u[j] = t[j - Len(s)] /\ i - Len(s) < j - Len(s)
      BY <1>0, <2>0, <2>3
    <3> QED BY <1>3, <3>1 DEF Ascending
  <2> QED BY <2>1, <2>2, <2>3
<1> QED BY <1>1, <1>2, <1>3 DEF u

(* Lines that wait are stored, or lost with the call.                           *)
LEMMA CutKeepsEvidence ==
  ASSUME NEW st \in Seq(Nat), NEW pe \in Seq(Nat), NEW go \in SUBSET Nat, NEW k \in 0..Len(pe),
         Evidence(st, pe, go),
         NEW out \in Seq(Nat), NEW rest \in Seq(Nat),
         out = SubSeq(pe, 1, k), rest = SubSeq(pe, k + 1, Len(pe))
  PROVE  Evidence(st \o out, rest, go) /\ Evidence(st, rest, go \cup Lines(out))
<1>1. /\ out \in Seq(Nat) /\ rest \in Seq(Nat) /\ Lines(pe) = Lines(out) \cup Lines(rest)
      /\ Ascending(out) /\ Ascending(rest) /\ \A x \in Lines(out), y \in Lines(rest) : x < y
  BY CutInTwo DEF Evidence
<1>2. /\ Lines(st \o out) = Lines(st) \cup Lines(out) /\ Ascending(st \o out)
  BY <1>1, Joined DEF Evidence
<1>3. Evidence(st \o out, rest, go)
  <2>1. Lines(st \o out) \cup Lines(rest) = Lines(st) \cup Lines(pe)
    BY <1>1, <1>2
  <2>2. \A x \in Lines(st \o out), y \in Lines(rest) : x < y
    BY <1>1, <1>2 DEF Evidence
  <2>3. \A x \in Lines(st \o out) \cup Lines(rest) : \A n \in 1..x :
          n \in go \cup Lines(st \o out) \cup Lines(rest)
    BY <2>1 DEF Evidence
  <2> QED BY <1>1, <1>2, <2>2, <2>3 DEF Evidence
<1>4. Evidence(st, rest, go \cup Lines(out))
  BY <1>1 DEF Evidence
<1> QED BY <1>1, <1>2, <1>3, <1>4

(* One more line, after all the others.                                         *)
LEMMA AppendOne ==
  ASSUME NEW pe \in Seq(Nat), Ascending(pe), NEW m \in Nat, \A x \in Lines(pe) : x < m,
         NEW all, all = Append(pe, m)
  PROVE  /\ all \in Seq(Nat) /\ Len(all) = Len(pe) + 1
         /\ Lines(all) = Lines(pe) \cup {m} /\ Ascending(all)
<1>1. /\ all \in Seq(Nat) /\ Len(all) = Len(pe) + 1 /\ all[Len(all)] = m
      /\ \A i \in 1..Len(pe) : all[i] = pe[i]
  OBVIOUS
<1>2. \A i \in 1..Len(all) : i = Len(all) \/ i \in 1..Len(pe)
  BY <1>1
<1>3. Lines(all) = Lines(pe) \cup {m}
  <2>1. Lines(all) \subseteq Lines(pe) \cup {m}
    BY <1>1, <1>2 DEF Lines
  <2>2. m \in Lines(all) /\ \A i \in 1..Len(pe) : pe[i] \in Lines(all)
    BY <1>1 DEF Lines
  <2> QED BY <2>1, <2>2 DEF Lines
<1>4. Ascending(all)
  <2> SUFFICES ASSUME NEW i \in 1..Len(all), NEW j \in 1..Len(all), i < j PROVE all[i] < all[j]
    BY DEF Ascending
  <2>0. i \in 1..Len(pe) /\ all[i] = pe[i]
    BY <1>1, <1>2
  <2>1. i \in 1..Len(pe) /\ all[i] \in Lines(pe)
    BY <2>0 DEF Lines
  <2>2. CASE j = Len(all)
    BY <1>1, <2>1, <2>2
  <2>3. CASE j \in 1..Len(pe)
    BY <1>1, <2>1, <2>3 DEF Ascending
  <2> QED BY <1>2, <2>2, <2>3
<1> QED BY <1>1, <1>3, <1>4

(* A line is read: it waits behind the others, and the oldest give way. Of the  *)
(* lines that waited and the new one, C gives way and the lines ne wait.        *)
LEMMA ReadKeepsEvidence ==
  ASSUME NEW st \in Seq(Nat), NEW pe \in Seq(Nat), NEW go, NEW m \in Nat,
         Evidence(st, pe, go), m > 0, ReadUpTo(st, pe, go, m - 1),
         NEW ne \in Seq(Nat), NEW C, Ascending(ne),
         Lines(pe) \cup {m} = C \cup Lines(ne)
  PROVE  Evidence(st, ne, go \cup C) /\ ReadUpTo(st, ne, go \cup C, m)
<1>0. /\ \A x \in Lines(st) \cup Lines(pe) : x \in Nat /\ x < m
      /\ \A n \in 1..(m - 1) : n \in go \cup Lines(st) \cup Lines(pe)
  <2>1. \A x \in Lines(st) \cup Lines(pe) : x \in Nat
    BY LinesAreNumbers
  <2> QED BY <2>1 DEF ReadUpTo
<1>1. \A x \in Lines(ne) : x \in Lines(pe) \/ x = m
  OBVIOUS
<1>2. \A n \in 1..m : n \in go \cup C \cup Lines(st) \cup Lines(ne)
  <2>1. \A n \in 1..m : n = m \/ n \in 1..(m - 1)
    OBVIOUS
  <2>2. m \in C \cup Lines(ne) /\ \A n \in Lines(pe) : n \in C \cup Lines(ne)
    OBVIOUS
  <2> QED BY <1>0, <2>1, <2>2
<1>3. \A x \in Lines(st) \cup Lines(ne) : x \in Nat /\ x <= m
  BY <1>0, <1>1
<1>4. Evidence(st, ne, go \cup C)
  <2>1. \A x \in Lines(st), y \in Lines(ne) : x < y
    BY <1>0, <1>1 DEF Evidence
  <2>2. \A x \in Lines(st) \cup Lines(ne) : \A n \in 1..x : n \in 1..m
    BY <1>3
  <2>3. Ascending(st)
    BY DEF Evidence
  <2> QED BY <1>2, <2>1, <2>2, <2>3 DEF Evidence
<1> QED BY <1>2, <1>3, <1>4 DEF ReadUpTo
-----------------------------------------------------------------------------
(* A flush of the PTY host.                                                     *)
LEMMA FlushStep ==
  ASSUME HostInv, flushPTY
  PROVE  /\ pending' \in Seq(Nat) /\ stored' \in Seq(Nat) /\ gone' \subseteq Nat
         /\ Evidence(stored', pending', gone')
         /\ Stream(pty.open, wire, printed, stored', pending', gone')
<1> DEFINE n == IF Len(pending) < DrainLimit THEN Len(pending) ELSE DrainLimit
           out == SubSeq(pending, 1, n)
           rest == SubSeq(pending, n + 1, Len(pending))
<1>1. stored \in Seq(Nat) /\ pending \in Seq(Nat) /\ gone \subseteq Nat /\ Evidence(stored, pending, gone)
      /\ Stream(pty.open, wire, printed, stored, pending, gone)
  BY DEF HostInv, TypeOK
<1>2. n \in 0..Len(pending)
  BY <1>1, HostBounds
<1>3. /\ pending' = rest
      /\ \/ stored' = stored \o out /\ gone' = gone
         \/ stored' = stored /\ gone' = gone \cup Lines(out)
  BY DEF flushPTY, DrainTranscriptEvidence, Lines
<1>a. out = SubSeq(pending, 1, n) /\ rest = SubSeq(pending, n + 1, Len(pending))
  OBVIOUS
<1>5. /\ out \in Seq(Nat) /\ rest \in Seq(Nat) /\ Lines(pending) = Lines(out) \cup Lines(rest)
  BY <1>1, <1>2, CutInTwo
<1> HIDE DEF n, out, rest
<1>4. Evidence(stored \o out, rest, gone) /\ Evidence(stored, rest, gone \cup Lines(out))
  <2>1. stored \in Seq(Nat) /\ pending \in Seq(Nat) /\ gone \in SUBSET Nat /\ Evidence(stored, pending, gone)
    BY <1>1
  <2>2. out \in Seq(Nat) /\ rest \in Seq(Nat)
    BY <1>5
  <2> QED BY <1>2, <1>a, <2>1, <2>2, CutKeepsEvidence, Zenon
<1>6. /\ Lines(out) \subseteq Nat /\ stored \o out \in Seq(Nat)
      /\ Lines(stored \o out) = Lines(stored) \cup Lines(out)
  <2>1. Lines(out) \subseteq Nat
    BY <1>5 DEF Lines
  <2> QED BY <1>1, <1>5, <2>1, Joined
<1>7. CASE stored' = stored \o out /\ gone' = gone
  BY <1>1, <1>3, <1>4, <1>5, <1>6, <1>7 DEF Stream, ReadUpTo
<1>8. CASE stored' = stored /\ gone' = gone \cup Lines(out)
  BY <1>1, <1>3, <1>4, <1>5, <1>6, <1>8 DEF Stream, ReadUpTo
<1> QED BY <1>3, <1>7, <1>8

(* The worker prints.                                                           *)
LEMMA PrintStep ==
  ASSUME HostInv, WorkerPrints
  PROVE  HostInv'
<1>1. /\ wire \in Seq(Nat) /\ printed \in Nat /\ pty.open
      /\ printed' = printed + 1 /\ wire' = Append(wire, printed + 1)
      /\ UNCHANGED <<worker, pty, pending, host, notes, app, stored, gone, life, row>>
  BY DEF HostInv, TypeOK, WorkerPrints
<1>2. /\ wire' \in Seq(Nat) /\ Len(wire') = Len(wire) + 1 /\ wire'[Len(wire) + 1] = printed + 1
      /\ \A i \in 1..Len(wire) : wire'[i] = wire[i]
  BY <1>1
<1>3. TypeOK' /\ Attended'
  BY <1>1, <1>2 DEF HostInv, TypeOK, Attended
<1>4. app.pc # "boot" /\ BeforeBoot'
  BY <1>1 DEF HostInv, BeforeBoot
<1>5. Stream(pty.open, wire', printed', stored, pending, gone)
  <2>1. printed' - Len(wire') = printed - Len(wire) /\ Len(wire') <= printed'
    BY <1>1, <1>2 DEF HostInv, Stream
  <2>2. ASSUME NEW i \in 1..Len(wire') PROVE wire'[i] = printed' - Len(wire') + i
    <3>1. CASE i = Len(wire')
      BY <1>1, <1>2, <3>1
    <3>2. CASE i \in 1..Len(wire)
      BY <1>1, <1>2, <2>1, <3>2 DEF HostInv, Stream
    <3> QED BY <1>1, <1>2, <3>1, <3>2
  <2> QED BY <1>1, <2>1, <2>2 DEF HostInv, Stream
<1> QED BY <1>1, <1>3, <1>4, <1>5 DEF HostInv

(* A line is read.                                                              *)
LEMMA ReadStep ==
  ASSUME HostInv, readStream
  PROVE  HostInv'
<1> DEFINE all  == Append(pending, Head(wire))
           over == IF Len(all) > HostMaxLines THEN Len(all) - HostMaxLines ELSE 0
           m    == Head(wire)
<1>1. /\ pty.open /\ wire # <<>> /\ wire' = Tail(wire)
      /\ pending' = SubSeq(all, over + 1, Len(all))
      /\ gone' = gone \cup {all[i] : i \in 1..over}
      /\ UNCHANGED <<worker, printed, pty, host, notes, app, stored, life, row>>
  BY DEF readStream
<1>2. /\ wire \in Seq(Nat) /\ printed \in Nat /\ stored \in Seq(Nat) /\ pending \in Seq(Nat)
      /\ gone \subseteq Nat /\ Evidence(stored, pending, gone)
  BY DEF HostInv, TypeOK
<1>3. /\ m \in Nat /\ m = wire[1] /\ Len(wire) > 0 /\ wire' \in Seq(Nat) /\ Len(wire') = Len(wire) - 1
      /\ \A i \in 1..(Len(wire) - 1) : wire'[i] = wire[i + 1]
  BY <1>1, <1>2
<1>4. /\ m = printed - Len(wire) + 1 /\ Len(wire) <= printed
      /\ \A i \in 1..Len(wire) : wire[i] = printed - Len(wire) + i
      /\ ReadUpTo(stored, pending, gone, m - 1)
  <2>1. /\ Len(wire) <= printed /\ \A i \in 1..Len(wire) : wire[i] = printed - Len(wire) + i
        /\ ReadUpTo(stored, pending, gone, printed - Len(wire))
    BY <1>1 DEF HostInv, Stream
  <2>2. m = printed - Len(wire) + 1 /\ m - 1 = printed - Len(wire)
    <3> HIDE DEF m
    <3>1. 1 \in 1..Len(wire) /\ wire[1] = printed - Len(wire) + 1
      BY <1>2, <1>3, <2>1
    <3> QED BY <1>2, <1>3, <3>1
  <2> QED BY <2>1, <2>2
<1>5. over \in 0..Len(pending)
  <2>1. Len(all) = Len(pending) + 1 /\ Len(pending) \in Nat
    BY <1>2, <1>3
  <2> HIDE DEF all
  <2> QED BY <2>1, HostBounds
<1> HIDE DEF over, m
<1>7. /\ pending' \in Seq(Nat) /\ Evidence(stored, pending', gone')
      /\ ReadUpTo(stored, pending', gone', m)
      /\ gone' \subseteq Nat
  <2>1. m > 0
    BY <1>2, <1>3, <1>4
  <2>2. all = Append(pending, m)
    BY DEF m
  <2> DEFINE cut == SubSeq(all, 1, over)
             new == SubSeq(all, over + 1, Len(all))
  <2>3. all \in Seq(Nat) /\ over \in 0..Len(all)
    BY <1>2, <1>3, <1>5, <2>2
  <2>4. pending' = new /\ gone' = gone \cup Lines(cut)
    <3>1. Len(cut) = over /\ \A i \in 1..over : cut[i] = all[i]
      BY <2>3
    <3>2. {all[i] : i \in 1..over} = Lines(cut)
      BY <3>1 DEF Lines
    <3> QED BY <1>1, <3>2
  <2>5. Lines(cut) \subseteq Nat
    <3>1. cut \in Seq(Nat)
      BY <2>3
    <3> HIDE DEF cut
    <3> QED BY <3>1 DEF Lines
  <2>6. cut = SubSeq(all, 1, over) /\ new = SubSeq(all, over + 1, Len(all))
    OBVIOUS
  <2> HIDE DEF all, cut, new
  <2>7. /\ stored \in Seq(Nat) /\ pending \in Seq(Nat) /\ m \in Nat
        /\ Evidence(stored, pending, gone) /\ m > 0 /\ ReadUpTo(stored, pending, gone, m - 1)
    BY <1>2, <1>3, <1>4, <2>1
  <2>8. Lines(all) = Lines(pending) \cup {m} /\ Ascending(all)
    <3>1. \A x \in Lines(pending) : x \in Nat /\ x <= m - 1
      BY <2>7, LinesAreNumbers DEF ReadUpTo
    <3>2. \A x \in Lines(pending) : x < m
      BY <2>7, <3>1
    <3>3. Ascending(pending)
      BY <2>7 DEF Evidence
    <3> QED BY <2>2, <2>7, <3>2, <3>3, AppendOne
  <2>8a. new \in Seq(Nat) /\ Lines(all) = Lines(cut) \cup Lines(new) /\ Ascending(new)
    BY <2>3, <2>6, <2>8, CutInTwo
  <2>8b. Lines(pending) \cup {m} = Lines(cut) \cup Lines(new)
    BY <2>8, <2>8a
  <2>9. /\ new \in Seq(Nat) /\ Evidence(stored, new, gone \cup Lines(cut))
        /\ ReadUpTo(stored, new, gone \cup Lines(cut), m)
    BY <2>7, <2>8a, <2>8b, ReadKeepsEvidence
  <2> QED BY <1>2, <2>4, <2>5, <2>9
<1>8. TypeOK' /\ Attended'
  BY <1>1, <1>3, <1>7 DEF HostInv, TypeOK, Attended
<1>9. BeforeBoot'
  BY <1>1 DEF HostInv, BeforeBoot
<1>10. Stream(pty.open, wire', printed, stored, pending', gone')
  <2>1. printed - Len(wire') = m /\ Len(wire') <= printed
    BY <1>2, <1>3, <1>4
  <2>2. ASSUME NEW i \in 1..Len(wire') PROVE wire'[i] = printed - Len(wire') + i
    <3>1. Len(wire) \in Nat /\ Len(wire') = Len(wire) - 1 /\ printed \in Nat
      BY <1>2, <1>3
    <3>2. i + 1 \in 1..Len(wire) /\ wire'[i] = wire[i + 1]
      BY <1>3, <3>1
    <3>3. wire[i + 1] = printed - Len(wire) + (i + 1)
      BY <1>4, <3>2
    <3>4. printed - Len(wire) + (i + 1) = printed - Len(wire') + i
      BY <3>1
    <3> QED BY <3>2, <3>3, <3>4
  <2> QED BY <1>7, <2>1, <2>2 DEF Stream
<1> QED BY <1>1, <1>7, <1>8, <1>9, <1>10 DEF HostInv

(* What the loop does with the host's status is typed.                          *)
LEMMA StatusType ==
  ASSUME TypeOK
  PROVE  Status \in HostStates /\ Ended \subseteq HostStates
BY DEF TypeOK, Status, HostStates, Ended

LEMMA ReportType ==
  ASSUME TypeOK, NEW state \in HostStates, NEW active \in BOOLEAN, reportShellSession(state, active)
  PROVE  row' \in [active : BOOLEAN, state : HostStates]
BY DEF TypeOK, reportShellSession

LEMMA LifeType ==
  ASSUME TypeOK, NEW previous, NEW current, captureHostLifecycle(previous, current)
  PROVE  life' \in Seq({"host_started", "host_exited", "fallback_activated"})
<1> DEFINE Kinds == {"host_started", "host_exited", "fallback_activated"}
<1>1. /\ <<>> \in Seq(Kinds) /\ <<"host_started">> \in Seq(Kinds)
      /\ <<"host_exited">> \in Seq(Kinds) /\ <<"fallback_activated">> \in Seq(Kinds)
  OBVIOUS
<1>2. Milestone(current) \in Seq(Kinds)
  <2>1. Milestone(current) \in {<<>>, <<"host_started">>, <<"host_exited">>, <<"fallback_activated">>}
    BY Zenon DEF Milestone
  <2> QED BY <1>1, <2>1
<1>3. life \in Seq(Kinds) /\ (life' = life \/ life' = life \o Milestone(current))
  BY DEF TypeOK, captureHostLifecycle
<1> HIDE DEF Kinds
<1>4. life' \in Seq(Kinds)
  BY <1>2, <1>3, ConcatProperties
<1> QED BY <1>4 DEF Kinds

(* A step that leaves the lines, the worker and the file alone.                 *)
LEMMA AppOnly ==
  ASSUME HostInv, TypeOK', UNCHANGED <<worker, wire, printed, pty, pending, host, stored, gone>>,
         notes'.state = notes.state, app'.pc \notin {"boot", "farewell", "done"}
  PROVE  HostInv'
<1>1. Attended' /\ BeforeBoot'
  BY DEF HostInv, Attended, BeforeBoot
<1> QED BY <1>1 DEF HostInv

LEMMA WorkerEndsStep ==
  ASSUME HostInv, WorkerEnds
  PROVE  HostInv'
<1>1. TypeOK' /\ Attended' /\ BeforeBoot'
  BY DEF HostInv, TypeOK, Attended, BeforeBoot, WorkerEnds
<1> QED BY <1>1 DEF HostInv, WorkerEnds

LEMMA WaitStep ==
  ASSUME HostInv, wait
  PROVE  HostInv'
<1>1. /\ UNCHANGED <<worker, printed, pending, host, notes, app, stored, gone, life, row>>
      /\ pty' \in [state : Ended, open : {FALSE}] /\ wire' = <<>> /\ worker \in {"ended", "broken"}
  BY DEF wait, Ended
<1>a. pty' \in [state : HostStates, open : BOOLEAN] /\ pty'.open = FALSE /\ wire' \in Seq(Nat)
  <2>1. wire' \in Seq(Nat)
    BY <1>1
  <2>2. pty' \in [state : Ended, open : {FALSE}] /\ Ended \subseteq HostStates
    BY <1>1 DEF HostStates, Ended
  <2> QED BY <2>1, <2>2
<1>b. TypeOK'
  BY <1>1, <1>a DEF HostInv, TypeOK
<1>2. Attended' /\ BeforeBoot'
  BY <1>1, <1>a DEF HostInv, Attended, BeforeBoot
<1>3. Stream(pty'.open, wire', printed', stored', pending', gone')
  BY <1>a DEF Stream
<1> QED BY <1>1, <1>2, <1>b, <1>3 DEF HostInv

(* Run, up to the loop.                                                         *)
LEMMA StartStep ==
  ASSUME HostInv, startPreferredHost
  PROVE  HostInv'
<1>1. /\ app.pc = "boot" /\ UNCHANGED <<wire, printed, pending, stored, gone, life, row>>
      /\ worker = "none" /\ ~pty.open /\ host = "pty"
      /\ printed = 0 /\ wire = <<>> /\ pending = <<>> /\ stored = <<>>
  BY DEF startPreferredHost, HostInv, BeforeBoot
<1>2. CASE /\ worker' = "running" /\ pty' = [state |-> "live", open |-> TRUE]
           /\ UNCHANGED <<host, notes>> /\ app' = [app EXCEPT !.pc = "greet", !.first = "live"]
  <2>1. TypeOK' /\ Attended' /\ BeforeBoot'
    BY <1>1, <1>2 DEF HostInv, TypeOK, Attended, BeforeBoot, HostStates
  <2>2. Stream(TRUE, <<>>, 0, <<>>, <<>>, gone)
    BY DEF Stream, ReadUpTo, Lines
  <2> QED BY <1>1, <1>2, <2>1, <2>2 DEF HostInv
<1>3. CASE /\ pty' = [pty EXCEPT !.state = "failed"] /\ host' = "transcript"
           /\ notes' = [state |-> "fallback", waiting |-> 2]
           /\ app' = [app EXCEPT !.pc = "greet", !.first = "fallback"] /\ UNCHANGED worker
  <2>1. TypeOK' /\ Attended' /\ BeforeBoot' /\ ~pty'.open
    BY <1>1, <1>3 DEF HostInv, TypeOK, Attended, BeforeBoot, HostStates, Ended
  <2>2. Stream(pty'.open, wire', printed', stored', pending', gone')
    BY <2>1 DEF Stream
  <2> QED BY <1>1, <2>1, <2>2 DEF HostInv
<1> QED BY <1>2, <1>3 DEF startPreferredHost

LEMMA FirstStatusStep ==
  ASSUME HostInv, ReportFirstStatus
  PROVE  HostInv'
<1>1. /\ UNCHANGED <<worker, wire, printed, pty, pending, host, notes, stored, gone>>
      /\ app' = [app EXCEPT !.pc = "settle"]
      /\ reportShellSession(Status, TRUE) /\ captureHostLifecycle("none", Status)
  BY DEF ReportFirstStatus
<1>2. row' \in [active : BOOLEAN, state : HostStates]
  BY <1>1, ReportType, StatusType DEF HostInv
<1>3. life' \in Seq({"host_started", "host_exited", "fallback_activated"})
  BY <1>1, LifeType DEF HostInv
<1>4. TypeOK' /\ app'.pc = "settle"
  BY <1>1, <1>2, <1>3 DEF HostInv, TypeOK
<1> QED BY <1>1, <1>4, AppOnly

(* The two flushes of the loop.                                                 *)
LEMMA FlushKeeps ==
  ASSUME HostInv, flushPTY, UNCHANGED <<wire, printed, pty>>, TypeOK', Attended', app'.pc # "boot"
  PROVE  HostInv'
<1>1. /\ Evidence(stored', pending', gone')
      /\ Stream(pty.open, wire, printed, stored', pending', gone')
  BY FlushStep
<1> QED BY <1>1 DEF HostInv, BeforeBoot

LEMMA HandleEventStep ==
  ASSUME HostInv, HandleEvent
  PROVE  HostInv'
<1>1. /\ app' = [app EXCEPT !.pc = "observe"] /\ UNCHANGED <<worker, wire, printed, pty, host, life>>
  BY DEF HandleEvent
<1>2. app' \in [pc : {"observe"}, last : HostStates, current : HostStates, first : HostStates]
  BY <1>1 DEF HostInv, TypeOK
<1>3. CASE UNCHANGED <<pending, stored, gone, notes, row>>
  <2>1. TypeOK' /\ app'.pc = "observe"
    BY <1>1, <1>2, <1>3 DEF HostInv, TypeOK
  <2> QED BY <1>1, <1>3, <2>1, AppOnly
<1>4. CASE flushTranscriptEvidence /\ UNCHANGED row /\ host = "pty"
  <2>1. flushPTY /\ UNCHANGED notes
    BY <1>4 DEF flushTranscriptEvidence
  <2>2. TypeOK'
    <3>1. pending' \in Seq(Nat) /\ stored' \in Seq(Nat) /\ gone' \subseteq Nat
      BY <2>1, FlushStep
    <3> QED BY <1>1, <1>2, <1>4, <2>1, <3>1 DEF HostInv, TypeOK
  <2>3. Attended'
    BY <1>1, <1>2, <2>1 DEF HostInv, Attended
  <2> QED BY <1>1, <1>2, <2>1, <2>2, <2>3, FlushKeeps
<1>5. CASE flushTranscriptEvidence /\ UNCHANGED row /\ host # "pty"
  <2>1. notes' = [notes EXCEPT !.waiting = 0] /\ UNCHANGED <<pending, stored, gone, row>>
    BY <1>5 DEF flushTranscriptEvidence
  <2>2. TypeOK' /\ notes'.state = notes.state /\ app'.pc = "observe"
    BY <1>1, <1>2, <2>1 DEF HostInv, TypeOK
  <2> QED BY <1>1, <2>1, <2>2, AppOnly
<1>6. CASE reportShellSession(Status, TRUE) /\ UNCHANGED <<pending, stored, gone, notes>>
  <2>1. row' \in [active : BOOLEAN, state : HostStates]
    BY <1>6, ReportType, StatusType DEF HostInv
  <2>2. TypeOK' /\ app'.pc = "observe"
    BY <1>1, <1>2, <1>6, <2>1 DEF HostInv, TypeOK
  <2> QED BY <1>1, <1>6, <2>2, AppOnly
<1> QED BY <1>3, <1>4, <1>5, <1>6 DEF HandleEvent

LEMMA ObserveStep ==
  ASSUME HostInv, ObserveHost
  PROVE  HostInv'
<1>1. /\ UNCHANGED <<worker, wire, printed, pty, pending, host, notes, stored, gone>>
      /\ app' = [app EXCEPT !.pc = "transit", !.current = Status]
      /\ captureHostLifecycle(app.last, Status)
      /\ UNCHANGED row \/ reportShellSession(Status, TRUE)
  BY DEF ObserveHost
<1>2. row' \in [active : BOOLEAN, state : HostStates]
  BY <1>1, ReportType, StatusType DEF HostInv, TypeOK
<1>3. life' \in Seq({"host_started", "host_exited", "fallback_activated"})
  BY <1>1, LifeType DEF HostInv
<1>4. TypeOK' /\ app'.pc = "transit"
  BY <1>1, <1>2, <1>3, StatusType DEF HostInv, TypeOK
<1> QED BY <1>1, <1>4, AppOnly

(* The host has ended, so the worker has, and the shell may turn away from it.  *)
LEMMA TransitStep ==
  ASSUME HostInv, transitionExitedHost
  PROVE  HostInv'
<1>1. app' = [app EXCEPT !.pc = "settle"] /\ UNCHANGED <<worker, wire, printed, pty>>
  BY DEF transitionExitedHost
<1>2. app' \in [pc : {"settle"}, last : HostStates, current : HostStates, first : HostStates]
  BY <1>1 DEF HostInv, TypeOK
<1>3. CASE Status \notin Ended
  <2>1. UNCHANGED <<pending, stored, gone, host, notes, life, row>>
    BY <1>3 DEF transitionExitedHost
  <2>2. TypeOK' /\ app'.pc = "settle"
    BY <1>1, <1>2, <2>1 DEF HostInv, TypeOK
  <2> QED BY <1>1, <2>1, <2>2, AppOnly
<1>4. CASE Status \in Ended
  <2>1. /\ flushPTY /\ host' = "transcript"
        /\ notes' = [state |-> "fallback", waiting |-> notes.waiting + 1]
        /\ captureHostLifecycle(app.current, "fallback") /\ reportShellSession("fallback", TRUE)
    BY <1>4 DEF transitionExitedHost
  <2>2. row' \in [active : BOOLEAN, state : HostStates]
    BY <2>1, ReportType DEF HostInv, HostStates
  <2>3. life' \in Seq({"host_started", "host_exited", "fallback_activated"})
    BY <2>1, LifeType DEF HostInv
  <2>4. pending' \in Seq(Nat) /\ stored' \in Seq(Nat) /\ gone' \subseteq Nat
    BY <2>1, FlushStep
  <2>5. TypeOK'
    BY <1>1, <1>2, <2>1, <2>2, <2>3, <2>4 DEF HostInv, TypeOK, HostStates
  <2>6. worker # "running"
    BY <1>4 DEF HostInv, Attended, Status, Ended
  <2>7. Attended'
    BY <1>1, <2>1, <2>6 DEF Attended, Ended
  <2> QED BY <1>1, <1>2, <2>1, <2>5, <2>7, FlushKeeps
<1> QED BY <1>3, <1>4

LEMMA SettleStep ==
  ASSUME HostInv, SettleStatus \/ Quit
  PROVE  HostInv'
<1>1. /\ UNCHANGED <<worker, wire, printed, pty, pending, host, notes, stored, gone, life, row>>
      /\ app' \in [pc : {"select", "flush"}, last : HostStates, current : HostStates, first : HostStates]
  BY StatusType DEF SettleStatus, Quit, HostInv, TypeOK
<1>2. TypeOK' /\ app'.pc \in {"select", "flush"}
  BY <1>1 DEF HostInv, TypeOK
<1> QED BY <1>1, <1>2, AppOnly

(* The deferred calls.                                                          *)
LEMMA FlushOnExitStep ==
  ASSUME HostInv, FlushOnExit
  PROVE  HostInv'
<1>1. /\ app' = [app EXCEPT !.pc = "stop"] /\ UNCHANGED <<worker, wire, printed, pty, host, notes, life, row>>
  BY DEF FlushOnExit
<1>2. app' \in [pc : {"stop"}, last : HostStates, current : HostStates, first : HostStates]
  BY <1>1 DEF HostInv, TypeOK
<1>3. CASE flushPTY
  <2>1. pending' \in Seq(Nat) /\ stored' \in Seq(Nat) /\ gone' \subseteq Nat
    BY <1>3, FlushStep
  <2>2. TypeOK' /\ Attended'
    BY <1>1, <1>2, <2>1 DEF HostInv, TypeOK, Attended
  <2> QED BY <1>1, <1>2, <1>3, <2>2, FlushKeeps
<1>4. CASE UNCHANGED <<pending, stored, gone>>
  <2>1. TypeOK' /\ app'.pc = "stop"
    BY <1>1, <1>2, <1>4 DEF HostInv, TypeOK
  <2> QED BY <1>1, <1>4, <2>1, AppOnly
<1> QED BY <1>3, <1>4 DEF FlushOnExit

LEMMA StopStep ==
  ASSUME HostInv, Stop
  PROVE  HostInv'
<1>1. /\ app' = [app EXCEPT !.pc = "farewell"]
      /\ UNCHANGED <<wire, printed, pending, host, notes, stored, gone, life, row>>
  BY DEF Stop
<1>2. /\ worker' # "running" /\ worker' \in {"none", "running", "ended", "broken"}
      /\ pty' \in [state : HostStates, open : BOOLEAN]
      /\ UNCHANGED pty \/ ~pty'.open
  <2>0. /\ pty \in [state : HostStates, open : BOOLEAN]
        /\ worker \in {"none", "running", "ended", "broken"}
        /\ worker = "running" => host = "pty" /\ pty.state = "live"
    BY DEF HostInv, TypeOK, Attended
  <2>1. CASE host = "pty"
    <3>1. /\ pty' = [pty EXCEPT !.open = FALSE]
          /\ worker' = IF pty.state \in {"live", "starting"} /\ worker = "running"
                       THEN "broken" ELSE worker
      BY <2>1 DEF Stop
    <3> QED BY <2>0, <3>1
  <2>2. CASE host # "pty"
    BY <2>0, <2>2 DEF Stop
  <2> QED BY <2>1, <2>2
<1>3. TypeOK' /\ Attended' /\ BeforeBoot'
  BY <1>1, <1>2 DEF HostInv, TypeOK, Attended, BeforeBoot
<1>4. Stream(pty'.open, wire', printed', stored', pending', gone')
  BY <1>1, <1>2 DEF HostInv, Stream
<1> QED BY <1>1, <1>3, <1>4 DEF HostInv

LEMMA ReportEndStep ==
  ASSUME HostInv, ReportEnd
  PROVE  HostInv'
<1>1. /\ app' = [app EXCEPT !.pc = "done"] /\ app.pc = "farewell" /\ reportShellSession(app.first, FALSE)
      /\ UNCHANGED <<worker, wire, printed, pty, pending, host, notes, stored, gone, life>>
  BY DEF ReportEnd
<1>2. row' \in [active : BOOLEAN, state : HostStates]
  BY <1>1, ReportType DEF HostInv, TypeOK
<1>3. TypeOK' /\ Attended' /\ BeforeBoot'
  BY <1>1, <1>2 DEF HostInv, TypeOK, Attended, BeforeBoot
<1> QED BY <1>1, <1>3 DEF HostInv

-----------------------------------------------------------------------------
(* The invariant: types, an attended worker, and lines accounted for.           *)
THEOREM HostInvariance == Spec => []HostInv
<1>1. Init => HostInv
  <2> SUFFICES ASSUME Init PROVE HostInv
    OBVIOUS
  <2>1. TypeOK
    BY DEF Init, TypeOK, HostStates
  <2>2. Attended /\ BeforeBoot
    BY DEF Init, Attended, BeforeBoot, Ended
  <2>3. Evidence(<<>>, <<>>, gone) /\ Stream(FALSE, wire, printed, stored, pending, gone)
    BY DEF Evidence, Ascending, Lines, Stream
  <2> QED BY <2>1, <2>2, <2>3 DEF Init, HostInv
<1>2. HostInv /\ [Next]_vars => HostInv'
  <2> SUFFICES ASSUME HostInv, [Next]_vars PROVE HostInv'
    OBVIOUS
  <2>1. CASE UNCHANGED vars
    BY <2>1 DEF vars, HostInv, TypeOK, Attended, BeforeBoot
  <2>2. CASE WorkerPrints \/ WorkerEnds \/ readStream \/ wait
    BY <2>2, PrintStep, WorkerEndsStep, ReadStep, WaitStep
  <2>3. CASE Loop \/ Quit
    BY <2>3, StartStep, FirstStatusStep, HandleEventStep, ObserveStep, TransitStep, SettleStep,
       FlushOnExitStep, StopStep, ReportEndStep DEF Loop
  <2> QED BY <2>1, <2>2, <2>3 DEF Next
<1> QED BY <1>1, <1>2, PTL DEF Spec

(* The evidence stored of a session is the worker's output in its order, each   *)
(* line once, and nothing is missing before a stored line but what overflowed   *)
(* the buffer or was in a call that failed: whatever the drain limit and the    *)
(* buffer, over the change of hosts and the flush on exit.                      *)
THEOREM EvidenceIsOrdered == Spec => []EvidenceInOrder
<1>1. HostInv => EvidenceInOrder
  <2> SUFFICES ASSUME HostInv PROVE EvidenceInOrder
    OBVIOUS
  <2>1. stored \in Seq(Nat) /\ pending \in Seq(Nat) /\ Evidence(stored, pending, gone)
    BY DEF HostInv, TypeOK
  <2>2. \A i, j \in 1..Len(stored) : i < j => stored[i] < stored[j]
    BY <2>1 DEF Evidence, Ascending
  <2>3. ASSUME NEW i \in 1..Len(stored), NEW n \in 1..stored[i], n \notin gone
        PROVE  \E j \in 1..i : stored[j] = n
    <3>1. stored[i] \in Nat /\ stored[i] \in Lines(stored)
      BY <2>1 DEF Lines
    <3>2. n \in Lines(stored) \cup Lines(pending)
      BY <2>1, <2>3, <3>1 DEF Evidence
    <3>3. n \notin Lines(pending)
      <4>1. \A y \in Lines(pending) : y \in Nat /\ stored[i] < y
        BY <2>1, <3>1, LinesAreNumbers DEF Evidence
      <4> QED BY <3>1, <4>1
    <3>4. PICK j \in 1..Len(stored) : stored[j] = n
      BY <3>2, <3>3 DEF Lines
    <3>5. ~(i < j)
      BY <2>1, <2>2, <3>1, <3>4
    <3> QED BY <3>4, <3>5
  <2> QED BY <2>2, <2>3 DEF EvidenceInOrder
<1> QED BY <1>1, HostInvariance, PTL

(* The shell never falls back to the transcript, and never ends, while its      *)
(* worker runs.                                                                 *)
THEOREM WorkerIsAttended == Spec => []NoUnattendedWorker
<1>1. HostInv => NoUnattendedWorker
  BY DEF HostInv, Attended, NoUnattendedWorker
<1> QED BY <1>1, HostInvariance, PTL
=============================================================================
