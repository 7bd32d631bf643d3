----------------------------- MODULE BoundedLog -----------------------------
(* What a bounded transcript promises, and what the registry in memory does     *)
(* under its mutex: entries are numbered one after the other without a gap or a *)
(* repetition, only the oldest are ever dropped, and never more than needed.    *)
EXTENDS Integers, FiniteSets

CONSTANTS Retention, Sources

VARIABLES
  entries,  \* the retained entries [seq, source]
  last      \* the highest number given so far

logVars == <<entries, last>>

LogInit == entries = {} /\ last = 0

Put(source) ==
  /\ last' = last + 1
  /\ entries' = entries \cup {[seq |-> last + 1, source |-> source]}

Trim ==
  /\ \E first \in 1..last :
       /\ entries' = {e \in entries : e.seq >= first}
       /\ entries' # entries
       /\ Cardinality(entries') >= Retention
  /\ UNCHANGED last

LogNext == Trim \/ \E s \in Sources : Put(s)

LogSpec == LogInit /\ [][LogNext]_logVars
=============================================================================
