--------------------------- MODULE TimestampText ---------------------------
(* The order SQLite gives to instants stored as RFC3339Nano text. The layout    *)
(* drops the trailing zeros of the fraction, and the point with them, so texts  *)
(* have different lengths, and the final Z is greater than every digit.         *)
EXTENDS Integers, Sequences, FiniteSets

CONSTANTS
  Base,    \* digits of the fraction (ten in the program)
  Digits   \* places of the fraction (nine in the program)

ASSUME TimestampBounds == Base \in Nat \ {0, 1} /\ Digits \in Nat \ {0}

(* What a digit counts that has this many places behind it.                     *)
Place[k \in Nat] == IF k = 0 THEN 1 ELSE Base * Place[k - 1]

Second == Place[Digits]    \* instants in a second

Point == -1                \* '.' sorts before the digits,
Zulu == Base               \* 'Z' after them

FractionDigit(t, k) == (t \div Place[Digits - k]) % Base

(* An instant as the layout writes it; the part up to the second has a fixed    *)
(* width and counts as one character.                                           *)
Text(t) ==
  LET kept == {k \in 1..Digits : \E j \in k..Digits : FractionDigit(t, j) # 0}
  IN  <<t \div Second>>
        \o (IF kept = {} THEN <<>>
            ELSE <<Point>> \o [k \in 1..Cardinality(kept) |-> FractionDigit(t, k)])
        \o <<Zulu>>

(* Lexical order; no text is the beginning of another one.                      *)
TextBefore(s, t) ==
  \E i \in 1..Len(Text(s)) :
    /\ i <= Len(Text(t))
    /\ \A j \in 1..(i - 1) : Text(s)[j] = Text(t)[j]
    /\ Text(s)[i] < Text(t)[i]
=============================================================================
