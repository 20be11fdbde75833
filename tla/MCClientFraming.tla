--------------------------- MODULE MCClientFraming ---------------------------
(* Values for the runs of ClientFraming. *)
EXTENDS ClientFraming
CONSTANTS c1, c2

TwoConns  == {c1, c2}
OneConn   == {c1}
ShortLong == {2, 4}
OneSize   == {2}
NoTrail   == {NoDigit}
AnyTrail  == {NoDigit, 1}

\* Digits of a length say more than there is, the text of a message less.
DigitsOrText == [k \in Positions |-> IF k <= HeaderSize THEN 9 ELSE 1]

LittleAndPlenty == [c \in TwoConns |-> IF c = c1 THEN 4 ELSE 99]
Plenty          == [c \in OneConn |-> 99]
=============================================================================
