--------------------------------- MODULE Text ---------------------------------
(***************************************************************************)
(* What the code does with std::string: find, and substr from and to a     *)
(* position.  A text is a sequence of characters.                          *)
(***************************************************************************)
EXTENDS Integers, Sequences

CR == "CR"
LF == "LF"
CRLF == <<CR, LF>>

IsAt(s, p, i) == i + Len(p) - 1 <= Len(s) /\ \A j \in DOMAIN p : s[i + j - 1] = p[j]
Finds(s, p) == {i \in DOMAIN s : IsAt(s, p, i)}
Take(s, n) == SubSeq(s, 1, n)
Drop(s, n) == SubSeq(s, n + 1, Len(s))
===============================================================================
