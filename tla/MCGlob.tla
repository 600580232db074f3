------------------------------- MODULE MCGlob -------------------------------
(* Every pattern and every name up to a length, over a small alphabet. *)
EXTENDS Glob

CONSTANTS Letters, MaxPattern, MaxName

Strings(C, n) == UNION {[1..m -> C] : m \in 0..n}
AllChar == Letters \cup {Star, Dot}
AllPatterns == Strings(AllChar, MaxPattern)
AllNames == Strings(Letters \cup {Dot}, MaxName)
=============================================================================
