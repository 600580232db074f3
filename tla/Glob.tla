-------------------------------- MODULE Glob --------------------------------
(***************************************************************************)
(* glob_match_impl (include/conduit/glob.hpp), the matcher behind pattern  *)
(* listeners, relay routes and filters, one step per turn of its loops,    *)
(* against the meaning its header gives to `*' and `**'.                   *)
(*                                                                         *)
(* Indices are the code's: 0-based, so character pi is pattern[pi + 1].    *)
(***************************************************************************)
EXTENDS Integers, Sequences

CONSTANTS Char, Patterns, Names

Star == "*"
Dot == "."
NoStar == -1      \* k_no_star

ASSUME InputsAssumption == Patterns \subseteq Seq(Char) /\ Names \subseteq Seq(Char)

VARIABLES pattern, name, pi, ni, star_pi, star_ni, star_is_dd, pc, result

vars == <<pattern, name, pi, ni, star_pi, star_ni, star_is_dd, pc, result>>
input == <<pattern, name>>

plen == Len(pattern)
nlen == Len(name)

Init ==
    /\ pattern \in Patterns /\ name \in Names
    /\ pi = 0 /\ ni = 0
    /\ star_pi = NoStar /\ star_ni = 0 /\ star_is_dd = FALSE
    /\ pc = "scan" /\ result = FALSE

IsStar(i) == i < plen /\ pattern[i + 1] = Star
Width(dd) == IF dd THEN 2 ELSE 1

Answer(b) ==
    /\ pc' = "done" /\ result' = b
    /\ UNCHANGED <<input, pi, ni, star_pi, star_ni, star_is_dd>>

Scanning == pc = "scan" /\ ni < nlen

\* Variant: the star is remembered one character late.
TakeStarLate ==
    /\ Scanning /\ IsStar(pi)
    /\ star_pi' = pi /\ star_ni' = ni + 1
    /\ star_is_dd' = IsStar(pi + 1)
    /\ pi' = pi + Width(IsStar(pi + 1))
    /\ UNCHANGED <<input, ni, pc, result>>

\* A `*' or `**': remember it, and let it match nothing for now.
TakeStar ==
    /\ Scanning /\ IsStar(pi)
    /\ star_pi' = pi /\ star_ni' = ni
    /\ star_is_dd' = IsStar(pi + 1)
    /\ pi' = pi + Width(IsStar(pi + 1))
    /\ UNCHANGED <<input, ni, pc, result>>

Literal == pi < plen /\ pattern[pi + 1] = name[ni + 1]

TakeLiteral ==
    /\ Scanning /\ ~IsStar(pi) /\ Literal
    /\ pi' = pi + 1 /\ ni' = ni + 1
    /\ UNCHANGED <<input, star_pi, star_ni, star_is_dd, pc, result>>

Mismatch == Scanning /\ ~IsStar(pi) /\ ~Literal

\* Variant: a single star crosses segments.
RefusesNever == FALSE

\* Let the last star match one character more; a single `*' refuses a `.'.
Refuses == ~star_is_dd /\ name[star_ni + 1] = Dot

\* Variant: the star does not grow.
BacktrackStays ==
    /\ Mismatch /\ star_pi # NoStar /\ ~Refuses
    /\ ni' = star_ni
    /\ pi' = star_pi + Width(star_is_dd)
    /\ UNCHANGED <<input, star_pi, star_ni, star_is_dd, pc, result>>

Backtrack ==
    /\ Mismatch /\ star_pi # NoStar /\ ~Refuses
    /\ star_ni' = star_ni + 1
    /\ ni' = star_ni + 1
    /\ pi' = star_pi + Width(star_is_dd)
    /\ UNCHANGED <<input, star_pi, star_is_dd, pc, result>>

Fail ==
    /\ Mismatch /\ (star_pi = NoStar \/ Refuses)
    /\ Answer(FALSE)

\* Variant: trailing stars are not consumed.
ScanEndNoTrail ==
    /\ pc = "scan" /\ ni >= nlen
    /\ Answer(pi = plen)

ScanEnd ==
    /\ pc = "scan" /\ ni >= nlen
    /\ pc' = "trail"
    /\ UNCHANGED <<input, pi, ni, star_pi, star_ni, star_is_dd, result>>

\* Trailing stars match the empty rest.
SkipStar ==
    /\ pc = "trail" /\ IsStar(pi)
    /\ pi' = pi + Width(IsStar(pi + 1))
    /\ UNCHANGED <<input, ni, star_pi, star_ni, star_is_dd, pc, result>>

Finish ==
    /\ pc = "trail" /\ ~IsStar(pi)
    /\ Answer(pi = plen)

Next == TakeStar \/ TakeLiteral \/ Backtrack \/ Fail \/ ScanEnd \/ SkipStar \/ Finish

Spec == Init /\ [][Next]_vars
FairSpec == Spec /\ WF_vars(Next)

-----------------------------------------------------------------------------
(* Properties *)

\* Types, with the range of every index into the pattern and the name.
TypeOK ==
    /\ pattern \in Patterns /\ name \in Names
    /\ pi \in 0..plen /\ ni \in 0..nlen
    /\ star_pi \in {NoStar} \cup (0..plen) /\ star_ni \in 0..nlen
    /\ star_is_dd \in BOOLEAN /\ result \in BOOLEAN
    /\ pc \in {"scan", "trail", "done"}

\* Backtracking never reads outside the strings: the position after the last
\* star is one the scan has already passed, and so is name[star_ni].
ReadsInBounds ==
    star_pi # NoStar => /\ star_pi + Width(star_is_dd) <= pi
                        /\ star_ni <= ni

StarAt(p, i) == i \in DOMAIN p /\ p[i] = Star
Single(p, i) == StarAt(p, i) /\ ~StarAt(p, i - 1) /\ ~StarAt(p, i + 1)

\* by[x] is the character of the pattern p, among those at I, that matches the
\* character x of the name n, among those at J: in order; a star matches any
\* number of characters, but no dot if it stands alone; anything else matches
\* exactly one, which equals it.
Matches(p, I, n, J, by) ==
    /\ \A x, y \in J : x <= y => by[x] <= by[y]
    /\ \A x \in J : IF p[by[x]] = Star THEN Single(p, by[x]) => n[x] # Dot
                                       ELSE n[x] = p[by[x]]
    /\ \A i \in I : p[i] # Star => \E x \in J : \A y \in J : by[y] = i <=> y = x

Fits(p, I, n, J) == \E by \in [J -> I] : Matches(p, I, n, J, by)

\* What the header says `*' and `**' mean.
Meaning(p, n) == Fits(p, DOMAIN p, n, DOMAIN n)

\* The matcher never accepts a name its pattern does not mean.
Sound == pc = "done" /\ result => Meaning(pattern, name)

\* Patterns in which remembering only the last star loses nothing: no run of
\* three stars, and no single star to the right of a double one.
NoTriple(p) == \A i \in DOMAIN p : ~(StarAt(p, i) /\ StarAt(p, i + 1) /\ StarAt(p, i + 2))
Double(p, i) == StarAt(p, i) /\ StarAt(p, i + 1)
Simple(p) == NoTriple(p) /\ \A i, j \in DOMAIN p : i < j /\ Double(p, i) => ~Single(p, j)

\* On such patterns the matcher accepts every name the pattern means.
CompleteOnSimple == pc = "done" /\ ~result /\ Simple(pattern) => ~Meaning(pattern, name)

\* The matcher always answers.
Terminates == <>(pc = "done")

\* "`**' matches any sequence including `.'", for every pattern whose stars
\* are plainly single or double.
Complete == pc = "done" /\ ~result /\ NoTriple(pattern) => ~Meaning(pattern, name)
=============================================================================
