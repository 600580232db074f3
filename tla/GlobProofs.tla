----------------------------- MODULE GlobProofs -----------------------------
(***************************************************************************)
(* Proofs about the matcher for every pattern and every name: its indices  *)
(* stay in range, it accepts only what the pattern means, and it accepts   *)
(* all of that when no single star follows a double one.                   *)
(***************************************************************************)
EXTENDS Glob, SequenceTheorems, WellFoundedInduction, TLAPS

\* The indices are in range, which is inductive.
Bounds == TypeOK /\ ReadsInBounds

\* The lengths are natural numbers.
LEMMA Lengths == TypeOK => plen \in Nat /\ nlen \in Nat
  BY InputsAssumption, LenProperties DEF TypeOK, plen, nlen

\* Every turn of either loop keeps the indices in range.
LEMMA BoundsStep == Bounds /\ [Next]_vars => Bounds'
  <1> SUFFICES ASSUME Bounds, [Next]_vars PROVE Bounds'
    OBVIOUS
  <1>i. TypeOK /\ ReadsInBounds /\ plen \in Nat /\ nlen \in Nat
    BY Lengths DEF Bounds
  <1>l. UNCHANGED input => plen' = plen /\ nlen' = nlen
    BY DEF input, plen, nlen
  <1>1. CASE TakeStar
    <2>1. plen' = plen /\ nlen' = nlen
      BY <1>1, <1>l DEF TakeStar
    <2>2. star_is_dd' \in BOOLEAN
      BY <1>1 DEF TakeStar, IsStar
    <2>3. /\ star_pi' = pi /\ star_ni' = ni /\ ni' = ni
          /\ pi < plen /\ pi' = pi + (IF star_is_dd' THEN 2 ELSE 1)
          /\ star_is_dd' => pi + 1 < plen
      BY <1>1 DEF TakeStar, IsStar, Width
    <2>4. pi' \in 0..plen /\ star_pi' \in 0..plen /\ star_ni' \in 0..nlen /\ ni' \in 0..nlen
      BY <2>2, <2>3, <1>i DEF TypeOK
    <2>5. ReadsInBounds'
      BY <2>2, <2>3, <1>i DEF TypeOK, ReadsInBounds, Width
    <2> QED
      BY <1>1, <2>1, <2>2, <2>4, <2>5, <1>i DEF TakeStar, input, Bounds, TypeOK
  <1>2. CASE TakeLiteral
    BY <1>2, <1>i, <1>l DEF TakeLiteral, Scanning, Literal, Width, NoStar, input, Bounds, TypeOK,
       ReadsInBounds
  <1>3. CASE Backtrack
    BY <1>3, <1>i, <1>l DEF Backtrack, Mismatch, Scanning, Width, NoStar, input, Bounds, TypeOK,
       ReadsInBounds
  <1>4. CASE Fail
    BY <1>4, <1>i, <1>l DEF Fail, Answer, Width, NoStar, input, Bounds, TypeOK, ReadsInBounds
  <1>5. CASE ScanEnd
    BY <1>5, <1>i, <1>l DEF ScanEnd, Width, NoStar, input, Bounds, TypeOK, ReadsInBounds
  <1>6. CASE SkipStar
    BY <1>6, <1>i, <1>l DEF SkipStar, IsStar, Width, NoStar, input, Bounds, TypeOK, ReadsInBounds
  <1>7. CASE Finish
    BY <1>7, <1>i, <1>l DEF Finish, Answer, Width, NoStar, input, Bounds, TypeOK, ReadsInBounds
  <1>8. CASE UNCHANGED vars
    BY <1>8, <1>i, <1>l DEF vars, input, Width, Bounds, TypeOK, ReadsInBounds
  <1> QED
    BY <1>1, <1>2, <1>3, <1>4, <1>5, <1>6, <1>7, <1>8 DEF Next

\* The matcher begins at the start of both strings.
LEMMA InitBounds == Init => Bounds
  <1> SUFFICES ASSUME Init PROVE Bounds
    OBVIOUS
  <1>1. plen \in Nat /\ nlen \in Nat
    BY InputsAssumption, LenProperties DEF Init, plen, nlen
  <1>2. 0 \in 0..plen /\ 0 \in 0..nlen
    BY <1>1
  <1> QED
    BY <1>2 DEF Init, Bounds, TypeOK, ReadsInBounds

\* The indices are in range in every state of every run of the matcher.
THEOREM IndicesInRange == Spec => [](TypeOK /\ ReadsInBounds)
  BY InitBounds, BoundsStep, PTL DEF Spec, Bounds

\* Backtracking reads name[star_ni] only where there is such a character, and
\* resumes the pattern at a position inside it.
THEOREM BacktrackReadsInBounds ==
    Spec => [][Mismatch /\ star_pi # NoStar
                  => star_ni < nlen /\ star_pi + Width(star_is_dd) <= plen]_vars
  <1>1. Bounds => (Mismatch /\ star_pi # NoStar
                      => star_ni < nlen /\ star_pi + Width(star_is_dd) <= plen)
    <2> SUFFICES ASSUME Bounds, Mismatch, star_pi # NoStar
                 PROVE  star_ni < nlen /\ star_pi + Width(star_is_dd) <= plen
      OBVIOUS
    <2>1. plen \in Nat /\ nlen \in Nat
      BY Lengths DEF Bounds
    <2> QED
      BY <2>1 DEF Bounds, TypeOK, ReadsInBounds, Mismatch, Scanning, Width, NoStar
  <1>2. Spec => []Bounds
    BY IndicesInRange, PTL DEF Bounds
  <1> QED
    BY <1>1, <1>2, PTL

-----------------------------------------------------------------------------
(* Why the matcher terminates *)

\* What is left to do: the phase, then the pattern behind the last star, then
\* the name behind that star's match, then what is left of both strings.
Rank ==
    [phase |-> CASE pc = "scan" -> 2 [] pc = "trail" -> 1 [] OTHER -> 0,
     star  |-> plen - star_pi, match |-> nlen - star_ni, left |-> (plen - pi) + (nlen - ni)]
RankType == [phase : Nat, star : Nat, match : Nat, left : Nat]

\* The lexicographic order of such ranks, which is well founded.
Less(r, s) ==
    \/ r.phase < s.phase
    \/ r.phase = s.phase /\ r.star < s.star
    \/ r.phase = s.phase /\ r.star = s.star /\ r.match < s.match
    \/ r.phase = s.phase /\ r.star = s.star /\ r.match = s.match /\ r.left < s.left

\* Ranks are made of natural numbers.
LEMMA RankTyped == Bounds => Rank \in RankType
  <1> SUFFICES ASSUME Bounds PROVE Rank \in RankType
    OBVIOUS
  <1>1. /\ plen \in Nat /\ nlen \in Nat /\ pi \in 0..plen /\ ni \in 0..nlen
        /\ star_ni \in 0..nlen /\ star_pi \in {NoStar} \cup (0..plen)
    BY Lengths DEF Bounds, TypeOK
  <1>2. plen - star_pi \in Nat /\ nlen - star_ni \in Nat /\ (plen - pi) + (nlen - ni) \in Nat
    BY <1>1 DEF NoStar
  <1> QED
    BY <1>2 DEF Rank, RankType

\* For every pattern and every name, every turn of either loop lowers the rank:
\* no run of the matcher is infinite, whatever star it goes back to.
THEOREM TurnsLowerRank == Spec => [][Less(Rank', Rank) /\ Rank \in RankType]_vars
  <1>1. Bounds /\ Next => Less(Rank', Rank)
    <2> SUFFICES ASSUME Bounds, Next PROVE Less(Rank', Rank)
      OBVIOUS
    <2>c. /\ plen \in Nat /\ nlen \in Nat /\ pi \in 0..plen /\ ni \in 0..nlen
          /\ star_ni \in 0..nlen /\ star_pi \in {NoStar} \cup (0..plen)
          /\ star_pi # NoStar => star_pi + Width(star_is_dd) <= pi
      BY Lengths DEF Bounds, TypeOK, ReadsInBounds
    <2>w. \A b : Width(b) \in {1, 2}
      BY DEF Width
    <2>l. UNCHANGED input => plen' = plen /\ nlen' = nlen
      BY DEF input, plen, nlen
    <2>1. CASE TakeStar
      <3>1. pc = "scan" /\ pc' = "scan" /\ plen' = plen /\ star_pi' = pi
        BY <2>1, <2>l DEF TakeStar, Scanning
      <3>2. star_pi < pi
        BY <2>c, <2>w DEF NoStar
      <3>3. plen - pi < plen - star_pi
        BY <3>2, <2>c DEF NoStar
      <3> QED
        BY <3>1, <3>3 DEF Rank, Less
    <2>2. CASE TakeLiteral
      <3>1. /\ pc = "scan" /\ pc' = "scan" /\ plen' = plen /\ nlen' = nlen
            /\ star_pi' = star_pi /\ star_ni' = star_ni /\ pi' = pi + 1 /\ ni' = ni + 1
        BY <2>2, <2>l DEF TakeLiteral, Scanning
      <3>2. (plen - (pi + 1)) + (nlen - (ni + 1)) < (plen - pi) + (nlen - ni)
        BY <2>c
      <3> QED
        BY <3>1, <3>2 DEF Rank, Less
    <2>3. CASE Backtrack
      <3>1. /\ pc = "scan" /\ pc' = "scan" /\ plen' = plen /\ nlen' = nlen
            /\ star_pi' = star_pi /\ star_ni' = star_ni + 1
        BY <2>3, <2>l DEF Backtrack, Mismatch, Scanning
      <3>2. nlen - (star_ni + 1) < nlen - star_ni
        BY <2>c
      <3> QED
        BY <3>1, <3>2 DEF Rank, Less
    <2>4. CASE Fail
      BY <2>4 DEF Fail, Mismatch, Scanning, Answer, Rank, Less
    <2>5. CASE ScanEnd
      BY <2>5 DEF ScanEnd, Rank, Less
    <2>6. CASE SkipStar
      <3>1. /\ pc = "trail" /\ pc' = "trail" /\ plen' = plen /\ nlen' = nlen
            /\ star_pi' = star_pi /\ star_ni' = star_ni /\ ni' = ni
            /\ pi' = pi + Width(IsStar(pi + 1))
        BY <2>6, <2>l DEF SkipStar
      <3>2. \A w \in {1, 2} : (plen - (pi + w)) + (nlen - ni) < (plen - pi) + (nlen - ni)
        BY <2>c
      <3>3. (plen - pi') + (nlen - ni) < (plen - pi) + (nlen - ni)
        BY <3>1, <3>2, <2>w
      <3> QED
        BY <3>1, <3>3 DEF Rank, Less
    <2>7. CASE Finish
      BY <2>7 DEF Finish, Answer, Rank, Less
    <2> QED
      BY <2>1, <2>2, <2>3, <2>4, <2>5, <2>6, <2>7 DEF Next
  <1>2. Bounds /\ [Next]_vars => [Less(Rank', Rank) /\ Rank \in RankType]_vars
    BY <1>1, RankTyped
  <1>3. Spec => []Bounds
    BY IndicesInRange, PTL DEF Bounds
  <1> QED
    BY <1>2, <1>3, PTL DEF Spec

-----------------------------------------------------------------------------
(* Lemmas about matching *)

\* The pattern after its first i characters matches the name after its first j.
Rest(p, i, n, j) == Fits(p, i + 1..Len(p), n, j + 1..Len(n))

\* No dot behind position a of the name, up to position c.
DotFree(n, a, c) == \A x \in a + 1..c : n[x] # Dot

\* len literals of the pattern, behind position b, and where they match.
Literals(p, b, len) == \A x \in 1..len : p[b + x] # Star
Agree(p, b, n, a, len) == \A x \in 1..len : p[b + x] = n[a + x]

\* A set of natural numbers that is not empty has a least element.
LEMMA LeastElement ==
    ASSUME NEW T \in SUBSET Nat, T # {}
    PROVE  \E x \in T : \A y \in T : x <= y
  <1> DEFINE R == {ss \in Nat \X Nat : ss[1] < ss[2]}
  <1>1. IsWellFoundedOn(R, Nat)
    BY NatLessThanWellFounded DEF OpToRel
  <1>2. PICK x \in T : \A y \in T : ~(<<y, x>> \in R)
    <2> HIDE DEF R
    <2> QED
      BY <1>1, WFMin
  <1>3. ASSUME NEW y \in T PROVE x <= y
    <2>1. ~(<<y, x>> \in R) /\ <<y, x>> \in Nat \X Nat
      BY <1>2
    <2>2. ~(y < x)
      BY <2>1
    <2> QED
      BY <2>2
  <1> QED
    BY <1>3

\* Stars that follow need not match anything.
LEMMA MoreStars ==
    ASSUME NEW p, NEW n, NEW I, NEW J, NEW K, I \subseteq K,
           \A i \in K \ I : p[i] = Star,
           Fits(p, I, n, J)
    PROVE  Fits(p, K, n, J)
  <1>1. PICK by \in [J -> I] : Matches(p, I, n, J, by)
    BY DEF Fits
  <1>2. by \in [J -> K]
    BY <1>1
  <1>3. Matches(p, K, n, J, by)
    BY <1>1 DEF Matches
  <1> QED
    BY <1>2, <1>3 DEF Fits

\* A literal matches one more character of the name.
LEMMA OneLiteral ==
    ASSUME NEW p, NEW n, NEW i \in Nat, NEW j \in Nat,
           Fits(p, 1..i, n, 1..j), p[i + 1] = n[j + 1], p[i + 1] # Star
    PROVE  Fits(p, 1..i + 1, n, 1..j + 1)
  <1>1. PICK by \in [1..j -> 1..i] : Matches(p, 1..i, n, 1..j, by)
    BY DEF Fits
  <1> DEFINE to == [x \in 1..j + 1 |-> IF x = j + 1 THEN i + 1 ELSE by[x]]
  <1>2. /\ to[j + 1] = i + 1
        /\ \A x \in 1..j : to[x] = by[x] /\ by[x] \in 1..i /\ to[x] # i + 1
        /\ to \in [1..j + 1 -> 1..i + 1]
    <2>1. \A x \in 1..j + 1 : x # j + 1 => x \in 1..j
      OBVIOUS
    <2>2. \A x \in 1..j : by[x] \in 1..i /\ by[x] \in 1..i + 1 /\ by[x] # i + 1
      BY <1>1
    <2>3. \A x \in 1..j : x \in 1..j + 1 /\ x # j + 1
      OBVIOUS
    <2>4. i + 1 \in 1..i + 1 /\ j + 1 \in 1..j + 1
      OBVIOUS
    <2> QED
      BY <2>1, <2>2, <2>3, <2>4
  <1> HIDE DEF to
  <1>3. ASSUME NEW x \in 1..j + 1, NEW y \in 1..j + 1, x <= y PROVE to[x] <= to[y]
    <2>1. CASE y = j + 1
      BY <2>1, <1>2
    <2>2. CASE y # j + 1
      <3>1. x \in 1..j /\ y \in 1..j
        BY <2>2, <1>3
      <3> QED
        BY <3>1, <1>1, <1>2, <1>3 DEF Matches
    <2> QED
      BY <2>1, <2>2
  <1>4. ASSUME NEW x \in 1..j + 1
        PROVE  IF p[to[x]] = Star THEN Single(p, to[x]) => n[x] # Dot ELSE n[x] = p[to[x]]
    <2>1. CASE x = j + 1
      BY <2>1, <1>2
    <2>2. CASE x # j + 1
      <3>1. x \in 1..j
        BY <2>2
      <3> QED
        BY <3>1, <1>1, <1>2 DEF Matches
    <2> QED
      BY <2>1, <2>2
  <1>5. ASSUME NEW k \in 1..i + 1, p[k] # Star
        PROVE  \E x \in 1..j + 1 : \A y \in 1..j + 1 : to[y] = k <=> y = x
    <2>0. \A y \in 1..j + 1 : y # j + 1 => y \in 1..j
      OBVIOUS
    <2>1. CASE k = i + 1
      <3>1. \A y \in 1..j + 1 : to[y] = k <=> y = j + 1
        BY <2>0, <2>1, <1>2
      <3> QED
        BY <3>1
    <2>2. CASE k # i + 1
      <3>1. k \in 1..i
        BY <2>2
      <3>2. PICK x \in 1..j : \A y \in 1..j : by[y] = k <=> y = x
        BY <3>1, <1>1, <1>5 DEF Matches
      <3>3. x \in 1..j + 1 /\ x # j + 1
        OBVIOUS
      <3>4. \A y \in 1..j + 1 : to[y] = k <=> y = x
        BY <2>0, <2>2, <3>2, <3>3, <1>2
      <3> QED
        BY <3>3, <3>4
    <2> QED
      BY <2>1, <2>2
  <1> QED
    BY <1>2, <1>3, <1>4, <1>5 DEF Fits, Matches

\* The last star matches one more character of the name.
LEMMA StarGrows ==
    ASSUME NEW p, NEW n, NEW i \in Nat \ {0}, NEW j \in Nat,
           Fits(p, 1..i, n, 1..j), p[i] = Star, Single(p, i) => n[j + 1] # Dot
    PROVE  Fits(p, 1..i, n, 1..j + 1)
  <1>1. PICK by \in [1..j -> 1..i] : Matches(p, 1..i, n, 1..j, by)
    BY DEF Fits
  <1> DEFINE to == [x \in 1..j + 1 |-> IF x = j + 1 THEN i ELSE by[x]]
  <1>0. \A y \in 1..j + 1 : y # j + 1 => y \in 1..j
    OBVIOUS
  <1>2. /\ to[j + 1] = i
        /\ \A x \in 1..j : to[x] = by[x] /\ by[x] \in 1..i
        /\ to \in [1..j + 1 -> 1..i]
    <2>1. \A x \in 1..j : by[x] \in 1..i
      BY <1>1
    <2>2. \A x \in 1..j : x \in 1..j + 1 /\ x # j + 1
      OBVIOUS
    <2>3. i \in 1..i /\ j + 1 \in 1..j + 1
      OBVIOUS
    <2> QED
      BY <1>0, <2>1, <2>2, <2>3
  <1> HIDE DEF to
  <1>3. ASSUME NEW x \in 1..j + 1, NEW y \in 1..j + 1, x <= y PROVE to[x] <= to[y]
    <2>1. CASE y = j + 1
      BY <2>1, <1>2
    <2>2. CASE y # j + 1
      <3>1. x \in 1..j /\ y \in 1..j
        BY <2>2, <1>3
      <3> QED
        BY <3>1, <1>1, <1>2, <1>3 DEF Matches
    <2> QED
      BY <2>1, <2>2
  <1>4. ASSUME NEW x \in 1..j + 1
        PROVE  IF p[to[x]] = Star THEN Single(p, to[x]) => n[x] # Dot ELSE n[x] = p[to[x]]
    <2>1. CASE x = j + 1
      BY <2>1, <1>2
    <2>2. CASE x # j + 1
      BY <2>2, <1>0, <1>1, <1>2 DEF Matches
    <2> QED
      BY <2>1, <2>2
  <1>5. ASSUME NEW k \in 1..i, p[k] # Star
        PROVE  \E x \in 1..j + 1 : \A y \in 1..j + 1 : to[y] = k <=> y = x
    <2>1. PICK x \in 1..j : \A y \in 1..j : by[y] = k <=> y = x
      BY <1>1, <1>5 DEF Matches
    <2>2. x \in 1..j + 1 /\ x # j + 1 /\ k # i
      BY <1>5
    <2>3. \A y \in 1..j + 1 : to[y] = k <=> y = x
      BY <2>1, <2>2, <1>0, <1>2
    <2> QED
      BY <2>2, <2>3
  <1> QED
    BY <1>2, <1>3, <1>4, <1>5 DEF Fits, Matches

\* A literal at the head of the pattern matches the head of the name, and what
\* is left of the one matches what is left of the other.
LEMMA HeadLiteral ==
    ASSUME NEW p, NEW n, NEW i \in Nat, NEW j \in Nat, Len(p) \in Nat, Len(n) \in Nat,
           Rest(p, i, n, j), i < Len(p), p[i + 1] # Star
    PROVE  j < Len(n) /\ n[j + 1] = p[i + 1] /\ Rest(p, i + 1, n, j + 1)
  <1> DEFINE P == Len(p)
             N == Len(n)
             I == i + 1..P
             J == j + 1..N
             K == i + 2..P
             L == j + 2..N
  <1>1. PICK by \in [J -> I] : Matches(p, I, n, J, by)
    BY DEF Rest, Fits
  <1>2. i + 1 \in I /\ (\A k \in K : k \in I /\ k # i + 1) /\ (\A k \in I : k # i + 1 => k \in K)
    OBVIOUS
  <1>3. (\A k \in L : k \in J /\ k # j + 1) /\ (\A k \in J : k # j + 1 => k \in L)
    OBVIOUS
  <1>4. \A k \in I : k \in Int /\ i + 1 <= k
    OBVIOUS
  <1>5. \A k \in J : k \in Int /\ j + 1 <= k /\ j + 1 \in J /\ j < N
    OBVIOUS
  <1> HIDE DEF I, J, K, L
  <1>6. PICK x \in J : \A y \in J : by[y] = i + 1 <=> y = x
    BY <1>1, <1>2 DEF Matches
  <1>7. by[j + 1] \in I /\ by[j + 1] <= by[x] /\ by[x] = i + 1
    BY <1>1, <1>5, <1>6 DEF Matches
  <1>8. by[j + 1] = i + 1 /\ x = j + 1
    BY <1>4, <1>5, <1>6, <1>7
  <1>9. j < N /\ n[j + 1] = p[i + 1]
    BY <1>1, <1>5, <1>8 DEF Matches
  <1> DEFINE to == [y \in L |-> by[y]]
  <1>10. to \in [L -> K] /\ \A y \in L : to[y] = by[y]
    BY <1>1, <1>2, <1>3, <1>6, <1>8
  <1> HIDE DEF to
  <1>11. \A y, z \in L : y <= z => to[y] <= to[z]
    BY <1>1, <1>3, <1>10 DEF Matches
  <1>12. \A y \in L : IF p[to[y]] = Star THEN Single(p, to[y]) => n[y] # Dot ELSE n[y] = p[to[y]]
    BY <1>1, <1>3, <1>10 DEF Matches
  <1>13. ASSUME NEW k \in K, p[k] # Star
         PROVE  \E z \in L : \A y \in L : to[y] = k <=> y = z
    <2>1. PICK z \in J : \A y \in J : by[y] = k <=> y = z
      BY <1>1, <1>2, <1>13 DEF Matches
    <2>2. z \in L
      BY <2>1, <1>2, <1>3, <1>8
    <2> QED
      BY <2>1, <2>2, <1>3, <1>10
  <1>14. Fits(p, K, n, L)
    BY <1>10, <1>11, <1>12, <1>13 DEF Fits, Matches
  <1>15. Rest(p, i + 1, n, j + 1)
    <2>1. K = (i + 1) + 1..Len(p) /\ L = (j + 1) + 1..Len(n)
      BY DEF K, L
    <2> QED
      BY <2>1, <1>14 DEF Rest
  <1> QED
    BY <1>9, <1>15

\* Stars at the head of the pattern match some first part of what is left of the
\* name; a single one, no dot.
LEMMA HeadStar ==
    ASSUME NEW p, NEW n, NEW i \in Nat, NEW j \in Nat, Len(p) \in Nat, Len(n) \in Nat,
           Rest(p, i, n, j), j <= Len(n), NEW w \in {1, 2}
    PROVE  \E c \in j..Len(n) :
              /\ Rest(p, i + w, n, c)
              /\ w = 1 /\ Single(p, i + 1) => DotFree(n, j, c)
  <1> DEFINE P == Len(p)
             N == Len(n)
             I == i + 1..P
             J == j + 1..N
  <1>1. PICK by \in [J -> I] : Matches(p, I, n, J, by)
    BY DEF Rest, Fits
  <1>2. \A x \in J : x \in Nat /\ by[x] \in I /\ by[x] \in Nat /\ by[x] >= i + 1 /\ by[x] <= P
    BY <1>1
  <1> DEFINE Splits(c) == \A x \in J : x <= c <=> by[x] <= i + w
  <1>3. ASSUME NEW c \in j..N, Splits(c)
        PROVE  /\ Rest(p, i + w, n, c)
               /\ w = 1 /\ Single(p, i + 1) => DotFree(n, j, c)
    <2> DEFINE K == i + w + 1..P
               L == c + 1..N
               to == [x \in L |-> by[x]]
    <2>1. \A x \in L : x \in J /\ ~(x <= c)
      OBVIOUS
    <2>2. \A x \in J : ~(x <= c) => x \in L
      OBVIOUS
    <2>3. \A x \in L : by[x] \in K
      BY <2>1, <1>2, <1>3
    <2>4. to \in [L -> K] /\ \A x \in L : to[x] = by[x]
      BY <2>3
    <2>5. \A k \in K : k \in I /\ ~(k <= i + w)
      OBVIOUS
    <2> HIDE DEF I, J, K, L, to
    <2>6. \A y, z \in L : y <= z => to[y] <= to[z]
      BY <1>1, <2>1, <2>4 DEF Matches
    <2>7. \A y \in L : IF p[to[y]] = Star THEN Single(p, to[y]) => n[y] # Dot
                                          ELSE n[y] = p[to[y]]
      BY <1>1, <2>1, <2>4 DEF Matches
    <2>8. ASSUME NEW k \in K, p[k] # Star
          PROVE  \E z \in L : \A y \in L : to[y] = k <=> y = z
      <3>1. PICK z \in J : \A y \in J : by[y] = k <=> y = z
        BY <1>1, <2>5, <2>8 DEF Matches
      <3>2. z \in L
        BY <3>1, <2>2, <2>5, <1>3
      <3> QED
        BY <3>1, <3>2, <2>1, <2>4
    <2>9. Fits(p, K, n, L)
      BY <2>4, <2>6, <2>7, <2>8 DEF Fits, Matches
    <2>10. ASSUME w = 1, Single(p, i + 1), NEW x \in j + 1..c PROVE n[x] # Dot
      <3>1. x \in J /\ x <= c
        BY <2>10 DEF J
      <3>2. by[x] = i + 1
        BY <3>1, <2>10, <1>2, <1>3
      <3>3. p[i + 1] = Star
        BY <2>10 DEF Single, StarAt
      <3> QED
        BY <3>1, <3>2, <3>3, <2>10, <1>1 DEF Matches
    <2> QED
      BY <2>9, <2>10 DEF K, L, Rest, DotFree
  <1> DEFINE T == {x \in J : by[x] > i + w}
  <1>4. \E c \in j..N : Splits(c)
    <2>1. CASE T = {}
      <3>1. \A x \in J : x <= N /\ by[x] <= i + w
        BY <2>1, <1>2
      <3>2. N \in j..N
        OBVIOUS
      <3> QED
        BY <3>1, <3>2
    <2>2. CASE T # {}
      <3>1. T \in SUBSET Nat
        BY <1>2
      <3>2. PICK t \in T : \A y \in T : t <= y
        <4> HIDE DEF T
        <4> QED
          BY <2>2, <3>1, LeastElement
      <3>3. t \in J /\ t \in Nat /\ by[t] \in Nat /\ by[t] > i + w
        BY <1>2
      <3>4. t - 1 \in j..N
        BY <3>3
      <3>5. ASSUME NEW x \in J PROVE x <= t - 1 <=> by[x] <= i + w
        <4>1. x \in Nat /\ by[x] \in Nat
          BY <1>2
        <4>2. CASE x <= t - 1
          <5>1. x \notin T
            BY <3>2, <3>3, <4>1, <4>2
          <5> QED
            BY <5>1, <4>1, <4>2
        <4>3. CASE ~(x <= t - 1)
          <5>1. t <= x
            BY <3>3, <4>1, <4>3
          <5>2. by[t] <= by[x]
            BY <5>1, <3>3, <1>1 DEF Matches
          <5> QED
            BY <5>2, <3>3, <4>1, <4>3
        <4> QED
          BY <4>2, <4>3
      <3> QED
        BY <3>4, <3>5
    <2> QED
      BY <2>1, <2>2
  <1> HIDE DEF Splits, I, J
  <1> QED
    BY <1>3, <1>4

\* So a run of literals matches the same run of characters, one by one.
LEMMA HeadRun ==
    ASSUME NEW p, NEW n, NEW i \in Nat, NEW j \in Nat, Len(p) \in Nat, Len(n) \in Nat,
           Rest(p, i, n, j), j <= Len(n),
           NEW len \in Nat, i + len <= Len(p), Literals(p, i, len)
    PROVE  /\ j + len <= Len(n) /\ Rest(p, i + len, n, j + len)
           /\ Agree(p, i, n, j, len)
  <1> DEFINE Good(x) == /\ j + x <= Len(n) /\ Rest(p, i + x, n, j + x)
                        /\ x > 0 => n[j + x] = p[i + x]
             T == {x \in 0..len : ~Good(x)}
  <1>1. Good(0)
    BY i + 0 = i, j + 0 = j
  <1>2. ASSUME NEW x \in 0..len, Good(x), x < len PROVE Good(x + 1)
    <2>1. /\ x + 1 \in 1..len /\ i + (x + 1) = (i + x) + 1 /\ j + (x + 1) = (j + x) + 1
          /\ i + x \in Nat /\ j + x \in Nat /\ i + x < Len(p)
      BY <1>2
    <2>2. p[(i + x) + 1] # Star
      BY <2>1 DEF Literals
    <2>3. Rest(p, i + x, n, j + x)
      BY <1>2
    <2>4. /\ j + x < Len(n) /\ n[(j + x) + 1] = p[(i + x) + 1]
          /\ Rest(p, (i + x) + 1, n, (j + x) + 1)
      BY <2>1, <2>2, <2>3, HeadLiteral
    <2>5. j + (x + 1) <= Len(n)
      <3>1. j + x < Len(n)
        BY <2>4
      <3> QED
        BY <3>1, <2>1
    <2> QED
      BY <2>1, <2>4, <2>5
  <1> HIDE DEF Good
  <1>3. T = {}
    <2> SUFFICES ASSUME T # {} PROVE FALSE
      OBVIOUS
    <2>1. T \in SUBSET Nat
      OBVIOUS
    <2>2. PICK t \in T : \A y \in T : t <= y
      <3> HIDE DEF T
      <3> QED
        BY <2>1, LeastElement
    <2>3. t \in 0..len /\ ~Good(t) /\ t # 0
      BY <1>1
    <2>4. t - 1 \in 0..len /\ t - 1 < len /\ t - 1 + 1 = t /\ ~(t <= t - 1)
      BY <2>3
    <2>5. Good(t - 1)
      BY <2>2, <2>4
    <2>6. Good(t - 1 + 1)
      BY <2>4, <2>5, <1>2
    <2> QED
      BY <2>3, <2>4, <2>6
  <1>4. len \in 0..len /\ \A x \in 1..len : x \in 0..len /\ x > 0
    OBVIOUS
  <1>5. Good(len) /\ \A x \in 1..len : Good(x)
    BY <1>3, <1>4
  <1> QED
    BY <1>4, <1>5 DEF Good, Agree

\* A run of literals that matches at a and again at c, with no dot from a to c,
\* has no dot from the end of the one match to the end of the other.
LEMMA NoDotBetween ==
    ASSUME NEW p, NEW n, NEW b \in Nat, NEW a \in Nat, NEW c \in Nat, NEW len \in Nat,
           a <= c, DotFree(n, a, c), Agree(p, b, n, a, len), Agree(p, b, n, c, len)
    PROVE  DotFree(n, a + len, c + len)
  <1> SUFFICES ASSUME NEW y \in a + len + 1..c + len PROVE n[y] # Dot
    BY DEF DotFree
  <1> USE DEF DotFree, Agree
  <1> DEFINE T == {x \in 1..len : p[b + x] = Dot}
  <1>1. a < c
    OBVIOUS
  <1>2. T = {}
    <2> SUFFICES ASSUME T # {} PROVE FALSE
      OBVIOUS
    <2>1. T \in SUBSET Nat
      OBVIOUS
    <2>2. PICK t \in T : \A x \in T : t <= x
      <3> HIDE DEF T
      <3> QED
        BY <2>1, LeastElement
    <2>3. t \in 1..len /\ p[b + t] = Dot
      OBVIOUS
    <2>4. n[a + t] = Dot
      BY <2>3
    <2>5. a + t \notin a + 1..c
      BY <2>4
    <2> DEFINE d == t - (c - a)
    <2>6. d \in 1..len /\ d < t /\ c + d = a + t
      BY <2>3, <2>5, <1>1
    <2> HIDE DEF d
    <2>7. p[b + d] = Dot
      BY <2>4, <2>6
    <2> QED
      BY <2>2, <2>3, <2>6, <2>7
  <1>3. CASE y <= c
    <2>1. y \in a + 1..c
      BY <1>3
    <2> QED
      BY <2>1
  <1>4. CASE y > c
    <2> DEFINE x == y - c
    <2>1. x \in 1..len /\ c + x = y
      BY <1>1, <1>4
    <2> HIDE DEF x
    <2> QED
      BY <2>1, <1>2
  <1> QED
    BY <1>3, <1>4

-----------------------------------------------------------------------------
(* Soundness *)

\* What has been scanned matches what has been read of the pattern, and what
\* comes before the last star's next try matches the pattern up to that star.
Scanned ==
    /\ Fits(pattern, 1..pi, name, 1..ni)
    /\ star_pi # NoStar =>
         /\ StarAt(pattern, star_pi + 1) /\ StarAt(pattern, star_pi + Width(star_is_dd))
         /\ ~star_is_dd => ~StarAt(pattern, star_pi + 2)
         /\ Fits(pattern, 1..star_pi + Width(star_is_dd), name, 1..star_ni)
    /\ pc = "trail" => ni = nlen
    /\ pc = "done" /\ result => pi = plen /\ ni = nlen

-----------------------------------------------------------------------------
(* Completeness *)

\* The end of the last star in the pattern, and the literals read since.
Base == IF star_pi = NoStar THEN 0 ELSE star_pi + Width(star_is_dd)
Run ==
    pc = "scan" =>
        /\ star_pi = NoStar => star_ni = 0
        /\ pi - Base = ni - star_ni
        /\ Literals(pattern, Base, pi - Base)
        /\ Agree(pattern, Base, name, star_ni, pi - Base)

\* If the name is one the pattern means, the last star can still grow to where
\* the rest of the name matches the rest of the pattern.
Hope ==
    pc = "scan" /\ Simple(pattern) /\ Meaning(pattern, name) =>
        \E c \in star_ni..nlen :
            /\ Rest(pattern, Base, name, c)
            /\ star_pi = NoStar => c = 0
            /\ star_pi # NoStar /\ ~star_is_dd => DotFree(name, star_ni, c)

\* Behind the last character of the name, what is left must match nothing.
Trail == pc = "trail" /\ Simple(pattern) /\ Meaning(pattern, name) => Rest(pattern, pi, name, nlen)

IndInv == Bounds /\ Scanned /\ Run /\ Hope /\ Trail /\ CompleteOnSimple

-----------------------------------------------------------------------------
(* The invariant, action by action *)

\* The ranges of the matcher's locals.
LEMMA Context ==
    ASSUME Bounds
    PROVE  /\ plen \in Nat /\ nlen \in Nat /\ plen = Len(pattern) /\ nlen = Len(name)
           /\ DOMAIN pattern = 1..plen /\ DOMAIN name = 1..nlen
           /\ pi \in 0..plen /\ ni \in 0..nlen /\ star_ni \in 0..nlen /\ star_is_dd \in BOOLEAN
           /\ star_pi # NoStar => star_pi \in Nat /\ star_pi < plen /\ star_ni <= ni
           /\ Base \in 0..pi /\ Width(star_is_dd) \in {1, 2}
  <1>1. plen \in Nat /\ nlen \in Nat
    BY Lengths DEF Bounds
  <1>2. DOMAIN pattern = 1..plen /\ DOMAIN name = 1..nlen
    BY InputsAssumption, LenProperties DEF Bounds, TypeOK, plen, nlen
  <1>3. Width(star_is_dd) \in {1, 2}
    BY DEF Width
  <1>4. /\ pi \in 0..plen /\ ni \in 0..nlen /\ star_ni \in 0..nlen /\ star_is_dd \in BOOLEAN
        /\ star_pi \in {NoStar} \cup (0..plen)
        /\ star_pi # NoStar => star_pi + Width(star_is_dd) <= pi /\ star_ni <= ni
    BY DEF Bounds, TypeOK, ReadsInBounds
  <1>5. star_pi # NoStar => star_pi \in Nat /\ star_pi < plen
    BY <1>1, <1>3, <1>4
  <1>6. Base \in 0..pi
    BY <1>1, <1>3, <1>4, <1>5 DEF Base
  <1> QED
    BY <1>1, <1>2, <1>3, <1>4, <1>5, <1>6 DEF plen, nlen

\* The star or stars that the matcher steps over.
LEMMA SteppedOver ==
    ASSUME Bounds, IsStar(pi), NEW w, w = Width(IsStar(pi + 1))
    PROVE  /\ w \in {1, 2} /\ pi + w <= plen /\ (w = 2 <=> IsStar(pi + 1))
           /\ StarAt(pattern, pi + 1) /\ StarAt(pattern, pi + w)
           /\ w = 1 => ~StarAt(pattern, pi + 2)
           /\ \A k \in (1..pi + w) \ (1..pi) : pattern[k] = Star
  <1>0. plen \in Nat /\ pi \in 0..plen /\ DOMAIN pattern = 1..plen
    BY Context
  <1>1. pi < plen /\ pattern[pi + 1] = Star
    BY DEF IsStar
  <1>2. CASE IsStar(pi + 1)
    <2>1. w = 2 /\ pi + 1 < plen /\ pattern[(pi + 1) + 1] = Star
      BY <1>2 DEF IsStar, Width
    <2>2. (pi + 1) + 1 = pi + 2 /\ pi + 1 \in 1..plen /\ pi + 2 \in 1..plen
      BY <2>1, <1>0
    <2>3. \A k \in (1..pi + w) \ (1..pi) : k = pi + 1 \/ k = pi + 2
      BY <2>1, <1>0
    <2> QED
      BY <2>1, <2>2, <2>3, <1>0, <1>1, <1>2 DEF StarAt
  <1>3. CASE ~IsStar(pi + 1)
    <2>1. w = 1
      BY <1>3 DEF Width
    <2>2. (pi + 1) + 1 = pi + 2 /\ pi + 1 \in 1..plen
      BY <1>0, <1>1
    <2>3. pi + 2 \in 1..plen => pi + 1 < plen
      BY <1>0
    <2>4. ~StarAt(pattern, pi + 2)
      BY <2>2, <2>3, <1>0, <1>3 DEF StarAt, IsStar
    <2>5. \A k \in (1..pi + w) \ (1..pi) : k = pi + 1
      BY <2>1, <1>0
    <2> QED
      BY <2>1, <2>2, <2>4, <2>5, <1>0, <1>1, <1>3 DEF StarAt
  <1> QED
    BY <1>2, <1>3

\* What is scanned matches: every turn of the loops keeps it so.
LEMMA ScannedStep == Bounds /\ Scanned /\ [Next]_vars => Scanned'
  <1> SUFFICES ASSUME Bounds, Scanned, [Next]_vars PROVE Scanned'
    OBVIOUS
  <1>c. /\ plen \in Nat /\ nlen \in Nat /\ DOMAIN pattern = 1..plen
        /\ pi \in 0..plen /\ ni \in 0..nlen /\ star_ni \in 0..nlen /\ star_is_dd \in BOOLEAN
        /\ star_pi # NoStar => star_pi \in Nat
        /\ Width(star_is_dd) \in {1, 2}
    BY Context
  <1>l. UNCHANGED input => plen' = plen /\ nlen' = nlen
    BY DEF input, plen, nlen
  <1>1. CASE TakeStar
    <2> DEFINE w == Width(IsStar(pi + 1))
    <2>1. /\ IsStar(pi) /\ star_pi' = pi /\ star_ni' = ni /\ pi' = pi + w /\ ni' = ni
          /\ star_is_dd' = IsStar(pi + 1) /\ pc' = "scan"
          /\ UNCHANGED <<pattern, name>>
      BY <1>1 DEF TakeStar, Scanning, input
    <2>2. Width(star_is_dd') = w
      BY <2>1
    <2>3. /\ w \in {1, 2} /\ (w = 2 <=> IsStar(pi + 1))
          /\ StarAt(pattern, pi + 1) /\ StarAt(pattern, pi + w)
          /\ w = 1 => ~StarAt(pattern, pi + 2)
          /\ \A k \in (1..pi + w) \ (1..pi) : pattern[k] = Star
      BY <2>1, SteppedOver
    <2> HIDE DEF w
    <2>4. 1..pi \subseteq 1..pi + w
      BY <2>3, <1>c
    <2>5. Fits(pattern, 1..pi + w, name, 1..ni)
      BY <2>3, <2>4, MoreStars DEF Scanned
    <2>6. ~star_is_dd' => ~StarAt(pattern, star_pi' + 2)
      BY <2>1, <2>3
    <2> QED
      BY <2>1, <2>2, <2>3, <2>5, <2>6 DEF Scanned
  <1>2. CASE TakeLiteral
    <2>1. /\ ~IsStar(pi) /\ pi < plen /\ pattern[pi + 1] = name[ni + 1]
          /\ pi' = pi + 1 /\ ni' = ni + 1 /\ pc' = "scan"
          /\ UNCHANGED <<pattern, name, star_pi, star_ni, star_is_dd>>
      BY <1>2 DEF TakeLiteral, Scanning, Literal, input
    <2>2. pattern[pi + 1] # Star
      BY <2>1 DEF IsStar
    <2>3. pi \in Nat /\ ni \in Nat
      BY <1>c
    <2>4. Fits(pattern, 1..pi + 1, name, 1..ni + 1)
      BY <2>1, <2>2, <2>3, OneLiteral DEF Scanned
    <2> QED
      BY <2>1, <2>4 DEF Scanned
  <1>3. CASE Backtrack
    <2> DEFINE i == star_pi + Width(star_is_dd)
    <2>1. /\ star_pi # NoStar /\ ~Refuses /\ pi' = i
          /\ star_ni' = star_ni + 1 /\ ni' = star_ni + 1 /\ pc' = "scan"
          /\ UNCHANGED <<pattern, name, star_pi, star_is_dd>>
      BY <1>3 DEF Backtrack, Mismatch, Scanning, input
    <2>2. i \in Nat \ {0} /\ star_ni \in Nat
      BY <2>1, <1>c
    <2>3. /\ StarAt(pattern, star_pi + 1) /\ StarAt(pattern, i)
          /\ Fits(pattern, 1..i, name, 1..star_ni)
      BY <2>1 DEF Scanned
    <2>4. Single(pattern, i) => name[star_ni + 1] # Dot
      <3>1. CASE star_is_dd
        <4>1. i - 1 = star_pi + 1
          BY <3>1, <2>1, <1>c DEF Width
        <4> QED
          BY <4>1, <2>3 DEF Single
      <3>2. CASE ~star_is_dd
        BY <3>2, <2>1 DEF Refuses
      <3> QED
        BY <3>1, <3>2
    <2> HIDE DEF i
    <2>5. Fits(pattern, 1..i, name, 1..star_ni + 1)
      BY <2>2, <2>3, <2>4, StarGrows DEF StarAt
    <2> QED
      BY <2>1, <2>5 DEF Scanned, i
  <1>4. CASE Fail
    BY <1>4 DEF Fail, Answer, input, Scanned
  <1>5. CASE ScanEnd
    <2>1. ni = nlen
      BY <1>5, <1>c DEF ScanEnd
    <2> QED
      BY <2>1, <1>5, <1>l DEF ScanEnd, input, Scanned
  <1>6. CASE SkipStar
    <2> DEFINE w == Width(IsStar(pi + 1))
    <2>1. /\ IsStar(pi) /\ pi' = pi + w /\ pc = "trail"
          /\ UNCHANGED <<pattern, name, ni, star_pi, star_ni, star_is_dd, pc, result>>
      BY <1>6 DEF SkipStar, input
    <2>2. /\ w \in {1, 2} /\ \A k \in (1..pi + w) \ (1..pi) : pattern[k] = Star
      BY <2>1, SteppedOver
    <2> HIDE DEF w
    <2>3. 1..pi \subseteq 1..pi + w
      BY <2>2, <1>c
    <2>4. Fits(pattern, 1..pi + w, name, 1..ni)
      BY <2>2, <2>3, MoreStars DEF Scanned
    <2>5. nlen' = nlen
      BY <2>1, <1>l DEF input
    <2> QED
      BY <2>1, <2>4, <2>5 DEF Scanned
  <1>7. CASE Finish
    <2>1. plen' = plen /\ nlen' = nlen
      BY <1>7, <1>l DEF Finish, Answer
    <2> QED
      BY <2>1, <1>7 DEF Finish, Answer, input, Scanned
  <1>8. CASE UNCHANGED vars
    BY <1>8, <1>l DEF vars, input, Scanned
  <1> QED
    BY <1>1, <1>2, <1>3, <1>4, <1>5, <1>6, <1>7, <1>8 DEF Next

\* The literals read since the last star: every turn of the loops keeps them.
LEMMA RunStep == Bounds /\ Run /\ [Next]_vars => Run'
  <1> SUFFICES ASSUME Bounds, Run, [Next]_vars PROVE Run'
    OBVIOUS
  <1>c. /\ plen \in Nat /\ nlen \in Nat
        /\ pi \in 0..plen /\ ni \in 0..nlen /\ star_ni \in 0..nlen /\ star_is_dd \in BOOLEAN
        /\ star_pi # NoStar => star_pi \in Nat
        /\ Base \in 0..pi /\ Width(star_is_dd) \in {1, 2}
    BY Context
  <1>1. CASE TakeStar
    <2>1. /\ star_pi' = pi /\ star_ni' = ni /\ ni' = ni
          /\ star_is_dd' = IsStar(pi + 1) /\ pi' = pi + Width(IsStar(pi + 1))
      BY <1>1 DEF TakeStar
    <2>2. star_pi' # NoStar
      BY <2>1, <1>c DEF NoStar
    <2>3. Base' = pi'
      BY <2>1, <2>2 DEF Base
    <2>4. pi' \in Nat
      BY <2>1, <1>c DEF Width
    <2>5. pi' - Base' = 0 /\ ni' - star_ni' = 0
      BY <2>1, <2>3, <2>4, <1>c
    <2> QED
      BY <2>2, <2>5 DEF Run, Literals, Agree
  <1>2. CASE TakeLiteral
    <2>1. /\ ~IsStar(pi) /\ pi < plen /\ pattern[pi + 1] = name[ni + 1] /\ pc = "scan"
          /\ pi' = pi + 1 /\ ni' = ni + 1
          /\ UNCHANGED <<pattern, name, star_pi, star_ni, star_is_dd>>
      BY <1>2 DEF TakeLiteral, Scanning, Literal, input
    <2>2. pattern[pi + 1] # Star /\ Base' = Base
      BY <2>1 DEF IsStar, Base
    <2>3. /\ star_pi = NoStar => star_ni = 0
          /\ pi - Base = ni - star_ni
          /\ \A x \in 1..pi - Base : /\ pattern[Base + x] # Star
                                     /\ pattern[Base + x] = name[star_ni + x]
      BY <2>1 DEF Run, Literals, Agree
    <2>4. pi' - Base = (pi - Base) + 1 /\ pi' - Base = ni' - star_ni
      BY <2>1, <2>3, <1>c
    <2>5. ASSUME NEW x \in 1..pi' - Base
          PROVE  pattern[Base + x] # Star /\ pattern[Base + x] = name[star_ni + x]
      <3>1. CASE x = pi' - Base
        <4>1. Base + x = pi + 1 /\ star_ni + x = ni + 1
          BY <3>1, <2>1, <2>3, <1>c
        <4> QED
          BY <4>1, <2>1, <2>2
      <3>2. CASE x # pi' - Base
        <4>1. x \in 1..pi - Base
          BY <3>2, <2>4, <1>c
        <4> QED
          BY <4>1, <2>3
      <3> QED
        BY <3>1, <3>2
    <2> QED
      BY <2>1, <2>2, <2>3, <2>4, <2>5 DEF Run, Literals, Agree
  <1>3. CASE Backtrack
    <2>1. /\ star_pi # NoStar /\ pi' = star_pi + Width(star_is_dd)
          /\ star_ni' = star_ni + 1 /\ ni' = star_ni + 1
          /\ UNCHANGED <<star_pi, star_is_dd>>
      BY <1>3 DEF Backtrack
    <2>2. Base' = pi' /\ pi' \in Nat
      BY <2>1, <1>c DEF Base
    <2>3. pi' - Base' = 0 /\ ni' - star_ni' = 0
      BY <2>1, <2>2, <1>c
    <2> QED
      BY <2>1, <2>3 DEF Run, Literals, Agree
  <1>4. CASE Fail \/ ScanEnd \/ SkipStar \/ Finish
    BY <1>4 DEF Fail, ScanEnd, SkipStar, Finish, Answer, Run
  <1>8. CASE UNCHANGED vars
    BY <1>8 DEF vars, input, Run, Base
  <1> QED
    BY <1>1, <1>2, <1>3, <1>4, <1>8 DEF Next

\* The locals and the run of literals as the lemmas about matching need them.
LEMMA ScanContext ==
    ASSUME Bounds, Run, pc = "scan"
    PROVE  /\ plen \in Nat /\ nlen \in Nat /\ plen = Len(pattern) /\ nlen = Len(name)
           /\ Base \in Nat /\ star_ni \in Nat /\ pi \in Nat /\ ni \in Nat
           /\ pi - Base \in Nat /\ Base + (pi - Base) = pi /\ star_ni + (pi - Base) = ni
           /\ pi <= plen /\ ni <= nlen /\ star_ni <= nlen
           /\ star_pi = NoStar => star_ni = 0
           /\ Literals(pattern, Base, pi - Base)
           /\ Agree(pattern, Base, name, star_ni, pi - Base)
  <1>1. /\ plen \in Nat /\ nlen \in Nat /\ plen = Len(pattern) /\ nlen = Len(name)
        /\ pi \in 0..plen /\ ni \in 0..nlen /\ star_ni \in 0..nlen /\ Base \in 0..pi
    BY Context
  <1>2. /\ star_pi = NoStar => star_ni = 0
        /\ pi - Base = ni - star_ni
        /\ Literals(pattern, Base, pi - Base)
        /\ Agree(pattern, Base, name, star_ni, pi - Base)
    BY DEF Run
  <1>3. pi - Base = ni - star_ni
    BY <1>2
  <1>4. pi - Base \in Nat /\ Base + (pi - Base) = pi /\ star_ni + (pi - Base) = ni
    BY <1>1, <1>3
  <1>5. Base \in Nat /\ star_ni \in Nat /\ pi \in Nat /\ ni \in Nat
        /\ pi <= plen /\ ni <= nlen /\ star_ni <= nlen
    BY <1>1
  <1> QED
    BY <1>1, <1>2, <1>4, <1>5

\* If the rest of the name can match from c on, then the literals read match
\* there as well, and what is left of the pattern matches behind them.
LEMMA RestAfterRun ==
    ASSUME Bounds, Run, pc = "scan", NEW c \in 0..nlen, Rest(pattern, Base, name, c)
    PROVE  /\ c + (pi - Base) <= nlen
           /\ Rest(pattern, pi, name, c + (pi - Base))
           /\ Agree(pattern, Base, name, c, pi - Base)
  <1> DEFINE len == pi - Base
  <1>1. /\ Len(pattern) \in Nat /\ Len(name) \in Nat /\ nlen = Len(name)
        /\ Base \in Nat /\ len \in Nat /\ Base + len = pi /\ pi <= Len(pattern)
        /\ Literals(pattern, Base, len)
    BY ScanContext
  <1>2. c \in Nat /\ c <= Len(name) /\ Base + len <= Len(pattern)
    BY <1>1
  <1> HIDE DEF len
  <1>3. /\ c + len <= Len(name) /\ Rest(pattern, Base + len, name, c + len)
        /\ Agree(pattern, Base, name, c, len)
    BY <1>1, <1>2, HeadRun
  <1> QED
    BY <1>1, <1>3 DEF len

\* At a mismatch the rest cannot match from where the last star ends now.
LEMMA MismatchMoves ==
    ASSUME Bounds, Run, Mismatch, Rest(pattern, Base, name, star_ni)
    PROVE  FALSE
  <1>1. pc = "scan" /\ ni < nlen /\ ~IsStar(pi) /\ ~Literal
    BY DEF Mismatch, Scanning
  <1>2. /\ plen \in Nat /\ nlen \in Nat /\ plen = Len(pattern) /\ nlen = Len(name)
        /\ star_ni \in 0..nlen /\ star_ni + (pi - Base) = ni
        /\ pi \in Nat /\ ni \in Nat /\ pi <= plen
    BY <1>1, ScanContext
  <1>3. Rest(pattern, pi, name, ni)
    BY <1>1, <1>2, RestAfterRun
  <1>5. CASE pi < plen
    <2>1. pattern[pi + 1] # Star /\ pattern[pi + 1] # name[ni + 1]
      BY <1>1, <1>5 DEF IsStar, Literal
    <2>2. name[ni + 1] = pattern[pi + 1]
      BY <2>1, <1>2, <1>3, <1>5, HeadLiteral
    <2> QED
      BY <2>1, <2>2
  <1>6. CASE pi = plen
    <2>1. pi + 1..plen = {} /\ ni + 1 \in ni + 1..nlen
      BY <1>1, <1>2, <1>6
    <2>2. PICK by \in [ni + 1..nlen -> pi + 1..plen] : TRUE
      BY <1>2, <1>3 DEF Rest, Fits
    <2>3. by[ni + 1] \in pi + 1..plen
      BY <2>1, <2>2
    <2> QED
      BY <2>1, <2>3
  <1> QED
    BY <1>2, <1>5, <1>6 DEF DotFree

\* A single star that the matcher meets in a simple pattern stands alone.
LEMMA StandsAlone ==
    ASSUME Bounds, Scanned, Run, pc = "scan", NoTriple(pattern), IsStar(pi), ~IsStar(pi + 1)
    PROVE  Single(pattern, pi + 1)
  <1>1. StarAt(pattern, pi + 1) /\ ~StarAt(pattern, pi + 2)
    <2>1. Width(IsStar(pi + 1)) = 1
      BY DEF Width
    <2> QED
      BY <2>1, SteppedOver
  <1>2. /\ plen \in Nat /\ Base \in Nat /\ pi \in Nat /\ pi - Base \in Nat
        /\ Base + (pi - Base) = pi
        /\ \A x \in 1..pi - Base : pattern[Base + x] # Star
    BY ScanContext DEF Literals
  <1>d. DOMAIN pattern = 1..plen /\ (star_pi # NoStar => star_pi \in Nat)
    BY Context
  <1>3. ASSUME StarAt(pattern, pi) PROVE FALSE
    <2>1. pi \in 1..plen /\ pattern[pi] = Star
      BY <1>3, <1>d DEF StarAt
    <2>2. pi = Base
      <3> SUFFICES ASSUME pi # Base PROVE FALSE
        OBVIOUS
      <3>1. pi - Base \in 1..pi - Base
        BY <1>2
      <3> QED
        BY <3>1, <2>1, <1>2
    <2>3. star_pi # NoStar /\ pi = star_pi + Width(star_is_dd)
      BY <2>1, <2>2 DEF Base
    <2>4. star_pi \in Nat
      BY <2>3, <1>d
    <2>5. CASE star_is_dd
      <3>1. pi = star_pi + 2
        BY <2>3, <2>5 DEF Width
      <3>2. StarAt(pattern, star_pi + 1)
        BY <2>3 DEF Scanned
      <3>3. star_pi + 1 \in DOMAIN pattern /\ pi = (star_pi + 1) + 1 /\ pi + 1 = (star_pi + 1) + 2
        BY <3>1, <3>2, <2>4 DEF StarAt
      <3> QED
        BY <3>2, <3>3, <1>1, <1>3 DEF NoTriple
    <2>6. CASE ~star_is_dd
      <3>1. pi + 1 = star_pi + 2
        BY <2>3, <2>4, <2>6 DEF Width
      <3> QED
        BY <3>1, <2>3, <2>6, <1>1 DEF Scanned
    <2> QED
      BY <2>5, <2>6
  <1>4. (pi + 1) - 1 = pi /\ (pi + 1) + 1 = pi + 2
    BY <1>2
  <1> QED
    BY <1>1, <1>3, <1>4 DEF Single

\* A match that the earlier star allows is also one that the new star allows:
\* the earlier star need not grow any more.
LEMMA HopeTakeStar ==
    ASSUME Bounds, Scanned, Run, Hope, TakeStar
    PROVE  Hope'
  <1> DEFINE w == Width(IsStar(pi + 1))
             len == pi - Base
  <1>1. /\ pc = "scan" /\ IsStar(pi) /\ star_pi' = pi /\ star_ni' = ni /\ pi' = pi + w
        /\ star_is_dd' = IsStar(pi + 1)
        /\ UNCHANGED <<pattern, name>>
    BY DEF TakeStar, Scanning, input
  <1>2. SUFFICES ASSUME Simple(pattern), Meaning(pattern, name)
                 PROVE  \E d \in ni..nlen :
                           /\ Rest(pattern, pi + w, name, d)
                           /\ ~IsStar(pi + 1) => DotFree(name, ni, d)
    <2>1. nlen' = nlen /\ pi \in Nat
      BY <1>1, Context DEF nlen
    <2>2. star_pi' # NoStar
      BY <1>1, <2>1 DEF NoStar
    <2>3. Base' = pi + w
      BY <1>1, <2>2 DEF Base
    <2> QED
      BY <1>1, <2>1, <2>2, <2>3 DEF Hope
  <1>3. /\ plen \in Nat /\ nlen \in Nat /\ plen = Len(pattern) /\ nlen = Len(name)
        /\ Base \in Nat /\ star_ni \in Nat /\ pi \in Nat /\ ni \in Nat
        /\ len \in Nat /\ Base + len = pi /\ star_ni + len = ni
        /\ star_pi = NoStar => star_ni = 0
        /\ Agree(pattern, Base, name, star_ni, len)
    BY <1>1, ScanContext
  <1>4. w \in {1, 2} /\ (w = 2 <=> IsStar(pi + 1))
    BY <1>1, SteppedOver
  <1>5. PICK c \in star_ni..nlen :
            /\ Rest(pattern, Base, name, c)
            /\ star_pi = NoStar => c = 0
            /\ star_pi # NoStar /\ ~star_is_dd => DotFree(name, star_ni, c)
    BY <1>1, <1>2 DEF Hope
  <1>6. c \in 0..nlen /\ c \in Nat /\ star_ni <= c
    BY <1>3
  <1>7. /\ c + len <= nlen
        /\ Rest(pattern, pi, name, c + len)
        /\ Agree(pattern, Base, name, c, len)
    BY <1>1, <1>5, <1>6, RestAfterRun
  <1>9. c + len \in Nat /\ ni <= c + len
    BY <1>3, <1>6
  <1> HIDE DEF w, len
  <1>10. PICK d \in c + len..Len(name) :
            /\ Rest(pattern, pi + w, name, d)
            /\ w = 1 /\ Single(pattern, pi + 1) => DotFree(name, c + len, d)
    <2>1. /\ pi \in Nat /\ c + len \in Nat /\ Len(pattern) \in Nat /\ Len(name) \in Nat
          /\ c + len <= Len(name)
      BY <1>3, <1>7, <1>9
    <2> QED
      BY <2>1, <1>4, <1>7, HeadStar
  <1>11. d \in ni..nlen
    BY <1>3, <1>9
  <1>12. Rest(pattern, pi + w, name, d)
    BY <1>10
  <1>13. ASSUME ~IsStar(pi + 1), NEW x \in ni + 1..d PROVE name[x] # Dot
    <2>1. Single(pattern, pi + 1) /\ w = 1
      BY <1>1, <1>2, <1>4, <1>13, StandsAlone DEF Simple
    <2>2. CASE x > c + len
      <3>1. x \in (c + len) + 1..d
        BY <2>2, <1>3, <1>9
      <3> QED
        BY <3>1, <2>1, <1>10 DEF DotFree
    <2>3. CASE x <= c + len
      <3>1. x \in star_ni + len + 1..c + len
        BY <2>3, <1>3, <1>9
      <3>2. star_pi # NoStar
        <4> SUFFICES ASSUME star_pi = NoStar PROVE FALSE
          OBVIOUS
        <4>1. c = 0 /\ star_ni = 0
          BY <1>3, <1>5
        <4> QED
          BY <4>1, <3>1, <1>3
      <3>3. ~star_is_dd
        <4> SUFFICES ASSUME star_is_dd PROVE FALSE
          OBVIOUS
        <4>1. /\ StarAt(pattern, star_pi + 1) /\ StarAt(pattern, star_pi + 2)
          BY <3>2 DEF Scanned, Width
        <4>2. star_pi \in Nat /\ star_pi + 2 <= pi
          BY <3>2, Context DEF Base, Width
        <4>3. /\ star_pi + 1 \in DOMAIN pattern /\ pi + 1 \in DOMAIN pattern
              /\ star_pi + 1 < pi + 1 /\ (star_pi + 1) + 1 = star_pi + 2
          BY <4>1, <4>2, <2>1, <1>3 DEF StarAt, Single
        <4>4. Double(pattern, star_pi + 1)
          BY <4>1, <4>3 DEF Double
        <4> QED
          BY <4>3, <4>4, <2>1, <1>2 DEF Simple
      <3>4. DotFree(name, star_ni, c)
        BY <3>2, <3>3, <1>5
      <3>5. DotFree(name, star_ni + len, c + len)
        BY <3>4, <1>3, <1>6, <1>7, NoDotBetween
      <3> QED
        BY <3>1, <3>5 DEF DotFree
    <2> QED
      BY <2>2, <2>3, <1>3, <1>9
  <1> QED
    BY <1>11, <1>12, <1>13 DEF DotFree

\* Growing the last star by one keeps every match that is left.
LEMMA HopeBacktrack ==
    ASSUME Bounds, Run, Hope, Backtrack
    PROVE  Hope'
  <1>1. /\ Mismatch /\ pc = "scan" /\ star_pi # NoStar /\ star_ni' = star_ni + 1
        /\ UNCHANGED <<pattern, name, star_pi, star_is_dd>>
    BY DEF Backtrack, Mismatch, Scanning, input
  <1>2. Base' = Base /\ nlen' = nlen
    BY <1>1 DEF Base, nlen
  <1>3. SUFFICES ASSUME Simple(pattern), Meaning(pattern, name)
                 PROVE  \E c \in star_ni + 1..nlen :
                           /\ Rest(pattern, Base, name, c)
                           /\ ~star_is_dd => DotFree(name, star_ni + 1, c)
    BY <1>1, <1>2 DEF Hope
  <1>4. PICK c \in star_ni..nlen :
            /\ Rest(pattern, Base, name, c)
            /\ ~star_is_dd => DotFree(name, star_ni, c)
    BY <1>1, <1>3 DEF Hope
  <1>5. c # star_ni
    BY <1>1, <1>4, MismatchMoves
  <1>6. star_ni \in Nat /\ nlen \in Nat
    BY Context
  <1>7. c \in star_ni + 1..nlen /\ \A x \in star_ni + 1 + 1..c : x \in star_ni + 1..c
    BY <1>5, <1>6
  <1> QED
    BY <1>4, <1>7 DEF DotFree

\* The matcher gives up only when the name is not one the pattern means.
LEMMA FailIsRight ==
    ASSUME Bounds, Run, Hope, Fail, Simple(pattern), Meaning(pattern, name)
    PROVE  FALSE
  <1>1. Mismatch /\ pc = "scan" /\ (star_pi = NoStar \/ Refuses)
    BY DEF Fail, Mismatch, Scanning
  <1>2. PICK c \in star_ni..nlen :
            /\ Rest(pattern, Base, name, c)
            /\ star_pi = NoStar => c = 0
            /\ star_pi # NoStar /\ ~star_is_dd => DotFree(name, star_ni, c)
    BY <1>1 DEF Hope
  <1>3. c # star_ni
    BY <1>1, <1>2, MismatchMoves
  <1>4. /\ star_ni \in Nat /\ nlen \in Nat /\ (star_pi = NoStar => star_ni = 0)
    BY <1>1, ScanContext
  <1>5. star_pi # NoStar /\ ~star_is_dd /\ name[star_ni + 1] = Dot
    BY <1>1, <1>2, <1>3, <1>4 DEF Refuses
  <1>6. star_ni + 1 \in star_ni + 1..c
    BY <1>3, <1>4
  <1> QED
    BY <1>2, <1>5, <1>6 DEF DotFree

\* Every turn of the loops keeps what is known of the rest of a name that the
\* pattern means.
LEMMA HopeStep == Bounds /\ Scanned /\ Run /\ Hope /\ [Next]_vars => Hope'
  <1> SUFFICES ASSUME Bounds, Scanned, Run, Hope, [Next]_vars PROVE Hope'
    OBVIOUS
  <1>1. CASE TakeStar
    BY <1>1, HopeTakeStar
  <1>2. CASE TakeLiteral \/ UNCHANGED vars
    BY <1>2 DEF TakeLiteral, Scanning, vars, input, Hope, Base, nlen
  <1>3. CASE Backtrack
    BY <1>3, HopeBacktrack
  <1>4. CASE Fail \/ ScanEnd \/ SkipStar \/ Finish
    BY <1>4 DEF Fail, ScanEnd, SkipStar, Finish, Answer, Hope
  <1> QED
    BY <1>1, <1>2, <1>3, <1>4 DEF Next

\* The same behind the last character of the name.
LEMMA TrailStep == Bounds /\ Run /\ Hope /\ Trail /\ Scanned /\ [Next]_vars => Trail'
  <1> SUFFICES ASSUME Bounds, Run, Hope, Trail, Scanned, [Next]_vars PROVE Trail'
    OBVIOUS
  <1>1. CASE ScanEnd
    <2>1. pc = "scan" /\ ni >= nlen /\ UNCHANGED <<pattern, name, pi>>
      BY <1>1 DEF ScanEnd, input
    <2>2. SUFFICES ASSUME Simple(pattern), Meaning(pattern, name)
                   PROVE  Rest(pattern, pi, name, nlen)
      BY <2>1 DEF Trail, nlen
    <2>3. PICK c \in star_ni..nlen : Rest(pattern, Base, name, c)
      BY <2>1, <2>2 DEF Hope
    <2>4. /\ nlen \in Nat /\ star_ni \in Nat /\ ni \in Nat /\ ni <= nlen
          /\ pi - Base \in Nat /\ star_ni + (pi - Base) = ni
      BY <2>1, ScanContext
    <2>5. c \in 0..nlen
      BY <2>4
    <2>6. c + (pi - Base) <= nlen /\ Rest(pattern, pi, name, c + (pi - Base))
      BY <2>1, <2>3, <2>5, RestAfterRun
    <2>7. c + (pi - Base) = nlen
      BY <2>1, <2>4, <2>6
    <2> QED
      BY <2>6, <2>7
  <1>2. CASE SkipStar
    <2> DEFINE w == Width(IsStar(pi + 1))
    <2>1. pc = "trail" /\ IsStar(pi) /\ pi' = pi + w /\ UNCHANGED <<pattern, name>>
      BY <1>2 DEF SkipStar, input
    <2>2. SUFFICES ASSUME Simple(pattern), Meaning(pattern, name)
                   PROVE  Rest(pattern, pi + w, name, nlen)
      BY <2>1 DEF Trail, nlen
    <2>3. w \in {1, 2}
      BY DEF Width
    <2>4. /\ Len(pattern) \in Nat /\ Len(name) \in Nat /\ nlen = Len(name) /\ pi \in Nat
      BY Context
    <2>5. Rest(pattern, pi, name, Len(name))
      BY <2>1, <2>2, <2>4 DEF Trail
    <2> HIDE DEF w
    <2>6. PICK c \in Len(name)..Len(name) :
             /\ Rest(pattern, pi + w, name, c)
             /\ w = 1 /\ Single(pattern, pi + 1) => DotFree(name, Len(name), c)
      <3>1. Len(name) <= Len(name)
        BY <2>4
      <3> QED
        BY <3>1, <2>3, <2>4, <2>5, HeadStar
    <2>7. c = nlen
      BY <2>4
    <2> QED
      BY <2>6, <2>7
  <1>3. CASE UNCHANGED vars
    BY <1>3 DEF vars, input, Trail, nlen
  <1>4. CASE TakeStar \/ TakeLiteral \/ Backtrack \/ Fail \/ Finish
    BY <1>4 DEF TakeStar, TakeLiteral, Backtrack, Fail, Finish, Answer, Mismatch, Scanning, Trail
  <1> QED
    BY <1>1, <1>2, <1>3, <1>4 DEF Next

\* The answer FALSE is right on simple patterns.
LEMMA CompleteStep ==
    Bounds /\ Run /\ Hope /\ Trail /\ CompleteOnSimple /\ [Next]_vars => CompleteOnSimple'
  <1> SUFFICES ASSUME Bounds, Run, Hope, Trail, CompleteOnSimple, [Next]_vars
               PROVE  CompleteOnSimple'
    OBVIOUS
  <1>1. CASE Fail
    <2>1. UNCHANGED <<pattern, name>>
      BY <1>1 DEF Fail, Answer, input
    <2> QED
      BY <2>1, <1>1, FailIsRight DEF CompleteOnSimple
  <1>2. CASE Finish
    <2>1. /\ pc = "trail" /\ ~IsStar(pi) /\ result' = (pi = plen)
          /\ UNCHANGED <<pattern, name>>
      BY <1>2 DEF Finish, Answer, input
    <2>2. SUFFICES ASSUME pi # plen, Simple(pattern), Meaning(pattern, name) PROVE FALSE
      BY <2>1 DEF CompleteOnSimple
    <2>3. /\ Len(pattern) \in Nat /\ Len(name) \in Nat /\ nlen = Len(name) /\ plen = Len(pattern)
          /\ pi \in Nat /\ pi < Len(pattern)
      BY <2>2, Context
    <2>4. Rest(pattern, pi, name, Len(name)) /\ pattern[pi + 1] # Star
      BY <2>1, <2>2, <2>3 DEF Trail, IsStar
    <2>5. Len(name) < Len(name)
      BY <2>3, <2>4, HeadLiteral
    <2> QED
      BY <2>3, <2>5
  <1>3. CASE UNCHANGED vars
    BY <1>3 DEF vars, input, CompleteOnSimple
  <1>4. CASE TakeStar \/ TakeLiteral \/ Backtrack \/ ScanEnd \/ SkipStar
    BY <1>4 DEF TakeStar, TakeLiteral, Backtrack, ScanEnd, SkipStar, Mismatch, Scanning,
       CompleteOnSimple
  <1> QED
    BY <1>1, <1>2, <1>3, <1>4 DEF Next

\* The matcher begins with nothing scanned and everything possible.
LEMMA InitIndInv == Init => IndInv
  <1> SUFFICES ASSUME Init PROVE IndInv
    OBVIOUS
  <1>1. Bounds
    BY InitBounds
  <1>2. /\ pi = 0 /\ ni = 0 /\ star_pi = NoStar /\ star_ni = 0 /\ pc = "scan"
    BY DEF Init
  <1>3. Scanned
    <2> DEFINE by == [x \in 1..0 |-> x]
    <2>1. by \in [1..0 -> 1..0] /\ 1..0 = {}
      OBVIOUS
    <2> HIDE DEF by
    <2>2. Matches(pattern, 1..0, name, 1..0, by)
      BY <2>1 DEF Matches
    <2>3. Fits(pattern, 1..0, name, 1..0)
      BY <2>1, <2>2 DEF Fits
    <2> QED
      BY <2>3, <1>2 DEF Scanned
  <1>4. Base = 0 /\ pi - Base = 0 /\ ni - star_ni = 0
    BY <1>2 DEF Base
  <1>5. Run
    BY <1>2, <1>4 DEF Run, Literals, Agree
  <1>6. Hope
    <2> SUFFICES ASSUME Meaning(pattern, name)
                 PROVE  Rest(pattern, 0, name, 0) /\ 0 \in 0..nlen
      BY <1>2, <1>4 DEF Hope
    <2>1. DOMAIN pattern = 0 + 1..Len(pattern) /\ DOMAIN name = 0 + 1..Len(name) /\ nlen \in Nat
      BY <1>1, Context
    <2> QED
      BY <2>1 DEF Meaning, Rest
  <1> QED
    BY <1>1, <1>2, <1>3, <1>5, <1>6 DEF IndInv, Trail, CompleteOnSimple

\* The inductive invariant holds in every state of every run of the matcher.
THEOREM Invariance == Spec => []IndInv
  <1>1. IndInv /\ [Next]_vars => IndInv'
    BY BoundsStep, ScannedStep, RunStep, HopeStep, TrailStep, CompleteStep DEF IndInv
  <1> QED
    BY <1>1, InitIndInv, PTL DEF Spec

\* For every pattern and every name: if the matcher answers TRUE, the characters
\* of the name can be matched one by one as the header says.
THEOREM Soundness == Spec => []Sound
  <1>1. IndInv => Sound
    <2> SUFFICES ASSUME IndInv, pc = "done", result PROVE Meaning(pattern, name)
      BY DEF Sound
    <2>1. pi = plen /\ ni = nlen /\ Fits(pattern, 1..pi, name, 1..ni)
      BY DEF IndInv, Scanned
    <2>2. DOMAIN pattern = 1..plen /\ DOMAIN name = 1..nlen
      BY Context DEF IndInv
    <2> QED
      BY <2>1, <2>2 DEF Meaning
  <1> QED
    BY <1>1, Invariance, PTL

\* For every pattern without three stars in a row and without a single star to
\* the right of a double one, and for every name: if the matcher answers FALSE,
\* no such matching exists, although it only ever retries the last star.
THEOREM Completeness == Spec => []CompleteOnSimple
  <1>1. IndInv => CompleteOnSimple
    BY DEF IndInv
  <1> QED
    BY <1>1, Invariance, PTL
=============================================================================
