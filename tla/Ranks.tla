------------------------------- MODULE Ranks -------------------------------
(***************************************************************************)
(* The rank algebra of the tracker: the sparse keys that order the items   *)
(* of a project (src/services/api/internal/tracker/rank.go).               *)
(*                                                                         *)
(* A rank is a string over a fixed alphabet, compared as a string.  Here a *)
(* letter is its distance from rankMin, so a rank is a sequence over       *)
(* 0 .. Base-1 and the order is the lexicographic one.  The code's         *)
(* alphabet has 26 letters; the algebra is stated for any Base.            *)
(***************************************************************************)
EXTENDS Integers, Sequences

CONSTANTS
  Base,     \* rankBase: how many letters the alphabet has
  NoRank    \* what Between yields when it refuses

\* Two letters are what it takes for a midpoint to exist at all.
ASSUME BaseAssumption == Base \in Nat /\ Base >= 2

Digits == 0 .. (Base - 1)
Ranks  == Seq(Digits)
Open   == << >>          \* the empty rank: an open end of the order

ASSUME NoRankAssumption == NoRank \notin Ranks

(***************************************************************************)
(* Go's string comparison: the first position that differs decides, and a  *)
(* proper prefix sorts before what it begins.                              *)
(***************************************************************************)
Less(a, b) ==
  \E k \in 1 .. Len(b) :
    /\ k <= Len(a) + 1
    /\ \A j \in 1 .. (k - 1) : a[j] = b[j]
    /\ k <= Len(a) => a[k] < b[k]

(***************************************************************************)
(* bounds: the range a digit may take at position i.  Past the end of prev *)
(* the floor is the first letter; past the end of next the ceiling is one  *)
(* past the last.                                                          *)
(***************************************************************************)
Lo(prev, i) == IF i <= Len(prev) THEN prev[i] ELSE 0

\* A fault for the checks: the open ceiling is one letter too high.
FaultyHi(next, i) == IF i <= Len(next) THEN next[i] ELSE Base + 1

Hi(next, i) == IF i <= Len(next) THEN next[i] ELSE Base

Mid(prev, next, i) == (Lo(prev, i) + Hi(next, i)) \div 2

\* The loop of Between stops at the first position whose midpoint is not the
\* floor.  One position past both ranks always qualifies.
HasRoom(prev, next, i) == Mid(prev, next, i) # Lo(prev, i)

Longest(prev, next) == IF Len(prev) > Len(next) THEN Len(prev) ELSE Len(next)

StopAt(prev, next) ==
  CHOOSE k \in 1 .. (Longest(prev, next) + 1) :
    /\ HasRoom(prev, next, k)
    /\ \A j \in 1 .. (k - 1) : ~HasRoom(prev, next, j)

\* What the loop has written when it returns: the floor at every position it
\* passed, and the midpoint at the one it stopped at.
Minted(prev, next) ==
  [i \in 1 .. StopAt(prev, next) |->
     IF i < StopAt(prev, next) THEN Lo(prev, i) ELSE Mid(prev, next, i)]

Between(prev, next) ==
  IF next # Open /\ ~Less(prev, next) THEN NoRank ELSE Minted(prev, next)

(***************************************************************************)
(* Rank.Validate: not empty, and no trailing first letter.                 *)
(***************************************************************************)
ValidRank(r) == r \in Ranks /\ r # Open /\ r[Len(r)] # 0

(***************************************************************************)
(* The two ends leave room where they first differ: next continues prev,   *)
(* or the letters at that position are not neighbours in the alphabet.     *)
(* This is where Between keeps its promise; adjacent letters with a tail   *)
(* behind them are where it does not (see MCOrder).                        *)
(***************************************************************************)
Roomy(prev, next) ==
  \/ next = Open
  \/ \E k \in 1 .. Len(next) :
       /\ k <= Len(prev) + 1
       /\ \A j \in 1 .. (k - 1) : prev[j] = next[j]
       /\ k <= Len(prev) => prev[k] + 2 <= next[k]
=============================================================================
