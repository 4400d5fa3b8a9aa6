----------------------------- MODULE StoreProofs -----------------------------
(***************************************************************************)
(* The tracker's store: the order it keeps its items in, and its files.    *)
(*                                                                         *)
(* What tracker.Between guarantees, for every alphabet and every pair of   *)
(* ranks: which calls mint a rank strictly between their two neighbours.   *)
(* And Order, for every finite set of items and every alphabet: creation   *)
(* appends, and a drag between ranks with room lands where it was dropped. *)
(*                                                                         *)
(* What Persistence guarantees for every set of entities and values and    *)
(* for runs of every length: its state keeps its shape, memory and files   *)
(* agree between operations, the store implements AtomicStore, and an      *)
(* event that is recorded is numbered above every event shown before.      *)
(***************************************************************************)
EXTENDS Order, Persistence, FiniteSetTheorems, SequenceTheorems, WellFoundedInduction, TLAPS

(***************************************************************************)
(* A non-empty set of positions has a first one.  The loop of Between      *)
(* stops because of this.                                                  *)
(***************************************************************************)
LEMMA FirstPosition ==
  ASSUME NEW n \in Nat, NEW T \in SUBSET (1 .. n), T # {}
  PROVE  \E m \in T : \A k \in T : m <= k
<1> DEFINE S == 1 .. n
           F == {1 .. k : k \in T}
<1>1. IsFiniteSet(S)
  BY FS_Interval
<1>2. IsWellFoundedOn(StrictSubsetOrdering(S), SUBSET S)
  BY <1>1, FS_StrictSubsetOrderingWellFounded, FS_FiniteSubsetsOfFinite
<1>3. F \subseteq SUBSET S /\ F # {}
  <2>1. \A k \in T : 1 .. k \in SUBSET S
    OBVIOUS
  <2>2. F \subseteq SUBSET S
    BY <2>1
  <2>3. PICK k \in T : TRUE
    OBVIOUS
  <2>4. 1 .. k \in F
    OBVIOUS
  <2> QED BY <2>2, <2>4
<1> HIDE DEF F, S
<1>4. PICK x \in F : \A y \in F : ~(<<y, x>> \in StrictSubsetOrdering(S))
  BY <1>2, <1>3, WFMin
<1>5. PICK m \in T : x = 1 .. m
  BY <1>4 DEF F
<1>6. \A k \in T : m <= k
  <2> SUFFICES ASSUME NEW k \in T, k < m
               PROVE  FALSE
    OBVIOUS
  <2>1. 1 .. k \in F
    BY DEF F
  <2>2. 1 .. k \subseteq 1 .. m /\ 1 .. k # 1 .. m
    <3>1. m \in 1 .. m /\ m \notin 1 .. k
      OBVIOUS
    <3> QED BY <3>1
  <2>3. <<1 .. k, x>> \in StrictSubsetOrdering(S)
    BY <2>1, <2>2, <1>3, <1>4, <1>5 DEF StrictSubsetOrdering
  <2> QED BY <2>1, <2>3, <1>4
<1> QED BY <1>6

(***************************************************************************)
(* The loop of Between terminates: it stops at the first position whose    *)
(* midpoint is not the floor, at most one past the longer rank.            *)
(***************************************************************************)
LEMMA Stops ==
  ASSUME NEW prev \in Ranks, NEW next \in Ranks
  PROVE  /\ StopAt(prev, next) \in 1 .. (Longest(prev, next) + 1)
         /\ HasRoom(prev, next, StopAt(prev, next))
         /\ \A j \in 1 .. (StopAt(prev, next) - 1) : ~HasRoom(prev, next, j)
<1> DEFINE n == Longest(prev, next) + 1
           T == {i \in 1 .. n : HasRoom(prev, next, i)}
<1>1. n \in Nat /\ n >= 1 /\ n > Len(prev) /\ n > Len(next)
  BY DEF Longest, Ranks
<1>2. HasRoom(prev, next, n)
  BY <1>1, BaseAssumption DEF HasRoom, Mid, Lo, Hi
<1>3. T # {} /\ T \in SUBSET (1 .. n)
  BY <1>1, <1>2
<1>4. PICK m \in T : \A k \in T : m <= k
  <2> HIDE DEF T, n
  <2> QED BY <1>1, <1>3, FirstPosition
<1>5. /\ m \in 1 .. n
      /\ HasRoom(prev, next, m)
      /\ \A j \in 1 .. (m - 1) : ~HasRoom(prev, next, j)
  <2> SUFFICES ASSUME NEW j \in 1 .. (m - 1), HasRoom(prev, next, j)
               PROVE  FALSE
    BY <1>4
  <2>1. j \in T
    BY <1>1, <1>4
  <2> QED BY <2>1, <1>4
<1> QED BY <1>5 DEF StopAt

(***************************************************************************)
(* What the loop writes: prev's digits (first letters past its end) up to  *)
(* the position it stopped at, and there the midpoint.                     *)
(***************************************************************************)
LEMMA MintedShape ==
  ASSUME NEW prev \in Ranks, NEW next \in Ranks
  PROVE  LET s == StopAt(prev, next)
             r == Minted(prev, next)
         IN  /\ s \in Nat /\ s >= 1
             /\ Len(r) = s
             /\ \A i \in 1 .. (s - 1) : r[i] = Lo(prev, i) /\ Mid(prev, next, i) = Lo(prev, i)
             /\ r[s] = Mid(prev, next, s)
             /\ r[s] # Lo(prev, s)
             /\ r \in Ranks
<1> DEFINE s == StopAt(prev, next)
           r == Minted(prev, next)
<1>1. s \in Nat /\ s >= 1
  BY Stops DEF Longest, Ranks
<1>2. \A i \in Nat \ {0} : /\ Lo(prev, i) \in Digits
                           /\ Hi(next, i) \in 0 .. Base
                           /\ Mid(prev, next, i) \in Digits
  <2> SUFFICES ASSUME NEW i \in Nat \ {0}
               PROVE  /\ Lo(prev, i) \in Digits
                      /\ Hi(next, i) \in 0 .. Base
                      /\ Mid(prev, next, i) \in Digits
    OBVIOUS
  <2>1. Lo(prev, i) \in Digits
    BY BaseAssumption DEF Lo, Ranks, Digits
  <2>2. Hi(next, i) \in 0 .. Base
    BY BaseAssumption DEF Hi, Ranks, Digits
  <2>3. Mid(prev, next, i) \in Digits
    BY <2>1, <2>2, BaseAssumption DEF Mid, Digits
  <2> QED BY <2>1, <2>2, <2>3
<1>3. /\ r = [i \in 1 .. s |-> IF i < s THEN Lo(prev, i) ELSE Mid(prev, next, i)]
      /\ r[s] = Mid(prev, next, s)
      /\ \A i \in 1 .. (s - 1) : r[i] = Lo(prev, i)
  BY <1>1 DEF Minted
<1>4. r \in [1 .. s -> Digits]
  BY <1>1, <1>2, <1>3
<1>5. r \in Ranks /\ Len(r) = s
  BY <1>1, <1>4 DEF Ranks
<1>6. \A i \in 1 .. (s - 1) : Mid(prev, next, i) = Lo(prev, i)
  BY Stops DEF HasRoom
<1>7. r[s] # Lo(prev, s)
  BY Stops, <1>3 DEF HasRoom
<1> QED BY <1>1, <1>3, <1>5, <1>6, <1>7

(***************************************************************************)
(* Appending: a rank minted with no upper neighbour sorts after prev, and  *)
(* Validate accepts it.  CreateItem relies on this for every new item, and *)
(* a move to the end of the order for every drop there.                    *)
(***************************************************************************)
THEOREM AppendSortsLast ==
  ASSUME NEW prev \in Ranks
  PROVE  /\ Between(prev, Open) # NoRank
         /\ ValidRank(Between(prev, Open))
         /\ Less(prev, Between(prev, Open))
<1> DEFINE s == StopAt(prev, Open)
           r == Minted(prev, Open)
<1>1. Open \in Ranks /\ Len(Open) = 0
  BY DEF Open, Ranks
<1>2. /\ s \in Nat /\ s >= 1 /\ Len(r) = s
      /\ \A i \in 1 .. (s - 1) : r[i] = Lo(prev, i) /\ Mid(prev, Open, i) = Lo(prev, i)
      /\ r[s] = Mid(prev, Open, s)
      /\ r[s] # Lo(prev, s)
      /\ r \in Ranks
  BY <1>1, MintedShape
<1>3. s <= Len(prev) + 1
  <2>1. s \in 1 .. (Longest(prev, Open) + 1)
    BY <1>1, Stops
  <2>2. Len(prev) \in Nat /\ Longest(prev, Open) = Len(prev)
    BY <1>1 DEF Longest, Ranks
  <2> QED BY <2>1, <2>2
<1>4. Lo(prev, s) \in Digits
  BY <1>2, BaseAssumption DEF Lo, Ranks, Digits
<1>5. r[s] > Lo(prev, s)
  <2>1. Mid(prev, Open, s) = (Lo(prev, s) + Base) \div 2
    BY <1>1, <1>2 DEF Mid, Hi
  <2>2. (Lo(prev, s) + Base) \div 2 >= Lo(prev, s)
    BY <1>4, BaseAssumption DEF Digits
  <2>3. (Lo(prev, s) + Base) \div 2 \in Int
    BY <1>4, BaseAssumption DEF Digits
  <2> QED BY <1>2, <1>4, <2>1, <2>2, <2>3 DEF Digits
<1>6. Less(prev, r)
  <2>1. \A j \in 1 .. (s - 1) : prev[j] = r[j]
    BY <1>2, <1>3 DEF Lo, Ranks
  <2>2. s <= Len(prev) => prev[s] < r[s]
    BY <1>2, <1>4, <1>5 DEF Lo, Digits
  <2> QED BY <1>2, <1>3, <2>1, <2>2 DEF Less
<1>7. ValidRank(r)
  BY <1>2, <1>4, <1>5, <1>1 DEF ValidRank, Digits, Open
<1>8. Between(prev, Open) = r
  BY DEF Between
<1>9. r # NoRank
  BY <1>2, NoRankAssumption
<1> QED BY <1>6, <1>7, <1>8, <1>9

(***************************************************************************)
(* A neighbour below whose letters are matched by next: next continues     *)
(* prev.  Putting an item before everything (prev = Open) is this case.    *)
(***************************************************************************)
LEMMA BetweenContinued ==
  ASSUME NEW prev \in Ranks, NEW next \in Ranks, ValidRank(next),
         Len(prev) < Len(next),
         \A j \in 1 .. Len(prev) : prev[j] = next[j]
  PROVE  /\ ValidRank(Minted(prev, next))
         /\ Less(prev, Minted(prev, next))
         /\ Less(Minted(prev, next), next)
<1> DEFINE s == StopAt(prev, next)
           r == Minted(prev, next)
           p == Len(prev)
           q == Len(next)
<1>0. p \in Nat /\ q \in Nat /\ p < q
  BY DEF Ranks
<1>1. /\ s \in Nat /\ s >= 1 /\ Len(r) = s
      /\ \A i \in 1 .. (s - 1) : r[i] = Lo(prev, i) /\ Mid(prev, next, i) = Lo(prev, i)
      /\ r[s] = Mid(prev, next, s)
      /\ r[s] # Lo(prev, s)
      /\ r \in Ranks
  BY MintedShape
<1>2. s <= q + 1
  <2>1. s \in 1 .. (Longest(prev, next) + 1)
    BY Stops
  <2> QED BY <2>1, <1>0 DEF Longest
<1>3. \A i \in 1 .. q : next[i] \in Nat /\ next[i] < Base
  BY BaseAssumption DEF Ranks, Digits
<1>4. s > p
  <2> SUFFICES ASSUME s <= p PROVE FALSE
    BY <1>0, <1>1
  <2>1. Lo(prev, s) = next[s] /\ Hi(next, s) = next[s] /\ next[s] \in Nat
    BY <1>0, <1>1, <1>3 DEF Lo, Hi
  <2> QED BY <2>1, <1>1 DEF Mid
<1>5. \A i \in Nat : i > p => Lo(prev, i) = 0
  BY <1>0 DEF Lo
<1>6. r[s] \in Nat /\ r[s] > 0
  <2>1. r[s] \in Digits
    BY <1>1 DEF Ranks
  <2> QED BY <2>1, <1>1, <1>4, <1>5 DEF Digits
<1>7. ValidRank(r)
  BY <1>1, <1>6 DEF ValidRank, Open
<1>8. \A j \in 1 .. p : r[j] = prev[j]
  BY <1>0, <1>1, <1>4 DEF Lo
<1>9. Less(prev, r)
  BY <1>0, <1>1, <1>4, <1>8 DEF Less
<1>10. s <= q => r[s] < next[s]
  <2> SUFFICES ASSUME s <= q PROVE r[s] < next[s]
    OBVIOUS
  <2>1. r[s] = (0 + next[s]) \div 2 /\ next[s] \in Nat
    BY <1>0, <1>1, <1>3, <1>4, <1>5 DEF Mid, Hi
  <2> QED BY <2>1, <1>6
<1>11. Less(r, next)
  <2> DEFINE T == {i \in 1 .. q : i > p /\ next[i] > 0}
  <2>1. q \in T
    BY <1>0, <1>3 DEF ValidRank
  <2>2. PICK m \in T : \A k \in T : m <= k
    <3>1. T \in SUBSET (1 .. q) /\ T # {}
      BY <2>1
    <3> HIDE DEF T, q
    <3> QED BY <1>0, <3>1, FirstPosition
  <2>3. m \in 1 .. q /\ m > p /\ next[m] > 0
    OBVIOUS
  <2>4. \A j \in 1 .. (m - 1) : j > p => next[j] = 0
    <3> SUFFICES ASSUME NEW j \in 1 .. (m - 1), j > p, next[j] # 0 PROVE FALSE
      OBVIOUS
    <3>1. j \in 1 .. q /\ next[j] > 0
      BY <1>0, <1>3, <2>3
    <3>2. j \in T
      BY <3>1
    <3> QED BY <3>2, <2>2, <1>0
  <2>5. m <= s
    <3> SUFFICES ASSUME s < m PROVE FALSE
      BY <1>0, <1>1, <2>3
    <3>1. s <= q /\ s > p /\ next[s] = 0
      BY <1>0, <1>1, <1>4, <2>3, <2>4
    <3> QED BY <3>1, <1>10, <1>6
  <2>6. \A j \in 1 .. (m - 1) : r[j] = next[j]
    <3> SUFFICES ASSUME NEW j \in 1 .. (m - 1) PROVE r[j] = next[j]
      OBVIOUS
    <3>1. CASE j <= p
      BY <3>1, <1>0, <1>8, <2>3
    <3>2. CASE j > p
      BY <3>2, <1>0, <1>1, <1>5, <2>3, <2>4, <2>5
    <3> QED BY <3>1, <3>2, <1>0
  <2>7. r[m] < next[m]
    <3>1. CASE m = s
      BY <3>1, <1>10, <2>3
    <3>2. CASE m < s
      BY <3>2, <1>0, <1>1, <1>3, <1>5, <2>3
    <3> QED BY <3>1, <3>2, <2>5, <1>0, <1>1
  <2>8. m \in 1 .. Len(next) /\ m <= Len(r) + 1
    BY <1>0, <1>1, <2>3, <2>5
  <2> QED BY <2>6, <2>7, <2>8 DEF Less
<1> QED BY <1>7, <1>9, <1>11

(***************************************************************************)
(* Neighbours whose letters, where they first differ, are not adjacent.    *)
(***************************************************************************)
LEMMA BetweenWide ==
  ASSUME NEW prev \in Ranks, NEW next \in Ranks,
         NEW k \in 1 .. Len(next), k <= Len(prev),
         \A j \in 1 .. (k - 1) : prev[j] = next[j],
         prev[k] + 2 <= next[k]
  PROVE  /\ ValidRank(Minted(prev, next))
         /\ Less(prev, Minted(prev, next))
         /\ Less(Minted(prev, next), next)
<1> DEFINE s == StopAt(prev, next)
           r == Minted(prev, next)
<1>0. Len(prev) \in Nat /\ Len(next) \in Nat /\ k \in Nat /\ k >= 1
  BY DEF Ranks
<1>1. /\ s \in Nat /\ s >= 1 /\ Len(r) = s
      /\ \A i \in 1 .. (s - 1) : r[i] = Lo(prev, i) /\ Mid(prev, next, i) = Lo(prev, i)
      /\ r[s] = Mid(prev, next, s)
      /\ r[s] # Lo(prev, s)
      /\ r \in Ranks
  BY MintedShape
<1>2. \A j \in 1 .. k : prev[j] \in Nat /\ next[j] \in Nat
  <2>1. \A j \in 1 .. k : j \in DOMAIN prev /\ j \in DOMAIN next
    BY <1>0 DEF Ranks
  <2>2. \A a \in Ranks : \A j \in DOMAIN a : a[j] \in Digits
    BY DEF Ranks
  <2>3. Digits \subseteq Nat
    BY BaseAssumption DEF Digits
  <2> QED BY <2>1, <2>2, <2>3
<1>3. Mid(prev, next, k) > prev[k] /\ Mid(prev, next, k) < next[k] /\ Mid(prev, next, k) \in Nat
  <2>1. Mid(prev, next, k) = (prev[k] + next[k]) \div 2
    <3>1. Lo(prev, k) = prev[k] /\ Hi(next, k) = next[k]
      BY <1>0 DEF Lo, Hi
    <3> QED BY <3>1 DEF Mid
  <2>2. prev[k] \in Nat /\ next[k] \in Nat
    BY <1>0, <1>2
  <2> QED BY <2>1, <2>2
<1>4. s <= k
  <2> SUFFICES ASSUME k < s PROVE FALSE
    BY <1>0, <1>1
  <2>1. Mid(prev, next, k) = Lo(prev, k) /\ Lo(prev, k) = prev[k]
    BY <1>0, <1>1 DEF Lo
  <2> QED BY <2>1, <1>2, <1>3, <1>0
<1>5. s >= k
  <2> SUFFICES ASSUME s < k PROVE FALSE
    BY <1>0, <1>1
  <2>1. Lo(prev, s) = next[s] /\ Hi(next, s) = next[s] /\ next[s] \in Nat
    BY <1>0, <1>1, <1>2 DEF Lo, Hi
  <2> QED BY <2>1, <1>1 DEF Mid
<1>6. s = k
  BY <1>0, <1>1, <1>4, <1>5
<1>7. \A j \in 1 .. (k - 1) : r[j] = prev[j] /\ r[j] = next[j]
  BY <1>0, <1>1, <1>6 DEF Lo
<1>8. r[k] > prev[k] /\ r[k] < next[k]
  BY <1>1, <1>3, <1>6
<1>9. ValidRank(r)
  BY <1>0, <1>1, <1>2, <1>6, <1>8 DEF ValidRank, Open
<1>10. Less(prev, r)
  BY <1>0, <1>1, <1>6, <1>7, <1>8 DEF Less
<1>11. Less(r, next)
  BY <1>0, <1>1, <1>6, <1>7, <1>8 DEF Less
<1> QED BY <1>9, <1>10, <1>11

(***************************************************************************)
(* Whenever the two ends leave room where they first differ, Between keeps *)
(* its promise: it accepts them, and mints a valid rank that sorts after   *)
(* prev and before next.  Reorder relies on this for every drop.           *)
(***************************************************************************)
THEOREM RoomyIsBetween ==
  ASSUME NEW prev \in Ranks, NEW next \in Ranks,
         next = Open \/ ValidRank(next),
         Roomy(prev, next)
  PROVE  /\ Between(prev, next) # NoRank
         /\ ValidRank(Between(prev, next))
         /\ Less(prev, Between(prev, next))
         /\ next # Open => Less(Between(prev, next), next)
<1>1. CASE next = Open
  BY <1>1, AppendSortsLast
<1>2. CASE next # Open
  <2>1. PICK k \in 1 .. Len(next) :
           /\ k <= Len(prev) + 1
           /\ \A j \in 1 .. (k - 1) : prev[j] = next[j]
           /\ k <= Len(prev) => prev[k] + 2 <= next[k]
    BY <1>2 DEF Roomy
  <2>0. Len(prev) \in Nat /\ Len(next) \in Nat /\ k \in Nat /\ k >= 1
    BY DEF Ranks
  <2>2. Less(prev, next)
    <3>1. k <= Len(prev) => prev[k] < next[k]
      <4> SUFFICES ASSUME k <= Len(prev) PROVE prev[k] < next[k]
        OBVIOUS
      <4>1. prev[k] \in Int /\ next[k] \in Int
        BY <2>0, BaseAssumption DEF Ranks, Digits
      <4> QED BY <4>1, <2>1
    <3> QED BY <2>1, <3>1 DEF Less
  <2>3. /\ ValidRank(Minted(prev, next))
        /\ Less(prev, Minted(prev, next))
        /\ Less(Minted(prev, next), next)
    <3>1. CASE k <= Len(prev)
      BY <3>1, <2>1, BetweenWide
    <3>2. CASE k = Len(prev) + 1
      <4>1. Len(prev) < Len(next) /\ \A j \in 1 .. Len(prev) : prev[j] = next[j]
        BY <3>2, <2>0, <2>1
      <4> QED BY <4>1, <1>2, BetweenContinued
    <3> QED BY <3>1, <3>2, <2>0, <2>1
  <2>4. Between(prev, next) = Minted(prev, next)
    BY <2>2 DEF Between
  <2>5. Minted(prev, next) # NoRank
    BY <2>3, NoRankAssumption DEF ValidRank
  <2> QED BY <2>3, <2>4, <2>5
<1> QED BY <1>1, <1>2

(***************************************************************************)
(* The order on ranks is a strict total order: what sorting the items of a *)
(* project by rank, and lastRank's search for the greatest, take for       *)
(* granted.                                                                *)
(***************************************************************************)
LEMMA RankElements ==
  ASSUME NEW a \in Ranks
  PROVE  Len(a) \in Nat /\ \A j \in 1 .. Len(a) : a[j] \in Int
BY BaseAssumption DEF Ranks, Digits

\* No rank sorts before itself.
LEMMA LessIrreflexive ==
  ASSUME NEW a \in Ranks
  PROVE  ~Less(a, a)
<1> SUFFICES ASSUME NEW k \in 1 .. Len(a), k <= Len(a) => a[k] < a[k]
             PROVE  FALSE
  BY DEF Less
<1>1. Len(a) \in Nat /\ a[k] \in Int
  BY BaseAssumption DEF Ranks, Digits
<1> QED BY <1>1

\* The order of ranks is transitive.
LEMMA LessTransitive ==
  ASSUME NEW a \in Ranks, NEW b \in Ranks, NEW c \in Ranks,
         Less(a, b), Less(b, c)
  PROVE  Less(a, c)
<1>1. PICK k \in 1 .. Len(b) : /\ k <= Len(a) + 1
                               /\ \A j \in 1 .. (k - 1) : a[j] = b[j]
                               /\ k <= Len(a) => a[k] < b[k]
  BY DEF Less
<1>2. PICK m \in 1 .. Len(c) : /\ m <= Len(b) + 1
                               /\ \A j \in 1 .. (m - 1) : b[j] = c[j]
                               /\ m <= Len(b) => b[m] < c[m]
  BY DEF Less
<1>3. /\ Len(a) \in Nat /\ Len(b) \in Nat /\ Len(c) \in Nat
      /\ \A j \in 1 .. Len(a) : a[j] \in Int
      /\ \A j \in 1 .. Len(b) : b[j] \in Int
      /\ \A j \in 1 .. Len(c) : c[j] \in Int
  BY RankElements
<1>4. CASE k < m
  <2>1. k \in 1 .. Len(c) /\ b[k] = c[k]
    BY <1>2, <1>3, <1>4
  <2>2. \A j \in 1 .. (k - 1) : a[j] = c[j]
    BY <1>1, <1>2, <1>3, <1>4
  <2> QED BY <1>1, <2>1, <2>2 DEF Less
<1>5. CASE m <= k
  <2>1. m <= Len(b) /\ b[m] < c[m]
    BY <1>1, <1>2, <1>3, <1>5
  <2>2. \A j \in 1 .. (m - 1) : a[j] = c[j]
    BY <1>1, <1>2, <1>3, <1>5
  <2>3. m <= Len(a) + 1
    BY <1>1, <1>2, <1>3, <1>5
  <2>4. m <= Len(a) => a[m] < c[m]
    <3>1. CASE m = k
      BY <3>1, <1>1, <1>2, <1>3, <2>1
    <3>2. CASE m < k
      BY <3>2, <1>1, <1>2, <1>3, <2>1
    <3> QED BY <3>1, <3>2, <1>1, <1>2, <1>3, <1>5
  <2> QED BY <1>2, <2>2, <2>3, <2>4 DEF Less
<1> QED BY <1>3, <1>4, <1>5

\* Of two different ranks one sorts before the other.
LEMMA LessTotal ==
  ASSUME NEW a \in Ranks, NEW b \in Ranks, a # b
  PROVE  Less(a, b) \/ Less(b, a)
<1> DEFINE n == Longest(a, b)
           Differ(i) == \/ i > Len(a) \/ i > Len(b)
                        \/ i <= Len(a) /\ i <= Len(b) /\ a[i] # b[i]
           T == {i \in 1 .. n : Differ(i)}
<1>1. /\ Len(a) \in Nat /\ Len(b) \in Nat /\ n \in Nat
      /\ n >= Len(a) /\ n >= Len(b)
      /\ n = Len(a) \/ n = Len(b)
      /\ \A j \in 1 .. Len(a) : a[j] \in Int
      /\ \A j \in 1 .. Len(b) : b[j] \in Int
  BY BaseAssumption DEF Ranks, Digits, Longest
<1>2. T # {}
  <2> SUFFICES ASSUME T = {} PROVE FALSE
    OBVIOUS
  <2>1. Len(a) = Len(b)
    <3> SUFFICES ASSUME Len(a) # Len(b) PROVE FALSE
      OBVIOUS
    <3>1. n \in 1 .. n /\ (n > Len(a) \/ n > Len(b))
      BY <1>1
    <3>2. n \in T
      BY <3>1
    <3> QED BY <3>2
  <2>2. \A i \in 1 .. Len(a) : a[i] = b[i]
    BY <1>1, <2>1
  <2>3. a = b
    BY <2>1, <2>2, SeqEqual DEF Ranks
  <2> QED BY <2>3
<1>3. PICK m \in T : \A k \in T : m <= k
  <2>1. T \in SUBSET (1 .. n)
    OBVIOUS
  <2> HIDE DEF T, n
  <2> QED BY <1>1, <1>2, <2>1, FirstPosition
<1>4. m \in 1 .. n /\ Differ(m)
  OBVIOUS
<1>5. \A j \in 1 .. (m - 1) : j <= Len(a) /\ j <= Len(b) /\ a[j] = b[j]
  <2> SUFFICES ASSUME NEW j \in 1 .. (m - 1),
                      ~(j <= Len(a) /\ j <= Len(b) /\ a[j] = b[j])
               PROVE  FALSE
    OBVIOUS
  <2>1. j \in 1 .. n /\ Differ(j)
    BY <1>1, <1>4
  <2>2. j \in T
    BY <2>1
  <2> QED BY <2>2, <1>3, <1>4, <1>1
<1>6. m <= Len(a) + 1 /\ m <= Len(b) + 1
  <2>1. CASE m = 1
    BY <2>1, <1>1
  <2>2. CASE m > 1
    <3>1. m - 1 \in 1 .. (m - 1)
      BY <2>2, <1>1, <1>4
    <3> QED BY <3>1, <1>5, <1>1, <1>4
  <2> QED BY <2>1, <2>2, <1>1, <1>4
<1>7. CASE m > Len(a)
  <2>1. m \in 1 .. Len(b)
    BY <1>1, <1>4, <1>7
  <2> QED BY <2>1, <1>1, <1>5, <1>6, <1>7 DEF Less
<1>8. CASE m > Len(b)
  <2>1. m \in 1 .. Len(a)
    BY <1>1, <1>4, <1>8
  <2> QED BY <2>1, <1>1, <1>5, <1>6, <1>8 DEF Less
<1>9. CASE m <= Len(a) /\ m <= Len(b) /\ a[m] < b[m]
  BY <1>1, <1>4, <1>5, <1>6, <1>9 DEF Less
<1>10. CASE m <= Len(a) /\ m <= Len(b) /\ b[m] < a[m]
  BY <1>1, <1>4, <1>5, <1>6, <1>10 DEF Less
<1> QED BY <1>1, <1>4, <1>7, <1>8, <1>9, <1>10

----------------------------------------------------------------------------
(***************************************************************************)
(* A finite non-empty set of ranks has a greatest one.                     *)
(***************************************************************************)
LEMMA GreatestRank ==
  ASSUME NEW S \in SUBSET Ranks, IsFiniteSet(S), S # {}
  PROVE  \E r \in S : \A q \in S : ~Less(r, q)
<1> DEFINE Above(r) == {q \in S : Less(r, q)}
           F == {Above(r) : r \in S}
<1>1. IsWellFoundedOn(StrictSubsetOrdering(S), SUBSET S)
  BY FS_StrictSubsetOrderingWellFounded, FS_FiniteSubsetsOfFinite
<1>2. F \subseteq SUBSET S /\ F # {}
  OBVIOUS
<1>3. PICK x \in F : \A y \in F : ~(<<y, x>> \in StrictSubsetOrdering(S))
  <2> HIDE DEF F
  <2> QED BY <1>1, <1>2, WFMin
<1>4. PICK r \in S : x = Above(r)
  OBVIOUS
<1>5. ASSUME NEW q \in S, Less(r, q)
      PROVE  FALSE
  <2>1. Above(q) \subseteq Above(r)
    BY <1>5, LessTransitive
  <2>2. q \in Above(r) /\ q \notin Above(q)
    BY <1>5, LessIrreflexive
  <2>3. <<Above(q), x>> \in StrictSubsetOrdering(S)
    BY <2>1, <2>2, <1>4 DEF StrictSubsetOrdering
  <2> QED BY <2>3, <1>3
<1> QED BY <1>5

(***************************************************************************)
(* lastRank finds a rank no stored item sorts after.                       *)
(***************************************************************************)
LEMMA LastRankIsGreatest ==
  ASSUME OrderTypeOK
  PROVE  /\ LastRank \in Ranks
         /\ \A i \in Stored : rank[i] \in Ranks /\ ~Less(LastRank, rank[i])
<1> DEFINE held == {rank[i] : i \in Stored} \cup {Open}
<1>1. \A i \in Stored : rank[i] \in Ranks
  BY DEF OrderTypeOK, Stored
<1>2. held \in SUBSET Ranks /\ held # {}
  <2>1. Open \in Ranks
    BY DEF Open, Ranks
  <2> QED BY <1>1, <2>1
<1>3. IsFiniteSet(held)
  <2>1. IsFiniteSet(Stored)
    BY ItemsAssumption, FS_Subset DEF Stored
  <2>2. IsFiniteSet({rank[i] : i \in Stored})
    <3> DEFINE T == {rank[i] : i \in Stored}
               f == [i \in Stored |-> rank[i]]
    <3>1. f \in Surjection(Stored, T)
      BY DEF Surjection
    <3> HIDE DEF T, f
    <3> QED BY <2>1, <3>1, FS_Surjection DEF T
  <2> QED BY <2>2, FS_AddElement
<1>4. \E r \in held : \A q \in held : ~Less(r, q)
  <2> HIDE DEF held
  <2> QED BY <1>2, <1>3, GreatestRank
<1>5. LastRank \in held /\ \A q \in held : ~Less(LastRank, q)
  BY <1>4 DEF LastRank
<1> QED BY <1>1, <1>2, <1>5

(***************************************************************************)
(* Between yields either a refusal or a rank with at least one letter.     *)
(***************************************************************************)
LEMMA BetweenType ==
  ASSUME NEW prev \in Ranks, NEW next \in Ranks
  PROVE  Between(prev, next) \in (Ranks \ {Open}) \cup {NoRank}
<1>1. Minted(prev, next) \in Ranks /\ Len(Minted(prev, next)) >= 1
  BY MintedShape
<1>2. Minted(prev, next) # Open
  BY <1>1 DEF Open
<1> QED BY <1>1, <1>2 DEF Between

----------------------------------------------------------------------------
(***************************************************************************)
(* No sequence of operations stores the empty rank or a string outside the *)
(* alphabet.                                                               *)
(***************************************************************************)
THEOREM OrderTypeCorrect == OrderSpec => []OrderTypeOK
<1>1. OrderInit => OrderTypeOK
  BY DEF OrderInit, OrderTypeOK
<1>2. OrderTypeOK /\ [OrderNext]_rank => OrderTypeOK'
  <2> SUFFICES ASSUME OrderTypeOK, [OrderNext]_rank
               PROVE  OrderTypeOK'
    OBVIOUS
  <2>0. Open \in Ranks
    BY DEF Open, Ranks
  <2>1. ASSUME NEW i \in Items, CreateItem(i)
        PROVE  OrderTypeOK'
    <3>1. Between(LastRank, Open) \in (Ranks \ {Open}) \cup {NoRank}
      BY <2>0, LastRankIsGreatest, BetweenType
    <3> QED BY <2>1, <3>1 DEF CreateItem, OrderTypeOK
  <2>2. ASSUME NEW i \in Items, NEW after \in Items \cup {Nobody},
               NEW before \in Items \cup {Nobody}, Reorder(i, after, before)
        PROVE  OrderTypeOK'
    <3>1. RankOf(after) \in Ranks /\ RankOf(before) \in Ranks
      BY <2>0, <2>2 DEF Reorder, RankOf, Stored, OrderTypeOK
    <3>2. DropRank(after, before) \in (Ranks \ {Open}) \cup {NoRank}
      BY <3>1, BetweenType DEF DropRank
    <3> QED BY <2>2, <3>2 DEF Reorder, OrderTypeOK
  <2>3. ASSUME NEW i \in Items, DeleteItem(i)
        PROVE  OrderTypeOK'
    BY <2>3 DEF DeleteItem, OrderTypeOK
  <2>4. CASE UNCHANGED rank
    BY <2>4 DEF OrderTypeOK
  <2> QED BY <2>1, <2>2, <2>3, <2>4 DEF OrderNext
<1> QED BY <1>1, <1>2, PTL DEF OrderSpec

(***************************************************************************)
(* CreateItem appends: whatever drags and deletions came before, a new     *)
(* item sorts after every other.                                           *)
(***************************************************************************)
THEOREM CreationAppends == OrderSpec => CreateGoesLast
<1> DEFINE Appends == \A i \in Items : i \notin Stored /\ i \in Stored' =>
                        \A j \in Stored : Less(rank[j], rank'[i])
<1>1. OrderTypeOK /\ [OrderNext]_rank => [Appends]_rank
  <2> SUFFICES ASSUME OrderTypeOK, OrderNext, NEW i \in Items, i \notin Stored, i \in Stored',
                      NEW j \in Stored
               PROVE  Less(rank[j], rank'[i])
    OBVIOUS
  <2>1. i \in Items /\ rank[i] = NoRank /\ rank'[i] # NoRank
    BY DEF Stored
  <2>2. CreateItem(i)
    <3>1. ASSUME NEW k \in Items, CreateItem(k)
          PROVE  k = i
      BY <2>1, <3>1 DEF CreateItem, OrderTypeOK
    <3>2. ASSUME NEW k \in Items, NEW after \in Items \cup {Nobody},
                 NEW before \in Items \cup {Nobody}, Reorder(k, after, before)
          PROVE  FALSE
      BY <2>1, <3>2 DEF Reorder, OrderTypeOK, Stored
    <3>3. ASSUME NEW k \in Items, DeleteItem(k)
          PROVE  FALSE
      BY <2>1, <3>3 DEF DeleteItem, OrderTypeOK, Stored
    <3> QED BY <3>1, <3>2, <3>3 DEF OrderNext
  <2>3. rank'[i] = Between(LastRank, Open)
    BY <2>2 DEF CreateItem, OrderTypeOK
  <2>4. LastRank \in Ranks /\ rank[j] \in Ranks /\ ~Less(LastRank, rank[j])
    BY LastRankIsGreatest
  <2>5. Less(LastRank, rank'[i]) /\ rank'[i] \in Ranks
    BY <2>3, <2>4, AppendSortsLast DEF ValidRank
  <2>6. CASE rank[j] = LastRank
    BY <2>5, <2>6
  <2>7. CASE rank[j] # LastRank
    <3>1. Less(rank[j], LastRank)
      BY <2>4, <2>7, LessTotal
    <3> QED BY <3>1, <2>4, <2>5, LessTransitive
  <2> QED BY <2>6, <2>7
<1>2. CreateGoesLast <=> [][Appends]_rank
  BY DEF CreateGoesLast
<1> HIDE DEF Appends
<1> QED BY <1>1, <1>2, OrderTypeCorrect, PTL DEF OrderSpec

(***************************************************************************)
(* Reorder keeps its promise wherever the two ranks leave room.            *)
(***************************************************************************)
THEOREM RoomyDropsLand == OrderSpec => RoomyDropLands
<1> DEFINE Land == \A i \in Items, after, before \in Items \cup {Nobody} :
                     /\ Reorder(i, after, before)
                     /\ Roomy(RankOf(after), RankOf(before))
                     /\ before = Nobody \/ ValidRank(rank[before])
                     => Lands(i, after, before)
<1>1. OrderTypeOK /\ [OrderNext]_rank => [Land]_rank
  <2> SUFFICES ASSUME OrderTypeOK, NEW i \in Items, NEW after \in Items \cup {Nobody},
                      NEW before \in Items \cup {Nobody},
                      Reorder(i, after, before),
                      Roomy(RankOf(after), RankOf(before)),
                      before = Nobody \/ ValidRank(rank[before])
               PROVE  Lands(i, after, before)
    OBVIOUS
  <2>1. RankOf(after) \in Ranks /\ RankOf(before) \in Ranks
    <3>1. Open \in Ranks
      BY DEF Open, Ranks
    <3> QED BY <3>1 DEF Reorder, RankOf, Stored, OrderTypeOK
  <2>2. RankOf(before) = Open \/ ValidRank(RankOf(before))
    BY DEF RankOf
  <2>3. /\ Less(RankOf(after), DropRank(after, before))
        /\ RankOf(before) # Open => Less(DropRank(after, before), RankOf(before))
    BY <2>1, <2>2, RoomyIsBetween DEF DropRank
  <2>4. rank'[i] = DropRank(after, before)
    BY DEF Reorder, OrderTypeOK
  <2>5. after \in Stored => RankOf(after) = rank[after]
    BY ItemsAssumption DEF RankOf, Stored
  <2>6. before \in Stored => RankOf(before) = rank[before] /\ rank[before] # Open
    BY ItemsAssumption, NoRankAssumption DEF RankOf, Stored, OrderTypeOK
  <2> QED BY <2>3, <2>4, <2>5, <2>6 DEF Lands
<1>2. RoomyDropLands <=> [][Land]_rank
  BY DEF RoomyDropLands
<1> HIDE DEF Land
<1> QED BY <1>1, <1>2, OrderTypeCorrect, PTL DEF OrderSpec

----------------------------------------------------------------------------
(***************************************************************************)
(*                              Persistence                                *)
(***************************************************************************)

\* Where an operation in flight has got to.
Progress ==
  /\ ~up => op = NoOp
  /\ up /\ (op = NoOp \/ op.phase # "apply") => mem = disk
  /\ up /\ op # NoOp /\ op.phase = "apply" => disk = [mem EXCEPT ![op.key] = op.val]

Readable(n) == n \in DOMAIN log /\ log[n] # Garbage

\* The lines of the feed that decode are in order, and a running process
\* counts on from the last of them.
LogOrdered ==
  /\ unended => log # << >>
  /\ \A m, n \in DOMAIN log : m < n /\ Readable(m) /\ Readable(n) => log[m] < log[n]
  /\ up => \A n \in DOMAIN log : Readable(n) => log[n] <= seq

\* What readers have seen is in the feed on disk, as long as that decodes at
\* all, and below the counter of a running process.
ShownIsKept ==
  /\ Garbage \notin Elements(log) => shown \subseteq Elements(log)
  /\ up => \A s \in shown : s <= seq

IInv == TypeOK /\ Progress /\ LogOrdered /\ ShownIsKept

----------------------------------------------------------------------------
(***************************************************************************)
(* The greatest line of an ordered feed that decodes is its last one.      *)
(***************************************************************************)
LEMMA TopIsLast ==
  ASSUME NEW s \in Seq(Nat), \A m, n \in DOMAIN s : m < n => s[m] < s[n]
  PROVE  /\ Top(Elements(s) \cup {0}) \in Nat
         /\ \A n \in DOMAIN s : s[n] <= Top(Elements(s) \cup {0})
<1> DEFINE S == Elements(s) \cup {0}
           IsTop(m) == m \in S /\ \A n \in S : n <= m
<1>1. DOMAIN s = 1 .. Len(s) /\ Len(s) \in Nat /\ \A n \in DOMAIN s : s[n] \in Nat
  OBVIOUS
<1>2. S \subseteq Nat
  BY <1>1 DEF Elements
<1>3. \E m : IsTop(m)
  <2>1. CASE Len(s) = 0
    <3>1. IsTop(0)
      BY <1>1, <2>1 DEF Elements
    <3> QED
      BY <3>1
  <2>2. CASE Len(s) # 0
    <3>1. Len(s) \in DOMAIN s /\ \A n \in DOMAIN s : n = Len(s) \/ n < Len(s)
      BY <1>1, <2>2
    <3>2. \A n \in DOMAIN s : s[n] <= s[Len(s)]
      BY <1>1, <3>1
    <3>3. IsTop(s[Len(s)])
      BY <1>1, <3>1, <3>2 DEF Elements
    <3> QED
      BY <3>3
  <2> QED
    BY <2>1, <2>2
<1>4. IsTop(Top(S))
  BY <1>3 DEF Top
<1>5. \A n \in DOMAIN s : s[n] \in S
  BY DEF Elements
<1> QED
  BY <1>2, <1>4, <1>5

(***************************************************************************)
(* What an append leaves of the feed: one more line, or the last one       *)
(* spoiled.                                                                *)
(***************************************************************************)
LEMMA LogWithShape ==
  ASSUME TypeOK, LogOrdered, NEW line \in Nat \cup {Garbage}
  PROVE  /\ LogWith(line) \in Seq(Nat \cup {Garbage}) /\ LogWith(line) # << >>
         /\ ~unended => /\ DOMAIN LogWith(line) = DOMAIN log \cup {Len(log) + 1}
                        /\ LogWith(line)[Len(log) + 1] = line
                        /\ \A n \in DOMAIN log : LogWith(line)[n] = log[n]
         /\ unended => /\ DOMAIN LogWith(line) = DOMAIN log
                       /\ Len(log) \in DOMAIN log
                       /\ LogWith(line)[Len(log)] = Garbage
                       /\ \A n \in DOMAIN log : n # Len(log) => LogWith(line)[n] = log[n]
<1>1. log \in Seq(Nat \cup {Garbage}) /\ Len(log) \in Nat /\ DOMAIN log = 1 .. Len(log)
  BY DEF TypeOK
<1>2. CASE ~unended
  <2> DEFINE T == Nat \cup {Garbage}
  <2>1. LogWith(line) = Append(log, line)
    BY <1>2 DEF LogWith
  <2>2. line \in T /\ log \in Seq(T)
    BY <1>1
  <2> HIDE DEF T
  <2>3. /\ Append(log, line) \in Seq(T)
        /\ Len(Append(log, line)) = Len(log) + 1
        /\ Append(log, line)[Len(log) + 1] = line
        /\ \A n \in 1 .. Len(log) : Append(log, line)[n] = log[n]
    BY <2>2
  <2>4. DOMAIN Append(log, line) = 1 .. (Len(log) + 1)
    BY <2>3
  <2>5. 1 .. (Len(log) + 1) = (1 .. Len(log)) \cup {Len(log) + 1}
    BY <1>1
  <2>6. Append(log, line) # << >>
    BY <1>1, <2>3
  <2> QED
    BY <1>1, <1>2, <2>1, <2>3, <2>4, <2>5, <2>6 DEF T
<1>3. CASE unended
  <2>1. log # << >>
    BY <1>3 DEF LogOrdered
  <2>2. Len(log) \in DOMAIN log
    BY <1>1, <2>1
  <2> QED
    BY <1>1, <1>3, <2>2 DEF LogWith
<1> QED
  BY <1>2, <1>3

(***************************************************************************)
(* Every way an append can end keeps the invariant.                        *)
(***************************************************************************)
LEMMA AppendKeepsLog ==
  ASSUME IInv, Emits, NEW line \in {seq', Garbage},
         log' = LogWith(line), unended' \in BOOLEAN
  PROVE  /\ log' \in Seq(Nat \cup {Garbage}) /\ LogOrdered'
         /\ Garbage \notin Elements(log') => Garbage \notin Elements(log)
                                             /\ Elements(log) \subseteq Elements(log')
                                             /\ line \in Elements(log')
<1>1. seq \in Nat /\ seq' = seq + 1 /\ up /\ up' = up /\ seq' \in Nat
  BY DEF IInv, Emits, TypeOK, At
<1>2. line \in Nat \cup {Garbage} /\ TypeOK /\ LogOrdered
  BY <1>1 DEF IInv
<1>3. /\ log' \in Seq(Nat \cup {Garbage}) /\ log' # << >>
      /\ ~unended => /\ DOMAIN log' = DOMAIN log \cup {Len(log) + 1}
                     /\ log'[Len(log) + 1] = line
                     /\ \A n \in DOMAIN log : log'[n] = log[n]
      /\ unended => /\ DOMAIN log' = DOMAIN log
                    /\ Len(log) \in DOMAIN log
                    /\ log'[Len(log)] = Garbage
                    /\ \A n \in DOMAIN log : n # Len(log) => log'[n] = log[n]
  BY <1>2, LogWithShape
<1>4. log \in Seq(Nat \cup {Garbage}) /\ Len(log) \in Nat /\ DOMAIN log = 1 .. Len(log)
      /\ \A n \in DOMAIN log : log[n] \in Nat \cup {Garbage}
  BY <1>2 DEF TypeOK
<1>5. \A n \in DOMAIN log' :
        log'[n] # Garbage => \/ n \in DOMAIN log /\ log'[n] = log[n]
                             \/ n = Len(log) + 1 /\ log'[n] = seq'
  BY <1>3, <1>4
<1>6. LogOrdered'
  <2>1. \A n \in DOMAIN log : log[n] # Garbage => log[n] <= seq /\ log[n] \in Nat
    BY <1>1, <1>2, <1>4 DEF LogOrdered, Readable
  <2>2. \A n \in DOMAIN log' : log'[n] # Garbage => log'[n] <= seq'
    BY <1>1, <1>5, <2>1
  <2>3. \A m, n \in DOMAIN log' : m < n /\ log'[m] # Garbage /\ log'[n] # Garbage => log'[m] < log'[n]
    <3> SUFFICES ASSUME NEW m \in DOMAIN log', NEW n \in DOMAIN log', m < n,
                        log'[m] # Garbage, log'[n] # Garbage
                 PROVE  log'[m] < log'[n]
      OBVIOUS
    <3>1. CASE n \in DOMAIN log
      <4>1. m \in DOMAIN log
        BY <1>4, <1>5, <3>1
      <4>2. log'[m] = log[m] /\ log'[n] = log[n]
        BY <1>4, <1>5, <3>1, <4>1
      <4> QED
        BY <1>2, <3>1, <4>1, <4>2 DEF LogOrdered, Readable
    <3>2. CASE n \notin DOMAIN log
      <4>1. n = Len(log) + 1 /\ log'[n] = seq'
        BY <1>5, <3>2
      <4>2. m \in DOMAIN log /\ log'[m] = log[m]
        BY <1>4, <1>5, <4>1
      <4> QED
        BY <1>1, <2>1, <4>1, <4>2
    <3> QED
      BY <3>1, <3>2
  <2> QED
    BY <1>3, <2>2, <2>3 DEF LogOrdered, Readable
<1>7. Garbage \notin Elements(log') => Garbage \notin Elements(log)
                                       /\ Elements(log) \subseteq Elements(log')
                                       /\ line \in Elements(log')
  BY <1>3, <1>4 DEF Elements
<1> QED
  BY <1>3, <1>6, <1>7

----------------------------------------------------------------------------
\* A new tracker satisfies the invariant.
LEMMA PersistenceInit == Init => IInv
<1> SUFFICES ASSUME Init
             PROVE  IInv
  OBVIOUS
<1>1. TypeOK
  <2>1. << >> \in Seq(Nat \cup {Garbage}) /\ << >> \in Seq(Nat) /\ 0 \in Nat
    OBVIOUS
  <2> QED
    BY <2>1 DEF Init, TypeOK
<1>2. Progress /\ LogOrdered /\ ShownIsKept
  BY DEF Init, Progress, LogOrdered, ShownIsKept, Elements, Readable
<1> QED
  BY <1>1, <1>2 DEF IInv

(***************************************************************************)
(* An emission, however it ends, keeps the invariant.                      *)
(***************************************************************************)
LEMMA EmitStep ==
  ASSUME IInv, Emits,
         EmitRecorded \/ EmitRefused \/ EmitUnsynced \/ \E line : EmitTorn(line)
  PROVE  IInv'
<1>1. /\ seq \in Nat /\ seq' = seq + 1 /\ up /\ up' = up /\ op # NoOp /\ op \in Ops
      /\ op.phase = "emit" /\ op.left > 0
      /\ disk' = disk /\ mem' = mem /\ answer' = answer
      /\ op' = [op EXCEPT !.left = op.left - 1]
  BY DEF Emits, At, IInv, TypeOK
<1>2. op' \in Ops /\ op'.phase = "emit" /\ op' # NoOp
  <2>1. op.left - 1 \in Nat
    BY <1>1 DEF Ops
  <2>2. op' \in Ops /\ op'.phase = "emit"
    BY <1>1, <2>1 DEF Ops
  <2> QED
    BY <2>2, PersistenceAssumption DEF Ops
<1>3. /\ log' \in Seq(Nat \cup {Garbage}) /\ unended' \in BOOLEAN /\ LogOrdered'
      /\ Garbage \notin Elements(log') => Garbage \notin Elements(log) /\ Elements(log) \subseteq Elements(log')
      /\ EmitRecorded /\ Garbage \notin Elements(log') => seq' \in Elements(log')
  <2>1. CASE EmitRefused
    <3>1. log' = log /\ unended' = unended
      BY <2>1 DEF EmitRefused
    <3>2. LogOrdered'
      <4>1. \A n \in DOMAIN log : Readable(n) => log[n] \in Nat
        BY DEF Readable, IInv, TypeOK
      <4> QED
        BY <1>1, <3>1, <4>1 DEF LogOrdered, Readable, IInv
    <3>3. EmitRecorded => \E l : l = seq' /\ unended' = FALSE /\ log' = LogWith(l)
      BY DEF EmitRecorded
    <3>4. ASSUME EmitRecorded
          PROVE  Garbage \notin Elements(log') => seq' \in Elements(log')
      BY <3>4, AppendKeepsLog DEF EmitRecorded
    <3> QED
      BY <3>1, <3>2, <3>4 DEF IInv, TypeOK
  <2>2. CASE EmitRecorded \/ EmitUnsynced
    BY <2>2, AppendKeepsLog DEF EmitRecorded, EmitUnsynced
  <2>3. ASSUME NEW line, EmitTorn(line)
        PROVE  /\ log' \in Seq(Nat \cup {Garbage}) /\ unended' \in BOOLEAN /\ LogOrdered'
               /\ Garbage \notin Elements(log') => Garbage \notin Elements(log) /\ Elements(log) \subseteq Elements(log')
    BY <2>3, AppendKeepsLog DEF EmitTorn
  <2>4. ASSUME EmitRecorded
        PROVE  Garbage \notin Elements(log') => seq' \in Elements(log')
    BY <2>4, AppendKeepsLog DEF EmitRecorded
  <2> QED
    BY <2>1, <2>2, <2>3, <2>4
<1>4. feed' \in Seq(Nat) /\ shown' \in SUBSET Nat
  <2>1. feed \in Seq(Nat) /\ shown \in SUBSET Nat /\ seq' \in Nat
    BY <1>1 DEF IInv, TypeOK
  <2>2. \/ feed' = feed /\ shown' = shown
        \/ feed' = Append(feed, seq') /\ shown' = shown \cup {seq'}
    BY DEF EmitRecorded, EmitRefused, EmitUnsynced, EmitTorn
  <2>3. Append(feed, seq') \in Seq(Nat) /\ shown \cup {seq'} \in SUBSET Nat
    BY <2>1
  <2> QED
    BY <2>1, <2>2, <2>3
<1>5. TypeOK'
  BY <1>1, <1>2, <1>3, <1>4 DEF IInv, TypeOK
<1>6. Progress'
  BY <1>1, <1>2 DEF IInv, Progress
<1>7. ShownIsKept'
  <2>1. shown' = shown \/ (EmitRecorded /\ shown' = shown \cup {seq'})
    BY DEF EmitRecorded, EmitRefused, EmitUnsynced, EmitTorn
  <2>2. \A s \in shown : s \in Nat /\ s <= seq
    BY <1>1 DEF IInv, ShownIsKept, TypeOK
  <2>3. \A s \in shown' : s <= seq'
    BY <1>1, <2>1, <2>2
  <2>4. Garbage \notin Elements(log') => shown' \subseteq Elements(log')
    BY <1>3, <2>1 DEF IInv, ShownIsKept
  <2>5. (Garbage \notin Elements(log) => shown \subseteq Elements(log))'
    BY <2>4 DEF Elements
  <2> QED
    BY <2>3, <2>5 DEF ShownIsKept
<1> QED
  BY <1>3, <1>5, <1>6, <1>7 DEF IInv

\* Load and New restore the invariant from the files alone.
LEMMA ReopenStep ==
  ASSUME IInv, Reopen
  PROVE  IInv'
<1>1. /\ log \in Seq(Nat \cup {Garbage}) /\ Garbage \notin Elements(log)
      /\ log' = log /\ unended' = unended /\ disk' = disk /\ mem' = disk /\ op' = op /\ answer' = answer
      /\ ~up /\ up' = TRUE /\ feed' = log /\ seq' = Top(Elements(log) \cup {0})
      /\ shown' = shown \cup Elements(log)
  BY DEF Reopen, IInv, TypeOK, files
<1>2. \A n \in DOMAIN log : log[n] \in Nat /\ Readable(n)
  BY <1>1 DEF Elements, Readable
<1>3. log \in Seq(Nat)
  BY <1>1, <1>2
<1>4. \A m, n \in DOMAIN log : m < n => log[m] < log[n]
  BY <1>2 DEF IInv, LogOrdered
<1>5. seq' \in Nat /\ \A n \in DOMAIN log : log[n] <= seq'
  BY <1>1, <1>3, <1>4, TopIsLast
<1>6. Elements(log) \subseteq Nat /\ \A s \in Elements(log) : s <= seq'
  BY <1>2, <1>5 DEF Elements
<1>7. shown \subseteq Elements(log)
  BY <1>1 DEF IInv, ShownIsKept
<1>8. TypeOK'
  BY <1>1, <1>3, <1>5, <1>6 DEF IInv, TypeOK
<1>9. Progress'
  BY <1>1 DEF IInv, Progress
<1>10. LogOrdered'
  BY <1>1, <1>5 DEF IInv, LogOrdered, Readable
<1>11. ShownIsKept'
  BY <1>1, <1>6, <1>7 DEF ShownIsKept, Elements
<1> QED
  BY <1>8, <1>9, <1>10, <1>11 DEF IInv

(***************************************************************************)
(* A step that leaves the feed and the counter alone keeps what is known   *)
(* about them.                                                             *)
(***************************************************************************)
LEMMA FeedUntouched ==
  ASSUME IInv, UNCHANGED << log, unended, seq, shown >>, up' => up
  PROVE  LogOrdered' /\ ShownIsKept'
  BY DEF IInv, LogOrdered, ShownIsKept, Readable, Elements

\* Every step, failures and restarts included, keeps the invariant.
LEMMA PersistenceStep == IInv /\ [Next]_vars => IInv'
<1> SUFFICES ASSUME IInv, [Next]_vars
             PROVE  IInv'
  OBVIOUS
<1> USE DEF files, memory
<1>1. ASSUME NEW k \in Keys, NEW v \in Vals \cup {Absent}, NEW n \in 0 .. MaxEvents, Begin(k, v, n)
      PROVE  IInv'
  <2>1. op' \in Ops /\ op'.phase = "save" /\ op' # NoOp /\ up /\ up' = up /\ op = NoOp
    BY <1>1, PersistenceAssumption DEF Begin, Ops
  <2>2. TypeOK' /\ Progress'
    BY <1>1, <2>1 DEF Begin, IInv, TypeOK, Progress
  <2> QED
    BY <1>1, <2>2, FeedUntouched DEF Begin, IInv
<1>2. CASE Save
  <2>1. /\ op \in Ops /\ op # NoOp /\ op.phase = "save" /\ up /\ up' = up
        /\ op' \in Ops /\ op'.phase = "apply" /\ op'.key = op.key /\ op'.val = op.val /\ op' # NoOp
        /\ mem = disk /\ mem' = mem /\ disk' = [mem EXCEPT ![op.key] = op.val]
    BY <1>2, PersistenceAssumption DEF Save, At, IInv, TypeOK, Progress, Ops
  <2>2. TypeOK' /\ Progress'
    BY <1>2, <2>1 DEF Save, IInv, TypeOK, Progress, Ops
  <2> QED
    BY <1>2, <2>2, FeedUntouched DEF Save, IInv
<1>3. CASE SaveFails
  <2>1. TypeOK' /\ Progress'
    BY <1>3 DEF SaveFails, At, IInv, TypeOK, Progress
  <2> QED
    BY <1>3, <2>1, FeedUntouched DEF SaveFails, IInv
<1>4. CASE Apply
  <2>1. /\ op \in Ops /\ op # NoOp /\ op.phase = "apply" /\ up /\ up' = up
        /\ op' \in Ops /\ op'.phase = "emit" /\ op' # NoOp
        /\ disk = [mem EXCEPT ![op.key] = op.val] /\ disk' = disk /\ mem' = disk
    BY <1>4, PersistenceAssumption DEF Apply, At, IInv, TypeOK, Progress, Ops
  <2>2. TypeOK' /\ Progress'
    BY <1>4, <2>1 DEF Apply, IInv, TypeOK, Progress
  <2> QED
    BY <1>4, <2>2, FeedUntouched DEF Apply, IInv
<1>5. CASE EmitRecorded \/ EmitRefused \/ EmitUnsynced \/ \E line : EmitTorn(line)
  BY <1>5, EmitStep DEF EmitRecorded, EmitRefused, EmitUnsynced, EmitTorn
<1>6. CASE Answer
  <2>1. TypeOK' /\ Progress'
    BY <1>6 DEF Answer, At, IInv, TypeOK, Progress
  <2> QED
    BY <1>6, <2>1, FeedUntouched DEF Answer, IInv
<1>7. CASE Crash
  <2>1. TypeOK' /\ Progress'
    BY <1>7 DEF Crash, IInv, TypeOK, Progress
  <2> QED
    BY <1>7, <2>1, FeedUntouched DEF Crash, IInv
<1>8. CASE Reopen
  BY <1>8, ReopenStep
<1>9. CASE UNCHANGED vars
  <2>1. TypeOK' /\ Progress'
    BY <1>9 DEF vars, IInv, TypeOK, Progress
  <2> QED
    BY <1>9, <2>1, FeedUntouched DEF vars, IInv
<1> QED
  BY <1>1, <1>2, <1>3, <1>4, <1>5, <1>6, <1>7, <1>8, <1>9 DEF Next

(***************************************************************************)
(* The state keeps its shape.  Not inductive alone: that a reopened        *)
(* tracker counts on from a number needs the feed to be in order.          *)
(***************************************************************************)
THEOREM PersistenceTypeCorrect == Spec => []TypeOK
<1>1. IInv => TypeOK
  BY DEF IInv
<1> QED
  BY <1>1, PersistenceInit, PersistenceStep, PTL DEF Spec

(***************************************************************************)
(* Memory and files agree whenever no operation is in flight.              *)
(***************************************************************************)
THEOREM MemoryWritesThrough == Spec => []WriteThrough
<1>1. IInv => WriteThrough
  BY DEF IInv, Progress, WriteThrough
<1> QED
  BY <1>1, PersistenceInit, PersistenceStep, PTL DEF Spec

(***************************************************************************)
(* A recorded event is numbered above every event shown before it, over    *)
(* every sequence of failures and restarts.                                *)
(***************************************************************************)
THEOREM SequenceNeverRepeats == Spec => NeverRepeats
<1> DEFINE A == EmitRecorded => \A s \in shown : s < seq'
<1>1. IInv /\ [Next]_vars => [A]_vars
  <2> SUFFICES ASSUME IInv, EmitRecorded
               PROVE  \A s \in shown : s < seq'
    OBVIOUS
  <2>1. up /\ seq' = seq + 1 /\ seq \in Nat
    BY DEF EmitRecorded, Emits, At, IInv, TypeOK
  <2>2. \A s \in shown : s \in Nat /\ s <= seq
    BY <2>1 DEF IInv, ShownIsKept, TypeOK
  <2> QED
    BY <2>1, <2>2
<1>2. NeverRepeats <=> [][A]_vars
  BY DEF NeverRepeats
<1> HIDE DEF A
<1> QED
  BY <1>1, <1>2, PersistenceInit, PersistenceStep, PTL DEF Spec

----------------------------------------------------------------------------
\* The state of AtomicStore a state of the store stands for.
View == IF up THEN mem ELSE disk
Call == IF op = NoOp THEN NoOp ELSE [key |-> op.key, val |-> op.val, done |-> op.phase = "emit"]

(***************************************************************************)
(* Every step of the store is a step of AtomicStore or changes nothing     *)
(* that AtomicStore shows.                                                 *)
(***************************************************************************)
LEMMA StepRefines ==
  ASSUME IInv, [Next]_vars
  PROVE  [Atomic!Next]_<< View, Call, answer >>
<1> USE DEF files, memory
<1> DEFINE Same == View' = View /\ Call' = Call /\ answer' = answer
<1>1. op # NoOp => /\ op \in Ops /\ op.key \in Keys /\ op.val \in Vals \cup {Absent}
                   /\ Call = [key |-> op.key, val |-> op.val, done |-> op.phase = "emit"]
                   /\ Call \in Atomic!Calls /\ Call # NoOp
                   /\ Call.key = op.key /\ Call.val = op.val /\ Call.done = (op.phase = "emit")
  <2>1. \A d \in BOOLEAN, k \in Keys, v \in Vals \cup {Absent} :
          /\ [key |-> k, val |-> v, done |-> d] # NoOp
          /\ [key |-> k, val |-> v, done |-> d] \in Atomic!Calls
    BY PersistenceAssumption DEF Atomic!Calls
  <2>2. (op.phase = "emit") \in BOOLEAN
    OBVIOUS
  <2> QED
    BY <2>1, <2>2 DEF Call, IInv, TypeOK, Ops
<1>2. op = NoOp => Call = NoOp
  BY DEF Call
<1>3. ASSUME NEW k \in Keys, NEW v \in Vals \cup {Absent}, NEW n \in 0 .. MaxEvents, Begin(k, v, n)
      PROVE  Atomic!Begin
  <2>1. op' # NoOp /\ op'.key = k /\ op'.val = v /\ op'.phase = "save"
    BY <1>3, PersistenceAssumption DEF Begin
  <2>2. Call' = [key |-> k, val |-> v, done |-> FALSE]
    BY <2>1 DEF Call
  <2>3. Call' \in {c \in Atomic!Calls : ~c.done}
    BY <2>2 DEF Atomic!Calls
  <2>4. Call = NoOp /\ View' = View /\ answer' = "none"
    BY <1>3 DEF Begin, Call, View
  <2> QED
    BY <2>3, <2>4 DEF Atomic!Begin, Call, View
<1>4. ASSUME Save
      PROVE  Same
  <2>1. /\ op' # NoOp /\ op'.key = op.key /\ op'.val = op.val /\ op'.phase = "apply"
        /\ op.phase = "save" /\ op # NoOp
    BY <1>1, <1>4, PersistenceAssumption DEF Save, At, Ops
  <2>2. Call' = Call
    BY <2>1 DEF Call
  <2> QED
    BY <1>4, <2>2 DEF Save, At, View
<1>5. ASSUME SaveFails
      PROVE  Atomic!AnswerError
  <2>1. Call # NoOp /\ ~Call.done
    BY <1>1, <1>5 DEF SaveFails, At
  <2>2. Call' = NoOp /\ answer' = "error" /\ View' = View
    BY <1>5 DEF SaveFails, Call, View
  <2> QED
    BY <2>1, <2>2 DEF Atomic!AnswerError, Call, View
<1>6. ASSUME Apply
      PROVE  Atomic!TakeEffect
  <2>1. op # NoOp /\ op.phase = "apply" /\ up /\ up' = up /\ mem' = [mem EXCEPT ![op.key] = op.val]
    BY <1>6 DEF Apply, At
  <2>2. op' # NoOp /\ op'.key = op.key /\ op'.val = op.val /\ op'.phase = "emit"
    BY <1>1, <1>6, <2>1, PersistenceAssumption DEF Apply, Ops
  <2>3. /\ Call = [key |-> op.key, val |-> op.val, done |-> FALSE] /\ Call # NoOp
        /\ Call' = [key |-> op.key, val |-> op.val, done |-> TRUE]
    BY <1>1, <2>1, <2>2 DEF Call
  <2>4. Call' = [key |-> Call.key, val |-> Call.val, done |-> TRUE]
    BY <1>1, <2>1, <2>3
  <2>5. View' = [View EXCEPT ![Call.key] = Call.val] /\ answer' = answer
    BY <1>6, <2>1, <2>3 DEF View, Apply
  <2> QED
    BY <2>3, <2>4, <2>5 DEF Atomic!TakeEffect, Atomic!Effect, Call, View
<1>7. ASSUME EmitRecorded \/ EmitRefused \/ EmitUnsynced \/ \E line : EmitTorn(line)
      PROVE  Same
  <2>1. Emits
    BY <1>7 DEF EmitRecorded, EmitRefused, EmitUnsynced, EmitTorn
  <2>2. /\ op # NoOp /\ op.phase = "emit" /\ op \in Ops /\ op.left > 0
        /\ op' = [op EXCEPT !.left = op.left - 1] /\ up' = up /\ mem' = mem /\ disk' = disk /\ answer' = answer
    BY <1>1, <2>1 DEF Emits, At
  <2>3. op.left - 1 \in Nat
    BY <2>2 DEF Ops
  <2>4. op' \in Ops /\ op'.key = op.key /\ op'.val = op.val /\ op'.phase = "emit"
    BY <2>2, <2>3 DEF Ops
  <2>5. op' # NoOp
    BY <2>4, PersistenceAssumption DEF Ops
  <2> QED
    BY <2>2, <2>4, <2>5 DEF Call, View
<1>8. ASSUME Answer
      PROVE  Atomic!AnswerOk
  <2>1. Call # NoOp /\ Call.done
    BY <1>1, <1>8 DEF Answer, At
  <2>2. Call' = NoOp /\ answer' = "ok" /\ View' = View
    BY <1>8 DEF Answer, Call, View
  <2> QED
    BY <2>1, <2>2 DEF Atomic!AnswerOk, Call, View
<1>9. ASSUME Crash
      PROVE  Atomic!Abandon
  <2>1. up /\ ~up' /\ op' = NoOp /\ answer' = "none" /\ View = mem /\ View' = disk /\ Call' = NoOp
    BY <1>9 DEF Crash, View, Call, IInv, TypeOK
  <2>2. CASE op = NoOp \/ op.phase # "apply"
    <3>1. View' = View
      BY <2>1, <2>2 DEF IInv, Progress
    <3> QED
      BY <2>1, <3>1 DEF Atomic!Abandon, Call, View
  <2>3. CASE op # NoOp /\ op.phase = "apply"
    <3>1. Call # NoOp /\ ~Call.done /\ Call.key = op.key /\ Call.val = op.val
      BY <1>1, <2>3
    <3>2. View' = [View EXCEPT ![Call.key] = Call.val]
      BY <2>1, <2>3, <3>1 DEF IInv, Progress
    <3> QED
      BY <2>1, <3>1, <3>2 DEF Atomic!Abandon, Atomic!Effect, Call, View
  <2> QED
    BY <2>2, <2>3
<1>10. ASSUME Reopen
       PROVE  Same
  <2>1. ~up /\ up' = TRUE /\ mem' = disk /\ op' = op /\ answer' = answer
    BY <1>10 DEF Reopen
  <2> QED
    BY <2>1 DEF View, Call
<1>11. ASSUME UNCHANGED vars
       PROVE  Same
  BY <1>11 DEF vars, View, Call
<1>12. Same \/ Atomic!Next
  BY <1>3, <1>4, <1>5, <1>6, <1>7, <1>8, <1>9, <1>10, <1>11 DEF Next, Atomic!Next
<1> QED
  BY <1>12

(***************************************************************************)
(* The store implements its abstraction: to its callers every operation    *)
(* happens at once or not at all, over every failure and restart.          *)
(***************************************************************************)
THEOREM StoreIsAtomic == Spec => ImplementsAtomicStore
<1>1. Init => Atomic!Init
  BY DEF Init, Atomic!Init
<1>2. IInv /\ [Next]_vars => [Atomic!Next]_<< View, Call, answer >>
  BY StepRefines
<1>3. ImplementsAtomicStore <=> Atomic!Init /\ [][Atomic!Next]_<< View, Call, answer >>
  BY DEF ImplementsAtomicStore, Atomic!Spec, View, Call
<1> QED
  BY <1>1, <1>2, <1>3, PersistenceInit, PersistenceStep, PTL DEF Spec
==============================================================================
