--------------------------- MODULE ListingProofs ---------------------------
(***************************************************************************)
(* What a reader of Listing is given, for every store, every query, every  *)
(* page size and any number of writes between the pages.                   *)
(***************************************************************************)
EXTENDS Listing, FiniteSetTheorems, SequenceTheorems, WellFoundedInduction, TLAPS

IsAscending(s) == \A m, n \in DOMAIN s : m < n => s[m] < s[n]

\* The numbers of the recorded events the query selects, whenever recorded.
Told == {feed[n].seq : n \in {n \in DOMAIN feed : Selects(query, feed[n])}}

\* How far the reader of the feed has come.
Reached == IF seen = << >> THEN since ELSE Last(seen)

\* The reader's own state.
Reading ==
  /\ query \in Queries /\ ParseQuery(query)
  /\ since \in Nat /\ done \in BOOLEAN
  /\ seen \in Seq(Nat) /\ handled \in Seq(Nat)
  /\ stayed \subseteq Rows(query)

\* What was given of a row that stayed: none of one that did not come forward
\* is behind the cursor unless it was given; one that did not go back is
\* given once, and is behind the cursor from then on.
InPlace ==
  \A r \in stayed :
    /\ r \notin lower => r \in ToSet(seen) \/ (~done /\ Ahead(r) >= cursor)
    /\ r \notin higher =>
         /\ \A m, n \in DOMAIN seen : seen[m] = r /\ seen[n] = r => m = n
         /\ ~done /\ r \in ToSet(seen) => Ahead(r) < cursor

\* What a reader of the feed has of it: everything up to where it has come.
UpToDate ==
  query.of = "events" =>
    /\ IsAscending(seen) /\ IsAscending(handled)
    /\ ToSet(seen) = {x \in Told : since < x /\ x <= Reached}
    /\ ToSet(handled) = {x \in Told : x <= Reached}
    /\ Reached = (IF handled = << >> THEN 0 ELSE Last(handled))
    /\ Reached <= seq
    /\ ~done => cursor = Len(seen)

IInv == TypeOK /\ Reading /\ InPlace /\ UpToDate

----------------------------------------------------------------------------
(* Sequences and finite sets of numbers *)

(***************************************************************************)
(* There are n positions up to n.                                          *)
(***************************************************************************)
LEMMA Positions == ASSUME NEW n \in Nat PROVE IsFiniteSet(1..n) /\ Cardinality(1..n) = n
<1>1. 1 \in Int /\ n \in Int
  OBVIOUS
<1>2. IsFiniteSet(1..n) /\ Cardinality(1..n) = IF 1 > n THEN 0 ELSE n - 1 + 1
  BY <1>1, FS_Interval
<1> QED BY <1>2

(***************************************************************************)
(* A non-empty set of positions has a first one.                           *)
(***************************************************************************)
LEMMA FirstPosition ==
  ASSUME NEW n \in Nat, NEW T \in SUBSET (1 .. n), T # {}
  PROVE  \E m \in T : \A k \in T : m <= k
<1> DEFINE S == 1 .. n
           F == {1 .. k : k \in T}
<1>0. IsFiniteSet(S)
  BY FS_Interval
<1>1. IsWellFoundedOn(StrictSubsetOrdering(S), SUBSET S)
  BY <1>0, FS_StrictSubsetOrderingWellFounded, FS_FiniteSubsetsOfFinite
<1>2. F \subseteq SUBSET S /\ F # {}
  <2>1. PICK k \in T : TRUE
    OBVIOUS
  <2>2. 1 .. k \in F
    OBVIOUS
  <2>3. \A j \in T : 1 .. j \in SUBSET S
    OBVIOUS
  <2> QED BY <2>2, <2>3
<1> HIDE DEF F, S
<1>3. PICK x \in F : \A y \in F : ~(<<y, x>> \in StrictSubsetOrdering(S))
  BY <1>1, <1>2, WFMin
<1>4. PICK m \in T : x = 1 .. m
  BY <1>3 DEF F
<1>5. \A k \in T : m <= k
  <2> SUFFICES ASSUME NEW k \in T, k < m
               PROVE  FALSE
    OBVIOUS
  <2>1. 1 .. k \in F
    BY DEF F
  <2>2. m \in 1 .. m /\ m \notin 1 .. k /\ 1 .. k \subseteq 1 .. m
    OBVIOUS
  <2>3. <<1 .. k, x>> \in StrictSubsetOrdering(S)
    BY <2>1, <2>2, <1>2, <1>3, <1>4 DEF StrictSubsetOrdering
  <2> QED BY <2>1, <2>3, <1>3
<1> QED BY <1>5

(***************************************************************************)
(* Ascending lists a finite set of numbers: each member once, in order.    *)
(***************************************************************************)
LEMMA AscendingLists ==
  ASSUME NEW S, S \subseteq Nat, IsFiniteSet(S)
  PROVE  /\ Cardinality(S) \in Nat
         /\ Ascending(S) \in [1..Cardinality(S) -> S]
         /\ IsAscending(Ascending(S))
         /\ ToSet(Ascending(S)) = S
<1> DEFINE Less(n) == {m \in S : m < n}
           c == Cardinality(S)
           pos == [n \in S |-> Cardinality(Less(n))]
           at == Ascending(S)
<1>1. c \in Nat
  BY FS_CardinalityType
<1>2. \A n \in S : IsFiniteSet(Less(n)) /\ pos[n] \in 0 .. (c - 1)
  <2> SUFFICES ASSUME NEW n \in S
               PROVE  IsFiniteSet(Less(n)) /\ pos[n] \in 0 .. (c - 1)
    OBVIOUS
  <2>1. Less(n) \in SUBSET S /\ n \notin Less(n)
    OBVIOUS
  <2>2. /\ IsFiniteSet(Less(n)) /\ Cardinality(Less(n)) <= c
        /\ c = Cardinality(Less(n)) => S = Less(n)
    BY <2>1, FS_Subset
  <2>3. Cardinality(Less(n)) \in Nat
    BY <2>2, FS_CardinalityType
  <2>4. Cardinality(Less(n)) # c
    BY <2>1, <2>2
  <2> HIDE DEF Less, c
  <2> QED BY <1>1, <2>2, <2>3, <2>4
<1>3. ASSUME NEW m \in S, NEW n \in S, m < n
      PROVE  pos[m] < pos[n]
  <2>1. Less(m) \in SUBSET Less(n) /\ m \in Less(n) /\ m \notin Less(m)
    <3>1. m \in Nat /\ n \in Nat
      OBVIOUS
    <3>2. ASSUME NEW k \in Less(m)
          PROVE  k \in Less(n)
      <4>1. k \in Nat /\ k < m
        OBVIOUS
      <4>2. k < n
        BY <1>3, <3>1, <4>1
      <4> QED BY <4>2
    <3>3. ~(m < m)
      BY <3>1
    <3> QED BY <1>3, <3>2, <3>3
  <2>2. /\ Cardinality(Less(m)) <= Cardinality(Less(n))
        /\ Cardinality(Less(n)) = Cardinality(Less(m)) => Less(n) = Less(m)
    BY <1>2, <2>1, FS_Subset
  <2>3. pos[m] <= pos[n] /\ pos[m] # pos[n]
    BY <2>1, <2>2
  <2>4. pos[m] \in Nat /\ pos[n] \in Nat
    BY <1>1, <1>2
  <2> HIDE DEF pos
  <2> QED BY <2>3, <2>4
<1>4. \A m, n \in S : pos[m] = pos[n] => m = n
  <2> SUFFICES ASSUME NEW m \in S, NEW n \in S, pos[m] = pos[n], m # n
               PROVE  FALSE
    OBVIOUS
  <2>1. m \in Nat /\ n \in Nat
    OBVIOUS
  <2>2. pos[m] \in Nat /\ pos[n] \in Nat
    BY <1>1, <1>2
  <2>3. pos[m] < pos[n] \/ pos[n] < pos[m]
    <3>1. m < n \/ n < m
      BY <2>1
    <3> QED BY <1>3, <3>1
  <2> HIDE DEF pos
  <2> QED BY <2>2, <2>3
<1>5. \A k \in 1..c : \E n \in S : pos[n] = k - 1
  <2> DEFINE T == 0 .. (c - 1)
  <2>1. IsFiniteSet(T) /\ Cardinality(T) = c
    <3> HIDE DEF c
    <3>1. 0 \in Int /\ c - 1 \in Int
      BY <1>1
    <3>2. IsFiniteSet(T) /\ Cardinality(T) = IF 0 > c - 1 THEN 0 ELSE (c - 1) - 0 + 1
      BY <3>1, FS_Interval
    <3> QED BY <1>1, <3>2
  <2>2. pos \in [S -> T]
    BY <1>2
  <2>3. pos \in Injection(S, T)
    BY <1>4, <2>2 DEF Injection, IsInjective
  <2>4. pos \in Surjection(S, T)
    BY <2>1, <2>3, FS_Injection
  <2>5. \A k \in 1..c : k - 1 \in T
    BY <1>1
  <2> QED BY <2>4, <2>5 DEF Surjection
<1>6. \A k \in 1..c : at[k] \in S /\ pos[at[k]] = k - 1
  <2> SUFFICES ASSUME NEW k \in 1..c
               PROVE  at[k] \in S /\ pos[at[k]] = k - 1
    OBVIOUS
  <2>1. at[k] = CHOOSE n \in S : Cardinality(Less(n)) = k - 1
    BY DEF Ascending
  <2>2. PICK n \in S : pos[n] = k - 1
    BY <1>5
  <2>3. Cardinality(Less(n)) = k - 1
    BY <2>2
  <2> QED BY <2>1, <2>3
<1>7. at \in [1..c -> S]
  BY <1>6 DEF Ascending
<1>8. IsAscending(at)
  <2> SUFFICES ASSUME NEW k \in 1..c, NEW l \in 1..c, k < l
               PROVE  at[k] < at[l]
    BY <1>7 DEF IsAscending
  <2>1. at[k] \in Nat /\ at[l] \in Nat /\ pos[at[k]] < pos[at[l]]
    <3>1. at[k] \in S /\ at[l] \in S /\ pos[at[k]] = k - 1 /\ pos[at[l]] = l - 1
      BY <1>6
    <3>2. k - 1 < l - 1
      OBVIOUS
    <3>3. pos[at[k]] < pos[at[l]]
      BY <3>1, <3>2
    <3> QED BY <3>1, <3>3
  <2>2. CASE at[l] < at[k]
    <3>1. pos[at[l]] < pos[at[k]]
      BY <1>3, <1>6, <2>2
    <3>2. pos[at[l]] \in Nat /\ pos[at[k]] \in Nat
      BY <1>1, <1>2, <1>6
    <3> HIDE DEF pos, at
    <3> QED BY <2>1, <3>1, <3>2
  <2>3. CASE at[l] = at[k]
    <3>1. k \in Int /\ l \in Int /\ pos[at[k]] = k - 1 /\ pos[at[k]] = l - 1
      BY <1>6, <2>3
    <3> HIDE DEF pos, at
    <3> QED BY <3>1
  <2> HIDE DEF pos, at
  <2> QED BY <2>1, <2>2, <2>3
<1>9. ToSet(at) = S
  <2>1. ToSet(at) \subseteq S
    BY <1>7 DEF ToSet
  <2>2. ASSUME NEW n \in S
        PROVE  n \in ToSet(at)
    <3>1. pos[n] + 1 \in 1..c /\ (pos[n] + 1) - 1 = pos[n]
      <4>1. pos[n] \in 0 .. (c - 1)
        BY <1>2
      <4> HIDE DEF pos, c
      <4> QED BY <1>1, <4>1
    <3>2. at[pos[n] + 1] = n
      BY <1>4, <1>6, <3>1
    <3> QED BY <1>7, <3>1, <3>2 DEF ToSet
  <2> QED BY <2>1, <2>2
<1> QED BY <1>1, <1>7, <1>8, <1>9

(***************************************************************************)
(* What Paginate yields of a listing: the rows from the cursor on, up to a *)
(* page of them, and the cursor behind the last of them unless no row is   *)
(* left.                                                                   *)
(***************************************************************************)
LEMMA PageIs ==
  ASSUME NEW rows \in Seq(Nat), NEW from \in Nat
  PROVE  LET start == Start(rows, from)
             end   == Lesser(start + Limit, Len(rows))
             page  == Paginate(rows, from)
         IN  /\ start \in 0..Len(rows) /\ end \in start..Len(rows)
             /\ start = (IF from <= Len(rows) THEN from ELSE Len(rows))
             /\ start < Len(rows) => start < end
             /\ page.rows \in Seq(Nat) /\ Len(page.rows) = end - start
             /\ \A k \in 1 .. (end - start) : page.rows[k] = rows[start + k]
             /\ page.next = IF end < Len(rows) THEN end ELSE 0
<1> DEFINE start == Start(rows, from)
           end   == Lesser(start + Limit, Len(rows))
           page  == Paginate(rows, from)
<1>1. Len(rows) \in Nat /\ Limit \in Nat \ {0}
  BY LimitAssumption, LenProperties
<1>2. /\ start \in 0..Len(rows)
      /\ start = (IF from <= Len(rows) THEN from ELSE Len(rows))
  BY <1>1 DEF Start, Lesser
<1>3. /\ end \in start..Len(rows)
      /\ start < Len(rows) => start < end
  <2> HIDE DEF start
  <2> QED BY <1>1, <1>2 DEF Lesser
<1>4. page.rows = SubSeq(rows, start + 1, end) /\ page.next = IF end < Len(rows) THEN end ELSE 0
  BY DEF Paginate, NextCursor
<1> HIDE DEF start, end, page
<1>5. start + 1 \in Int /\ end \in Int /\ end - (start + 1) + 1 = end - start
  BY <1>1, <1>2, <1>3
<1>6. \A k \in (start + 1) .. end : rows[k] \in Nat
  <2> SUFFICES ASSUME NEW k \in (start + 1) .. end
               PROVE  rows[k] \in Nat
    OBVIOUS
  <2>1. k \in 1 .. Len(rows)
    BY <1>1, <1>2, <1>3
  <2> QED BY <2>1, ElementOfSeq
<1>7. /\ SubSeq(rows, start + 1, end) \in Seq(Nat)
      /\ Len(SubSeq(rows, start + 1, end)) = IF start + 1 <= end THEN end - (start + 1) + 1 ELSE 0
      /\ \A k \in 1 .. (end - (start + 1) + 1) : SubSeq(rows, start + 1, end)[k] = rows[start + 1 + k - 1]
  BY <1>5, <1>6, SubSeqProperties
<1>8. Len(page.rows) = end - start
  <2>1. (IF start + 1 <= end THEN end - (start + 1) + 1 ELSE 0) = end - start
    <3>1. start \in Nat /\ end \in Nat /\ start <= end
      BY <1>1, <1>2, <1>3
    <3> QED BY <3>1
  <2> QED BY <1>4, <1>7, <2>1
<1>9. ASSUME NEW k \in 1 .. (end - start)
      PROVE  page.rows[k] = rows[start + k]
  <2>1. start + 1 + k - 1 = start + k
    BY <1>2
  <2> QED BY <1>4, <1>5, <1>7, <2>1
<1>10. page.rows \in Seq(Nat)
  BY <1>4, <1>7
<1> QED BY <1>2, <1>3, <1>4, <1>8, <1>9, <1>10 DEF start, end, page

----------------------------------------------------------------------------
(* What a query lists *)

(***************************************************************************)
(* Positions of the feed and their numbers are in the same order.          *)
(***************************************************************************)
LEMMA EventsAre ==
  ASSUME Numbered(feed, seq), NEW q, NEW from
  PROVE  /\ Events(q, from) \in Seq(Nat)
         /\ IsAscending(Events(q, from))
         /\ ToSet(Events(q, from)) = {feed[n].seq : n \in Selected(q, from)}
<1> DEFINE S  == Selected(q, from)
           at == Ascending(S)
           c  == Cardinality(S)
<1>1. Len(feed) \in Nat /\ DOMAIN feed = 1..Len(feed)
  BY LenProperties DEF Numbered
<1>2. S \in SUBSET (1..Len(feed)) /\ S \subseteq Nat
  BY <1>1 DEF Selected
<1>3. IsFiniteSet(S)
  <2>1. IsFiniteSet(1..Len(feed))
    BY <1>1, FS_Interval
  <2> QED BY <1>2, <2>1, FS_Subset
<1>4. /\ c \in Nat /\ at \in [1..c -> S]
      /\ IsAscending(at) /\ ToSet(at) = S
  BY <1>2, <1>3, AscendingLists
<1> HIDE DEF S, at, c
<1>5. Events(q, from) = [k \in 1..c |-> feed[at[k]].seq]
  <2>1. DOMAIN at = 1..c
    BY <1>4
  <2> QED BY <2>1 DEF Events, S, at
<1>6. \A n \in DOMAIN feed : feed[n].seq \in Nat
  <2>1. \A n \in DOMAIN feed : feed[n].seq \in 1..seq
    BY DEF Numbered
  <2> QED BY <2>1 DEF Numbered
<1>7. \A k \in 1..c : at[k] \in DOMAIN feed /\ at[k] \in S
  BY <1>1, <1>2, <1>4
<1>8. Events(q, from) \in Seq(Nat)
  <2>1. Events(q, from) \in [1..c -> Nat]
    BY <1>5, <1>6, <1>7
  <2> QED BY <1>4, <2>1
<1>9. IsAscending(Events(q, from))
  <2> SUFFICES ASSUME NEW k \in 1..c, NEW l \in 1..c, k < l
               PROVE  feed[at[k]].seq < feed[at[l]].seq
    BY <1>5 DEF IsAscending
  <2>1. at[k] < at[l]
    BY <1>4 DEF IsAscending
  <2> QED BY <1>7, <2>1 DEF Numbered
<1>10. ToSet(Events(q, from)) = {feed[n].seq : n \in S}
  <2>1. ToSet(Events(q, from)) = {feed[at[k]].seq : k \in 1..c}
    BY <1>5 DEF ToSet
  <2>2. S = {at[k] : k \in 1..c}
    BY <1>4 DEF ToSet
  <2> QED BY <2>1, <2>2
<1> QED BY <1>8, <1>9, <1>10 DEF S

\* The rows of the query are finitely many, and identifiers or numbers of events.
RowsFit ==
  /\ Rows(query) \subseteq Nat /\ IsFiniteSet(Rows(query))
  /\ Rows(query) \subseteq Items \cup Comments \cup 1..seq

(***************************************************************************)
(* Whatever is asked for, what matches is a finite set of numbers.         *)
(***************************************************************************)
LEMMA RowsFitIn == Numbered(feed, seq) /\ query \in Queries => RowsFit
<1> SUFFICES ASSUME Numbered(feed, seq), query \in Queries
             PROVE  /\ Rows(query) \subseteq Nat /\ IsFiniteSet(Rows(query))
                    /\ Rows(query) \subseteq Items \cup Comments \cup 1..seq
  BY DEF RowsFit
<1>1. CASE query.of = "items"
  <2>1. Rows(query) \in SUBSET Items
    BY <1>1 DEF Rows, Stored
  <2> QED BY <2>1, ListingAssumption, FS_Subset
<1>2. CASE query.of = "comments"
  <2>1. Rows(query) \in SUBSET Comments
    BY <1>2 DEF Rows
  <2> QED BY <2>1, ListingAssumption, FS_Subset
<1>3. CASE query.of = "events"
  <2>1. Rows(query) \in SUBSET (1..seq)
    <3>1. \A n \in Selected(query, since) : feed[n].seq \in 1..seq
      BY DEF Numbered, Selected
    <3> QED BY <1>3, <3>1 DEF Rows
  <2>2. IsFiniteSet(1..seq) /\ 1..seq \subseteq Nat
    BY Positions DEF Numbered
  <2> QED BY <2>1, <2>2, FS_Subset
<1> QED BY <1>1, <1>2, <1>3, ListingAssumption

\* So they are after a step.
LEMMA RowsFitInNext == Numbered(feed, seq)' /\ (query \in Queries)' => RowsFit'
  BY RowsFitIn, PTL

\* So they are in any state of the right type.
LEMMA RowsAreNumbers ==
  ASSUME TypeOK, Reading
  PROVE  /\ Rows(query) \subseteq Nat /\ IsFiniteSet(Rows(query))
         /\ Rows(query) \subseteq Items \cup Comments \cup 1..seq
  BY RowsFitIn DEF TypeOK, Reading, RowsFit

(***************************************************************************)
(* What sorts the rows are numbers.                                        *)
(***************************************************************************)
LEMMA KeysAreNumbers ==
  ASSUME TypeOK, Reading, query.of # "events", NEW r \in Rows(query)
  PROVE  Key(query, r) \in Int
<1>1. CASE query.of = "items"
  <2>1. r \in Items /\ Live(items[r])
    BY <1>1 DEF Rows, Stored
  <2>2. query.by \in SortKeys
    BY <1>1 DEF Reading, ParseQuery
  <2>3. /\ {items[r].title, items[r].rank} \subseteq Int
        /\ {items[r].created, items[r].updated} \subseteq Nat
    BY <2>1 DEF TypeOK, Consistent, Fits
  <2>4. items[r][query.by] \in Int
    BY <2>2, <2>3 DEF SortKeys
  <2> QED BY <1>1, <2>4 DEF Key
<1>2. CASE query.of = "comments"
  <2>1. r \in Comments /\ Live(comments[r])
    BY <1>2 DEF Rows
  <2>2. comments[r].created \in 0..now /\ now \in Nat
    BY <2>1 DEF TypeOK, Consistent, Fits
  <2> QED BY <1>2, <2>2 DEF Key
<1> QED BY <1>1, <1>2, ListingAssumption DEF Reading

(***************************************************************************)
(* Of two rows one comes before the other, also where their keys tie and   *)
(* where the order is descending: the identifier decides.                  *)
(***************************************************************************)
LEMMA BeforeIsAnOrder ==
  ASSUME TypeOK, Reading, NEW r \in Rows(query), NEW s \in Rows(query)
  PROVE  /\ r # s => (Before(query, r, s) <=> ~Before(query, s, r))
         /\ r = s => ~Before(query, r, s)
<1>1. r \in Nat /\ s \in Nat
  BY RowsAreNumbers
<1>2. CASE query.of = "events"
  BY <1>1, <1>2 DEF Before
<1>3. CASE query.of # "events"
  <2> DEFINE a == Key(query, r)
             b == Key(query, s)
  <2>1. a \in Int /\ b \in Int
    BY <1>3, KeysAreNumbers
  <2>2. /\ a = b => (Before(query, r, s) <=> r < s) /\ (Before(query, s, r) <=> s < r)
        /\ a # b => /\ Before(query, r, s) <=> ((a < b) <=> ~(query.of = "items" /\ query.desc))
                    /\ Before(query, s, r) <=> ((b < a) <=> ~(query.of = "items" /\ query.desc))
    BY <1>3 DEF Before
  <2>3. r = s => a = b
    OBVIOUS
  <2> HIDE DEF a, b
  <2>4. /\ r # s => ((r < s) <=> ~(s < r))
        /\ r = s => ~(r < s)
    BY <1>1
  <2>5. a # b => ((a < b) <=> ~(b < a))
    BY <2>1
  <2> QED BY <2>2, <2>3, <2>4, <2>5, Zenon
<1> QED BY <1>2, <1>3

(***************************************************************************)
(* However a stable sort of the rows comes out, every row is in it, each   *)
(* before those it sorts before: there is one outcome only.                *)
(***************************************************************************)
LEMMA SortedLists ==
  ASSUME TypeOK, Reading, NEW s \in Sorted(query)
  PROVE  /\ s \in Seq(Nat) /\ ToSet(s) = Rows(query)
         /\ \A m, n \in DOMAIN s : m < n => Before(query, s[m], s[n])
<1>1. Rows(query) \subseteq Nat /\ IsFiniteSet(Rows(query))
  BY RowsAreNumbers
<1>2. CASE query.of = "events"
  <2>1. s = Events(query, since)
    BY <1>2 DEF Sorted
  <2>2. Numbered(feed, seq)
    BY DEF TypeOK
  <2>3. s \in Seq(Nat) /\ IsAscending(s) /\ ToSet(s) = {feed[n].seq : n \in Selected(query, since)}
    BY <2>1, <2>2, EventsAre
  <2>4. ToSet(s) = Rows(query)
    BY <1>2, <2>3 DEF Rows
  <2>5. \A m, n \in DOMAIN s : m < n => Before(query, s[m], s[n])
    BY <1>2, <2>3 DEF IsAscending, Before
  <2> QED BY <2>3, <2>4, <2>5
<1>3. CASE query.of # "events"
  <2> DEFINE c == Cardinality(Rows(query))
             D == 1..c
  <2>1. c \in Nat
    BY <1>1, FS_CardinalityType
  <2>2. /\ s \in [D -> Rows(query)]
        /\ \A m, n \in D : m # n => s[m] # s[n]
        /\ \A m, n \in DOMAIN s : m < n => ~Before(query, s[n], s[m])
    BY <1>3 DEF Sorted, SetToSeqs
  <2>3. IsFiniteSet(D) /\ Cardinality(D) = c
    BY <2>1, Positions
  <2> HIDE DEF c
  <2>4. s \in Surjection(D, Rows(query))
    <3>1. s \in Injection(D, Rows(query))
      BY <2>2 DEF Injection, IsInjective
    <3>2. Cardinality(D) = Cardinality(Rows(query))
      BY <2>3 DEF c
    <3> QED BY <1>1, <3>1, <3>2, FS_Injection
  <2>5. ToSet(s) = Rows(query)
    BY <2>2, <2>4 DEF ToSet, Surjection
  <2>6. s \in Seq(Nat)
    <3>1. s \in [D -> Nat]
      BY <1>1, <2>2
    <3> QED BY <2>1, <3>1
  <2>7. ASSUME NEW m \in DOMAIN s, NEW n \in DOMAIN s, m < n
        PROVE  Before(query, s[m], s[n])
    <3>1. s[m] \in Rows(query) /\ s[n] \in Rows(query) /\ ~Before(query, s[n], s[m])
      BY <2>2, <2>7
    <3>2. m # n
      BY <2>1, <2>2, <2>7
    <3>3. s[m] # s[n]
      BY <2>2, <3>2
    <3> QED BY <3>1, <3>3, BeforeIsAnOrder
  <2> QED BY <2>5, <2>6, <2>7
<1> QED BY <1>2, <1>3

(***************************************************************************)
(* A row is listed behind as many rows as sort before it.                  *)
(***************************************************************************)
LEMMA AheadIs ==
  ASSUME TypeOK, Reading, NEW s \in Sorted(query), NEW k \in DOMAIN s
  PROVE  Ahead(s[k]) = k - 1
<1> DEFINE A == {x \in Rows(query) : Before(query, x, s[k])}
           D == 1 .. (k - 1)
           f == [j \in D |-> s[j]]
<1>1. /\ s \in Seq(Nat) /\ ToSet(s) = Rows(query)
      /\ \A m, n \in DOMAIN s : m < n => Before(query, s[m], s[n])
  BY SortedLists
<1>2. /\ Len(s) \in Nat /\ DOMAIN s = 1..Len(s) /\ k \in 1..Len(s)
      /\ \A j \in DOMAIN s : s[j] \in Rows(query)
  BY <1>1, LenProperties DEF ToSet
<1>3. D \subseteq DOMAIN s /\ \A j \in D : j < k
  BY <1>2
<1>4. f \in [D -> A]
  <2>1. \A j \in D : s[j] \in A
    BY <1>1, <1>2, <1>3
  <2> QED BY <2>1
<1>5. ASSUME NEW x \in A
      PROVE  \E j \in D : f[j] = x
  <2>1. PICK j \in DOMAIN s : s[j] = x
    BY <1>1 DEF ToSet
  <2>2. Before(query, s[j], s[k]) /\ ~Before(query, s[k], s[j]) /\ j # k
    <3>1. s[j] \in Rows(query) /\ s[k] \in Rows(query) /\ Before(query, s[j], s[k])
      BY <1>2, <2>1
    <3> QED BY <3>1, BeforeIsAnOrder
  <2>3. ~(k < j)
    BY <1>1, <2>2
  <2>4. j \in D
    BY <1>2, <2>2, <2>3
  <2> QED BY <2>1, <2>4
<1>6. f \in Surjection(D, A)
  BY <1>4, <1>5 DEF Surjection
<1>7. f \in Injection(D, A)
  <2>1. ASSUME NEW i \in D, NEW j \in D, i < j
        PROVE  f[i] # f[j]
    <3>1. Before(query, s[i], s[j]) /\ s[i] \in Rows(query) /\ s[j] \in Rows(query)
      BY <1>1, <1>2, <1>3, <2>1
    <3>2. s[i] # s[j]
      BY <3>1, BeforeIsAnOrder
    <3> QED BY <3>2
  <2>2. \A i, j \in D : i # j => i < j \/ j < i
    BY <1>2
  <2>3. \A i, j \in D : f[i] = f[j] => i = j
    BY <2>1, <2>2
  <2> HIDE DEF f
  <2> QED BY <1>4, <2>3 DEF Injection, IsInjective
<1>8. IsFiniteSet(D) /\ Cardinality(D) = k - 1
  <2>1. k - 1 \in Nat
    BY <1>2
  <2> QED BY <2>1, Positions
<1> HIDE DEF f
<1>9. Cardinality(A) = Cardinality(D)
  BY <1>6, <1>7, <1>8, FS_Surjection
<1> QED BY <1>8, <1>9 DEF Ahead

\* How many rows are ahead of another is a number.
AheadCounts == \A r : Ahead(r) \in Nat

\* Finitely many rows are counted.
LEMMA AheadIsANumber == TypeOK /\ Reading => AheadCounts
<1> SUFFICES ASSUME TypeOK, Reading, NEW r
             PROVE  Ahead(r) \in Nat
  BY DEF AheadCounts
<1>1. {s \in Rows(query) : Before(query, s, r)} \in SUBSET Rows(query)
  OBVIOUS
<1>2. IsFiniteSet({s \in Rows(query) : Before(query, s, r)})
  BY <1>1, RowsAreNumbers, FS_Subset
<1> QED BY <1>2, FS_CardinalityType DEF Ahead

\* So they are after a step.
LEMMA AheadIsANumberNext == TypeOK' /\ Reading' => AheadCounts'
  BY AheadIsANumber, PTL

----------------------------------------------------------------------------
(* Pages put one behind the other *)

(***************************************************************************)
(* What is in one sequence followed by another.                            *)
(***************************************************************************)
LEMMA ConcatLists ==
  ASSUME NEW s \in Seq(Nat), NEW p \in Seq(Nat)
  PROVE  /\ s \o p \in Seq(Nat) /\ Len(s \o p) = Len(s) + Len(p)
         /\ Len(s) \in Nat /\ Len(p) \in Nat
         /\ DOMAIN s = 1..Len(s) /\ DOMAIN p = 1..Len(p) /\ DOMAIN (s \o p) = 1..(Len(s) + Len(p))
         /\ \A i \in 1..Len(s) : (s \o p)[i] = s[i]
         /\ \A i \in 1..Len(p) : (s \o p)[Len(s) + i] = p[i]
         /\ ToSet(s \o p) = ToSet(s) \cup ToSet(p)
<1>1. /\ s \o p \in Seq(Nat) /\ Len(s \o p) = Len(s) + Len(p)
      /\ \A i \in 1 .. Len(s) + Len(p) : (s \o p)[i] = IF i <= Len(s) THEN s[i] ELSE p[i - Len(s)]
  BY ConcatProperties, Zenon
<1>2. /\ Len(s) \in Nat /\ DOMAIN s = 1..Len(s)
      /\ Len(p) \in Nat /\ DOMAIN p = 1..Len(p)
      /\ DOMAIN (s \o p) = 1..(Len(s) + Len(p))
  BY <1>1, LenProperties
<1>3. ASSUME NEW i \in 1..Len(s)
      PROVE  (s \o p)[i] = s[i]
  <2>1. i \in 1 .. Len(s) + Len(p) /\ i <= Len(s)
    BY <1>2
  <2> QED BY <1>1, <2>1
<1>4. ASSUME NEW i \in 1..Len(p)
      PROVE  (s \o p)[Len(s) + i] = p[i]
  <2>1. /\ Len(s) + i \in 1 .. Len(s) + Len(p) /\ ~(Len(s) + i <= Len(s))
        /\ (Len(s) + i) - Len(s) = i
    BY <1>2
  <2> QED BY <1>1, <2>1
<1>5. ToSet(s \o p) = ToSet(s) \cup ToSet(p)
  <2>1. ASSUME NEW x \in ToSet(s \o p)
        PROVE  x \in ToSet(s) \cup ToSet(p)
    <3>1. PICK i \in 1 .. Len(s) + Len(p) : x = (s \o p)[i]
      BY <1>2 DEF ToSet
    <3>2. CASE i <= Len(s)
      BY <1>1, <1>2, <3>1, <3>2 DEF ToSet
    <3>3. CASE ~(i <= Len(s))
      <4>1. i - Len(s) \in 1..Len(p)
        BY <1>2, <3>3
      <4> QED BY <1>1, <1>2, <3>1, <3>3, <4>1 DEF ToSet
    <3> QED BY <3>2, <3>3
  <2>2. ASSUME NEW x \in ToSet(s)
        PROVE  x \in ToSet(s \o p)
    <3>1. PICK i \in 1..Len(s) : x = s[i]
      BY <1>2 DEF ToSet
    <3>2. i \in 1 .. (Len(s) + Len(p))
      BY <1>2
    <3> QED BY <1>2, <1>3, <3>1, <3>2 DEF ToSet
  <2>3. ASSUME NEW x \in ToSet(p)
        PROVE  x \in ToSet(s \o p)
    <3>1. PICK i \in 1..Len(p) : x = p[i]
      BY <1>2 DEF ToSet
    <3>2. Len(s) + i \in 1 .. (Len(s) + Len(p))
      BY <1>2
    <3> QED BY <1>2, <1>4, <3>1, <3>2 DEF ToSet
  <2> QED BY <2>1, <2>2, <2>3
<1> QED BY <1>1, <1>2, <1>3, <1>4, <1>5

(***************************************************************************)
(* The last entry of one sequence followed by another.                     *)
(***************************************************************************)
LEMMA LastOfConcat ==
  ASSUME NEW s \in Seq(Nat), NEW p \in Seq(Nat)
  PROVE  /\ p = << >> => s \o p = s
         /\ p # << >> => /\ s \o p # << >> /\ Last(s \o p) = p[Len(p)]
                         /\ Len(p) \in 1..Len(p)
<1>1. CASE p = << >>
  BY <1>1, ConcatEmptySeq
<1>2. CASE p # << >>
  <2>1. Len(p) \in Nat \ {0} /\ Len(s) \in Nat
    BY <1>2, EmptySeq, LenProperties
  <2>2. /\ Len(s \o p) = Len(s) + Len(p)
        /\ \A i \in 1..Len(p) : (s \o p)[Len(s) + i] = p[i]
    BY ConcatLists
  <2>3. Last(s \o p) = p[Len(p)]
    BY <2>1, <2>2 DEF Last
  <2>4. s \o p # << >>
    <3>1. Len(<< >>) = 0
      BY EmptySeq
    <3> QED BY <2>1, <2>2, <3>1
  <2> QED BY <2>1, <2>3, <2>4
<1> QED BY <1>1, <1>2

\* A sequence lists in order what a set W has between a and b.
Stretch(s, W, a, b) == IsAscending(s) /\ ToSet(s) = {x \in W : a < x /\ x <= b}

(***************************************************************************)
(* Two stretches of a set of numbers, one behind the other, make one.      *)
(***************************************************************************)
LEMMA GrowsInOrder ==
  ASSUME NEW s \in Seq(Nat), NEW p \in Seq(Nat), NEW W, W \subseteq Nat,
         NEW a \in Nat, NEW b \in Nat, NEW c \in Nat, a <= b, b <= c,
         Stretch(s, W, a, b), Stretch(p, W, b, c)
  PROVE  Stretch(s \o p, W, a, c)
<1> DEFINE sp == s \o p
<1>0. /\ IsAscending(s) /\ ToSet(s) = {x \in W : a < x /\ x <= b}
      /\ IsAscending(p) /\ ToSet(p) = {x \in W : b < x /\ x <= c}
  BY DEF Stretch
<1>1. /\ Len(s) \in Nat /\ Len(p) \in Nat
      /\ DOMAIN s = 1..Len(s) /\ DOMAIN p = 1..Len(p) /\ DOMAIN sp = 1..(Len(s) + Len(p))
      /\ \A i \in 1..Len(s) : sp[i] = s[i]
      /\ \A i \in 1..Len(p) : sp[Len(s) + i] = p[i]
      /\ ToSet(sp) = ToSet(s) \cup ToSet(p)
  BY ConcatLists
<1>2. ToSet(sp) = {x \in W : a < x /\ x <= c}
  <2>1. ASSUME NEW x \in W
        PROVE  (a < x /\ x <= c) <=> (a < x /\ x <= b) \/ (b < x /\ x <= c)
    <3>1. x \in Nat
      OBVIOUS
    <3> QED BY <3>1
  <2> QED BY <1>0, <1>1, <2>1
<1> HIDE DEF sp
<1>3. ASSUME NEW m, NEW n, m \in DOMAIN sp, n \in DOMAIN sp, m < n
      PROVE  sp[m] < sp[n]
  <2>0. /\ Len(s) \in Nat /\ Len(p) \in Nat
        /\ m \in 1..(Len(s) + Len(p)) /\ n \in 1..(Len(s) + Len(p))
    BY <1>1, <1>3
  <2>1. CASE n <= Len(s)
    <3>1. m \in 1..Len(s) /\ n \in 1..Len(s)
      BY <1>3, <2>0, <2>1
    <3> QED BY <1>0, <1>1, <1>3, <3>1 DEF IsAscending
  <2>2. CASE m <= Len(s) /\ Len(s) < n
    <3>1. m \in 1..Len(s) /\ n - Len(s) \in 1..Len(p) /\ Len(s) + (n - Len(s)) = n
      BY <2>0, <2>2
    <3>2. sp[m] \in ToSet(s) /\ sp[n] \in ToSet(p)
      <4>1. sp[m] = s[m] /\ sp[n] = p[n - Len(s)]
        BY <1>1, <3>1
      <4> QED BY <1>1, <3>1, <4>1 DEF ToSet
    <3>3. sp[m] \in Nat /\ sp[n] \in Nat /\ sp[m] <= b /\ b < sp[n]
      BY <1>0, <3>2
    <3> QED BY <3>3
  <2>3. CASE Len(s) < m
    <3>1. /\ m - Len(s) \in 1..Len(p) /\ Len(s) + (m - Len(s)) = m
          /\ n - Len(s) \in 1..Len(p) /\ Len(s) + (n - Len(s)) = n
          /\ m - Len(s) < n - Len(s)
      <4>1. Len(s) \in Nat /\ Len(p) \in Nat /\ m \in Int /\ n \in Int /\ Len(s) < n
        BY <1>3, <2>0, <2>3
      <4>2. m - Len(s) \in 1..Len(p) /\ Len(s) + (m - Len(s)) = m
        BY <4>1, <2>0, <2>3
      <4>3. n - Len(s) \in 1..Len(p) /\ Len(s) + (n - Len(s)) = n
        BY <4>1, <2>0
      <4> QED BY <1>3, <4>1, <4>2, <4>3
    <3>2. sp[m] = p[m - Len(s)] /\ sp[n] = p[n - Len(s)]
      BY <1>1, <3>1
    <3> QED BY <1>0, <1>1, <3>1, <3>2 DEF IsAscending
  <2> QED BY <2>0, <2>1, <2>2, <2>3
<1>4. Stretch(sp, W, a, c)
  BY <1>2, <1>3 DEF IsAscending, Stretch
<1> QED BY <1>4 DEF sp

(***************************************************************************)
(* Two sequences in order of which one has what the other has up to some   *)
(* number: it is the beginning of the other.                               *)
(***************************************************************************)
LEMMA IsThePrefix ==
  ASSUME NEW s \in Seq(Nat), NEW rows \in Seq(Nat), NEW b \in Nat,
         IsAscending(s), IsAscending(rows),
         ToSet(s) = {x \in ToSet(rows) : x <= b}
  PROVE  /\ Len(s) <= Len(rows)
         /\ \A k \in 1..Len(s) : rows[k] = s[k]
         /\ \A k \in 1..Len(rows) : Len(s) < k => b < rows[k]
<1>1. /\ Len(s) \in Nat /\ DOMAIN s = 1..Len(s)
      /\ Len(rows) \in Nat /\ DOMAIN rows = 1..Len(rows)
      /\ \A k \in 1..Len(s) : s[k] \in Nat
      /\ \A k \in 1..Len(rows) : rows[k] \in Nat
  BY LenProperties, ElementOfSeq
<1>2. \A k \in 1..Len(s) : s[k] <= b /\ \E j \in 1..Len(rows) : s[k] = rows[j]
  <2> SUFFICES ASSUME NEW k \in 1..Len(s)
               PROVE  s[k] <= b /\ \E j \in 1..Len(rows) : s[k] = rows[j]
    OBVIOUS
  <2>1. s[k] \in ToSet(s)
    BY <1>1 DEF ToSet
  <2>2. s[k] \in ToSet(rows) /\ s[k] <= b
    BY <2>1
  <2> QED BY <1>1, <2>2 DEF ToSet
<1>3. \A j \in 1..Len(rows) : rows[j] <= b => \E k \in 1..Len(s) : s[k] = rows[j]
  <2> SUFFICES ASSUME NEW j \in 1..Len(rows), rows[j] <= b
               PROVE  \E k \in 1..Len(s) : s[k] = rows[j]
    OBVIOUS
  <2>1. rows[j] \in ToSet(s)
    BY <1>1 DEF ToSet
  <2> QED BY <1>1, <2>1 DEF ToSet
<1>4. \A i, j \in 1..Len(s) : s[i] < s[j] => i < j
  <2> SUFFICES ASSUME NEW i \in 1..Len(s), NEW j \in 1..Len(s), s[i] < s[j], ~(i < j)
               PROVE  FALSE
    OBVIOUS
  <2>1. j < i => s[j] < s[i]
    BY <1>1 DEF IsAscending
  <2>2. s[i] \in Nat /\ s[j] \in Nat
    BY <1>1
  <2> QED BY <1>1, <2>1, <2>2
<1> DEFINE T == {k \in 1..Len(s) : ~(k \in 1..Len(rows) /\ rows[k] = s[k])}
<1>5. T = {}
  <2> SUFFICES ASSUME T # {}
               PROVE  FALSE
    OBVIOUS
  <2>1. PICK m \in T : \A k \in T : m <= k
    BY <1>1, FirstPosition
  <2>2. m \in 1..Len(s) /\ ~(m \in 1..Len(rows) /\ rows[m] = s[m])
    OBVIOUS
  <2>3. ASSUME NEW k \in 1..Len(s), k < m
        PROVE  k \in 1..Len(rows) /\ rows[k] = s[k]
    <3>1. k \notin T
      <4>1. ~(m <= k)
        BY <2>2, <2>3
      <4> QED BY <2>1, <4>1
    <3> QED BY <3>1
  <2> HIDE DEF T
  <2>4. PICK j \in 1..Len(rows) : s[m] = rows[j]
    BY <1>2, <2>2
  <2>5. ~(j < m)
    <3> SUFFICES ASSUME j < m
                 PROVE  FALSE
      OBVIOUS
    <3>1. j \in 1..Len(s)
      BY <1>1, <2>2
    <3>2. rows[j] = s[j] /\ s[j] < s[m] /\ s[j] \in Nat
      BY <1>1, <2>2, <2>3, <3>1 DEF IsAscending
    <3> QED BY <2>4, <3>2
  <2>6. m \in 1..Len(rows) /\ m < j
    <3>1. m \in 1..Len(rows)
      BY <1>1, <2>2, <2>5
    <3>2. m # j
      BY <2>2, <2>4, <3>1
    <3> QED BY <2>5, <3>1, <3>2
  <2>7. rows[m] < s[m] /\ rows[m] <= b
    <3>1. rows[m] < rows[j]
      BY <1>1, <2>6 DEF IsAscending
    <3>2. rows[m] \in Nat /\ s[m] \in Nat /\ s[m] <= b
      BY <1>1, <1>2, <2>2, <2>6
    <3> QED BY <2>4, <3>1, <3>2
  <2>8. PICK i \in 1..Len(s) : s[i] = rows[m]
    BY <1>3, <2>6, <2>7
  <2>9. i < m
    BY <1>4, <2>2, <2>7, <2>8
  <2>10. i \in 1..Len(rows) /\ rows[i] = s[i] /\ rows[i] < rows[m]
    BY <1>1, <2>3, <2>6, <2>9 DEF IsAscending
  <2>11. rows[m] \in Nat
    BY <1>1, <2>6
  <2> QED BY <2>8, <2>10, <2>11
<1>6. \A k \in 1..Len(s) : k \in 1..Len(rows) /\ rows[k] = s[k]
  BY <1>5
<1> HIDE DEF T
<1>7. Len(s) <= Len(rows)
  <2>1. CASE Len(s) = 0
    BY <1>1, <2>1
  <2>2. CASE Len(s) # 0
    <3>1. Len(s) \in 1..Len(s)
      BY <1>1, <2>2
    <3>2. Len(s) \in 1..Len(rows)
      BY <1>6, <3>1
    <3> QED BY <1>1, <3>2
  <2> QED BY <2>1, <2>2
<1>8. ASSUME NEW k \in 1..Len(rows), Len(s) < k
      PROVE  b < rows[k]
  <2> SUFFICES ASSUME ~(b < rows[k])
               PROVE  FALSE
    OBVIOUS
  <2>1. rows[k] \in Nat /\ rows[k] <= b
    BY <1>1
  <2>2. PICK i \in 1..Len(s) : s[i] = rows[k]
    BY <1>3, <2>1
  <2>3. i \in 1..Len(rows) /\ rows[i] = rows[k] /\ i < k
    BY <1>1, <1>6, <1>8, <2>2
  <2>4. rows[i] < rows[k]
    BY <1>1, <2>3 DEF IsAscending
  <2> QED BY <2>1, <2>3, <2>4
<1> QED BY <1>6, <1>7, <1>8

----------------------------------------------------------------------------
(* A page *)

(***************************************************************************)
(* What is listed depends on the store and the query, and on nothing else. *)
(***************************************************************************)
LEMMA ListingStays ==
  ASSUME UNCHANGED << items, comments, feed, since, query >>
  PROVE  /\ Rows(query)' = Rows(query) /\ Told' = Told
         /\ \A r : Ahead(r)' = Ahead(r)
<1>1. /\ items' = items /\ comments' = comments /\ feed' = feed /\ since' = since /\ query' = query
  OBVIOUS
<1>2. Stored' = Stored
  BY <1>1 DEF Stored
<1>3. Up' = Up
  BY <1>1 DEF Up, UpOf
<1>4. \A i : Matches(query, i)' <=> Matches(query, i)
  <2> SUFFICES ASSUME NEW i
               PROVE  Matches(query, i)' <=> Matches(query, i)
    OBVIOUS
  <2>1. IsBelow(i, query.subtree)' <=> IsBelow(i, query.subtree)
    BY <1>1, <1>2, <1>3 DEF IsBelow
  <2> QED BY <1>1, <2>1 DEF Matches, CategoryOf
<1>5. Selected(query, since)' = Selected(query, since)
  BY <1>1 DEF Selected, Selects
<1>6. Rows(query)' = Rows(query)
  BY <1>1, <1>2, <1>4, <1>5 DEF Rows
<1>7. \A r, s : Before(query, r, s)' <=> Before(query, r, s)
  BY <1>1 DEF Before, Key
<1>8. \A r : Ahead(r)' = Ahead(r)
  BY <1>6, <1>7 DEF Ahead
<1>9. Told' = Told
  BY <1>1 DEF Told, Selects
<1> QED BY <1>6, <1>8, <1>9

(***************************************************************************)
(* ReadPage, as far as all queries go: it gives the rows of the sorted     *)
(* listing from the cursor on, and moves the cursor behind them.           *)
(***************************************************************************)
PageOf(rows, start, end) ==
  /\ rows \in Sorted(query)
  /\ start \in 0..Len(rows) /\ end \in start..Len(rows)
  /\ start = (IF cursor <= Len(rows) THEN cursor ELSE Len(rows))
  /\ start < Len(rows) => start < end
  /\ \E page \in Seq(Nat) :
       /\ Len(page) = end - start
       /\ \A k \in 1 .. (end - start) : page[k] = rows[start + k]
       /\ seen' = seen \o page
       /\ handled' = IF query.of = "events" THEN handled \o page ELSE handled
  /\ cursor' = IF end < Len(rows) THEN end ELSE 0
  /\ done' = (cursor' = 0)

\* ReadPage gives a page of the listing as it is sorted.
LEMMA ReadPageGives ==
  ASSUME TypeOK, Reading, ReadPage
  PROVE  \E rows, start, end : PageOf(rows, start, end)
<1>1. PICK rows \in Sorted(query) :
        LET page == Paginate(rows, cursor)
        IN  /\ seen' = seen \o page.rows
            /\ handled' = IF query.of = "events" THEN handled \o page.rows ELSE handled
            /\ cursor' = page.next /\ done' = (page.next = 0)
  BY DEF ReadPage
<1>2. rows \in Seq(Nat) /\ cursor \in Nat
  BY SortedLists DEF TypeOK
<1> DEFINE start == Start(rows, cursor)
           end   == Lesser(start + Limit, Len(rows))
           page  == Paginate(rows, cursor)
<1>3. /\ start \in 0..Len(rows) /\ end \in start..Len(rows)
      /\ start = (IF cursor <= Len(rows) THEN cursor ELSE Len(rows))
      /\ start < Len(rows) => start < end
      /\ page.rows \in Seq(Nat) /\ Len(page.rows) = end - start
      /\ \A k \in 1 .. (end - start) : page.rows[k] = rows[start + k]
      /\ page.next = IF end < Len(rows) THEN end ELSE 0
  BY <1>2, PageIs
<1>4. /\ seen' = seen \o page.rows
      /\ handled' = IF query.of = "events" THEN handled \o page.rows ELSE handled
      /\ cursor' = page.next /\ done' = (page.next = 0)
  BY <1>1
<1> HIDE DEF start, end, page
<1>5. \E p \in Seq(Nat) :
        /\ Len(p) = end - start
        /\ \A k \in 1 .. (end - start) : p[k] = rows[start + k]
        /\ seen' = seen \o p
        /\ handled' = IF query.of = "events" THEN handled \o p ELSE handled
  BY <1>3, <1>4
<1>6. PageOf(rows, start, end)
  BY <1>1, <1>3, <1>4, <1>5 DEF PageOf
<1> QED BY <1>6

(***************************************************************************)
(* What a page leaves as it was.                                           *)
(***************************************************************************)
LEMMA PageLeaves ==
  ASSUME ReadPage
  PROVE  /\ UNCHANGED << items, comments, now, writes, feed, seq, untold, query, since, stayed, lower, higher >>
         /\ done = FALSE
  BY DEF ReadPage, store, log, places

(***************************************************************************)
(* After a page the reader's state is of its type.                         *)
(***************************************************************************)
LEMMA ReadPageTyped ==
  ASSUME TypeOK, Reading, ReadPage
  PROVE  TypeOK' /\ Reading'
<1>1. PICK rows, start, end : PageOf(rows, start, end)
  BY ReadPageGives
<1>2. PICK page \in Seq(Nat) :
        /\ Len(page) = end - start
        /\ seen' = seen \o page
        /\ handled' = IF query.of = "events" THEN handled \o page ELSE handled
  BY <1>1 DEF PageOf
<1>3. /\ UNCHANGED << items, comments, now, writes, feed, seq, untold, query, since, stayed, lower, higher >>
  BY PageLeaves
<1>4. seen \in Seq(Nat) /\ handled \in Seq(Nat) /\ cursor \in Nat /\ cursor <= Len(seen)
  BY DEF Reading, TypeOK
<1>5. seen' \in Seq(Nat) /\ handled' \in Seq(Nat)
  BY <1>2, <1>4, ConcatLists
<1>6. Len(seen') = Len(seen) + Len(page) /\ Len(seen) \in Nat /\ Len(page) \in Nat
  BY <1>2, <1>4, ConcatLists
<1>7. Len(rows) \in Nat
  <2>1. rows \in Seq(Nat)
    BY <1>1, SortedLists DEF PageOf
  <2> QED BY <2>1, LenProperties
<1>8. cursor' \in Nat /\ cursor' <= Len(seen')
  <2>1. /\ start \in 0..Len(rows) /\ end \in start..Len(rows)
        /\ start = (IF cursor <= Len(rows) THEN cursor ELSE Len(rows))
        /\ cursor' = IF end < Len(rows) THEN end ELSE 0
    BY <1>1 DEF PageOf
  <2>2. start <= cursor /\ end = start + Len(page)
    BY <1>2, <1>4, <1>7, <2>1
  <2> QED BY <1>4, <1>6, <1>7, <2>1, <2>2
<1>9. done' \in BOOLEAN
  BY <1>1 DEF PageOf
<1>10. Consistent(items, comments, now)' /\ Numbered(feed, seq)'
  BY <1>3 DEF TypeOK, Consistent, Fits, Numbered
<1>11. TypeOK'
  BY <1>3, <1>8, <1>10 DEF TypeOK
<1>12. Rows(query)' = Rows(query)
  BY <1>3, ListingStays
<1>13. ParseQuery(query)'
  BY <1>3 DEF Reading, ParseQuery
<1> QED BY <1>3, <1>5, <1>9, <1>11, <1>12, <1>13 DEF Reading

(***************************************************************************)
(* A page gives what is at the cursor: the rows behind it are as far away  *)
(* as before, those before it were given.                                  *)
(***************************************************************************)
LEMMA ReadPageInPlace ==
  ASSUME TypeOK, Reading, InPlace, ReadPage
  PROVE  InPlace'
<1>1. PICK rows, start, end : PageOf(rows, start, end)
  BY ReadPageGives
<1>2. PICK page \in Seq(Nat) :
        /\ Len(page) = end - start
        /\ \A k \in 1 .. (end - start) : page[k] = rows[start + k]
        /\ seen' = seen \o page
  BY <1>1 DEF PageOf
<1>3. UNCHANGED << items, comments, now, writes, feed, seq, untold, query, since, stayed, lower, higher >>
      /\ done = FALSE
  BY PageLeaves
<1>4. \A r : Ahead(r)' = Ahead(r)
  BY <1>3, ListingStays
<1>5. /\ rows \in Seq(Nat) /\ ToSet(rows) = Rows(query)
      /\ \A k \in DOMAIN rows : Ahead(rows[k]) = k - 1
  BY <1>1, SortedLists, AheadIs DEF PageOf
<1>6. Len(rows) \in Nat
  BY <1>5, LenProperties
<1>17. DOMAIN rows = 1..Len(rows)
  BY <1>5, LenProperties
<1>8. cursor \in Nat
  BY DEF TypeOK
<1>7. /\ start \in Nat /\ end \in Nat /\ start <= end /\ end <= Len(rows)
      /\ cursor <= Len(rows) => start = cursor
      /\ Len(rows) < cursor => start = Len(rows)
      /\ start < Len(rows) => start < end
  <2>1. /\ start \in 0..Len(rows) /\ end \in start..Len(rows)
        /\ start = (IF cursor <= Len(rows) THEN cursor ELSE Len(rows))
        /\ start < Len(rows) => start < end
    BY <1>1 DEF PageOf
  <2> QED BY <1>6, <1>8, <2>1
<1>16. /\ end < Len(rows) => cursor' = end
       /\ ~(end < Len(rows)) => cursor' = 0
       /\ done' <=> cursor' = 0
  BY <1>1 DEF PageOf
<1>9. /\ Len(seen) \in Nat /\ Len(page) \in Nat
      /\ DOMAIN seen = 1..Len(seen) /\ DOMAIN page = 1..Len(page)
      /\ DOMAIN seen' = 1..(Len(seen) + Len(page))
      /\ \A i \in 1..Len(seen) : seen'[i] = seen[i]
      /\ \A i \in 1..Len(page) : seen'[Len(seen) + i] = page[i]
      /\ ToSet(seen') = ToSet(seen) \cup ToSet(page)
  <2>1. seen \in Seq(Nat)
    BY DEF Reading
  <2> QED BY <1>2, <2>1, ConcatLists
<1>18. Len(seen) \in Nat /\ Len(page) \in Nat /\ Len(page) = end - start
  BY <1>2, <1>9
<1>10. ASSUME NEW r \in stayed, NEW k \in 1..Len(rows), rows[k] = r
       PROVE  /\ Ahead(r) = k - 1
              /\ \A i \in 1..Len(page) : page[i] = r => i = k - start
              /\ start < k /\ k <= end => k - start \in 1..Len(page) /\ page[k - start] = r
  <2>1. \A j \in 1..Len(rows) : rows[j] = r => j = k
    <3> SUFFICES ASSUME NEW j \in 1..Len(rows), rows[j] = r
                 PROVE  j = k
      OBVIOUS
    <3>1. Ahead(r) = j - 1 /\ Ahead(r) = k - 1
      BY <1>5, <1>17, <1>10
    <3> QED BY <3>1
  <2>2. ASSUME NEW i \in 1..Len(page), page[i] = r
        PROVE  i = k - start
    <3>1. start + i \in 1..Len(rows) /\ i \in 1 .. (end - start)
      BY <1>6, <1>7, <1>18, <2>2
    <3>2. rows[start + i] = r
      BY <1>2, <2>2, <3>1
    <3>3. start + i = k
      BY <2>1, <3>1, <3>2
    <3> QED BY <1>7, <3>1, <3>3
  <2>3. ASSUME start < k, k <= end
        PROVE  k - start \in 1..Len(page) /\ page[k - start] = r
    <3>1. k - start \in 1 .. (end - start) /\ start + (k - start) = k
      BY <1>6, <1>7, <2>3
    <3> QED BY <1>2, <1>10, <1>18, <3>1
  <2>4. Ahead(r) = k - 1
    BY <1>5, <1>17, <1>10
  <2> QED BY <2>2, <2>3, <2>4
<1>11. ASSUME NEW r \in stayed, NEW k \in 1..Len(rows), rows[k] = r, r \notin lower
       PROVE  r \in ToSet(seen') \/ (~done' /\ Ahead(r) >= cursor')
  <2>1. CASE r \in ToSet(seen)
    BY <1>9, <2>1
  <2>2. CASE r \notin ToSet(seen)
    <3>1. Ahead(r) >= cursor /\ Ahead(r) = k - 1
      BY <1>10, <1>11, <2>2 DEF InPlace
    <3>2. start = cursor /\ start < k
      BY <1>6, <1>7, <1>8, <3>1
    <3>3. CASE k <= end
      <4>1. k - start \in 1..Len(page) /\ page[k - start] = r
        BY <1>10, <1>11, <3>2, <3>3
      <4> QED BY <1>9, <4>1 DEF ToSet
    <3>4. CASE end < k
      <4>1. end < Len(rows) /\ cursor' = end /\ end # 0
        BY <1>6, <1>7, <1>16, <3>2, <3>4
      <4>2. ~done' /\ k - 1 >= cursor'
        BY <1>6, <1>7, <1>16, <3>4, <4>1
      <4> QED BY <3>1, <4>2
    <3> QED BY <1>6, <1>7, <3>3, <3>4
  <2> QED BY <2>1, <2>2
<1>12. ASSUME NEW r \in stayed, NEW k \in 1..Len(rows), rows[k] = r, r \notin higher
       PROVE  /\ \A m, n \in DOMAIN seen' : seen'[m] = r /\ seen'[n] = r => m = n
              /\ ~done' /\ r \in ToSet(seen') => Ahead(r) < cursor'
  <2>1. /\ \A m, n \in DOMAIN seen : seen[m] = r /\ seen[n] = r => m = n
        /\ r \in ToSet(seen) => Ahead(r) < cursor
    BY <1>3, <1>12 DEF InPlace
  <2>2. Ahead(r) = k - 1
    BY <1>10, <1>12
  <2>3. r \in ToSet(page) => r \notin ToSet(seen) /\ start < k /\ k <= end
    <3> SUFFICES ASSUME r \in ToSet(page)
                 PROVE  r \notin ToSet(seen) /\ start < k /\ k <= end
      OBVIOUS
    <3>1. PICK i \in 1..Len(page) : page[i] = r
      BY <1>9 DEF ToSet
    <3>2. i = k - start
      BY <1>10, <1>12, <3>1
    <3>3. start < k /\ k <= end
      BY <1>6, <1>7, <1>18, <3>1, <3>2
    <3>4. r \notin ToSet(seen)
      <4> SUFFICES ASSUME r \in ToSet(seen)
                   PROVE  FALSE
        OBVIOUS
      <4>1. k - 1 < cursor
        BY <2>1, <2>2
      <4> QED BY <1>6, <1>7, <1>8, <3>3, <4>1
    <3> QED BY <3>3, <3>4
  <2>4. ASSUME NEW m \in DOMAIN seen', NEW n \in DOMAIN seen', seen'[m] = r, seen'[n] = r, m < n
        PROVE  FALSE
    <3>1. m \in 1..(Len(seen) + Len(page)) /\ n \in 1..(Len(seen) + Len(page))
      BY <1>9
    <3>2. ASSUME NEW i \in 1..(Len(seen) + Len(page)), seen'[i] = r
          PROVE  /\ i <= Len(seen) => i \in DOMAIN seen /\ seen[i] = r /\ r \in ToSet(seen)
                 /\ Len(seen) < i => /\ i - Len(seen) \in 1..Len(page) /\ page[i - Len(seen)] = r
                                     /\ r \in ToSet(page)
      <4>1. CASE i <= Len(seen)
        <5>1. i \in 1..Len(seen)
          BY <1>9, <4>1
        <5>2. i \in DOMAIN seen /\ seen[i] = r
          BY <1>9, <3>2, <5>1
        <5> QED BY <1>9, <4>1, <5>2 DEF ToSet
      <4>2. CASE Len(seen) < i
        <5>1. i - Len(seen) \in 1..Len(page) /\ Len(seen) + (i - Len(seen)) = i
          BY <1>18, <4>2
        <5>2. page[i - Len(seen)] = r
          BY <1>9, <3>2, <5>1
        <5>3. r \in ToSet(page)
          BY <1>9, <5>1, <5>2 DEF ToSet
        <5>4. ~(i <= Len(seen))
          BY <1>18, <4>2
        <5> QED BY <5>1, <5>2, <5>3, <5>4
      <4> QED BY <1>18, <4>1, <4>2
    <3>3. CASE n <= Len(seen)
      <4>1. m <= Len(seen)
        BY <1>18, <2>4, <3>1, <3>3
      <4>2. m \in DOMAIN seen /\ seen[m] = r /\ n \in DOMAIN seen /\ seen[n] = r
        BY <2>4, <3>1, <3>2, <3>3, <4>1
      <4>3. m = n
        BY <2>1, <4>2
      <4> QED BY <2>4, <3>1, <4>3
    <3>4. CASE m <= Len(seen) /\ Len(seen) < n
      BY <2>3, <2>4, <3>1, <3>2, <3>4
    <3>5. CASE Len(seen) < m
      <4>1. Len(seen) < n
        BY <1>18, <2>4, <3>1, <3>5
      <4>2. /\ m - Len(seen) \in 1..Len(page) /\ page[m - Len(seen)] = r
            /\ n - Len(seen) \in 1..Len(page) /\ page[n - Len(seen)] = r
        BY <2>4, <3>1, <3>2, <3>5, <4>1
      <4>3. m - Len(seen) = k - start /\ n - Len(seen) = k - start
        BY <1>10, <1>12, <4>2
      <4> QED BY <1>18, <2>4, <3>1, <4>3
    <3> QED BY <1>18, <3>1, <3>3, <3>4, <3>5
  <2>5. \A m, n \in DOMAIN seen' : seen'[m] = r /\ seen'[n] = r => m = n
    <3>1. \A m, n \in DOMAIN seen' : m = n \/ m < n \/ n < m
      BY <1>9
    <3> QED BY <2>4, <3>1
  <2>6. ASSUME ~done', r \in ToSet(seen')
        PROVE  Ahead(r) < cursor'
    <3>1. end < Len(rows) /\ cursor' = end
      BY <1>16, <2>6
    <3>2. CASE r \in ToSet(page)
      BY <1>6, <1>7, <2>2, <2>3, <3>1, <3>2
    <3>3. CASE r \in ToSet(seen)
      <4>1. k - 1 < cursor
        BY <2>1, <2>2, <3>3
      <4> QED BY <1>6, <1>7, <1>8, <2>2, <3>1, <4>1
    <3> QED BY <1>9, <2>6, <3>2, <3>3
  <2> QED BY <2>5, <2>6
<1>13. \A r \in stayed : \E k \in 1..Len(rows) : rows[k] = r
  BY <1>5, <1>17 DEF Reading, ToSet
<1>14. \A r \in stayed :
         /\ r \notin lower => r \in ToSet(seen') \/ (~done' /\ Ahead(r)' >= cursor')
         /\ r \notin higher =>
              /\ \A m, n \in DOMAIN seen' : seen'[m] = r /\ seen'[n] = r => m = n
              /\ ~done' /\ r \in ToSet(seen') => Ahead(r)' < cursor'
  BY <1>4, <1>11, <1>12, <1>13
<1>15. stayed' = stayed /\ lower' = lower /\ higher' = higher /\ ToSet(seen)' = ToSet(seen')
  BY <1>3 DEF ToSet
<1> QED BY <1>14, <1>15 DEF InPlace

(***************************************************************************)
(* What is told are numbers, up to that of the last event minted.          *)
(***************************************************************************)
LEMMA ToldIs ==
  ASSUME TypeOK
  PROVE  /\ Told \subseteq 1..seq /\ seq \in Nat /\ Told \subseteq Nat
         /\ query.of = "events" => Rows(query) = {x \in Told : since < x}
<1>1. /\ seq \in Nat /\ \A n \in DOMAIN feed : feed[n].seq \in 1..seq
  BY DEF TypeOK, Numbered
<1>2. Told \subseteq 1..seq
  BY <1>1 DEF Told
<1>3. \A n \in DOMAIN feed : feed[n].seq > since <=> since < feed[n].seq
  OBVIOUS
<1>4. ASSUME query.of = "events"
      PROVE  Rows(query) = {x \in Told : since < x}
  <2>1. Rows(query) = {feed[n].seq : n \in Selected(query, since)}
    BY <1>4 DEF Rows
  <2> QED BY <1>3, <2>1 DEF Selected, Told
<1> QED BY <1>1, <1>2, <1>4

(***************************************************************************)
(* Where a reader of the feed has come is a number, never before where it  *)
(* resumed.                                                                *)
(***************************************************************************)
LEMMA ReachedIs ==
  ASSUME TypeOK, Reading, UpToDate, query.of = "events"
  PROVE  Reached \in Nat /\ since \in Nat /\ since <= Reached
<1>1. since \in Nat /\ seen \in Seq(Nat)
  BY DEF Reading
<1>2. CASE seen = << >>
  BY <1>1, <1>2 DEF Reached
<1>3. CASE seen # << >>
  <2>1. Len(seen) \in 1..Len(seen) /\ DOMAIN seen = 1..Len(seen)
    BY <1>1, <1>3, EmptySeq, LenProperties
  <2>2. Last(seen) \in Nat /\ Last(seen) \in ToSet(seen)
    BY <1>1, <2>1, ElementOfSeq DEF Last, ToSet
  <2>3. since < Last(seen)
    BY <2>2 DEF UpToDate
  <2> QED BY <1>1, <1>3, <2>2, <2>3 DEF Reached
<1> QED BY <1>2, <1>3

(***************************************************************************)
(* A page of the feed is what comes next of it.                            *)
(***************************************************************************)
LEMMA ReadPageUpToDate ==
  ASSUME TypeOK, Reading, UpToDate, ReadPage
  PROVE  UpToDate'
<1> SUFFICES ASSUME query.of = "events"
             PROVE  UpToDate'
  BY PageLeaves DEF UpToDate
<1>1. PICK rows, start, end : PageOf(rows, start, end)
  BY ReadPageGives
<1>2. PICK page \in Seq(Nat) :
        /\ Len(page) = end - start
        /\ \A k \in 1 .. (end - start) : page[k] = rows[start + k]
        /\ seen' = seen \o page /\ handled' = handled \o page
  BY <1>1 DEF PageOf
<1>3. /\ UNCHANGED << items, comments, now, writes, feed, seq, untold, query, since, stayed, lower, higher >>
      /\ done = FALSE
  BY PageLeaves
<1>4. Told' = Told
  BY <1>3, ListingStays
<1>5. /\ rows \in Seq(Nat) /\ ToSet(rows) = {x \in Told : since < x}
      /\ IsAscending(rows)
  <2>1. /\ rows \in Seq(Nat) /\ ToSet(rows) = Rows(query)
        /\ \A m, n \in DOMAIN rows : m < n => Before(query, rows[m], rows[n])
    BY <1>1, SortedLists DEF PageOf
  <2> QED BY <2>1, ToldIs DEF IsAscending, Before
<1>6. Len(rows) \in Nat
  BY <1>5, LenProperties
<1>7. /\ DOMAIN rows = 1..Len(rows)
      /\ \A k \in 1..Len(rows) : rows[k] \in Nat
  BY <1>5, LenProperties, ElementOfSeq
<1>8. seen \in Seq(Nat) /\ handled \in Seq(Nat)
  BY DEF Reading
<1>9. Reached \in Nat /\ since \in Nat /\ since <= Reached
  BY ReachedIs
<1>10. /\ Told \subseteq Nat /\ Told \subseteq 1..seq /\ seq \in Nat
  BY ToldIs
<1>11. /\ IsAscending(seen) /\ IsAscending(handled)
       /\ ToSet(seen) = {x \in Told : since < x /\ x <= Reached}
       /\ ToSet(handled) = {x \in Told : 0 < x /\ x <= Reached}
       /\ Reached = (IF handled = << >> THEN 0 ELSE Last(handled))
       /\ Reached <= seq /\ cursor = Len(seen)
  <2>1. \A x \in Told : 0 < x
    BY <1>10
  <2> QED BY <1>3, <2>1 DEF UpToDate
<1>12. /\ Len(seen) <= Len(rows)
       /\ \A k \in 1..Len(seen) : rows[k] = seen[k]
       /\ \A k \in 1..Len(rows) : Len(seen) < k => Reached < rows[k]
  <2>1. ToSet(seen) = {x \in ToSet(rows) : x <= Reached}
    BY <1>5, <1>11
  <2> QED BY <1>5, <1>8, <1>9, <1>11, <2>1, IsThePrefix
<1>13. Len(seen) \in Nat /\ DOMAIN seen = 1..Len(seen)
  BY <1>8, LenProperties
<1>14. /\ start = Len(seen) /\ end \in Nat /\ start <= end /\ end <= Len(rows)
       /\ ~done' => cursor' = end
  <2>1. /\ start \in 0..Len(rows) /\ end \in start..Len(rows)
        /\ start = (IF cursor <= Len(rows) THEN cursor ELSE Len(rows))
        /\ cursor' = (IF end < Len(rows) THEN end ELSE 0)
        /\ done' = (cursor' = 0)
    BY <1>1 DEF PageOf
  <2>2. Len(seen) \in Nat
    BY <1>13
  <2>3. start = Len(seen)
    BY <1>11, <1>12, <2>1
  <2>4. ~done' => cursor' = end
    BY <2>1
  <2> QED BY <1>6, <2>1, <2>2, <2>3, <2>4
<1>15. Len(page) \in Nat /\ Len(page) = end - start /\ DOMAIN page = 1..Len(page)
  BY <1>2, LenProperties
<1>16. start \in Nat /\ end \in Nat /\ end <= Len(rows) /\ Len(page) \in Nat /\ Len(page) = end - start
  BY <1>13, <1>14, <1>15
<1>17. ASSUME NEW k \in 1..Len(page)
       PROVE  /\ start + k \in 1..Len(rows) /\ start + k <= end
              /\ page[k] = rows[start + k] /\ Len(seen) < start + k
  <2>1. k \in 1 .. (end - start)
    BY <1>15
  <2>2. start + k \in 1..Len(rows) /\ start + k <= end /\ start < start + k
    BY <1>6, <1>16, <2>1
  <2> QED BY <1>2, <1>14, <2>1, <2>2
<1> DEFINE c == IF page = << >> THEN Reached ELSE page[Len(page)]
<1>18. page = << >> => Len(page) = 0
  BY EmptySeq
<1>19. page # << >> => Len(page) \in 1..Len(page) /\ start + Len(page) = end
  <2>1. page # << >> => Len(page) \in Nat \ {0}
    BY <1>2, EmptySeq
  <2> QED BY <1>16, <2>1
<1>20. IsAscending(page)
  <2> SUFFICES ASSUME NEW m \in 1..Len(page), NEW n \in 1..Len(page), m < n
               PROVE  page[m] < page[n]
    BY <1>15 DEF IsAscending
  <2>1. /\ start + m \in 1..Len(rows) /\ page[m] = rows[start + m]
        /\ start + n \in 1..Len(rows) /\ page[n] = rows[start + n]
    BY <1>17
  <2>2. start + m < start + n
    BY <1>16
  <2> QED BY <1>5, <1>7, <2>1, <2>2 DEF IsAscending
<1>21. ASSUME NEW k \in 1..Len(page)
       PROVE  page[k] \in Told /\ Reached < page[k] /\ page[k] <= c
  <2>1. start + k \in 1..Len(rows) /\ page[k] = rows[start + k] /\ Len(seen) < start + k
    BY <1>17
  <2>2. page[k] \in Told /\ Reached < page[k]
    <3>1. rows[start + k] \in ToSet(rows)
      BY <1>7, <2>1 DEF ToSet
    <3> QED BY <1>5, <1>12, <2>1, <3>1
  <2>3. page # << >>
    BY <1>18
  <2>4. c = page[Len(page)] /\ Len(page) \in 1..Len(page)
    BY <1>19, <2>3
  <2>5. page[k] \in Nat /\ page[Len(page)] \in Nat
    BY <1>2, <2>4, ElementOfSeq
  <2>6. CASE k = Len(page)
    BY <2>2, <2>4, <2>5, <2>6
  <2>7. CASE k # Len(page)
    <3>1. k < Len(page)
      BY <1>16, <2>7
    <3>2. page[k] < page[Len(page)]
      BY <1>15, <1>20, <2>4, <3>1 DEF IsAscending
    <3> QED BY <2>2, <2>4, <2>5, <3>2
  <2> QED BY <2>6, <2>7
<1>22. c \in Nat /\ Reached <= c /\ c <= seq
  <2>1. CASE page = << >>
    BY <1>9, <1>11, <2>1
  <2>2. CASE page # << >>
    <3>1. page[Len(page)] \in Told /\ Reached < page[Len(page)] /\ c = page[Len(page)]
      BY <1>19, <1>21, <2>2
    <3>2. page[Len(page)] \in 1..seq
      BY <1>10, <3>1
    <3> QED BY <1>9, <1>10, <3>1, <3>2
  <2> QED BY <2>1, <2>2
<1>23. ToSet(page) = {x \in Told : Reached < x /\ x <= c}
  <2>1. ToSet(page) \subseteq {x \in Told : Reached < x /\ x <= c}
    BY <1>15, <1>21 DEF ToSet
  <2>2. ASSUME NEW x \in Told, Reached < x, x <= c
        PROVE  x \in ToSet(page)
    <3>0. x \in Nat
      BY <1>10
    <3>1. page # << >>
      BY <1>9, <2>2, <3>0
    <3>2. PICK j \in 1..Len(rows) : rows[j] = x
      <4>1. since < x
        BY <1>9, <2>2, <3>0
      <4>2. x \in ToSet(rows)
        BY <1>5, <4>1
      <4> QED BY <1>7, <4>2 DEF ToSet
    <3>3. ~(j <= Len(seen))
      <4> SUFFICES ASSUME j <= Len(seen)
                   PROVE  FALSE
        OBVIOUS
      <4>1. j \in 1..Len(seen)
        BY <1>13
      <4>2. x = seen[j]
        BY <1>12, <3>2, <4>1
      <4>3. x \in ToSet(seen)
        BY <1>13, <4>1, <4>2 DEF ToSet
      <4>4. x <= Reached
        BY <1>11, <4>3
      <4> QED BY <1>9, <2>2, <3>0, <4>4
    <3>4. j <= end
      <4> SUFFICES ASSUME end < j
                   PROVE  FALSE
        BY <1>16
      <4>1. end \in 1..Len(rows) /\ c = rows[end]
        BY <1>2, <1>6, <1>16, <1>17, <1>19, <3>1
      <4>2. rows[end] < rows[j]
        BY <1>5, <1>7, <4>1 DEF IsAscending
      <4> QED BY <1>7, <2>2, <3>0, <3>2, <4>1, <4>2
    <3>5. j - start \in 1..Len(page) /\ start + (j - start) = j
      <4>1. start < j
        BY <1>14, <1>16, <3>3
      <4> QED BY <1>16, <3>4, <4>1
    <3>6. page[j - start] = x
      BY <1>17, <3>2, <3>5
    <3> QED BY <1>15, <3>5, <3>6 DEF ToSet
  <2> QED BY <2>1, <2>2
<1> HIDE DEF c
<1>24. IsAscending(seen \o page) /\ ToSet(seen \o page) = {x \in Told : since < x /\ x <= c}
  <2>1. Stretch(seen, Told, since, Reached) /\ Stretch(page, Told, Reached, c)
    BY <1>11, <1>20, <1>23 DEF Stretch
  <2>2. Stretch(seen \o page, Told, since, c)
    BY <2>1, <1>8, <1>9, <1>10, <1>22, GrowsInOrder
  <2> QED BY <2>2 DEF Stretch
<1>25. IsAscending(handled \o page) /\ ToSet(handled \o page) = {x \in Told : 0 < x /\ x <= c}
  <2>1. 0 \in Nat /\ 0 <= Reached
    BY <1>9
  <2>2. Stretch(handled, Told, 0, Reached) /\ Stretch(page, Told, Reached, c)
    BY <1>11, <1>20, <1>23 DEF Stretch
  <2>3. Stretch(handled \o page, Told, 0, c)
    BY <2>1, <2>2, <1>8, <1>9, <1>10, <1>22, GrowsInOrder
  <2> QED BY <2>3 DEF Stretch
<1>26. (IF seen' = << >> THEN since ELSE Last(seen')) = c
  <2>1. CASE page = << >>
    <3>1. seen' = seen
      BY <1>2, <1>8, <2>1, LastOfConcat
    <3> QED BY <2>1, <3>1 DEF c, Reached
  <2>2. CASE page # << >>
    <3>1. seen' # << >> /\ Last(seen') = page[Len(page)]
      BY <1>2, <1>8, <2>2, LastOfConcat
    <3> QED BY <2>2, <3>1 DEF c
  <2> QED BY <2>1, <2>2
<1>27. (IF handled' = << >> THEN 0 ELSE Last(handled')) = c
  <2>1. CASE page = << >>
    <3>1. handled' = handled
      BY <1>2, <1>8, <2>1, LastOfConcat
    <3> QED BY <1>11, <2>1, <3>1 DEF c
  <2>2. CASE page # << >>
    <3>1. handled' # << >> /\ Last(handled') = page[Len(page)]
      BY <1>2, <1>8, <2>2, LastOfConcat
    <3> QED BY <2>2, <3>1 DEF c
  <2> QED BY <2>1, <2>2
<1>28. ~done' => cursor' = Len(seen')
  <2>1. Len(seen') = Len(seen) + Len(page)
    BY <1>2, <1>8, ConcatLists
  <2>2. Len(seen') = end
    BY <1>14, <1>16, <2>1
  <2> QED BY <1>14, <2>2
<1>29. Reached' = c
  BY <1>3, <1>26 DEF Reached, Last
<1>30. Last(handled)' = Last(handled')
  BY DEF Last
<1>31. /\ IsAscending(seen)' /\ IsAscending(handled)'
       /\ ToSet(seen)' = {x \in Told : since < x /\ x <= c}
       /\ ToSet(handled)' = {x \in Told : x <= c}
  <2>1. \A x \in Told : 0 < x
    BY <1>10
  <2> QED BY <1>2, <1>24, <1>25, <2>1 DEF IsAscending, ToSet
<1> QED BY <1>3, <1>4, <1>22, <1>27, <1>28, <1>29, <1>30, <1>31 DEF UpToDate

----------------------------------------------------------------------------
(* A write *)

(***************************************************************************)
(* A finite set of numbers that is not empty has a greatest one.           *)
(***************************************************************************)
LEMMA GreatestExists ==
  ASSUME NEW S, S \subseteq Int, IsFiniteSet(S), S # {}
  PROVE  Max(S) \in S
<1> DEFINE Above(k) == {m \in S : k < m}
           F == {Above(k) : k \in S}
<1>1. IsWellFoundedOn(StrictSubsetOrdering(S), SUBSET S)
  BY FS_StrictSubsetOrderingWellFounded, FS_FiniteSubsetsOfFinite
<1>2. F \subseteq SUBSET S /\ F # {}
  OBVIOUS
<1> HIDE DEF F
<1>3. PICK x \in F : \A y \in F : ~(<<y, x>> \in StrictSubsetOrdering(S))
  BY <1>1, <1>2, WFMin
<1>4. PICK k \in S : x = Above(k)
  BY <1>3 DEF F
<1>5. \A m \in S : k >= m
  <2> SUFFICES ASSUME NEW m \in S, ~(k >= m)
               PROVE  FALSE
    OBVIOUS
  <2>1. k \in Int /\ m \in Int /\ k < m
    OBVIOUS
  <2>2. Above(m) \in F
    BY DEF F
  <2>3. \A n \in S : m < n => k < n
    <3> SUFFICES ASSUME NEW n \in S, m < n
                 PROVE  k < n
      OBVIOUS
    <3>1. n \in Int
      OBVIOUS
    <3> QED BY <2>1, <3>1
  <2>4. m \in Above(k) /\ m \notin Above(m) /\ Above(m) \subseteq Above(k)
    <3>1. ~(m < m)
      BY <2>1
    <3>2. m \in Above(k)
      BY <2>1
    <3>3. m \notin Above(m)
      BY <3>1
    <3>4. Above(m) \subseteq Above(k)
      BY <2>3
    <3> QED BY <3>2, <3>3, <3>4
  <2>5. <<Above(m), x>> \in StrictSubsetOrdering(S)
    BY <1>2, <1>3, <1>4, <2>2, <2>4 DEF StrictSubsetOrdering
  <2> QED BY <1>3, <2>2, <2>5
<1>6. \E x1 \in S : \A y \in S : x1 >= y
  BY <1>5
<1> QED BY <1>6 DEF Max

(***************************************************************************)
(* CreateItem has a rank to give: one more than the greatest held.         *)
(***************************************************************************)
LEMMA NextRank ==
  ASSUME TypeOK
  PROVE  Max({0} \cup {items[j].rank : j \in Stored}) + 1 \in Int
<1> DEFINE R == {items[j].rank : j \in Stored}
           f == [j \in Stored |-> items[j].rank]
<1>1. IsFiniteSet(Stored)
  <2>1. Stored \in SUBSET Items
    BY DEF Stored
  <2> QED BY <2>1, ListingAssumption, FS_Subset
<1>2. R \subseteq Int
  BY DEF TypeOK, Consistent, Fits, Stored
<1>3. f \in Surjection(Stored, R)
  <2>1. f \in [Stored -> R]
    OBVIOUS
  <2>2. \A t \in R : \E j \in Stored : f[j] = t
    OBVIOUS
  <2> QED BY <2>1, <2>2 DEF Surjection
<1> HIDE DEF f, R
<1>4. IsFiniteSet(R)
  BY <1>1, <1>3, FS_Surjection
<1>5. IsFiniteSet(R \cup {0}) /\ R \cup {0} = {0} \cup R
  BY <1>4, FS_AddElement
<1>6. {0} \cup R \subseteq Int /\ {0} \cup R # {}
  BY <1>2
<1>7. Max({0} \cup R) \in {0} \cup R
  BY <1>5, <1>6, GreatestExists
<1>8. Max({0} \cup R) \in Int
  BY <1>6, <1>7
<1> QED BY <1>8 DEF R

(***************************************************************************)
(* What is given at the positions up to m is a sequence of length m.       *)
(***************************************************************************)
LEMMA ListOf ==
  ASSUME NEW S, NEW m \in Nat, NEW f \in [1..m -> S]
  PROVE  f \in Seq(S) /\ Len(f) = m
OBVIOUS

(***************************************************************************)
(* emit: the feed grows at its end, by events with later numbers.          *)
(***************************************************************************)
LEMMA EmitGrows ==
  ASSUME Numbered(feed, seq), NEW news, Len(news) \in Nat, Emit(news)
  PROVE  /\ Numbered(feed, seq)' /\ seq' \in Nat /\ seq <= seq'
         /\ DOMAIN feed \subseteq DOMAIN feed'
         /\ \A n \in DOMAIN feed : feed'[n] = feed[n]
         /\ \A n \in DOMAIN feed' : n \notin DOMAIN feed => seq < feed'[n].seq
<1>1. PICK kept \in Kept(Len(news)) :
        feed' = feed \o [a \in DOMAIN kept |->
                  [item |-> news[kept[a]].item, kind |-> news[kept[a]].kind,
                   changes |-> news[kept[a]].changes, seq |-> seq + kept[a]]]
  BY DEF Emit
<1>2. PICK m \in 0..Len(news) : kept \in [1..m -> 1..Len(news)]
  BY DEF Kept
<1>3. \A a, b \in 1..m : a < b => kept[a] < kept[b]
  BY <1>2 DEF Kept
<1>4. m \in Nat /\ \A a \in 1..m : kept[a] \in 1..Len(news)
  BY <1>2
<1> DEFINE new == [a \in 1..m |->
                     [item |-> news[kept[a]].item, kind |-> news[kept[a]].kind,
                      changes |-> news[kept[a]].changes, seq |-> seq + kept[a]]]
           S == ToSet(feed) \cup ToSet(new)
           n0 == Len(feed)
<1>5. feed' = feed \o new /\ seq' = seq + Len(news)
  BY <1>1, <1>2 DEF Emit
<1>6. \A a \in 1..m : new[a].seq = seq + kept[a]
  OBVIOUS
<1>7. new \in [1..m -> ToSet(new)]
  BY DEF ToSet
<1> HIDE DEF new
<1>8. new \in Seq(ToSet(new)) /\ Len(new) = m
  <2> DEFINE T == ToSet(new)
  <2>1. new \in [1..m -> T]
    BY <1>7
  <2> HIDE DEF T
  <2>2. new \in Seq(T) /\ Len(new) = m
    BY <1>4, <2>1, ListOf
  <2> QED BY <2>2 DEF T
<1>9. feed \in Seq(S) /\ new \in Seq(S)
  <2>1. feed \in Seq(ToSet(feed)) /\ ToSet(feed) \subseteq S /\ ToSet(new) \subseteq S
    BY DEF Numbered
  <2> QED BY <1>8, <2>1, SeqMonotonic
<1> HIDE DEF S
<1>10. /\ feed' \in Seq(S) /\ Len(feed') = Len(feed) + Len(new)
       /\ \A i \in 1 .. Len(feed) + Len(new) : feed'[i] = IF i <= Len(feed) THEN feed[i] ELSE new[i - Len(feed)]
  <2>1. /\ feed \o new \in Seq(S) /\ Len(feed \o new) = Len(feed) + Len(new)
        /\ \A i \in 1 .. Len(feed) + Len(new) :
             (feed \o new)[i] = IF i <= Len(feed) THEN feed[i] ELSE new[i - Len(feed)]
    BY <1>9, ConcatProperties, Zenon
  <2> QED BY <1>5, <2>1
<1>11. /\ DOMAIN feed = 1..n0 /\ DOMAIN feed' = 1 .. (n0 + m)
       /\ \A i \in 1 .. (n0 + m) : feed'[i] = IF i <= n0 THEN feed[i] ELSE new[i - n0]
  BY <1>8, <1>9, <1>10, LenProperties
<1>12. n0 \in Nat
  BY <1>9, LenProperties
<1> HIDE DEF n0
<1>13. seq \in Nat /\ seq' \in Nat /\ seq <= seq' /\ seq' = seq + Len(news)
  BY <1>5 DEF Numbered
<1>14. ASSUME NEW i \in 1 .. (n0 + m)
       PROVE  /\ i <= n0 => i \in 1..n0 /\ feed'[i] = feed[i] /\ feed'[i].seq \in 1..seq
              /\ n0 < i => /\ i - n0 \in 1..m /\ feed'[i].seq = seq + kept[i - n0]
                           /\ feed'[i].seq \in 1..seq' /\ seq < feed'[i].seq
  <2>1. CASE i <= n0
    <3>1. i \in 1..n0 /\ ~(n0 < i)
      BY <1>12, <2>1
    <3>2. feed'[i] = feed[i]
      BY <1>11, <2>1
    <3>3. feed[i].seq \in 1..seq
      BY <1>11, <3>1 DEF Numbered
    <3> QED BY <3>1, <3>2, <3>3
  <2>2. CASE n0 < i
    <3>1. i - n0 \in 1..m /\ ~(i <= n0)
      BY <1>4, <1>12, <2>2
    <3>2. feed'[i] = new[i - n0]
      BY <1>11, <3>1
    <3>3. feed'[i].seq = seq + kept[i - n0] /\ kept[i - n0] \in 1..Len(news)
      BY <1>4, <1>6, <3>1, <3>2
    <3>4. seq + kept[i - n0] \in 1..(seq + Len(news)) /\ seq < seq + kept[i - n0]
      BY <1>13, <3>3
    <3> QED BY <1>13, <3>1, <3>3, <3>4
  <2> QED BY <1>4, <1>12, <2>1, <2>2
<1>15. \A i \in DOMAIN feed' : feed'[i].seq \in 1..seq'
  <2>1. \A x \in 1..seq : x \in 1..seq'
    BY <1>13
  <2>2. \A i \in 1 .. (n0 + m) : i <= n0 \/ n0 < i
    BY <1>4, <1>12
  <2> QED BY <1>11, <1>14, <2>1, <2>2
<1>16. ASSUME NEW i \in DOMAIN feed', NEW j \in DOMAIN feed', i < j
       PROVE  feed'[i].seq < feed'[j].seq
  <2>0. i \in 1 .. (n0 + m) /\ j \in 1 .. (n0 + m) /\ i \in Int /\ j \in Int
    BY <1>4, <1>11, <1>12
  <2>1. CASE j <= n0
    <3>1. i <= n0
      BY <1>12, <1>16, <2>0, <2>1
    <3>2. i \in DOMAIN feed /\ j \in DOMAIN feed /\ feed'[i] = feed[i] /\ feed'[j] = feed[j]
      BY <1>11, <1>14, <2>0, <2>1, <3>1
    <3> QED BY <1>16, <3>2 DEF Numbered
  <2>2. CASE i <= n0 /\ n0 < j
    <3>1. feed'[i].seq \in 1..seq /\ seq < feed'[j].seq /\ feed'[j].seq \in 1..seq'
      BY <1>14, <2>0, <2>2
    <3> QED BY <1>13, <3>1
  <2>3. CASE n0 < i
    <3>1. n0 < j /\ i - n0 < j - n0
      BY <1>12, <1>16, <2>0, <2>3
    <3>2. /\ i - n0 \in 1..m /\ feed'[i].seq = seq + kept[i - n0]
          /\ j - n0 \in 1..m /\ feed'[j].seq = seq + kept[j - n0]
      BY <1>14, <2>0, <2>3, <3>1
    <3>3. kept[i - n0] < kept[j - n0]
      BY <1>3, <3>1, <3>2
    <3>4. kept[i - n0] \in 1..Len(news) /\ kept[j - n0] \in 1..Len(news)
      BY <1>4, <3>2
    <3>5. seq + kept[i - n0] < seq + kept[j - n0]
      BY <1>13, <3>3, <3>4
    <3> QED BY <3>2, <3>5
  <2> QED BY <1>12, <2>0, <2>1, <2>2, <2>3
<1>17. feed' \in Seq(ToSet(feed'))
  <2>1. feed' \in [1 .. (n0 + m) -> ToSet(feed')]
    <3>1. feed' \in [1..Len(feed') -> S]
      BY <1>10, LenProperties
    <3>2. \A i \in DOMAIN feed' : feed'[i] \in ToSet(feed')
      BY DEF ToSet
    <3> QED BY <1>11, <3>1, <3>2
  <2>2. n0 + m \in Nat
    BY <1>4, <1>12
  <2> QED BY <2>1, <2>2
<1>18. Numbered(feed', seq')
  BY <1>13, <1>15, <1>16, <1>17 DEF Numbered
<1>19. Numbered(feed, seq)'
  BY <1>18 DEF Numbered, ToSet
<1>20. DOMAIN feed \subseteq DOMAIN feed' /\ \A i \in DOMAIN feed : feed'[i] = feed[i]
  <2>1. ASSUME NEW i \in 1..n0
        PROVE  i \in 1 .. (n0 + m) /\ i <= n0
    BY <1>4, <1>12
  <2> QED BY <1>11, <1>14, <2>1
<1>21. \A i \in DOMAIN feed' : i \notin DOMAIN feed => seq < feed'[i].seq
  <2>1. \A i \in 1 .. (n0 + m) : i \notin 1..n0 => n0 < i
    BY <1>4, <1>12
  <2> QED BY <1>11, <1>14, <2>1
<1> QED BY <1>13, <1>19, <1>20, <1>21

(***************************************************************************)
(* What an operation says is a sequence of events.                         *)
(***************************************************************************)
LEMMA EventCount == \A i, kind : Len(Event(i, kind)) \in Nat
  BY DEF Event

\* What is told of one group of keys is one event or none.
LEMMA ChangedTyped ==
  ASSUME NEW i, NEW kind, NEW changes, NEW U, [item |-> i, kind |-> kind, changes |-> changes] \in U
  PROVE  Changed(i, kind, changes) \in Seq(U)
<1> DEFINE e == [item |-> i, kind |-> kind, changes |-> changes]
<1>1. Changed(i, kind, changes) \in {<< >>, << e >>}
  BY DEF Changed
<1>2. e \in U
  OBVIOUS
<1> HIDE DEF e
<1>3. << >> \in Seq(U) /\ << e >> \in Seq(U)
  BY <1>2
<1> QED BY <1>1, <1>3

\* What an update says is a sequence of events.
LEMMA EmitChangesCount ==
  ASSUME NEW i, NEW before, NEW after
  PROVE  Len(EmitChanges(i, before, after)) \in Nat
<1> DEFINE ds == Diff(before, after, {"status"})
           dp == Diff(before, after, {"parent"})
           dc == Diff(before, after, Parts)
           U == {[item |-> i, kind |-> "status_changed", changes |-> ds],
                 [item |-> i, kind |-> "parent_changed", changes |-> dp],
                 [item |-> i, kind |-> "item_updated", changes |-> dc]}
           s == Changed(i, "status_changed", ds)
           p == Changed(i, "parent_changed", dp)
           c == Changed(i, "item_updated", dc)
<1>1. EmitChanges(i, before, after) = s \o p \o c
  BY DEF EmitChanges
<1> HIDE DEF ds, dp, dc
<1>2. s \in Seq(U) /\ p \in Seq(U) /\ c \in Seq(U)
  BY ChangedTyped
<1> HIDE DEF U, s, p, c
<1>3. s \o p \in Seq(U)
  BY <1>2, ConcatProperties
<1>4. s \o p \o c \in Seq(U)
  BY <1>2, <1>3, ConcatProperties
<1> QED BY <1>1, <1>4, LenProperties

(***************************************************************************)
(* A write keeps a reader's place: what it was given is as it was, what it *)
(* was not given and did not come forward is still before it, and what is  *)
(* told from now on it has not read.                                       *)
(***************************************************************************)
LEMMA Written ==
  ASSUME IInv, Track, NEW news, Len(news) \in Nat, Emit(news), Consistent(items, comments, now)'
  PROVE  IInv'
<1>0. TypeOK /\ Reading /\ InPlace /\ UpToDate
  BY DEF IInv
<1>1. /\ query' = query /\ since' = since /\ cursor' = cursor /\ done' = done
      /\ seen' = seen /\ handled' = handled
      /\ stayed' = stayed \cap Rows(query)'
      /\ lower' = lower \cup {r \in stayed' : Ahead(r)' < Ahead(r)}
      /\ higher' = higher \cup {r \in stayed' : Ahead(r)' > Ahead(r)}
  BY DEF Track, reader
<1>2. /\ Numbered(feed, seq)' /\ seq \in Nat /\ seq' \in Nat /\ seq <= seq'
      /\ DOMAIN feed \subseteq DOMAIN feed'
      /\ \A n \in DOMAIN feed : feed'[n] = feed[n]
      /\ \A n \in DOMAIN feed' : n \notin DOMAIN feed => seq < feed'[n].seq
  <2>1. Numbered(feed, seq) /\ seq \in Nat
    BY <1>0 DEF TypeOK, Numbered
  <2> QED BY <2>1, EmitGrows
<1>3. TypeOK'
  <2>1. \A x \in 1..seq : x \in 1..seq'
    BY <1>2
  <2>2. stayed' \subseteq Items \cup Comments \cup 1..seq'
    BY <1>0, <1>1, <2>1 DEF TypeOK
  <2>3. lower' \cup higher' \subseteq Items \cup Comments \cup 1..seq'
    BY <1>0, <1>1, <2>1, <2>2 DEF TypeOK
  <2>4. (cursor \in Nat /\ cursor <= Len(seen))'
    BY <1>0, <1>1 DEF TypeOK
  <2> QED BY <1>2, <2>2, <2>3, <2>4 DEF TypeOK
<1>4. Reading'
  <2>1. (stayed \subseteq Rows(query))'
    BY <1>1
  <2>2. ParseQuery(query)' = ParseQuery(query)
    BY <1>1 DEF ParseQuery
  <2> QED BY <1>0, <1>1, <2>1, <2>2 DEF Reading
<1>5. AheadCounts /\ AheadCounts'
  BY <1>0, <1>3, <1>4, AheadIsANumber, AheadIsANumberNext
<1>6. InPlace'
  <2> SUFFICES ASSUME NEW r \in stayed'
               PROVE  /\ r \notin lower' => r \in ToSet(seen) \/ (~done /\ Ahead(r)' >= cursor)
                      /\ r \notin higher' =>
                           /\ \A m, n \in DOMAIN seen : seen[m] = r /\ seen[n] = r => m = n
                           /\ ~done /\ r \in ToSet(seen) => Ahead(r)' < cursor
    BY <1>1 DEF InPlace, ToSet
  <2>1. r \in stayed
    BY <1>1
  <2>2. Ahead(r) \in Nat /\ Ahead(r)' \in Nat /\ cursor \in Nat
    BY <1>0, <1>5 DEF AheadCounts, TypeOK
  <2>3. ASSUME r \notin lower'
        PROVE  r \in ToSet(seen) \/ (~done /\ Ahead(r)' >= cursor)
    <3>1. r \notin lower /\ ~(Ahead(r)' < Ahead(r))
      BY <1>1, <2>3
    <3>2. r \in ToSet(seen) \/ (~done /\ Ahead(r) >= cursor)
      BY <1>0, <2>1, <3>1 DEF InPlace
    <3> QED BY <2>2, <3>1, <3>2
  <2>4. ASSUME r \notin higher'
        PROVE  /\ \A m, n \in DOMAIN seen : seen[m] = r /\ seen[n] = r => m = n
               /\ ~done /\ r \in ToSet(seen) => Ahead(r)' < cursor
    <3>1. r \notin higher /\ ~(Ahead(r)' > Ahead(r))
      BY <1>1, <2>4
    <3>2. /\ \A m, n \in DOMAIN seen : seen[m] = r /\ seen[n] = r => m = n
          /\ ~done /\ r \in ToSet(seen) => Ahead(r) < cursor
      BY <1>0, <2>1, <3>1 DEF InPlace
    <3> QED BY <2>2, <3>1, <3>2
  <2> QED BY <2>3, <2>4
<1>7. UpToDate'
  <2> SUFFICES ASSUME query.of = "events"
               PROVE  UpToDate'
    BY <1>1 DEF UpToDate
  <2>1. Reached' = Reached
    BY <1>1 DEF Reached, Last
  <2>2. Reached \in Nat /\ Reached <= seq
    BY <1>0, ReachedIs DEF UpToDate
  <2>3. \A n \in DOMAIN feed : Selects(query, feed[n])' = Selects(query, feed[n])
    BY <1>1, <1>2 DEF Selects
  <2>4. \A x : x <= Reached => (x \in Told' <=> x \in Told)
    <3>1. Told \subseteq Told'
      BY <1>1, <1>2 DEF Told, Selects
    <3>2. ASSUME NEW x \in Told', x \notin Told
          PROVE  ~(x <= Reached)
      <4>1. PICK n \in DOMAIN feed' : x = feed'[n].seq /\ Selects(query', feed'[n])
        BY DEF Told
      <4>2. n \notin DOMAIN feed
        BY <1>1, <1>2, <3>2, <4>1 DEF Told
      <4>3. seq < x /\ x \in 1..seq'
        BY <1>2, <4>1, <4>2 DEF Numbered
      <4> QED BY <1>2, <2>2, <4>3
    <3> QED BY <3>1, <3>2
  <2>5. ToSet(seen) = {x \in Told' : since < x /\ x <= Reached}
    BY <1>0, <2>4 DEF UpToDate
  <2>6. ToSet(handled) = {x \in Told' : x <= Reached}
    BY <1>0, <2>4 DEF UpToDate
  <2>7. Reached <= seq'
    BY <1>2, <2>2
  <2>8. /\ IsAscending(seen) /\ IsAscending(handled)
        /\ Reached = (IF handled = << >> THEN 0 ELSE Last(handled))
        /\ ~done => cursor = Len(seen)
    BY <1>0 DEF UpToDate
  <2>9. /\ IsAscending(seen)' = IsAscending(seen) /\ IsAscending(handled)' = IsAscending(handled)
        /\ ToSet(seen)' = ToSet(seen) /\ ToSet(handled)' = ToSet(handled)
        /\ Last(handled)' = Last(handled)
    BY <1>1 DEF IsAscending, ToSet, Last
  <2> QED BY <1>1, <2>1, <2>5, <2>6, <2>7, <2>8, <2>9 DEF UpToDate
<1> QED BY <1>3, <1>4, <1>6, <1>7 DEF IInv

(***************************************************************************)
(* One item written: the store is in order if the item fits, and if it is  *)
(* there afterwards or nothing was beneath it.                             *)
(***************************************************************************)
LEMMA Put ==
  ASSUME Consistent(items, comments, now), NEW i \in Items, NEW x, NEW time \in Nat, now <= time,
         Live(x) => Fits(x, items, time),
         Live(x) \/ \A j \in Stored : items[j].parent # i
  PROVE  Consistent([items EXCEPT ![i] = x], comments, time)
<1> DEFINE its == [items EXCEPT ![i] = x]
<1>1. DOMAIN items = Items /\ DOMAIN comments = Comments /\ now \in Nat
  BY DEF Consistent
<1>2. /\ DOMAIN its = Items /\ its[i] = x
      /\ \A j \in Items : j # i => its[j] = items[j]
  BY <1>1
<1> HIDE DEF its
<1>3. ASSUME NEW j \in Items, Live(its[j])
      PROVE  Fits(its[j], items, time)
  <2>1. CASE j = i
    BY <1>2, <1>3, <2>1
  <2>2. CASE j # i
    <3>1. its[j] = items[j] /\ Fits(items[j], items, now)
      BY <1>2, <1>3, <2>2 DEF Consistent
    <3>2. items[j].updated \in Nat /\ items[j].updated <= now
      BY <3>1 DEF Fits
    <3>3. items[j].updated <= time
      BY <1>1, <3>2
    <3> QED BY <3>1, <3>3 DEF Fits
  <2> QED BY <2>1, <2>2
<1>4. ASSUME NEW j \in Items, Live(its[j]), its[j].parent # Nobody
      PROVE  its[j].parent \in Items /\ Live(its[its[j].parent])
  <2>1. its[j].parent \in Items /\ Live(items[its[j].parent])
    BY <1>3, <1>4 DEF Fits
  <2>2. CASE its[j].parent # i
    BY <1>2, <2>1, <2>2
  <2>3. CASE its[j].parent = i
    <3>1. SUFFICES ASSUME ~Live(x)
                   PROVE  FALSE
      BY <1>2, <2>1, <2>3
    <3>2. j # i /\ its[j] = items[j]
      BY <1>2, <1>4, <3>1
    <3>3. j \in Stored
      BY <1>4, <3>2 DEF Stored
    <3> QED BY <2>3, <3>1, <3>2, <3>3
  <2> QED BY <2>2, <2>3
<1>5. \A j \in Items : Live(its[j]) => Fits(its[j], its, time)
  BY <1>3, <1>4 DEF Fits
<1>6. \A c \in Comments : Live(comments[c]) => comments[c].created \in 0..time
  <2>1. \A t \in 0..now : t \in 0..time
    BY <1>1
  <2> QED BY <2>1 DEF Consistent
<1>7. Consistent(its, comments, time)
  BY <1>1, <1>2, <1>5, <1>6 DEF Consistent
<1> QED BY <1>7 DEF its

(***************************************************************************)
(* One comment written, and time passed.                                   *)
(***************************************************************************)
LEMMA PutComment ==
  ASSUME Consistent(items, comments, now), NEW c \in Comments, NEW x, NEW time \in Nat, now <= time,
         Live(x) => x.created \in 0..time
  PROVE  Consistent(items, [comments EXCEPT ![c] = x], time)
<1> DEFINE said == [comments EXCEPT ![c] = x]
<1>1. DOMAIN items = Items /\ DOMAIN comments = Comments /\ now \in Nat
  BY DEF Consistent
<1>2. /\ DOMAIN said = Comments /\ said[c] = x
      /\ \A d \in Comments : d # c => said[d] = comments[d]
  BY <1>1
<1> HIDE DEF said
<1>3. ASSUME NEW j \in Items, Live(items[j])
      PROVE  Fits(items[j], items, time)
  <2>1. Fits(items[j], items, now)
    BY <1>3 DEF Consistent
  <2>2. items[j].updated \in Nat /\ items[j].updated <= now
    BY <2>1 DEF Fits
  <2>3. items[j].updated <= time
    BY <1>1, <2>2
  <2> QED BY <2>1, <2>3 DEF Fits
<1>4. ASSUME NEW d \in Comments, Live(said[d])
      PROVE  said[d].created \in 0..time
  <2>1. CASE d = c
    BY <1>2, <1>4, <2>1
  <2>2. CASE d # c
    <3>1. comments[d].created \in 0..now
      BY <1>2, <1>4, <2>2 DEF Consistent
    <3>2. comments[d].created \in 0..time
      BY <1>1, <3>1
    <3> QED BY <1>2, <2>2, <3>2
  <2> QED BY <2>1, <2>2
<1>5. Consistent(items, said, time)
  BY <1>1, <1>2, <1>3, <1>4 DEF Consistent
<1> QED BY <1>5 DEF said

(***************************************************************************)
(* What has columns is an item, not an identifier that stands for none.    *)
(***************************************************************************)
LEMMA ColumnsLive == ASSUME NEW x, "type" \in DOMAIN x PROVE Live(x)
<1>1. DOMAIN Unborn = {"absent"} /\ DOMAIN Gone = {"absent"}
  BY DEF Unborn, Gone
<1> QED BY <1>1 DEF Live

(***************************************************************************)
(* Time passes, at most.                                                   *)
(***************************************************************************)
LEMMA ClockTicks ==
  ASSUME TypeOK, Clock
  PROVE  now' \in Nat /\ now <= now'
<1>1. now \in Nat
  BY DEF TypeOK, Consistent
<1> QED BY <1>1 DEF Clock

----------------------------------------------------------------------------
(* The writers *)

\* CreateItem: a new item is of a type and in its first status.
LEMMA CreateItemKeeps ==
  ASSUME IInv, NEW i \in Items, NEW type \in DOMAIN Category, NEW parent \in Items \cup {Nobody},
         NEW title \in Titles, CreateItem(i, type, parent, title)
  PROVE  IInv'
<1> DEFINE rank == Max({0} \cup {items[j].rank : j \in Stored}) + 1
           x == [type |-> type, status |-> Initial[type], parent |-> parent, title |-> title, size |-> NotHeld,
                 rank |-> rank, created |-> now', updated |-> now']
<1>1. TypeOK /\ Consistent(items, comments, now)
  BY DEF IInv, TypeOK
<1>2. /\ items[i] = Unborn /\ Attach(i, parent) /\ Clock
      /\ items' = [items EXCEPT ![i] = x] /\ comments' = comments
      /\ Emit(Event(i, "item_created")) /\ Track
  BY DEF CreateItem
<1>3. now' \in Nat /\ now <= now' /\ rank \in Int
  BY <1>1, <1>2, ClockTicks, NextRank
<1>4. Fits(x, items, now')
  <2>1. /\ x.type = type /\ x.status = Initial[type] /\ x.parent = parent /\ x.title = title
        /\ x.rank = rank /\ x.created = now' /\ x.updated = now'
        /\ Columns \subseteq DOMAIN x
    BY DEF Columns
  <2>2. x.parent = Nobody \/ (x.parent \in Items /\ Live(items[x.parent]))
    BY <1>2, <2>1 DEF Attach, Stored
  <2>3. x.status \in Statuses(x.type)
    BY <2>1, ListingAssumption
  <2>4. title \in Int /\ now' <= now'
    BY <1>3, ListingAssumption
  <2> HIDE DEF x, rank
  <2> QED BY <1>3, <2>1, <2>2, <2>3, <2>4 DEF Fits
<1>5. Live(x)
  BY ColumnsLive
<1> HIDE DEF x
<1>6. Consistent(items', comments', now')
  BY <1>1, <1>2, <1>3, <1>4, <1>5, Put
<1>7. Consistent(items, comments, now)'
  BY <1>6 DEF Consistent, Fits
<1> QED BY <1>2, <1>7, EventCount, Written

\* UpdateItem: what a patch leaves alone is as it was.
LEMMA UpdateItemKeeps ==
  ASSUME IInv, NEW i \in Items, NEW patch \in Patches, UpdateItem(i, patch)
  PROVE  IInv'
<1> DEFINE it == items[i]
           x == Patched(it, patch, now')
<1>1. TypeOK /\ Consistent(items, comments, now) /\ DOMAIN items = Items
  BY DEF IInv, TypeOK, Consistent
<1>2. /\ Live(it) /\ Clock
      /\ "status" \in DOMAIN patch => patch.status \in Statuses(it.type)
      /\ "parent" \in DOMAIN patch => Attach(i, patch.parent)
      /\ items' = [items EXCEPT ![i] = x] /\ comments' = comments
      /\ Emit(EmitChanges(i, items[i], items'[i])) /\ Track
  BY DEF UpdateItem
<1>3. now \in Nat /\ now' \in Nat /\ now <= now'
  BY <1>1, <1>2, ClockTicks DEF Consistent
<1>4. Fits(it, items, now)
  BY <1>1, <1>2 DEF Consistent
<1>5. /\ DOMAIN x = DOMAIN it
      /\ \A k \in DOMAIN it :
           x[k] = IF k \in DOMAIN patch THEN patch[k] ELSE IF k = "updated" THEN now' ELSE it[k]
  BY DEF Patched
<1> HIDE DEF x
<1>6. Columns \subseteq DOMAIN it
  BY <1>4 DEF Fits
<1>7. /\ "type" \notin DOMAIN patch /\ "rank" \notin DOMAIN patch
      /\ "created" \notin DOMAIN patch /\ "updated" \notin DOMAIN patch
      /\ "title" \in DOMAIN patch => patch.title \in Int
  BY ListingAssumption
<1>8. /\ x.type = it.type /\ x.rank = it.rank /\ x.created = it.created /\ x.updated = now'
  BY <1>5, <1>6, <1>7 DEF Columns
<1>9. x.status \in Statuses(x.type)
  <2>1. x.status = IF "status" \in DOMAIN patch THEN patch.status ELSE it.status
    BY <1>5, <1>6 DEF Columns
  <2> QED BY <1>2, <1>4, <1>8, <2>1 DEF Fits
<1>10. x.parent = Nobody \/ (x.parent \in Items /\ Live(items[x.parent]))
  <2>1. x.parent = IF "parent" \in DOMAIN patch THEN patch.parent ELSE it.parent
    BY <1>5, <1>6 DEF Columns
  <2> QED BY <1>2, <1>4, <2>1 DEF Fits, Attach, Stored
<1>11. x.title \in Int
  <2>1. x.title = IF "title" \in DOMAIN patch THEN patch.title ELSE it.title
    BY <1>5, <1>6 DEF Columns
  <2> QED BY <1>4, <1>7, <2>1 DEF Fits
<1>12. it.created \in Nat /\ it.created <= now' /\ now' <= now'
  <2>1. it.created \in Nat /\ it.updated \in Nat /\ it.created <= it.updated /\ it.updated <= now
    BY <1>4 DEF Fits
  <2> QED BY <1>3, <2>1
<1>13. Fits(x, items, now')
  <2>1. x.type \in DOMAIN Category /\ x.rank \in Int
    BY <1>4, <1>8 DEF Fits
  <2> QED BY <1>3, <1>5, <1>6, <1>8, <1>9, <1>10, <1>11, <1>12, <2>1 DEF Fits
<1>14. Live(x)
  BY <1>5, <1>6, ColumnsLive DEF Columns
<1>15. Consistent(items', comments', now')
  BY <1>1, <1>2, <1>3, <1>13, <1>14, Put
<1>16. Consistent(items, comments, now)'
  BY <1>15 DEF Consistent, Fits
<1> QED BY <1>2, <1>16, EmitChangesCount, Written

\* Reorder: an item moves, and is otherwise as it was.
LEMMA ReorderKeeps ==
  ASSUME IInv, NEW i \in Items, NEW rank \in Ranks, Reorder(i, rank)
  PROVE  IInv'
<1> DEFINE x == [items[i] EXCEPT !.rank = rank]
<1>1. Consistent(items, comments, now) /\ DOMAIN items = Items /\ now \in Nat /\ now <= now
  BY DEF IInv, TypeOK, Consistent
<1>2. /\ Live(items[i]) /\ items' = [items EXCEPT ![i] = x] /\ comments' = comments /\ now' = now
      /\ Emit(Event(i, "item_reordered")) /\ Track
  BY DEF Reorder
<1>3. Fits(items[i], items, now)
  BY <1>1, <1>2 DEF Consistent
<1>4. /\ DOMAIN x = DOMAIN items[i]
      /\ "rank" \in DOMAIN items[i] => x.rank = rank
      /\ \A k \in DOMAIN items[i] : k # "rank" => x[k] = items[i][k]
  OBVIOUS
<1> HIDE DEF x
<1>5. Columns \subseteq DOMAIN items[i] /\ rank \in Int
  BY <1>3, ListingAssumption DEF Fits
<1>6. /\ x.type = items[i].type /\ x.status = items[i].status /\ x.parent = items[i].parent
      /\ x.title = items[i].title /\ x.created = items[i].created /\ x.updated = items[i].updated
      /\ x.rank = rank
  BY <1>4, <1>5 DEF Columns
<1>7. Fits(x, items, now)
  BY <1>3, <1>4, <1>5, <1>6 DEF Fits
<1>8. Live(x)
  BY <1>4, <1>5, ColumnsLive DEF Columns
<1>9. Consistent(items', comments', now')
  BY <1>1, <1>2, <1>7, <1>8, Put
<1>10. Consistent(items, comments, now)'
  BY <1>9 DEF Consistent, Fits
<1> QED BY <1>2, <1>10, EventCount, Written

\* DeleteItem: nothing was beneath the item.
LEMMA DeleteItemKeeps ==
  ASSUME IInv, NEW i \in Items, DeleteItem(i)
  PROVE  IInv'
<1>1. Consistent(items, comments, now) /\ now \in Nat /\ now <= now
  BY DEF IInv, TypeOK, Consistent
<1>2. /\ \A j \in Stored : items[j].parent # i
      /\ items' = [items EXCEPT ![i] = Gone] /\ comments' = comments /\ now' = now
      /\ Emit(Event(i, "item_deleted")) /\ Track
  BY DEF DeleteItem
<1>3. ~Live(Gone)
  BY DEF Live
<1>4. Consistent(items', comments', now')
  BY <1>1, <1>2, <1>3, Put
<1>5. Consistent(items, comments, now)'
  BY <1>4 DEF Consistent, Fits
<1> QED BY <1>2, <1>5, EventCount, Written

\* AddComment: a comment is of the time it is added at.
LEMMA AddCommentKeeps ==
  ASSUME IInv, NEW c \in Comments, NEW i \in Items, AddComment(c, i)
  PROVE  IInv'
<1> DEFINE x == [item |-> i, created |-> now']
<1>1. TypeOK /\ Consistent(items, comments, now)
  BY DEF IInv, TypeOK
<1>2. /\ Clock /\ comments' = [comments EXCEPT ![c] = x] /\ items' = items
      /\ Emit(Event(i, "comment_added")) /\ Track
  BY DEF AddComment
<1>3. now' \in Nat /\ now <= now'
  BY <1>1, <1>2, ClockTicks
<1>4. x.created \in 0..now'
  BY <1>3
<1>5. Consistent(items', comments', now')
  BY <1>1, <1>2, <1>3, <1>4, PutComment
<1>6. Consistent(items, comments, now)'
  BY <1>5 DEF Consistent, Fits
<1> QED BY <1>2, <1>6, EventCount, Written

\* DeleteComment takes nothing else away.
LEMMA DeleteCommentKeeps ==
  ASSUME IInv, NEW c \in Comments, DeleteComment(c)
  PROVE  IInv'
<1>1. Consistent(items, comments, now) /\ now \in Nat /\ now <= now
  BY DEF IInv, TypeOK, Consistent
<1>2. /\ comments' = [comments EXCEPT ![c] = Gone] /\ items' = items /\ now' = now
      /\ Emit(Event(comments[c].item, "comment_deleted")) /\ Track
  BY DEF DeleteComment
<1>3. ~Live(Gone)
  BY DEF Live
<1>4. Consistent(items', comments', now')
  BY <1>1, <1>2, <1>3, PutComment
<1>5. Consistent(items, comments, now)'
  BY <1>4 DEF Consistent, Fits
<1> QED BY <1>2, <1>5, EventCount, Written

----------------------------------------------------------------------------
(* The invariant *)

(***************************************************************************)
(* A reader that comes, or resumes, has been given nothing yet.            *)
(***************************************************************************)
LEMMA NothingGiven ==
  /\ << >> \in Seq(Nat) /\ Len(<< >>) = 0 /\ ToSet(<< >>) = {} /\ IsAscending(<< >>)
<1>1. << >> \in Seq(Nat) /\ Len(<< >>) = 0 /\ DOMAIN << >> = {}
  OBVIOUS
<1> QED BY <1>1 DEF ToSet, IsAscending

\* When the reader comes it has been given nothing, and everything is ahead of it.
LEMMA InitIInv == Init => IInv
<1> SUFFICES ASSUME Init
             PROVE  IInv
  OBVIOUS
<1>1. /\ items = Found.items /\ comments = Found.comments /\ now = Found.now
      /\ feed = Found.feed /\ seq = Found.seq /\ query \in Queries /\ ParseQuery(query)
      /\ since = 0 /\ cursor = 0 /\ done = FALSE /\ seen = << >> /\ handled = << >>
      /\ stayed = Rows(query) /\ lower = {} /\ higher = {}
  BY DEF Init
<1>2. Consistent(items, comments, now) /\ Numbered(feed, seq)
  BY <1>1, ListingAssumption
<1>3. Rows(query) \subseteq Items \cup Comments \cup 1..seq
  BY <1>1, <1>2, RowsFitIn DEF RowsFit
<1>4. TypeOK
  BY <1>1, <1>2, <1>3, NothingGiven DEF TypeOK
<1>5. Reading
  BY <1>1, NothingGiven DEF Reading
<1>6. InPlace
  <2>1. \A r : Ahead(r) >= 0
    BY <1>4, <1>5, AheadIsANumber DEF AheadCounts
  <2> QED BY <1>1, <2>1, NothingGiven DEF InPlace
<1>7. UpToDate
  <2>1. Reached = 0
    BY <1>1 DEF Reached
  <2>2. \A x \in Told : x \in Nat /\ ~(x <= 0)
    BY <1>4, ToldIs
  <2>3. 0 <= seq
    BY <1>2 DEF Numbered
  <2> QED BY <1>1, <2>1, <2>2, <2>3, NothingGiven DEF UpToDate
<1> QED BY <1>4, <1>5, <1>6, <1>7 DEF IInv

\* ReadPage: a reader that turns a page keeps its place.
LEMMA ReadPageKeeps == IInv /\ ReadPage => IInv'
  BY ReadPageTyped, ReadPageInPlace, ReadPageUpToDate DEF IInv

\* Resume: what was handled is what is told up to there.
LEMMA ResumeKeeps ==
  ASSUME IInv, Resume
  PROVE  IInv'
<1>0. TypeOK /\ Reading /\ UpToDate
  BY DEF IInv
<1>1. /\ UNCHANGED << items, comments, now, feed, seq, query, handled >>
      /\ query.of = "events" /\ handled # << >>
      /\ since' = Last(handled) /\ cursor' = 0 /\ done' = FALSE /\ seen' = << >>
      /\ stayed' = Rows(query)' /\ lower' = {} /\ higher' = {}
  BY DEF Resume, store, log
<1>2. Reached = Last(handled) /\ Reached \in Nat /\ Reached <= seq
  BY <1>0, <1>1, ReachedIs DEF UpToDate
<1>3. Consistent(items, comments, now)' /\ Numbered(feed, seq)'
  BY <1>0, <1>1 DEF TypeOK, Consistent, Fits, Numbered
<1>4. RowsFit'
  <2>1. (query \in Queries)'
    BY <1>0, <1>1 DEF Reading
  <2> QED BY <1>3, <2>1, RowsFitInNext
<1>5. TypeOK'
  <2>1. (cursor \in Nat /\ cursor <= Len(seen))'
    BY <1>1, NothingGiven
  <2>2. stayed' \subseteq Items \cup Comments \cup 1..seq'
    BY <1>1, <1>4 DEF RowsFit
  <2> QED BY <1>1, <1>3, <2>1, <2>2 DEF TypeOK
<1>6. Reading'
  <2>1. ParseQuery(query)' = ParseQuery(query)
    BY <1>1 DEF ParseQuery
  <2> QED BY <1>0, <1>1, <1>2, <2>1, NothingGiven DEF Reading
<1>7. InPlace'
  <2>1. \A r : Ahead(r)' >= 0
    BY <1>5, <1>6, AheadIsANumberNext DEF AheadCounts
  <2> QED BY <1>1, <2>1, NothingGiven DEF InPlace, ToSet
<1>8. UpToDate'
  <2>1. Reached' = Reached
    BY <1>1, <1>2 DEF Reached
  <2>2. Told' = Told
    BY <1>1 DEF Told, Selects
  <2>3. Told \subseteq Nat
    BY <1>0, ToldIs
  <2>4. {x \in Told : Last(handled) < x /\ x <= Reached} = {}
    <3>1. \A x \in Told : ~(Reached < x /\ x <= Reached)
      BY <1>2, <2>3
    <3> QED BY <1>2, <3>1
  <2>5. IsAscending(handled) /\ ToSet(handled) = {x \in Told : x <= Reached}
    BY <1>0, <1>1 DEF UpToDate
  <2>6. /\ IsAscending(handled)' = IsAscending(handled) /\ ToSet(handled)' = ToSet(handled)
        /\ Last(handled)' = Last(handled)
    BY <1>1 DEF IsAscending, ToSet, Last
  <2>7. IsAscending(seen)' /\ ToSet(seen)' = {} /\ cursor' = Len(seen)'
    BY <1>1, NothingGiven DEF IsAscending, ToSet
  <2> QED BY <1>1, <1>2, <2>1, <2>2, <2>4, <2>5, <2>6, <2>7 DEF UpToDate
<1> QED BY <1>5, <1>6, <1>7, <1>8 DEF IInv

\* A step that changes nothing.
LEMMA StutterKeeps ==
  ASSUME IInv, UNCHANGED vars
  PROVE  IInv'
<1>0. TypeOK /\ Reading /\ InPlace /\ UpToDate
  BY DEF IInv
<1>1. /\ items' = items /\ comments' = comments /\ now' = now /\ feed' = feed /\ seq' = seq
      /\ query' = query /\ since' = since /\ cursor' = cursor /\ done' = done /\ seen' = seen
      /\ handled' = handled /\ stayed' = stayed /\ lower' = lower /\ higher' = higher
  BY DEF vars, store, log, reader, places
<1>2. Rows(query)' = Rows(query) /\ Told' = Told /\ \A r : Ahead(r)' = Ahead(r)
  BY <1>1, ListingStays
<1>3. TypeOK'
  BY <1>0, <1>1 DEF TypeOK, Consistent, Fits, Numbered
<1>4. Reading'
  BY <1>0, <1>1, <1>2 DEF Reading, ParseQuery
<1>5. InPlace'
  BY <1>0, <1>1, <1>2 DEF InPlace, ToSet
<1>6. UpToDate'
  BY <1>0, <1>1, <1>2 DEF UpToDate, Reached, IsAscending, ToSet, Last
<1> QED BY <1>3, <1>4, <1>5, <1>6 DEF IInv

(***************************************************************************)
(* IInv is inductive.                                                      *)
(***************************************************************************)
LEMMA InvStep == IInv /\ [Next]_vars => IInv'
<1> SUFFICES ASSUME IInv, [Next]_vars
             PROVE  IInv'
  OBVIOUS
<1>1. CASE ReadPage
  BY <1>1, ReadPageKeeps
<1>2. CASE Resume
  BY <1>2, ResumeKeeps
<1>3. ASSUME NEW i \in Items, NEW type \in DOMAIN Category, NEW parent \in Items \cup {Nobody},
             NEW title \in Titles, CreateItem(i, type, parent, title)
      PROVE  IInv'
  BY <1>3, CreateItemKeeps
<1>4. ASSUME NEW i \in Items, NEW patch \in Patches, UpdateItem(i, patch)
      PROVE  IInv'
  BY <1>4, UpdateItemKeeps
<1>5. ASSUME NEW i \in Items, DeleteItem(i)
      PROVE  IInv'
  BY <1>5, DeleteItemKeeps
<1>6. ASSUME NEW i \in Items, NEW rank \in Ranks, Reorder(i, rank)
      PROVE  IInv'
  BY <1>6, ReorderKeeps
<1>7. ASSUME NEW c \in Comments, DeleteComment(c)
      PROVE  IInv'
  BY <1>7, DeleteCommentKeeps
<1>8. ASSUME NEW c \in Comments, NEW i \in Items, AddComment(c, i)
      PROVE  IInv'
  BY <1>8, AddCommentKeeps
<1>9. CASE UNCHANGED vars
  BY <1>9, StutterKeeps
<1> QED BY <1>1, <1>2, <1>3, <1>4, <1>5, <1>6, <1>7, <1>8, <1>9 DEF Next, Write

(***************************************************************************)
(* Every reader is where IInv says, whatever is written meanwhile.         *)
(***************************************************************************)
THEOREM Invariance == Spec => []IInv
<1> QED BY InitIInv, InvStep, PTL DEF Spec

(***************************************************************************)
(* What is stored is consistent, the feed is numbered in its order with    *)
(* nothing beyond the last number minted, the cursor never exceeds what    *)
(* was given, and what a reader is followed over are rows there are.       *)
(***************************************************************************)
THEOREM ListingTypeCorrect == Spec => []TypeOK
<1>1. IInv => TypeOK
  BY DEF IInv
<1> QED BY <1>1, Invariance, PTL

(***************************************************************************)
(* A row that stays in the listing is given at most once unless it came to *)
(* have more rows ahead of it, and at least once by the last page unless   *)
(* it came to have fewer: with any cursor, any page size, any order and    *)
(* any writes between the pages, and hence exactly once when nothing is    *)
(* written (FindItems and Comments, Events).                               *)
(***************************************************************************)
THEOREM PagesAreSteady == Spec => []Steady
<1>1. IInv => Steady
  <2> SUFFICES ASSUME IInv, NEW r \in stayed
               PROVE  /\ r \notin higher => Given(r) <= 1
                      /\ done /\ r \notin lower => Given(r) >= 1
    BY DEF Steady
  <2> DEFINE at == {n \in DOMAIN seen : seen[n] = r}
  <2>1. Len(seen) \in Nat /\ DOMAIN seen = 1..Len(seen)
    BY LenProperties DEF IInv, Reading
  <2>2. IsFiniteSet(at) /\ Cardinality(at) \in Nat
    <3>1. at \in SUBSET (1..Len(seen)) /\ IsFiniteSet(1..Len(seen))
      BY <2>1, Positions
    <3>2. IsFiniteSet(at)
      BY <3>1, FS_Subset
    <3> QED BY <3>2, FS_CardinalityType
  <2>3. Given(r) = Cardinality(at)
    BY DEF Given
  <2>4. ASSUME r \notin higher
        PROVE  Cardinality(at) <= 1
    <3>1. \A m, n \in at : m = n
      BY <2>4 DEF IInv, InPlace
    <3>2. CASE at = {}
      BY <3>2, FS_EmptySet
    <3>3. CASE at # {}
      <4>1. PICK n \in at : at = {n}
        BY <3>1, <3>3
      <4>2. Cardinality({n}) = 1
        BY FS_Singleton
      <4> QED BY <4>1, <4>2
    <3> QED BY <3>2, <3>3
  <2>5. ASSUME done, r \notin lower
        PROVE  Cardinality(at) >= 1
    <3>1. r \in ToSet(seen)
      BY <2>5 DEF IInv, InPlace
    <3>2. at # {}
      BY <3>1 DEF ToSet
    <3>3. Cardinality(at) # 0
      BY <2>2, <3>2, FS_EmptySet
    <3> QED BY <2>2, <3>3
  <2> QED BY <2>3, <2>4, <2>5
<1> QED BY <1>1, Invariance, PTL

(***************************************************************************)
(* A reader of the feed that pages and resumes handles the recorded events *)
(* its query selects, up to the last it handled, each once and in order.   *)
(***************************************************************************)
THEOREM FeedHandledOnce == Spec => []HandledOnce
<1>1. IInv => HandledOnce
  <2> SUFFICES ASSUME IInv, query.of = "events", handled # << >>
               PROVE  /\ \A m, n \in DOMAIN handled : m < n => handled[m] < handled[n]
                      /\ ToSet(handled) =
                           {feed[n].seq : n \in {n \in DOMAIN feed :
                              feed[n].seq <= Last(handled) /\ Selects(query, feed[n])}}
    BY DEF HandledOnce
  <2>1. /\ IsAscending(handled) /\ Reached = Last(handled)
        /\ ToSet(handled) = {x \in Told : x <= Reached}
    BY DEF IInv, UpToDate
  <2> QED BY <2>1 DEF IsAscending, Told
<1> QED BY <1>1, Invariance, PTL

----------------------------------------------------------------------------
(* Walks in a forest *)

(***************************************************************************)
(* A walk starts at its item, follows every link, and visits nothing that  *)
(* a set closed under the links can leave out.                             *)
(***************************************************************************)
LEMMA Walks ==
  ASSUME NEW up, NEW i
  PROVE  /\ AncestorsOf(up, i) \subseteq DOMAIN up /\ UpClosed(up, AncestorsOf(up, i))
         /\ i \in DOMAIN up => i \in AncestorsOf(up, i)
         /\ \A S \in SUBSET DOMAIN up : i \in S /\ UpClosed(up, S) => AncestorsOf(up, i) \subseteq S
  BY DEF AncestorsOf, UpClosed

(***************************************************************************)
(* The walk from an item is the item and then the walk from its parent.    *)
(***************************************************************************)
LEMMA WalkOn ==
  ASSUME NEW up, NEW i \in DOMAIN up, NEW j \in AncestorsOf(up, i), j # i
  PROVE  up[i] \in DOMAIN up /\ j \in AncestorsOf(up, up[i])
<1> DEFINE S == {i} \cup {k \in AncestorsOf(up, up[i]) : up[i] \in DOMAIN up}
<1>1. S \in SUBSET DOMAIN up /\ i \in S
  BY Walks
<1>2. UpClosed(up, S)
  BY Walks DEF UpClosed
<1>3. AncestorsOf(up, i) \subseteq S
  BY <1>1, <1>2, Walks
<1> QED BY <1>3

(***************************************************************************)
(* A walk from further up stays on the walk from below.                    *)
(***************************************************************************)
LEMMA WalkWithin ==
  ASSUME NEW up, NEW i, NEW j \in AncestorsOf(up, i)
  PROVE  AncestorsOf(up, j) \subseteq AncestorsOf(up, i)
BY Walks

(***************************************************************************)
(* One item placed anew closes no cycle if it is not on the walk up from   *)
(* its parent: what checkAttach asks is enough at every depth.             *)
(***************************************************************************)
LEMMA PlacedKeepsAcyclic ==
  ASSUME NEW up, NEW to, NEW c, Acyclic(up),
         \A x \in DOMAIN to : x # c => x \in DOMAIN up /\ to[x] = up[x],
         c \in DOMAIN up \/ \A x \in DOMAIN to : to[x] # c,
         c \in DOMAIN to /\ to[c] \in DOMAIN to => to[c] # c /\ c \notin AncestorsOf(up, to[c])
  PROVE  Acyclic(to)
<1> SUFFICES ASSUME NEW i \in DOMAIN to, to[i] \in DOMAIN to
             PROVE  i \notin AncestorsOf(to, to[i])
  BY DEF Acyclic
<1>1. to[i] \in DOMAIN up
  OBVIOUS
\* Off the walk on which c would be, nothing has changed.
<1>2. ASSUME NEW p \in DOMAIN up, c \notin AncestorsOf(up, p), NEW x \in AncestorsOf(up, p) \cap DOMAIN to,
             to[x] \in DOMAIN to
      PROVE  to[x] \in AncestorsOf(up, p)
  <2>1. x # c /\ to[x] = up[x] /\ to[x] \in DOMAIN up
    BY <1>2
  <2> QED BY <2>1, Walks DEF UpClosed
<1>3. CASE i = c
  <2> DEFINE S == AncestorsOf(up, to[i]) \cap DOMAIN to
  <2>1. S \in SUBSET DOMAIN to /\ to[i] \in S /\ i \notin S
    BY <1>1, <1>3, Walks
  <2>2. UpClosed(to, S)
    BY <1>1, <1>2, <1>3 DEF UpClosed
  <2>3. AncestorsOf(to, to[i]) \subseteq S
    BY <2>1, <2>2, Walks
  <2> QED BY <2>1, <2>3
<1>4. CASE i # c
  <2> DEFINE A == AncestorsOf(up, up[i])
             B == {x \in AncestorsOf(up, to[c]) : c \in A \cap DOMAIN to /\ to[c] \in DOMAIN to}
             S == (A \cup B) \cap DOMAIN to
  <2>1. i \in DOMAIN up /\ to[i] = up[i] /\ i \notin A
    BY <1>1, <1>4 DEF Acyclic
  <2>2. S \in SUBSET DOMAIN to /\ to[i] \in S
    BY <1>1, <2>1, Walks
  <2>3. i \notin B
    <3> SUFFICES ASSUME i \in AncestorsOf(up, to[c]), c \in A, c \in DOMAIN to, to[c] \in DOMAIN to
                 PROVE  FALSE
      OBVIOUS
    <3>1. up[i] \in AncestorsOf(up, to[c])
      BY <1>1, <2>1, Walks DEF UpClosed
    <3>2. c \in AncestorsOf(up, to[c])
      BY <3>1, WalkWithin
    <3> QED BY <3>2
  <2>4. UpClosed(to, S)
    <3> SUFFICES ASSUME NEW x \in S, to[x] \in DOMAIN to
                 PROVE  to[x] \in A \cup B
      BY DEF UpClosed
    <3>1. CASE x = c
      <4>1. c \in A
        BY <3>1
      <4>2. to[c] \in DOMAIN up /\ to[c] \in AncestorsOf(up, to[c])
        BY <3>1, Walks
      <4> QED BY <3>1, <4>1, <4>2
    <3>2. CASE x # c /\ x \in A
      <4>1. to[x] = up[x] /\ to[x] \in DOMAIN up
        BY <3>2
      <4> QED BY <3>2, <4>1, Walks DEF UpClosed
    <3>3. CASE x \in B
      <4>1. to[c] \in DOMAIN up /\ c \notin AncestorsOf(up, to[c])
        BY <3>3
      <4>2. to[x] \in AncestorsOf(up, to[c])
        BY <1>2, <3>3, <4>1
      <4> QED BY <3>3, <4>2
    <3> QED BY <3>1, <3>2, <3>3
  <2>5. AncestorsOf(to, to[i]) \subseteq S
    BY <2>2, <2>4, Walks
  <2> QED BY <2>1, <2>3, <2>5
<1> QED BY <1>3, <1>4

(***************************************************************************)
(* A walk that comes to an item from below comes to it from a child.       *)
(***************************************************************************)
LEMMA LastStep ==
  ASSUME NEW up, NEW k \in DOMAIN up, NEW i \in AncestorsOf(up, k), i # k
  PROVE  \E j \in AncestorsOf(up, k) : up[j] = i
<1> SUFFICES ASSUME \A j \in AncestorsOf(up, k) : up[j] # i
             PROVE  FALSE
  OBVIOUS
<1> DEFINE S == AncestorsOf(up, k) \ {i}
<1>1. S \in SUBSET DOMAIN up /\ k \in S
  BY Walks
<1>2. UpClosed(up, S)
  BY Walks DEF UpClosed
<1>3. AncestorsOf(up, k) \subseteq S
  BY <1>1, <1>2, Walks
<1> QED BY <1>3

(***************************************************************************)
(* Of two items on one walk one is above the other.                        *)
(***************************************************************************)
LEMMA WalksAreLines ==
  ASSUME NEW up, NEW k \in DOMAIN up, NEW i \in AncestorsOf(up, k), NEW j \in AncestorsOf(up, k)
  PROVE  i \in AncestorsOf(up, j) \/ j \in AncestorsOf(up, i)
<1> DEFINE S == {x \in AncestorsOf(up, k) : i \in AncestorsOf(up, x)} \cup AncestorsOf(up, i)
<1>1. S \in SUBSET DOMAIN up /\ k \in S
  BY Walks
<1>2. ASSUME NEW x \in S, up[x] \in DOMAIN up
      PROVE  up[x] \in S
  <2>1. CASE x \in AncestorsOf(up, i)
    BY <1>2, <2>1, Walks DEF UpClosed
  <2>2. CASE x \in AncestorsOf(up, k) /\ i \in AncestorsOf(up, x)
    <3>1. CASE x = i
      <4>1. x \in AncestorsOf(up, i)
        BY <1>1, <3>1, Walks
      <4> QED BY <2>1, <4>1
    <3>2. CASE x # i
      <4>1. i \in AncestorsOf(up, up[x])
        BY <1>1, <2>2, <3>2, WalkOn
      <4>2. up[x] \in AncestorsOf(up, k)
        BY <1>2, <2>2, Walks DEF UpClosed
      <4> QED BY <4>1, <4>2
    <3> QED BY <3>1, <3>2
  <2> QED BY <2>1, <2>2
<1> HIDE DEF S
<1>3. UpClosed(up, S)
  BY <1>2 DEF UpClosed
<1>4. AncestorsOf(up, k) \subseteq S
  BY <1>1, <1>3, Walks
<1>5. j \in AncestorsOf(up, i) \/ i \in AncestorsOf(up, j)
  BY <1>4 DEF S
<1> QED BY <1>5

----------------------------------------------------------------------------
(* Counting what is unresolved below an item *)

\* The walk up from an item of the store.
Walk(k) == AncestorsOf(Up, k)

\* The unresolved at or below some items, and those below one.
OpenUnder(s) == {k \in Stored : Open(k) = 1 /\ \E j \in s : j \in Walk(k)}
OpenBelow(i) == {k \in Stored : Open(k) = 1 /\ k # i /\ i \in Walk(k)}

(***************************************************************************)
(* The tree the walks are over, item by item.                              *)
(***************************************************************************)
LEMMA UpIs == DOMAIN Up = Stored /\ \A i \in Stored : Up[i] = items[i].parent
  BY DEF Up, UpOf, Stored

(***************************************************************************)
(* An item is counted once or not at all.                                  *)
(***************************************************************************)
LEMMA OpenIs == \A j : Open(j) \in {0, 1}
  BY DEF Open

(***************************************************************************)
(* What is below an item is at or below one child of it, and of no other.  *)
(***************************************************************************)
LEMMA BelowIsUnderChildren ==
  ASSUME Acyclic(Up), NEW i \in Stored
  PROVE  /\ OpenBelow(i) = OpenUnder(Children(i))
         /\ \A j, l \in Children(i), k \in Stored : j \in Walk(k) /\ l \in Walk(k) => j = l
         /\ \A j \in Children(i) : j \in Stored /\ i \in Walk(j) /\ j \notin Walk(i)
<1>1. DOMAIN Up = Stored /\ \A x \in Stored : Up[x] = items[x].parent
  BY UpIs
<1>2. ASSUME NEW j \in Children(i)
      PROVE  j \in Stored /\ Up[j] = i /\ j \notin Walk(i) /\ i \in Walk(j)
  <2>1. j \in Stored /\ Up[j] = i
    BY <1>1 DEF Children
  <2>2. j \notin Walk(i)
    BY <1>1, <2>1 DEF Acyclic, Walk
  <2>3. j \in Walk(j) /\ UpClosed(Up, Walk(j))
    BY <1>1, <2>1, Walks DEF Walk
  <2>4. i \in Walk(j)
    BY <1>1, <2>1, <2>3 DEF UpClosed
  <2> QED BY <2>1, <2>2, <2>4
<1>3. ASSUME NEW k \in Stored, NEW j \in Children(i), j \in Walk(k)
      PROVE  i \in Walk(k) /\ k # i
  <2>1. Walk(j) \subseteq Walk(k)
    BY <1>3, WalkWithin DEF Walk
  <2> QED BY <1>2, <1>3, <2>1
<1>4. ASSUME NEW k \in Stored, i \in Walk(k), k # i
      PROVE  \E j \in Children(i) : j \in Walk(k)
  <2>1. PICK j \in Walk(k) : Up[j] = i
    BY <1>1, <1>4, LastStep DEF Walk
  <2>2. j \in Stored
    BY <1>1, Walks DEF Walk
  <2> QED BY <1>1, <2>1, <2>2 DEF Children
<1>5. OpenBelow(i) = OpenUnder(Children(i))
  BY <1>3, <1>4 DEF OpenBelow, OpenUnder
<1>6. ASSUME NEW j \in Children(i), NEW l \in Children(i), NEW k \in Stored, j \in Walk(k), l \in Walk(k), j # l
      PROVE  FALSE
  <2>1. j \in Walk(l) \/ l \in Walk(j)
    BY <1>1, <1>6, WalksAreLines DEF Walk
  <2>2. j \in Walk(l) => j \in Walk(Up[l])
    BY <1>1, <1>2, <1>6, WalkOn DEF Walk
  <2>3. l \in Walk(j) => l \in Walk(Up[j])
    BY <1>1, <1>2, <1>6, WalkOn DEF Walk
  <2> QED BY <1>2, <2>1, <2>2, <2>3
<1> QED BY <1>2, <1>3, <1>5, <1>6

(***************************************************************************)
(* One child more is itself, if unresolved, and what is below it more.     *)
(***************************************************************************)
LEMMA CountUnder ==
  ASSUME Acyclic(Up), IsFiniteSet(Stored), NEW i \in Stored, NEW s \in SUBSET Children(i), NEW x \in s
  PROVE  Cardinality(OpenUnder(s)) = (Open(x) + Cardinality(OpenBelow(x))) + Cardinality(OpenUnder(s \ {x}))
<1> DEFINE A == OpenUnder({x})
           B == OpenUnder(s \ {x})
           C == OpenBelow(x)
<1>1. x \in Stored /\ \A j \in s, l \in s, k \in Stored : j \in Walk(k) /\ l \in Walk(k) => j = l
  BY BelowIsUnderChildren
<1>2. OpenUnder(s) = A \cup B
  BY DEF OpenUnder
<1>3. A \cap B = {}
  BY <1>1 DEF OpenUnder
<1>4. A \in SUBSET Stored /\ B \in SUBSET Stored /\ C \in SUBSET Stored
  BY DEF OpenUnder, OpenBelow
<1>5. x \in Walk(x)
  BY <1>1, UpIs, Walks DEF Walk
<1>6. x \notin C
  BY DEF OpenBelow
<1>7. Open(x) = 1 => A = C \cup {x}
  BY <1>1, <1>5 DEF OpenUnder, OpenBelow
<1>8. Open(x) # 1 => A = C
  BY DEF OpenUnder, OpenBelow
<1> HIDE DEF A, B, C
<1>9. IsFiniteSet(A) /\ IsFiniteSet(B) /\ IsFiniteSet(C)
  BY <1>4, FS_Subset
<1>10. Cardinality(A) \in Nat /\ Cardinality(B) \in Nat /\ Cardinality(C) \in Nat
  BY <1>9, FS_CardinalityType
<1>11. Cardinality(A \cup B) = Cardinality(A) + Cardinality(B) - Cardinality(A \cap B)
  BY <1>9, FS_Union
<1>12. Cardinality(A \cap B) = 0
  BY <1>3, FS_EmptySet
<1>13. Cardinality(A) = Open(x) + Cardinality(C)
  <2>1. CASE Open(x) = 1
    <3>1. Cardinality(C \cup {x}) = Cardinality(C) + 1
      BY <1>6, <1>9, FS_AddElement
    <3>2. Cardinality(A) = Cardinality(C) + 1
      BY <1>7, <2>1, <3>1
    <3> QED BY <1>10, <2>1, <3>2
  <2>2. CASE Open(x) # 1
    <3>1. Open(x) = 0
      BY <2>2, OpenIs
    <3> QED BY <1>8, <1>10, <2>2, <3>1
  <2> QED BY <2>1, <2>2
<1>14. Cardinality(A \cup B) = Cardinality(A) + Cardinality(B)
  BY <1>10, <1>11, <1>12
<1>15. Cardinality(OpenUnder(s)) = (Open(x) + Cardinality(C)) + Cardinality(B)
  BY <1>2, <1>13, <1>14
<1> QED BY <1>15 DEF B, C

(***************************************************************************)
(* A non-empty part of the subsets of a finite set has a least member.     *)
(***************************************************************************)
LEMMA LeastOf ==
  ASSUME NEW S, IsFiniteSet(S), NEW F \in SUBSET SUBSET S, F # {}
  PROVE  \E s \in F : \A t \in F : ~(t \subseteq s /\ t # s)
<1>1. IsWellFoundedOn(StrictSubsetOrdering(S), SUBSET S)
  BY FS_StrictSubsetOrderingWellFounded, FS_FiniteSubsetsOfFinite
<1>2. PICK s \in F : \A t \in F : ~(<<t, s>> \in StrictSubsetOrdering(S))
  BY <1>1, WFMin
<1>3. ASSUME NEW t \in F, t \subseteq s, t # s
      PROVE  FALSE
  <2>1. t \in SUBSET S /\ s \in SUBSET S
    OBVIOUS
  <2>2. <<t, s>> \in StrictSubsetOrdering(S)
    BY <1>3, <2>1 DEF StrictSubsetOrdering
  <2> QED BY <1>2, <2>2
<1>4. \A t \in F : ~(t \subseteq s /\ t # s)
  BY <1>3
<1> QED BY <1>4

\* The member a sum over a set begins with.
First(s) == CHOOSE x \in s : TRUE

\* What a sum over s comes to, from what it comes to without its first member.
Plus(b, sum, s) == IF s = {} THEN 0 ELSE (Open(First(s)) + b[First(s)]) + sum[s \ {First(s)}]

\* A function of the subsets of S that obeys the recursion of the sum.
Sums(S, b, sum) == sum = [s \in SUBSET S |-> Plus(b, sum, s)]

(***************************************************************************)
(* A sum is a function of the set that obeys the recursion of the code's   *)
(* loop, if any function does.                                             *)
(***************************************************************************)
LEMMA SumUnfolds ==
  ASSUME NEW S, NEW b, NEW h, Sums(S, b, h)
  PROVE  \E sum : Sums(S, b, sum) /\ OpenAmong(S, b) = sum[S]
BY DEF OpenAmong, MapThenSumSet, MapThenFoldSet, First, Plus, Sums

(***************************************************************************)
(* So is the count below an item, of each item.                            *)
(***************************************************************************)
LEMMA CountUnfolds ==
  ASSUME NEW i, NEW g, g = [k \in Stored |-> OpenAmong(Children(k), g)]
  PROVE  \E below :
           /\ below = [k \in Stored |-> OpenAmong(Children(k), below)]
           /\ UnresolvedDescendants(i) = below[i]
  BY DEF UnresolvedDescendants

(***************************************************************************)
(* If each child is given what is unresolved below it, the sum over the    *)
(* children is what is unresolved below their parent.                      *)
(***************************************************************************)
LEMMA SumOfChildren ==
  ASSUME Acyclic(Up), IsFiniteSet(Stored), NEW i \in Stored, NEW b,
         \A j \in Children(i) : b[j] = Cardinality(OpenBelow(j))
  PROVE  OpenAmong(Children(i), b) = Cardinality(OpenBelow(i))
<1> DEFINE S == Children(i)
           h == [s \in SUBSET S |-> Cardinality(OpenUnder(s))]
<1>1. ASSUME NEW s \in SUBSET S, s # {}
      PROVE  First(s) \in s /\ s \ {First(s)} \in SUBSET S
  BY <1>1 DEF First
<1>2. \A s \in SUBSET S : h[s] = Plus(b, h, s)
  <2> SUFFICES ASSUME NEW s \in SUBSET S
               PROVE  h[s] = Plus(b, h, s)
    OBVIOUS
  <2>1. CASE s = {}
    <3>1. OpenUnder({}) = {}
      BY DEF OpenUnder
    <3>2. Cardinality(OpenUnder({})) = 0
      BY <3>1, FS_EmptySet
    <3> QED BY <2>1, <3>2 DEF Plus
  <2>2. CASE s # {}
    <3>1. First(s) \in s /\ s \ {First(s)} \in SUBSET S
      BY <1>1, <2>2
    <3>2. Cardinality(OpenUnder(s)) =
            (Open(First(s)) + Cardinality(OpenBelow(First(s)))) + Cardinality(OpenUnder(s \ {First(s)}))
      BY <3>1, CountUnder
    <3>3. b[First(s)] = Cardinality(OpenBelow(First(s)))
      BY <3>1
    <3> QED BY <2>2, <3>1, <3>2, <3>3 DEF Plus
  <2> QED BY <2>1, <2>2
<1>3. IsFiniteSet(S) /\ S \in SUBSET Stored
  <2>1. S \in SUBSET Stored
    BY DEF Children
  <2> QED BY <2>1, FS_Subset
<1>4. Sums(S, b, h)
  BY <1>2 DEF Sums
<1> HIDE DEF S, h
<1>5. PICK sum : Sums(S, b, sum) /\ OpenAmong(S, b) = sum[S]
  BY <1>4, SumUnfolds
<1>6. \A s \in SUBSET S : sum[s] = h[s]
  <2> DEFINE F == {s \in SUBSET S : sum[s] # h[s]}
  <2> SUFFICES ASSUME F # {}
               PROVE  FALSE
    OBVIOUS
  <2>1. F \in SUBSET SUBSET S /\ F # {} /\ \A s \in SUBSET S : s \in F <=> sum[s] # h[s]
    OBVIOUS
  <2> HIDE DEF F
  <2>2. PICK s \in F : \A t \in F : ~(t \subseteq s /\ t # s)
    BY <1>3, <2>1, LeastOf
  <2>3. s \in SUBSET S /\ sum[s] # h[s]
    BY <2>1
  <2>4. sum[s] = Plus(b, sum, s) /\ h[s] = Plus(b, h, s)
    BY <1>2, <1>5, <2>3 DEF Sums
  <2>5. s # {}
    BY <2>3, <2>4 DEF Plus
  <2>6. First(s) \in s /\ s \ {First(s)} \in SUBSET S
    BY <1>1, <2>3, <2>5
  <2>7. sum[s \ {First(s)}] = h[s \ {First(s)}]
    BY <2>1, <2>2, <2>6
  <2> QED BY <2>3, <2>4, <2>5, <2>7 DEF Plus
<1>7. OpenAmong(S, b) = Cardinality(OpenUnder(S))
  BY <1>5, <1>6 DEF h
<1> QED BY <1>7, BelowIsUnderChildren DEF S

(***************************************************************************)
(* What UnresolvedDescendants counts by walking down is what is unresolved *)
(* below the item.                                                         *)
(***************************************************************************)
LEMMA CountsBelow ==
  ASSUME Acyclic(Up), IsFiniteSet(Stored), NEW i \in Stored
  PROVE  UnresolvedDescendants(i) = Cardinality(OpenBelow(i))
<1> DEFINE g == [k \in Stored |-> Cardinality(OpenBelow(k))]
           Down(k) == {l \in Stored : k \in Walk(l)}
<1>1. ASSUME NEW k \in Stored
      PROVE  g[k] = OpenAmong(Children(k), g)
  <2>1. \A j \in Children(k) : g[j] = Cardinality(OpenBelow(j))
    BY DEF Children
  <2> QED BY <2>1, SumOfChildren
<1>2. g = [k \in Stored |-> OpenAmong(Children(k), g)]
  BY <1>1
<1> HIDE DEF g
<1>3. PICK below : /\ below = [k \in Stored |-> OpenAmong(Children(k), below)]
                   /\ UnresolvedDescendants(i) = below[i]
  BY <1>2, CountUnfolds
<1>4. \A k \in Stored : below[k] = OpenAmong(Children(k), below)
  BY <1>3
<1>5. \A k \in Stored : below[k] = Cardinality(OpenBelow(k))
  <2> DEFINE Bad == {k \in Stored : below[k] # Cardinality(OpenBelow(k))}
             F == {Down(k) : k \in Bad}
  <2> SUFFICES ASSUME Bad # {}
               PROVE  FALSE
    OBVIOUS
  <2>1. F \in SUBSET SUBSET Stored /\ F # {}
    OBVIOUS
  <2> HIDE DEF F
  <2>2. PICK s \in F : \A t \in F : ~(t \subseteq s /\ t # s)
    BY <2>1, LeastOf
  <2>3. PICK k \in Bad : s = Down(k)
    BY DEF F
  <2>4. ASSUME NEW j \in Children(k)
        PROVE  below[j] = Cardinality(OpenBelow(j))
    <3>1. j \in Stored /\ k \in Walk(j) /\ j \notin Walk(k)
      BY BelowIsUnderChildren
    <3>2. Down(j) \subseteq Down(k)
      <4>1. ASSUME NEW l \in Stored, j \in Walk(l)
            PROVE  k \in Walk(l)
        BY <3>1, <4>1, WalkWithin DEF Walk
      <4> QED BY <4>1
    <3>3. k \in Down(k) /\ k \notin Down(j)
      BY <3>1, UpIs, Walks DEF Walk
    <3>4. Down(j) \notin F
      BY <2>2, <2>3, <3>2, <3>3
    <3> QED BY <3>1, <3>4 DEF F
  <2>5. OpenAmong(Children(k), below) = Cardinality(OpenBelow(k))
    BY <2>4, SumOfChildren
  <2> QED BY <1>4, <2>5
<1> QED BY <1>3, <1>5

----------------------------------------------------------------------------
(* The store is a forest *)

Forest == Acyclic(Up)

(***************************************************************************)
(* An item is attached where it is: nothing above it is below it.          *)
(***************************************************************************)
LEMMA IsAttached ==
  ASSUME Forest, Consistent(items, comments, now), NEW i \in Stored
  PROVE  Attach(i, items[i].parent)
<1>1. items[i].parent = Nobody \/ items[i].parent \in Stored
  BY DEF Consistent, Fits, Stored
<1>2. SUFFICES ASSUME items[i].parent \in Stored
               PROVE  items[i].parent # i /\ i \notin AncestorsOf(Up, items[i].parent)
  BY <1>1 DEF Attach
<1>3. i \notin AncestorsOf(Up, items[i].parent)
  BY <1>2, UpIs DEF Forest, Acyclic
<1>4. items[i].parent \in AncestorsOf(Up, items[i].parent)
  BY <1>2, UpIs, Walks
<1> QED BY <1>3, <1>4

(***************************************************************************)
(* One item written, where Attach allows it to be, closes no cycle.        *)
(***************************************************************************)
LEMMA PutForest ==
  ASSUME Forest, Consistent(items, comments, now), NEW i \in Items, NEW x,
         items' = [items EXCEPT ![i] = x], Live(x) => Attach(i, x.parent)
  PROVE  Forest'
<1>1. DOMAIN Up = Stored /\ (\A j \in Stored : Up[j] = items[j].parent) /\ Stored \subseteq Items
  BY UpIs DEF Stored
<1>2. /\ DOMAIN Up' = Stored' /\ Stored' \subseteq Items
      /\ \A j \in Stored' : Up'[j] = items'[j].parent
  BY DEF Up, UpOf, Stored
<1>3. items'[i] = x /\ \A j \in Items : j # i => items'[j] = items[j]
  BY DEF Consistent
<1>4. \A j \in Stored' : j # i => j \in Stored /\ Up'[j] = Up[j]
  BY <1>1, <1>2, <1>3 DEF Stored
<1>5. i \in Stored' => Attach(i, Up'[i])
  BY <1>2, <1>3 DEF Stored
<1>6. i \in Stored \/ \A j \in Stored' : Up'[j] # i
  <2>1. SUFFICES ASSUME i \notin Stored, NEW j \in Stored'
                 PROVE  Up'[j] # i
    OBVIOUS
  <2>2. CASE j = i
    BY <1>5, <2>1, <2>2, ListingAssumption DEF Attach
  <2>3. CASE j # i
    <3>1. items[j].parent = Nobody \/ items[j].parent \in Stored
      BY <1>4, <2>3 DEF Consistent, Fits, Stored
    <3> QED BY <1>1, <1>4, <2>1, <2>3, <3>1, ListingAssumption
  <2> QED BY <2>2, <2>3
<1>7. i \in Stored' /\ Up'[i] \in Stored' => Up'[i] # i /\ i \notin AncestorsOf(Up, Up'[i])
  <2>1. SUFFICES ASSUME i \in Stored', Up'[i] \in Stored'
                 PROVE  Up'[i] # i /\ i \notin AncestorsOf(Up, Up'[i])
    OBVIOUS
  <2>2. Up'[i] \in Stored /\ (i \in Stored => Up'[i] # i /\ i \notin AncestorsOf(Up, Up'[i]))
    BY <1>2, <1>5, <2>1, ListingAssumption DEF Attach
  <2>3. AncestorsOf(Up, Up'[i]) \subseteq Stored
    BY <1>1, Walks
  <2> QED BY <2>2, <2>3
<1>8. Acyclic(Up')
  BY <1>1, <1>2, <1>4, <1>6, <1>7, PlacedKeepsAcyclic DEF Forest
<1> QED BY <1>8 DEF Forest, Acyclic, AncestorsOf, UpClosed

(***************************************************************************)
(* No writer closes a cycle: checkAttach stands before both that can, and  *)
(* the others move nothing.                                                *)
(***************************************************************************)
LEMMA ForestStep == IInv /\ Forest /\ [Next]_vars => Forest'
<1> SUFFICES ASSUME IInv, Forest, [Next]_vars
             PROVE  Forest'
  OBVIOUS
<1>1. Consistent(items, comments, now) /\ DOMAIN items = Items
  BY DEF IInv, TypeOK, Consistent
<1>2. ASSUME items' = items
      PROVE  Forest'
  <2>1. Up' = Up
    BY <1>2 DEF Up, UpOf
  <2> QED BY <2>1 DEF Forest, Acyclic, AncestorsOf, UpClosed
<1>3. ASSUME NEW i \in Items, NEW type \in DOMAIN Category, NEW parent \in Items \cup {Nobody},
             NEW title \in Titles, CreateItem(i, type, parent, title)
      PROVE  Forest'
  <2> DEFINE x == [type |-> type, status |-> Initial[type], parent |-> parent, title |-> title,
                   size |-> NotHeld, rank |-> Max({0} \cup {items[j].rank : j \in Stored}) + 1,
                   created |-> now', updated |-> now']
  <2>1. items' = [items EXCEPT ![i] = x] /\ Attach(i, parent)
    BY <1>3 DEF CreateItem
  <2>2. x.parent = parent
    OBVIOUS
  <2> HIDE DEF x
  <2> QED BY <1>1, <2>1, <2>2, PutForest
<1>4. ASSUME NEW i \in Items, NEW patch \in Patches, UpdateItem(i, patch)
      PROVE  Forest'
  <2> DEFINE x == Patched(items[i], patch, now')
  <2>1. /\ i \in Stored /\ items' = [items EXCEPT ![i] = x]
        /\ "parent" \in DOMAIN patch => Attach(i, patch.parent)
    BY <1>4 DEF UpdateItem, Stored
  <2>2. "parent" \in DOMAIN items[i]
    BY <1>1, <2>1 DEF Consistent, Fits, Columns, Stored
  <2>3. x.parent = IF "parent" \in DOMAIN patch THEN patch.parent ELSE items[i].parent
    BY <2>2 DEF Patched
  <2>4. Attach(i, items[i].parent)
    BY <1>1, <2>1, IsAttached
  <2> HIDE DEF x
  <2> QED BY <1>1, <2>1, <2>3, <2>4, PutForest
<1>5. ASSUME NEW i \in Items, DeleteItem(i)
      PROVE  Forest'
  <2>1. items' = [items EXCEPT ![i] = Gone] /\ ~Live(Gone)
    BY <1>5 DEF DeleteItem, Live
  <2> QED BY <1>1, <2>1, PutForest
<1>6. ASSUME NEW i \in Items, NEW rank \in Ranks, Reorder(i, rank)
      PROVE  Forest'
  <2> DEFINE x == [items[i] EXCEPT !.rank = rank]
  <2>1. i \in Stored /\ items' = [items EXCEPT ![i] = x]
    BY <1>6 DEF Reorder, Stored
  <2>2. x.parent = items[i].parent
    OBVIOUS
  <2>3. Attach(i, items[i].parent)
    BY <1>1, <2>1, IsAttached
  <2> HIDE DEF x
  <2> QED BY <1>1, <2>1, <2>2, <2>3, PutForest
<1>7. ASSUME NEW c \in Comments, DeleteComment(c)
      PROVE  Forest'
  BY <1>2, <1>7 DEF DeleteComment
<1>8. ASSUME NEW c \in Comments, NEW i \in Items, AddComment(c, i)
      PROVE  Forest'
  BY <1>2, <1>8 DEF AddComment
<1>9. CASE ReadPage
  BY <1>2, <1>9 DEF ReadPage, store
<1>10. CASE Resume
  BY <1>2, <1>10 DEF Resume, store
<1>11. CASE UNCHANGED vars
  BY <1>2, <1>11 DEF vars, store
<1> QED BY <1>3, <1>4, <1>5, <1>6, <1>7, <1>8, <1>9, <1>10, <1>11 DEF Next, Write

----------------------------------------------------------------------------
(* What FindItems lists below an item *)

(***************************************************************************)
(* Walking up from each item finds what is below one, and the category is  *)
(* the same question.                                                      *)
(***************************************************************************)
LEMMA ListedBelow ==
  ASSUME Forest, NEW i \in Stored
  PROVE  Rows([of |-> "items", subtree |-> i, categories |-> Unresolved]) = OpenBelow(i)
<1> DEFINE q == [of |-> "items", subtree |-> i, categories |-> Unresolved]
<1>1. /\ q.of = "items" /\ q.subtree = i /\ q.categories = Unresolved
      /\ "subtree" \in DOMAIN q /\ "categories" \in DOMAIN q
      /\ {"types", "statuses", "roots", "parent", "updatedSince", "fields"} \cap DOMAIN q = {}
  OBVIOUS
<1> HIDE DEF q
<1>2. Rows(q) = {k \in Stored : Matches(q, k)}
  BY <1>1 DEF Rows
<1>3. ASSUME NEW k \in Stored
      PROVE  Matches(q, k) <=> CategoryOf(items[k]) \in Unresolved /\ IsBelow(k, i)
  BY <1>1 DEF Matches
<1>4. ASSUME NEW k \in Stored
      PROVE  IsBelow(k, i) <=> k # i /\ i \in Walk(k)
  <2>1. k \in Walk(k) /\ UpClosed(Up, Walk(k)) /\ DOMAIN Up = Stored
    BY UpIs, Walks DEF Walk
  <2>2. ASSUME IsBelow(k, i)
        PROVE  k # i /\ i \in Walk(k)
    <3>1. Up[k] \in Walk(k) /\ i \in Walk(Up[k]) /\ k # i
      BY <2>1, <2>2 DEF IsBelow, UpClosed, Walk
    <3>2. Walk(Up[k]) \subseteq Walk(k)
      BY <3>1, WalkWithin DEF Walk
    <3> QED BY <3>1, <3>2
  <2>3. ASSUME k # i, i \in Walk(k)
        PROVE  IsBelow(k, i)
    BY <2>1, <2>3, WalkOn DEF IsBelow, Walk
  <2> QED BY <2>2, <2>3
<1>5. ASSUME NEW k \in Stored
      PROVE  CategoryOf(items[k]) \in Unresolved <=> Open(k) = 1
  BY DEF Open
<1>6. Rows(q) = OpenBelow(i)
  BY <1>2, <1>3, <1>4, <1>5 DEF OpenBelow
<1> QED BY <1>6 DEF q

(***************************************************************************)
(* The count that gates a resolution, taken by walking down the links, is  *)
(* the number of items that FindItems lists as unresolved beneath the      *)
(* item, walking up from each: in every store the writers can come to.     *)
(***************************************************************************)
THEOREM GateIsWhatIsListed == Spec => []GateAgrees
<1>1. Init => Forest
  <2> SUFFICES ASSUME Init
               PROVE  Forest
    OBVIOUS
  <2>1. items = Found.items
    BY DEF Init
  <2> QED BY <2>1, ListingAssumption DEF Forest, Up
<1>2. Forest => GateAgrees
  <2> SUFFICES ASSUME Forest, NEW i \in Stored
               PROVE  UnresolvedDescendants(i) =
                        Cardinality(Rows([of |-> "items", subtree |-> i, categories |-> Unresolved]))
    BY DEF GateAgrees
  <2>1. IsFiniteSet(Stored)
    <3>1. Stored \subseteq Items
      BY DEF Stored
    <3> QED BY <3>1, ListingAssumption, FS_Subset
  <2>2. UnresolvedDescendants(i) = Cardinality(OpenBelow(i))
    BY <2>1, CountsBelow DEF Forest
  <2> QED BY <2>2, ListedBelow
<1>3. IInv /\ Forest /\ [Next]_vars => Forest'
  BY ForestStep
<1>4. Spec => []Forest
  BY <1>1, <1>3, Invariance, PTL DEF Spec
<1> QED BY <1>2, <1>4, PTL
=============================================================================
