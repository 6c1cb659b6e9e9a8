------------------------- MODULE PagedLists_proofs --------------------------
(***************************************************************************)
(* What a client that turns the pages of a list may miss, for any rows, any *)
(* page size and any order in which they come and go.                       *)
(*                                                                         *)
(* The place of a row is the number of rows before it.  A row that stays    *)
(* moves towards the front only when another leaves, and then by one place; *)
(* so at most one unseen row per departure passes the offset.               *)
(***************************************************************************)
EXTENDS PagedLists, FiniteSetTheorems, TLAPS

PagedTypeOK ==
    /\ view \in Views
    /\ stamped \subseteq Rows
    /\ older \subseteq stamped \X stamped
    /\ listed \subseteq stamped
    /\ type \in [Rows -> EventTypes]
    /\ reader \in [pc : {"idle", "counted", "turning", "done"}, page : Nat \ {0}, total : Nat,
                   seen : SUBSET Rows, steady : SUBSET Rows,
                   left : 0 .. Cardinality(Rows), came : 0 .. Cardinality(Rows)]
    /\ desk \subseteq Rows

\* Timestamps order the rows, ties aside.
TimeIsAnOrder ==
    /\ \A a, b \in stamped : <<a, b>> \in older => <<b, a>> \notin older
    /\ \A a, b, c \in stamped : <<a, b>> \in older => <<a, c>> \in older \/ <<c, b>> \in older

Ahead(r) == {x \in Matching : Before(x, r)}

Place(r) == Cardinality(Ahead(r))

Unseen == {r \in reader.steady \ reader.seen : Placed(r)}

\* The unseen rows that moved from the pages to come to those read.
Passed == {r \in Unseen : Place(r) < Offset(reader.page)}

PagesInv ==
    /\ PagedTypeOK
    /\ TimeIsAnOrder
    /\ reader.steady \subseteq Matching
    /\ reader.pc = "idle" => reader = NoReader
    /\ view.list # "reviews" => desk = {}
    /\ Cardinality(Passed) <= reader.left
    /\ reader.pc = "counted" =>
         \/ Cardinality(Matching) <= reader.total + reader.came
         \/ reader.came = Cardinality(Rows)
    /\ MissedRowsMoved

-----------------------------------------------------------------------------
(* Rows, pages and the order of a list *)

\* Every set of rows is finite.
LEMMA RowsAreFinite ==
  ASSUME NEW S \in SUBSET Rows
  PROVE  IsFiniteSet(S) /\ Cardinality(S) \in 0 .. Cardinality(Rows) /\ Cardinality(Rows) \in Nat
  <1>1. IsFiniteSet(S) /\ Cardinality(S) <= Cardinality(Rows)
    BY PagedAssumption, FS_Subset
  <1>2. QED
    BY <1>1, PagedAssumption, FS_CardinalityType

\* A smaller set of rows counts less.
LEMMA FewerRows ==
  ASSUME NEW S \in SUBSET Rows, NEW T \in SUBSET S
  PROVE  Cardinality(T) <= Cardinality(S)
  BY RowsAreFinite, FS_Subset

\* The size of a page is positive.
LEMMA SizeType ==
  ASSUME view \in Views
  PROVE  view.size \in Nat \ {0}
  BY PagedAssumption DEF Views

\* Pages follow each other.
LEMMA Offsets ==
  ASSUME view \in Views, NEW p \in Nat \ {0}
  PROVE  /\ Offset(p) \in Nat
         /\ Offset(1) = 0
         /\ Offset(p + 1) = Offset(p) + view.size
         /\ p * view.size = Offset(p) + view.size
  <1> DEFINE s == view.size
  <1>1. s \in Nat
    BY SizeType
  <1>2. PICK q \in Nat : p = q + 1
    <2>1. p - 1 \in Nat /\ p = (p - 1) + 1
      OBVIOUS
    <2>2. QED
      BY <2>1
  <1>3. q * s \in Nat /\ (q + 1) * s = q * s + s /\ 0 * s = 0
    BY <1>1
  <1>4. p - 1 = q /\ (p + 1) - 1 = q + 1 /\ 1 - 1 = 0
    BY <1>2
  <1> HIDE DEF s
  <1>5. (p - 1) * s = q * s /\ ((p + 1) - 1) * s = q * s + s /\ (1 - 1) * s = 0 /\ p * s = q * s + s
    BY <1>2, <1>3, <1>4
  <1>6. QED
    BY <1>3, <1>5 DEF Offset, s

\* The filter of list_audit_events lets through what the client is due.
LEMMA MatchingIsDue ==
  ASSUME view \in Views, type \in [Rows -> EventTypes], listed \subseteq Rows
  PROVE  Matching = Due /\ Matching \subseteq listed
  <1>1. CASE view.list # "audit"
    BY <1>1 DEF Matching, Due
  <1>2. CASE view.list = "audit"
    <2>1. view.role \in {"ENGINEER", "ADMIN"} /\ view.wanted \in {"any"} \cup EventTypes
      BY <1>2 DEF Views
    <2>2. ASSUME NEW r \in listed
          PROVE  type[r] \in ListTypes(view) <=>
                   /\ view.role = "ADMIN" \/ type[r] \notin AdminOnly
                   /\ \/ view.wanted \in {"any", type[r]}
                      \/ view.wanted = Canonical(type[r])
      <3>1. type[r] \in EventTypes
        OBVIOUS
      <3>2. QED
        BY <2>1, <3>1
           DEF ListTypes, ForRole, StoredNames, AdminOnly, CurrentTypes, Canonical, EventTypes
    <2>3. QED
      BY <1>2, <2>2 DEF Matching, Due
  <1>3. QED
    BY <1>1, <1>2

\* The rows of a list have a strict order.
LEMMA BeforeIsAnOrder ==
  ASSUME PagedTypeOK, TimeIsAnOrder, NEW a \in stamped, NEW b \in stamped, NEW c \in stamped
  PROVE  /\ Before(a, b) => ~Before(b, a)
         /\ Before(a, b) /\ Before(b, c) => Before(a, c)
  <1>1. a \in Nat /\ b \in Nat /\ c \in Nat
    BY PagedAssumption DEF PagedTypeOK
  <1>2. ASSUME NEW x \in stamped, NEW y \in stamped, NEW z \in stamped,
               x \in Nat, y \in Nat, z \in Nat
        PROVE  /\ Earlier(x, y) => ~Earlier(y, x)
               /\ Earlier(x, y) /\ Earlier(y, z) => Earlier(x, z)
    <2>1. Earlier(x, y) => ~Earlier(y, x)
      BY <1>2 DEF Earlier, SameTime, TimeIsAnOrder
    <2>2. ASSUME <<x, y>> \in older, Earlier(y, z) PROVE <<x, z>> \in older
      BY <2>2 DEF Earlier, SameTime, TimeIsAnOrder
    <2>3. ASSUME <<y, z>> \in older, Earlier(x, y) PROVE <<x, z>> \in older
      BY <2>3 DEF Earlier, SameTime, TimeIsAnOrder
    <2>4. ASSUME view.list # "audit", SameTime(x, y), SameTime(y, z), x < y, y < z
          PROVE  SameTime(x, z) /\ x < z
      BY <1>2, <2>4 DEF SameTime, TimeIsAnOrder
    <2>5. QED
      BY <2>1, <2>2, <2>3, <2>4 DEF Earlier
  <1>3. QED
    BY <1>1, <1>2 DEF Before

\* A placed row comes before or after any other.
LEMMA PlacedIsComparable ==
  ASSUME PagedTypeOK, NEW r \in Matching, NEW x \in Matching, x # r, Placed(r)
  PROVE  Before(x, r) \/ Before(r, x)
  <1>1. r \in Nat /\ x \in Nat /\ x \in Due
    BY MatchingIsDue, PagedAssumption DEF PagedTypeOK
  <1>2. CASE view.list # "audit"
    BY <1>1, <1>2 DEF Before, Earlier, SameTime
  <1>3. CASE view.list = "audit"
    BY <1>1, <1>3 DEF Placed, Before, Earlier, SameTime
  <1>4. QED
    BY <1>2, <1>3

\* What is before a row are rows.
LEMMA MatchingType ==
  PagedTypeOK =>
    Matching = Due /\ Matching \in SUBSET listed /\ Matching \in SUBSET stamped /\ Matching \in SUBSET Rows
  BY MatchingIsDue DEF PagedTypeOK

\* A place is a number below that of the rows.
LEMMA PlaceType ==
  ASSUME PagedTypeOK, TimeIsAnOrder, NEW r \in Matching
  PROVE  Place(r) \in Nat /\ Place(r) < Cardinality(Matching) /\ Cardinality(Matching) \in Nat
  <1>1. r \notin Ahead(r)
    BY BeforeIsAnOrder, MatchingType DEF Ahead
  <1>2. Ahead(r) \in SUBSET Matching /\ Ahead(r) # Matching
    BY <1>1 DEF Ahead
  <1>3. IsFiniteSet(Matching) /\ Cardinality(Matching) \in Nat
    BY MatchingType, RowsAreFinite
  <1>4. Cardinality(Ahead(r)) <= Cardinality(Matching) /\ Cardinality(Ahead(r)) # Cardinality(Matching)
    BY <1>2, <1>3, FS_Subset
  <1>5. Cardinality(Ahead(r)) \in Nat
    BY <1>2, MatchingType, RowsAreFinite
  <1>6. QED
    BY <1>3, <1>4, <1>5 DEF Place

\* No two rows have the same place if one of them is placed.
LEMMA PlacesDiffer ==
  ASSUME PagedTypeOK, TimeIsAnOrder, NEW r \in Matching, NEW s \in Matching, r # s, Placed(r)
  PROVE  Place(r) # Place(s)
  <1>1. ASSUME NEW a \in Matching, NEW b \in Matching, Before(a, b)
        PROVE  Place(a) # Place(b)
    <2>1. Ahead(a) \in SUBSET Ahead(b)
      BY <1>1, MatchingType, BeforeIsAnOrder DEF Ahead
    <2>2. a \in Ahead(b) /\ a \notin Ahead(a)
      BY <1>1, MatchingType, BeforeIsAnOrder DEF Ahead
    <2>3. IsFiniteSet(Ahead(b))
      BY MatchingType, RowsAreFinite DEF Ahead
    <2>4. QED
      BY <2>1, <2>2, <2>3, FS_Subset DEF Place
  <1>2. QED
    BY <1>1, PlacedIsComparable

\* Of the placed rows, at most as many have a place from m on as there are rows
\* from m on.
LEMMA PlacedFrom ==
  ASSUME PagedTypeOK, TimeIsAnOrder, NEW S \in SUBSET Matching, NEW m \in Nat,
         \A r \in S : Placed(r) /\ Place(r) >= m
  PROVE  /\ Cardinality(S) + m <= Cardinality(Matching) \/ S = {}
         /\ S \in SUBSET Rows
  <1> DEFINE n == Cardinality(Matching)
             f == [r \in S |-> Place(r)]
  <1>1. S \in SUBSET Rows /\ n \in Nat
    BY MatchingType, RowsAreFinite
  <1>2. f \in Injection(S, m .. (n - 1))
    <2>1. \A r \in S : Place(r) \in m .. (n - 1)
      BY <1>1, PlaceType
    <2>2. \A r, s \in S : f[r] = f[s] => r = s
      BY PlacesDiffer
    <2>3. QED
      BY <2>1, <2>2 DEF Injection, IsInjective
  <1>3. /\ IsFiniteSet(m .. (n - 1))
        /\ Cardinality(m .. (n - 1)) = IF m > n - 1 THEN 0 ELSE (n - 1) - m + 1
    <2>1. m \in Int /\ n - 1 \in Int
      BY <1>1
    <2> HIDE DEF n
    <2>2. QED
      BY <2>1, FS_Interval
  <1>4. Cardinality(S) <= Cardinality(m .. (n - 1))
    BY <1>2, <1>3, FS_Injection
  <1>5. IsFiniteSet(S) /\ Cardinality(S) \in Nat
    BY <1>1, RowsAreFinite
  <1>6. CASE m > n - 1
    <2>1. Cardinality(S) = 0
      BY <1>3, <1>4, <1>5, <1>6
    <2>2. QED
      BY <1>1, <1>5, <2>1, FS_EmptySet
  <1>7. CASE ~(m > n - 1)
    BY <1>1, <1>3, <1>4, <1>5, <1>7
  <1>8. QED
    BY <1>6, <1>7

\* A placed row stands at its place in every answer the query may give.
LEMMA ListedAtItsPlace ==
  ASSUME PagedTypeOK, TimeIsAnOrder, NEW l \in Listings, NEW r \in Matching, Placed(r)
  PROVE  Place(r) + 1 \in DOMAIN l /\ l[Place(r) + 1] = r
  <1> DEFINE n == Cardinality(Matching)
  <1>1. IsFiniteSet(Matching) /\ n \in Nat
    BY MatchingType, RowsAreFinite
  <1>2. /\ l \in [1 .. n -> Matching]
        /\ \A i, j \in 1 .. n : i < j => l[i] # l[j] /\ ~Before(l[j], l[i])
    BY DEF Listings
  <1>3. l \in Injection(1 .. n, Matching)
    <2>1. \A i, j \in 1 .. n : l[i] = l[j] => i = j
      BY <1>1, <1>2
    <2>2. QED
      BY <1>2, <2>1 DEF Injection, IsInjective
  <1>4. PICK i \in 1 .. n : l[i] = r
    <2>1. Cardinality(1 .. n) = n
      BY <1>1, FS_Interval
    <2>2. l \in Surjection(1 .. n, Matching)
      BY <1>1, <1>3, <2>1, FS_Injection
    <2>3. QED
      BY <2>2 DEF Surjection
  <1>5. Ahead(r) = {l[j] : j \in 1 .. (i - 1)}
    <2>1. ASSUME NEW j \in 1 .. (i - 1) PROVE l[j] \in Ahead(r)
      <3>1. j \in 1 .. n /\ j < i
        BY <1>1
      <3>2. l[j] \in Matching /\ l[j] # r /\ ~Before(r, l[j])
        BY <1>2, <1>4, <3>1
      <3>3. QED
        BY <3>2, PlacedIsComparable DEF Ahead
    <2>2. ASSUME NEW x \in Ahead(r) PROVE \E j \in 1 .. (i - 1) : l[j] = x
      <3>1. x \in Matching /\ Before(x, r)
        BY DEF Ahead
      <3>2. PICK j \in 1 .. n : l[j] = x
        <4>1. Cardinality(1 .. n) = n
          BY <1>1, FS_Interval
        <4>2. l \in Surjection(1 .. n, Matching)
          BY <1>1, <1>3, <4>1, FS_Injection
        <4>3. QED
          BY <3>1, <4>2 DEF Surjection
      <3>3. ~(i < j)
        BY <1>2, <1>4, <3>1, <3>2
      <3>4. i # j
        BY <1>4, <3>1, <3>2, BeforeIsAnOrder, MatchingType
      <3>5. j \in 1 .. (i - 1)
        BY <1>1, <3>3, <3>4
      <3>6. QED
        BY <3>2, <3>5
    <2>3. QED
      BY <2>1, <2>2
  <1>6. Cardinality(Ahead(r)) = i - 1
    <2> DEFINE g == [j \in 1 .. (i - 1) |-> l[j]]
    <2>1. g \in Bijection(1 .. (i - 1), Ahead(r))
      <3>1. g \in [1 .. (i - 1) -> Ahead(r)]
        BY <1>5
      <3>2. \A j, k \in 1 .. (i - 1) : g[j] = g[k] => j = k
        BY <1>1, <1>2
      <3>3. \A x \in Ahead(r) : \E j \in 1 .. (i - 1) : g[j] = x
        BY <1>5
      <3>4. QED
        BY <3>1, <3>2, <3>3 DEF Bijection, Injection, Surjection, IsInjective
    <2>2. i - 1 \in Nat
      BY <1>1
    <2>3. QED
      BY <2>1, <2>2, FS_CountingElements DEF ExistsBijection
  <1>7. QED
    BY <1>1, <1>2, <1>4, <1>6 DEF Place

\* A placed row is on the page its place belongs to.
LEMMA OnItsPage ==
  ASSUME PagedTypeOK, TimeIsAnOrder, NEW l \in Listings, NEW r \in Matching, Placed(r),
         NEW p \in Nat \ {0}, Offset(p) <= Place(r), Place(r) < Offset(p) + view.size
  PROVE  r \in Page(l, p)
  <1>1. Place(r) + 1 \in DOMAIN l /\ l[Place(r) + 1] = r
    BY ListedAtItsPlace
  <1>2. Place(r) \in Nat /\ Offset(p) \in Nat /\ view.size \in Nat
    BY PlaceType, Offsets, SizeType DEF PagedTypeOK
  <1>3. Place(r) + 1 > Offset(p) /\ Place(r) + 1 <= Offset(p) + view.size
    BY <1>2
  <1>4. QED
    BY <1>1, <1>3 DEF Page

\* A page that is not full is the last one.
LEMMA ShortPage ==
  ASSUME PagedTypeOK, NEW l \in Listings, NEW p \in Nat \ {0},
         Cardinality(Page(l, p)) < view.size
  PROVE  Cardinality(Matching) < Offset(p) + view.size
  <1> DEFINE n == Cardinality(Matching)
             k == Offset(p)
             s == view.size
  <1>1. n \in Nat /\ k \in Nat /\ s \in Nat \ {0} /\ Matching \in SUBSET Rows
    BY MatchingType, RowsAreFinite, Offsets, SizeType DEF PagedTypeOK
  <1>2. /\ l \in [1 .. n -> Matching]
        /\ \A i, j \in 1 .. n : i < j => l[i] # l[j] /\ ~Before(l[j], l[i])
    BY DEF Listings
  <1>3. SUFFICES ASSUME k + s <= n PROVE FALSE
    BY <1>1
  <1> DEFINE f == [i \in (k + 1) .. (k + s) |-> l[i]]
  <1>4. f \in Injection((k + 1) .. (k + s), Page(l, p))
    <2>1. ASSUME NEW i \in (k + 1) .. (k + s) PROVE i \in 1 .. n /\ l[i] \in Page(l, p)
      BY <1>1, <1>2, <1>3 DEF Page
    <2>2. \A i, j \in (k + 1) .. (k + s) : l[i] = l[j] => i = j
      BY <1>1, <1>2, <2>1
    <2>3. QED
      BY <2>1, <2>2 DEF Injection, IsInjective
  <1>5. Page(l, p) \in SUBSET Rows
    BY <1>1, <1>2 DEF Page
  <1>6. Cardinality((k + 1) .. (k + s)) = s
    <2>1. k + 1 \in Int /\ k + s \in Int /\ ~(k + 1 > k + s) /\ (k + s) - (k + 1) + 1 = s
      BY <1>1
    <2> HIDE DEF k, s
    <2>2. QED
      BY <2>1, FS_Interval
  <1>7. s <= Cardinality(Page(l, p)) /\ Cardinality(Page(l, p)) \in Nat
    BY <1>4, <1>5, <1>6, RowsAreFinite, FS_Injection
  <1>8. QED
    BY <1>1, <1>7

-----------------------------------------------------------------------------
(* How rows that come and go move the others *)

\* Rows that come push others back, and may leave fewer of them placed.
LEMMA RowsCome ==
  ASSUME PagesInv, PagedTypeOK', view' = view, listed \subseteq listed',
         \A r \in listed : type'[r] = type[r],
         \A a, b \in stamped : <<a, b>> \in older' <=> <<a, b>> \in older,
         reader'.steady = reader.steady, reader'.seen = reader.seen, reader'.page = reader.page
  PROVE  /\ Matching \subseteq Matching'
         /\ Unseen' \in SUBSET Unseen
         /\ Passed' \in SUBSET Passed
  <1>1. /\ PagedTypeOK
        /\ Matching \in SUBSET stamped /\ Matching \subseteq listed /\ Matching = Due
        /\ reader.steady \subseteq Matching
    BY MatchingIsDue DEF PagesInv, PagedTypeOK
  <1>2. Matching' = Due' /\ Matching' \in SUBSET Rows
    <2>1. (PagedTypeOK =>
            /\ Matching = Due /\ Matching \in SUBSET listed
            /\ Matching \in SUBSET stamped /\ Matching \in SUBSET Rows)'
      BY MatchingType, PTL
    <2>2. QED
      BY <2>1
  <1>3. Matching \subseteq Matching'
    BY <1>1 DEF Matching, ListTypes, ForRole, StoredNames
  <1>4. \A a, b \in Matching : /\ Before(a, b)' <=> Before(a, b)
                               /\ SameTime(a, b)' <=> SameTime(a, b)
    BY <1>1 DEF Before, Earlier, SameTime
  <1>5. ASSUME NEW r \in Matching, Placed(r)' PROVE Placed(r)
    BY <1>1, <1>2, <1>3, <1>4, <1>5 DEF Placed
  <1>6. Unseen' \in SUBSET Unseen
    BY <1>1, <1>5 DEF Unseen
  <1>7. ASSUME NEW r \in Matching PROVE Place(r) <= Place(r)'
    <2>1. Ahead(r) \in SUBSET Ahead(r)'
      BY <1>1, <1>3, <1>4 DEF Ahead
    <2>2. Ahead(r)' \in SUBSET Rows
      BY <1>2 DEF Ahead
    <2>3. QED
      BY <2>1, <2>2, FewerRows DEF Place
  <1>8. Passed' \in SUBSET Passed
    <2>1. SUFFICES ASSUME NEW r \in Passed' PROVE r \in Passed
      OBVIOUS
    <2>2. r \in Unseen /\ r \in Unseen' /\ r \in Matching /\ r \in Matching'
      BY <1>1, <1>3, <1>6 DEF Passed, Unseen
    <2>3. Place(r)' < Offset(reader.page)' /\ Offset(reader.page)' = Offset(reader.page)
      BY DEF Passed, Offset
    <2>4. Place(r) \in Nat /\ Place(r)' \in Nat /\ Offset(reader.page) \in Nat
      <3>1. Ahead(r) \in SUBSET Rows /\ Ahead(r)' \in SUBSET Rows
        BY <1>1, <1>2, MatchingType DEF Ahead
      <3>2. view \in Views /\ reader.page \in Nat \ {0}
        BY <1>1 DEF PagedTypeOK
      <3>3. QED
        BY <3>1, <3>2, RowsAreFinite, Offsets DEF Place
    <2>5. QED
      BY <1>7, <2>2, <2>3, <2>4 DEF Passed
  <1>9. QED
    BY <1>3, <1>6, <1>8

\* A row that leaves moves the rows after it by one place, so that at most one
\* more passes the offset.
LEMMA RowLeaves ==
  ASSUME PagesInv, PagedTypeOK', NEW r0 \in listed, view.list # "audit",
         view' = view, listed' = listed \ {r0},
         \A a, b \in stamped \ {r0} : <<a, b>> \in older' <=> <<a, b>> \in older,
         reader'.steady = reader.steady \ {r0}, reader'.seen = reader.seen,
         reader'.page = reader.page
  PROVE  /\ Matching' = Matching \ {r0}
         /\ Unseen' \in SUBSET Unseen
         /\ Cardinality(Passed') <= Cardinality(Passed) + 1
  <1>1. /\ PagedTypeOK /\ TimeIsAnOrder
        /\ Matching = listed /\ Matching' = listed'
        /\ reader.steady \subseteq Matching
        /\ view \in Views /\ reader.page \in Nat \ {0}
        /\ \A r : Placed(r) /\ Placed(r)'
    BY DEF PagesInv, PagedTypeOK, Matching, Placed
  <1>2. Unseen' = Unseen \ {r0} /\ Unseen \in SUBSET Rows /\ Unseen \in SUBSET Matching
    BY <1>1 DEF Unseen, PagedTypeOK
  <1> DEFINE k == Offset(reader.page)
  <1>3. k \in Nat /\ Offset(reader.page)' = k
    BY <1>1, Offsets DEF Offset
  <1>4. ASSUME NEW r \in Matching \ {r0} PROVE Place(r) <= Place(r)' + 1 /\ Place(r)' \in Nat
    <2>1. Ahead(r)' = Ahead(r) \ {r0}
      <3>1. ASSUME NEW x \in listed \ {r0} PROVE Before(x, r)' <=> Before(x, r)
        <4>1. x \in stamped \ {r0} /\ r \in stamped \ {r0}
          BY <1>1 DEF PagedTypeOK
        <4>2. QED
          BY <4>1 DEF Before, Earlier, SameTime
      <3>2. QED
        BY <1>1, <3>1 DEF Ahead
    <2>2. Ahead(r) \in SUBSET Rows
      BY <1>1, MatchingType DEF Ahead
    <2>3. /\ Cardinality(Ahead(r) \ {r0}) = IF r0 \in Ahead(r) THEN Cardinality(Ahead(r)) - 1
                                                              ELSE Cardinality(Ahead(r))
          /\ Cardinality(Ahead(r)) \in Nat /\ Cardinality(Ahead(r) \ {r0}) \in Nat
      BY <2>2, RowsAreFinite, FS_RemoveElement
    <2>4. Place(r)' = Cardinality(Ahead(r) \ {r0})
      BY <2>1 DEF Place
    <2>5. QED
      BY <2>3, <2>4 DEF Place
  <1>5. ASSUME NEW r \in Passed' PROVE r \in Unseen /\ r \in Matching /\ Place(r) <= k /\ Place(r) \in Nat
    <2>1. r \in Unseen \ {r0} /\ Place(r)' < k
      BY <1>2, <1>3 DEF Passed
    <2>2. r \in Matching \ {r0}
      BY <1>2, <2>1
    <2>3. Place(r) \in Nat
      BY <1>1, <2>2, PlaceType
    <2>4. QED
      BY <1>3, <1>4, <2>1, <2>2, <2>3
  <1>6. Passed \in SUBSET Rows
    BY <1>2 DEF Passed
  <1>7. CASE Passed' \subseteq Passed
    <2>1. Cardinality(Passed') <= Cardinality(Passed) /\ Cardinality(Passed) \in Nat
          /\ Cardinality(Passed') \in Nat
      BY <1>6, <1>7, FewerRows, RowsAreFinite
    <2>2. QED
      BY <1>1, <1>2, <2>1
  <1>8. CASE \E e \in Passed' : e \notin Passed
    <2>1. PICK e \in Passed' : e \notin Passed
      BY <1>8
    <2>2. e \in Unseen /\ e \in Matching /\ Place(e) = k
      BY <1>3, <1>5, <2>1 DEF Passed
    <2>3. Passed' \in SUBSET (Passed \cup {e})
      <3>1. ASSUME NEW r \in Passed', r \notin Passed PROVE r = e
        <4>1. r \in Unseen /\ r \in Matching /\ Place(r) = k
          BY <1>3, <1>5, <3>1 DEF Passed
        <4>2. QED
          BY <1>1, <2>2, <4>1, PlacesDiffer
      <3>2. QED
        BY <3>1
    <2>4. IsFiniteSet(Passed) /\ Cardinality(Passed) \in Nat
      BY <1>6, RowsAreFinite
    <2>5. IsFiniteSet(Passed \cup {e}) /\ Cardinality(Passed \cup {e}) = Cardinality(Passed) + 1
      BY <2>1, <2>4, FS_AddElement
    <2>6. Cardinality(Passed') <= Cardinality(Passed \cup {e})
      BY <2>3, <2>5, FS_Subset
    <2>7. QED
      BY <1>1, <1>2, <2>5, <2>6
  <1>9. QED
    BY <1>7, <1>8

-----------------------------------------------------------------------------
(* Initially, and every action *)

\* The invariant holds at first.
LEMMA PagesInitially == PagedInit => PagesInv
  <1> SUFFICES ASSUME PagedInit PROVE PagesInv
    OBVIOUS
  <1>1. Cardinality(Rows) \in Nat
    BY RowsAreFinite
  <1>2. PagedTypeOK
    BY <1>1 DEF PagedInit, PagedTypeOK, NoReader, EventTypes
  <1>3. Unseen = {} /\ Passed = {} /\ Cardinality({}) = 0
    BY FS_EmptySet DEF PagedInit, NoReader, Unseen, Passed
  <1>4. QED
    BY <1>2, <1>3 DEF PagedInit, PagesInv, TimeIsAnOrder, NoReader, MissedRowsMoved

\* Of the rows that are due, it is the unseen ones a client may have missed.
LEMMA MissedAreUnseen ==
  MissedRowsMoved <=>
    (reader.pc = "done" =>
       Cardinality(Unseen) <= reader.left + (IF view.list = "reviews" THEN 0 ELSE reader.came))
  BY DEF MissedRowsMoved, Unseen

\* While a reader rests, what it may have missed does not grow faster than what
\* moved.
LEMMA StillMissed ==
  ASSUME PagesInv, PagedTypeOK', view' = view, Unseen' \in SUBSET Unseen,
         reader'.pc = reader.pc, reader.left <= reader'.left,
         reader.pc = "done" => reader.came <= reader'.came
  PROVE  MissedRowsMoved'
  <1>1. (MissedRowsMoved <=>
          (reader.pc = "done" =>
             Cardinality(Unseen) <= reader.left + (IF view.list = "reviews" THEN 0 ELSE reader.came)))'
    BY MissedAreUnseen, PTL
  <1>2. Unseen \in SUBSET Rows
    BY DEF PagesInv, PagedTypeOK, Unseen
  <1>3. Cardinality(Unseen') <= Cardinality(Unseen) /\ Cardinality(Unseen) \in Nat
        /\ Cardinality(Unseen') \in Nat
    BY <1>2, FewerRows, RowsAreFinite
  <1>4. /\ reader.left \in Nat /\ reader.came \in Nat
        /\ reader'.left \in Nat /\ reader'.came \in Nat
    BY DEF PagesInv, PagedTypeOK
  <1>5. QED
    BY <1>1, <1>3, <1>4, MissedAreUnseen DEF PagesInv

\* Rows that get their timestamp are remembered by nobody.
LEMMA StampStep ==
  ASSUME PagesInv, NEW rows \in SUBSET Rows, Stamp(rows)
  PROVE  PagesInv'
  <1>1. PagedTypeOK /\ TimeIsAnOrder /\ rows \cap stamped = {}
    BY DEF PagesInv, Stamp
  <1>2. /\ stamped' = stamped \cup rows /\ older' = older \cup (stamped \X rows)
        /\ UNCHANGED <<view, listed, reader, desk>>
    BY DEF Stamp
  <1>3. type' \in [Rows -> EventTypes] /\ \A r \in Rows \ rows : type'[r] = type[r]
    BY <1>1 DEF Stamp, PagedTypeOK, CurrentTypes, EventTypes
  <1>4. PagedTypeOK'
    BY <1>1, <1>2, <1>3 DEF PagedTypeOK
  <1>5. TimeIsAnOrder'
    <2>1. ASSUME NEW a, NEW b
          PROVE  <<a, b>> \in older' <=> <<a, b>> \in older \/ (a \in stamped /\ b \in rows)
      BY <1>2
    <2>2. ASSUME NEW a, NEW b, <<a, b>> \in older
          PROVE  a \in stamped /\ b \in stamped
      BY <1>1, <2>2 DEF PagedTypeOK
    <2>3. QED
      BY <1>1, <1>2, <2>1, <2>2 DEF TimeIsAnOrder
  <1>6. Unseen' \in SUBSET Unseen /\ Passed' \in SUBSET Passed
    <2>1. \A r \in listed : type'[r] = type[r]
      BY <1>1, <1>3 DEF PagedTypeOK
    <2>2. \A a, b \in stamped : <<a, b>> \in older' <=> <<a, b>> \in older
      BY <1>1, <1>2
    <2>3. QED
      BY <1>2, <1>4, <2>1, <2>2, RowsCome
  <1>7. Matching' = Matching
    BY <1>1, <1>2, <1>3 DEF PagedTypeOK, Matching, ListTypes, ForRole, StoredNames
  <1>8. Cardinality(Passed') <= reader.left
    <2>1. Passed \in SUBSET Rows
      BY <1>1 DEF Passed, Unseen, PagedTypeOK
    <2>2. Cardinality(Passed') <= Cardinality(Passed) /\ Cardinality(Passed) \in Nat
          /\ Cardinality(Passed') \in Nat
      BY <1>6, <2>1, FewerRows, RowsAreFinite
    <2>3. reader.left \in Nat /\ Cardinality(Passed) <= reader.left
      BY <1>1 DEF PagesInv, PagedTypeOK
    <2>4. QED
      BY <2>2, <2>3
  <1>9. MissedRowsMoved'
    <2>1. reader.left \in Nat /\ reader.came \in Nat
      BY <1>1 DEF PagedTypeOK
    <2>2. QED
      BY <1>2, <1>4, <1>6, <2>1, StillMissed
  <1>10. QED
    BY <1>2, <1>4, <1>5, <1>7, <1>8, <1>9 DEF PagesInv

\* A row that shows up is counted.
LEMMA ComeStep ==
  ASSUME PagesInv, NEW r0 \in Rows, Come(r0)
  PROVE  PagesInv'
  <1> DEFINE n == Cardinality(Rows)
  <1>1. PagedTypeOK /\ TimeIsAnOrder /\ n \in Nat
    BY RowsAreFinite DEF PagesInv
  <1>2. /\ r0 \in stamped \ listed /\ listed' = listed \cup {r0}
        /\ UNCHANGED <<view, stamped, older, type, desk>>
    BY DEF Come
  <1> DEFINE c == IF reader.pc = "idle" THEN 0 ELSE More(reader.came)
  <1>3. c \in 0 .. n /\ (reader.pc # "idle" => c >= reader.came /\ (c = n \/ c = reader.came + 1))
    BY <1>1, SMT DEF PagedTypeOK, More
  <1>4. reader' = [reader EXCEPT !.came = c]
    BY DEF Come
  <1>5. /\ reader'.pc = reader.pc /\ reader'.page = reader.page /\ reader'.total = reader.total
        /\ reader'.seen = reader.seen /\ reader'.steady = reader.steady
        /\ reader'.left = reader.left /\ reader'.came = c
    BY <1>1, <1>4 DEF PagedTypeOK
  <1>6. PagedTypeOK'
    <2>1. reader' \in [pc : {"idle", "counted", "turning", "done"}, page : Nat \ {0}, total : Nat,
                       seen : SUBSET Rows, steady : SUBSET Rows, left : 0 .. n, came : 0 .. n]
      BY <1>1, <1>3, <1>4 DEF PagedTypeOK
    <2>2. QED
      BY <1>1, <1>2, <2>1 DEF PagedTypeOK
  <1>7. Matching \subseteq Matching' /\ Unseen' \in SUBSET Unseen /\ Passed' \in SUBSET Passed
    BY <1>2, <1>5, <1>6, RowsCome
  <1>8. reader'.pc = "idle" => reader' = NoReader
    BY <1>4, <1>5 DEF PagesInv, NoReader
  <1>9. Cardinality(Passed') <= reader'.left
    <2>1. Passed \in SUBSET Rows
      BY <1>1 DEF Passed, Unseen, PagedTypeOK
    <2>2. Cardinality(Passed') <= Cardinality(Passed) /\ Cardinality(Passed) \in Nat
          /\ Cardinality(Passed') \in Nat
      BY <1>7, <2>1, FewerRows, RowsAreFinite
    <2>3. reader.left \in Nat /\ Cardinality(Passed) <= reader.left
      BY <1>1 DEF PagesInv, PagedTypeOK
    <2>4. QED
      BY <1>5, <2>2, <2>3
  <1>10. ASSUME reader'.pc = "counted"
         PROVE  Cardinality(Matching') <= reader'.total + reader'.came \/ reader'.came = n
    <2>1. Matching' \in SUBSET (Matching \cup {r0})
      BY <1>2 DEF Matching, ListTypes, ForRole, StoredNames
    <2>2. IsFiniteSet(Matching) /\ Cardinality(Matching) \in Nat
      BY <1>1, MatchingType, RowsAreFinite
    <2>3. IsFiniteSet(Matching \cup {r0}) /\ Cardinality(Matching \cup {r0}) <= Cardinality(Matching) + 1
          /\ Cardinality(Matching \cup {r0}) \in Nat
      <3>1. IsFiniteSet(Matching \cup {r0})
            /\ Cardinality(Matching \cup {r0}) =
                 IF r0 \in Matching THEN Cardinality(Matching) ELSE Cardinality(Matching) + 1
        BY <2>2, FS_AddElement
      <3>2. QED
        BY <2>2, <3>1
    <2>4. Cardinality(Matching') <= Cardinality(Matching \cup {r0}) /\ Cardinality(Matching') \in Nat
      BY <2>1, <2>3, FS_Subset, FS_CardinalityType
    <2>5. reader.total \in Nat /\ reader.came \in 0 .. n
      BY <1>1 DEF PagedTypeOK
    <2>6. Cardinality(Matching) <= reader.total + reader.came \/ reader.came = n
      BY <1>5, <1>10 DEF PagesInv
    <2>7. QED
      BY <1>1, <1>3, <1>5, <1>10, <2>2, <2>3, <2>4, <2>5, <2>6
  <1>11. MissedRowsMoved'
    <2>1. reader.left \in Nat /\ reader.came \in Nat
      BY <1>1 DEF PagedTypeOK
    <2>2. QED
      BY <1>2, <1>3, <1>5, <1>6, <1>7, <2>1, StillMissed
  <1>12. QED
    BY <1>1, <1>2, <1>5, <1>6, <1>7, <1>8, <1>9, <1>10, <1>11 DEF PagesInv, TimeIsAnOrder

\* A row that leaves while a client reads is counted.
LEMMA LeaveStep ==
  ASSUME PagesInv, NEW r0 \in Rows, view.list # "audit", Leaves(r0),
         UNCHANGED <<view, type>>, desk' \subseteq desk,
         UNCHANGED <<stamped, older>> \/ Forget(r0),
         r0 \notin listed => Forget(r0)
  PROVE  PagesInv'
  <1> DEFINE n == Cardinality(Rows)
  <1>1. PagedTypeOK /\ TimeIsAnOrder /\ n \in Nat
    BY RowsAreFinite DEF PagesInv
  <1>2. listed' = listed \ {r0} /\ view' = view
    BY DEF Leaves
  <1>3. /\ stamped' \subseteq stamped /\ listed' \subseteq stamped'
        /\ older' \subseteq stamped' \X stamped'
        /\ \A a, b \in stamped \ {r0} : <<a, b>> \in older' <=> <<a, b>> \in older
        /\ \A a, b \in stamped' : <<a, b>> \in older' <=> <<a, b>> \in older
    BY <1>1, <1>2 DEF Forget, PagedTypeOK
  <1> DEFINE here == reader.pc # "idle" /\ r0 \in listed
             m == IF here THEN More(reader.left) ELSE reader.left
  <1>4. m \in 0 .. n /\ m >= reader.left /\ (here => m = n \/ m = reader.left + 1)
    BY <1>1, SMT DEF PagedTypeOK, More
  <1>5. reader.steady \subseteq listed
    BY <1>1, MatchingType DEF PagesInv
  <1>6. reader' = [reader EXCEPT !.left = m, !.steady = @ \ {r0}]
    <2>1. CASE here
      BY <2>1 DEF Leaves
    <2>2. CASE ~here
      <3>1. reader' = reader
        BY <2>2 DEF Leaves
      <3>2. reader.steady \ {r0} = reader.steady
        BY <1>5, <2>2 DEF PagesInv, NoReader
      <3>3. reader = [reader EXCEPT !.left = reader.left, !.steady = reader.steady]
        BY <1>1 DEF PagedTypeOK
      <3>4. QED
        BY <2>2, <3>1, <3>2, <3>3
    <2>3. QED
      BY <2>1, <2>2
  <1>7. /\ reader'.pc = reader.pc /\ reader'.page = reader.page /\ reader'.total = reader.total
        /\ reader'.seen = reader.seen /\ reader'.steady = reader.steady \ {r0}
        /\ reader'.left = m /\ reader'.came = reader.came
    BY <1>1, <1>6 DEF PagedTypeOK
  <1>8. PagedTypeOK'
    <2>1. reader' \in [pc : {"idle", "counted", "turning", "done"}, page : Nat \ {0}, total : Nat,
                       seen : SUBSET Rows, steady : SUBSET Rows, left : 0 .. n, came : 0 .. n]
      BY <1>1, <1>4, <1>6 DEF PagedTypeOK
    <2>2. QED
      BY <1>1, <1>2, <1>3, <2>1 DEF PagedTypeOK
  <1>9. TimeIsAnOrder'
    BY <1>1, <1>3 DEF TimeIsAnOrder
  <1>10. Matching = listed /\ Matching' = listed'
    BY <1>2 DEF Matching
  <1>11. Passed \in SUBSET Rows /\ Cardinality(Passed) \in Nat /\ Cardinality(Passed) <= reader.left
    BY <1>1, RowsAreFinite DEF Passed, Unseen, PagedTypeOK, PagesInv
  <1>12. Unseen' \in SUBSET Unseen /\ Cardinality(Passed') <= m
    <2>1. CASE here
      <3>1. Unseen' \in SUBSET Unseen /\ Cardinality(Passed') <= Cardinality(Passed) + 1
        BY <1>2, <1>3, <1>7, <1>8, <2>1, RowLeaves
      <3>2. Passed' \in SUBSET Rows
        BY <1>8 DEF Passed, Unseen, PagedTypeOK
      <3>3. Cardinality(Passed') \in 0 .. n
        BY <3>2, RowsAreFinite
      <3>4. reader.left \in Nat
        BY <1>1 DEF PagedTypeOK
      <3>5. QED
        BY <1>1, <1>4, <1>11, <2>1, <3>1, <3>3, <3>4
    <2>2. CASE reader.pc = "idle"
      <3>1. reader.steady = {} /\ reader'.steady = {}
        BY <1>7, <2>2 DEF PagesInv, NoReader
      <3>2. Unseen' = {} /\ Passed' = {}
        BY <3>1 DEF Unseen, Passed
      <3>3. QED
        BY <1>4, <3>2, FS_EmptySet
    <2>3. CASE r0 \notin listed
      <3>1. listed' = listed /\ reader'.steady = reader.steady
        BY <1>2, <1>5, <1>7, <2>3
      <3>2. \A a, b \in Matching : Before(a, b)' <=> Before(a, b)
        <4>1. Matching \subseteq stamped \ {r0}
          BY <1>10, <2>3, <1>1 DEF PagedTypeOK
        <4>2. QED
          BY <1>2, <1>3, <4>1 DEF Before, Earlier, SameTime
      <3>3. \A r \in Matching : Ahead(r)' = Ahead(r)
        BY <1>10, <3>1, <3>2 DEF Ahead
      <3>4. Unseen' = Unseen /\ Unseen \subseteq Matching
        BY <1>2, <1>5, <1>7, <1>10, <3>1 DEF Unseen, Placed
      <3>5. Passed' = Passed
        BY <1>2, <1>7, <3>3, <3>4 DEF Passed, Place, Offset
      <3>6. QED
        BY <1>1, <1>4, <1>11, <3>4, <3>5 DEF PagedTypeOK
    <2>4. QED
      BY <2>1, <2>2, <2>3
  <1>13. reader'.pc = "idle" => reader' = NoReader
    <2>1. ASSUME reader.pc = "idle" PROVE reader' = reader
      BY <2>1 DEF Leaves
    <2>2. QED
      BY <1>7, <2>1 DEF PagesInv
  <1>14. ASSUME reader'.pc = "counted"
         PROVE  Cardinality(Matching') <= reader'.total + reader'.came \/ reader'.came = n
    <2>1. Matching' \in SUBSET Matching /\ Matching \in SUBSET Rows
      BY <1>1, <1>2, <1>10, MatchingType
    <2>2. Cardinality(Matching') <= Cardinality(Matching)
          /\ Cardinality(Matching) \in Nat /\ Cardinality(Matching') \in Nat
      BY <2>1, FewerRows, RowsAreFinite
    <2>3. reader.total \in Nat /\ reader.came \in Nat
      BY <1>1 DEF PagedTypeOK
    <2>4. QED
      BY <1>7, <1>14, <2>2, <2>3 DEF PagesInv
  <1>15. MissedRowsMoved'
    <2>1. reader.left \in Nat /\ reader.came \in Nat
      BY <1>1 DEF PagedTypeOK
    <2>2. QED
      BY <1>2, <1>4, <1>7, <1>8, <1>12, <2>1, StillMissed
  <1>16. QED
    BY <1>2, <1>5, <1>7, <1>8, <1>9, <1>10, <1>12, <1>13, <1>14, <1>15 DEF PagesInv

\* The first statement of a response counts the rows that match.
LEMMA CountStep ==
  ASSUME PagesInv, Count
  PROVE  PagesInv'
  <1>1. PagedTypeOK /\ TimeIsAnOrder /\ Cardinality(Rows) \in Nat
    BY RowsAreFinite DEF PagesInv
  <1>2. UNCHANGED <<view, stamped, older, listed, type, desk>> /\ reader.pc \in {"idle", "turning"}
    BY DEF Count
  <1>3. Matching = Due /\ Matching \in SUBSET Rows /\ Cardinality(Matching) \in Nat
    BY <1>1, MatchingType, RowsAreFinite
  <1>4. /\ reader'.pc = "counted" /\ reader'.total = Cardinality(Matching) /\ reader'.came = 0
        /\ reader'.page = reader.page /\ reader'.seen = reader.seen /\ reader'.left = reader.left
        /\ reader'.steady = IF reader.pc = "idle" THEN Due ELSE reader.steady
    BY <1>1 DEF Count, PagedTypeOK
  <1>5. PagedTypeOK'
    <2>1. Due \in SUBSET Rows /\ reader.steady \in SUBSET Rows
      BY <1>1, <1>3 DEF PagedTypeOK
    <2>2. reader' \in [pc : {"idle", "counted", "turning", "done"}, page : Nat \ {0}, total : Nat,
                       seen : SUBSET Rows, steady : SUBSET Rows,
                       left : 0 .. Cardinality(Rows), came : 0 .. Cardinality(Rows)]
      <3> DEFINE due == IF reader.pc = "idle" THEN Due ELSE reader.steady
      <3>1. due \in SUBSET Rows
        BY <2>1
      <3>2. reader' = [reader EXCEPT !.pc = "counted", !.total = Cardinality(Matching), !.came = 0,
                                     !.steady = due]
        BY DEF Count
      <3> DEFINE n == Cardinality(Rows)
                 total == Cardinality(Matching)
      <3>3. reader \in [pc : {"idle", "counted", "turning", "done"}, page : Nat \ {0}, total : Nat,
                        seen : SUBSET Rows, steady : SUBSET Rows, left : 0 .. n, came : 0 .. n]
        BY <1>1 DEF PagedTypeOK
      <3>4. total \in Nat /\ 0 \in 0 .. n
        BY <1>1, <1>3
      <3> HIDE DEF due, n, total
      <3>5. reader' \in [pc : {"idle", "counted", "turning", "done"}, page : Nat \ {0}, total : Nat,
                         seen : SUBSET Rows, steady : SUBSET Rows, left : 0 .. n, came : 0 .. n]
        BY <3>1, <3>2, <3>3, <3>4 DEF total
      <3>6. QED
        BY <3>5 DEF n
    <2>3. QED
      BY <1>1, <1>2, <2>2 DEF PagedTypeOK
  <1>6. Matching' = Matching
    BY <1>2 DEF Matching, ListTypes, ForRole, StoredNames
  <1>7. reader'.steady \subseteq Matching
    BY <1>3, <1>4 DEF PagesInv
  <1>8. Cardinality(Passed') <= reader'.left
    <2>1. CASE reader.pc = "idle"
      <3>1. reader.page = 1 /\ reader.left = 0
        BY <2>1 DEF PagesInv, NoReader
      <3>2. Offset(reader.page)' = 0
        BY <1>1, <1>2, <1>4, <3>1, Offsets DEF PagedTypeOK, Offset
      <3>3. \A r \in Matching : Place(r)' \in Nat
        <4>1. \A r : Ahead(r)' \in SUBSET Rows
          BY <1>3, <1>6 DEF Ahead
        <4>2. QED
          BY <4>1, RowsAreFinite DEF Place
      <3>4. Passed' = {}
        BY <1>7, <3>2, <3>3 DEF Passed, Unseen
      <3>5. QED
        BY <1>4, <3>1, <3>4, FS_EmptySet
    <2>2. CASE reader.pc = "turning"
      <3>1. Unseen' = Unseen
        BY <1>2, <1>4, <1>6, <2>2 DEF Unseen, Placed, SameTime, Due
      <3>2. \A r : Place(r)' = Place(r)
        BY <1>2, <1>6 DEF Place, Ahead, Before, Earlier, SameTime
      <3>3. Passed' = Passed
        BY <1>2, <1>4, <3>1, <3>2 DEF Passed, Offset
      <3>4. QED
        BY <1>4, <3>3 DEF PagesInv
    <2>3. QED
      BY <1>2, <2>1, <2>2
  <1>9. Cardinality(Matching)' <= reader'.total + reader'.came
    BY <1>3, <1>4, <1>6
  <1>10. QED
    BY <1>1, <1>2, <1>4, <1>5, <1>6, <1>7, <1>8, <1>9 DEF PagesInv, TimeIsAnOrder, MissedRowsMoved

\* A page shows the unseen rows that stand on it; the client stops when hardly
\* any can come after it.
LEMMA FetchStep ==
  ASSUME PagesInv, Fetch
  PROVE  PagesInv'
  <1> DEFINE n == Cardinality(Rows)
             k == Offset(reader.page)
             s == view.size
  <1>1. PagedTypeOK /\ TimeIsAnOrder /\ n \in Nat /\ reader.steady \subseteq Matching
    BY RowsAreFinite DEF PagesInv
  <1>2. UNCHANGED <<view, stamped, older, listed, type, desk>> /\ reader.pc = "counted"
    BY DEF Fetch
  <1>3. view \in Views /\ reader.page \in Nat \ {0} /\ reader.page + 1 \in Nat \ {0}
    BY <1>1 DEF PagedTypeOK
  <1>4. /\ k \in Nat /\ s \in Nat \ {0} /\ Offset(reader.page + 1) = k + s
        /\ reader.page * s = k + s
    BY <1>3, Offsets, SizeType
  <1>5. Matching \in SUBSET Rows /\ Cardinality(Matching) \in Nat
    BY <1>1, MatchingType, RowsAreFinite
  <1> DEFINE atEnd(items) == \/ Cardinality(items) < view.size
                             \/ view.list # "reviews" /\ reader.page * view.size >= reader.total
  <1>6. PICK l \in Listings :
          reader' = [reader EXCEPT !.pc = IF atEnd(Page(l, reader.page)) THEN "done" ELSE "turning",
                                   !.page = IF atEnd(Page(l, reader.page)) THEN @ ELSE @ + 1,
                                   !.total = 0,
                                   !.seen = @ \cup Page(l, reader.page)]
    BY DEF Fetch
  <1> DEFINE items == Page(l, reader.page)
             last == atEnd(items)
  <1>7. items \in SUBSET Rows
    BY <1>5 DEF Listings, Page
  <1>8. /\ reader'.pc = (IF last THEN "done" ELSE "turning")
        /\ reader'.page = (IF last THEN reader.page ELSE reader.page + 1)
        /\ reader'.seen = reader.seen \cup items /\ reader'.steady = reader.steady
        /\ reader'.left = reader.left /\ reader'.came = reader.came
    BY <1>1, <1>6 DEF PagedTypeOK
  <1>9. PagedTypeOK'
    <2> HIDE DEF items, last, atEnd
    <2>1. reader.seen \cup items \in SUBSET Rows
      BY <1>1, <1>7 DEF PagedTypeOK
    <2>2. reader' \in [pc : {"idle", "counted", "turning", "done"}, page : Nat \ {0}, total : Nat,
                       seen : SUBSET Rows, steady : SUBSET Rows, left : 0 .. n, came : 0 .. n]
      BY <1>1, <1>3, <1>6, <2>1 DEF PagedTypeOK, items, last
    <2>3. QED
      BY <1>1, <1>2, <2>2 DEF PagedTypeOK
  <1>10. Matching' = Matching /\ Due' = Due
    BY <1>2 DEF Matching, Due, ListTypes, ForRole, StoredNames
  <1>11. \A r : (Place(r)' = Place(r)) /\ (Placed(r)' <=> Placed(r))
    BY <1>2, <1>10 DEF Place, Ahead, Before, Earlier, SameTime, Placed
  <1>12. Unseen' = Unseen \ items
    BY <1>8, <1>11 DEF Unseen
  <1>13. ASSUME NEW r \in Unseen'
         PROVE  /\ r \in Unseen /\ r \in Matching /\ Placed(r) /\ Place(r) \in Nat
                /\ Place(r) < k \/ Place(r) >= k + s
    <2>1. r \in Unseen /\ r \in Matching /\ Placed(r) /\ r \notin items
      BY <1>1, <1>12 DEF Unseen
    <2>2. Place(r) \in Nat
      BY <1>1, <2>1, PlaceType
    <2>3. ~(k <= Place(r) /\ Place(r) < k + s)
      BY <1>1, <1>3, <2>1, OnItsPage
    <2>4. QED
      BY <1>4, <2>1, <2>2, <2>3
  <1>14. Passed' \in SUBSET Passed
    <2>1. SUFFICES ASSUME NEW r \in Passed' PROVE r \in Passed
      OBVIOUS
    <2>2. r \in Unseen' /\ Place(r) < Offset(reader.page)'
      BY <1>11 DEF Passed
    <2>3. Offset(reader.page)' = k \/ Offset(reader.page)' = k + s
      <3>1. Offset(reader.page)' = Offset(reader'.page)
        BY <1>2 DEF Offset
      <3>2. QED
        BY <1>4, <1>8, <3>1
    <2>4. Place(r) < k + s
      BY <1>4, <1>13, <2>2, <2>3
    <2>5. QED
      BY <1>4, <1>13, <2>2, <2>4 DEF Passed
  <1>15. /\ Passed \in SUBSET Rows /\ Cardinality(Passed) \in Nat /\ Cardinality(Passed') \in Nat
         /\ Cardinality(Passed') <= Cardinality(Passed) /\ Cardinality(Passed) <= reader.left
    <2>1. Passed \in SUBSET Rows
      BY <1>1 DEF Passed, Unseen, PagedTypeOK
    <2>2. Passed' \in SUBSET Rows
      BY <1>14, <2>1
    <2>3. QED
      BY <1>14, <2>1, <2>2, FewerRows, RowsAreFinite DEF PagesInv
  <1>16. Cardinality(Passed') <= reader'.left
    BY <1>1, <1>8, <1>15 DEF PagedTypeOK
  <1>17. ASSUME last
         PROVE  Cardinality(Unseen') <= reader.left + (IF view.list = "reviews" THEN 0 ELSE reader.came)
    <2> DEFINE late == {r \in Unseen' : Place(r) >= k + s}
    <2>1. late \in SUBSET Matching /\ \A r \in late : Placed(r) /\ Place(r) >= k + s
      BY <1>13
    <2>2. k + s \in Nat
      BY <1>4
    <2>3. (Cardinality(late) + (k + s) <= Cardinality(Matching) \/ late = {}) /\ late \in SUBSET Rows
      BY <1>1, <2>1, <2>2, PlacedFrom
    <2>4. IsFiniteSet(late) /\ Cardinality(late) \in 0 .. n
      BY <2>3, RowsAreFinite
    <2>5. reader.left \in Nat /\ reader.came \in 0 .. n /\ reader.total \in Nat
      BY <1>1 DEF PagedTypeOK
    <2>6. Cardinality(late) <= IF view.list = "reviews" THEN 0 ELSE reader.came
      <3>1. CASE Cardinality(items) < s
        <4>1. Cardinality(Matching) < k + s
          BY <1>1, <1>3, <3>1, ShortPage
        <4>2. late = {}
          BY <1>4, <1>5, <2>3, <2>4, <4>1
        <4>3. QED
          BY <2>5, <4>2, FS_EmptySet
      <3>2. CASE view.list # "reviews" /\ reader.page * s >= reader.total
        <4>1. Cardinality(Matching) <= reader.total + reader.came \/ reader.came = n
          BY <1>2 DEF PagesInv
        <4>2. k + s >= reader.total
          BY <1>4, <3>2
        <4>3. CASE late = {}
          BY <2>5, <4>3, FS_EmptySet
        <4>4. CASE late # {}
          <5> HIDE DEF late
          <5>1. Cardinality(late) + (k + s) <= Cardinality(Matching)
            BY <2>3, <4>4
          <5>2. Cardinality(late) <= reader.came
            BY <1>1, <1>4, <1>5, <2>4, <2>5, <4>1, <4>2, <5>1
          <5>3. QED
            BY <3>2, <5>2
        <4>5. QED
          BY <4>3, <4>4
      <3>3. QED
        BY <1>17, <3>1, <3>2
    <2>7. Unseen' \in SUBSET (Passed \cup late)
      BY <1>13 DEF Passed
    <2>8. IsFiniteSet(Passed)
      BY <1>15, RowsAreFinite
    <2> HIDE DEF late
    <2>9. /\ IsFiniteSet(Passed \cup late)
          /\ Cardinality(Passed \cup late)
               = Cardinality(Passed) + Cardinality(late) - Cardinality(Passed \cap late)
      BY <2>4, <2>8, FS_Union
    <2>10. Cardinality(Passed \cap late) \in Nat
      BY <2>8, FS_Intersection, FS_CardinalityType
    <2>11. Cardinality(Unseen') <= Cardinality(Passed \cup late) /\ Cardinality(Unseen') \in Nat
      BY <2>7, <2>9, FS_Subset, FS_CardinalityType
    <2>12. Cardinality(Unseen') <= reader.left + Cardinality(late)
      BY <1>15, <2>4, <2>5, <2>9, <2>10, <2>11
    <2>13. QED
      BY <2>4, <2>5, <2>6, <2>11, <2>12
  <1>18. MissedRowsMoved'
    <2>1. (MissedRowsMoved <=>
            (reader.pc = "done" =>
               Cardinality(Unseen) <= reader.left + (IF view.list = "reviews" THEN 0 ELSE reader.came)))'
      BY MissedAreUnseen, PTL
    <2>2. QED
      BY <1>2, <1>8, <1>17, <2>1
  <1>19. reader'.steady \subseteq Matching' /\ reader'.pc # "idle" /\ reader'.pc # "counted"
    BY <1>1, <1>8, <1>10
  <1>20. TimeIsAnOrder'
    BY <1>1, <1>2 DEF TimeIsAnOrder
  <1>21. QED
    BY <1>2, <1>9, <1>16, <1>18, <1>19, <1>20 DEF PagesInv

\* A client that rests begins anew.
LEMMA RestStep ==
  ASSUME PagesInv, Rest
  PROVE  PagesInv'
  <1>1. PagedTypeOK /\ Cardinality(Rows) \in Nat
    BY RowsAreFinite DEF PagesInv
  <1>2. reader' = NoReader /\ UNCHANGED <<view, stamped, older, listed, type, desk>>
    BY DEF Rest
  <1>3. PagedTypeOK' /\ TimeIsAnOrder'
    BY <1>1, <1>2 DEF PagedTypeOK, NoReader, PagesInv, TimeIsAnOrder
  <1>4. Unseen' = {} /\ Passed' = {} /\ Cardinality({}) = 0
    BY <1>2, FS_EmptySet DEF NoReader, Unseen, Passed
  <1>5. QED
    BY <1>2, <1>3, <1>4 DEF PagesInv, NoReader, MissedRowsMoved

\* What only the engineer or nobody does leaves the reader alone.
LEMMA OthersStep ==
  ASSUME PagesInv, UNCHANGED <<view, stamped, older, listed, type, reader>>,
         desk' \subseteq Rows, view.list # "reviews" => desk' = {}
  PROVE  PagesInv'
  <1>1. PagedTypeOK' /\ TimeIsAnOrder'
    BY DEF PagedTypeOK, PagesInv, TimeIsAnOrder
  <1>2. Matching' = Matching /\ Due' = Due
    BY DEF Matching, Due, ListTypes, ForRole, StoredNames
  <1>3. \A r : (Place(r)' = Place(r)) /\ (Placed(r)' <=> Placed(r))
    BY <1>2 DEF Place, Ahead, Before, Earlier, SameTime, Placed
  <1>4. Unseen' = Unseen /\ Passed' = Passed
    BY <1>3 DEF Unseen, Passed, Offset
  <1>5. MissedRowsMoved'
    <2>1. (MissedRowsMoved <=>
            (reader.pc = "done" =>
               Cardinality(Unseen) <= reader.left + (IF view.list = "reviews" THEN 0 ELSE reader.came)))'
      BY MissedAreUnseen, PTL
    <2>2. QED
      BY <1>4, <2>1, MissedAreUnseen DEF PagesInv
  <1>6. QED
    BY <1>1, <1>2, <1>4, <1>5 DEF PagesInv

-----------------------------------------------------------------------------
(* The theorems *)

\* Every step keeps the invariant.
LEMMA PagesStep == PagesInv /\ [PagedNext]_pagedVars => PagesInv'
  <1> SUFFICES ASSUME PagesInv, [PagedNext]_pagedVars PROVE PagesInv'
    OBVIOUS
  <1>1. CASE Count
    BY <1>1, CountStep
  <1>2. CASE Fetch
    BY <1>2, FetchStep
  <1>3. CASE Rest
    BY <1>3, RestStep
  <1>4. CASE TakeFirstPage
    <2>1. PICK l \in Listings : desk' = Page(l, 1)
      BY <1>4 DEF TakeFirstPage
    <2>2. Matching \in SUBSET Rows
      BY MatchingType DEF PagesInv
    <2>3. desk' \subseteq Rows
      BY <2>1, <2>2 DEF Listings, Page
    <2>4. QED
      BY <1>4, <2>3, OthersStep DEF TakeFirstPage
  <1>5. CASE \E rows \in SUBSET Rows : Stamp(rows)
    BY <1>5, StampStep
  <1>6. ASSUME NEW r \in Rows, Come(r) PROVE PagesInv'
    BY <1>6, ComeStep
  <1>7. ASSUME NEW r \in Rows, ChangeStatus(r) PROVE PagesInv'
    BY <1>7, LeaveStep DEF ChangeStatus
  <1>8. ASSUME NEW r \in Rows, Delete(r) PROVE PagesInv'
    BY <1>8, LeaveStep DEF Delete
  <1>9. ASSUME NEW r \in Rows, DecideOne(r) PROVE PagesInv'
    <2>1. view.list # "audit"
      BY <1>9 DEF DecideOne, PagesInv
    <2>2. QED
      BY <1>9, <2>1, LeaveStep DEF DecideOne
  <1>10. CASE UNCHANGED pagedVars
    BY <1>10, OthersStep DEF pagedVars, PagesInv, PagedTypeOK
  <1>11. QED
    BY <1>1, <1>2, <1>3, <1>4, <1>5, <1>6, <1>7, <1>8, <1>9, <1>10 DEF PagedNext

\* Paging by offset loses rows only to movement, of any rows in any order.
THEOREM PagedListsMissOnlyMoved == PagedSpec => []MissedRowsMoved
  <1>1. PagesInv => MissedRowsMoved
    BY DEF PagesInv
  <1>2. QED
    BY <1>1, PagesInitially, PagesStep, PTL DEF PagedSpec

\* The types of the variables, and that timestamps order the rows.
THEOREM PagedListsTypes == PagedSpec => [](PagedTypeOK /\ TimeIsAnOrder)
  <1>1. PagesInv => PagedTypeOK /\ TimeIsAnOrder
    BY DEF PagesInv
  <1>2. QED
    BY <1>1, PagesInitially, PagesStep, PTL DEF PagedSpec
=============================================================================
