--------------------------- MODULE ListingProofs ---------------------------
(***************************************************************************)
(* What Listing keeps for every set of items and every page size.          *)
(*                                                                         *)
(* Three facts about places carry the proofs: a change of the listing      *)
(* gives its items the places from 1 on again, a range of places holds no  *)
(* more items than it has places, and a page before the last is full.      *)
(***************************************************************************)
EXTENDS Listing, FiniteSetTheorems, FunctionTheorems, TLAPS

\* A page has MaxItems places, and later pages have later ones.
LEMMA PagePlaces ==
  ASSUME NEW q \in Nat \ {0}
  PROVE  /\ (q - 1) * MaxItems \in Nat
         /\ q * MaxItems = (q - 1) * MaxItems + MaxItems
<1>1. MaxItems \in Nat /\ q - 1 \in Nat
  BY ListingAssumption
<1>2. q * MaxItems = (q - 1) * MaxItems + MaxItems
  BY <1>1
<1> QED BY <1>1, <1>2

LEMMA PagesInOrder ==
  ASSUME NEW a \in Nat, NEW b \in Nat, a <= b
  PROVE  /\ a * MaxItems \in Nat /\ b * MaxItems \in Nat
         /\ a * MaxItems <= b * MaxItems
<1>1. MaxItems \in Nat
  BY ListingAssumption
<1>2. PICK d \in Nat : b = a + d
  <2>1. b - a \in Nat /\ b = a + (b - a)
    OBVIOUS
  <2> QED BY <2>1
<1>3. /\ a * MaxItems \in Nat /\ d * MaxItems \in Nat
      /\ b * MaxItems = a * MaxItems + d * MaxItems
  BY <1>1, <1>2
<1> QED BY <1>3

\* A listing is a bijection from its items to the places from 1 on.
LEMMA PlacesTaken ==
  ASSUME NEW p \in Listings
  PROVE  /\ DOMAIN p \subseteq Items
         /\ IsFiniteSet(DOMAIN p)
         /\ Cardinality(DOMAIN p) \in Nat
         /\ p \in [DOMAIN p -> 1..Cardinality(DOMAIN p)]
         /\ \A i, j \in DOMAIN p : p[i] = p[j] => i = j
         /\ \A n \in 1..Cardinality(DOMAIN p) : \E i \in DOMAIN p : p[i] = n
<1> DEFINE S == DOMAIN p
           N == Cardinality(S)
<1>1. S \subseteq Items /\ p \in [S -> 1..N]
  BY DEF Listings
<1>2. \A i, j \in S : p[i] = p[j] => i = j
  BY DEF Listings
<1>3. IsFiniteSet(S) /\ N \in Nat
  BY <1>1, FS_Subset, FS_CardinalityType, ListingAssumption
<1>4. IsFiniteSet(1..N) /\ Cardinality(1..N) = N
  BY <1>3, FS_Interval
<1>5. p \in Injection(S, 1..N)
  BY <1>1, <1>2, Fun_IsInj
<1>6. p \in Surjection(S, 1..N)
  BY <1>4, <1>5, FS_Injection
<1>7. \A n \in 1..N : \E i \in S : p[i] = n
  BY <1>6 DEF Surjection
<1> QED BY <1>1, <1>2, <1>3, <1>7

\* What makes a function a listing.
LEMMA IsListing ==
  ASSUME NEW S \in SUBSET Items, NEW p \in [S -> 1..Cardinality(S)],
         \A i, j \in S : p[i] = p[j] => i = j
  PROVE  p \in Listings /\ DOMAIN p = S
BY DEF Listings

\* Items with places after a and up to b are no more than b - a.
LEMMA RangeHolds ==
  ASSUME NEW p \in Listings, NEW a \in Nat, NEW b \in Nat, a <= b,
         NEW T \in SUBSET DOMAIN p,
         \A i \in T : a < p[i] /\ p[i] <= b
  PROVE  Cardinality(T) \in Nat /\ Cardinality(T) <= b - a
<1> DEFINE f == [i \in T |-> p[i]]
<1>1. f \in [T -> a + 1..b]
  BY PlacesTaken
<1>2. \A i, j \in T : f[i] = f[j] => i = j
  BY PlacesTaken
<1> HIDE DEF f
<1>3. f \in Injection(T, a + 1..b)
  BY <1>1, <1>2, Fun_IsInj
<1>4. IsFiniteSet(a + 1..b) /\ Cardinality(a + 1..b) = b - a
  <2>1. /\ a + 1 \in Int /\ b \in Int
        /\ (IF a + 1 > b THEN 0 ELSE b - (a + 1) + 1) = b - a
    OBVIOUS
  <2> QED BY ONLY <2>1, FS_Interval
<1> QED BY <1>3, <1>4, FS_Injection, FS_CardinalityType

\* A page that an item comes after is full.
LEMMA FullBefore ==
  ASSUME NEW p \in Listings, NEW q \in Nat \ {0},
         NEW i \in DOMAIN p, q * MaxItems < p[i],
         NEW T \in SUBSET DOMAIN p,
         T = {j \in DOMAIN p : (q - 1) * MaxItems < p[j] /\ p[j] <= q * MaxItems}
  PROVE  Cardinality(T) >= MaxItems
<1> DEFINE a == (q - 1) * MaxItems
           b == q * MaxItems
           f == [n \in a + 1..b |-> CHOOSE j \in T : p[j] = n]
<1>1. a \in Nat /\ b = a + MaxItems /\ MaxItems \in Nat
  BY PagePlaces, ListingAssumption
<1>2. \A n \in a + 1..b : \E j \in T : p[j] = n
  <2>1. p[i] \in 1..Cardinality(DOMAIN p) /\ Cardinality(DOMAIN p) \in Nat
    BY PlacesTaken
  <2>2. a + 1..b \subseteq 1..Cardinality(DOMAIN p)
    BY <1>1, <2>1
  <2>3. ASSUME NEW n \in a + 1..b
        PROVE  \E j \in T : p[j] = n
    <3>1. PICK j \in DOMAIN p : p[j] = n
      BY <2>2, PlacesTaken
    <3>2. a < n /\ n <= b
      BY <1>1
    <3> QED BY <3>1, <3>2
  <2> QED BY <2>3
<1>3. f \in [a + 1..b -> T] /\ \A n \in a + 1..b : p[f[n]] = n
  BY <1>2
<1> HIDE DEF f
<1>4. f \in Injection(a + 1..b, T)
  BY <1>3, Fun_IsInj
<1>5. IsFiniteSet(T) /\ Cardinality(T) \in Nat
  BY PlacesTaken, FS_Subset, FS_CardinalityType
<1>6. Cardinality(a + 1..b) = MaxItems
  <2>1. a + 1 \in Int /\ b \in Int /\ b - (a + 1) + 1 = MaxItems
        /\ (a + 1 > b => MaxItems = 0)
    BY <1>1
  <2> QED BY <2>1, FS_Interval
<1> QED BY <1>4, <1>5, <1>6, FS_Injection
-----------------------------------------------------------------------------
\* An item that enters, leaves or moves makes a listing of a listing.
LEMMA EnterLists ==
  ASSUME pos \in Listings, NEW i \in Items, NEW n, Enter(i, n)
  PROVE  pos' \in Listings
<1> DEFINE S == Listed
           N == Cardinality(S)
           T == S \union {i}
           p == [j \in T |->
                   IF j = i THEN n ELSE IF pos[j] < n THEN pos[j] ELSE pos[j] + 1]
<1>1. /\ S \subseteq Items /\ IsFiniteSet(S) /\ N \in Nat
      /\ \A j \in S : pos[j] \in 1..N
      /\ \A j, k \in S : pos[j] = pos[k] => j = k
  BY PlacesTaken DEF Listed
<1>2. pos' = p /\ n \in 1..N + 1 /\ i \notin S
  BY DEF Enter, Becomes
<1>3. Cardinality(T) = N + 1 /\ T \in SUBSET Items
  BY <1>1, <1>2, FS_AddElement
<1> HIDE DEF S, N, T
<1>4. T = S \union {i}
  BY DEF T
<1>5. p \in [T -> 1..N + 1]
  BY <1>1, <1>2, <1>4
<1>6. \A j, k \in T : p[j] = p[k] => j = k
  BY <1>1, <1>2, <1>4
<1> HIDE DEF p
<1> QED BY <1>2, <1>3, <1>5, <1>6, IsListing

LEMMA LeaveLists ==
  ASSUME pos \in Listings, NEW i \in Items, Leave(i)
  PROVE  pos' \in Listings
<1> DEFINE S == Listed
           N == Cardinality(S)
           T == S \ {i}
           p == [j \in T |-> IF pos[j] < pos[i] THEN pos[j] ELSE pos[j] - 1]
<1>1. /\ S \subseteq Items /\ IsFiniteSet(S) /\ N \in Nat
      /\ \A j \in S : pos[j] \in 1..N
      /\ \A j, k \in S : pos[j] = pos[k] => j = k
  BY PlacesTaken DEF Listed
<1>2. pos' = p /\ i \in S
  BY DEF Leave, Becomes
<1>3. Cardinality(T) = N - 1 /\ T \in SUBSET Items
  BY <1>1, <1>2, FS_RemoveElement
<1> HIDE DEF S, N, T
<1>4. T = S \ {i}
  BY DEF T
<1>5. p \in [T -> 1..N - 1]
  BY <1>1, <1>2, <1>4
<1>6. \A j, k \in T : p[j] = p[k] => j = k
  BY <1>1, <1>2, <1>4
<1> HIDE DEF p
<1> QED BY <1>2, <1>3, <1>5, <1>6, IsListing

LEMMA MoveLists ==
  ASSUME pos \in Listings, NEW i \in Items, NEW n, Move(i, n)
  PROVE  pos' \in Listings
<1> DEFINE S == Listed
           N == Cardinality(S)
           p == [j \in S |->
                   CASE j = i -> n
                     [] j # i /\ pos[i] < pos[j] /\ pos[j] <= n -> pos[j] - 1
                     [] j # i /\ n <= pos[j] /\ pos[j] < pos[i] -> pos[j] + 1
                     [] OTHER -> pos[j]]
<1>1. /\ S \in SUBSET Items /\ N \in Nat
      /\ \A j \in S : pos[j] \in 1..N
      /\ \A j, k \in S : pos[j] = pos[k] => j = k
  BY PlacesTaken DEF Listed
<1>2. pos' = p /\ i \in S /\ n \in 1..N
  BY DEF Move, Becomes
<1> HIDE DEF S, N
<1>3. \A j \in S : p[j] =
        IF j = i THEN n
        ELSE IF pos[i] < pos[j] /\ pos[j] <= n THEN pos[j] - 1
        ELSE IF n <= pos[j] /\ pos[j] < pos[i] THEN pos[j] + 1
        ELSE pos[j]
  BY <1>1, <1>2
<1>4. p \in [S -> 1..N]
  <2>1. \A j \in S : p[j] \in 1..N
    BY <1>1, <1>2, <1>3
  <2> QED BY <2>1
<1> HIDE DEF p
<1>5. \A j, k \in S : p[j] = p[k] => j = k
  BY <1>1, <1>2, <1>3
<1> QED BY <1>1, <1>2, <1>4, <1>5, IsListing DEF N

\* A step of the listing: nothing happens to the reader, an item that did not
\* rise was there and has moved down at most, and one that did not sink was
\* there and has moved up at most.
ListingStep ==
  /\ UNCHANGED reading
  /\ pos' \in Listings
  /\ rose \subseteq rose' /\ rose' \subseteq rose \union Items
  /\ sank \subseteq sank' /\ sank' \subseteq sank \union Items
  /\ \A i \in DOMAIN pos' \ rose' : i \in Listed /\ pos[i] <= pos'[i]
  /\ \A i \in DOMAIN pos' \ sank' : i \in Listed /\ pos'[i] <= pos[i]

LEMMA ListingSteps ==
  ASSUME pos \in Listings, NEW i \in Items, NEW n,
         Enter(i, n) \/ Move(i, n) \/ Leave(i)
  PROVE  ListingStep
<1>1. pos' \in Listings
  BY EnterLists, LeaveLists, MoveLists
<1>2. Becomes(pos')
  BY DEF Enter, Move, Leave, Becomes
<1>3. /\ DOMAIN pos' \subseteq Items
      /\ \A j \in DOMAIN pos' : pos'[j] \in Int
  <2>1. /\ DOMAIN pos' \subseteq Items
        /\ \A j \in DOMAIN pos' : pos'[j] \in 1..Cardinality(DOMAIN pos')
    BY <1>1, PlacesTaken
  <2> QED BY <2>1
<1>4. \A j \in Listed : pos[j] \in Int
  <2>1. \A j \in Listed : pos[j] \in 1..Cardinality(Listed)
    BY PlacesTaken DEF Listed
  <2> QED BY <2>1
<1> QED BY <1>1, <1>2, <1>3, <1>4 DEF ListingStep, Becomes

\* The two queries and the links, by name, for the proofs below.
Found == {i \in Listed : OnPage(i, page)}

LEMMA FoundFits ==
  ASSUME pos \in Listings, page \in Nat \ {0}
  PROVE  /\ Cardinality(Found) \in 0..MaxItems
         /\ \A i \in Listed : page * MaxItems < pos[i]
              => Cardinality(Found) = MaxItems
<1> DEFINE a == (page - 1) * MaxItems
           b == page * MaxItems
<1>1. a \in Nat /\ b = a + MaxItems /\ MaxItems \in Nat
  BY PagePlaces, ListingAssumption
<1>2. /\ Found \in SUBSET DOMAIN pos
      /\ Found = {j \in DOMAIN pos : a < pos[j] /\ pos[j] <= b}
  BY DEF Found, Listed, OnPage
<1>3. Cardinality(Found) \in Nat /\ Cardinality(Found) <= b - a
  <2>1. a \in Nat /\ b \in Nat /\ a <= b
    BY <1>1
  <2>2. \A j \in Found : a < pos[j] /\ pos[j] <= b
    BY <1>2
  <2> HIDE DEF a, b
  <2> QED BY <1>2, <2>1, <2>2, RangeHolds
<1>4. ASSUME NEW i \in Listed, b < pos[i]
      PROVE  Cardinality(Found) >= MaxItems
  BY <1>2, <1>4, FullBefore DEF Listed
<1> QED BY <1>1, <1>3, <1>4

\* Type correctness, for every set of items and every page size.
THEOREM TypeCorrect == Spec => []TypeOK
<1>1. Init => TypeOK
  BY ListingAssumption DEF Init, TypeOK
<1>2. TypeOK /\ [Next]_vars => TypeOK'
  <2> SUFFICES ASSUME TypeOK, [Next]_vars
               PROVE  TypeOK'
    OBVIOUS
  <2> USE DEF TypeOK
  <2>1. ASSUME NEW i \in Items, NEW n,
               Enter(i, n) \/ Move(i, n) \/ Leave(i)
        PROVE  TypeOK'
    BY <2>1, ListingSteps DEF ListingStep, reading
  <2>2. CASE LoadItems
    <3>1. shown' \subseteq Items
      BY <2>2, PlacesTaken DEF LoadItems, Listed
    <3>2. rows' \in 0..MaxItems
      BY <2>2, FoundFits DEF LoadItems, Found
    <3>3. next' \in {0, page' + 1}
      BY <2>2 DEF LoadItems, SiteLink
    <3> QED BY <2>2, <3>1, <3>2, <3>3 DEF LoadItems, listing
  <2>3. CASE CountItems
    BY <2>3 DEF CountItems, ApiLink, listing
  <2>4. CASE FollowNext
    BY <2>4 DEF FollowNext, listing
  <2>5. CASE FollowPrev
    BY <2>5 DEF FollowPrev, listing
  <2>6. CASE UNCHANGED vars
    BY <2>6 DEF vars, listing, reading
  <2> QED BY <2>1, <2>2, <2>3, <2>4, <2>5, <2>6 DEF Next
<1> QED BY <1>1, <1>2, PTL DEF Spec
-----------------------------------------------------------------------------
\* The inductive invariant: the next page to load follows the pages read, or is
\* one of them; what was not shown and did not rise is after those pages, what
\* was shown and did not sink is on them; and a client of the API that got an
\* empty page had seen everything.
ReadInv ==
  /\ pc = "load" => page <= read + 1
  /\ pc # "load" => page <= read
  /\ \A i \in Missed : read * MaxItems < pos[i]
  /\ \A i \in Listed \ sank : i \in shown => pos[i] <= read * MaxItems
  /\ pc = "count" /\ rows = 0 => Missed = {}

\* Places are integers.
LEMMA Places ==
  ASSUME TypeOK
  PROVE  /\ \A i \in Listed : pos[i] \in Nat
         /\ read * MaxItems \in Nat
<1>1. \A i \in Listed : pos[i] \in 1..Cardinality(Listed)
  BY PlacesTaken DEF TypeOK, Listed
<1>2. read * MaxItems \in Nat
  BY PagesInOrder DEF TypeOK
<1> QED BY <1>1, <1>2

\* What no item missed before can be missed after the listing changed, and
\* what the invariant says of places stays true.
LEMMA ListingKeepsReadInv ==
  ASSUME TypeOK, ReadInv, ListingStep
  PROVE  ReadInv'
<1>1. Missed' \subseteq Missed
  BY DEF ListingStep, Missed, Listed, reading
<1>2. \A i \in DOMAIN pos' : pos'[i] \in Nat
  <2>1. \A i \in DOMAIN pos' : pos'[i] \in 1..Cardinality(DOMAIN pos')
    BY PlacesTaken DEF ListingStep
  <2> QED BY <2>1
<1>3. \A i \in Missed' : read' * MaxItems < pos'[i]
  <2> SUFFICES ASSUME NEW i \in Missed'
               PROVE  read * MaxItems < pos'[i]
    BY DEF ListingStep, reading
  <2>1. i \in Missed /\ i \in DOMAIN pos' \ rose'
    BY <1>1 DEF Missed, Listed
  <2>2. pos[i] <= pos'[i] /\ read * MaxItems < pos[i]
    BY <2>1 DEF ListingStep, ReadInv
  <2>3. i \in Listed
    BY <2>1 DEF Missed
  <2> QED BY <1>2, <2>1, <2>2, <2>3, Places
<1>4. \A i \in Listed' \ sank' : i \in shown' => pos'[i] <= read' * MaxItems
  <2> SUFFICES ASSUME NEW i \in DOMAIN pos' \ sank', i \in shown
               PROVE  pos'[i] <= read * MaxItems
    BY DEF ListingStep, reading, Listed
  <2>1. i \in Listed \ sank /\ pos'[i] <= pos[i]
    BY DEF ListingStep
  <2>2. pos[i] <= read * MaxItems
    BY <2>1 DEF ReadInv
  <2> QED BY <1>2, <2>1, <2>2, Places
<1> QED BY <1>1, <1>3, <1>4 DEF ReadInv, ListingStep, reading

\* A page is loaded.
LEMMA LoadKeepsReadInv ==
  ASSUME TypeOK, ReadInv, LoadItems
  PROVE  ReadInv' /\ (Cardinality(Found) < MaxItems => Missed' = {})
<1>1. /\ page \in Nat \ {0} /\ read \in Nat /\ read' \in Nat /\ MaxItems \in Nat
      /\ page <= read' /\ read <= read' /\ page' = page
      /\ read' = read \/ (read' = page /\ page = read + 1)
  BY ListingAssumption DEF TypeOK, ReadInv, LoadItems
<1>2. /\ read * MaxItems \in Nat /\ read' * MaxItems \in Nat
      /\ page * MaxItems \in Nat
      /\ read * MaxItems <= read' * MaxItems
      /\ page * MaxItems <= read' * MaxItems
  BY <1>1, PagesInOrder
<1>3. /\ pos' = pos /\ rose' = rose /\ sank' = sank
      /\ shown' = shown \union Found
      /\ rows' = Cardinality(Found)
  BY DEF LoadItems, listing, Found
<1>4. Missed' \subseteq Missed
  BY <1>3 DEF Missed, Listed
<1>5. \A i \in Missed' : read' * MaxItems < pos[i]
  <2> SUFFICES ASSUME NEW i \in Missed'
               PROVE  read' * MaxItems < pos[i]
    OBVIOUS
  <2>1. i \in Missed /\ i \in Listed /\ i \notin Found
    BY <1>3, <1>4 DEF Missed, Listed
  <2>2. read * MaxItems < pos[i]
    BY <2>1 DEF ReadInv
  <2>3. CASE read' = read
    BY <2>2, <2>3
  <2>4. CASE read' = page /\ page = read + 1
    <3>1. (page - 1) * MaxItems < pos[i]
      BY <1>1, <2>2, <2>4
    <3>2. ~(pos[i] <= page * MaxItems)
      BY <2>1, <3>1 DEF Found, OnPage
    <3> QED BY <1>2, <2>1, <2>4, <3>2, Places
  <2> QED BY <1>1, <2>3, <2>4
<1>6. \A i \in Listed \ sank : i \in shown' => pos[i] <= read' * MaxItems
  <2> SUFFICES ASSUME NEW i \in Listed \ sank, i \in shown \union Found
               PROVE  pos[i] <= read' * MaxItems
    BY <1>3
  <2>1. CASE i \in Found
    BY <1>2, <2>1, Places DEF Found, OnPage
  <2>2. CASE i \in shown
    BY <1>2, <2>2, Places DEF ReadInv
  <2> QED BY <2>1, <2>2
<1>7. Cardinality(Found) < MaxItems => Missed' = {}
  <2> SUFFICES ASSUME NEW i \in Missed'
               PROVE  ~(Cardinality(Found) < MaxItems)
    OBVIOUS
  <2>1. read' * MaxItems < pos[i] /\ i \in Listed
    BY <1>3, <1>5 DEF Missed, Listed
  <2>2. page * MaxItems < pos[i]
    BY <1>2, <2>1, Places
  <2>3. Cardinality(Found) = MaxItems
    BY <1>1, <2>1, <2>2, FoundFits DEF TypeOK
  <2> QED BY <1>1, <2>3
<1>8. 0 < MaxItems
  BY ListingAssumption
<1> QED
  BY <1>1, <1>3, <1>5, <1>6, <1>7, <1>8 DEF ReadInv, LoadItems, Missed, Listed

\* The steps of the reader that load nothing.
LEMMA LinksKeepReadInv ==
  ASSUME TypeOK, ReadInv, CountItems \/ FollowNext \/ FollowPrev
  PROVE  ReadInv'
<1>1. Missed' = Missed /\ Listed' = Listed /\ pos' = pos
  BY DEF CountItems, FollowNext, FollowPrev, Missed, Listed, listing
<1>2. shown' = shown /\ sank' = sank /\ read' = read
  BY DEF CountItems, FollowNext, FollowPrev, listing
<1>3. (pc' = "load" => page' <= read' + 1) /\ (pc' # "load" => page' <= read')
  <2>1. CASE CountItems
    BY <2>1 DEF CountItems, ReadInv
  <2>2. CASE FollowNext
    BY <2>2 DEF FollowNext, ReadInv, TypeOK
  <2>3. CASE FollowPrev
    BY <2>3 DEF FollowPrev, ReadInv, TypeOK
  <2> QED BY <2>1, <2>2, <2>3
<1>4. pc' # "count"
  BY DEF CountItems, FollowNext, FollowPrev
<1> QED BY <1>1, <1>2, <1>3, <1>4 DEF ReadInv

THEOREM ReadInvariant == Spec => []ReadInv
<1>1. Init => ReadInv
  <2> SUFFICES ASSUME Init
               PROVE  ReadInv
    OBVIOUS
  <2>1. \A i \in Listed : pos[i] \in Nat /\ 0 < pos[i]
    <3>1. \A i \in Listed : pos[i] \in 1..Cardinality(Listed)
      BY PlacesTaken DEF Init, Listed
    <3> QED BY <3>1
  <2>2. read = 0 /\ 0 * MaxItems = 0
    BY ListingAssumption DEF Init
  <2> QED BY <2>1, <2>2 DEF Init, ReadInv, Missed
<1>2. TypeOK /\ ReadInv /\ [Next]_vars => ReadInv'
  <2> SUFFICES ASSUME TypeOK, ReadInv, [Next]_vars
               PROVE  ReadInv'
    OBVIOUS
  <2>1. ASSUME NEW i \in Items, NEW n, Enter(i, n) \/ Move(i, n) \/ Leave(i)
        PROVE  ReadInv'
    BY <2>1, ListingSteps, ListingKeepsReadInv DEF TypeOK
  <2>2. CASE LoadItems
    BY <2>2, LoadKeepsReadInv
  <2>3. CASE CountItems \/ FollowNext \/ FollowPrev
    BY <2>3, LinksKeepReadInv
  <2>4. CASE UNCHANGED vars
    BY <2>4 DEF vars, listing, reading, ReadInv, Missed, Listed
  <2> QED BY <2>1, <2>2, <2>3, <2>4 DEF Next
<1> QED BY <1>1, <1>2, TypeCorrect, PTL DEF Spec
-----------------------------------------------------------------------------
\* Whatever the items do while the pages are read, a reader of the site misses
\* none that did not come or move up.
THEOREM NothingMissed == Spec => LastPageMissesNothing
<1>1. TypeOK /\ ReadInv /\ [Next]_vars
        => [pc = "load" /\ pc' = "page" /\ next' = 0 => Missed' = {}]_vars
  <2> SUFFICES ASSUME TypeOK, ReadInv, [Next]_vars,
                      pc = "load", pc' = "page", next' = 0
               PROVE  Missed' = {}
    OBVIOUS
  <2>1. LoadItems
    <3>1. pc' # pc
      OBVIOUS
    <3>2. \/ \E i \in Items, n \in 1..Cardinality(Items) :
                 Enter(i, n) \/ Move(i, n)
          \/ \E i \in Items : Leave(i)
          \/ LoadItems \/ CountItems \/ FollowNext \/ FollowPrev
      BY <3>1 DEF Next, vars, reading
    <3>3. ASSUME NEW i \in Items, NEW n, Enter(i, n) \/ Move(i, n) \/ Leave(i)
          PROVE  pc' = pc
      BY <3>3 DEF Enter, Move, Leave, Becomes, reading
    <3> QED BY <3>1, <3>2, <3>3 DEF CountItems, FollowNext, FollowPrev
  <2>2. Cardinality(Found) < MaxItems
    <3>1. next' = SiteLink(Cardinality(Found), page)
      BY <2>1 DEF LoadItems, Found
    <3>2. Cardinality(Found) \in Nat /\ MaxItems \in Nat /\ page + 1 # 0
      BY FoundFits, ListingAssumption DEF TypeOK
    <3> QED BY <3>1, <3>2 DEF SiteLink
  <2> QED BY <2>1, <2>2, LoadKeepsReadInv
<1> QED
  BY <1>1, TypeCorrect, ReadInvariant, PTL DEF Spec, LastPageMissesNothing

\* A client of the API misses at most one page of them.
THEOREM OnePageMissed == Spec => LastPageMissesOnePage
<1>1. TypeOK /\ ReadInv /\ [Next]_vars
        => [pc = "count" /\ pc' = "page" /\ next' = 0
              => Cardinality(Missed) <= MaxItems]_vars
  <2> SUFFICES ASSUME TypeOK, ReadInv, [Next]_vars,
                      pc = "count", pc' = "page", next' = 0
               PROVE  Cardinality(Missed) <= MaxItems
    OBVIOUS
  <2> DEFINE a == read * MaxItems
             b == (page + 1) * MaxItems
  <2>1. CountItems
    <3>1. pc' # pc
      OBVIOUS
    <3>2. \/ \E i \in Items, n \in 1..Cardinality(Items) :
                 Enter(i, n) \/ Move(i, n)
          \/ \E i \in Items : Leave(i)
          \/ LoadItems \/ CountItems \/ FollowNext \/ FollowPrev
      BY <3>1 DEF Next, vars, reading
    <3>3. ASSUME NEW i \in Items, NEW n, Enter(i, n) \/ Move(i, n) \/ Leave(i)
          PROVE  pc' = pc
      BY <3>3 DEF Enter, Move, Leave, Becomes, reading
    <3> QED BY <3>1, <3>2, <3>3 DEF LoadItems, FollowNext, FollowPrev
  <2>2. MaxItems \in Nat
    BY ListingAssumption
  <2>3. CASE rows = 0
    <3>1. Missed = {}
      BY <2>3 DEF ReadInv
    <3> QED BY <2>2, <3>1, FS_EmptySet
  <2>4. CASE rows # 0
    <3>1. rows > 0 /\ page + 1 \in Nat \ {0} /\ page <= read
      BY <2>4 DEF TypeOK, ReadInv
    <3>2. ~(Cardinality(Listed) > b)
      BY <2>1, <3>1 DEF CountItems, ApiLink
    <3>3. /\ a \in Nat /\ page * MaxItems \in Nat /\ page * MaxItems <= a
          /\ b = page * MaxItems + MaxItems
      <4>1. page \in Nat /\ read \in Nat
        BY DEF TypeOK
      <4>2. b = page * MaxItems + MaxItems
        BY <2>2, <4>1
      <4> QED BY <3>1, <4>1, <4>2, PagesInOrder
    <3>4. \A i \in Missed : a < pos[i] /\ pos[i] <= Cardinality(Listed)
      <4>1. \A i \in Listed : pos[i] \in 1..Cardinality(Listed)
        BY PlacesTaken DEF TypeOK, Listed
      <4>2. Missed \subseteq Listed
        BY DEF Missed
      <4> QED BY <4>1, <4>2 DEF ReadInv
    <3>5. Missed \in SUBSET DOMAIN pos /\ Cardinality(Listed) \in Nat
      BY PlacesTaken DEF TypeOK, Missed, Listed
    <3> HIDE DEF a, b
    <3>6. CASE Missed = {}
      BY <2>2, <3>6, FS_EmptySet
    <3>7. CASE Missed # {}
      <4> DEFINE c == a + MaxItems
      <4>1. a <= c /\ c \in Nat /\ c - a = MaxItems
        BY <2>2, <3>3
      <4>2. \A i \in Missed : pos[i] \in Nat
        BY Places DEF Missed
      <4>3. \A i \in Missed : a < pos[i] /\ pos[i] <= c
        BY <2>2, <3>2, <3>3, <3>4, <3>5, <4>2
      <4>4. pos \in Listings
        BY DEF TypeOK
      <4> HIDE DEF c
      <4>5. Cardinality(Missed) <= c - a
        BY <3>3, <3>5, <4>1, <4>3, <4>4, RangeHolds
      <4> QED BY <4>1, <4>5
    <3> QED BY <3>6, <3>7
  <2>5. rows \in Nat
    BY <2>2 DEF TypeOK
  <2> QED BY <2>3, <2>4, <2>5
<1> QED
  BY <1>1, TypeCorrect, ReadInvariant, PTL DEF Spec, LastPageMissesOnePage

\* What comes up again on a later page has moved down or went and came back.
THEOREM RepeatsMovedDown == Spec => ShownTwiceMovedDown
<1>1. TypeOK /\ ReadInv
        => (page > read
              => \A i \in Listed : OnPage(i, page) /\ i \in shown => i \in sank)
  <2> SUFFICES ASSUME TypeOK, ReadInv, page > read,
                      NEW i \in Listed \ sank, OnPage(i, page), i \in shown
               PROVE  FALSE
    OBVIOUS
  <2>1. /\ read * MaxItems \in Nat /\ (page - 1) * MaxItems \in Nat
        /\ read * MaxItems <= (page - 1) * MaxItems
    <3>1. read \in Nat /\ page - 1 \in Nat /\ read <= page - 1
      BY DEF TypeOK
    <3> QED BY <3>1, PagesInOrder
  <2>2. pos[i] <= read * MaxItems /\ pos[i] \in Nat
    BY Places DEF ReadInv
  <2> QED BY <2>1, <2>2 DEF OnPage
<1>2. TypeOK /\ ReadInv /\ [Next]_vars
        => [pc = "load" /\ pc' # "load" /\ page > read
              => \A i \in Listed :
                   OnPage(i, page) /\ i \in shown => i \in sank]_vars
  BY <1>1
<1> QED
  BY <1>2, TypeCorrect, ReadInvariant, PTL DEF Spec, ShownTwiceMovedDown
-----------------------------------------------------------------------------
\* Nobody submits, deletes or votes while the pages are read, and nothing that
\* is a tie is ordered otherwise.
Still == [][pos' = pos]_vars

\* Then the pages are a partition of the listing: a later page has no item of
\* an earlier one, and with the page that links no next one a reader of the
\* site has seen the items of the listing and no others.
PagesPartition ==
  [][pc = "load" /\ pc' # "load" =>
       /\ page > read => Found \cap shown = {}
       /\ pc' = "page" /\ next' = 0 => shown' = Listed]_vars

StillInv == rose = {} /\ sank = {} /\ shown \subseteq Listed

\* OFFSET and LIMIT of one page begin where those of the page before it end
\* (GetLimit lines 423-432, HandleIndex lines 183-185).
THEOREM StillListing == Spec /\ Still => PagesPartition
<1>1. Init => StillInv
  BY DEF Init, StillInv
<1>2. TypeOK /\ StillInv /\ [Next]_vars /\ [pos' = pos]_vars => StillInv'
  <2> SUFFICES ASSUME TypeOK, StillInv, [Next]_vars, [pos' = pos]_vars
               PROVE  StillInv'
    OBVIOUS
  <2>1. pos' = pos /\ Listed' = Listed
    BY DEF vars, listing, Listed
  <2>2. ASSUME NEW i \in Items, NEW n, Enter(i, n) \/ Move(i, n) \/ Leave(i)
        PROVE  StillInv'
    <3>1. PICK p : Becomes(p)
      BY <2>2 DEF Enter, Move, Leave
    <3>2. p = pos
      BY <2>1, <3>1 DEF Becomes
    <3>3. \A j \in Listed : pos[j] \in Nat
      BY Places
    <3>4. \A m \in Nat : ~ (m < m) /\ ~ (m > m)
      OBVIOUS
    <3>5. rose' = rose /\ sank' = sank
      BY <3>1, <3>2, <3>3, <3>4 DEF Becomes, Listed
    <3>6. shown' = shown
      BY <3>1 DEF Becomes, reading
    <3> QED
      BY <2>1, <3>5, <3>6 DEF StillInv
  <2>3. CASE LoadItems
    BY <2>1, <2>3 DEF LoadItems, listing, StillInv
  <2>4. CASE CountItems \/ FollowNext \/ FollowPrev
    BY <2>1, <2>4 DEF CountItems, FollowNext, FollowPrev, listing, StillInv
  <2>5. CASE UNCHANGED vars
    BY <2>1, <2>5 DEF vars, listing, reading, StillInv
  <2> QED
    BY <2>2, <2>3, <2>4, <2>5 DEF Next
<1>3. StillInv /\ StillInv' /\ [pos' = pos]_vars
      /\ [pc = "load" /\ pc' = "page" /\ next' = 0 => Missed' = {}]_vars
      /\ [pc = "load" /\ pc' # "load" /\ page > read
            => \A i \in Listed : OnPage(i, page) /\ i \in shown => i \in sank]_vars
      => [pc = "load" /\ pc' # "load" =>
            /\ page > read => Found \cap shown = {}
            /\ pc' = "page" /\ next' = 0 => shown' = Listed]_vars
  BY DEF StillInv, Missed, Found, Listed
<1> QED
  BY <1>1, <1>2, <1>3, TypeCorrect, NothingMissed, RepeatsMovedDown, PTL
  DEF Spec, Still, PagesPartition, LastPageMissesNothing, ShownTwiceMovedDown
=============================================================================
