------------------------- MODULE OrderListingProofs -------------------------
(***************************************************************************)
(* Theorems about OrderListing, for any store, any table, any way Redis    *)
(* numbers its slots, and any sizes the table is given during the walk.    *)
(***************************************************************************)
EXTENDS OrderListing, Functions, FiniteSetTheorems, WellFoundedInduction, TLAPS

-----------------------------------------------------------------------------
(* An order without its fields.  The keys of a batch exist from the SCAN   *)
(* that found them to the HGETALL that reads them, but for those a DELETE  *)
(* has overtaken; and these are not stored again, since an identifier that *)
(* was handed out is not handed out a second time.                         *)

Found ==
    /\ orders \subseteq everStored
    /\ batch \subseteq KeysOf(orders) \cup overtaken
    /\ overtaken \subseteq KeysOf(everStored)
    /\ \A k \in overtaken : k.id \notin orders

LEMMA Read ==
    ASSUME Found, NoTornOrder, ListKey
    PROVE  NoTornOrder'
<1>1. PICK k \in batch :
          listed' = listed \cup {[key |-> k, reply |-> ReplyTo(KeyRead(k))]}
  BY DEF ListKey
<1>2. UNCHANGED <<orders, overtaken>>
  BY DEF ListKey, store, history
<1>3. CASE k \in KeysOf(orders)
  <2>1. k.part = "hash" => ReplyTo(KeyRead(k)) = "fields"
    BY <1>3 DEF ReplyTo, KeyRead
  <2> QED
    BY <1>1, <1>2, <2>1 DEF NoTornOrder
<1>4. CASE k \notin KeysOf(orders)
  <2>1. k \in overtaken /\ k.id \notin orders
    BY <1>4 DEF Found
  <2> QED
    BY <1>1, <1>2, <2>1 DEF NoTornOrder
<1> QED
  BY <1>3, <1>4

LEMMA FoundStep ==
    ASSUME Found, NoTornOrder, [Next]_vars
    PROVE  Found' /\ NoTornOrder'
<1> USE DEF store, history
<1>1. CASE Scan
  <2>1. batch' \subseteq KeysOf(orders)
    BY <1>1 DEF Scan, Between
  <2>2. UNCHANGED <<orders, everStored, listed, overtaken>>
    BY <1>1 DEF Scan
  <2> QED
    BY <2>1, <2>2 DEF Found, NoTornOrder
<1>2. CASE ListKey
  <2>1. batch' \subseteq batch /\ UNCHANGED <<orders, everStored, overtaken>>
    BY <1>2 DEF ListKey
  <2> QED
    BY <1>2, <2>1, Read DEF Found
<1>3. CASE ListKeyRefused
  <2>1. PICK k \in batch : listed' = listed \cup {[key |-> k, reply |-> "refused"]}
    BY <1>3 DEF ListKeyRefused
  <2>2. batch' \subseteq batch /\ UNCHANGED <<orders, everStored, overtaken>>
    BY <1>3 DEF ListKeyRefused
  <2> QED
    BY <2>1, <2>2 DEF Found, NoTornOrder
<1>4. CASE ScanBroken \/ ScanRefused \/ ListKeyBroken \/ EndBatch \/ Resize \/ Break
  <2>1. UNCHANGED <<orders, everStored, batch, listed, overtaken>>
    BY <1>4 DEF ScanBroken, ScanRefused, ListKeyBroken, EndBatch, Resize, Break
  <2> QED
    BY <2>1 DEF Found, NoTornOrder
<1>5. CASE OthersStore
  <2>1. PICK u \in Uuid : /\ u \notin everStored
                         /\ orders' = orders \cup {u}
                         /\ everStored' = everStored \cup {u}
    BY <1>5 DEF OthersStore, Store!Store
  <2>2. UNCHANGED <<batch, listed, overtaken>>
    BY <1>5 DEF OthersStore
  <2>3. /\ KeysOf(orders) \subseteq KeysOf(orders')
        /\ KeysOf(everStored) \subseteq KeysOf(everStored')
    BY <2>1 DEF KeysOf
  <2>4. \A k \in overtaken : k.id \in everStored /\ k.id \notin orders'
    BY <2>1 DEF Found, KeysOf
  <2> QED
    BY <2>1, <2>2, <2>3, <2>4 DEF Found, NoTornOrder
<1>6. CASE OthersClear
  <2>1. /\ orders' = {} /\ overtaken' = overtaken \cup batch
        /\ UNCHANGED <<everStored, batch, listed>>
    BY <1>6 DEF OthersClear, Store!Clear
  <2>2. KeysOf(orders) \subseteq KeysOf(everStored)
    BY DEF Found, KeysOf
  <2> QED
    BY <2>1, <2>2 DEF Found, NoTornOrder
<1>7. CASE UNCHANGED vars
  BY <1>7 DEF vars, Found, NoTornOrder
<1> QED
  BY <1>1, <1>2, <1>3, <1>4, <1>5, <1>6, <1>7 DEF Next, Handler

(* An order that is listed without its fields, by an HGETALL that was not  *)
(* refused, was found by a SCAN before a DELETE and read after it, and is  *)
(* gone for good; a POST under way, or an order stored after a DELETE, is  *)
(* never half listed.                                                      *)
THEOREM NoOrderTorn == Spec => []NoTornOrder
<1>1. Init => Found /\ NoTornOrder
  BY DEF Init, Found, NoTornOrder
<1> QED
  BY <1>1, FoundStep, PTL DEF Spec

-----------------------------------------------------------------------------
(* The walk.                                                               *)

LEMMA LeastOf ==
    ASSUME NEW R, IsWellFoundedOn(R, Nat),
           \A x, y \in Nat : y < x => <<y, x>> \in R,
           NEW S \in SUBSET Nat, S # {}
    PROVE  \E x \in S : \A y \in S : x <= y
<1>1. \E x \in S : \A y \in S : <<y, x>> \notin R
  BY WFMin
<1>2. PICK x \in S : \A y \in S : <<y, x>> \notin R
  BY <1>1
<1>3. \A y \in S : x <= y
  <2> SUFFICES ASSUME NEW y \in S PROVE x <= y
    OBVIOUS
  <2>1. x \in Nat /\ y \in Nat /\ <<y, x>> \notin R
    BY <1>2
  <2>2. ~(y < x)
    BY <2>1
  <2> QED
    BY <2>1, <2>2
<1> QED
  BY <1>3

LEMMA LeastIn ==
    ASSUME NEW S \in SUBSET Nat, S # {}
    PROVE  \E x \in S : \A y \in S : x <= y
<1> DEFINE R == OpToRel(<, Nat)
<1>1. IsWellFoundedOn(R, Nat)
  BY NatLessThanWellFounded
<1>2. \A x, y \in Nat : y < x => <<y, x>> \in R
  BY DEF OpToRel
<1> HIDE DEF R
<1> QED
  BY <1>1, <1>2, LeastOf

LEMMA MinExists ==
    ASSUME NEW S \in SUBSET Nat, S # {}
    PROVE  Min(S) \in S
BY LeastIn DEF Min

LEMMA Monotone ==
    ASSUME NEW a \in Nat, NEW b \in Nat, NEW c \in Nat, b <= c
    PROVE  a * b <= a * c
<1>1. PICK d \in Nat : c = b + d
  <2>1. c - b \in Nat /\ c = b + (c - b)
    OBVIOUS
  <2> QED
    BY <2>1
<1>2. a * c = a * b + a * d /\ a * b \in Nat /\ a * d \in Nat
  BY <1>1
<1> QED
  BY <1>2

(* Division with remainder.                                                *)
LEMMA Quotient ==
    ASSUME NEW a \in Nat, NEW b \in Nat, b > 0,
           NEW q \in Int, q = a \div b, NEW d \in Int, d = a % b
    PROVE  a = b * q + d
OBVIOUS

LEMMA Division ==
    ASSUME NEW a \in Nat, NEW b \in Nat \ {0}
    PROVE  \E q \in Nat, d \in 0..(b - 1) :
               q = a \div b /\ d = a % b /\ a = b * q + d
<1> DEFINE q == a \div b
           d == a % b
<1>1. q \in Nat /\ d \in 0..(b - 1) /\ b \in Nat /\ b > 0
  OBVIOUS
<1>2. q = a \div b /\ d = a % b
  OBVIOUS
<1> HIDE DEF q, d
<1>3. a = b * q + d
  BY <1>1, <1>2, Quotient
<1> QED
  BY <1>1, <1>2, <1>3

LEMMA SlotBelow ==
    ASSUME NEW w \in Nat \ {0}, NEW i \in Nat
    PROVE  w * (i \div w) \in Nat /\ w * (i \div w) <= i
OBVIOUS

(* A multiple of w leaves no remainder.                                    *)
LEMMA NoRemainder ==
    ASSUME NEW w \in Nat, NEW n \in Nat, NEW q \in Nat, NEW d \in 0..(w - 1),
           n * w = w * q + d
    PROVE  d = 0
<1>1. w * q \in Nat /\ w * n \in Nat /\ n * w = w * n
  OBVIOUS
<1>2. CASE q >= n
  <2>1. w * n <= w * q
    BY <1>2, Monotone
  <2> QED
    BY <1>1, <2>1
<1>3. CASE q < n
  <2>1. q + 1 \in Nat /\ q + 1 <= n
    BY <1>3
  <2>2. w * (q + 1) <= w * n
    BY <2>1, Monotone
  <2>3. w * (q + 1) = w * q + w
    OBVIOUS
  <2> QED
    BY <1>1, <2>2, <2>3
<1> QED
  BY <1>2, <1>3

(* A multiple of w beyond the beginning of a slot of width w is beyond all *)
(* of the slot.                                                            *)
LEMMA SlotAbove ==
    ASSUME NEW w \in Nat \ {0}, NEW i \in Nat, NEW e \in Nat,
           e % w = 0, w * (i \div w) < e
    PROVE  i < e
<1>1. PICK q \in Nat, d \in 0..(w - 1) : q = i \div w /\ i = w * q + d
  BY Division
<1>2. PICK m \in Nat, z \in 0..(w - 1) : z = e % w /\ e = w * m + z
  BY Division
<1>3. w * q \in Nat /\ w * m \in Nat /\ e = w * m /\ w * q < w * m
  BY <1>1, <1>2
<1>4. CASE m <= q
  <2>1. w * m <= w * q
    BY <1>4, Monotone
  <2> QED
    BY <1>3, <2>1
<1>5. CASE q < m
  <2>1. q + 1 \in Nat /\ q + 1 <= m
    BY <1>5
  <2>2. w * (q + 1) <= w * m
    BY <2>1, Monotone
  <2>3. w * (q + 1) = w * q + w
    OBVIOUS
  <2> QED
    BY <1>1, <1>3, <2>2, <2>3
<1> QED
  BY <1>4, <1>5

(* A table of n slots, n dividing m, has slots of equal width.             *)
LEMMA EvenWidth ==
    ASSUME NEW m \in Nat \ {0}, NEW n \in 1..m, m % n = 0
    PROVE  m \div n \in Nat \ {0} /\ m % (m \div n) = 0
<1>1. PICK w \in Nat : w = m \div n /\ m = n * w
  <2>1. PICK w \in Nat, d \in 0..(n - 1) :
               w = m \div n /\ d = m % n /\ m = n * w + d
    BY Division
  <2>2. d = 0 /\ n * w \in Nat
    BY <2>1
  <2> QED
    BY <2>1, <2>2
<1>2. w \in Nat \ {0}
  BY <1>1
<1>3. PICK q \in Nat, d \in 0..(w - 1) :
             q = m \div w /\ d = m % w /\ m = w * q + d
  BY <1>2, Division
<1>4. d = 0
  <2>1. n \in Nat /\ n * w = w * q + d
    BY <1>1, <1>3
  <2> QED
    BY <2>1, NoRemainder
<1> QED
  BY <1>1, <1>2, <1>3, <1>4

LEMMA CursorsNamePlaces ==
    /\ 0 \in Place
    /\ \A j \in Place : CursorOf[j] \in Place /\ PlaceNamed(CursorOf[j]) = j
    /\ PlaceNamed(0) = 0
    /\ \A j \in Place : j # 0 => CursorOf[j] # 0
<1>1. 0 \in Place /\ CursorOf[0] = 0
  BY ListingAssumption DEF Place
<1>2. ASSUME NEW j \in Place
      PROVE  PlaceNamed(CursorOf[j]) = j
  BY ListingAssumption DEF PlaceNamed
<1>3. PlaceNamed(0) = 0
  BY <1>1, <1>2
<1> QED
  BY <1>1, <1>2, <1>3, ListingAssumption

(* A cursor Redis has handed out, under whatever size the table had then:  *)
(* under the present one the walk goes on at its place or before, and ends *)
(* behind it.                                                              *)
LEMMA Walk ==
    ASSUME size \in Sizes, NEW c, PlaceNamed(c) \in Place
    PROVE  /\ Start(c) \in Nat /\ Start(c) <= PlaceNamed(c)
           /\ End(c) \in 1..Places /\ PlaceNamed(c) < End(c)
<1>1. Places \in Nat \ {0} /\ size \in 1..Places /\ Places % size = 0
  BY ListingAssumption
<1>2. Width \in Nat \ {0} /\ Places % Width = 0
  BY <1>1, EvenWidth DEF Width
<1>3. Start(c) = Width * (PlaceNamed(c) \div Width)
  BY DEF Start
<1>4. PlaceNamed(c) \in Nat /\ PlaceNamed(c) < Places
  BY <1>1 DEF Place
<1>5. Start(c) \in Nat /\ Start(c) <= PlaceNamed(c)
  BY <1>2, <1>3, <1>4, SlotBelow
<1> DEFINE S == {j \in (Start(c) + 1)..Places :
                    /\ j % Width = 0
                    /\ \/ Cardinality(Between(Start(c), j)) >= Count
                       \/ (j - Start(c)) \div Width > 10 * Count
                       \/ j = Places}
<1>6. Places \in S
  BY <1>1, <1>2, <1>4, <1>5
<1>7. S \in SUBSET Nat /\ S \subseteq 1..Places
  BY <1>1, <1>5
<1>8. Min(S) \in S
  <2> HIDE DEF S
  <2> QED
    BY <1>6, <1>7, MinExists
<1>9. End(c) = Min(S)
  BY DEF End
<1>10. End(c) \in 1..Places /\ Start(c) < End(c) /\ End(c) % Width = 0
  <2>1. \A j \in S : j % Width = 0 /\ j \in (Start(c) + 1)..Places
    OBVIOUS
  <2>2. End(c) % Width = 0 /\ End(c) \in (Start(c) + 1)..Places
    BY <1>8, <1>9, <2>1
  <2> QED
    BY <1>1, <1>5, <2>2
<1>11. PlaceNamed(c) < End(c)
  BY <1>2, <1>3, <1>4, <1>10, SlotAbove
<1> QED
  BY <1>5, <1>10, <1>11

-----------------------------------------------------------------------------
(* The digit get_by_value takes for the cursor.  The recursive function is *)
(* there for a table of any size, and the leading digit of a cursor is 0   *)
(* for the cursor 0 only.                                                  *)

Digits(f, n) == f = [c \in 0..n |-> IF c < 10 THEN c ELSE f[c \div 10]]

LEMMA TenthIsLess ==
    ASSUME NEW c \in Nat, c >= 10
    PROVE  c \div 10 \in Nat /\ c \div 10 < c /\ c \div 10 # 0
OBVIOUS

LEMMA DigitsOneMore ==
    ASSUME NEW n \in Nat, NEW f, Digits(f, n)
    PROVE  \E g : Digits(g, n + 1)
<1> DEFINE g == [c \in 0..(n + 1) |-> IF c < 10 THEN c ELSE f[c \div 10]]
<1>1. \A c \in 0..n : g[c] = f[c]
  <2> SUFFICES ASSUME NEW c \in 0..n PROVE g[c] = f[c]
    OBVIOUS
  <2>1. c \in 0..(n + 1)
    OBVIOUS
  <2> QED
    BY <2>1 DEF Digits
<1>2. \A c \in 0..(n + 1) : g[c] = IF c < 10 THEN c ELSE g[c \div 10]
  <2> SUFFICES ASSUME NEW c \in 0..(n + 1)
               PROVE  g[c] = IF c < 10 THEN c ELSE g[c \div 10]
    OBVIOUS
  <2>1. g[c] = IF c < 10 THEN c ELSE f[c \div 10]
    OBVIOUS
  <2>2. c >= 10 => c \div 10 \in 0..n
    BY TenthIsLess
  <2> HIDE DEF g
  <2>3. CASE c < 10
    BY <2>1, <2>3
  <2>4. CASE c >= 10
    BY <1>1, <2>1, <2>2, <2>4
  <2> QED
    BY <2>3, <2>4
<1>3. Digits(g, n + 1)
  <2> DEFINE h == [c \in 0..(n + 1) |-> IF c < 10 THEN c ELSE g[c \div 10]]
  <2>1. \A c \in 0..(n + 1) : g[c] = h[c]
    BY <1>2
  <2>2. g = h
    BY <2>1
  <2> HIDE DEF g
  <2> QED
    BY <2>2 DEF Digits
<1> QED
  BY <1>3

LEMMA DigitsExist ==
    ASSUME NEW n \in Nat
    PROVE  \E f : Digits(f, n)
<1> DEFINE S == {k \in Nat : ~\E f : Digits(f, k)}
<1>1. SUFFICES ASSUME S # {} PROVE FALSE
  OBVIOUS
<1>2. PICK k \in S : \A j \in S : k <= j
  BY <1>1, LeastIn
<1>3. k # 0
  <2>1. Digits([c \in 0..0 |-> 0], 0)
    BY DEF Digits
  <2> QED
    BY <2>1
<1>4. k - 1 \in Nat /\ (k - 1) + 1 = k /\ ~(k <= k - 1)
  BY <1>3
<1>5. PICK f : Digits(f, k - 1)
  BY <1>2, <1>4
<1> QED
  BY <1>4, <1>5, DigitsOneMore

LEMMA DigitStep ==
    \A c \in Place : LeadingDigit[c] = IF c < 10 THEN c ELSE LeadingDigit[c \div 10]
<1> DEFINE n == Places - 1
<1>1. n \in Nat /\ Place = 0..n
  BY ListingAssumption DEF Place
<1>2. \E f : Digits(f, n)
  BY <1>1, DigitsExist
<1>3. Digits(LeadingDigit, n)
  BY <1>1, <1>2 DEF Digits, LeadingDigit
<1> HIDE DEF n
<1> QED
  BY <1>1, <1>3 DEF Digits

LEMMA LeadingDigitIs ==
    \A c \in Place : LeadingDigit[c] \in 0..c /\ (LeadingDigit[c] = 0 <=> c = 0)
<1> DEFINE P(c) == LeadingDigit[c] \in 0..c /\ (LeadingDigit[c] = 0 <=> c = 0)
           S == {c \in Place : ~P(c)}
<1>1. SUFFICES ASSUME S # {} PROVE FALSE
  OBVIOUS
<1>2. Place \subseteq Nat
  BY DEF Place
<1>3. PICK c \in S : \A d \in S : c <= d
  <2>1. S \in SUBSET Nat
    BY <1>2
  <2> HIDE DEF S
  <2> QED
    BY <1>1, <2>1, LeastIn
<1>4. c \in Place /\ c \in Nat /\ ~P(c)
  BY <1>2, <1>3
<1>5. CASE c < 10
  <2>1. LeadingDigit[c] = c
    BY <1>4, <1>5, DigitStep
  <2> QED
    BY <1>4, <2>1
<1>6. CASE c >= 10
  <2> DEFINE d == c \div 10
  <2>1. d \in Nat /\ d < c /\ d # 0
    BY <1>4, <1>6, TenthIsLess
  <2>2. LeadingDigit[c] = LeadingDigit[d]
    BY <1>4, <1>6, DigitStep
  <2> HIDE DEF d
  <2>3. d \in Place
    BY <1>4, <2>1, ListingAssumption DEF Place
  <2>4. P(d)
    <3>1. ~(c <= d)
      BY <1>4, <2>1
    <3> QED
      BY <1>3, <2>3, <3>1
  <2> QED
    BY <1>4, <2>1, <2>2, <2>4
<1> QED
  BY <1>4, <1>5, <1>6

(* Both handlers take the cursor 0, and no other, for the end of the walk. *)
LEMMA CursorReadIs ==
    ASSUME route \in {"get_all", "get_by_value"}, NEW c \in Place
    PROVE  CursorRead(c) \in Place /\ (CursorRead(c) = 0 <=> c = 0)
<1>1. Places \in Nat /\ c \in Nat
  BY ListingAssumption DEF Place
<1>2. LeadingDigit[c] \in 0..c /\ (LeadingDigit[c] = 0 <=> c = 0)
  BY LeadingDigitIs
<1>3. LeadingDigit[c] \in Place
  BY <1>1, <1>2 DEF Place
<1> QED
  BY <1>2, <1>3 DEF CursorRead

(* Different places have different cursors, so every number a handler may  *)
(* send names a place: Place is finite.                                    *)
LEMMA EveryCursorNames == \A c \in Place : PlaceNamed(c) \in Place
<1>1. IsFiniteSet(Place)
  BY ListingAssumption, FS_Interval DEF Place
<1>2. CursorOf \in Injection(Place, Place)
  BY ListingAssumption DEF Injection, IsInjective
<1>3. CursorOf \in Surjection(Place, Place)
  BY <1>1, <1>2, FS_Injection
<1> QED
  BY <1>3 DEF Surjection, PlaceNamed

-----------------------------------------------------------------------------
(* What has been passed: the keys that stayed all along and lie before the *)
(* place the walk has come to are in the answer, or in the batch.          *)
ListedKeys == {e.key : e \in listed}

Passed(place) == \A k \in stayed :
    PlaceOf[k] < place => k \in batch \cup ListedKeys

(* The handler that runs sends back the cursors it was given.              *)
CursorsKept ==
    route = "get_all" \/ (route = "get_by_value" /\ Places <= 10)

Complete ==
    /\ size \in Sizes /\ CursorsKept
    /\ PlaceNamed(cursor) \in Place
    /\ stayed \subseteq KeysOf(orders)
    /\ pc = "scan" => Passed(PlaceNamed(cursor)) /\ batch = {}
    /\ pc = "keys" => Passed(IF cursor = 0 THEN Places ELSE PlaceNamed(cursor))
    /\ pc = "done" /\ open => Passed(Places) /\ batch = {}

LEMMA NextCursor ==
    ASSUME NEW j \in 1..Places
    PROVE  CursorAfter(j) \in Place /\ (CursorAfter(j) = 0 <=> j = Places)
<1>1. Places \in Nat /\ 0 \in Place
  BY ListingAssumption DEF Place
<1>2. CASE j = Places
  BY <1>1, <1>2 DEF CursorAfter
<1>3. CASE j # Places
  <2>1. j \in Place /\ j # 0
    BY <1>1, <1>3 DEF Place
  <2> QED
    BY <1>3, <2>1, CursorsNamePlaces DEF CursorAfter
<1> QED
  BY <1>2, <1>3

LEMMA KeptIs ==
    ASSUME CursorsKept, NEW c \in Place
    PROVE  CursorRead(c) = c
<1>1. CASE route = "get_all"
  BY <1>1 DEF CursorRead
<1>2. CASE route = "get_by_value" /\ Places <= 10
  <2>1. c < 10
    BY <1>2, ListingAssumption DEF Place
  <2>2. LeadingDigit[c] = c
    BY <2>1, DigitStep
  <2> QED
    BY <1>2, <2>2 DEF CursorRead
<1> QED
  BY <1>1, <1>2 DEF CursorsKept

(* Every key lies before the end of the table.                             *)
LEMMA KeysLie == \A k \in KeysOf(orders) : PlaceOf[k] \in Nat /\ PlaceOf[k] < Places
BY ListingAssumption DEF KeysOf, Place

LEMMA ScanCompletes ==
    ASSUME Complete, Scan
    PROVE  Complete'
<1> DEFINE j == End(cursor)
<1>1. /\ Start(cursor) \in Nat /\ Start(cursor) <= PlaceNamed(cursor)
      /\ j \in 1..Places
  BY Walk DEF Complete
<1>a. CursorAfter(j) \in Place
  BY <1>1, NextCursor
<1>2. /\ batch' = Between(Start(cursor), j)
      /\ cursor' = CursorAfter(j)
      /\ pc' = "keys"
      /\ UNCHANGED <<orders, size, route, listed, stayed>>
  <2>1. CursorRead(CursorAfter(j)) = CursorAfter(j)
    BY <1>a, KeptIs DEF Complete
  <2> QED
    BY <2>1 DEF Scan, store, history
<1> HIDE DEF j
<1>3. Places \in Nat
  BY ListingAssumption
<1>4. Passed(PlaceNamed(cursor)) /\ batch = {} /\ PlaceNamed(cursor) \in Nat
  BY DEF Scan, Complete, Place
<1>5. \A k \in stayed : PlaceOf[k] < j => k \in batch' \cup ListedKeys
  <2> SUFFICES ASSUME NEW k \in stayed, PlaceOf[k] < j
               PROVE  k \in batch' \cup ListedKeys
    OBVIOUS
  <2>1. k \in KeysOf(orders) /\ PlaceOf[k] \in Nat
    BY KeysLie DEF Complete
  <2>2. CASE Start(cursor) <= PlaceOf[k]
    BY <1>2, <2>1, <2>2 DEF Between
  <2>3. CASE PlaceOf[k] < Start(cursor)
    BY <1>1, <1>4, <2>1, <2>3 DEF Passed
  <2> QED
    BY <1>1, <2>1, <2>2, <2>3
<1>6. ListedKeys' = ListedKeys
  BY <1>2 DEF ListedKeys
<1>7. CASE j = Places
  <2>1. cursor' = 0 /\ PlaceNamed(cursor') \in Place
    BY <1>2, <1>7, CursorsNamePlaces DEF CursorAfter
  <2> QED
    BY <1>2, <1>5, <1>6, <1>7, <2>1 DEF Complete, CursorsKept, Passed
<1>8. CASE j # Places
  <2>1. j \in Place /\ j # 0
    BY <1>1, <1>3, <1>8 DEF Place
  <2>2. cursor' = CursorOf[j]
    BY <1>2, <1>8 DEF CursorAfter
  <2>3. cursor' # 0 /\ PlaceNamed(cursor') = j
    BY <2>1, <2>2, CursorsNamePlaces
  <2> QED
    BY <1>2, <1>5, <1>6, <2>1, <2>3 DEF Complete, CursorsKept, Passed
<1> QED
  BY <1>7, <1>8

(* A key of the batch becomes an entry, whatever HGETALL says.             *)
LEMMA Reads ==
    ASSUME ListKey \/ ListKeyRefused
    PROVE  \E k \in batch, f \in Replies :
               /\ batch' = batch \ {k}
               /\ listed' = listed \cup {[key |-> k, reply |-> f]}
<1>1. \A k : ReplyTo(k) \in Replies
  BY DEF ReplyTo, Replies
<1>2. "refused" \in Replies
  BY DEF Replies
<1> QED
  BY <1>1, <1>2 DEF ListKey, ListKeyRefused

LEMMA ListingCompletes ==
    ASSUME Complete, ListKey \/ ListKeyRefused
    PROVE  Complete'
<1>1. PICK k \in batch, f \in Replies :
          /\ batch' = batch \ {k}
          /\ listed' = listed \cup {[key |-> k, reply |-> f]}
  BY Reads
<1>2. batch' \cup ListedKeys' = batch \cup ListedKeys
  <2>1. ListedKeys' = ListedKeys \cup {k}
    <3>1. ASSUME NEW x \in ListedKeys' PROVE x \in ListedKeys \cup {k}
      BY <1>1, <3>1 DEF ListedKeys
    <3>2. ASSUME NEW x \in ListedKeys PROVE x \in ListedKeys'
      BY <1>1, <3>2 DEF ListedKeys
    <3>3. k \in ListedKeys'
      <4> DEFINE e == [key |-> k, reply |-> f]
      <4>1. e \in listed' /\ e.key = k
        BY <1>1
      <4> QED
        BY <4>1 DEF ListedKeys
    <3> QED
      BY <3>1, <3>2, <3>3
  <2> QED
    BY <1>1, <2>1
<1>3. pc = "keys" /\ UNCHANGED <<orders, size, route, pc, cursor, stayed>>
  BY DEF ListKey, ListKeyRefused, store, history
<1> QED
  BY <1>2, <1>3 DEF Complete, CursorsKept, Passed

LEMMA CompleteStep ==
    ASSUME Complete, [Next]_vars
    PROVE  Complete'
<1> USE DEF store, history
<1>1. CASE Scan
  BY <1>1, ScanCompletes
<1>2. CASE ListKey \/ ListKeyRefused
  BY <1>2, ListingCompletes
<1>3. CASE ScanBroken
  BY <1>3 DEF ScanBroken, Complete, CursorsKept, Passed, ListedKeys
<1>4. CASE ScanRefused \/ ListKeyBroken
  BY <1>4 DEF ScanRefused, ListKeyBroken, Complete, CursorsKept
<1>5. CASE EndBatch
  BY <1>5 DEF EndBatch, Complete, CursorsKept, Passed, ListedKeys
<1>6. CASE OthersStore
  <2>1. PICK u \in Uuid : orders' = orders \cup {u}
    BY <1>6 DEF OthersStore, Store!Store
  <2>2. KeysOf(orders) \subseteq KeysOf(orders')
    BY <2>1 DEF KeysOf
  <2> QED
    BY <1>6, <2>2 DEF OthersStore, Complete, CursorsKept, Passed, ListedKeys
<1>7. CASE OthersClear
  BY <1>7 DEF OthersClear, Complete, CursorsKept, Passed, ListedKeys
<1>8. CASE Resize
  BY <1>8 DEF Resize, Complete, CursorsKept, Passed, ListedKeys
<1>9. CASE Break \/ UNCHANGED vars
  BY <1>9 DEF Break, vars, Complete, CursorsKept, Passed, ListedKeys
<1> QED
  BY <1>1, <1>2, <1>3, <1>4, <1>5, <1>6, <1>7, <1>8, <1>9 DEF Next, Handler

LEMMA CompleteListed == Complete => CompleteListing
<1> SUFFICES ASSUME Complete, pc = "done", open PROVE stayed \subseteq ListedKeys
  BY DEF CompleteListing, ListedKeys
<1>1. Passed(Places) /\ batch = {} /\ stayed \subseteq KeysOf(orders)
  BY DEF Complete
<1> QED
  BY <1>1, KeysLie DEF Passed

LEMMA CompleteAtFirst ==
    ASSUME Init, CursorsKept
    PROVE  Complete
<1>1. PlaceNamed(cursor) = 0 /\ PlaceNamed(cursor) \in Place
  BY CursorsNamePlaces DEF Init
<1>2. Passed(0)
  BY KeysLie DEF Init, Passed
<1> QED
  BY <1>1, <1>2 DEF Init, Complete

(* A SCAN gets past its cursor.                                            *)
LEMMA ScanGetsOn ==
    ASSUME Complete, Scan
    PROVE  cursor' = 0 \/ PlaceNamed(cursor) < PlaceNamed(cursor')
<1> DEFINE j == End(cursor)
<1>1. j \in 1..Places /\ PlaceNamed(cursor) < j
  BY Walk DEF Complete
<1>2. CursorAfter(j) \in Place
  BY <1>1, NextCursor
<1>3. cursor' = CursorAfter(j)
  BY <1>2, KeptIs DEF Scan, Complete
<1>4. CASE j = Places
  BY <1>3, <1>4 DEF CursorAfter
<1>5. CASE j # Places
  <2>1. j \in Place
    BY <1>1, <1>5, ListingAssumption DEF Place
  <2>2. PlaceNamed(CursorOf[j]) = j
    BY <2>1, CursorsNamePlaces
  <2> QED
    BY <1>1, <1>3, <1>5, <2>2 DEF CursorAfter
<1> QED
  BY <1>4, <1>5

LEMMA HandlerGetsOn ==
    ASSUME Complete, Handler, vars' # vars
    PROVE  GetsOn
<1>1. CASE Scan
  BY <1>1, ScanGetsOn DEF Scan, GetsOn
<1>2. CASE ScanBroken
  <2>1. pc' = pc => UNCHANGED vars
    BY <1>2 DEF ScanBroken, vars
  <2> QED
    BY <1>2, <2>1 DEF ScanBroken, GetsOn
<1>3. CASE ScanRefused \/ ListKeyBroken
  BY <1>3 DEF ScanRefused, ListKeyBroken, GetsOn
<1>4. CASE ListKey \/ ListKeyRefused
  <2>1. PICK k \in batch : batch' = batch \ {k}
    BY <1>4 DEF ListKey, ListKeyRefused
  <2>2. pc = "keys" /\ pc' = "keys" /\ cursor' = cursor
    BY <1>4 DEF ListKey, ListKeyRefused
  <2> QED
    BY <2>1, <2>2 DEF GetsOn
<1>5. CASE EndBatch
  BY <1>5 DEF EndBatch, GetsOn
<1> QED
  BY <1>1, <1>2, <1>3, <1>4, <1>5 DEF Handler

(* GET /orders lists every order that was there all along, however often   *)
(* the key table is resized and however the replies are cut.               *)
THEOREM GetAllIsComplete ==
    ASSUME Routes = {"get_all"}
    PROVE  Spec => []CompleteListing
<1>1. Init => Complete
  <2>1. Init => CursorsKept
    BY DEF Init, CursorsKept
  <2> QED
    BY <2>1, CompleteAtFirst
<1> QED
  BY <1>1, CompleteListed, CompleteStep, PTL DEF Spec

(* So does GET /orders?..., which takes one digit for the cursor, as long  *)
(* as the table has no more slots than there are digits.                   *)
THEOREM SmallTablesComplete ==
    ASSUME Places <= 10
    PROVE  Spec => []CompleteListing
<1>1. Init => Complete
  <2>1. Init => CursorsKept
    BY ListingAssumption DEF Init, CursorsKept
  <2> QED
    BY <2>1, CompleteAtFirst
<1> QED
  BY <1>1, CompleteListed, CompleteStep, PTL DEF Spec

(* A listing cannot be kept from its end, neither by resizes nor by what   *)
(* others store: every SCAN gets past the place its cursor names, so that  *)
(* get_all sends no more of them than the table has places.                *)
THEOREM ListingIsShort ==
    ASSUME Routes = {"get_all"} \/ Places <= 10
    PROVE  Spec => ListingGetsOn
<1>1. Init => Complete
  <2>1. Init => CursorsKept
    BY ListingAssumption DEF Init, CursorsKept
  <2> QED
    BY <2>1, CompleteAtFirst
<1>2. ASSUME Complete, [Next]_vars
      PROVE  [Handler => GetsOn]_vars
  BY <1>2, HandlerGetsOn
<1> QED
  BY <1>1, <1>2, CompleteStep, PTL DEF Spec, ListingGetsOn

-----------------------------------------------------------------------------
(* Types.                                                                  *)

LEMMA KeysType == \A os \in SUBSET Uuid : KeysOf(os) \subseteq Key
BY DEF KeysOf

LEMMA ScanTyped ==
    ASSUME TypeOK, Scan
    PROVE  TypeOK'
<1> USE DEF store, history
<1>1. /\ pc' = "keys" /\ batch' \subseteq KeysOf(orders)
      /\ cursor' = CursorRead(CursorAfter(End(cursor)))
      /\ UNCHANGED <<orders, everStored, size, route, listed, open, stayed,
                     overtaken>>
  BY DEF Scan, Between
<1>2. End(cursor) \in 1..Places
  <2>1. PlaceNamed(cursor) \in Place /\ size \in Sizes
    BY EveryCursorNames DEF TypeOK
  <2> QED
    BY <2>1, Walk
<1>3. CursorAfter(End(cursor)) \in Place
  BY <1>2, NextCursor
<1>4. cursor' \in Place
  <2>1. route \in {"get_all", "get_by_value"}
    BY ListingAssumption DEF TypeOK
  <2> QED
    BY <1>1, <1>3, <2>1, CursorReadIs
<1>5. batch' \subseteq Key
  BY <1>1, KeysType DEF TypeOK
<1> QED
  BY <1>1, <1>4, <1>5 DEF TypeOK

LEMMA TypedStep ==
    ASSUME TypeOK, [Next]_vars
    PROVE  TypeOK'
<1> USE DEF store, history
<1>1. CASE Scan
  BY <1>1, ScanTyped
<1>2. CASE ListKey \/ ListKeyRefused
  <2>1. PICK k \in batch, f \in Replies :
            /\ batch' = batch \ {k}
            /\ listed' = listed \cup {[key |-> k, reply |-> f]}
    BY <1>2, Reads
  <2>2. [key |-> k, reply |-> f] \in Entry
    BY DEF TypeOK, Entry
  <2>3. batch' \subseteq Key /\ listed' \subseteq Entry
    BY <2>1, <2>2 DEF TypeOK
  <2>4. UNCHANGED <<orders, everStored, size, route, pc, cursor, open, stayed, overtaken>>
    BY <1>2 DEF ListKey, ListKeyRefused
  <2> QED
    BY <2>3, <2>4 DEF TypeOK
<1>3. CASE ScanBroken \/ ScanRefused \/ ListKeyBroken \/ EndBatch
  BY <1>3 DEF ScanBroken, ScanRefused, ListKeyBroken, EndBatch, TypeOK
<1>4. CASE OthersStore
  BY <1>4 DEF OthersStore, Store!Store, TypeOK
<1>5. CASE OthersClear
  BY <1>5 DEF OthersClear, Store!Clear, TypeOK
<1>6. CASE Resize \/ Break
  BY <1>6 DEF Resize, Break, TypeOK
<1>7. CASE UNCHANGED vars
  BY <1>7 DEF vars, TypeOK
<1> QED
  BY <1>1, <1>2, <1>3, <1>4, <1>5, <1>6, <1>7 DEF Next, Handler

(* Whatever digit is taken for the cursor, the number sent with the next   *)
(* SCAN is one the server knows.                                           *)
THEOREM TypeCorrect == Spec => []TypeOK
<1>1. Init => TypeOK
  <2> SUFFICES ASSUME Init PROVE TypeOK
    OBVIOUS
  <2>1. stayed \subseteq Key
    BY KeysType DEF Init
  <2>2. cursor \in Place
    BY CursorsNamePlaces DEF Init
  <2> QED
    BY <2>1, <2>2 DEF Init, TypeOK
<1> QED
  BY <1>1, TypedStep, PTL DEF Spec

(* A handler takes the listing for done when, and only when, SCAN has come *)
(* to the end of the table: the digit get_by_value looks at is 0 for no    *)
(* other cursor.  That its walk may never come there is another matter.    *)
EndsWithTable == [][Scan => (cursor' = 0 <=> End(cursor) = Places)]_vars

THEOREM StopsAtTableEnd == Spec => EndsWithTable
<1>1. ASSUME TypeOK, Scan
      PROVE  cursor' = 0 <=> End(cursor) = Places
  <2>1. PlaceNamed(cursor) \in Place /\ size \in Sizes
    BY <1>1, EveryCursorNames DEF TypeOK
  <2>2. End(cursor) \in 1..Places
    BY <2>1, Walk
  <2>3. route \in {"get_all", "get_by_value"}
    BY <1>1, ListingAssumption DEF TypeOK
  <2>4. /\ CursorAfter(End(cursor)) \in Place
        /\ CursorAfter(End(cursor)) = 0 <=> End(cursor) = Places
    BY <2>2, NextCursor
  <2>5. cursor' = CursorRead(CursorAfter(End(cursor)))
    BY <1>1 DEF Scan
  <2> QED
    BY <2>3, <2>4, <2>5, CursorReadIs
<1>2. TypeOK => [Scan => (cursor' = 0 <=> End(cursor) = Places)]_vars
  BY <1>1
<1> QED
  BY <1>2, TypeCorrect, PTL DEF EndsWithTable

=============================================================================
