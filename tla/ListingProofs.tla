---------------------------- MODULE ListingProofs ----------------------------
(***************************************************************************)
(* Proofs about Listing, for any number of products and page sizes: how    *)
(* far pages that are turned while others write may be off, and how far    *)
(* two counts may.                                                         *)
(***************************************************************************)
EXTENDS Listing, FiniteSetTheorems, FunctionTheorems, TLAPS

(* The products that a listing made now would show before product i.       *)
Newer(i) == {j \in seen : products[j].created > products[i].created}

(* Where i stands in it, from 0.                                           *)
Place(i) == Cardinality(Newer(i))

(* Products on the pages behind the client that it has not got: each was   *)
(* moved there by a deletion.                                              *)
Missed == {i \in (walk.there \cap seen) \ walk.got : Place(i) < walk.offset}

(* Products it has got that stand on the pages ahead: each was moved there *)
(* by a product that is new.                                               *)
Again == {i \in walk.got \cap seen : Place(i) >= walk.offset}

Exists == {i \in Id : products[i] # None}

HistoryOK ==
  /\ walk.there \cup walk.got \subseteq Exists \ pending
  /\ walk.at = "idle" => walk = NoWalk
  /\ walk.limit > 0

TurningOK ==
  walk.at = "turning" /\ Untied(Exists) =>
    /\ Cardinality(Missed) <= walk.gone
    /\ walk.listed - Cardinality(walk.got) + Cardinality(Again) <= walk.come

CountOK ==
  stats.step = 1 => Cardinality({i \in seen : products[i].mine}) <= stats.total + stats.born

LInv == TypeOK /\ HistoryOK /\ TurningOK /\ PagesFit /\ CountOK /\ StatsAgree
-----------------------------------------------------------------------------
(* Counting.                                                               *)

(* Every set of ids can be counted.                                        *)
LEMMA Countable ==
  ASSUME NEW S \in SUBSET Id
  PROVE  IsFiniteSet(S) /\ Cardinality(S) \in Nat
<1>1. MaxId \in Int
  BY ListingAssumption
<1>2. IsFiniteSet(Id)
  BY <1>1, FS_Interval DEF Id
<1> QED
  BY <1>2, FS_Subset, FS_CardinalityType

LEMMA Fewer ==
  ASSUME NEW S \in SUBSET Id, NEW T \in SUBSET S
  PROVE  Cardinality(T) <= Cardinality(S)
BY Countable, FS_Subset

LEMMA OneMore ==
  ASSUME NEW S \in SUBSET Id, NEW T \in SUBSET Id, NEW x \in Id, T \subseteq S \cup {x}
  PROVE  Cardinality(T) <= Cardinality(S) + 1
<1>1. IsFiniteSet(S) /\ Cardinality(S) \in Nat /\ Cardinality(T) \in Nat
  BY Countable
<1>2. /\ S \cup {x} \in SUBSET Id
      /\ Cardinality(S \cup {x}) \in {Cardinality(S), Cardinality(S) + 1}
  BY <1>1, FS_AddElement
<1>3. Cardinality(T) <= Cardinality(S \cup {x})
  BY <1>2, Fewer
<1> QED
  BY <1>1, <1>2, <1>3

(* If at most one of the members of T is not in S, T has one more at most. *)
LEMMA OneMoreAtMost ==
  ASSUME NEW S \in SUBSET Id, NEW T \in SUBSET Id, \A x, y \in T \ S : x = y
  PROVE  Cardinality(T) <= Cardinality(S) + 1
<1>1. CASE T \subseteq S
  <2>1. Cardinality(T) <= Cardinality(S)
    BY <1>1, Fewer
  <2>2. Cardinality(T) \in Nat /\ Cardinality(S) \in Nat
    BY Countable
  <2> QED
    BY <2>1, <2>2
<1>2. ASSUME NEW x \in T, x \notin S
      PROVE  Cardinality(T) <= Cardinality(S) + 1
  <2>1. T \subseteq S \cup {x} /\ x \in Id
    BY <1>2
  <2> QED
    BY <2>1, OneMore
<1> QED
  BY <1>1, <1>2

(* Two parts of S that have nothing in common.                             *)
LEMMA TwoParts ==
  ASSUME NEW S \in SUBSET Id, NEW T \in SUBSET S, NEW U \in SUBSET S, T \cap U = {}
  PROVE  Cardinality(T) + Cardinality(U) <= Cardinality(S)
<1>1. /\ IsFiniteSet(T) /\ Cardinality(T) \in Nat
      /\ IsFiniteSet(U) /\ Cardinality(U) \in Nat
      /\ Cardinality(S) \in Nat
  BY Countable
<1>2. Cardinality(T \cup U) = Cardinality(T) + Cardinality(U) - Cardinality(T \cap U)
  BY <1>1, FS_Union
<1>3. Cardinality(T \cap U) = 0
  BY FS_EmptySet
<1>4. Cardinality(T \cup U) <= Cardinality(S)
  BY Fewer
<1> QED
  BY <1>1, <1>2, <1>3, <1>4
-----------------------------------------------------------------------------
(* Places in the listing.                                                  *)

LEMMA Places ==
  ASSUME TypeOK
  PROVE  /\ seen \subseteq Exists /\ Exists \subseteq Id
         /\ \A i \in Exists : products[i] \in Row /\ products[i].created \in Int
         /\ \A i \in Id : Newer(i) \in SUBSET Id /\ Place(i) \in Nat
<1>1. /\ seen \subseteq Exists /\ Exists \subseteq Id
      /\ \A i \in Exists : products[i] \in Row
  BY DEF TypeOK, Exists
<1>2. \A i \in Exists : products[i].created \in 0 .. MaxTime
  BY <1>1 DEF Row
<1>3. \A i \in Exists : products[i].created \in Int
  BY <1>2
<1>4. \A i \in Id : Newer(i) \in SUBSET Id
  BY <1>1 DEF Newer
<1> QED
  BY <1>1, <1>3, <1>4, Countable DEF Place

LEMMA UntiedSubset ==
  ASSUME TypeOK, Untied(Exists)
  PROVE  Untied(seen)
BY Places DEF Untied

(* A product that is older stands further down.                            *)
LEMMA Further ==
  ASSUME TypeOK, NEW i \in seen, NEW j \in seen, products[i].created < products[j].created
  PROVE  Place(j) < Place(i)
<1>1. /\ i \in Id /\ j \in Id /\ products[i].created \in Int /\ products[j].created \in Int
      /\ \A k \in seen : products[k].created \in Int
      /\ Newer(i) \in SUBSET Id /\ Newer(j) \in SUBSET Id
      /\ Place(i) \in Nat /\ Place(j) \in Nat
  BY Places
<1>2. /\ Newer(j) \subseteq Newer(i) /\ {j} \subseteq Newer(i) /\ Newer(j) \cap {j} = {}
  BY <1>1 DEF Newer
<1>3. Cardinality(Newer(j)) + Cardinality({j}) <= Cardinality(Newer(i))
  BY <1>1, <1>2, TwoParts
<1>4. Cardinality({j}) = 1
  BY FS_Singleton
<1> QED
  BY <1>1, <1>3, <1>4 DEF Place

(* No two products stand in the same place.                                *)
LEMMA OnePlace ==
  ASSUME TypeOK, Untied(seen), NEW i \in seen, NEW j \in seen, Place(i) = Place(j)
  PROVE  i = j
<1>1. i \in Id /\ j \in Id /\ products[i].created \in Int /\ products[j].created \in Int
      /\ Place(i) \in Nat /\ Place(j) \in Nat
  BY Places
<1>2. ~(products[i].created < products[j].created) /\ ~(products[j].created < products[i].created)
  BY <1>1, Further
<1> QED
  BY <1>1, <1>2 DEF Untied

(* The k-th line of the listing is the product whose place is k - 1.       *)
LEMMA Lines ==
  ASSUME TypeOK, Untied(seen), NEW s \in Orders(seen)
  PROVE  /\ Cardinality(seen) \in Nat /\ s \in [1 .. Cardinality(seen) -> seen]
         /\ \A k \in 1 .. Cardinality(seen) : Place(s[k]) = k - 1
         /\ \A k, m \in 1 .. Cardinality(seen) : s[k] = s[m] => k = m
         /\ \A i \in seen : \E k \in 1 .. Cardinality(seen) : s[k] = i
<1> DEFINE N == Cardinality(seen)
<1>1. seen \in SUBSET Id /\ IsFiniteSet(seen) /\ N \in Nat
  BY Places, Countable
<1>2. /\ s \in [1 .. N -> seen]
      /\ \A k, m \in 1 .. N : k < m => s[k] # s[m] /\ Before(s[k], s[m])
  BY DEF Orders
<1> HIDE DEF N
<1>3. \A k, m \in 1 .. N : s[k] = s[m] => k = m
  BY <1>1, <1>2
<1>4. s \in Injection(1 .. N, seen)
  BY <1>2, <1>3, Fun_IsInj
<1>5. Cardinality(1 .. N) = N
  BY <1>1, FS_Interval
<1>6. s \in Surjection(1 .. N, seen)
  BY <1>1, <1>4, <1>5, FS_Injection DEF N
<1>7. \A i \in seen : \E k \in 1 .. N : s[k] = i
  BY <1>6 DEF Surjection
<1>8. ASSUME NEW k \in 1 .. N, NEW m \in 1 .. N, k < m
      PROVE  products[s[k]].created > products[s[m]].created
  <2>1. s[k] \in seen /\ s[m] \in seen /\ s[k] # s[m]
        /\ products[s[k]].created >= products[s[m]].created
    BY <1>2, <1>8 DEF Before
  <2>2. products[s[k]].created \in Int /\ products[s[m]].created \in Int
    BY <2>1, Places
  <2>3. products[s[k]].created # products[s[m]].created
    BY <2>1 DEF Untied
  <2> QED
    BY <2>1, <2>2, <2>3
<1>9. ASSUME NEW k \in 1 .. N
      PROVE  Place(s[k]) = k - 1
  <2> DEFINE f == [m \in 1 .. k - 1 |-> s[m]]
  <2>1. 1 .. k - 1 \subseteq 1 .. N /\ k - 1 \in Nat
    BY <1>1
  <2>2. \A m \in 1 .. k - 1 : s[m] \in Newer(s[k])
    <3> SUFFICES ASSUME NEW m \in 1 .. k - 1
                 PROVE  s[m] \in Newer(s[k])
      OBVIOUS
    <3>1. m \in 1 .. N /\ m < k
      BY <2>1
    <3> QED
      BY <1>2, <1>8, <3>1 DEF Newer
  <2>3. \A i \in Newer(s[k]) : \E m \in 1 .. k - 1 : s[m] = i
    <3> SUFFICES ASSUME NEW i \in Newer(s[k])
                 PROVE  \E m \in 1 .. k - 1 : s[m] = i
      OBVIOUS
    <3>1. i \in seen /\ products[i].created > products[s[k]].created /\ s[k] \in seen
      BY <1>2 DEF Newer
    <3>2. PICK m \in 1 .. N : s[m] = i
      BY <1>7, <3>1
    <3>3. products[i].created \in Int /\ products[s[k]].created \in Int
      BY <3>1, Places
    <3>4. m # k /\ ~(k < m)
      BY <1>8, <3>1, <3>2, <3>3
    <3>5. m \in 1 .. k - 1
      BY <1>1, <3>4
    <3> QED
      BY <3>2, <3>5
  <2>4. f \in Bijection(1 .. k - 1, Newer(s[k]))
    <3>1. f \in [1 .. k - 1 -> Newer(s[k])] /\ \A m \in 1 .. k - 1 : f[m] = s[m]
      BY <2>2
    <3>2. \A a, b \in 1 .. k - 1 : f[a] = f[b] => a = b
      BY <1>3, <2>1, <3>1
    <3>3. \A i \in Newer(s[k]) : \E m \in 1 .. k - 1 : f[m] = i
      BY <2>3, <3>1
    <3> QED
      BY <3>1, <3>2, <3>3, Fun_IsBij
  <2>5. IsFiniteSet(1 .. k - 1) /\ Cardinality(1 .. k - 1) = k - 1
    BY <2>1, FS_Interval
  <2>6. ExistsBijection(1 .. k - 1, Newer(s[k]))
    BY <2>4 DEF ExistsBijection
  <2> QED
    BY <2>5, <2>6, FS_Bijection DEF Place
<1> QED
  BY <1>1, <1>2, <1>3, <1>7, <1>9 DEF N
(* A page on which line k or a later one should follow is full.            *)
LEMMA FullPage ==
  ASSUME NEW o \in Nat, NEW l \in Nat, NEW n \in Nat, NEW k \in 1 .. n, ~(k - 1 < o + l)
  PROVE  \A m \in 1 .. l : o + m \in 1 .. n /\ (o + m) - o \in 1 .. l
OBVIOUS

(* The page from a line on, and what a page that is not full says.         *)
LEMMA Pages ==
  ASSUME TypeOK, HistoryOK, Untied(seen), NEW s \in Orders(seen), NEW page,
         page = {s[k] : k \in {n \in DOMAIN s : n - walk.offset \in 1 .. walk.limit}}
  PROVE  /\ page = {i \in seen : walk.offset <= Place(i) /\ Place(i) < walk.offset + walk.limit}
         /\ Cardinality(page) < walk.limit =>
              \A i \in seen : Place(i) < walk.offset + walk.limit
<1> DEFINE N == Cardinality(seen)
<1>1. /\ N \in Nat /\ s \in [1 .. N -> seen]
      /\ \A k \in 1 .. N : Place(s[k]) = k - 1
      /\ \A k, m \in 1 .. N : s[k] = s[m] => k = m
      /\ \A i \in seen : \E k \in 1 .. N : s[k] = i
  BY Lines
<1>2. walk.offset \in Nat /\ walk.limit \in Nat
  BY DEF TypeOK, Walk
<1> HIDE DEF N
<1>3. /\ \A i \in page : \E k \in 1 .. N : s[k] = i /\ k - walk.offset \in 1 .. walk.limit
      /\ \A k \in 1 .. N : k - walk.offset \in 1 .. walk.limit => s[k] \in page
  BY <1>1
<1>4. page = {i \in seen : walk.offset <= Place(i) /\ Place(i) < walk.offset + walk.limit}
  <2>1. ASSUME NEW i \in page
        PROVE  i \in seen /\ walk.offset <= Place(i) /\ Place(i) < walk.offset + walk.limit
    <3>1. PICK k \in 1 .. N : s[k] = i /\ k - walk.offset \in 1 .. walk.limit
      BY <1>3
    <3>2. i \in seen /\ Place(i) = k - 1
      BY <1>1, <3>1
    <3> QED
      BY <1>1, <1>2, <3>1, <3>2
  <2>2. ASSUME NEW i \in seen, walk.offset <= Place(i), Place(i) < walk.offset + walk.limit
        PROVE  i \in page
    <3>1. PICK k \in 1 .. N : s[k] = i
      BY <1>1
    <3>2. Place(i) = k - 1
      BY <1>1, <3>1
    <3>3. k - walk.offset \in 1 .. walk.limit
      BY <1>1, <1>2, <2>2, <3>2
    <3> QED
      BY <1>3, <3>1, <3>3
  <2> QED
    BY <2>1, <2>2
<1>5. ASSUME NEW i \in seen, ~(Place(i) < walk.offset + walk.limit)
      PROVE  walk.limit <= Cardinality(page)
  <2>1. PICK k \in 1 .. N : s[k] = i
    BY <1>1
  <2>2. Place(i) = k - 1
    BY <1>1, <2>1
  <2>3. \A m \in 1 .. walk.limit :
          walk.offset + m \in 1 .. N /\ (walk.offset + m) - walk.offset \in 1 .. walk.limit
    <3>1. ~(k - 1 < walk.offset + walk.limit) /\ N \in Nat
      BY <1>1, <1>5, <2>2
    <3> QED
      BY <1>2, <3>1, FullPage
  <2> DEFINE f == [m \in 1 .. walk.limit |-> s[walk.offset + m]]
  <2>4. f \in [1 .. walk.limit -> page]
    BY <1>3, <2>3
  <2>5. \A a, b \in 1 .. walk.limit : f[a] = f[b] => a = b
    <3> SUFFICES ASSUME NEW a \in 1 .. walk.limit, NEW b \in 1 .. walk.limit, f[a] = f[b]
                 PROVE  a = b
      OBVIOUS
    <3>1. s[walk.offset + a] = s[walk.offset + b]
      OBVIOUS
    <3>2. walk.offset + a = walk.offset + b
      BY <1>1, <2>3, <3>1
    <3> QED
      BY <1>2, <3>2
  <2>6. f \in Injection(1 .. walk.limit, page)
    BY <2>4, <2>5, Fun_IsInj
  <2>7. page \in SUBSET Id
    BY <1>4, Places
  <2>8. Cardinality(1 .. walk.limit) <= Cardinality(page)
    BY <2>6, <2>7, Countable, FS_Injection
  <2>9. Cardinality(1 .. walk.limit) = walk.limit
    BY <1>2, FS_Interval
  <2> QED
    BY <2>8, <2>9
<1>6. Cardinality(page) \in Nat
  <2>1. page \in SUBSET Id
    BY <1>4, Places
  <2> QED
    BY <2>1, Countable
<1> QED
  BY <1>2, <1>4, <1>5, <1>6
-----------------------------------------------------------------------------
(* The writers.                                                            *)

(* A step that keeps the products that exist and when they were created.   *)
Keeps == \A i \in Exists : i \in Exists' /\ products'[i].created = products[i].created

(* If nobody has the same time after such a step, nobody had it before.    *)
LEMMA UntiedBefore ==
  ASSUME TypeOK, Keeps, Untied(Exists)'
  PROVE  Untied(Exists) /\ Untied(seen)
<1>1. Untied(Exists)
  BY DEF Keeps, Untied
<1> QED
  BY <1>1, UntiedSubset

(* Places change only when what is seen does.                              *)
LEMMA PlacesStay ==
  ASSUME TypeOK, Keeps, seen' = seen
  PROVE  \A i \in seen : Place(i)' = Place(i)
<1>1. \A i \in seen : products'[i].created = products[i].created
  BY Places DEF Keeps
<1>2. \A i \in seen : Newer(i)' = Newer(i)
  BY <1>1 DEF Newer
<1> QED
  BY <1>2 DEF Place

(* A step that leaves the walk alone, and what is seen.                    *)
LEMMA WalkStays ==
  ASSUME LInv, Keeps, seen' = seen, walk' = walk, pending' \cap Exists \subseteq pending
  PROVE  HistoryOK' /\ TurningOK' /\ PagesFit'
<1> USE DEF LInv
<1>1. HistoryOK'
  BY DEF HistoryOK, NoWalk, Keeps, Exists
<1>2. Missed' = Missed /\ Again' = Again
  BY PlacesStay DEF Missed, Again
<1>3. TurningOK'
  BY <1>2, UntiedBefore DEF TurningOK
<1>4. PagesFit'
  BY UntiedBefore DEF PagesFit, Exists
<1> QED
  BY <1>1, <1>3, <1>4

(* One product less: nobody's place moves by more than one.                *)
LEMMA DeleteMoves ==
  ASSUME TypeOK, products' = products, NEW d \in seen, seen' = seen \ {d}
  PROVE  \A i \in seen' : Place(i)' \in Nat /\ Place(i) \in {Place(i)', Place(i)' + 1}
<1> SUFFICES ASSUME NEW i \in seen'
             PROVE  Place(i)' \in Nat /\ Place(i) \in {Place(i)', Place(i)' + 1}
  OBVIOUS
<1>1. Newer(i)' = Newer(i) \ {d}
  BY DEF Newer
<1>2. i \in Id /\ Newer(i) \in SUBSET Id
  BY Places
<1>3. IsFiniteSet(Newer(i)) /\ Cardinality(Newer(i)) \in Nat
  BY <1>2, Countable
<1>4. /\ Cardinality(Newer(i) \ {d}) \in {Cardinality(Newer(i)) - 1, Cardinality(Newer(i))}
      /\ Cardinality(Newer(i) \ {d}) \in Nat
  BY <1>2, <1>3, FS_RemoveElement, Countable
<1> QED
  BY <1>1, <1>3, <1>4 DEF Place

(* One more: just as little.                                               *)
LEMMA CommitMoves ==
  ASSUME TypeOK, products' = products, NEW c \in Id, seen' = seen \cup {c}
  PROVE  \A i \in seen : Place(i)' \in {Place(i), Place(i) + 1}
<1> SUFFICES ASSUME NEW i \in seen
             PROVE  Place(i)' \in {Place(i), Place(i) + 1}
  OBVIOUS
<1>1. Newer(i)' = Newer(i) \/ Newer(i)' = Newer(i) \cup {c}
  BY DEF Newer
<1>2. i \in Id /\ Newer(i) \in SUBSET Id
  BY Places
<1>3. IsFiniteSet(Newer(i)) /\ Cardinality(Newer(i)) \in Nat
  BY <1>2, Countable
<1>4. Cardinality(Newer(i) \cup {c}) \in {Cardinality(Newer(i)), Cardinality(Newer(i)) + 1}
  BY <1>3, FS_AddElement
<1> QED
  BY <1>1, <1>3, <1>4 DEF Place
LEMMA InsertSafe ==
  ASSUME LInv, NEW i \in Id, NEW mine \in BOOLEAN, Insert(i, mine)
  PROVE  LInv'
<1> USE DEF LInv
<1>1. products[i] = None /\ i \notin Exists /\ i \notin seen
  BY DEF Insert, TypeOK, Exists
<1>2. NewRow(mine) \in Row /\ NewRow(mine) # None
  BY ListingAssumption DEF NewRow, Row, TypeOK
<1>3. /\ products' = [products EXCEPT ![i] = NewRow(mine)]
      /\ pending' = pending \cup {i} /\ UNCHANGED <<seen, walk, stats, now>>
  BY DEF Insert
<1>4. products'[i] = NewRow(mine) /\ \A j \in Id \ {i} : products'[j] = products[j]
  BY <1>3 DEF TypeOK
<1>5. TypeOK'
  BY <1>1, <1>2, <1>3, <1>4 DEF TypeOK
<1>6. Keeps
  BY <1>1, <1>4 DEF Keeps, Exists
<1>7. HistoryOK' /\ TurningOK' /\ PagesFit'
  BY <1>1, <1>3, <1>6, WalkStays
<1>8. CountOK' /\ StatsAgree'
  <2>1. \A j \in seen : products'[j].mine = products[j].mine
    BY <1>1, <1>4, Places
  <2>2. {j \in seen : products[j].mine}' = {j \in seen : products[j].mine}
    BY <1>3, <2>1
  <2> QED
    BY <1>3, <2>2 DEF CountOK, StatsAgree
<1> QED
  BY <1>5, <1>7, <1>8

LEMMA UpdateSafe ==
  ASSUME LInv, NEW i \in Id, Update(i)
  PROVE  LInv'
<1> USE DEF LInv
<1>1. i \in seen /\ products[i] \in Row /\ products[i] # None
  BY DEF Update, TypeOK
<1>2. PICK row : row = [products[i] EXCEPT !.updated = now]
  OBVIOUS
<1>3. /\ row \in Row /\ row # None
      /\ row.created = products[i].created /\ row.mine = products[i].mine
  BY <1>1, <1>2, ListingAssumption DEF Row, TypeOK
<1>4. products' = [products EXCEPT ![i] = row] /\ UNCHANGED <<pending, seen, walk, stats, now>>
  BY <1>2 DEF Update
<1>5. products'[i] = row /\ \A j \in Id \ {i} : products'[j] = products[j]
  BY <1>4 DEF TypeOK
<1>6. TypeOK'
  BY <1>1, <1>3, <1>4, <1>5 DEF TypeOK
<1>7. Keeps
  BY <1>1, <1>3, <1>5 DEF Keeps, Exists
<1>8. HistoryOK' /\ TurningOK' /\ PagesFit'
  BY <1>4, <1>7, WalkStays
<1>9. CountOK' /\ StatsAgree'
  <2>1. \A j \in seen : products'[j].mine = products[j].mine
    BY <1>3, <1>5, Places
  <2>2. {j \in seen : products[j].mine}' = {j \in seen : products[j].mine}
    BY <1>4, <2>1
  <2> QED
    BY <1>4, <2>2 DEF CountOK, StatsAgree
<1> QED
  BY <1>6, <1>8, <1>9

(* A deletion moves one product at most to the pages behind.               *)
LEMMA DeleteSafe ==
  ASSUME LInv, NEW d \in Id, Delete(d)
  PROVE  LInv'
<1> USE DEF LInv
<1>1. d \in seen /\ seen' = seen \ {d} /\ UNCHANGED <<products, pending, stats, now>>
  BY DEF Delete
<1>2. /\ walk' \in Walk
      /\ walk'.gone = IF walk.at = "turning" THEN walk.gone + 1 ELSE walk.gone
      /\ walk'.at = walk.at /\ walk'.limit = walk.limit /\ walk'.offset = walk.offset
      /\ walk'.got = walk.got /\ walk'.listed = walk.listed /\ walk'.there = walk.there
      /\ walk'.come = walk.come /\ (walk.at # "turning" => walk' = walk)
  BY DEF Delete, TypeOK, Walk
<1>3. TypeOK'
  BY <1>1, <1>2 DEF TypeOK
<1>4. HistoryOK'
  BY <1>1, <1>2 DEF HistoryOK, Exists, NoWalk
<1>5. \A i \in seen' : Place(i)' \in Nat /\ Place(i) \in {Place(i)', Place(i)' + 1}
  BY <1>1, DeleteMoves
<1>6. Keeps
  BY <1>1 DEF Keeps, Exists
<1>7. /\ walk.gone \in Nat /\ walk.come \in Nat /\ walk.listed \in Nat /\ walk.offset \in Nat
      /\ walk.got \in SUBSET Id /\ Cardinality(walk.got) \in Nat
      /\ Missed \in SUBSET Id /\ Missed' \in SUBSET Id
      /\ Again \in SUBSET Id /\ Again' \in SUBSET Id
  <2>1. walk.got \in SUBSET Id /\ walk.there \in SUBSET Id
    BY DEF TypeOK, Walk
  <2>2. /\ Missed \in SUBSET Id /\ Missed' \in SUBSET Id
        /\ Again \in SUBSET Id /\ Again' \in SUBSET Id
    BY <1>2, <2>1 DEF Missed, Again
  <2> QED
    BY <2>1, <2>2, Countable DEF TypeOK, Walk
<1>8. \A i \in seen' : i \in Id /\ i \in seen /\ Place(i) \in Nat
  BY <1>1, Places
<1>9. TurningOK'
  <2> SUFFICES ASSUME walk.at = "turning", Untied(Exists)'
               PROVE  /\ Cardinality(Missed') <= walk.gone + 1
                      /\ walk.listed - Cardinality(walk.got) + Cardinality(Again') <= walk.come
    BY <1>2 DEF TurningOK
  <2>1. Untied(Exists) /\ Untied(seen)
    BY <1>6, UntiedBefore
  <2>2. \A x, y \in Missed' \ Missed : x = y
    <3>1. \A x \in Missed' \ Missed : x \in seen /\ Place(x) = walk.offset
      BY <1>1, <1>2, <1>5, <1>7, <1>8 DEF Missed
    <3> QED
      BY <2>1, <3>1, OnePlace
  <2>3. Cardinality(Missed') <= Cardinality(Missed) + 1
    BY <1>7, <2>2, OneMoreAtMost
  <2>4. Again' \subseteq Again
    BY <1>1, <1>2, <1>5, <1>7, <1>8 DEF Again
  <2>5. Cardinality(Again') <= Cardinality(Again)
    BY <1>7, <2>4, Fewer
  <2>6. /\ Cardinality(Missed) \in Nat /\ Cardinality(Missed') \in Nat
        /\ Cardinality(Again) \in Nat /\ Cardinality(Again') \in Nat
    BY <1>7, Countable
  <2> QED
    BY <1>7, <2>1, <2>3, <2>5, <2>6 DEF TurningOK
<1>10. PagesFit'
  <2> SUFFICES ASSUME walk.at = "end", Untied(Exists)'
               PROVE  /\ Cardinality((walk.there \cap seen') \ walk.got) <= walk.gone
                      /\ walk.listed - Cardinality(walk.got) <= walk.come
    BY <1>2 DEF PagesFit, Exists
  <2>1. Untied(Exists)
    BY <1>6, UntiedBefore
  <2>2. /\ Cardinality((walk.there \cap seen) \ walk.got) <= walk.gone
        /\ walk.listed - Cardinality(walk.got) <= walk.come
    BY <2>1 DEF PagesFit, Exists
  <2>3. PICK S : S = (walk.there \cap seen) \ walk.got
    OBVIOUS
  <2>4. PICK T : T = (walk.there \cap seen') \ walk.got
    OBVIOUS
  <2>5. S \in SUBSET Id /\ T \in SUBSET S
    BY <1>1, <2>3, <2>4, Places
  <2>6. Cardinality(T) <= Cardinality(S) /\ Cardinality(S) \in Nat /\ Cardinality(T) \in Nat
    BY <2>5, Fewer, Countable
  <2> QED
    BY <1>7, <2>2, <2>3, <2>4, <2>6
<1>11. CountOK' /\ StatsAgree'
  <2>1. PICK S : S = {i \in seen : products[i].mine}
    OBVIOUS
  <2>2. PICK T : T = {i \in seen' : products[i].mine}
    OBVIOUS
  <2>3. S \in SUBSET Id /\ T \in SUBSET S
    BY <1>1, <2>1, <2>2, Places
  <2>4. Cardinality(T) <= Cardinality(S) /\ Cardinality(S) \in Nat /\ Cardinality(T) \in Nat
    BY <2>3, Fewer, Countable
  <2>5. stats.total \in Nat /\ stats.born \in Nat
    BY DEF TypeOK, Stats
  <2>6. CountOK'
    BY <1>1, <2>1, <2>2, <2>4, <2>5 DEF CountOK
  <2>7. StatsAgree'
    BY <1>1 DEF StatsAgree
  <2> QED
    BY <2>6, <2>7
<1> QED
  BY <1>3, <1>4, <1>9, <1>10, <1>11

(* A new product moves one product at most to the pages ahead.             *)
LEMMA CommitSafe ==
  ASSUME LInv, NEW c \in Id, Commit(c)
  PROVE  LInv'
<1> USE DEF LInv
<1>1. /\ c \in pending /\ pending' = pending \ {c}
      /\ seen' = seen \cup {c} /\ UNCHANGED <<products, now>>
  BY DEF Commit
<1>2. /\ walk' \in Walk
      /\ walk'.come = IF walk.at = "turning" THEN walk.come + 1 ELSE walk.come
      /\ walk'.at = walk.at /\ walk'.limit = walk.limit /\ walk'.offset = walk.offset
      /\ walk'.got = walk.got /\ walk'.listed = walk.listed /\ walk'.there = walk.there
      /\ walk'.gone = walk.gone /\ (walk.at # "turning" => walk' = walk)
  BY DEF Commit, TypeOK, Walk
<1>3. /\ stats' \in Stats /\ stats'.step = stats.step
      /\ stats'.total = stats.total /\ stats'.mine = stats.mine
      /\ stats'.born = IF stats.step = 1 /\ products[c].mine THEN stats.born + 1 ELSE stats.born
  BY DEF Commit, TypeOK, Stats
<1>4. TypeOK'
  BY <1>1, <1>2, <1>3 DEF TypeOK
<1>5. HistoryOK' /\ c \notin walk.there /\ c \notin walk.got
  BY <1>1, <1>2 DEF HistoryOK, Exists, NoWalk
<1>6. \A i \in seen : Place(i)' \in {Place(i), Place(i) + 1}
  BY <1>1, CommitMoves
<1>7. Keeps
  BY <1>1 DEF Keeps, Exists
<1>8. /\ walk.gone \in Nat /\ walk.come \in Nat /\ walk.listed \in Nat /\ walk.offset \in Nat
      /\ walk.got \in SUBSET Id /\ Cardinality(walk.got) \in Nat
      /\ Missed \in SUBSET Id /\ Missed' \in SUBSET Id
      /\ Again \in SUBSET Id /\ Again' \in SUBSET Id
  <2>1. walk.got \in SUBSET Id /\ walk.there \in SUBSET Id
    BY DEF TypeOK, Walk
  <2>2. /\ Missed \in SUBSET Id /\ Missed' \in SUBSET Id
        /\ Again \in SUBSET Id /\ Again' \in SUBSET Id
    BY <1>2, <2>1 DEF Missed, Again
  <2> QED
    BY <2>1, <2>2, Countable DEF TypeOK, Walk
<1>9. \A i \in seen : i \in Id /\ Place(i) \in Nat
  BY Places
<1>10. TurningOK'
  <2> SUFFICES ASSUME walk.at = "turning", Untied(Exists)'
               PROVE  /\ Cardinality(Missed') <= walk.gone
                      /\ walk.listed - Cardinality(walk.got) + Cardinality(Again') <= walk.come + 1
    BY <1>2 DEF TurningOK
  <2>1. Untied(Exists) /\ Untied(seen)
    BY <1>7, UntiedBefore
  <2>2. Missed' \subseteq Missed
    BY <1>1, <1>2, <1>5, <1>6, <1>8, <1>9 DEF Missed
  <2>3. Cardinality(Missed') <= Cardinality(Missed)
    BY <1>8, <2>2, Fewer
  <2>4. \A x, y \in Again' \ Again : x = y
    <3>1. \A x \in Again' \ Again : x \in seen /\ Place(x) = walk.offset - 1
      BY <1>1, <1>2, <1>5, <1>6, <1>8, <1>9 DEF Again
    <3> QED
      BY <2>1, <3>1, OnePlace
  <2>5. Cardinality(Again') <= Cardinality(Again) + 1
    BY <1>8, <2>4, OneMoreAtMost
  <2>6. /\ Cardinality(Missed) \in Nat /\ Cardinality(Missed') \in Nat
        /\ Cardinality(Again) \in Nat /\ Cardinality(Again') \in Nat
    BY <1>8, Countable
  <2> QED
    BY <1>8, <2>1, <2>3, <2>5, <2>6 DEF TurningOK
<1>11. PagesFit'
  <2> SUFFICES ASSUME walk.at = "end", Untied(Exists)'
               PROVE  /\ Cardinality((walk.there \cap seen') \ walk.got) <= walk.gone
                      /\ walk.listed - Cardinality(walk.got) <= walk.come
    BY <1>2 DEF PagesFit, Exists
  <2>1. Untied(Exists)
    BY <1>7, UntiedBefore
  <2>2. (walk.there \cap seen') \ walk.got = (walk.there \cap seen) \ walk.got
    BY <1>1, <1>5
  <2> QED
    BY <2>1, <2>2 DEF PagesFit, Exists
<1>12. CountOK' /\ StatsAgree'
  <2>1. PICK S : S = {i \in seen : products[i].mine}
    OBVIOUS
  <2>2. PICK T : T = {i \in seen' : products[i].mine}
    OBVIOUS
  <2>3. /\ S \in SUBSET Id /\ T \in SUBSET Id
        /\ T \subseteq S \cup {c} /\ (~products[c].mine => T \subseteq S)
    BY <1>1, <2>1, <2>2, Places
  <2>4. /\ Cardinality(S) \in Nat /\ Cardinality(T) \in Nat
        /\ Cardinality(T) <= Cardinality(S) + 1
        /\ ~products[c].mine => Cardinality(T) <= Cardinality(S)
    BY <2>3, OneMore, Fewer, Countable
  <2>5. stats.total \in Nat /\ stats.born \in Nat
    BY DEF TypeOK, Stats
  <2>6. CountOK'
    <3> SUFFICES ASSUME stats.step = 1
                 PROVE  Cardinality(T) <= stats'.total + stats'.born
      BY <1>1, <1>3, <2>2 DEF CountOK
    <3>1. Cardinality(S) <= stats.total + stats.born
      BY <2>1 DEF CountOK
    <3> QED
      BY <1>3, <2>4, <2>5, <3>1
  <2>7. StatsAgree'
    BY <1>3 DEF StatsAgree
  <2> QED
    BY <2>6, <2>7
<1> QED
  BY <1>4, <1>5, <1>10, <1>11, <1>12-----------------------------------------------------------------------------
(* The client that turns pages.                                            *)

LEMMA StartWalkSafe ==
  ASSUME LInv, NEW n \in Limit, StartWalk(n)
  PROVE  LInv'
<1> USE DEF LInv
<1>1. UNCHANGED <<products, pending, seen, stats, now>>
  BY DEF StartWalk
<1>2. n \in Nat /\ n > 0
  BY ListingAssumption
<1>3. seen \in SUBSET Id
  BY Places
<1>4. /\ walk' \in Walk /\ walk'.at = "turning" /\ walk'.limit = n /\ walk'.there = seen
      /\ walk'.offset = 0 /\ walk'.got = {} /\ walk'.listed = 0 /\ walk'.gone = 0 /\ walk'.come = 0
  BY <1>2, <1>3 DEF StartWalk, Walk, NoWalk
<1>5. TypeOK'
  BY <1>1, <1>4 DEF TypeOK
<1>6. HistoryOK'
  BY <1>1, <1>2, <1>4 DEF HistoryOK, TypeOK, Exists
<1>7. TurningOK'
  <2>1. Missed' = {}
    <3>1. \A i \in seen : Place(i)' = Place(i) /\ Place(i) \in Nat
      BY <1>1, Places DEF Place, Newer
    <3> QED
      BY <1>1, <1>4, <3>1 DEF Missed
  <2>2. Again' = {}
    BY <1>4 DEF Again
  <2> QED
    BY <1>4, <2>1, <2>2, FS_EmptySet DEF TurningOK
<1>8. PagesFit' /\ CountOK' /\ StatsAgree'
  BY <1>1, <1>4 DEF PagesFit, CountOK, StatsAgree
<1> QED
  BY <1>5, <1>6, <1>7, <1>8

LEMMA TurnPageSafe ==
  ASSUME LInv, TurnPage
  PROVE  LInv'
<1> USE DEF LInv
<1>1. walk.at = "turning" /\ UNCHANGED <<products, pending, seen, stats, now>>
  BY DEF TurnPage
<1>2. PICK s \in Orders(seen) :
        LET page == {s[k] : k \in {n \in DOMAIN s : n - walk.offset \in 1 .. walk.limit}} IN
        walk' = [walk EXCEPT !.got = @ \cup page, !.listed = @ + Cardinality(page),
                             !.offset = @ + walk.limit,
                             !.at = IF Cardinality(page) < walk.limit THEN "end" ELSE @]
  BY DEF TurnPage
<1>3. PICK page : page = {s[k] : k \in {n \in DOMAIN s : n - walk.offset \in 1 .. walk.limit}}
  OBVIOUS
<1>4. page \subseteq seen /\ page \in SUBSET Id /\ Cardinality(page) \in Nat
  <2>1. page \subseteq seen /\ seen \in SUBSET Id
    BY <1>3, Places DEF Orders
  <2> QED
    BY <2>1, Countable
<1>5. /\ walk.limit \in Nat /\ walk.offset \in Nat /\ walk.listed \in Nat
      /\ walk.gone \in Nat /\ walk.come \in Nat
      /\ walk.got \in SUBSET Id /\ walk.there \in SUBSET Id
  BY DEF TypeOK, Walk
<1>6. PICK at \in {"turning", "end"}, got \in SUBSET Id, listed \in Nat, offset \in Nat :
        /\ at = IF Cardinality(page) < walk.limit THEN "end" ELSE "turning"
        /\ got = walk.got \cup page
        /\ listed = walk.listed + Cardinality(page)
        /\ offset = walk.offset + walk.limit
  <2>1. /\ walk.got \cup page \in SUBSET Id
        /\ walk.listed + Cardinality(page) \in Nat
        /\ walk.offset + walk.limit \in Nat
        /\ (IF Cardinality(page) < walk.limit THEN "end" ELSE "turning") \in {"turning", "end"}
    BY <1>4, <1>5
  <2> QED
    BY <2>1
<1>7. /\ walk' \in Walk
      /\ walk'.at = IF Cardinality(page) < walk.limit THEN "end" ELSE "turning"
      /\ walk'.limit = walk.limit /\ walk'.offset = walk.offset + walk.limit
      /\ walk'.got = walk.got \cup page /\ walk'.listed = walk.listed + Cardinality(page)
      /\ walk'.there = walk.there /\ walk'.gone = walk.gone /\ walk'.come = walk.come
  <2>1. walk' = [walk EXCEPT !.got = got, !.listed = listed, !.offset = offset, !.at = at]
    BY <1>1, <1>2, <1>3, <1>6
  <2>2. walk \in Walk
    BY DEF TypeOK
  <2>3. /\ walk' \in Walk /\ walk'.at = at /\ walk'.got = got
        /\ walk'.listed = listed /\ walk'.offset = offset
        /\ walk'.limit = walk.limit /\ walk'.there = walk.there
        /\ walk'.gone = walk.gone /\ walk'.come = walk.come
    BY <2>1, <2>2 DEF Walk
  <2> QED
    BY <1>6, <2>3
<1>8. TypeOK'
  BY <1>1, <1>7 DEF TypeOK
<1>9. HistoryOK'
  BY <1>1, <1>4, <1>7 DEF HistoryOK, TypeOK, Exists
<1>10. ASSUME Untied(Exists)'
       PROVE  /\ Cardinality(Missed') <= walk.gone
              /\ walk'.listed - Cardinality(walk'.got) + Cardinality(Again') <= walk.come
              /\ Cardinality(page) < walk.limit =>
                   (walk.there \cap seen) \ walk'.got = Missed'
  <2>1. Untied(Exists) /\ Untied(seen)
    BY <1>1, <1>10, UntiedBefore DEF Keeps, Exists
  <2>2. /\ page = {i \in seen : walk.offset <= Place(i) /\ Place(i) < walk.offset + walk.limit}
        /\ Cardinality(page) < walk.limit => \A i \in seen : Place(i) < walk.offset + walk.limit
    BY <1>3, <2>1, Pages
  <2>3. \A i \in seen : Place(i)' = Place(i) /\ Place(i) \in Nat
    BY <1>1, Places DEF Place, Newer
  <2>4. /\ Missed' = {i \in (walk.there \cap seen) \ walk'.got : Place(i) < walk.offset + walk.limit}
        /\ Again' = {i \in walk'.got \cap seen : Place(i) >= walk.offset + walk.limit}
    BY <1>1, <1>7, <2>3 DEF Missed, Again
  <2>5. Missed' \subseteq Missed
    BY <1>5, <1>7, <2>2, <2>3, <2>4 DEF Missed
  <2>6. /\ Again' \subseteq Again /\ walk.got \cap page \subseteq Again
        /\ Again' \cap (walk.got \cap page) = {}
    BY <1>5, <1>7, <2>2, <2>3, <2>4 DEF Again
  <2>7. Missed \in SUBSET Id /\ Again \in SUBSET Id
    BY <1>5 DEF Missed, Again
  <2>8. /\ Cardinality(Missed') <= Cardinality(Missed)
        /\ Cardinality(Again') + Cardinality(walk.got \cap page) <= Cardinality(Again)
    BY <2>5, <2>6, <2>7, Fewer, TwoParts
  <2>9. Cardinality(walk'.got) =
          Cardinality(walk.got) + Cardinality(page) - Cardinality(walk.got \cap page)
    BY <1>4, <1>5, <1>7, Countable, FS_Union
  <2>10. /\ Cardinality(Missed) <= walk.gone
         /\ walk.listed - Cardinality(walk.got) + Cardinality(Again) <= walk.come
    BY <1>1, <2>1 DEF TurningOK
  <2>11. /\ Cardinality(Missed) \in Nat /\ Cardinality(Missed') \in Nat
         /\ Cardinality(Again) \in Nat /\ Cardinality(Again') \in Nat
         /\ Cardinality(walk.got) \in Nat /\ Cardinality(walk.got \cap page) \in Nat
    <3>1. Missed' \in SUBSET Id /\ Again' \in SUBSET Id /\ walk.got \cap page \in SUBSET Id
      BY <1>4, <2>5, <2>6, <2>7
    <3> QED
      BY <1>5, <2>7, <3>1, Countable
  <2>12. Cardinality(page) < walk.limit => (walk.there \cap seen) \ walk'.got = Missed'
    BY <2>2, <2>4
  <2> QED
    BY <1>4, <1>5, <1>7, <2>8, <2>9, <2>10, <2>11, <2>12
<1>11. TurningOK'
  BY <1>7, <1>10 DEF TurningOK
<1>12. PagesFit'
  <2> SUFFICES ASSUME walk'.at = "end", Untied(Exists)'
               PROVE  /\ Cardinality((walk.there \cap seen) \ walk'.got) <= walk.gone
                      /\ walk'.listed - Cardinality(walk'.got) <= walk.come
    BY <1>1, <1>7 DEF PagesFit, Exists
  <2>1. Cardinality(page) < walk.limit
    BY <1>7
  <2>2. walk'.got \in SUBSET Id /\ Again' \in SUBSET Id
    BY <1>4, <1>5, <1>7 DEF Again
  <2>3. Cardinality(walk'.got) \in Nat /\ Cardinality(Again') \in Nat
    BY <2>2, Countable
  <2>4. walk'.listed \in Nat
    BY <1>7 DEF Walk
  <2>5. walk'.listed - Cardinality(walk'.got) + Cardinality(Again') <= walk.come
    BY <1>10
  <2>6. walk'.listed - Cardinality(walk'.got) <= walk.come
    BY <1>5, <2>3, <2>4, <2>5
  <2>7. Cardinality((walk.there \cap seen) \ walk'.got) <= walk.gone
    BY <1>10, <2>1
  <2> QED
    BY <2>6, <2>7
<1>13. CountOK' /\ StatsAgree'
  BY <1>1 DEF CountOK, StatsAgree
<1> QED
  BY <1>8, <1>9, <1>11, <1>12, <1>13
-----------------------------------------------------------------------------
(* The two counts.                                                         *)

LEMMA CountSafe ==
  ASSUME LInv, Count
  PROVE  LInv'
<1> USE DEF LInv
<1>1. /\ stats.step < 2 /\ UNCHANGED <<products, pending, seen, walk, now>>
      /\ stats' = [stats EXCEPT
           !.step = stats.step + 1,
           !.total = IF Counts[stats.step + 1] = "total" THEN Cardinality(seen) ELSE stats.total,
           !.mine = IF Counts[stats.step + 1] = "mine"
                      THEN Cardinality({i \in seen : products[i].mine}) ELSE stats.mine]
  BY DEF Count
<1>2. stats.step \in 0 .. 2 /\ stats.total \in Nat /\ stats.mine \in Nat /\ stats.born \in Nat
  BY DEF TypeOK, Stats
<1>3. PICK S : S = {i \in seen : products[i].mine}
  OBVIOUS
<1>4. /\ seen \in SUBSET Id /\ S \in SUBSET seen /\ S \in SUBSET Id
      /\ Cardinality(seen) \in Nat /\ Cardinality(S) \in Nat
      /\ Cardinality(S) <= Cardinality(seen)
  <2>1. seen \in SUBSET Id /\ S \in SUBSET seen /\ S \in SUBSET Id
    BY <1>3, Places
  <2> QED
    BY <2>1, Countable, Fewer
<1>5. /\ stats' \in Stats /\ stats'.step = stats.step + 1 /\ stats'.born = stats.born
      /\ stats.step = 0 => stats'.total = Cardinality(seen)
      /\ stats.step = 1 => stats'.total = stats.total /\ stats'.mine = Cardinality(S)
  <2>1. PICK step \in 0 .. 2, total \in Nat, mine \in Nat :
          /\ step = stats.step + 1
          /\ total = IF Counts[stats.step + 1] = "total" THEN Cardinality(seen) ELSE stats.total
          /\ mine = IF Counts[stats.step + 1] = "mine" THEN Cardinality(S) ELSE stats.mine
    <3>1. stats.step + 1 \in 0 .. 2
      BY <1>1, <1>2
    <3> QED
      BY <1>2, <1>4, <3>1
  <2>2. stats' = [stats EXCEPT !.step = step, !.total = total, !.mine = mine]
    BY <1>1, <1>3, <2>1
  <2>3. stats \in Stats
    BY DEF TypeOK
  <2>4. /\ stats' \in Stats /\ stats'.step = step /\ stats'.total = total
        /\ stats'.mine = mine /\ stats'.born = stats.born
    BY <2>2, <2>3 DEF Stats
  <2>5. /\ stats.step = 0 => total = Cardinality(seen)
        /\ stats.step = 1 => total = stats.total /\ mine = Cardinality(S)
    <3>1. Counts[1] = "total" /\ Counts[2] = "mine"
      BY DEF Counts
    <3>2. (stats.step = 0 => stats.step + 1 = 1) /\ (stats.step = 1 => stats.step + 1 = 2)
      OBVIOUS
    <3> QED
      BY <2>1, <3>1, <3>2
  <2> QED
    BY <2>1, <2>4, <2>5
<1>6. TypeOK'
  BY <1>1, <1>5 DEF TypeOK
<1>7. HistoryOK' /\ TurningOK' /\ PagesFit'
  BY <1>1, WalkStays DEF Keeps, Exists
<1>8. CountOK'
  BY <1>1, <1>2, <1>3, <1>4, <1>5 DEF CountOK
<1>9. StatsAgree'
  BY <1>2, <1>3, <1>5 DEF StatsAgree, CountOK
<1> QED
  BY <1>6, <1>7, <1>8, <1>9
-----------------------------------------------------------------------------
(* The theorems.                                                           *)

LEMMA Initially == Init => LInv
<1> SUFFICES ASSUME Init
             PROVE  LInv
  OBVIOUS
<1>1. TypeOK
  BY ListingAssumption DEF Init, TypeOK, Walk, NoWalk, Stats, NoStats
<1>2. HistoryOK /\ TurningOK /\ PagesFit /\ CountOK /\ StatsAgree
  BY DEF Init, HistoryOK, TurningOK, PagesFit, CountOK, StatsAgree, NoWalk, NoStats
<1> QED
  BY <1>1, <1>2 DEF LInv

LEMMA StepKeeps == LInv /\ [Next]_vars => LInv'
<1> SUFFICES ASSUME LInv, [Next]_vars
             PROVE  LInv'
  OBVIOUS
<1>1. ASSUME NEW i \in Id, NEW mine \in BOOLEAN, Insert(i, mine)
      PROVE  LInv'
  BY <1>1, InsertSafe
<1>2. ASSUME NEW i \in Id, Commit(i) \/ Update(i) \/ Delete(i)
      PROVE  LInv'
  BY <1>2, CommitSafe, UpdateSafe, DeleteSafe
<1>3. CASE Tick \/ ShowStats \/ UNCHANGED vars
  <2>1. UNCHANGED <<products, pending, seen, walk>>
    BY <1>3 DEF Tick, ShowStats, vars
  <2>2. /\ now' \in 0 .. MaxTime
        /\ stats' = stats \/ stats' = NoStats
    BY <1>3, ListingAssumption DEF Tick, ShowStats, vars, LInv, TypeOK
  <2>3. TypeOK'
    BY <2>1, <2>2 DEF LInv, TypeOK, Stats, NoStats
  <2>4. HistoryOK' /\ TurningOK' /\ PagesFit'
    BY <2>1, WalkStays DEF Keeps, Exists
  <2>5. CountOK' /\ StatsAgree'
    BY <2>1, <2>2 DEF LInv, CountOK, StatsAgree, NoStats
  <2> QED
    BY <2>3, <2>4, <2>5 DEF LInv
<1>4. ASSUME NEW n \in Limit, StartWalk(n)
      PROVE  LInv'
  BY <1>4, StartWalkSafe
<1>5. CASE EndWalk
  <2>1. walk' = NoWalk /\ UNCHANGED <<products, pending, seen, stats, now>>
    BY <1>5 DEF EndWalk
  <2>2. TypeOK'
    BY <2>1 DEF LInv, TypeOK, Walk, NoWalk
  <2>3. HistoryOK' /\ TurningOK' /\ PagesFit' /\ CountOK' /\ StatsAgree'
    BY <2>1 DEF LInv, HistoryOK, TurningOK, PagesFit, CountOK, StatsAgree, NoWalk
  <2> QED
    BY <2>2, <2>3 DEF LInv
<1> QED
  BY <1>1, <1>2, <1>3, <1>4, <1>5, TurnPageSafe, CountSafe DEF Next

(* LInv holds in every reachable state: how far a client that turns pages  *)
(* is off at every page, and the second count against the first.           *)
THEOREM Invariance == Spec => []LInv
BY Initially, StepKeeps, PTL DEF Spec

(* Every variable has its type: whatever is seen, or will be when its      *)
(* INSERT commits, is a row, and no UPDATE makes it anything else.         *)
THEOREM Typed == Spec => []TypeOK
<1>1. LInv => TypeOK
  BY DEF LInv
<1> QED
  BY <1>1, Invariance, PTL

(* Each page of list_products_db is a statement of its own: however many   *)
(* products come and go between the pages, no more of the others are       *)
(* missed than were deleted, and no more lines repeated than were created. *)
THEOREM PagesMissLittle == Spec => []PagesFit
<1>1. LInv => PagesFit
  BY DEF LInv
<1> QED
  BY <1>1, Invariance, PTL

(* get_products_stats_service counts twice: the user's products exceed all *)
(* products by no more than the user has created between the two counts.   *)
THEOREM CountsAgree == Spec => []StatsAgree
<1>1. LInv => StatsAgree
  BY DEF LInv
<1> QED
  BY <1>1, Invariance, PTL
=============================================================================
