------------------------------- MODULE Listing -------------------------------
(***************************************************************************)
(* The product catalogue as its readers see it, while sellers create,      *)
(* change and delete: a client that fetches the listing page by page (each *)
(* page is a statement of its own, cut by LIMIT and OFFSET), and the       *)
(* statistics, which are two counts.  Who may write what is in Products.   *)
(***************************************************************************)
EXTENDS Integers, FiniteSets

CONSTANTS
  MaxId,     \* bound on the products created
  MaxTime,   \* bound on the clock
  Limit,     \* page sizes clients ask for (1 to 100)
  None       \* no product

Id == 1 .. MaxId

Row == [mine : BOOLEAN,         \* of the user who asks for statistics
        created : 0 .. MaxTime,
        updated : 0 .. MaxTime]

ASSUME ListingAssumption ==
  /\ {MaxId, MaxTime} \subseteq Nat /\ Limit \subseteq Nat \ {0} /\ Limit # {}
  /\ None \notin Row

VARIABLES
  products,  \* products[i]: row i, from the INSERT on
  pending,   \* rows whose INSERT has not committed
  seen,      \* rows that are committed: what statements see
  walk,      \* the client that turns pages
  stats,     \* the request for statistics
  now

vars == <<products, pending, seen, walk, stats, now>>
-----------------------------------------------------------------------------
Walk == [at : {"idle", "turning", "end"},
         limit : Nat,
         offset : Nat,
         got : SUBSET Id,       \* products on the pages so far
         listed : Nat,          \* history: lines on them
         there : SUBSET Id,     \* history: products seen when it began
         gone : Nat,            \* history: products deleted since
         come : Nat]            \* history: products committed since

NoWalk == [at |-> "idle", limit |-> 1, offset |-> 0, got |-> {}, listed |-> 0,
           there |-> {}, gone |-> 0, come |-> 0]

(* born: history, products of the user committed since the first count.    *)
Stats == [step : 0 .. 2, total : Nat, mine : Nat, born : Nat]

NoStats == [step |-> 0, total |-> 0, mine |-> 0, born |-> 0]

Init ==
  /\ products = [i \in Id |-> None]
  /\ pending = {} /\ seen = {}
  /\ walk = NoWalk /\ stats = NoStats
  /\ now = 0
-----------------------------------------------------------------------------
(* The writers.                                                            *)

(* DEFAULT NOW(): the time the statement begins.                           *)
NewRow(mine) == [mine |-> mine, created |-> now, updated |-> now]

(* The INSERT takes its id and its time, ...                               *)
Insert(i, mine) ==
  /\ products[i] = None /\ \A j \in Id : j < i => products[j] # None
  /\ products' = [products EXCEPT ![i] = NewRow(mine)]
  /\ pending' = pending \cup {i}
  /\ UNCHANGED <<seen, walk, stats, now>>

(* ... and is seen when it commits, maybe after younger ones, or never.    *)
Commit(i) ==
  /\ i \in pending
  /\ pending' = pending \ {i}
  /\ seen' = seen \cup {i}
  /\ walk' = [walk EXCEPT !.come = IF walk.at = "turning" THEN @ + 1 ELSE @]
  /\ stats' = [stats EXCEPT !.born = IF stats.step = 1 /\ products[i].mine THEN @ + 1 ELSE @]
  /\ UNCHANGED <<products, now>>

Update(i) ==
  /\ i \in seen
  /\ products' = [products EXCEPT ![i].updated = now]
  /\ UNCHANGED <<pending, seen, walk, stats, now>>

Delete(i) ==
  /\ i \in seen
  /\ seen' = seen \ {i}
  /\ walk' = [walk EXCEPT !.gone = IF walk.at = "turning" THEN @ + 1 ELSE @]
  /\ UNCHANGED <<products, pending, stats, now>>

Tick ==
  /\ now < MaxTime
  /\ now' = now + 1
  /\ UNCHANGED <<products, pending, seen, walk, stats>>
-----------------------------------------------------------------------------
(* The listing.                                                            *)

(* A slip: ORDER BY updated_at DESC.                                       *)
ByUpdate(i, j) == products[i].updated >= products[j].updated

(* ORDER BY created_at DESC: of products with the same time, either may    *)
(* come first, and not the same in every statement.                        *)
Before(i, j) == products[i].created >= products[j].created

Orders(S) ==
  {s \in [1 .. Cardinality(S) -> S] :
     \A i, j \in DOMAIN s : i < j => s[i] # s[j] /\ Before(s[i], s[j])}

(* Readers disturb nobody, so one that does one thing at a time is enough. *)
StartWalk(n) ==
  /\ walk.at = "idle" /\ stats.step = 0
  /\ walk' = [NoWalk EXCEPT !.at = "turning", !.limit = n, !.there = seen]
  /\ UNCHANGED <<products, pending, seen, stats, now>>

(* The next page; a short one is the last.                                 *)
TurnPage ==
  /\ walk.at = "turning"
  /\ \E s \in Orders(seen) :
       LET page == {s[k] : k \in {n \in DOMAIN s : n - walk.offset \in 1 .. walk.limit}} IN
       walk' = [walk EXCEPT !.got = @ \cup page, !.listed = @ + Cardinality(page),
                            !.offset = @ + walk.limit,
                            !.at = IF Cardinality(page) < walk.limit THEN "end" ELSE @]
  /\ UNCHANGED <<products, pending, seen, stats, now>>

EndWalk ==
  /\ walk.at = "end"
  /\ walk' = NoWalk
  /\ UNCHANGED <<products, pending, seen, stats, now>>
-----------------------------------------------------------------------------
(* The statistics.                                                         *)

(* A slip: the user's own products are counted first.                      *)
OwnFirst == <<"mine", "total">>

(* The order of the two statements.                                        *)
Counts == <<"total", "mine">>

Count ==
  /\ stats.step < 2 /\ walk.at = "idle"
  /\ stats' = [stats EXCEPT
       !.step = @ + 1,
       !.total = IF Counts[stats.step + 1] = "total" THEN Cardinality(seen) ELSE @,
       !.mine = IF Counts[stats.step + 1] = "mine"
                  THEN Cardinality({i \in seen : products[i].mine}) ELSE @]
  /\ UNCHANGED <<products, pending, seen, walk, now>>

ShowStats ==
  /\ stats.step = 2
  /\ stats' = NoStats
  /\ UNCHANGED <<products, pending, seen, walk, now>>
-----------------------------------------------------------------------------
Next ==
  \/ \E i \in Id, mine \in BOOLEAN : Insert(i, mine)
  \/ \E i \in Id : Commit(i) \/ Update(i) \/ Delete(i)
  \/ Tick
  \/ \E n \in Limit : StartWalk(n)
  \/ TurnPage \/ EndWalk \/ Count \/ ShowStats

Spec == Init /\ [][Next]_vars
-----------------------------------------------------------------------------
(***************************************************************************)
(* Properties                                                              *)
(***************************************************************************)

(* The type of every variable.                                             *)
TypeOK ==
  /\ products \in [Id -> Row \cup {None}]
  /\ pending \cap seen = {} /\ pending \cup seen \subseteq {i \in Id : products[i] # None}
  /\ walk \in Walk /\ stats \in Stats
  /\ now \in 0 .. MaxTime

(* No two of the products have the same created_at.                        *)
Untied(S) == \A i, j \in S : products[i].created = products[j].created => i = j

(* Turning pages while others write goes wrong only by as much as they     *)
(* delete and create: of the products that were there all the time, no     *)
(* more are missing from the pages than products were deleted meanwhile,   *)
(* and no more lines are repeated than products were committed meanwhile.  *)
(* Updates do not disturb it at all.  (Products created in the same        *)
(* microsecond have no order, and may be missed at a page's edge.)         *)
PagesFit ==
  walk.at = "end" /\ Untied({i \in Id : products[i] # None}) =>
    /\ Cardinality((walk.there \cap seen) \ walk.got) <= walk.gone
    /\ walk.listed - Cardinality(walk.got) <= walk.come

(* "Your products" exceed "Products total" by no more than the user's own  *)
(* products that were committed between the two counts; deletions and      *)
(* other sellers never make it look so.                                    *)
StatsAgree == stats.step = 2 => stats.mine <= stats.total + stats.born
=============================================================================
