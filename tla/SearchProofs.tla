----------------------------- MODULE SearchProofs -----------------------------
(***************************************************************************)
(* Turning pages misses nobody, for any number of users and any page size. *)
(* A user alone at a time stands in every list the database may give       *)
(* behind exactly those who were seen later; their number never shrinks    *)
(* while nobody leaves the list or falls back in it, so who has not been   *)
(* shown yet is on a page still to come.                                   *)
(***************************************************************************)
EXTENDS Search, PresenceProofs, FiniteSetTheorems

USE SearchAssumption

ahead(rows, at, v) == {w \in rows : at[w] > at[v]}

\* The list of u's walk.
Rows(u) == buildSearchQuery(u, walk[u].filter, Database)

IsState(s) ==
    /\ s = [type |-> s.type, gender |-> s.gender, provinces |-> s.provinces, offset |-> s.offset]
    /\ s.offset \in Nat

IsWalk(w) ==
    /\ w = [filter |-> w.filter, page |-> w.page, shown |-> w.shown,
            quiet |-> w.quiet, steady |-> w.steady]
    /\ w.page \in Nat

\* Who is quiet in a steady walk is alone in the list, and shown or on a page
\* that is still to come.
Ahead(u, w, rows, at) ==
    w.steady => \A v \in w.quiet :
        /\ v \in Alone(rows, at)
        /\ v \in w.shown \/ Cardinality(ahead(rows, at, v)) >= (w.page + 1) * searchPageSize

StateInv ==
    /\ state = [u \in Searchers |-> state[u]]
    /\ \A u \in Searchers : state[u] = None \/ IsState(state[u])

WalkInv ==
    /\ walk = [u \in Searchers |-> walk[u]]
    /\ \A u \in Searchers : IsWalk(walk[u]) /\ Ahead(u, walk[u], Rows(u), seen)

\* The inductive invariant.
SearchInv == Inv /\ listed \subseteq Users /\ StateInv /\ WalkInv

LEMMA ListedRows ==
  ASSUME NEW u, NEW f, NEW db, db.listed \subseteq Users
  PROVE  buildSearchQuery(u, f, db) \subseteq Users /\ IsFiniteSet(buildSearchQuery(u, f, db))
<1>1. buildSearchQuery(u, f, db) \subseteq Users
  BY DEF buildSearchQuery
<1> QED
  BY <1>1, FS_Subset

\* A user alone at a time stands right behind those seen later.
LEMMA PlaceInList ==
  ASSUME NEW rows, IsFiniteSet(rows), NEW s \in [1..Cardinality(rows) -> rows], OrderByLastSeen(s),
         \A w \in rows : seen[w] \in Nat, NEW v \in Alone(rows, seen)
  PROVE  /\ Cardinality(ahead(rows, seen, v)) \in Nat
         /\ Cardinality(ahead(rows, seen, v)) + 1 \in 1..Cardinality(rows)
         /\ s[Cardinality(ahead(rows, seen, v)) + 1] = v
<1> DEFINE n == Cardinality(rows)
<1>1. n \in Nat /\ v \in rows
  BY FS_CardinalityType DEF Alone
<1>2. s \in Injection(1..n, rows)
  <2> SUFFICES ASSUME NEW i \in 1..n, NEW j \in 1..n, s[i] = s[j] PROVE i = j
    BY DEF Injection, IsInjective
  <2>1. i < j \/ j < i \/ i = j
    BY <1>1
  <2> QED
    BY <2>1 DEF OrderByLastSeen
<1>3. IsFiniteSet(1..n) /\ Cardinality(1..n) = n
  BY <1>1, FS_Interval
<1>4. s \in Surjection(1..n, rows)
  BY <1>2, <1>3, FS_Injection
<1>5. PICK i \in 1..n : s[i] = v
  BY <1>1, <1>4 DEF Surjection
<1>6. \A j \in 1..n : j < i <=> seen[s[j]] > seen[v]
  <2> SUFFICES ASSUME NEW j \in 1..n PROVE j < i <=> seen[s[j]] > seen[v]
    OBVIOUS
  <2>1. seen[s[j]] \in Nat /\ seen[v] \in Nat
    BY <1>1
  <2>2. CASE j < i
    BY <1>5, <2>1, <2>2 DEF OrderByLastSeen, Alone
  <2>3. CASE j = i
    BY <1>5, <2>1, <2>3
  <2>4. CASE i < j
    BY <1>5, <2>1, <2>4 DEF OrderByLastSeen, Alone
  <2> QED
    BY <1>1, <2>2, <2>3, <2>4
<1> DEFINE t == [j \in 1..(i - 1) |-> s[j]]
<1>7. t \in Bijection(1..(i - 1), ahead(rows, seen, v))
  <2>1. t \in [1..(i - 1) -> ahead(rows, seen, v)]
    BY <1>1, <1>6 DEF ahead
  <2>2. t \in Injection(1..(i - 1), ahead(rows, seen, v))
    BY <1>1, <1>2, <2>1 DEF Injection, IsInjective
  <2>3. ASSUME NEW w \in ahead(rows, seen, v) PROVE \E j \in 1..(i - 1) : t[j] = w
    <3>1. PICK j \in 1..n : s[j] = w
      BY <1>4 DEF Surjection, ahead
    <3>2. j < i
      BY <1>6, <3>1 DEF ahead
    <3>3. j \in 1..(i - 1)
      BY <1>1, <3>2
    <3> QED
      BY <3>1, <3>3
  <2> QED
    BY <2>1, <2>2, <2>3 DEF Bijection, Surjection
<1>8. Cardinality(ahead(rows, seen, v)) = i - 1
  <2>1. i - 1 \in Nat
    BY <1>1
  <2>2. ExistsBijection(1..(i - 1), ahead(rows, seen, v))
    BY <1>7 DEF ExistsBijection
  <2> HIDE DEF t
  <2> QED
    BY <2>1, <2>2, FS_CountingElements
<1> QED
  BY <1>1, <1>5, <1>8

\* A page holds every such user whose place is on it.
LEMMA PageShows ==
  ASSUME Inv, listed \subseteq Users, NEW u, NEW f, NEW page \in Nat,
         NEW rows \in ExecuteSearch(u, f, page),
         NEW v \in Alone(buildSearchQuery(u, f, Database), seen),
         Cardinality(ahead(buildSearchQuery(u, f, Database), seen, v)) >= page * searchPageSize
  PROVE  \/ v \in rows
         \/ Cardinality(ahead(buildSearchQuery(u, f, Database), seen, v))
                >= (page + 1) * searchPageSize
<1> DEFINE all == buildSearchQuery(u, f, Database)
           n == Cardinality(all)
           offset == page * searchPageSize
           b == Cardinality(ahead(all, seen, v))
<1>1. all \subseteq Users /\ IsFiniteSet(all)
  BY ListedRows DEF Database
<1>2. n \in Nat
  BY <1>1, FS_CardinalityType
<1>3. PICK s \in [1..n -> all] :
        /\ OrderByLastSeen(s)
        /\ rows = {s[i] : i \in (offset + 1)..(IF offset + searchPageSize < n
                                              THEN offset + searchPageSize ELSE n)}
  BY DEF ExecuteSearch
<1>4. \A w \in all : seen[w] \in Nat
  BY <1>1 DEF Inv, Types, Times
<1>5. b \in Nat /\ b + 1 \in 1..n /\ s[b + 1] = v
  BY <1>1, <1>3, <1>4, PlaceInList
<1>6. offset \in Nat /\ (page + 1) * searchPageSize = offset + searchPageSize
  OBVIOUS
<1> HIDE DEF offset
<1>7. CASE b < offset + searchPageSize
  <2>1. b + 1 \in (offset + 1)..(IF offset + searchPageSize < n
                                 THEN offset + searchPageSize ELSE n)
    BY <1>2, <1>5, <1>6, <1>7 DEF offset
  <2> QED
    BY <1>3, <1>5, <2>1
<1> QED
  BY <1>5, <1>6, <1>7

\* More pages turned, more rows passed.
LEMMA PagesGrow ==
  ASSUME NEW p \in Nat, NEW q \in Nat, p <= q PROVE p * searchPageSize <= q * searchPageSize
<1>1. PICK d \in Nat : q = p + d
  BY q - p \in Nat, q = p + (q - p)
<1>2. q * searchPageSize = p * searchPageSize + d * searchPageSize
  BY <1>1
<1>3. d * searchPageSize \in Nat /\ p * searchPageSize \in Nat
  OBVIOUS
<1> QED
  BY <1>2, <1>3

(***************************************************************************)
(* Pages                                                                   *)
(***************************************************************************)
LEMMA WalkedKeeps ==
  ASSUME SearchInv, NEW u \in Searchers, NEW f, NEW page \in Nat,
         NEW rows \in ExecuteSearch(u, f, page)
  PROVE  /\ IsWalk(walked(u, f, page, rows))
         /\ Ahead(u, walked(u, f, page, rows),
                  buildSearchQuery(u, walked(u, f, page, rows).filter, Database), seen)
<1> DEFINE all == buildSearchQuery(u, f, Database)
           w == walked(u, f, page, rows)
<1>0. Inv /\ listed \subseteq Users /\ IsWalk(walk[u]) /\ Ahead(u, walk[u], Rows(u), seen)
  BY DEF SearchInv, WalkInv
<1>1. CASE page = 0
  <2>1. w = [filter |-> f, page |-> 0, shown |-> rows, quiet |-> Alone(all, seen), steady |-> TRUE]
    BY <1>1 DEF walked
  <2>2. ASSUME NEW v \in Alone(all, seen)
        PROVE  v \in rows \/ Cardinality(ahead(all, seen, v)) >= (0 + 1) * searchPageSize
    <3>1. all \subseteq Users /\ IsFiniteSet(all)
      BY <1>0, ListedRows DEF Database
    <3>2. Cardinality(ahead(all, seen, v)) \in Nat
      BY <3>1, FS_Subset, FS_CardinalityType DEF ahead
    <3>3. Cardinality(ahead(all, seen, v)) >= page * searchPageSize
      BY <1>1, <3>2
    <3> QED
      BY <1>0, <1>1, <2>2, <3>3, PageShows
  <2> QED
    BY <2>1, <2>2 DEF IsWalk, Ahead
<1>2. CASE page > 0 /\ walk[u].filter = f /\ page <= walk[u].page + 1
  <2> DEFINE q == IF page > walk[u].page THEN page ELSE walk[u].page
  <2>1. w = [filter |-> f, page |-> q, shown |-> walk[u].shown \cup rows,
             quiet |-> walk[u].quiet, steady |-> walk[u].steady]
    BY <1>2 DEF walked
  <2>2. q \in Nat /\ (q = page \/ q = walk[u].page)
    BY <1>0 DEF IsWalk
  <2>3. ASSUME walk[u].steady, NEW v \in walk[u].quiet, v \notin walk[u].shown \cup rows
        PROVE  Cardinality(ahead(all, seen, v)) >= (q + 1) * searchPageSize
    <3>1. v \in Alone(all, seen)
          /\ Cardinality(ahead(all, seen, v)) >= (walk[u].page + 1) * searchPageSize
      BY <1>0, <1>2, <2>3 DEF Ahead, Rows
    <3>2. page * searchPageSize <= (walk[u].page + 1) * searchPageSize
      BY <1>0, <1>2, PagesGrow DEF IsWalk
    <3>3. all \subseteq Users /\ IsFiniteSet(all)
      BY <1>0, ListedRows DEF Database
    <3>4. Cardinality(ahead(all, seen, v)) \in Nat
      BY <3>3, FS_Subset, FS_CardinalityType DEF ahead
    <3>5. page * searchPageSize \in Nat /\ (walk[u].page + 1) * searchPageSize \in Nat
      BY <1>0 DEF IsWalk
    <3>6. Cardinality(ahead(all, seen, v)) >= page * searchPageSize
      BY <3>1, <3>2, <3>4, <3>5
    <3>7. Cardinality(ahead(all, seen, v)) >= (page + 1) * searchPageSize
      BY <1>0, <2>3, <3>1, <3>6, PageShows
    <3> QED
      BY <2>2, <3>1, <3>7
  <2>4. walk[u].steady => \A v \in walk[u].quiet : v \in Alone(all, seen)
    BY <1>0, <1>2 DEF Ahead, Rows
  <2> HIDE DEF q
  <2> QED
    BY <2>1, <2>2, <2>3, <2>4 DEF IsWalk, Ahead
<1>3. CASE ~(page = 0) /\ ~(page > 0 /\ walk[u].filter = f /\ page <= walk[u].page + 1)
  <2>1. w = NoWalk
    BY <1>3 DEF walked
  <2> QED
    BY <2>1 DEF NoWalk, IsWalk, Ahead
<1> QED
  BY <1>1, <1>2, <1>3

\* What one searcher stores and sees leaves the others' walks alone.
LEMMA OneSearcher ==
  ASSUME SearchInv, NEW u \in Searchers, NEW s, s = None \/ IsState(s),
         NEW w, IsWalk(w), Ahead(u, w, buildSearchQuery(u, w.filter, Database), seen),
         UNCHANGED <<presenceVars, listed, blocks>>,
         state' = [state EXCEPT ![u] = s], walk' = [walk EXCEPT ![u] = w]
  PROVE  SearchInv'
<1>1. Inv' /\ listed' \subseteq Users
  BY InvStep DEF SearchInv
<1>2. StateInv'
  BY DEF SearchInv, StateInv
<1>3. Database' = Database /\ seen' = seen
  BY DEF Database, presenceVars
<1>4. WalkInv'
  <2>1. walk' = [v \in Searchers |-> walk'[v]]
    BY DEF SearchInv, WalkInv
  <2>2. ASSUME NEW v \in Searchers PROVE IsWalk(walk'[v]) /\ Ahead(v, walk'[v], Rows(v)', seen')
    <3>1. CASE v = u
      <4>1. walk'[v] = w
        BY <3>1 DEF SearchInv, WalkInv
      <4>2. Rows(v)' = buildSearchQuery(u, w.filter, Database)
        BY <1>3, <3>1, <4>1 DEF Rows
      <4> QED
        BY <1>3, <3>1, <4>1, <4>2
    <3>2. CASE v # u
      <4>1. walk'[v] = walk[v]
        BY <3>2 DEF SearchInv, WalkInv
      <4>2. Rows(v)' = Rows(v)
        BY <1>3, <4>1 DEF Rows
      <4> QED
        BY <1>3, <4>1, <4>2 DEF SearchInv, WalkInv
    <3> QED
      BY <3>1, <3>2
  <2> QED
    BY <2>1, <2>2 DEF WalkInv
<1> QED
  BY <1>1, <1>2, <1>4 DEF SearchInv

LEMMA StateFields ==
  ASSUME NEW s, IsState(s), NEW x, NEW p \in Nat
  PROVE  /\ IsState(NoState)
         /\ IsState([s EXCEPT !.offset = p]) /\ IsState([s EXCEPT !.type = x])
         /\ IsState([s EXCEPT !.gender = x]) /\ IsState([s EXCEPT !.provinces = x])
<1>1. s = [type |-> s.type, gender |-> s.gender, provinces |-> s.provinces, offset |-> s.offset]
      /\ s.offset \in Nat
  BY DEF IsState
<1>2. [s EXCEPT !.offset = p]
        = [type |-> s.type, gender |-> s.gender, provinces |-> s.provinces, offset |-> p]
  BY <1>1
<1>3. [s EXCEPT !.type = x]
        = [type |-> x, gender |-> s.gender, provinces |-> s.provinces, offset |-> s.offset]
  BY <1>1
<1>4. [s EXCEPT !.gender = x]
        = [type |-> s.type, gender |-> x, provinces |-> s.provinces, offset |-> s.offset]
  BY <1>1
<1>5. [s EXCEPT !.provinces = x]
        = [type |-> s.type, gender |-> s.gender, provinces |-> x, offset |-> s.offset]
  BY <1>1
<1> QED
  BY <1>1, <1>2, <1>3, <1>4, <1>5 DEF IsState, NoState

LEMMA StoredState ==
  ASSUME SearchInv, NEW u \in Searchers PROVE IsState(GetSearchState(u))
BY StateFields DEF SearchInv, StateInv, GetSearchState, IsState, NoState

\* Storing a state turns no page.
LEMMA StoreKeeps ==
  ASSUME SearchInv, NEW u \in Searchers, NEW s, s = None \/ IsState(s),
         UNCHANGED <<presenceVars, listed, blocks, walk>>, state' = [state EXCEPT ![u] = s]
  PROVE  SearchInv'
<1>1. walk' = [walk EXCEPT ![u] = walk[u]]
  BY DEF SearchInv, WalkInv
<1>2. IsWalk(walk[u]) /\ Ahead(u, walk[u], buildSearchQuery(u, walk[u].filter, Database), seen)
  BY DEF SearchInv, WalkInv, Rows
<1> QED
  BY <1>1, <1>2, OneSearcher

LEMMA TurnKeeps ==
  ASSUME SearchInv, NEW u \in Searchers, NEW s, IsState(s), NEW page \in Nat,
         NEW kept, kept = None \/ IsState(kept),
         UNCHANGED <<presenceVars, listed, blocks>>, sendSearchResults(u, s, page, kept)
  PROVE  SearchInv'
<1> DEFINE f == buildFilter(u, s)
<1>1. PICK rows \in ExecuteSearch(u, f, page) :
        /\ state' = [state EXCEPT ![u] = IF rows = {} THEN kept ELSE [s EXCEPT !.offset = page]]
        /\ walk' = IF rows = {} /\ page > 0 THEN walk
                   ELSE [walk EXCEPT ![u] = walked(u, f, page, rows)]
  BY DEF sendSearchResults
<1> DEFINE stored == IF rows = {} THEN kept ELSE [s EXCEPT !.offset = page]
<1>2. stored = None \/ IsState(stored)
  BY StateFields
<1> HIDE DEF f, stored
<1>3. CASE rows = {} /\ page > 0
  BY <1>1, <1>2, <1>3, StoreKeeps DEF stored
<1>4. CASE ~(rows = {} /\ page > 0)
  <2>1. walk' = [walk EXCEPT ![u] = walked(u, f, page, rows)]
    BY <1>1, <1>4
  <2>2. state' = [state EXCEPT ![u] = stored]
    BY <1>1 DEF stored
  <2>3. /\ IsWalk(walked(u, f, page, rows))
        /\ Ahead(u, walked(u, f, page, rows),
                 buildSearchQuery(u, walked(u, f, page, rows).filter, Database), seen)
    BY <1>1, WalkedKeeps
  <2> QED
    BY <1>2, <2>1, <2>2, <2>3, OneSearcher
<1> QED
  BY <1>3, <1>4

LEMMA BrowseKeeps ==
  ASSUME SearchInv, NEW u \in Searchers, Browse(u) PROVE SearchInv'
<1>1. IsState(GetSearchState(u)) /\ (state[u] = None \/ IsState(state[u])) /\ IsState(NoState)
  BY StoredState, StateFields DEF SearchInv, StateInv
<1>2. ASSUME NEW t \in SearchTypes, SearchTypeHandler(u, t) PROVE SearchInv'
  <2>1. IsState([NoState EXCEPT !.type = t])
    BY <1>1, StateFields
  <2> QED
    BY <1>2, <2>1, StoreKeeps DEF SearchTypeHandler, Press
<1>3. ASSUME NEW g \in {"male", "female", ""}, SearchGenderHandler(u, g) PROVE SearchInv'
  <2> DEFINE s == [GetSearchState(u) EXCEPT !.gender = g, !.offset = 0]
  <2>1. IsState(s)
    <3>1. s = [[GetSearchState(u) EXCEPT !.gender = g] EXCEPT !.offset = 0]
      BY <1>1 DEF IsState
    <3> QED
      BY <1>1, <3>1, StateFields
  <2> HIDE DEF s
  <2>2. CASE s.type = "advanced"
    BY <1>3, <2>1, <2>2, StoreKeeps DEF SearchGenderHandler, Press, s
  <2>3. CASE s.type # "advanced"
    BY <1>3, <2>1, <2>3, TurnKeeps DEF SearchGenderHandler, Press, s
  <2> QED
    BY <2>2, <2>3
<1>4. ASSUME NEW p \in Provinces, SearchProvinceHandler(u, p) PROVE SearchInv'
  <2>1. PICK list : state' = [state EXCEPT ![u] = [GetSearchState(u) EXCEPT !.provinces = list]]
    BY <1>4 DEF SearchProvinceHandler
  <2>2. UNCHANGED <<presenceVars, listed, blocks, walk>>
    BY <1>4 DEF SearchProvinceHandler, Press
  <2> QED
    BY <1>1, <2>1, <2>2, StateFields, StoreKeeps
<1>5. ASSUME SearchProvinceNext(u) PROVE SearchInv'
  BY <1>1, <1>5, TurnKeeps DEF SearchProvinceNext, Press
<1>6. ASSUME SearchNextPageHandler(u) PROVE SearchInv'
  <2>1. GetSearchState(u).offset + 1 \in Nat
    BY <1>1 DEF IsState
  <2> QED
    BY <1>1, <1>6, <2>1, TurnKeeps DEF SearchNextPageHandler, Press
<1>7. ASSUME SearchPrevPageHandler(u) PROVE SearchInv'
  <2>1. GetSearchState(u).offset - 1 \in Nat
    BY <1>1, <1>7 DEF IsState, SearchPrevPageHandler
  <2> QED
    BY <1>1, <1>7, <2>1, TurnKeeps DEF SearchPrevPageHandler, Press
<1>8. ASSUME StateExpires(u) PROVE SearchInv'
  BY <1>8, StoreKeeps DEF StateExpires
<1> QED
  BY <1>2, <1>3, <1>4, <1>5, <1>6, <1>7, <1>8 DEF Browse

(***************************************************************************)
(* What happens to the rows meanwhile                                      *)
(***************************************************************************)
\* While the list is steady, nobody seen later than a quiet user goes away.
LEMMA AheadGrows ==
  ASSUME NEW before, NEW after, IsFiniteSet(after), NEW at, NEW at2, NEW v \in after,
         \A x \in before \cup after : at[x] \in Nat /\ at2[x] \in Nat, at2[v] = at[v],
         \A x \in before : (x \notin after => \A y \in after : at[y] > at[x]) /\ at2[x] >= at[x]
  PROVE  /\ Cardinality(ahead(before, at, v)) \in Nat /\ Cardinality(ahead(after, at2, v)) \in Nat
         /\ Cardinality(ahead(before, at, v)) <= Cardinality(ahead(after, at2, v))
<1>1. ahead(before, at, v) \subseteq ahead(after, at2, v)
  BY DEF ahead
<1>2. IsFiniteSet(ahead(after, at2, v))
  BY FS_Subset DEF ahead
<1> QED
  BY <1>1, <1>2, FS_Subset, FS_CardinalityType

LEMMA DisturbKeeps ==
  ASSUME SearchInv, Inv', listed' \subseteq Users, UNCHANGED state, Disturb
  PROVE  SearchInv'
<1>1. StateInv'
  BY DEF SearchInv, StateInv
<1>2. ASSUME NEW u \in Searchers
      PROVE  IsWalk(walk'[u]) /\ Ahead(u, walk'[u], Rows(u)', seen')
  <2> DEFINE before == buildSearchQuery(u, walk[u].filter, Database)
             after == buildSearchQuery(u, walk[u].filter, Database')
             steady == walk[u].steady /\ \A v \in before :
                 (v \notin after => \A w \in after : seen[w] > seen[v]) /\ seen'[v] >= seen[v]
             quiet == {v \in walk[u].quiet \cap Alone(after, seen') : seen'[v] = seen[v]}
  <2>1. CASE walk[u].filter = None
    <3>1. walk'[u] = NoWalk
      BY <2>1 DEF Disturb
    <3> QED
      BY <3>1 DEF NoWalk, IsWalk, Ahead
  <2>2. CASE walk[u].filter # None
    <3>1. walk'[u] = [walk[u] EXCEPT !.quiet = quiet, !.steady = steady]
      BY <2>2 DEF Disturb
    <3>2. IsWalk(walk[u]) /\ Ahead(u, walk[u], before, seen)
      BY DEF SearchInv, WalkInv, Rows
    <3> HIDE DEF quiet, steady
    <3>3. walk'[u] = [filter |-> walk[u].filter, page |-> walk[u].page, shown |-> walk[u].shown,
                      quiet |-> quiet, steady |-> steady]
      BY <3>1, <3>2 DEF IsWalk
    <3>4. Rows(u)' = after
      BY <3>3 DEF Rows
    <3>5. ASSUME steady, NEW v \in quiet
          PROVE  /\ v \in Alone(after, seen')
                 /\ \/ v \in walk[u].shown
                    \/ Cardinality(ahead(after, seen', v)) >= (walk[u].page + 1) * searchPageSize
      <4>1. v \in Alone(after, seen') /\ v \in walk[u].quiet /\ seen'[v] = seen[v] /\ v \in after
        BY DEF quiet, Alone
      <4>2. v \in walk[u].shown
            \/ Cardinality(ahead(before, seen, v)) >= (walk[u].page + 1) * searchPageSize
        BY <3>2, <3>5, <4>1 DEF Ahead, steady
      <4>3. before \subseteq Users /\ after \subseteq Users /\ IsFiniteSet(after)
        <5>1. Database.listed \subseteq Users /\ (Database').listed \subseteq Users
          BY DEF SearchInv, Database
        <5> QED
          BY <5>1, ListedRows
      <4>4. \A x \in before \cup after : seen[x] \in Nat /\ seen'[x] \in Nat
        BY <4>3 DEF SearchInv, Inv, Types, Times
      <4>5. /\ Cardinality(ahead(before, seen, v)) \in Nat
            /\ Cardinality(ahead(after, seen', v)) \in Nat
            /\ Cardinality(ahead(before, seen, v)) <= Cardinality(ahead(after, seen', v))
        <5>1. \A x \in before :
                (x \notin after => \A y \in after : seen[y] > seen[x]) /\ seen'[x] >= seen[x]
          BY <3>5 DEF steady
        <5> HIDE DEF before, after
        <5> QED
          BY <4>1, <4>3, <4>4, <5>1, AheadGrows
      <4>6. (walk[u].page + 1) * searchPageSize \in Nat
        BY <3>2 DEF IsWalk
      <4> QED
        BY <4>1, <4>2, <4>5, <4>6
    <3> HIDE DEF before, after
    <3> QED
      BY <3>2, <3>3, <3>4, <3>5 DEF IsWalk, Ahead
  <2> QED
    BY <2>1, <2>2
<1>3. walk' = [u \in Searchers |-> walk'[u]]
  BY DEF Disturb
<1> QED
  BY <1>1, <1>2, <1>3 DEF SearchInv, WalkInv

\* A change of the rows that is only counted moves nothing of Presence.
LEMMA CountedKeeps ==
  ASSUME Inv, Counted,
         UNCHANGED <<now, key, seen, sync, copy, active, raced, rewound, unwritten, faults>>
  PROVE  Inv'
<1>1. Types'
  BY PresenceAssumption DEF Inv, Types, Counted
<1>2. Ordered'
  BY DEF Inv, Ordered
<1>3. PassInv'
  BY DEF Inv, PassInv
<1>4. NothingLostOtherwise'
  BY DEF Inv, NothingLostOtherwise, Overtaken
<1> QED
  BY <1>1, <1>2, <1>3, <1>4 DEF Inv

(***************************************************************************)
(* The theorems                                                            *)
(***************************************************************************)
LEMMA SearchInvInit == SearchInit => SearchInv
<1> SUFFICES ASSUME SearchInit PROVE SearchInv
  OBVIOUS
<1>1. Inv /\ listed \subseteq Users
  BY InvInit DEF SearchInit
<1>2. StateInv
  BY DEF SearchInit, StateInv
<1>3. WalkInv
  BY DEF SearchInit, WalkInv, NoWalk, IsWalk, Ahead
<1> QED
  BY <1>1, <1>2, <1>3 DEF SearchInv

LEMMA SearchInvStep == SearchInv /\ [Next]_vars => SearchInv'
<1> SUFFICES ASSUME SearchInv, [Next]_vars PROVE SearchInv'
  OBVIOUS
<1>0. Inv /\ listed \subseteq Users
  BY DEF SearchInv
<1>1. CASE PresenceStep
  <2>1. Inv'
    BY <1>0, <1>1, InvStep DEF PresenceStep
  <2> QED
    BY <1>0, <1>1, <2>1, DisturbKeeps DEF PresenceStep
<1>2. ASSUME NEW u \in Searchers, Browse(u) PROVE SearchInv'
  BY <1>2, BrowseKeeps
<1>3. ASSUME NEW u, NEW v, Block(u, v) PROVE SearchInv'
  <2>1. Inv'
    BY <1>0, <1>3, CountedKeeps DEF Block
  <2> QED
    BY <1>0, <1>3, <2>1, DisturbKeeps DEF Block
<1>4. ASSUME NEW u \in Users, List(u) PROVE SearchInv'
  <2>1. Inv' /\ listed' \subseteq Users
    BY <1>0, <1>4, CountedKeeps DEF List
  <2> QED
    BY <1>4, <2>1, DisturbKeeps DEF List
<1>5. CASE UNCHANGED vars
  <2>1. Inv'
    BY <1>0, <1>5, InvStep DEF vars
  <2>2. Database' = Database
    BY <1>5 DEF vars, presenceVars, Database
  <2> QED
    BY <1>0, <1>5, <2>1, <2>2 DEF SearchInv, StateInv, WalkInv, Rows, vars, presenceVars
<1> QED
  BY <1>1, <1>2, <1>3, <1>4, <1>5 DEF Next

\* Turning pages from the first one misses nobody who has stayed in the list,
\* away and alone at their time, while nobody leaves it or falls back in it
\* (sendSearchResults, ExecuteSearch).
THEOREM NobodySkipped == Spec => []NoneSkipped
<1>1. SearchInit => SearchInv
  BY SearchInvInit
<1>2. SearchInv /\ [Next]_vars => SearchInv'
  BY SearchInvStep
<1>3. SearchInv => NoneSkipped
  BY DEF SearchInv, WalkInv, Ahead, NoneSkipped, RowsBefore, Rows, ahead
<1> QED
  BY <1>1, <1>2, <1>3, PTL DEF Spec

\* Neither paging nor the changes of rows and blocks touch what NothingLost
\* says of the last activity.
THEOREM SearchLosesNothing == Spec => []NothingLostOtherwise
<1>1. SearchInit => SearchInv
  BY SearchInvInit
<1>2. SearchInv /\ [Next]_vars => SearchInv'
  BY SearchInvStep
<1>3. SearchInv => NothingLostOtherwise
  BY DEF SearchInv, Inv
<1> QED
  BY <1>1, <1>2, <1>3, PTL DEF Spec
===============================================================================
