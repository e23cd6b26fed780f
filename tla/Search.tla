------------------------------- MODULE Search -------------------------------
(***************************************************************************)
(* User search: the menus fill in search_state in Redis, a page is one     *)
(* query over the users table, and the next page is whatever the table     *)
(* holds by then.  The order of the list is the last activity, which       *)
(* Presence moves under the reader's feet.                                 *)
(***************************************************************************)
EXTENDS Presence, Sequences

CONSTANTS
    Searchers,                      \* who searches, among the Users or not: what they
                                    \* do themselves changes no list of theirs
    Gender, Age, Province, New, GPS, Near,  \* columns that stay as they are
    SearchTypes,                    \* the buttons of SearchMainKeyboard
    Provinces,                      \* the buttons of SearchProvinceKeyboard, but for "next"
    searchPageSize,
    RecentWindow, DefaultWindow,    \* RecentActivityWindowDays, DefaultActivityWindowDays
    MaxPresses                      \* bound: search buttons

ASSUME SearchAssumption ==
    /\ IsFiniteSet(Users) /\ None \notin Searchers
    /\ searchPageSize \in Nat \ {0} /\ RecentWindow \in Nat /\ DefaultWindow \in Nat

VARIABLES
    listed,         \* users with a complete profile who are not banned
    blocks,         \* the blocks table
    state,          \* search_state:<user>, 10 minutes
    presses,
    \* what the screens show, which the program does not keep
    walk            \* of each searcher, the pages turned since the first one

vars == <<presenceVars, listed, blocks, state, presses, walk>>

(***************************************************************************)
(* The query                                                               *)
(***************************************************************************)
\* What GetSearchState returns when the key is gone.
NoState == [type |-> "", gender |-> "", provinces |-> << >>, offset |-> 0]

buildFilter(u, s) ==
    [gender    |-> s.gender,
     minAge    |-> IF s.type = "age" THEN Age[u] - 3 ELSE 0,
     maxAge    |-> IF s.type = "age" THEN Age[u] + 3 ELSE 0,
     provinces |-> CASE s.type = "province" -> {Province[u]}
                     [] s.type = "advanced" /\ s.provinces # << >> /\ Head(s.provinces) # "near" ->
                            {s.provinces[i] : i \in DOMAIN s.provinces}
                     [] OTHER -> {},
     new       |-> s.type = "new",
     near      |-> s.type = "nearby",
     window    |-> IF s.type \in {"age", "province"} THEN RecentWindow ELSE DefaultWindow]

WithAgeRange(f, a) == (f.minAge > 0 => a >= f.minAge) /\ (f.maxAge > 0 => a <= f.maxAge)

\* An empty province filters nothing.
WithProvince(f, p) == f.provinces \subseteq {""} \/ p \in f.provinces

\* What a query reads.
Database == [listed |-> listed, blocks |-> blocks, seen |-> seen, now |-> now]

WithActivityWindow(f, db, v) == db.seen[v] > 0 /\ db.seen[v] + f.window > db.now

WithoutBlocked(u, db, v) == <<u, v>> \notin db.blocks /\ <<v, u>> \notin db.blocks

buildSearchQuery(u, f, db) ==
    {v \in db.listed \ {u} :
        /\ WithActivityWindow(f, db, v) /\ WithoutBlocked(u, db, v)
        /\ f.gender \in {"", Gender[v]}
        /\ WithAgeRange(f, Age[v]) /\ WithProvince(f, Province[v])
        /\ f.new => v \in New
        /\ f.near => <<u, v>> \in Near}

\* Mutant: the longest absent come first.
OrderAscending(s) == \A i, j \in DOMAIN s : i < j => seen[s[i]] <= seen[s[j]] /\ s[i] # s[j]

\* last_seen_at DESC; nothing orders users who were seen at the same time.
OrderByLastSeen(s) == \A i, j \in DOMAIN s : i < j => seen[s[i]] >= seen[s[j]] /\ s[i] # s[j]

\* The answers the database may give for a page: offset and limit of some order.
ExecuteSearch(u, f, page) ==
    LET rows == buildSearchQuery(u, f, Database)
        n == Cardinality(rows)
        lists == {s \in [1..n -> rows] : OrderByLastSeen(s)}
        offset == page * searchPageSize IN
    {{s[i] : i \in (offset + 1)..(IF offset + searchPageSize < n THEN offset + searchPageSize ELSE n)}
        : s \in lists}

(***************************************************************************)
(* Pages                                                                   *)
(***************************************************************************)
\* A walk: the filter, the furthest page and who was shown, since the first
\* page; quiet are the users that have been in the list all along, alone at the
\* time of a last activity that has not changed, and steady tells that nobody
\* has left the list or fallen back in it.
Alone(rows, at) == {v \in rows : \A w \in rows \ {v} : at[w] # at[v]}

NoWalk == [filter |-> None, page |-> 0, shown |-> {}, quiet |-> {}, steady |-> FALSE]

walked(u, f, page, rows) ==
    CASE page = 0 -> [filter |-> f, page |-> 0, shown |-> rows,
                      quiet |-> Alone(buildSearchQuery(u, f, Database), seen), steady |-> TRUE]
      [] page > 0 /\ walk[u].filter = f /\ page <= walk[u].page + 1 ->
            [filter |-> f, page |-> IF page > walk[u].page THEN page ELSE walk[u].page,
             shown |-> walk[u].shown \cup rows,
             quiet |-> walk[u].quiet, steady |-> walk[u].steady]
      [] OTHER -> NoWalk

\* A page without rows writes no state, and leaves the screen as it is unless
\* it is the first; kept is the state stored before.
sendSearchResults(u, s, page, kept) ==
    LET f == buildFilter(u, s) IN
    \E rows \in ExecuteSearch(u, f, page) :
        /\ state' = [state EXCEPT ![u] = IF rows = {} THEN kept ELSE [s EXCEPT !.offset = page]]
        /\ walk' = IF rows = {} /\ page > 0 THEN walk
                   ELSE [walk EXCEPT ![u] = walked(u, f, page, rows)]

Press(u) ==
    /\ presses < MaxPresses /\ presses' = presses + 1
    /\ UNCHANGED <<presenceVars, listed, blocks>>

GetSearchState(u) == IF state[u] = None THEN NoState ELSE state[u]

SearchTypeHandler(u, t) ==
    /\ Press(u)
    /\ t = "nearby" => u \in GPS
    /\ state' = [state EXCEPT ![u] = [NoState EXCEPT !.type = t]]
    /\ UNCHANGED walk

\* An advanced search goes on to the provinces.
SearchGenderHandler(u, g) ==
    LET s == [GetSearchState(u) EXCEPT !.gender = g, !.offset = 0] IN
    /\ Press(u)
    /\ IF s.type = "advanced" THEN state' = [state EXCEPT ![u] = s] /\ UNCHANGED walk
       ELSE sendSearchResults(u, s, 0, s)

toggleProvince(list, p) ==
    IF \E i \in DOMAIN list : list[i] = p THEN SelectSeq(list, LAMBDA q : q # p) ELSE Append(list, p)

SearchProvinceHandler(u, choice) ==
    LET s == GetSearchState(u)
        provinces == CASE choice = "all"  -> << >>
                       [] choice = "near" -> <<"near">>
                       [] OTHER           -> toggleProvince(s.provinces, choice) IN
    /\ Press(u)
    /\ state' = [state EXCEPT ![u] = [s EXCEPT !.provinces = provinces]]
    /\ UNCHANGED walk

SearchProvinceNext(u) == Press(u) /\ sendSearchResults(u, GetSearchState(u), 0, state[u])

SearchNextPageHandler(u) ==
    LET s == GetSearchState(u) IN
    Press(u) /\ sendSearchResults(u, s, s.offset + 1, state[u])

SearchPrevPageHandler(u) ==
    LET s == GetSearchState(u) IN
    /\ Press(u) /\ s.offset > 0
    /\ sendSearchResults(u, s, s.offset - 1, state[u])

StateExpires(u) ==
    /\ state[u] # None
    /\ state' = [state EXCEPT ![u] = None]
    /\ UNCHANGED <<presenceVars, listed, blocks, presses, walk>>

(***************************************************************************)
(* What happens to the rows meanwhile                                      *)
(***************************************************************************)
\* The walks once the rows are those of the next state: who moved or left is
\* not quiet, and who left from before the end or fell back disturbs the list.
Disturb ==
    walk' = [u \in Searchers |->
        IF walk[u].filter = None THEN NoWalk ELSE
        LET before == buildSearchQuery(u, walk[u].filter, Database)
            after == buildSearchQuery(u, walk[u].filter, Database') IN
        [walk[u] EXCEPT
            !.quiet = {v \in @ \cap Alone(after, seen') : seen'[v] = seen[v]},
            !.steady = @ /\ \A v \in before :
                (v \notin after => \A w \in after : seen[w] > seen[v]) /\ seen'[v] >= seen[v]]]

\* A profile is completed, or taken apart by an edit; a ban, its end.
List(u) ==
    /\ Counted
    /\ listed' = IF u \in listed THEN listed \ {u} ELSE listed \cup {u}
    /\ UNCHANGED <<now, key, seen, sync, copy, active, raced, rewound, unwritten, faults, blocks, state, presses>> /\ Disturb

Block(u, v) ==
    /\ u # v /\ Counted
    /\ blocks' = IF <<u, v>> \in blocks THEN blocks \ {<<u, v>>} ELSE blocks \cup {<<u, v>>}
    /\ UNCHANGED <<now, key, seen, sync, copy, active, raced, rewound, unwritten, faults, listed, state, presses>> /\ Disturb

PresenceStep == PresenceNext /\ UNCHANGED <<listed, blocks, state, presses>> /\ Disturb

Browse(u) ==
    \/ \E t \in SearchTypes : SearchTypeHandler(u, t)
    \/ \E g \in {"male", "female", ""} : SearchGenderHandler(u, g)
    \/ \E p \in Provinces : SearchProvinceHandler(u, p)
    \/ SearchProvinceNext(u) \/ SearchNextPageHandler(u) \/ SearchPrevPageHandler(u)
    \/ StateExpires(u)

SearchInit ==
    /\ Init
    /\ listed = Users /\ blocks = {}
    /\ state = [u \in Searchers |-> None]
    /\ presses = 0
    /\ walk = [u \in Searchers |-> NoWalk]

Next ==
    \/ PresenceStep
    \/ \E u \in Searchers : Browse(u) \/ \E v \in Users : Block(u, v) \/ Block(v, u)
    \/ \E u \in Users : List(u)

\* The ticker of StartSyncWorker keeps starting passes, and none of them blocks.
Spec == SearchInit /\ [][Next]_vars /\ WF_presenceVars(SyncStep)

(***************************************************************************)
(* Properties                                                              *)
(***************************************************************************)
TypeOK ==
    /\ PresenceTypeOK
    /\ listed \subseteq Users /\ blocks \subseteq (Users \cup Searchers) \X (Users \cup Searchers)
    /\ \A u \in Searchers : state[u] = None \/
          /\ state[u].type \in SearchTypes \cup {""} /\ state[u].gender \in {"male", "female", ""}
          /\ \A i \in DOMAIN state[u].provinces : state[u].provinces[i] \in Provinces
          /\ state[u].offset \in 0..Cardinality(Users)
    /\ \A u \in Searchers : walk[u].shown \cup walk[u].quiet \subseteq Users
    /\ presses \in 0..MaxPresses

\* How many users come before v in the list of u's walk.
RowsBefore(u, v) ==
    Cardinality({w \in buildSearchQuery(u, walk[u].filter, Database) : seen[w] > seen[v]})

\* Turning pages from the first one misses nobody who has stayed in the list
\* and stayed away, with a last_seen_at of their own: users who become active
\* meanwhile move ahead of the reader and push others on to later pages, never
\* back to pages turned already (sendSearchResults, OrderByLastSeen).  It takes
\* users who leave the list, fall back in it or share a time to hide one.
NoneSkipped ==
    \A u \in Searchers : walk[u].steady =>
        \A v \in walk[u].quiet \ walk[u].shown :
            RowsBefore(u, v) >= (walk[u].page + 1) * searchPageSize
=============================================================================
