---------------------------- MODULE AccountsProofs ----------------------------
(***************************************************************************)
(* The books of the users table, for any number of users and handlers that *)
(* overwrite each other's rows.  What carries the proofs is a statement    *)
(* about the saves handlers still owe: a copy accounts for its own coins   *)
(* and invitations, and differs from the row it was made of by exactly     *)
(* what its handler gives and takes.                                       *)
(***************************************************************************)
EXTENDS Accounts, TLAPS, FiniteSetTheorems

USE AccountsAssumption

\* What a row has been paid for its own record.
Earned(r) == ReferralCoins * r.invites + (IF r.bonus THEN ProfileBonus ELSE 0)

Types ==
    /\ registered \subseteq Users
    /\ row \in [Users -> Row]
    /\ likes \subseteq Users \X Users
    /\ given \in [Users -> Nat] /\ spent \in [Users -> Nat]
    /\ referred \in [Users -> SUBSET Users]
    /\ ban \in [Users -> BOOLEAN]
    /\ stale \in [Users -> BOOLEAN]
    /\ updates \in Nat

SaveFine(s) ==
    /\ s \in Saves
    /\ s.copy.coins <= given[s.who] + Earned(s.copy) + s.gives
    /\ s.copy.invites <= Cardinality(referred[s.who])
    /\ s.copy.likes = s.base.likes /\ s.copy.banned = s.base.banned
    /\ s.copy.coins - Earned(s.copy) = s.base.coins - Earned(s.base) + s.gives - s.takes

JobFine(j) ==
    /\ j \in Jobs
    /\ j.pc \notin {"idle", "save"} => j.by \in Users
    /\ j.pc \in {"referral", "transfer", "like", "unlike"} => j.who \in Users
    /\ j.pc = "transfer" => Len(j.saves) = 1
    /\ j.pc = "save" => j.saves # << >> /\ \A i \in 1..Len(j.saves) : 0 <= j.saves[i].copy.coins
    /\ \A i \in 1..Len(j.saves) : SaveFine(j.saves[i])

JobsFine == job = [h \in Handlers |-> job[h]] /\ \A h \in Handlers : JobFine(job[h])

\* A newcomer whose referral is still to come was never counted, and is the
\* newcomer of one handler only.
Newcomers ==
    /\ \A r \in Users : referred[r] \subseteq registered
    /\ \A h \in Handlers : job[h].pc = "referral" =>
          /\ job[h].by \in registered
          /\ \A r \in Users : job[h].by \notin referred[r]
          /\ \A g \in Handlers \ {h} : job[g].pc = "referral" => job[g].by # job[h].by

\* BooksBalance of every user, registered or not.
Balanced ==
    \A u \in Users : ~stale[u] =>
        /\ row[u].coins = given[u] + Earned(row[u]) - spent[u]
        /\ row[u].likes = Cardinality(Likers(u))
        /\ row[u].banned = ban[u]

Backed ==
    \A u \in Users :
        /\ 0 <= row[u].coins /\ row[u].coins <= given[u] + Earned(row[u])
        /\ row[u].invites <= Cardinality(referred[u])

\* The inductive invariant.
Inv == Types /\ JobsFine /\ Newcomers /\ Backed /\ Balanced

(***************************************************************************)
(* Rows and saves                                                          *)
(***************************************************************************)
LEMMA EarnedType == \A r \in Row : Earned(r) \in Nat
<1> SUFFICES ASSUME NEW r \in Row PROVE Earned(r) \in Nat
  OBVIOUS
<1>1. ReferralCoins * r.invites \in Nat
  BY DEF Row
<1> QED
  BY <1>1 DEF Earned, Row

LEMMA EarnedSame ==
  ASSUME NEW r \in Row, NEW s \in Row, r.invites = s.invites, r.bonus = s.bonus
  PROVE  Earned(r) = Earned(s)
BY DEF Earned

LEMMA EarnedInvite ==
  ASSUME NEW r \in Row, NEW s \in Row, s.invites = r.invites + 1, s.bonus = r.bonus
  PROVE  Earned(s) = Earned(r) + ReferralCoins
<1>1. ReferralCoins * (r.invites + 1) = ReferralCoins * r.invites + ReferralCoins
  BY DEF Row
<1>2. ReferralCoins * r.invites \in Nat
  BY DEF Row
<1> QED
  BY <1>1, <1>2 DEF Earned, Row

LEMMA EarnedBonus ==
  ASSUME NEW r \in Row, NEW s \in Row, s.invites = r.invites, ~r.bonus, s.bonus
  PROVE  Earned(s) = Earned(r) + ProfileBonus
<1>1. ReferralCoins * r.invites \in Nat
  BY DEF Row
<1> QED
  BY <1>1 DEF Earned

LEMMA SaveStays ==
  ASSUME Types, Types', NEW s, SaveFine(s),
         \A u \in Users : given[u] <= given'[u] /\ referred[u] \subseteq referred'[u]
  PROVE  SaveFine(s)'
<1> DEFINE u == s.who
<1>1. u \in Users /\ s.copy \in Row /\ s.gives \in Nat
  BY DEF SaveFine, Saves
<1>2. Earned(s.copy) \in Nat
  BY <1>1, EarnedType
<1>3. IsFiniteSet(referred'[u]) /\ referred[u] \subseteq referred'[u]
  BY <1>1, FS_Subset DEF Types
<1>4. Cardinality(referred[u]) <= Cardinality(referred'[u])
      /\ Cardinality(referred[u]) \in Nat /\ Cardinality(referred'[u]) \in Nat
  BY <1>3, FS_Subset, FS_CardinalityType
<1>5. given[u] \in Nat /\ given'[u] \in Nat /\ s.copy.coins \in Int /\ s.copy.invites \in Nat
  BY <1>1 DEF Types, Row
<1> QED
  BY <1>1, <1>2, <1>4, <1>5 DEF SaveFine

LEMMA JobStays ==
  ASSUME Types, Types', NEW j, JobFine(j),
         \A u \in Users : given[u] <= given'[u] /\ referred[u] \subseteq referred'[u]
  PROVE  JobFine(j)'
BY SaveStays DEF JobFine

LEMMA JobIs == ASSUME NEW g, NEW k, k = job'[g], JobFine(k)' PROVE JobFine(job[g])'
BY DEF JobFine, SaveFine

\* The jobs are in order after a step that begins no other.
LEMMA JobsStay ==
  ASSUME Inv, Types',
         \A u \in Users : given[u] <= given'[u] /\ referred[u] \subseteq referred'[u],
         NEW h \in Handlers, NEW j, JobFine(j)', job' = [job EXCEPT ![h] = j]
  PROVE  JobsFine'
<1>1. job' = [g \in Handlers |-> job'[g]]
  BY DEF Inv, JobsFine
<1>2. ASSUME NEW g \in Handlers PROVE JobFine(job[g])'
  <2>1. PICK k : k = job'[g]
    OBVIOUS
  <2>2. JobFine(k)'
    <3>1. CASE g = h
      BY <2>1, <3>1 DEF Inv, JobsFine
    <3>2. CASE g # h
      <4>1. JobFine(k)
        BY <2>1, <3>2 DEF Inv, JobsFine
      <4> QED
        BY <4>1, JobStays DEF Inv
    <3> QED
      BY <3>1, <3>2
  <2> QED
    BY <2>1, <2>2, JobIs
<1> QED
  BY <1>1, <1>2 DEF JobsFine

LEMMA JobsSame ==
  ASSUME Types, Types', JobsFine, UNCHANGED <<job, given, referred>> PROVE JobsFine'
<1>1. \A u \in Users : given[u] <= given'[u] /\ referred[u] \subseteq referred'[u]
  BY DEF Types
<1>2. ASSUME NEW g \in Handlers PROVE JobFine(job[g])'
  <2>1. PICK k : k = job'[g]
    OBVIOUS
  <2>2. JobFine(k)
    BY <2>1 DEF JobsFine
  <2>3. JobFine(k)'
    BY <1>1, <2>2, JobStays
  <2> QED
    BY <2>1, <2>3, JobIs
<1> QED
  BY <1>2 DEF JobsFine

\* A handler that only begins, goes on or gives up keeps everything.
LEMMA BeginKeeps ==
  ASSUME Inv, NEW h \in Handlers, NEW j, JobFine(j), j.pc # "referral",
         job' = [job EXCEPT ![h] = j], updates' \in Nat,
         UNCHANGED <<registered, row, likes, given, spent, referred, ban, stale>>
  PROVE  Inv'
<1>1. Types'
  BY DEF Inv, Types
<1>2. JobsFine'
  <2>1. \A u \in Users : given[u] <= given'[u] /\ referred[u] \subseteq referred'[u]
    BY DEF Inv, Types
  <2>2. JobFine(j)'
    BY <1>1, <2>1, JobStays DEF Inv
  <2> QED
    BY <1>1, <2>1, <2>2, JobsStay
<1>3. Newcomers'
  BY DEF Inv, Newcomers, JobsFine
<1>4. Backed' /\ Balanced'
  BY DEF Inv, Backed, Balanced, Likers
<1> QED
  BY <1>1, <1>2, <1>3, <1>4 DEF Inv

\* A save that is owed is one a handler may owe.
LEMMA OwesFine ==
  ASSUME NEW by \in Users \cup {None}, NEW s, SaveFine(s), 0 <= s.copy.coins
  PROVE  JobFine(Doing("save", by, None, <<s>>))
<1> DEFINE j == [pc |-> "save", by |-> by, who |-> None, amount |-> 0, saves |-> <<s>>]
<1>1. Doing("save", by, None, <<s>>) = j
  BY DEF Doing
<1>2. s \in Saves
  BY DEF SaveFine
<1>3. j \in Jobs
  BY <1>2 DEF Jobs
<1>4. j.pc = "save" /\ j.saves = <<s>> /\ Len(j.saves) = 1 /\ j.saves # << >> /\ j.saves[1] = s
  OBVIOUS
<1> HIDE DEF j
<1> QED
  BY <1>1, <1>3, <1>4 DEF JobFine

LEMMA IdleFine == JobFine(Idle)
<1>1. Idle \in Jobs
  BY DEF Idle, Doing, Jobs
<1> QED
  BY <1>1 DEF Idle, Doing, JobFine

\* The copy of a handler that reads a row and settles gives and takes in it.
LEMMA ChangeFine ==
  ASSUME Inv, NEW u \in Users, NEW copy \in Row, NEW gives \in Nat, NEW takes \in Nat,
         copy.invites = row[u].invites, copy.bonus = row[u].bonus,
         copy.likes = row[u].likes, copy.banned = row[u].banned,
         copy.coins = row[u].coins + gives - takes
  PROVE  SaveFine(Change(u, copy, gives, takes))
<1>1. row[u] \in Row /\ given[u] \in Nat
  BY DEF Inv, Types
<1>2. Earned(copy) = Earned(row[u]) /\ Earned(copy) \in Nat
  BY <1>1, EarnedSame, EarnedType
<1>3. row[u].coins <= given[u] + Earned(row[u]) /\ row[u].invites <= Cardinality(referred[u])
  BY DEF Inv, Backed
<1>4. copy.coins \in Int /\ row[u].coins \in Int
  BY <1>1 DEF Row
<1> DEFINE s == Change(u, copy, gives, takes)
<1>5. /\ s \in Saves /\ s.who = u /\ s.base = row[u] /\ s.copy = copy
      /\ s.gives = gives /\ s.takes = takes
  BY <1>1 DEF Change, Saves
<1> HIDE DEF s
<1>6. SaveFine(s)
  BY <1>2, <1>3, <1>4, <1>5, <1>1 DEF SaveFine
<1> QED
  BY <1>6 DEF s

\* Edit: the handlers that read one row.
LEMMA EditKeeps ==
  ASSUME Inv, NEW h \in Handlers, NEW by \in Users \cup {None}, NEW u \in Users,
         NEW copy, NEW gives, NEW takes, SaveFine(Change(u, copy, gives, takes)), 0 <= copy.coins,
         Edit(h, by, u, copy, gives, takes)
  PROVE  Inv'
<1> DEFINE s == Change(u, copy, gives, takes)
           j == Doing("save", by, None, <<s>>)
<1>1. s.copy = copy
  BY DEF Change
<1>2. JobFine(j)
  <2> HIDE DEF s
  <2> QED
    BY <1>1, OwesFine DEF s
<1>3. j.pc = "save"
  BY DEF Doing
<1>4. job' = [job EXCEPT ![h] = j] /\ updates' \in Nat
      /\ UNCHANGED <<registered, row, likes, given, spent, referred, ban, stale>>
  BY DEF Edit, Owes, Counted, Inv, Types
<1> HIDE DEF j
<1> QED
  BY <1>2, <1>3, <1>4, BeginKeeps

(***************************************************************************)
(* Registration and referral                                               *)
(***************************************************************************)
LEMMA DoingFine ==
  ASSUME NEW pc \in {"create", "referral", "like", "unlike"}, NEW u \in Users,
         NEW v \in Users \cup {None}, pc = "create" \/ v \in Users
  PROVE  JobFine(Doing(pc, u, v, << >>)) /\ Doing(pc, u, v, << >>).pc = pc
<1>1. Doing(pc, u, v, << >>) \in Jobs
  BY DEF Doing, Jobs
<1> QED
  BY <1>1 DEF Doing, JobFine

LEMMA ArriveKeeps ==
  ASSUME Inv, NEW h \in Handlers, NEW u \in Users, NEW r \in Users \cup {None}, Arrive(h, u, r)
  PROVE  Inv'
BY DoingFine, BeginKeeps DEF Arrive, history, Inv, Types

LEMMA CreateKeeps ==
  ASSUME Inv, NEW h \in Handlers, Create(h) PROVE Inv'
<1> DEFINE u == job[h].by
<1>0. job[h].pc = "create" /\ JobFine(job[h])
  BY DEF Create, Inv, JobsFine
<1>1. u \in Users /\ job[h].who \in Users \cup {None}
  BY <1>0 DEF JobFine, Jobs
<1>2. UNCHANGED <<row, likes, given, spent, referred, ban, stale, updates>>
  BY DEF Create, history
<1>3. CASE job' = [job EXCEPT ![h] = Idle] /\ UNCHANGED registered
  BY <1>2, <1>3, IdleFine, BeginKeeps DEF Inv, Types, Idle, Doing
<1>4. CASE u \notin registered /\ registered' = registered \cup {u} /\ Refer(h)
  <2> DEFINE j == IF job[h].who = None THEN Idle ELSE Doing("referral", u, job[h].who, << >>)
  <2>1. job' = [job EXCEPT ![h] = j]
    BY <1>4 DEF Refer, Inv, JobsFine
  <2>2. JobFine(j)
    BY <1>1, DoingFine, IdleFine
  <2>3. Types' /\ \A v \in Users : given[v] <= given'[v] /\ referred[v] \subseteq referred'[v]
    BY <1>1, <1>2, <1>4 DEF Inv, Types
  <2>4. j.pc = "referral" => j.by = u
    BY DEF Doing, Idle
  <2> HIDE DEF j
  <2>5. JobsFine'
    <3>1. PICK k : k = j
      OBVIOUS
    <3>2. JobFine(k)'
      BY <2>2, <2>3, <3>1, JobStays DEF Inv
    <3> QED
      BY <2>1, <2>3, <3>1, <3>2, JobsStay
  <2>6. Newcomers'
    <3>1. \A g \in Handlers : job'[g] = (IF g = h THEN j ELSE job[g])
      BY <2>1 DEF Inv, JobsFine
    <3>2. \A r \in Users : u \notin referred'[r]
      BY <1>2, <1>4 DEF Inv, Newcomers
    <3>3. \A g \in Handlers : job[g].pc = "referral" => job[g].by # u
      BY <1>4 DEF Inv, Newcomers
    <3> QED
      BY <1>2, <1>4, <2>4, <3>1, <3>2, <3>3 DEF Inv, Newcomers
  <2>7. Backed' /\ Balanced'
    BY <1>2 DEF Inv, Backed, Balanced, Likers
  <2> QED
    BY <2>3, <2>5, <2>6, <2>7 DEF Inv
<1> QED
  BY <1>3, <1>4 DEF Create

LEMMA ReferralKeeps ==
  ASSUME Inv, NEW h \in Handlers, HandleReferral(h) PROVE Inv'
<1> DEFINE u == job[h].by
           r == job[h].who
<1>0. job[h].pc = "referral" /\ JobFine(job[h])
  BY DEF HandleReferral, Inv, JobsFine
<1>1. u \in Users /\ r \in Users
  BY <1>0 DEF JobFine
<1>2. UNCHANGED <<registered, row, likes, given, spent, ban, stale, updates>>
  BY DEF HandleReferral
<1>3. CASE job' = [job EXCEPT ![h] = Idle] /\ UNCHANGED referred
  BY <1>2, <1>3, IdleFine, BeginKeeps DEF Inv, Types, Idle, Doing
<1>4. CASE /\ Owes(h, u, <<Change(r, [row[r] EXCEPT !.coins = @ + ReferralCoins,
                                                   !.invites = @ + 1], 0, 0)>>)
           /\ referred' = [referred EXCEPT ![r] = @ \cup {u}]
  <2>1. row[r] \in Row /\ given[r] \in Nat /\ row[r].coins \in Int
    BY <1>1 DEF Inv, Types, Row
  <2>2. PICK copy : copy = [row[r] EXCEPT !.coins = row[r].coins + ReferralCoins,
                                          !.invites = row[r].invites + 1]
    OBVIOUS
  <2>3. /\ copy \in Row
        /\ copy.coins = row[r].coins + ReferralCoins /\ copy.invites = row[r].invites + 1
        /\ copy.bonus = row[r].bonus /\ copy.likes = row[r].likes /\ copy.banned = row[r].banned
    <3>1. row[r].coins + ReferralCoins \in Int /\ row[r].invites + 1 \in Nat
      BY <2>1 DEF Row
    <3> QED
      BY <2>1, <2>2, <3>1 DEF Row
  <2>4. Earned(copy) = Earned(row[r]) + ReferralCoins /\ Earned(row[r]) \in Nat
    BY <2>1, <2>3, EarnedInvite, EarnedType
  <2>5. Types' /\ \A v \in Users : given[v] <= given'[v] /\ referred[v] \subseteq referred'[v]
    BY <1>1, <1>2, <1>4 DEF Inv, Types
  <2>6. /\ \A v \in Users : IsFiniteSet(referred[v])
        /\ \A v \in Users : Cardinality(referred[v]) \in Nat
        /\ Cardinality(referred'[r]) = Cardinality(referred[r]) + 1
    <3>1. \A v \in Users : IsFiniteSet(referred[v])
      BY FS_Subset DEF Inv, Types
    <3>2. u \notin referred[r] /\ referred'[r] = referred[r] \cup {u}
      BY <1>0, <1>1, <1>4 DEF Inv, Newcomers, Types
    <3> QED
      BY <1>1, <3>1, <3>2, FS_AddElement, FS_CardinalityType
  <2>7. /\ 0 <= row[r].coins /\ row[r].coins <= given[r] + Earned(row[r])
        /\ row[r].invites <= Cardinality(referred[r])
    BY <1>1 DEF Inv, Backed
  <2>8. PICK s : /\ s \in Saves /\ s.who = r /\ s.base = row[r] /\ s.copy = copy
                 /\ s.gives = 0 /\ s.takes = 0 /\ s = Change(r, copy, 0, 0)
    BY <1>1, <2>1, <2>3 DEF Change, Saves
  <2>9. SaveFine(s)' /\ 0 <= s.copy.coins
    <3>1. row[r].invites \in Nat /\ Cardinality(referred[r]) \in Nat
      BY <1>1, <2>1, <2>6 DEF Row
    <3>2. given' = given
      BY <1>2
    <3> QED
      BY <2>1, <2>3, <2>4, <2>6, <2>7, <2>8, <3>1, <3>2 DEF SaveFine
  <2>10. PICK j : j = Doing("save", u, None, <<s>>)
    OBVIOUS
  <2>13. job' = [job EXCEPT ![h] = j] /\ j.pc = "save"
    BY <1>4, <2>2, <2>8, <2>10 DEF Owes, Doing
  <2>14. JobsFine'
    <3>1. j \in Jobs /\ j.pc = "save" /\ j.saves = <<s>>
      BY <1>1, <2>8, <2>10 DEF Doing, Jobs
    <3>2. JobFine(j)'
      BY <2>9, <3>1 DEF JobFine
    <3> QED
      BY <2>5, <2>13, <3>2, JobsStay
  <2>11. Newcomers'
    <3>1. \A g \in Handlers : job'[g] = (IF g = h THEN j ELSE job[g])
      BY <2>13 DEF Inv, JobsFine
    <3>2. \A g \in Handlers : job'[g].pc = "referral" =>
            g # h /\ job'[g] = job[g] /\ job[g].by # u
      BY <1>0, <2>13, <3>1 DEF Inv, Newcomers
    <3>3. \A v \in Users : referred'[v] \subseteq referred[v] \cup {u}
      BY <1>4 DEF Inv, Types
    <3> QED
      BY <1>0, <1>2, <3>2, <3>3 DEF Inv, Newcomers
  <2>12. Backed' /\ Balanced'
    <3>1. \A v \in Users : row[v].invites <= Cardinality(referred'[v])
      <4>1. \A v \in Users : referred'[v] = (IF v = r THEN referred[r] \cup {u} ELSE referred[v])
        BY <1>4 DEF Inv, Types
      <4>2. row[r].invites \in Nat
        BY <2>1 DEF Row
      <4> QED
        BY <1>1, <2>6, <2>7, <4>1, <4>2 DEF Inv, Backed
    <3> QED
      BY <1>2, <3>1 DEF Inv, Backed, Balanced, Likers
  <2> QED
    BY <2>5, <2>14, <2>11, <2>12 DEF Inv
<1> QED
  BY <1>3, <1>4 DEF HandleReferral

(***************************************************************************)
(* Handlers that read a row and save it                                    *)
(***************************************************************************)
\* A handler that settles a price or a payment in the copy.
LEMMA SettleKeeps ==
  ASSUME Inv, NEW h \in Handlers, NEW by \in Users \cup {None}, NEW u \in Users,
         NEW gives \in Nat, NEW takes \in Nat, takes <= row[u].coins + gives,
         NEW copy \in Row, copy.invites = row[u].invites, copy.bonus = row[u].bonus,
         copy.likes = row[u].likes, copy.banned = row[u].banned,
         copy.coins = row[u].coins + gives - takes,
         Edit(h, by, u, copy, gives, takes)
  PROVE  Inv'
<1>1. SaveFine(Change(u, copy, gives, takes))
  BY ChangeFine
<1>2. 0 <= copy.coins
  BY DEF Inv, Types, Row
<1> QED
  BY <1>1, <1>2, EditKeeps

LEMMA EditsKeep ==
  ASSUME Inv, NEW h \in Handlers, NEW u \in Users PROVE
    /\ \A a \in Amounts : DeductCoins(h, u, a) => Inv'
    /\ \A a \in Amounts, by \in {u, None} : AwardCoins(h, by, u, a) => Inv'
    /\ StartOptionalProfile(h, u) => Inv'
    /\ EditProfile(h, u) => Inv'
    /\ ToggleLikesOff(h, u) => Inv'
<1>0. row[u] \in Row /\ row[u].coins \in Int /\ 0 <= row[u].coins
  BY DEF Inv, Types, Row, Backed
<1>1. ASSUME NEW a \in Amounts, DeductCoins(h, u, a) PROVE Inv'
  <2>1. PICK copy : copy = [row[u] EXCEPT !.coins = row[u].coins - a]
    OBVIOUS
  <2>2. /\ copy \in Row /\ copy.coins = row[u].coins + 0 - a /\ copy.likes = row[u].likes
        /\ copy.invites = row[u].invites /\ copy.bonus = row[u].bonus
        /\ copy.banned = row[u].banned
    BY <1>0, <2>1 DEF Row
  <2>3. a \in Nat /\ a <= row[u].coins + 0 /\ Edit(h, u, u, copy, 0, a)
    BY <1>0, <1>1, <2>1 DEF DeductCoins
  <2> QED
    BY <2>2, <2>3, SettleKeeps
<1>2. ASSUME NEW a \in Amounts, NEW by \in {u, None}, AwardCoins(h, by, u, a) PROVE Inv'
  <2>1. PICK copy : copy = [row[u] EXCEPT !.coins = row[u].coins + a]
    OBVIOUS
  <2>2. /\ copy \in Row /\ copy.coins = row[u].coins + a - 0 /\ copy.likes = row[u].likes
        /\ copy.invites = row[u].invites /\ copy.bonus = row[u].bonus
        /\ copy.banned = row[u].banned
    BY <1>0, <2>1 DEF Row
  <2>3. a \in Nat /\ 0 <= row[u].coins + a /\ Edit(h, by, u, copy, a, 0)
    BY <1>0, <1>2, <2>1 DEF AwardCoins
  <2> QED
    BY <2>2, <2>3, SettleKeeps
<1>3. ASSUME StartOptionalProfile(h, u) PROVE Inv'
  <2>1. PICK copy : copy = [row[u] EXCEPT !.coins = row[u].coins + ProfileBonus, !.bonus = TRUE]
    OBVIOUS
  <2>2. /\ copy \in Row /\ copy.coins = row[u].coins + ProfileBonus /\ copy.likes = row[u].likes
        /\ copy.invites = row[u].invites /\ copy.bonus = TRUE /\ copy.banned = row[u].banned
    <3>1. PICK r \in Row, c \in Int : r = row[u] /\ c = row[u].coins + ProfileBonus
      BY <1>0
    <3>2. copy = [r EXCEPT !.coins = c, !.bonus = TRUE]
      BY <2>1, <3>1
    <3>3. /\ copy \in Row /\ copy.coins = c /\ copy.likes = r.likes
          /\ copy.invites = r.invites /\ copy.bonus = TRUE /\ copy.banned = r.banned
      BY <3>2 DEF Row
    <3> QED
      BY <3>1, <3>3
  <2>3. ~row[u].bonus /\ Edit(h, u, u, copy, 0, 0)
    BY <1>3, <2>1 DEF StartOptionalProfile
  <2>4. /\ Earned(copy) = Earned(row[u]) + ProfileBonus /\ Earned(row[u]) \in Nat
        /\ given[u] \in Nat
    BY <1>0, <2>2, <2>3, EarnedBonus, EarnedType DEF Inv, Types
  <2>5. PICK s : s = Change(u, copy, 0, 0)
    OBVIOUS
  <2>6. /\ s \in Saves /\ s.who = u /\ s.base = row[u] /\ s.copy = copy
        /\ s.gives = 0 /\ s.takes = 0
    BY <1>0, <2>2, <2>5 DEF Change, Saves
  <2>7. row[u].coins <= given[u] + Earned(row[u]) /\ row[u].invites <= Cardinality(referred[u])
    BY DEF Inv, Backed
  <2>8. SaveFine(s)
    BY <1>0, <2>2, <2>4, <2>6, <2>7 DEF SaveFine
  <2> QED
    BY <1>0, <2>2, <2>3, <2>5, <2>8, EditKeeps
<1>4. ASSUME EditProfile(h, u) PROVE Inv'
  BY <1>0, <1>4, SettleKeeps DEF EditProfile
<1>5. ASSUME ToggleLikesOff(h, u) PROVE Inv'
  <2>1. PICK copy : copy = [row[u] EXCEPT !.likesOff = ~row[u].likesOff]
    OBVIOUS
  <2>2. /\ copy \in Row /\ copy.coins = row[u].coins + 0 - 0 /\ copy.likes = row[u].likes
        /\ copy.invites = row[u].invites /\ copy.bonus = row[u].bonus
        /\ copy.banned = row[u].banned
    <3>1. PICK r \in Row, b \in BOOLEAN : r = row[u] /\ b = ~row[u].likesOff
      BY <1>0
    <3>2. copy = [r EXCEPT !.likesOff = b]
      BY <2>1, <3>1
    <3>3. /\ copy \in Row /\ copy.coins = r.coins /\ copy.likes = r.likes
          /\ copy.invites = r.invites /\ copy.bonus = r.bonus /\ copy.banned = r.banned
      BY <3>2 DEF Row
    <3> QED
      BY <1>0, <3>1, <3>3
  <2>3. 0 <= row[u].coins + 0 /\ Edit(h, u, u, copy, 0, 0)
    BY <1>0, <1>5, <2>1 DEF ToggleLikesOff
  <2> QED
    BY <2>2, <2>3, SettleKeeps
<1> QED
  BY <1>1, <1>2, <1>3, <1>4, <1>5

LEMMA TransferKeeps ==
  ASSUME Inv, NEW h \in Handlers, NEW u \in Users, NEW v \in Users, NEW a \in Amounts,
         TransferReadSender(h, u, v, a)
  PROVE  Inv'
<1>0. row[u] \in Row /\ row[u].coins \in Int /\ a \in Nat
  BY DEF Inv, Types, Row
<1>1. PICK copy : copy = [row[u] EXCEPT !.coins = row[u].coins - a]
  OBVIOUS
<1>2. /\ copy \in Row /\ copy.coins = row[u].coins + 0 - a /\ copy.likes = row[u].likes
      /\ copy.invites = row[u].invites /\ copy.bonus = row[u].bonus
      /\ copy.banned = row[u].banned
  BY <1>0, <1>1 DEF Row
<1>3. PICK s : s = Change(u, copy, 0, a)
  OBVIOUS
<1>4. SaveFine(s) /\ s \in Saves
  BY <1>0, <1>2, <1>3, ChangeFine DEF SaveFine
<1>5. PICK j : j = [pc |-> "transfer", by |-> u, who |-> v, amount |-> a, saves |-> <<s>>]
  OBVIOUS
<1>6. j \in Jobs /\ j.pc = "transfer" /\ j.by = u /\ j.who = v /\ j.saves = <<s>>
  BY <1>0, <1>4, <1>5 DEF Jobs
<1>7. JobFine(j)
  BY <1>4, <1>6 DEF JobFine
<1>8. /\ job' = [job EXCEPT ![h] = j] /\ updates' \in Nat
      /\ UNCHANGED <<registered, row, likes, given, spent, referred, ban, stale>>
  BY <1>1, <1>3, <1>5 DEF TransferReadSender, Counted, Inv, Types
<1> QED
  BY <1>6, <1>7, <1>8, BeginKeeps

LEMMA RecipientKeeps ==
  ASSUME Inv, NEW h \in Handlers, TransferReadRecipient(h) PROVE Inv'
<1> DEFINE v == job[h].who
           a == job[h].amount
<1>0. job[h].pc = "transfer" /\ JobFine(job[h]) /\ job[h] \in Jobs
  BY DEF TransferReadRecipient, Inv, JobsFine, JobFine
<1>1. /\ v \in Users /\ a \in Nat /\ job[h].by \in Users
      /\ job[h].saves \in Seq(Saves) /\ Len(job[h].saves) = 1
  BY <1>0 DEF JobFine, Jobs
<1>2. UNCHANGED <<registered, row, likes, given, spent, referred, ban, stale, updates>>
  BY DEF TransferReadRecipient, history
<1>3. CASE job' = [job EXCEPT ![h] = Idle]
  BY <1>2, <1>3, IdleFine, BeginKeeps DEF Inv, Types, Idle, Doing
<1>4. CASE /\ job[h].saves[1].copy.coins >= 0
           /\ Owes(h, job[h].by,
                   Append(job[h].saves, Change(v, [row[v] EXCEPT !.coins = @ + a], a, 0)))
  <2>0. row[v] \in Row /\ row[v].coins \in Int /\ 0 <= row[v].coins
    BY <1>1 DEF Inv, Types, Row, Backed
  <2>1. PICK copy : copy = [row[v] EXCEPT !.coins = row[v].coins + a]
    OBVIOUS
  <2>2. /\ copy \in Row /\ copy.coins = row[v].coins + a - 0 /\ copy.likes = row[v].likes
        /\ copy.invites = row[v].invites /\ copy.bonus = row[v].bonus
        /\ copy.banned = row[v].banned
    <3>1. PICK r : r = row[v]
      OBVIOUS
    <3>2. r \in Row /\ a \in Nat /\ r.coins \in Int /\ copy = [r EXCEPT !.coins = r.coins + a]
      BY <1>1, <2>0, <2>1, <3>1
    <3>3. /\ copy \in Row /\ copy.coins = r.coins + a - 0 /\ copy.likes = r.likes
          /\ copy.invites = r.invites /\ copy.bonus = r.bonus /\ copy.banned = r.banned
      BY <3>2 DEF Row
    <3> QED
      BY <3>1, <3>3
  <2>3. PICK s : s = Change(v, copy, a, 0)
    OBVIOUS
  <2>4. SaveFine(s) /\ s \in Saves /\ s.copy = copy
    <3>1. SaveFine(s)
      BY <1>1, <2>2, <2>3, ChangeFine
    <3> QED
      BY <2>3, <3>1 DEF SaveFine, Change
  <2>5. PICK saves : saves = Append(job[h].saves, s)
    OBVIOUS
  <2>6. /\ saves \in Seq(Saves) /\ Len(saves) = 2 /\ saves # << >>
        /\ saves[1] = job[h].saves[1] /\ saves[2] = s
    <3>1. PICK owed : owed = job[h].saves
      OBVIOUS
    <3>2. owed \in Seq(Saves) /\ Len(owed) = 1 /\ saves = Append(owed, s)
      BY <1>1, <2>5, <3>1
    <3> QED
      BY <2>4, <3>1, <3>2
  <2>7. SaveFine(saves[1])
    BY <1>0, <1>1, <2>6 DEF JobFine
  <2>8. PICK j : j = Doing("save", job[h].by, None, saves)
    OBVIOUS
  <2>9. j \in Jobs /\ j.pc = "save" /\ j.saves = saves
    BY <1>1, <2>6, <2>8 DEF Doing, Jobs
  <2>10. \A i \in 1..Len(saves) : SaveFine(saves[i]) /\ 0 <= saves[i].copy.coins
    <3>1. \A i \in 1..Len(saves) : i = 1 \/ i = 2
      BY <2>6
    <3>2. job[h].saves[1].copy.coins \in Int
      <4>1. job[h].saves[1] \in Saves
        BY <1>1
      <4> QED
        BY <4>1 DEF Saves, Row
    <3> QED
      BY <1>1, <1>4, <2>0, <2>2, <2>4, <2>6, <2>7, <3>1, <3>2
  <2>11. JobFine(j)
    BY <2>6, <2>9, <2>10 DEF JobFine
  <2>12. job' = [job EXCEPT ![h] = j]
    BY <1>4, <2>1, <2>3, <2>5, <2>8 DEF Owes
  <2> QED
    BY <1>2, <2>9, <2>11, <2>12, BeginKeeps DEF Inv, Types
<1> QED
  BY <1>3, <1>4 DEF TransferReadRecipient

\* A save carries into the row what its handler gave and took.
LEMMA SaveKeeps ==
  ASSUME Inv, NEW h \in Handlers, Save(h) PROVE Inv'
<1>1. PICK s, saves, rest : saves = job[h].saves /\ s = saves[1] /\ rest = Tail(saves)
  OBVIOUS
<1>2. /\ job[h].pc = "save" /\ JobFine(job[h]) /\ job[h] \in Jobs
      /\ saves \in Seq(Saves) /\ saves # << >>
  BY <1>1 DEF Save, Inv, JobsFine, JobFine, Jobs
<1>3. /\ 1 \in 1..Len(saves) /\ rest \in Seq(Saves) /\ s \in Saves
      /\ \A i \in 1..Len(rest) : rest[i] = saves[i + 1] /\ i + 1 \in 1..Len(saves)
  BY <1>1, <1>2
<1>4. SaveFine(s) /\ 0 <= s.copy.coins
  BY <1>1, <1>2, <1>3 DEF JobFine
<1>5. PICK u \in Users : u = s.who
  BY <1>3 DEF Saves
<1>6. /\ s.base \in Row /\ s.copy \in Row /\ s.gives \in Nat /\ s.takes \in Nat
      /\ s.copy.coins \in Int /\ s.base.coins \in Int /\ Earned(s.copy) \in Nat
      /\ Earned(s.base) \in Nat
  BY <1>3, EarnedType DEF Saves, Row
<1>7. /\ UNCHANGED <<registered, likes, referred, ban, updates>>
      /\ row' = [row EXCEPT ![u] = s.copy]
      /\ stale' = [stale EXCEPT ![u] = stale[u] \/ row[u] # s.base]
      /\ given' = [given EXCEPT ![u] = given[u] + s.gives]
      /\ spent' = [spent EXCEPT ![u] = spent[u] + s.takes]
  BY <1>1, <1>5 DEF Save
<1>8. \A v \in Users :
        /\ row'[v] = (IF v = u THEN s.copy ELSE row[v])
        /\ given'[v] = (IF v = u THEN given[u] + s.gives ELSE given[v])
        /\ spent'[v] = (IF v = u THEN spent[u] + s.takes ELSE spent[v])
        /\ v # u => stale'[v] = stale[v]
        /\ given[v] \in Nat /\ spent[v] \in Nat
  BY <1>7 DEF Inv, Types
<1>9. ~stale'[u] => ~stale[u] /\ row[u] = s.base
  BY <1>7 DEF Inv, Types
<1>10. Types'
  <2>1. row' \in [Users -> Row]
    BY <1>6, <1>7 DEF Inv, Types
  <2>2. given' \in [Users -> Nat] /\ spent' \in [Users -> Nat]
    BY <1>6, <1>7, <1>8 DEF Inv, Types
  <2>3. stale' \in [Users -> BOOLEAN]
    BY <1>7 DEF Inv, Types
  <2> QED
    BY <1>7, <2>1, <2>2, <2>3 DEF Inv, Types
<1>11. \A v \in Users : given[v] <= given'[v] /\ referred[v] \subseteq referred'[v]
  BY <1>6, <1>7, <1>8
<1>12. PICK j : j = IF rest = << >> THEN Idle ELSE Doing("save", job[h].by, None, rest)
  OBVIOUS
<1>13. job' = [job EXCEPT ![h] = j] /\ j.pc # "referral"
  BY <1>1, <1>12 DEF Save, Idle, Doing
<1>14. JobFine(j)
  <2>1. CASE rest = << >>
    BY <1>12, <2>1, IdleFine
  <2>2. CASE rest # << >>
    <3>1. j \in Jobs /\ j.pc = "save" /\ j.saves = rest
      BY <1>2, <1>3, <1>12, <2>2 DEF Doing, Jobs
    <3>2. \A i \in 1..Len(rest) : SaveFine(rest[i]) /\ 0 <= rest[i].copy.coins
      BY <1>1, <1>2, <1>3 DEF JobFine
    <3> QED
      BY <2>2, <3>1, <3>2 DEF JobFine
  <2> QED
    BY <2>1, <2>2
<1>15. JobsFine'
  <2>1. JobFine(j)'
    BY <1>10, <1>11, <1>14, JobStays DEF Inv
  <2> QED
    BY <1>10, <1>11, <1>13, <2>1, JobsStay
<1>16. Newcomers'
  BY <1>7, <1>13 DEF Inv, Newcomers, JobsFine
<1>17. Backed'
  <2>1. \A v \in Users : row[v] \in Row /\ Earned(row[v]) \in Nat
    BY EarnedType DEF Inv, Types
  <2> QED
    BY <1>4, <1>5, <1>6, <1>7, <1>8, <2>1 DEF Inv, Backed, SaveFine
<1>18. Balanced'
  <2> SUFFICES ASSUME NEW v \in Users, ~stale'[v]
               PROVE  /\ row'[v].coins = given'[v] + Earned(row'[v]) - spent'[v]
                      /\ row'[v].likes = Cardinality(Likers(v)')
                      /\ row'[v].banned = ban'[v]
    BY DEF Balanced
  <2>1. Likers(v)' = Likers(v)
    BY <1>7 DEF Likers
  <2>2. CASE v = u
    <3>1. /\ row[u] = s.base /\ ~stale[u] /\ row'[u] = s.copy
          /\ given'[u] = given[u] + s.gives /\ spent'[u] = spent[u] + s.takes
      BY <1>8, <1>9, <2>2
    <3>2. s.base.coins = given[u] + Earned(s.base) - spent[u]
      BY <3>1 DEF Inv, Balanced
    <3>3. s.base.likes = Cardinality(Likers(u)) /\ s.base.banned = ban[u]
      BY <3>1 DEF Inv, Balanced
    <3>4. s.copy.coins - Earned(s.copy) = s.base.coins - Earned(s.base) + s.gives - s.takes
      BY <1>4 DEF SaveFine
    <3>5. s.copy.coins = given'[u] + Earned(s.copy) - spent'[u]
      BY <1>6, <1>8, <3>1, <3>2, <3>4
    <3> QED
      BY <1>4, <1>7, <2>1, <2>2, <3>1, <3>3, <3>5 DEF SaveFine
  <2>3. CASE v # u
    BY <1>7, <1>8, <2>1, <2>3 DEF Inv, Balanced
  <2> QED
    BY <2>2, <2>3
<1> QED
  BY <1>10, <1>15, <1>16, <1>17, <1>18 DEF Inv

LEMMA FailKeeps == ASSUME Inv, NEW h \in Handlers, CallFails(h) PROVE Inv'
BY IdleFine, BeginKeeps DEF CallFails, history, Inv, Types, Idle, Doing

(***************************************************************************)
(* Changes of one column                                                   *)
(***************************************************************************)
LEMMA LikeBegins ==
  ASSUME Inv, NEW h \in Handlers, NEW u \in Users, NEW t \in Users, LikeHandler(h, u, t)
  PROVE  Inv'
<1>1. PICK pc \in {"like", "unlike"} : job' = [job EXCEPT ![h] = Doing(pc, u, t, << >>)]
  BY DEF LikeHandler
<1>2. PICK j : j = Doing(pc, u, t, << >>)
  OBVIOUS
<1>3. JobFine(j) /\ j.pc # "referral"
  BY <1>2, DoingFine
<1>4. updates' \in Nat /\ UNCHANGED <<registered, row, likes, given, spent, referred, ban, stale>>
  BY DEF LikeHandler, Counted, Inv, Types
<1> QED
  BY <1>1, <1>2, <1>3, <1>4, BeginKeeps

LEMMA LikersFinite == \A v \in Users : IsFiniteSet(Likers(v)) /\ Cardinality(Likers(v)) \in Nat
BY FS_Subset, FS_CardinalityType DEF Likers

\* The like or unlike of one user leaves every row but the target's counter.
LEMMA CounterKeeps ==
  ASSUME Inv, NEW h \in Handlers, NEW t \in Users, NEW c \in Int,
         row' = [row EXCEPT ![t].likes = c], likes' \subseteq Users \X Users,
         stale' \in [Users -> BOOLEAN], \A v \in Users : stale[v] => stale'[v],
         \A v \in Users \ {t} : Likers(v)' = Likers(v),
         ~stale'[t] => c = Cardinality(Likers(t)'),
         job' = [job EXCEPT ![h] = Idle],
         UNCHANGED <<registered, given, spent, referred, ban, updates>>
  PROVE  Inv'
<1>1. \A v \in Users :
        /\ row[v] \in Row /\ row'[v] \in Row
        /\ row'[v].coins = row[v].coins /\ row'[v].invites = row[v].invites
        /\ row'[v].bonus = row[v].bonus /\ row'[v].banned = row[v].banned
        /\ v # t => row'[v].likes = row[v].likes
  <2>1. row \in [Users -> Row]
    BY DEF Inv, Types
  <2> QED
    BY <2>1 DEF Row
<1>2. row'[t].likes = c
  BY DEF Inv, Types, Row
<1>3. \A v \in Users : Earned(row'[v]) = Earned(row[v])
  BY <1>1, EarnedSame
<1>4. Types'
  <2>1. row' \in [Users -> Row]
    BY <1>1 DEF Inv, Types
  <2> QED
    BY <2>1 DEF Inv, Types
<1>5. JobsFine'
  <2>1. \A v \in Users : given[v] <= given'[v] /\ referred[v] \subseteq referred'[v]
    BY DEF Inv, Types
  <2>2. JobFine(Idle)'
    BY <1>4, <2>1, IdleFine, JobStays DEF Inv
  <2> QED
    BY <1>4, <2>1, <2>2, JobsStay
<1>6. Newcomers'
  BY DEF Inv, Newcomers, JobsFine, Idle, Doing
<1>7. Backed'
  BY <1>1, <1>3 DEF Inv, Backed
<1>8. Balanced'
  BY <1>1, <1>2, <1>3 DEF Inv, Balanced
<1> QED
  BY <1>4, <1>5, <1>6, <1>7, <1>8 DEF Inv

LEMMA LikeKeeps == ASSUME Inv, NEW h \in Handlers, LikeCommit(h) PROVE Inv'
<1>1. PICK l \in Users, t \in Users : l = job[h].by /\ t = job[h].who
  BY DEF LikeCommit, Inv, JobsFine, JobFine
<1>2. /\ likes' = likes \cup {<<l, t>>} /\ job' = [job EXCEPT ![h] = Idle]
      /\ row' = IF <<l, t>> \in likes THEN row ELSE [row EXCEPT ![t].likes = row[t].likes + 1]
      /\ UNCHANGED <<registered, given, spent, referred, ban, stale, updates>>
  BY <1>1 DEF LikeCommit, history, Inv, Types
<1>3. CASE <<l, t>> \in likes
  <2>1. UNCHANGED <<registered, row, likes, given, spent, referred, ban, stale>>
        /\ updates' \in Nat
    BY <1>2, <1>3 DEF Inv, Types
  <2> QED
    BY <1>2, <2>1, IdleFine, BeginKeeps DEF Idle, Doing
<1>4. CASE <<l, t>> \notin likes
  <2>1. PICK c : c = row[t].likes + 1
    OBVIOUS
  <2>2. row' = [row EXCEPT ![t].likes = c] /\ c \in Int
    BY <1>2, <1>4, <2>1 DEF Inv, Types, Row
  <2>3. Likers(t)' = Likers(t) \cup {l} /\ l \notin Likers(t)
    BY <1>2, <1>4 DEF Likers
  <2>4. \A v \in Users \ {t} : Likers(v)' = Likers(v)
    BY <1>2 DEF Likers
  <2>5. Cardinality(Likers(t)') = Cardinality(Likers(t)) + 1
    BY <2>3, LikersFinite, FS_AddElement
  <2>6. ~stale'[t] => c = Cardinality(Likers(t)')
    BY <1>2, <2>1, <2>5 DEF Inv, Balanced
  <2>7. likes' \subseteq Users \X Users /\ stale' \in [Users -> BOOLEAN]
        /\ \A v \in Users : stale[v] => stale'[v]
    BY <1>2 DEF Inv, Types
  <2> QED
    BY <1>2, <2>2, <2>4, <2>6, <2>7, CounterKeeps
<1> QED
  BY <1>3, <1>4

LEMMA UnlikeKeeps == ASSUME Inv, NEW h \in Handlers, UnlikeCommit(h) PROVE Inv'
<1>1. PICK l \in Users, t \in Users : l = job[h].by /\ t = job[h].who
  BY DEF UnlikeCommit, Inv, JobsFine, JobFine
<1>2. PICK c : c = row[t].likes - 1
  OBVIOUS
<1>3. /\ likes' = likes \ {<<l, t>>} /\ job' = [job EXCEPT ![h] = Idle]
      /\ row' = [row EXCEPT ![t].likes = c] /\ c \in Int
      /\ stale' = [stale EXCEPT ![t] = stale[t] \/ <<l, t>> \notin likes]
      /\ UNCHANGED <<registered, given, spent, referred, ban, updates>>
  BY <1>1, <1>2 DEF UnlikeCommit, Inv, Types, Row
<1>4. \A v \in Users \ {t} : Likers(v)' = Likers(v)
  BY <1>3 DEF Likers
<1>5. ~stale'[t] => c = Cardinality(Likers(t)')
  <2> SUFFICES ASSUME ~stale'[t] PROVE c = Cardinality(Likers(t)')
    OBVIOUS
  <2>1. ~stale[t] /\ <<l, t>> \in likes
    BY <1>3 DEF Inv, Types
  <2>2. Likers(t)' = Likers(t) \ {l} /\ l \in Likers(t)
    BY <1>3, <2>1 DEF Likers
  <2>3. Cardinality(Likers(t)') = Cardinality(Likers(t)) - 1
    BY <2>2, LikersFinite, FS_RemoveElement
  <2> QED
    BY <1>2, <2>1, <2>3 DEF Inv, Balanced
<1>6. likes' \subseteq Users \X Users /\ stale' \in [Users -> BOOLEAN]
      /\ \A v \in Users : stale[v] => stale'[v]
  BY <1>3 DEF Inv, Types
<1> QED
  BY <1>3, <1>4, <1>5, <1>6, CounterKeeps

LEMMA GiftKeeps ==
  ASSUME Inv, NEW a \in Amounts, NEW receivers \in SUBSET Users, Gift(a, receivers) PROVE Inv'
<1>0. a \in Nat
  OBVIOUS
<1>1. \A v \in Users :
        /\ row[v] \in Row /\ row'[v] \in Row /\ given[v] \in Nat /\ spent[v] \in Nat
        /\ row'[v].coins = row[v].coins + (IF v \in receivers THEN a ELSE 0)
        /\ given'[v] = given[v] + (IF v \in receivers THEN a ELSE 0)
        /\ row'[v].likes = row[v].likes /\ row'[v].invites = row[v].invites
        /\ row'[v].bonus = row[v].bonus /\ row'[v].banned = row[v].banned
  <2>1. row \in [Users -> Row] /\ given \in [Users -> Nat] /\ spent \in [Users -> Nat]
    BY DEF Inv, Types
  <2> QED
    BY <1>0, <2>1 DEF Gift, Row
<1>2. UNCHANGED <<registered, likes, job, spent, referred, ban, stale>> /\ updates' \in Nat
  BY DEF Gift, Counted, Inv, Types
<1>3. \A v \in Users : Earned(row'[v]) = Earned(row[v]) /\ Earned(row[v]) \in Nat
  BY <1>1, EarnedSame, EarnedType
<1>4. Types'
  <2>1. row' = [v \in Users |-> row'[v]] /\ given' = [v \in Users |-> given'[v]]
    BY DEF Gift
  <2>2. \A v \in Users : row'[v] \in Row /\ given'[v] \in Nat
    BY <1>0, <1>1
  <2>3. row' \in [Users -> Row] /\ given' \in [Users -> Nat]
    BY <2>1, <2>2
  <2> QED
    BY <1>2, <2>3 DEF Inv, Types
<1>5. JobsFine'
  <2>1. \A v \in Users : given[v] <= given'[v] /\ referred[v] \subseteq referred'[v]
    BY <1>0, <1>1, <1>2
  <2>2. ASSUME NEW h \in Handlers PROVE JobFine(job[h])'
    <3>1. PICK j : j = job[h]
      OBVIOUS
    <3>2. JobFine(j)'
      BY <1>4, <2>1, <3>1, JobStays DEF Inv, JobsFine
    <3> QED
      BY <1>2, <3>1, <3>2 DEF JobFine, SaveFine
  <2> QED
    BY <1>2, <2>2 DEF Inv, JobsFine
<1>6. Newcomers'
  BY <1>2 DEF Inv, Newcomers
<1>7. Backed'
  <2>1. \A v \in Users : row[v].coins \in Int
    BY <1>1 DEF Row
  <2> QED
    BY <1>0, <1>1, <1>2, <1>3, <2>1 DEF Inv, Backed
<1>8. Balanced'
  BY <1>0, <1>1, <1>2, <1>3 DEF Inv, Balanced, Likers
<1> QED
  BY <1>4, <1>5, <1>6, <1>7, <1>8 DEF Inv

LEMMA BanKeeps ==
  ASSUME Inv, NEW u \in Users, NEW b \in BOOLEAN, SetBanned(u, b) PROVE Inv'
<1>1. \A v \in Users :
        /\ row[v] \in Row /\ row'[v] \in Row
        /\ row'[v].coins = row[v].coins /\ row'[v].likes = row[v].likes
        /\ row'[v].invites = row[v].invites /\ row'[v].bonus = row[v].bonus
        /\ row'[v].banned = (IF v = u THEN b ELSE row[v].banned)
        /\ ban'[v] = (IF v = u THEN b ELSE ban[v])
  <2>1. /\ row \in [Users -> Row] /\ ban \in [Users -> BOOLEAN]
        /\ row' = [row EXCEPT ![u].banned = b] /\ ban' = [ban EXCEPT ![u] = b]
    BY DEF SetBanned, Inv, Types
  <2> QED
    BY <2>1 DEF Row
<1>2. UNCHANGED <<registered, likes, job, given, spent, referred, stale>> /\ updates' \in Nat
  BY DEF SetBanned, Counted, Inv, Types
<1>3. \A v \in Users : Earned(row'[v]) = Earned(row[v])
  BY <1>1, EarnedSame
<1>4. Types'
  <2>1. row' \in [Users -> Row] /\ ban' \in [Users -> BOOLEAN]
    BY <1>1 DEF SetBanned, Inv, Types
  <2> QED
    BY <1>2, <2>1 DEF Inv, Types
<1>5. JobsFine' /\ Newcomers'
  <2>1. JobsFine'
    BY <1>2, <1>4, JobsSame DEF Inv
  <2>2. Newcomers'
    BY <1>2 DEF Inv, Newcomers
  <2> QED
    BY <2>1, <2>2
<1>6. Backed' /\ Balanced'
  <2>1. Backed'
    BY <1>1, <1>2, <1>3 DEF Inv, Backed
  <2>2. Balanced'
    BY <1>1, <1>2, <1>3 DEF Inv, Balanced, Likers
  <2> QED
    BY <2>1, <2>2
<1> QED
  BY <1>4, <1>5, <1>6 DEF Inv

(***************************************************************************)
(* The theorems                                                            *)
(***************************************************************************)
LEMMA InvInit == Init => Inv
<1> SUFFICES ASSUME Init PROVE Inv
  OBVIOUS
<1>1. NewRow \in Row /\ Earned(NewRow) = 0 /\ NewRow.coins = 0 /\ NewRow.likes = 0
      /\ NewRow.invites = 0 /\ NewRow.banned = FALSE
  BY DEF NewRow, Row, Earned
<1>2. Types
  BY <1>1 DEF Init, Types
<1>3. JobsFine
  BY IdleFine DEF Init, JobsFine
<1>4. Newcomers
  BY DEF Init, Newcomers, Idle, Doing
<1>5. Backed
  BY <1>1, FS_EmptySet DEF Init, Backed
<1>6. Balanced
  <2>1. \A u \in Users : Likers(u) = {}
    BY DEF Init, Likers
  <2>2. \A u \in Users : /\ row[u] = NewRow /\ given[u] = 0 /\ spent[u] = 0
                         /\ ban[u] = FALSE /\ Cardinality(Likers(u)) = 0
    BY <2>1, FS_EmptySet DEF Init
  <2>3. \A u \in Users : row[u].coins = given[u] + Earned(row[u]) - spent[u]
    BY <1>1, <2>2
  <2> QED
    BY <1>1, <2>2, <2>3 DEF Balanced
<1> QED
  BY <1>2, <1>3, <1>4, <1>5, <1>6 DEF Inv

LEMMA InvStep == Inv /\ [Next]_vars => Inv'
<1> SUFFICES ASSUME Inv, [Next]_vars PROVE Inv'
  OBVIOUS
<1>1. ASSUME NEW h \in Handlers, Step(h) PROVE Inv'
  BY <1>1, CreateKeeps, ReferralKeeps, RecipientKeeps, SaveKeeps, FailKeeps, LikeKeeps, UnlikeKeeps
     DEF Step
<1>2. ASSUME NEW h \in Handlers, NEW u \in Users, Press(h, u) PROVE Inv'
  BY <1>2, ArriveKeeps, EditsKeep, TransferKeeps, LikeBegins DEF Press
<1>3. CASE Admin
  <2>1. Active \subseteq Users
    BY DEF Active, Inv, Types
  <2>2. ASSUME NEW a \in Amounts, AddCoinsToAll(a) \/ AddCoinsToPoor(a) PROVE Inv'
    <3>1. PICK receivers \in SUBSET Users : Gift(a, receivers)
      BY <2>1, <2>2 DEF AddCoinsToAll, AddCoinsToPoor
    <3> QED
      BY <3>1, GiftKeeps
  <2> QED
    BY <1>3, <2>2, BanKeeps DEF Admin
<1>4. CASE UNCHANGED vars
  <2>1. Types' /\ JobsFine'
    <3>1. Types'
      BY <1>4 DEF Inv, Types, vars
    <3> QED
      BY <1>4, <3>1, JobsSame DEF Inv, vars
  <2>2. Newcomers' /\ Backed' /\ Balanced'
    BY <1>4 DEF Inv, Newcomers, Backed, Balanced, Likers, vars
  <2> QED
    BY <2>1, <2>2 DEF Inv
<1> QED
  BY <1>1, <1>2, <1>3, <1>4 DEF Next

\* However handlers overwrite each other's rows, a balance is never negative
\* and never more than was given, earned by counted invitations and by the one
\* bonus (AddCoins, DeductCoins, TransferCoins, HandleReferral).
THEOREM BalanceBacked == Spec => []CoinsBacked
<1>1. Inv => CoinsBacked
  <2> SUFFICES ASSUME Inv, NEW u \in Users
               PROVE  0 <= row[u].coins /\ row[u].coins <= Backing(u, row[u])
    BY DEF CoinsBacked
  <2>1. row[u] \in Row /\ given[u] \in Nat
    BY DEF Inv, Types
  <2>2. given[u] + Earned(row[u]) = Backing(u, row[u])
    <3>1. ReferralCoins * row[u].invites \in Nat
      BY <2>1 DEF Row
    <3> QED
      BY <2>1, <3>1 DEF Earned, Backing
  <2> QED
    BY <2>2 DEF Inv, Backed
<1> QED
  BY <1>1, InvInit, InvStep, PTL DEF Spec

\* The invitations a row counts are of different newcomers, who were created
\* once each (GetOrCreate, HandleReferral).
THEOREM InvitesCounted == Spec => []InvitesBacked
<1>1. Inv => InvitesBacked
  BY DEF Inv, Backed, InvitesBacked
<1> QED
  BY <1>1, InvInit, InvStep, PTL DEF Spec

\* A row nobody wrote from an outdated read is the sum of what was done to it:
\* coins in less coins out, one like per liker, the last ban (repository.go).
THEOREM BooksKept == Spec => []BooksBalance
<1>1. Inv => BooksBalance
  <2> SUFFICES ASSUME Inv, NEW u \in registered, ~stale[u]
               PROVE  /\ row[u].coins = Backing(u, row[u]) - spent[u]
                      /\ row[u].likes = Cardinality(Likers(u))
                      /\ row[u].banned = ban[u]
    BY DEF BooksBalance
  <2>1. u \in Users /\ row[u] \in Row /\ given[u] \in Nat /\ spent[u] \in Nat
    BY DEF Inv, Types
  <2>2. given[u] + Earned(row[u]) = Backing(u, row[u])
    <3>1. ReferralCoins * row[u].invites \in Nat
      BY <2>1 DEF Row
    <3> QED
      BY <2>1, <3>1 DEF Earned, Backing
  <2>3. Balanced
    BY DEF Inv
  <2>4. /\ row[u].coins = given[u] + Earned(row[u]) - spent[u]
        /\ row[u].likes = Cardinality(Likers(u))
        /\ row[u].banned = ban[u]
    BY <2>1, <2>3, Zenon DEF Balanced
  <2>5. row[u].coins = Backing(u, row[u]) - spent[u]
    BY <2>1, <2>2, <2>4, EarnedType
  <2> QED
    BY <2>4, <2>5
<1> QED
  BY <1>1, InvInit, InvStep, PTL DEF Spec

\* The types, with the saves that handlers owe.
THEOREM AccountsTypes == Spec => []TypeOK
<1>1. Inv => TypeOK
  BY DEF Inv, Types, JobsFine, JobFine, TypeOK
<1> QED
  BY <1>1, InvInit, InvStep, PTL DEF Spec
===============================================================================
