------------------------------ MODULE Accounts ------------------------------
(***************************************************************************)
(* The users table and the likes table, and every operation that changes   *)
(* them.  gorm's Save writes all columns of a row, from a copy the handler *)
(* read one call earlier; likes, gifts and bans change one column in the   *)
(* database itself.  Reads and writes are actions of their own, so that    *)
(* handlers may overwrite what others did to the same row.                 *)
(***************************************************************************)
EXTENDS Integers, FiniteSets, Sequences

CONSTANTS
    Users,          \* telegram ids
    Handlers,       \* goroutines that may be in a handler at once
    None,           \* no user: no referrer, or the match worker as the caller
    ReferralCoins,  \* messages.EnterUserCoin
    ProfileBonus,   \* the bonus of StartOptionalProfile
    PoorThreshold,  \* poorCoinThreshold
    Amounts,        \* the amounts of costs, refunds, transfers and gifts
    MaxUpdates,     \* bound: updates of registered users, refunds and admin actions
    Overlap,        \* two updates of one user may be handled at once
    Faults          \* calls may fail, the process may stop

ASSUME AccountsAssumption ==
    /\ None \notin Users
    /\ IsFiniteSet(Users)
    /\ ReferralCoins \in Nat /\ ProfileBonus \in Nat /\ PoorThreshold \in Nat
    /\ Amounts \subseteq Nat
    /\ MaxUpdates \in Nat
    /\ Overlap \in BOOLEAN /\ Faults \in BOOLEAN

VARIABLES
    registered,     \* users that have a row
    row,            \* the rows; one that is not registered yet is NewRow
    likes,          \* the likes table: <<liker, target>>
    job,            \* what each goroutine is doing
    \* history of what was done, which the program does not keep
    given, spent,   \* coins given to and taken from each user by saved changes
    referred,       \* newcomers whose referral reached each user
    ban,            \* the last SetBanned of each user
    stale,          \* rows that were written from an outdated read
    updates

vars == <<registered, row, likes, job, given, spent, referred, ban, stale, updates>>
history == <<given, spent, referred, ban, stale, updates>>

(***************************************************************************)
(* Rows and goroutines                                                     *)
(***************************************************************************)
Row == [coins : Int, likes : Int, invites : Nat,
        bonus : BOOLEAN, banned : BOOLEAN, likesOff : BOOLEAN]

NewRow == [coins |-> 0, likes |-> 0, invites |-> 0,
           bonus |-> FALSE, banned |-> FALSE, likesOff |-> FALSE]

\* A save a handler owes: the row it read, the copy it changed, and what the
\* change gives to and takes from the user.
Saves == [who : Users, base : Row, copy : Row, gives : Nat, takes : Nat]

Jobs == [pc : {"idle", "create", "referral", "transfer", "save", "like", "unlike"},
         by : Users \cup {None}, who : Users \cup {None},
         amount : Nat, saves : Seq(Saves)]

Doing(pc, by, who, saves) == [pc |-> pc, by |-> by, who |-> who, amount |-> 0, saves |-> saves]

Idle == Doing("idle", None, None, << >>)

Change(u, copy, gives, takes) ==
    [who |-> u, base |-> row[u], copy |-> copy, gives |-> gives, takes |-> takes]

\* The rate limiter keeps two updates of one user apart unless a handler takes
\* longer than it expects; banGuardMiddleware turns banned users away.
MayStart(h, u) ==
    /\ job[h] = Idle
    /\ u # None => ~row[u].banned
    /\ Overlap \/ u = None \/ \A g \in Handlers : job[g].by # u

Counted == updates < MaxUpdates /\ updates' = updates + 1

Owes(h, by, saves) == job' = [job EXCEPT ![h] = Doing("save", by, None, saves)]

Init ==
    /\ registered = {}
    /\ row = [u \in Users |-> NewRow]
    /\ likes = {}
    /\ job = [h \in Handlers |-> Idle]
    /\ given = [u \in Users |-> 0] /\ spent = [u \in Users |-> 0]
    /\ referred = [u \in Users |-> {}]
    /\ ban = [u \in Users |-> FALSE]
    /\ stale = [u \in Users |-> FALSE]
    /\ updates = 0

(***************************************************************************)
(* Registration and referral                                               *)
(***************************************************************************)
\* GetOrCreate of the first update of u, by the invite link of r or without
\* one.  Any error of the read, not only a missing row, leads to Create.
Arrive(h, u, r) ==
    /\ MayStart(h, u)
    /\ u \notin registered \/ Faults
    /\ r # u
    /\ job' = [job EXCEPT ![h] = Doing("create", u, r, << >>)]
    /\ UNCHANGED <<registered, row, likes, history>>

Refer(h) ==
    job' = [job EXCEPT ![h] = IF @.who = None THEN Idle ELSE Doing("referral", @.by, @.who, << >>)]

\* Mutant: the table has no unique index.
CreateAgain(h) ==
    /\ job[h].pc = "create"
    /\ registered' = registered \cup {job[h].by}
    /\ Refer(h)
    /\ UNCHANGED <<row, likes, history>>

\* Create: the unique index on telegram_id refuses a second row.
Create(h) ==
    LET u == job[h].by IN
    /\ job[h].pc = "create"
    /\ \/ /\ u \notin registered
          /\ registered' = registered \cup {u}
          /\ Refer(h)
       \/ /\ u \in registered \/ Faults
          /\ job' = [job EXCEPT ![h] = Idle]
          /\ UNCHANGED registered
    /\ UNCHANGED <<row, likes, history>>

\* HandleReferral reads the referrer; the reward is in the copy it will save.
HandleReferral(h) ==
    LET r == job[h].who IN
    /\ job[h].pc = "referral"
    /\ \/ /\ r \in registered
          /\ Owes(h, job[h].by,
                  <<Change(r, [row[r] EXCEPT !.coins = @ + ReferralCoins, !.invites = @ + 1], 0, 0)>>)
          /\ referred' = [referred EXCEPT ![r] = @ \cup {job[h].by}]
       \/ /\ r \notin registered \/ Faults
          /\ job' = [job EXCEPT ![h] = Idle]
          /\ UNCHANGED referred
    /\ UNCHANGED <<registered, row, likes, given, spent, ban, stale, updates>>

(***************************************************************************)
(* Handlers that read a row, change their copy and save it                 *)
(***************************************************************************)
Edit(h, by, u, copy, gives, takes) ==
    /\ MayStart(h, by) /\ u \in registered
    /\ Counted
    /\ Owes(h, by, <<Change(u, copy, gives, takes)>>)
    /\ UNCHANGED <<registered, row, likes, given, spent, referred, ban, stale>>

\* DeductCoins of a search, of the service and of CoinTransactionService.
DeductCoins(h, u, a) ==
    /\ row[u].coins >= a
    /\ Edit(h, u, u, [row[u] EXCEPT !.coins = @ - a], 0, a)

\* AwardCoins, AwardCoinsByTelegramID: a refund, by the match worker or by the
\* user's own handler.
AwardCoins(h, by, u, a) ==
    /\ Edit(h, by, u, [row[u] EXCEPT !.coins = @ + a], a, 0)

\* Mutant: the row does not say that the bonus was received.
StartOptionalUnmarked(h, u) ==
    Edit(h, u, u, [row[u] EXCEPT !.coins = @ + ProfileBonus], 0, 0)

\* StartOptionalProfile saves nothing once the bonus was received.
StartOptionalProfile(h, u) ==
    /\ ~row[u].bonus
    /\ Edit(h, u, u, [row[u] EXCEPT !.coins = @ + ProfileBonus, !.bonus = TRUE], 0, 0)

\* Profile fields, GPS and silence: columns not modelled here, saved with the
\* rest of the row as it was read.
EditProfile(h, u) == Edit(h, u, u, row[u], 0, 0)

ToggleLikesOff(h, u) == Edit(h, u, u, [row[u] EXCEPT !.likesOff = ~@], 0, 0)

\* TransferCoins reads the sender, then the recipient, then saves both in turn.
TransferReadSender(h, u, v, a) ==
    /\ MayStart(h, u) /\ u \in registered /\ v # u /\ a > 0
    /\ Counted
    /\ job' = [job EXCEPT ![h] =
                 [pc |-> "transfer", by |-> u, who |-> v, amount |-> a,
                  saves |-> <<Change(u, [row[u] EXCEPT !.coins = @ - a], 0, a)>>]]
    /\ UNCHANGED <<registered, row, likes, given, spent, referred, ban, stale>>

TransferReadRecipient(h) ==
    LET v == job[h].who
        a == job[h].amount IN
    /\ job[h].pc = "transfer"
    /\ IF v \in registered /\ job[h].saves[1].copy.coins >= 0
       THEN Owes(h, job[h].by,
                 Append(job[h].saves, Change(v, [row[v] EXCEPT !.coins = @ + a], a, 0)))
       ELSE job' = [job EXCEPT ![h] = Idle]
    /\ UNCHANGED <<registered, row, likes, history>>

\* Repository.Update: every column of the row becomes what the copy holds.
Save(h) ==
    LET s == job[h].saves[1]
        rest == Tail(job[h].saves) IN
    /\ job[h].pc = "save"
    /\ row' = [row EXCEPT ![s.who] = s.copy]
    /\ stale' = [stale EXCEPT ![s.who] = @ \/ row[s.who] # s.base]
    /\ given' = [given EXCEPT ![s.who] = @ + s.gives]
    /\ spent' = [spent EXCEPT ![s.who] = @ + s.takes]
    /\ job' = [job EXCEPT ![h] = IF rest = << >> THEN Idle
                                     ELSE Doing("save", @.by, None, rest)]
    /\ UNCHANGED <<registered, likes, referred, ban, updates>>

\* A call that fails ends the handler, and so does SIGTERM, which waits for no
\* goroutine; of a transfer, what was saved before stays saved.
CallFails(h) ==
    /\ Faults /\ job[h] # Idle
    /\ job' = [job EXCEPT ![h] = Idle]
    /\ UNCHANGED <<registered, row, likes, history>>

(***************************************************************************)
(* Changes of one column                                                   *)
(***************************************************************************)
\* LikeHandler reads the target's row; ToggleLike is one transaction, in which
\* the test sees what was committed before it.
LikeHandler(h, u, t) ==
    /\ MayStart(h, u) /\ u \in registered /\ t \in registered \ {u}
    /\ ~row[t].likesOff
    /\ Counted
    /\ job' = [job EXCEPT ![h] =
                 Doing(IF <<u, t>> \in likes THEN "unlike" ELSE "like", u, t, << >>)]
    /\ UNCHANGED <<registered, row, likes, given, spent, referred, ban, stale>>

\* Mutant: the increment is not rolled back with the insert.
LikeAgain(h) ==
    LET t == job[h].who IN
    /\ job[h].pc = "like"
    /\ likes' = likes \cup {<<job[h].by, t>>}
    /\ row' = [row EXCEPT ![t].likes = @ + 1]
    /\ job' = [job EXCEPT ![h] = Idle]
    /\ UNCHANGED <<registered, history>>

\* The unique index rolls a second insert back, and with it the increment.
LikeCommit(h) ==
    LET t == job[h].who
        pair == <<job[h].by, t>> IN
    /\ job[h].pc = "like"
    /\ likes' = likes \cup {pair}
    /\ row' = IF pair \in likes THEN row ELSE [row EXCEPT ![t].likes = @ + 1]
    /\ job' = [job EXCEPT ![h] = Idle]
    /\ UNCHANGED <<registered, history>>

\* A delete that finds nothing is no error: the decrement is made all the same.
UnlikeCommit(h) ==
    LET t == job[h].who
        pair == <<job[h].by, t>> IN
    /\ job[h].pc = "unlike"
    /\ likes' = likes \ {pair}
    /\ row' = [row EXCEPT ![t].likes = @ - 1]
    /\ stale' = [stale EXCEPT ![t] = @ \/ pair \notin likes]
    /\ job' = [job EXCEPT ![h] = Idle]
    /\ UNCHANGED <<registered, given, spent, referred, ban, updates>>

\* AddCoinsToAll and AddCoinsToPoor: one UPDATE over the rows of those who are
\* not banned, or of those of them who have less than the threshold.
Gift(a, receivers) ==
    /\ receivers # {} /\ Counted
    /\ row' = [u \in Users |-> IF u \in receivers THEN [row[u] EXCEPT !.coins = @ + a] ELSE row[u]]
    /\ given' = [u \in Users |-> IF u \in receivers THEN given[u] + a ELSE given[u]]
    /\ UNCHANGED <<registered, likes, job, spent, referred, ban, stale>>

Active == {u \in registered : ~row[u].banned}

AddCoinsToAll(a) == Gift(a, Active)

AddCoinsToPoor(a) == Gift(a, {u \in Active : row[u].coins < PoorThreshold})

SetBanned(u, b) ==
    /\ u \in registered
    /\ Counted
    /\ row' = [row EXCEPT ![u].banned = b]
    /\ ban' = [ban EXCEPT ![u] = b]
    /\ UNCHANGED <<registered, likes, job, given, spent, referred, stale>>

(***************************************************************************)
(* The system                                                              *)
(***************************************************************************)
Step(h) ==
    \/ Create(h) \/ HandleReferral(h)
    \/ TransferReadRecipient(h) \/ Save(h) \/ CallFails(h)
    \/ LikeCommit(h) \/ UnlikeCommit(h)

Press(h, u) ==
    \/ \E r \in Users \cup {None} : Arrive(h, u, r)
    \/ \E a \in Amounts : DeductCoins(h, u, a)
    \/ \E a \in Amounts, by \in {u, None} : AwardCoins(h, by, u, a)
    \/ StartOptionalProfile(h, u) \/ EditProfile(h, u) \/ ToggleLikesOff(h, u)
    \/ \E v \in Users, a \in Amounts : TransferReadSender(h, u, v, a)
    \/ \E t \in Users : LikeHandler(h, u, t)

Admin ==
    \/ \E a \in Amounts : AddCoinsToAll(a) \/ AddCoinsToPoor(a)
    \/ \E u \in Users, b \in BOOLEAN : SetBanned(u, b)

Next ==
    \/ \E h \in Handlers : Step(h) \/ \E u \in Users : Press(h, u)
    \/ Admin

Spec == Init /\ [][Next]_vars

(***************************************************************************)
(* Properties                                                              *)
(***************************************************************************)
TypeOK ==
    /\ registered \subseteq Users
    /\ row \in [Users -> Row]
    /\ likes \subseteq Users \X Users
    /\ job \in [Handlers -> Jobs]
    /\ given \in [Users -> Nat] /\ spent \in [Users -> Nat]
    /\ referred \in [Users -> SUBSET Users]
    /\ ban \in [Users -> BOOLEAN]
    /\ stale \in [Users -> BOOLEAN]
    /\ updates \in Nat

\* The coins a version of u's row can account for.
Backing(u, r) == given[u] + ReferralCoins * r.invites + (IF r.bonus THEN ProfileBonus ELSE 0)

\* Whatever handlers overwrite of each other's, a balance is never negative
\* and never more than the user was given, earned by the invitations the row
\* counts, and by the one bonus the row admits to: a reward and its record are
\* saved together (HandleReferral, StartOptionalProfile).
CoinsBacked == \A u \in Users : 0 <= row[u].coins /\ row[u].coins <= Backing(u, row[u])

\* An invitation counts once per newcomer: two updates of a newcomer that both
\* find no row lead to one row and one referral (GetOrCreate, HandleReferral).
InvitesBacked == \A u \in Users : row[u].invites <= Cardinality(referred[u])

Likers(u) == {l \in Users : <<l, u>> \in likes}

\* As long as no outdated read was written back, a row is the sum of what was
\* done to it: the balance is what came in less what was spent, the counter of
\* likes is the number of likes, and a ban holds (repository.go).
BooksBalance ==
    \A u \in registered : ~stale[u] =>
        /\ row[u].coins = Backing(u, row[u]) - spent[u]
        /\ row[u].likes = Cardinality(Likers(u))
        /\ row[u].banned = ban[u]
=============================================================================
