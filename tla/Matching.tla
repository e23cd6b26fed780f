------------------------------ MODULE Matching ------------------------------
(***************************************************************************)
(* Anonymous chat matching: the joinQueue, accept-chat and end-chat        *)
(* handlers (one goroutine per update), the match worker (one goroutine,   *)
(* a tick every 2 s) and the Redis keys and the Postgres balance they      *)
(* share.  One action is one Redis or Postgres round trip: everything the  *)
(* code does between two of them touches only locals of the goroutine.     *)
(***************************************************************************)
EXTENDS Compat, Sequences, FiniteSets, SequencesExt

CONSTANTS
    Users,          \* Telegram users
    None,           \* an absent key
    Handlers,       \* handler goroutines that can be in flight at once
    Gender,         \* User.Gender of each user
    Filters,        \* filters in play
    InitCoins,      \* every user's balance at the start
    Requests,       \* <<requester, target>>: chat requests whose Accept button exists
    Overlap,        \* TRUE: two updates of the same user may be handled at once
    Faults,         \* TRUE: a Redis or Postgres call may fail
    MaxSearches,    \* bound: searches started in a run
    MaxSettles,     \* bound: matches + expiries + refunds of one entry before a tick
    MaxRestarts     \* bound: process restarts

ASSUME MatchingAssumption ==
    /\ Users # {} /\ Handlers # {}
    /\ None \notin Users
    /\ Gender \in [Users -> Genders]
    /\ Filters \subseteq AllFilters
    /\ None \notin Filters
    /\ InitCoins \in Nat
    /\ Requests \subseteq Users \X Users
    /\ Overlap \in BOOLEAN /\ Faults \in BOOLEAN
    /\ MaxSearches \in Nat /\ MaxSettles \in Nat /\ MaxRestarts \in Nat

VARIABLES
    \* Postgres
    coins,          \* users.coins
    \* Redis
    queue,          \* chat:queue:<filter>, lists of QueueEntry
    waiting,        \* chat:waiting:<user>, the filter last queued under
    inQueue,        \* in_queue:<user> exists
    active,         \* active_chat:<user>, a ChatSession
    \* goroutines
    job,            \* each handler's program counter and locals
    phase,          \* the worker: "idle", "scan", "expire" or "match"
    todo,           \* lists the tick still has to read
    batch,          \* entries the tick has read, in reading order
    stale, fresh,   \* positions of batch still to expire, still to match
    plan,           \* round trips the worker still owes for what it decided
    wfilter, wsnap, \* GetWaitingFilter's answer; the row a refund has read
    \* the clock and the history the properties speak of
    aged,           \* entries SearchTimeout (2 min) old
    searches,       \* searches started so far; the last one's id
    restarts,
    charged,        \* entries whose cost was saved
    opened,         \* entries that reached a queue
    matches, expiries, refunds, \* how often each was matched, timed out, refunded
    severed         \* sessions a key of which was taken away by a call that had
                    \* not read them

store      == <<coins, queue, waiting, inQueue, active>>
workerVars == <<phase, todo, batch, stale, fresh, plan, wfilter, wsnap>>
history    == <<aged, searches, restarts, charged, opened, matches, expiries, refunds,
                severed>>
vars       == <<store, job, workerVars, history>>

Ids   == 1..MaxSearches
Entry == [user : Users, gender : Genders, filter : Filters, id : Ids]
Chat  == [user1 : Users, user2 : Users]

cost(e) == costForFilter(e.filter)

\* A handler's locals: of an idle goroutine, of joinQueue, of ConfirmEndChat.
SearchSteps == {"checkQueue", "checkChat", "deduct", "charge", "enqueue", "mark",
                "refundRead", "refundWrite"}
EndSteps    == {"endRead", "endDelete"}
Idle        == [pc |-> "idle", user |-> None, filter |-> None, id |-> 0, snap |-> 0,
                chat |-> None]
SearchJob   == [pc : SearchSteps, user : Users, filter : Filters, id : Ids, snap : Int,
                chat : {None}]
EndJob      == [pc : EndSteps, user : Users, filter : {None}, id : {0}, snap : {0},
                chat : Chat \cup {None}]
Job         == {Idle} \cup SearchJob \cup EndJob

\* The queue entry a searching handler builds.
entryOf(j) == [user |-> j.user, gender |-> Gender[j.user], filter |-> j.filter,
               id |-> j.id]

\* The worker's round trips on behalf of an entry.
OpKinds == {"waitingFilter", "lrem", "delWaiting", "leave", "read", "award"}
Op      == [kind : OpKinds, entry : Entry]

ops(kinds, e)      == [n \in 1..Len(kinds) |-> [kind |-> kinds[n], entry |-> e]]

\* Mutant: the waiting key is cleared but the list is left alone.
removeWaitingOnly(e) == ops(<<"waitingFilter", "delWaiting">>, e)

removeFromQueue(e) == ops(<<"waitingFilter", "lrem", "delWaiting">>, e)
leaveQueue(e)      == ops(<<"leave">>, e)
refund(e)          == IF cost(e) > 0 THEN ops(<<"read", "award">>, e) ELSE <<>>

Queued(u) == \E f \in Filters : \E k \in 1..Len(queue[f]) : queue[f][k].user = u
Live(i)   == \E f \in Filters : \E k \in 1..Len(queue[f]) : queue[f][k].id = i

Init ==
    /\ coins = [u \in Users |-> InitCoins]
    /\ queue = [f \in Filters |-> <<>>]
    /\ waiting = [u \in Users |-> None]
    /\ inQueue = [u \in Users |-> FALSE]
    /\ active = [u \in Users |-> None]
    /\ job = [h \in Handlers |-> Idle]
    /\ phase = "idle" /\ todo = {} /\ batch = <<>> /\ stale = {} /\ fresh = {}
    /\ plan = <<>> /\ wfilter = None /\ wsnap = 0
    /\ aged = {} /\ searches = 0 /\ restarts = 0 /\ charged = {} /\ opened = {}
    /\ matches = [i \in Ids |-> 0]
    /\ expiries = [i \in Ids |-> 0]
    /\ refunds = [i \in Ids |-> 0]
    /\ severed = {}

-----------------------------------------------------------------------------
(* Handlers.                                                               *)

\* The rate limiter and the user's own pace keep a user's updates apart,
\* unless a handler is slow enough for the next one to overtake it.
MayStart(h, u) == /\ job[h].pc = "idle"
                  /\ Overlap \/ \A g \in Handlers : job[g].user # u

At(h, pc)    == job[h].pc = pc
Goto(h, pc)  == job' = [job EXCEPT ![h].pc = pc]
Return(h)    == job' = [job EXCEPT ![h] = Idle]

\* ConnectTypeHandler, NearbyTypeHandler and SearchAgainHandler all test the
\* row they were given and call joinQueue.
StartSearch(h, u, f) ==
    /\ MayStart(h, u)
    /\ searches < MaxSearches
    /\ coins[u] >= costForFilter(f)
    /\ searches' = searches + 1
    /\ job' = [job EXCEPT ![h] =
                    [pc |-> "checkQueue", user |-> u, filter |-> f,
                     id |-> searches + 1, snap |-> 0, chat |-> None]]
    /\ UNCHANGED <<store, workerVars, aged, restarts, charged, opened, matches,
                   expiries, refunds, severed>>

\* Mutant: joinQueue without its first check.
CheckInQueueSkipped(h) ==
    /\ At(h, "checkQueue")
    /\ Goto(h, "checkChat")
    /\ UNCHANGED <<store, workerVars, history>>

\* Steps 1 and 2 of joinQueue: an error or a hit ends the handler.
CheckInQueue(h) ==
    /\ At(h, "checkQueue")
    /\ \/ /\ inQueue[job[h].user] \/ Faults
          /\ Return(h)
       \/ /\ ~inQueue[job[h].user]
          /\ Goto(h, "checkChat")
    /\ UNCHANGED <<store, workerVars, history>>

\* Mutant: joinQueue without its second check.
CheckActiveChatSkipped(h) ==
    /\ At(h, "checkChat")
    /\ Goto(h, IF cost(job[h]) > 0 THEN "deduct" ELSE "enqueue")
    /\ UNCHANGED <<store, workerVars, history>>

CheckActiveChat(h) ==
    /\ At(h, "checkChat")
    /\ \/ /\ active[job[h].user] # None \/ Faults
          /\ Return(h)
       \/ /\ active[job[h].user] = None
          /\ Goto(h, IF cost(job[h]) > 0 THEN "deduct" ELSE "enqueue")
    /\ UNCHANGED <<store, workerVars, history>>

\* Mutant: DeductCoins trusts the test made when the button was pressed.
DeductReadUnchecked(h) ==
    /\ At(h, "deduct")
    /\ job' = [job EXCEPT ![h].pc = "charge", ![h].snap = coins[job[h].user]]
    /\ UNCHANGED <<store, workerVars, history>>

\* DeductCoins reads the whole row ...
DeductRead(h) ==
    /\ At(h, "deduct")
    /\ \/ /\ coins[job[h].user] < cost(job[h]) \/ Faults
          /\ Return(h)
       \/ /\ coins[job[h].user] >= cost(job[h])
          /\ job' = [job EXCEPT ![h].pc = "charge", ![h].snap = coins[job[h].user]]
    /\ UNCHANGED <<store, workerVars, history>>

\* ... and saves it back, whatever happened to the row in between.
DeductSave(h) ==
    /\ At(h, "charge")
    /\ \/ /\ Faults
          /\ Return(h)
          /\ UNCHANGED <<coins, charged>>
       \/ /\ coins' = [coins EXCEPT ![job[h].user] = job[h].snap - cost(job[h])]
          /\ charged' = charged \cup {entryOf(job[h])}
          /\ Goto(h, "enqueue")
    /\ UNCHANGED <<queue, waiting, inQueue, active, workerVars, aged, searches,
                   restarts, opened, matches, expiries, refunds, severed>>

\* EnqueueChat: one MULTI pushes the entry and remembers the filter.
EnqueueChat(h) ==
    LET e == entryOf(job[h])
    IN  /\ At(h, "enqueue")
        /\ queue' = [queue EXCEPT ![e.filter] = Append(@, e)]
        /\ waiting' = [waiting EXCEPT ![e.user] = e.filter]
        /\ opened' = opened \cup {e}
        /\ Goto(h, "mark")
        /\ UNCHANGED <<coins, inQueue, active, workerVars, aged, searches, restarts,
                       charged, matches, expiries, refunds, severed>>

EnqueueChatFails(h) ==
    /\ Faults
    /\ At(h, "enqueue")
    /\ IF cost(job[h]) > 0 THEN Goto(h, "refundRead") ELSE Return(h)
    /\ UNCHANGED <<store, workerVars, history>>

EnqueueRefundRead(h) ==
    /\ At(h, "refundRead")
    /\ \/ job' = [job EXCEPT ![h].pc = "refundWrite", ![h].snap = coins[job[h].user]]
       \/ Faults /\ Return(h)
    /\ UNCHANGED <<store, workerVars, history>>

EnqueueRefundSave(h) ==
    /\ At(h, "refundWrite")
    /\ \/ /\ coins' = [coins EXCEPT ![job[h].user] = job[h].snap + cost(job[h])]
          /\ refunds' = [refunds EXCEPT ![job[h].id] = @ + 1]
       \/ Faults /\ UNCHANGED <<coins, refunds>>
    /\ Return(h)
    /\ UNCHANGED <<queue, waiting, inQueue, active, workerVars, aged, searches,
                   restarts, charged, opened, matches, expiries, severed>>

\* Mutant: the user is never marked as queued.
JoinQueueUnmarked(h) ==
    /\ At(h, "mark")
    /\ Return(h)
    /\ UNCHANGED <<store, workerVars, history>>

\* JoinQueue: the flag is set after the entry is already visible to the worker,
\* and an error leaves the entry where it is.
JoinQueue(h) ==
    /\ At(h, "mark")
    /\ \/ inQueue' = [inQueue EXCEPT ![job[h].user] = TRUE]
       \/ Faults /\ UNCHANGED inQueue
    /\ Return(h)
    /\ UNCHANGED <<coins, queue, waiting, active, workerVars, history>>

\* ConfirmEndChatHandler: the first GetActiveChat only decides whether there is
\* a chat to end ...
StartEndChat(h, u) ==
    /\ MayStart(h, u)
    /\ active[u] # None
    /\ job' = [job EXCEPT ![h] = [Idle EXCEPT !.pc = "endRead", !.user = u]]
    /\ UNCHANGED <<store, workerVars, history>>

\* ... DeleteActiveChat reads the session again ...
EndChatRead(h) ==
    /\ At(h, "endRead")
    /\ \/ job' = [job EXCEPT ![h].pc = "endDelete", ![h].chat = active[job[h].user]]
       \/ Faults /\ job' = [job EXCEPT ![h].pc = "endDelete"]
    /\ UNCHANGED <<store, workerVars, history>>

\* The call takes the keys of the users vs away from whatever sessions they hold;
\* it knows of session c only.
Severs(vs, c) == severed' = (severed \cup {active[v] : v \in vs}) \ {None, c}

\* Mutant: only the caller's key is deleted.
EndChatDeleteOwn(h) ==
    /\ At(h, "endDelete")
    /\ active' = [active EXCEPT ![job[h].user] = None]
    /\ Severs({job[h].user}, job[h].chat)
    /\ Return(h)
    /\ UNCHANGED <<coins, queue, waiting, inQueue, workerVars, aged, searches, restarts,
                   charged, opened, matches, expiries, refunds>>

\* ... and deletes the keys of the two users it names, or the caller's own key
\* when there was nothing to read.
EndChatDelete(h) ==
    LET c    == job[h].chat
        keys == IF c = None THEN {job[h].user} ELSE {c.user1, c.user2}
    IN  /\ At(h, "endDelete")
        /\ \/ /\ active' = [u \in Users |-> IF u \in keys THEN None ELSE active[u]]
              /\ Severs(keys, c)
           \/ Faults /\ UNCHANGED <<active, severed>>
        /\ Return(h)
        /\ UNCHANGED <<coins, queue, waiting, inQueue, workerVars, aged, searches,
                       restarts, charged, opened, matches, expiries, refunds>>

\* Mutant: each key holds the bare partner, as the older StartChat wrote it.
SetActiveChatPlain(u1, u2) ==
    /\ active' = [u \in Users |-> IF u = u1 THEN u2 ELSE IF u = u2 THEN u1 ELSE active[u]]
    /\ UNCHANGED severed

\* Mutant: the session names the first user twice.
SetActiveChatTwice(u1, u2) ==
    /\ active' = [u \in Users |-> IF u \in {u1, u2} THEN [user1 |-> u1, user2 |-> u1]
                                                     ELSE active[u]]
    /\ UNCHANGED severed

\* SetActiveChat: one MULTI writes the session under both users' keys.
SetActiveChat(u1, u2) ==
    LET new == [user1 |-> u1, user2 |-> u2]
    IN  /\ active' = [u \in Users |-> IF u \in {u1, u2} THEN new ELSE active[u]]
        /\ Severs({u1, u2}, new)

\* AcceptChatHandler looks neither at the queue nor at the chats the two users
\* may be in; its button can be pressed again at any time.
AcceptChat(requester, target) ==
    /\ <<requester, target>> \in Requests
    /\ Overlap \/ \A h \in Handlers : job[h].user # target
    /\ SetActiveChat(requester, target)
    /\ UNCHANGED <<coins, queue, waiting, inQueue, job, workerVars, aged, searches,
                   restarts, charged, opened, matches, expiries, refunds>>

-----------------------------------------------------------------------------
(* The match worker.                                                       *)

\* A tick over empty lists does nothing, so only the others are steps.
Tick ==
    /\ phase = "idle"
    /\ \A i \in Ids : matches[i] + expiries[i] + refunds[i] < MaxSettles
    /\ todo' = {f \in Filters : queue[f] # <<>>}
    /\ todo' # {}
    /\ phase' = "scan"
    /\ UNCHANGED <<store, job, batch, stale, fresh, plan, wfilter, wsnap, history>>

\* getAllQueueEntries: one LRANGE per key, in whatever order SCAN returned them.
ReadList(f) ==
    /\ phase = "scan"
    /\ f \in todo
    /\ todo' = todo \ {f}
    /\ \/ batch' = batch \o queue[f]
       \/ Faults /\ UNCHANGED batch
    /\ UNCHANGED <<store, job, phase, stale, fresh, plan, wfilter, wsnap, history>>

\* Mutant: no seen map.
AllEntries(b) == 1..Len(b)

\* The seen map keeps a user's first entry; expireStaleEntries splits the rest
\* by the age they have now.
FirstEntries(b) ==
    {k \in 1..Len(b) : \A m \in 1..Len(b) : m < k => b[m].user # b[k].user}

\* Mutant: the time test never holds.
NeverOverdue(e) == FALSE

Overdue(e) == e.id \in aged

SplitBatch ==
    /\ phase = "scan" /\ todo = {}
    /\ stale' = {k \in FirstEntries(batch) : Overdue(batch[k])}
    /\ fresh' = FirstEntries(batch) \ stale'
    /\ phase' = "expire"
    /\ UNCHANGED <<store, job, todo, batch, plan, wfilter, wsnap, history>>

Earliest(S, k) == k \in S /\ \A m \in S : k <= m

ExpireEntry(k) ==
    /\ phase = "expire" /\ plan = <<>>
    /\ Earliest(stale, k)
    /\ stale' = stale \ {k}
    /\ expiries' = [expiries EXCEPT ![batch[k].id] = @ + 1]
    /\ plan' = removeFromQueue(batch[k]) \o leaveQueue(batch[k]) \o refund(batch[k])
    /\ UNCHANGED <<store, job, phase, todo, batch, fresh, wfilter, wsnap, aged,
                   searches, restarts, charged, opened, matches, refunds, severed>>

ExpiryDone ==
    /\ phase = "expire" /\ plan = <<>> /\ stale = {}
    /\ phase' = "match"
    /\ UNCHANGED <<store, job, todo, batch, stale, fresh, plan, wfilter, wsnap, history>>

\* The i < j loop with its matched map: the first entry that has a partner
\* behind it takes the first such partner.  An entry passed over has no partner
\* left and never gets one later in the tick.
Partners(i, j) == i \in fresh /\ j \in fresh /\ i < j /\ isCompatible(batch[i], batch[j])
NextPair(i, j) ==
    /\ Partners(i, j)
    /\ \A k, m \in fresh : Partners(k, m) => i < k \/ (i = k /\ j <= m)

CreateMatch(i, j) ==
    /\ phase = "match" /\ plan = <<>>
    /\ NextPair(i, j)
    /\ fresh' = fresh \ {i, j}
    /\ SetActiveChat(batch[i].user, batch[j].user)
    /\ matches' = [n \in Ids |-> IF n \in {batch[i].id, batch[j].id}
                                 THEN matches[n] + 1 ELSE matches[n]]
    /\ plan' = removeFromQueue(batch[i]) \o removeFromQueue(batch[j])
               \o leaveQueue(batch[i]) \o leaveQueue(batch[j])
    /\ UNCHANGED <<coins, queue, waiting, inQueue, job, phase, todo, batch, stale,
                   wfilter, wsnap, aged, searches, restarts, charged, opened,
                   expiries, refunds>>

\* SetActiveChat failed: both costs are given back, nobody leaves the queue.
CreateMatchFails(i, j) ==
    /\ Faults
    /\ phase = "match" /\ plan = <<>>
    /\ NextPair(i, j)
    /\ fresh' = fresh \ {i, j}
    /\ plan' = refund(batch[i]) \o refund(batch[j])
    /\ UNCHANGED <<store, job, phase, todo, batch, stale, wfilter, wsnap, history>>

TickDone ==
    /\ phase = "match" /\ plan = <<>>
    /\ \A i, j \in fresh : ~Partners(i, j)
    /\ phase' = "idle" /\ batch' = <<>> /\ fresh' = {}
    /\ UNCHANGED <<store, job, todo, stale, plan, wfilter, wsnap, history>>

(* The round trips a decision entails, in the order createMatch and         *)
(* expireStaleEntries make them; their errors are at most logged.           *)

Doing(kind) == plan # <<>> /\ Head(plan).kind = kind
Next1       == plan' = Tail(plan)
Client      == Head(plan).entry.user

GetWaitingFilter ==
    /\ Doing("waitingFilter") /\ Next1
    /\ \/ wfilter' = waiting[Client]
       \/ Faults /\ UNCHANGED wfilter
    /\ UNCHANGED <<store, job, phase, todo, batch, stale, fresh, wsnap, history>>

\* The first entry of user u in list q, and the list without it.
IsFirstOf(q, u, k) ==
    q[k].user = u /\ \A m \in 1..Len(q) : q[m].user = u => k <= m

\* Mutant: LPOP instead of LREM.
WithoutHead(q, u) == IF q = <<>> THEN q ELSE Tail(q)

WithoutFirst(q, u) ==
    IF \E k \in 1..Len(q) : q[k].user = u
    THEN RemoveAt(q, CHOOSE k \in 1..Len(q) : IsFirstOf(q, u, k))
    ELSE q

\* RemoveFromQueue's LRANGE and LREM.  Only this goroutine removes entries, so
\* the item found by the one is there for the other.
RemoveEntry ==
    /\ Doing("lrem") /\ Next1
    /\ \/ queue' = [f \in Filters |-> IF f = wfilter THEN WithoutFirst(queue[f], Client)
                                                     ELSE queue[f]]
       \/ Faults /\ UNCHANGED queue
    /\ wfilter' = None
    /\ UNCHANGED <<coins, waiting, inQueue, active, job, phase, todo, batch, stale,
                   fresh, wsnap, history>>

\* RemoveWaitingState (and the DEL of the same key that precedes it).
RemoveWaitingState ==
    /\ Doing("delWaiting") /\ Next1
    /\ \/ waiting' = [waiting EXCEPT ![Client] = None]
       \/ Faults /\ UNCHANGED waiting
    /\ UNCHANGED <<coins, queue, inQueue, active, job, phase, todo, batch, stale,
                   fresh, wfilter, wsnap, history>>

LeaveQueue ==
    /\ Doing("leave") /\ Next1
    /\ \/ inQueue' = [inQueue EXCEPT ![Client] = FALSE]
       \/ Faults /\ UNCHANGED inQueue
    /\ UNCHANGED <<coins, queue, waiting, active, job, phase, todo, batch, stale,
                   fresh, wfilter, wsnap, history>>

\* AwardCoinsByTelegramID reads the row and saves it, as DeductCoins does.
RefundRead ==
    /\ Doing("read")
    /\ \/ wsnap' = coins[Client] /\ Next1
       \/ Faults /\ plan' = SubSeq(plan, 3, Len(plan)) /\ UNCHANGED wsnap
    /\ UNCHANGED <<store, job, phase, todo, batch, stale, fresh, wfilter, history>>

RefundSave ==
    /\ Doing("award") /\ Next1
    /\ \/ /\ coins' = [coins EXCEPT ![Client] = wsnap + cost(Head(plan).entry)]
          /\ refunds' = [refunds EXCEPT ![Head(plan).entry.id] = @ + 1]
       \/ Faults /\ UNCHANGED <<coins, refunds>>
    /\ wsnap' = 0
    /\ UNCHANGED <<queue, waiting, inQueue, active, job, phase, todo, batch, stale,
                   fresh, wfilter, aged, searches, restarts, charged, opened,
                   matches, expiries, severed>>

-----------------------------------------------------------------------------
(* Time, key expiry and restarts.                                          *)

\* Entry i has now been queued for SearchTimeout.
Age(i) ==
    /\ Live(i)
    /\ i \notin aged
    /\ aged' = aged \cup {i}
    /\ UNCHANGED <<store, job, workerVars, searches, restarts, charged, opened,
                   matches, expiries, refunds, severed>>

\* Mutant: the flag is set without an expiry.
FlagStays(u) == FALSE /\ UNCHANGED vars

\* in_queue:<u> lives 5 min, an entry at most 2 min and a tick: with the worker
\* running the flag outlasts the entry it was set for and that entry's cleanup.
FlagExpires(u) ==
    /\ inQueue[u]
    /\ ~Queued(u)
    /\ \A n \in 1..Len(plan) : plan[n].entry.user # u
    /\ inQueue' = [inQueue EXCEPT ![u] = FALSE]
    /\ UNCHANGED <<coins, queue, waiting, active, job, workerVars, history>>

\* active_chat keys live 4 h; the two of one session were set together.
ChatExpires(u) ==
    /\ active[u] # None
    /\ active' = [v \in Users |-> IF active[v] = active[u] THEN None ELSE active[v]]
    /\ UNCHANGED <<coins, queue, waiting, inQueue, job, workerVars, history>>

\* The process stops (SIGTERM waits for no goroutine) and comes back, at once or
\* after the 5 min the queue's keys live.
Restart(long) ==
    /\ restarts < MaxRestarts
    /\ restarts' = restarts + 1
    /\ job' = [h \in Handlers |-> Idle]
    /\ phase' = "idle" /\ todo' = {} /\ batch' = <<>> /\ stale' = {} /\ fresh' = {}
    /\ plan' = <<>> /\ wfilter' = None /\ wsnap' = 0
    /\ IF long
       THEN /\ queue' = [f \in Filters |-> <<>>]
            /\ waiting' = [u \in Users |-> None]
            /\ inQueue' = [u \in Users |-> FALSE]
       ELSE UNCHANGED <<queue, waiting, inQueue>>
    /\ UNCHANGED <<coins, active, aged, searches, charged, opened, matches, expiries,
                   refunds, severed>>

-----------------------------------------------------------------------------
HandlerStep(h) ==
    \/ CheckInQueue(h) \/ CheckActiveChat(h) \/ DeductRead(h) \/ DeductSave(h)
    \/ EnqueueChat(h) \/ EnqueueChatFails(h) \/ EnqueueRefundRead(h)
    \/ EnqueueRefundSave(h) \/ JoinQueue(h) \/ EndChatRead(h) \/ EndChatDelete(h)

WorkerStep ==
    \/ Tick
    \/ \E f \in Filters : ReadList(f)
    \/ SplitBatch
    \/ \E k \in stale : ExpireEntry(k)
    \/ ExpiryDone
    \/ \E i, j \in fresh : CreateMatch(i, j) \/ CreateMatchFails(i, j)
    \/ TickDone
    \/ GetWaitingFilter \/ RemoveEntry \/ RemoveWaitingState \/ LeaveQueue
    \/ RefundRead \/ RefundSave

UserStep ==
    \/ \E h \in Handlers, u \in Users :
            StartEndChat(h, u) \/ \E f \in Filters : StartSearch(h, u, f)
    \/ \E r, t \in Users : AcceptChat(r, t)

Next ==
    \/ UserStep
    \/ \E h \in Handlers : HandlerStep(h)
    \/ WorkerStep
    \/ \E i \in Ids : Age(i)
    \/ \E u \in Users : FlagExpires(u) \/ ChatExpires(u)
    \/ \E long \in BOOLEAN : Restart(long)

Spec == Init /\ [][Next]_vars

\* A started goroutine runs to its end, the ticker fires, time passes; nobody is
\* obliged to press a button.
Fairness ==
    /\ \A h \in Handlers : WF_vars(HandlerStep(h))
    /\ WF_vars(WorkerStep)
    /\ \A i \in Ids : WF_vars(Age(i))
    /\ \A u \in Users : WF_vars(FlagExpires(u))

FairSpec == Spec /\ Fairness

-----------------------------------------------------------------------------
(* Properties.                                                             *)

\* Every variable has its type, and what a tick works on is there only while
\* that part of the tick runs.
TypeOK ==
    /\ coins \in [Users -> Int]
    /\ queue \in [Filters -> Seq(Entry)]
    /\ waiting \in [Users -> Filters \cup {None}]
    /\ inQueue \in [Users -> BOOLEAN]
    /\ active \in [Users -> Chat \cup {None}]
    /\ job \in [Handlers -> Job]
    /\ phase \in {"idle", "scan", "expire", "match"}
    /\ todo \subseteq Filters
    /\ batch \in Seq(Entry)
    /\ stale \subseteq 1..Len(batch) /\ fresh \subseteq 1..Len(batch)
    /\ plan \in Seq(Op)
    /\ phase # "expire" => stale = {}
    /\ phase \in {"idle", "scan"} => fresh = {} /\ plan = <<>>
    /\ wfilter \in Filters \cup {None} /\ wsnap \in Int
    /\ aged \subseteq Ids /\ searches \in 0..MaxSearches /\ restarts \in 0..MaxRestarts
    /\ charged \subseteq Entry /\ opened \subseteq Entry
    /\ matches \in [Ids -> Nat] /\ expiries \in [Ids -> Nat] /\ refunds \in [Ids -> Nat]
    /\ severed \subseteq Chat

\* However the read-modify-write pairs of DeductCoins and AwardCoinsByTelegramID
\* interleave, no balance falls below zero: a save is never more than its own
\* read allowed.
CoinsNeverNegative == \A u \in Users : coins[u] >= 0

\* The session stored under a user's active_chat key names that user, so a
\* message is never forwarded between two other people, whichever chats were
\* created over each other or deleted late.
ChatNamesOwner ==
    \A u \in Users : active[u] # None => u \in {active[u].user1, active[u].user2}

\* Within a tick a user is either expired or matched, and only once: positions
\* still to be handled belong to different users, and none of them to a user whose
\* cleanup is under way, even when the user is in the lists twice.
TickHandlesUserOnce ==
    /\ stale \cap fresh = {}
    /\ \A k, m \in stale \cup fresh : batch[k].user = batch[m].user => k = m
    /\ \A n \in 1..Len(plan) : \A k \in stale \cup fresh :
            plan[n].entry.user # batch[k].user

\* A user has at most one entry in all the queues together.
OneEntryPerUser ==
    \A f, g \in Filters : \A k \in 1..Len(queue[f]), m \in 1..Len(queue[g]) :
        queue[f][k].user = queue[g][m].user => f = g /\ k = m

\* An entry is matched or timed out, not both and not twice, and its cost is
\* given back at most once and only because it timed out.
SettledOnce ==
    \A i \in Ids : matches[i] + expiries[i] <= 1 /\ refunds[i] <= expiries[i]

\* A search that reached a queue is there until it is matched or timed out, and
\* between ticks every timed-out search that was paid for has been refunded.
NoSearchLost ==
    /\ \A e \in opened : Live(e.id) \/ matches[e.id] + expiries[e.id] > 0
    /\ phase = "idle" =>
        \A e \in charged : expiries[e.id] > 0 => refunds[e.id] = expiries[e.id]

\* A user who chats is in no queue, except while the worker is taking out the
\* entry that brought the chat about.
QueuedUsersAreFree ==
    \A u \in Users : Queued(u) /\ active[u] # None =>
        \E n \in 1..Len(plan) : plan[n].kind = "lrem" /\ plan[n].entry.user = u

\* Both users of a session have it as their active chat, so that nobody writes to
\* a partner who is no longer there, unless a call cut the session in two that had
\* not read it: a DeleteActiveChat that was overtaken by the end of the chat it had
\* read and the beginning of this one, or a new session written over it.  Ends of
\* both sides at once, expiry, failing calls and restarts leave no half of one.
ChatsAreMutual ==
    \A u \in Users : active[u] # None /\ active[u] \notin severed =>
        active[active[u].user1] = active[u] /\ active[active[u].user2] = active[u]

\* A chat is not replaced by another one: a user's active_chat key is deleted
\* before it names a new session.
ChatNotReplaced ==
    [][\A u \in Users : active[u] # None /\ active'[u] # None
            => active'[u] = active[u]]_active

\* An entry's cost is given back at most once.
RefundedOnce == \A i \in Ids : refunds[i] <= 1

\* Every search that reached a queue is eventually matched or timed out and its
\* entry is gone, whatever the other users do.
SearchAnswered == \A i \in Ids : Live(i) ~> ~Live(i)

\* Nobody is kept from searching for ever by a leftover in_queue flag.
FlagHeals == \A u \in Users : inQueue[u] ~> ~inQueue[u]
=============================================================================
