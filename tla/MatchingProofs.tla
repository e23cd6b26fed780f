--------------------------- MODULE MatchingProofs ---------------------------
(***************************************************************************)
(* Theorems about Matching for every value of its constants: any number of *)
(* users and goroutines, with or without overlapping updates, failing      *)
(* calls and restarts.                                                     *)
(***************************************************************************)
EXTENDS Matching, SequenceTheorems, WellFoundedInduction, TLAPS

USE DEF store, workerVars, history

LEMMA NatMin ==
  ASSUME NEW T \in SUBSET Nat, T # {}
  PROVE  \E n \in T : \A m \in T : n <= m
<1> DEFINE R == OpToRel(<, Nat)
<1>1. PICK n \in T : \A m \in T : ~ (<<m, n>> \in R)
  <2> HIDE DEF R
  <2> IsWellFoundedOn(R, Nat)
    BY NatLessThanWellFounded DEF R
  <2> QED
    BY WFMin
<1>2. \A m \in T : ~ (m < n)
  BY <1>1 DEF OpToRel
<1> QED
  BY <1>2

\* What the connect menus charge is a natural number.
LEMMA CostNat == \A e : cost(e) \in Nat
  BY DEF cost, costForFilter, chatCostGender, chatCostNearby

\* A list from which an entry was taken is a list of entries.
LEMMA WithoutFirstType ==
  ASSUME NEW q \in Seq(Entry), NEW u
  PROVE  WithoutFirst(q, u) \in Seq(Entry)
<1>1. CASE \E k \in 1..Len(q) : q[k].user = u
  <2> DEFINE k == CHOOSE k \in 1..Len(q) : IsFirstOf(q, u, k)
  <2>1. \E n \in 1..Len(q) : IsFirstOf(q, u, n)
    <3> DEFINE T == {n \in 1..Len(q) : q[n].user = u}
    <3>1. T # {} /\ T \subseteq Nat
      BY <1>1
    <3>2. PICK n \in T : \A m \in T : n <= m
      BY <3>1, NatMin
    <3> QED
      BY <3>2 DEF IsFirstOf
  <2>2. k \in 1..Len(q)
    BY <2>1
  <2> HIDE DEF k
  <2>3. SubSeq(q, 1, k-1) \in Seq(Entry) /\ SubSeq(q, k+1, Len(q)) \in Seq(Entry)
    BY <2>2
  <2>4. RemoveAt(q, k) \in Seq(Entry)
    BY <2>3 DEF RemoveAt
  <2> QED
    BY <1>1, <2>4 DEF WithoutFirst, k
<1>2. CASE ~ \E k \in 1..Len(q) : q[k].user = u
  BY <1>2 DEF WithoutFirst
<1> QED
  BY <1>1, <1>2

\* The round trips a decision entails are well formed and all about its entry.
LEMMA OpsAbout ==
  ASSUME NEW kinds \in Seq(OpKinds), NEW e \in Entry
  PROVE  /\ ops(kinds, e) \in Seq(Op)
         /\ \A n \in 1..Len(ops(kinds, e)) : ops(kinds, e)[n].entry = e
<1>1. \A n \in 1..Len(kinds) : [kind |-> kinds[n], entry |-> e] \in Op
  BY ElementOfSeq DEF Op
<1>2. ops(kinds, e) \in [1..Len(kinds) -> Op]
  BY <1>1 DEF ops
<1>3. Len(kinds) \in Nat
  BY LenProperties
<1>4. ops(kinds, e) \in Seq(Op)
  BY <1>2, <1>3, SeqDef
<1> QED
  BY <1>2, <1>3, <1>4, LenProperties DEF ops

LEMMA PlanAbout ==
  ASSUME NEW e \in Entry
  PROVE  /\ removeFromQueue(e) \in Seq(Op)
         /\ leaveQueue(e) \in Seq(Op)
         /\ refund(e) \in Seq(Op)
         /\ \A n \in 1..Len(removeFromQueue(e)) : removeFromQueue(e)[n].entry = e
         /\ \A n \in 1..Len(leaveQueue(e)) : leaveQueue(e)[n].entry = e
         /\ \A n \in 1..Len(refund(e)) : refund(e)[n].entry = e
<1>1. /\ <<"waitingFilter", "lrem", "delWaiting">> \in Seq(OpKinds)
      /\ <<"leave">> \in Seq(OpKinds)
      /\ <<"read", "award">> \in Seq(OpKinds)
  BY DEF OpKinds
<1>2. <<>> \in Seq(Op) /\ \A n \in 1..Len(<<>>) : <<>>[n].entry = e
  OBVIOUS
<1> QED
  BY <1>1, <1>2, OpsAbout DEF removeFromQueue, leaveQueue, refund

-----------------------------------------------------------------------------
(* Type correctness.                                                       *)

LEMMA TypeInit == Init => TypeOK
  BY MatchingAssumption, EmptySeq DEF Init, TypeOK, Idle, Job

\* A handler between two of joinQueue's steps has joinQueue's locals.
LEMMA SearchingJob ==
  ASSUME TypeOK, NEW h \in Handlers, job[h].pc \in SearchSteps
  PROVE  job[h] \in SearchJob
<1>1. job[h] \in Job
  BY DEF TypeOK
<1>2. job[h] \notin EndJob /\ job[h] # Idle
  BY DEF SearchSteps, EndSteps, EndJob, Idle
<1> QED
  BY <1>1, <1>2 DEF Job

\* And one of ConfirmEndChatHandler has that handler's.
LEMMA EndingJob ==
  ASSUME TypeOK, NEW h \in Handlers, job[h].pc \in EndSteps
  PROVE  job[h] \in EndJob
<1>1. job[h] \in Job
  BY DEF TypeOK
<1>2. job[h] \notin SearchJob /\ job[h] # Idle
  BY DEF SearchSteps, EndSteps, SearchJob, Idle
<1> QED
  BY <1>1, <1>2 DEF Job

\* Changing one goroutine's locals keeps the others'.
LEMMA JobUpdate ==
  ASSUME TypeOK, NEW h \in Handlers, NEW r \in Job
  PROVE  [job EXCEPT ![h] = r] \in [Handlers -> Job]
  BY DEF TypeOK

LEMMA ReturnType ==
  ASSUME TypeOK, NEW h \in Handlers, Return(h)
  PROVE  job' \in [Handlers -> Job]
  BY JobUpdate DEF Return, Job

LEMMA GotoType ==
  ASSUME TypeOK, NEW h \in Handlers, job[h] \in SearchJob,
         NEW pc \in SearchSteps, Goto(h, pc)
  PROVE  job' \in [Handlers -> Job]
<1>1. [job[h] EXCEPT !.pc = pc] \in Job
  BY DEF SearchJob, Job
<1>2. job' = [job EXCEPT ![h] = [job[h] EXCEPT !.pc = pc]]
  BY DEF Goto
<1> QED
  BY <1>1, <1>2, JobUpdate

LEMMA SnapType ==
  ASSUME TypeOK, NEW h \in Handlers, job[h] \in SearchJob,
         NEW pc \in SearchSteps, NEW n \in Int,
         job' = [job EXCEPT ![h].pc = pc, ![h].snap = n]
  PROVE  job' \in [Handlers -> Job]
<1>1. [job[h] EXCEPT !.pc = pc, !.snap = n] \in Job
  BY DEF SearchJob, Job
<1>2. job' = [job EXCEPT ![h] = [job[h] EXCEPT !.pc = pc, !.snap = n]]
  OBVIOUS
<1> QED
  BY <1>1, <1>2, JobUpdate

LEMMA EntryOfType ==
  ASSUME NEW j \in SearchJob
  PROVE  entryOf(j) \in Entry /\ entryOf(j).user = j.user
  BY MatchingAssumption DEF entryOf, Entry, SearchJob

\* Every step of a search keeps the types.
LEMMA TypeSearchSteps ==
  ASSUME TypeOK, NEW h \in Handlers,
         \/ CheckInQueue(h) \/ CheckActiveChat(h) \/ DeductRead(h) \/ DeductSave(h)
         \/ EnqueueChat(h) \/ EnqueueChatFails(h) \/ EnqueueRefundRead(h)
         \/ EnqueueRefundSave(h) \/ JoinQueue(h)
  PROVE  TypeOK'
<1>1. job[h] \in SearchJob
  BY SearchingJob DEF CheckInQueue, CheckActiveChat, DeductRead, DeductSave, EnqueueChat,
     EnqueueChatFails, EnqueueRefundRead, EnqueueRefundSave, JoinQueue, At, SearchSteps
<1>2. /\ job[h].user \in Users /\ job[h].filter \in Filters /\ job[h].id \in Ids
      /\ job[h].snap - cost(job[h]) \in Int /\ job[h].snap + cost(job[h]) \in Int
      /\ entryOf(job[h]) \in Entry
      /\ coins[job[h].user] \in Int
  BY <1>1, CostNat, EntryOfType DEF SearchJob, TypeOK
<1> USE DEF SearchSteps
<1>3. CASE CheckInQueue(h)
  <2>1. Return(h) \/ Goto(h, "checkChat")
    BY <1>3 DEF CheckInQueue
  <2>2. job' \in [Handlers -> Job]
    BY <1>1, <2>1, GotoType, ReturnType
  <2> QED
    BY <1>3, <2>2 DEF CheckInQueue, TypeOK
<1>4. CASE CheckActiveChat(h)
  <2>1. Return(h) \/ Goto(h, "deduct") \/ Goto(h, "enqueue")
    BY <1>4 DEF CheckActiveChat
  <2>2. job' \in [Handlers -> Job]
    BY <1>1, <2>1, GotoType, ReturnType
  <2> QED
    BY <1>4, <2>2 DEF CheckActiveChat, TypeOK
<1>5. CASE DeductRead(h)
  <2>1. \/ Return(h)
        \/ job' = [job EXCEPT ![h].pc = "charge", ![h].snap = coins[job[h].user]]
    BY <1>5 DEF DeductRead
  <2>2. job' \in [Handlers -> Job]
    BY <1>1, <1>2, <2>1, SnapType, ReturnType
  <2> QED
    BY <1>5, <2>2 DEF DeductRead, TypeOK
<1>6. CASE DeductSave(h)
  <2>1. Return(h) \/ Goto(h, "enqueue")
    BY <1>6 DEF DeductSave
  <2>2. job' \in [Handlers -> Job]
    BY <1>1, <2>1, GotoType, ReturnType
  <2>3. coins' \in [Users -> Int] /\ charged' \in SUBSET Entry
    BY <1>2, <1>6 DEF DeductSave, TypeOK
  <2> QED
    BY <1>6, <2>2, <2>3 DEF DeductSave, TypeOK
<1>7. CASE EnqueueChat(h)
  <2>1. job' \in [Handlers -> Job]
    BY <1>1, <1>7, GotoType DEF EnqueueChat
  <2>2. /\ entryOf(job[h]).filter = job[h].filter
        /\ entryOf(job[h]).user = job[h].user
    BY DEF entryOf
  <2>3. \A f \in Filters : Append(queue[f], entryOf(job[h])) \in Seq(Entry)
    BY <1>2, AppendProperties DEF TypeOK
  <2>4. queue' \in [Filters -> Seq(Entry)]
    BY <1>2, <1>7, <2>3 DEF EnqueueChat, TypeOK
  <2>5. waiting' \in [Users -> Filters \cup {None}] /\ opened' \in SUBSET Entry
    BY <1>2, <1>7, <2>2 DEF EnqueueChat, TypeOK
  <2> QED
    BY <1>7, <2>1, <2>4, <2>5 DEF EnqueueChat, TypeOK
<1>8. CASE EnqueueChatFails(h)
  <2>1. Return(h) \/ Goto(h, "refundRead")
    BY <1>8 DEF EnqueueChatFails
  <2>2. job' \in [Handlers -> Job]
    BY <1>1, <2>1, GotoType, ReturnType
  <2> QED
    BY <1>8, <2>2 DEF EnqueueChatFails, TypeOK
<1>9. CASE EnqueueRefundRead(h)
  <2>1. \/ Return(h)
        \/ job' = [job EXCEPT ![h].pc = "refundWrite", ![h].snap = coins[job[h].user]]
    BY <1>9 DEF EnqueueRefundRead
  <2>2. job' \in [Handlers -> Job]
    BY <1>1, <1>2, <2>1, SnapType, ReturnType
  <2> QED
    BY <1>9, <2>2 DEF EnqueueRefundRead, TypeOK
<1>10. CASE EnqueueRefundSave(h)
  <2>1. job' \in [Handlers -> Job]
    BY <1>10, ReturnType DEF EnqueueRefundSave
  <2>2. coins' \in [Users -> Int]
    BY <1>2, <1>10 DEF EnqueueRefundSave, TypeOK
  <2>3. refunds' \in [Ids -> Nat]
    <3>1. refunds \in [Ids -> Nat]
      BY DEF TypeOK
    <3>2. refunds' = refunds \/ refunds' = [refunds EXCEPT ![job[h].id] = @ + 1]
      BY <1>10 DEF EnqueueRefundSave
    <3> QED
      BY <1>2, <3>1, <3>2
  <2> QED
    BY <1>10, <2>1, <2>2, <2>3 DEF EnqueueRefundSave, TypeOK
<1>11. CASE JoinQueue(h)
  <2>1. job' \in [Handlers -> Job]
    BY <1>11, ReturnType DEF JoinQueue
  <2>2. inQueue' \in [Users -> BOOLEAN]
    BY <1>2, <1>11 DEF JoinQueue, TypeOK
  <2> QED
    BY <1>11, <2>1, <2>2 DEF JoinQueue, TypeOK
<1> QED
  BY <1>3, <1>4, <1>5, <1>6, <1>7, <1>8, <1>9, <1>10, <1>11

\* What a call severs are sessions.
LEMMA SeveredType ==
  ASSUME TypeOK, NEW vs \in SUBSET Users, NEW c, Severs(vs, c)
  PROVE  severed' \subseteq Chat
<1>1. active \in [Users -> Chat \cup {None}] /\ severed \subseteq Chat
  BY DEF TypeOK
<1> QED
  BY <1>1 DEF Severs

\* So do the steps of ending a chat.
LEMMA TypeEndSteps ==
  ASSUME TypeOK, NEW h \in Handlers, EndChatRead(h) \/ EndChatDelete(h)
  PROVE  TypeOK'
<1>1. job[h] \in EndJob
  BY EndingJob DEF EndChatRead, EndChatDelete, At, EndSteps
<1>2. CASE EndChatRead(h)
  <2>1. job[h].user \in Users /\ active[job[h].user] \in Chat \cup {None}
    BY <1>1 DEF EndJob, TypeOK
  <2>2. /\ [job[h] EXCEPT !.pc = "endDelete", !.chat = active[job[h].user]] \in Job
        /\ [job[h] EXCEPT !.pc = "endDelete"] \in Job
    BY <1>1, <2>1 DEF EndJob, EndSteps, Job
  <2>3. \/ job' = [job EXCEPT ![h] = [job[h] EXCEPT !.pc = "endDelete",
                                                   !.chat = active[job[h].user]]]
        \/ job' = [job EXCEPT ![h] = [job[h] EXCEPT !.pc = "endDelete"]]
    BY <1>2 DEF EndChatRead
  <2>4. job' \in [Handlers -> Job]
    BY <2>2, <2>3, JobUpdate
  <2> QED
    BY <1>2, <2>4 DEF EndChatRead, TypeOK
<1>3. CASE EndChatDelete(h)
  <2>1. job' \in [Handlers -> Job]
    BY <1>3, ReturnType DEF EndChatDelete
  <2>2. active' \in [Users -> Chat \cup {None}]
    BY <1>3 DEF EndChatDelete, TypeOK
  <2>3. severed' \subseteq Chat
    <3>1. CASE UNCHANGED severed
      BY <3>1 DEF TypeOK
    <3>2. CASE ~UNCHANGED severed
      <4>1. PICK c, keys : /\ c = job[h].chat
                           /\ keys = IF c = None THEN {job[h].user} ELSE {c.user1, c.user2}
        OBVIOUS
      <4>2. Severs(keys, c)
        BY <1>3, <3>2, <4>1 DEF EndChatDelete
      <4>3. keys \subseteq Users
        BY <1>1, <4>1 DEF EndJob, Chat
      <4> QED
        BY <4>2, <4>3, SeveredType
    <3> QED
      BY <3>1, <3>2
  <2>4. UNCHANGED <<coins, queue, waiting, inQueue, workerVars, aged, searches, restarts,
                    charged, opened, matches, expiries, refunds>>
    BY <1>3 DEF EndChatDelete
  <2> QED
    BY <2>1, <2>2, <2>3, <2>4 DEF TypeOK
<1> QED
  BY <1>2, <1>3

\* Whoever writes a session, the active_chat keys keep their type.
LEMMA ChatType ==
  ASSUME TypeOK, NEW u \in Users, NEW v \in Users, SetActiveChat(u, v)
  PROVE  active' \in [Users -> Chat \cup {None}]
  BY DEF SetActiveChat, TypeOK, Chat

\* Users' own steps keep the types.
LEMMA TypeUserStep ==
  ASSUME TypeOK, UserStep
  PROVE  TypeOK'
<1>1. ASSUME NEW h \in Handlers, NEW u \in Users, StartEndChat(h, u)
      PROVE  TypeOK'
  <2>1. [Idle EXCEPT !.pc = "endRead", !.user = u] \in Job
    BY DEF Idle, Job, EndJob, EndSteps
  <2>2. job' \in [Handlers -> Job]
    BY <1>1, <2>1, JobUpdate DEF StartEndChat
  <2> QED
    BY <1>1, <2>2 DEF StartEndChat, TypeOK
<1>2. ASSUME NEW h \in Handlers, NEW u \in Users, NEW f \in Filters, StartSearch(h, u, f)
      PROVE  TypeOK'
  <2>1. searches + 1 \in 1..MaxSearches
    BY <1>2, MatchingAssumption DEF StartSearch, TypeOK
  <2>2. [pc |-> "checkQueue", user |-> u, filter |-> f, id |-> searches + 1,
         snap |-> 0, chat |-> None] \in Job
    BY <2>1 DEF Job, SearchJob, SearchSteps, Ids
  <2>3. job' \in [Handlers -> Job]
    BY <1>2, <2>2, JobUpdate DEF StartSearch
  <2>4. searches' = searches + 1 /\ UNCHANGED <<store, workerVars, aged, restarts, charged,
                                              opened, matches, expiries, refunds, severed>>
    BY <1>2 DEF StartSearch
  <2>5. searches' \in 0..MaxSearches
    BY <2>1, <2>4, MatchingAssumption
  <2> QED
    BY <2>3, <2>4, <2>5 DEF TypeOK
<1>3. ASSUME NEW r \in Users, NEW t \in Users, AcceptChat(r, t)
      PROVE  TypeOK'
  <2>1. active' \in [Users -> Chat \cup {None}] /\ severed' \subseteq Chat
    BY <1>3, ChatType, SeveredType DEF AcceptChat, SetActiveChat
  <2> QED
    BY <1>3, <2>1 DEF AcceptChat, TypeOK
<1> QED
  BY <1>1, <1>2, <1>3 DEF UserStep

-----------------------------------------------------------------------------
\* The entry at a position of the batch is an entry.
LEMMA BatchEntry ==
  ASSUME TypeOK, NEW k \in 1..Len(batch)
  PROVE  batch[k] \in Entry /\ batch[k].user \in Users /\ batch[k].id \in Ids
<1>1. batch \in Seq(Entry)
  BY DEF TypeOK
<1>2. batch[k] \in Entry
  BY <1>1, ElementOfSeq
<1> QED
  BY <1>2 DEF Entry

\* The next round trip owed is about an entry.
LEMMA HeadOp ==
  ASSUME TypeOK, plan # <<>>
  PROVE  /\ Head(plan) \in Op /\ Head(plan).entry \in Entry
         /\ Client \in Users /\ Head(plan).entry.id \in Ids
         /\ Tail(plan) \in Seq(Op)
         /\ SubSeq(plan, 3, Len(plan)) \in Seq(Op)
<1>1. plan \in Seq(Op)
  BY DEF TypeOK
<1>2. Head(plan) \in Op /\ Tail(plan) \in Seq(Op)
  BY <1>1, HeadTailProperties
<1>3. Len(plan) \in Nat /\ \A n \in 3..Len(plan) : plan[n] \in Op
  BY <1>1, LenProperties, ElementOfSeq
<1>4. SubSeq(plan, 3, Len(plan)) \in Seq(Op)
  BY <1>3, SubSeqProperties
<1> QED
  BY <1>2, <1>4 DEF Op, Entry, Client

\* Collecting, splitting and pairing the batch keep the types.
LEMMA TypeTickSteps ==
  ASSUME TypeOK,
         \/ Tick
         \/ \E f \in Filters : ReadList(f)
         \/ SplitBatch
         \/ \E k \in stale : ExpireEntry(k)
         \/ ExpiryDone
         \/ \E i, j \in fresh : CreateMatch(i, j) \/ CreateMatchFails(i, j)
         \/ TickDone
  PROVE  TypeOK'
<1>1. CASE Tick
  BY <1>1 DEF Tick, TypeOK
<1>2. ASSUME NEW f \in Filters, ReadList(f)
      PROVE  TypeOK'
  <2>1. batch \o queue[f] \in Seq(Entry)
    BY ConcatProperties DEF TypeOK
  <2>2. batch' \in Seq(Entry)
    BY <1>2, <2>1 DEF ReadList, TypeOK
  <2>3. stale' = {} /\ fresh' = {}
    BY <1>2 DEF ReadList, TypeOK
  <2> QED
    BY <1>2, <2>2, <2>3 DEF ReadList, TypeOK
<1>3. CASE SplitBatch
  <2>1. stale' \subseteq 1..Len(batch) /\ fresh' \subseteq 1..Len(batch)
    BY <1>3 DEF SplitBatch, FirstEntries
  <2> QED
    BY <1>3, <2>1 DEF SplitBatch, TypeOK
<1>4. ASSUME NEW k \in stale, ExpireEntry(k)
      PROVE  TypeOK'
  <2>1. batch[k] \in Entry /\ batch[k].id \in Ids
    BY BatchEntry DEF TypeOK
  <2>2. plan' \in Seq(Op)
    BY <1>4, <2>1, PlanAbout, ConcatProperties DEF ExpireEntry
  <2>3. expiries' \in [Ids -> Nat]
    <3>1. expiries \in [Ids -> Nat]
      BY DEF TypeOK
    <3>2. expiries' = [expiries EXCEPT ![batch[k].id] = @ + 1]
      BY <1>4 DEF ExpireEntry
    <3> QED
      BY <2>1, <3>1, <3>2
  <2> QED
    BY <1>4, <2>2, <2>3 DEF ExpireEntry, TypeOK
<1>5. CASE ExpiryDone
  BY <1>5 DEF ExpiryDone, TypeOK
<1>6. ASSUME NEW i \in fresh, NEW j \in fresh, CreateMatch(i, j) \/ CreateMatchFails(i, j)
      PROVE  TypeOK'
  <2>1. /\ batch[i] \in Entry /\ batch[i].user \in Users /\ batch[i].id \in Ids
        /\ batch[j] \in Entry /\ batch[j].user \in Users /\ batch[j].id \in Ids
    BY BatchEntry DEF TypeOK
  <2>2. CASE CreateMatch(i, j)
    <3>1. plan' \in Seq(Op)
      <4>1. removeFromQueue(batch[i]) \o removeFromQueue(batch[j]) \in Seq(Op)
        BY <2>1, PlanAbout, ConcatProperties
      <4>2. removeFromQueue(batch[i]) \o removeFromQueue(batch[j])
              \o leaveQueue(batch[i]) \in Seq(Op)
        BY <2>1, <4>1, PlanAbout, ConcatProperties
      <4> QED
        BY <2>1, <2>2, <4>2, PlanAbout, ConcatProperties DEF CreateMatch
    <3>2. active' \in [Users -> Chat \cup {None}]
      BY <2>1, <2>2, ChatType DEF CreateMatch
    <3>4. severed' \subseteq Chat
      <4>1. PICK d, e : d = batch[i].user /\ e = batch[j].user
        OBVIOUS
      <4>2. Severs({d, e}, [user1 |-> d, user2 |-> e]) /\ d \in Users /\ e \in Users
        BY <2>1, <2>2, <4>1 DEF CreateMatch, SetActiveChat
      <4> QED
        BY <4>2, SeveredType
    <3>3. matches' \in [Ids -> Nat]
      <4>1. matches \in [Ids -> Nat]
        BY DEF TypeOK
      <4>2. matches' = [n \in Ids |-> IF n \in {batch[i].id, batch[j].id}
                                     THEN matches[n] + 1 ELSE matches[n]]
        BY <2>2 DEF CreateMatch
      <4> QED
        BY <4>1, <4>2
    <3> QED
      BY <2>2, <3>1, <3>2, <3>3, <3>4 DEF CreateMatch, TypeOK
  <2>3. CASE CreateMatchFails(i, j)
    <3>1. plan' \in Seq(Op)
      BY <2>1, <2>3, PlanAbout, ConcatProperties DEF CreateMatchFails
    <3> QED
      BY <2>3, <3>1 DEF CreateMatchFails, TypeOK
  <2> QED
    BY <1>6, <2>2, <2>3
<1>7. CASE TickDone
  <2>1. batch' \in Seq(Entry) /\ fresh' = {} /\ stale' = {}
    BY <1>7, EmptySeq DEF TickDone, TypeOK
  <2> QED
    BY <1>7, <2>1 DEF TickDone, TypeOK
<1> QED
  BY <1>1, <1>2, <1>3, <1>4, <1>5, <1>6, <1>7

\* So do the round trips of a decision.
LEMMA TypePlanSteps ==
  ASSUME TypeOK,
         \/ GetWaitingFilter \/ RemoveEntry \/ RemoveWaitingState \/ LeaveQueue
         \/ RefundRead \/ RefundSave
  PROVE  TypeOK'
<1>1. plan # <<>> /\ phase \notin {"idle", "scan"}
  BY DEF GetWaitingFilter, RemoveEntry, RemoveWaitingState, LeaveQueue, RefundRead,
     RefundSave, Doing, TypeOK
<1>2. /\ Client \in Users /\ Head(plan).entry.id \in Ids
      /\ Tail(plan) \in Seq(Op) /\ SubSeq(plan, 3, Len(plan)) \in Seq(Op)
      /\ cost(Head(plan).entry) \in Nat
  BY <1>1, HeadOp, CostNat
<1>3. CASE GetWaitingFilter
  <2>1. wfilter' \in Filters \cup {None}
    BY <1>2, <1>3 DEF GetWaitingFilter, TypeOK
  <2> QED
    BY <1>1, <1>2, <1>3, <2>1 DEF GetWaitingFilter, Next1, TypeOK
<1>4. CASE RemoveEntry
  <2>1. \A f \in Filters : WithoutFirst(queue[f], Client) \in Seq(Entry)
    BY WithoutFirstType DEF TypeOK
  <2>2. queue' \in [Filters -> Seq(Entry)]
    BY <1>4, <2>1 DEF RemoveEntry, TypeOK
  <2> QED
    BY <1>1, <1>2, <1>4, <2>2 DEF RemoveEntry, Next1, TypeOK
<1>5. CASE RemoveWaitingState
  <2>1. waiting' \in [Users -> Filters \cup {None}]
    BY <1>2, <1>5 DEF RemoveWaitingState, TypeOK
  <2> QED
    BY <1>1, <1>2, <1>5, <2>1 DEF RemoveWaitingState, Next1, TypeOK
<1>6. CASE LeaveQueue
  <2>1. inQueue' \in [Users -> BOOLEAN]
    BY <1>2, <1>6 DEF LeaveQueue, TypeOK
  <2> QED
    BY <1>1, <1>2, <1>6, <2>1 DEF LeaveQueue, Next1, TypeOK
<1>7. CASE RefundRead
  <2>1. wsnap' \in Int /\ plan' \in Seq(Op)
    BY <1>2, <1>7 DEF RefundRead, Next1, TypeOK
  <2> QED
    BY <1>1, <1>7, <2>1 DEF RefundRead, TypeOK
<1>8. CASE RefundSave
  <2>1. coins' \in [Users -> Int]
    BY <1>2, <1>8 DEF RefundSave, TypeOK
  <2>2. refunds' \in [Ids -> Nat]
    <3>1. refunds \in [Ids -> Nat]
      BY DEF TypeOK
    <3>2. \/ refunds' = refunds
          \/ refunds' = [refunds EXCEPT ![Head(plan).entry.id] = @ + 1]
      BY <1>8 DEF RefundSave
    <3> QED
      BY <1>2, <3>1, <3>2
  <2>3. plan' \in Seq(Op) /\ wsnap' = 0
    BY <1>2, <1>8 DEF RefundSave, Next1
  <2>4. UNCHANGED <<queue, waiting, inQueue, active, job, phase, todo, batch, stale,
                    fresh, wfilter, aged, searches, restarts, charged, opened,
                    matches, expiries, severed>>
    BY <1>8 DEF RefundSave
  <2> QED
    BY <1>1, <2>1, <2>2, <2>3, <2>4 DEF TypeOK
<1> QED
  BY <1>3, <1>4, <1>5, <1>6, <1>7, <1>8

\* And time, key expiry and restarts.
LEMMA TypeEnvironment ==
  ASSUME TypeOK,
         \/ \E i \in Ids : Age(i)
         \/ \E u \in Users : FlagExpires(u) \/ ChatExpires(u)
         \/ \E long \in BOOLEAN : Restart(long)
  PROVE  TypeOK'
<1>1. ASSUME NEW i \in Ids, Age(i)
      PROVE  TypeOK'
  BY <1>1 DEF Age, TypeOK
<1>2. ASSUME NEW u \in Users, FlagExpires(u)
      PROVE  TypeOK'
  BY <1>2 DEF FlagExpires, TypeOK
<1>3. ASSUME NEW u \in Users, ChatExpires(u)
      PROVE  TypeOK'
  <2>1. active' \in [Users -> Chat \cup {None}]
    BY <1>3 DEF ChatExpires, TypeOK
  <2> QED
    BY <1>3, <2>1 DEF ChatExpires, TypeOK
<1>4. ASSUME NEW long \in BOOLEAN, Restart(long)
      PROVE  TypeOK'
  <2>1. restarts' \in 0..MaxRestarts
    BY <1>4, MatchingAssumption DEF Restart, TypeOK
  <2>2. job' \in [Handlers -> Job]
    BY <1>4 DEF Restart, Job
  <2>3. /\ queue' \in [Filters -> Seq(Entry)]
        /\ waiting' \in [Users -> Filters \cup {None}]
        /\ inQueue' \in [Users -> BOOLEAN]
    <3>1. CASE long
      BY <1>4, <3>1, EmptySeq DEF Restart
    <3>2. CASE ~long
      BY <1>4, <3>2 DEF Restart, TypeOK
    <3> QED
      BY <3>1, <3>2
  <2>4. /\ phase' = "idle" /\ todo' = {} /\ batch' \in Seq(Entry)
        /\ stale' = {} /\ fresh' = {} /\ plan' = <<>> /\ plan' \in Seq(Op)
        /\ wfilter' = None /\ wsnap' = 0
    BY <1>4 DEF Restart
  <2>5. UNCHANGED <<coins, active, aged, searches, charged, opened, matches, expiries,
                    refunds, severed>>
    BY <1>4 DEF Restart
  <2> QED
    BY <2>1, <2>2, <2>3, <2>4, <2>5 DEF TypeOK
<1> QED
  BY <1>1, <1>2, <1>3, <1>4

LEMMA TypeStep ==
  ASSUME TypeOK, [Next]_vars
  PROVE  TypeOK'
<1>1. CASE UserStep
  BY <1>1, TypeUserStep
<1>2. ASSUME NEW h \in Handlers, HandlerStep(h)
      PROVE  TypeOK'
  BY <1>2, TypeSearchSteps, TypeEndSteps DEF HandlerStep
<1>3. CASE WorkerStep
  BY <1>3, TypeTickSteps, TypePlanSteps DEF WorkerStep
<1>4. CASE \/ \E i \in Ids : Age(i)
           \/ \E u \in Users : FlagExpires(u) \/ ChatExpires(u)
           \/ \E long \in BOOLEAN : Restart(long)
  BY <1>4, TypeEnvironment
<1>5. CASE UNCHANGED vars
  BY <1>5 DEF vars, TypeOK, Queued, Live
<1> QED
  BY <1>1, <1>2, <1>3, <1>4, <1>5 DEF Next

\* However updates overlap, calls fail and the process restarts, every variable
\* keeps its type and a tick leaves nothing behind.
THEOREM TypeCorrect == Spec => []TypeOK
<1>1. Init => TypeOK
  BY TypeInit
<1>2. TypeOK /\ [Next]_vars => TypeOK'
  BY TypeStep
<1> QED
  BY <1>1, <1>2, PTL DEF Spec

-----------------------------------------------------------------------------
(* Balances.                                                               *)

\* What a row read promises the save that follows it: the two reads of the
\* coin operations are the only values a save is computed from.
SnapshotsCover ==
  /\ \A h \in Handlers :
       /\ job[h].pc = "charge" => job[h].snap >= cost(job[h])
       /\ job[h].pc = "refundWrite" => job[h].snap >= 0
  /\ wsnap >= 0

CoinsInv == TypeOK /\ CoinsNeverNegative /\ SnapshotsCover

\* A handler that is left alone, or is at neither of the two saves, owes its
\* snapshot nothing.
LEMMA OtherSnapshots ==
  ASSUME TypeOK, SnapshotsCover, NEW h \in Handlers, wsnap' = wsnap,
         \E r \in Job : job' = [job EXCEPT ![h] = r]
                        /\ (r.pc = "charge" => r.snap >= cost(r))
                        /\ (r.pc = "refundWrite" => r.snap >= 0)
  PROVE  SnapshotsCover'
<1>1. PICK r \in Job : /\ job' = [job EXCEPT ![h] = r]
                       /\ (r.pc = "charge" => r.snap >= cost(r))
                       /\ (r.pc = "refundWrite" => r.snap >= 0)
  OBVIOUS
<1>2. ASSUME NEW g \in Handlers
      PROVE  /\ job'[g].pc = "charge" => job'[g].snap >= cost(job'[g])
             /\ job'[g].pc = "refundWrite" => job'[g].snap >= 0
  <2>1. CASE g = h
    <3>1. job'[g] = r
      BY <1>1, <2>1 DEF TypeOK
    <3> QED
      BY <1>1, <3>1
  <2>2. CASE g # h
    <3>1. job'[g] = job[g]
      BY <1>1, <2>2 DEF TypeOK
    <3> QED
      BY <3>1 DEF SnapshotsCover
  <2> QED
    BY <2>1, <2>2
<1> QED
  BY <1>2 DEF SnapshotsCover, cost

LEMMA ReturnSnapshots ==
  ASSUME TypeOK, SnapshotsCover, NEW h \in Handlers, wsnap' = wsnap, Return(h)
  PROVE  SnapshotsCover'
<1>1. Idle \in Job /\ Idle.pc = "idle"
  BY DEF Job, Idle
<1> QED
  BY <1>1, OtherSnapshots DEF Return

LEMMA GotoSnapshots ==
  ASSUME TypeOK, SnapshotsCover, NEW h \in Handlers, wsnap' = wsnap,
         job[h] \in SearchJob,
         NEW pc \in SearchSteps \ {"charge", "refundWrite"}, Goto(h, pc)
  PROVE  SnapshotsCover'
<1>1. /\ [job[h] EXCEPT !.pc = pc] \in Job
      /\ [job[h] EXCEPT !.pc = pc].pc = pc
  BY DEF SearchJob, Job
<1>2. job' = [job EXCEPT ![h] = [job[h] EXCEPT !.pc = pc]]
  BY DEF Goto
<1> QED
  BY <1>1, <1>2, OtherSnapshots

LEMMA CoinsSearchSteps ==
  ASSUME CoinsInv, NEW h \in Handlers,
         \/ CheckInQueue(h) \/ CheckActiveChat(h) \/ DeductRead(h) \/ DeductSave(h)
         \/ EnqueueChat(h) \/ EnqueueChatFails(h) \/ EnqueueRefundRead(h)
         \/ EnqueueRefundSave(h) \/ JoinQueue(h)
  PROVE  CoinsNeverNegative' /\ SnapshotsCover'
<1> USE DEF CoinsInv
<1>1. job[h] \in SearchJob
  BY SearchingJob DEF CheckInQueue, CheckActiveChat, DeductRead, DeductSave, EnqueueChat,
     EnqueueChatFails, EnqueueRefundRead, EnqueueRefundSave, JoinQueue, At, SearchSteps
<1>2. /\ job[h].user \in Users /\ job[h].snap \in Int /\ cost(job[h]) \in Nat
      /\ coins[job[h].user] \in Int /\ coins[job[h].user] >= 0
  BY <1>1, CostNat DEF SearchJob, TypeOK, CoinsNeverNegative
<1>3. \A c \in Int, u \in Users : c >= 0 /\ coins' = [coins EXCEPT ![u] = c]
                                    => CoinsNeverNegative'
  BY DEF CoinsNeverNegative, TypeOK
<1>4. coins' = coins => CoinsNeverNegative'
  BY DEF CoinsNeverNegative
<1>5. CASE CheckInQueue(h)
  BY <1>1, <1>4, <1>5, ReturnSnapshots, GotoSnapshots DEF CheckInQueue, SearchSteps
<1>6. CASE CheckActiveChat(h)
  BY <1>1, <1>4, <1>6, ReturnSnapshots, GotoSnapshots DEF CheckActiveChat, SearchSteps
<1>7. CASE DeductRead(h)
  <2>1. coins' = coins /\ wsnap' = wsnap
    BY <1>7 DEF DeductRead
  <2>2. CASE Return(h)
    BY <1>4, <2>1, <2>2, ReturnSnapshots
  <2>3. CASE /\ coins[job[h].user] >= cost(job[h])
             /\ job' = [job EXCEPT ![h].pc = "charge", ![h].snap = coins[job[h].user]]
    <3> DEFINE r == [job[h] EXCEPT !.pc = "charge", !.snap = coins[job[h].user]]
    <3>1. r \in Job
      BY <1>1, <1>2 DEF SearchJob, SearchSteps, Job
    <3>2. r.pc = "charge" /\ r.snap = coins[job[h].user] /\ r.filter = job[h].filter
      BY <1>1 DEF SearchJob
    <3>3. job' = [job EXCEPT ![h] = r]
      BY <2>3
    <3>4. r.snap >= cost(r)
      BY <2>3, <3>2 DEF cost
    <3> HIDE DEF r
    <3> QED
      BY <1>4, <2>1, <3>1, <3>2, <3>3, <3>4, OtherSnapshots
  <2> QED
    BY <1>7, <2>2, <2>3 DEF DeductRead
<1>8. CASE DeductSave(h)
  <2>1. job[h].snap >= cost(job[h])
    BY <1>8 DEF DeductSave, At, SnapshotsCover
  <2>2. job[h].snap - cost(job[h]) \in Int /\ job[h].snap - cost(job[h]) >= 0
    BY <1>2, <2>1
  <2>3. CoinsNeverNegative'
    BY <1>2, <1>3, <1>4, <1>8, <2>2 DEF DeductSave
  <2> QED
    BY <1>1, <1>8, <2>3, ReturnSnapshots, GotoSnapshots DEF DeductSave, SearchSteps
<1>9. CASE EnqueueChat(h)
  BY <1>1, <1>4, <1>9, GotoSnapshots DEF EnqueueChat, SearchSteps
<1>10. CASE EnqueueChatFails(h)
  BY <1>1, <1>4, <1>10, ReturnSnapshots, GotoSnapshots DEF EnqueueChatFails, SearchSteps
<1>11. CASE EnqueueRefundRead(h)
  <2>1. coins' = coins /\ wsnap' = wsnap
    BY <1>11 DEF EnqueueRefundRead
  <2>2. CASE Return(h)
    BY <1>4, <2>1, <2>2, ReturnSnapshots
  <2>3. CASE job' = [job EXCEPT ![h].pc = "refundWrite", ![h].snap = coins[job[h].user]]
    <3> DEFINE r == [job[h] EXCEPT !.pc = "refundWrite", !.snap = coins[job[h].user]]
    <3>1. r \in Job
      BY <1>1, <1>2 DEF SearchJob, SearchSteps, Job
    <3>2. r.pc = "refundWrite" /\ r.snap >= 0
      BY <1>1, <1>2 DEF SearchJob
    <3>3. job' = [job EXCEPT ![h] = r]
      BY <2>3
    <3> HIDE DEF r
    <3> QED
      BY <1>4, <2>1, <3>1, <3>2, <3>3, OtherSnapshots
  <2> QED
    BY <1>11, <2>2, <2>3 DEF EnqueueRefundRead
<1>12. CASE EnqueueRefundSave(h)
  <2>1. job[h].snap >= 0
    BY <1>12 DEF EnqueueRefundSave, At, SnapshotsCover
  <2>2. job[h].snap + cost(job[h]) \in Int /\ job[h].snap + cost(job[h]) >= 0
    BY <1>2, <2>1
  <2>3. CoinsNeverNegative'
    BY <1>2, <1>3, <1>4, <1>12, <2>2 DEF EnqueueRefundSave
  <2> QED
    BY <1>12, <2>3, ReturnSnapshots DEF EnqueueRefundSave
<1>13. CASE JoinQueue(h)
  BY <1>4, <1>13, ReturnSnapshots DEF JoinQueue
<1> QED
  BY <1>5, <1>6, <1>7, <1>8, <1>9, <1>10, <1>11, <1>12, <1>13

\* Elsewhere a step that leaves the balances alone and starts no coin operation
\* in a handler keeps what there is.
LEMMA CoinsUntouched ==
  ASSUME CoinsInv, coins' = coins, wsnap' \in Int, wsnap' >= 0,
         \A h \in Handlers : job'[h] = job[h]
                             \/ job'[h].pc \notin {"charge", "refundWrite"}
  PROVE  CoinsNeverNegative' /\ SnapshotsCover'
  BY DEF CoinsInv, CoinsNeverNegative, SnapshotsCover, cost

LEMMA CoinsUserStep ==
  ASSUME CoinsInv, UserStep
  PROVE  CoinsNeverNegative' /\ SnapshotsCover'
<1> USE DEF CoinsInv
<1>1. wsnap \in Int /\ wsnap >= 0
  BY DEF TypeOK, SnapshotsCover
<1>2. ASSUME NEW h \in Handlers, NEW u \in Users, StartEndChat(h, u)
      PROVE  CoinsNeverNegative' /\ SnapshotsCover'
  <2>1. \A g \in Handlers : job'[g] = job[g] \/ job'[g].pc = "endRead"
    BY <1>2 DEF StartEndChat, TypeOK, Idle
  <2> QED
    BY <1>1, <1>2, <2>1, CoinsUntouched DEF StartEndChat
<1>3. ASSUME NEW h \in Handlers, NEW u \in Users, NEW f \in Filters, StartSearch(h, u, f)
      PROVE  CoinsNeverNegative' /\ SnapshotsCover'
  <2>1. \A g \in Handlers : job'[g] = job[g] \/ job'[g].pc = "checkQueue"
    BY <1>3 DEF StartSearch, TypeOK
  <2> QED
    BY <1>1, <1>3, <2>1, CoinsUntouched DEF StartSearch
<1>4. ASSUME NEW r \in Users, NEW t \in Users, AcceptChat(r, t)
      PROVE  CoinsNeverNegative' /\ SnapshotsCover'
  BY <1>1, <1>4, CoinsUntouched DEF AcceptChat
<1> QED
  BY <1>2, <1>3, <1>4 DEF UserStep

LEMMA CoinsEndSteps ==
  ASSUME CoinsInv, NEW h \in Handlers, EndChatRead(h) \/ EndChatDelete(h)
  PROVE  CoinsNeverNegative' /\ SnapshotsCover'
<1> USE DEF CoinsInv
<1>1. wsnap \in Int /\ wsnap >= 0
  BY DEF TypeOK, SnapshotsCover
<1>2. job[h] \in EndJob
  BY EndingJob DEF EndChatRead, EndChatDelete, At, EndSteps
<1>3. CASE EndChatRead(h)
  <2>1. \A g \in Handlers : job'[g] = job[g] \/ job'[g].pc = "endDelete"
    BY <1>2, <1>3 DEF EndChatRead, TypeOK, EndJob
  <2> QED
    BY <1>1, <1>3, <2>1, CoinsUntouched DEF EndChatRead
<1>4. CASE EndChatDelete(h)
  BY <1>4, ReturnSnapshots DEF EndChatDelete, CoinsNeverNegative
<1> QED
  BY <1>3, <1>4

LEMMA CoinsWorkerStep ==
  ASSUME CoinsInv, WorkerStep
  PROVE  CoinsNeverNegative' /\ SnapshotsCover'
<1> USE DEF CoinsInv
<1>1. wsnap \in Int /\ wsnap >= 0
  BY DEF TypeOK, SnapshotsCover
<1>2. CASE RefundRead
  <2>1. Client \in Users
    BY <1>2, HeadOp DEF RefundRead, Doing
  <2>2. coins[Client] \in Int /\ coins[Client] >= 0
    BY <2>1 DEF TypeOK, CoinsNeverNegative
  <2> QED
    BY <1>1, <1>2, <2>2, CoinsUntouched DEF RefundRead
<1>3. CASE RefundSave
  <2>1. Client \in Users /\ cost(Head(plan).entry) \in Nat
    BY <1>3, HeadOp, CostNat DEF RefundSave, Doing
  <2>2. /\ wsnap + cost(Head(plan).entry) \in Int
        /\ wsnap + cost(Head(plan).entry) >= 0
    BY <1>1, <2>1
  <2>3. CoinsNeverNegative'
    BY <1>3, <2>1, <2>2 DEF RefundSave, CoinsNeverNegative, TypeOK
  <2> QED
    BY <1>3, <2>3 DEF RefundSave, SnapshotsCover, cost
<1>4. CASE \/ Tick
           \/ \E f \in Filters : ReadList(f)
           \/ SplitBatch
           \/ \E k \in stale : ExpireEntry(k)
           \/ ExpiryDone
           \/ \E i, j \in fresh : CreateMatch(i, j) \/ CreateMatchFails(i, j)
           \/ TickDone
           \/ GetWaitingFilter \/ RemoveEntry \/ RemoveWaitingState \/ LeaveQueue
  <2>1. coins' = coins /\ wsnap' = wsnap /\ job' = job
    BY <1>4 DEF Tick, ReadList, SplitBatch, ExpireEntry, ExpiryDone, CreateMatch,
       CreateMatchFails, TickDone, GetWaitingFilter, RemoveEntry, RemoveWaitingState,
       LeaveQueue
  <2> QED
    BY <1>1, <2>1, CoinsUntouched
<1> QED
  BY <1>2, <1>3, <1>4 DEF WorkerStep

LEMMA CoinsStep ==
  ASSUME CoinsInv, [Next]_vars
  PROVE  CoinsInv'
<1> USE DEF CoinsInv
<1>1. wsnap \in Int /\ wsnap >= 0
  BY DEF TypeOK, SnapshotsCover
<1>6. TypeOK'
  BY TypeStep
<1>2. ASSUME NEW h \in Handlers, HandlerStep(h)
      PROVE  CoinsNeverNegative' /\ SnapshotsCover'
  BY <1>2, CoinsSearchSteps, CoinsEndSteps DEF HandlerStep
<1>3. CASE \/ \E i \in Ids : Age(i)
           \/ \E u \in Users : FlagExpires(u) \/ ChatExpires(u)
  <2>1. coins' = coins /\ wsnap' = wsnap /\ job' = job
    BY <1>3 DEF Age, FlagExpires, ChatExpires
  <2> QED
    BY <1>1, <1>6, <2>1, CoinsUntouched
<1>4. ASSUME NEW long \in BOOLEAN, Restart(long)
      PROVE  CoinsNeverNegative' /\ SnapshotsCover'
  BY <1>4, CoinsUntouched DEF Restart, Idle
<1>5. CASE UNCHANGED vars
  BY <1>1, <1>5, <1>6, CoinsUntouched DEF vars
<1> QED
  BY <1>2, <1>3, <1>4, <1>5, <1>6, CoinsUserStep, CoinsWorkerStep DEF Next

\* No balance falls below zero, for any costs charged in any interleaving of
\* deductions and refunds, with overlapping updates, failures and restarts.
THEOREM BalancesStayPositive == Spec => []CoinsNeverNegative
<1>1. Init => CoinsInv
  BY TypeInit, MatchingAssumption
  DEF Init, CoinsInv, CoinsNeverNegative, SnapshotsCover, Idle
<1>2. CoinsInv /\ [Next]_vars => CoinsInv'
  BY CoinsStep
<1>3. CoinsInv => CoinsNeverNegative
  BY DEF CoinsInv
<1> QED
  BY <1>1, <1>2, <1>3, PTL DEF Spec

-----------------------------------------------------------------------------
(* Active chats.                                                           *)

\* Writing one session under the keys of both its users keeps every key's
\* session about its owner.
LEMMA SetActiveChatNames ==
  ASSUME TypeOK, ChatNamesOwner, NEW u \in Users, NEW v \in Users, SetActiveChat(u, v)
  PROVE  ChatNamesOwner'
<1>1. None \notin Users
  BY MatchingAssumption
<1> QED
  BY <1>1 DEF SetActiveChat, ChatNamesOwner

\* Taking keys away keeps it, whichever keys they are.
LEMMA KeysDeleted ==
  ASSUME ChatNamesOwner,
         \A u \in Users : active'[u] = active[u] \/ active'[u] = None
  PROVE  ChatNamesOwner'
  BY DEF ChatNamesOwner

\* The session under a user's key names that user, however chats are started by
\* the worker and by accepted requests, ended late, expire or survive a restart.
THEOREM ChatsNameTheirOwner == Spec => []ChatNamesOwner
<1>1. Init => ChatNamesOwner
  BY DEF Init, ChatNamesOwner
<1>2. ASSUME TypeOK, ChatNamesOwner, [Next]_vars
      PROVE  ChatNamesOwner'
  <2>1. CASE active' = active
    BY <1>2, <2>1, KeysDeleted
  <2>2. ASSUME NEW h \in Handlers, EndChatDelete(h)
        PROVE  ChatNamesOwner'
    BY <1>2, <2>2, KeysDeleted DEF EndChatDelete, TypeOK
  <2>3. ASSUME NEW u \in Users, ChatExpires(u)
        PROVE  ChatNamesOwner'
    BY <1>2, <2>3, KeysDeleted DEF ChatExpires
  <2>4. ASSUME NEW r \in Users, NEW t \in Users, AcceptChat(r, t)
        PROVE  ChatNamesOwner'
    BY <1>2, <2>4, SetActiveChatNames DEF AcceptChat
  <2>5. ASSUME NEW i \in fresh, NEW j \in fresh, CreateMatch(i, j)
        PROVE  ChatNamesOwner'
    <3>1. batch[i].user \in Users /\ batch[j].user \in Users
      BY <1>2, BatchEntry DEF TypeOK
    <3> QED
      BY <1>2, <2>5, <3>1, SetActiveChatNames DEF CreateMatch
  <2>6. CASE /\ UserStep
             /\ ~ \E r, t \in Users : AcceptChat(r, t)
    BY <2>1, <2>6 DEF UserStep, StartEndChat, StartSearch
  <2>7. ASSUME NEW h \in Handlers, HandlerStep(h), ~EndChatDelete(h)
        PROVE  active' = active
    BY <2>7 DEF HandlerStep, CheckInQueue, CheckActiveChat, DeductRead, DeductSave,
       EnqueueChat, EnqueueChatFails, EnqueueRefundRead, EnqueueRefundSave, JoinQueue,
       EndChatRead
  <2>8. CASE WorkerStep /\ ~ \E i, j \in fresh : CreateMatch(i, j)
    <3>1. active' = active
      BY <2>8 DEF WorkerStep, Tick, ReadList, SplitBatch, ExpireEntry, ExpiryDone,
         CreateMatchFails, TickDone, GetWaitingFilter, RemoveEntry, RemoveWaitingState,
         LeaveQueue, RefundRead, RefundSave
    <3> QED
      BY <2>1, <3>1
  <2>9. CASE \/ \E i \in Ids : Age(i)
             \/ \E u \in Users : FlagExpires(u)
             \/ \E long \in BOOLEAN : Restart(long)
             \/ UNCHANGED vars
    BY <2>1, <2>9 DEF Age, FlagExpires, Restart, vars
  <2> QED
    BY <1>2, <2>1, <2>2, <2>3, <2>4, <2>5, <2>6, <2>7, <2>8, <2>9 DEF Next
<1> QED
  BY <1>1, <1>2, TypeCorrect, PTL DEF Spec

\* A new session is under both its users' keys, and the sessions it took the
\* place of are severed.
LEMMA NewSessionWhole ==
  ASSUME TypeOK, ChatNamesOwner, ChatsAreMutual,
         NEW d \in Users, NEW e \in Users, SetActiveChat(d, e)
  PROVE  ChatsAreMutual'
<1>1. PICK new : new = [user1 |-> d, user2 |-> e]
  OBVIOUS
<1>2. /\ active' = [u \in Users |-> IF u \in {d, e} THEN new ELSE active[u]]
      /\ severed' = (severed \cup {active[v] : v \in {d, e}}) \ {None, new}
  BY <1>1 DEF SetActiveChat, Severs
<1>3. new.user1 = d /\ new.user2 = e
  BY <1>1
<1>4. ASSUME NEW u \in Users, active'[u] # None, active'[u] \notin severed'
      PROVE  active'[active'[u].user1] = active'[u] /\ active'[active'[u].user2] = active'[u]
  <2>1. CASE active'[u] = new
    BY <1>2, <1>3, <2>1
  <2>2. CASE active'[u] # new
    <3>1. u \notin {d, e} /\ active'[u] = active[u]
      BY <1>2, <2>2
    <3>2. active[u] \notin severed /\ active[d] # active[u] /\ active[e] # active[u]
      BY <1>2, <1>4, <2>2, <3>1
    <3>3. /\ active[active[u].user1] = active[u] /\ active[active[u].user2] = active[u]
          /\ active[u].user1 \in Users /\ active[u].user2 \in Users
      BY <1>4, <3>1, <3>2 DEF ChatsAreMutual, TypeOK, Chat
    <3>4. active[u].user1 \notin {d, e} /\ active[u].user2 \notin {d, e}
      BY <3>2, <3>3
    <3> QED
      BY <1>2, <3>1, <3>3, <3>4
  <2> QED
    BY <2>1, <2>2
<1> QED
  BY <1>4 DEF ChatsAreMutual

\* The end of a chat takes both keys of the session it has read, and every other
\* session it takes a key of is severed.
LEMMA EndLeavesNoHalf ==
  ASSUME TypeOK, ChatNamesOwner, ChatsAreMutual, NEW h \in Handlers, EndChatDelete(h)
  PROVE  ChatsAreMutual'
<1>1. PICK c, keys : /\ c = job[h].chat
                     /\ keys = IF c = None THEN {job[h].user} ELSE {c.user1, c.user2}
  OBVIOUS
<1>2. CASE UNCHANGED <<active, severed>>
  BY <1>2 DEF ChatsAreMutual
<1>3. CASE ~UNCHANGED <<active, severed>>
  <2>1. /\ active' = [u \in Users |-> IF u \in keys THEN None ELSE active[u]]
        /\ severed' = (severed \cup {active[v] : v \in keys}) \ {None, c}
    BY <1>1, <1>3 DEF EndChatDelete, Severs
  <2>2. ASSUME NEW u \in Users, active'[u] # None, active'[u] \notin severed'
        PROVE  active'[active'[u].user1] = active'[u]
               /\ active'[active'[u].user2] = active'[u]
    <3>1. u \notin keys /\ active'[u] = active[u]
      BY <2>1, <2>2
    <3>2. active[u] # c
      <4> SUFFICES ASSUME active[u] = c
                   PROVE  FALSE
        OBVIOUS
      <4>1. c # None /\ u \in {c.user1, c.user2}
        BY <2>2, <3>1 DEF ChatNamesOwner
      <4> QED
        BY <1>1, <3>1, <4>1
    <3>3. active[u] \notin severed /\ \A v \in keys : active[v] # active[u]
      BY <2>1, <2>2, <3>1, <3>2
    <3>4. /\ active[active[u].user1] = active[u] /\ active[active[u].user2] = active[u]
          /\ active[u].user1 \in Users /\ active[u].user2 \in Users
      BY <2>2, <3>1, <3>3 DEF ChatsAreMutual, TypeOK, Chat
    <3> QED
      BY <2>1, <3>1, <3>3, <3>4
  <2> QED
    BY <2>2 DEF ChatsAreMutual
<1> QED
  BY <1>2, <1>3

\* However many handlers end chats and accept requests while the worker makes
\* others, with overlapping updates, failing calls and restarts: a session is under
\* both its users' keys unless a call that had not read it took one of them, which
\* only the second half of an overtaken DeleteActiveChat and a SetActiveChat do.
THEOREM SessionsAreMutual == Spec => []ChatsAreMutual
<1>1. Init => ChatsAreMutual
  BY DEF Init, ChatsAreMutual
<1>2. ASSUME TypeOK, ChatNamesOwner, ChatsAreMutual, [Next]_vars
      PROVE  ChatsAreMutual'
  <2>1. CASE UNCHANGED <<active, severed>>
    BY <1>2, <2>1 DEF ChatsAreMutual
  <2>2. ASSUME NEW h \in Handlers, EndChatDelete(h)
        PROVE  ChatsAreMutual'
    BY <1>2, <2>2, EndLeavesNoHalf
  <2>3. ASSUME NEW x \in Users, ChatExpires(x)
        PROVE  ChatsAreMutual'
    <3>1. /\ active' = [v \in Users |-> IF active[v] = active[x] THEN None ELSE active[v]]
          /\ severed' = severed
      BY <2>3 DEF ChatExpires
    <3>2. ASSUME NEW u \in Users, active'[u] # None, active'[u] \notin severed'
          PROVE  active'[active'[u].user1] = active'[u]
                 /\ active'[active'[u].user2] = active'[u]
      <4>1. active[u] = active'[u] /\ active[u] # active[x]
        BY <3>1, <3>2
      <4>2. /\ active[active[u].user1] = active[u] /\ active[active[u].user2] = active[u]
            /\ active[u].user1 \in Users /\ active[u].user2 \in Users
        BY <1>2, <3>1, <3>2, <4>1 DEF ChatsAreMutual, TypeOK, Chat
      <4> QED
        BY <3>1, <4>1, <4>2
    <3> QED
      BY <3>2 DEF ChatsAreMutual
  <2>4. ASSUME NEW r \in Users, NEW t \in Users, AcceptChat(r, t)
        PROVE  ChatsAreMutual'
    BY <1>2, <2>4, NewSessionWhole DEF AcceptChat
  <2>5. ASSUME NEW i \in fresh, NEW j \in fresh, CreateMatch(i, j)
        PROVE  ChatsAreMutual'
    <3>1. batch[i].user \in Users /\ batch[j].user \in Users
      BY <1>2, BatchEntry DEF TypeOK
    <3> QED
      BY <1>2, <2>5, <3>1, NewSessionWhole DEF CreateMatch
  <2>6. CASE /\ UserStep
             /\ ~ \E r, t \in Users : AcceptChat(r, t)
    BY <2>1, <2>6 DEF UserStep, StartEndChat, StartSearch
  <2>7. ASSUME NEW h \in Handlers, HandlerStep(h), ~EndChatDelete(h)
        PROVE  UNCHANGED <<active, severed>>
    BY <2>7 DEF HandlerStep, CheckInQueue, CheckActiveChat, DeductRead, DeductSave,
       EnqueueChat, EnqueueChatFails, EnqueueRefundRead, EnqueueRefundSave, JoinQueue,
       EndChatRead
  <2>8. CASE WorkerStep /\ ~ \E i, j \in fresh : CreateMatch(i, j)
    <3>1. UNCHANGED <<active, severed>>
      BY <2>8 DEF WorkerStep, Tick, ReadList, SplitBatch, ExpireEntry, ExpiryDone,
         CreateMatchFails, TickDone, GetWaitingFilter, RemoveEntry, RemoveWaitingState,
         LeaveQueue, RefundRead, RefundSave
    <3> QED
      BY <2>1, <3>1
  <2>9. CASE \/ \E i \in Ids : Age(i)
             \/ \E u \in Users : FlagExpires(u)
             \/ \E long \in BOOLEAN : Restart(long)
             \/ UNCHANGED vars
    BY <2>1, <2>9 DEF Age, FlagExpires, Restart, vars
  <2> QED
    BY <1>2, <2>1, <2>2, <2>3, <2>4, <2>5, <2>6, <2>7, <2>8, <2>9 DEF Next
<1> QED
  BY <1>1, <1>2, TypeCorrect, ChatsNameTheirOwner, PTL DEF Spec

-----------------------------------------------------------------------------
(* A tick handles a user once.                                             *)

\* Dropping round trips from the plan, and positions from what is left, drops
\* nothing the invariant needs.
LEMMA TickShrinks ==
  ASSUME TypeOK, TickHandlesUserOnce, batch' = batch,
         stale' \subseteq stale, fresh' \subseteq fresh, plan' \in Seq(Op),
         \A n \in 1..Len(plan') : \E m \in 1..Len(plan) : plan'[n] = plan[m]
  PROVE  TickHandlesUserOnce'
  BY DEF TickHandlesUserOnce

LEMMA TailOfPlan ==
  ASSUME NEW p \in Seq(Op), p # <<>>
  PROVE  /\ \A n \in 1..Len(Tail(p)) : \E m \in 1..Len(p) : Tail(p)[n] = p[m]
         /\ \A n \in 1..Len(SubSeq(p, 3, Len(p))) :
                \E m \in 1..Len(p) : SubSeq(p, 3, Len(p))[n] = p[m]
<1>1. Len(p) \in Nat \ {0}
  BY EmptySeq, LenProperties
<1>2. /\ Len(Tail(p)) = Len(p) - 1
      /\ \A n \in 1..Len(Tail(p)) : Tail(p)[n] = p[n + 1]
  BY HeadTailProperties
<1>3. \A n \in 1..Len(Tail(p)) : n + 1 \in 1..Len(p)
  BY <1>1, <1>2
<1>4. \A n \in 3..Len(p) : p[n] \in Op
  BY <1>1, ElementOfSeq
<1>5. /\ Len(SubSeq(p, 3, Len(p))) = IF 3 <= Len(p) THEN Len(p) - 2 ELSE 0
      /\ \A n \in 1..Len(SubSeq(p, 3, Len(p))) : SubSeq(p, 3, Len(p))[n] = p[n + 2]
  BY <1>1, <1>4, SubSeqProperties
<1>6. \A n \in 1..Len(SubSeq(p, 3, Len(p))) : n + 2 \in 1..Len(p)
  BY <1>1, <1>5
<1> QED
  BY <1>2, <1>3, <1>5, <1>6

\* The round trips of p are all about entries of E.
About(p, E) == p \in Seq(Op) /\ \A n \in 1..Len(p) : p[n].entry \in E

LEMMA ConcatAbout ==
  ASSUME NEW E, NEW p, NEW q, About(p, E), About(q, E)
  PROVE  About(p \o q, E)
<1>1. p \in Seq(Op) /\ q \in Seq(Op)
  BY DEF About
<1>2. Len(p) \in Nat /\ Len(q) \in Nat
  BY <1>1, LenProperties
<1>3. /\ p \o q \in Seq(Op) /\ Len(p \o q) = Len(p) + Len(q)
      /\ \A n \in 1..Len(p) + Len(q) :
            (p \o q)[n] = IF n <= Len(p) THEN p[n] ELSE q[n - Len(p)]
  BY <1>1, ConcatProperties
<1>4. ASSUME NEW n \in 1..Len(p) + Len(q)
      PROVE  (p \o q)[n].entry \in E
  <2>1. CASE n <= Len(p)
    BY <1>2, <1>3, <2>1 DEF About
  <2>2. CASE ~(n <= Len(p))
    <3>1. n - Len(p) \in 1..Len(q)
      BY <1>2, <2>2
    <3> QED
      BY <1>3, <2>2, <3>1 DEF About
  <2> QED
    BY <2>1, <2>2
<1> QED
  BY <1>3, <1>4 DEF About

\* The users of a tick's decision are done with: every other position still to be
\* handled belongs to somebody else.
LEMMA TickTickSteps ==
  ASSUME TypeOK, TickHandlesUserOnce,
         \/ Tick
         \/ \E f \in Filters : ReadList(f)
         \/ SplitBatch
         \/ \E k \in stale : ExpireEntry(k)
         \/ ExpiryDone
         \/ \E i, j \in fresh : CreateMatch(i, j) \/ CreateMatchFails(i, j)
         \/ TickDone
  PROVE  TickHandlesUserOnce'
<1>1. CASE Tick \/ \E f \in Filters : ReadList(f)
  <2>1. stale' = {} /\ fresh' = {}
    BY <1>1 DEF Tick, ReadList, TypeOK
  <2> QED
    BY <2>1 DEF TickHandlesUserOnce
<1>2. CASE SplitBatch
  <2>1. plan' = <<>> /\ batch' = batch
    BY <1>2 DEF SplitBatch, TypeOK
  <2>2. stale' \cap fresh' = {} /\ stale' \cup fresh' = FirstEntries(batch)
    BY <1>2 DEF SplitBatch
  <2>3. ASSUME NEW k \in FirstEntries(batch), NEW m \in FirstEntries(batch),
               batch[k].user = batch[m].user
        PROVE  k = m
    BY <2>3, LenProperties DEF FirstEntries, TypeOK
  <2> QED
    BY <2>1, <2>2, <2>3 DEF TickHandlesUserOnce
<1>3. ASSUME NEW k \in stale, ExpireEntry(k)
      PROVE  TickHandlesUserOnce'
  <2>1. batch[k] \in Entry
    BY BatchEntry DEF TypeOK
  <2>2. \A n \in 1..Len(plan') : plan'[n].entry = batch[k]
    <3>1. /\ About(removeFromQueue(batch[k]), {batch[k]})
          /\ About(leaveQueue(batch[k]), {batch[k]})
          /\ About(refund(batch[k]), {batch[k]})
      BY <2>1, PlanAbout DEF About
    <3>2. About(removeFromQueue(batch[k]) \o leaveQueue(batch[k]), {batch[k]})
      BY <3>1, ConcatAbout
    <3>3. About(plan', {batch[k]})
      BY <1>3, <3>1, <3>2, ConcatAbout DEF ExpireEntry
    <3> QED
      BY <3>3 DEF About
  <2>3. /\ stale' = stale \ {k} /\ fresh' = fresh /\ batch' = batch
    BY <1>3 DEF ExpireEntry
  <2> QED
    BY <2>2, <2>3 DEF TickHandlesUserOnce
<1>4. CASE ExpiryDone
  BY <1>4, TickShrinks DEF ExpiryDone, TypeOK
<1>5. ASSUME NEW i \in fresh, NEW j \in fresh, CreateMatch(i, j) \/ CreateMatchFails(i, j)
      PROVE  TickHandlesUserOnce'
  <2>1. batch[i] \in Entry /\ batch[j] \in Entry
    BY BatchEntry DEF TypeOK
  <2>2. \A n \in 1..Len(plan') : plan'[n].entry \in {batch[i], batch[j]}
    <3> DEFINE E == {batch[i], batch[j]}
    <3>1. /\ About(removeFromQueue(batch[i]), E) /\ About(removeFromQueue(batch[j]), E)
          /\ About(leaveQueue(batch[i]), E) /\ About(leaveQueue(batch[j]), E)
          /\ About(refund(batch[i]), E) /\ About(refund(batch[j]), E)
      BY <2>1, PlanAbout DEF About
    <3> HIDE DEF E
    <3>2. About(removeFromQueue(batch[i]) \o removeFromQueue(batch[j]), E)
      BY <3>1, ConcatAbout
    <3>3. About(removeFromQueue(batch[i]) \o removeFromQueue(batch[j])
                \o leaveQueue(batch[i]), E)
      BY <3>1, <3>2, ConcatAbout
    <3>4. About(removeFromQueue(batch[i]) \o removeFromQueue(batch[j])
                \o leaveQueue(batch[i]) \o leaveQueue(batch[j]), E)
      BY <3>1, <3>3, ConcatAbout
    <3>5. About(refund(batch[i]) \o refund(batch[j]), E)
      BY <3>1, ConcatAbout
    <3>6. About(plan', E)
      BY <1>5, <3>4, <3>5 DEF CreateMatch, CreateMatchFails
    <3> QED
      BY <3>6 DEF About, E
  <2>3. /\ stale' = stale /\ fresh' = fresh \ {i, j} /\ batch' = batch
    BY <1>5 DEF CreateMatch, CreateMatchFails
  <2>4. stale = {}
    BY <1>5 DEF CreateMatch, CreateMatchFails, TypeOK
  <2> QED
    BY <2>2, <2>3, <2>4 DEF TickHandlesUserOnce
<1>6. CASE TickDone
  BY <1>6 DEF TickDone, TypeOK, TickHandlesUserOnce
<1> QED
  BY <1>1, <1>2, <1>3, <1>4, <1>5, <1>6

LEMMA TickPlanSteps ==
  ASSUME TypeOK, TickHandlesUserOnce,
         \/ GetWaitingFilter \/ RemoveEntry \/ RemoveWaitingState \/ LeaveQueue
         \/ RefundRead \/ RefundSave
  PROVE  TickHandlesUserOnce'
<1>1. plan \in Seq(Op) /\ plan # <<>>
  BY DEF GetWaitingFilter, RemoveEntry, RemoveWaitingState, LeaveQueue, RefundRead,
     RefundSave, Doing, TypeOK
<1>2. stale' = stale /\ fresh' = fresh /\ batch' = batch
  BY DEF GetWaitingFilter, RemoveEntry, RemoveWaitingState, LeaveQueue, RefundRead,
     RefundSave
<1>3. plan' = Tail(plan) \/ plan' = SubSeq(plan, 3, Len(plan))
  BY DEF GetWaitingFilter, RemoveEntry, RemoveWaitingState, LeaveQueue, RefundRead,
     RefundSave, Next1
<1>4. plan' \in Seq(Op)
  BY <1>1, <1>3, HeadOp
<1>5. \A n \in 1..Len(plan') : \E m \in 1..Len(plan) : plan'[n] = plan[m]
  <2>1. /\ \A n \in 1..Len(Tail(plan)) : \E m \in 1..Len(plan) : Tail(plan)[n] = plan[m]
        /\ \A n \in 1..Len(SubSeq(plan, 3, Len(plan))) :
              \E m \in 1..Len(plan) : SubSeq(plan, 3, Len(plan))[n] = plan[m]
    BY <1>1, TailOfPlan
  <2>2. CASE plan' = Tail(plan)
    BY <2>1, <2>2
  <2>3. CASE plan' = SubSeq(plan, 3, Len(plan))
    BY <2>1, <2>3
  <2> QED
    BY <1>3, <2>2, <2>3
<1> QED
  BY <1>2, <1>4, <1>5, TickShrinks

LEMMA TickStep ==
  ASSUME TypeOK, TickHandlesUserOnce, [Next]_vars
  PROVE  TickHandlesUserOnce'
<1>1. CASE UNCHANGED workerVars
  BY <1>1 DEF TickHandlesUserOnce
<1>2. CASE WorkerStep
  BY <1>2, TickTickSteps, TickPlanSteps DEF WorkerStep
<1>3. CASE UserStep
  BY <1>1, <1>3 DEF UserStep, StartEndChat, StartSearch, AcceptChat
<1>4. ASSUME NEW h \in Handlers, HandlerStep(h)
      PROVE  UNCHANGED workerVars
  BY <1>4 DEF HandlerStep, CheckInQueue, CheckActiveChat, DeductRead, DeductSave,
     EnqueueChat, EnqueueChatFails, EnqueueRefundRead, EnqueueRefundSave, JoinQueue,
     EndChatRead, EndChatDelete
<1>5. CASE \/ \E i \in Ids : Age(i)
           \/ \E u \in Users : FlagExpires(u) \/ ChatExpires(u)
  BY <1>1, <1>5 DEF Age, FlagExpires, ChatExpires
<1>6. ASSUME NEW long \in BOOLEAN, Restart(long)
      PROVE  TickHandlesUserOnce'
  BY <1>6 DEF Restart, TickHandlesUserOnce
<1>7. CASE UNCHANGED vars
  BY <1>1, <1>7 DEF vars
<1> QED
  BY <1>1, <1>2, <1>3, <1>4, <1>5, <1>6, <1>7 DEF Next

\* A tick expires or matches a user, one of the two and once, even when
\* overlapping or failing calls have left the user in the lists several times.
THEOREM TickHandlesEachUserOnce == Spec => []TickHandlesUserOnce
<1>1. Init => TickHandlesUserOnce
  BY DEF Init, TickHandlesUserOnce
<1> QED
  BY <1>1, TickStep, TypeCorrect, PTL DEF Spec
=============================================================================
