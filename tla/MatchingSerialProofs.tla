------------------------ MODULE MatchingSerialProofs ------------------------
(***************************************************************************)
(* Theorems about Matching while a user's updates are handled one at a     *)
(* time, no Redis or Postgres call fails and the process is not restarted: *)
(* for any number of users, handler goroutines, searches and filters.      *)
(***************************************************************************)
EXTENDS MatchingProofs, MatchingContract

USE DEF store, workerVars, history

\* The hypothesis of every theorem of this module.
Serial == ~Overlap /\ ~Faults /\ MaxRestarts = 0

\* A search is opening until its entry is in a queue.
Opening   == SearchSteps \ {"mark"}


-----------------------------------------------------------------------------
(* Searches and their goroutines.                                          *)

\* A search's number is its own, whatever its goroutine has written of it.
Numbered ==
    /\ \A e \in opened \cup charged : e.id <= searches
    /\ \A d, e \in opened \cup charged : d.id = e.id => d = e
    /\ \A e \in charged : cost(e) > 0

\* A user has one goroutine, and it is the only one to write of its search.
OneJob ==
    /\ \A g, h \in Handlers : job[g].user = job[h].user /\ job[h].user # None => g = h
    /\ \A g, h \in Handlers :
         job[g].pc \in SearchSteps /\ job[h].pc \in SearchSteps /\ job[g].id = job[h].id
           => g = h
    /\ \A h \in Handlers : job[h].pc \in SearchSteps =>
         /\ job[h].id <= searches
         /\ job[h].pc \notin {"refundRead", "refundWrite"}
         /\ job[h].pc \in {"deduct", "charge"} => cost(job[h]) > 0
         /\ \A e \in opened \cup charged : e.id = job[h].id => e = entryOf(job[h])
         /\ job[h].pc \in Opening => \A e \in opened : e.id # job[h].id

Workflow == TypeOK /\ Numbered /\ OneJob

LEMMA JobAt ==
  ASSUME TypeOK, NEW h \in Handlers, NEW r, job' = [job EXCEPT ![h] = r]
  PROVE  job'[h] = r /\ \A g \in Handlers : g # h => job'[g] = job[g]
  BY DEF TypeOK

LEMMA JobUser ==
  ASSUME TypeOK, NEW h \in Handlers
  PROVE  /\ job[h].user \in Users \cup {None}
         /\ job[h].user = None <=> job[h].pc = "idle"
         /\ job[h].user = None <=> job[h] = Idle
<1>1. job[h] \in Job /\ None \notin Users
  BY MatchingAssumption DEF TypeOK
<1>2. CASE job[h] = Idle
  BY <1>2 DEF Idle
<1>3. CASE job[h] \in SearchJob
  <2>1. job[h].user \in Users /\ job[h].pc \in SearchSteps
    BY <1>3 DEF SearchJob
  <2> QED
    BY <1>1, <2>1 DEF SearchSteps, Idle
<1>4. CASE job[h] \in EndJob
  <2>1. job[h].user \in Users /\ job[h].pc \in EndSteps
    BY <1>4 DEF EndJob
  <2> QED
    BY <1>1, <2>1 DEF EndSteps, Idle
<1> QED
  BY <1>1, <1>2, <1>3, <1>4 DEF Job

\* A goroutine that goes on with its search, or is done with it, writes nothing
\* under another search's number.
LEMMA SearchGoesOn ==
  ASSUME Workflow, NEW h \in Handlers, job[h] \in SearchJob,
         NEW r, job' = [job EXCEPT ![h] = r],
         \/ r = Idle
         \/ /\ r.pc \in SearchSteps \ {"refundRead", "refundWrite"}
            /\ r.user = job[h].user /\ r.filter = job[h].filter /\ r.id = job[h].id
            /\ r.pc \in {"deduct", "charge"} => cost(r) > 0
            /\ r.pc \in Opening => job[h].pc \in Opening,
         searches' = searches,
         \/ opened' = opened
         \/ opened' = opened \cup {entryOf(job[h])} /\ r.pc = "mark",
         \/ charged' = charged
         \/ charged' = charged \cup {entryOf(job[h])} /\ cost(job[h]) > 0
  PROVE  Numbered' /\ OneJob'
<1> DEFINE e1 == entryOf(job[h])
<1>1. /\ job'[h] = r
      /\ \A g \in Handlers : g # h => job'[g] = job[g]
  BY JobAt DEF Workflow
<1>2. /\ e1.id = job[h].id /\ e1.filter = job[h].filter /\ cost(e1) = cost(job[h])
      /\ job[h].pc \in SearchSteps /\ Idle.pc = "idle" /\ Idle.user = None
      /\ job[h].user \in Users /\ job[h].user # None
  BY MatchingAssumption DEF entryOf, cost, SearchJob, Idle
<1>3. r = Idle \/ entryOf(r) = e1
  BY DEF entryOf
<1>4. opened' \cup charged' \subseteq opened \cup charged \cup {e1}
  OBVIOUS
<1>5. \A g \in Handlers : job[g].pc \in SearchSteps => job[g].id <= searches
  BY DEF Workflow, OneJob
<1>6. \A e \in opened \cup charged : e.id = e1.id => e = e1
  BY <1>2 DEF Workflow, OneJob
<1> HIDE DEF e1
<1>7. Numbered'
  <2>1. \A e \in opened' \cup charged' : e.id <= searches'
    BY <1>2, <1>4, <1>5 DEF Workflow, Numbered
  <2>2. \A d, e \in opened' \cup charged' : d.id = e.id => d = e
    BY <1>4, <1>6 DEF Workflow, Numbered
  <2>3. \A e \in charged' : cost(e) > 0
    BY <1>2 DEF Workflow, Numbered, e1
  <2> QED
    BY <2>1, <2>2, <2>3 DEF Numbered, cost
<1>8. r.user = None \/ r.user = job[h].user
  BY <1>2
<1>9. r.pc \in SearchSteps => r.id = job[h].id /\ entryOf(r) = e1
  BY <1>2, <1>3 DEF SearchSteps
<1>10. \A g, k \in Handlers : job'[g].user = job'[k].user /\ job'[k].user # None => g = k
  BY <1>1, <1>8, <1>2 DEF Workflow, OneJob
<1>11. \A g, k \in Handlers :
         job'[g].pc \in SearchSteps /\ job'[k].pc \in SearchSteps /\ job'[g].id = job'[k].id
           => g = k
  BY <1>1, <1>2, <1>9 DEF Workflow, OneJob
<1>12. ASSUME NEW g \in Handlers, job'[g].pc \in SearchSteps
       PROVE  /\ job'[g].id <= searches'
              /\ job'[g].pc \notin {"refundRead", "refundWrite"}
              /\ job'[g].pc \in {"deduct", "charge"} => cost(job'[g]) > 0
              /\ \A e \in opened' \cup charged' : e.id = job'[g].id => e = entryOf(job'[g])
              /\ job'[g].pc \in Opening => \A e \in opened' : e.id # job'[g].id
  <2>1. CASE g = h
    <3>1. r.pc # "idle"
      BY <1>1, <1>12, <2>1 DEF SearchSteps
    <3>2. r.id = job[h].id /\ entryOf(r) = e1 /\ r # Idle
      BY <1>1, <1>2, <1>9, <1>12, <2>1, <3>1
    <3>3. \A e \in opened' \cup charged' : e.id = e1.id => e = e1
      BY <1>4, <1>6
    <3>4. r.pc \in Opening => opened' = opened /\ job[h].pc \in Opening
      BY <3>2 DEF Opening
    <3>5. r.pc \in Opening => \A e \in opened' : e.id # r.id
      BY <1>2, <3>2, <3>4 DEF Workflow, OneJob
    <3> QED
      BY <1>1, <1>2, <1>5, <2>1, <3>2, <3>3, <3>5
  <2>2. CASE g # h
    <3>1. job'[g] = job[g] /\ job[g].pc \in SearchSteps
      BY <1>1, <1>12, <2>2
    <3>2. job[g].id # e1.id
      BY <1>2, <2>2, <3>1 DEF Workflow, OneJob
    <3>3. \A e \in opened' \cup charged' : e.id = job[g].id => e = entryOf(job[g])
      BY <1>4, <3>1, <3>2 DEF Workflow, OneJob
    <3>4. job[g].pc \in Opening => \A e \in opened' : e.id # job[g].id
      BY <3>1, <3>2 DEF Workflow, OneJob, e1
    <3> QED
      BY <3>1, <3>3, <3>4 DEF Workflow, OneJob
  <2> QED
    BY <2>1, <2>2
<1> QED
  BY <1>7, <1>10, <1>11, <1>12 DEF OneJob, cost, entryOf

LEMMA WorkflowSearchSteps ==
  ASSUME Workflow, Serial, NEW h \in Handlers,
         \/ CheckInQueue(h) \/ CheckActiveChat(h) \/ DeductRead(h) \/ DeductSave(h)
         \/ EnqueueChat(h) \/ EnqueueChatFails(h) \/ EnqueueRefundRead(h)
         \/ EnqueueRefundSave(h) \/ JoinQueue(h)
  PROVE  Numbered' /\ OneJob'
<1>1. job[h] \in SearchJob
  BY SearchingJob DEF Workflow, CheckInQueue, CheckActiveChat, DeductRead, DeductSave,
     EnqueueChat, EnqueueChatFails, EnqueueRefundRead, EnqueueRefundSave, JoinQueue, At,
     SearchSteps
<1>2. job[h].pc \in SearchSteps \ {"refundRead", "refundWrite"}
  BY <1>1 DEF Workflow, OneJob, SearchJob
<1> DEFINE To(pc, n) == [job[h] EXCEPT !.pc = pc, !.snap = n]
<1>3. \A pc, n : /\ To(pc, n).pc = pc /\ To(pc, n).user = job[h].user
                 /\ To(pc, n).filter = job[h].filter /\ To(pc, n).id = job[h].id
                 /\ cost(To(pc, n)) = cost(job[h])
  BY <1>1 DEF SearchJob, cost
<1>4. /\ \A pc : Goto(h, pc) => job' = [job EXCEPT ![h] = To(pc, job[h].snap)]
      /\ \A pc, n : [job EXCEPT ![h].pc = pc, ![h].snap = n]
                    = [job EXCEPT ![h] = To(pc, n)]
      /\ Return(h) => job' = [job EXCEPT ![h] = Idle]
  <2>1. \A pc : [job[h] EXCEPT !.pc = pc] = To(pc, job[h].snap)
    BY <1>1 DEF SearchJob
  <2> QED
    BY <2>1 DEF Goto, Return
<1> HIDE DEF To
<1>12. ASSUME Return(h), UNCHANGED <<opened, charged, searches>>
       PROVE  Numbered' /\ OneJob'
  BY <1>1, <1>4, <1>12, SearchGoesOn
<1>13. ASSUME NEW pc \in SearchSteps \ {"refundRead", "refundWrite"},
              NEW n, job' = [job EXCEPT ![h] = To(pc, n)],
              pc \in {"deduct", "charge"} => cost(job[h]) > 0,
              pc \in Opening => job[h].pc \in Opening,
              searches' = searches,
              \/ opened' = opened
              \/ opened' = opened \cup {entryOf(job[h])} /\ pc = "mark",
              \/ charged' = charged
              \/ charged' = charged \cup {entryOf(job[h])} /\ cost(job[h]) > 0
       PROVE  Numbered' /\ OneJob'
  <2> DEFINE r == To(pc, n)
  <2>1. /\ r.pc = pc /\ r.user = job[h].user /\ r.filter = job[h].filter
        /\ r.id = job[h].id /\ cost(r) = cost(job[h])
    BY <1>3
  <2>2. job' = [job EXCEPT ![h] = r]
    BY <1>13
  <2> HIDE DEF r
  <2> QED
    BY <1>1, <1>13, <2>1, <2>2, SearchGoesOn
<1> USE DEF Opening, SearchSteps
<1>5. CASE CheckInQueue(h)
  <2>1. Return(h) \/ Goto(h, "checkChat")
    BY <1>5 DEF CheckInQueue
  <2>2. job[h].pc = "checkQueue" /\ UNCHANGED <<opened, charged, searches>>
    BY <1>5 DEF CheckInQueue, At
  <2> QED
    BY <1>4, <1>12, <1>13, <2>1, <2>2
<1>6. CASE CheckActiveChat(h)
  <2>1. Return(h) \/ (Goto(h, "deduct") /\ cost(job[h]) > 0) \/ Goto(h, "enqueue")
    BY <1>6 DEF CheckActiveChat
  <2>2. job[h].pc = "checkChat" /\ UNCHANGED <<opened, charged, searches>>
    BY <1>6 DEF CheckActiveChat, At
  <2> QED
    BY <1>4, <1>12, <1>13, <2>1, <2>2
<1>7. CASE DeductRead(h)
  <2>1. \/ Return(h)
        \/ job' = [job EXCEPT ![h] = To("charge", coins[job[h].user])]
    BY <1>4, <1>7 DEF DeductRead
  <2>2. /\ job[h].pc = "deduct" /\ UNCHANGED <<opened, charged, searches>>
        /\ cost(job[h]) > 0
    BY <1>7 DEF DeductRead, At, Workflow, OneJob
  <2> QED
    BY <1>4, <1>12, <1>13, <2>1, <2>2
<1>8. CASE DeductSave(h)
  <2>1. Goto(h, "enqueue")
    BY <1>8 DEF DeductSave, Serial
  <2>2. /\ job[h].pc = "charge" /\ UNCHANGED <<opened, searches>>
        /\ charged' = charged \cup {entryOf(job[h])} /\ cost(job[h]) > 0
    BY <1>8 DEF DeductSave, At, Workflow, OneJob, Serial
  <2> QED
    BY <1>4, <1>12, <1>13, <2>1, <2>2
<1>9. CASE EnqueueChat(h)
  <2>1. /\ Goto(h, "mark") /\ UNCHANGED <<charged, searches>>
        /\ opened' = opened \cup {entryOf(job[h])}
    BY <1>9 DEF EnqueueChat
  <2> QED
    BY <1>4, <1>9, <1>13, <2>1
<1>10. CASE JoinQueue(h)
  <2>1. Return(h) /\ UNCHANGED <<opened, charged, searches>>
    BY <1>10 DEF JoinQueue
  <2> QED
    BY <1>12, <2>1
<1>11. CASE EnqueueChatFails(h) \/ EnqueueRefundRead(h) \/ EnqueueRefundSave(h)
  BY <1>2, <1>11
  DEF EnqueueChatFails, EnqueueRefundRead, EnqueueRefundSave, At, Serial
<1> QED
  BY <1>5, <1>6, <1>7, <1>8, <1>9, <1>10, <1>11

\* A goroutine that searches nothing writes nothing either.
LEMMA NoSearchGoesOn ==
  ASSUME Workflow, NEW h \in Handlers, NEW r, job' = [job EXCEPT ![h] = r],
         r.pc \notin SearchSteps,
         r.user = None \/ \A g \in Handlers : g # h => job[g].user # r.user,
         UNCHANGED <<opened, charged, searches>>
  PROVE  Numbered' /\ OneJob'
<1>1. /\ job'[h] = r
      /\ \A g \in Handlers : g # h => job'[g] = job[g]
  BY JobAt DEF Workflow
<1>2. Numbered'
  BY DEF Workflow, Numbered, cost
<1>3. /\ \A g, k \in Handlers : job'[g].user = job'[k].user /\ job'[k].user # None => g = k
      /\ \A g, k \in Handlers :
           job'[g].pc \in SearchSteps /\ job'[k].pc \in SearchSteps /\ job'[g].id = job'[k].id
             => g = k
  BY <1>1 DEF Workflow, OneJob
<1>4. ASSUME NEW g \in Handlers, job'[g].pc \in SearchSteps
      PROVE  job'[g] = job[g]
  BY <1>1, <1>4
<1> QED
  BY <1>2, <1>3, <1>4 DEF Workflow, OneJob, cost, entryOf

LEMMA WorkflowOtherJobs ==
  ASSUME Workflow, Serial, NEW h \in Handlers,
         \/ EndChatRead(h) \/ EndChatDelete(h)
         \/ \E u \in Users : StartEndChat(h, u)
  PROVE  Numbered' /\ OneJob'
<1>1. CASE \E u \in Users : StartEndChat(h, u)
  <2> PICK u \in Users : StartEndChat(h, u)
    BY <1>1
  <2> DEFINE r == [Idle EXCEPT !.pc = "endRead", !.user = u]
  <2>1. job' = [job EXCEPT ![h] = r] /\ UNCHANGED <<opened, charged, searches>>
    BY DEF StartEndChat
  <2>2. r.pc = "endRead" /\ r.user = u
    BY DEF Idle
  <2>3. \A g \in Handlers : job[g].user # u
    BY DEF StartEndChat, MayStart, Serial
  <2> HIDE DEF r
  <2> QED
    BY <2>1, <2>2, <2>3, NoSearchGoesOn DEF SearchSteps
<1>2. CASE EndChatRead(h)
  <2>1. job[h] \in EndJob
    BY <1>2, EndingJob DEF EndChatRead, At, EndSteps, Workflow
  <2>2. PICK c : \/ job' = [job EXCEPT ![h] = [job[h] EXCEPT !.pc = "endDelete", !.chat = c]]
    BY <1>2 DEF EndChatRead, Serial
  <2> DEFINE r == [job[h] EXCEPT !.pc = "endDelete", !.chat = c]
  <2>3. r.pc = "endDelete" /\ r.user = job[h].user
    BY <2>1 DEF EndJob
  <2>4. r.user = None \/ \A g \in Handlers : g # h => job[g].user # r.user
    BY <2>3 DEF Workflow, OneJob
  <2> HIDE DEF r
  <2>5. UNCHANGED <<opened, charged, searches>>
    BY <1>2 DEF EndChatRead
  <2> QED
    BY <2>2, <2>3, <2>4, <2>5, NoSearchGoesOn DEF r, SearchSteps
<1>3. CASE EndChatDelete(h)
  <2>1. job' = [job EXCEPT ![h] = Idle] /\ UNCHANGED <<opened, charged, searches>>
    BY <1>3 DEF EndChatDelete, Return
  <2> QED
    BY <2>1, NoSearchGoesOn DEF Idle, SearchSteps, EndChatDelete
<1> QED
  BY <1>1, <1>2, <1>3

LEMMA WorkflowStartSearch ==
  ASSUME Workflow, Serial, NEW h \in Handlers, NEW u \in Users, NEW f \in Filters,
         StartSearch(h, u, f)
  PROVE  Numbered' /\ OneJob'
<1> DEFINE r == [pc |-> "checkQueue", user |-> u, filter |-> f, id |-> searches + 1,
                 snap |-> 0, chat |-> None]
<1>1. job' = [job EXCEPT ![h] = r] /\ UNCHANGED <<opened, charged>>
      /\ searches' = searches + 1
  BY DEF StartSearch
<1>2. r.pc = "checkQueue" /\ r.user = u /\ r.id = searches + 1
  OBVIOUS
<1> HIDE DEF r
<1>3. /\ job'[h] = r
      /\ \A g \in Handlers : g # h => job'[g] = job[g]
  BY <1>1, JobAt DEF Workflow
<1>4. searches \in Nat
  BY DEF Workflow, TypeOK
<1>5. \A g \in Handlers : job[g].user # u
  BY DEF StartSearch, MayStart, Serial
<1>6. \A e \in opened \cup charged : e \in Entry /\ e.id \in Nat
  BY DEF Workflow, TypeOK, Entry, Ids
<1>7. \A g \in Handlers : job[g].pc \in SearchSteps => job[g].id \in Nat
  BY SearchingJob DEF Workflow, SearchJob, Ids
<1>8. Numbered'
  BY <1>1, <1>4, <1>6 DEF Workflow, Numbered, cost
<1>9. \A g, k \in Handlers : job'[g].user = job'[k].user /\ job'[k].user # None => g = k
  BY <1>2, <1>3, <1>5 DEF Workflow, OneJob
<1>10. \A g \in Handlers : g # h /\ job[g].pc \in SearchSteps => job[g].id # searches + 1
  BY <1>4, <1>7 DEF Workflow, OneJob
<1>11. \A g, k \in Handlers :
         job'[g].pc \in SearchSteps /\ job'[k].pc \in SearchSteps /\ job'[g].id = job'[k].id
           => g = k
  BY <1>2, <1>3, <1>10 DEF Workflow, OneJob
<1>12. \A e \in opened \cup charged : e.id # searches + 1
  BY <1>4, <1>6 DEF Workflow, Numbered
<1>13. ASSUME NEW g \in Handlers, job'[g].pc \in SearchSteps
       PROVE  /\ job'[g].id <= searches'
              /\ job'[g].pc \notin {"refundRead", "refundWrite"}
              /\ job'[g].pc \in {"deduct", "charge"} => cost(job'[g]) > 0
              /\ \A e \in opened' \cup charged' : e.id = job'[g].id => e = entryOf(job'[g])
              /\ job'[g].pc \in Opening => \A e \in opened' : e.id # job'[g].id
  <2>1. CASE g = h
    BY <1>1, <1>2, <1>3, <1>4, <1>12, <2>1
  <2>2. CASE g # h
    <3>1. job'[g] = job[g] /\ job[g].pc \in SearchSteps
      BY <1>3, <1>13, <2>2
    <3>2. job[g].id <= searches' /\ job[g].pc \notin {"refundRead", "refundWrite"}
      BY <1>1, <1>4, <1>7, <3>1 DEF Workflow, OneJob
    <3> QED
      BY <1>1, <3>1, <3>2 DEF Workflow, OneJob
  <2> QED
    BY <2>1, <2>2
<1> QED
  BY <1>8, <1>9, <1>11, <1>13 DEF OneJob, cost, entryOf

\* Goroutines and the numbers of their searches stay apart.
LEMMA WorkflowStep ==
  ASSUME Workflow, Serial, [Next]_vars
  PROVE  Workflow'
<1>1. TypeOK'
  BY TypeStep DEF Workflow
<1>2. ASSUME UNCHANGED <<job, opened, charged, searches>>
      PROVE  Numbered' /\ OneJob'
  BY <1>2 DEF Workflow, Numbered, OneJob, cost, entryOf
<1>3. ASSUME NEW h \in Handlers, HandlerStep(h)
      PROVE  Numbered' /\ OneJob'
  BY <1>3, WorkflowSearchSteps, WorkflowOtherJobs DEF HandlerStep
<1>4. CASE UserStep
  <2>1. ASSUME NEW r \in Users, NEW t \in Users, AcceptChat(r, t)
        PROVE  UNCHANGED <<job, opened, charged, searches>>
    BY <2>1 DEF AcceptChat
  <2> QED
    BY <1>1, <1>2, <1>4, <2>1, WorkflowOtherJobs, WorkflowStartSearch DEF UserStep, Workflow
<1>5. CASE WorkerStep
  BY <1>1, <1>2, <1>5 DEF Workflow, WorkerStep, Tick, ReadList, SplitBatch, ExpireEntry, ExpiryDone,
     CreateMatch, CreateMatchFails, TickDone, GetWaitingFilter, RemoveEntry,
     RemoveWaitingState, LeaveQueue, RefundRead, RefundSave
<1>6. CASE \/ \E i \in Ids : Age(i)
           \/ \E u \in Users : FlagExpires(u) \/ ChatExpires(u)
  BY <1>1, <1>2, <1>6 DEF Workflow, Age, FlagExpires, ChatExpires
<1>7. ~ \E long \in BOOLEAN : Restart(long)
  BY DEF Serial, Restart, Workflow, TypeOK
<1>8. CASE UNCHANGED vars
  BY <1>1, <1>2, <1>8 DEF Workflow, vars
<1> QED
  BY <1>1, <1>3, <1>4, <1>5, <1>6, <1>7, <1>8 DEF Next, Workflow

LEMMA WorkflowInit == Init => Workflow
<1>1. ASSUME Init
      PROVE  Numbered /\ OneJob
  BY <1>1 DEF Init, Numbered, OneJob, Idle, SearchSteps
<1> QED
  BY <1>1, TypeInit DEF Workflow

-----------------------------------------------------------------------------
(* The lists, the flags and the worker's plan.                             *)

\* The round trips that end in LeaveQueue.
CleanKinds == {"waitingFilter", "lrem", "delWaiting", "leave"}

Owes(kinds, u) ==
    \E n \in 1..Len(plan) : plan[n].kind \in kinds /\ plan[n].entry.user = u
InList(e)   == \E k \in 1..Len(queue[e.filter]) : queue[e.filter][k] = e
Busy(u)     == Queued(u) \/ Owes(CleanKinds, u)
FlagHeld(u) == inQueue[u] \/ \E h \in Handlers : At(h, "mark") /\ job[h].user = u

\* The order in which a decision's round trips are made.
PlanShape(p) ==
    \A m, n \in 1..Len(p) :
      /\ p[m].kind = "lrem" /\ p[n].kind = "lrem" /\ p[m].entry.user = p[n].entry.user
           => m = n
      /\ p[m].kind = "award" /\ p[n].kind = "award" /\ p[m].entry = p[n].entry => m = n
      /\ m < n /\ p[m].kind = "leave" /\ p[n].kind \in CleanKinds
           => p[m].entry.user # p[n].entry.user
      /\ m < n /\ p[m].kind = "delWaiting" /\ p[n].kind = "lrem"
           => p[m].entry.user # p[n].entry.user
      /\ n = m + 1 /\ p[n].kind = "lrem"
           => p[m].kind = "waitingFilter" /\ p[m].entry = p[n].entry

\* What the round trips still owed rely on: the entry to take out is where the
\* waiting key says, and whoever leaves the queue has no entry left.
PlanFits ==
    /\ \A n \in 1..Len(plan) : plan[n].kind = "lrem" => InList(plan[n].entry)
    /\ Doing("lrem") => wfilter = Head(plan).entry.filter
    /\ \A n \in 1..Len(plan) :
         plan[n].kind \in {"delWaiting", "leave"} /\ Queued(plan[n].entry.user)
           => Owes({"lrem"}, plan[n].entry.user)

\* An entry is in the list its filter and its user's waiting key name.
Lists ==
    \A f \in Filters : \A k \in 1..Len(queue[f]) :
        /\ queue[f][k].filter = f
        /\ queue[f][k] \in opened
        /\ waiting[queue[f][k].user] = f

\* Whoever is queued, or being taken out, is kept from joining again.
Flags ==
    /\ \A u \in Users : Busy(u) => FlagHeld(u)
    /\ \A h \in Handlers : job[h].pc \in {"checkChat", "deduct", "charge", "enqueue"}
         => ~Busy(job[h].user)

\* What a tick works on has not left its list.
Collected ==
    /\ phase = "idle" => batch = <<>>
    /\ phase = "scan" => \A k \in 1..Len(batch) : InList(batch[k])
    /\ \A k \in stale \cup fresh : InList(batch[k])

QueueInv == OneEntryPerUser /\ Lists /\ PlanShape(plan) /\ PlanFits /\ Collected
Orderly  == Workflow /\ TickHandlesUserOnce /\ QueueInv /\ Flags

LEMMA PlanAt ==
  ASSUME TypeOK
  PROVE  /\ plan \in Seq(Op) /\ Len(plan) \in Nat
         /\ \A n \in 1..Len(plan) :
              /\ plan[n] \in Op /\ plan[n].entry \in Entry /\ plan[n].kind \in OpKinds
              /\ plan[n].entry.user \in Users /\ plan[n].entry.filter \in Filters
              /\ plan[n].entry.id \in Ids
<1>1. plan \in Seq(Op) /\ Len(plan) \in Nat
  BY LenProperties DEF TypeOK
<1>2. \A n \in 1..Len(plan) : plan[n] \in Op
  BY <1>1, ElementOfSeq
<1> QED
  BY <1>1, <1>2 DEF Op, Entry

LEMMA ListAt ==
  ASSUME TypeOK, NEW f \in Filters
  PROVE  /\ queue[f] \in Seq(Entry) /\ Len(queue[f]) \in Nat
         /\ \A k \in 1..Len(queue[f]) :
              /\ queue[f][k] \in Entry /\ queue[f][k].user \in Users
              /\ queue[f][k].filter \in Filters /\ queue[f][k].id \in Ids
<1>1. queue[f] \in Seq(Entry) /\ Len(queue[f]) \in Nat
  BY LenProperties DEF TypeOK
<1>2. \A k \in 1..Len(queue[f]) : queue[f][k] \in Entry
  BY <1>1, ElementOfSeq
<1> QED
  BY <1>1, <1>2 DEF Entry

LEMMA ListedIsQueued ==
  ASSUME TypeOK, NEW e \in Entry, InList(e)
  PROVE  Queued(e.user)
  BY DEF Entry, InList, Queued

\* A step that leaves the lists and the worker alone keeps what concerns them.
LEMMA QueueUntouched ==
  ASSUME QueueInv, UNCHANGED <<queue, waiting, workerVars>>, opened \subseteq opened'
  PROVE  QueueInv' /\ \A u : Busy(u)' = Busy(u)
<1>1. \A u : Busy(u)' = Busy(u)
  BY DEF Busy, Queued, Owes
<1>2. PlanFits'
  <2>1. /\ \A e : InList(e)' = InList(e)
        /\ \A kinds, u : Owes(kinds, u)' = Owes(kinds, u)
        /\ \A u : Queued(u)' = Queued(u)
        /\ Doing("lrem")' = Doing("lrem")
        /\ plan' = plan /\ wfilter' = wfilter
    BY DEF InList, Owes, Queued, Doing
  <2>2. PlanFits
    BY DEF QueueInv
  <2> QED
    BY <2>1, <2>2 DEF PlanFits
<1>3. Collected'
  BY DEF QueueInv, Collected, InList
<1>4. OneEntryPerUser' /\ Lists' /\ PlanShape(plan)'
  <2>1. OneEntryPerUser' /\ PlanShape(plan)'
    BY DEF QueueInv, OneEntryPerUser, PlanShape
  <2>2. Lists'
    BY DEF QueueInv, Lists
  <2> QED
    BY <2>1, <2>2
<1> QED
  BY <1>1, <1>2, <1>3, <1>4 DEF QueueInv

\* So does one of a goroutine's steps that touch neither the lists nor the flags.
LEMMA JobFlags ==
  ASSUME Orderly, UNCHANGED <<queue, waiting, inQueue, workerVars>>, opened' = opened,
         NEW h \in Handlers, NEW r, job' = [job EXCEPT ![h] = r],
         job[h].pc # "mark",
         r.pc \in {"checkChat", "deduct", "charge", "enqueue"}
           => /\ r.user = job[h].user
              /\ \/ job[h].pc \in {"checkChat", "deduct", "charge", "enqueue"}
                 \/ ~Busy(r.user)
  PROVE  QueueInv' /\ Flags'
<1>1. QueueInv' /\ \A u : Busy(u)' = Busy(u)
  BY QueueUntouched DEF Orderly
<1>2. job'[h] = r /\ \A g \in Handlers : g # h => job'[g] = job[g]
  BY JobAt DEF Orderly, Workflow
<1>3. \A u \in Users : FlagHeld(u) => FlagHeld(u)'
  BY <1>2 DEF FlagHeld, At
<1>4. \A g \in Handlers : job'[g].pc \in {"checkChat", "deduct", "charge", "enqueue"}
         => ~Busy(job'[g].user)
  BY <1>2 DEF Orderly, Flags
<1>5. \A u \in Users : Busy(u)' => FlagHeld(u)'
  BY <1>1, <1>3 DEF Orderly, Flags
<1>6. \A g \in Handlers : job'[g].pc \in {"checkChat", "deduct", "charge", "enqueue"}
         => ~Busy(job[g].user)'
  BY <1>1, <1>4 DEF Busy, Queued, Owes
<1> QED
  BY <1>1, <1>5, <1>6 DEF Flags

\* A goroutine's search and the queue: every step but EnqueueChat and JoinQueue.
LEMMA OrderlyQuietHandler ==
  ASSUME Orderly, Serial, NEW h \in Handlers,
         \/ CheckInQueue(h) \/ CheckActiveChat(h) \/ DeductRead(h) \/ DeductSave(h)
         \/ EndChatRead(h) \/ EndChatDelete(h)
  PROVE  QueueInv' /\ Flags'
<1> DEFINE Waits == {"checkChat", "deduct", "charge", "enqueue"}
<1>1. UNCHANGED <<queue, waiting, inQueue, workerVars>> /\ opened' = opened
  BY DEF CheckInQueue, CheckActiveChat, DeductRead, DeductSave, EndChatRead, EndChatDelete
<1>2. job[h].pc # "mark"
  BY DEF CheckInQueue, CheckActiveChat, DeductRead, DeductSave, EndChatRead,
     EndChatDelete, At
<1>3. TypeOK
  BY DEF Orderly, Workflow
<1>4. ASSUME NEW r, job' = [job EXCEPT ![h] = r],
             r.pc \in Waits => /\ r.user = job[h].user
                               /\ job[h].pc \in Waits \/ ~Busy(r.user)
      PROVE  QueueInv' /\ Flags'
  BY <1>1, <1>2, <1>4, JobFlags
<1>5. ASSUME Return(h)
      PROVE  QueueInv' /\ Flags'
  BY <1>4, <1>5 DEF Return, Idle
<1>6. CASE CheckInQueue(h) /\ ~Return(h)
  <2>1. job[h] \in SearchJob
    BY <1>3, <1>6, SearchingJob DEF CheckInQueue, At, SearchSteps
  <2> DEFINE r == [job[h] EXCEPT !.pc = "checkChat"]
  <2>2. job' = [job EXCEPT ![h] = r]
    BY <1>6 DEF CheckInQueue, Goto
  <2>3. r.user = job[h].user
    BY <2>1 DEF SearchJob
  <2>4. ~FlagHeld(job[h].user)
    <3>1. ~inQueue[job[h].user] /\ job[h].pc = "checkQueue"
      BY <1>6 DEF CheckInQueue, At
    <3>2. \A g \in Handlers : job[g].user = job[h].user => g = h
      BY <2>1, MatchingAssumption DEF Orderly, Workflow, OneJob, SearchJob
    <3> QED
      BY <3>1, <3>2 DEF FlagHeld, At
  <2>5. ~Busy(job[h].user)
    BY <2>1, <2>4 DEF Orderly, Flags, SearchJob
  <2> HIDE DEF r
  <2> QED
    BY <1>4, <2>2, <2>3, <2>5
<1>7. CASE CheckActiveChat(h) /\ ~Return(h)
  <2>1. job[h] \in SearchJob
    BY <1>3, <1>7, SearchingJob DEF CheckActiveChat, At, SearchSteps
  <2> DEFINE r == [job[h] EXCEPT !.pc = IF cost(job[h]) > 0 THEN "deduct" ELSE "enqueue"]
  <2>2. job' = [job EXCEPT ![h] = r] /\ job[h].pc \in Waits
    BY <1>7 DEF CheckActiveChat, Goto, At
  <2>3. r.user = job[h].user
    BY <2>1 DEF SearchJob
  <2> HIDE DEF r
  <2> QED
    BY <1>4, <2>2, <2>3
<1>8. CASE DeductRead(h) /\ ~Return(h)
  <2>1. job[h] \in SearchJob
    BY <1>3, <1>8, SearchingJob DEF DeductRead, At, SearchSteps
  <2> DEFINE r == [job[h] EXCEPT !.pc = "charge", !.snap = coins[job[h].user]]
  <2>2. job' = [job EXCEPT ![h] = r] /\ job[h].pc \in Waits
    BY <1>8 DEF DeductRead, At
  <2>3. r.user = job[h].user
    BY <2>1 DEF SearchJob
  <2> HIDE DEF r
  <2> QED
    BY <1>4, <2>2, <2>3
<1>9. CASE DeductSave(h) /\ ~Return(h)
  <2>1. job[h] \in SearchJob
    BY <1>3, <1>9, SearchingJob DEF DeductSave, At, SearchSteps
  <2> DEFINE r == [job[h] EXCEPT !.pc = "enqueue"]
  <2>2. job' = [job EXCEPT ![h] = r] /\ job[h].pc \in Waits
    BY <1>9 DEF DeductSave, At, Goto
  <2>3. r.user = job[h].user
    BY <2>1 DEF SearchJob
  <2> HIDE DEF r
  <2> QED
    BY <1>4, <2>2, <2>3
<1>10. CASE EndChatRead(h)
  <2>1. job[h] \in EndJob
    BY <1>3, <1>10, EndingJob DEF EndChatRead, At, EndSteps
  <2> DEFINE r == [job[h] EXCEPT !.pc = "endDelete", !.chat = active[job[h].user]]
  <2>2. job' = [job EXCEPT ![h] = r]
    BY <1>10 DEF EndChatRead, Serial
  <2>3. r.pc = "endDelete"
    BY <2>1 DEF EndJob
  <2> HIDE DEF r
  <2> QED
    BY <1>4, <2>2, <2>3
<1>11. CASE EndChatDelete(h)
  BY <1>5, <1>11 DEF EndChatDelete
<1> QED
  BY <1>5, <1>6, <1>7, <1>8, <1>9, <1>10, <1>11

LEMMA OrderlyJoin ==
  ASSUME Orderly, Serial, NEW h \in Handlers, JoinQueue(h)
  PROVE  QueueInv' /\ Flags'
<1>1. /\ job' = [job EXCEPT ![h] = Idle] /\ job[h].pc = "mark"
      /\ inQueue' = [inQueue EXCEPT ![job[h].user] = TRUE]
      /\ UNCHANGED <<queue, waiting, workerVars, opened>>
  BY DEF JoinQueue, Return, At, Serial
<1>2. QueueInv' /\ \A u : Busy(u)' = Busy(u)
  BY <1>1, QueueUntouched DEF Orderly
<1>3. job'[h] = Idle /\ \A g \in Handlers : g # h => job'[g] = job[g]
  BY <1>1, JobAt DEF Orderly, Workflow
<1>4. \A u \in Users : FlagHeld(u) => FlagHeld(u)'
  BY <1>1, <1>3 DEF FlagHeld, At, Orderly, Workflow, TypeOK
<1>5. \A u \in Users : Busy(u)' => FlagHeld(u)'
  BY <1>2, <1>4 DEF Orderly, Flags
<1>6. \A g \in Handlers : job'[g].pc \in {"checkChat", "deduct", "charge", "enqueue"}
         => job'[g] = job[g] /\ ~Busy(job[g].user)
  BY <1>3 DEF Orderly, Flags, Idle
<1>7. \A g \in Handlers : job'[g].pc \in {"checkChat", "deduct", "charge", "enqueue"}
         => ~Busy(job[g].user)'
  BY <1>1, <1>6 DEF Busy, Queued, Owes
<1> QED
  BY <1>2, <1>5, <1>7 DEF Flags

\* A new entry is its user's only one, and the worker owes that user nothing but
\* a refund.
LEMMA OrderlyEnqueue ==
  ASSUME Orderly, Serial, NEW h \in Handlers, EnqueueChat(h)
  PROVE  QueueInv' /\ Flags'
<1> DEFINE e == entryOf(job[h])
           f0 == e.filter
<1> USE DEF Orderly, QueueInv
<1>1. TypeOK /\ TypeOK' /\ job[h] \in SearchJob
  BY SearchingJob, TypeStep DEF Workflow, EnqueueChat, At, SearchSteps, Next, HandlerStep
<1>2. /\ e \in Entry /\ e.user = job[h].user /\ f0 = job[h].filter
      /\ e.user \in Users /\ f0 \in Filters
  BY <1>1, EntryOfType DEF entryOf, SearchJob
<1>3. /\ job[h].pc = "enqueue"
      /\ queue' = [queue EXCEPT ![f0] = Append(queue[f0], e)]
      /\ waiting' = [waiting EXCEPT ![e.user] = f0]
      /\ opened' = opened \cup {e}
      /\ Goto(h, "mark")
      /\ UNCHANGED <<inQueue, workerVars>>
  BY DEF EnqueueChat, At
<1>4. ~Busy(e.user)
  BY <1>2, <1>3 DEF Flags
<1> HIDE DEF e, f0
<1>5. f0 = e.filter
  BY DEF f0
<1>6. /\ Len(queue'[f0]) = Len(queue[f0]) + 1
      /\ \A k \in 1..Len(queue[f0]) : queue'[f0][k] = queue[f0][k]
      /\ queue'[f0][Len(queue[f0]) + 1] = e
      /\ \A f \in Filters : f # f0 => queue'[f] = queue[f]
  BY <1>1, <1>2, <1>3, AppendProperties DEF TypeOK
<1>7. /\ Len(queue[f0]) \in Nat
      /\ \A f \in Filters : Len(queue[f]) \in Nat
  BY <1>1, <1>2, ListAt
\* A position of the new lists is an old one or the new entry's.
<1>8. \A f \in Filters : \A k \in 1..Len(queue'[f]) :
         \/ k \in 1..Len(queue[f]) /\ queue'[f][k] = queue[f][k]
         \/ f = f0 /\ k = Len(queue[f0]) + 1 /\ queue'[f][k] = e
  BY <1>6, <1>7
<1>9. \A f \in Filters : \A k \in 1..Len(queue[f]) :
         k \in 1..Len(queue'[f]) /\ queue'[f][k] = queue[f][k]
  BY <1>6, <1>7
<1>10. \A f \in Filters : \A k \in 1..Len(queue[f]) : queue[f][k].user # e.user
  BY <1>4 DEF Busy, Queued
<1>11. OneEntryPerUser'
  <2> SUFFICES ASSUME NEW f \in Filters, NEW g \in Filters,
                      NEW k \in 1..Len(queue'[f]), NEW m \in 1..Len(queue'[g]),
                      queue'[f][k].user = queue'[g][m].user
               PROVE  f = g /\ k = m
    BY DEF OneEntryPerUser
  <2>1. CASE k \in 1..Len(queue[f]) /\ queue'[f][k] = queue[f][k]
    <3>1. m \in 1..Len(queue[g]) /\ queue'[g][m] = queue[g][m]
      BY <1>8, <1>10, <2>1
    <3> QED
      BY <2>1, <3>1 DEF OneEntryPerUser
  <2>2. CASE f = f0 /\ k = Len(queue[f0]) + 1 /\ queue'[f][k] = e
    <3>1. ~ (m \in 1..Len(queue[g]) /\ queue'[g][m] = queue[g][m])
      BY <1>10, <2>2
    <3> QED
      BY <1>8, <2>2, <3>1
  <2> QED
    BY <1>8, <2>1, <2>2
<1>12. Lists'
  <2> SUFFICES ASSUME NEW f \in Filters, NEW k \in 1..Len(queue'[f])
               PROVE  /\ queue'[f][k].filter = f /\ queue'[f][k] \in opened'
                      /\ waiting'[queue'[f][k].user] = f
    BY DEF Lists
  <2>1. CASE k \in 1..Len(queue[f]) /\ queue'[f][k] = queue[f][k]
    <3>1. queue[f][k].user \in Users /\ queue[f][k].user # e.user
      BY <1>1, <1>10, <2>1, ListAt
    <3> QED
      BY <1>1, <1>3, <2>1, <3>1 DEF Lists, TypeOK
  <2>2. CASE f = f0 /\ k = Len(queue[f0]) + 1 /\ queue'[f][k] = e
    BY <1>1, <1>2, <1>3, <1>5, <2>2 DEF TypeOK
  <2> QED
    BY <1>8, <2>1, <2>2
<1>13. \A d \in Entry : InList(d) => InList(d)'
  BY <1>9 DEF InList, Entry
<1>14. \A u : Queued(u)' => Queued(u) \/ u = e.user
  BY <1>8 DEF Queued
<1>15. \A n \in 1..Len(plan) : plan[n].kind \in CleanKinds => plan[n].entry.user # e.user
  BY <1>4 DEF Busy, Owes
<1>16. PlanFits'
  <2>1. \A n \in 1..Len(plan) : plan[n].kind = "lrem" => InList(plan[n].entry)'
    BY <1>1, <1>3, <1>13, PlanAt DEF PlanFits, InList
  <2>2. \A n \in 1..Len(plan) : plan[n].kind \in {"delWaiting", "leave"}
           /\ Queued(plan[n].entry.user)' => Queued(plan[n].entry.user)
    BY <1>3, <1>14, <1>15 DEF CleanKinds, Queued
  <2>3. \A n \in 1..Len(plan) : plan[n].kind \in {"delWaiting", "leave"}
           /\ Queued(plan[n].entry.user)' => Owes({"lrem"}, plan[n].entry.user)
    BY <2>2 DEF PlanFits
  <2> QED
    BY <1>3, <2>1, <2>3 DEF PlanFits, Doing, Owes
<1>17. Collected'
  BY <1>1, <1>3, <1>13, BatchEntry DEF Collected, TypeOK
<1>18. QueueInv'
  BY <1>3, <1>11, <1>12, <1>16, <1>17 DEF PlanShape
<1>19. /\ job'[h].pc = "mark" /\ job'[h].user = e.user
       /\ \A g \in Handlers : g # h => job'[g] = job[g]
  BY <1>1, <1>2, <1>3 DEF Goto, SearchJob, TypeOK
<1>20. \A u : Busy(u)' => Busy(u) \/ u = e.user
  BY <1>3, <1>14 DEF Busy, Owes
<1>21. \A u \in Users : FlagHeld(u) \/ u = e.user => FlagHeld(u)'
  BY <1>3, <1>19 DEF FlagHeld, At
<1>22. \A g \in Handlers : g # h => job[g].user # e.user
  BY <1>2, MatchingAssumption DEF Workflow, OneJob
<1>23. \A u \in Users : Busy(u)' => FlagHeld(u)'
  BY <1>20, <1>21 DEF Flags
<1>24. \A g \in Handlers : job'[g].pc \in {"checkChat", "deduct", "charge", "enqueue"}
         => job'[g] = job[g] /\ ~Busy(job[g].user) /\ job[g].user # e.user
  BY <1>19, <1>22 DEF Flags
<1>25. \A g \in Handlers : job'[g].pc \in {"checkChat", "deduct", "charge", "enqueue"}
         => ~Busy(job[g].user)'
  <2> SUFFICES ASSUME NEW g \in Handlers,
                      job'[g].pc \in {"checkChat", "deduct", "charge", "enqueue"}
               PROVE  ~Busy(job[g].user)'
    OBVIOUS
  <2>1. PICK u : u = job[g].user
    OBVIOUS
  <2>2. job'[g].user = u /\ ~Busy(u)'
    BY <1>20, <1>24, <2>1
  <2> QED
    BY <2>2 DEF Busy, Queued, Owes
<1> QED
  BY <1>18, <1>23, <1>25 DEF Flags

\* Steps that change neither the lists, nor the flags, nor the worker.
LEMMA OrderlyOutside ==
  ASSUME Orderly, Serial,
         \/ UserStep
         \/ \E i \in Ids : Age(i)
         \/ \E u \in Users : ChatExpires(u)
         \/ UNCHANGED vars
  PROVE  QueueInv' /\ Flags'
<1>1. CASE UNCHANGED <<queue, waiting, inQueue, workerVars, opened, job>>
  <2>1. QueueInv'
    BY <1>1, QueueUntouched DEF Orderly
  <2> QED
    BY <1>1, <2>1 DEF Orderly, Flags, Busy, Queued, Owes, FlagHeld, At
<1>2. ASSUME NEW h \in Handlers, NEW u \in Users, StartEndChat(h, u)
      PROVE  QueueInv' /\ Flags'
  <2> DEFINE r == [Idle EXCEPT !.pc = "endRead", !.user = u]
  <2>1. /\ job' = [job EXCEPT ![h] = r] /\ job[h].pc = "idle"
        /\ UNCHANGED <<queue, waiting, inQueue, workerVars, opened>>
    BY <1>2 DEF StartEndChat, MayStart
  <2>2. r.pc = "endRead"
    BY DEF Idle
  <2> HIDE DEF r
  <2> QED
    BY <2>1, <2>2, JobFlags
<1>3. ASSUME NEW h \in Handlers, NEW u \in Users, NEW f \in Filters, StartSearch(h, u, f)
      PROVE  QueueInv' /\ Flags'
  <2> DEFINE r == [pc |-> "checkQueue", user |-> u, filter |-> f, id |-> searches + 1,
                   snap |-> 0, chat |-> None]
  <2>1. /\ job' = [job EXCEPT ![h] = r] /\ job[h].pc = "idle"
        /\ UNCHANGED <<queue, waiting, inQueue, workerVars, opened>>
    BY <1>3 DEF StartSearch, MayStart
  <2>2. r.pc = "checkQueue"
    OBVIOUS
  <2> HIDE DEF r
  <2> QED
    BY <2>1, <2>2, JobFlags
<1>4. ASSUME NEW r \in Users, NEW t \in Users, AcceptChat(r, t)
      PROVE  QueueInv' /\ Flags'
  BY <1>1, <1>4 DEF AcceptChat
<1>5. CASE UserStep
  BY <1>2, <1>3, <1>4, <1>5 DEF UserStep
<1>6. CASE \/ \E i \in Ids : Age(i)
           \/ \E u \in Users : ChatExpires(u)
           \/ UNCHANGED vars
  BY <1>1, <1>6 DEF Age, ChatExpires, vars
<1> QED
  BY <1>5, <1>6

\* The flag that times out is that of a user who is in no list.
LEMMA OrderlyFlagExpires ==
  ASSUME Orderly, NEW u \in Users, FlagExpires(u)
  PROVE  QueueInv' /\ Flags'
<1>1. /\ ~Queued(u) /\ \A n \in 1..Len(plan) : plan[n].entry.user # u
      /\ inQueue' = [inQueue EXCEPT ![u] = FALSE]
      /\ UNCHANGED <<queue, waiting, workerVars, opened, job>>
  BY DEF FlagExpires
<1>2. QueueInv' /\ \A v : Busy(v)' = Busy(v)
  BY <1>1, QueueUntouched DEF Orderly
<1>3. ~Busy(u)
  BY <1>1 DEF Busy, Owes
<1>4. \A v \in Users : v # u /\ FlagHeld(v) => FlagHeld(v)'
  BY <1>1 DEF FlagHeld, At, Orderly, Workflow, TypeOK
<1>5. \A v \in Users : Busy(v)' => FlagHeld(v)'
  BY <1>2, <1>3, <1>4 DEF Orderly, Flags
<1>6. \A g \in Handlers : job'[g].pc \in {"checkChat", "deduct", "charge", "enqueue"}
         => ~Busy(job[g].user)'
  BY <1>1 DEF Orderly, Flags, Busy, Queued, Owes
<1> QED
  BY <1>2, <1>5, <1>6 DEF Flags

-----------------------------------------------------------------------------
(* The worker's tick.                                                      *)

RoundTrip(k, e) == [kind |-> k, entry |-> e]
expiryPlan(e)   == removeFromQueue(e) \o leaveQueue(e) \o refund(e)
matchPlan(d, e) ==
    removeFromQueue(d) \o removeFromQueue(e) \o leaveQueue(d) \o leaveQueue(e)

\* The plan of an expiry, round trip by round trip.
LEMMA ExpiryPlan ==
  ASSUME NEW e, NEW p, p = expiryPlan(e)
  PROVE  /\ Len(p) = IF cost(e) > 0 THEN 6 ELSE 4
         /\ p[1] = RoundTrip("waitingFilter", e)
         /\ p[2] = RoundTrip("lrem", e)
         /\ p[3] = RoundTrip("delWaiting", e)
         /\ p[4] = RoundTrip("leave", e)
         /\ cost(e) > 0 => /\ p[5] = RoundTrip("read", e)
                           /\ p[6] = RoundTrip("award", e)
<1>1. /\ removeFromQueue(e) = <<RoundTrip("waitingFilter", e), RoundTrip("lrem", e),
                                RoundTrip("delWaiting", e)>>
      /\ leaveQueue(e) = <<RoundTrip("leave", e)>>
  BY DEF removeFromQueue, leaveQueue, ops, RoundTrip
<1>2. CASE cost(e) > 0
  <2>1. refund(e) = <<RoundTrip("read", e), RoundTrip("award", e)>>
    BY <1>2 DEF refund, ops, RoundTrip
  <2> QED
    BY <1>1, <1>2, <2>1 DEF expiryPlan
<1>3. CASE ~(cost(e) > 0)
  <2>1. refund(e) = <<>>
    BY <1>3 DEF refund
  <2> QED
    BY <1>1, <1>3, <2>1 DEF expiryPlan
<1> QED
  BY <1>2, <1>3

\* The plan of a match.
LEMMA MatchPlan ==
  ASSUME NEW d, NEW e, NEW p, p = matchPlan(d, e)
  PROVE  /\ Len(p) = 8
         /\ p[1] = RoundTrip("waitingFilter", d)
         /\ p[2] = RoundTrip("lrem", d)
         /\ p[3] = RoundTrip("delWaiting", d)
         /\ p[4] = RoundTrip("waitingFilter", e)
         /\ p[5] = RoundTrip("lrem", e)
         /\ p[6] = RoundTrip("delWaiting", e)
         /\ p[7] = RoundTrip("leave", d)
         /\ p[8] = RoundTrip("leave", e)
<1>1. /\ removeFromQueue(d) = <<RoundTrip("waitingFilter", d), RoundTrip("lrem", d),
                                RoundTrip("delWaiting", d)>>
      /\ leaveQueue(d) = <<RoundTrip("leave", d)>>
      /\ removeFromQueue(e) = <<RoundTrip("waitingFilter", e), RoundTrip("lrem", e),
                                RoundTrip("delWaiting", e)>>
      /\ leaveQueue(e) = <<RoundTrip("leave", e)>>
  BY DEF removeFromQueue, leaveQueue, ops, RoundTrip
<1> QED
  BY <1>1 DEF matchPlan

\* A decision's plan, as a plan about entries still in their lists.
LEMMA FreshPlan ==
  ASSUME QueueInv, TypeOK, NEW E \in SUBSET Entry, \A e \in E : InList(e),
         plan' \in Seq(Op), PlanShape(plan'),
         Len(plan') > 0, plan'[1].kind = "waitingFilter",
         \A n \in 1..Len(plan') :
            /\ plan'[n].entry \in E
            /\ plan'[n].kind \in {"delWaiting", "leave"} =>
                 \E m \in 1..Len(plan') :
                    plan'[m].kind = "lrem" /\ plan'[m].entry.user = plan'[n].entry.user,
         UNCHANGED <<queue, waiting, inQueue, job, batch>>, opened' = opened,
         phase' \notin {"idle", "scan"},
         stale' \cup fresh' \subseteq stale \cup fresh,
         Flags
  PROVE  QueueInv' /\ Flags'
<1>1. \A e \in Entry : InList(e)' = InList(e)
  BY DEF InList
<1>2. \A u : Queued(u)' = Queued(u)
  BY DEF Queued
<1>3. \A n \in 1..Len(plan') : plan'[n].entry \in Entry /\ InList(plan[n].entry)'
  BY DEF InList
<1>4. \A n \in 1..Len(plan') :
        plan'[n].kind \in {"delWaiting", "leave"} => Owes({"lrem"}, plan[n].entry.user)'
  BY DEF Owes
<1>5. ~(Doing("lrem")')
  BY HeadTailProperties, EmptySeq DEF Doing
<1>6. PlanFits'
  BY <1>3, <1>4, <1>5 DEF PlanFits
<1>7. Collected'
  BY DEF QueueInv, Collected, InList
<1>8. OneEntryPerUser' /\ Lists'
  <2>1. OneEntryPerUser'
    BY DEF QueueInv, OneEntryPerUser
  <2>2. Lists'
    BY DEF QueueInv, Lists
  <2> QED
    BY <2>1, <2>2
<1>9. QueueInv'
  BY <1>6, <1>7, <1>8 DEF QueueInv, PlanShape
<1>10. \A u : Busy(u)' => Busy(u)
  <2> SUFFICES ASSUME NEW u, Busy(u)'
               PROVE  Busy(u)
    OBVIOUS
  <2>1. CASE Queued(u)'
    BY <2>1 DEF Busy, Queued
  <2>2. CASE Owes(CleanKinds, u)'
    <3>1. PICK n \in 1..Len(plan') : plan'[n].entry.user = u
      BY <2>2 DEF Owes
    <3>2. Queued(u)
      BY <3>1, ListedIsQueued
    <3> QED
      BY <3>2 DEF Busy
  <2> QED
    BY <2>1, <2>2 DEF Busy
<1>11. \A u \in Users : FlagHeld(u)' = FlagHeld(u)
  BY DEF FlagHeld, At
<1>12. \A g \in Handlers : job'[g].pc \in {"checkChat", "deduct", "charge", "enqueue"}
         => ~Busy(job[g].user)'
  <2> SUFFICES ASSUME NEW g \in Handlers,
                      job'[g].pc \in {"checkChat", "deduct", "charge", "enqueue"}
               PROVE  ~Busy(job[g].user)'
    OBVIOUS
  <2>1. PICK u : u = job[g].user
    OBVIOUS
  <2>2. job'[g].user = u /\ ~Busy(u)'
    BY <1>10, <2>1 DEF Flags
  <2> QED
    BY <2>2 DEF Busy, Queued, Owes
<1> QED
  BY <1>9, <1>10, <1>11, <1>12 DEF Flags

\* Starting a tick, reading a list, splitting the batch and ending the tick.
LEMMA OrderlyCollecting ==
  ASSUME Orderly, Serial,
         \/ Tick \/ SplitBatch \/ ExpiryDone \/ TickDone
         \/ \E f \in Filters : ReadList(f)
  PROVE  QueueInv' /\ Flags'
<1> USE DEF Orderly, QueueInv
<1>1. UNCHANGED <<queue, waiting, inQueue, job, opened, plan, wfilter>>
  BY DEF Tick, SplitBatch, ExpiryDone, TickDone, ReadList
<1>2. /\ OneEntryPerUser' /\ Lists' /\ PlanShape(plan)'
      /\ PlanFits' /\ Flags'
  <2>1. OneEntryPerUser' /\ PlanShape(plan)'
    BY <1>1 DEF OneEntryPerUser, PlanShape
  <2>2. Lists'
    BY <1>1 DEF Lists
  <2>3. PlanFits'
    BY <1>1 DEF PlanFits, Owes, InList, Queued, Doing
  <2>4. Flags'
    BY <1>1 DEF Flags, Busy, Queued, Owes, FlagHeld, At
  <2> QED
    BY <2>1, <2>2, <2>3, <2>4
<1>3. TypeOK
  BY DEF Workflow
<1>4. Collected'
  <2>1. CASE Tick
    BY <1>1, <1>3, <2>1, EmptySeq DEF Tick, Collected, InList, TypeOK
  <2>2. ASSUME NEW f \in Filters, ReadList(f)
        PROVE  Collected'
    <3>1. /\ phase = "scan" /\ phase' = "scan" /\ batch' = batch \o queue[f]
          /\ stale' = stale /\ fresh' = fresh
      BY <2>2 DEF ReadList, Serial
    <3>2. stale' = {} /\ fresh' = {}
      BY <1>3, <3>1 DEF TypeOK
    <3>3. batch \in Seq(Entry) /\ Len(batch) \in Nat
      BY <1>3, LenProperties DEF TypeOK
    <3>4. queue[f] \in Seq(Entry) /\ Len(queue[f]) \in Nat
      BY <1>3, ListAt
    <3>5. /\ Len(batch') = Len(batch) + Len(queue[f])
          /\ \A k \in 1..Len(batch) + Len(queue[f]) :
               batch'[k] = IF k <= Len(batch) THEN batch[k] ELSE queue[f][k - Len(batch)]
      BY <3>1, <3>3, <3>4, ConcatProperties
    <3>6. \A k \in 1..Len(queue[f]) : InList(queue[f][k])
      BY DEF Lists, InList
    <3>7. ASSUME NEW k \in 1..Len(batch')
          PROVE  InList(batch'[k])
      <4>1. CASE k <= Len(batch)
        BY <3>1, <3>3, <3>4, <3>5, <4>1 DEF Collected
      <4>2. CASE ~(k <= Len(batch))
        <5>1. k - Len(batch) \in 1..Len(queue[f])
          BY <3>3, <3>4, <3>5, <4>2
        <5> QED
          BY <3>3, <3>4, <3>5, <3>6, <4>2, <5>1
      <4> QED
        BY <4>1, <4>2
    <3> QED
      BY <1>1, <3>1, <3>2, <3>7 DEF Collected, InList
  <2>3. CASE SplitBatch
    <3>1. /\ phase = "scan" /\ phase' = "expire" /\ batch' = batch
          /\ stale' \cup fresh' \subseteq 1..Len(batch)
      BY <2>3 DEF SplitBatch, FirstEntries
    <3> QED
      BY <1>1, <3>1 DEF Collected, InList
  <2>4. CASE ExpiryDone
    BY <1>1, <2>4 DEF ExpiryDone, Collected, InList
  <2>5. CASE TickDone
    BY <1>1, <1>3, <2>5 DEF TickDone, Collected, InList, TypeOK
  <2> QED
    BY <2>1, <2>2, <2>3, <2>4, <2>5
<1> QED
  BY <1>2, <1>4

\* An expiry and a match decide about entries that are still in their lists.
LEMMA OrderlyExpire ==
  ASSUME Orderly, NEW k \in stale, ExpireEntry(k)
  PROVE  QueueInv' /\ Flags'
<1> DEFINE e == batch[k]
<1>1. TypeOK /\ QueueInv /\ Flags
  BY DEF Orderly, Workflow
<1>2. e \in Entry /\ InList(e)
  BY <1>1, BatchEntry DEF TypeOK, QueueInv, Collected
<1>3. /\ plan' = removeFromQueue(e) \o leaveQueue(e) \o refund(e)
      /\ UNCHANGED <<queue, waiting, inQueue, job, batch, phase, fresh, opened>>
      /\ stale' = stale \ {k} /\ phase = "expire"
  BY DEF ExpireEntry
<1>4. plan' \in Seq(Op)
  BY <1>2, <1>3, PlanAbout, ConcatProperties
<1> HIDE DEF e
<1>6. /\ Len(plan') \in {4, 6}
      /\ plan'[1].kind = "waitingFilter" /\ plan'[1].entry = e
      /\ plan'[2].kind = "lrem" /\ plan'[2].entry = e
      /\ plan'[3].kind = "delWaiting" /\ plan'[3].entry = e
      /\ plan'[4].kind = "leave" /\ plan'[4].entry = e
      /\ Len(plan') = 6 => /\ plan'[5].kind = "read" /\ plan'[5].entry = e
                           /\ plan'[6].kind = "award" /\ plan'[6].entry = e
  <2>1. /\ Len(plan') = IF cost(e) > 0 THEN 6 ELSE 4
        /\ plan'[1] = RoundTrip("waitingFilter", e)
        /\ plan'[2] = RoundTrip("lrem", e)
        /\ plan'[3] = RoundTrip("delWaiting", e)
        /\ plan'[4] = RoundTrip("leave", e)
        /\ cost(e) > 0 => /\ plan'[5] = RoundTrip("read", e)
                          /\ plan'[6] = RoundTrip("award", e)
    <3>1. plan' = expiryPlan(e)
      BY <1>3 DEF expiryPlan
    <3> QED
      BY <3>1, ExpiryPlan
  <2> QED
    BY <2>1 DEF RoundTrip
<1>7. \A n \in 1..Len(plan') : n \in 1..6 /\ (n > 4 => Len(plan') = 6)
  <2>1. Len(plan') = 4 \/ Len(plan') = 6
    BY <1>6
  <2> SUFFICES ASSUME NEW n \in 1..Len(plan')
               PROVE  n \in 1..6 /\ (n > 4 => Len(plan') = 6)
    OBVIOUS
  <2>2. CASE Len(plan') = 4
    BY <2>2
  <2>3. CASE Len(plan') = 6
    BY <2>3
  <2> QED
    BY <2>1, <2>2, <2>3
<1>8. \A n \in 1..Len(plan') : plan'[n].entry = e
  BY <1>6, <1>7
<1>9. \A n \in 1..Len(plan') :
         /\ plan'[n].kind = "waitingFilter" <=> n = 1
         /\ plan'[n].kind = "lrem" <=> n = 2
         /\ plan'[n].kind = "delWaiting" <=> n = 3
         /\ plan'[n].kind = "leave" <=> n = 4
         /\ plan'[n].kind = "award" <=> n = 6
  <2> SUFFICES ASSUME NEW n \in 1..Len(plan')
               PROVE  /\ plan'[n].kind = "waitingFilter" <=> n = 1
                      /\ plan'[n].kind = "lrem" <=> n = 2
                      /\ plan'[n].kind = "delWaiting" <=> n = 3
                      /\ plan'[n].kind = "leave" <=> n = 4
                      /\ plan'[n].kind = "award" <=> n = 6
    OBVIOUS
  <2>1. n = 1 \/ n = 2 \/ n = 3 \/ n = 4 \/ n = 5 \/ n = 6
    BY <1>7
  <2> QED
    BY <1>6, <1>7, <2>1
<1>10. PlanShape(plan')
  BY <1>8, <1>9 DEF PlanShape, CleanKinds
<1>11. 2 \in 1..Len(plan') /\ Len(plan') > 0 /\ 1 \in 1..Len(plan')
  BY <1>6
<1>12. \A n \in 1..Len(plan') : \E m \in 1..Len(plan') :
          plan'[m].kind = "lrem" /\ plan'[m].entry.user = plan'[n].entry.user
  BY <1>8, <1>9, <1>11
<1> DEFINE E == {e}
<1>13. E \in SUBSET Entry /\ \A d \in E : InList(d)
  BY <1>2
<1>14. \A n \in 1..Len(plan') : plan'[n].entry \in E
  BY <1>8
<1> HIDE DEF E
<1>15. plan' \in Seq(Op) /\ Len(plan') > 0 /\ plan'[1].kind = "waitingFilter"
  BY <1>4, <1>9, <1>11
<1>16. /\ UNCHANGED <<queue, waiting, inQueue, job, batch>> /\ opened' = opened
       /\ phase' \notin {"idle", "scan"} /\ stale' \cup fresh' \subseteq stale \cup fresh
       /\ Flags /\ QueueInv /\ TypeOK
  BY <1>1, <1>3
<1> QED
  BY <1>10, <1>12, <1>13, <1>14, <1>15, <1>16, FreshPlan

LEMMA OrderlyMatch ==
  ASSUME Orderly, NEW i \in fresh, NEW j \in fresh, CreateMatch(i, j)
  PROVE  QueueInv' /\ Flags'
<1> DEFINE d == batch[i]
           e == batch[j]
<1>1. TypeOK /\ QueueInv /\ Flags
  BY DEF Orderly, Workflow
<1>2. /\ d \in Entry /\ InList(d) /\ e \in Entry /\ InList(e)
  BY <1>1, BatchEntry DEF TypeOK, QueueInv, Collected
<1>3. d.user # e.user
  BY DEF CreateMatch, NextPair, Partners, isCompatible
<1>4. /\ plan' = removeFromQueue(d) \o removeFromQueue(e) \o leaveQueue(d) \o leaveQueue(e)
      /\ UNCHANGED <<queue, waiting, inQueue, job, batch, phase, stale, opened>>
      /\ fresh' = fresh \ {i, j} /\ phase = "match"
  BY DEF CreateMatch
<1>5. plan' \in Seq(Op)
  <2>1. removeFromQueue(d) \o removeFromQueue(e) \in Seq(Op)
    BY <1>2, PlanAbout, ConcatProperties
  <2>2. removeFromQueue(d) \o removeFromQueue(e) \o leaveQueue(d) \in Seq(Op)
    BY <1>2, <2>1, PlanAbout, ConcatProperties
  <2> QED
    BY <1>2, <1>4, <2>2, PlanAbout, ConcatProperties
<1> HIDE DEF d, e
<1>7. /\ Len(plan') = 8
      /\ plan'[1].kind = "waitingFilter" /\ plan'[1].entry = d
      /\ plan'[2].kind = "lrem"          /\ plan'[2].entry = d
      /\ plan'[3].kind = "delWaiting"    /\ plan'[3].entry = d
      /\ plan'[4].kind = "waitingFilter" /\ plan'[4].entry = e
      /\ plan'[5].kind = "lrem"          /\ plan'[5].entry = e
      /\ plan'[6].kind = "delWaiting"    /\ plan'[6].entry = e
      /\ plan'[7].kind = "leave"         /\ plan'[7].entry = d
      /\ plan'[8].kind = "leave"         /\ plan'[8].entry = e
  <2>1. /\ Len(plan') = 8
        /\ plan'[1] = RoundTrip("waitingFilter", d)
        /\ plan'[2] = RoundTrip("lrem", d)
        /\ plan'[3] = RoundTrip("delWaiting", d)
        /\ plan'[4] = RoundTrip("waitingFilter", e)
        /\ plan'[5] = RoundTrip("lrem", e)
        /\ plan'[6] = RoundTrip("delWaiting", e)
        /\ plan'[7] = RoundTrip("leave", d)
        /\ plan'[8] = RoundTrip("leave", e)
    <3>1. plan' = matchPlan(d, e)
      BY <1>4 DEF matchPlan
    <3> QED
      BY <3>1, MatchPlan
  <2> QED
    BY <2>1 DEF RoundTrip
<1>8. \A n \in 1..Len(plan') :
         /\ plan'[n].kind = "waitingFilter" <=> n \in {1, 4}
         /\ plan'[n].kind = "lrem" <=> n \in {2, 5}
         /\ plan'[n].kind = "delWaiting" <=> n \in {3, 6}
         /\ plan'[n].kind = "leave" <=> n \in {7, 8}
         /\ plan'[n].kind # "award"
         /\ plan'[n].entry = IF n \in {1, 2, 3, 7} THEN d ELSE e
  <2> SUFFICES ASSUME NEW n \in 1..Len(plan')
               PROVE  /\ plan'[n].kind = "waitingFilter" <=> n \in {1, 4}
                      /\ plan'[n].kind = "lrem" <=> n \in {2, 5}
                      /\ plan'[n].kind = "delWaiting" <=> n \in {3, 6}
                      /\ plan'[n].kind = "leave" <=> n \in {7, 8}
                      /\ plan'[n].kind # "award"
                      /\ plan'[n].entry = IF n \in {1, 2, 3, 7} THEN d ELSE e
    OBVIOUS
  <2>1. n = 1 \/ n = 2 \/ n = 3 \/ n = 4 \/ n = 5 \/ n = 6 \/ n = 7 \/ n = 8
    BY <1>7
  <2> QED
    BY <1>7, <2>1
<1>9. PlanShape(plan')
  <2> SUFFICES ASSUME NEW m \in 1..Len(plan'), NEW n \in 1..Len(plan')
      PROVE  /\ plan'[m].kind = "lrem" /\ plan'[n].kind = "lrem"
                  /\ plan'[m].entry.user = plan'[n].entry.user => m = n
             /\ plan'[m].kind = "award" /\ plan'[n].kind = "award"
                  /\ plan'[m].entry = plan'[n].entry => m = n
             /\ m < n /\ plan'[m].kind = "leave" /\ plan'[n].kind \in CleanKinds
                  => plan'[m].entry.user # plan'[n].entry.user
             /\ m < n /\ plan'[m].kind = "delWaiting" /\ plan'[n].kind = "lrem"
                  => plan'[m].entry.user # plan'[n].entry.user
             /\ n = m + 1 /\ plan'[n].kind = "lrem"
                  => plan'[m].kind = "waitingFilter" /\ plan'[m].entry = plan'[n].entry
    BY DEF PlanShape
  <2> QED
    BY <1>3, <1>7, <1>8 DEF CleanKinds
<1>10. \A n \in 1..Len(plan') : \E m \in 1..Len(plan') :
          plan'[m].kind = "lrem" /\ plan'[m].entry.user = plan'[n].entry.user
  <2>1. 2 \in 1..Len(plan') /\ 5 \in 1..Len(plan')
    BY <1>7
  <2> QED
    BY <1>7, <1>8, <2>1
<1> DEFINE E == {d, e}
<1>11. E \in SUBSET Entry /\ \A x \in E : InList(x)
  BY <1>2
<1>12. \A n \in 1..Len(plan') : plan'[n].entry \in E
  BY <1>8
<1>13. Len(plan') > 0
  BY <1>7
<1> HIDE DEF E
<1> QED
  BY <1>1, <1>4, <1>5, <1>7, <1>9, <1>10, <1>11, <1>12, <1>13, FreshPlan

-----------------------------------------------------------------------------
(* The worker's round trips.                                               *)

\* A list without the only entry of a user: who is left, and in what order.
LEMMA WithoutOnly ==
  ASSUME NEW q \in Seq(Entry), NEW u, NEW k \in 1..Len(q), q[k].user = u,
         \A m \in 1..Len(q) : q[m].user = u => m = k
  PROVE  /\ WithoutFirst(q, u) \in Seq(Entry)
         /\ Len(WithoutFirst(q, u)) = Len(q) - 1
         /\ \A n \in 1..Len(q) - 1 :
              WithoutFirst(q, u)[n] = IF n < k THEN q[n] ELSE q[n + 1]
<1>1. Len(q) \in Nat
  BY LenProperties
<1>2. IsFirstOf(q, u, k) /\ \A m \in 1..Len(q) : IsFirstOf(q, u, m) => m = k
  BY <1>1 DEF IsFirstOf
<1>3. k = CHOOSE m \in 1..Len(q) : IsFirstOf(q, u, m)
  BY <1>2
<1>4. WithoutFirst(q, u) = RemoveAt(q, k)
  BY <1>3 DEF WithoutFirst
<1>5. \A n \in 1..Len(q) : q[n] \in Entry
  BY ElementOfSeq
<1>6. /\ SubSeq(q, 1, k - 1) \in Seq(Entry) /\ Len(SubSeq(q, 1, k - 1)) = k - 1
      /\ \A n \in 1..k - 1 : SubSeq(q, 1, k - 1)[n] = q[n]
  BY <1>1, <1>5, SubSeqProperties
<1>7. /\ SubSeq(q, k + 1, Len(q)) \in Seq(Entry)
      /\ Len(SubSeq(q, k + 1, Len(q))) = Len(q) - k
      /\ \A n \in 1..Len(q) - k : SubSeq(q, k + 1, Len(q))[n] = q[n + k]
  <2>1. k + 1 \in Int /\ Len(q) \in Int /\ \A n \in k + 1..Len(q) : q[n] \in Entry
    BY <1>1, <1>5
  <2> QED
    BY <1>1, <2>1, SubSeqProperties
<1> DEFINE a == SubSeq(q, 1, k - 1)
           b == SubSeq(q, k + 1, Len(q))
<1>12. /\ a \in Seq(Entry) /\ Len(a) = k - 1
       /\ b \in Seq(Entry) /\ Len(b) = Len(q) - k
  BY <1>6, <1>7
<1> HIDE DEF a, b
<1>8. /\ a \o b \in Seq(Entry) /\ Len(a \o b) = (k - 1) + (Len(q) - k)
      /\ \A n \in 1..(k - 1) + (Len(q) - k) :
            (a \o b)[n] = IF n <= k - 1 THEN a[n] ELSE b[n - (k - 1)]
  <2>1. /\ a \o b \in Seq(Entry) /\ Len(a \o b) = Len(a) + Len(b)
        /\ \A n \in 1..Len(a) + Len(b) :
              (a \o b)[n] = IF n <= Len(a) THEN a[n] ELSE b[n - Len(a)]
    BY <1>12, ConcatProperties
  <2> QED
    BY <1>12, <2>1
<1>9. WithoutFirst(q, u) = a \o b
  BY <1>4 DEF RemoveAt, a, b
<1>10. (k - 1) + (Len(q) - k) = Len(q) - 1
  BY <1>1
<1>11. ASSUME NEW n \in 1..Len(q) - 1
       PROVE  (a \o b)[n] = IF n < k THEN q[n] ELSE q[n + 1]
  <2>1. CASE n < k
    <3>1. n \in 1..k - 1 /\ n <= k - 1
      BY <1>1, <2>1
    <3> QED
      BY <1>6, <1>8, <1>10, <2>1, <3>1 DEF a
  <2>2. CASE ~(n < k)
    <3>1. n - (k - 1) \in 1..Len(q) - k /\ ~(n <= k - 1) /\ (n - (k - 1)) + k = n + 1
      BY <1>1, <2>2
    <3>2. b[n - (k - 1)] = q[n + 1]
      BY <1>7, <3>1 DEF b
    <3> QED
      BY <1>8, <1>10, <2>2, <3>1, <3>2
  <2> QED
    BY <2>1, <2>2
<1> QED
  BY <1>8, <1>9, <1>10, <1>11

\* After the head of the plan is done, what is owed is what was owed before,
\* in the same order.
LEMMA TailOwes ==
  ASSUME TypeOK, plan # <<>>, plan' = Tail(plan)
  PROVE  /\ Len(plan') = Len(plan) - 1 /\ Len(plan) \in Nat \ {0}
         /\ 1 \in 1..Len(plan) /\ Head(plan) = plan[1]
         /\ \A n \in 1..Len(plan') : n + 1 \in 1..Len(plan) /\ plan'[n] = plan[n + 1]
         /\ \A n \in 1..Len(plan) : n # 1 => n - 1 \in 1..Len(plan') /\ plan'[n - 1] = plan[n]
         /\ plan' # <<>> => 1 \in 1..Len(plan') /\ Head(plan') = plan[2] /\ 2 \in 1..Len(plan)
<1>1. plan \in Seq(Op)
  BY DEF TypeOK
<1>2. Len(plan) \in Nat \ {0}
  BY <1>1, EmptySeq, LenProperties
<1>3. /\ plan' \in Seq(Op) /\ Len(plan') = Len(plan) - 1
      /\ \A n \in 1..Len(plan') : plan'[n] = plan[n + 1]
      /\ Head(plan) = plan[1]
  BY <1>1, HeadTailProperties
<1>4. plan' # <<>> => Len(plan') \in Nat \ {0} /\ Head(plan') = plan'[1]
  BY <1>3, EmptySeq, LenProperties, HeadTailProperties
<1> QED
  BY <1>2, <1>3, <1>4

LEMMA TailShape ==
  ASSUME TypeOK, plan # <<>>, plan' = Tail(plan), PlanShape(plan)
  PROVE  PlanShape(plan')
<1> SUFFICES ASSUME NEW m \in 1..Len(plan'), NEW n \in 1..Len(plan')
    PROVE  /\ plan'[m].kind = "lrem" /\ plan'[n].kind = "lrem"
                /\ plan'[m].entry.user = plan'[n].entry.user => m = n
           /\ plan'[m].kind = "award" /\ plan'[n].kind = "award"
                /\ plan'[m].entry = plan'[n].entry => m = n
           /\ m < n /\ plan'[m].kind = "leave" /\ plan'[n].kind \in CleanKinds
                => plan'[m].entry.user # plan'[n].entry.user
           /\ m < n /\ plan'[m].kind = "delWaiting" /\ plan'[n].kind = "lrem"
                => plan'[m].entry.user # plan'[n].entry.user
           /\ n = m + 1 /\ plan'[n].kind = "lrem"
                => plan'[m].kind = "waitingFilter" /\ plan'[m].entry = plan'[n].entry
  BY DEF PlanShape
<1>1. /\ m + 1 \in 1..Len(plan) /\ plan'[m] = plan[m + 1]
      /\ n + 1 \in 1..Len(plan) /\ plan'[n] = plan[n + 1]
  BY TailOwes
<1>2. /\ m + 1 = n + 1 => m = n
      /\ m < n => m + 1 < n + 1
      /\ n = m + 1 => n + 1 = (m + 1) + 1
  OBVIOUS
<1> QED
  BY <1>1, <1>2 DEF PlanShape

\* A round trip that leaves the lists alone: what it may change is the answer of
\* GetWaitingFilter, the waiting key of a user in no list, and the flag of a user
\* who has none of the others still to come.
LEMMA OrderlyRoundTrip ==
  ASSUME Orderly, plan # <<>>, plan' = Tail(plan),
         Head(plan).kind # "lrem",
         UNCHANGED <<queue, job, phase, batch, stale, fresh, opened>>,
         Doing("waitingFilter") => wfilter' = waiting[Client],
         \/ waiting' = waiting
         \/ Doing("delWaiting") /\ waiting' = [waiting EXCEPT ![Client] = None],
         \/ inQueue' = inQueue
         \/ Doing("leave") /\ inQueue' = [inQueue EXCEPT ![Client] = FALSE]
  PROVE  QueueInv' /\ Flags'
<1> USE DEF Orderly, QueueInv
<1>1. TypeOK /\ Client \in Users
  BY HeadOp DEF Workflow
<1>2. /\ Len(plan) \in Nat \ {0} /\ 1 \in 1..Len(plan) /\ Head(plan) = plan[1]
      /\ \A n \in 1..Len(plan') : n + 1 \in 1..Len(plan) /\ plan'[n] = plan[n + 1]
      /\ \A n \in 1..Len(plan) : n # 1 => n - 1 \in 1..Len(plan') /\ plan'[n - 1] = plan[n]
      /\ plan' # <<>> => 1 \in 1..Len(plan') /\ Head(plan') = plan[2] /\ 2 \in 1..Len(plan)
  BY <1>1, TailOwes
<1>3. Client = plan[1].entry.user
  BY <1>2 DEF Client
<1>4. PlanShape(plan)'
  BY <1>1, TailShape DEF PlanShape
<1>5. \A u : Owes(CleanKinds, u)' => Owes(CleanKinds, u)
  BY <1>2 DEF Owes
<1>6. \A u : Owes({"lrem"}, u) => Owes({"lrem"}, u)'
  <2> SUFFICES ASSUME NEW u, NEW n \in 1..Len(plan),
                      plan[n].kind = "lrem", plan[n].entry.user = u
               PROVE  Owes({"lrem"}, u)'
    BY DEF Owes
  <2>1. n - 1 \in 1..Len(plan') /\ plan'[n - 1] = plan[n]
    BY <1>2
  <2> QED
    BY <2>1 DEF Owes
<1>7. Head(plan).kind \in {"delWaiting", "leave"} => ~Queued(Client)
  <2> SUFFICES ASSUME plan[1].kind \in {"delWaiting", "leave"}, Queued(plan[1].entry.user)
               PROVE  FALSE
    BY <1>2, <1>3
  <2>1. Owes({"lrem"}, plan[1].entry.user)
    BY <1>2 DEF PlanFits
  <2>2. PICK n \in 1..Len(plan) : plan[n].kind = "lrem"
                                  /\ plan[n].entry.user = plan[1].entry.user
    BY <2>1 DEF Owes
  <2>3. n # 1 /\ 1 < n
    BY <1>2, <2>2
  <2> QED
    BY <1>2, <2>2, <2>3 DEF PlanShape, CleanKinds
<1>8. PlanFits'
  <2>1. \A n \in 1..Len(plan') : plan'[n].kind = "lrem" => InList(plan[n].entry)'
    BY <1>2 DEF PlanFits, InList
  <2>2. \A n \in 1..Len(plan') :
           plan'[n].kind \in {"delWaiting", "leave"} /\ Queued(plan[n].entry.user)'
             => Owes({"lrem"}, plan[n].entry.user)'
    <3> SUFFICES ASSUME NEW n \in 1..Len(plan'), plan'[n].kind \in {"delWaiting", "leave"},
                        Queued(plan[n].entry.user)'
                 PROVE  Owes({"lrem"}, plan[n].entry.user)'
      OBVIOUS
    <3>1. PICK u : u = plan'[n].entry.user
      OBVIOUS
    <3>2. Queued(u) /\ plan[n + 1].entry.user = u /\ n + 1 \in 1..Len(plan)
          /\ plan[n + 1].kind \in {"delWaiting", "leave"}
      BY <1>2, <3>1 DEF Queued
    <3>3. Owes({"lrem"}, u)'
      BY <1>6, <3>2 DEF PlanFits
    <3> QED
      BY <3>1, <3>3 DEF Owes
  <2>3. Doing("lrem")' => wfilter' = Head(plan').entry.filter
    <3> SUFFICES ASSUME plan' # <<>>, Head(plan').kind = "lrem"
                 PROVE  wfilter' = Head(plan').entry.filter
      BY DEF Doing
    <3>1. plan[2].kind = "lrem" /\ Head(plan') = plan[2] /\ 2 \in 1..Len(plan)
      BY <1>2
    <3>2. plan[1].kind = "waitingFilter" /\ plan[1].entry = plan[2].entry
      BY <1>2, <3>1 DEF PlanShape
    <3>3. InList(plan[2].entry) /\ plan[2].entry \in Entry
      BY <1>1, <3>1, PlanAt DEF PlanFits
    <3>4. waiting[plan[2].entry.user] = plan[2].entry.filter
      BY <3>3 DEF InList, Lists, Entry
    <3>5. wfilter' = waiting[Client]
      BY <1>2, <3>2 DEF Doing
    <3> QED
      BY <1>3, <3>1, <3>2, <3>4, <3>5
  <2> QED
    BY <2>1, <2>2, <2>3 DEF PlanFits
<1>9. Lists'
  <2> SUFFICES ASSUME NEW f \in Filters, NEW k \in 1..Len(queue[f])
               PROVE  waiting'[queue[f][k].user] = f
    BY DEF Lists
  <2>1. waiting[queue[f][k].user] = f /\ Queued(queue[f][k].user)
    BY DEF Lists, Queued
  <2>2. queue[f][k].user \in Users
    BY <1>1, ListAt
  <2> QED
    BY <1>1, <1>2, <1>7, <2>1, <2>2 DEF TypeOK, Doing
<1>10. Collected' /\ OneEntryPerUser'
  BY DEF Collected, InList, OneEntryPerUser
<1>11. QueueInv'
  BY <1>4, <1>8, <1>9, <1>10
<1>12. \A u : Busy(u)' => Busy(u)
  BY <1>5 DEF Busy, Queued
<1>13. \A u \in Users : Busy(u)' => FlagHeld(u)'
  <2> SUFFICES ASSUME NEW u \in Users, Busy(u)'
               PROVE  FlagHeld(u)'
    OBVIOUS
  <2>1. FlagHeld(u)
    BY <1>12 DEF Flags
  <2>2. CASE inQueue' = inQueue
    BY <2>1, <2>2 DEF FlagHeld, At
  <2>3. CASE Doing("leave") /\ u # Client /\ inQueue' = [inQueue EXCEPT ![Client] = FALSE]
    BY <1>1, <2>1, <2>3 DEF FlagHeld, At, TypeOK
  <2>4. CASE Doing("leave") /\ u = Client
    <3>1. plan[1].kind = "leave" /\ ~Queued(u) /\ u = plan[1].entry.user
      BY <1>2, <1>3, <1>7, <2>4 DEF Doing
    <3>2. Owes(CleanKinds, u)'
      BY <3>1 DEF Busy, Queued
    <3>3. PICK n \in 1..Len(plan') : plan'[n].kind \in CleanKinds /\ plan'[n].entry.user = u
      BY <3>2 DEF Owes
    <3>4. /\ n + 1 \in 1..Len(plan) /\ 1 < n + 1 /\ plan[n + 1].kind \in CleanKinds
          /\ plan[n + 1].entry.user = u
      BY <1>2, <3>3
    <3> QED
      BY <1>2, <3>1, <3>4 DEF PlanShape
  <2> QED
    BY <2>2, <2>3, <2>4
<1>14. \A g \in Handlers : job'[g].pc \in {"checkChat", "deduct", "charge", "enqueue"}
         => ~Busy(job[g].user)'
  <2> SUFFICES ASSUME NEW g \in Handlers,
                      job'[g].pc \in {"checkChat", "deduct", "charge", "enqueue"}
               PROVE  ~Busy(job[g].user)'
    OBVIOUS
  <2>1. PICK u : u = job[g].user
    OBVIOUS
  <2>2. job'[g].user = u /\ ~Busy(u)'
    BY <1>12, <2>1 DEF Flags
  <2> QED
    BY <2>2 DEF Busy, Queued, Owes
<1> QED
  BY <1>11, <1>13, <1>14 DEF Flags

\* LREM takes out the one entry the decision was about, and its user's only one.
LEMMA OrderlyRemove ==
  ASSUME Orderly, Serial, RemoveEntry
  PROVE  /\ QueueInv' /\ Flags'
         /\ \A d \in Entry : InList(d)' <=> InList(d) /\ d.user # Client
         /\ \A u : Queued(u)' => Queued(u) /\ u # Client
<1> USE DEF Orderly, QueueInv
<1> DEFINE e  == Head(plan).entry
           u0 == e.user
           f0 == e.filter
           q  == queue[f0]
<1>1. /\ plan # <<>> /\ Head(plan).kind = "lrem" /\ plan' = Tail(plan)
      /\ queue' = [f \in Filters |-> IF f = wfilter THEN WithoutFirst(queue[f], u0)
                                                    ELSE queue[f]]
      /\ UNCHANGED <<waiting, inQueue, job, phase, batch, stale, fresh, opened>>
  BY DEF RemoveEntry, Doing, Next1, Client, Serial
<1>2. TypeOK
  BY DEF Workflow
<1>3. /\ Len(plan) \in Nat \ {0} /\ 1 \in 1..Len(plan) /\ Head(plan) = plan[1]
      /\ \A n \in 1..Len(plan') : n + 1 \in 1..Len(plan) /\ plan'[n] = plan[n + 1]
      /\ \A n \in 1..Len(plan) : n # 1 => n - 1 \in 1..Len(plan') /\ plan'[n - 1] = plan[n]
      /\ plan' # <<>> => 1 \in 1..Len(plan') /\ Head(plan') = plan[2] /\ 2 \in 1..Len(plan)
  BY <1>1, <1>2, TailOwes
<1>4. e \in Entry /\ InList(e) /\ wfilter = f0 /\ f0 \in Filters /\ u0 \in Users
  <2>1. plan[1].entry \in Entry /\ InList(plan[1].entry) /\ wfilter = f0
    BY <1>1, <1>2, <1>3, PlanAt DEF PlanFits, Doing
  <2> QED
    BY <1>3, <2>1 DEF Entry
<1>5. PICK k \in 1..Len(q) : q[k] = e
  BY <1>4 DEF InList
<1>6. \A g \in Filters : \A m \in 1..Len(queue[g]) : queue[g][m].user = u0
        => g = f0 /\ m = k
  BY <1>4, <1>5 DEF OneEntryPerUser
<1>7. q \in Seq(Entry) /\ Len(q) \in Nat
  BY <1>2, <1>4, ListAt
<1> HIDE DEF e, u0, f0, q
<1>8. q = queue[f0] /\ e.user = u0 /\ e.filter = f0 /\ e = plan[1].entry
  BY <1>3 DEF q, u0, f0, e
<1>9. /\ Len(WithoutFirst(q, u0)) = Len(q) - 1
      /\ \A n \in 1..Len(q) - 1 :
           WithoutFirst(q, u0)[n] = IF n < k THEN q[n] ELSE q[n + 1]
  <2>1. q[k].user = u0 /\ \A m \in 1..Len(q) : q[m].user = u0 => m = k
    BY <1>4, <1>5, <1>6, <1>8
  <2> QED
    BY <1>7, <2>1, WithoutOnly
<1>10. /\ queue'[f0] = WithoutFirst(q, u0)
       /\ \A f \in Filters : f # f0 => queue'[f] = queue[f]
  BY <1>1, <1>4, <1>8
\* Where an entry that stays was, and where one that was is now.
<1> DEFINE was(f, n) == IF f = f0 /\ ~(n < k) THEN n + 1 ELSE n
<1>11. \A f \in Filters : \A n \in 1..Len(queue'[f]) :
         /\ was(f, n) \in 1..Len(queue[f])
         /\ queue'[f][n] = queue[f][was(f, n)]
         /\ queue'[f][n].user # u0
  <2> SUFFICES ASSUME NEW f \in Filters, NEW n \in 1..Len(queue'[f])
               PROVE  /\ was(f, n) \in 1..Len(queue[f])
                      /\ queue'[f][n] = queue[f][was(f, n)]
                      /\ queue'[f][n].user # u0
    OBVIOUS
  <2>1. CASE f = f0
    <3>1. n \in 1..Len(q) - 1
      BY <1>9, <1>10, <2>1
    <3>2. /\ was(f, n) \in 1..Len(q) /\ was(f, n) # k
          /\ queue'[f][n] = q[was(f, n)]
      BY <1>7, <1>9, <1>10, <2>1, <3>1
    <3> QED
      BY <1>6, <1>8, <2>1, <3>2
  <2>2. CASE f # f0
    BY <1>6, <1>10, <2>2
  <2> QED
    BY <2>1, <2>2
<1>12. \A f \in Filters : \A m \in 1..Len(queue[f]) :
         queue[f][m].user # u0 => \E n \in 1..Len(queue'[f]) : queue'[f][n] = queue[f][m]
  <2> SUFFICES ASSUME NEW f \in Filters, NEW m \in 1..Len(queue[f]),
                      queue[f][m].user # u0
               PROVE  \E n \in 1..Len(queue'[f]) : queue'[f][n] = queue[f][m]
    OBVIOUS
  <2>1. CASE f = f0
    <3>1. m # k /\ m \in 1..Len(q)
      BY <1>5, <1>8, <2>1
    <3>2. CASE m < k
      <4>1. m \in 1..Len(q) - 1 /\ queue'[f][m] = q[m]
        BY <1>7, <1>9, <1>10, <2>1, <3>1, <3>2
      <4> QED
        BY <1>8, <1>9, <1>10, <2>1, <4>1
    <3>3. CASE m > k
      <4>1. m - 1 \in 1..Len(q) - 1 /\ ~(m - 1 < k) /\ (m - 1) + 1 = m
        BY <1>7, <3>1, <3>3
      <4>2. queue'[f][m - 1] = q[m]
        BY <1>9, <1>10, <2>1, <4>1
      <4> QED
        BY <1>8, <1>9, <1>10, <2>1, <4>1, <4>2
    <3> QED
      BY <1>7, <3>1, <3>2, <3>3
  <2>2. CASE f # f0
    BY <1>10, <2>2
  <2> QED
    BY <2>1, <2>2
<1>13. \A f \in Filters : \A n, m : was(f, n) = was(f, m) /\ n \in Int /\ m \in Int => n = m
  BY <1>7
<1> HIDE DEF was
<1>14. OneEntryPerUser'
  <2> SUFFICES ASSUME NEW f \in Filters, NEW g \in Filters,
                      NEW n \in 1..Len(queue'[f]), NEW m \in 1..Len(queue'[g]),
                      queue'[f][n].user = queue'[g][m].user
               PROVE  f = g /\ n = m
    BY DEF OneEntryPerUser
  <2>1. /\ was(f, n) \in 1..Len(queue[f]) /\ queue'[f][n] = queue[f][was(f, n)]
        /\ was(g, m) \in 1..Len(queue[g]) /\ queue'[g][m] = queue[g][was(g, m)]
    BY <1>11
  <2>2. f = g /\ was(f, n) = was(g, m)
    <3>1. PICK x \in 1..Len(queue[f]), y \in 1..Len(queue[g]) : x = was(f, n) /\ y = was(g, m)
      BY <2>1
    <3>2. queue[f][x].user = queue[g][y].user
      BY <2>1, <3>1
    <3>3. f = g /\ x = y
      BY <3>2 DEF OneEntryPerUser
    <3> QED
      BY <3>1, <3>3
  <2>3. n \in Int /\ m \in Int /\ f = g /\ was(f, n) = was(f, m)
    BY <2>2
  <2> QED
    BY <1>13, <2>3
<1>15. Lists'
  <2> SUFFICES ASSUME NEW f \in Filters, NEW n \in 1..Len(queue'[f])
               PROVE  /\ queue'[f][n].filter = f /\ queue'[f][n] \in opened'
                      /\ waiting'[queue'[f][n].user] = f
    BY DEF Lists
  <2>1. /\ was(f, n) \in 1..Len(queue[f]) /\ queue'[f][n] = queue[f][was(f, n)]
        /\ queue'[f][n].user # u0
    BY <1>11
  <2> QED
    BY <1>1, <2>1 DEF Lists
<1>16. \A d \in Entry : d.user # u0 /\ InList(d) => InList(d)'
  BY <1>12 DEF InList, Entry
<1>17. \A u : Queued(u)' => Queued(u) /\ u # u0
  BY <1>11 DEF Queued
<1>27. \A d \in Entry : InList(d)' => InList(d) /\ d.user # u0
  <2> SUFFICES ASSUME NEW d \in Entry, InList(d)'
               PROVE  InList(d) /\ d.user # u0
    OBVIOUS
  <2>1. PICK n \in 1..Len(queue'[d.filter]) : queue'[d.filter][n] = d
    BY DEF InList
  <2>2. d.filter \in Filters
    BY DEF Entry
  <2> QED
    BY <1>11, <2>1, <2>2 DEF InList
<1>18. \A n \in 1..Len(plan') : plan'[n].kind = "lrem" => plan'[n].entry.user # u0
  <2> SUFFICES ASSUME NEW n \in 1..Len(plan'), plan'[n].kind = "lrem",
                      plan'[n].entry.user = u0
               PROVE  FALSE
    OBVIOUS
  <2>1. n + 1 \in 1..Len(plan) /\ n + 1 # 1 /\ plan[n + 1] = plan'[n]
    BY <1>3
  <2>2. plan[1].kind = "lrem" /\ plan[1].entry.user = u0
    BY <1>1, <1>3, <1>8
  <2> QED
    BY <1>3, <2>1, <2>2 DEF PlanShape
<1>19. PlanFits'
  <2>1. \A n \in 1..Len(plan') : plan'[n].kind = "lrem" => InList(plan[n].entry)'
    <3> SUFFICES ASSUME NEW n \in 1..Len(plan'), plan'[n].kind = "lrem"
                 PROVE  InList(plan[n].entry)'
      OBVIOUS
    <3>1. PICK d : d = plan'[n].entry
      OBVIOUS
    <3>2. d \in Entry /\ InList(d) /\ d.user # u0
      BY <1>2, <1>3, <1>18, <3>1, PlanAt DEF PlanFits
    <3> QED
      BY <1>16, <3>1, <3>2 DEF InList
  <2>2. \A n \in 1..Len(plan') :
           plan'[n].kind \in {"delWaiting", "leave"} /\ Queued(plan[n].entry.user)'
             => Owes({"lrem"}, plan[n].entry.user)'
    <3> SUFFICES ASSUME NEW n \in 1..Len(plan'), plan'[n].kind \in {"delWaiting", "leave"},
                        Queued(plan[n].entry.user)'
                 PROVE  Owes({"lrem"}, plan[n].entry.user)'
      OBVIOUS
    <3>1. PICK u : u = plan'[n].entry.user
      OBVIOUS
    <3>2. Queued(u) /\ u # u0
      BY <1>17, <3>1 DEF Queued
    <3>3. Owes({"lrem"}, u)
      BY <1>3, <3>1, <3>2 DEF PlanFits
    <3>4. PICK m \in 1..Len(plan) : plan[m].kind = "lrem" /\ plan[m].entry.user = u
      BY <3>3 DEF Owes
    <3>5. m # 1
      BY <1>8, <3>2, <3>4
    <3>6. Owes({"lrem"}, u)'
      BY <1>3, <3>4, <3>5 DEF Owes
    <3> QED
      BY <3>1, <3>6 DEF Owes
  <2>3. ~(Doing("lrem")')
    <3> SUFFICES ASSUME plan' # <<>>, Head(plan').kind = "lrem"
                 PROVE  FALSE
      BY DEF Doing
    <3>1. plan[2].kind = "lrem" /\ 2 \in 1..Len(plan) /\ plan[1].kind = "lrem"
      BY <1>1, <1>3
    <3>2. plan[1].kind = "waitingFilter"
      BY <1>3, <3>1 DEF PlanShape
    <3> QED
      BY <3>1, <3>2
  <2> QED
    BY <2>1, <2>2, <2>3 DEF PlanFits
<1>20. Collected'
  <2>1. \A c \in stale \cup fresh : batch[c].user # u0 /\ batch[c] \in Entry
    BY <1>2, <1>3, <1>8, BatchEntry DEF TickHandlesUserOnce, TypeOK
  <2>2. phase \notin {"idle", "scan"}
    BY <1>1, <1>2 DEF TypeOK
  <2>3. \A c \in stale \cup fresh : InList(batch[c]) /\ batch[c].user # u0 /\ batch[c] \in Entry
    BY <2>1 DEF Collected
  <2>4. \A c \in stale \cup fresh : InList(batch[c])'
    <3> SUFFICES ASSUME NEW c \in stale \cup fresh
                 PROVE  InList(batch[c])'
      OBVIOUS
    <3>1. PICK d : d = batch[c]
      OBVIOUS
    <3>2. InList(d)'
      BY <1>16, <2>3, <3>1
    <3> QED
      BY <1>1, <3>1, <3>2 DEF InList
  <2> QED
    BY <1>1, <2>2, <2>4 DEF Collected
<1>21. PlanShape(plan)'
  BY <1>1, <1>2, TailShape DEF PlanShape
<1>22. \A u : Owes(CleanKinds, u)' => Owes(CleanKinds, u)
  BY <1>3 DEF Owes
<1>23. \A u : Busy(u)' => Busy(u)
  BY <1>17, <1>22 DEF Busy
<1>24. \A u \in Users : FlagHeld(u)' = FlagHeld(u)
  BY <1>1 DEF FlagHeld, At
<1>25. \A u \in Users : Busy(u)' => FlagHeld(u)'
  BY <1>23, <1>24 DEF Flags
<1>26. \A g \in Handlers : job'[g].pc \in {"checkChat", "deduct", "charge", "enqueue"}
         => ~Busy(job[g].user)'
  <2> SUFFICES ASSUME NEW g \in Handlers,
                      job'[g].pc \in {"checkChat", "deduct", "charge", "enqueue"}
               PROVE  ~Busy(job[g].user)'
    OBVIOUS
  <2>1. PICK u : u = job[g].user
    OBVIOUS
  <2>2. job'[g].user = u /\ ~Busy(u)'
    BY <1>1, <1>23, <2>1 DEF Flags
  <2> QED
    BY <2>2 DEF Busy, Queued, Owes
<1>28. u0 = Client
  BY DEF u0, e, Client
<1> QED
  BY <1>14, <1>15, <1>16, <1>17, <1>19, <1>20, <1>21, <1>25, <1>26, <1>27, <1>28 DEF Flags

\* A search's queue and its worker: the whole step.
LEMMA OrderlyStep ==
  ASSUME Orderly, Serial, [Next]_vars
  PROVE  Orderly'
<1>1. Workflow' /\ TypeOK
  BY WorkflowStep DEF Orderly, Workflow
<1>2. TickHandlesUserOnce'
  BY <1>1, TickStep DEF Orderly
<1>3. ASSUME NEW h \in Handlers, HandlerStep(h)
      PROVE  QueueInv' /\ Flags'
  <2>1. ~EnqueueChatFails(h) /\ ~EnqueueRefundRead(h) /\ ~EnqueueRefundSave(h)
    BY DEF EnqueueChatFails, EnqueueRefundRead, EnqueueRefundSave, Serial, At, Orderly,
       Workflow, OneJob, SearchSteps
  <2> QED
    BY <1>3, <2>1, OrderlyQuietHandler, OrderlyJoin, OrderlyEnqueue DEF HandlerStep
<1>4. ASSUME WorkerStep
      PROVE  QueueInv' /\ Flags'
  <2>1. CASE \/ GetWaitingFilter \/ RemoveWaitingState \/ LeaveQueue
             \/ RefundRead \/ RefundSave
    <3>1. /\ plan # <<>> /\ plan' = Tail(plan) /\ Head(plan).kind # "lrem"
          /\ UNCHANGED <<queue, job, phase, batch, stale, fresh, opened>>
      BY <2>1 DEF GetWaitingFilter, RemoveWaitingState, LeaveQueue, RefundRead,
         RefundSave, Doing, Next1, Serial
    <3>2. Doing("waitingFilter") => wfilter' = waiting[Client]
      BY <2>1 DEF GetWaitingFilter, RemoveWaitingState, LeaveQueue, RefundRead,
         RefundSave, Doing, Serial
    <3>3. \/ waiting' = waiting
          \/ Doing("delWaiting") /\ waiting' = [waiting EXCEPT ![Client] = None]
      BY <2>1 DEF GetWaitingFilter, RemoveWaitingState, LeaveQueue, RefundRead,
         RefundSave, Serial
    <3>4. \/ inQueue' = inQueue
          \/ Doing("leave") /\ inQueue' = [inQueue EXCEPT ![Client] = FALSE]
      BY <2>1 DEF GetWaitingFilter, RemoveWaitingState, LeaveQueue, RefundRead,
         RefundSave, Serial
    <3> QED
      BY <3>1, <3>2, <3>3, <3>4, OrderlyRoundTrip
  <2>2. \A i, j \in fresh : ~CreateMatchFails(i, j)
    BY DEF CreateMatchFails, Serial
  <2> QED
    BY <1>4, <2>1, <2>2, OrderlyCollecting, OrderlyExpire, OrderlyMatch, OrderlyRemove
       DEF WorkerStep
<1>5. ~ \E long \in BOOLEAN : Restart(long)
  BY <1>1 DEF Serial, Restart, TypeOK
<1>6. QueueInv' /\ Flags'
  BY <1>3, <1>4, <1>5, OrderlyOutside, OrderlyFlagExpires DEF Next, vars
<1> QED
  BY <1>1, <1>2, <1>6 DEF Orderly

LEMMA OrderlyInit == Init => Orderly
<1>1. ASSUME Init
      PROVE  TickHandlesUserOnce /\ QueueInv /\ Flags
  BY <1>1 DEF Init, TickHandlesUserOnce, QueueInv, OneEntryPerUser, Lists, PlanShape,
     PlanFits, Doing, Collected, Flags, Busy, Queued, Owes, FlagHeld, Idle
<1> QED
  BY <1>1, WorkflowInit DEF Orderly

LEMMA AlwaysOrderly == Spec /\ Serial => [](Orderly /\ Serial)
<1>1. (Orderly /\ Serial) /\ [Next]_vars => (Orderly /\ Serial)'
  BY OrderlyStep DEF Serial
<1> QED
  BY <1>1, OrderlyInit, PTL DEF Spec

\* With a user's updates handled one at a time and no failing call, a user is in
\* one list at most, and there once: joinQueue asks in_queue, and the flag or the
\* goroutine about to set it outlasts the entry and the worker's cleanup of it.
THEOREM OneEntryEach == Spec /\ Serial => []OneEntryPerUser
<1>1. Orderly /\ Serial => OneEntryPerUser
  BY DEF Orderly, QueueInv
<1> QED
  BY <1>1, AlwaysOrderly, PTL

-----------------------------------------------------------------------------
(* The ledger: what became of each search and of its cost.                 *)

Settled(i)   == matches[i] + expiries[i] > 0
LremOwed(e)  == \E n \in 1..Len(plan) : plan[n] = RoundTrip("lrem", e)
AwardOwed(e) == \E n \in 1..Len(plan) : plan[n] = RoundTrip("award", e)

\* What has been decided of an entry is one thing, decided once.
Fates ==
    /\ SettledOnce
    /\ \A i \in Ids : (\A e \in opened : e.id # i)
         => matches[i] = 0 /\ expiries[i] = 0 /\ refunds[i] = 0

\* An entry is in its list until it is decided of, and then for as long as the
\* worker still owes the LREM.
Listed ==
    /\ \A e \in opened : InList(e) \/ Settled(e.id)
    /\ \A e \in opened : InList(e) /\ Settled(e.id) => LremOwed(e)
    /\ \A n \in 1..Len(plan) : plan[n].kind = "lrem" => Settled(plan[n].entry.id)

\* A cost is given back, or the worker still owes it.
Refunds ==
    /\ \A e \in charged : expiries[e.id] > 0
         => refunds[e.id] = expiries[e.id] \/ AwardOwed(e)
    /\ \A n \in 1..Len(plan) : plan[n].kind = "award" =>
         /\ plan[n].entry \in opened
         /\ expiries[plan[n].entry.id] = 1 /\ refunds[plan[n].entry.id] = 0

Ledger == Fates /\ Listed /\ Refunds

\* A step that touches neither the lists nor the plan nor the counters.
LEMMA LedgerUntouched ==
  ASSUME Ledger, UNCHANGED <<queue, plan, opened, charged, matches, expiries, refunds>>
  PROVE  Ledger'
<1>1. Fates'
  BY DEF Ledger, Fates, SettledOnce
<1>2. Listed'
  BY DEF Ledger, Listed, InList, Settled, LremOwed
<1>3. Refunds'
  BY DEF Ledger, Refunds, AwardOwed
<1> QED
  BY <1>1, <1>2, <1>3 DEF Ledger

\* The entries a tick works on reached a queue and are undecided.
LEMMA UndecidedBatch ==
  ASSUME Orderly, Ledger, plan = <<>>, NEW k \in stale \cup fresh
  PROVE  /\ batch[k] \in opened /\ batch[k] \in Entry /\ InList(batch[k])
         /\ batch[k].id \in Ids
         /\ matches[batch[k].id] = 0 /\ expiries[batch[k].id] = 0
         /\ refunds[batch[k].id] = 0
<1>1. TypeOK /\ QueueInv
  BY DEF Orderly, Workflow
<1>2. PICK e : e = batch[k]
  OBVIOUS
<1>3. e \in Entry /\ e.id \in Ids /\ InList(e)
  BY <1>1, <1>2, BatchEntry DEF TypeOK, QueueInv, Collected
<1>4. e \in opened
  BY <1>1, <1>3 DEF InList, QueueInv, Lists, Entry
<1>5. ~LremOwed(e)
  BY DEF LremOwed
<1>6. ~Settled(e.id)
  BY <1>3, <1>4, <1>5 DEF Ledger, Listed
<1>7. /\ matches[e.id] \in Nat /\ expiries[e.id] \in Nat /\ refunds[e.id] \in Nat
      /\ refunds[e.id] <= expiries[e.id]
  BY <1>1, <1>3 DEF TypeOK, Ledger, Fates, SettledOnce
<1> QED
  BY <1>2, <1>3, <1>4, <1>6, <1>7 DEF Settled

LEMMA LedgerExpire ==
  ASSUME Orderly, Ledger, NEW k \in stale, ExpireEntry(k)
  PROVE  Ledger'
<1>0. PICK e : e = batch[k]
  OBVIOUS
<1>1. /\ plan = <<>> /\ plan' = expiryPlan(e)
      /\ expiries' = [expiries EXCEPT ![e.id] = @ + 1]
      /\ UNCHANGED <<queue, opened, charged, matches, refunds>>
  BY <1>0 DEF ExpireEntry, expiryPlan
<1>2. /\ e \in opened /\ e \in Entry /\ InList(e) /\ e.id \in Ids
      /\ matches[e.id] = 0 /\ expiries[e.id] = 0 /\ refunds[e.id] = 0
  BY <1>1, <1>0, UndecidedBatch
<1>3. /\ Len(plan') = IF cost(e) > 0 THEN 6 ELSE 4
      /\ plan'[1] = RoundTrip("waitingFilter", e)
      /\ plan'[2] = RoundTrip("lrem", e)
      /\ plan'[3] = RoundTrip("delWaiting", e)
      /\ plan'[4] = RoundTrip("leave", e)
      /\ cost(e) > 0 => /\ plan'[5] = RoundTrip("read", e)
                        /\ plan'[6] = RoundTrip("award", e)
  BY <1>1, ExpiryPlan
<1>4. /\ expiries'[e.id] = 1
      /\ \A i \in Ids : i # e.id => expiries'[i] = expiries[i]
  BY <1>1, <1>2 DEF Orderly, Workflow, TypeOK
<1>5. \A d \in opened \cup charged : d \in Entry /\ d.id \in Ids /\ (d.id = e.id => d = e)
  BY <1>2 DEF Orderly, Workflow, Numbered, TypeOK, Entry
<1>6. \A n \in 1..Len(plan') :
        /\ plan'[n].entry = e
        /\ plan'[n].kind = "award" => n = 6 /\ cost(e) > 0
  <2>1. CASE cost(e) > 0
    BY <1>3, <2>1 DEF RoundTrip
  <2>2. CASE ~(cost(e) > 0)
    BY <1>3, <2>2 DEF RoundTrip
  <2> QED
    BY <2>1, <2>2
<1>7. Fates'
  <2>1. SettledOnce'
    BY <1>1, <1>2, <1>4 DEF Ledger, Fates, SettledOnce
  <2> QED
    BY <1>1, <1>2, <1>4, <2>1 DEF Ledger, Fates
<1>8. Listed'
  <2>1. \A d \in opened : InList(d)' = InList(d)
    BY <1>1 DEF InList
  <2>2. \A d \in opened : Settled(d.id)' = (d = e \/ Settled(d.id))
    BY <1>1, <1>2, <1>4, <1>5 DEF Settled
  <2>3. LremOwed(e)'
    <3>1. Len(plan') \in {4, 6}
      BY <1>3
    <3>2. 2 \in 1..Len(plan')
      BY <3>1
    <3> QED
      BY <1>3, <3>2 DEF LremOwed
  <2>4. \A d \in opened : ~LremOwed(d)
    BY <1>1 DEF LremOwed
  <2>5. \A n \in 1..Len(plan') : plan'[n].kind = "lrem" => Settled(plan[n].entry.id)'
    BY <1>1, <1>2, <1>4, <1>6 DEF Settled
  <2> QED
    BY <1>1, <2>1, <2>2, <2>3, <2>4, <2>5 DEF Ledger, Listed
<1>9. Refunds'
  <2>1. \A d \in charged : ~AwardOwed(d)
    BY <1>1 DEF AwardOwed
  <2>2. e \in charged => AwardOwed(e)'
    <3> SUFFICES ASSUME e \in charged
                 PROVE  AwardOwed(e)'
      OBVIOUS
    <3>1. cost(e) > 0
      BY DEF Orderly, Workflow, Numbered
    <3>2. 6 \in 1..Len(plan')
      BY <1>3, <3>1
    <3> QED
      BY <1>3, <3>1, <3>2 DEF AwardOwed
  <2>3. \A d \in charged' : expiries'[d.id] > 0
          => refunds'[d.id] = expiries'[d.id] \/ AwardOwed(d)'
    BY <1>1, <1>4, <1>5, <2>1, <2>2 DEF Ledger, Refunds
  <2>4. \A n \in 1..Len(plan') : plan'[n].kind = "award" =>
          /\ plan'[n].entry \in opened'
          /\ expiries'[plan'[n].entry.id] = 1 /\ refunds'[plan'[n].entry.id] = 0
    BY <1>1, <1>2, <1>4, <1>6
  <2> QED
    BY <2>3, <2>4 DEF Refunds
<1> QED
  BY <1>7, <1>8, <1>9 DEF Ledger

LEMMA LedgerMatch ==
  ASSUME Orderly, Ledger, NEW i \in fresh, NEW j \in fresh, CreateMatch(i, j)
  PROVE  Ledger'
<1>0. PICK d, e : d = batch[i] /\ e = batch[j]
  OBVIOUS
<1>1. /\ plan = <<>> /\ plan' = matchPlan(d, e)
      /\ matches' = [n \in Ids |-> IF n \in {d.id, e.id} THEN matches[n] + 1
                                                         ELSE matches[n]]
      /\ UNCHANGED <<queue, opened, charged, expiries, refunds>>
  BY <1>0 DEF CreateMatch, matchPlan
<1>2. /\ d \in opened /\ d \in Entry /\ InList(d) /\ d.id \in Ids
      /\ matches[d.id] = 0 /\ expiries[d.id] = 0 /\ refunds[d.id] = 0
      /\ e \in opened /\ e \in Entry /\ InList(e) /\ e.id \in Ids
      /\ matches[e.id] = 0 /\ expiries[e.id] = 0 /\ refunds[e.id] = 0
  BY <1>0, <1>1, UndecidedBatch
<1>3. /\ Len(plan') = 8
      /\ plan'[1] = RoundTrip("waitingFilter", d)
      /\ plan'[2] = RoundTrip("lrem", d)
      /\ plan'[3] = RoundTrip("delWaiting", d)
      /\ plan'[4] = RoundTrip("waitingFilter", e)
      /\ plan'[5] = RoundTrip("lrem", e)
      /\ plan'[6] = RoundTrip("delWaiting", e)
      /\ plan'[7] = RoundTrip("leave", d)
      /\ plan'[8] = RoundTrip("leave", e)
  BY <1>1, MatchPlan
<1>4. /\ matches'[d.id] = 1 /\ matches'[e.id] = 1
      /\ \A n \in Ids : n \notin {d.id, e.id} => matches'[n] = matches[n]
  BY <1>1, <1>2
<1>5. \A c \in opened : /\ c \in Entry /\ c.id \in Ids
                        /\ c.id = d.id => c = d
                        /\ c.id = e.id => c = e
  BY <1>2 DEF Orderly, Workflow, Numbered, TypeOK, Entry
<1>6. \A n \in 1..Len(plan') : plan'[n].entry \in {d, e} /\ plan'[n].kind # "award"
  BY <1>3 DEF RoundTrip
<1>7. Fates'
  <2>1. SettledOnce'
    BY <1>1, <1>2, <1>4 DEF Ledger, Fates, SettledOnce
  <2> QED
    BY <1>1, <1>2, <1>4, <2>1 DEF Ledger, Fates
<1>8. Listed'
  <2>1. \A c \in opened : InList(c)' = InList(c)
    BY <1>1 DEF InList
  <2>2. \A c \in opened : Settled(c.id)' = (c \in {d, e} \/ Settled(c.id))
    BY <1>1, <1>2, <1>4, <1>5 DEF Settled
  <2>3. LremOwed(d)' /\ LremOwed(e)'
    <3>1. 2 \in 1..Len(plan') /\ 5 \in 1..Len(plan')
      BY <1>3
    <3> QED
      BY <1>3, <3>1 DEF LremOwed
  <2>4. \A c \in opened : ~LremOwed(c)
    BY <1>1 DEF LremOwed
  <2>5. \A n \in 1..Len(plan') : plan'[n].kind = "lrem" => Settled(plan[n].entry.id)'
    BY <1>1, <1>2, <1>4, <1>6 DEF Settled
  <2> QED
    BY <1>1, <2>1, <2>2, <2>3, <2>4, <2>5 DEF Ledger, Listed
<1>9. Refunds'
  <2>1. \A c \in charged : ~AwardOwed(c)
    BY <1>1 DEF AwardOwed
  <2> QED
    BY <1>1, <1>6, <2>1 DEF Ledger, Refunds
<1> QED
  BY <1>7, <1>8, <1>9 DEF Ledger

\* A round trip owed is owed until it is the head of the plan.
LEMMA StillOwed ==
  ASSUME TypeOK, plan # <<>>, plan' = Tail(plan)
  PROVE  \A d, k : \A n \in 1..Len(plan) :
           plan[n] = RoundTrip(k, d) /\ (Head(plan).kind # k \/ Head(plan).entry # d)
             => \E m \in 1..Len(plan') : plan'[m] = RoundTrip(k, d)
<1>1. /\ Head(plan) = plan[1]
      /\ \A n \in 1..Len(plan) : n # 1 => n - 1 \in 1..Len(plan') /\ plan'[n - 1] = plan[n]
  BY TailOwes
<1> SUFFICES ASSUME NEW d, NEW k, NEW n \in 1..Len(plan), plan[n] = RoundTrip(k, d),
                    Head(plan).kind # k \/ Head(plan).entry # d
             PROVE  \E m \in 1..Len(plan') : plan'[m] = RoundTrip(k, d)
  OBVIOUS
<1>2. n # 1
  BY <1>1 DEF RoundTrip
<1> QED
  BY <1>1, <1>2

\* The round trips that settle nothing.
LEMMA LedgerRoundTrip ==
  ASSUME Orderly, Ledger, plan # <<>>, plan' = Tail(plan),
         Head(plan).kind \notin {"lrem", "award"},
         UNCHANGED <<queue, opened, charged, matches, expiries, refunds>>
  PROVE  Ledger'
<1>1. TypeOK
  BY DEF Orderly, Workflow
<1>2. \A d : /\ LremOwed(d) => LremOwed(d)'
             /\ AwardOwed(d) => AwardOwed(d)'
  BY <1>1, StillOwed DEF LremOwed, AwardOwed
<1>3. \A n \in 1..Len(plan') : n + 1 \in 1..Len(plan) /\ plan'[n] = plan[n + 1]
  BY <1>1, TailOwes
<1>4. Fates'
  BY DEF Ledger, Fates, SettledOnce
<1>5. Listed'
  <2>1. \A d \in opened : InList(d)' = InList(d) /\ Settled(d.id)' = Settled(d.id)
    BY DEF InList, Settled
  <2>2. \A n \in 1..Len(plan') : plan'[n].kind = "lrem" => Settled(plan[n].entry.id)'
    BY <1>3 DEF Ledger, Listed, Settled
  <2> QED
    BY <1>2, <2>1, <2>2 DEF Ledger, Listed
<1>6. Refunds'
  BY <1>2, <1>3 DEF Ledger, Refunds
<1> QED
  BY <1>4, <1>5, <1>6 DEF Ledger

LEMMA LedgerRemove ==
  ASSUME Orderly, Serial, Ledger, RemoveEntry
  PROVE  Ledger'
<1>1. TypeOK
  BY DEF Orderly, Workflow
<1>2. /\ plan # <<>> /\ plan' = Tail(plan) /\ Head(plan).kind = "lrem"
      /\ UNCHANGED <<opened, charged, matches, expiries, refunds>>
  BY DEF RemoveEntry, Doing, Next1
<1>3. \A d \in Entry : InList(d)' <=> InList(d) /\ d.user # Client
  BY OrderlyRemove
<1>4. PICK e : e = Head(plan).entry
  OBVIOUS
<1>5. /\ e \in Entry /\ e.user = Client /\ Client \in Users /\ InList(e)
      /\ Settled(e.id)
  <2>1. Head(plan) = plan[1] /\ 1 \in 1..Len(plan)
    BY <1>1, <1>2, TailOwes
  <2>2. /\ InList(plan[1].entry) /\ Settled(plan[1].entry.id)
        /\ plan[1] \in Op /\ plan[1].entry \in Entry
    BY <1>1, <1>2, <2>1, PlanAt DEF Orderly, QueueInv, PlanFits, Ledger, Listed
  <2> QED
    BY <1>1, <1>2, <1>4, <2>1, <2>2, HeadOp DEF Client, Op
<1>6. \A d \in Entry : InList(d) /\ d.user = e.user => d = e
  BY <1>5 DEF Orderly, QueueInv, OneEntryPerUser, InList, Entry
<1>7. \A n \in 1..Len(plan') : n + 1 \in 1..Len(plan) /\ plan'[n] = plan[n + 1]
  BY <1>1, <1>2, TailOwes
<1>8. Fates'
  BY <1>2 DEF Ledger, Fates, SettledOnce
<1>9. Listed'
  <2>1. \A d \in opened : d \in Entry /\ Settled(d.id)' = Settled(d.id)
    BY <1>1, <1>2 DEF TypeOK, Settled
  <2>2. \A d \in opened : InList(d)' \/ Settled(d.id)
    BY <1>3, <1>5, <1>6, <2>1 DEF Ledger, Listed
  <2>3. \A d \in opened : InList(d)' /\ Settled(d.id) => LremOwed(d)'
    <3> SUFFICES ASSUME NEW d \in opened, InList(d)', Settled(d.id)
                 PROVE  LremOwed(d)'
      OBVIOUS
    <3>1. InList(d) /\ d # e
      BY <1>3, <1>5, <2>1
    <3>2. LremOwed(d) /\ Head(plan).entry # d
      BY <1>4, <3>1 DEF Ledger, Listed
    <3> QED
      BY <1>1, <1>2, <3>2, StillOwed DEF LremOwed
  <2>4. \A n \in 1..Len(plan') : plan'[n].kind = "lrem" => Settled(plan[n].entry.id)'
    BY <1>2, <1>7 DEF Ledger, Listed, Settled
  <2> QED
    BY <1>2, <2>1, <2>2, <2>3, <2>4 DEF Listed
<1>10. Refunds'
  <2>1. \A d : AwardOwed(d) => AwardOwed(d)'
    BY <1>1, <1>2, StillOwed DEF AwardOwed
  <2> QED
    BY <1>2, <1>7, <2>1 DEF Ledger, Refunds
<1> QED
  BY <1>8, <1>9, <1>10 DEF Ledger

\* The refund of a timed-out search: the award is the only one owed for it.
LEMMA LedgerRefund ==
  ASSUME Orderly, Serial, Ledger, RefundSave
  PROVE  Ledger'
<1>1. TypeOK
  BY DEF Orderly, Workflow
<1>2. PICK e : e = Head(plan).entry
  OBVIOUS
<1>3. /\ plan # <<>> /\ plan' = Tail(plan) /\ Head(plan).kind = "award"
      /\ refunds' = [refunds EXCEPT ![e.id] = @ + 1]
      /\ UNCHANGED <<queue, opened, charged, matches, expiries>>
  BY <1>2 DEF RefundSave, Doing, Next1, Serial
<1>4. Head(plan) = plan[1] /\ 1 \in 1..Len(plan)
  BY <1>1, <1>3, TailOwes
<1>5. e \in Entry /\ e \in opened /\ e.id \in Ids /\ expiries[e.id] = 1 /\ refunds[e.id] = 0
  BY <1>1, <1>2, <1>3, <1>4, HeadOp DEF Ledger, Refunds
<1>6. /\ refunds'[e.id] = 1
      /\ \A i \in Ids : i # e.id => refunds'[i] = refunds[i]
  BY <1>1, <1>3, <1>5 DEF TypeOK
<1>7. \A d \in opened \cup charged : d \in Entry /\ d.id \in Ids /\ (d.id = e.id => d = e)
  BY <1>5 DEF Orderly, Workflow, Numbered, TypeOK, Entry
<1>8. \A n \in 1..Len(plan') : n + 1 \in 1..Len(plan) /\ plan'[n] = plan[n + 1]
  BY <1>1, <1>3, TailOwes
<1>9. Fates'
  <2>1. matches[e.id] = 0 /\ SettledOnce'
    BY <1>1, <1>3, <1>5, <1>6 DEF Ledger, Fates, SettledOnce, TypeOK
  <2> QED
    BY <1>3, <1>5, <1>6, <2>1 DEF Ledger, Fates
<1>10. Listed'
  <2>1. \A d \in opened : InList(d)' = InList(d) /\ Settled(d.id)' = Settled(d.id)
    BY <1>3 DEF InList, Settled
  <2>2. \A n \in 1..Len(plan') : plan'[n].kind = "lrem" => Settled(plan[n].entry.id)'
    BY <1>3, <1>8 DEF Ledger, Listed, Settled
  <2>3. \A d : LremOwed(d) => LremOwed(d)'
    BY <1>1, <1>3, StillOwed DEF LremOwed
  <2> QED
    BY <1>3, <2>1, <2>2, <2>3 DEF Ledger, Listed
<1>11. Refunds'
  <2>1. \A d \in charged' : expiries'[d.id] > 0
          => refunds'[d.id] = expiries'[d.id] \/ AwardOwed(d)'
    <3> SUFFICES ASSUME NEW d \in charged, expiries[d.id] > 0, d # e
                 PROVE  refunds'[d.id] = expiries[d.id] \/ AwardOwed(d)'
      BY <1>3, <1>5, <1>6
    <3>1. refunds'[d.id] = refunds[d.id]
      BY <1>6, <1>7
    <3>2. AwardOwed(d) => AwardOwed(d)'
      BY <1>1, <1>2, <1>3, StillOwed DEF AwardOwed
    <3> QED
      BY <3>1, <3>2 DEF Ledger, Refunds
  <2>2. ASSUME NEW n \in 1..Len(plan'), plan'[n].kind = "award"
        PROVE  /\ plan'[n].entry \in opened'
               /\ expiries'[plan'[n].entry.id] = 1 /\ refunds'[plan'[n].entry.id] = 0
    <3>1. n + 1 \in 1..Len(plan) /\ n + 1 # 1 /\ plan'[n] = plan[n + 1]
      BY <1>8
    <3>2. plan'[n].entry # e
      BY <1>2, <1>3, <1>4, <2>2, <3>1 DEF Orderly, QueueInv, PlanShape
    <3>3. plan'[n].entry \in opened /\ plan'[n].entry.id # e.id
      BY <1>7, <2>2, <3>1, <3>2 DEF Ledger, Refunds
    <3> QED
      BY <1>3, <1>6, <1>7, <2>2, <3>1, <3>3 DEF Ledger, Refunds
  <2> QED
    BY <2>1, <2>2 DEF Refunds
<1> QED
  BY <1>9, <1>10, <1>11 DEF Ledger

\* A new entry: nothing was decided of it, and it is in its list.
LEMMA LedgerEnqueue ==
  ASSUME Orderly, Ledger, NEW h \in Handlers, EnqueueChat(h)
  PROVE  Ledger'
<1>1. TypeOK /\ OneJob /\ job[h] \in SearchJob
  BY SearchingJob DEF Orderly, Workflow, EnqueueChat, At, SearchSteps
<1>2. PICK e : e = entryOf(job[h])
  OBVIOUS
<1>3. /\ e \in Entry /\ e.id = job[h].id /\ e.filter \in Filters /\ e.id \in Ids
  BY <1>1, <1>2, EntryOfType DEF entryOf, Entry
<1>4. /\ queue' = [queue EXCEPT ![e.filter] = Append(queue[e.filter], e)]
      /\ opened' = opened \cup {e} /\ job[h].pc = "enqueue"
      /\ UNCHANGED <<plan, charged, matches, expiries, refunds>>
  BY <1>2 DEF EnqueueChat, At
<1>5. \A d \in opened : d.id # e.id /\ d \in Entry
  BY <1>1, <1>3, <1>4 DEF OneJob, SearchSteps, Opening, TypeOK
<1>6. matches[e.id] = 0 /\ expiries[e.id] = 0 /\ refunds[e.id] = 0
  BY <1>3, <1>5 DEF Ledger, Fates
<1>7. /\ queue[e.filter] \in Seq(Entry) /\ Len(queue[e.filter]) \in Nat
      /\ queue'[e.filter] = Append(queue[e.filter], e)
      /\ \A f \in Filters : f # e.filter => queue'[f] = queue[f]
  BY <1>1, <1>3, <1>4, ListAt DEF TypeOK
<1>8. /\ Len(queue'[e.filter]) = Len(queue[e.filter]) + 1
      /\ queue'[e.filter][Len(queue[e.filter]) + 1] = e
      /\ \A k \in 1..Len(queue[e.filter]) : queue'[e.filter][k] = queue[e.filter][k]
  BY <1>3, <1>7, AppendProperties
<1>9. /\ InList(e)'
      /\ \A d \in Entry : d # e => InList(d)' = InList(d)
  <2>1. Len(queue[e.filter]) + 1 \in 1..Len(queue'[e.filter])
    BY <1>7, <1>8
  <2>2. ASSUME NEW d \in Entry, d # e
        PROVE  InList(d)' = InList(d)
    <3>1. CASE d.filter = e.filter
      <4>1. \A k \in 1..Len(queue'[e.filter]) :
              k \in 1..Len(queue[e.filter]) \/ k = Len(queue[e.filter]) + 1
        BY <1>7, <1>8
      <4>2. \A k \in 1..Len(queue[e.filter]) : k \in 1..Len(queue'[e.filter])
        BY <1>7, <1>8
      <4> QED
        BY <1>8, <2>2, <3>1, <4>1, <4>2 DEF InList
    <3>2. CASE d.filter # e.filter
      BY <1>7, <3>2 DEF InList, Entry
    <3> QED
      BY <3>1, <3>2
  <2> QED
    BY <1>8, <2>1, <2>2 DEF InList
<1>10. Fates'
  BY <1>3, <1>4, <1>6 DEF Ledger, Fates, SettledOnce
<1>11. Listed'
  <2>1. \A d \in opened' : Settled(d.id)' = Settled(d.id) /\ LremOwed(d)' = LremOwed(d)
    BY <1>4 DEF Settled, LremOwed
  <2>2. ~Settled(e.id)
    BY <1>6 DEF Settled
  <2>3. \A d \in opened : d # e /\ (InList(d)' = InList(d))
    BY <1>5, <1>9
  <2>4. \A n \in 1..Len(plan') : plan'[n].kind = "lrem" => Settled(plan[n].entry.id)'
    BY <1>4 DEF Ledger, Listed, Settled
  <2> QED
    BY <1>4, <1>9, <2>1, <2>2, <2>3, <2>4 DEF Ledger, Listed
<1>12. Refunds'
  BY <1>4 DEF Ledger, Refunds, AwardOwed
<1> QED
  BY <1>10, <1>11, <1>12 DEF Ledger

\* A search is charged before it reaches a queue, so before anything of it is decided.
LEMMA LedgerCharge ==
  ASSUME Orderly, Serial, Ledger, NEW h \in Handlers, DeductSave(h)
  PROVE  Ledger'
<1>1. TypeOK /\ OneJob /\ job[h] \in SearchJob
  BY SearchingJob DEF Orderly, Workflow, DeductSave, At, SearchSteps
<1>2. PICK e : e = entryOf(job[h])
  OBVIOUS
<1>3. e.id = job[h].id /\ e.id \in Ids
  BY <1>1, <1>2, EntryOfType DEF entryOf, Entry
<1>4. /\ charged' = charged \cup {e} /\ job[h].pc = "charge"
      /\ UNCHANGED <<queue, plan, opened, matches, expiries, refunds>>
  BY <1>2 DEF DeductSave, At, Serial
<1>5. expiries[e.id] = 0
  BY <1>1, <1>3, <1>4 DEF OneJob, SearchSteps, Opening, Ledger, Fates
<1>6. Fates'
  BY <1>4 DEF Ledger, Fates, SettledOnce
<1>7. Listed'
  BY <1>4 DEF Ledger, Listed, InList, Settled, LremOwed
<1>8. Refunds'
  BY <1>4, <1>5 DEF Ledger, Refunds, AwardOwed
<1> QED
  BY <1>6, <1>7, <1>8 DEF Ledger

LEMMA LedgerStep ==
  ASSUME Orderly, Serial, Ledger, [Next]_vars
  PROVE  Ledger'
<1>1. TypeOK
  BY DEF Orderly, Workflow
<1>2. CASE UNCHANGED <<queue, plan, opened, charged, matches, expiries, refunds>>
  BY <1>2, LedgerUntouched
<1>3. ASSUME NEW h \in Handlers, HandlerStep(h)
      PROVE  Ledger'
  <2>1. ~EnqueueChatFails(h) /\ ~EnqueueRefundRead(h) /\ ~EnqueueRefundSave(h)
    BY DEF EnqueueChatFails, EnqueueRefundRead, EnqueueRefundSave, Serial, At, Orderly,
       Workflow, OneJob, SearchSteps
  <2>2. CASE \/ CheckInQueue(h) \/ CheckActiveChat(h) \/ DeductRead(h) \/ JoinQueue(h)
             \/ EndChatRead(h) \/ EndChatDelete(h)
    BY <1>2, <2>2 DEF CheckInQueue, CheckActiveChat, DeductRead, JoinQueue, EndChatRead,
       EndChatDelete
  <2> QED
    BY <1>3, <2>1, <2>2, LedgerEnqueue, LedgerCharge DEF HandlerStep
<1>4. ASSUME WorkerStep
      PROVE  Ledger'
  <2>1. CASE GetWaitingFilter \/ RemoveWaitingState \/ LeaveQueue \/ RefundRead
    <3>1. /\ plan # <<>> /\ plan' = Tail(plan) /\ Head(plan).kind \notin {"lrem", "award"}
          /\ UNCHANGED <<queue, opened, charged, matches, expiries, refunds>>
      BY <2>1 DEF GetWaitingFilter, RemoveWaitingState, LeaveQueue, RefundRead, Doing,
         Next1, Serial
    <3> QED
      BY <3>1, LedgerRoundTrip
  <2>2. CASE \/ Tick \/ SplitBatch \/ ExpiryDone \/ TickDone
             \/ \E f \in Filters : ReadList(f)
    BY <1>2, <2>2 DEF Tick, SplitBatch, ExpiryDone, TickDone, ReadList
  <2>3. \A i, j \in fresh : ~CreateMatchFails(i, j)
    BY DEF CreateMatchFails, Serial
  <2> QED
    BY <1>4, <2>1, <2>2, <2>3, LedgerExpire, LedgerMatch, LedgerRemove, LedgerRefund
       DEF WorkerStep
<1>5. ~ \E long \in BOOLEAN : Restart(long)
  BY <1>1 DEF Serial, Restart, TypeOK
<1>6. CASE UserStep
  BY <1>2, <1>6 DEF UserStep, StartEndChat, StartSearch, AcceptChat
<1>7. CASE \/ \E i \in Ids : Age(i)
           \/ \E u \in Users : FlagExpires(u) \/ ChatExpires(u)
           \/ UNCHANGED vars
  BY <1>2, <1>7 DEF Age, FlagExpires, ChatExpires, vars
<1> QED
  BY <1>3, <1>4, <1>5, <1>6, <1>7 DEF Next

LEMMA LedgerInit == Init => Ledger
  BY DEF Init, Ledger, Fates, SettledOnce, Listed, Refunds

LEMMA AlwaysLedger == Spec /\ Serial => [](Orderly /\ Ledger /\ Serial)
<1>1. (Orderly /\ Ledger /\ Serial) /\ [Next]_vars => (Orderly /\ Ledger /\ Serial)'
  BY OrderlyStep, LedgerStep DEF Serial
<1> QED
  BY <1>1, OrderlyInit, LedgerInit, PTL DEF Spec

\* A search is matched or timed out, one of the two and once, and its cost comes
\* back at most once and only for a time-out: what the worker has decided of is
\* out of its list before the next tick reads it (createMatch, expireStaleEntries).
THEOREM EachSettledOnce == Spec /\ Serial => []SettledOnce
<1>1. Orderly /\ Ledger /\ Serial => SettledOnce
  BY DEF Ledger, Fates
<1> QED
  BY <1>1, AlwaysLedger, PTL

LEMMA LedgerAnswers ==
  ASSUME Orderly, Ledger
  PROVE  NoSearchLost
<1>1. TypeOK
  BY DEF Orderly, Workflow
<1>2. \A e \in opened : Live(e.id) \/ matches[e.id] + expiries[e.id] > 0
  BY <1>1 DEF Ledger, Listed, Settled, InList, Live, TypeOK, Entry
<1>3. phase = "idle" =>
        \A e \in charged : expiries[e.id] > 0 => refunds[e.id] = expiries[e.id]
  BY <1>1 DEF Ledger, Refunds, AwardOwed, TypeOK
<1> QED
  BY <1>2, <1>3 DEF NoSearchLost

\* No search is lost: it is in a queue until it is matched or timed out, and
\* between two ticks every timed-out search that was paid for has been refunded,
\* whatever handlers came between the worker's round trips.
THEOREM NoneLost == Spec /\ Serial => []NoSearchLost
<1>1. Orderly /\ Ledger /\ Serial => NoSearchLost
  BY LedgerAnswers
<1> QED
  BY <1>1, AlwaysLedger, PTL

-----------------------------------------------------------------------------
(* Chats, when they are brought about by the worker alone.                 *)

\* An entry of u that is still listed is about to be taken out.
Leaving(u) == Queued(u) => Owes({"lrem"}, u)

\* Whoever chats is in no queue, and whoever is about to queue does not chat.
Free ==
    /\ \A u \in Users : active[u] # None => Leaving(u)
    /\ \A h \in Handlers : job[h].pc \in {"deduct", "charge", "enqueue"}
         => active[job[h].user] = None

\* Only EnqueueChat puts a user in a queue, and an LREM is owed until it is made.
LEMMA LeavingStays ==
  ASSUME Orderly, Serial, [Next]_vars, NEW u \in Users, Leaving(u),
         \A h \in Handlers : EnqueueChat(h) => job[h].user # u
  PROVE  Leaving(u)'
<1>1. TypeOK
  BY DEF Orderly, Workflow
<1>2. CASE UNCHANGED <<queue, plan>>
  BY <1>2 DEF Leaving, Queued, Owes
<1>3. CASE plan = <<>> /\ queue' = queue
  BY <1>3 DEF Leaving, Queued, Owes
<1>4. ASSUME NEW h \in Handlers, EnqueueChat(h)
      PROVE  Leaving(u)'
  <2>1. job[h] \in SearchJob /\ job[h].user # u
    BY <1>1, <1>4, SearchingJob DEF EnqueueChat, At, SearchSteps
  <2>2. PICK e : e = entryOf(job[h])
    OBVIOUS
  <2>3. /\ e \in Entry /\ e.user # u /\ e.filter \in Filters
        /\ queue' = [queue EXCEPT ![e.filter] = Append(queue[e.filter], e)]
        /\ plan' = plan
    BY <1>1, <1>4, <2>1, <2>2, EntryOfType DEF EnqueueChat, entryOf, Entry
  <2>4. /\ queue[e.filter] \in Seq(Entry) /\ Len(queue[e.filter]) \in Nat
        /\ queue'[e.filter] = Append(queue[e.filter], e)
        /\ \A f \in Filters : f # e.filter => queue'[f] = queue[f]
    BY <1>1, <2>3, ListAt DEF TypeOK
  <2>5. \A k \in 1..Len(queue'[e.filter]) :
          \/ queue'[e.filter][k] = e
          \/ k \in 1..Len(queue[e.filter]) /\ queue'[e.filter][k] = queue[e.filter][k]
    BY <2>3, <2>4, AppendProperties
  <2>6. Queued(u)' => Queued(u)
    BY <2>3, <2>4, <2>5 DEF Queued
  <2> QED
    BY <2>3, <2>6 DEF Leaving, Owes
<1>5. ASSUME plan # <<>>, plan' = Tail(plan),
             RemoveEntry \/ (queue' = queue /\ Head(plan).kind # "lrem")
      PROVE  Leaving(u)'
  <2>1. /\ Head(plan) = plan[1]
        /\ \A n \in 1..Len(plan) :
             n # 1 => n - 1 \in 1..Len(plan') /\ plan'[n - 1] = plan[n]
    BY <1>1, <1>5, TailOwes
  <2>2. CASE RemoveEntry
    <3>1. Queued(u)' => Queued(u) /\ u # Client
      BY <2>2, OrderlyRemove
    <3>2. u # Client /\ Owes({"lrem"}, u) => Owes({"lrem"}, u)'
      BY <2>1 DEF Owes, Client
    <3> QED
      BY <3>1, <3>2 DEF Leaving
  <2>3. CASE queue' = queue /\ Head(plan).kind # "lrem"
    <3>1. Owes({"lrem"}, u) => Owes({"lrem"}, u)'
      BY <2>1, <2>3 DEF Owes
    <3> QED
      BY <2>3, <3>1 DEF Leaving, Queued
  <2> QED
    BY <1>5, <2>2, <2>3
<1>6. CASE UserStep \/ \E h \in Handlers : HandlerStep(h)
  BY <1>2, <1>4, <1>6 DEF UserStep, StartEndChat, StartSearch, AcceptChat,
     HandlerStep, CheckInQueue, CheckActiveChat, DeductRead, DeductSave, EnqueueChatFails,
     EnqueueRefundRead, EnqueueRefundSave, JoinQueue, EndChatRead, EndChatDelete
<1>7. CASE WorkerStep
  <2>1. CASE \/ RemoveEntry \/ GetWaitingFilter \/ RemoveWaitingState \/ LeaveQueue
             \/ RefundRead \/ RefundSave
    BY <1>5, <2>1 DEF GetWaitingFilter, RemoveEntry, RemoveWaitingState, LeaveQueue,
       RefundRead, RefundSave, Doing, Next1, Serial
  <2> QED
    BY <1>2, <1>3, <1>7, <2>1 DEF WorkerStep, Tick, ReadList, SplitBatch, ExpireEntry,
       ExpiryDone, CreateMatch, CreateMatchFails, TickDone
<1>8. CASE \/ \E i \in Ids : Age(i)
           \/ \E v \in Users : FlagExpires(v) \/ ChatExpires(v)
           \/ UNCHANGED vars
  BY <1>2, <1>8 DEF Age, FlagExpires, ChatExpires, vars
<1>9. ~ \E long \in BOOLEAN : Restart(long)
  BY <1>1 DEF Serial, Restart, TypeOK
<1> QED
  BY <1>6, <1>7, <1>8, <1>9 DEF Next

\* A chat starts for two users of different entries whom nothing is owed yet ...
LEMMA MatchedAreFree ==
  ASSUME Orderly, Free, NEW i \in fresh, NEW j \in fresh, CreateMatch(i, j)
  PROVE  /\ batch[i].user \in Users /\ batch[j].user \in Users
         /\ batch[i].user # batch[j].user
         /\ Queued(batch[i].user) /\ Queued(batch[j].user)
         /\ ~Owes({"lrem"}, batch[i].user) /\ ~Owes({"lrem"}, batch[j].user)
         /\ active[batch[i].user] = None /\ active[batch[j].user] = None
<1>1. TypeOK /\ QueueInv
  BY DEF Orderly, Workflow
<1>2. PICK d, e : d = batch[i] /\ e = batch[j]
  OBVIOUS
<1>3. d \in Entry /\ e \in Entry /\ d.user \in Users /\ e.user \in Users
  BY <1>1, <1>2, BatchEntry DEF TypeOK
<1>4. Queued(d.user) /\ Queued(e.user)
  BY <1>1, <1>2, <1>3, ListedIsQueued DEF QueueInv, Collected
<1>5. d.user # e.user /\ plan = <<>>
  BY <1>2 DEF CreateMatch, NextPair, Partners, isCompatible
<1>6. ~Owes({"lrem"}, d.user) /\ ~Owes({"lrem"}, e.user)
  BY <1>5 DEF Owes
<1> QED
  BY <1>2, <1>3, <1>4, <1>5, <1>6 DEF Free, Leaving

\* ... and no other step, while no request is accepted, makes an active_chat key.
LEMMA OnlyMatchesStartChats ==
  ASSUME Orderly, Serial, Requests = {}, [Next]_vars, NEW u \in Users,
         \A i, j \in fresh : CreateMatch(i, j) => u \notin {batch[i].user, batch[j].user}
  PROVE  active'[u] \in {active[u], None}
<1>1. TypeOK
  BY DEF Orderly, Workflow
<1>2. ASSUME NEW h \in Handlers, HandlerStep(h)
      PROVE  active'[u] \in {active[u], None}
  BY <1>1, <1>2 DEF HandlerStep, CheckInQueue, CheckActiveChat, DeductRead, DeductSave,
     EnqueueChat, EnqueueChatFails, EnqueueRefundRead, EnqueueRefundSave, JoinQueue,
     EndChatRead, EndChatDelete
<1>3. CASE UserStep
  BY <1>3 DEF UserStep, StartEndChat, StartSearch, AcceptChat
<1>4. CASE WorkerStep
  <2>1. ASSUME NEW i \in fresh, NEW j \in fresh, CreateMatch(i, j)
        PROVE  active'[u] \in {active[u], None}
    BY <2>1 DEF CreateMatch, SetActiveChat
  <2>2. ASSUME ~ \E i, j \in fresh : CreateMatch(i, j) PROVE active' = active
    BY <1>4, <2>2 DEF WorkerStep, Tick, ReadList, SplitBatch, ExpireEntry, ExpiryDone,
       CreateMatchFails, TickDone, GetWaitingFilter, RemoveEntry, RemoveWaitingState,
       LeaveQueue, RefundRead, RefundSave, store
  <2> QED
    BY <2>1, <2>2
<1>5. CASE \/ \E i \in Ids : Age(i)
           \/ \E v \in Users : FlagExpires(v) \/ ChatExpires(v)
           \/ UNCHANGED vars
  BY <1>5 DEF Age, FlagExpires, ChatExpires, vars
<1>6. ~ \E long \in BOOLEAN : Restart(long)
  BY <1>1 DEF Serial, Restart, TypeOK
<1> QED
  BY <1>2, <1>3, <1>4, <1>5, <1>6 DEF Next

LEMMA FreeStep ==
  ASSUME Orderly, Serial, Requests = {}, Free, [Next]_vars
  PROVE  Free'
<1> DEFINE Waits == {"deduct", "charge", "enqueue"}
<1>1. TypeOK
  BY DEF Orderly, Workflow
<1>2. ASSUME NEW u \in Users, active'[u] # None
      PROVE  Leaving(u)'
  <2>1. ASSUME NEW i \in fresh, NEW j \in fresh, CreateMatch(i, j),
               u \in {batch[i].user, batch[j].user}
        PROVE  Leaving(u)'
    <3>1. PICK d, e : d = batch[i] /\ e = batch[j]
      OBVIOUS
    <3>2. plan' = matchPlan(d, e) /\ u \in {d.user, e.user}
      BY <2>1, <3>1 DEF CreateMatch, matchPlan
    <3>3. /\ Len(plan') = 8 /\ plan'[2] = RoundTrip("lrem", d)
          /\ plan'[5] = RoundTrip("lrem", e)
      BY <3>2, MatchPlan
    <3>4. 2 \in 1..Len(plan') /\ 5 \in 1..Len(plan')
      BY <3>3
    <3> QED
      BY <3>2, <3>3, <3>4 DEF Leaving, Owes, RoundTrip
  <2>2. ASSUME \A i, j \in fresh : CreateMatch(i, j) => u \notin {batch[i].user, batch[j].user}
        PROVE  Leaving(u)'
    <3>1. active[u] # None
      BY <1>2, <2>2, OnlyMatchesStartChats
    <3>2. \A h \in Handlers : EnqueueChat(h) => job[h].user # u
      BY <3>1 DEF EnqueueChat, At, Free
    <3> QED
      BY <3>1, <3>2, LeavingStays DEF Free
  <2> QED
    BY <2>1, <2>2
<1>3. ASSUME NEW h \in Handlers, NEW r, job' = [job EXCEPT ![h] = r],
             r.pc \in Waits => active[r.user] = None, active' = active
      PROVE  \A g \in Handlers : job'[g].pc \in Waits => active'[job'[g].user] = None
  BY <1>1, <1>3, JobAt DEF Free
<1>4. ASSUME NEW h \in Handlers, HandlerStep(h)
      PROVE  \A g \in Handlers : job'[g].pc \in Waits => active'[job'[g].user] = None
  <2>1. CASE EndChatDelete(h)
    <3>1. /\ job' = [job EXCEPT ![h] = Idle]
          /\ \A u \in Users : active'[u] \in {active[u], None}
      BY <1>1, <2>1 DEF EndChatDelete, Return, Serial, TypeOK
    <3>2. \A g \in Handlers : job'[g].pc \in Waits => job'[g] = job[g]
      BY <1>1, <3>1, JobAt DEF Idle
    <3>3. \A g \in Handlers : job[g].pc \in Waits => job[g].user \in Users
      BY <1>1, JobUser
    <3> QED
      BY <3>1, <3>2, <3>3 DEF Free
  <2>2. CASE CheckActiveChat(h)
    <3>1. PICK r : /\ job' = [job EXCEPT ![h] = r]
                   /\ r.pc \in Waits => active[r.user] = None
      <4>1. CASE job' = [job EXCEPT ![h] = Idle]
        <5>1. Idle.pc = "idle"
          BY DEF Idle
        <5> QED
          BY <4>1, <5>1
      <4>2. CASE active[job[h].user] = None /\ \E pc : Goto(h, pc)
        <5>1. PICK pc : Goto(h, pc)
          BY <4>2
        <5>2. job' = [job EXCEPT ![h] = [job[h] EXCEPT !.pc = pc]]
          BY <5>1 DEF Goto
        <5>3. [job[h] EXCEPT !.pc = pc].user = job[h].user
          BY <1>1, <2>2, SearchingJob DEF CheckActiveChat, At, SearchSteps, SearchJob
        <5> QED
          BY <4>2, <5>2, <5>3
      <4> QED
        BY <2>2, <4>1, <4>2 DEF CheckActiveChat, Return
    <3> QED
      BY <1>3, <2>2, <3>1 DEF CheckActiveChat
  <2>3. CASE \/ CheckInQueue(h) \/ DeductRead(h) \/ DeductSave(h) \/ EnqueueChat(h)
             \/ JoinQueue(h) \/ EndChatRead(h)
    <3>1. PICK r : /\ job' = [job EXCEPT ![h] = r]
                   /\ r.pc \in Waits => r.user = job[h].user /\ job[h].pc \in Waits
      <4>1. CASE job' = [job EXCEPT ![h] = Idle]
        <5>1. Idle.pc = "idle"
          BY DEF Idle
        <5> QED
          BY <4>1, <5>1
      <4>2. CASE CheckInQueue(h) /\ Goto(h, "checkChat")
        <5>1. job' = [job EXCEPT ![h] = [job[h] EXCEPT !.pc = "checkChat"]]
          BY <4>2 DEF Goto
        <5>2. [job[h] EXCEPT !.pc = "checkChat"].pc = "checkChat"
          BY <1>1, <4>2, SearchingJob DEF CheckInQueue, At, SearchSteps, SearchJob
        <5> QED
          BY <5>1, <5>2
      <4>3. CASE DeductRead(h) /\ ~Return(h)
        <5> DEFINE r == [job[h] EXCEPT !.pc = "charge", !.snap = coins[job[h].user]]
        <5>1. job' = [job EXCEPT ![h] = r] /\ job[h].pc = "deduct"
          BY <4>3 DEF DeductRead, At, Return
        <5>2. r.user = job[h].user
          BY <1>1, <5>1, SearchingJob DEF SearchSteps, SearchJob
        <5> HIDE DEF r
        <5> QED
          BY <5>1, <5>2
      <4>4. CASE DeductSave(h)
        <5> DEFINE r == [job[h] EXCEPT !.pc = "enqueue"]
        <5>1. job' = [job EXCEPT ![h] = r] /\ job[h].pc = "charge"
          BY <4>4 DEF DeductSave, At, Goto, Serial
        <5>2. r.user = job[h].user
          BY <1>1, <5>1, SearchingJob DEF SearchSteps, SearchJob
        <5> HIDE DEF r
        <5> QED
          BY <5>1, <5>2
      <4>5. CASE EnqueueChat(h)
        <5>1. job' = [job EXCEPT ![h] = [job[h] EXCEPT !.pc = "mark"]]
          BY <4>5 DEF EnqueueChat, Goto
        <5>2. [job[h] EXCEPT !.pc = "mark"].pc = "mark"
          BY <1>1, <4>5, SearchingJob DEF EnqueueChat, At, SearchSteps, SearchJob
        <5> QED
          BY <5>1, <5>2
      <4>6. CASE EndChatRead(h)
        <5> DEFINE r == [job[h] EXCEPT !.pc = "endDelete", !.chat = active[job[h].user]]
        <5>1. job' = [job EXCEPT ![h] = r]
          BY <4>6 DEF EndChatRead, Serial
        <5>2. r.pc = "endDelete"
          BY <1>1, <4>6, EndingJob DEF EndChatRead, At, EndSteps, EndJob
        <5> HIDE DEF r
        <5> QED
          BY <5>1, <5>2
      <4> QED
        BY <2>3, <4>1, <4>2, <4>3, <4>4, <4>5, <4>6 DEF CheckInQueue, JoinQueue, Return
    <3>2. active' = active
      BY <2>3 DEF CheckInQueue, DeductRead, DeductSave, EnqueueChat, JoinQueue, EndChatRead
    <3> QED
      BY <1>3, <3>1, <3>2 DEF Free
  <2>4. ~EnqueueChatFails(h) /\ ~EnqueueRefundRead(h) /\ ~EnqueueRefundSave(h)
    BY DEF EnqueueChatFails, EnqueueRefundRead, EnqueueRefundSave, Serial, At, Orderly,
       Workflow, OneJob, SearchSteps
  <2> QED
    BY <1>4, <2>1, <2>2, <2>3, <2>4 DEF HandlerStep
<1>5. CASE UserStep
  <2>1. ASSUME NEW h \in Handlers, NEW u \in Users, StartEndChat(h, u)
        PROVE  \A g \in Handlers : job'[g].pc \in Waits => active'[job'[g].user] = None
    <3>1. job' = [job EXCEPT ![h] = [Idle EXCEPT !.pc = "endRead", !.user = u]]
          /\ active' = active
      BY <2>1 DEF StartEndChat
    <3>2. [Idle EXCEPT !.pc = "endRead", !.user = u].pc = "endRead"
      BY DEF Idle
    <3> QED
      BY <1>3, <3>1, <3>2
  <2>2. ASSUME NEW h \in Handlers, NEW u \in Users, NEW f \in Filters, StartSearch(h, u, f)
        PROVE  \A g \in Handlers : job'[g].pc \in Waits => active'[job'[g].user] = None
    <3> DEFINE r == [pc |-> "checkQueue", user |-> u, filter |-> f, id |-> searches + 1,
                     snap |-> 0, chat |-> None]
    <3>1. job' = [job EXCEPT ![h] = r] /\ active' = active /\ r.pc = "checkQueue"
      BY <2>2 DEF StartSearch
    <3> HIDE DEF r
    <3> QED
      BY <1>3, <3>1
  <2> QED
    BY <1>2, <1>5, <2>1, <2>2 DEF UserStep, AcceptChat, Free
<1>6. CASE WorkerStep
  <2>1. job' = job
    BY <1>6 DEF WorkerStep, Tick, ReadList, SplitBatch, ExpireEntry, ExpiryDone,
       CreateMatch, CreateMatchFails, TickDone, GetWaitingFilter, RemoveEntry,
       RemoveWaitingState, LeaveQueue, RefundRead, RefundSave
  <2>2. ASSUME NEW g \in Handlers, job[g].pc \in Waits
        PROVE  active'[job[g].user] = None
    <3>1. PICK u : u = job[g].user
      OBVIOUS
    <3>2. u \in Users /\ active[u] = None
      BY <1>1, <2>2, <3>1, JobUser DEF Free
    <3>3. ~Queued(u)
      BY <2>2, <3>1 DEF Orderly, Flags, Busy
    <3>4. \A i, j \in fresh : CreateMatch(i, j) => u \notin {batch[i].user, batch[j].user}
      BY <3>3, MatchedAreFree
    <3> QED
      BY <3>1, <3>2, <3>4, OnlyMatchesStartChats
  <2> QED
    BY <1>2, <2>1, <2>2 DEF Free
<1>7. CASE \/ \E i \in Ids : Age(i)
           \/ \E v \in Users : FlagExpires(v) \/ ChatExpires(v)
           \/ UNCHANGED vars
  <2>1. job' = job /\ \A v \in Users : active'[v] \in {active[v], None}
    BY <1>7 DEF Age, FlagExpires, ChatExpires, vars
  <2>2. \A g \in Handlers : job[g].pc \in Waits => job[g].user \in Users
    BY <1>1, JobUser
  <2> QED
    BY <1>2, <2>1, <2>2 DEF Free
<1>8. ~ \E long \in BOOLEAN : Restart(long)
  BY <1>1 DEF Serial, Restart, TypeOK
<1> QED
  BY <1>2, <1>4, <1>5, <1>6, <1>7, <1>8 DEF Next, Free

LEMMA FreeInit == Init => Free
  BY DEF Init, Free, Idle

LEMMA AlwaysFree ==
  Spec /\ Serial /\ Requests = {} => [](Orderly /\ Free /\ Serial /\ Requests = {})
<1>1. (Orderly /\ Free /\ Serial /\ Requests = {}) /\ [Next]_vars
        => (Orderly /\ Free /\ Serial /\ Requests = {})'
  BY OrderlyStep, FreeStep DEF Serial
<1> QED
  BY <1>1, OrderlyInit, FreeInit, PTL DEF Spec

\* Where chats come from matches only, a user who chats is in no queue, except
\* while the worker still owes the LREM of the entry that brought the chat about:
\* joinQueue asks active_chat after in_queue, and nobody can be matched between.
THEOREM ChattingUsersLeave == Spec /\ Serial /\ Requests = {} => []QueuedUsersAreFree
<1>1. Orderly /\ Free /\ Serial /\ Requests = {} => QueuedUsersAreFree
  BY DEF Free, Leaving, Owes, QueuedUsersAreFree
<1> QED
  BY <1>1, AlwaysFree, PTL

\* And a chat is not replaced: createMatch finds both keys absent.
THEOREM ChatsNotReplaced == Spec /\ Serial /\ Requests = {} => ChatNotReplaced
<1>1. ASSUME Orderly, Free, Serial, Requests = {}, [Next]_vars, NEW u \in Users,
             active[u] # None, active'[u] # None
      PROVE  active'[u] = active[u]
  <2>1. \A i, j \in fresh : CreateMatch(i, j) => u \notin {batch[i].user, batch[j].user}
    BY <1>1, MatchedAreFree
  <2> QED
    BY <1>1, <2>1, OnlyMatchesStartChats
<1>2. (Orderly /\ Free /\ Serial /\ Requests = {}) /\ [Next]_vars
        => [\A u \in Users : active[u] # None /\ active'[u] # None
              => active'[u] = active[u]]_active
  BY <1>1
<1> QED
  BY <1>2, AlwaysFree, PTL DEF Spec, ChatNotReplaced

-----------------------------------------------------------------------------
(* The pairing rules.                                                      *)

\* When one of two searchers asked for anybody, the worker pairs them only if the
\* other's gender, or filter, is what was asked for: of the batch it needs only
\* that the genders are genders (isCompatible).
THEOREM RandomSearchersFit == Spec => []RandomSideFits
<1>1. TypeOK => RandomSideFits
  <2> SUFFICES ASSUME TypeOK, NEW i \in fresh, NEW j \in fresh,
                      NEW f \in AllFilters, NEW g \in AllFilters,
                      "random" \in {f, g}, Paired(i, f, j, g)
               PROVE  Grants(i, f, j) /\ Grants(j, g, i)
    BY DEF RandomSideFits
  <2>1. /\ batch[i] \in Entry /\ batch[j] \in Entry
        /\ batch[i].gender \in Genders /\ batch[j].gender \in Genders
    BY BatchEntry DEF TypeOK, Entry
  <2>2. isCompatible(Searching(i, f), Searching(j, g))
    BY DEF Paired
  <2>3. /\ Searching(i, f).filter = f /\ Searching(i, f).gender = batch[i].gender
        /\ Searching(j, g).filter = g /\ Searching(j, g).gender = batch[j].gender
    BY <2>1 DEF Searching, Entry
  <2>4. CASE f = "random" /\ g = "random"
    BY <2>4 DEF Grants, wanted
  <2>5. CASE f = "random" /\ g # "random"
    <3>1. batch[i].gender = g
      BY <2>2, <2>3, <2>5 DEF isCompatible
    <3> QED
      BY <2>1, <2>5, <3>1 DEF Grants, wanted, AllFilters, Genders
  <2>6. CASE f # "random" /\ g = "random"
    <3>1. batch[j].gender = f
      BY <2>2, <2>3, <2>6 DEF isCompatible
    <3> QED
      BY <2>1, <2>6, <3>1 DEF Grants, wanted, AllFilters, Genders
  <2> QED
    BY <2>4, <2>5, <2>6
<1> QED
  BY <1>1, TypeCorrect, PTL

\* Reading the lists in another order pairs the same searches, but for the plain
\* "nearby" ones, which isComplementaryFilter's table knows on one side only.
THEOREM OrderSeldomMatters == Spec => []OrderMattersOnlyForNearby
<1>1. TypeOK => OrderMattersOnlyForNearby
  <2> SUFFICES ASSUME TypeOK, NEW i \in fresh, NEW j \in fresh,
                      NEW f \in AllFilters, NEW g \in AllFilters,
                      "nearby" \notin {f, g}, Paired(i, f, j, g)
               PROVE  Paired(j, g, i, f)
    BY DEF OrderMattersOnlyForNearby
  <2>1. batch[i] \in Entry /\ batch[j] \in Entry
    BY BatchEntry DEF TypeOK
  <2>2. PICK d, e : d = Searching(i, f) /\ e = Searching(j, g)
    OBVIOUS
  <2>3. d.filter = f /\ e.filter = g
    BY <2>1, <2>2 DEF Searching, Entry
  <2>4. isCompatible(d, e)
    BY <2>2 DEF Paired
  <2>5. isComplementaryFilter(f, g) => isComplementaryFilter(g, f)
    BY DEF isComplementaryFilter, complementary
  <2>6. isCompatible(e, d)
    BY <2>3, <2>4, <2>5 DEF isCompatible
  <2> QED
    BY <2>2, <2>6 DEF Paired
<1> QED
  BY <1>1, TypeCorrect, PTL

-----------------------------------------------------------------------------
(* The search contract.                                                    *)

LEMMA OwnerOfEntry ==
  ASSUME NEW O, \A d, e \in O : d.id = e.id => d = e, NEW e \in O
  PROVE  ownerIn(O, e.id) = e.user
<1>1. PICK d : d = CHOOSE x \in O : x.id = e.id
  OBVIOUS
<1>2. d \in O /\ d.id = e.id
  BY <1>1
<1>3. d = e
  BY <1>2
<1> QED
  BY <1>1, <1>3 DEF ownerIn

LEMMA OwnerOfNone ==
  ASSUME NEW O, NEW i, \A e \in O : e.id # i
  PROVE  ownerIn(O, i) = None
  BY DEF ownerIn

\* A search that opens leaves the others' owners alone.
LEMMA OwnersGrow ==
  ASSUME NEW O, NEW e, \A c, d \in O \cup {e} : c.id = d.id => c = d,
         NEW i, i # e.id
  PROVE  ownerIn(O \cup {e}, i) = ownerIn(O, i)
<1>1. CASE \E d \in O : d.id = i
  <2>1. PICK d \in O : d.id = i
    BY <1>1
  <2>2. ownerIn(O, d.id) = d.user
    BY <2>1, OwnerOfEntry
  <2>3. ownerIn(O \cup {e}, d.id) = d.user
    <3>1. PICK P : P = O \cup {e}
      OBVIOUS
    <3>2. d \in P /\ \A c, x \in P : c.id = x.id => c = x
      BY <2>1, <3>1
    <3>3. ownerIn(P, d.id) = d.user
      BY <3>2, OwnerOfEntry
    <3> QED
      BY <3>1, <3>3
  <2> QED
    BY <2>1, <2>2, <2>3
<1>2. CASE \A d \in O : d.id # i
  BY <1>2, OwnerOfNone DEF ownerIn
<1> QED
  BY <1>1, <1>2

\* An undecided search is open; one nobody has opened has no fate.
LEMMA FatesRead ==
  ASSUME TypeOK, NEW i \in Ids
  PROVE  /\ contractOwner[i] = ownerIn(opened, i)
         /\ refunds[i] = 0 /\ expiries[i] = 0 /\ matches[i] = 0 =>
              contractFate[i] = IF \E e \in opened : e.id = i THEN "open" ELSE "none"
         /\ refunds[i] = 0 /\ expiries[i] > 0 => contractFate[i] = "timedOut"
         /\ contractFate[i] = "open" =>
              /\ matches[i] = 0 /\ expiries[i] = 0
              /\ \E e \in opened : e.id = i
<1>1. refunds[i] \in Nat /\ expiries[i] \in Nat /\ matches[i] \in Nat
  BY DEF TypeOK
<1>2. contractOwner[i] = ownerIn(opened, i)
  BY DEF contractOwner
<1>3. contractFate[i] = IF refunds[i] > 0 THEN "refunded"
                        ELSE IF expiries[i] > 0 THEN "timedOut"
                        ELSE IF matches[i] > 0 THEN "matched"
                        ELSE IF \E e \in opened : e.id = i THEN "open" ELSE "none"
  BY DEF contractFate
<1> QED
  BY <1>1, <1>2, <1>3

\* A step that concerns the searches of S alone, and leaves each with fate v.
FatesStay(S) ==
    \A k \in Ids \ S :
        /\ matches'[k] = matches[k] /\ expiries'[k] = expiries[k]
        /\ refunds'[k] = refunds[k]
        /\ (\E e \in opened' : e.id = k) <=> (\E e \in opened : e.id = k)

FatesBecome(S, v) ==
    \A k \in S : v = IF refunds'[k] > 0 THEN "refunded"
                     ELSE IF expiries'[k] > 0 THEN "timedOut"
                     ELSE IF matches'[k] > 0 THEN "matched"
                     ELSE IF \E e \in opened' : e.id = k THEN "open" ELSE "none"

LEMMA FatesMove ==
  ASSUME NEW S, NEW v, FatesStay(S), FatesBecome(S, v)
  PROVE  /\ contractFate' = [k \in Ids |-> IF k \in S THEN v ELSE contractFate[k]]
         /\ DOMAIN contractFate = Ids
<1>1. \A k \in Ids \ S : contractFate[k] =
        IF refunds'[k] > 0 THEN "refunded"
        ELSE IF expiries'[k] > 0 THEN "timedOut"
        ELSE IF matches'[k] > 0 THEN "matched"
        ELSE IF \E e \in opened' : e.id = k THEN "open" ELSE "none"
  BY DEF contractFate, FatesStay
<1>2. contractFate' = [k \in Ids |->
        IF refunds'[k] > 0 THEN "refunded"
        ELSE IF expiries'[k] > 0 THEN "timedOut"
        ELSE IF matches'[k] > 0 THEN "matched"
        ELSE IF \E e \in opened' : e.id = k THEN "open" ELSE "none"]
  BY DEF contractFate
<1>3. DOMAIN contractFate = Ids
  BY DEF contractFate
<1> QED
  BY <1>1, <1>2, <1>3 DEF FatesBecome

LEMMA FateOf ==
  ASSUME NEW i \in Ids, NEW v,
         contractFate' = [k \in Ids |-> IF k \in {i} THEN v ELSE contractFate[k]],
         DOMAIN contractFate = Ids
  PROVE  contractFate' = [contractFate EXCEPT ![i] = v]
  BY DEF contractFate

LEMMA EnqueueOpens ==
  ASSUME Orderly, Orderly', Ledger, NEW h \in Handlers, EnqueueChat(h)
  PROVE  \E i \in Ids, u \in Users : Contract!Open(i, u)
<1>1. TypeOK /\ OneJob /\ job[h] \in SearchJob
  BY SearchingJob DEF Orderly, Workflow, EnqueueChat, At, SearchSteps
<1>2. PICK e : e = entryOf(job[h])
  OBVIOUS
<1>3. /\ e \in Entry /\ e.id = job[h].id /\ e.user = job[h].user
      /\ e.id \in Ids /\ e.user \in Users
  BY <1>1, <1>2, EntryOfType DEF entryOf, Entry
<1>4. /\ opened' = opened \cup {e} /\ job[h].pc = "enqueue"
      /\ UNCHANGED <<matches, expiries, refunds>>
  BY <1>2 DEF EnqueueChat, At
<1>5. \A d \in opened : d.id # e.id /\ d \in Entry
  BY <1>1, <1>3, <1>4 DEF OneJob, SearchSteps, Opening, TypeOK
<1>6. matches[e.id] = 0 /\ expiries[e.id] = 0 /\ refunds[e.id] = 0
  BY <1>3, <1>5 DEF Ledger, Fates
<1>7. contractFate[e.id] = "none"
  BY <1>1, <1>3, <1>5, <1>6, FatesRead
<1>8. ASSUME NEW k \in Ids, contractOwner[k] = e.user, contractFate[k] = "open"
      PROVE  FALSE
  <2>1. PICK d \in opened : d.id = k /\ matches[k] = 0 /\ expiries[k] = 0
    BY <1>1, <1>8, FatesRead
  <2>2. d.user = e.user /\ d \in Entry
    BY <1>1, <1>5, <1>8, <2>1, FatesRead, OwnerOfEntry DEF Orderly, Workflow, Numbered
  <2>3. InList(d)
    BY <2>1 DEF Ledger, Listed, Settled
  <2>4. Queued(e.user)
    BY <1>1, <2>2, <2>3, ListedIsQueued
  <2> QED
    BY <1>3, <1>4, <2>4 DEF Orderly, Flags, Busy
<1>9. contractOwner' = [contractOwner EXCEPT ![e.id] = e.user]
  <2>1. \A c, d \in opened \cup {e} : c.id = d.id => c = d
    BY <1>4 DEF Orderly, Workflow, Numbered
  <2>2. ownerIn(opened', e.id) = e.user
    <3>1. PICK P : P = opened'
      OBVIOUS
    <3> QED
      BY <1>4, <2>1, <3>1, OwnerOfEntry
  <2>3. \A i \in Ids : i # e.id => ownerIn(opened', i) = ownerIn(opened, i)
    BY <1>4, <2>1, OwnersGrow
  <2> QED
    BY <1>3, <2>2, <2>3 DEF contractOwner
<1>10. contractFate' = [contractFate EXCEPT ![e.id] = "open"]
  <2>1. \A i \in Ids : i # e.id =>
          ((\E d \in opened' : d.id = i) <=> (\E d \in opened : d.id = i))
    BY <1>4
  <2>2. \E d \in opened' : d.id = e.id
    BY <1>4
  <2>3. PICK S : S = {e.id}
    OBVIOUS
  <2>4. FatesStay(S)
    BY <1>3, <1>4, <1>6, <2>1, <2>2, <2>3 DEF FatesStay
  <2>5. FatesBecome(S, "open")
    BY <1>3, <1>4, <1>6, <2>1, <2>2, <2>3 DEF FatesBecome
  <2>6. /\ contractFate' = [k \in Ids |-> IF k \in S THEN "open" ELSE contractFate[k]]
        /\ DOMAIN contractFate = Ids
    BY <2>4, <2>5, FatesMove
  <2> QED
    BY <1>3, <2>3, <2>6, FateOf
<1> QED
  BY <1>3, <1>7, <1>8, <1>9, <1>10 DEF Contract!Open

LEMMA ExpiryTimesOut ==
  ASSUME Orderly, Ledger, NEW k \in stale, ExpireEntry(k)
  PROVE  \E i \in Ids : Contract!TimeOut(i)
<1>1. PICK e : e = batch[k]
  OBVIOUS
<1>2. /\ e \in opened /\ e.id \in Ids
      /\ matches[e.id] = 0 /\ expiries[e.id] = 0 /\ refunds[e.id] = 0
  BY <1>1, UndecidedBatch DEF ExpireEntry
<1>3. /\ expiries' = [expiries EXCEPT ![e.id] = @ + 1]
      /\ UNCHANGED <<opened, matches, refunds>>
  BY <1>1 DEF ExpireEntry
<1>4. TypeOK
  BY DEF Orderly, Workflow
<1>5. contractFate[e.id] = "open"
  BY <1>2, <1>4, FatesRead
<1>6. expiries'[e.id] = 1 /\ \A i \in Ids : i # e.id => expiries'[i] = expiries[i]
  BY <1>2, <1>3, <1>4 DEF TypeOK
<1>7. contractFate' = [contractFate EXCEPT ![e.id] = "timedOut"]
  <2>1. PICK S : S = {e.id}
    OBVIOUS
  <2>2. FatesStay(S)
    BY <1>2, <1>3, <1>6, <2>1 DEF FatesStay
  <2>3. FatesBecome(S, "timedOut")
    BY <1>2, <1>3, <1>6, <2>1 DEF FatesBecome
  <2>4. /\ contractFate' = [n \in Ids |-> IF n \in S THEN "timedOut" ELSE contractFate[n]]
        /\ DOMAIN contractFate = Ids
    BY <2>2, <2>3, FatesMove
  <2> QED
    BY <1>2, <2>1, <2>4, FateOf
<1>8. contractOwner' = contractOwner
  BY <1>3 DEF contractOwner
<1> QED
  BY <1>2, <1>5, <1>7, <1>8 DEF Contract!TimeOut

LEMMA MatchPairs ==
  ASSUME Orderly, Ledger, NEW i \in fresh, NEW j \in fresh, CreateMatch(i, j)
  PROVE  \E m, n \in Ids : Contract!Pair(m, n)
<1>1. PICK d, e : d = batch[i] /\ e = batch[j]
  OBVIOUS
<1>2. /\ d \in opened /\ d.id \in Ids /\ e \in opened /\ e.id \in Ids
      /\ matches[d.id] = 0 /\ expiries[d.id] = 0 /\ refunds[d.id] = 0
      /\ matches[e.id] = 0 /\ expiries[e.id] = 0 /\ refunds[e.id] = 0
  BY <1>1, UndecidedBatch DEF CreateMatch
<1>3. d.user # e.user
  BY <1>1 DEF CreateMatch, NextPair, Partners, isCompatible
<1>4. /\ matches' = [n \in Ids |-> IF n \in {d.id, e.id} THEN matches[n] + 1 ELSE matches[n]]
      /\ UNCHANGED <<opened, expiries, refunds>>
  BY <1>1 DEF CreateMatch
<1>5. TypeOK
  BY DEF Orderly, Workflow
<1>6. contractFate[d.id] = "open" /\ contractFate[e.id] = "open"
  BY <1>2, <1>5, FatesRead
<1>7. contractOwner[d.id] = d.user /\ contractOwner[e.id] = e.user
  BY <1>2, <1>5, FatesRead, OwnerOfEntry DEF Orderly, Workflow, Numbered
<1>8. /\ matches'[d.id] = 1 /\ matches'[e.id] = 1
      /\ \A n \in Ids : n \notin {d.id, e.id} => matches'[n] = matches[n]
  BY <1>2, <1>4
<1>9. contractFate' = [contractFate EXCEPT ![d.id] = "matched", ![e.id] = "matched"]
  <2>1. PICK S : S = {d.id, e.id}
    OBVIOUS
  <2>2. FatesStay(S)
    BY <1>2, <1>4, <1>8, <2>1 DEF FatesStay
  <2>3. FatesBecome(S, "matched")
    BY <1>2, <1>4, <1>8, <2>1 DEF FatesBecome
  <2>4. /\ contractFate' = [k \in Ids |-> IF k \in S THEN "matched" ELSE contractFate[k]]
        /\ DOMAIN contractFate = Ids
    BY <2>2, <2>3, FatesMove
  <2> QED
    BY <1>2, <2>1, <2>4 DEF contractFate
<1>10. contractOwner' = contractOwner
  BY <1>4 DEF contractOwner
<1> QED
  BY <1>2, <1>3, <1>6, <1>7, <1>9, <1>10 DEF Contract!Pair

LEMMA AwardGivesBack ==
  ASSUME Orderly, Serial, Ledger, RefundSave
  PROVE  \E i \in Ids : Contract!GiveBack(i)
<1>1. TypeOK
  BY DEF Orderly, Workflow
<1>2. PICK e : e = Head(plan).entry
  OBVIOUS
<1>3. /\ plan # <<>> /\ Head(plan).kind = "award"
      /\ refunds' = [refunds EXCEPT ![e.id] = @ + 1]
      /\ UNCHANGED <<opened, matches, expiries>>
  BY <1>2 DEF RefundSave, Doing, Serial
<1>4. Head(plan) = plan[1] /\ 1 \in 1..Len(plan)
  BY <1>1, <1>3, EmptySeq, LenProperties, HeadTailProperties DEF TypeOK
<1>5. e.id \in Ids /\ expiries[e.id] = 1 /\ refunds[e.id] = 0
  BY <1>1, <1>2, <1>3, <1>4, HeadOp DEF Ledger, Refunds
<1>6. contractFate[e.id] = "timedOut"
  BY <1>1, <1>5, FatesRead
<1>7. refunds'[e.id] = 1 /\ \A i \in Ids : i # e.id => refunds'[i] = refunds[i]
  BY <1>1, <1>3, <1>5 DEF TypeOK
<1>8. contractFate' = [contractFate EXCEPT ![e.id] = "refunded"]
  <2>1. PICK S : S = {e.id}
    OBVIOUS
  <2>2. FatesStay(S)
    BY <1>3, <1>5, <1>7, <2>1 DEF FatesStay
  <2>3. FatesBecome(S, "refunded")
    BY <1>3, <1>5, <1>7, <2>1 DEF FatesBecome
  <2>4. /\ contractFate' = [k \in Ids |-> IF k \in S THEN "refunded" ELSE contractFate[k]]
        /\ DOMAIN contractFate = Ids
    BY <2>2, <2>3, FatesMove
  <2> QED
    BY <1>5, <2>1, <2>4, FateOf
<1>9. contractOwner' = contractOwner
  BY <1>3 DEF contractOwner
<1> QED
  BY <1>5, <1>6, <1>8, <1>9 DEF Contract!GiveBack

LEMMA ContractStep ==
  ASSUME Orderly, Orderly', Serial, Ledger, [Next]_vars
  PROVE  [Contract!Next]_<<contractOwner, contractFate>>
<1>1. TypeOK
  BY DEF Orderly, Workflow
<1>2. CASE UNCHANGED <<opened, matches, expiries, refunds>>
  BY <1>2 DEF contractOwner, contractFate
<1>3. ASSUME NEW h \in Handlers, HandlerStep(h)
      PROVE  [Contract!Next]_<<contractOwner, contractFate>>
  <2>1. ~EnqueueRefundSave(h)
    BY DEF EnqueueRefundSave, At, Orderly, Workflow, OneJob, SearchSteps
  <2>2. CASE EnqueueChat(h)
    BY <2>2, EnqueueOpens DEF Contract!Next
  <2> QED
    BY <1>2, <1>3, <2>1, <2>2 DEF HandlerStep, CheckInQueue, CheckActiveChat, DeductRead,
       DeductSave, EnqueueChatFails, EnqueueRefundRead, JoinQueue, EndChatRead, EndChatDelete
<1>4. ASSUME NEW k \in stale, ExpireEntry(k)
      PROVE  Contract!Next
  BY <1>4, ExpiryTimesOut DEF Contract!Next
<1>5. ASSUME NEW i \in fresh, NEW j \in fresh, CreateMatch(i, j)
      PROVE  Contract!Next
  BY <1>5, MatchPairs DEF Contract!Next
<1>6. CASE RefundSave
  BY <1>6, AwardGivesBack DEF Contract!Next
<1>7. CASE WorkerStep
  BY <1>2, <1>4, <1>5, <1>6, <1>7 DEF WorkerStep, Tick, ReadList, SplitBatch, ExpiryDone,
     CreateMatchFails, TickDone, GetWaitingFilter, RemoveEntry, RemoveWaitingState,
     LeaveQueue, RefundRead
<1>8. CASE UserStep
  BY <1>2, <1>8 DEF UserStep, StartEndChat, StartSearch, AcceptChat
<1>9. CASE \/ \E i \in Ids : Age(i)
           \/ \E v \in Users : FlagExpires(v) \/ ChatExpires(v)
           \/ UNCHANGED vars
  BY <1>2, <1>9 DEF Age, FlagExpires, ChatExpires, vars
<1>10. ~ \E long \in BOOLEAN : Restart(long)
  BY <1>1 DEF Serial, Restart, TypeOK
<1> QED
  BY <1>3, <1>7, <1>8, <1>9, <1>10 DEF Next

\* The handlers and the worker, one round trip at a time, keep the contract of a
\* search: EnqueueChat opens it, for a user who has no other open; the worker
\* pairs or times out only open ones, of two users; the cost of a timed-out one is
\* given back once; and every other step is a stutter.
THEOREM KeepsContract == Spec /\ Serial => ImplementsContract
<1>1. Init => Contract!Init
  BY DEF Init, Contract!Init, contractOwner, contractFate, ownerIn
<1>2. (Orderly /\ Ledger /\ Serial) /\ (Orderly /\ Ledger /\ Serial)' /\ [Next]_vars
        => [Contract!Next]_<<contractOwner, contractFate>>
  BY ContractStep
<1> QED
  BY <1>1, <1>2, AlwaysLedger, PTL DEF Spec, ImplementsContract, Contract!Spec
=============================================================================
