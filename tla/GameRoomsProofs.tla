--------------------------- MODULE GameRoomsProofs ---------------------------
(***************************************************************************)
(* What holds of GameRooms however many handlers are in flight at once, of *)
(* whomever, and however late a copy is saved.  A handler's copy is either *)
(* overtaken (another one has written its room since) or still goes with   *)
(* the stored room: it has its players, and takes back no result.  A save  *)
(* by a handler overtakes every other one's copy of that room.             *)
(***************************************************************************)
EXTENDS GameRooms, SequenceTheorems, TLAPS

USE DEF store

-----------------------------------------------------------------------------
(* The inductive invariant.  j is a handler's locals, o the rooms that have *)
(* overtaken it, rs, pr and n the rooms, the pointers and the last number.  *)

\* The copy goes with the stored room x.
Sound(j, x) ==
    /\ x.player2 # None => \/ players(j.room) = players(x)
                           \/ j.task = "repeat" /\ j.user \notin players(x)
    /\ x.gameOver /\ ~j.room.gameOver =>
         j.task = "accept" /\ x.pending = j.room.kind /\ x.by # j.user

Fresh(j, o, rs) == j.id \notin o => rs[j.id] # None /\ Sound(j, rs[j.id])

\* User u is in no room but one that somebody else has written.
Gone(u, o, rs, pr) == pr[u] # None /\ rs[pr[u]] # None => pr[u] \in o

SavePlans == {<<"save">>, <<"save", "save">>, <<"save", "save", "save">>, <<"clear", "save">>}
SeatPlans == {<<"inGame", "save">>, <<"joinSave", "inGame">>, <<"joinSave", "inGame", "save">>}
RemovePlans == {<<"clear", "remove">>, <<"remove">>, <<"remove", "clear">>, <<"clear">>}

\* A handler that still puts its users into a game.
Seats(j) == /\ j.task \notin {"move", "endDare", "endChat"}
            /\ j.task = "accept" \/ j.kind \in Kinds

\* What holds of a handler's locals, by what it still owes.
Saving(j, o, rs, n) ==
    /\ j.plan \in SavePlans \cup SeatPlans /\ j.task # "endChat"
    /\ j.plan \in SeatPlans => Seats(j)
    /\ j.id \in RoomIds /\ j.id <= n /\ j.room \in Room /\ settled(j.room)
    /\ Fresh(j, o, rs)
Removing(j) == j.plan \in RemovePlans /\ j.task # "endChat" /\ j.room \in Room
Linking(j) == /\ j.task = "select" /\ j.kind \in Kinds
              /\ j.plan \in {<<"removeMine", "create", "inGame", "save">>,
                             <<"create", "inGame", "save">>}
Inviting(j) == /\ j.task = "chatGame" /\ j.kind \in Kinds /\ j.other \in Users
               /\ j.plan \in {<<"removeMine", "removeOther", "create", "joinRead">>,
                              <<"removeOther", "create", "joinRead">>,
                              <<"create", "joinRead">>}
Joining(j, n) == /\ j.plan = <<"joinRead">> /\ j.task \in {"join", "chatGame"}
                 /\ j.kind \in Kinds /\ j.other \in Users /\ j.id \in RoomIds /\ j.id <= n
Seated(j) == j.plan = <<"inGame">> /\ Seats(j) /\ (j.task = "accept" => j.room \in Room)
Leaving(j, o, rs, pr) ==
    /\ j.task = "endChat" /\ j.other \in Users
    /\ \/ j.plan = <<"deleteChat", "removeMine", "removeOther", "clear">>
       \/ j.plan = <<"removeMine", "removeOther", "clear">>
       \/ j.plan = <<"removeOther", "clear">> /\ Gone(j.user, o, rs, pr)
       \/ j.plan = <<"clear">> /\ Gone(j.user, o, rs, pr) /\ Gone(j.other, o, rs, pr)
Through(j, o, rs, pr) ==
    /\ j.plan = << >>
    /\ j.task \in {"move", "endDare"} => j.room \in Room
    /\ j.task = "endChat" => /\ j.other \in Users
                             /\ Gone(j.user, o, rs, pr) /\ Gone(j.other, o, rs, pr)

JobFine(j, o, rs, pr, n) ==
    \/ Saving(j, o, rs, n) \/ Removing(j) \/ Linking(j) \/ Inviting(j) \/ Joining(j, n)
    \/ Seated(j) \/ Leaving(j, o, rs, pr) \/ Through(j, o, rs, pr)

RoomsFine(rs, n) == \A r \in RoomIds : rs[r] # None => r <= n /\ settled(rs[r])

Tidy == /\ TypeOK /\ RoomsFine(rooms, nextId)
        /\ \A h \in Handlers : JobFine(job[h], overtaken[h], rooms, playerRoom, nextId)

\* What a step may do to a room.
Lasting(r) ==
    /\ r <= nextId /\ rooms[r] = None /\ rooms'[r] # None =>
         \E h \in Handlers : writes(h, r) /\ stale(h)
    /\ rooms[r] # None /\ rooms[r].player2 # None /\ rooms'[r] # None =>
         \/ players(rooms'[r]) = players(rooms[r])
         \/ \E h \in Handlers :
               /\ writes(h, r)
               /\ \/ stale(h)
                  \/ job[h].task = "repeat" /\ job[h].user \notin players(rooms[r])
    /\ rooms[r] # None /\ rooms'[r] # None /\ rooms[r].gameOver /\ ~rooms'[r].gameOver =>
         \E h \in Handlers :
            /\ writes(h, r)
            /\ \/ stale(h)
               \/ /\ job[h].task = "accept" /\ rooms[r].pending = rooms'[r].kind
                  /\ rooms[r].by # job[h].user

\* What every step comes to.
StaysTidy == Tidy' /\ \A r \in RoomIds : Lasting(r)

LEMMA IdleFine ==
  /\ Idle.plan = << >> /\ Idle.task = "idle"
  /\ \A o, rs, pr, n : JobFine(Idle, o, rs, pr, n)
<1>1. Idle.plan = << >> /\ Idle.task = "idle"
  BY DEF Idle
<1>2. \A o, rs, pr : Through(Idle, o, rs, pr)
  BY <1>1 DEF Through
<1> QED
  BY <1>1, <1>2 DEF JobFine

LEMMA TidyInit == Init => Tidy
<1> SUFFICES ASSUME Init PROVE Tidy
  OBVIOUS
<1>1. TypeOK
  BY GameRoomsAssumption DEF Init, TypeOK
<1>2. RoomsFine(rooms, nextId)
  BY DEF Init, RoomsFine
<1>3. \A h \in Handlers : JobFine(job[h], overtaken[h], rooms, playerRoom, nextId)
  BY IdleFine DEF Init
<1> QED
  BY <1>1, <1>2, <1>3 DEF Tidy

LEMMA RoomTyped ==
  ASSUME NEW x \in Room
  PROVE  /\ x.player1 \in Users /\ x.player2 \in Users \cup {None} /\ x.kind \in Kinds
         /\ x.gameOver \in BOOLEAN /\ x.pending \in Kinds \cup {None}
         /\ x.by \in Users \cup {None} /\ x.player1 # None /\ x # None
         /\ players(x) \subseteq Users
  BY GameRoomsAssumption, NoneAssumption DEF Room, players

LEMMA JobTyped ==
  ASSUME TypeOK, NEW h \in Handlers, job[h] # Idle
  PROVE  /\ job[h] \in Job /\ job[h].user \in Users /\ job[h].other \in Users \cup {None}
         /\ job[h].plan \in Seq(WriteKinds) /\ job[h].id \in RoomIds \cup {None}
         /\ job[h].room \in Room \cup {None} /\ job[h].task \in Tasks
         /\ job[h].kind \in Kinds \cup {None}
<1>1. job[h] \in Job
  BY DEF TypeOK
<1> QED
  BY <1>1 DEF Job

\* The room a player's pointer leads to is a stored one.
LEMMA RoomOfPlayer ==
  ASSUME Tidy, NEW u \in Users
  PROVE  /\ GetRoomIdByPlayerID(u) \in RoomIds \cup {None}
         /\ GetRoomIdByPlayerID(u) # None =>
              /\ GetRoomIdByPlayerID(u) \in RoomIds
              /\ GetRoomIdByPlayerID(u) = playerRoom[u]
              /\ rooms[GetRoomIdByPlayerID(u)] \in Room
              /\ rooms[GetRoomIdByPlayerID(u)] # None
              /\ settled(rooms[GetRoomIdByPlayerID(u)])
              /\ GetRoomIdByPlayerID(u) <= nextId
         /\ GetRoomIdByPlayerID(u) = None => playerRoom[u] = None \/ rooms[playerRoom[u]] = None
<1>1. u # None /\ TypeOK /\ RoomsFine(rooms, nextId)
  BY GameRoomsAssumption DEF Tidy
<1> QED
  BY <1>1, NoneAssumption DEF TypeOK, RoomsFine, GetRoomIdByPlayerID

-----------------------------------------------------------------------------
(* The plans.                                                              *)

LEMMA Plans ==
  /\ Head(<<"save">>) = "save" /\ Tail(<<"save">>) = << >>
  /\ Head(<<"save", "save">>) = "save" /\ Tail(<<"save", "save">>) = <<"save">>
  /\ Head(<<"save", "save", "save">>) = "save"
  /\ Tail(<<"save", "save", "save">>) = <<"save", "save">>
  /\ Head(<<"clear", "save">>) = "clear" /\ Tail(<<"clear", "save">>) = <<"save">>
  /\ Head(<<"inGame", "save">>) = "inGame" /\ Tail(<<"inGame", "save">>) = <<"save">>
  /\ Head(<<"clear", "remove">>) = "clear" /\ Tail(<<"clear", "remove">>) = <<"remove">>
  /\ Head(<<"remove">>) = "remove" /\ Tail(<<"remove">>) = << >>
  /\ Head(<<"remove", "clear">>) = "remove" /\ Tail(<<"remove", "clear">>) = <<"clear">>
  /\ Head(<<"clear">>) = "clear" /\ Tail(<<"clear">>) = << >>
  /\ Head(<<"removeMine", "create", "inGame", "save">>) = "removeMine"
  /\ Tail(<<"removeMine", "create", "inGame", "save">>) = <<"create", "inGame", "save">>
  /\ Head(<<"create", "inGame", "save">>) = "create"
  /\ Tail(<<"create", "inGame", "save">>) = <<"inGame", "save">>
  /\ Head(<<"removeMine", "removeOther", "create", "joinRead">>) = "removeMine"
  /\ Tail(<<"removeMine", "removeOther", "create", "joinRead">>)
        = <<"removeOther", "create", "joinRead">>
  /\ Head(<<"removeOther", "create", "joinRead">>) = "removeOther"
  /\ Tail(<<"removeOther", "create", "joinRead">>) = <<"create", "joinRead">>
  /\ Head(<<"create", "joinRead">>) = "create" /\ Tail(<<"create", "joinRead">>) = <<"joinRead">>
  /\ Head(<<"joinRead">>) = "joinRead"
  /\ Head(<<"joinSave", "inGame">>) = "joinSave" /\ Tail(<<"joinSave", "inGame">>) = <<"inGame">>
  /\ Head(<<"joinSave", "inGame", "save">>) = "joinSave"
  /\ Tail(<<"joinSave", "inGame", "save">>) = <<"inGame", "save">>
  /\ Head(<<"inGame">>) = "inGame" /\ Tail(<<"inGame">>) = << >>
  /\ Head(<<"deleteChat", "removeMine", "removeOther", "clear">>) = "deleteChat"
  /\ Tail(<<"deleteChat", "removeMine", "removeOther", "clear">>)
        = <<"removeMine", "removeOther", "clear">>
  /\ Head(<<"removeMine", "removeOther", "clear">>) = "removeMine"
  /\ Tail(<<"removeMine", "removeOther", "clear">>) = <<"removeOther", "clear">>
  /\ Head(<<"removeOther", "clear">>) = "removeOther"
  /\ Tail(<<"removeOther", "clear">>) = <<"clear">>
  OBVIOUS

LEMMA Joined ==
  /\ <<"joinSave", "inGame">> \o <<"save">> = <<"joinSave", "inGame", "save">>
  /\ <<"joinSave", "inGame">> \o << >> = <<"joinSave", "inGame">>
  /\ <<"joinSave", "inGame">> \in Seq(WriteKinds)
  /\ <<"joinSave", "inGame", "save">> \in Seq(WriteKinds)
<1> DEFINE a == <<"joinSave", "inGame">>
<1>1. /\ a \in Seq(WriteKinds) /\ <<"save">> \in Seq(WriteKinds)
      /\ <<"joinSave", "inGame", "save">> \in Seq(WriteKinds)
  BY DEF WriteKinds
<1>2. a \o << >> = a
  BY <1>1, ConcatEmptySeq
<1>3. a \o <<"save">> = <<"joinSave", "inGame", "save">>
  <2>1. a \o <<"save">> \in Seq(WriteKinds)
    BY <1>1, ConcatProperties
  <2>2. Len(a \o <<"save">>) = 3
    OBVIOUS
  <2>3. /\ (a \o <<"save">>)[1] = "joinSave" /\ (a \o <<"save">>)[2] = "inGame"
        /\ (a \o <<"save">>)[3] = "save"
    OBVIOUS
  <2>4. \A i \in 1..3 : i = 1 \/ i = 2 \/ i = 3
    OBVIOUS
  <2> HIDE DEF a
  <2>5. \A i \in 1..3 : (a \o <<"save">>)[i] = <<"joinSave", "inGame", "save">>[i]
    BY <2>3, <2>4
  <2>6. Len(<<"joinSave", "inGame", "save">>) = 3
    OBVIOUS
  <2> QED
    BY <1>1, <2>1, <2>2, <2>5, <2>6, SeqEqual
<1> QED
  BY <1>1, <1>2, <1>3

LEMMA Known ==
  /\ <<"clear", "remove">> \in Seq(WriteKinds) /\ <<"save">> \in Seq(WriteKinds)
  /\ <<"save", "save">> \in Seq(WriteKinds) /\ <<"save", "save", "save">> \in Seq(WriteKinds)
  /\ <<"inGame", "save">> \in Seq(WriteKinds) /\ <<"clear", "save">> \in Seq(WriteKinds)
  /\ <<"remove", "clear">> \in Seq(WriteKinds) /\ << >> \in Seq(WriteKinds)
  /\ <<"joinRead">> \in Seq(WriteKinds) /\ <<"inGame">> \in Seq(WriteKinds)
  /\ <<"removeMine", "create", "inGame", "save">> \in Seq(WriteKinds)
  /\ <<"removeMine", "removeOther", "create", "joinRead">> \in Seq(WriteKinds)
  /\ <<"deleteChat", "removeMine", "removeOther", "clear">> \in Seq(WriteKinds)
  BY DEF WriteKinds

\* What a handler is, by the write it owes next.
LEMMA InHand ==
  ASSUME NEW h \in Handlers, NEW o, NEW rs, NEW pr, NEW n, JobFine(job[h], o, rs, pr, n)
  PROVE  /\ owes(h, "save") => /\ Saving(job[h], o, rs, n)
                               /\ job[h].plan \in SavePlans \ {<<"clear", "save">>}
         /\ owes(h, "joinSave") => Saving(job[h], o, rs, n) /\
              job[h].plan \in {<<"joinSave", "inGame">>, <<"joinSave", "inGame", "save">>}
         /\ owes(h, "remove") => Removing(job[h]) /\
              job[h].plan \in {<<"remove">>, <<"remove", "clear">>}
         /\ owes(h, "removeMine") =>
              \/ Linking(job[h]) /\ job[h].plan = <<"removeMine", "create", "inGame", "save">>
              \/ Inviting(job[h])
                 /\ job[h].plan = <<"removeMine", "removeOther", "create", "joinRead">>
              \/ Leaving(job[h], o, rs, pr)
                 /\ job[h].plan = <<"removeMine", "removeOther", "clear">>
         /\ owes(h, "removeOther") =>
              \/ Inviting(job[h]) /\ job[h].plan = <<"removeOther", "create", "joinRead">>
              \/ Leaving(job[h], o, rs, pr) /\ job[h].plan = <<"removeOther", "clear">>
         /\ owes(h, "create") =>
              \/ Linking(job[h]) /\ job[h].plan = <<"create", "inGame", "save">>
              \/ Inviting(job[h]) /\ job[h].plan = <<"create", "joinRead">>
         /\ owes(h, "joinRead") => Joining(job[h], n)
         /\ owes(h, "inGame") =>
              \/ Saving(job[h], o, rs, n) /\ job[h].plan = <<"inGame", "save">>
              \/ Seated(job[h]) /\ job[h].plan = <<"inGame">>
         /\ owes(h, "clear") =>
              \/ Saving(job[h], o, rs, n) /\ job[h].plan = <<"clear", "save">>
              \/ Removing(job[h]) /\ job[h].plan \in {<<"clear", "remove">>, <<"clear">>}
              \/ Leaving(job[h], o, rs, pr) /\ job[h].plan = <<"clear">>
         /\ owes(h, "deleteChat") =>
              /\ Leaving(job[h], o, rs, pr)
              /\ job[h].plan = <<"deleteChat", "removeMine", "removeOther", "clear">>
<1> DEFINE j == job[h]
<1>0. ASSUME NEW w, owes(h, w) PROVE j.plan # << >> /\ Head(j.plan) = w
  BY <1>0 DEF owes
<1>1. CASE Saving(j, o, rs, n)
  <2>1. j.plan \in {<<"save">>, <<"save", "save">>, <<"save", "save", "save">>,
                    <<"clear", "save">>, <<"inGame", "save">>, <<"joinSave", "inGame">>,
                    <<"joinSave", "inGame", "save">>}
    BY <1>1 DEF Saving, SavePlans, SeatPlans
  <2>2. j.plan \in SavePlans \ {<<"clear", "save">>} <=>
          j.plan \in {<<"save">>, <<"save", "save">>, <<"save", "save", "save">>}
    <3>1. \A p \in {<<"save">>, <<"save", "save">>, <<"save", "save", "save">>} :
             p # <<"clear", "save">>
      BY Plans
    <3> QED
      BY <3>1 DEF SavePlans
  <2> HIDE DEF j
  <2> QED
    BY <1>0, <1>1, <2>1, <2>2, Plans DEF j
<1>2. CASE Removing(j)
  <2>1. j.plan \in {<<"clear", "remove">>, <<"remove">>, <<"remove", "clear">>, <<"clear">>}
    BY <1>2 DEF Removing, RemovePlans
  <2> QED
    BY <1>0, <1>2, <2>1, Plans
<1>3. CASE Linking(j)
  <2>1. j.plan \in {<<"removeMine", "create", "inGame", "save">>, <<"create", "inGame", "save">>}
    BY <1>3 DEF Linking
  <2> QED
    BY <1>0, <1>3, <2>1, Plans
<1>4. CASE Inviting(j)
  <2>1. j.plan \in {<<"removeMine", "removeOther", "create", "joinRead">>,
                    <<"removeOther", "create", "joinRead">>, <<"create", "joinRead">>}
    BY <1>4 DEF Inviting
  <2> QED
    BY <1>0, <1>4, <2>1, Plans
<1>5. CASE Joining(j, n)
  BY <1>0, <1>5, Plans DEF Joining
<1>6. CASE Seated(j)
  BY <1>0, <1>6, Plans DEF Seated
<1>7. CASE Leaving(j, o, rs, pr)
  <2>1. j.plan \in {<<"deleteChat", "removeMine", "removeOther", "clear">>,
                    <<"removeMine", "removeOther", "clear">>, <<"removeOther", "clear">>,
                    <<"clear">>}
    BY <1>7 DEF Leaving
  <2> QED
    BY <1>0, <1>7, <2>1, Plans
<1>8. CASE Through(j, o, rs, pr)
  BY <1>0, <1>8 DEF Through
<1> QED
  BY <1>1, <1>2, <1>3, <1>4, <1>5, <1>6, <1>7, <1>8 DEF JobFine

Onward(h, id, room, plan) ==
    job' = [job EXCEPT ![h] = [job[h] EXCEPT !.id = id, !.room = room, !.plan = plan]]

\* A handler that goes on changes its number, its copy and its plan alone.
LEMMA GoesOn ==
  ASSUME TypeOK, NEW h \in Handlers, job[h] # Idle, job[h].plan # << >>,
         NEW id \in RoomIds \cup {None}, NEW room \in Room \cup {None},
         NEW plan \in Seq(WriteKinds), Onward(h, id, room, plan)
  PROVE  /\ job'[h] # Idle /\ job'[h].task = job[h].task /\ job'[h].user = job[h].user
         /\ job'[h].other = job[h].other /\ job'[h].kind = job[h].kind
         /\ job'[h].id = id /\ job'[h].room = room /\ job'[h].plan = plan
         /\ job' \in [Handlers -> {Idle} \cup Job]
         /\ \A g \in Handlers : g # h => job'[g] = job[g]
<1>1. job[h] \in Job /\ job[h].task \in Tasks
  BY JobTyped
<1> DEFINE k == [job[h] EXCEPT !.id = id, !.room = room, !.plan = plan]
<1>2. /\ k \in Job /\ k.task = job[h].task /\ k.user = job[h].user /\ k.other = job[h].other
      /\ k.kind = job[h].kind /\ k.id = id /\ k.room = room /\ k.plan = plan
  BY <1>1 DEF Job
<1>3. k # Idle
  BY <1>1, <1>2, IdleFine DEF Tasks
<1>4. job' = [job EXCEPT ![h] = k]
  BY DEF Onward
<1> HIDE DEF k
<1>5. job'[h] = k /\ job' \in [Handlers -> {Idle} \cup Job]
  BY <1>2, <1>4 DEF TypeOK
<1>6. \A g \in Handlers : g # h => job'[g] = job[g]
  BY <1>4 DEF TypeOK
<1> QED
  BY <1>2, <1>3, <1>5, <1>6

LEMMA Continues ==
  ASSUME TypeOK, NEW h \in Handlers, job[h] # Idle, job[h].plan # << >>,
         NEW id \in RoomIds \cup {None}, NEW room \in Room \cup {None}, Continue(h, id, room)
  PROVE  /\ job'[h] # Idle /\ job'[h].task = job[h].task /\ job'[h].user = job[h].user
         /\ job'[h].other = job[h].other /\ job'[h].kind = job[h].kind
         /\ job'[h].id = id /\ job'[h].room = room /\ job'[h].plan = Tail(job[h].plan)
         /\ job' \in [Handlers -> {Idle} \cup Job]
         /\ \A g \in Handlers : g # h => job'[g] = job[g]
<1>1. job[h].plan \in Seq(WriteKinds)
  BY JobTyped
<1>2. PICK plan \in Seq(WriteKinds) : plan = Tail(job[h].plan)
  BY <1>1, HeadTailProperties
<1>3. Onward(h, id, room, plan)
  BY <1>2 DEF Continue, Onward, TypeOK
<1>4. /\ job'[h] # Idle /\ job'[h].task = job[h].task /\ job'[h].user = job[h].user
      /\ job'[h].other = job[h].other /\ job'[h].kind = job[h].kind
      /\ job'[h].id = id /\ job'[h].room = room /\ job'[h].plan = plan
      /\ job' \in [Handlers -> {Idle} \cup Job]
      /\ \A g \in Handlers : g # h => job'[g] = job[g]
  <2> HIDE DEF Continue
  <2> QED
    BY <1>3, GoesOn
<1> QED
  BY <1>2, <1>4

\* One that keeps its number and its copy changes its plan alone.
LEMMA GoesOnAsIs ==
  ASSUME TypeOK, NEW h \in Handlers, job[h] # Idle, job[h].plan # << >>,
         Continue(h, job[h].id, job[h].room)
  PROVE  /\ job'[h].task = job[h].task /\ job'[h].user = job[h].user
         /\ job'[h].other = job[h].other /\ job'[h].kind = job[h].kind
         /\ job'[h].id = job[h].id /\ job'[h].room = job[h].room
         /\ job'[h].plan = Tail(job[h].plan)
         /\ job' \in [Handlers -> {Idle} \cup Job]
         /\ \A g \in Handlers : g # h => job'[g] = job[g]
<1>1. PICK id \in RoomIds \cup {None}, room \in Room \cup {None} :
         id = job[h].id /\ room = job[h].room
  BY JobTyped
<1>2. Continue(h, id, room)
  BY <1>1
<1>3. /\ job'[h].task = job[h].task /\ job'[h].user = job[h].user
      /\ job'[h].other = job[h].other /\ job'[h].kind = job[h].kind
      /\ job'[h].id = id /\ job'[h].room = room /\ job'[h].plan = Tail(job[h].plan)
      /\ job' \in [Handlers -> {Idle} \cup Job]
      /\ \A g \in Handlers : g # h => job'[g] = job[g]
  BY <1>2, Continues
<1> QED
  BY <1>1, <1>3

\* One that changes its plan alone.
LEMMA Replans ==
  ASSUME TypeOK, NEW h \in Handlers, job[h] # Idle, job[h].plan # << >>,
         NEW plan \in Seq(WriteKinds), job' = [job EXCEPT ![h].plan = plan]
  PROVE  /\ job'[h].task = job[h].task /\ job'[h].kind = job[h].kind /\ job'[h].plan = plan
         /\ job' \in [Handlers -> {Idle} \cup Job]
         /\ \A g \in Handlers : g # h => job'[g] = job[g]
<1>1. PICK id \in RoomIds \cup {None}, room \in Room \cup {None} :
         id = job[h].id /\ room = job[h].room
  BY JobTyped
<1>2. Onward(h, id, room, plan)
  <2>1. job[h] \in Job
    BY JobTyped
  <2>2. [job[h] EXCEPT !.id = id, !.room = room, !.plan = plan] = [job[h] EXCEPT !.plan = plan]
    BY <1>1, <2>1 DEF Job
  <2>3. job' = [job EXCEPT ![h] = [job[h] EXCEPT !.plan = plan]]
    BY DEF TypeOK
  <2> QED
    BY <2>2, <2>3 DEF Onward
<1>3. /\ job'[h].task = job[h].task /\ job'[h].kind = job[h].kind /\ job'[h].plan = plan
      /\ job' \in [Handlers -> {Idle} \cup Job]
      /\ \A g \in Handlers : g # h => job'[g] = job[g]
  BY <1>2, GoesOn
<1> QED
  BY <1>3

-----------------------------------------------------------------------------
(* What the others' writes leave of a handler's locals: a room they write   *)
(* overtakes it, a pointer they change leads nowhere or to such a room.     *)

LEMMA Overtaken ==
  ASSUME NEW j, NEW o, NEW rs, NEW pr, NEW n \in Nat, NEW rs2, NEW pr2, NEW m \in Nat,
         NEW W, n <= m, j.user \in Users,
         \A r \in RoomIds : r \notin W => rs2[r] = rs[r],
         \A u \in Users : pr2[u] = pr[u] \/ pr2[u] = None \/ pr2[u] \in W,
         \A u \in Users : pr[u] # None => pr[u] \in RoomIds,
         JobFine(j, o, rs, pr, n)
  PROVE  JobFine(j, o \cup W, rs2, pr2, m)
<1>1. ASSUME NEW u \in Users, Gone(u, o, rs, pr) PROVE Gone(u, o \cup W, rs2, pr2)
  <2>1. CASE pr2[u] = None \/ pr2[u] \in W
    BY <2>1 DEF Gone
  <2>2. CASE pr2[u] = pr[u] /\ pr2[u] # None /\ pr2[u] \notin W
    BY <1>1, <2>2 DEF Gone
  <2> QED
    BY <2>1, <2>2
<1>2. CASE Saving(j, o, rs, n)
  <2>1. Fresh(j, o, rs) /\ j.id \in RoomIds
    BY <1>2 DEF Saving
  <2>2. Fresh(j, o \cup W, rs2)
    BY <2>1 DEF Fresh
  <2>3. j.id \in Nat /\ j.id <= n
    BY <1>2 DEF Saving, RoomIds
  <2>4. j.id <= m
    BY <2>3
  <2> QED
    BY <1>2, <2>2, <2>4 DEF JobFine, Saving
<1>3. CASE Joining(j, n)
  <2>1. j.id \in Nat /\ j.id <= n
    BY <1>3 DEF Joining, RoomIds
  <2>2. j.id <= m
    BY <2>1
  <2> QED
    BY <1>3, <2>2 DEF JobFine, Joining
<1>4. CASE Leaving(j, o, rs, pr)
  BY <1>1, <1>4 DEF JobFine, Leaving
<1>5. CASE Through(j, o, rs, pr)
  BY <1>1, <1>5 DEF JobFine, Through
<1>6. CASE Removing(j) \/ Linking(j) \/ Inviting(j) \/ Seated(j)
  BY <1>6 DEF JobFine
<1> QED
  BY <1>2, <1>3, <1>4, <1>5, <1>6 DEF JobFine

\* The variables that are neither rooms, pointers nor handlers.
RestOK == /\ inGame \subseteq Users /\ menu \subseteq Users
          /\ chat \in [Users -> Users \cup {None}] /\ chats \in 0..MaxChats
          /\ links \in [Users -> SUBSET Kinds] /\ boards \in [Users -> SUBSET Kinds]

\* What is left when only the rooms W are written.
Elsewhere(W) ==
    /\ W \subseteq RoomIds
    /\ rooms' \in [RoomIds -> Room \cup {None}]
    /\ playerRoom' \in [Users -> RoomIds \cup {None}]
    /\ nextId' \in 0..MaxRooms /\ nextId <= nextId'
    /\ \A r \in RoomIds : r \notin W => rooms'[r] = rooms[r]
    /\ \A u \in Users : \/ playerRoom'[u] = playerRoom[u]
                        \/ playerRoom'[u] = None
                        \/ playerRoom'[u] \in W

\* The handlers outside S go on where they were, overtaken by what is written.
Spares(S, W) ==
    \A g \in Handlers \ S : /\ job'[g] = job[g]
                            /\ job[g] # Idle => overtaken'[g] = overtaken[g] \cup W

LEMMA Together ==
  ASSUME Tidy, NEW S, NEW W, Elsewhere(W), Spares(S, W), RestOK',
         RoomsFine(rooms', nextId'),
         job' \in [Handlers -> {Idle} \cup Job], overtaken' \in [Handlers -> SUBSET RoomIds],
         \A h \in S : JobFine(job'[h], overtaken'[h], rooms', playerRoom', nextId')
  PROVE  Tidy'
<1>1. TypeOK'
  BY DEF TypeOK, RestOK, Elsewhere
<1>2. ASSUME NEW g \in Handlers
      PROVE  JobFine(job'[g], overtaken'[g], rooms', playerRoom', nextId')
  <2>1. CASE g \in S
    BY <2>1
  <2>2. CASE g \notin S /\ job[g] = Idle
    BY <2>2, IdleFine DEF Spares
  <2>3. CASE g \notin S /\ job[g] # Idle
    <3>1. job'[g] = job[g] /\ overtaken'[g] = overtaken[g] \cup W
      BY <2>3 DEF Spares
    <3>2. job[g].user \in Users
      BY <2>3, JobTyped DEF Tidy
    <3>3. /\ nextId \in Nat /\ nextId' \in Nat /\ nextId <= nextId'
          /\ \A u \in Users : playerRoom[u] # None => playerRoom[u] \in RoomIds
          /\ JobFine(job[g], overtaken[g], rooms, playerRoom, nextId)
      BY GameRoomsAssumption DEF Tidy, TypeOK, Elsewhere
    <3>4. /\ \A r \in RoomIds : r \notin W => rooms'[r] = rooms[r]
          /\ \A u \in Users : playerRoom'[u] = playerRoom[u] \/ playerRoom'[u] = None
                              \/ playerRoom'[u] \in W
      BY DEF Elsewhere
    <3>5. JobFine(job[g], overtaken[g] \cup W, rooms', playerRoom', nextId')
      BY <3>2, <3>3, <3>4, Overtaken
    <3> QED
      BY <3>1, <3>5
  <2> QED
    BY <2>1, <2>2, <2>3
<1> QED
  BY <1>1, <1>2 DEF Tidy

\* A room that is not written, or is removed, is neither brought back nor changed.
LEMMA Lasts ==
  ASSUME NEW r \in RoomIds, rooms'[r] = rooms[r] \/ rooms'[r] = None
  PROVE  Lasting(r)
  BY DEF Lasting

LEMMA RoomsStay ==
  ASSUME Tidy, UNCHANGED <<rooms, nextId>>,
         playerRoom' \in [Users -> RoomIds \cup {None}],
         \A u \in Users : playerRoom'[u] = playerRoom[u] \/ playerRoom'[u] = None
  PROVE  /\ Elsewhere({}) /\ RoomsFine(rooms', nextId') /\ \A r \in RoomIds : Lasting(r)
<1>1. /\ rooms \in [RoomIds -> Room \cup {None}] /\ nextId \in 0..MaxRooms
      /\ RoomsFine(rooms, nextId)
  BY DEF Tidy, TypeOK
<1>2. nextId <= nextId'
  BY <1>1, GameRoomsAssumption
<1> QED
  BY <1>1, <1>2, Lasts DEF Elsewhere

\* Who is overtaken by a write.
LEMMA Behind ==
  ASSUME Tidy, NEW S, NEW W, W \subseteq RoomIds, Overtakes(S, W)
  PROVE  /\ overtaken' \in [Handlers -> SUBSET RoomIds]
         /\ \A g \in Handlers \ S : job[g] # Idle => overtaken'[g] = overtaken[g] \cup W
         /\ \A h \in S \cap Handlers : overtaken'[h] = overtaken[h] \ W
<1>1. overtaken \in [Handlers -> SUBSET RoomIds]
  BY DEF Tidy, TypeOK
<1> QED
  BY <1>1 DEF Overtakes

LEMMA Unwritten ==
  ASSUME Tidy, overtaken' = overtaken
  PROVE  /\ overtaken' \in [Handlers -> SUBSET RoomIds]
         /\ \A g \in Handlers : overtaken'[g] = overtaken[g] \cup {}
  BY DEF Tidy, TypeOK

\* A removal: the room goes, the pointers of its players with it.
LEMMA RemoveTidy ==
  ASSUME Tidy, NEW S, NEW r \in RoomIds \cup {None}, removeRoom(S, r), nextId' = nextId
  PROVE  \E W \in SUBSET RoomIds :
           /\ Elsewhere(W) /\ RoomsFine(rooms', nextId') /\ \A q \in RoomIds : Lasting(q)
           /\ overtaken' \in [Handlers -> SUBSET RoomIds]
           /\ \A g \in Handlers \ S : job[g] # Idle => overtaken'[g] = overtaken[g] \cup W
           /\ \A h \in S \cap Handlers : overtaken'[h] = overtaken[h] \ W
           /\ r # None => rooms'[r] = None
           /\ \A q \in RoomIds : rooms'[q] # None => rooms'[q] = rooms[q] /\ q \notin W
           /\ \A u \in Users : playerRoom'[u] = playerRoom[u] \/ playerRoom'[u] = None
<1>1. /\ rooms \in [RoomIds -> Room \cup {None}] /\ nextId \in 0..MaxRooms
      /\ playerRoom \in [Users -> RoomIds \cup {None}] /\ RoomsFine(rooms, nextId)
      /\ overtaken \in [Handlers -> SUBSET RoomIds]
  BY DEF Tidy, TypeOK
<1>2. CASE r = None \/ rooms[r] = None
  <2>1. UNCHANGED <<rooms, playerRoom, overtaken>>
    BY <1>2 DEF removeRoom
  <2>2. Elsewhere({}) /\ RoomsFine(rooms', nextId') /\ \A q \in RoomIds : Lasting(q)
    BY <1>1, <2>1, RoomsStay
  <2>3. WITNESS {} \in SUBSET RoomIds
  <2> QED
    BY <1>1, <1>2, <2>1, <2>2
<1>3. CASE ~(r = None \/ rooms[r] = None)
  <2>1. /\ rooms' = saved(rooms, r, None) /\ playerRoom' = unpointed(playerRoom, rooms, r)
        /\ Overtakes(S, {r}) /\ r \in RoomIds
    BY <1>3 DEF removeRoom
  <2>2. /\ rooms' \in [RoomIds -> Room \cup {None}] /\ rooms'[r] = None
        /\ \A q \in RoomIds : q # r => rooms'[q] = rooms[q]
    BY <1>1, <2>1 DEF saved
  <2>3. /\ playerRoom' \in [Users -> RoomIds \cup {None}]
        /\ \A u \in Users : playerRoom'[u] = playerRoom[u] \/ playerRoom'[u] = None
    BY <1>1, <2>1 DEF unpointed
  <2>4. nextId <= nextId'
    BY <1>1, GameRoomsAssumption
  <2>5. Elsewhere({r}) /\ RoomsFine(rooms', nextId')
    BY <1>1, <2>1, <2>2, <2>3, <2>4 DEF Elsewhere, RoomsFine
  <2>6. \A q \in RoomIds : Lasting(q)
    BY <2>2, Lasts
  <2>7. /\ overtaken' \in [Handlers -> SUBSET RoomIds]
        /\ \A g \in Handlers \ S : job[g] # Idle => overtaken'[g] = overtaken[g] \cup {r}
        /\ \A h \in S \cap Handlers : overtaken'[h] = overtaken[h] \ {r}
    BY <2>1, Behind
  <2>8. \A q \in RoomIds : rooms'[q] # None => rooms'[q] = rooms[q] /\ q \notin {r}
    BY <2>2
  <2>9. {r} \in SUBSET RoomIds
    BY <2>1
  <2> QED
    BY <2>2, <2>3, <2>5, <2>6, <2>7, <2>8, <2>9
<1> QED
  BY <1>2, <1>3

\* Who leaves a room is gone from it: a removal by h keeps him so.
LEMMA GoneStays ==
  ASSUME NEW u \in Users, NEW o, NEW W,
         \A q \in RoomIds : rooms'[q] # None => rooms'[q] = rooms[q] /\ q \notin W,
         playerRoom'[u] = playerRoom[u] \/ playerRoom'[u] = None,
         playerRoom[u] # None => playerRoom[u] \in RoomIds,
         Gone(u, o, rooms, playerRoom)
  PROVE  Gone(u, o \ W, rooms', playerRoom')
  BY DEF Gone

LEMMA GoneNow ==
  ASSUME Tidy, NEW u \in Users, NEW o, NEW r, r = GetRoomIdByPlayerID(u),
         \A q \in RoomIds : rooms'[q] # None => rooms'[q] = rooms[q],
         r # None => rooms'[r] = None,
         playerRoom'[u] = playerRoom[u] \/ playerRoom'[u] = None
  PROVE  Gone(u, o, rooms', playerRoom')
<1>1. playerRoom[u] # None => playerRoom[u] \in RoomIds
  BY DEF Tidy, TypeOK
<1> QED
  BY <1>1, RoomOfPlayer DEF Gone

-----------------------------------------------------------------------------
(* The writes.                                                             *)

LEMMA Shorter ==
  ASSUME NEW p \in Seq(WriteKinds), p # << >>
  PROVE  Tail(p) # p
<1>1. Len(p) \in Nat /\ Len(Tail(p)) = Len(p) - 1
  BY LenProperties, HeadTailProperties, Zenon
<1>2. \A m \in Nat : m - 1 # m
  OBVIOUS
<1>3. Len(Tail(p)) # Len(p)
  BY <1>1, <1>2, Zenon
<1> QED
  BY <1>3, Zenon

LEMMA TailDiffers ==
  ASSUME NEW h \in Handlers, TypeOK, job[h] # Idle, job[h].plan # << >>,
         job'[h].plan = Tail(job[h].plan)
  PROVE  job'[h] # job[h]
<1>1. job[h].plan \in Seq(WriteKinds)
  BY JobTyped
<1>2. Tail(job[h].plan) # job[h].plan
  BY <1>1, Shorter, Zenon
<1> QED
  BY <1>2, Zenon

\* What is left of a plan to save, when it still saves, keeps the copy.
LEMMA SavingOn ==
  ASSUME NEW j, NEW k, NEW o, NEW rs, NEW n, NEW o2, NEW rs2,
         Saving(j, o, rs, n), k.task = j.task, k.user = j.user, k.kind = j.kind,
         k.id = j.id, k.room = j.room, Fresh(k, o2, rs2),
         k.plan \in SavePlans \/ (k.plan = <<"inGame", "save">> /\ Seats(j))
  PROVE  Saving(k, o2, rs2, n)
<1>1. k.plan \in SavePlans \cup SeatPlans
  BY DEF SeatPlans
<1>2. Seats(j) => Seats(k)
  BY DEF Seats
<1>3. \A p \in SavePlans : p \notin SeatPlans
  <2>1. \A p \in SavePlans : Head(p) \in {"save", "clear"}
    BY Plans DEF SavePlans
  <2>2. \A p \in SeatPlans : Head(p) \in {"inGame", "joinSave"}
    BY Plans DEF SeatPlans
  <2> QED
    BY <2>1, <2>2
<1> QED
  BY <1>1, <1>2, <1>3 DEF Saving

LEMMA SaveStep ==
  ASSUME Tidy, NEW h \in Handlers, SaveRoom(h)
  PROVE  StaysTidy
<1> DEFINE j == job[h]
<1>1. /\ j # Idle /\ j.plan # << >>
      /\ owes(h, "save") \/ owes(h, "joinSave")
      /\ rooms' = saved(rooms, j.id, j.room)
      /\ playerRoom' = pointed(playerRoom, j.id, j.room)
      /\ Continue(h, j.id, j.room) /\ Overtakes({h}, {j.id})
      /\ UNCHANGED <<nextId, inGame, chat, chats, links, boards, menu>>
  BY DEF SaveRoom, owes
<1>2. /\ Saving(j, overtaken[h], rooms, nextId)
      /\ j.plan \in {<<"save">>, <<"save", "save">>, <<"save", "save", "save">>,
                     <<"joinSave", "inGame">>, <<"joinSave", "inGame", "save">>}
  <2>1. JobFine(j, overtaken[h], rooms, playerRoom, nextId)
    BY DEF Tidy
  <2> QED
    BY <1>1, <2>1, InHand DEF SavePlans
<1>3. PICK r \in RoomIds, x \in Room : /\ r = j.id /\ x = j.room /\ r <= nextId /\ settled(x)
                                       /\ r \notin overtaken[h] =>
                                            rooms[r] # None /\ Sound(j, rooms[r])
  BY <1>2 DEF Saving, Fresh
<1>4. /\ rooms \in [RoomIds -> Room \cup {None}] /\ nextId \in 0..MaxRooms
      /\ playerRoom \in [Users -> RoomIds \cup {None}] /\ RoomsFine(rooms, nextId)
  BY DEF Tidy, TypeOK
<1>5. /\ rooms' \in [RoomIds -> Room \cup {None}] /\ rooms'[r] = x
      /\ \A q \in RoomIds : q # r => rooms'[q] = rooms[q]
  BY <1>1, <1>3, <1>4 DEF saved
<1>6. /\ playerRoom' \in [Users -> RoomIds \cup {None}]
      /\ \A u \in Users : playerRoom'[u] = playerRoom[u] \/ playerRoom'[u] \in {r}
  BY <1>1, <1>3, <1>4 DEF pointed
<1>7. Elsewhere({r})
  <2>1. nextId' = nextId /\ nextId <= nextId'
    BY <1>1, <1>4, GameRoomsAssumption
  <2> QED
    BY <1>4, <1>5, <1>6, <2>1 DEF Elsewhere
<1>8. RoomsFine(rooms', nextId')
  BY <1>1, <1>3, <1>4, <1>5 DEF RoomsFine
<1>9. /\ job' \in [Handlers -> {Idle} \cup Job] /\ \A g \in Handlers : g # h => job'[g] = job[g]
      /\ job'[h].plan = Tail(j.plan) /\ job'[h].task = j.task /\ job'[h].user = j.user
      /\ job'[h].id = j.id /\ job'[h].room = j.room /\ job'[h].kind = j.kind
  BY <1>1, GoesOnAsIs DEF Tidy
<1>10. /\ overtaken' \in [Handlers -> SUBSET RoomIds]
       /\ \A g \in Handlers \ {h} : job[g] # Idle => overtaken'[g] = overtaken[g] \cup {r}
  BY <1>1, <1>3, Behind
<1>11. JobFine(job'[h], overtaken'[h], rooms', playerRoom', nextId')
  <2>1. PICK k, o, rs, pr, n : /\ k = job'[h] /\ o = overtaken'[h] /\ rs = rooms'
                               /\ pr = playerRoom' /\ n = nextId' /\ n = nextId
    BY <1>1
  <2>2. /\ k.plan = Tail(j.plan) /\ k.task = j.task /\ k.user = j.user
        /\ k.id = r /\ k.room = x /\ k.kind = j.kind /\ k.id = j.id /\ k.room = j.room
        /\ rs[r] = x
    BY <1>3, <1>5, <1>9, <2>1
  <2>3. x # None
    BY RoomTyped
  <2>4. Fresh(k, o, rs)
    BY <2>2, <2>3 DEF Fresh, Sound
  <2>5. j.task # "endChat" /\ (j.plan \in SeatPlans => Seats(j))
    BY <1>2 DEF Saving
  <2>6. CASE j.plan = <<"save">>
    <3>1. k.plan = << >>
      BY <2>2, <2>6, Plans
    <3>2. Through(k, o, rs, pr)
      BY <2>2, <2>5, <3>1 DEF Through
    <3> QED
      BY <2>1, <3>2 DEF JobFine
  <2>7. CASE j.plan \in {<<"save", "save">>, <<"save", "save", "save">>}
    <3>1. k.plan \in SavePlans
      BY <2>2, <2>7, Plans DEF SavePlans
    <3>2. Saving(k, o, rs, nextId)
      BY <1>2, <2>2, <2>4, <3>1, SavingOn
    <3> QED
      BY <2>1, <3>2 DEF JobFine
  <2>8. CASE j.plan = <<"joinSave", "inGame">>
    <3>1. k.plan = <<"inGame">> /\ Seats(j)
      BY <2>2, <2>5, <2>8, Plans DEF SeatPlans
    <3>2. Seated(k)
      BY <1>3, <2>2, <3>1 DEF Seated, Seats
    <3> QED
      BY <2>1, <3>2 DEF JobFine
  <2>9. CASE j.plan = <<"joinSave", "inGame", "save">>
    <3>1. k.plan = <<"inGame", "save">> /\ Seats(j)
      BY <2>2, <2>5, <2>9, Plans DEF SeatPlans
    <3>2. Saving(k, o, rs, nextId)
      BY <1>2, <2>2, <2>4, <3>1, SavingOn
    <3> QED
      BY <2>1, <3>2 DEF JobFine
  <2> QED
    BY <1>2, <2>6, <2>7, <2>8, <2>9
<1>12. Lasting(r)
  <2>1. writes(h, r)
    <3>1. job'[h] # job[h]
      BY <1>1, <1>9, TailDiffers DEF Tidy
    <3> QED
      BY <1>3, <3>1 DEF writes
  <2>2. CASE stale(h)
    BY <2>1, <2>2 DEF Lasting
  <2>3. CASE ~stale(h)
    <3>1. rooms[r] # None /\ Sound(j, rooms[r]) /\ rooms'[r] = j.room
      BY <1>3, <1>5, <2>3 DEF stale
    <3> QED
      BY <2>1, <3>1 DEF Lasting, Sound
  <2> QED
    BY <2>2, <2>3
<1>13. \A q \in RoomIds : Lasting(q)
  BY <1>5, <1>12, Lasts
<1>14. RestOK' /\ Spares({h}, {r})
  <2>1. RestOK'
    BY <1>1 DEF RestOK, Tidy, TypeOK
  <2> QED
    BY <1>9, <1>10, <2>1 DEF Spares
<1>15. Tidy'
  BY <1>7, <1>8, <1>9, <1>10, <1>11, <1>14, Together
<1> QED
  BY <1>13, <1>15 DEF StaysTidy

\* A write to nothing but a handler's own plan, a user's state, a chat or a message.
LEMMA OnItsOwn ==
  ASSUME Tidy, NEW h \in Handlers, UNCHANGED <<rooms, playerRoom, nextId>>, RestOK',
         job' \in [Handlers -> {Idle} \cup Job], \A g \in Handlers : g # h => job'[g] = job[g],
         overtaken' \in [Handlers -> SUBSET RoomIds],
         \A g \in Handlers : g # h => overtaken'[g] = overtaken[g],
         JobFine(job'[h], overtaken'[h], rooms, playerRoom, nextId)
  PROVE  StaysTidy
<1>1. /\ Elsewhere({}) /\ RoomsFine(rooms', nextId') /\ \A r \in RoomIds : Lasting(r)
  <2>1. playerRoom' \in [Users -> RoomIds \cup {None}]
    BY DEF Tidy, TypeOK
  <2> QED
    BY <2>1, RoomsStay
<1>2. Spares({h}, {})
  BY DEF Spares
<1>3. \A g \in {h} : JobFine(job'[g], overtaken'[g], rooms', playerRoom', nextId')
  OBVIOUS
<1> QED
  BY <1>1, <1>2, <1>3, Together DEF StaysTidy

LEMMA ClearStep ==
  ASSUME Tidy, NEW h \in Handlers, ClearUserState(h)
  PROVE  StaysTidy
<1> DEFINE j == job[h]
<1>1. /\ j # Idle /\ j.plan # << >> /\ owes(h, "clear") /\ Continue(h, j.id, j.room)
      /\ inGame' \subseteq inGame
      /\ UNCHANGED <<rooms, playerRoom, nextId, chat, chats, links, boards, menu, overtaken>>
  BY DEF ClearUserState, owes
<1>2. /\ job' \in [Handlers -> {Idle} \cup Job] /\ \A g \in Handlers : g # h => job'[g] = job[g]
      /\ job'[h].plan = Tail(j.plan) /\ job'[h].task = j.task /\ job'[h].user = j.user
      /\ job'[h].other = j.other /\ job'[h].id = j.id /\ job'[h].room = j.room
      /\ job'[h].kind = j.kind
  BY <1>1, GoesOnAsIs DEF Tidy
<1>3. RestOK'
  BY <1>1 DEF Tidy, TypeOK, RestOK
<1>4. JobFine(job'[h], overtaken'[h], rooms, playerRoom, nextId)
  <2>1. PICK k, o : k = job'[h] /\ o = overtaken'[h] /\ o = overtaken[h]
    BY <1>1
  <2>2. /\ k.plan = Tail(j.plan) /\ k.task = j.task /\ k.user = j.user /\ k.other = j.other
        /\ k.id = j.id /\ k.room = j.room /\ k.kind = j.kind
    BY <1>2, <2>1
  <2>3. CASE Saving(j, o, rooms, nextId) /\ j.plan = <<"clear", "save">>
    <3>1. k.plan \in SavePlans
      BY <2>2, <2>3, Plans DEF SavePlans
    <3>2. Fresh(k, o, rooms)
      BY <2>2, <2>3 DEF Saving, Fresh, Sound
    <3>3. Saving(k, o, rooms, nextId)
      BY <2>2, <2>3, <3>1, <3>2, SavingOn
    <3> QED
      BY <2>1, <3>3 DEF JobFine
  <2>4. CASE Removing(j) /\ j.plan \in {<<"clear", "remove">>, <<"clear">>}
    <3>1. j.task # "endChat" /\ j.room \in Room
      BY <2>4 DEF Removing
    <3>2. k.plan \in {<<"remove">>, << >>}
      BY <2>2, <2>4, Plans
    <3>3. Removing(k) \/ Through(k, o, rooms, playerRoom)
      BY <2>2, <3>1, <3>2 DEF Removing, RemovePlans, Through
    <3> QED
      BY <2>1, <3>3 DEF JobFine
  <2>5. CASE Leaving(j, o, rooms, playerRoom) /\ j.plan = <<"clear">>
    <3>1. /\ j.other \in Users /\ j.task = "endChat" /\ Gone(j.user, o, rooms, playerRoom)
          /\ Gone(j.other, o, rooms, playerRoom)
      BY <2>5, Plans DEF Leaving
    <3>2. k.plan = << >>
      BY <2>2, <2>5, Plans
    <3>3. Through(k, o, rooms, playerRoom)
      BY <2>2, <3>1, <3>2 DEF Through
    <3> QED
      BY <2>1, <3>3 DEF JobFine
  <2>6. JobFine(j, o, rooms, playerRoom, nextId)
    BY <2>1 DEF Tidy
  <2> QED
    BY <1>1, <2>3, <2>4, <2>5, <2>6, InHand
<1>5. /\ overtaken' \in [Handlers -> SUBSET RoomIds]
      /\ \A g \in Handlers : g # h => overtaken'[g] = overtaken[g]
  BY <1>1 DEF Tidy, TypeOK
<1> QED
  BY <1>1, <1>2, <1>3, <1>4, <1>5, OnItsOwn

LEMMA DeleteStep ==
  ASSUME Tidy, NEW h \in Handlers, DeleteActiveChat(h)
  PROVE  StaysTidy
<1> DEFINE j == job[h]
<1>1. /\ j # Idle /\ j.plan # << >> /\ owes(h, "deleteChat") /\ Continue(h, j.id, j.room)
      /\ UNCHANGED <<rooms, playerRoom, nextId, inGame, chats, links, boards, menu, overtaken>>
  BY DEF DeleteActiveChat, owes
<1>2. /\ j.plan = <<"deleteChat", "removeMine", "removeOther", "clear">>
      /\ j.task = "endChat" /\ j.other \in Users
  <2>1. JobFine(j, overtaken[h], rooms, playerRoom, nextId)
    BY DEF Tidy
  <2> QED
    BY <1>1, <2>1, InHand DEF Leaving
<1>3. /\ job' \in [Handlers -> {Idle} \cup Job] /\ \A g \in Handlers : g # h => job'[g] = job[g]
      /\ job'[h].plan = Tail(j.plan) /\ job'[h].task = j.task /\ job'[h].other = j.other
  BY <1>1, GoesOnAsIs DEF Tidy
<1>4. JobFine(job'[h], overtaken'[h], rooms, playerRoom, nextId)
  <2>1. job'[h].plan = <<"removeMine", "removeOther", "clear">>
    BY <1>2, <1>3, Plans
  <2>2. Leaving(job'[h], overtaken'[h], rooms, playerRoom)
    BY <1>2, <1>3, <2>1 DEF Leaving
  <2> QED
    BY <2>2 DEF JobFine
<1>5. chat' \in [Users -> Users \cup {None}]
  BY DEF Tidy, TypeOK, DeleteActiveChat
<1>6. /\ RestOK' /\ overtaken' \in [Handlers -> SUBSET RoomIds]
      /\ \A g \in Handlers : g # h => overtaken'[g] = overtaken[g]
  BY <1>1, <1>5 DEF Tidy, TypeOK, RestOK
<1> QED
  BY <1>1, <1>3, <1>4, <1>6, OnItsOwn

LEMMA ReturnStep ==
  ASSUME Tidy, NEW h \in Handlers, Return(h)
  PROVE  StaysTidy
<1> DEFINE j == job[h]
<1>1. /\ j # Idle /\ j.plan = << >> /\ job' = [job EXCEPT ![h] = Idle]
      /\ overtaken' = [overtaken EXCEPT ![h] = {}]
      /\ menu' = menu \cup sentMenu(j)
      /\ UNCHANGED <<store, chats, links, boards>>
  BY DEF Return
<1>2. Through(j, overtaken[h], rooms, playerRoom)
  <2>1. JobFine(j, overtaken[h], rooms, playerRoom, nextId)
    BY DEF Tidy
  <2>2. j.plan \notin SavePlans \cup SeatPlans \cup RemovePlans
    BY <1>1 DEF SavePlans, SeatPlans, RemovePlans
  <2> QED
    BY <1>1, <2>1, <2>2
       DEF JobFine, Saving, Removing, Linking, Inviting, Joining, Seated, Leaving
<1>3. sentMenu(j) \subseteq Users
  <2>1. j.user \in Users /\ j.other \in Users \cup {None}
    BY <1>1, JobTyped DEF Tidy
  <2>2. CASE j.task \in {"move", "endDare"}
    <3>1. players(j.room) \subseteq Users
      BY <1>2, <2>2, RoomTyped DEF Through
    <3>2. sentMenu(j) = IF j.room.gameOver THEN players(j.room) ELSE {}
      BY <2>2 DEF sentMenu
    <3> QED
      BY <3>1, <3>2
  <2>3. CASE j.task = "reject"
    <3>1. sentMenu(j) = {j.user, j.other} \ {None}
      BY <2>3 DEF sentMenu
    <3> QED
      BY <2>1, <3>1
  <2>4. CASE j.task \notin {"move", "endDare", "reject"}
    BY <2>4 DEF sentMenu
  <2> QED
    BY <2>2, <2>3, <2>4
<1>4. /\ job' \in [Handlers -> {Idle} \cup Job] /\ \A g \in Handlers : g # h => job'[g] = job[g]
      /\ job'[h] = Idle /\ overtaken' \in [Handlers -> SUBSET RoomIds]
      /\ \A g \in Handlers : g # h => overtaken'[g] = overtaken[g]
  BY <1>1 DEF Tidy, TypeOK
<1>5. JobFine(job'[h], overtaken'[h], rooms, playerRoom, nextId)
  BY <1>4, IdleFine
<1>6. RestOK'
  BY <1>1, <1>3 DEF Tidy, TypeOK, RestOK
<1> QED
  BY <1>1, <1>4, <1>5, <1>6, OnItsOwn

LEMMA BoardSent ==
  ASSUME Tidy, NEW S, NEW kind \in Kinds
  PROVE  sentBoard(S, kind) \in [Users -> SUBSET Kinds]
  BY DEF sentBoard, Tidy, TypeOK

LEMMA InGameStep ==
  ASSUME Tidy, NEW h \in Handlers, SetInGame(h)
  PROVE  StaysTidy
<1> DEFINE j == job[h]
           kind == IF j.task = "accept" THEN j.room.kind ELSE j.kind
<1>1. /\ j # Idle /\ j.plan # << >> /\ owes(h, "inGame") /\ Continue(h, j.id, j.room)
      /\ UNCHANGED <<rooms, playerRoom, nextId, chat, chats, menu, overtaken>>
  BY DEF SetInGame, owes
<1>2. j.user \in Users /\ j.other \in Users \cup {None}
  BY <1>1, JobTyped DEF Tidy
<1>3. /\ job' \in [Handlers -> {Idle} \cup Job] /\ \A g \in Handlers : g # h => job'[g] = job[g]
      /\ job'[h].plan = Tail(j.plan) /\ job'[h].task = j.task /\ job'[h].user = j.user
      /\ job'[h].id = j.id /\ job'[h].room = j.room /\ job'[h].kind = j.kind
  BY <1>1, GoesOnAsIs DEF Tidy
<1>4. /\ overtaken' \in [Handlers -> SUBSET RoomIds]
      /\ \A g \in Handlers : g # h => overtaken'[g] = overtaken[g]
      /\ inGame \subseteq Users /\ links \in [Users -> SUBSET Kinds]
      /\ boards \in [Users -> SUBSET Kinds]
  BY <1>1 DEF Tidy, TypeOK
<1>5. \/ Saving(j, overtaken[h], rooms, nextId) /\ j.plan = <<"inGame", "save">>
      \/ Seated(j) /\ j.plan = <<"inGame">>
  <2>1. JobFine(j, overtaken[h], rooms, playerRoom, nextId)
    BY DEF Tidy
  <2> QED
    BY <1>1, <2>1, InHand
<1>6. Seats(j)
  BY <1>5 DEF Saving, Seated, SeatPlans
<1>7. j.task = "select" => j.kind \in Kinds
  BY <1>6 DEF Seats
<1>8. links' \in [Users -> SUBSET Kinds]
  BY <1>2, <1>4, <1>7 DEF SetInGame
<1>9. CASE Saving(j, overtaken[h], rooms, nextId) /\ j.plan = <<"inGame", "save">>
  <2>1. j.room \in Room /\ players(j.room) \subseteq Users /\ j.room.kind \in Kinds
    BY <1>9, RoomTyped DEF Saving
  <2>2. kind \in Kinds
    BY <1>6, <2>1 DEF Seats
  <2>3. inGame' \subseteq Users
    BY <1>2, <1>4, <2>1 DEF SetInGame
  <2>4. boards' \in [Users -> SUBSET Kinds]
    <3>1. boards' \in {boards, sentBoard(players(j.room), kind)}
      BY DEF SetInGame
    <3> HIDE DEF kind
    <3> QED
      BY <1>4, <2>2, <3>1, BoardSent
  <2>5. RestOK'
    BY <1>1, <1>8, <2>3, <2>4 DEF Tidy, TypeOK, RestOK
  <2>6. PICK k, o : k = job'[h] /\ o = overtaken'[h] /\ o = overtaken[h]
    BY <1>1
  <2>7. /\ k.plan = <<"save">> /\ k.task = j.task /\ k.user = j.user
        /\ k.id = j.id /\ k.room = j.room /\ k.kind = j.kind
    BY <1>3, <1>9, <2>6, Plans
  <2>8. Fresh(k, o, rooms)
    BY <1>9, <2>6, <2>7 DEF Saving, Fresh, Sound
  <2>9. Saving(k, o, rooms, nextId)
    BY <1>9, <2>6, <2>7, <2>8, SavingOn DEF SavePlans
  <2>10. JobFine(job'[h], overtaken'[h], rooms, playerRoom, nextId)
    BY <2>6, <2>9 DEF JobFine
  <2> QED
    BY <1>1, <1>3, <1>4, <2>5, <2>10, OnItsOwn
<1>10. CASE Seated(j) /\ j.plan = <<"inGame">>
  <2>1. Tail(j.plan) = << >> /\ j.task \notin {"move", "endDare", "endChat"}
    BY <1>6, <1>10, Plans DEF Seats
  <2>2. boards' = boards
    BY <2>1 DEF SetInGame
  <2>3. inGame' \subseteq Users
    <3>1. CASE j.task = "accept"
      <4>1. inGame' \subseteq inGame \cup players(j.room)
        BY <3>1 DEF SetInGame
      <4>2. j.room \in Room
        BY <1>10, <3>1 DEF Seated
      <4>3. players(j.room) \subseteq Users
        BY <4>2, RoomTyped
      <4> QED
        BY <1>4, <4>1, <4>3
    <3>2. CASE j.task # "accept"
      BY <1>2, <1>4, <3>2 DEF SetInGame
    <3> QED
      BY <3>1, <3>2
  <2>4. RestOK'
    BY <1>1, <1>4, <1>8, <2>2, <2>3 DEF Tidy, TypeOK, RestOK
  <2>5. Through(job'[h], overtaken'[h], rooms, playerRoom)
    BY <1>3, <2>1 DEF Through
  <2>6. JobFine(job'[h], overtaken'[h], rooms, playerRoom, nextId)
    BY <2>5 DEF JobFine
  <2> QED
    BY <1>1, <1>3, <1>4, <2>4, <2>6, OnItsOwn
<1> QED
  BY <1>5, <1>9, <1>10

LEMMA JoinStep ==
  ASSUME Tidy, NEW h \in Handlers, JoinRoom(h)
  PROVE  StaysTidy
<1> DEFINE j == job[h]
<1>1. /\ j # Idle /\ j.plan # << >> /\ owes(h, "joinRead")
      /\ overtaken' = [overtaken EXCEPT ![h] = {}]
      /\ UNCHANGED <<store, chats, links, boards, menu>>
  BY DEF JoinRoom, owes
<1>2. Joining(j, nextId)
  <2>1. JobFine(j, overtaken[h], rooms, playerRoom, nextId)
    BY DEF Tidy
  <2> QED
    BY <1>1, <2>1, InHand
<1>3. /\ Seats(j) /\ j.other \in Users /\ j.id \in RoomIds /\ j.id <= nextId
      /\ j.task \in {"join", "chatGame"} /\ TypeOK
  BY <1>2 DEF Joining, Seats, Tidy
<1>4. getRoomByID(j.id) = rooms[j.id]
  BY <1>3, NoneAssumption DEF getRoomByID
<1>5. /\ overtaken' \in [Handlers -> SUBSET RoomIds] /\ overtaken'[h] = {}
      /\ \A g \in Handlers : g # h => overtaken'[g] = overtaken[g]
      /\ RestOK'
  BY <1>1 DEF Tidy, TypeOK, RestOK
<1>6. j.room \in Room \cup {None} /\ j.id \in RoomIds \cup {None}
  BY <1>1, JobTyped DEF Tidy
<1>7. CASE ~joinable(rooms[j.id])
  <2>1. job' = [job EXCEPT ![h].plan = <<"inGame">>]
    BY <1>4, <1>7 DEF JoinRoom
  <2>2. /\ job'[h].task = j.task /\ job'[h].kind = j.kind /\ job'[h].plan = <<"inGame">>
        /\ job' \in [Handlers -> {Idle} \cup Job]
        /\ \A g \in Handlers : g # h => job'[g] = job[g]
    BY <1>1, <1>3, <2>1, Known, Replans
  <2>3. Seated(job'[h])
    BY <1>3, <2>2 DEF Seated, Seats
  <2>4. JobFine(job'[h], overtaken'[h], rooms, playerRoom, nextId)
    BY <2>3 DEF JobFine
  <2> QED
    BY <1>1, <1>5, <2>2, <2>4, OnItsOwn
<1>8. CASE joinable(rooms[j.id])
  <2> DEFINE x == [rooms[j.id] EXCEPT !.player2 = j.other]
  <2>1. /\ rooms[j.id] \in Room /\ rooms[j.id] # None /\ rooms[j.id].player2 = None
        /\ settled(rooms[j.id])
    BY <1>3, <1>8 DEF joinable, Tidy, TypeOK, RoomsFine
  <2>2. PICK plan \in {<<"joinSave", "inGame">>, <<"joinSave", "inGame", "save">>} :
           job' = [job EXCEPT ![h].room = x, ![h].plan = plan]
    <3>1. \/ job' = [job EXCEPT ![h].room = x, ![h].plan = <<"joinSave", "inGame">> \o <<"save">>]
          \/ job' = [job EXCEPT ![h].room = x, ![h].plan = <<"joinSave", "inGame">> \o << >>]
      BY <1>4, <1>8 DEF JoinRoom
    <3> QED
      BY <3>1, Joined
  <2>3. plan \in Seq(WriteKinds) /\ plan \in SeatPlans
    BY <2>2, Joined DEF SeatPlans
  <2>4. /\ x \in Room /\ settled(x) /\ x.gameOver = rooms[j.id].gameOver
    <3>1. x \in Room /\ x.gameOver = rooms[j.id].gameOver /\ x.pending = rooms[j.id].pending
      BY <1>3, <2>1 DEF Room
    <3>2. x.pending = None
      BY <2>1, <3>1 DEF settled
    <3> QED
      BY <3>1, <3>2 DEF settled
  <2> HIDE DEF x
  <2>5. PICK id \in RoomIds \cup {None}, room \in Room \cup {None} : id = j.id /\ room = x
    BY <1>6, <2>4
  <2>6. Onward(h, id, room, plan)
    <3>1. job[h] \in Job
      BY <1>1, JobTyped DEF Tidy
    <3>2. [job[h] EXCEPT !.id = id, !.room = room, !.plan = plan]
             = [job[h] EXCEPT !.room = room, !.plan = plan]
      BY <2>5, <3>1 DEF Job
    <3>3. job' = [job EXCEPT ![h] = [job[h] EXCEPT !.room = room, !.plan = plan]]
      BY <2>2, <2>5 DEF Tidy, TypeOK
    <3> QED
      BY <3>2, <3>3 DEF Onward
  <2>7. /\ job'[h].task = j.task /\ job'[h].kind = j.kind /\ job'[h].plan = plan
        /\ job'[h].id = j.id /\ job'[h].room = x
        /\ job' \in [Handlers -> {Idle} \cup Job]
        /\ \A g \in Handlers : g # h => job'[g] = job[g]
    <3>1. TypeOK /\ job[h] # Idle /\ job[h].plan # << >> /\ plan \in Seq(WriteKinds)
      BY <1>1, <1>3, <2>3
    <3>2. /\ job'[h].task = j.task /\ job'[h].kind = j.kind /\ job'[h].plan = plan
          /\ job'[h].id = id /\ job'[h].room = room
          /\ job' \in [Handlers -> {Idle} \cup Job]
          /\ \A g \in Handlers : g # h => job'[g] = job[g]
      BY <3>1, <2>6, GoesOn
    <3> QED
      BY <2>5, <3>2
  <2>8. Saving(job'[h], {}, rooms, nextId)
    <3>1. PICK k : k = job'[h]
      OBVIOUS
    <3>2. /\ k.task = j.task /\ k.kind = j.kind /\ k.plan = plan /\ k.id = j.id /\ k.room = x
      BY <2>7, <3>1
    <3>3. Fresh(k, {}, rooms) /\ Seats(k)
      BY <1>3, <2>1, <2>4, <3>2 DEF Fresh, Sound, Seats
    <3>4. Saving(k, {}, rooms, nextId)
      BY <1>3, <2>3, <2>4, <3>2, <3>3 DEF Saving
    <3> QED
      BY <3>1, <3>4
  <2>9. JobFine(job'[h], overtaken'[h], rooms, playerRoom, nextId)
    BY <1>5, <2>8 DEF JobFine
  <2> QED
    BY <1>1, <1>5, <2>7, <2>9, OnItsOwn
<1> QED
  BY <1>7, <1>8

LEMMA CreateStep ==
  ASSUME Tidy, NEW h \in Handlers, CreateRoom(h)
  PROVE  StaysTidy
<1> DEFINE j == job[h]
           x == [player1 |-> j.user, player2 |-> None, kind |-> j.kind,
                 gameOver |-> FALSE, pending |-> None, by |-> None]
<1>1. /\ j # Idle /\ j.plan # << >> /\ owes(h, "create")
      /\ nextId < MaxRooms /\ nextId' = nextId + 1
      /\ rooms' = saved(rooms, nextId', x) /\ playerRoom' = pointed(playerRoom, nextId', x)
      /\ Continue(h, nextId', x) /\ Overtakes({h}, {nextId'})
      /\ UNCHANGED <<inGame, chat, chats, links, boards, menu>>
  BY DEF CreateRoom, owes
<1>2. \/ Linking(j) /\ j.plan = <<"create", "inGame", "save">>
      \/ Inviting(j) /\ j.plan = <<"create", "joinRead">>
  <2>1. JobFine(j, overtaken[h], rooms, playerRoom, nextId)
    BY DEF Tidy
  <2> QED
    BY <1>1, <2>1, InHand
<1>3. j.user \in Users /\ j.kind \in Kinds
  BY <1>1, <1>2, JobTyped DEF Linking, Inviting, Tidy
<1>4. PICK r \in RoomIds : r = nextId' /\ r \in 0..MaxRooms /\ r = nextId + 1
  BY <1>1, GameRoomsAssumption DEF Tidy, TypeOK, RoomIds
<1>5. x \in Room /\ x.pending = None
  BY <1>3 DEF Room
<1> HIDE DEF x
<1>6. /\ rooms \in [RoomIds -> Room \cup {None}] /\ nextId \in Nat /\ nextId <= r
      /\ playerRoom \in [Users -> RoomIds \cup {None}] /\ RoomsFine(rooms, nextId)
      /\ ~(r <= nextId)
  BY <1>4, GameRoomsAssumption DEF Tidy, TypeOK
<1>7. rooms[r] = None
  BY <1>6 DEF RoomsFine
<1>8. /\ rooms' \in [RoomIds -> Room \cup {None}] /\ rooms'[r] = x
      /\ \A q \in RoomIds : q # r => rooms'[q] = rooms[q]
  BY <1>1, <1>4, <1>5, <1>6 DEF saved
<1>9. Elsewhere({r})
  <2>1. /\ playerRoom' \in [Users -> RoomIds \cup {None}]
        /\ \A u \in Users : playerRoom'[u] = playerRoom[u] \/ playerRoom'[u] \in {r}
    BY <1>1, <1>4, <1>6 DEF pointed
  <2> QED
    BY <1>4, <1>6, <1>8, <2>1 DEF Elsewhere
<1>10. RoomsFine(rooms', nextId')
  <2>1. ASSUME NEW q \in RoomIds, rooms'[q] # None PROVE q <= r /\ settled(rooms'[q])
    <3>1. CASE q = r
      <4>1. q <= r
        BY <3>1 DEF RoomIds
      <4> QED
        BY <1>5, <1>8, <3>1, <4>1 DEF settled
    <3>2. CASE q # r
      <4>1. q <= nextId /\ settled(rooms'[q])
        BY <1>6, <1>8, <2>1, <3>2 DEF RoomsFine
      <4>2. q <= r
        BY <1>4, <1>6, <4>1 DEF RoomIds
      <4> QED
        BY <4>1, <4>2
    <3> QED
      BY <3>1, <3>2
  <2> QED
    BY <1>4, <2>1 DEF RoomsFine
<1>11. /\ job' \in [Handlers -> {Idle} \cup Job] /\ \A g \in Handlers : g # h => job'[g] = job[g]
       /\ job'[h].plan = Tail(j.plan) /\ job'[h].task = j.task /\ job'[h].kind = j.kind
       /\ job'[h].user = j.user /\ job'[h].other = j.other
       /\ job'[h].id = r /\ job'[h].room = x
  <2>1. Continue(h, r, x)
    BY <1>1, <1>4
  <2> QED
    BY <2>1, <1>1, <1>5, Continues DEF Tidy
<1>12. /\ overtaken' \in [Handlers -> SUBSET RoomIds]
       /\ \A g \in Handlers \ {h} : job[g] # Idle => overtaken'[g] = overtaken[g] \cup {r}
  BY <1>1, <1>4, Behind
<1>13. JobFine(job'[h], overtaken'[h], rooms', playerRoom', nextId')
  <2>1. PICK k, o, rs, pr : k = job'[h] /\ o = overtaken'[h] /\ rs = rooms' /\ pr = playerRoom'
    OBVIOUS
  <2>2. /\ k.plan = Tail(j.plan) /\ k.task = j.task /\ k.kind = j.kind /\ k.other = j.other
        /\ k.id = r /\ k.room = x /\ rs[r] = x
    BY <1>8, <1>11, <2>1
  <2>3. CASE Linking(j) /\ j.plan = <<"create", "inGame", "save">>
    <3>1. k.plan = <<"inGame", "save">> /\ k.task = "select"
      BY <2>2, <2>3, Plans DEF Linking
    <3>2. Seats(k) /\ k.plan \in SeatPlans
      BY <1>3, <2>2, <3>1 DEF Seats, SeatPlans
    <3>3. Fresh(k, o, rs) /\ settled(x) /\ x # None /\ r <= r
      <4>1. x # None /\ r <= r
        BY <1>5, RoomTyped DEF RoomIds
      <4> QED
        BY <1>5, <2>2, <4>1 DEF Fresh, Sound, settled
    <3>4. Saving(k, o, rs, r)
      BY <1>5, <2>2, <3>1, <3>2, <3>3 DEF Saving
    <3> QED
      BY <1>4, <2>1, <3>4 DEF JobFine
  <2>4. CASE Inviting(j) /\ j.plan = <<"create", "joinRead">>
    <3>1. k.plan = <<"joinRead">> /\ k.task = "chatGame" /\ k.other \in Users
      BY <2>2, <2>4, Plans DEF Inviting
    <3>2. r <= r
      BY DEF RoomIds
    <3>3. Joining(k, r)
      BY <1>3, <2>2, <3>1, <3>2 DEF Joining
    <3> QED
      BY <1>4, <2>1, <3>3 DEF JobFine
  <2> QED
    BY <1>2, <2>3, <2>4
<1>14. RestOK' /\ Spares({h}, {r})
  <2>1. RestOK'
    BY <1>1 DEF RestOK, Tidy, TypeOK
  <2> QED
    BY <1>11, <1>12, <2>1 DEF Spares
<1>15. Tidy'
  BY <1>9, <1>10, <1>11, <1>12, <1>13, <1>14, Together
<1>16. \A q \in RoomIds : Lasting(q)
  <2>1. Lasting(r)
    BY <1>6, <1>7 DEF Lasting
  <2> QED
    BY <1>8, <2>1, Lasts
<1> QED
  BY <1>15, <1>16 DEF StaysTidy


LEMMA RemoveStep ==
  ASSUME Tidy, NEW h \in Handlers, RemoveRoomByRoomID(h)
  PROVE  StaysTidy
<1> DEFINE j == job[h]
<1>1. /\ j # Idle /\ j.plan # << >> /\ owes(h, "remove") /\ removeRoom({h}, j.id)
      /\ Continue(h, j.id, j.room)
      /\ UNCHANGED <<nextId, inGame, chat, chats, links, boards, menu>>
  BY DEF RemoveRoomByRoomID, owes
<1>2. Removing(j) /\ j.plan \in {<<"remove">>, <<"remove", "clear">>}
  <2>1. JobFine(j, overtaken[h], rooms, playerRoom, nextId)
    BY DEF Tidy
  <2> QED
    BY <1>1, <2>1, InHand
<1>3. /\ job' \in [Handlers -> {Idle} \cup Job] /\ \A g \in Handlers : g # h => job'[g] = job[g]
      /\ job'[h].plan = Tail(j.plan) /\ job'[h].task = j.task /\ job'[h].room = j.room
  BY <1>1, GoesOnAsIs DEF Tidy
<1>4. PICK r \in RoomIds \cup {None} : r = j.id
  BY <1>1, JobTyped DEF Tidy
<1>5. PICK W \in SUBSET RoomIds :
        /\ Elsewhere(W) /\ RoomsFine(rooms', nextId') /\ \A q \in RoomIds : Lasting(q)
        /\ overtaken' \in [Handlers -> SUBSET RoomIds]
        /\ \A g \in Handlers \ {h} : job[g] # Idle => overtaken'[g] = overtaken[g] \cup W
  <2>1. removeRoom({h}, r) /\ nextId' = nextId
    BY <1>1, <1>4
  <2> QED
    BY <2>1, RemoveTidy
<1>6. JobFine(job'[h], overtaken'[h], rooms', playerRoom', nextId')
  <2>1. PICK k, o, rs, pr, n : /\ k = job'[h] /\ o = overtaken'[h] /\ rs = rooms'
                               /\ pr = playerRoom' /\ n = nextId'
    OBVIOUS
  <2>2. k.plan = Tail(j.plan) /\ k.task = j.task /\ k.room = j.room
    BY <1>3, <2>1
  <2>3. j.task # "endChat" /\ j.room \in Room
    BY <1>2 DEF Removing
  <2>4. k.plan \in {<< >>, <<"clear">>}
    BY <1>2, <2>2, Plans
  <2>5. Removing(k) \/ Through(k, o, rs, pr)
    BY <2>2, <2>3, <2>4 DEF Removing, RemovePlans, Through
  <2> QED
    BY <2>1, <2>5 DEF JobFine
<1>7. RestOK' /\ Spares({h}, W)
  <2>1. RestOK'
    BY <1>1 DEF RestOK, Tidy, TypeOK
  <2> QED
    BY <1>3, <1>5, <2>1 DEF Spares
<1>8. Tidy'
  BY <1>3, <1>5, <1>6, <1>7, Together
<1> QED
  BY <1>5, <1>8 DEF StaysTidy

LEMMA RemoveMineStep ==
  ASSUME Tidy, NEW h \in Handlers, RemoveRoomsByPlayerID(h)
  PROVE  StaysTidy
<1> DEFINE j == job[h]
<1>1. /\ j # Idle /\ j.plan # << >>
      /\ \/ owes(h, "removeMine") /\ removeRoom({h}, GetRoomIdByPlayerID(j.user))
         \/ owes(h, "removeOther") /\ removeRoom({h}, GetRoomIdByPlayerID(j.other))
      /\ Continue(h, j.id, j.room)
      /\ UNCHANGED <<nextId, inGame, chat, chats, links, boards, menu>>
  BY DEF RemoveRoomsByPlayerID, owes
<1>2. JobFine(j, overtaken[h], rooms, playerRoom, nextId)
  BY DEF Tidy
<1>3. /\ job' \in [Handlers -> {Idle} \cup Job] /\ \A g \in Handlers : g # h => job'[g] = job[g]
      /\ job'[h].plan = Tail(j.plan) /\ job'[h].task = j.task /\ job'[h].user = j.user
      /\ job'[h].other = j.other /\ job'[h].kind = j.kind
  BY <1>1, GoesOnAsIs DEF Tidy
<1>4. j.user \in Users /\ (owes(h, "removeOther") => j.other \in Users)
  <2>1. j.user \in Users
    BY <1>1, JobTyped DEF Tidy
  <2>2. owes(h, "removeOther") => j.other \in Users
    BY <1>2, InHand DEF Inviting, Leaving
  <2> QED
    BY <2>1, <2>2
<1>5. PICK v \in Users, r \in RoomIds \cup {None} :
        /\ r = GetRoomIdByPlayerID(v) /\ removeRoom({h}, r)
        /\ \/ owes(h, "removeMine") /\ v = j.user
           \/ owes(h, "removeOther") /\ v = j.other
  <2>1. CASE owes(h, "removeMine") /\ removeRoom({h}, GetRoomIdByPlayerID(j.user))
    BY <1>4, <2>1, RoomOfPlayer
  <2>2. CASE owes(h, "removeOther") /\ removeRoom({h}, GetRoomIdByPlayerID(j.other))
    BY <1>4, <2>2, RoomOfPlayer
  <2> QED
    BY <1>1, <2>1, <2>2
<1>6. nextId' = nextId
  BY <1>1
<1>7. PICK W \in SUBSET RoomIds :
        /\ Elsewhere(W) /\ RoomsFine(rooms', nextId') /\ \A q \in RoomIds : Lasting(q)
        /\ overtaken' \in [Handlers -> SUBSET RoomIds]
        /\ \A g \in Handlers \ {h} : job[g] # Idle => overtaken'[g] = overtaken[g] \cup W
        /\ overtaken'[h] = overtaken[h] \ W
        /\ r # None => rooms'[r] = None
        /\ \A q \in RoomIds : rooms'[q] # None => rooms'[q] = rooms[q] /\ q \notin W
        /\ \A u \in Users : playerRoom'[u] = playerRoom[u] \/ playerRoom'[u] = None
  <2>1. removeRoom({h}, r)
    BY <1>5
  <2> QED
    BY <1>6, <2>1, RemoveTidy
<1>8. Gone(v, overtaken'[h], rooms', playerRoom')
  BY <1>5, <1>7, GoneNow
<1>9. Gone(j.user, overtaken[h], rooms, playerRoom)
        => Gone(j.user, overtaken'[h], rooms', playerRoom')
  <2>1. PICK u \in Users : u = j.user
    BY <1>4
  <2>2. playerRoom[u] # None => playerRoom[u] \in RoomIds
    BY DEF Tidy, TypeOK
  <2> QED
    BY <1>7, <2>1, <2>2, GoneStays
<1>10. JobFine(job'[h], overtaken'[h], rooms', playerRoom', nextId')
  <2>1. PICK k, o, rs, pr, n : /\ k = job'[h] /\ o = overtaken'[h] /\ rs = rooms'
                               /\ pr = playerRoom' /\ n = nextId'
    OBVIOUS
  <2>2. /\ k.plan = Tail(j.plan) /\ k.task = j.task /\ k.user = j.user
        /\ k.other = j.other /\ k.kind = j.kind
    BY <1>3, <2>1
  <2>3. CASE owes(h, "removeMine") /\ v = j.user
    <3>1. CASE Linking(j) /\ j.plan = <<"removeMine", "create", "inGame", "save">>
      <4>1. k.plan = <<"create", "inGame", "save">>
        BY <2>2, <3>1, Plans
      <4>2. Linking(k)
        BY <2>2, <3>1, <4>1 DEF Linking
      <4> QED
        BY <2>1, <4>2 DEF JobFine
    <3>2. CASE /\ Inviting(j)
               /\ j.plan = <<"removeMine", "removeOther", "create", "joinRead">>
      <4>1. k.plan = <<"removeOther", "create", "joinRead">>
        BY <2>2, <3>2, Plans
      <4>2. Inviting(k)
        BY <2>2, <3>2, <4>1 DEF Inviting
      <4> QED
        BY <2>1, <4>2 DEF JobFine
    <3>3. CASE /\ Leaving(j, overtaken[h], rooms, playerRoom)
               /\ j.plan = <<"removeMine", "removeOther", "clear">>
      <4>1. k.plan = <<"removeOther", "clear">> /\ Gone(k.user, o, rs, pr)
        BY <1>8, <2>1, <2>2, <2>3, <3>3, Plans
      <4>2. Leaving(k, o, rs, pr)
        BY <2>2, <3>3, <4>1 DEF Leaving
      <4> QED
        BY <2>1, <4>2 DEF JobFine
    <3> QED
      BY <1>2, <2>3, <3>1, <3>2, <3>3, InHand
  <2>4. CASE owes(h, "removeOther") /\ v = j.other
    <3>1. CASE Inviting(j) /\ j.plan = <<"removeOther", "create", "joinRead">>
      <4>1. k.plan = <<"create", "joinRead">>
        BY <2>2, <3>1, Plans
      <4>2. Inviting(k)
        BY <2>2, <3>1, <4>1 DEF Inviting
      <4> QED
        BY <2>1, <4>2 DEF JobFine
    <3>2. CASE /\ Leaving(j, overtaken[h], rooms, playerRoom)
               /\ j.plan = <<"removeOther", "clear">>
      <4>1. Gone(j.user, overtaken[h], rooms, playerRoom)
        <5>1. \A p \in {<<"deleteChat", "removeMine", "removeOther", "clear">>,
                        <<"removeMine", "removeOther", "clear">>, <<"clear">>} :
                 p # <<"removeOther", "clear">>
          BY Plans
        <5> QED
          BY <3>2, <5>1 DEF Leaving
      <4>2. /\ k.plan = <<"clear">> /\ Gone(k.other, o, rs, pr)
            /\ Gone(k.user, o, rs, pr)
        BY <1>8, <1>9, <2>1, <2>2, <2>4, <3>2, <4>1, Plans
      <4>3. Leaving(k, o, rs, pr)
        BY <2>2, <3>2, <4>2 DEF Leaving
      <4> QED
        BY <2>1, <4>3 DEF JobFine
    <3> QED
      BY <1>2, <2>4, <3>1, <3>2, InHand
  <2> QED
    BY <1>5, <2>3, <2>4
<1>11. RestOK' /\ Spares({h}, W)
  <2>1. RestOK'
    BY <1>1 DEF RestOK, Tidy, TypeOK
  <2> QED
    BY <1>3, <1>7, <2>1 DEF Spares
<1>12. Tidy'
  <2>1. /\ Elsewhere(W) /\ RoomsFine(rooms', nextId')
        /\ overtaken' \in [Handlers -> SUBSET RoomIds]
        /\ job' \in [Handlers -> {Idle} \cup Job]
    BY <1>3, <1>7
  <2>2. \A g \in {h} : JobFine(job'[g], overtaken'[g], rooms', playerRoom', nextId')
    BY <1>10
  <2> QED
    BY <1>11, <2>1, <2>2, Together
<1> QED
  BY <1>7, <1>12 DEF StaysTidy

-----------------------------------------------------------------------------
(* The handlers.                                                           *)

\* A handler that has set out with these locals leaves the rest tidy.
SetsOut(h, task, u, other, kind, id, x, plan) ==
    \E k \in Job : /\ k.task = task /\ k.user = u /\ k.other = other /\ k.kind = kind
                   /\ k.id = id /\ k.room = x /\ k.plan = plan
                   /\ JobFine(k, overtaken[h], rooms, playerRoom, nextId) => StaysTidy

LEMMA Starts ==
  ASSUME Tidy, NEW h \in Handlers, NEW task \in Tasks, NEW u \in Users,
         NEW other \in Users \cup {None}, NEW kind \in Kinds \cup {None},
         NEW id \in RoomIds \cup {None}, NEW x \in Room \cup {None},
         NEW plan \in Seq(WriteKinds), Start(h, task, u, other, kind, id, x, plan),
         boards' \in [Users -> SUBSET Kinds]
  PROVE  SetsOut(h, task, u, other, kind, id, x, plan)
<1> DEFINE k == [task |-> task, user |-> u, other |-> other, kind |-> kind, id |-> id,
                 room |-> x, plan |-> plan]
<1>1. /\ k \in Job /\ k.task = task /\ k.user = u /\ k.other = other /\ k.kind = kind
      /\ k.id = id /\ k.room = x /\ k.plan = plan
  BY DEF Job
<1>2. /\ job' = [job EXCEPT ![h] = k]
      /\ UNCHANGED <<store, chats, links, menu, overtaken>>
  BY DEF Start
<1> HIDE DEF k
<1>3. /\ job' \in [Handlers -> {Idle} \cup Job] /\ \A g \in Handlers : g # h => job'[g] = job[g]
      /\ job'[h] = k
  BY <1>1, <1>2 DEF Tidy, TypeOK
<1>4. RestOK'
  BY <1>2 DEF Tidy, TypeOK, RestOK
<1>5. /\ overtaken' \in [Handlers -> SUBSET RoomIds]
      /\ \A g \in Handlers : g # h => overtaken'[g] = overtaken[g]
      /\ overtaken'[h] = overtaken[h]
  BY <1>2 DEF Tidy, TypeOK
<1>6. JobFine(k, overtaken[h], rooms, playerRoom, nextId) => StaysTidy
  <2> SUFFICES ASSUME JobFine(k, overtaken[h], rooms, playerRoom, nextId) PROVE StaysTidy
    OBVIOUS
  <2>1. JobFine(job'[h], overtaken'[h], rooms, playerRoom, nextId)
    BY <1>3, <1>5
  <2>2. UNCHANGED <<rooms, playerRoom, nextId>>
    BY <1>2
  <2> QED
    BY <1>3, <1>4, <1>5, <2>1, <2>2, OnItsOwn
<1> QED
  BY <1>1, <1>6 DEF SetsOut

\* The copy x that u's handler saves goes with the stored room r.
Renews(task, u, r, x) ==
    /\ x \in Room /\ settled(x)
    /\ rooms[r].player2 # None => \/ players(x) = players(rooms[r])
                                  \/ task = "repeat" /\ u \notin players(rooms[r])
    /\ rooms[r].gameOver /\ ~x.gameOver =>
         task = "accept" /\ rooms[r].pending = x.kind /\ rooms[r].by # u

\* A handler of room r that will save what it makes of it.
LEMMA SavingStep ==
  ASSUME Tidy, NEW h \in Handlers, NEW task \in Tasks \ {"endChat"}, NEW u \in Users,
         NEW other \in Users \cup {None}, NEW kind \in Kinds \cup {None}, NEW r \in RoomIds,
         rooms[r] # None, r <= nextId, NEW x, Renews(task, u, r, x), NEW plan,
         \/ plan \in SavePlans
         \/ plan = <<"inGame", "save">> /\ task = "accept",
         Start(h, task, u, other, kind, r, x, plan), boards' \in [Users -> SUBSET Kinds]
  PROVE  StaysTidy
<1>1. x \in Room /\ x \in Room \cup {None} /\ r \in RoomIds \cup {None} /\ task \in Tasks
  BY DEF Renews
<1>2. plan \in Seq(WriteKinds)
  BY Known DEF SavePlans
<1>3. SetsOut(h, task, u, other, kind, r, x, plan)
  BY <1>1, <1>2, Starts
<1>4. PICK k \in Job :
         /\ k.task = task /\ k.user = u /\ k.id = r /\ k.room = x /\ k.plan = plan
         /\ JobFine(k, overtaken[h], rooms, playerRoom, nextId) => StaysTidy
  BY <1>3 DEF SetsOut
<1>5. Fresh(k, overtaken[h], rooms)
  BY <1>4 DEF Fresh, Sound, Renews
<1>6. \A p \in SavePlans : p \notin SeatPlans
  <2>1. \A p \in SavePlans : Head(p) \in {"save", "clear"}
    BY Plans DEF SavePlans
  <2>2. \A p \in SeatPlans : Head(p) \in {"inGame", "joinSave"}
    BY Plans DEF SeatPlans
  <2> QED
    BY <2>1, <2>2
<1>7. k.plan \in SavePlans \cup SeatPlans /\ (k.plan \in SeatPlans => Seats(k))
  BY <1>4, <1>6 DEF SeatPlans, Seats
<1>8. settled(x)
  BY DEF Renews
<1>9. Saving(k, overtaken[h], rooms, nextId)
  BY <1>1, <1>4, <1>5, <1>7, <1>8 DEF Saving
<1> QED
  BY <1>4, <1>9 DEF JobFine

\* A handler that will remove a room.
LEMMA RemovalStep ==
  ASSUME Tidy, NEW h \in Handlers, NEW task \in Tasks \ {"endChat"}, NEW u \in Users,
         NEW r \in RoomIds, NEW x \in Room, NEW plan \in RemovePlans,
         Start(h, task, u, None, None, r, x, plan), UNCHANGED boards
  PROVE  StaysTidy
<1>1. /\ None \in Users \cup {None} /\ None \in Kinds \cup {None} /\ r \in RoomIds \cup {None}
      /\ x \in Room \cup {None} /\ task \in Tasks
  OBVIOUS
<1>2. plan \in Seq(WriteKinds)
  <2>1. /\ <<"remove">> \in Seq(WriteKinds) /\ <<"clear">> \in Seq(WriteKinds)
    BY DEF WriteKinds
  <2> QED
    BY <2>1, Known DEF RemovePlans
<1>3. boards' \in [Users -> SUBSET Kinds]
  BY DEF Tidy, TypeOK
<1>4. SetsOut(h, task, u, None, None, r, x, plan)
  BY <1>1, <1>2, <1>3, Starts
<1>5. PICK k \in Job :
         /\ k.task = task /\ k.room = x /\ k.plan = plan
         /\ JobFine(k, overtaken[h], rooms, playerRoom, nextId) => StaysTidy
  BY <1>4 DEF SetsOut
<1>6. Removing(k)
  BY <1>5 DEF Removing
<1> QED
  BY <1>5, <1>6 DEF JobFine

LEMMA RequestStep ==
  ASSUME Tidy, NEW h \in Handlers, NEW task \in Tasks \ {"endChat"}, NEW u \in Users,
         NEW r \in RoomIds, rooms[r] \in Room, rooms[r] # None, r <= nextId, NEW k \in Kinds,
         requestGame(h, task, u, r, k)
  PROVE  StaysTidy
<1> DEFINE x == [rooms[r] EXCEPT !.pending = k, !.by = u]
<1>1. /\ rooms[r].player2 # None /\ rooms[r].gameOver /\ UNCHANGED boards
      /\ Start(h, task, u, None, k, r, x, <<"save">>)
  BY DEF requestGame
<1>2. /\ x \in Room /\ x.gameOver = rooms[r].gameOver /\ x.player2 = rooms[r].player2
      /\ x.player1 = rooms[r].player1
  BY DEF Room
<1> HIDE DEF x
<1>3. Renews(task, u, r, x)
  BY <1>1, <1>2 DEF Renews, settled, players
<1>4. /\ None \in Users \cup {None} /\ k \in Kinds \cup {None} /\ <<"save">> \in SavePlans
      /\ boards' \in [Users -> SUBSET Kinds]
  BY <1>1 DEF SavePlans, Tidy, TypeOK
<1> QED
  BY <1>1, <1>3, <1>4, SavingStep

LEMMA HandleTidy ==
  ASSUME Tidy, NEW h \in Handlers, NEW u \in Users, Handle(h, u)
  PROVE  StaysTidy
<1> DEFINE r == GetRoomIdByPlayerID(u)
<1>r. r # None => /\ r \in RoomIds /\ rooms[r] # None /\ rooms[r] \in Room
                  /\ settled(rooms[r]) /\ r <= nextId
  BY RoomOfPlayer
<1>n. None \in Users \cup {None} /\ None \in Kinds \cup {None} /\ None \in RoomIds \cup {None}
      /\ None \in Room \cup {None}
  OBVIOUS
<1>b. boards \in [Users -> SUBSET Kinds] /\ chat \in [Users -> Users \cup {None}]
  BY DEF Tidy, TypeOK
<1>t. /\ {"select", "finish", "repeat", "cancel", "accept", "reject", "join", "move",
          "endDare", "endDareInChat", "chatGame"} \subseteq Tasks \ {"endChat"}
      /\ "endChat" \in Tasks
  BY DEF Tasks
<1> HIDE DEF r
<1>1. CASE ConfirmFinish(h, u)
  <2>1. /\ r # None /\ UNCHANGED boards
        /\ Start(h, "finish", u, None, None, r, rooms[r], <<"clear", "remove">>)
    BY <1>1 DEF ConfirmFinish, r
  <2> QED
    BY <2>1, <1>r, <1>t, RemovalStep DEF RemovePlans
<1>2. CASE CancelGame(h, u)
  <2>1. /\ r # None /\ UNCHANGED boards
        /\ Start(h, "cancel", u, None, None, r, rooms[r], <<"clear", "remove">>)
    BY <1>2 DEF CancelGame, r
  <2> QED
    BY <2>1, <1>r, <1>t, RemovalStep DEF RemovePlans
<1>3. CASE RepeatForFriend(h, u)
  <2>1. r # None /\ requestGame(h, "repeat", u, r, rooms[r].kind)
    BY <1>3 DEF RepeatForFriend, r
  <2>2. rooms[r].kind \in Kinds
    BY <2>1, <1>r, RoomTyped
  <2> QED
    BY <2>1, <2>2, <1>r, <1>t, RequestStep
<1>4. CASE RepeatInChat(h, u)
  <2> DEFINE x == seatSender(rooms[r], u)
  <2>1. /\ r # None /\ rooms[r].player2 # None
        /\ Start(h, "repeat", u, None, None, r, x, <<"save">>)
        /\ boards' = sentBoard(players(x), rooms[r].kind)
    BY <1>4 DEF RepeatInChat, r
  <2>2. rooms[r].player1 \in Users /\ rooms[r].player1 # None /\ rooms[r].kind \in Kinds
    BY <2>1, <1>r, RoomTyped
  <2>3. /\ x \in Room /\ x.gameOver = rooms[r].gameOver /\ x.pending = rooms[r].pending
        /\ x.player2 # None
        /\ \/ players(x) = players(rooms[r])
           \/ u \notin players(rooms[r])
    <3>1. CASE u = rooms[r].player1
      BY <3>1, <2>1, <1>r DEF seatSender
    <3>2. CASE u # rooms[r].player1
      <4>1. /\ x \in Room /\ x.gameOver = rooms[r].gameOver /\ x.pending = rooms[r].pending
            /\ x.player1 = u /\ x.player2 = rooms[r].player1
        BY <3>2, <2>1, <1>r DEF seatSender, Room
      <4> HIDE DEF x
      <4>2. CASE u = rooms[r].player2
        <5>1. players(x) = players(rooms[r])
          BY <4>1, <4>2 DEF players
        <5> QED
          BY <2>2, <4>1, <5>1
      <4>3. CASE u # rooms[r].player2
        <5>1. u \notin players(rooms[r])
          BY <3>2, <4>3 DEF players
        <5> QED
          BY <2>2, <4>1, <5>1
      <4> QED
        BY <4>2, <4>3
    <3> QED
      BY <3>1, <3>2
  <2> HIDE DEF x
  <2>4. Renews("repeat", u, r, x)
    BY <2>1, <2>3, <1>r DEF Renews, settled
  <2>5. boards' \in [Users -> SUBSET Kinds]
    BY <2>1, <2>2, BoardSent
  <2> QED
    BY <2>1, <2>4, <2>5, <1>r, <1>t, <1>n, SavingStep DEF SavePlans
<1>5. CASE AcceptGame(h, u)
  <2> DEFINE y == ensurePlayerFirst(rooms[r], rooms[r].by)
             x == reset([y EXCEPT !.kind = rooms[r].pending])
  <2>1. /\ r # None /\ mayAccept(rooms[r], u) /\ UNCHANGED boards
        /\ Start(h, "accept", u, None, None, r, x, <<"inGame", "save">>)
    BY <1>5 DEF AcceptGame, r
  <2>2. /\ rooms[r].player2 # None /\ rooms[r].pending # None /\ rooms[r].by # u
        /\ rooms[r].pending \in Kinds /\ rooms[r].player2 \in Users
    BY <2>1, <1>r, RoomTyped DEF mayAccept
  <2>3. /\ y \in Room
        /\ \/ y.player1 = rooms[r].player1 /\ y.player2 = rooms[r].player2
           \/ y.player1 = rooms[r].player2 /\ y.player2 = rooms[r].player1
    BY <2>1, <2>2, <1>r DEF ensurePlayerFirst, Room
  <2> HIDE DEF y
  <2>4. /\ x \in Room /\ x.pending = None /\ x.kind = rooms[r].pending
        /\ x.player1 = y.player1 /\ x.player2 = y.player2
    BY <2>2, <2>3 DEF reset, Room
  <2> HIDE DEF x
  <2>5. players(x) = players(rooms[r]) /\ settled(x)
    BY <2>3, <2>4 DEF players, settled
  <2>6. Renews("accept", u, r, x)
    BY <2>2, <2>4, <2>5 DEF Renews
  <2> QED
    BY <2>1, <2>6, <1>r, <1>t, <1>n, <1>b, SavingStep
<1>6. CASE RejectGame(h, u)
  <2> DEFINE x == [rooms[r] EXCEPT !.pending = None, !.by = None]
  <2>1. /\ r # None /\ UNCHANGED boards
        /\ Start(h, "reject", u, rooms[r].by, None, r, x, <<"save">>)
    BY <1>6 DEF RejectGame, r
  <2>2. /\ x \in Room /\ x.gameOver = rooms[r].gameOver /\ x.pending = None
        /\ x.player1 = rooms[r].player1 /\ x.player2 = rooms[r].player2
    BY <2>1, <1>r DEF Room
  <2>3. rooms[r].by \in Users \cup {None}
    BY <2>1, <1>r, RoomTyped
  <2> HIDE DEF x
  <2>4. Renews("reject", u, r, x)
    BY <2>2 DEF Renews, settled, players
  <2> QED
    BY <2>1, <2>3, <2>4, <1>r, <1>t, <1>n, <1>b, SavingStep DEF SavePlans
<1>7. CASE Move(h, u)
  <2>1. r # None /\ UNCHANGED boards
    BY <1>7 DEF Move, mayMove, r
  <2>2. PICK plan \in movePlans(rooms[r].kind) :
           Start(h, "move", u, None, None, r, rooms[r], plan)
    BY <1>7 DEF Move, r
  <2>3. plan \in SavePlans
    BY <2>2 DEF movePlans, SavePlans
  <2>4. Renews("move", u, r, rooms[r])
    BY <2>1, <1>r DEF Renews
  <2> QED
    BY <2>1, <2>2, <2>3, <2>4, <1>r, <1>t, <1>n, <1>b, SavingStep
<1>over. ASSUME r # None
         PROVE  /\ reset(rooms[r]) \in Room /\ markOver(rooms[r]) \in Room
                /\ \A task : Renews(task, u, r, markOver(rooms[r]))
  <2>1. /\ reset(rooms[r]) \in Room /\ markOver(rooms[r]) \in Room
        /\ markOver(rooms[r]).gameOver = TRUE /\ markOver(rooms[r]).pending = None
        /\ markOver(rooms[r]).player1 = rooms[r].player1
        /\ markOver(rooms[r]).player2 = rooms[r].player2
    BY <1>over, <1>r DEF reset, markOver, Room
  <2> QED
    BY <2>1 DEF Renews, settled, players
<1>8. CASE WinningMove(h, u)
  <2>1. /\ r # None /\ UNCHANGED boards
        /\ \/ Start(h, "move", u, None, None, r, reset(rooms[r]), <<"clear", "remove">>)
           \/ Start(h, "move", u, None, None, r, markOver(rooms[r]), <<"clear", "save">>)
    BY <1>8 DEF WinningMove, mayMove, chatOver, r
  <2>2. CASE Start(h, "move", u, None, None, r, reset(rooms[r]), <<"clear", "remove">>)
    BY <2>1, <2>2, <1>r, <1>t, <1>over, RemovalStep DEF RemovePlans
  <2>3. CASE Start(h, "move", u, None, None, r, markOver(rooms[r]), <<"clear", "save">>)
    BY <2>1, <2>3, <1>r, <1>t, <1>n, <1>b, <1>over, SavingStep DEF SavePlans
  <2> QED
    BY <2>1, <2>2, <2>3
<1>9. CASE EndDare(h, u)
  <2>1. /\ r # None /\ UNCHANGED boards
        /\ \/ Start(h, "endDareInChat", u, None, None, r, rooms[r], <<"remove", "clear">>)
           \/ Start(h, "endDare", u, None, None, r, markOver(rooms[r]), <<"clear", "save">>)
           \/ Start(h, "endDare", u, None, None, r, markOver(rooms[r]), << >>)
    BY <1>9 DEF EndDare, overPlan, r
  <2>2. CASE Start(h, "endDareInChat", u, None, None, r, rooms[r], <<"remove", "clear">>)
    BY <2>1, <2>2, <1>r, <1>t, RemovalStep DEF RemovePlans
  <2>3. CASE Start(h, "endDare", u, None, None, r, markOver(rooms[r]), <<"clear", "save">>)
    BY <2>1, <2>3, <1>r, <1>t, <1>n, <1>b, <1>over, SavingStep DEF SavePlans
  <2>4. CASE Start(h, "endDare", u, None, None, r, markOver(rooms[r]), << >>)
    <3>1. PICK plan \in Seq(WriteKinds), x \in Room \cup {None}, id \in RoomIds \cup {None} :
             plan = << >> /\ x = markOver(rooms[r]) /\ x \in Room /\ id = r
      BY <2>1, <1>r, <1>over, Known
    <3>2. Start(h, "endDare", u, None, None, id, x, plan)
      BY <2>4, <3>1
    <3>3. SetsOut(h, "endDare", u, None, None, id, x, plan)
      BY <2>1, <3>2, <1>t, <1>n, <1>b, Starts
    <3>4. PICK k \in Job :
             /\ k.task = "endDare" /\ k.room = x /\ k.plan = plan
             /\ JobFine(k, overtaken[h], rooms, playerRoom, nextId) => StaysTidy
      BY <3>3 DEF SetsOut
    <3>5. Through(k, overtaken[h], rooms, playerRoom)
      BY <3>1, <3>4 DEF Through
    <3> QED
      BY <3>4, <3>5 DEF JobFine
  <2> QED
    BY <2>1, <2>2, <2>3, <2>4
<1>10. CASE EndChat(h, u)
  <2>1. chat[u] \in Users /\ UNCHANGED boards
    BY <1>10, <1>b DEF EndChat
  <2>2. PICK v \in Users, plan \in Seq(WriteKinds) :
           /\ plan = <<"deleteChat", "removeMine", "removeOther", "clear">>
           /\ Start(h, "endChat", u, v, None, None, None, plan)
    BY <1>10, <2>1, Known DEF EndChat, endChat
  <2>3. SetsOut(h, "endChat", u, v, None, None, None, plan)
    BY <2>1, <2>2, <1>t, <1>n, <1>b, Starts
  <2>4. PICK k \in Job :
           /\ k.task = "endChat" /\ k.other = v /\ k.plan = plan
           /\ JobFine(k, overtaken[h], rooms, playerRoom, nextId) => StaysTidy
    BY <2>3 DEF SetsOut
  <2>5. Leaving(k, overtaken[h], rooms, playerRoom)
    BY <2>2, <2>4 DEF Leaving
  <2> QED
    BY <2>4, <2>5 DEF JobFine
<1>11. ASSUME NEW k \in Kinds, SelectForFriend(h, u, k) PROVE StaysTidy
  <2>1. r # None /\ requestGame(h, "select", u, r, k)
    BY <1>11 DEF SelectForFriend, r
  <2> QED
    BY <2>1, <1>r, <1>t, RequestStep
<1>12. ASSUME NEW k \in Kinds, SelectForLink(h, u, k) PROVE StaysTidy
  <2>1. PICK plan \in Seq(WriteKinds) :
           /\ plan = <<"removeMine", "create", "inGame", "save">>
           /\ Start(h, "select", u, None, k, None, None, plan)
    BY <1>12, Known DEF SelectForLink
  <2>2. UNCHANGED boards
    BY <1>12 DEF SelectForLink
  <2>3. SetsOut(h, "select", u, None, k, None, None, plan)
    BY <2>1, <2>2, <1>t, <1>n, <1>b, Starts
  <2>4. PICK j \in Job :
           /\ j.task = "select" /\ j.kind = k /\ j.plan = plan
           /\ JobFine(j, overtaken[h], rooms, playerRoom, nextId) => StaysTidy
    BY <2>3 DEF SetsOut
  <2>5. Linking(j)
    BY <2>1, <2>4 DEF Linking
  <2> QED
    BY <2>4, <2>5 DEF JobFine
<1>13. ASSUME NEW k \in Kinds, AcceptChatGame(h, u, k) PROVE StaysTidy
  <2>1. chat[u] \in Users /\ UNCHANGED boards
    BY <1>13, <1>b DEF AcceptChatGame
  <2>2. PICK v \in Users, plan \in Seq(WriteKinds) :
           /\ plan = <<"removeMine", "removeOther", "create", "joinRead">>
           /\ Start(h, "chatGame", u, v, k, None, None, plan)
    BY <1>13, <2>1, Known DEF AcceptChatGame
  <2>3. SetsOut(h, "chatGame", u, v, k, None, None, plan)
    BY <2>1, <2>2, <1>t, <1>n, <1>b, Starts
  <2>4. PICK j \in Job :
           /\ j.task = "chatGame" /\ j.user = u /\ j.other = v /\ j.kind = k /\ j.plan = plan
           /\ JobFine(j, overtaken[h], rooms, playerRoom, nextId) => StaysTidy
    BY <2>3 DEF SetsOut
  <2>5. Inviting(j)
    BY <2>2, <2>4 DEF Inviting
  <2> QED
    BY <2>4, <2>5 DEF JobFine
<1>14. ASSUME NEW c \in Users, NEW k \in Kinds, JoinGame(h, u, c, k) PROVE StaysTidy
  <2>1. PICK q \in RoomIds, plan \in Seq(WriteKinds) :
           /\ q <= nextId /\ plan = <<"joinRead">>
           /\ Start(h, "join", u, u, k, q, None, plan)
    BY <1>14, Known, RoomOfPlayer DEF JoinGame
  <2>2. UNCHANGED boards
    BY <1>14 DEF JoinGame
  <2>3. SetsOut(h, "join", u, u, k, q, None, plan)
    BY <2>1, <2>2, <1>t, <1>n, <1>b, Starts
  <2>4. PICK j \in Job :
           /\ j.task = "join" /\ j.other = u /\ j.kind = k /\ j.id = q /\ j.plan = plan
           /\ JobFine(j, overtaken[h], rooms, playerRoom, nextId) => StaysTidy
    BY <2>3 DEF SetsOut
  <2>5. Joining(j, nextId)
    BY <2>1, <2>4 DEF Joining
  <2> QED
    BY <2>4, <2>5 DEF JobFine
<1> QED
  BY <1>1, <1>2, <1>3, <1>4, <1>5, <1>6, <1>7, <1>8, <1>9, <1>10, <1>11, <1>12, <1>13,
     <1>14 DEF Handle

-----------------------------------------------------------------------------
(* Every step.                                                             *)

LEMMA TidyStep == Tidy /\ [Next]_vars => StaysTidy
<1> SUFFICES ASSUME Tidy, [Next]_vars PROVE StaysTidy
  OBVIOUS
<1>t. /\ rooms \in [RoomIds -> Room \cup {None}] /\ overtaken \in [Handlers -> SUBSET RoomIds]
      /\ playerRoom \in [Users -> RoomIds \cup {None}] /\ chat \in [Users -> Users \cup {None}]
      /\ job \in [Handlers -> {Idle} \cup Job] /\ chats \in 0..MaxChats
  BY DEF Tidy, TypeOK
\* A step that writes no room and concerns no handler.
<1>o. ASSUME UNCHANGED <<rooms, nextId, job, overtaken>>, RestOK',
             playerRoom' \in [Users -> RoomIds \cup {None}],
             \A u \in Users : playerRoom'[u] = playerRoom[u] \/ playerRoom'[u] = None
      PROVE  StaysTidy
  <2>1. Elsewhere({}) /\ RoomsFine(rooms', nextId') /\ \A q \in RoomIds : Lasting(q)
    BY <1>o, RoomsStay
  <2>2. /\ Spares({}, {}) /\ job' \in [Handlers -> {Idle} \cup Job]
        /\ overtaken' \in [Handlers -> SUBSET RoomIds]
    BY <1>o, <1>t DEF Spares
  <2>3. Tidy'
    BY <1>o, <2>1, <2>2, Together
  <2> QED
    BY <2>1, <2>3 DEF StaysTidy
<1>1. ASSUME NEW h \in Handlers, Write(h) PROVE StaysTidy
  BY <1>1, SaveStep, RemoveStep, RemoveMineStep, CreateStep, JoinStep, InGameStep, ClearStep,
     DeleteStep, ReturnStep DEF Write
<1>2. ASSUME NEW h \in Handlers, NEW u \in Users, Handle(h, u) PROVE StaysTidy
  BY <1>2, HandleTidy
<1>3. ASSUME NEW u \in Users, NEW v \in Users, OpenChat(u, v) PROVE StaysTidy
  <2>1. /\ UNCHANGED <<rooms, playerRoom, nextId, inGame, links, boards, menu, job, overtaken>>
        /\ chats' = chats + 1 /\ chats < MaxChats
        /\ chat' = [chat EXCEPT ![u] = v, ![v] = u]
    BY <1>3 DEF OpenChat
  <2>2. chat' \in [Users -> Users \cup {None}] /\ chats' \in 0..MaxChats
    BY <1>t, <2>1, GameRoomsAssumption
  <2>3. RestOK'
    BY <2>1, <2>2 DEF Tidy, TypeOK, RestOK
  <2> QED
    BY <1>o, <1>t, <2>1, <2>3
<1>4. ASSUME NEW r \in RoomIds, RoomExpires(r) PROVE StaysTidy
  <2>1. /\ removeRoom({}, r) /\ nextId' = nextId
        /\ UNCHANGED <<nextId, inGame, chat, chats, links, boards, menu, job>>
    BY <1>4 DEF RoomExpires
  <2>2. PICK q \in RoomIds \cup {None} : q = r
    OBVIOUS
  <2>3. PICK W \in SUBSET RoomIds :
          /\ Elsewhere(W) /\ RoomsFine(rooms', nextId') /\ \A p \in RoomIds : Lasting(p)
          /\ overtaken' \in [Handlers -> SUBSET RoomIds]
          /\ \A g \in Handlers \ {} : job[g] # Idle => overtaken'[g] = overtaken[g] \cup W
    <3>1. removeRoom({}, q)
      BY <2>1, <2>2
    <3> QED
      BY <2>1, <3>1, RemoveTidy
  <2>4. RestOK' /\ Spares({}, W) /\ job' \in [Handlers -> {Idle} \cup Job]
    <3>1. RestOK'
      BY <2>1 DEF Tidy, TypeOK, RestOK
    <3> QED
      BY <1>t, <2>1, <2>3, <3>1 DEF Spares
  <2>5. Tidy'
    <3>1. /\ Elsewhere(W) /\ RoomsFine(rooms', nextId')
          /\ overtaken' \in [Handlers -> SUBSET RoomIds]
      BY <2>3
    <3> QED
      BY <2>4, <3>1, Together
  <2> QED
    BY <2>3, <2>5 DEF StaysTidy
<1>5. ASSUME NEW u \in Users, PointerExpires(u) PROVE StaysTidy
  <2>1. /\ playerRoom' = [playerRoom EXCEPT ![u] = None]
        /\ UNCHANGED <<rooms, nextId, inGame, chat, chats, links, boards, menu, job, overtaken>>
    BY <1>5 DEF PointerExpires
  <2>2. /\ playerRoom' \in [Users -> RoomIds \cup {None}]
        /\ \A w \in Users : playerRoom'[w] = playerRoom[w] \/ playerRoom'[w] = None
    BY <1>t, <2>1
  <2>3. RestOK'
    BY <2>1 DEF Tidy, TypeOK, RestOK
  <2> QED
    BY <1>o, <2>1, <2>2, <2>3
<1>6. CASE UNCHANGED vars
  <2>1. /\ UNCHANGED <<rooms, playerRoom, nextId, inGame, chat>>
        /\ UNCHANGED <<chats, links, boards, menu, job, overtaken>>
    BY <1>6 DEF vars
  <2>2. RestOK'
    BY <2>1 DEF Tidy, TypeOK, RestOK
  <2> QED
    BY <1>o, <1>t, <2>1, <2>2
<1> QED
  BY <1>1, <1>2, <1>3, <1>4, <1>5, <1>6 DEF Next

LEMMA AlwaysTidy == Spec => []Tidy
<1>1. Tidy /\ [Next]_vars => Tidy'
  BY TidyStep DEF StaysTidy
<1> QED
  BY <1>1, TidyInit, PTL DEF Spec

-----------------------------------------------------------------------------
(* The theorems: of any number of handlers, of whomever, at once.          *)

\* The variables keep their types, whichever copies are saved in which order: a
\* stored room has a first player and a kind, which the handlers of 10_game.go
\* dereference without looking, and so has every copy they save (SaveRoom).
THEOREM TypesKept == Spec => []TypeOK
<1>1. Tidy => TypeOK
  BY DEF Tidy
<1> QED
  BY <1>1, AlwaysTidy, PTL

\* A stored request is for a full room whose game is over, whichever copies are
\* saved in which order (requestPlayWithFriendsGame, Room.Reset,
\* markPlayWithFriendsGameOver).
THEOREM RequestsWait == Spec => []RequestsWaitForTheEnd
<1>1. Tidy => RequestsWaitForTheEnd
  BY DEF Tidy, RoomsFine, RequestsWaitForTheEnd
<1> QED
  BY <1>1, AlwaysTidy, PTL

\* Ending a chat leaves neither of its users in a room, whichever of them opened it
\* and whatever it was for: only a room that somebody else, the partner's move for
\* one, has stored in the meantime is left to either (ConfirmEndChatHandler).
THEOREM ChatsEndInNoRoom == Spec => []ChatEndClosesGames
<1>1. Tidy => ChatEndClosesGames
  <2> SUFFICES ASSUME Tidy, NEW h \in Handlers, job[h].task = "endChat", job[h].plan = << >>,
                      NEW u \in {job[h].user, job[h].other}
               PROVE  GetRoomIdByPlayerID(u) \in {None} \cup overtaken[h]
    BY DEF ChatEndClosesGames
  <2>1. Through(job[h], overtaken[h], rooms, playerRoom)
    <3>1. JobFine(job[h], overtaken[h], rooms, playerRoom, nextId)
      BY DEF Tidy
    <3>2. job[h].plan \notin SavePlans \cup SeatPlans \cup RemovePlans
      BY DEF SavePlans, SeatPlans, RemovePlans
    <3> QED
      BY <3>1, <3>2 DEF JobFine, Saving, Removing, Linking, Inviting, Joining, Seated, Leaving
  <2>2. Gone(u, overtaken[h], rooms, playerRoom)
    BY <2>1 DEF Through
  <2> QED
    BY <2>2 DEF Gone, GetRoomIdByPlayerID
<1> QED
  BY <1>1, AlwaysTidy, PTL

\* A full room keeps its two players until it is removed: no join, swap or restart
\* puts somebody else in a seat, unless the handler's copy is from before another
\* one's write (two who join at once), or it is repeatGameHandler, run for one whom
\* the room no longer names (JoinRoom, EnsurePlayerFirst, repeatGameHandler).
THEOREM PlayersStay == Spec => FullRoomKeepsPlayers
<1> DEFINE A == \A r \in RoomIds :
                  rooms[r] # None /\ rooms[r].player2 # None /\ rooms'[r] # None
                  => \/ players(rooms'[r]) = players(rooms[r])
                     \/ \E h \in Handlers :
                           /\ writes(h, r)
                           /\ \/ stale(h)
                              \/ job[h].task = "repeat" /\ job[h].user \notin players(rooms[r])
<1>1. Tidy /\ [Next]_vars => A
  BY TidyStep DEF StaysTidy, Lasting
<1>2. Spec => [][A]_vars
  <2> HIDE DEF A
  <2> QED
    BY <1>1, AlwaysTidy, PTL DEF Spec
<1> QED
  BY <1>2 DEF FullRoomKeepsPlayers

\* A game that is over starts again only when one player accepts what another has
\* asked for, and as that game, or because a handler saves a copy from before
\* another one's write: a request, an acceptance and an end from different copies
\* restart nothing else (requestPlayWithFriendsGame, PlayWithFriendsGameAcceptCallback).
THEOREM BothRestart == Spec => RestartNeedsBoth
<1> DEFINE A == \A r \in RoomIds :
                  rooms[r] # None /\ rooms'[r] # None /\ rooms[r].gameOver /\ ~rooms'[r].gameOver
                  => \E h \in Handlers :
                        /\ writes(h, r)
                        /\ \/ stale(h)
                           \/ /\ job[h].task = "accept" /\ rooms[r].pending = rooms'[r].kind
                              /\ rooms[r].by # job[h].user
<1>1. Tidy /\ [Next]_vars => A
  BY TidyStep DEF StaysTidy, Lasting
<1>2. Spec => [][A]_vars
  <2> HIDE DEF A
  <2> QED
    BY <1>1, AlwaysTidy, PTL DEF Spec
<1> QED
  BY <1>2 DEF RestartNeedsBoth

\* A removed room comes back only by the save of a handler whose copy another one's
\* write has overtaken: none saves what it has itself removed, and one that removes
\* a room removes it from whatever the others have stored (SaveRoom,
\* RemoveRoomByRoomID, CreateRoom's INCR).
THEOREM RemovedForGood == Spec => RemovedStaysRemoved
<1> DEFINE A == \A r \in RoomIds :
                  r <= nextId /\ rooms[r] = None /\ rooms'[r] # None
                  => \E h \in Handlers : writes(h, r) /\ stale(h)
<1>1. Tidy /\ [Next]_vars => A
  BY TidyStep DEF StaysTidy, Lasting
<1>2. Spec => [][A]_vars
  <2> HIDE DEF A
  <2> QED
    BY <1>1, AlwaysTidy, PTL DEF Spec
<1> QED
  BY <1>2 DEF RemovedStaysRemoved
=============================================================================
