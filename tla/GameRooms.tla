------------------------------ MODULE GameRooms ------------------------------
(***************************************************************************)
(* Two-player game rooms: the room records and the player -> room pointers *)
(* in Redis, and every handler that opens, joins, restarts, ends or        *)
(* removes a room, in an anonymous chat or among friends.  What a move     *)
(* does to the board is GamePlay's; here it ends the game or does not.     *)
(*                                                                         *)
(* A handler is one step that reads (the room of a player, the chats) and  *)
(* decides, and then one step per write, in the order of the code: between *)
(* them other goroutines run.  SaveRoom writes back the copy it was given. *)
(* Fused into one step: reads with no write in between, INCR with the      *)
(* first save of the new room, the GET and DEL of RemoveRoomByRoomID, and  *)
(* the writes of the two players' user states.                             *)
(***************************************************************************)
EXTENDS Naturals, Sequences, FiniteSets

CONSTANTS
    Users,
    None,           \* an absent key, a nil pointer, ""
    Handlers,       \* handler goroutines that can be in flight at once
    Kinds,          \* game types
    BoardKinds,     \* those whose board handleGameJoin draws from the room's state
    Dare,           \* truth or dare, which ends only by its button
    MaxRooms,       \* bound: rooms created in a run
    MaxChats        \* bound: chats opened in a run

ASSUME GameRoomsAssumption ==
    /\ None \notin Users \cup Kinds
    /\ BoardKinds \subseteq Kinds /\ Dare \in Kinds \ BoardKinds
    /\ MaxRooms \in Nat /\ MaxChats \in Nat

VARIABLES
    rooms,          \* game:room:<id>
    playerRoom,     \* game:player_room:<user>
    nextId,         \* game:next_id
    inGame,         \* users whose user_state is StateInGame
    chat,           \* active_chat:<user>, as the partner's id
    chats,          \* chats opened so far
    links,          \* join links given out, by creator: the game each names
    boards,         \* games whose board a user has been sent (old ones can be pressed)
    menu,           \* users who have been sent the after-game menu
    job,            \* each handler's locals and the writes it still owes
    overtaken       \* history: the rooms that others have written since a handler in
                    \* flight read them, or last wrote them itself

store == <<rooms, playerRoom, nextId, inGame, chat>>
vars  == <<store, chats, links, boards, menu, job, overtaken>>

RoomIds == 1..MaxRooms
Room == [player1 : Users, player2 : Users \cup {None}, kind : Kinds,
         gameOver : BOOLEAN, pending : Kinds \cup {None}, by : Users \cup {None}]

\* What is absent is neither a room's number nor a room.
ASSUME NoneAssumption == None \notin RoomIds /\ None \notin Room

\* Mutant: a nil Player2 is taken for a player.
playersUnchecked(room) == {room.player1, room.player2}

players(room) == {room.player1, room.player2} \ {None}
opponent(room, u) == IF u = room.player1 THEN room.player2 ELSE room.player1
HasActiveChat(u) == chat[u] # None

getRoomByID(r) == IF r = None THEN None ELSE rooms[r]
GetRoomIdByPlayerID(u) ==
    IF u # None /\ playerRoom[u] # None /\ rooms[playerRoom[u]] # None
    THEN playerRoom[u] ELSE None

\* The writes a handler can owe.
WriteKinds == {"save", "remove", "removeMine", "removeOther", "create", "joinRead",
               "joinSave", "inGame", "clear", "deleteChat"}
Tasks == {"select", "finish", "repeat", "cancel", "accept", "reject", "join", "move",
          "endDare", "endDareInChat", "chatGame", "endChat"}
Idle == [task |-> "idle", user |-> None, other |-> None, kind |-> None, id |-> None,
         room |-> None, plan |-> <<>>]
Job  == [task : Tasks, user : Users, other : Users \cup {None}, kind : Kinds \cup {None},
         id : RoomIds \cup {None}, room : Room \cup {None}, plan : Seq(WriteKinds)]

Init ==
    /\ rooms = [r \in RoomIds |-> None]
    /\ playerRoom = [u \in Users |-> None]
    /\ nextId = 0
    /\ inGame = {}
    /\ chat = [u \in Users |-> None]
    /\ chats = 0
    /\ links = [u \in Users |-> {}]
    /\ boards = [u \in Users |-> {}]
    /\ menu = {}
    /\ job = [h \in Handlers |-> Idle]
    /\ overtaken = [h \in Handlers |-> {}]

\* The handlers of S (one, or none when a key expires) write the rooms W.
Overtakes(S, W) ==
    overtaken' = [g \in Handlers |-> IF g \in S THEN overtaken[g] \ W
                                     ELSE IF job[g] = Idle THEN {} ELSE overtaken[g] \cup W]

-----------------------------------------------------------------------------
(* Handlers: what each reads, decides, and sets out to write.              *)

\* The rate limiter keeps one user's updates apart.
MayStart(h, u) == job[h] = Idle /\ \A g \in Handlers : job[g].user # u

Start(h, task, u, other, kind, id, room, plan) ==
    /\ job' = [job EXCEPT ![h] = [task |-> task, user |-> u, other |-> other,
                                  kind |-> kind, id |-> id, room |-> room, plan |-> plan]]
    /\ UNCHANGED <<store, chats, links, menu, overtaken>>

\* Mutant: Room.Reset leaves the pending request.
resetKeepsPending(room) == [room EXCEPT !.gameOver = FALSE]

\* Room.Reset.
reset(room) == [room EXCEPT !.gameOver = FALSE, !.pending = None, !.by = None]

\* markPlayWithFriendsGameOver: the copy it saves, if it saves one.
markOver(room) == [room EXCEPT !.gameOver = TRUE, !.pending = None, !.by = None]
overPlan(room) == IF HasActiveChat(room.player1) THEN <<>> ELSE <<"clear", "save">>

\* requestPlayWithFriendsGame, once its guards have let the request through.
requestGame(h, task, u, r, k) ==
    LET room == rooms[r] IN
    /\ room.player2 # None /\ ~HasActiveChat(u) /\ room.gameOver
    /\ Start(h, task, u, None, k, r, [room EXCEPT !.pending = k, !.by = u], <<"save">>)
    /\ UNCHANGED boards

\* selectGameHandler, a full room of friends: a request to the same friend.
SelectForFriend(h, u, k) ==
    /\ MayStart(h, u)
    /\ GetRoomIdByPlayerID(u) # None
    /\ requestGame(h, "select", u, GetRoomIdByPlayerID(u), k)

\* selectGameHandler otherwise: a room of one and a link to it.
SelectForLink(h, u, k) ==
    LET r == GetRoomIdByPlayerID(u) IN
    /\ MayStart(h, u)
    /\ HasActiveChat(u) => r = None
    /\ r # None => rooms[r].player2 = None
    /\ nextId < MaxRooms
    /\ Start(h, "select", u, None, k, None, None, <<"removeMine", "create", "inGame", "save">>)
    /\ UNCHANGED boards

\* confirmFinishGameHandler.
ConfirmFinish(h, u) ==
    LET r == GetRoomIdByPlayerID(u) IN
    /\ MayStart(h, u)
    /\ r # None
    /\ Start(h, "finish", u, None, None, r, rooms[r], <<"clear", "remove">>)
    /\ UNCHANGED boards

\* repeatGameHandler among friends: a request for the same game.
RepeatForFriend(h, u) ==
    /\ MayStart(h, u) /\ u \in menu
    /\ GetRoomIdByPlayerID(u) # None
    /\ requestGame(h, "repeat", u, GetRoomIdByPlayerID(u), rooms[GetRoomIdByPlayerID(u)].kind)

\* Mutant: Player1 is assigned first, so Player2 gets the sender too.
seatSenderTwice(room, u) ==
    IF u # room.player1 THEN [room EXCEPT !.player1 = u, !.player2 = u] ELSE room

seatSender(room, u) ==
    IF u # room.player1 THEN [room EXCEPT !.player1 = u, !.player2 = room.player1] ELSE room

sentBoard(us, kind) == [u \in Users |-> boards[u] \cup IF u \in us THEN {kind} ELSE {}]

\* repeatGameHandler when the sender is in a chat: the board starts afresh and
\* is sent to both, the room's flags stay as they are.
RepeatInChat(h, u) ==
    LET r == GetRoomIdByPlayerID(u) IN
    /\ MayStart(h, u) /\ u \in menu
    /\ r # None /\ rooms[r].player2 # None /\ HasActiveChat(u)
    /\ Start(h, "repeat", u, None, None, r, seatSender(rooms[r], u), <<"save">>)
    /\ boards' = sentBoard(players(seatSender(rooms[r], u)), rooms[r].kind)

\* cancelGameHandler: it clears Player1's state and the opponent's.
CancelGame(h, u) ==
    LET r == GetRoomIdByPlayerID(u) IN
    /\ MayStart(h, u) /\ u \in menu
    /\ r # None
    /\ Start(h, "cancel", u, None, None, r, rooms[r], <<"clear", "remove">>)
    /\ UNCHANGED boards

\* Mutant: a player may accept the request he made himself.
mayAcceptOwn(room, u) == room.player2 # None /\ room.pending # None

mayAccept(room, u) == room.player2 # None /\ room.pending # None /\ room.by # u

ensurePlayerFirst(room, u) ==
    IF u # room.player1
    THEN [room EXCEPT !.player1 = room.player2, !.player2 = room.player1] ELSE room

\* PlayWithFriendsGameAcceptCallback and startPlayWithFriendsGame.
AcceptGame(h, u) ==
    LET r == GetRoomIdByPlayerID(u) IN
    /\ MayStart(h, u)
    /\ r # None /\ ~HasActiveChat(u)
    /\ mayAccept(rooms[r], u)
    /\ Start(h, "accept", u, None, None, r,
             reset([ensurePlayerFirst(rooms[r], rooms[r].by) EXCEPT !.kind = rooms[r].pending]),
             <<"inGame", "save">>)
    /\ UNCHANGED boards

\* PlayWithFriendsGameRejectCallback.  It does not look at who asked: the button
\* of an earlier request answers, or withdraws, the one that is pending.
RejectGame(h, u) ==
    LET r == GetRoomIdByPlayerID(u) IN
    /\ MayStart(h, u)
    /\ r # None /\ ~HasActiveChat(u)
    /\ Start(h, "reject", u, rooms[r].by, None, r,
             [rooms[r] EXCEPT !.pending = None, !.by = None], <<"save">>)
    /\ UNCHANGED boards

\* handleGameJoin, by creator c's link to a game of kind k.
JoinGame(h, u, c, k) ==
    LET r == GetRoomIdByPlayerID(c) IN
    /\ MayStart(h, u)
    /\ k \in links[c] /\ u # c
    /\ GetRoomIdByPlayerID(u) = None
    /\ r # None /\ rooms[r].player2 = None
    /\ Start(h, "join", u, u, k, r, None, <<"joinRead">>)
    /\ UNCHANGED boards

\* Mutant: the room is removed, and SaveRoom is still reached.
chatOverSaves == <<"clear", "remove", "save">>

\* Both game-over branches of the move handlers, in a chat.
chatOver == <<"clear", "remove">>

\* A button of another game's board fails the handler's type assertion; with
\* nobody else in the room the board handlers dereference a nil Player2.
mayMove(r, u) ==
    /\ r # None /\ ~rooms[r].gameOver /\ rooms[r].kind \in boards[u]
    /\ rooms[r].player2 = None => rooms[r].kind \notin BoardKinds \cup {Dare}

\* How often a move that is rejected or goes on saves its copy: each board handler
\* once; of the others a letter twice, and the secret that completes the two three
\* times (sendWordGameStatus, when both have been told, saves the copy again).
movePlans(kind) ==
    IF kind \in BoardKinds \cup {Dare} THEN {<<"save">>}
    ELSE {<<"save">>, <<"save", "save">>, <<"save", "save", "save">>}

Move(h, u) ==
    LET r == GetRoomIdByPlayerID(u) IN
    /\ MayStart(h, u)
    /\ mayMove(r, u)
    /\ \E plan \in movePlans(rooms[r].kind) : Start(h, "move", u, None, None, r, rooms[r], plan)
    /\ UNCHANGED boards

\* A move that wins or fills the board (a word or a score, in the other games).
WinningMove(h, u) ==
    LET r == GetRoomIdByPlayerID(u) IN
    /\ MayStart(h, u)
    /\ mayMove(r, u) /\ rooms[r].player2 # None /\ rooms[r].kind # Dare
    /\ IF HasActiveChat(rooms[r].player1)
       THEN Start(h, "move", u, None, None, r, reset(rooms[r]), chatOver)
       ELSE Start(h, "move", u, None, None, r, markOver(rooms[r]), <<"clear", "save">>)
    /\ UNCHANGED boards

\* endDareAndTruthHandler.
EndDare(h, u) ==
    LET r == GetRoomIdByPlayerID(u) IN
    /\ MayStart(h, u)
    /\ Dare \in boards[u] /\ r # None /\ rooms[r].kind = Dare
    /\ IF HasActiveChat(u)
       THEN Start(h, "endDareInChat", u, None, None, r, rooms[r], <<"remove", "clear">>)
       ELSE Start(h, "endDare", u, None, None, r, markOver(rooms[r]), overPlan(rooms[r]))
    /\ UNCHANGED boards

\* ChatGameAcceptCallback.  The invitation (ChatGameRequestCallback) stores
\* nothing, and the partner could send it whenever this guard holds.
AcceptChatGame(h, u, k) ==
    /\ MayStart(h, u)
    /\ chat[u] # None
    /\ GetRoomIdByPlayerID(u) = None /\ GetRoomIdByPlayerID(chat[u]) = None
    /\ nextId < MaxRooms
    /\ Start(h, "chatGame", u, chat[u], k, None, None,
             <<"removeMine", "removeOther", "create", "joinRead">>)
    /\ UNCHANGED boards

\* Mutant: only the sender's room goes.
endChatHalf == <<"deleteChat", "removeMine", "clear">>

\* What ConfirmEndChatHandler writes.
endChat == <<"deleteChat", "removeMine", "removeOther", "clear">>

EndChat(h, u) ==
    /\ MayStart(h, u)
    /\ chat[u] # None
    /\ Start(h, "endChat", u, chat[u], None, None, None, endChat)
    /\ UNCHANGED boards

-----------------------------------------------------------------------------
(* The writes, in the order the handler owes them.                         *)

owes(h, w) == job[h] # Idle /\ job[h].plan # <<>> /\ Head(job[h].plan) = w

\* The handler goes on with room as its copy (and id as its number).
Continue(h, id, room) ==
    job' = [job EXCEPT ![h].id = id, ![h].room = room, ![h].plan = Tail(@)]

saved(rs, id, room) == [rs EXCEPT ![id] = room]
pointed(pr, id, room) == [u \in Users |-> IF u \in players(room) THEN id ELSE pr[u]]

\* SaveRoom: the record and both pointers, in one transaction.
SaveRoom(h) ==
    LET j == job[h] IN
    /\ owes(h, "save") \/ owes(h, "joinSave")
    /\ rooms' = saved(rooms, j.id, j.room)
    /\ playerRoom' = pointed(playerRoom, j.id, j.room)
    /\ Continue(h, j.id, j.room)
    /\ Overtakes({h}, {j.id})
    /\ UNCHANGED <<nextId, inGame, chat, chats, links, boards, menu>>

unpointed(pr, rs, r) == [u \in Users |-> IF u \in players(rs[r]) THEN None ELSE pr[u]]

\* RemoveRoomByRoomID, called by those in S: the record, and the pointers of the
\* players it names.
removeRoom(S, r) ==
    IF r = None \/ rooms[r] = None THEN UNCHANGED <<rooms, playerRoom, overtaken>>
    ELSE /\ rooms' = saved(rooms, r, None)
         /\ playerRoom' = unpointed(playerRoom, rooms, r)
         /\ Overtakes(S, {r})

RemoveRoomByRoomID(h) ==
    /\ owes(h, "remove")
    /\ removeRoom({h}, job[h].id)
    /\ Continue(h, job[h].id, job[h].room)
    /\ UNCHANGED <<nextId, inGame, chat, chats, links, boards, menu>>

\* RemoveRoomsByPlayerID, for the sender and for the partner.
RemoveRoomsByPlayerID(h) ==
    /\ \/ owes(h, "removeMine") /\ removeRoom({h}, GetRoomIdByPlayerID(job[h].user))
       \/ owes(h, "removeOther") /\ removeRoom({h}, GetRoomIdByPlayerID(job[h].other))
    /\ Continue(h, job[h].id, job[h].room)
    /\ UNCHANGED <<nextId, inGame, chat, chats, links, boards, menu>>

CreateRoom(h) ==
    LET room == [player1 |-> job[h].user, player2 |-> None, kind |-> job[h].kind,
                 gameOver |-> FALSE, pending |-> None, by |-> None] IN
    /\ owes(h, "create")
    /\ nextId < MaxRooms
    /\ nextId' = nextId + 1
    /\ rooms' = saved(rooms, nextId', room)
    /\ playerRoom' = pointed(playerRoom, nextId', room)
    /\ Continue(h, nextId', room)
    /\ Overtakes({h}, {nextId'})
    /\ UNCHANGED <<inGame, chat, chats, links, boards, menu>>

joinable(room) == room # None /\ room.player2 = None

\* JoinRoom's read.  Both callers ignore its ok: without a room they still set
\* the user state and then panic; so does a link to another game with a board.
JoinRoom(h) ==
    LET j == job[h]
        r == getRoomByID(j.id)
        drawn == j.kind \in BoardKinds => r.kind = j.kind IN
    /\ owes(h, "joinRead")
    /\ IF ~joinable(r)
       THEN job' = [job EXCEPT ![h].plan = <<"inGame">>]
       ELSE job' = [job EXCEPT ![h].room = [r EXCEPT !.player2 = j.other],
                               ![h].plan = <<"joinSave", "inGame">>
                                           \o IF drawn THEN <<"save">> ELSE <<>>]
    /\ overtaken' = [overtaken EXCEPT ![h] = {}]
    /\ UNCHANGED <<store, chats, links, boards, menu>>

\* SetUserState(StateInGame).  Then selectGameHandler sends its link, the others
\* (if they do not panic) the board, before the last save: handleGameJoin that of
\* the game its link names.
SetInGame(h) ==
    LET j == job[h] IN
    /\ owes(h, "inGame")
    /\ inGame' = inGame \cup IF j.task = "accept" THEN players(j.room)
                             ELSE {j.user, j.other} \ {None}
    /\ links' = IF j.task = "select" THEN [links EXCEPT ![j.user] = @ \cup {j.kind}] ELSE links
    /\ boards' = IF j.task = "select" \/ Tail(j.plan) = <<>> THEN boards
                 ELSE sentBoard(players(j.room), IF j.task = "accept" THEN j.room.kind ELSE j.kind)
    /\ Continue(h, j.id, j.room)
    /\ UNCHANGED <<rooms, playerRoom, nextId, chat, chats, menu, overtaken>>

\* ClearUserState, for the two each handler takes for the players.
ClearUserState(h) ==
    LET j == job[h] IN
    /\ owes(h, "clear")
    /\ inGame' = inGame \ CASE j.task = "endChat" -> {j.user, j.other}
                              [] j.task = "cancel" -> {j.room.player1, opponent(j.room, j.user)}
                              [] j.task \in {"finish", "endDareInChat"} ->
                                     {j.user, opponent(j.room, j.user)}
                              [] OTHER -> players(j.room)
    /\ Continue(h, j.id, j.room)
    /\ UNCHANGED <<rooms, playerRoom, nextId, chat, chats, links, boards, menu, overtaken>>

\* DeleteActiveChat reads the session again, and deletes both keys of that one.
DeleteActiveChat(h) ==
    LET u == job[h].user IN
    /\ owes(h, "deleteChat")
    /\ chat' = [w \in Users |-> IF w \in {u, chat[u]} THEN None ELSE chat[w]]
    /\ Continue(h, job[h].id, job[h].room)
    /\ UNCHANGED <<rooms, playerRoom, nextId, inGame, chats, links, boards, menu, overtaken>>

\* Whom a handler sends the after-game menu once its writes are done.
sentMenu(j) == CASE j.task \in {"move", "endDare"} -> IF j.room.gameOver THEN players(j.room) ELSE {}
                 [] j.task = "reject" -> {j.user, j.other} \ {None}
                 [] OTHER -> {}

Return(h) ==
    /\ job[h] # Idle /\ job[h].plan = <<>>
    /\ job' = [job EXCEPT ![h] = Idle]
    /\ overtaken' = [overtaken EXCEPT ![h] = {}]
    /\ menu' = menu \cup sentMenu(job[h])
    /\ UNCHANGED <<store, chats, links, boards>>

-----------------------------------------------------------------------------
(* The rest of the system.                                                 *)

\* SetActiveChat, by the match worker or by AcceptChatHandler.
OpenChat(u, v) ==
    /\ chats < MaxChats /\ u # v
    /\ chats' = chats + 1
    /\ chat' = [chat EXCEPT ![u] = v, ![v] = u]
    /\ UNCHANGED <<rooms, playerRoom, nextId, inGame, links, boards, menu, job, overtaken>>

\* roomTTL after its last save the record and the pointers go together, whatever
\* handler has read it.
RoomExpires(r) ==
    /\ rooms[r] # None
    /\ removeRoom({}, r)
    /\ UNCHANGED <<nextId, inGame, chat, chats, links, boards, menu, job>>

\* So does a pointer that no save has renewed: its room is gone, or has been given
\* to others.
PointerExpires(u) ==
    /\ playerRoom[u] # None
    /\ rooms[playerRoom[u]] # None => u \notin players(rooms[playerRoom[u]])
    /\ playerRoom' = [playerRoom EXCEPT ![u] = None]
    /\ UNCHANGED <<rooms, nextId, inGame, chat, chats, links, boards, menu, job, overtaken>>

Write(h) ==
    \/ SaveRoom(h) \/ RemoveRoomByRoomID(h) \/ RemoveRoomsByPlayerID(h)
    \/ CreateRoom(h) \/ JoinRoom(h) \/ SetInGame(h) \/ ClearUserState(h)
    \/ DeleteActiveChat(h) \/ Return(h)

Handle(h, u) ==
    \/ ConfirmFinish(h, u) \/ CancelGame(h, u) \/ RepeatForFriend(h, u)
    \/ RepeatInChat(h, u) \/ AcceptGame(h, u) \/ RejectGame(h, u) \/ Move(h, u)
    \/ WinningMove(h, u) \/ EndDare(h, u) \/ EndChat(h, u)
    \/ \E k \in Kinds : SelectForFriend(h, u, k) \/ SelectForLink(h, u, k)
                        \/ AcceptChatGame(h, u, k)
    \/ \E c \in Users, k \in Kinds : JoinGame(h, u, c, k)

Next ==
    \/ \E h \in Handlers : Write(h)
    \/ \E h \in Handlers, u \in Users : Handle(h, u)
    \/ \E u, v \in Users : OpenChat(u, v)
    \/ \E r \in RoomIds : RoomExpires(r)
    \/ \E u \in Users : PointerExpires(u)

Spec == Init /\ [][Next]_vars

-----------------------------------------------------------------------------
(* Properties.                                                             *)

\* The variables keep their types: in particular a stored room has a first
\* player, which every handler of 10_game.go dereferences.
TypeOK ==
    /\ rooms \in [RoomIds -> Room \cup {None}]
    /\ playerRoom \in [Users -> RoomIds \cup {None}]
    /\ nextId \in 0..MaxRooms
    /\ inGame \subseteq Users
    /\ chat \in [Users -> Users \cup {None}]
    /\ chats \in 0..MaxChats
    /\ links \in [Users -> SUBSET Kinds] /\ boards \in [Users -> SUBSET Kinds]
    /\ menu \subseteq Users
    /\ job \in [Handlers -> {Idle} \cup Job]
    /\ overtaken \in [Handlers -> SUBSET RoomIds]

\* A request for another game is pending only in a full room, and only once its
\* game is over (requestPlayWithFriendsGame), whichever copy was saved last.
settled(room) == room.pending # None => room.gameOver /\ room.player2 # None

RequestsWaitForTheEnd == \A r \in RoomIds : rooms[r] # None => settled(rooms[r])

\* The handler's copy is of a room that another one has written since.
stale(h) == job[h].id \in overtaken[h]

\* In this step h writes room r.
writes(h, r) == job[h].id = r /\ job'[h] # job[h]

\* A full room keeps its two players until it is removed, unless a handler stores a
\* copy it read before another one wrote, or one whom the room no longer names has it
\* played again (repeatGameHandler takes the sender for one of the two).
FullRoomKeepsPlayers ==
    [][\A r \in RoomIds :
         rooms[r] # None /\ rooms[r].player2 # None /\ rooms'[r] # None
         => \/ players(rooms'[r]) = players(rooms[r])
            \/ \E h \in Handlers :
                  /\ writes(h, r)
                  /\ \/ stale(h)
                     \/ job[h].task = "repeat" /\ job[h].user \notin players(rooms[r])]_vars

\* A game that is over starts again as the game one player has asked for and another
\* one accepted (PlayWithFriendsGameAcceptCallback), or because a handler stores a copy
\* from before another one's write.
RestartNeedsBoth ==
    [][\A r \in RoomIds :
         rooms[r] # None /\ rooms'[r] # None /\ rooms[r].gameOver /\ ~rooms'[r].gameOver
         => \E h \in Handlers :
               /\ writes(h, r)
               /\ \/ stale(h)
                  \/ /\ job[h].task = "accept" /\ rooms[r].pending = rooms'[r].kind
                     /\ rooms[r].by # job[h].user]_vars

\* When a chat has been ended neither of its users is in a room, unless somebody else
\* has written that room while it was being ended
\* (ConfirmEndChatHandler: "Remove any active game rooms ... for both players").
ChatEndClosesGames ==
    \A h \in Handlers : job[h].task = "endChat" /\ job[h].plan = <<>> =>
        \A u \in {job[h].user, job[h].other} :
            GetRoomIdByPlayerID(u) \in {None} \cup overtaken[h]

\* A room that was removed comes back, as the current room of both its players, only by
\* the save of a handler that had read it before: whoever removes a room (or writes
\* after its removal) does not save it again.
RemovedStaysRemoved ==
    [][\A r \in RoomIds :
         r <= nextId /\ rooms[r] = None /\ rooms'[r] # None
         => \E h \in Handlers : writes(h, r) /\ stale(h)]_vars
=============================================================================
