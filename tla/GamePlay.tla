------------------------------- MODULE GamePlay -------------------------------
(***************************************************************************)
(* One game in one full room: the move handlers.  A handler reads the      *)
(* room, plays on its copy, and writes the whole copy back, so a handler   *)
(* of the other player may run in between, and the process may stop before *)
(* it does.  The players are the seats 1 and 2.  A game of one of the      *)
(* kinds is played, in an anonymous chat (where its end removes the room)  *)
(* or among friends (where it is marked).                                  *)
(***************************************************************************)
EXTENDS Dooz, WordGuess

CONSTANTS
    None,           \* a removed room, an absent copy
    BoardKinds,     \* dooz boards in play
    Side, Line,     \* each board's side and line length
    Gravity,        \* the boards on which a mark falls
    Letters, Digits, Lengths,   \* of the words and numbers
    Racing,         \* the kinds in which both players' handlers may be in flight at once
    RacingMarks,    \* bound: on a board, while it holds no more marks than this
    MaxRound        \* bound: rock-paper-scissors rounds played

ASSUME GamePlayAssumption ==
    /\ BoardKinds \cap {"rps", "word", "dare"} = {} /\ Hidden \notin Letters
    /\ Side \in [BoardKinds -> Nat \ {0}] /\ Line \in [BoardKinds -> Nat \ {0}]
    /\ Gravity \subseteq BoardKinds
    /\ Lengths \subseteq Nat \ {0}
    /\ Racing \subseteq BoardKinds \cup {"rps", "word", "dare"} /\ RacingMarks \in Nat /\ MaxRound \in Nat

VARIABLES
    kind,           \* the game being played
    inChat,         \* Player1 is in an anonymous chat
    racing,         \* both players' handlers may be in flight at once
    room,           \* the stored room: turn, GameOver and the game's state
    job,            \* each player's handler: the copy, and the writes it owes
    results,        \* results handlers have come to so far
    lost            \* "begin", "end": what a stop of the process kept from being written

vars == <<kind, inChat, racing, room, job, results, lost>>

Players == {1, 2}
Weapons == {"rock", "paper", "scissors"}
beats   == [rock |-> "scissors", paper |-> "rock", scissors |-> "paper"]

RPSGame  == [moves : [Players -> Weapons \cup {""}], score : [Players -> 0..3], round : Nat]
NewRPS   == [moves |-> <<"", "">>, score |-> <<0, 0>>, round |-> 1]

NewGame(k) == CASE k \in BoardKinds -> EmptyBoard(Side[k])
                [] k = "rps"        -> NewRPS
                [] k = "word"       -> NewWordGame
                [] k = "dare"       -> None     \* LastQuestion is never assigned

Idle == [copy |-> None, plan |-> <<>>]

Init ==
    /\ kind \in BoardKinds \cup {"rps", "word", "dare"}
    /\ inChat \in BOOLEAN
    /\ racing \in IF kind \in Racing THEN BOOLEAN ELSE {FALSE}
    /\ room = [turn |-> 1, over |-> FALSE, game |-> NewGame(kind)]
    /\ job = [p \in Players |-> Idle]
    /\ results = 0
    /\ lost = {}

-----------------------------------------------------------------------------
(* Reading the room and playing on the copy.                               *)

few(k) == k \in BoardKinds => marks(room.game, 1) + marks(room.game, 2) <= RacingMarks

\* The guards every move handler begins with.
MayMove(p, k) ==
    /\ kind = k /\ job[p] = Idle
    /\ room # None /\ ~room.over
    /\ job[other(p)] # Idle => racing /\ few(k)

Owe(p, copy, plan) == /\ job' = [job EXCEPT ![p] = [copy |-> copy, plan |-> plan]]
                      /\ UNCHANGED <<kind, inChat, racing, room, lost>>

PlayOn(p, copy) == Owe(p, copy, <<"save">>) /\ UNCHANGED results

\* Mutant: the end of a game among friends is not marked in the room.
overUnmarked(copy) == copy

over(copy) == [copy EXCEPT !.over = TRUE]

\* The result is announced; in a chat the room is removed, among friends it
\* stays, marked (markPlayWithFriendsGameOver).
Announce(p, copy) ==
    /\ results' = results + 1
    /\ IF inChat THEN Owe(p, copy, <<"remove">>) ELSE Owe(p, over(copy), <<"save">>)

\* Mutant: a player may move when it is not his turn.
anyTurn(p) == TRUE

myTurn(p) == room.turn = p

passTurn(copy, game) == [copy EXCEPT !.turn = other(@), !.game = game]

\* Room.Reset once a board game has ended.
reset(copy) == [copy EXCEPT !.turn = 0, !.over = FALSE, !.game = NewGame(kind)]

\* moveDooz4GravityHandler, moveDooz4NormalHandler, moveDoozClassicHandler: a
\* rejected move returns false and the unchanged copy is saved all the same.
MoveDooz(p, k, cell) ==
    LET b == room.game
        land == landing(b, Side[k], k \in Gravity, cell)
        at == CHOOSE c \in land : TRUE
        placed == [b EXCEPT ![at] = p] IN
    /\ MayMove(p, k) /\ k \in BoardKinds
    /\ IF ~myTurn(p) \/ land = {} THEN PlayOn(p, room)
       ELSE IF CheckWin(placed, Side[k], Line[k], at, p) \/ IsDraw(placed)
       THEN Announce(p, reset(passTurn(room, placed)))
       ELSE PlayOn(p, passTurn(room, placed))

\* moveDareAndTruthHandler.
MoveDareAndTruth(p) ==
    /\ MayMove(p, "dare")
    /\ PlayOn(p, IF myTurn(p) THEN passTurn(room, None) ELSE room)

\* determineRPSRoundWinner.
winner(m) == CASE m[1] = m[2]        -> 0
               [] beats[m[1]] = m[2] -> 1
               [] OTHER              -> 2

\* Mutant: the round's moves are kept when the next one starts.
nextRoundKeeps(g) == [g EXCEPT !.round = @ + 1]

nextRound(g) == [g EXCEPT !.moves = <<"", "">>, !.round = @ + 1]

\* Mutant: the match goes on after the third point.
matchWon(g) == \E p \in Players : g.score[p] > 3

matchOver(g) == \E p \in Players : g.score[p] >= 3

\* moveRPSHandler.
MoveRPS(p, m) ==
    LET played == [room.game EXCEPT !.moves[p] = m]
        w == winner(played.moves)
        scored == IF w = 0 THEN played ELSE [played EXCEPT !.score[w] = @ + 1]
        with(g) == [room EXCEPT !.game = g] IN
    /\ MayMove(p, "rps")
    /\ room.game.moves[p] = "" /\ room.game.round <= MaxRound
    /\ IF "" \in {played.moves[1], played.moves[2]} THEN PlayOn(p, with(played))
       ELSE IF matchOver(scored) THEN Announce(p, with(scored))
       ELSE PlayOn(p, with(nextRound(scored)))

withGame(g) == [room EXCEPT !.game = g]

\* wordTypeHandler: whoever presses first becomes the creator.
ChooseType(p, t) ==
    /\ MayMove(p, "word") /\ room.game.state = "choosing_type"
    /\ PlayOn(p, withGame([room.game EXCEPT !.type = t, !.state = "choosing_length",
                                            !.creator = p]))

\* wordLengthHandler.
ChooseLength(p, n) ==
    /\ MayMove(p, "word") /\ room.game.state = "choosing_length" /\ room.game.creator = p
    /\ PlayOn(p, withGame([room.game EXCEPT !.length = n, !.state = "waiting_secrets",
                                            !.turn = 1]))

Alphabet(type) == IF type = "num" THEN Digits ELSE Letters
Words(g)       == [1..g.length -> Alphabet(g.type)]

\* Mutant: a secret may be sent again while the other one is missing.
maySendAgain(g, p) == TRUE

maySend(g, p) == ~g.ready[p]

\* handleWordSecretInput, for a word that fits: the copy is saved, and when both
\* secrets are in saved once more with the game started, and once more when both
\* players have been told (sendWordGameStatus).
SendSecret(p, w) ==
    LET g == [room.game EXCEPT !.secret[p] = w, !.ready[p] = TRUE] IN
    /\ MayMove(p, "word") /\ room.game.state = "waiting_secrets"
    /\ maySend(room.game, p) /\ w \in Words(room.game)
    /\ Owe(p, withGame(g), IF g.ready[1] /\ g.ready[2] THEN <<"save", "begin", "save">>
                         ELSE <<"save">>)
    /\ UNCHANGED results

myGuess(p) == room.game.state = "playing" /\ room.game.turn = p

\* handleNumberGuessInput: the whole number, digit by digit in place.
GuessNumber(p, w) ==
    /\ MayMove(p, "word") /\ myGuess(p)
    /\ room.game.type = "num" /\ w \in Words(room.game)
    /\ IF w = room.game.secret[other(p)] THEN Announce(p, room)
       ELSE PlayOn(p, withGame(switchTurn(room.game)))

\* wordGuessMoveHandler (a letter's button) and handleWordGuessTextInput (the
\* letter as a message): sendWordGameStatus saves the copy once more, after its
\* messages to both players.
GuessLetter(p, ch) ==
    LET g == applyGuess(room.game, p, ch) IN
    /\ MayMove(p, "word") /\ myGuess(p)
    /\ room.game.type # "num" /\ ch \in Letters
    /\ ~alreadyGuessed(room.game, p, ch)
    /\ IF hasWon(g, p) THEN Announce(p, withGame(g))
       ELSE Owe(p, withGame(switchTurn(g)), <<"save", "save">>) /\ UNCHANGED results

-----------------------------------------------------------------------------
(* Writing the copy back.                                                  *)

owes(p, w) == job[p].plan # <<>> /\ Head(job[p].plan) = w

Done(p, copy) == job' = [job EXCEPT ![p] = IF Len(@.plan) = 1 THEN Idle
                                          ELSE [copy |-> copy, plan |-> Tail(@.plan)]]

SaveRoom(p) ==
    /\ owes(p, "save")
    /\ room' = job[p].copy
    /\ Done(p, job[p].copy)
    /\ UNCHANGED <<kind, inChat, racing, results, lost>>

\* The second save of handleWordSecretInput.
BeginPlaying(p) ==
    /\ owes(p, "begin")
    /\ room' = [job[p].copy EXCEPT !.game = startPlaying(@)]
    /\ Done(p, room')
    /\ UNCHANGED <<kind, inChat, racing, results, lost>>

RemoveRoom(p) ==
    /\ owes(p, "remove")
    /\ room' = None
    /\ Done(p, job[p].copy)
    /\ UNCHANGED <<kind, inChat, racing, results, lost>>

-----------------------------------------------------------------------------
(* Stopping the process.                                                   *)

\* A handler that owes the end of the game it has come to.
Ending(j) == j.plan = <<"remove">> \/ (j.plan = <<"save">> /\ j.copy.over)

\* What is lost with the writes a handler owes, besides a move to make again.
cutOff(j) == (IF j.plan = <<"begin", "save">> THEN {"begin"} ELSE {})
             \cup (IF Ending(j) THEN {"end"} ELSE {})

\* main on SIGTERM: handlers are not awaited, rooms stay in Redis.  Bound: a
\* start and an end are cut off once each.
Stop ==
    LET cut == UNION {cutOff(job[p]) : p \in Players} IN
    /\ \E p \in Players : job[p] # Idle
    /\ cut \cap lost = {}
    /\ lost' = lost \cup cut
    /\ job' = [p \in Players |-> Idle]
    /\ UNCHANGED <<kind, inChat, racing, room, results>>

MoveOf(p) ==
    \/ \E k \in BoardKinds : \E cell \in Cells(Side[k]) : MoveDooz(p, k, cell)
    \/ MoveDareAndTruth(p)
    \/ \E m \in Weapons : MoveRPS(p, m)
    \/ \E t \in {"fa", "num"} : ChooseType(p, t)
    \/ \E n \in Lengths : ChooseLength(p, n)
    \/ \E n \in Lengths : \E w \in [1..n -> Letters \cup Digits] :
            SendSecret(p, w) \/ GuessNumber(p, w)
    \/ \E ch \in Letters : GuessLetter(p, ch)

Next ==
    \/ \E p \in Players : MoveOf(p) \/ SaveRoom(p) \/ BeginPlaying(p) \/ RemoveRoom(p)
    \/ Stop

Spec == Init /\ [][Next]_vars

-----------------------------------------------------------------------------
(* Properties.                                                             *)

open    == room # None /\ ~room.over
onBoard == kind \in BoardKinds
word    == room.game.state

\* The stored room is a room of the game being played, whoever wrote it last.
TypeOK ==
    /\ inChat \in BOOLEAN /\ racing \in BOOLEAN /\ results \in Nat
    /\ lost \subseteq {"begin", "end"}
    /\ room # None => /\ room.turn \in {0} \cup Players /\ room.over \in BOOLEAN
                      /\ CASE onBoard       -> room.game \in Boards(Side[kind])
                           [] kind = "rps"  -> room.game \in RPSGame
                           [] kind = "word" -> room.game.turn \in {0} \cup Players
                           [] OTHER         -> TRUE

\* The marks on a stored board are those of two players who moved in turn, the
\* first player first, and with gravity every mark rests on the edge or on
\* another mark: also when a late SaveRoom has put an older board back.
BoardsLegal ==
    onBoard /\ open =>
        /\ marks(room.game, 1) - marks(room.game, 2) = IF room.turn = 1 THEN 0 ELSE 1
        /\ kind \in Gravity => \A cell \in Cells(Side[kind]) :
               room.game[cell] # 0 /\ cell[2] < Side[kind] - 1
               => room.game[<<cell[1], cell[2] + 1>>] # 0

\* A game that goes on has no winner and no draw: no line anywhere on the board
\* (CheckWin looks only along the lines through the last mark), no third point,
\* and a slot still hidden from each player of a word game.
NoMissedEnd ==
    open =>
        /\ onBoard => /\ \A p \in Players : ~HasLine(room.game, Line[kind], p)
                      /\ ~IsDraw(room.game)
        /\ kind = "rps" => \A p \in Players : room.game.score[p] < 3
        /\ kind = "word" => (word = "playing" =>
                \A p \in Players : Hidden \in letters(room.game.display[p]))

\* A player's display shows the other's secret and nothing else: a letter he
\* has found stands in every slot that holds it, and none he was told is wrong
\* occurs in it (applyWordLetterGuess).
DisplaysTruthful ==
    kind = "word" /\ room # None => (word = "playing" =>
        \A p \in Players :
            LET shown == room.game.display[p]
                secret == room.game.secret[other(p)] IN
            /\ DOMAIN shown = DOMAIN secret
            /\ \A i \in DOMAIN secret : shown[i] = IF secret[i] \in letters(shown)
                                                   THEN secret[i] ELSE Hidden
            /\ room.game.wrong[p] \cap letters(secret) = {})

\* While nobody's handler is in flight, an open game lets somebody move on: a
\* late save never leaves a room in which every handler turns both players away,
\* and a stop of the process only between the two saves that start a word game.
NeverStuck ==
    open /\ (\A p \in Players : job[p] = Idle) =>
        /\ onBoard => room.turn \in Players
        /\ kind = "rps" => "" \in {room.game.moves[p] : p \in Players}
        /\ kind = "word" =>
            CASE word = "choosing_length" -> room.game.creator \in Players
              [] word = "waiting_secrets" ->
                    (room.game.ready[1] /\ room.game.ready[2]) => "begin" \in lost
              [] word = "playing" ->
                    /\ room.game.turn \in Players
                    /\ room.game.type # "num" =>
                         \E ch \in Letters : ~alreadyGuessed(room.game, room.game.turn, ch)
              [] OTHER -> TRUE

\* With the players' updates apart, a game is decided at most once, and once
\* more if the process stopped before the end it had come to was stored.
OneResult == ~racing => results <= IF "end" \in lost THEN 2 ELSE 1

phase == [choosing_type |-> 0, choosing_length |-> 1, waiting_secrets |-> 2, playing |-> 3]

\* With the players' updates apart nothing a player has done is taken back while
\* the game goes on: marks stay, points stay, a word game's settings and
\* secrets stay, and what is shown of a secret stays shown.
NothingTakenBack ==
    [][~racing /\ open /\ room' # None /\ ~room'.over =>
        LET old == room.game
            new == room'.game IN
        /\ onBoard => \A cell \in Cells(Side[kind]) : old[cell] \in {0, new[cell]}
        /\ kind = "rps" => \A p \in Players : /\ old.score[p] <= new.score[p]
                                             /\ old.round = new.round
                                                  => old.moves[p] \in {"", new.moves[p]}
        /\ kind = "word" =>
            /\ phase[old.state] <= phase[new.state]
            /\ old.creator \in {0, new.creator} /\ old.length \in {0, new.length}
            /\ \A p \in Players : /\ old.ready[p] => new.secret[p] = old.secret[p]
                                   /\ \A i \in DOMAIN old.display[p] :
                                        old.display[p][i] \in {Hidden, new.display[p][i]}]_vars

\* A player whose choice of a round was stored and who was told so
\* (GameMoveRegistered, "registered, waiting for the opponent") has chosen: his
\* choice stays until the round is over.
RegisteredMoveKept ==
    [][kind = "rps" /\ open /\ room' # None /\ room'.game.round = room.game.round =>
        \A p \in Players : room.game.moves[p] \in {"", room'.game.moves[p]}]_vars
=============================================================================
