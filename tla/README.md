# gapgame: models, checks and proofs

gapgame is a Telegram/Bale bot: users register, search for anonymous chat
partners, pay for some searches with coins, and play two-player games with a
chat partner or with a friend who follows a link. It is one process written in
Go. Every update runs in a goroutine of its own; a match worker and a sync
worker run beside them; all short-lived state is in Redis, the users are in
Postgres, and almost nothing is read and written in one transaction. That is
what this directory models: who may overwrite whose read, and what stays true
all the same.

Source paths below are relative to `src/`. `PROJECT.json` maps every definition
that models code to its lines.

## 1. Inventory

| part | source | state | operations | talks to |
|---|---|---|---|---|
| search queue | `internal/bot/08_chat.go`, `internal/session/chat.go` | lists `chat:queue:<filter>`, `chat:waiting:<user>`, `in_queue:<user>`, coins | `joinQueue`, search again | worker through Redis, user rows |
| match worker | `internal/bot/match_worker.go` | locals of a tick every 2 s | expire, pair, refund | the keys above, `active_chat:<user>` |
| chats | `session/chat.go`, `08_chat.go`, `06_DM.go` | `active_chat:<user>` (one session, two keys) | match, accept a request, end, 4 h expiry | rooms: ending a chat ends its games |
| rooms | `internal/game/game_manager/two_players_room.go` | `game:room:<id>`, `game:player_room:<user>`, `game:next_id` | create, join, save, remove | every game handler |
| game menus | `internal/bot/10_game.go` 126-778 | the room's players, game, GameOver, pending request; `user_state` | select, join, request, accept, reject, repeat, cancel, finish, end | chats, rooms |
| games | `internal/game/*`, `10_game.go` 458-1437 | board, round, word state inside the room | moves, choices, secrets, guesses | rooms |
| text routing | `01_start.go`, `handlers.go`, `session/manager.go` | `user_state`, `dm_target`, `contact_pending` | one text, one of many meanings | all of the above |
| profile | `01_start.go`, `04_profile.go`, `service/user.go` | `ProfileState` and the row | complete, edit, bonus | text routing, user rows |
| coins | `service/user.go` | `coins`, `invite_count`, bonus of the row | deduct, award, referral, gifts | whole-row saves |
| social | `04_profile.go`, `06_DM.go`, `user/repository.go` | likes, contacts, blocks, silence, chat requests | toggle, add, remove, ask, accept | text routing, counters on the row |
| last seen | `session/manager.go`, `service/SyncLastSeenToDB.go` | `last_seen:<user>`, notify sets | touch, sync, notify | user rows, search order |
| user search | `05_search.go`, `user/search_builder.go` | `search_state:<user>` | choose, toggle, page | last seen, blocks, user rows |
| admin | `11_admin.go` | pending action in memory, bans | begin, text, confirm, cancel | text routing, user rows |
| unused code | `internal/matching`, `cached_repository.go`, `coin_transaction.go`, `connection_pool.go`, `session/cache.go`, `pkg/cleanup` | their own | - | nothing in `cmd/bot` builds them |

What is hard about it:

* **Check, then act, over several round trips.** `joinQueue` tests two keys,
  deducts, enqueues, then sets the flag the first test reads.
* **Read, modify, save the whole record.** User rows (`Save`) and rooms
  (`SaveRoom`) are written back whole from a copy read earlier.
* **Four keys for one fact.** "u is queued" is a list entry, a waiting key, a
  flag and a paid cost, each written by its own call.
* **Old buttons.** A keyboard stays on the screen: an accept, a move or a join
  link can arrive at any later time.
* **Failure half-way.** Any call may fail; SIGTERM awaits no goroutine; keys expire.

What makes the parts correct, in a word each: a search is settled once and its
cost is given back at most once; nobody is queued twice or chats and queues at
once; a chat has both its ends; nobody who left a chat is in one of its games; a
finished game restarts only if both want it; the end of a game is seen, once;
what a player did is not undone; coins come with their record and are never more
than was given; a text is taken for the answer to the question on the screen; an
admin runs what was confirmed; a reader of the list skips nobody; the last
activity of a user is in Redis or in the table. `PROJECT.json` lists the hazards line by line.

## 2. Modules

| module | what it is |
|---|---|
| `Compat` | filters, costs, `isCompatible` |
| `Matching` | search handlers, worker, chats: one action per round trip |
| `SearchContract` | what a searcher is promised, without queues or flags |
| `MatchingContract` | the refinement mapping; what the pairing rules give |
| `MCMatching` | instance |
| `MatchingProofs` | theorems about `Matching` that hold under everything |
| `MatchingSerialProofs` | those that need a user's updates apart; the refinement |
| `GameRooms` | rooms and menus: a handler reads once, then owes a list of writes |
| `MCGameRooms`, `GameRoomsProofs` | instance; theorems about `GameRooms` |
| `Dooz`, `WordGuess` | the rules of the boards and of the word game |
| `GamePlay`, `MCGamePlay`, `GamePlayProofs` | one game in a full room: the move handlers |
| `Accounts`, `MCAccounts`, `AccountsProofs` | rows and likes: registration, coins, gifts, bans |
| `Conversation`, `MCConversation` | questions, answers, and the calls of each handler |
| `ConversationProofs` | theorems about `Conversation` |
| `Presence`, `PresenceProofs` | last activity: keys, sync passes, whole-row saves |
| `Search`, `MCSearch`, `SearchProofs` | menus, query and pages; extends `Presence` |

### Matching

The variables are the Redis keys (`queue`, `waiting`, `inQueue`, `active`), the
balance (`coins`), each handler goroutine's program counter and locals (`job`)
and the worker's (`phase`, `todo`, `batch`, `stale`, `fresh`, `plan`). One
action is one Redis or Postgres call; what Go does between two calls touches
locals only. `joinQueue` is `StartSearch`, `CheckInQueue`, `CheckActiveChat`,
`DeductRead`/`DeductSave`, `EnqueueChat`, `JoinQueue`, with its refund path.
A tick is `Tick`, `ReadList` per list, `SplitBatch`, then `ExpireEntry` and
`CreateMatch`, each of which puts the calls it still owes into `plan`, done one
by one by `GetWaitingFilter` ... `RefundSave`. Entries carry the number of their
search so that properties can speak of one search; the code has no such number.

`Overlap` says whether two updates of one user may be handled at once (the rate
limiter keeps them a second apart; a handler may take longer). `Faults` says
whether calls may fail. A restart clears what goroutines hold, and, after more
than five minutes, the queue's keys. `severed` is history: the sessions a key of
which was deleted or overwritten by a call that did not know them, such as a
`DeleteActiveChat` that read an earlier session of the same user, or an accept
button that opens a chat over a running one.

### GameRooms

A handler of `10_game.go` reads the room once and works on its copy. `Handle`
is that read with every guard and early return, and `job[h].plan` is the list of
writes the handler then owes, one action each: `save` is `SaveRoom` of the
*copy*, `remove` `RemoveRoomByRoomID`, `joinRead`/`joinSave` the two halves of
`JoinRoom`, and so on. What a room holds of the game is its kind and whether it
is over. `links` and `boards` remember the links and boards users were sent,
since both can be used later; `chat` is the partner under `active_chat`.
The limiter keeps one user's updates apart, and not those of the two players of
one room: their handlers, and those of anybody who joins, overlap in every way
(`MayStart`). `overtaken[h]` is history: the rooms that some other handler, or
the expiry of the key, has written since `h` read them. A copy of such a room is
stale, and what a stale copy may do when it is saved is exactly what the
properties make an exception of; nothing else may.

Left out: message ids, names, `LastMove`, `Turn` (in `GamePlay`).

### GamePlay

One full room, one game, the players as seats 1 and 2. A move handler plays on
a copy (`MayMove` and the game's rule), then writes it back (`SaveRoom`), or
removes the room (in a chat), or marks it over (among friends). In a word game
`sendWordGameStatus` saves the copy once more after both players have been told
(`10_game.go:1253`, `1274`): `GuessLetter` owes that save after its own, `SendSecret`
and `BeginPlaying` after the two of `handleWordSecretInput`, and by then the other
player may have played on, ended the game or removed the room. `Racing` names
the kinds in which both players' handlers may overlap; boards race only while
they hold at most `RacingMarks` marks, so that the state space stays small, and
the gravity board does not race in the run (the theorems cover it). `Stop` is
SIGTERM: the writes still owed are lost, the room in Redis stays. `lost` notes
what a stop cuts off for good, the start of a word game or the end of a game.
The three dooz files differ in side, length of a line and where a mark lands,
which are parameters:
free dooz on 7 x 7 is the classic rule with `Side` 7 and `Line` 4.

### Accounts

`row` is the users table, `likes` the likes table. A handler that reads a row,
changes its copy and calls `Update` is an action that notes the row it read and
the copy it owes (`Change`, in `job[h].saves`), and `Save`, which writes the
whole copy over whatever the row holds by then. Likes, gifts and bans change one
column inside the database and are one action. `given`, `spent`, `referred`,
`ban` and `stale` are history, for the properties to speak about; the code keeps
nothing of the kind. The match worker refunds as nobody (`None`).

### Conversation

`state`, `dmTarget`, `pending` and `adminPending` are the notes the bot keeps of
what it asked. A handler looks at them, then owes calls (`job[h].calls`), made
one at a time by `WriteState` ... `WriteAdmin`, so that an expiring key comes
between, or what another user's handler does to this user's notes: a game that
starts (`StartGame`), a game that ends (`EndGame`: every handler of `10_game.go`
that clears both players' states) and a chat that is ended
(`ConfirmEndChatHandler`). `taken` is history: the users whose note one of these
has overwritten. `open` is the question a user's screen
shows last, `shown` the operation of an admin's last confirmation: the code has
neither, and the properties say that its notes agree with them. Whether an
answer passes its field's rule is a free choice (`fits`).

### Presence and Search

A pass of the sync worker is `SyncScan`, `SyncGet`, one `BulkUpdateLastSeen` per
timestamp and `SyncDelete`; updates and whole-row saves come between. Its calls
may fail: without the reads the pass ends (`PassFails`); a bulk update that fails is
logged, and its keys are deleted with the others (`BulkUpdateFails`); a deletion
that fails may have deleted some of them (`DeleteFails`). `raced`, `rewound` and
`unwritten` are history: the users whose last activity was overtaken by one of the
three events that can lose it.
`Search` extends it: `buildFilter` and `buildSearchQuery` are the code's filter
and its SQL as a predicate on rows, `ExecuteSearch` gives every page that an
order by `last_seen_at` alone allows, since ties have no second key. `walk`
remembers the pages a searcher has turned since the first one.

## 3. Runs

| run | instance | distinct states | time | shows |
|---|---|---|---|---|
| `MatchingSerial` | 2 users, 2 handlers, 2 filters, 3 searches | 492,545 | 30 s | type, one entry per user, settled once, nothing lost, no queueing while chatting, no chat replaced, refinement of `SearchContract` |
| `MatchingUnreliable` | 2 users, 2 handlers, overlap, faults, 1 restart, 1 accept button | 5,026,280 | 3 min | coins, sessions and ticks hold under everything |
| `MatchingChats` | 3 users, 2 handlers, 2 searches, 1 restart, 1 accept button | 1,555,754 | 45 s | a session loses one key only to a call that did not know it; the pairing test on all pairs of entries |
| `MatchingLive` | 2 users, 2 handlers, 2 searches | 59,573 | 25 s | searches end, flags go away |
| `GameRooms` | 2 users, 2 handlers that overlap, a word game and truth or dare, 1 room, 1 chat | 2,311,922 | 65 s | types, requests, ends of chats, seats, restarts and removals under late saves |
| `GamePlay` | gravity 4 x 4 and classic 3 x 3 with lines of 3, RPS to 3 points, words and numbers of 2, dare | 722,756 | 90 s | the games to their ends, with stops of the process |
| `Accounts` | 3 users, 2 handlers, overlap, faults, 2 updates beside registrations | 2,188,434 | 105 s | coins and invitations are backed; the books balance without stale saves |
| `Conversation` | 2 users, one an admin, 2 handlers, 4 updates | 2,426,743 | 2 min | answers fit questions, questions stay open, confirmations run what they show |
| `Search` | 1 searcher, 3 users, pages of 1, 3 buttons, 2 updates, 1 failing call | 775,012 | 135 s | nobody is skipped, activity is not lost and reaches the table |

Three runs are expected to be violated: each shows a comment or a message of the
repository that the code does not keep (`findings` in `PROJECT.json`).

| run | what happens |
|---|---|
| `FailedMatch` | `SetActiveChat` fails, both are refunded, both stay queued and are refunded again |
| `LostMove` | of two rock-paper-scissors choices made at once, one registered choice is erased |
| `BlockIgnored` | a blocked user's chat request or direct message is sent to the one who blocked |

Other weaknesses show themselves when a property is checked on a wider instance,
or were read off the model; they have no run of their own.

* Search and matching: the `in_queue` flag set after the match that should have
  cleared it (it heals by expiry: `FlagHeals`); a refund and a deduction that
  overwrite each other; an entry left in the list `chat:waiting` no longer
  names; `DeleteActiveChat` on a session read too early; an accept button that
  replaces a chat; searches lost when the process is down for more than five
  minutes; two gendered filters are paired by their names, whatever the genders
  of the two users (`match_worker.go:200-225`).
* Games: a stop between the two saves of `handleWordSecretInput` leaves a word game
  nobody can play on (`10_game.go:1163-1171`); one between a result and the removal
  of the room lets the game be decided again. `NeverStuck` and `OneResult` say that
  there is no other way to either.
* Rooms: the comment at `10_game.go:590` says "Remove all game state first so no
  further moves can race with the cleanup", but the partner's move that has read
  the room before (`10_game.go:543`) saves its copy afterwards (`10_game.go:556`) and
  with it restores the room and both pointers, also between the removal and the
  clearing of the states; so does the last save of `sendWordGameStatus`.
  `RemovedStaysRemoved` says that only such a handler brings a room back. When two
  friends use one link at once the later one takes the seat of the first, whose
  pointer stays. A replaced invite's old link seats the friend in
  the creator's other game (`10_game.go:409-425`).
* Rows: any whole-row save undoes a like, a gift, a ban or a newer activity that
  came between its read and itself. `BooksBalance` says that this is the only
  way the books go wrong.
* Conversation: `SetGenderHandler` leaves `editing_gender`, and later texts are
  refused until the user cancels; editing the age or the gender of a complete
  profile sets the stage back and takes it out of the search, and editing the
  province makes any profile `complete`; a photo or a location sent for the
  optional chain ends the chain; buttons of old confirmations run the newest
  operation. With `Overlap`, `AnswerFitsQuestion` fails: two updates of one user
  at once may answer a question that has just been replaced.
* Last activity: an update between the read and the deletion of a pass is lost;
  `GetLastSeen` reads the key alone, so that after each pass users look as if
  they had been away for long; nothing calls `PopOnlineNotifyList`. Users who
  share a `last_seen_at` have no fixed order, so a page may skip or repeat one.
* Search menus: "nearby" followed by a province keeps both, and the provinces
  are ignored; with an expired `search_state`, "next" shows the second page of
  an unfiltered list; `NoChat` is set and never used.

### Bounds, and why they are enough

* Two users are the smallest match; three are needed for somebody to be left
  over, to be the next partner, or to join a room late. Three searches allow one
  user to search again after a match or a timeout.
* Two filters, one free and one paid, reach every branch of the cost and of
  `removeFromQueue`'s choice of list. `RandomSideFits` and
  `OrderMattersOnlyForNearby` range over all six filters whatever the instance.
* `MaxSettles` stops the worker from settling the same searches for ever;
  `MaxRestarts`, `MaxRooms`, `MaxChats` and `MaxRound` are the other counters.
  Because they stop the system, and a bot whose users press nothing is idle,
  the runs switch deadlock checking off.
* A 4 x 4 board with lines of three has lines that touch an edge, lines that do
  not, and room to close a line in its middle; gravity needs columns of more
  than two cells. Draws are reached on 3 x 3. Words of two letters over two
  letters have repeated and distinct letters, hits and misses.
* `MatchingChats` has a third user because the late `DeleteActiveChat` of one needs
  another to chat with meanwhile; its accept button is pressed by a user who may
  be queued or chat already.
* `GameRooms`: two handlers are the fewest that overlap, and the two players the
  fewest that have one room; one chat, opened before or after the room, is enough
  for both kinds of ends. A word game is the one whose moves save their copy up to
  three times, truth or dare the one that only a button ends. With `MaxRooms` 1
  what comes back after a removal is the same room. A third user, more rooms and
  the games with boards are covered by the theorems, which have no hypotheses.
* `Accounts`: two goroutines are the fewest that overwrite each other, three
  users allow two newcomers to be referred to one referrer at once; registrations
  are not counted by `MaxUpdates`, and two more updates are a lost update, a like
  and its withdrawal, or a gift between a read and its save. The theorems cover
  every other number of them.
* `Conversation`: one user in registration and one admin who is registered have
  every question between them; four updates are a question, a second one, its
  answer and a game, an ended chat or a cancellation in between. `Overlap` is off: see above.
* `Search`: pages of one row and three users give three pages; two of them were
  last seen at the same time. One call of a pass fails, whichever. The
  clock moves once, and two changes (an update, a
  row saved from an old copy, a block, a profile that leaves the list) come
  between the pages.

### Fairness

`MatchingLive` and the temporal property of `Search` need it. Weak fairness of
`HandlerStep(h)`: a started goroutine is not awaited by anybody and waits for
nothing but its own calls, each of which has a deadline. Weak fairness of
`WorkerStep`: the ticker keeps firing and `processMatches` has no loop that
depends on others. Weak fairness of `Age` and `FlagExpires`: time passes and
Redis expires keys. Weak fairness of `SyncStep`: `StartSyncWorker` starts a pass
at every tick of its own ticker, and a pass ends. No user is obliged to press
anything. `MatchingLive` has no failing calls and no restarts: with a process that
is down nothing is promised. In `Search` a bounded number of calls fails, and a
pass that fails is followed by another.

## 4. Proofs

TLAPS checks these for every value of the constants (any number of users,
goroutines, searches, rooms; overlap, faults and restarts as the constants say).

| theorem | module | says |
|---|---|---|
| `TypeCorrect` | `MatchingProofs` | `TypeOK` |
| `BalancesStayPositive` | `MatchingProofs` | no balance falls below zero |
| `ChatsNameTheirOwner` | `MatchingProofs` | a user's session names the user |
| `SessionsAreMutual` | `MatchingProofs` | both sides have a session, unless a call that did not know it has taken a key away |
| `TickHandlesEachUserOnce` | `MatchingProofs` | a tick handles a user once |
| `RandomSearchersFit` | `MatchingSerialProofs` | a pair with a random searcher suits both |
| `OrderSeldomMatters` | `MatchingSerialProofs` | pairs do not depend on the reading order, but for plain "nearby" |
| `OneEntryEach` | `MatchingSerialProofs` | `Serial`: a user is in one list, once |
| `EachSettledOnce` | `MatchingSerialProofs` | `Serial`: a search is matched or timed out, once, and refunded at most once |
| `NoneLost` | `MatchingSerialProofs` | `Serial`: a charged search is queued or settled, and refunded if it timed out |
| `KeepsContract` | `MatchingSerialProofs` | `Serial`: `Matching` implements `SearchContract` |
| `ChattingUsersLeave` | `MatchingSerialProofs` | `Serial`, no accept buttons: who chats is leaving the lists |
| `ChatsNotReplaced` | `MatchingSerialProofs` | `Serial`, no accept buttons: a session is ended before the next |
| `TypeCorrect` | `GamePlayProofs` | `TypeOK` |
| `BoardsStayLegal` | `GamePlayProofs` | marks alternate and rest on the edge or on marks, on boards of any size |
| `NoEndMissed` | `GamePlayProofs` | an open game has no line, no draw, no third point, no word fully found |
| `DisplaysStayTruthful` | `GamePlayProofs` | a display shows the other's secret and nothing else, for any alphabet and length |
| `NeverLeftStuck` | `GamePlayProofs` | an open game has a move for somebody, whichever copy was saved last, the last one of `sendWordGameStatus` too, but for one named stop |
| `DecidedOnce` | `GamePlayProofs` | with the players' updates apart there is one result, or two around a stop |
| `NothingUndone` | `GamePlayProofs` | with the players' updates apart nothing a player has done is taken back |
| `RequestsWait` | `GameRoomsProofs` | requests are pending only in full rooms whose game is over |
| `TypesKept` | `GameRoomsProofs` | `TypeOK`, of stored rooms and of copies still to be saved |
| `ChatsEndInNoRoom` | `GameRoomsProofs` | who has ended a chat is in no room, nor is the partner, but one that somebody else wrote meanwhile |
| `PlayersStay` | `GameRoomsProofs` | a full room keeps its players, but for a stale copy's save or the repetition by one it no longer names |
| `BothRestart` | `GameRoomsProofs` | a new game needs one player's request and the other's consent, or a stale copy's save |
| `RemovedForGood` | `GameRoomsProofs` | only a handler that had read a room before its removal brings it back |
| `BalanceBacked` | `AccountsProofs` | a balance is between zero and what the user was given and the row accounts for |
| `InvitesCounted` | `AccountsProofs` | a row never counts more invitations than newcomers referred |
| `BooksKept` | `AccountsProofs` | without stale saves balances, like counters and bans are exact |
| `TypeCorrect` | `ConversationProofs` | `TypeOK`, also with overlapping updates |
| `AnswersFit` | `ConversationProofs` | `~Overlap`: an answer answers the question on the screen |
| `QuestionsStay` | `ConversationProofs` | `~Overlap`: a question on the screen stays open between updates until a game starts or a game or chat ends |
| `ConfirmedOnly` | `ConversationProofs` | `~Overlap`: what runs is what the last confirmation showed |
| `NothingLost` | `PresenceProofs` | the last activity is in its key or in the table, but for three named events |
| `NobodySkipped` | `SearchProofs` | turning pages skips nobody in a list nobody leaves |
| `SearchLosesNothing` | `SearchProofs` | `NothingLostOtherwise` holds of the composition as well |

`AccountsTypes` and `PresenceTypes` are the type invariants the theorems about
`Accounts`, `Presence` and `Search` rest on.

The assumptions are those named in the modules (`MatchingAssumption`,
`GameRoomsAssumption`, `NoneAssumption`, `GamePlayAssumption`, `AccountsAssumption`,
`ConversationAssumption`, `PresenceAssumption`, `SearchAssumption`): `None` is no
user, no room and no question, the counters are naturals, users are finite where they are
counted, a hidden slot is no letter, and the like.

* `TypeCorrect`: `TypeOK` is inductive. It says more than types: what a tick
  collects is empty outside the part of the tick that uses it.
* `BalancesStayPositive`: a balance is not enough, since a save writes what was
  read earlier. `CoinsInv` adds `SnapshotsCover`: the row a handler read before
  a deduction covers the cost, and the row read before a refund is not negative.
  No save looks at the present row, so nothing else is needed, and lost updates
  cannot make a balance negative.
* `ChatsNameTheirOwner`: inductive with `TypeOK`; every action either writes a
  session under the keys of the two users in it or deletes keys.
* `TickHandlesEachUserOnce`: inductive with `TypeOK`; the `seen` map makes the
  positions of `stale` and `fresh` those of different users, a decision takes its
  positions out, and `plan` only speaks of the users taken out.
* `Serial` is `~Overlap /\ ~Faults /\ MaxRestarts = 0`: a user's updates are handled
  one after the other, no call fails and the process keeps running, any number of
  users, handlers and searches. `Orderly` is the inductive invariant. A user in a
  list has the flag or a goroutine about to set it, and is not past the test of
  either (`OneEntryPerUser` with `Flags`); that fails as soon as the flag is gone
  while an entry is left, so it also has to be said that the worker, between
  deciding and the last call of its clean-up, still owes for every entry the calls
  that take it out, in the order `cleanUp` gives them (`PlanShape`, `PlanFits`),
  and that what it collected is in the lists or was cancelled since (`Collected`).
  `Ledger` counts on top of that: what is in a list and not about to be taken out
  has not been settled (`Fates`, `Listed`), and a refund is done or owed
  (`Refunds`). `KeepsContract` maps each action to one step of `SearchContract` or to a
  stutter: `FatesMove` says how the fates move when the counters of some searches do.
* Why each hypothesis: with `Overlap` two updates both pass the test of the flag;
  with faults or a restart entries stay that are already settled (`FailedMatch`).
  An accept button opens a chat without looking at the lists or at the chats of
  the two (`Requests = {}`). The pairing theorems need none of them.
* `SessionsAreMutual` needs no hypothesis: a session's keys are written and deleted
  in pairs by everyone who knows the session, and who does not notes it in
  `severed` (`Severs`). Inductive with `TypeOK` and `ChatNamesOwner`.
* `GameRoomsProofs`: the theorems have no hypothesis about who acts at once. `Tidy`
  is the invariant: of every handler in flight it says, by the writes it still owes
  (`JobFine`), what its locals are (`Saving`, `Removing`, `Linking`, `Inviting`,
  `Joining`, `Seated`, `Leaving`, `Through`). Every copy that may still be saved is a
  room whose request, if any, waits for the end (`settled`), so for `RequestsWait` it
  does not matter which copy is saved last. A copy that no other handler has
  overtaken is of the stored room and goes with it (`Fresh`, `Sound`): it has the
  room's players and takes back no result but the one that a request and its
  acceptance do. A write by one handler makes every other copy of that room stale,
  so that nothing has to be said of them. While a chat is being ended, each of its two
  users whose rooms have been removed is in no room but one that somebody else wrote
  since (`Gone`). `Lasting` is what every step then does to every room.
* `GamePlayProofs`: no handler looks at the stored room again before it saves, so
  everything said of an open room (`CopyFine`) is said of every copy a handler
  still has to save (`PlanFine`), and it does not matter who saves last. Of the
  rules, `WinIsSeen` is the one worth reading: a mark that makes a line anywhere
  makes one through itself, and `CheckWin` counts all of it. For words, `WordFine`
  adds to truthful displays that a secret once sent fits the settings, and that
  settings are open only while no secret is there. The only stored state in which
  nobody can move, both secrets sent and the game not begun, is one in which a
  handler still owes the save that begins it (`Both`), or a stop has cut that save
  off. `OneEnd` says, with updates apart, that a result either still waits to be
  written by the only handler in flight or has closed the room, unless a stop cut
  the write off. `Chain` orders what
  the handlers still owe: with updates apart each copy to be saved carries all
  that is stored (`Carries`), so saving it takes nothing back (`NothingUndone`).
* `Accounts`: neither `CoinsBacked` nor the others is inductive, for a save owed
  may write anything. `SaveFine` says of every save owed what makes it harmless:
  its copy accounts for its own coins and invitations, and differs from the row
  it was read from by exactly what the change gives and takes. `Newcomers` says
  that a newcomer whose referral is still to come has been counted for nobody and
  is the newcomer of one handler only; it keeps two creations from two rewards.
* `ConversationProofs`: between a user's updates the notes agree with the screen
  (`Settled`). Within an update they do not, and what is invariant is that the
  calls the handler still owes lead from what is stored by now to notes that agree
  again (`Owing`, which names every list of calls by its shape). Another user's
  start or end of a game or chat and an expiring key come in between; `Undisturbed` says what they may
  change, and that neither `Settled` nor `Owing` is lost by it. With `~Overlap`
  one job belongs to a user (`Apart`), which is what the three theorems need.
* `TypeCorrect` of `Conversation`: the calls a handler owes are a sequence of typed calls,
  those of a user and those of an administrator apart; no job is assumed to be the
  only one of its user.
* `NothingLost`: `PassInv` says that what a pass has read of a user is that user's
  last activity unless the user was active since, and that it is in the table
  unless it is still to be written, was overwritten by a save or failed to be
  written.
* `NobodySkipped`: `WalkInv` says that a quiet user who was not shown has at least
  a page of rows before them for every page turned. `PlaceInList` gives the place
  of a user in any list the order allows, `PageShows` that a page shows who has
  their place on it, and `AheadGrows` that in a steady list the rows before a
  quiet user only grow.

Only model-checked: everything under fairness (liveness and `ENABLED` are outside
what the prover does), and the disagreements the `violation` runs show.

## 5. Not modelled

Texts, keyboards, logging, the building of SQL text, configuration, statistics
and broadcasts. Message delivery: a message that cannot be sent changes no state
except for `StartRoom`, which panics on it. Latitude and longitude are collected
but `isCompatible` does not read them; in `Search` who is near whom is fixed.
The Recovery middleware turns a panic into an abandoned handler: the model ends
the handler's plan where the code would panic. In `Conversation` calls do not
fail and the process does not stop between two calls (`Matching` and `Accounts`
have both). In `Presence` the calls of handlers do not fail, and keys do not reach
the end of their seven days. The button for users who take no chats has the filter of the
plain search and is left out of the instance; "next" can always be pressed in
the model, while the code offers it only under a full page.

`internal/matching` (the in-memory queue), the read-through cache, the cache
layer, the connection pool and the shutdown hooks are not modelled: `cmd/bot`
constructs none of them, so no state of the program that runs depends on them.

## 6. Plan

1. done: `Compat`, `Matching`, `SearchContract`; `GameRooms`; `Dooz`, `WordGuess`,
   `GamePlay`.
2. done: `Accounts`, `Conversation`, `Presence`, `Search`, and the theorems about
   them and about `GamePlay`.
3. done: the invariants of `Matching` with a user's updates apart, the step
   simulation of `SearchContract`, the properties of `GameRooms` with handlers of
   one room overlapping, `NothingTakenBack` of `GamePlay`.
4. Failing calls and a restart in `Conversation`; a third friend at one link in a
   run of `GameRooms`.
