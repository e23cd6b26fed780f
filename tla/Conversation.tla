---------------------------- MODULE Conversation ----------------------------
(***************************************************************************)
(* What a user types, and what it is taken for.  The bot asks questions,   *)
(* notes in Redis which one it asked (user_state, with dm_target and       *)
(* contact_pending beside it) and routes the next text, photo or location  *)
(* by that note: to the profile, to another user, to the contact list, to  *)
(* a pending admin command or to the chat partner.  A handler reads, and   *)
(* then makes the calls it owes one at a time, so that other users'        *)
(* handlers, game starts and expiring keys come between them.              *)
(***************************************************************************)
EXTENDS Integers, Sequences, FiniteSets

CONSTANTS
    Users,          \* telegram ids, all registered
    Admins,         \* ADMIN_IDS
    Handlers,       \* goroutines that may be in a handler at once
    None,
    Commands,       \* admin commands
    Payloads,       \* what may be sent with one
    Beginning,      \* the profile each user starts with
    MaxUpdates,     \* bound: updates
    Overlap         \* two updates of one user may be handled at once

VARIABLES
    state,          \* user:state of each user, kept without expiry
    dmTarget,       \* dm:target, 30 minutes
    pending,        \* contact_pending, 2 minutes
    profile,        \* the row: which fields are filled, and ProfileState
    contacts, blocks,   \* tables of pairs of users
    silent,         \* users whose SilentUntil is ahead
    chat,           \* the partner named by chat:active:<user>
    requests,       \* chat requests whose Accept button exists
    adminPending,   \* in memory: the command an admin is preparing
    job,            \* what each goroutine is doing
    \* what the screens show, which the program does not keep
    open,           \* the last question asked for and not answered, cancelled or withdrawn
    taken,          \* users whose note a game or the end of a game or chat has overwritten
    shown,          \* the operation of the last confirmation an admin was shown
    updates

vars == <<state, dmTarget, pending, profile, contacts, blocks, silent, chat,
          requests, adminPending, job, open, taken, shown, updates>>
stored == <<state, dmTarget, pending, profile, contacts, blocks, silent, chat,
            requests, adminPending>>

(***************************************************************************)
(* Profiles                                                                *)
(***************************************************************************)
Required == {"gender", "age", "province"}
Optional == <<"name", "city", "photo", "gps">>
Fields == Required \cup {Optional[i] : i \in 1..4}
Stages == {"need_gender", "need_age", "need_province", "complete"}
Profile == [filled : SUBSET Fields, stage : Stages]

IsProfileComplete(p) == Required \subseteq p.filled

\* CompleteProfileField and UpdateOptionalField set the stage alike, whatever
\* the stage was.
UpdateField(p, f) ==
    [filled |-> p.filled \cup {f},
     stage |-> CASE f = "gender"   -> "need_age"
                 [] f = "age"      -> "need_province"
                 [] f = "province" -> "complete"
                 [] OTHER          -> p.stage]

(***************************************************************************)
(* Questions                                                               *)
(***************************************************************************)
\* The field a text, a photo or a location is taken for in a user state.
Completing == [completing_age |-> "age", completing_province |-> "province"]
OptionalStates == <<"optional_name", "optional_city", "optional_photo", "optional_gps">>
Filling == [optional_name |-> "name", optional_city |-> "city"]
Editing == [editing_name |-> "name", editing_age |-> "age", editing_gender |-> "gender",
            editing_city |-> "city", editing_province |-> "province"]
PhotoStates == {"optional_photo", "editing_photo"}
GPSStates == {"optional_gps", "editing_gps"}

Questions == DOMAIN Completing \cup DOMAIN Filling \cup DOMAIN Editing
             \cup PhotoStates \cup GPSStates \cup {"sending_dm", "add_contact_label"}
States == Questions \cup {"in_game", None}

\* A question on a screen, and the user it is about, if any.
Asked == [q : Questions, who : Users \cup {None}]

\* None is a model value: no user, question, payload or operation.
ASSUME ConversationAssumption ==
    /\ Admins \subseteq Users
    /\ None \notin Users \cup Questions \cup {"in_game"}
    /\ None \notin Payloads /\ None \notin [command : Commands, payload : Payloads \cup {None}]
    /\ None \notin Asked
    /\ Beginning \in [Users -> Profile]
    /\ MaxUpdates \in Nat /\ Overlap \in BOOLEAN

(***************************************************************************)
(* Calls a handler owes.  In answers and prompts, q is the question and    *)
(* who the user it concerns.                                               *)
(***************************************************************************)
Call(op, q, who) == [op |-> op, q |-> q, who |-> who]
SetUserState(q) == Call("state", q, None)
ClearUserState == SetUserState(None)
Prompt(q, who) == Call("prompt", q, who)
Close == Call("close", None, None)
SaveField(q, f) == Call("save", q, f)

Idle == [by |-> None, read |-> None, calls |-> << >>]

\* The rate limiter keeps two updates of one user apart unless a handler takes
\* longer than it expects.
MayStart(h, u) ==
    /\ updates < MaxUpdates
    /\ job[h] = Idle
    /\ Overlap \/ \A g \in Handlers : job[g].by # u

\* The handler of u has read what it needs and owes these calls.
Owes(h, u, calls) ==
    job' = [job EXCEPT ![h] = IF calls = << >> THEN Idle
                              ELSE [by |-> u, read |-> None, calls |-> calls]]

Press(h, u, calls) ==
    /\ MayStart(h, u) /\ updates' = updates + 1
    /\ Owes(h, u, calls)
    /\ UNCHANGED <<stored, open, taken, shown>>

Init ==
    /\ state = [u \in Users |-> None]
    /\ dmTarget = [u \in Users |-> None] /\ pending = [u \in Users |-> None]
    /\ profile = Beginning
    /\ contacts = {} /\ blocks = {} /\ silent = {} /\ requests = {}
    /\ chat = [u \in Users |-> None]
    /\ adminPending = [a \in Admins |-> None]
    /\ job = [h \in Handlers |-> Idle]
    /\ open = [u \in Users |-> None] /\ taken = {} /\ shown = [a \in Admins |-> None]
    /\ updates = 0

(***************************************************************************)
(* Registration                                                            *)
(***************************************************************************)
\* Gender is asked with buttons, and user_state is left as it is.
askNextProfileQuestion(stage) ==
    CASE stage = "need_gender"   -> << >>
      [] stage = "need_age"      -> <<SetUserState("completing_age"), Prompt("completing_age", None)>>
      [] stage = "need_province" -> <<SetUserState("completing_province"),
                                      Prompt("completing_province", None)>>
      [] stage = "complete"      -> <<ClearUserState, Close>>

\* /start looks at the fields, and asks by the stage.
StartHandler(h, u) ==
    Press(h, u, IF IsProfileComplete(profile[u]) THEN <<ClearUserState, Close>>
                ELSE askNextProfileQuestion(profile[u].stage))

HandleGenderCallback(h, u) ==
    Press(h, u, <<SaveField(None, "gender")>> \o askNextProfileQuestion("need_age"))

handleProfileCompletion(p, q) ==
    LET f == Completing[q] IN
    <<SaveField(q, f)>> \o askNextProfileQuestion(UpdateField(p, f).stage)

\* The first field that is missing, in their order.
askNextOptionalField(filled) ==
    LET missing == {i \in 1..4 : Optional[i] \notin filled}
        q == OptionalStates[CHOOSE i \in missing : \A j \in missing : i <= j] IN
    IF missing = {} THEN <<ClearUserState, Close>>
    ELSE <<SetUserState(q), Prompt(q, None)>>

StartOptionalHandler(h, u) == Press(h, u, askNextOptionalField(profile[u].filled))

handleOptionalField(p, q) ==
    <<SaveField(q, Filling[q])>> \o askNextOptionalField(UpdateField(p, Filling[q]).filled)

(***************************************************************************)
(* Profile edits                                                           *)
(***************************************************************************)
\* EditNameHandler and its like, of every field that is typed or sent.
EditHandler(h, u, q) ==
    /\ q \in (DOMAIN Editing \cup {"editing_photo", "editing_gps"}) \ {"editing_gender"}
    /\ Press(h, u, <<SetUserState(q), Prompt(q, None)>>)

\* Mutant: a state TextHandler has no case for.
EditGenderUnrouted(h, u) == Press(h, u, <<SetUserState("gender"), Close>>)

\* Gender is asked with buttons, in place of the question asked before.
EditGenderHandler(h, u) == Press(h, u, <<SetUserState("editing_gender"), Close>>)

\* The answer of the gender buttons; user_state stays.
SetGenderHandler(h, u) == Press(h, u, <<SaveField(None, "gender")>>)

\* Mutant: the state is cleared before the answer is validated.
HandleEditEarly(q, f, fits) ==
    IF fits THEN <<SaveField(q, f), ClearUserState, Close>> ELSE <<ClearUserState>>

\* HandleEditText, HandleEditPhoto, HandleEditGPS: an answer that does not fit
\* is refused with a message, and the question stays.
HandleEdit(q, f, fits) ==
    IF fits THEN <<SaveField(q, f), ClearUserState, Close>> ELSE << >>

\* Mutant: the message says cancelled, the state stays.
CancelOnScreen == <<Close>>

Cancel == <<ClearUserState, Close>>

CancelHandler(h, u) == Press(h, u, Cancel)

(***************************************************************************)
(* Other users: direct messages, contacts, blocks, silence, chats          *)
(***************************************************************************)
DMHandler(h, u, v) ==
    /\ v # u
    /\ Press(h, u, <<SetUserState("sending_dm"), Call("target", None, v), Prompt("sending_dm", v)>>)

\* handleDMMessage, once it has read the target.
handleDMMessage(u) ==
    IF dmTarget[u] = None THEN <<ClearUserState, Close>>
    ELSE <<Call("dm", "sending_dm", dmTarget[u]), ClearUserState, Call("target", None, None), Close>>

AddContactHandler(h, u, v) ==
    /\ v # u
    /\ Press(h, u, <<Call("contact", None, v), SetUserState("add_contact_label"),
                     Prompt("add_contact_label", v)>>)

\* HandleAddContactLabel, once it has read the pending contact.
HandleAddContactLabel(u) ==
    IF pending[u] = None THEN <<ClearUserState, Close>>
    ELSE <<Call("label", "add_contact_label", pending[u]), ClearUserState,
           Call("contact", None, None), Close>>

\* The second read of those two.
ReadTarget(h) ==
    /\ job[h].read \in {"sending_dm", "add_contact_label"}
    /\ Owes(h, job[h].by, IF job[h].read = "sending_dm" THEN handleDMMessage(job[h].by)
                          ELSE HandleAddContactLabel(job[h].by))
    /\ UNCHANGED <<stored, open, taken, shown, updates>>

RemoveContactHandler(h, u, v) == <<u, v>> \in contacts /\ Press(h, u, <<Call("uncontact", None, v)>>)

DeleteAllContactsHandler(h, u) == Press(h, u, <<Call("uncontact", None, None)>>)

BlockHandler(h, u, v) == v # u /\ Press(h, u, <<Call("block", None, v)>>)

UnblockHandler(h, u, v) == <<u, v>> \in blocks /\ Press(h, u, <<Call("unblock", None, v)>>)

DeleteAllBlocksHandler(h, u) == Press(h, u, <<Call("unblock", None, None)>>)

setSilent(h, u) == Press(h, u, <<Call(IF u \in silent THEN "loud" ELSE "silent", None, None)>>)

\* The target is asked whether it is silent, not whom it has blocked.
ChatRequestHandler(h, u, v) ==
    /\ v # u
    /\ Press(h, u, IF v \in silent THEN << >> ELSE <<Call("request", None, v)>>)

AcceptChatHandler(h, u, v) ==
    /\ <<v, u>> \in requests
    /\ Press(h, u, <<Call("chat", None, v)>>)

(***************************************************************************)
(* Administration                                                          *)
(***************************************************************************)
Operation == [command : Commands, payload : Payloads \cup {None}]
AwaitingConfirmation(op) == op.payload # None

\* A command with a payload goes straight to the confirmation.
beginAdminAction(h, a, c, p) ==
    LET op == [command |-> c, payload |-> p] IN
    Press(h, a, IF AwaitingConfirmation(op)
                THEN <<Call("adminSet", None, op), Call("confirm", None, op)>>
                ELSE <<Call("adminSet", None, op)>>)

\* The text that was asked for completes the command.
handleAdminTextInput(op, p) ==
    LET ready == [op EXCEPT !.payload = p] IN
    <<Call("adminSet", None, ready), Call("confirm", None, ready)>>

AdminCancelCallback(h, a) == Press(h, a, <<Call("adminSet", None, None), Call("confirm", None, None)>>)

\* Mutant: the pending operation is not cleared.
ConfirmKeeps(op) == <<Call("execute", None, op)>>

Confirm(op) == <<Call("adminSet", None, None), Call("execute", None, op)>>

AdminConfirmCallback(h, a) ==
    /\ adminPending[a] # None
    /\ AwaitingConfirmation(adminPending[a])
    /\ Press(h, a, Confirm(adminPending[a]))

(***************************************************************************)
(* Routing of what a user sends                                            *)
(***************************************************************************)
\* An admin's pending command comes first; a text sent while it awaits
\* confirmation, or one that does not fit it, changes nothing.
TextToAdmin(h, u, p) ==
    /\ u \in Admins /\ adminPending[u] # None
    /\ Press(h, u, IF AwaitingConfirmation(adminPending[u]) THEN << >>
                   ELSE handleAdminTextInput(adminPending[u], p))

\* Then the state is looked at; which rule the field has is left to `fits`.
TextAnswer(h, u, fits) ==
    LET q == state[u] IN
    /\ u \in Admins => adminPending[u] = None
    /\ \/ /\ q \in DOMAIN Completing
          /\ Press(h, u, IF fits THEN handleProfileCompletion(profile[u], q) ELSE << >>)
       \/ /\ q \in DOMAIN Filling
          /\ Press(h, u, IF fits THEN handleOptionalField(profile[u], q) ELSE << >>)
       \/ /\ q \in DOMAIN Editing
          /\ Press(h, u, HandleEdit(q, Editing[q], fits))

TextForOther(h, u) ==
    /\ u \in Admins => adminPending[u] = None
    /\ state[u] \in {"sending_dm", "add_contact_label"}
    /\ MayStart(h, u) /\ updates' = updates + 1
    /\ job' = [job EXCEPT ![h] = [by |-> u, read |-> state[u], calls |-> << >>]]
    /\ UNCHANGED <<stored, open, taken, shown>>

\* Any other state leaves the text to the chat, after the game and before the
\* menu, which change nothing here.
TextToPartner(h, u) ==
    /\ u \in Admins => adminPending[u] = None
    /\ state[u] \in PhotoStates \cup GPSStates \cup {"in_game", None}
    /\ chat[u] # None
    /\ Press(h, u, <<Call("forward", None, chat[u])>>)

MediaHandler(h, u, fits) ==
    \/ /\ state[u] \in PhotoStates
       /\ Press(h, u, HandleEdit(state[u], "photo", fits))
    \/ /\ state[u] \notin PhotoStates /\ chat[u] # None
       /\ Press(h, u, <<Call("forward", None, chat[u])>>)

LocationHandler(h, u) ==
    /\ state[u] \in GPSStates
    /\ Press(h, u, HandleEdit(state[u], "gps", TRUE))

\* A game that starts sets the state of both players (GameRooms has the rest).
StartGame(h, u, v) ==
    /\ v # u
    /\ Press(h, u, <<Call("inGame", None, u), Call("inGame", None, v)>>)

\* Whoever ends a game, by the last move, by leaving or cancelling, clears the
\* state of both players, whatever the other one is being asked.
EndGame(h, u, v) ==
    /\ v # u
    /\ \/ Press(h, u, <<Call("outOfGame", None, u), Call("outOfGame", None, v)>>)
       \/ Press(h, u, <<Call("outOfGame", None, v), Call("outOfGame", None, u)>>)

\* The partner is the one read first.
ConfirmEndChatHandler(h, u) ==
    /\ chat[u] # None
    /\ Press(h, u, <<Call("endChat", None, None), Call("outOfGame", None, u),
                     Call("outOfGame", None, chat[u])>>)

(***************************************************************************)
(* The calls, one at a time                                                *)
(***************************************************************************)
owed(h, op) == job[h].calls # << >> /\ Head(job[h].calls).op = op
arg(h) == Head(job[h].calls)
Called(h) == Owes(h, job[h].by, Tail(job[h].calls)) /\ UNCHANGED updates

WriteState(h) ==
    LET u == job[h].by IN
    /\ \/ /\ owed(h, "state")
          /\ state' = [state EXCEPT ![u] = arg(h).q] /\ taken' = taken \ {u}
       \/ /\ owed(h, "inGame") \/ owed(h, "outOfGame")
          /\ state' = [state EXCEPT ![arg(h).who] = IF owed(h, "inGame") THEN "in_game" ELSE None]
          /\ taken' = taken \cup {arg(h).who}
    /\ Called(h)
    /\ UNCHANGED <<dmTarget, pending, profile, contacts, blocks, silent, chat, requests,
                   adminPending, open, shown>>

WriteTarget(h) ==
    LET u == job[h].by IN
    /\ \/ owed(h, "target") /\ dmTarget' = [dmTarget EXCEPT ![u] = arg(h).who] /\ UNCHANGED pending
       \/ owed(h, "contact") /\ pending' = [pending EXCEPT ![u] = arg(h).who] /\ UNCHANGED dmTarget
    /\ Called(h)
    /\ UNCHANGED <<state, profile, contacts, blocks, silent, chat, requests, adminPending, open, taken, shown>>

\* Update: the profile the handler read, with its field (Accounts has what the
\* save does to other columns).
Save(h) ==
    LET u == job[h].by IN
    /\ owed(h, "save")
    /\ profile' = [profile EXCEPT ![u] = UpdateField(@, arg(h).who)]
    /\ Called(h)
    /\ UNCHANGED <<state, dmTarget, pending, contacts, blocks, silent, chat, requests,
                   adminPending, open, taken, shown>>

\* What the user sees: a question, or that it is over.
Show(h) ==
    LET u == job[h].by IN
    /\ \/ owed(h, "prompt") /\ open' = [open EXCEPT ![u] = [q |-> arg(h).q, who |-> arg(h).who]]
                            /\ UNCHANGED shown
       \/ owed(h, "close") /\ open' = [open EXCEPT ![u] = None] /\ UNCHANGED shown
       \/ owed(h, "confirm") /\ shown' = [shown EXCEPT ![u] = arg(h).who] /\ UNCHANGED open
    /\ Called(h)
    /\ UNCHANGED <<stored, taken>>

\* A message to another user: a direct message, a forwarded one, a request.
Send(h) ==
    LET u == job[h].by IN
    /\ \/ (owed(h, "dm") \/ owed(h, "forward")) /\ UNCHANGED requests
       \/ owed(h, "request") /\ requests' = requests \cup {<<u, arg(h).who>>}
    /\ Called(h)
    /\ UNCHANGED <<state, dmTarget, pending, profile, contacts, blocks, silent, chat,
                   adminPending, open, taken, shown>>

pairsOf(u, who) == {<<u, v>> : v \in IF who = None THEN Users ELSE {who}}

\* AddContact: the unique index refuses a second row, and the handler returns.
WriteContacts(h) ==
    LET u == job[h].by
        pair == <<u, arg(h).who>> IN
    /\ \/ /\ owed(h, "label") /\ pair \notin contacts
          /\ contacts' = contacts \cup {pair} /\ Called(h)
       \/ /\ owed(h, "label") /\ pair \in contacts
          /\ Owes(h, u, << >>) /\ UNCHANGED <<contacts, updates>>
       \/ /\ owed(h, "uncontact")
          /\ contacts' = contacts \ pairsOf(u, arg(h).who) /\ Called(h)
    /\ UNCHANGED <<state, dmTarget, pending, profile, blocks, silent, chat, requests,
                   adminPending, open, taken, shown>>

WriteBlocks(h) ==
    LET u == job[h].by IN
    /\ \/ owed(h, "block") /\ blocks' = blocks \cup pairsOf(u, arg(h).who)
       \/ owed(h, "unblock") /\ blocks' = blocks \ pairsOf(u, arg(h).who)
    /\ Called(h)
    /\ UNCHANGED <<state, dmTarget, pending, profile, contacts, silent, chat, requests,
                   adminPending, open, taken, shown>>

WriteSilence(h) ==
    LET u == job[h].by IN
    /\ \/ owed(h, "silent") /\ silent' = silent \cup {u}
       \/ owed(h, "loud") /\ silent' = silent \ {u}
    /\ Called(h)
    /\ UNCHANGED <<state, dmTarget, pending, profile, contacts, blocks, chat, requests,
                   adminPending, open, taken, shown>>

\* SetActiveChat writes the keys of both, whatever they held; DeleteActiveChat
\* deletes those of the two users its own read finds in the session.
WriteChat(h) ==
    LET u == job[h].by
        v == arg(h).who IN
    /\ \/ owed(h, "chat") /\ chat' = [chat EXCEPT ![u] = v, ![v] = u]
       \/ owed(h, "endChat") /\ chat' = [w \in Users |-> IF w \in {u, chat[u]} THEN None ELSE chat[w]]
    /\ Called(h)
    /\ UNCHANGED <<state, dmTarget, pending, profile, contacts, blocks, silent, requests,
                   adminPending, open, taken, shown>>

WriteAdmin(h) ==
    LET a == job[h].by IN
    /\ \/ /\ owed(h, "adminSet")
          /\ adminPending' = [adminPending EXCEPT ![a] = arg(h).who] /\ UNCHANGED shown
       \/ /\ owed(h, "execute")
          /\ shown' = [shown EXCEPT ![a] = None] /\ UNCHANGED adminPending
    /\ Called(h)
    /\ UNCHANGED <<state, dmTarget, pending, profile, contacts, blocks, silent, chat,
                   requests, open, taken>>

MakeCall(h) ==
    \/ ReadTarget(h) \/ WriteState(h) \/ WriteTarget(h) \/ Save(h) \/ Show(h) \/ Send(h)
    \/ WriteContacts(h) \/ WriteBlocks(h) \/ WriteSilence(h) \/ WriteChat(h) \/ WriteAdmin(h)

\* Redis drops a key whose time is over.
KeyExpires(u) ==
    /\ \/ dmTarget[u] # None /\ dmTarget' = [dmTarget EXCEPT ![u] = None] /\ UNCHANGED pending
       \/ pending[u] # None /\ pending' = [pending EXCEPT ![u] = None] /\ UNCHANGED dmTarget
    /\ UNCHANGED <<state, profile, contacts, blocks, silent, chat, requests, adminPending,
                   job, open, taken, shown, updates>>

Update(h, u) ==
    \/ StartHandler(h, u) \/ HandleGenderCallback(h, u) \/ StartOptionalHandler(h, u)
    \/ \E q \in Questions : EditHandler(h, u, q)
    \/ EditGenderHandler(h, u) \/ SetGenderHandler(h, u) \/ CancelHandler(h, u) \/ setSilent(h, u)
    \/ DeleteAllContactsHandler(h, u) \/ DeleteAllBlocksHandler(h, u)
    \/ \E v \in Users :
          \/ DMHandler(h, u, v) \/ AddContactHandler(h, u, v) \/ RemoveContactHandler(h, u, v)
          \/ BlockHandler(h, u, v) \/ UnblockHandler(h, u, v)
          \/ ChatRequestHandler(h, u, v) \/ AcceptChatHandler(h, u, v)
          \/ StartGame(h, u, v) \/ EndGame(h, u, v)
    \/ ConfirmEndChatHandler(h, u)
    \/ \E fits \in BOOLEAN : TextAnswer(h, u, fits) \/ MediaHandler(h, u, fits)
    \/ TextForOther(h, u) \/ TextToPartner(h, u) \/ LocationHandler(h, u)

AdminUpdate(h, a) ==
    \/ \E c \in Commands, p \in Payloads \cup {None} : beginAdminAction(h, a, c, p)
    \/ \E p \in Payloads : TextToAdmin(h, a, p)
    \/ AdminCancelCallback(h, a) \/ AdminConfirmCallback(h, a)

Next ==
    \/ \E h \in Handlers :
          \/ MakeCall(h)
          \/ \E u \in Users : Update(h, u)
          \/ \E a \in Admins : AdminUpdate(h, a)
    \/ \E u \in Users : KeyExpires(u)

Spec == Init /\ [][Next]_vars

(***************************************************************************)
(* Properties                                                              *)
(***************************************************************************)
OwnCalls ==
    [op : {"state"}, q : States, who : {None}]
    \cup [op : {"prompt"}, q : Questions, who : Users \cup {None}]
    \cup [op : {"dm", "label"}, q : Questions, who : Users]
    \cup [op : {"request", "block", "chat", "forward", "inGame", "outOfGame"}, q : {None}, who : Users]
    \cup [op : {"target", "contact", "uncontact", "unblock", "silent", "loud", "close", "endChat"},
          q : {None}, who : Users \cup {None}]
    \cup [op : {"save"}, q : States, who : Fields]
CommandCalls == [op : {"adminSet", "confirm", "execute"}, q : {None}, who : Operation \cup {None}]

\* Every state is one TextHandler routes by or leaves to games and chats, and
\* every call a handler owes has the arguments it needs.
TypeOK ==
    /\ state \in [Users -> States]
    /\ dmTarget \in [Users -> Users \cup {None}] /\ pending \in [Users -> Users \cup {None}]
    /\ profile \in [Users -> Profile]
    /\ contacts \subseteq Users \X Users /\ blocks \subseteq Users \X Users
    /\ requests \subseteq Users \X Users
    /\ silent \subseteq Users
    /\ chat \in [Users -> Users \cup {None}]
    /\ adminPending \in [Admins -> Operation \cup {None}]
    /\ \A h \in Handlers : job[h] # Idle =>
          /\ job[h].by \in Users
          /\ job[h].read \in {"sending_dm", "add_contact_label", None}
          /\ \A i \in DOMAIN job[h].calls : LET c == job[h].calls[i] IN
                IF c.op \in {"adminSet", "confirm", "execute"} THEN c \in CommandCalls
                ELSE c \in OwnCalls
    /\ open \in [Users -> Asked \cup {None}] /\ taken \subseteq Users
    /\ shown \in [Admins -> Operation \cup {None}]
    /\ updates \in Nat

\* Whatever is stored or sent as an answer answers the question its sender saw
\* last, and concerns the user that question was about: nobody's profile gets a
\* text meant for somebody else, and no direct message goes to the target of an
\* earlier one (TextHandler, handleDMMessage, HandleAddContactLabel).  The
\* gender question is answered with buttons, and its state is left behind.
AnswerFitsQuestion ==
    \A h \in Handlers :
        LET u == job[h].by IN
        /\ owed(h, "save") /\ arg(h).q \notin {None, "editing_gender"} =>
              open[u] # None /\ open[u].q = arg(h).q
        /\ owed(h, "dm") \/ owed(h, "label") => open[u] = [q |-> arg(h).q, who |-> arg(h).who]

\* A question stays answerable until its user answers, cancels or starts anew:
\* after a refused answer, a save that failed or an expired target the note in
\* user_state still names it.  Only what writes the notes of two users at once
\* takes it away unseen: a game that starts, a game or a chat that ends.
QuestionStaysOpen ==
    \A u \in Users :
        open[u] # None /\ (\A h \in Handlers : job[h].by # u) =>
            state[u] = open[u].q \/ u \in taken

\* An admin operation runs once per confirmation its admin was shown, and is
\* the one shown last: not one cancelled, replaced or already run
\* (AdminConfirmCallback, handleAdminTextInput).
RunsWhatWasShown ==
    \A h \in Handlers : owed(h, "execute") => shown[job[h].by] = arg(h).who

\* A blocked user sends the one who blocked neither direct messages nor chat
\* requests (the message of BlockHandler).
BlockIsKept ==
    \A h \in Handlers : owed(h, "dm") \/ owed(h, "request") =>
        <<arg(h).who, job[h].by>> \notin blocks
=============================================================================
