-------------------------- MODULE ConversationProofs --------------------------
(***************************************************************************)
(* Theorems about Conversation, for any number of users, admins and        *)
(* handlers.  First type correctness, with or without overlapping updates: *)
(* every note is one the routing knows, and every call a handler ever owes *)
(* has the arguments it needs.                                             *)
(*                                                                         *)
(* Then notes and screens, while the rate limiter keeps two updates of one *)
(* user apart.  Between updates the notes agree with the screen; within    *)
(* one, the calls a handler still owes lead from what is stored by now to  *)
(* notes that agree again.  Other users' handlers disturb this by starting *)
(* games and Redis by dropping keys, neither of which makes a note name    *)
(* another question.                                                       *)
(***************************************************************************)
EXTENDS Conversation, TLAPS, SequenceTheorems

AnyCall == OwnCalls \cup CommandCalls

TypedJob(j) ==
    \/ j = Idle
    \/ /\ j.by \in Users /\ j.read \in {"sending_dm", "add_contact_label", None}
       /\ j.calls \in Seq(AnyCall)

Notes ==
    /\ state \in [Users -> States]
    /\ dmTarget \in [Users -> Users \cup {None}] /\ pending \in [Users -> Users \cup {None}]
    /\ chat \in [Users -> Users \cup {None}]
    /\ adminPending \in [Admins -> Operation \cup {None}]
Tables ==
    /\ profile \in [Users -> Profile]
    /\ contacts \subseteq Users \X Users /\ blocks \subseteq Users \X Users
    /\ requests \subseteq Users \X Users
    /\ silent \subseteq Users
Screens ==
    /\ open \in [Users -> Asked \cup {None}] /\ taken \subseteq Users
    /\ shown \in [Admins -> Operation \cup {None}]
    /\ updates \in Nat

\* A list of typed calls stays one as calls are taken from it: TypeOK speaks of
\* its elements only.
TInv ==
    /\ Notes /\ Tables /\ Screens
    /\ job = [h \in Handlers |-> job[h]] /\ \A h \in Handlers : TypedJob(job[h])

(***************************************************************************)
(* Lists of calls                                                          *)
(***************************************************************************)
LEMMA Short ==
  ASSUME NEW S
  PROVE  /\ << >> \in Seq(S)
         /\ \A a \in S : <<a>> \in Seq(S)
         /\ \A a, b \in S : <<a, b>> \in Seq(S)
         /\ \A a, b, c \in S : <<a, b, c>> \in Seq(S)
         /\ \A a, b, c, d \in S : <<a, b, c, d>> \in Seq(S)
  OBVIOUS

LEMMA Rest ==
  ASSUME NEW S, NEW c \in Seq(S), c # << >>
  PROVE  Head(c) \in S /\ Tail(c) \in Seq(S)
  BY HeadTailProperties

\* What the questions are.
LEMMA Known ==
  /\ None \in States /\ Questions \subseteq States
  /\ {"sending_dm", "add_contact_label", "editing_gender", "editing_photo", "editing_gps"} \subseteq Questions
  /\ {"completing_age", "completing_province"} \subseteq Questions
  /\ {"optional_name", "optional_city", "optional_photo", "optional_gps"} \subseteq Questions
  /\ DOMAIN Completing \subseteq Questions /\ DOMAIN Filling \subseteq Questions
  /\ DOMAIN Editing \subseteq Questions
  /\ PhotoStates \subseteq Questions /\ GPSStates \subseteq Questions
  BY DEF States, Questions, Completing, Filling, Editing, PhotoStates, GPSStates

LEMMA KnownFields ==
  /\ {"gender", "age", "province", "name", "city", "photo", "gps"} \subseteq Fields
  /\ \A q \in DOMAIN Completing : Completing[q] \in Fields
  /\ \A q \in DOMAIN Filling : Filling[q] \in Fields
  /\ \A q \in DOMAIN Editing : Editing[q] \in Fields
<1>1. {"gender", "age", "province", "name", "city", "photo", "gps"} \subseteq Fields
  <2>1. {"name", "city", "photo", "gps"} \subseteq {Optional[i] : i \in 1..4}
    <3>1. Optional[1] = "name" /\ Optional[2] = "city" /\ Optional[3] = "photo" /\ Optional[4] = "gps"
      BY DEF Optional
    <3> QED
      BY <3>1
  <2> QED
    BY <2>1 DEF Fields, Required
<1> QED
  BY <1>1 DEF Completing, Filling, Editing

LEMMA TypedLists ==
  /\ \A q \in States : SetUserState(q) \in AnyCall
  /\ ClearUserState \in AnyCall /\ Close \in AnyCall
  /\ \A q \in Questions, w \in Users \cup {None} : Prompt(q, w) \in AnyCall
  /\ \A op \in {"dm", "label"}, q \in Questions, w \in Users : Call(op, q, w) \in AnyCall
  /\ \A op \in {"request", "block", "chat", "forward", "inGame", "outOfGame"}, w \in Users :
        Call(op, None, w) \in AnyCall
  /\ \A op \in {"target", "contact", "uncontact", "unblock", "silent", "loud", "close", "endChat"},
        w \in Users \cup {None} : Call(op, None, w) \in AnyCall
  /\ \A q \in States, f \in Fields : SaveField(q, f) \in AnyCall
  /\ \A op \in {"adminSet", "confirm", "execute"}, w \in Operation \cup {None} :
        Call(op, None, w) \in AnyCall
<1> USE Known DEF AnyCall, OwnCalls, CommandCalls, Call
<1>1. \A q \in States : SetUserState(q) \in AnyCall
  BY DEF SetUserState
<1>2. ClearUserState \in AnyCall /\ Close \in AnyCall
  BY <1>1 DEF ClearUserState, Close
<1>3. \A q \in Questions, w \in Users \cup {None} : Prompt(q, w) \in AnyCall
  BY DEF Prompt
<1>4. \A q \in States, f \in Fields : SaveField(q, f) \in AnyCall
  BY DEF SaveField
<1>5. \A op \in {"dm", "label"}, q \in Questions, w \in Users : Call(op, q, w) \in AnyCall
  OBVIOUS
<1>6. \A op \in {"request", "block", "chat", "forward", "inGame", "outOfGame"}, w \in Users :
        Call(op, None, w) \in AnyCall
  OBVIOUS
<1>7. \A op \in {"target", "contact", "uncontact", "unblock", "silent", "loud", "close", "endChat"},
        w \in Users \cup {None} : Call(op, None, w) \in AnyCall
  OBVIOUS
<1>8. \A op \in {"adminSet", "confirm", "execute"}, w \in Operation \cup {None} :
        Call(op, None, w) \in AnyCall
  OBVIOUS
<1> HIDE Known DEF AnyCall, OwnCalls, CommandCalls, Call
<1> QED
  BY <1>1, <1>2, <1>3, <1>4, <1>5, <1>6, <1>7, <1>8

CallLists == Seq(AnyCall)

LEMMA AskingLists ==
  /\ \A stage \in Stages : askNextProfileQuestion(stage) \in CallLists
  /\ \A filled : askNextOptionalField(filled) \in CallLists
  /\ \A q \in Questions, w \in Users \cup {None} : <<SetUserState(q), Prompt(q, w)>> \in CallLists
  /\ <<ClearUserState, Close>> \in CallLists
<1>1. \A q \in Questions, w \in Users \cup {None} : <<SetUserState(q), Prompt(q, w)>> \in CallLists
  BY TypedLists, Known, Short DEF CallLists
<1>2. <<ClearUserState, Close>> \in CallLists
  BY TypedLists, Short DEF CallLists
<1>3. \A stage \in Stages : askNextProfileQuestion(stage) \in CallLists
  <2> TAKE stage \in Stages
  <2>1. CASE stage = "need_gender"
    BY <2>1, Short DEF askNextProfileQuestion, CallLists
  <2>2. CASE stage = "need_age"
    BY <1>1, <2>2, Known DEF askNextProfileQuestion
  <2>3. CASE stage = "need_province"
    BY <1>1, <2>3, Known DEF askNextProfileQuestion
  <2>4. CASE stage = "complete"
    BY <1>2, <2>4 DEF askNextProfileQuestion
  <2> QED
    BY <2>1, <2>2, <2>3, <2>4 DEF Stages
<1>4. \A filled : askNextOptionalField(filled) \in CallLists
  <2> TAKE filled
  <2> DEFINE missing == {i \in 1..4 : Optional[i] \notin filled}
             first == CHOOSE i \in missing : \A j \in missing : i <= j
  <2>1. CASE missing = {}
    BY <1>2, <2>1 DEF askNextOptionalField
  <2>2. CASE missing # {}
    <3>1. \E i \in missing : \A j \in missing : i <= j
      <4>1. missing \subseteq 1..4
        OBVIOUS
      <4> HIDE DEF missing
      <4>2. CASE 1 \in missing
        BY <4>1, <4>2
      <4>3. CASE 1 \notin missing /\ 2 \in missing
        BY <4>1, <4>3
      <4>4. CASE 1 \notin missing /\ 2 \notin missing /\ 3 \in missing
        BY <4>1, <4>4
      <4>5. CASE 1 \notin missing /\ 2 \notin missing /\ 3 \notin missing
        <5>1. \A i \in missing : i = 4
          BY <4>1, <4>5
        <5> QED
          BY <2>2, <5>1
      <4> QED
        BY <4>2, <4>3, <4>4, <4>5
    <3>2. first \in 1..4
      <4>1. first \in missing
        BY <3>1
      <4> QED
        BY <4>1
    <3>3. OptionalStates[first] \in Questions
      <4> HIDE DEF first
      <4>1. first = 1 \/ first = 2 \/ first = 3 \/ first = 4
        BY <3>2
      <4>2. OptionalStates[first] \in {"optional_name", "optional_city", "optional_photo", "optional_gps"}
        BY <4>1 DEF OptionalStates
      <4> QED
        BY <4>2, Known
    <3>4. askNextOptionalField(filled)
            = <<SetUserState(OptionalStates[first]), Prompt(OptionalStates[first], None)>>
      BY <2>2 DEF askNextOptionalField
    <3> HIDE DEF first
    <3> QED
      BY <1>1, <3>3, <3>4
  <2> QED
    BY <2>1, <2>2
<1> QED
  BY <1>1, <1>2, <1>3, <1>4

\* The save of a field, and what is asked after it.
LEMMA SavingLists ==
  ASSUME NEW q \in States, NEW f \in Fields, NEW d \in CallLists
  PROVE  <<SaveField(q, f)>> \o d \in CallLists
<1>1. <<SaveField(q, f)>> \in CallLists
  BY TypedLists, Short DEF CallLists
<1> QED
  BY <1>1, ConcatProperties DEF CallLists

LEMMA EditingLists ==
  ASSUME NEW q \in States, NEW f \in Fields, NEW fits
  PROVE  HandleEdit(q, f, fits) \in CallLists
  BY TypedLists, Short DEF HandleEdit, CallLists

LEMMA StageKept ==
  ASSUME NEW p \in Profile, NEW f \in Fields
  PROVE  UpdateField(p, f) \in Profile /\ UpdateField(p, f).stage \in Stages
  BY DEF Profile, UpdateField, Stages

(***************************************************************************)
(* A handler that begins, and one that goes on                             *)
(***************************************************************************)
LEMMA OwesTyped ==
  ASSUME TInv, NEW h \in Handlers, NEW u \in Users, NEW c \in CallLists, Owes(h, u, c)
  PROVE  job' = [g \in Handlers |-> job'[g]] /\ \A g \in Handlers : TypedJob(job[g])'
<1>1. \A g \in Handlers : job'[g] \in {job[g], Idle, [by |-> u, read |-> None, calls |-> c]}
  BY DEF TInv, Owes
<1>2. TypedJob(Idle) /\ TypedJob([by |-> u, read |-> None, calls |-> c])
  BY DEF TypedJob, CallLists
<1>3. \A g \in Handlers : TypedJob(job[g])
  BY DEF TInv
<1>4. \A g \in Handlers : TypedJob(job[g])'
  BY <1>1, <1>2, <1>3 DEF TypedJob
<1>5. job' = [g \in Handlers |-> job'[g]]
  BY DEF TInv, Owes
<1> QED
  BY <1>4, <1>5

LEMMA PressTyped ==
  ASSUME TInv, NEW h \in Handlers, NEW u \in Users, NEW c \in CallLists, Press(h, u, c)
  PROVE  TInv'
<1>1. job' = [g \in Handlers |-> job'[g]] /\ \A g \in Handlers : TypedJob(job[g])'
  BY OwesTyped DEF Press
<1>2. Notes' /\ Tables' /\ Screens'
  BY DEF TInv, Press, stored, Notes, Tables, Screens
<1> QED
  BY <1>1, <1>2 DEF TInv

\* What a handler that has a call to make is doing.
LEMMA BusyTyped ==
  ASSUME TInv, NEW h \in Handlers, job[h].calls # << >>
  PROVE  job[h].by \in Users /\ job[h].calls \in CallLists
         /\ arg(h) \in AnyCall /\ Tail(job[h].calls) \in CallLists
<1>1. job[h].by \in Users /\ job[h].calls \in CallLists
  BY DEF TInv, TypedJob, Idle, CallLists
<1> QED
  BY <1>1, Rest DEF arg, CallLists

\* The argument of a call goes with its op.
LEMMA Arguments ==
  ASSUME NEW c \in AnyCall
  PROVE  /\ c.op = "state" => c.q \in States
         /\ c.op = "prompt" => c.q \in Questions /\ c.who \in Users \cup {None}
         /\ c.op \in {"target", "contact"} => c.who \in Users \cup {None}
         /\ c.op \in {"label", "request", "chat", "block", "inGame", "outOfGame"} => c.who \in Users
         /\ c.op = "save" => c.who \in Fields
         /\ c.op \in {"adminSet", "confirm"} => c.who \in Operation \cup {None}
  BY DEF AnyCall, OwnCalls, CommandCalls

LEMMA CallTyped ==
  ASSUME TInv, NEW h \in Handlers, job[h].calls # << >>, Called(h), Notes', Tables', Screens'
  PROVE  TInv'
<1>1. PICK u \in Users, c \in CallLists : u = job[h].by /\ c = Tail(job[h].calls)
  BY BusyTyped
<1>2. Owes(h, u, c)
  BY <1>1 DEF Called
<1> QED
  BY <1>2, OwesTyped DEF TInv

(***************************************************************************)
(* Each handler                                                            *)
(***************************************************************************)
LEMMA ProfileTyped ==
  ASSUME TInv, NEW h \in Handlers, NEW u \in Users,
         \/ StartHandler(h, u) \/ HandleGenderCallback(h, u) \/ StartOptionalHandler(h, u)
         \/ \E q \in Questions : EditHandler(h, u, q)
         \/ EditGenderHandler(h, u) \/ SetGenderHandler(h, u) \/ CancelHandler(h, u)
  PROVE  TInv'
<1>1. CASE StartHandler(h, u)
  <2>1. profile[u].stage \in Stages
    BY DEF TInv, Tables, Profile
  <2> QED
    BY <1>1, <2>1, AskingLists, PressTyped DEF StartHandler
<1>2. CASE HandleGenderCallback(h, u)
  <2>1. askNextProfileQuestion("need_age") \in CallLists
    BY AskingLists DEF Stages
  <2>2. <<SaveField(None, "gender")>> \o askNextProfileQuestion("need_age") \in CallLists
    BY <2>1, SavingLists, Known, KnownFields
  <2> QED
    BY <1>2, <2>2, PressTyped DEF HandleGenderCallback
<1>3. CASE StartOptionalHandler(h, u)
  BY <1>3, AskingLists, PressTyped DEF StartOptionalHandler
<1>4. CASE \E q \in Questions : EditHandler(h, u, q)
  BY <1>4, AskingLists, PressTyped DEF EditHandler
<1>5. CASE EditGenderHandler(h, u)
  <2>1. <<SetUserState("editing_gender"), Close>> \in CallLists
    BY TypedLists, Known, Short DEF CallLists
  <2> QED
    BY <1>5, <2>1, PressTyped DEF EditGenderHandler
<1>6. CASE SetGenderHandler(h, u)
  <2>1. <<SaveField(None, "gender")>> \in CallLists
    BY TypedLists, Known, KnownFields, Short DEF CallLists
  <2> QED
    BY <1>6, <2>1, PressTyped DEF SetGenderHandler
<1>7. CASE CancelHandler(h, u)
  BY <1>7, AskingLists, PressTyped DEF CancelHandler, Cancel
<1> QED
  BY <1>1, <1>2, <1>3, <1>4, <1>5, <1>6, <1>7

LEMMA OneCall ==
  ASSUME TInv, NEW h \in Handlers, NEW u \in Users, NEW c, c \in AnyCall, Press(h, u, <<c>>)
  PROVE  TInv'
  BY Short, PressTyped DEF CallLists

LEMMA OtherUserTyped ==
  ASSUME TInv, NEW h \in Handlers, NEW u \in Users, NEW v \in Users,
         \/ DMHandler(h, u, v) \/ AddContactHandler(h, u, v) \/ RemoveContactHandler(h, u, v)
         \/ BlockHandler(h, u, v) \/ UnblockHandler(h, u, v)
         \/ ChatRequestHandler(h, u, v) \/ AcceptChatHandler(h, u, v)
         \/ StartGame(h, u, v) \/ EndGame(h, u, v) \/ ConfirmEndChatHandler(h, u)
  PROVE  TInv'
<1>0. << >> \in CallLists
  BY Short DEF CallLists
<1>1. CASE DMHandler(h, u, v)
  <2>1. <<SetUserState("sending_dm"), Call("target", None, v), Prompt("sending_dm", v)>> \in CallLists
    BY TypedLists, Known, Short DEF CallLists
  <2> QED
    BY <1>1, <2>1, PressTyped DEF DMHandler
<1>2. CASE AddContactHandler(h, u, v)
  <2>1. <<Call("contact", None, v), SetUserState("add_contact_label"),
          Prompt("add_contact_label", v)>> \in CallLists
    BY TypedLists, Known, Short DEF CallLists
  <2> QED
    BY <1>2, <2>1, PressTyped DEF AddContactHandler
<1>3. CASE RemoveContactHandler(h, u, v)
  BY <1>3, TypedLists, OneCall DEF RemoveContactHandler
<1>4. CASE BlockHandler(h, u, v)
  BY <1>4, TypedLists, OneCall DEF BlockHandler
<1>5. CASE UnblockHandler(h, u, v)
  BY <1>5, TypedLists, OneCall DEF UnblockHandler
<1>6. CASE ChatRequestHandler(h, u, v)
  BY <1>0, <1>6, TypedLists, OneCall, PressTyped DEF ChatRequestHandler
<1>7. CASE AcceptChatHandler(h, u, v)
  BY <1>7, TypedLists, OneCall DEF AcceptChatHandler
<1>8. CASE StartGame(h, u, v)
  <2>1. <<Call("inGame", None, u), Call("inGame", None, v)>> \in CallLists
    BY TypedLists, Short DEF CallLists
  <2> QED
    BY <1>8, <2>1, PressTyped DEF StartGame
<1>9. CASE EndGame(h, u, v)
  <2>1. /\ <<Call("outOfGame", None, u), Call("outOfGame", None, v)>> \in CallLists
        /\ <<Call("outOfGame", None, v), Call("outOfGame", None, u)>> \in CallLists
    BY TypedLists, Short DEF CallLists
  <2> QED
    BY <1>9, <2>1, PressTyped DEF EndGame
<1>10. CASE ConfirmEndChatHandler(h, u)
  <2>1. chat[u] \in Users
    BY <1>10 DEF ConfirmEndChatHandler, TInv, Notes
  <2>2. <<Call("endChat", None, None), Call("outOfGame", None, u),
          Call("outOfGame", None, chat[u])>> \in CallLists
    BY <2>1, TypedLists, Short DEF CallLists
  <2> QED
    BY <1>10, <2>2, PressTyped DEF ConfirmEndChatHandler
<1> QED
  BY <1>1, <1>2, <1>3, <1>4, <1>5, <1>6, <1>7, <1>8, <1>9, <1>10

LEMMA AnswerTyped ==
  ASSUME TInv, NEW h \in Handlers, NEW u \in Users, NEW fits \in BOOLEAN,
         TextAnswer(h, u, fits) \/ MediaHandler(h, u, fits) \/ LocationHandler(h, u)
  PROVE  TInv'
<1>0. << >> \in CallLists /\ profile[u] \in Profile /\ chat[u] \in Users \cup {None}
  BY Short DEF CallLists, TInv, Tables, Notes
<1>1. PICK q : q = state[u]
  OBVIOUS
<1>2. ASSUME NEW f \in Fields, NEW fit, q \in Questions, Press(h, u, HandleEdit(q, f, fit))
      PROVE  TInv'
  BY <1>2, EditingLists, Known, PressTyped
<1>3. CASE TextAnswer(h, u, fits)
  <2>1. ASSUME q \in DOMAIN Completing,
               Press(h, u, IF fits THEN handleProfileCompletion(profile[u], q) ELSE << >>)
        PROVE  TInv'
    <3>1. askNextProfileQuestion(UpdateField(profile[u], Completing[q]).stage) \in CallLists
      BY <1>0, <2>1, StageKept, AskingLists, KnownFields
    <3>2. handleProfileCompletion(profile[u], q) \in CallLists
      BY <2>1, <3>1, SavingLists, Known, KnownFields DEF handleProfileCompletion
    <3> QED
      BY <1>0, <2>1, <3>2, PressTyped
  <2>2. ASSUME q \in DOMAIN Filling,
               Press(h, u, IF fits THEN handleOptionalField(profile[u], q) ELSE << >>)
        PROVE  TInv'
    <3>1. handleOptionalField(profile[u], q) \in CallLists
      BY <2>2, AskingLists, SavingLists, Known, KnownFields DEF handleOptionalField
    <3> QED
      BY <1>0, <2>2, <3>1, PressTyped
  <2>3. ASSUME q \in DOMAIN Editing, Press(h, u, HandleEdit(q, Editing[q], fits))
        PROVE  TInv'
    BY <1>2, <2>3, Known, KnownFields
  <2> QED
    BY <1>1, <1>3, <2>1, <2>2, <2>3 DEF TextAnswer
<1>4. CASE MediaHandler(h, u, fits)
  <2>1. ASSUME q \in PhotoStates, Press(h, u, HandleEdit(q, "photo", fits))
        PROVE  TInv'
    BY <1>2, <2>1, Known, KnownFields
  <2>2. ASSUME chat[u] # None, Press(h, u, <<Call("forward", None, chat[u])>>)
        PROVE  TInv'
    <3>1. Call("forward", None, chat[u]) \in AnyCall
      BY <1>0, <2>2, TypedLists
    <3> QED
      BY <2>2, <3>1, OneCall
  <2> QED
    BY <1>1, <1>4, <2>1, <2>2 DEF MediaHandler
<1>5. CASE LocationHandler(h, u)
  BY <1>1, <1>2, <1>5, Known, KnownFields DEF LocationHandler
<1> QED
  BY <1>3, <1>4, <1>5

LEMMA RemainingTyped ==
  ASSUME TInv, NEW h \in Handlers, NEW u \in Users,
         \/ setSilent(h, u) \/ DeleteAllContactsHandler(h, u) \/ DeleteAllBlocksHandler(h, u)
         \/ TextForOther(h, u) \/ TextToPartner(h, u)
  PROVE  TInv'
<1>1. CASE setSilent(h, u)
  BY <1>1, TypedLists, OneCall DEF setSilent
<1>2. CASE DeleteAllContactsHandler(h, u)
  BY <1>2, TypedLists, OneCall DEF DeleteAllContactsHandler
<1>3. CASE DeleteAllBlocksHandler(h, u)
  BY <1>3, TypedLists, OneCall DEF DeleteAllBlocksHandler
<1>4. CASE TextToPartner(h, u)
  <2>1. chat[u] \in Users
    BY <1>4 DEF TextToPartner, TInv, Notes
  <2>2. Call("forward", None, chat[u]) \in AnyCall
    BY <2>1, TypedLists
  <2> QED
    BY <1>4, <2>2, OneCall DEF TextToPartner
<1>5. CASE TextForOther(h, u)
  <2>1. PICK q \in {"sending_dm", "add_contact_label"} : q = state[u]
    BY <1>5 DEF TextForOther
  <2>2. /\ job' = [job EXCEPT ![h] = [by |-> u, read |-> q, calls |-> << >>]]
        /\ updates' = updates + 1 /\ UNCHANGED <<stored, open, taken, shown>>
    BY <1>5, <2>1 DEF TextForOther
  <2>3. TypedJob([by |-> u, read |-> q, calls |-> << >>])
    BY Short DEF TypedJob
  <2>4. \A g \in Handlers : TypedJob(job[g])'
    BY <2>2, <2>3 DEF TInv, TypedJob
  <2>5. Notes' /\ Tables' /\ Screens'
    BY <2>2 DEF TInv, Notes, Tables, Screens, stored
  <2> QED
    BY <2>2, <2>4, <2>5 DEF TInv
<1> QED
  BY <1>1, <1>2, <1>3, <1>4, <1>5

LEMMA AdminTyped ==
  ASSUME TInv, NEW h \in Handlers, NEW a \in Admins, AdminUpdate(h, a)
  PROVE  TInv'
<1>0. a \in Users /\ << >> \in CallLists /\ adminPending[a] \in Operation \cup {None}
  BY ConversationAssumption, Short DEF CallLists, TInv, Notes
<1>1. \A op \in Operation \cup {None} :
        /\ <<Call("adminSet", None, op)>> \in CallLists
        /\ <<Call("adminSet", None, op), Call("confirm", None, op)>> \in CallLists
        /\ <<Call("adminSet", None, None), Call("execute", None, op)>> \in CallLists
  BY TypedLists, Short DEF CallLists
<1>2. ASSUME NEW c \in Commands, NEW p \in Payloads \cup {None}, beginAdminAction(h, a, c, p)
      PROVE  TInv'
  <2>1. [command |-> c, payload |-> p] \in Operation
    BY DEF Operation
  <2> QED
    BY <1>0, <1>1, <1>2, <2>1, PressTyped DEF beginAdminAction
<1>3. ASSUME NEW p \in Payloads, TextToAdmin(h, a, p)
      PROVE  TInv'
  <2>1. [adminPending[a] EXCEPT !.payload = p] \in Operation
    BY <1>0, <1>3 DEF TextToAdmin, Operation
  <2>2. handleAdminTextInput(adminPending[a], p) \in CallLists
    BY <1>1, <2>1 DEF handleAdminTextInput
  <2> QED
    BY <1>0, <1>3, <2>2, PressTyped DEF TextToAdmin
<1>4. CASE AdminCancelCallback(h, a)
  BY <1>0, <1>1, <1>4, PressTyped DEF AdminCancelCallback
<1>5. CASE AdminConfirmCallback(h, a)
  BY <1>0, <1>1, <1>5, PressTyped DEF AdminConfirmCallback, Confirm
<1> QED
  BY <1>2, <1>3, <1>4, <1>5 DEF AdminUpdate

(***************************************************************************)
(* Each call                                                               *)
(***************************************************************************)
LEMMA ReadTyped ==
  ASSUME TInv, NEW h \in Handlers, ReadTarget(h)
  PROVE  TInv'
<1>1. TypedJob(job[h]) /\ job[h] # Idle
  BY Known, ConversationAssumption DEF TInv, ReadTarget, Idle, States
<1>2. PICK u \in Users : u = job[h].by
  BY <1>1 DEF TypedJob
<1>3. dmTarget[u] \in Users \cup {None} /\ pending[u] \in Users \cup {None}
  BY DEF TInv, Notes
<1>4. handleDMMessage(u) \in CallLists
  <2>1. CASE dmTarget[u] = None
    BY <2>1, AskingLists DEF handleDMMessage
  <2>2. CASE dmTarget[u] # None
    BY <1>3, <2>2, TypedLists, Known, Short DEF handleDMMessage, CallLists
  <2> QED
    BY <2>1, <2>2
<1>5. HandleAddContactLabel(u) \in CallLists
  <2>1. CASE pending[u] = None
    BY <2>1, AskingLists DEF HandleAddContactLabel
  <2>2. CASE pending[u] # None
    BY <1>3, <2>2, TypedLists, Known, Short DEF HandleAddContactLabel, CallLists
  <2> QED
    BY <2>1, <2>2
<1>6. PICK c \in CallLists : Owes(h, u, c)
  BY <1>2, <1>4, <1>5 DEF ReadTarget
<1>7. Notes' /\ Tables' /\ Screens'
  BY DEF TInv, ReadTarget, stored, Notes, Tables, Screens
<1> QED
  BY <1>6, <1>7, OwesTyped DEF TInv

LEMMA CallSteps ==
  ASSUME TInv, NEW h \in Handlers, MakeCall(h)
  PROVE  TInv'
<1>0. TInv /\ Notes /\ Tables /\ Screens
  BY DEF TInv
<1>1. CASE ReadTarget(h)
  BY <1>1, ReadTyped
<1> DEFINE u == job[h].by
<1>2. job[h].calls # << >> =>
        /\ u \in Users /\ job[h].calls \in CallLists /\ Tail(job[h].calls) \in CallLists
        /\ arg(h) \in AnyCall /\ arg(h) = Head(job[h].calls)
  BY BusyTyped DEF arg
<1>3. CASE WriteState(h)
  <2>1. job[h].calls # << >> /\ Called(h)
    BY <1>3 DEF WriteState, owed
  <2>2. state' \in [Users -> States]
    <3>1. {"in_game", None} \subseteq States /\ (arg(h).op = "state" => arg(h).q \in States)
      BY <1>2, <2>1, Arguments DEF States
    <3> QED
      <4>1. state \in [Users -> States]
        BY <1>0 DEF Notes
      <4>2. CASE owed(h, "state")
        <5>1. state' = [state EXCEPT ![u] = arg(h).q] /\ arg(h).q \in States
          BY <1>3, <3>1, <4>2 DEF WriteState, owed, arg
        <5> QED
          BY <4>1, <5>1
      <4>3. CASE owed(h, "inGame") \/ owed(h, "outOfGame")
        <5>1. PICK q \in {"in_game", None} : state' = [state EXCEPT ![arg(h).who] = q]
          BY <1>3, <4>3 DEF WriteState, owed, arg
        <5> QED
          BY <3>1, <4>1, <5>1
      <4>4. owed(h, "state") \/ owed(h, "inGame") \/ owed(h, "outOfGame")
        BY <1>3 DEF WriteState
      <4> QED
        BY <4>2, <4>3, <4>4
  <2>3. taken' \subseteq Users
    <3>1. arg(h).op \in {"inGame", "outOfGame"} => arg(h).who \in Users
      BY <1>2, <2>1, Arguments
    <3> QED
      BY <1>0, <1>3, <3>1 DEF WriteState, owed, arg, Screens
  <2>4. Notes' /\ Tables' /\ Screens'
    BY <1>0, <1>3, <2>2, <2>3 DEF WriteState, Called, Notes, Tables, Screens
  <2> QED
    BY <2>1, <2>4, CallTyped
<1>4. CASE WriteTarget(h)
  <2>1. job[h].calls # << >> /\ Called(h)
    BY <1>4 DEF WriteTarget, owed
  <2>2. arg(h).op \in {"target", "contact"} /\ arg(h).who \in Users \cup {None}
    BY <1>2, <1>4, <2>1, Arguments DEF WriteTarget, owed
  <2>3. Notes'
    BY <1>0, <1>4, <2>2 DEF WriteTarget, Notes
  <2>4. Tables' /\ Screens'
    BY <1>0, <1>4 DEF WriteTarget, Called, Tables, Screens
  <2> QED
    BY <2>1, <2>3, <2>4, CallTyped
<1>5. CASE Save(h)
  <2>1. job[h].calls # << >> /\ Called(h)
    BY <1>5 DEF Save, owed
  <2>2. arg(h).who \in Fields /\ profile[u] \in Profile
    BY <1>0, <1>2, <1>5, <2>1, Arguments DEF Save, owed, Tables
  <2>3. profile' \in [Users -> Profile]
    BY <1>0, <1>5, <2>2, StageKept DEF Save, Tables
  <2>4. Notes' /\ Tables' /\ Screens'
    BY <1>0, <1>5, <2>3 DEF Save, Called, Notes, Tables, Screens
  <2> QED
    BY <2>1, <2>4, CallTyped
<1>6. CASE Show(h)
  <2>1. job[h].calls # << >> /\ Called(h)
    BY <1>6 DEF Show, owed
  <2>2. CASE owed(h, "prompt") \/ owed(h, "close")
    <3>1. arg(h).op = "prompt" => [q |-> arg(h).q, who |-> arg(h).who] \in Asked
      BY <1>2, <2>1, Arguments DEF Asked
    <3>2. open' \in [Users -> Asked \cup {None}] /\ UNCHANGED shown
      BY <1>0, <1>2, <1>6, <2>2, <3>1 DEF Show, owed, arg, Screens
    <3> QED
      BY <1>0, <1>6, <2>1, <3>2, CallTyped DEF Show, Called, stored, Notes, Tables, Screens
  <2>3. CASE owed(h, "confirm")
    <3>1. arg(h).who \in Operation \cup {None}
      BY <1>2, <2>1, <2>3, Arguments DEF owed
    <3>2. shown' \in [Admins -> Operation \cup {None}] /\ UNCHANGED open
      BY <1>0, <1>6, <2>3, <3>1 DEF Show, owed, Screens
    <3> QED
      BY <1>0, <1>6, <2>1, <3>2, CallTyped DEF Show, Called, stored, Notes, Tables, Screens
  <2> QED
    BY <1>6, <2>2, <2>3 DEF Show
<1>7. CASE Send(h)
  <2>1. job[h].calls # << >> /\ Called(h)
    BY <1>7 DEF Send, owed
  <2>2. arg(h).op = "request" => arg(h).who \in Users
    BY <1>2, <2>1, Arguments
  <2>3. requests' \subseteq Users \X Users
    BY <1>0, <1>2, <1>7, <2>1, <2>2 DEF Send, owed, arg, Tables
  <2>4. Notes' /\ Tables' /\ Screens'
    BY <1>0, <1>7, <2>3 DEF Send, Called, Notes, Tables, Screens
  <2> QED
    BY <2>1, <2>4, CallTyped
<1>8. CASE WriteContacts(h)
  <2>1. job[h].calls # << >> /\ UNCHANGED updates
    BY <1>8 DEF WriteContacts, owed, Called
  <2>2. arg(h).op = "label" => arg(h).who \in Users
    BY <1>2, <2>1, Arguments
  <2>3. contacts' \subseteq Users \X Users
    BY <1>0, <1>2, <1>8, <2>1, <2>2 DEF WriteContacts, owed, arg, Tables
  <2>4. Notes' /\ Tables' /\ Screens'
    BY <1>0, <1>8, <2>1, <2>3 DEF WriteContacts, Notes, Tables, Screens
  <2>5. PICK c \in CallLists : Owes(h, u, c)
    BY <1>2, <1>8, <2>1, Short DEF WriteContacts, Called, CallLists
  <2> QED
    BY <1>2, <2>1, <2>4, <2>5, OwesTyped DEF TInv
<1>9. CASE WriteBlocks(h)
  <2>1. job[h].calls # << >> /\ Called(h)
    BY <1>9 DEF WriteBlocks, owed
  <2>2. arg(h).op = "block" => arg(h).who \in Users
    BY <1>2, <2>1, Arguments
  <2>3. arg(h).op = "block" => pairsOf(u, arg(h).who) \subseteq Users \X Users
    BY <1>2, <2>1, <2>2 DEF pairsOf
  <2>4. blocks' \subseteq Users \X Users
    BY <1>0, <1>9, <2>3 DEF WriteBlocks, owed, arg, Tables
  <2>5. Notes' /\ Tables' /\ Screens'
    BY <1>0, <1>9, <2>4 DEF WriteBlocks, Called, Notes, Tables, Screens
  <2> QED
    BY <2>1, <2>5, CallTyped
<1>10. CASE WriteSilence(h)
  <2>1. job[h].calls # << >> /\ Called(h)
    BY <1>10 DEF WriteSilence, owed
  <2>2. silent' \subseteq Users
    BY <1>0, <1>2, <1>10, <2>1 DEF WriteSilence, Tables
  <2>3. Notes' /\ Tables' /\ Screens'
    BY <1>0, <1>10, <2>2 DEF WriteSilence, Called, Notes, Tables, Screens
  <2> QED
    BY <2>1, <2>3, CallTyped
<1>11. CASE WriteChat(h)
  <2>1. job[h].calls # << >> /\ Called(h)
    BY <1>11 DEF WriteChat, owed
  <2>2. arg(h).op = "chat" => arg(h).who \in Users
    BY <1>2, <2>1, Arguments
  <2>3. chat' \in [Users -> Users \cup {None}]
    BY <1>0, <1>2, <1>11, <2>1, <2>2 DEF WriteChat, owed, arg, Notes
  <2>4. Notes' /\ Tables' /\ Screens'
    BY <1>0, <1>11, <2>3 DEF WriteChat, Called, Notes, Tables, Screens
  <2> QED
    BY <2>1, <2>4, CallTyped
<1>12. CASE WriteAdmin(h)
  <2>1. job[h].calls # << >> /\ Called(h)
    BY <1>12 DEF WriteAdmin, owed
  <2>2. arg(h).op = "adminSet" => arg(h).who \in Operation \cup {None}
    BY <1>2, <2>1, Arguments
  <2>3. /\ adminPending' \in [Admins -> Operation \cup {None}]
        /\ shown' \in [Admins -> Operation \cup {None}]
    BY <1>0, <1>12, <2>2 DEF WriteAdmin, owed, arg, Notes, Screens
  <2>4. Notes' /\ Tables' /\ Screens'
    BY <1>0, <1>12, <2>3 DEF WriteAdmin, Called, Notes, Tables, Screens
  <2> QED
    BY <2>1, <2>4, CallTyped
<1> QED
  BY <1>1, <1>3, <1>4, <1>5, <1>6, <1>7, <1>8, <1>9, <1>10, <1>11, <1>12 DEF MakeCall

(***************************************************************************)
(* The theorem                                                             *)
(***************************************************************************)
LEMMA TInvInit == Init => TInv
<1> SUFFICES ASSUME Init PROVE TInv
  OBVIOUS
<1>1. Notes /\ Tables /\ Screens
  BY ConversationAssumption, Known DEF Init, Notes, Tables, Screens
<1>2. job = [h \in Handlers |-> job[h]] /\ \A h \in Handlers : TypedJob(job[h])
  BY DEF Init, TypedJob
<1> QED
  BY <1>1, <1>2 DEF TInv

LEMMA TInvStep == TInv /\ [Next]_vars => TInv'
<1> SUFFICES ASSUME TInv, [Next]_vars PROVE TInv'
  OBVIOUS
<1>1. ASSUME NEW h \in Handlers, NEW u \in Users, Update(h, u)
      PROVE  TInv'
  BY <1>1, ProfileTyped, OtherUserTyped, AnswerTyped, RemainingTyped DEF Update
<1>2. ASSUME NEW u \in Users, KeyExpires(u)
      PROVE  TInv'
  BY <1>2 DEF KeyExpires, TInv, Notes, Tables, Screens, TypedJob
<1>3. CASE UNCHANGED vars
  BY <1>3 DEF vars, TInv, Notes, Tables, Screens, TypedJob
<1> QED
  BY <1>1, <1>2, <1>3, CallSteps, AdminTyped DEF Next

LEMMA TInvTypes == TInv => TypeOK
<1> SUFFICES ASSUME TInv PROVE TypeOK
  OBVIOUS
<1>1. ASSUME NEW h \in Handlers, job[h] # Idle
      PROVE  /\ job[h].by \in Users
             /\ job[h].read \in {"sending_dm", "add_contact_label", None}
             /\ \A i \in DOMAIN job[h].calls : job[h].calls[i] \in AnyCall
  <2>1. /\ job[h].by \in Users /\ job[h].read \in {"sending_dm", "add_contact_label", None}
        /\ job[h].calls \in Seq(AnyCall)
    BY <1>1 DEF TInv, TypedJob
  <2>2. \A i \in DOMAIN job[h].calls : job[h].calls[i] \in AnyCall
    BY <2>1
  <2> QED
    BY <2>1, <2>2
<1>2. \A c \in AnyCall : IF c.op \in {"adminSet", "confirm", "execute"} THEN c \in CommandCalls
                         ELSE c \in OwnCalls
  BY DEF AnyCall, OwnCalls, CommandCalls
<1> QED
  BY <1>1, <1>2 DEF TInv, Notes, Tables, Screens, TypeOK

\* Whatever users, admins and games do to each other's handlers, with or without
\* the rate limiter: user_state names a question TextHandler routes by, a game
\* or nothing, and no handler ever owes a call without a target, a field or an
\* operation where the call needs one (handleDMMessage, HandleAddContactLabel,
\* AcceptChatHandler, AdminConfirmCallback).
THEOREM TypeCorrect == Spec => []TypeOK
<1>1. Init => TInv
  BY TInvInit
<1>2. TInv /\ [Next]_vars => TInv'
  BY TInvStep
<1>3. TInv => TypeOK
  BY TInvTypes
<1> QED
  BY <1>1, <1>2, <1>3, PTL DEF Spec

-------------------------------------------------------------------------------
(***************************************************************************)
(* Notes that agree: s is a user's note, o the question on the screen, t   *)
(* and p the users under dm_target and contact_pending.                    *)
(***************************************************************************)
\* The states in which what a user sends is taken for an answer, but for the
\* gender, which is answered with buttons.
Typed == Questions \ {"editing_gender"}
Plain == Typed \ {"sending_dm", "add_contact_label"}

\* The user a question is about is the one that will be read, if any is.
About(q, w, t, p) ==
    /\ q = "sending_dm" => t \in {None, w}
    /\ q = "add_contact_label" => p \in {None, w}

Agree(s, o, t, p) ==
    /\ s \in Typed => o # None /\ o.q = s
    /\ o # None => s \in {o.q, "in_game"} /\ About(o.q, o.who, t, p)

(***************************************************************************)
(* What a handler still owes to its own user, and where it may be in it    *)
(***************************************************************************)
Target(w) == Call("target", None, w)
Contact(w) == Call("contact", None, w)

QuietOps == {"uncontact", "block", "unblock", "silent", "loud", "request", "chat", "forward",
             "inGame", "outOfGame", "endChat"}
Quiet(c) ==
    \/ c = << >>
    \/ \E a : c = <<a>> /\ a.op \in QuietOps
    \/ \E a, b : c = <<a, b>> /\ a.op \in QuietOps /\ b.op \in QuietOps
    \/ \E a, b, e : c = <<a, b, e>> /\ a.op \in QuietOps /\ b.op \in QuietOps /\ e.op \in QuietOps

Asking(c) == \E q \in Plain : c = <<SetUserState(q), Prompt(q, None)>>
Clearing(c) == c = <<ClearUserState, Close>>
Turning(c) == Asking(c) \/ Clearing(c) \/ c = <<SetUserState("editing_gender"), Close>>

Saving(c, o) ==
    /\ c # << >> /\ Head(c).op = "save"
    /\ Head(c).q \notin {None, "editing_gender"} => o # None /\ o.q = Head(c).q
    /\ Tail(c) = << >> \/ Turning(Tail(c))

Prompting(c, s, t, p) ==
    \E q \in Typed, w \in Users \cup {None} :
        c = <<Prompt(q, w)>> /\ s \in {q, "in_game"} /\ About(q, w, t, p)

Closing(c, s) == c = <<Close>> /\ s \in {None, "editing_gender", "in_game"}

DirectingNext(c) ==
    \E w \in Users : c = <<SetUserState("sending_dm"), Target(w), Prompt("sending_dm", w)>>
DirectingThen(c, s) ==
    \E w \in Users : c = <<Target(w), Prompt("sending_dm", w)>> /\ s \in {"sending_dm", "in_game"}
Directing(c, s) == DirectingNext(c) \/ DirectingThen(c, s)

LabellingFirst(c) ==
    \E w \in Users :
        c = <<Contact(w), SetUserState("add_contact_label"), Prompt("add_contact_label", w)>>
LabellingNext(c, p) ==
    \E w \in Users :
        c = <<SetUserState("add_contact_label"), Prompt("add_contact_label", w)>> /\ p \in {None, w}
Labelling(c, p) == LabellingFirst(c) \/ LabellingNext(c, p)

\* A direct message or a label is about to go to the user of the question.
SendingDM(c, o) ==
    \E w \in Users :
        /\ c = <<Call("dm", "sending_dm", w), ClearUserState, Target(None), Close>>
        /\ o = [q |-> "sending_dm", who |-> w]
SendingLabel(c, o) ==
    \E w \in Users :
        /\ c = <<Call("label", "add_contact_label", w), ClearUserState, Contact(None), Close>>
        /\ o = [q |-> "add_contact_label", who |-> w]

\* The note is cleared, then the target, then the screen says so.
EndingNext(c) ==
    \E forget \in {Target(None), Contact(None)} : c = <<ClearUserState, forget, Close>>
EndingThen(c, s, forget) == c = <<forget, Close>> /\ s \in {None, "in_game"}
Ending(c, s) == EndingNext(c) \/ EndingThen(c, s, Target(None)) \/ EndingThen(c, s, Contact(None))

\* Lists before whose first call the notes still agree, and lists that have
\* begun, or are about, to change them.
Untouched(c, o) == Quiet(c) \/ Saving(c, o) \/ SendingDM(c, o) \/ SendingLabel(c, o)
UserOwes(c, s, o, t, p) ==
    \/ Untouched(c, o) /\ Agree(s, o, t, p)
    \/ Turning(c) \/ Prompting(c, s, t, p) \/ Closing(c, s)
    \/ Directing(c, s) \/ Labelling(c, p) \/ Ending(c, s)

(***************************************************************************)
(* The same for an admin: a is the pending operation, w the one shown      *)
(***************************************************************************)
Shown(a, w) == a # None /\ AwaitingConfirmation(a) => w = a

SetAdmin(op) == Call("adminSet", None, op)

AdminOwes(c, a, w) ==
    \/ \E op : c = <<SetAdmin(op), Call("confirm", None, op)>>
    \/ \E op : c = <<Call("confirm", None, op)>> /\ a = op
    \/ \E op : c = <<SetAdmin(op)>> /\ op # None /\ ~AwaitingConfirmation(op)
    \/ \E op : c = <<SetAdmin(None), Call("execute", None, op)>> /\ w = op
    \/ \E op : c = <<Call("execute", None, op)>> /\ w = op /\ a = None

(***************************************************************************)
(* The calls of UserOwes, one at a time                                    *)
(***************************************************************************)
LEMMA Tails ==
    /\ \A a : Head(<<a>>) = a /\ Tail(<<a>>) = << >> /\ <<a>> # << >>
    /\ \A a, b : Head(<<a, b>>) = a /\ Tail(<<a, b>>) = <<b>> /\ <<a, b>> # << >>
    /\ \A a, b, c : Head(<<a, b, c>>) = a /\ Tail(<<a, b, c>>) = <<b, c>> /\ <<a, b, c>> # << >>
    /\ \A a, b, c, d : /\ Head(<<a, b, c, d>>) = a /\ Tail(<<a, b, c, d>>) = <<b, c, d>>
                       /\ <<a, b, c, d>> # << >>
  OBVIOUS

LEMMA Distinct ==
    /\ None \notin Typed /\ None # "in_game" /\ None # "editing_gender"
    /\ "editing_gender" \notin Typed /\ "in_game" \notin Typed
    /\ Plain \subseteq Typed /\ "sending_dm" \in Typed /\ "add_contact_label" \in Typed
    /\ "sending_dm" \notin Plain /\ "add_contact_label" \notin Plain
  BY ConversationAssumption DEF Typed, Plain, Questions, Completing, Filling, Editing, PhotoStates, GPSStates

LEMMA AtTheEnd ==
  ASSUME NEW s, NEW o, NEW t, NEW p, Agree(s, o, t, p)
  PROVE  UserOwes(<< >>, s, o, t, p)
  BY DEF UserOwes, Untouched, Quiet

\* The op of the first call tells which lists it can be the first of.
LEMMA Heads ==
  ASSUME NEW c, NEW s, NEW o, NEW t, NEW p, UserOwes(c, s, o, t, p), c # << >>
  PROVE  LET op == Head(c).op IN
         /\ op = "state" => Turning(c) \/ DirectingNext(c) \/ LabellingNext(c, p) \/ EndingNext(c)
         /\ op = "prompt" => Prompting(c, s, t, p)
         /\ op = "close" => Closing(c, s)
         /\ op = "save" => Saving(c, o) /\ Agree(s, o, t, p)
         /\ op = "dm" => SendingDM(c, o)
         /\ op = "label" => SendingLabel(c, o) /\ Agree(s, o, t, p)
         /\ op = "target" => DirectingThen(c, s) \/ EndingThen(c, s, Target(None))
         /\ op = "contact" => LabellingFirst(c) \/ EndingThen(c, s, Contact(None))
         /\ op \in QuietOps => Quiet(c) /\ Agree(s, o, t, p)
         /\ op \notin {"adminSet", "confirm", "execute"}
<1> USE Tails DEF Call
<1>1. CASE Untouched(c, o) /\ Agree(s, o, t, p)
  <2>1. CASE Quiet(c)
    BY <1>1, <2>1 DEF Quiet, QuietOps
  <2>2. CASE Saving(c, o)
    BY <1>1, <2>2 DEF Saving, QuietOps
  <2>3. CASE SendingDM(c, o)
    BY <1>1, <2>3 DEF SendingDM, QuietOps
  <2>4. CASE SendingLabel(c, o)
    BY <1>1, <2>4 DEF SendingLabel, QuietOps
  <2> QED
    BY <1>1, <2>1, <2>2, <2>3, <2>4 DEF Untouched
<1>2. CASE Turning(c)
  BY <1>2 DEF Turning, Asking, Clearing, SetUserState, ClearUserState, QuietOps
<1>3. CASE Prompting(c, s, t, p)
  BY <1>3 DEF Prompting, Prompt, QuietOps
<1>4. CASE Closing(c, s)
  BY <1>4 DEF Closing, Close, QuietOps
<1>5. CASE Directing(c, s)
  BY <1>5 DEF Directing, DirectingNext, DirectingThen, SetUserState, Target, QuietOps
<1>6. CASE Labelling(c, p)
  BY <1>6 DEF Labelling, LabellingFirst, LabellingNext, SetUserState, Contact, QuietOps
<1>7. CASE Ending(c, s)
  <2>1. CASE EndingNext(c)
    <3>1. Head(c).op = "state"
      BY <2>1 DEF EndingNext, SetUserState, ClearUserState
    <3> QED
      BY <2>1, <3>1 DEF QuietOps
  <2>2. CASE EndingThen(c, s, Target(None))
    BY <2>2 DEF EndingThen, Target, QuietOps
  <2>3. CASE EndingThen(c, s, Contact(None))
    BY <2>3 DEF EndingThen, Contact, QuietOps
  <2> QED
    BY <1>7, <2>1, <2>2, <2>3 DEF Ending
<1> QED
  BY <1>1, <1>2, <1>3, <1>4, <1>5, <1>6, <1>7 DEF UserOwes

LEMMA StateCall ==
  ASSUME NEW c, NEW s, NEW o, NEW t, NEW p, UserOwes(c, s, o, t, p),
         c # << >>, Head(c).op = "state"
  PROVE  UserOwes(Tail(c), Head(c).q, o, t, p)
<1> USE Tails, Distinct DEF Call, SetUserState, ClearUserState
<1>1. CASE Asking(c)
  <2>1. PICK q \in Plain : c = <<SetUserState(q), Prompt(q, None)>>
    BY <1>1 DEF Asking
  <2>2. Tail(c) = <<Prompt(q, None)>> /\ Head(c).q = q
    BY <2>1
  <2>3. q \in Typed /\ About(q, None, t, p)
    BY DEF About
  <2>4. Prompting(Tail(c), Head(c).q, t, p)
    BY <2>2, <2>3 DEF Prompting
  <2> QED
    BY <2>4 DEF UserOwes
<1>2. CASE Clearing(c) \/ c = <<SetUserState("editing_gender"), Close>>
  <2>1. Tail(c) = <<Close>> /\ Head(c).q \in {None, "editing_gender", "in_game"}
    <3>1. CASE c = <<SetUserState(None), Close>>
      BY <3>1
    <3>2. CASE c = <<SetUserState("editing_gender"), Close>>
      BY <3>2
    <3> QED
      BY <1>2, <3>1, <3>2 DEF Clearing
  <2>2. Closing(Tail(c), Head(c).q)
    BY <2>1 DEF Closing
  <2> QED
    BY <2>2 DEF UserOwes
<1>3. CASE DirectingNext(c)
  <2>1. DirectingThen(Tail(c), Head(c).q)
    BY <1>3 DEF DirectingNext, DirectingThen
  <2> QED
    BY <2>1 DEF UserOwes, Directing
<1>4. CASE LabellingNext(c, p)
  <2>1. Prompting(Tail(c), Head(c).q, t, p)
    BY <1>4 DEF LabellingNext, Prompting, About
  <2> QED
    BY <2>1 DEF UserOwes
<1>5. CASE EndingNext(c)
  <2>1. PICK forget \in {Target(None), Contact(None)} : c = <<SetUserState(None), forget, Close>>
    BY <1>5 DEF EndingNext
  <2>2. Tail(c) = <<forget, Close>> /\ Head(c).q = None
    BY <2>1
  <2>3. EndingThen(Tail(c), Head(c).q, forget)
    BY <2>2 DEF EndingThen
  <2>4. forget = Target(None) \/ forget = Contact(None)
    BY <2>1
  <2> QED
    BY <2>3, <2>4 DEF UserOwes, Ending
<1>6. Turning(c) \/ DirectingNext(c) \/ LabellingNext(c, p) \/ EndingNext(c)
  BY Heads
<1> QED
  BY <1>1, <1>2, <1>3, <1>4, <1>5, <1>6 DEF Turning, Clearing, ClearUserState

\* No handler owes its own user a game.
LEMMA StateNamed ==
  ASSUME NEW c, NEW s, NEW o, NEW t, NEW p, UserOwes(c, s, o, t, p),
         c # << >>, Head(c).op = "state"
  PROVE  Head(c).q # "in_game"
<1> USE Tails, Distinct DEF Call, SetUserState, ClearUserState
<1>1. CASE Turning(c)
  BY <1>1 DEF Turning, Asking, Clearing
<1>2. CASE DirectingNext(c)
  BY <1>2 DEF DirectingNext
<1>3. CASE LabellingNext(c, p)
  BY <1>3 DEF LabellingNext
<1>4. CASE EndingNext(c)
  BY <1>4 DEF EndingNext
<1> QED
  BY <1>1, <1>2, <1>3, <1>4, Heads

LEMMA TargetCall ==
  ASSUME NEW c, NEW s, NEW o, NEW t, NEW p, UserOwes(c, s, o, t, p),
         c # << >>, Head(c).op = "target"
  PROVE  UserOwes(Tail(c), s, o, Head(c).who, p) /\ Head(c).who \in Users \cup {None}
<1> USE Tails, Distinct DEF Call, Target
<1>1. CASE DirectingThen(c, s)
  <2>1. Prompting(Tail(c), s, Head(c).who, p)
    BY <1>1 DEF DirectingThen, Prompting, About
  <2>2. Head(c).who \in Users
    BY <1>1 DEF DirectingThen
  <2> QED
    BY <2>1, <2>2 DEF UserOwes
<1>2. CASE EndingThen(c, s, Target(None))
  <2>1. Closing(Tail(c), s)
    BY <1>2 DEF EndingThen, Closing
  <2>2. Head(c).who = None
    BY <1>2 DEF EndingThen
  <2> QED
    BY <2>1, <2>2 DEF UserOwes
<1> QED
  BY <1>1, <1>2, Heads

LEMMA ContactCall ==
  ASSUME NEW c, NEW s, NEW o, NEW t, NEW p, UserOwes(c, s, o, t, p),
         c # << >>, Head(c).op = "contact"
  PROVE  UserOwes(Tail(c), s, o, t, Head(c).who) /\ Head(c).who \in Users \cup {None}
<1> USE Tails, Distinct DEF Call, Contact
<1>1. CASE LabellingFirst(c)
  <2>1. LabellingNext(Tail(c), Head(c).who)
    BY <1>1 DEF LabellingFirst, LabellingNext
  <2>2. Head(c).who \in Users
    BY <1>1 DEF LabellingFirst
  <2> QED
    BY <2>1, <2>2 DEF UserOwes, Labelling
<1>2. CASE EndingThen(c, s, Contact(None))
  <2>1. Closing(Tail(c), s)
    BY <1>2 DEF EndingThen, Closing
  <2>2. Head(c).who = None
    BY <1>2 DEF EndingThen
  <2> QED
    BY <2>1, <2>2 DEF UserOwes
<1> QED
  BY <1>1, <1>2, Heads

LEMMA SaveCall ==
  ASSUME NEW c, NEW s, NEW o, NEW t, NEW p, UserOwes(c, s, o, t, p),
         c # << >>, Head(c).op = "save"
  PROVE  UserOwes(Tail(c), s, o, t, p)
<1>1. Saving(c, o) /\ Agree(s, o, t, p)
  BY Heads
<1>2. CASE Tail(c) = << >>
  BY <1>1, <1>2, AtTheEnd
<1>3. CASE Turning(Tail(c))
  BY <1>3 DEF UserOwes
<1> QED
  BY <1>1, <1>2, <1>3 DEF Saving

\* What the user sees last is what the notes say.
LEMMA PromptCall ==
  ASSUME NEW c, NEW s, NEW o, NEW t, NEW p, UserOwes(c, s, o, t, p),
         c # << >>, Head(c).op = "prompt"
  PROVE  /\ UserOwes(Tail(c), s, [q |-> Head(c).q, who |-> Head(c).who], t, p)
         /\ Head(c).q \in Typed /\ Head(c).who \in Users \cup {None}
<1>1. PICK q \in Typed, w \in Users \cup {None} :
        c = <<Prompt(q, w)>> /\ s \in {q, "in_game"} /\ About(q, w, t, p)
  BY Heads DEF Prompting
<1>2. Tail(c) = << >> /\ Head(c).q = q /\ Head(c).who = w
  BY <1>1, Tails DEF Prompt, Call
<1>3. [q |-> q, who |-> w] # None
  BY ConversationAssumption DEF Asked, Typed
<1>4. Agree(s, [q |-> q, who |-> w], t, p)
  BY <1>1, <1>3, Distinct DEF Agree
<1> QED
  BY <1>2, <1>4, AtTheEnd

LEMMA CloseCall ==
  ASSUME NEW c, NEW s, NEW o, NEW t, NEW p, UserOwes(c, s, o, t, p),
         c # << >>, Head(c).op = "close"
  PROVE  UserOwes(Tail(c), s, None, t, p)
<1>1. Tail(c) = << >> /\ s \in {None, "editing_gender", "in_game"}
  BY Heads, Tails DEF Closing
<1>2. Agree(s, None, t, p)
  BY <1>1, Distinct DEF Agree
<1> QED
  BY <1>1, <1>2, AtTheEnd

LEMMA MessageCall ==
  ASSUME NEW c, NEW s, NEW o, NEW t, NEW p, UserOwes(c, s, o, t, p),
         c # << >>, Head(c).op \in {"dm", "label"}
  PROVE  /\ UserOwes(Tail(c), s, o, t, p)
         /\ o = [q |-> Head(c).q, who |-> Head(c).who]
         /\ Head(c).op = "label" => UserOwes(<< >>, s, o, t, p)
<1>1. CASE SendingDM(c, o)
  <2>1. EndingNext(Tail(c)) /\ o = [q |-> Head(c).q, who |-> Head(c).who] /\ Head(c).op # "label"
    BY <1>1, Tails DEF SendingDM, EndingNext, Call
  <2> QED
    BY <2>1 DEF UserOwes, Ending
<1>2. CASE SendingLabel(c, o) /\ Agree(s, o, t, p)
  <2>1. EndingNext(Tail(c)) /\ o = [q |-> Head(c).q, who |-> Head(c).who]
    BY <1>2, Tails DEF SendingLabel, EndingNext, Call
  <2> QED
    BY <1>2, <2>1, AtTheEnd DEF UserOwes, Ending
<1> QED
  BY <1>1, <1>2, Heads

LEMMA QuietCall ==
  ASSUME NEW c, NEW s, NEW o, NEW t, NEW p, UserOwes(c, s, o, t, p),
         c # << >>, Head(c).op \in QuietOps
  PROVE  UserOwes(Tail(c), s, o, t, p)
<1>1. Quiet(c) /\ Agree(s, o, t, p)
  BY Heads
<1>2. Quiet(Tail(c))
  <2>1. CASE \E a : c = <<a>> /\ a.op \in QuietOps
    BY <2>1, Tails DEF Quiet
  <2>2. ASSUME NEW a, NEW b, c = <<a, b>>, b.op \in QuietOps
        PROVE  Quiet(Tail(c))
    <3>1. Tail(c) = <<b>>
      BY <2>2, Tails
    <3> QED
      BY <2>2, <3>1 DEF Quiet
  <2>3. ASSUME NEW a, NEW b, NEW e, c = <<a, b, e>>, b.op \in QuietOps, e.op \in QuietOps
        PROVE  Quiet(Tail(c))
    <3>1. Tail(c) = <<b, e>>
      BY <2>3, Tails
    <3> QED
      BY <2>3, <3>1 DEF Quiet
  <2> QED
    BY <1>1, <2>1, <2>2, <2>3 DEF Quiet
<1> QED
  BY <1>1, <1>2 DEF UserOwes, Untouched

(***************************************************************************)
(* Disturbances from outside                                               *)
(***************************************************************************)
LEMMA GameStarts ==
  ASSUME NEW c, NEW s, NEW o, NEW t, NEW p
  PROVE  /\ UserOwes(c, s, o, t, p) => UserOwes(c, "in_game", o, t, p)
         /\ Agree(s, o, t, p) => Agree("in_game", o, t, p)
<1>1. Agree(s, o, t, p) => Agree("in_game", o, t, p)
  BY Distinct DEF Agree
<1>2. Prompting(c, s, t, p) => Prompting(c, "in_game", t, p)
  BY DEF Prompting
<1>3. Closing(c, s) => Closing(c, "in_game")
  BY DEF Closing
<1>4. Directing(c, s) => Directing(c, "in_game")
  BY DEF Directing, DirectingThen
<1>5. Ending(c, s) => Ending(c, "in_game")
  BY DEF Ending, EndingThen
<1> QED
  BY <1>1, <1>2, <1>3, <1>4, <1>5 DEF UserOwes

LEMMA KeysGo ==
  ASSUME NEW c, NEW s, NEW o, NEW t, NEW p
  PROVE  /\ UserOwes(c, s, o, t, p) => UserOwes(c, s, o, None, p) /\ UserOwes(c, s, o, t, None)
         /\ Agree(s, o, t, p) => Agree(s, o, None, p) /\ Agree(s, o, t, None)
<1>1. Agree(s, o, t, p) => Agree(s, o, None, p) /\ Agree(s, o, t, None)
  BY DEF Agree, About
<1>2. Prompting(c, s, t, p) => Prompting(c, s, None, p) /\ Prompting(c, s, t, None)
  BY DEF Prompting, About
<1>3. Labelling(c, p) => Labelling(c, None)
  BY DEF Labelling, LabellingNext
<1> QED
  BY <1>1, <1>2, <1>3 DEF UserOwes

LEMMA AdminCall ==
  ASSUME NEW c, NEW a, NEW w, AdminOwes(c, a, w)
  PROVE  /\ c # << >> /\ Head(c).op \in {"adminSet", "confirm", "execute"}
         /\ Head(c).op = "adminSet" =>
               AdminOwes(Tail(c), Head(c).who, w) \/ (Tail(c) = << >> /\ Shown(Head(c).who, w))
         /\ Head(c).op = "confirm" => Tail(c) = << >> /\ Shown(a, Head(c).who)
         /\ Head(c).op = "execute" => Tail(c) = << >> /\ Shown(a, None) /\ w = Head(c).who
<1> USE Tails DEF Call, SetAdmin
<1>1. ASSUME NEW op, c = <<SetAdmin(op), Call("confirm", None, op)>>
      PROVE  Head(c).op = "adminSet" /\ AdminOwes(Tail(c), Head(c).who, w) /\ c # << >>
  BY <1>1 DEF AdminOwes
<1>2. ASSUME NEW op, c = <<Call("confirm", None, op)>>, a = op
      PROVE  Head(c).op = "confirm" /\ Tail(c) = << >> /\ Shown(a, Head(c).who) /\ c # << >>
  BY <1>2 DEF Shown
<1>3. ASSUME NEW op, c = <<SetAdmin(op)>>, ~AwaitingConfirmation(op)
      PROVE  Head(c).op = "adminSet" /\ Tail(c) = << >> /\ Shown(Head(c).who, w) /\ c # << >>
  BY <1>3 DEF Shown
<1>4. ASSUME NEW op, c = <<SetAdmin(None), Call("execute", None, op)>>, w = op
      PROVE  Head(c).op = "adminSet" /\ AdminOwes(Tail(c), Head(c).who, w) /\ c # << >>
  BY <1>4 DEF AdminOwes
<1>5. ASSUME NEW op, c = <<Call("execute", None, op)>>, w = op, a = None
      PROVE  /\ Head(c).op = "execute" /\ Tail(c) = << >> /\ Shown(a, None) /\ c # << >>
             /\ w = Head(c).who
  BY <1>5 DEF Shown
<1> HIDE DEF Call, SetAdmin
<1>6. CASE \E op : c = <<SetAdmin(op), Call("confirm", None, op)>>
  <2>1. PICK op : c = <<SetAdmin(op), Call("confirm", None, op)>>
    BY <1>6
  <2>2. Head(c).op = "adminSet" /\ AdminOwes(Tail(c), Head(c).who, w) /\ c # << >>
    BY <1>1, <2>1
  <2> QED
    BY <2>2
<1>7. CASE \E op : c = <<Call("confirm", None, op)>> /\ a = op
  BY <1>2, <1>7
<1>8. CASE \E op : c = <<SetAdmin(op)>> /\ op # None /\ ~AwaitingConfirmation(op)
  BY <1>3, <1>8
<1>9. CASE \E op : c = <<SetAdmin(None), Call("execute", None, op)>> /\ w = op
  <2>1. PICK op : c = <<SetAdmin(None), Call("execute", None, op)>> /\ w = op
    BY <1>9
  <2>2. Head(c).op = "adminSet" /\ AdminOwes(Tail(c), Head(c).who, w) /\ c # << >>
    BY <1>4, <2>1
  <2> QED
    BY <2>2
<1>10. CASE \E op : c = <<Call("execute", None, op)>> /\ w = op /\ a = None
  BY <1>5, <1>10
<1> QED
  BY <1>6, <1>7, <1>8, <1>9, <1>10 DEF AdminOwes

(***************************************************************************)
(* The inductive invariant                                                 *)
(***************************************************************************)
\* What the bot has noted of u: games, and what ends games and chats, count for
\* one note, whatever they wrote.
Note(u) == IF u \in taken THEN "in_game" ELSE state[u]

\* No handler of u is running, or one is and owes the calls c.
Settled(u) ==
    /\ Agree(Note(u), open[u], dmTarget[u], pending[u])
    /\ u \in Admins => Shown(adminPending[u], shown[u])

Owing(u, c) ==
    \/ /\ UserOwes(c, Note(u), open[u], dmTarget[u], pending[u])
       /\ u \in Admins => Shown(adminPending[u], shown[u])
    \/ /\ u \in Admins /\ AdminOwes(c, adminPending[u], shown[u])
       /\ Agree(Note(u), open[u], dmTarget[u], pending[u])

\* A handler that is to read the user its question is about.
Reading(u, q) == Settled(u) /\ open[u] # None /\ open[u].q = q

JobFine(j) ==
    \/ j = Idle
    \/ j.by \in Users /\ \/ j.read \in {"sending_dm", "add_contact_label"} /\ j.calls = << >>
                            /\ Reading(j.by, j.read)
                         \/ j.read = None /\ j.calls # << >> /\ Owing(j.by, j.calls)

Types ==
    /\ state = [u \in Users |-> state[u]]
    /\ \A u \in Users : /\ u \in taken => state[u] \in {"in_game", None}
                        /\ state[u] = "in_game" => u \in taken
    /\ dmTarget \in [Users -> Users \cup {None}]
    /\ pending \in [Users -> Users \cup {None}]
    /\ profile = [u \in Users |-> profile[u]] /\ \A u \in Users : profile[u].stage \in Stages
    /\ adminPending = [a \in Admins |-> adminPending[a]]
    /\ open \in [Users -> Asked \cup {None}]
    /\ shown = [a \in Admins |-> shown[a]]
    /\ job = [h \in Handlers |-> job[h]]

Apart == \A g, h \in Handlers : g # h /\ job[g].by # None => job[g].by # job[h].by

Inv ==
    /\ ~Overlap /\ Types /\ Apart
    /\ \A h \in Handlers : JobFine(job[h])
    /\ \A u \in Users : (\A h \in Handlers : job[h].by # u) => Settled(u)

\* What may happen to a user during a step of somebody else's handler.
Undisturbed(v) ==
    /\ Note(v)' \in {Note(v), "in_game"}
    /\ dmTarget'[v] \in {dmTarget[v], None} /\ pending'[v] \in {pending[v], None}
    /\ open'[v] = open[v]
    /\ v \in Admins => adminPending'[v] = adminPending[v] /\ shown'[v] = shown[v]

LEMMA Keeps ==
  ASSUME NEW v, Undisturbed(v)
  PROVE  /\ Settled(v) => Settled(v)'
         /\ \A c : Owing(v, c) => Owing(v, c)'
         /\ \A q : Reading(v, q) => Reading(v, q)'
<1>1. \A c : UserOwes(c, Note(v), open[v], dmTarget[v], pending[v])
             => UserOwes(c, Note(v)', open'[v], dmTarget'[v], pending'[v])
  BY GameStarts, KeysGo DEF Undisturbed
<1>2. Agree(Note(v), open[v], dmTarget[v], pending[v])
      => Agree(Note(v)', open'[v], dmTarget'[v], pending'[v])
  BY GameStarts, KeysGo DEF Undisturbed
<1>3. v \in Admins => Shown(adminPending[v], shown[v]) = Shown(adminPending'[v], shown'[v])
  BY DEF Undisturbed
<1>4. Settled(v) => Settled(v)'
  BY <1>2, <1>3 DEF Settled
<1>5. \A c : Owing(v, c) => Owing(v, c)'
  BY <1>1, <1>2, <1>3 DEF Owing, Undisturbed
<1> QED
  BY <1>4, <1>5 DEF Reading, Undisturbed

\* An empty list owes nothing: the notes agree.
LEMMA NothingOwed ==
  /\ \A s, o, t, p : UserOwes(<< >>, s, o, t, p) => Agree(s, o, t, p)
  /\ \A a, w : ~AdminOwes(<< >>, a, w)
<1>1. ASSUME NEW s, NEW o, NEW t, NEW p, UserOwes(<< >>, s, o, t, p)
      PROVE  Agree(s, o, t, p)
  <2> USE Tails
  <2>1. ~Turning(<< >>)
    BY DEF Turning, Asking, Clearing
  <2>2. ~Prompting(<< >>, s, t, p) /\ ~Closing(<< >>, s)
    BY DEF Prompting, Closing
  <2>3. ~Directing(<< >>, s) /\ ~Labelling(<< >>, p)
    BY DEF Directing, DirectingNext, DirectingThen, Labelling, LabellingFirst, LabellingNext
  <2>4. ~Ending(<< >>, s)
    BY DEF Ending, EndingNext, EndingThen
  <2> QED
    BY <1>1, <2>1, <2>2, <2>3, <2>4 DEF UserOwes
<1>2. \A a, w : ~AdminOwes(<< >>, a, w)
  BY AdminCall
<1> QED
  BY <1>1, <1>2

\* A note that asks for an answer is the state itself.
LEMMA NoteIsState ==
  ASSUME Inv, NEW u \in Users, state[u] \in Typed PROVE Note(u) = state[u]
  BY Distinct DEF Inv, Types, Note

LEMMA InvInit == ~Overlap /\ Init => Inv
<1> SUFFICES ASSUME ~Overlap, Init PROVE Inv
  OBVIOUS
<1> USE DEF Init
<1>1. Types
  BY ConversationAssumption DEF Types, Profile
<1>2. \A h \in Handlers : job[h] = Idle
  OBVIOUS
<1>3. Apart /\ \A h \in Handlers : JobFine(job[h])
  BY <1>2 DEF Apart, JobFine, Idle
<1>4. ASSUME NEW u \in Users PROVE Settled(u)
  <2>1. Note(u) = None /\ open[u] = None
    BY DEF Note
  <2>2. u \in Admins => adminPending[u] = None
    OBVIOUS
  <2> QED
    BY <2>1, <2>2, Distinct DEF Settled, Agree, Shown
<1> QED
  BY <1>1, <1>3, <1>4 DEF Inv

\* A step of the handler h of u, after which it has nothing more to do or j.
LEMMA OneHandler ==
  ASSUME Inv, NEW h \in Handlers, NEW u \in Users, NEW j,
         job[h].by = u \/ (job[h] = Idle /\ \A g \in Handlers : job[g].by # u),
         job' = [job EXCEPT ![h] = j],
         (j = Idle /\ Settled(u)') \/ (j.by = u /\ JobFine(j)'),
         \A v \in Users \ {u} : Undisturbed(v),
         Types'
  PROVE  Inv'
<1> USE DEF Inv
<1>1. job'[h] = j /\ \A g \in Handlers \ {h} : job'[g] = job[g]
  BY DEF Types
<1>2. \A g \in Handlers \ {h} : job[g].by # u
  BY ConversationAssumption DEF Apart
<1>3. \A g \in Handlers : JobFine(job[g])'
  <2> TAKE g \in Handlers
  <2>1. CASE g = h
    BY <1>1, <2>1 DEF JobFine
  <2>2. CASE g # h /\ job[g] # Idle
    <3>1. job[g].by \in Users \ {u}
      BY <1>2, <2>2 DEF JobFine
    <3>2. PICK v, c, q : v \in Users \ {u} /\ v = job[g].by /\ c = job[g].calls /\ q = job[g].read
      BY <3>1
    <3>3. (Owing(v, c) => Owing(v, c)') /\ (Reading(v, q) => Reading(v, q)')
      BY <3>2, Keeps
    <3>4. JobFine(job[g])
      OBVIOUS
    <3>5. /\ job'[g] = job[g] /\ job[g] # Idle
          /\ \/ /\ q \in {"sending_dm", "add_contact_label"} /\ c = << >> /\ Reading(v, q)
             \/ /\ q = None /\ c # << >> /\ Owing(v, c)
      BY <1>1, <2>2, <3>2, <3>4 DEF JobFine
    <3> QED
      BY <3>2, <3>3, <3>5 DEF JobFine
  <2>3. CASE g # h /\ job[g] = Idle
    BY <1>1, <2>3 DEF JobFine
  <2> QED
    BY <2>1, <2>2, <2>3
<1>4. Apart'
  <2>1. j.by \in {u, None}
    BY DEF Idle
  <2> QED
    BY <1>1, <1>2, <2>1 DEF Apart
<1>5. ASSUME NEW v \in Users, \A g \in Handlers : job'[g].by # v
      PROVE  Settled(v)'
  <2>1. CASE v = u
    BY <1>1, <1>5, <2>1
  <2>2. CASE v # u
    <3>1. \A g \in Handlers : job[g].by # v
      BY <1>1, <1>5, <2>2, ConversationAssumption DEF Idle
    <3> QED
      BY <2>2, <3>1, Keeps
  <2> QED
    BY <2>1, <2>2
<1> QED
  BY <1>3, <1>4, <1>5

(***************************************************************************)
(* The lists handlers start with                                           *)
(***************************************************************************)
LEMMA ProfileLists ==
  \A stage \in Stages : LET c == askNextProfileQuestion(stage) IN c = << >> \/ Turning(c)
<1> SUFFICES ASSUME NEW stage \in Stages
             PROVE  LET c == askNextProfileQuestion(stage) IN c = << >> \/ Turning(c)
  OBVIOUS
<1>1. "completing_age" \in Plain /\ "completing_province" \in Plain
  BY DEF Plain, Typed, Questions, Completing
<1>2. CASE stage = "need_gender"
  BY <1>2 DEF askNextProfileQuestion
<1>3. CASE stage = "need_age"
  BY <1>1, <1>3 DEF askNextProfileQuestion, Turning, Asking
<1>4. CASE stage = "need_province"
  BY <1>1, <1>4 DEF askNextProfileQuestion, Turning, Asking
<1>5. CASE stage = "complete"
  BY <1>5 DEF askNextProfileQuestion, Turning, Clearing
<1> QED
  BY <1>2, <1>3, <1>4, <1>5 DEF Stages

LEMMA OptionalLists == \A filled : Turning(askNextOptionalField(filled))
<1> SUFFICES ASSUME NEW filled PROVE Turning(askNextOptionalField(filled))
  OBVIOUS
<1> DEFINE missing == {i \in 1..4 : Optional[i] \notin filled}
           first == CHOOSE i \in missing : \A j \in missing : i <= j
           q == OptionalStates[first]
<1>1. CASE missing = {}
  BY <1>1 DEF askNextOptionalField, Turning, Clearing
<1>2. CASE missing # {}
  <2>1. \E i \in missing : \A j \in missing : i <= j
    <3>1. missing \subseteq 1..4
      OBVIOUS
    <3> HIDE DEF missing
    <3>2. CASE 1 \in missing
      BY <3>1, <3>2
    <3>3. CASE 1 \notin missing /\ 2 \in missing
      BY <3>1, <3>3
    <3>4. CASE 1 \notin missing /\ 2 \notin missing /\ 3 \in missing
      BY <3>1, <3>4
    <3>5. CASE 1 \notin missing /\ 2 \notin missing /\ 3 \notin missing
      <4>1. \A i \in missing : i = 4
        BY <3>1, <3>5
      <4> QED
        BY <1>2, <4>1
    <3> QED
      BY <3>2, <3>3, <3>4, <3>5
  <2>2. first \in 1..4
    <3>1. first \in missing
      BY <2>1
    <3> QED
      BY <3>1
  <2>3. q \in {"optional_name", "optional_city", "optional_photo", "optional_gps"}
    <3> HIDE DEF first
    <3>1. first = 1 \/ first = 2 \/ first = 3 \/ first = 4
      BY <2>2
    <3> QED
      BY <3>1 DEF OptionalStates
  <2>4. q \in Plain
    BY <2>3 DEF Plain, Typed, Questions, Filling, PhotoStates, GPSStates
  <2>5. askNextOptionalField(filled) = <<SetUserState(q), Prompt(q, None)>>
    BY <1>2 DEF askNextOptionalField
  <2> QED
    BY <2>4, <2>5 DEF Turning, Asking
<1> QED
  BY <1>1, <1>2

LEMMA Joined ==
  ASSUME NEW x, NEW a, NEW b
  PROVE  <<x>> \o <<a, b>> = <<x, a, b>>
<1> DEFINE S == {x, a, b}
<1>1. <<x>> \in Seq(S) /\ <<a, b>> \in Seq(S) /\ <<x, a, b>> \in Seq(S)
  OBVIOUS
<1>2. <<x>> \o <<a, b>> \in Seq(S) /\ Len(<<x>> \o <<a, b>>) = 3
  BY <1>1
<1>3. \A i \in 1..3 : (<<x>> \o <<a, b>>)[i] = <<x, a, b>>[i]
  BY <1>1
<1>4. Len(<<x, a, b>>) = 3
  OBVIOUS
<1> QED
  BY <1>1, <1>2, <1>3, <1>4, SeqEqual

\* Calls that follow the save of an answer.
LEMMA SaveFirst ==
  ASSUME NEW q, NEW f, NEW d, NEW s, NEW o, NEW t, NEW p, Agree(s, o, t, p),
         d = << >> \/ Turning(d),
         q \notin {None, "editing_gender"} => o # None /\ o.q = q
  PROVE  UserOwes(<<SaveField(q, f)>> \o d, s, o, t, p)
<1> DEFINE c == <<SaveField(q, f)>> \o d
<1>1. c # << >> /\ Head(c) = SaveField(q, f) /\ Tail(c) = d
  <2>1. CASE d = << >>
    BY <2>1
  <2>2. ASSUME NEW a, NEW b, d = <<a, b>>
        PROVE  c # << >> /\ Head(c) = SaveField(q, f) /\ Tail(c) = d
    <3>1. c = <<SaveField(q, f), a, b>>
      BY <2>2, Joined
    <3> HIDE DEF c
    <3> QED
      BY <2>2, <3>1, Tails
  <2> QED
    BY <2>1, <2>2 DEF Turning, Asking, Clearing
<1> HIDE DEF c
<1>2. Saving(c, o)
  <2>1. Head(c).op = "save" /\ Head(c).q = q
    BY <1>1 DEF SaveField, Call
  <2> QED
    BY <1>1, <2>1 DEF Saving
<1>3. UserOwes(c, s, o, t, p)
  BY <1>2 DEF UserOwes, Untouched
<1> QED
  BY <1>3 DEF c

LEMMA EditLists ==
  ASSUME NEW q, NEW f, NEW fits, NEW s, NEW o, NEW t, NEW p, Agree(s, o, t, p),
         q \notin {None, "editing_gender"} => o # None /\ o.q = q
  PROVE  UserOwes(HandleEdit(q, f, fits), s, o, t, p)
<1>1. CASE fits
  <2>1. HandleEdit(q, f, fits) = <<SaveField(q, f)>> \o <<ClearUserState, Close>>
    BY <1>1 DEF HandleEdit
  <2> QED
    BY <2>1, SaveFirst DEF Turning, Clearing
<1>2. CASE ~fits
  BY <1>2, AtTheEnd DEF HandleEdit
<1> QED
  BY <1>1, <1>2

\* One call that no note depends on, or two.
LEMMA QuietLists ==
  ASSUME NEW s, NEW o, NEW t, NEW p, Agree(s, o, t, p)
  PROVE  /\ \A op \in QuietOps : \A q, w : UserOwes(<<Call(op, q, w)>>, s, o, t, p)
         /\ \A op \in QuietOps : \A v, w :
              UserOwes(<<Call(op, None, v), Call(op, None, w)>>, s, o, t, p)
         /\ \A op \in QuietOps, f \in QuietOps : \A x, v, w :
              UserOwes(<<Call(op, None, x), Call(f, None, v), Call(f, None, w)>>, s, o, t, p)
<1>1. ASSUME NEW op \in QuietOps, NEW q, NEW w
      PROVE  Quiet(<<Call(op, q, w)>>)
  <2>1. Call(op, q, w).op \in QuietOps
    BY DEF Call
  <2> QED
    BY <2>1 DEF Quiet
<1>2. ASSUME NEW op \in QuietOps, NEW v, NEW w
      PROVE  Quiet(<<Call(op, None, v), Call(op, None, w)>>)
  <2>1. Call(op, None, v).op \in QuietOps /\ Call(op, None, w).op \in QuietOps
    BY DEF Call
  <2> QED
    BY <2>1 DEF Quiet
<1>3. ASSUME NEW op \in QuietOps, NEW f \in QuietOps, NEW x, NEW v, NEW w
      PROVE  Quiet(<<Call(op, None, x), Call(f, None, v), Call(f, None, w)>>)
  <2>1. /\ Call(op, None, x).op \in QuietOps /\ Call(f, None, v).op \in QuietOps
        /\ Call(f, None, w).op \in QuietOps
    BY DEF Call
  <2> QED
    BY <2>1 DEF Quiet
<1> QED
  BY <1>1, <1>2, <1>3 DEF UserOwes, Untouched

(***************************************************************************)
(* A handler begins                                                        *)
(***************************************************************************)
LEMMA Ready ==
  ASSUME Inv, NEW h \in Handlers, NEW u \in Users, MayStart(h, u)
  PROVE  Settled(u) /\ job[h] = Idle /\ \A g \in Handlers : job[g].by # u
  BY DEF Inv, MayStart

\* The handler of u has read, changed nothing, and owes c.
LEMMA Pressed ==
  ASSUME Inv, NEW h \in Handlers, NEW u \in Users, NEW c, Press(h, u, c), Owing(u, c)
  PROVE  Inv'
<1> DEFINE j == IF c = << >> THEN Idle ELSE [by |-> u, read |-> None, calls |-> c]
<1>1. /\ Settled(u) /\ job[h] = Idle /\ \A g \in Handlers : job[g].by # u
      /\ job' = [job EXCEPT ![h] = j]
      /\ UNCHANGED <<stored, open, taken, shown>>
  BY Ready DEF Press, Owes
<1>2. \A v : Undisturbed(v)
  BY <1>1 DEF Undisturbed, Note, stored
<1>3. Types'
  BY <1>1 DEF Types, Inv, stored
<1>4. Settled(u)' /\ Owing(u, c)'
  BY <1>1, <1>2, Keeps
<1>5. (j = Idle /\ Settled(u)') \/ (j.by = u /\ JobFine(j)')
  BY <1>4 DEF JobFine
<1> HIDE DEF j
<1> QED
  BY <1>1, <1>2, <1>3, <1>5, OneHandler

\* Its calls are the user's own, or an admin's.
LEMMA UserPressed ==
  ASSUME Inv, NEW h \in Handlers, NEW u \in Users, NEW c, Press(h, u, c),
         Agree(Note(u), open[u], dmTarget[u], pending[u])
           => UserOwes(c, Note(u), open[u], dmTarget[u], pending[u])
  PROVE  Inv'
<1>1. Settled(u)
  BY Ready DEF Press
<1>2. Owing(u, c)
  BY <1>1 DEF Owing, Settled
<1> QED
  BY <1>2, Pressed

LEMMA AdminPressed ==
  ASSUME Inv, NEW h \in Handlers, NEW u \in Admins, NEW c, Press(h, u, c),
         Shown(adminPending[u], shown[u]) => AdminOwes(c, adminPending[u], shown[u])
  PROVE  Inv'
<1>0. u \in Users
  BY ConversationAssumption
<1>1. Settled(u)
  BY <1>0, Ready DEF Press
<1>2. Owing(u, c)
  BY <1>1 DEF Owing, Settled
<1> QED
  BY <1>0, <1>2, Pressed

\* A handler whose list is empty has only refused.
LEMMA NothingPressed ==
  ASSUME Inv, NEW h \in Handlers, NEW u \in Users, Press(h, u, << >>)
  PROVE  Inv'
  BY AtTheEnd, UserPressed

LEMMA TurningPressed ==
  ASSUME Inv, NEW h \in Handlers, NEW u \in Users, NEW c, Press(h, u, c), Turning(c)
  PROVE  Inv'
  BY UserPressed DEF UserOwes

LEMMA QuietPressed ==
  ASSUME Inv, NEW h \in Handlers, NEW u \in Users, NEW op \in QuietOps, NEW w,
         Press(h, u, <<Call(op, None, w)>>)
  PROVE  Inv'
  BY QuietLists, UserPressed

(***************************************************************************)
(* A handler makes its next call                                           *)
(***************************************************************************)
LEMMA Working ==
  ASSUME Inv, NEW h \in Handlers, job[h].calls # << >>
  PROVE  /\ job[h].by \in Users
         /\ Owing(job[h].by, job[h].calls)
  BY DEF Inv, JobFine, Idle

LEMMA CallDone ==
  ASSUME Inv, NEW h \in Handlers, NEW u \in Users, NEW c, job[h].by = u, Owes(h, u, c), Types',
         \A v \in Users \ {u} : Undisturbed(v),
         Owing(u, c)'
  PROVE  Inv'
<1> DEFINE j == IF c = << >> THEN Idle ELSE [by |-> u, read |-> None, calls |-> c]
<1>1. job' = [job EXCEPT ![h] = j]
  BY DEF Owes
<1>2. c = << >> => Settled(u)'
  BY NothingOwed DEF Owing, Settled
<1>3. (j = Idle /\ Settled(u)') \/ (j.by = u /\ JobFine(j)')
  BY <1>1, <1>2 DEF JobFine
<1> HIDE DEF j
<1> QED
  BY <1>1, <1>3, OneHandler

(***************************************************************************)
(* Each handler                                                            *)
(***************************************************************************)
LEMMA ProfileSteps ==
  ASSUME Inv, NEW h \in Handlers, NEW u \in Users,
         \/ StartHandler(h, u) \/ HandleGenderCallback(h, u) \/ StartOptionalHandler(h, u)
         \/ \E q \in Questions : EditHandler(h, u, q)
         \/ EditGenderHandler(h, u) \/ SetGenderHandler(h, u) \/ CancelHandler(h, u)
  PROVE  Inv'
<1>1. CASE StartHandler(h, u)
  <2>1. CASE IsProfileComplete(profile[u])
    <3>1. Turning(<<ClearUserState, Close>>)
      BY DEF Turning, Clearing
    <3> QED
      BY <1>1, <2>1, <3>1, TurningPressed DEF StartHandler
  <2>2. CASE ~IsProfileComplete(profile[u])
    <3>1. profile[u].stage \in Stages
      BY DEF Inv, Types
    <3>2. PICK c : c = askNextProfileQuestion(profile[u].stage)
      OBVIOUS
    <3>3. (c = << >> \/ Turning(c)) /\ Press(h, u, c)
      BY <1>1, <2>2, <3>1, <3>2, ProfileLists DEF StartHandler
    <3> QED
      BY <3>3, TurningPressed, NothingPressed
  <2> QED
    BY <2>1, <2>2
<1>2. CASE HandleGenderCallback(h, u)
  <2>1. "need_age" \in Stages
    BY DEF Stages
  <2>2. PICK d : d = askNextProfileQuestion("need_age") /\ (d = << >> \/ Turning(d))
    BY <2>1, ProfileLists
  <2>3. \A s, o, t, p : Agree(s, o, t, p) => UserOwes(<<SaveField(None, "gender")>> \o d, s, o, t, p)
    BY <2>2, SaveFirst
  <2> QED
    BY <1>2, <2>2, <2>3, UserPressed DEF HandleGenderCallback
<1>3. CASE StartOptionalHandler(h, u)
  BY <1>3, OptionalLists, TurningPressed DEF StartOptionalHandler
<1>4. ASSUME NEW q \in Questions, EditHandler(h, u, q)
      PROVE  Inv'
  <2>1. q \in Plain
    BY <1>4 DEF EditHandler, Plain, Typed, Editing
  <2>2. Turning(<<SetUserState(q), Prompt(q, None)>>)
    BY <2>1 DEF Turning, Asking
  <2> QED
    BY <1>4, <2>2, TurningPressed DEF EditHandler
<1>5. CASE EditGenderHandler(h, u)
  BY <1>5, TurningPressed DEF EditGenderHandler, Turning
<1>6. CASE SetGenderHandler(h, u)
  <2>1. PICK d : d = << >>
    OBVIOUS
  <2>2. <<SaveField(None, "gender")>> \o d = <<SaveField(None, "gender")>>
    BY <2>1
  <2>3. \A s, o, t, p : Agree(s, o, t, p) => UserOwes(<<SaveField(None, "gender")>>, s, o, t, p)
    BY <2>1, <2>2, SaveFirst
  <2> QED
    BY <1>6, <2>3, UserPressed DEF SetGenderHandler
<1>7. CASE CancelHandler(h, u)
  BY <1>7, TurningPressed DEF CancelHandler, Cancel, Turning, Clearing
<1> QED
  BY <1>1, <1>2, <1>3, <1>4, <1>5, <1>6, <1>7

LEMMA OtherUserSteps ==
  ASSUME Inv, NEW h \in Handlers, NEW u \in Users, NEW v \in Users,
         \/ DMHandler(h, u, v) \/ AddContactHandler(h, u, v) \/ RemoveContactHandler(h, u, v)
         \/ BlockHandler(h, u, v) \/ UnblockHandler(h, u, v)
         \/ ChatRequestHandler(h, u, v) \/ AcceptChatHandler(h, u, v)
         \/ StartGame(h, u, v) \/ EndGame(h, u, v) \/ ConfirmEndChatHandler(h, u)
  PROVE  Inv'
<1> USE DEF QuietOps
<1>1. CASE DMHandler(h, u, v)
  <2>1. PICK c : c = <<SetUserState("sending_dm"), Target(v), Prompt("sending_dm", v)>>
    OBVIOUS
  <2>2. DirectingNext(c)
    BY <2>1 DEF DirectingNext
  <2>3. \A s, o, t, p : UserOwes(c, s, o, t, p)
    BY <2>2 DEF UserOwes, Directing
  <2> QED
    BY <1>1, <2>1, <2>3, UserPressed DEF DMHandler, Target
<1>2. CASE AddContactHandler(h, u, v)
  <2>1. PICK c : c = <<Contact(v), SetUserState("add_contact_label"), Prompt("add_contact_label", v)>>
    OBVIOUS
  <2>2. LabellingFirst(c)
    BY <2>1 DEF LabellingFirst
  <2>3. \A s, o, t, p : UserOwes(c, s, o, t, p)
    BY <2>2 DEF UserOwes, Labelling
  <2> QED
    BY <1>2, <2>1, <2>3, UserPressed DEF AddContactHandler, Contact
<1>3. CASE RemoveContactHandler(h, u, v)
  BY <1>3, QuietPressed DEF RemoveContactHandler
<1>4. CASE BlockHandler(h, u, v)
  BY <1>4, QuietPressed DEF BlockHandler
<1>5. CASE UnblockHandler(h, u, v)
  BY <1>5, QuietPressed DEF UnblockHandler
<1>6. CASE ChatRequestHandler(h, u, v)
  BY <1>6, QuietPressed, NothingPressed DEF ChatRequestHandler
<1>7. CASE AcceptChatHandler(h, u, v)
  BY <1>7, QuietPressed DEF AcceptChatHandler
<1>8. CASE StartGame(h, u, v)
  BY <1>8, QuietLists, UserPressed DEF StartGame
<1>9. CASE EndGame(h, u, v)
  BY <1>9, QuietLists, UserPressed DEF EndGame
<1>10. CASE ConfirmEndChatHandler(h, u)
  BY <1>10, QuietLists, UserPressed DEF ConfirmEndChatHandler
<1> QED
  BY <1>1, <1>2, <1>3, <1>4, <1>5, <1>6, <1>7, <1>8, <1>9, <1>10

\* A text, a photo or a location that is taken for an answer.
LEMMA AnswerSteps ==
  ASSUME Inv, NEW h \in Handlers, NEW u \in Users, NEW fits \in BOOLEAN,
         TextAnswer(h, u, fits) \/ MediaHandler(h, u, fits) \/ LocationHandler(h, u)
  PROVE  Inv'
<1>1. PICK q : q = state[u]
  OBVIOUS
<1>2. Agree(Note(u), open[u], dmTarget[u], pending[u])
  <2>1. MayStart(h, u)
    BY DEF TextAnswer, MediaHandler, LocationHandler, Press
  <2> QED
    BY <2>1, Ready DEF Settled
<1>3. q \in Questions /\ q # "editing_gender" => open[u] # None /\ open[u].q = q
  BY <1>1, <1>2, NoteIsState DEF Agree, Typed
<1>4. ASSUME NEW c, Press(h, u, c),
             UserOwes(c, Note(u), open[u], dmTarget[u], pending[u])
      PROVE  Inv'
  BY <1>4, UserPressed
<1>5. ASSUME NEW f, NEW fit, q \in Questions, Press(h, u, HandleEdit(q, f, fit))
      PROVE  Inv'
  <2>1. UserOwes(HandleEdit(q, f, fit), Note(u), open[u], dmTarget[u], pending[u])
    BY <1>2, <1>3, <1>5, EditLists
  <2> QED
    BY <1>4, <1>5, <2>1
<1>6. CASE TextAnswer(h, u, fits)
  <2>1. CASE q \in DOMAIN Completing /\ Press(h, u, IF fits THEN handleProfileCompletion(profile[u], q) ELSE << >>)
    <3>1. CASE ~fits
      BY <2>1, <3>1, NothingPressed
    <3>2. CASE fits
      <4>1. UpdateField(profile[u], Completing[q]).stage \in Stages
        BY <2>1 DEF Completing, UpdateField, Stages
      <4>2. PICK d : d = askNextProfileQuestion(UpdateField(profile[u], Completing[q]).stage)
        OBVIOUS
      <4>3. d = << >> \/ Turning(d)
        BY <4>1, <4>2, ProfileLists
      <4>4. q \in Questions
        BY <2>1 DEF Questions
      <4>5. UserOwes(<<SaveField(q, Completing[q])>> \o d, Note(u), open[u], dmTarget[u], pending[u])
        BY <1>2, <1>3, <4>3, <4>4, SaveFirst
      <4>6. Press(h, u, <<SaveField(q, Completing[q])>> \o d)
        BY <2>1, <3>2, <4>2 DEF handleProfileCompletion
      <4> QED
        BY <1>4, <4>5, <4>6
    <3> QED
      BY <3>1, <3>2
  <2>2. CASE q \in DOMAIN Filling /\ Press(h, u, IF fits THEN handleOptionalField(profile[u], q) ELSE << >>)
    <3>1. CASE ~fits
      BY <2>2, <3>1, NothingPressed
    <3>2. CASE fits
      <4>1. PICK d : d = askNextOptionalField(UpdateField(profile[u], Filling[q]).filled)
        OBVIOUS
      <4>2. Turning(d)
        BY <4>1, OptionalLists
      <4>3. q \in Questions
        BY <2>2 DEF Questions
      <4>4. UserOwes(<<SaveField(q, Filling[q])>> \o d, Note(u), open[u], dmTarget[u], pending[u])
        BY <1>2, <1>3, <4>2, <4>3, SaveFirst
      <4>5. Press(h, u, <<SaveField(q, Filling[q])>> \o d)
        BY <2>2, <3>2, <4>1 DEF handleOptionalField
      <4> QED
        BY <1>4, <4>4, <4>5
    <3> QED
      BY <3>1, <3>2
  <2>3. CASE q \in DOMAIN Editing /\ Press(h, u, HandleEdit(q, Editing[q], fits))
    BY <1>5, <2>3 DEF Questions
  <2> QED
    BY <1>1, <1>6, <2>1, <2>2, <2>3 DEF TextAnswer
<1>7. CASE MediaHandler(h, u, fits)
  <2>1. CASE q \in PhotoStates /\ Press(h, u, HandleEdit(q, "photo", fits))
    BY <1>5, <2>1 DEF Questions
  <2>2. CASE Press(h, u, <<Call("forward", None, chat[u])>>)
    BY <2>2, QuietPressed DEF QuietOps
  <2> QED
    BY <1>1, <1>7, <2>1, <2>2 DEF MediaHandler
<1>8. CASE LocationHandler(h, u)
  BY <1>1, <1>5, <1>8 DEF LocationHandler, Questions
<1> QED
  BY <1>6, <1>7, <1>8

LEMMA RemainingSteps ==
  ASSUME Inv, NEW h \in Handlers, NEW u \in Users,
         \/ setSilent(h, u) \/ DeleteAllContactsHandler(h, u) \/ DeleteAllBlocksHandler(h, u)
         \/ TextForOther(h, u) \/ TextToPartner(h, u)
  PROVE  Inv'
<1> USE DEF QuietOps
<1>1. CASE setSilent(h, u)
  <2>1. PICK op \in QuietOps : op = IF u \in silent THEN "loud" ELSE "silent"
    OBVIOUS
  <2> QED
    BY <1>1, <2>1, QuietPressed DEF setSilent
<1>2. CASE DeleteAllContactsHandler(h, u)
  BY <1>2, QuietPressed DEF DeleteAllContactsHandler
<1>3. CASE DeleteAllBlocksHandler(h, u)
  BY <1>3, QuietPressed DEF DeleteAllBlocksHandler
<1>4. CASE TextToPartner(h, u)
  BY <1>4, QuietPressed DEF TextToPartner
<1>5. CASE TextForOther(h, u)
  <2>1. PICK q \in {"sending_dm", "add_contact_label"} : q = state[u]
    BY <1>5 DEF TextForOther
  <2>2. PICK j : j = [by |-> u, read |-> q, calls |-> << >>]
    OBVIOUS
  <2>3. /\ MayStart(h, u) /\ job' = [job EXCEPT ![h] = j]
        /\ UNCHANGED <<stored, open, taken, shown>>
    BY <1>5, <2>1, <2>2 DEF TextForOther
  <2>4. Settled(u) /\ job[h] = Idle /\ \A g \in Handlers : job[g].by # u
    BY <2>3, Ready
  <2>5. Reading(u, q)
    BY <2>1, <2>4, Distinct, NoteIsState DEF Reading, Settled, Agree
  <2>6. \A v : Undisturbed(v)
    BY <2>3 DEF Undisturbed, Note, stored
  <2>7. Types'
    BY <2>3 DEF Types, Inv, stored
  <2>8. Reading(u, q)'
    BY <2>5, <2>6, Keeps
  <2>9. j.by = u /\ JobFine(j)'
    BY <2>2, <2>8 DEF JobFine
  <2> QED
    BY <2>3, <2>4, <2>6, <2>7, <2>9, OneHandler
<1> QED
  BY <1>1, <1>2, <1>3, <1>4, <1>5

LEMMA AdminSteps ==
  ASSUME Inv, NEW h \in Handlers, NEW u \in Admins, AdminUpdate(h, u)
  PROVE  Inv'
<1>0. u \in Users
  BY ConversationAssumption
<1>1. ASSUME NEW op, Press(h, u, <<SetAdmin(op), Call("confirm", None, op)>>)
      PROVE  Inv'
  <2>1. \A a, w : AdminOwes(<<SetAdmin(op), Call("confirm", None, op)>>, a, w)
    BY DEF AdminOwes
  <2> QED
    BY <1>1, <2>1, AdminPressed
<1>2. ASSUME NEW c \in Commands, NEW p \in Payloads \cup {None}, beginAdminAction(h, u, c, p)
      PROVE  Inv'
  <2>1. PICK op : op = [command |-> c, payload |-> p]
    OBVIOUS
  <2>2. CASE AwaitingConfirmation(op)
    BY <1>1, <1>2, <2>1, <2>2 DEF beginAdminAction, SetAdmin
  <2>3. CASE ~AwaitingConfirmation(op)
    <3>1. op # None
      BY <2>1, ConversationAssumption
    <3>2. \A a, w : AdminOwes(<<SetAdmin(op)>>, a, w)
      BY <2>3, <3>1 DEF AdminOwes
    <3>3. Press(h, u, <<SetAdmin(op)>>)
      BY <1>2, <2>1, <2>3 DEF beginAdminAction, SetAdmin
    <3> QED
      BY <3>2, <3>3, AdminPressed
  <2> QED
    BY <2>2, <2>3
<1>3. ASSUME NEW p \in Payloads, TextToAdmin(h, u, p)
      PROVE  Inv'
  <2>1. CASE AwaitingConfirmation(adminPending[u])
    BY <1>0, <1>3, <2>1, NothingPressed DEF TextToAdmin
  <2>2. CASE ~AwaitingConfirmation(adminPending[u])
    <3>1. PICK op : op = [adminPending[u] EXCEPT !.payload = p]
      OBVIOUS
    <3> QED
      BY <1>1, <1>3, <2>2, <3>1 DEF TextToAdmin, handleAdminTextInput, SetAdmin
  <2> QED
    BY <2>1, <2>2
<1>4. CASE AdminCancelCallback(h, u)
  BY <1>1, <1>4 DEF AdminCancelCallback, SetAdmin
<1>5. CASE AdminConfirmCallback(h, u)
  <2>1. PICK op : op = adminPending[u]
    OBVIOUS
  <2>2. Press(h, u, <<SetAdmin(None), Call("execute", None, op)>>)
    BY <1>5, <2>1 DEF AdminConfirmCallback, Confirm, SetAdmin
  <2>3. Shown(adminPending[u], shown[u]) => shown[u] = op
    BY <1>5, <2>1 DEF AdminConfirmCallback, Shown
  <2>4. \A a, w : w = op => AdminOwes(<<SetAdmin(None), Call("execute", None, op)>>, a, w)
    BY DEF AdminOwes
  <2> QED
    BY <2>2, <2>3, <2>4, AdminPressed
<1> QED
  BY <1>2, <1>3, <1>4, <1>5 DEF AdminUpdate

LEMMA ReadStep ==
  ASSUME Inv, NEW h \in Handlers, ReadTarget(h)
  PROVE  Inv'
<1>1. PICK u, r : u = job[h].by /\ r = job[h].read
  OBVIOUS
<1>2. r \in {"sending_dm", "add_contact_label"} /\ u \in Users /\ Reading(u, r)
  <2>1. JobFine(job[h]) /\ r \in {"sending_dm", "add_contact_label"}
    BY <1>1 DEF ReadTarget, Inv
  <2>2. r # None
    BY <2>1, Distinct
  <2> QED
    BY <1>1, <2>1, <2>2 DEF JobFine, Idle
<1>3. PICK c : c = IF r = "sending_dm" THEN handleDMMessage(u) ELSE HandleAddContactLabel(u)
  OBVIOUS
<1>4. PICK o, w : /\ o = open[u] /\ o # None /\ o.q = r /\ w = o.who
                  /\ o = [q |-> r, who |-> w] /\ About(r, w, dmTarget[u], pending[u])
  BY <1>2 DEF Reading, Settled, Agree, Inv, Types, Asked
<1>5. dmTarget[u] \in Users \cup {None} /\ pending[u] \in Users \cup {None}
  BY <1>2 DEF Inv, Types
<1>6. Turning(c) \/ SendingDM(c, o) \/ SendingLabel(c, o)
  <2>1. CASE r = "sending_dm" /\ dmTarget[u] = None
    BY <1>3, <2>1 DEF handleDMMessage, Turning, Clearing
  <2>2. CASE r = "sending_dm" /\ dmTarget[u] # None
    <3>1. w = dmTarget[u] /\ w \in Users
      BY <1>4, <1>5, <2>2 DEF About
    <3> QED
      BY <1>3, <1>4, <2>2, <3>1 DEF handleDMMessage, SendingDM, Target
  <2>3. CASE r = "add_contact_label" /\ pending[u] = None
    BY <1>3, <2>3 DEF HandleAddContactLabel, Turning, Clearing
  <2>4. CASE r = "add_contact_label" /\ pending[u] # None
    <3>1. w = pending[u] /\ w \in Users
      BY <1>4, <1>5, <2>4 DEF About
    <3> QED
      BY <1>3, <1>4, <2>4, <3>1 DEF HandleAddContactLabel, SendingLabel, Contact
  <2> QED
    BY <1>2, <2>1, <2>2, <2>3, <2>4
<1>7. Owing(u, c)
  BY <1>2, <1>4, <1>6 DEF Owing, UserOwes, Untouched, Reading, Settled
<1>8. Owes(h, u, c) /\ UNCHANGED <<stored, open, taken, shown>>
  BY <1>1, <1>3 DEF ReadTarget
<1>9. \A v : Undisturbed(v)
  BY <1>8 DEF Undisturbed, Note, stored
<1>10. Types'
  BY <1>8 DEF Types, Inv, stored, Owes
<1> DEFINE j == IF c = << >> THEN Idle ELSE [by |-> u, read |-> None, calls |-> c]
<1>11. Settled(u)' /\ Owing(u, c)'
  BY <1>2, <1>7, <1>9, Keeps DEF Reading
<1>12. (j = Idle /\ Settled(u)') \/ (j.by = u /\ JobFine(j)')
  BY <1>2, <1>11 DEF JobFine
<1>13. job' = [job EXCEPT ![h] = j]
  BY <1>8 DEF Owes
<1> HIDE DEF j
<1> QED
  BY <1>1, <1>2, <1>9, <1>10, <1>12, <1>13, OneHandler

(***************************************************************************)
(* Each call                                                               *)
(***************************************************************************)
AdminOps == {"adminSet", "confirm", "execute"}

LEMMA UserCalls ==
  ASSUME Inv, NEW h \in Handlers, NEW u, NEW c, job[h].by = u, job[h].calls = c, c # << >>,
         Head(c).op \notin AdminOps
  PROVE  /\ u \in Users /\ UserOwes(c, Note(u), open[u], dmTarget[u], pending[u])
         /\ u \in Admins => Shown(adminPending[u], shown[u])
  BY Working, AdminCall DEF Owing, AdminOps

LEMMA AdminCalls ==
  ASSUME Inv, NEW h \in Handlers, NEW u, NEW c, job[h].by = u, job[h].calls = c, c # << >>,
         Head(c).op \in AdminOps
  PROVE  /\ u \in Admins /\ u \in Users /\ AdminOwes(c, adminPending[u], shown[u])
         /\ Agree(Note(u), open[u], dmTarget[u], pending[u])
  BY Working, Heads DEF Owing, AdminOps

\* What is left to do once a user's call is made.
LEMMA UserCallDone ==
  ASSUME Inv, NEW h \in Handlers, NEW u, NEW c, NEW d, job[h].by = u, job[h].calls = c, c # << >>,
         Head(c).op \notin AdminOps, Owes(h, u, d), Types',
         \A v \in Users \ {u} : Undisturbed(v), UNCHANGED <<adminPending, shown>>,
         UserOwes(d, Note(u)', open'[u], dmTarget'[u], pending'[u])
  PROVE  Inv'
<1>1. u \in Users /\ (u \in Admins => Shown(adminPending[u], shown[u]))
  BY UserCalls
<1>2. Owing(u, d)'
  BY <1>1 DEF Owing
<1> QED
  BY <1>1, <1>2, CallDone

\* A call that changes nothing the notes or the screen are made of.
LEMMA UserCallAside ==
  ASSUME Inv, NEW h \in Handlers, NEW u, NEW c, job[h].by = u, job[h].calls = c, c # << >>,
         Head(c).op \notin AdminOps, Owes(h, u, Tail(c)),
         UNCHANGED <<state, taken, dmTarget, pending, adminPending, open, shown>>, Types',
         UserOwes(Tail(c), Note(u), open[u], dmTarget[u], pending[u])
  PROVE  Inv'
<1>1. \A v : Undisturbed(v)
  BY DEF Undisturbed, Note
<1>2. PICK d : d = Tail(c)
  OBVIOUS
<1>3. Owes(h, u, d)
  BY <1>2
<1>4. Note(u)' = Note(u)
  BY DEF Note
<1>5. UserOwes(d, Note(u)', open'[u], dmTarget'[u], pending'[u])
  BY <1>2, <1>4
<1> QED
  BY <1>1, <1>3, <1>5, UserCallDone

LEMMA NoteSteps ==
  ASSUME Inv, NEW h \in Handlers, WriteState(h) \/ WriteTarget(h)
  PROVE  Inv'
<1>1. PICK u, c, d, q, w :
        /\ u = job[h].by /\ c = job[h].calls /\ d = Tail(c) /\ q = Head(c).q /\ w = Head(c).who
  OBVIOUS
<1>2. /\ c # << >> /\ Head(c).op \notin AdminOps /\ Owes(h, u, d)
      /\ UNCHANGED <<profile, adminPending, open, shown>>
  BY <1>1 DEF WriteState, WriteTarget, owed, Called, AdminOps
<1>3. u \in Users /\ UserOwes(c, Note(u), open[u], dmTarget[u], pending[u])
  BY <1>1, <1>2, UserCalls
<1>4. job' = [g \in Handlers |-> job'[g]]
  BY <1>2 DEF Owes, Inv, Types
<1>5. Types
  BY DEF Inv
<1>6. CASE WriteState(h) /\ Head(c).op = "state"
  <2>1. /\ state' = [state EXCEPT ![u] = q] /\ taken' = taken \ {u}
        /\ UNCHANGED <<dmTarget, pending>>
    BY <1>1, <1>6 DEF WriteState, owed, arg
  <2>2. Note(u)' = q /\ \A v \in Users \ {u} : Undisturbed(v)
    BY <1>2, <1>3, <1>5, <2>1 DEF Types, Undisturbed, Note
  <2>3. Types'
    <3>1. q # "in_game"
      BY <1>1, <1>2, <1>3, <1>6, StateNamed
    <3> QED
      BY <1>2, <1>4, <1>5, <2>1, <3>1 DEF Types
  <2>4. UserOwes(d, Note(u)', open'[u], dmTarget'[u], pending'[u])
    BY <1>1, <1>2, <1>3, <1>6, <2>1, <2>2, StateCall
  <2> QED
    BY <1>1, <1>2, <2>2, <2>3, <2>4, UserCallDone
<1>7. CASE WriteState(h) /\ Head(c).op \in {"inGame", "outOfGame"}
  <2>1. /\ state' = [state EXCEPT ![w] = IF Head(c).op = "inGame" THEN "in_game" ELSE None]
        /\ taken' = taken \cup {w}
        /\ UNCHANGED <<dmTarget, pending>>
    BY <1>1, <1>7 DEF WriteState, owed, arg
  <2>2. \A v \in Users : Undisturbed(v)
    BY <1>2, <1>5, <2>1 DEF Types, Undisturbed, Note
  <2>3. Types'
    BY <1>2, <1>4, <1>5, <2>1 DEF Types
  <2>4. UserOwes(d, Note(u), open[u], dmTarget[u], pending[u])
    BY <1>1, <1>2, <1>3, <1>7, QuietCall DEF QuietOps
  <2>5. UserOwes(d, Note(u)', open'[u], dmTarget'[u], pending'[u])
    BY <1>2, <1>3, <2>1, <2>2, <2>4, GameStarts DEF Undisturbed
  <2> QED
    BY <1>1, <1>2, <2>2, <2>3, <2>5, UserCallDone
<1>8. CASE WriteTarget(h) /\ Head(c).op = "target"
  <2>1. dmTarget' = [dmTarget EXCEPT ![u] = w] /\ UNCHANGED <<state, taken, pending>>
    BY <1>1, <1>8 DEF WriteTarget, owed, arg
  <2>2. dmTarget'[u] = w /\ Note(u)' = Note(u) /\ \A v \in Users \ {u} : Undisturbed(v)
    BY <1>2, <1>3, <1>5, <2>1 DEF Types, Undisturbed, Note
  <2>3. UserOwes(d, Note(u), open[u], w, pending[u]) /\ w \in Users \cup {None}
    BY <1>1, <1>2, <1>3, <1>8, TargetCall
  <2>4. Types'
    BY <1>2, <1>4, <1>5, <2>1, <2>3 DEF Types
  <2>5. UserOwes(d, Note(u)', open'[u], dmTarget'[u], pending'[u])
    BY <1>2, <2>1, <2>2, <2>3
  <2> QED
    BY <1>1, <1>2, <2>2, <2>4, <2>5, UserCallDone
<1>9. CASE WriteTarget(h) /\ Head(c).op = "contact"
  <2>1. pending' = [pending EXCEPT ![u] = w] /\ UNCHANGED <<state, taken, dmTarget>>
    BY <1>1, <1>9 DEF WriteTarget, owed, arg
  <2>2. pending'[u] = w /\ Note(u)' = Note(u) /\ \A v \in Users \ {u} : Undisturbed(v)
    BY <1>2, <1>3, <1>5, <2>1 DEF Types, Undisturbed, Note
  <2>3. UserOwes(d, Note(u), open[u], dmTarget[u], w) /\ w \in Users \cup {None}
    BY <1>1, <1>2, <1>3, <1>9, ContactCall
  <2>4. Types'
    BY <1>2, <1>4, <1>5, <2>1, <2>3 DEF Types
  <2>5. UserOwes(d, Note(u)', open'[u], dmTarget'[u], pending'[u])
    BY <1>2, <2>1, <2>2, <2>3
  <2> QED
    BY <1>1, <1>2, <2>2, <2>4, <2>5, UserCallDone
<1> QED
  BY <1>1, <1>6, <1>7, <1>8, <1>9 DEF WriteState, WriteTarget, owed

\* Every update of a profile leaves it in one of the stages.
LEMMA StagesStay ==
  ASSUME NEW p, NEW f, p.stage \in Stages
  PROVE  UpdateField(p, f).stage \in Stages
  BY DEF UpdateField, Stages

LEMMA SaveStep ==
  ASSUME Inv, NEW h \in Handlers, Save(h)
  PROVE  Inv'
<1>1. PICK u, c : u = job[h].by /\ c = job[h].calls
  OBVIOUS
<1>2. /\ c # << >> /\ Head(c).op = "save" /\ Owes(h, u, Tail(c))
      /\ UNCHANGED <<state, taken, dmTarget, pending, adminPending, open, shown>>
      /\ profile' = [profile EXCEPT ![u] = UpdateField(@, Head(c).who)]
  BY <1>1 DEF Save, owed, arg, Called
<1>3. Head(c).op \notin AdminOps
  BY <1>2 DEF AdminOps
<1>4. u \in Users /\ UserOwes(c, Note(u), open[u], dmTarget[u], pending[u])
  BY <1>1, <1>2, <1>3, UserCalls
<1>5. Types'
  <2>1. UpdateField(profile[u], Head(c).who).stage \in Stages
    BY <1>4, StagesStay DEF Inv, Types
  <2>2. profile' = [v \in Users |-> profile'[v]] /\ \A v \in Users : profile'[v].stage \in Stages
    BY <1>2, <1>4, <2>1 DEF Inv, Types
  <2>3. job' = [g \in Handlers |-> job'[g]]
    BY <1>2 DEF Owes, Inv, Types
  <2> QED
    BY <1>2, <2>2, <2>3 DEF Inv, Types
<1>6. UserOwes(Tail(c), Note(u), open[u], dmTarget[u], pending[u])
  BY <1>2, <1>4, SaveCall
<1> QED
  BY <1>1, <1>2, <1>3, <1>5, <1>6, UserCallAside

\* Messages, and the rows and keys that are kept of other users.
LEMMA AsideSteps ==
  ASSUME Inv, NEW h \in Handlers,
         Send(h) \/ WriteContacts(h) \/ WriteBlocks(h) \/ WriteSilence(h) \/ WriteChat(h)
  PROVE  Inv'
<1>1. PICK u, c, d : u = job[h].by /\ c = job[h].calls /\ d = << >>
  OBVIOUS
<1> DEFINE early == WriteContacts(h) /\ Head(c).op = "label" /\ Owes(h, u, d)
<1>2. /\ c # << >> /\ Head(c).op \in QuietOps \cup {"dm", "label"}
      /\ Owes(h, u, Tail(c)) \/ early
      /\ UNCHANGED <<state, taken, dmTarget, pending, profile, adminPending, open, shown>>
  <2>1. CASE Send(h)
    BY <1>1, <2>1 DEF Send, owed, Called, QuietOps
  <2>2. CASE WriteContacts(h)
    BY <1>1, <2>2 DEF WriteContacts, owed, Called, QuietOps
  <2>3. CASE WriteBlocks(h)
    BY <1>1, <2>3 DEF WriteBlocks, owed, Called, QuietOps
  <2>4. CASE WriteSilence(h)
    BY <1>1, <2>4 DEF WriteSilence, owed, Called, QuietOps
  <2>5. CASE WriteChat(h)
    BY <1>1, <2>5 DEF WriteChat, owed, Called, QuietOps
  <2> QED
    BY <2>1, <2>2, <2>3, <2>4, <2>5
<1>3. Head(c).op \notin AdminOps
  BY <1>2 DEF QuietOps, AdminOps
<1>4. u \in Users /\ UserOwes(c, Note(u), open[u], dmTarget[u], pending[u])
  BY <1>1, <1>2, <1>3, UserCalls
<1>5. Types'
  <2>1. job' = [g \in Handlers |-> job'[g]]
    BY <1>2 DEF Owes, Inv, Types
  <2> QED
    BY <1>2, <2>1 DEF Inv, Types
<1>6. CASE Owes(h, u, Tail(c))
  <2>1. UserOwes(Tail(c), Note(u), open[u], dmTarget[u], pending[u])
    BY <1>2, <1>4, QuietCall, MessageCall
  <2> QED
    BY <1>1, <1>2, <1>3, <1>5, <1>6, <2>1, UserCallAside
<1>7. CASE early
  <2>1. UserOwes(d, Note(u), open[u], dmTarget[u], pending[u])
    BY <1>1, <1>2, <1>4, <1>7, MessageCall
  <2>2. UserOwes(d, Note(u)', open'[u], dmTarget'[u], pending'[u])
    <3>1. Note(u)' = Note(u)
      BY <1>2 DEF Note
    <3> QED
      BY <1>2, <2>1, <3>1
  <2>3. \A v : Undisturbed(v)
    BY <1>2 DEF Undisturbed, Note
  <2> QED
    BY <1>1, <1>2, <1>3, <1>5, <1>7, <2>2, <2>3, UserCallDone
<1> QED
  BY <1>2, <1>6, <1>7

LEMMA ScreenSteps ==
  ASSUME Inv, NEW h \in Handlers, Show(h), ~owed(h, "confirm")
  PROVE  Inv'
<1>1. PICK u, c, d, q : /\ u = job[h].by /\ c = job[h].calls /\ d = Tail(c)
                        /\ q = IF Head(c).op = "prompt"
                               THEN [q |-> Head(c).q, who |-> Head(c).who] ELSE None
  OBVIOUS
<1>2. /\ c # << >> /\ Head(c).op \in {"prompt", "close"} /\ Owes(h, u, d)
      /\ UNCHANGED <<state, taken, dmTarget, pending, profile, adminPending, shown>>
      /\ open' = [open EXCEPT ![u] = q]
  BY <1>1 DEF Show, owed, arg, Called, stored
<1>3. Head(c).op \notin AdminOps
  BY <1>2 DEF AdminOps
<1>4. u \in Users /\ UserOwes(c, Note(u), open[u], dmTarget[u], pending[u])
  BY <1>1, <1>2, <1>3, UserCalls
<1>5. UserOwes(d, Note(u), q, dmTarget[u], pending[u]) /\ q \in Asked \cup {None}
  <2>1. CASE Head(c).op = "prompt"
    BY <1>1, <1>2, <1>4, <2>1, PromptCall DEF Asked, Typed
  <2>2. CASE Head(c).op = "close"
    BY <1>1, <1>2, <1>4, <2>2, CloseCall
  <2> QED
    BY <1>2, <2>1, <2>2
<1>6. Types'
  <2>1. job' = [g \in Handlers |-> job'[g]]
    BY <1>2 DEF Owes, Inv, Types
  <2>2. open' \in [Users -> Asked \cup {None}]
    BY <1>2, <1>5 DEF Inv, Types
  <2> QED
    BY <1>2, <2>1, <2>2 DEF Inv, Types
<1>7. open'[u] = q /\ Note(u)' = Note(u) /\ \A v \in Users \ {u} : Undisturbed(v)
  BY <1>2, <1>4 DEF Inv, Types, Undisturbed, Note
<1>8. UserOwes(d, Note(u)', open'[u], dmTarget'[u], pending'[u])
  BY <1>2, <1>5, <1>7
<1> QED
  BY <1>1, <1>2, <1>3, <1>6, <1>7, <1>8, UserCallDone

LEMMA AdminCallSteps ==
  ASSUME Inv, NEW h \in Handlers, WriteAdmin(h) \/ (Show(h) /\ owed(h, "confirm"))
  PROVE  Inv'
<1>1. PICK u, c, d, w :
        u = job[h].by /\ c = job[h].calls /\ d = Tail(c) /\ w = Head(c).who
  OBVIOUS
<1>2. /\ c # << >> /\ Head(c).op \in AdminOps /\ Owes(h, u, d)
      /\ UNCHANGED <<state, taken, dmTarget, pending, profile, open>>
  BY <1>1 DEF Show, WriteAdmin, owed, Called, stored, AdminOps
<1>3. /\ Head(c).op = "adminSet" => adminPending' = [adminPending EXCEPT ![u] = w] /\ UNCHANGED shown
      /\ Head(c).op = "confirm" => shown' = [shown EXCEPT ![u] = w] /\ UNCHANGED adminPending
      /\ Head(c).op = "execute" => shown' = [shown EXCEPT ![u] = None] /\ UNCHANGED adminPending
  BY <1>1 DEF Show, WriteAdmin, owed, arg, stored
<1>4. /\ u \in Admins /\ u \in Users /\ AdminOwes(c, adminPending[u], shown[u])
      /\ Agree(Note(u), open[u], dmTarget[u], pending[u])
  BY <1>1, <1>2, AdminCalls
<1>5. Types /\ job' = [g \in Handlers |-> job'[g]]
  BY <1>2 DEF Owes, Inv, Types
<1>6. Types'
  BY <1>2, <1>3, <1>5 DEF Types, AdminOps
<1>7. \A v \in Users \ {u} : Undisturbed(v)
  BY <1>2, <1>3, <1>5 DEF Types, Undisturbed, Note, AdminOps
<1>8. AdminOwes(d, adminPending'[u], shown'[u]) \/ (d = << >> /\ Shown(adminPending'[u], shown'[u]))
  <2>1. CASE Head(c).op = "adminSet"
    BY <1>1, <1>3, <1>4, <1>5, <2>1, AdminCall DEF Types
  <2>2. CASE Head(c).op = "confirm"
    BY <1>1, <1>3, <1>4, <1>5, <2>2, AdminCall DEF Types
  <2>3. CASE Head(c).op = "execute"
    BY <1>1, <1>3, <1>4, <1>5, <2>3, AdminCall DEF Types
  <2> QED
    BY <1>2, <2>1, <2>2, <2>3 DEF AdminOps
<1>9. Owing(u, d)'
  <2>1. Note(u)' = Note(u)
    BY <1>2 DEF Note
  <2>2. Agree(Note(u)', open'[u], dmTarget'[u], pending'[u])
    BY <1>2, <1>4, <2>1
  <2>3. d = << >> => UserOwes(d, Note(u)', open'[u], dmTarget'[u], pending'[u])
    BY <2>2, AtTheEnd
  <2> QED
    BY <1>4, <1>8, <2>2, <2>3 DEF Owing
<1> QED
  BY <1>1, <1>2, <1>4, <1>6, <1>7, <1>9, CallDone

LEMMA ExpiryStep ==
  ASSUME Inv, NEW u \in Users, KeyExpires(u)
  PROVE  Inv'
<1>1. /\ dmTarget' \in {dmTarget, [dmTarget EXCEPT ![u] = None]}
      /\ pending' \in {pending, [pending EXCEPT ![u] = None]}
      /\ UNCHANGED <<state, taken, profile, adminPending, job, open, shown>>
  BY DEF KeyExpires
<1>2. Types /\ Types'
  BY <1>1 DEF Inv, Types
<1>3. \A v \in Users : Undisturbed(v)
  BY <1>1, <1>2 DEF Types, Undisturbed, Note
<1>4. \A h \in Handlers : JobFine(job[h])'
  <2> TAKE h \in Handlers
  <2>1. PICK v, c, q : v = job[h].by /\ c = job[h].calls /\ q = job[h].read
    OBVIOUS
  <2>2. JobFine(job[h]) /\ job'[h] = job[h]
    BY <1>1 DEF Inv
  <2>3. CASE job[h] = Idle
    BY <2>2, <2>3 DEF JobFine
  <2>4. CASE job[h] # Idle
    <3>1. v \in Users
      BY <2>1, <2>2, <2>4 DEF JobFine
    <3>2. (Owing(v, c) => Owing(v, c)') /\ (Reading(v, q) => Reading(v, q)')
      BY <1>3, <3>1, Keeps
    <3> QED
      BY <2>1, <2>2, <2>4, <3>2 DEF JobFine
  <2> QED
    BY <2>3, <2>4
<1>5. \A v \in Users : Settled(v) => Settled(v)'
  BY <1>3, Keeps
<1> QED
  BY <1>1, <1>2, <1>4, <1>5 DEF Inv, Apart

LEMMA InvStep == Inv /\ [Next]_vars => Inv'
<1> SUFFICES ASSUME Inv, [Next]_vars PROVE Inv'
  OBVIOUS
<1>1. ASSUME NEW h \in Handlers, MakeCall(h)
      PROVE  Inv'
  BY <1>1, ReadStep, NoteSteps, SaveStep, ScreenSteps, AsideSteps, AdminCallSteps DEF MakeCall
<1>2. ASSUME NEW h \in Handlers, NEW u \in Users, Update(h, u)
      PROVE  Inv'
  BY <1>2, ProfileSteps, OtherUserSteps, AnswerSteps, RemainingSteps DEF Update
<1>3. ASSUME NEW h \in Handlers, NEW a \in Admins, AdminUpdate(h, a)
      PROVE  Inv'
  BY <1>3, AdminSteps
<1>4. ASSUME NEW u \in Users, KeyExpires(u)
      PROVE  Inv'
  BY <1>4, ExpiryStep
<1>5. CASE UNCHANGED vars
  <2>1. Types' /\ Apart' <=> Types /\ Apart
    BY <1>5 DEF vars, Types, Apart
  <2>2. \A u : (Settled(u)' <=> Settled(u)) /\ Note(u)' = Note(u)
    BY <1>5 DEF vars, Settled, Note
  <2>3. \A u, c : Owing(u, c)' <=> Owing(u, c)
    BY <1>5, <2>2 DEF vars, Owing
  <2>4. \A u, q : Reading(u, q)' <=> Reading(u, q)
    BY <1>5, <2>2 DEF vars, Reading
  <2>5. \A h \in Handlers : JobFine(job[h])' <=> JobFine(job[h])
    BY <1>5, <2>3, <2>4 DEF vars, JobFine
  <2>6. job' = job
    BY <1>5 DEF vars
  <2> QED
    BY <2>1, <2>2, <2>5, <2>6 DEF Inv
<1> QED
  BY <1>1, <1>2, <1>3, <1>4, <1>5 DEF Next

LEMMA InvAlways == Spec /\ ~Overlap => []Inv
<1>1. ~Overlap /\ Init => Inv
  BY InvInit
<1>2. Inv /\ [Next]_vars => Inv'
  BY InvStep
<1> QED
  BY <1>1, <1>2, PTL DEF Spec

(***************************************************************************)
(* What follows for users and admins                                       *)
(***************************************************************************)
LEMMA InvAnswers == Inv => AnswerFitsQuestion
<1> SUFFICES ASSUME Inv, NEW h \in Handlers
             PROVE  LET u == job[h].by IN
                    /\ owed(h, "save") /\ arg(h).q \notin {None, "editing_gender"} =>
                          open[u] # None /\ open[u].q = arg(h).q
                    /\ owed(h, "dm") \/ owed(h, "label") => open[u] = [q |-> arg(h).q, who |-> arg(h).who]
  BY DEF AnswerFitsQuestion
<1>1. PICK u, c : u = job[h].by /\ c = job[h].calls
  OBVIOUS
<1>2. CASE owed(h, "save")
  <2>1. c # << >> /\ Head(c).op = "save" /\ arg(h) = Head(c)
    BY <1>1, <1>2 DEF owed, arg
  <2>2. Saving(c, open[u])
    BY <1>1, <2>1, UserCalls, Heads DEF AdminOps
  <2> QED
    BY <1>1, <2>1, <2>2 DEF Saving, owed
<1>3. CASE owed(h, "dm") \/ owed(h, "label")
  <2>1. c # << >> /\ Head(c).op \in {"dm", "label"} /\ arg(h) = Head(c)
    BY <1>1, <1>3 DEF owed, arg
  <2>2. UserOwes(c, Note(u), open[u], dmTarget[u], pending[u])
    BY <1>1, <2>1, UserCalls DEF AdminOps
  <2>3. open[u] = [q |-> Head(c).q, who |-> Head(c).who]
    BY <2>1, <2>2, MessageCall
  <2> QED
    BY <1>1, <2>1, <2>3 DEF owed
<1> QED
  BY <1>2, <1>3

LEMMA InvStaysOpen == Inv => QuestionStaysOpen
  BY DEF Inv, Types, Settled, Agree, Note, QuestionStaysOpen

LEMMA InvRuns == Inv => RunsWhatWasShown
<1> SUFFICES ASSUME Inv, NEW h \in Handlers, owed(h, "execute")
             PROVE  shown[job[h].by] = arg(h).who
  BY DEF RunsWhatWasShown
<1>1. PICK u, c : u = job[h].by /\ c = job[h].calls
  OBVIOUS
<1>2. c # << >> /\ Head(c).op = "execute" /\ arg(h) = Head(c)
  BY <1>1 DEF owed, arg
<1>3. AdminOwes(c, adminPending[u], shown[u])
  BY <1>1, <1>2, AdminCalls DEF AdminOps
<1> QED
  BY <1>1, <1>2, <1>3, AdminCall

\* However many users, admins and goroutines there are, and whichever of their
\* handlers, expiring keys, starts and ends of games and chats come between a
\* handler's calls, what
\* is stored or sent as an answer answers the question its sender saw last, and
\* concerns the user that question was about (TextHandler, handleDMMessage,
\* HandleAddContactLabel), as long as the rate limiter keeps two updates of one
\* user apart.
THEOREM AnswersFit == Spec /\ ~Overlap => []AnswerFitsQuestion
  BY InvAlways, InvAnswers, PTL

\* Under the same assumption user_state still names the question on the screen
\* of every user no handler is working for, unless a game that started, or a game
\* or chat that ended, has written it since: no answer that is refused, no save
\* that fails, no key that expires and no command of an administrator takes a
\* question away (SetUserState, ClearUserState).
THEOREM QuestionsStay == Spec /\ ~Overlap => []QuestionStaysOpen
  BY InvAlways, InvStaysOpen, PTL

\* And an admin's command runs only as its last confirmation showed it, once
\* for each confirmation (AdminConfirmCallback, handleAdminTextInput).
THEOREM ConfirmedOnly == Spec /\ ~Overlap => []RunsWhatWasShown
  BY InvAlways, InvRuns, PTL

===============================================================================
