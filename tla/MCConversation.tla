--------------------------- MODULE MCConversation ---------------------------
(* An instance of Conversation: an admin who is registered, with optional   *)
(* fields still missing, and a user who has only just arrived.              *)
EXTENDS Conversation, TLC

Newcomer == [filled |-> {}, stage |-> "need_gender"]
Registered == [filled |-> Required \cup {"name", "city"}, stage |-> "complete"]
Known == [u \in Users |-> IF u \in Admins THEN Registered ELSE Newcomer]

Symmetry == Permutations(Handlers) \cup Permutations(Payloads)
=============================================================================
