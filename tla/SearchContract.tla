--------------------------- MODULE SearchContract ---------------------------
(***************************************************************************)
(* What the matching subsystem promises about searches, without queues,    *)
(* flags, ticks or round trips: a user has one open search at a time; an   *)
(* open search is paired with another user's, or times out; the cost of a  *)
(* search that timed out is given back once; nothing else happens to it.   *)
(***************************************************************************)
CONSTANTS Users, Ids, None

VARIABLES
    owner,      \* owner[i]: whose search i is, None before it opens
    fate        \* fate[i]: "none", "open", "matched", "timedOut" or "refunded"

Init == /\ owner = [i \in Ids |-> None]
        /\ fate = [i \in Ids |-> "none"]

Open(i, u) ==
    /\ fate[i] = "none"
    /\ \A k \in Ids : owner[k] = u => fate[k] # "open"
    /\ owner' = [owner EXCEPT ![i] = u]
    /\ fate' = [fate EXCEPT ![i] = "open"]

Pair(i, k) ==
    /\ fate[i] = "open" /\ fate[k] = "open"
    /\ owner[i] # owner[k]
    /\ fate' = [fate EXCEPT ![i] = "matched", ![k] = "matched"]
    /\ UNCHANGED owner

TimeOut(i) ==
    /\ fate[i] = "open"
    /\ fate' = [fate EXCEPT ![i] = "timedOut"]
    /\ UNCHANGED owner

GiveBack(i) ==
    /\ fate[i] = "timedOut"
    /\ fate' = [fate EXCEPT ![i] = "refunded"]
    /\ UNCHANGED owner

Next ==
    \/ \E i \in Ids : TimeOut(i) \/ GiveBack(i) \/ \E u \in Users : Open(i, u)
    \/ \E i, k \in Ids : Pair(i, k)

Spec == Init /\ [][Next]_<<owner, fate>>
=============================================================================
