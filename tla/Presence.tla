------------------------------ MODULE Presence ------------------------------
(***************************************************************************)
(* Last activity.  Every update sets a Redis key of its sender; once a     *)
(* minute the sync worker copies the keys to the users table, one bulk     *)
(* update per timestamp, and deletes them.  The column last_seen_at is     *)
(* also written back by every handler that saves a whole row.              *)
(***************************************************************************)
EXTENDS Integers, FiniteSets

CONSTANTS
    Users,          \* telegram ids, all registered
    None,
    Earlier,        \* last_seen_at of each user at the start; 0 is Go's zero time
    StartTime, MaxTime, \* bounds: the clock, in steps of a few hours
    MaxUpdates,     \* bound: updates, and changes of rows and blocks
    MaxFaults       \* bound: calls of a pass that fail

ASSUME PresenceAssumption ==
    /\ StartTime \in Nat \ {0} /\ MaxTime \in Nat /\ StartTime <= MaxTime
    /\ Earlier \in [Users -> 0..StartTime]
    /\ None \notin Users \cup Nat
    /\ MaxUpdates \in Nat /\ MaxFaults \in Nat

VARIABLES
    now,
    key,            \* last_seen:<user>, None when it is not there
    seen,           \* last_seen_at
    sync,           \* the pass of the sync worker
    copy,           \* last_seen_at in the row a handler is about to save
    \* history the program does not keep
    active,         \* the last update of each user
    raced,          \* users whose key was set between its read and its deletion
    rewound,        \* users whose last_seen_at was put back by a save
    unwritten,      \* users whose last bulk update failed
    updates, faults

presenceVars == <<now, key, seen, sync, copy, active, raced, rewound, unwritten, updates, faults>>

Times == 1..MaxTime
NoPass == [pc |-> "idle", keys |-> {}, read |-> [u \in Users |-> None], groups |-> {}]

Init ==
    /\ now = StartTime
    /\ key = [u \in Users |-> None]
    /\ seen = Earlier
    /\ sync = NoPass
    /\ copy = [u \in Users |-> None]
    /\ active = Earlier
    /\ raced = {} /\ rewound = {} /\ unwritten = {}
    /\ updates = 0 /\ faults = 0

Counted == updates < MaxUpdates /\ updates' = updates + 1
Fails == faults < MaxFaults /\ faults' = faults + 1

Tick ==
    /\ now < MaxTime /\ now' = now + 1
    /\ UNCHANGED <<key, seen, sync, copy, active, raced, rewound, unwritten, updates, faults>>

\* trackLastSeenMiddleware starts it beside the handler.
UpdateLastSeen(u) ==
    /\ Counted
    /\ key' = [key EXCEPT ![u] = now]
    /\ active' = [active EXCEPT ![u] = now]
    /\ raced' = IF sync.pc = "update" /\ u \in sync.keys THEN raced \cup {u}
                ELSE raced \ {u}
    /\ rewound' = rewound \ {u} /\ unwritten' = unwritten \ {u}
    /\ UNCHANGED <<now, seen, sync, copy, faults>>

(***************************************************************************)
(* SyncLastSeenStream: SCAN, GET, one update per timestamp, DEL            *)
(***************************************************************************)
Present == {u \in Users : key[u] # None}

SyncScan ==
    /\ sync.pc = "idle" /\ Present # {}
    /\ sync' = [sync EXCEPT !.pc = "get", !.keys = Present]
    /\ UNCHANGED <<now, key, seen, copy, active, raced, rewound, unwritten, updates, faults>>

\* Mutant: the keys of the earliest timestamp alone are grouped.
groupedFirst(read, keys) ==
    {t \in Times : \A u \in keys : read[u] >= t} \cap {read[u] : u \in keys}

\* The timestamps found, each with the users that have it.
grouped(read, keys) == {read[u] : u \in keys}

SyncGet ==
    /\ sync.pc = "get"
    /\ sync' = [sync EXCEPT !.pc = "update", !.read = key, !.groups = grouped(key, sync.keys)]
    /\ UNCHANGED <<now, key, seen, copy, active, raced, rewound, unwritten, updates, faults>>

\* An error of the pipeline of GETs ends the pass: the keys stay for the next.
PassFails ==
    /\ sync.pc = "get" /\ Fails
    /\ sync' = NoPass
    /\ UNCHANGED <<now, key, seen, copy, active, raced, rewound, unwritten, updates>>

Group(t) == {u \in sync.keys : sync.read[u] = t}

BulkUpdateLastSeen(t) ==
    /\ sync.pc = "update" /\ t \in sync.groups
    /\ seen' = [u \in Users |-> IF u \in Group(t) THEN t ELSE seen[u]]
    /\ sync' = [sync EXCEPT !.groups = @ \ {t}]
    /\ rewound' = rewound \ Group(t) /\ unwritten' = unwritten \ Group(t)
    /\ UNCHANGED <<now, key, copy, active, raced, updates, faults>>

\* The error is logged and the loop goes on: the rows of this group stay as
\* they are, and its keys are deleted like the others.
BulkUpdateFails(t) ==
    /\ sync.pc = "update" /\ t \in sync.groups /\ Fails
    /\ sync' = [sync EXCEPT !.groups = @ \ {t}]
    /\ unwritten' = unwritten \cup Group(t)
    /\ UNCHANGED <<now, key, seen, copy, active, raced, rewound, updates>>

\* Mutant: all keys are deleted, those set since the scan as well.
SyncDeleteAll ==
    /\ sync.pc = "update" /\ sync.groups = {}
    /\ key' = [u \in Users |-> None]
    /\ sync' = NoPass
    /\ UNCHANGED <<now, seen, copy, active, raced, rewound, unwritten, updates, faults>>

\* Every key that was scanned, whatever it holds by now.
SyncDelete ==
    /\ sync.pc = "update" /\ sync.groups = {}
    /\ key' = [u \in Users |-> IF u \in sync.keys THEN None ELSE key[u]]
    /\ sync' = NoPass
    /\ UNCHANGED <<now, seen, copy, active, raced, rewound, unwritten, updates, faults>>

\* An error of the pipeline of DELs is logged: some of the keys may be gone.
DeleteFails ==
    /\ sync.pc = "update" /\ sync.groups = {} /\ Fails
    /\ \E gone \in SUBSET sync.keys :
        /\ key' = [u \in Users |-> IF u \in gone THEN None ELSE key[u]]
        /\ raced' = raced \ (sync.keys \ gone)
    /\ sync' = NoPass
    /\ UNCHANGED <<now, seen, copy, active, rewound, unwritten, updates>>

SyncStep ==
    \/ SyncScan \/ SyncGet \/ SyncDelete \/ PassFails \/ DeleteFails
    \/ \E t \in Times : BulkUpdateLastSeen(t) \/ BulkUpdateFails(t)

(***************************************************************************)
(* Whole-row saves, by the user's own handler or by another's              *)
(***************************************************************************)
ReadRow(u) ==
    /\ copy[u] = None /\ Counted
    /\ copy' = [copy EXCEPT ![u] = seen[u]]
    /\ UNCHANGED <<now, key, seen, sync, active, raced, rewound, unwritten, faults>>

SaveRow(u) ==
    /\ copy[u] # None
    /\ seen' = [seen EXCEPT ![u] = copy[u]]
    /\ rewound' = IF copy[u] < seen[u] THEN rewound \cup {u} ELSE rewound
    /\ copy' = [copy EXCEPT ![u] = None]
    /\ UNCHANGED <<now, key, sync, active, raced, unwritten, updates, faults>>

PresenceNext == Tick \/ SyncStep \/ \E u \in Users : UpdateLastSeen(u) \/ ReadRow(u) \/ SaveRow(u)

\* The ticker of StartSyncWorker keeps starting passes, and none of them blocks.
PresenceSpec == Init /\ [][PresenceNext]_presenceVars /\ WF_presenceVars(SyncStep)

PresenceTypeOK ==
    /\ now \in Times
    /\ key \in [Users -> Times \cup {None}]
    /\ seen \in [Users -> Times \cup {0}]
    /\ sync \in [pc : {"idle", "get", "update"}, keys : SUBSET Users,
                 read : [Users -> Times \cup {None}], groups : SUBSET Times]
    /\ copy \in [Users -> Times \cup {0, None}]
    /\ active \in [Users -> Times \cup {0}]
    /\ raced \subseteq Users /\ rewound \subseteq Users /\ unwritten \subseteq Users
    /\ updates \in 0..MaxUpdates /\ faults \in 0..MaxFaults

\* The events that lose an activity: it fell between the read and the deletion
\* of a pass, an old row was saved over it, or its bulk update failed, after
\* which its key is deleted all the same.
Overtaken(u) == u \in raced \cup rewound \cup unwritten

\* The last activity of a user is on its way to the table or in it, exactly,
\* unless one of the three events has overtaken it: another group's failed
\* update, a pass that ends early and a deletion that fails halfway lose
\* nothing (SyncLastSeenStream, Repository.Update).
NothingLostOtherwise ==
    \A u \in Users :
        \/ key[u] = active[u]
        \/ seen[u] = active[u]
        \/ Overtaken(u)

\* The last activity of a user gets to the users table in the end, also through
\* passes that fail in part, unless one of these events overtakes it or the copy
\* of it there (StartSyncWorker, SyncLastSeenStream).
ActivityReachesTable ==
    \A u \in Users :
        key[u] = active[u] ~> seen[u] = active[u] \/ Overtaken(u)
=============================================================================
