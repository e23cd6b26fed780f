---------------------------- MODULE PresenceProofs ----------------------------
(***************************************************************************)
(* No activity is lost, for any number of users, updates, passes and       *)
(* failing calls, but by the three events NothingLostOtherwise names.  The *)
(* argument follows a pass: what it scanned is there until it deletes,     *)
(* what it read is the last activity unless the user has been active       *)
(* since, and before it deletes it has brought every timestamp to the      *)
(* table or noted whose it could not.                                      *)
(***************************************************************************)
EXTENDS Presence, TLAPS

Pass == [pc : {"idle", "get", "update"}, keys : SUBSET Users,
         read : [Users -> Times \cup {None}], groups : SUBSET Times]

\* The types the argument needs.
Types ==
    /\ now \in Times
    /\ key \in [Users -> Times \cup {None}]
    /\ seen \in [Users -> Times \cup {0}]
    /\ sync \in Pass
    /\ copy \in [Users -> Times \cup {0, None}]
    /\ active \in [Users -> Times \cup {0}]
    /\ raced \subseteq Users /\ rewound \subseteq Users /\ unwritten \subseteq Users
    /\ updates \in 0..MaxUpdates /\ faults \in 0..MaxFaults

\* Nothing is later than the last activity, and a key holds just that.
Ordered ==
    \A u \in Users :
        /\ active[u] <= now /\ seen[u] <= active[u]
        /\ copy[u] # None => copy[u] <= active[u]
        /\ key[u] # None => key[u] = active[u]

\* Where a pass stands with each user whose key it scanned.
PassInv ==
    \A u \in sync.keys :
        /\ key[u] # None
        /\ sync.pc = "update" =>
              /\ sync.read[u] \in Times /\ sync.read[u] <= active[u]
              /\ \/ u \in raced
                 \/ /\ sync.read[u] = active[u]
                    /\ \/ sync.read[u] \in sync.groups \/ seen[u] = active[u]
                       \/ u \in rewound \cup unwritten

\* The inductive invariant.
Inv == Types /\ Ordered /\ PassInv /\ NothingLostOtherwise

USE PresenceAssumption

LEMMA NoneIsNoTime == None \notin Times /\ None # 0 /\ \A u \in Users : None # u
  BY DEF Times

LEMMA InvInit == Init => Inv
<1> SUFFICES ASSUME Init PROVE Inv
  OBVIOUS
<1> USE NoneIsNoTime DEF Init
<1>1. Types
  BY DEF Types, Pass, NoPass, Times
<1>2. Ordered
  BY DEF Ordered
<1>3. PassInv
  BY DEF PassInv, NoPass
<1>4. NothingLostOtherwise
  BY DEF NothingLostOtherwise
<1> QED
  BY <1>1, <1>2, <1>3, <1>4 DEF Inv

LEMMA TickKeeps == ASSUME Inv, Tick PROVE Inv'
<1> USE DEF Inv, Tick
<1>1. Types'
  BY DEF Types, Times
<1>2. Ordered'
  BY DEF Ordered, Types, Times
<1>3. PassInv' /\ NothingLostOtherwise'
  BY DEF PassInv, NothingLostOtherwise, Overtaken
<1> QED
  BY <1>1, <1>2, <1>3

LEMMA UpdateKeeps == ASSUME Inv, NEW v \in Users, UpdateLastSeen(v) PROVE Inv'
<1> USE NoneIsNoTime DEF Inv, UpdateLastSeen, Counted
<1>1. Types'
  BY DEF Types
<1>2. Ordered'
  BY DEF Ordered, Types, Times
<1>3. PassInv'
  <2> SUFFICES ASSUME NEW u \in sync.keys
               PROVE  /\ key'[u] # None
                      /\ sync.pc = "update" =>
                            /\ sync.read[u] \in Times /\ sync.read[u] <= active'[u]
                            /\ \/ u \in raced'
                               \/ /\ sync.read[u] = active'[u]
                                  /\ \/ sync.read[u] \in sync.groups \/ seen[u] = active'[u]
                                     \/ u \in rewound' \cup unwritten'
    BY DEF PassInv
  <2>1. u \in Users
    BY DEF Types, Pass
  <2>2. CASE u = v
    BY <2>1, <2>2 DEF PassInv, Types, Ordered, Times, Pass
  <2>3. CASE u # v
    BY <2>1, <2>3 DEF PassInv, Types, Ordered, Times, Pass
  <2> QED
    BY <2>2, <2>3
<1>4. NothingLostOtherwise'
  BY DEF NothingLostOtherwise, Overtaken, Types
<1> QED
  BY <1>1, <1>2, <1>3, <1>4

LEMMA ScanKeeps == ASSUME Inv, SyncScan PROVE Inv'
<1> USE DEF Inv, SyncScan
<1>1. Present \subseteq Users /\ \A u \in Present : key[u] # None
  BY DEF Present
<1>2. Types'
  BY <1>1 DEF Types, Pass
<1>3. Ordered' /\ NothingLostOtherwise'
  BY DEF Ordered, NothingLostOtherwise, Overtaken
<1>4. PassInv'
  BY <1>1 DEF PassInv, Types, Pass
<1> QED
  BY <1>2, <1>3, <1>4

LEMMA GetKeeps == ASSUME Inv, SyncGet PROVE Inv'
<1> USE DEF Inv, SyncGet
<1>1. \A u \in sync.keys : u \in Users /\ key[u] \in Times /\ key[u] = active[u]
  BY DEF PassInv, Ordered, Types, Pass
<1>2. grouped(key, sync.keys) = {key[u] : u \in sync.keys}
  BY DEF grouped
<1>3. Types'
  <2>1. grouped(key, sync.keys) \in SUBSET Times
    BY <1>1, <1>2
  <2>2. sync' = [pc |-> "update", keys |-> sync.keys, read |-> key,
                groups |-> grouped(key, sync.keys)]
    BY DEF Types, Pass
  <2> QED
    BY <2>1, <2>2 DEF Types, Pass
<1>4. Ordered' /\ NothingLostOtherwise'
  BY DEF Ordered, NothingLostOtherwise, Overtaken
<1>5. PassInv'
  BY <1>1, <1>2 DEF PassInv, Types, Pass, Times
<1> QED
  BY <1>3, <1>4, <1>5

LEMMA BulkKeeps == ASSUME Inv, NEW t \in Times, BulkUpdateLastSeen(t) PROVE Inv'
<1> USE NoneIsNoTime DEF Inv, BulkUpdateLastSeen, Group
<1>1. Types'
  BY DEF Types, Pass
<1>2. Ordered'
  BY DEF Ordered, PassInv, Types, Pass
<1>3. PassInv'
  BY DEF PassInv, Types, Pass
<1>4. NothingLostOtherwise'
  BY DEF NothingLostOtherwise, Overtaken, PassInv, Types, Pass
<1> QED
  BY <1>1, <1>2, <1>3, <1>4

LEMMA BulkFailsKeeps == ASSUME Inv, NEW t \in Times, BulkUpdateFails(t) PROVE Inv'
<1> USE NoneIsNoTime DEF Inv, BulkUpdateFails, Fails, Group
<1>1. Types'
  BY DEF Types, Pass
<1>2. Ordered'
  BY DEF Ordered
<1>3. PassInv'
  BY DEF PassInv, Types, Pass
<1>4. NothingLostOtherwise'
  BY DEF NothingLostOtherwise, Overtaken
<1> QED
  BY <1>1, <1>2, <1>3, <1>4

LEMMA PassFailsKeeps == ASSUME Inv, PassFails PROVE Inv'
<1> USE NoneIsNoTime DEF Inv, PassFails, Fails
<1>1. Types'
  BY DEF Types, Pass, NoPass
<1>2. Ordered' /\ NothingLostOtherwise'
  BY DEF Ordered, NothingLostOtherwise, Overtaken
<1>3. PassInv'
  BY DEF PassInv, NoPass
<1> QED
  BY <1>1, <1>2, <1>3

LEMMA DeleteKeeps == ASSUME Inv, SyncDelete PROVE Inv'
<1> USE NoneIsNoTime DEF Inv, SyncDelete
<1>1. Types'
  BY DEF Types, Pass, NoPass
<1>2. Ordered'
  BY DEF Ordered, Types
<1>3. PassInv'
  BY DEF PassInv, NoPass
<1>4. NothingLostOtherwise'
  BY DEF NothingLostOtherwise, Overtaken, PassInv, Types, Pass
<1> QED
  BY <1>1, <1>2, <1>3, <1>4

\* A key that stays holds the last activity; one that goes had been written.
LEMMA DeleteFailsKeeps == ASSUME Inv, DeleteFails PROVE Inv'
<1> USE NoneIsNoTime DEF Inv, DeleteFails, Fails
<1>1. PICK gone \in SUBSET sync.keys :
        /\ key' = [u \in Users |-> IF u \in gone THEN None ELSE key[u]]
        /\ raced' = raced \ (sync.keys \ gone)
  OBVIOUS
<1>2. Types'
  BY <1>1 DEF Types, Pass, NoPass
<1>3. Ordered'
  BY <1>1 DEF Ordered, Types
<1>4. PassInv'
  BY DEF PassInv, NoPass
<1>5. ASSUME NEW u \in Users PROVE key'[u] = active[u] \/ seen[u] = active[u] \/ Overtaken(u)'
  <2>1. CASE u \in gone
    BY <1>1, <2>1 DEF PassInv, NothingLostOtherwise, Overtaken, Types, Pass
  <2>2. CASE u \in sync.keys \ gone
    BY <1>1, <2>2 DEF PassInv, Ordered, Types, Pass
  <2>3. CASE u \notin sync.keys
    BY <1>1, <2>3 DEF NothingLostOtherwise, Overtaken, Types
  <2> QED
    BY <2>1, <2>2, <2>3
<1>6. NothingLostOtherwise'
  BY <1>5 DEF NothingLostOtherwise
<1> QED
  BY <1>2, <1>3, <1>4, <1>6

LEMMA ReadKeeps == ASSUME Inv, NEW v \in Users, ReadRow(v) PROVE Inv'
<1> USE NoneIsNoTime DEF Inv, ReadRow, Counted
<1>1. Types'
  BY DEF Types
<1>2. Ordered'
  BY DEF Ordered, Types
<1>3. PassInv' /\ NothingLostOtherwise'
  BY DEF PassInv, NothingLostOtherwise, Overtaken
<1> QED
  BY <1>1, <1>2, <1>3

\* A copy is never later than the activity, so one that differs from the row
\* either puts it back, which is noted, or finds it behind already.
LEMMA SaveKeeps == ASSUME Inv, NEW v \in Users, SaveRow(v) PROVE Inv'
<1> USE NoneIsNoTime DEF Inv, SaveRow
<1>1. Types'
  BY DEF Types
<1>2. Ordered'
  BY DEF Ordered, Types
<1>3. copy[v] < seen[v] \/ copy[v] = seen[v] \/ seen[v] # active[v]
  BY DEF Ordered, Types, Times
<1>4. \A u \in Users : seen[u] = active[u] => seen'[u] = active'[u] \/ u \in rewound'
  BY <1>3 DEF Types
<1>5. rewound \subseteq rewound'
  BY DEF Types
<1>6. PassInv'
  BY <1>4, <1>5 DEF PassInv, Types, Pass
<1>7. NothingLostOtherwise'
  BY <1>4, <1>5 DEF NothingLostOtherwise, Overtaken
<1> QED
  BY <1>1, <1>2, <1>6, <1>7

LEMMA InvStep == Inv /\ [PresenceNext]_presenceVars => Inv'
<1> SUFFICES ASSUME Inv, [PresenceNext]_presenceVars PROVE Inv'
  OBVIOUS
<1>1. CASE Tick
  BY <1>1, TickKeeps
<1>2. CASE SyncStep
  <2>1. CASE SyncScan
    BY <2>1, ScanKeeps
  <2>2. CASE SyncGet
    BY <2>2, GetKeeps
  <2>3. ASSUME NEW t \in Times, BulkUpdateLastSeen(t) \/ BulkUpdateFails(t) PROVE Inv'
    BY <2>3, BulkKeeps, BulkFailsKeeps
  <2>4. CASE SyncDelete
    BY <2>4, DeleteKeeps
  <2>5. CASE PassFails \/ DeleteFails
    BY <2>5, PassFailsKeeps, DeleteFailsKeeps
  <2> QED
    BY <1>2, <2>1, <2>2, <2>3, <2>4, <2>5 DEF SyncStep
<1>3. ASSUME NEW u \in Users, UpdateLastSeen(u) \/ ReadRow(u) \/ SaveRow(u) PROVE Inv'
  BY <1>3, UpdateKeeps, ReadKeeps, SaveKeeps
<1>4. CASE UNCHANGED presenceVars
  BY <1>4 DEF Inv, Types, Ordered, PassInv, NothingLostOtherwise, Overtaken, presenceVars
<1> QED
  BY <1>1, <1>2, <1>3, <1>4 DEF PresenceNext

\* The last activity of every user is kept or has reached the table, but for an
\* update between a pass's read and its deletion, an old row saved over it and a
\* bulk update of that user's own group that failed: passes that end early, fail
\* for other groups or delete only some keys lose nothing (SyncLastSeenStream,
\* Repository.Update).
THEOREM NothingLost == PresenceSpec => []NothingLostOtherwise
<1>1. Init => Inv
  BY InvInit
<1>2. Inv /\ [PresenceNext]_presenceVars => Inv'
  BY InvStep
<1>3. Inv => NothingLostOtherwise
  BY DEF Inv
<1> QED
  BY <1>1, <1>2, <1>3, PTL DEF PresenceSpec

\* Every variable keeps its type, whatever the interleaving of updates, passes
\* and saves.
THEOREM PresenceTypes == PresenceSpec => []PresenceTypeOK
<1>1. Init => Inv
  BY InvInit
<1>2. Inv /\ [PresenceNext]_presenceVars => Inv'
  BY InvStep
<1>3. Inv => PresenceTypeOK
  BY DEF Inv, Types, Pass, PresenceTypeOK
<1> QED
  BY <1>1, <1>2, <1>3, PTL DEF PresenceSpec
=============================================================================
