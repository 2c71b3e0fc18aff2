--------------------------- MODULE DeadlockManager --------------------------
(***************************************************************************)
(* The DeadlockManager process (DeadlockManager/src/main.c): it owns the   *)
(* blocks of the railway.  It is single-threaded: MsgReceive hands it one  *)
(* request, release or timer pulse at a time, and it runs the whole        *)
(* handler before the next one.  A request or a release is therefore one   *)
(* action.  The handling of a tick is several, because the manager stops   *)
(* at every position update until that train replies: `cursor' is the      *)
(* index of its loop over the trains, or Idle when it is in MsgReceive.    *)
(*                                                                         *)
(* The environment of this module is any train sending any message at any  *)
(* time; which messages the trains really send is the business of module   *)
(* RailwaySystem.  Positions are not modelled: nothing the manager decides *)
(* depends on them.  Of current_speed only its being positive matters.     *)
(***************************************************************************)
EXTENDS DeadlockDetector, ResourceManager, TrackConfiguration

CONSTANTS
    Trains,         \* ids of the trains TrainController can describe
    Start,          \* Start[id]: first track of id in the train configuration
    Powered,        \* the trains configured with a positive speed
    Requestable,    \* Requestable[id]: the track ids in the messages of train id
    MAX_TRAINS,     \* slots of active_trains
    TrackLines,     \* the lines of the track configuration
    CHECK_EVERY     \* ticks between two deadlock checks

ASSUME TrainsAssumption == Trains \subseteq Nat /\ Powered \subseteq Trains
ASSUME StartAssumption == Start \in [Trains -> Int]
ASSUME RequestableAssumption == Requestable \in [Trains -> SUBSET Int]
ASSUME MaxTrainsAssumption == MAX_TRAINS \in Nat \ {0}
ASSUME TracksAssumption ==
    /\ TRACK_COUNT <= MAX_TRACKS
    /\ TrackLines \in Seq(Seq(Int))
ASSUME CheckAssumption == CHECK_EVERY \in Nat \ {0}

\* track_list and track_count as load_track_data leaves them.
Tracks      == LoadTracks(TrackLines)
track_count == Tracks.track_count
TrackIds    == VisitedIds(Tracks)

\* More lines than entries (repeated ids): the loops over 0 .. track_count-1
\* leave the array.
ASSUME CountAssumption == track_count <= MAX_TRACKS

VARIABLES
    track_table,            \* owner of each block, or Free
    listed,                 \* slot the track's train pointer shows, or NoSlot
    active_trains,          \* the cached train records, by slot
    active_train_count,     \* slots in use: 0 .. active_train_count-1
    train_request_states,   \* the request records, by slot
    tick_count,             \* ticks so far, modulo CHECK_EVERY
    cursor                  \* loop index of send_position_updates, or Idle

vars == << track_table, listed, active_trains, active_train_count,
           train_request_states, tick_count, cursor >>

Idle  == -1
Slots == 0 .. MAX_TRAINS - 1
Used  == 0 .. active_train_count - 1

TrainRecords == [ train_id : Nat, track_id : Int, moving : BOOLEAN ]

\* A zeroed record (memset): train 0 on track 0.
ZeroTrain == [ train_id |-> 0, track_id |-> 0, moving |-> FALSE ]

NoRequest == InitRequestState(NoTrain)

TypeOK ==
    /\ track_table \in [Blocks -> Trains \union {Free}]
    /\ listed \in [Blocks -> Slots \union {NoSlot}]
    /\ active_trains \in [Slots -> TrainRecords]
    /\ active_train_count \in 0 .. MAX_TRAINS
    /\ train_request_states \in [Slots -> RequestStates(Trains \union {NoTrain})]
    /\ tick_count \in 0 .. CHECK_EVERY - 1
    /\ cursor \in Idle .. active_train_count

Init ==
    /\ track_table = InitTable
    /\ listed = InitListed
    /\ active_trains = [ i \in Slots |-> ZeroTrain ]
    /\ active_train_count = 0
    /\ train_request_states = [ i \in Slots |-> NoRequest ]
    /\ tick_count = 0
    /\ cursor = Idle

-----------------------------------------------------------------------------
(* Looking trains up. *)

IsCached(id) == \E i \in Used : active_trains[i].train_id = id

\* The first used slot whose record is id's.
IndexOf(records, id) ==
    IF \E i \in Used : records[i].train_id = id
    THEN CHOOSE i \in Used :
            /\ records[i].train_id = id
            /\ \A j \in 0 .. i - 1 : records[j].train_id # id
    ELSE NoSlot

find_train_index(id) == IndexOf(active_trains, id)

\* get_or_create_train_data: the cached record, or a new one copied from
\* TrainController.  The copy is located at the train's first track before
\* any block is granted.
CanFetch(id) == ~ IsCached(id) /\ active_train_count < MAX_TRAINS

FetchedTrain(id) == [ train_id |-> id, track_id |-> Start[id], moving |-> FALSE ]

SlotFor(id) == IF IsCached(id) THEN find_train_index(id) ELSE active_train_count

TrainsWith(id) ==
    IF IsCached(id)
    THEN active_trains
    ELSE [ active_trains EXCEPT ![active_train_count] = FetchedTrain(id) ]

CountWith(id) == IF IsCached(id) THEN active_train_count ELSE active_train_count + 1

\* Mutated form: the request record of a new train is not initialised.
StatesUninitialised(id) == train_request_states

\* The request record of a new train is initialised where it is still unused.
StatesWith(id) ==
    IF train_request_states[SlotFor(id)].train_id < 0
    THEN [ train_request_states EXCEPT ![SlotFor(id)] = InitRequestState(id) ]
    ELSE train_request_states

LocationOf(id) == TrainsWith(id)[SlotFor(id)].track_id

\* train_is_on_any_track looks only at the tracks the configuration listed.
train_is_on_any_track(id) ==
    \E t \in Blocks :
        /\ t < track_count
        /\ listed[t] # NoSlot
        /\ TrainsWith(id)[listed[t]].train_id = id

-----------------------------------------------------------------------------
(* MSG_REQUEST_TRACK *)

tracks_are_direct_neighbors(a, b) ==
    /\ {a, b} \subseteq 0 .. MAX_TRACKS - 1
    /\ b \in Tracks.track_list[a].endpoints \/ a \in Tracks.track_list[b].endpoints

\* detect_head_on_peer_for_request finds a peer.
HeadOnRequest(id, trk) ==
    LET from == LocationOf(id)
    IN  /\ from # trk
        /\ tracks_are_direct_neighbors(from, trk)
        /\ \E i \in Used :
              /\ active_trains[i].train_id # id
              /\ train_request_states[i].holds = trk
              /\ train_request_states[i].wants = from

\* The manager can serve a request of train id: it is not in a tick, and it
\* has the train's record or fetches it now.
Serves(id) == cursor = Idle /\ (IsCached(id) \/ CanFetch(id))

\* No record and no room, or TrainController not reachable, or it does not
\* know the train: the request is denied and leaves no trace.
DenyNoData(id, trk) ==
    /\ cursor = Idle
    /\ ~ IsCached(id)
    /\ UNCHANGED vars

DenyHeadOn(id, trk) ==
    LET s == SlotFor(id)
    IN  /\ Serves(id)
        /\ HeadOnRequest(id, trk)
        /\ active_trains' = [ TrainsWith(id) EXCEPT ![s].moving = FALSE ]
        /\ active_train_count' = CountWith(id)
        /\ train_request_states' =
              [ StatesWith(id) EXCEPT ![s] = UpdateRequestState(@, LocationOf(id), trk) ]
        /\ UNCHANGED << track_table, listed, tick_count, cursor >>

\* The block the train leaves is released after the new one is taken.
Grant(id, trk) ==
    LET s     == SlotFor(id)
        old   == LocationOf(id)
        taken == [ track_table EXCEPT ![trk] = id ]
        leave == old # NoTrack /\ old # trk
    IN  /\ Serves(id)
        /\ ~ HeadOnRequest(id, trk)
        /\ RequestGranted(track_table, old, trk)
        /\ track_table' = IF leave THEN TableAfterRelease(taken, id, old) ELSE taken
        /\ listed' =
              [ IF leave THEN ListedAfterRelease(taken, listed, TrainsWith(id), id, old)
                         ELSE listed
                EXCEPT ![trk] = s ]
        /\ active_trains' =
              [ TrainsWith(id) EXCEPT ![s] =
                    [ @ EXCEPT !.track_id = trk, !.moving = id \in Powered ] ]
        /\ active_train_count' = CountWith(id)
        /\ train_request_states' =
              [ StatesWith(id) EXCEPT ![s] =
                    UpdateRequestState(UpdateRequestState(@, old, trk), trk, NoTrack) ]
        /\ UNCHANGED << tick_count, cursor >>

\* Denied, and marked inactive when no track points to the train.
DenyBusy(id, trk) ==
    LET s  == SlotFor(id)
        at == LocationOf(id)
    IN  /\ Serves(id)
        /\ ~ HeadOnRequest(id, trk)
        /\ ~ RequestGranted(track_table, at, trk)
        /\ active_trains' =
              [ TrainsWith(id) EXCEPT ![s] =
                    [ @ EXCEPT !.track_id = IF train_is_on_any_track(id) THEN at ELSE NoTrack,
                               !.moving = FALSE ] ]
        /\ active_train_count' = CountWith(id)
        /\ train_request_states' =
              [ StatesWith(id) EXCEPT ![s] = UpdateRequestState(@, at, trk) ]
        /\ UNCHANGED << track_table, listed, tick_count, cursor >>

-----------------------------------------------------------------------------
(* MSG_RELEASE_TRACK *)

Release(id, trk) ==
    LET s == find_train_index(id)
    IN  /\ cursor = Idle
        /\ track_table' = TableAfterRelease(track_table, id, trk)
        /\ listed' = ListedAfterRelease(track_table, listed, active_trains, id, trk)
        /\ active_trains' =
              [ i \in Slots |->
                  IF i = s THEN [ active_trains[i] EXCEPT !.track_id = NoTrack, !.moving = FALSE ]
                           ELSE active_trains[i] ]
        /\ train_request_states' =
              [ i \in Slots |->
                  IF i = s THEN UpdateRequestState(train_request_states[i], NoTrack, NoTrack)
                           ELSE train_request_states[i] ]
        /\ UNCHANGED << active_train_count, tick_count, cursor >>

-----------------------------------------------------------------------------
(* The timer pulse: position updates, then every CHECK_EVERY ticks a check. *)

\* Mutated form: the update loop starts at the second train.
TickPulseOffByOne ==
    /\ cursor = Idle
    /\ cursor' = 1
    /\ tick_count' = (tick_count + 1) % CHECK_EVERY
    /\ train_request_states' = [ i \in Slots |-> AgeRequestState(train_request_states[i]) ]
    /\ UNCHANGED << track_table, listed, active_trains, active_train_count >>

TickPulse ==
    /\ cursor = Idle
    /\ cursor' = 0
    /\ tick_count' = (tick_count + 1) % CHECK_EVERY
    /\ train_request_states' = [ i \in Slots |-> AgeRequestState(train_request_states[i]) ]
    /\ UNCHANGED << track_table, listed, active_trains, active_train_count >>

\* The train at the cursor got its update and replied.
UpdateSent ==
    /\ cursor \in Used
    /\ cursor' = cursor + 1
    /\ UNCHANGED << track_table, listed, active_trains, active_train_count,
                    train_request_states, tick_count >>

IdleAndUnrequested(i) ==
    /\ active_trains[i].track_id = NoTrack
    /\ train_request_states[i].holds = NoTrack
    /\ train_request_states[i].wants = NoTrack

\* The train at the cursor has no channel any more (its process is gone) but
\* still has a block or a request on record: it is only warned about.
UpdateSkipped ==
    /\ cursor \in Used
    /\ ~ IdleAndUnrequested(cursor)
    /\ cursor' = cursor + 1
    /\ UNCHANGED << track_table, listed, active_trains, active_train_count,
                    train_request_states, tick_count >>

\* remove_active_train_at: both arrays move down by one from slot k on.  The
\* tracks' pointers are not adjusted.
Cleanup ==
    LET k    == cursor
        last == active_train_count - 1
        ShiftDown(array, empty) ==
            [ i \in Slots |->
                CASE i = last               -> empty
                  [] i >= k /\ i < last     -> array[i + 1]
                  [] i < k \/ i > last      -> array[i] ]
    IN  /\ cursor \in Used
        /\ IdleAndUnrequested(cursor)
        /\ active_trains' = ShiftDown(active_trains, ZeroTrain)
        /\ train_request_states' = ShiftDown(train_request_states, NoRequest)
        /\ active_train_count' = last
        /\ UNCHANGED << track_table, listed, tick_count, cursor >>

UpdatesDone == cursor = active_train_count
CheckDue    == tick_count = 0

TickDone ==
    /\ UpdatesDone
    /\ ~ CheckDue
    /\ cursor' = Idle
    /\ UNCHANGED << track_table, listed, active_trains, active_train_count,
                    train_request_states, tick_count >>

-----------------------------------------------------------------------------
(* check_deadlock_and_recover *)

\* First every record is brought in line with where its train is, and aged.
SyncedStates ==
    [ i \in Slots |->
        IF i \in Used
        THEN LET r     == train_request_states[i]
                 holds == active_trains[i].track_id
                 wants == IF holds < 0 THEN NoTrack ELSE r.wants
             IN  DetectStuckTrain(UpdateRequestState(r, holds, wants))
        ELSE train_request_states[i] ]

\* find_opposing_head_on_peer(id) finds a peer: no adjacency is asked for.
HasOpposingPeer(states, id) ==
    LET s == IndexOf(states, id)
    IN  /\ IsCached(id) /\ s # NoSlot
        /\ states[s].holds >= 0 /\ states[s].wants >= 0
        /\ states[s].holds # states[s].wants
        /\ \E i \in Used :
              /\ active_trains[i].train_id # id
              /\ states[i].holds = states[s].wants
              /\ states[i].wants = states[s].holds

Victim == DetectDeadlock(SyncedStates, active_train_count, TrackIds)

\* resolve_deadlock_cycle gives up on a train without record or without block.
CanRollBack ==
    LET s == IndexOf(SyncedStates, Victim)
    IN  /\ Victim >= 0
        /\ ~ HasOpposingPeer(SyncedStates, Victim)
        /\ IsCached(Victim) /\ s # NoSlot
        /\ SyncedStates[s].holds >= 0

\* No cycle, or one whose reported train faces another head on.
CheckOnly ==
    /\ UpdatesDone
    /\ CheckDue
    /\ ~ CanRollBack
    /\ cursor' = Idle
    /\ train_request_states' = SyncedStates
    /\ UNCHANGED << track_table, listed, active_trains, active_train_count, tick_count >>

\* resolve_deadlock_cycle: the victim loses its block and keeps its wish.
CheckAndRollBack ==
    LET id   == Victim
        s    == IndexOf(SyncedStates, id)
        held == SyncedStates[s].holds
    IN  /\ UpdatesDone
        /\ CheckDue
        /\ CanRollBack
        /\ cursor' = Idle
        /\ track_table' = TableAfterRelease(track_table, id, held)
        /\ listed' = ListedAfterRelease(track_table, listed, active_trains, id, held)
        /\ active_trains' =
              [ active_trains EXCEPT ![find_train_index(id)] =
                    [ @ EXCEPT !.track_id = NoTrack, !.moving = FALSE ] ]
        /\ train_request_states' =
              [ SyncedStates EXCEPT ![s] = UpdateRequestState(@, NoTrack, @.wants) ]
        /\ UNCHANGED << active_train_count, tick_count >>

-----------------------------------------------------------------------------
Message ==
    \E id \in Trains : \E trk \in Requestable[id] :
        \/ DenyNoData(id, trk)
        \/ DenyHeadOn(id, trk)
        \/ Grant(id, trk)
        \/ DenyBusy(id, trk)
        \/ Release(id, trk)

Tick ==
    \/ TickPulse
    \/ UpdateSent
    \/ UpdateSkipped
    \/ Cleanup
    \/ TickDone
    \/ CheckOnly
    \/ CheckAndRollBack

Next == Message \/ Tick

Spec == Init /\ [][Next]_vars

-----------------------------------------------------------------------------
(* Properties *)

\* The two arrays the manager searches by train id describe the same trains
\* slot by slot, no train twice, and a slot outside Used has a fresh request
\* record (main.c initialises a record only where its train_id is negative).
SlotsAligned ==
    /\ \A i \in Used :
          /\ active_trains[i].train_id \in Trains
          /\ train_request_states[i].train_id = active_trains[i].train_id
    /\ \A i, j \in Used : active_trains[i].train_id = active_trains[j].train_id => i = j
    /\ \A i \in Slots \ Used : train_request_states[i] = NoRequest

Starts == { Start[id] : id \in Trains }

\* Every train the manager locates on a block of T owns it, so no two trains
\* are located on the same block of T.
ExclusiveOn(T) ==
    \A i \in Used : active_trains[i].track_id \in T =>
        track_table[active_trains[i].track_id] = active_trains[i].train_id

\* "Block model: exactly one train can occupy a track at a time"
\* (resource_manager.c:36), on every block that is no train's first block:
\* whatever the trains send, a train the manager locates on such a block is
\* its owner.
ExclusiveOffStarts == ExclusiveOn(Blocks \ Starts)

\* The same on every block.
Exclusive == ExclusiveOn(Blocks)

\* The block a train of Used is recorded to hold is its own, if it is in T.
HoldsOwnedOn(T) ==
    \A i \in Used : train_request_states[i].holds \in T =>
        track_table[train_request_states[i].holds] = active_trains[i].train_id

\* The block a train is recorded to hold, from which the deadlock check and
\* the head-on check draw their edges, is that train's in the ownership table
\* (first blocks excepted): the graph is never built from a stale holding.
HoldsAreOwned == HoldsOwnedOn(Blocks \ Starts)

\* suggest_reroute: the id of the first entry that is not the given track and
\* has no train listed.
suggest_reroute(current) ==
    LET candidates == { k \in DOMAIN TrackIds :
                           /\ TrackIds[k] # current
                           /\ k - 1 \in Blocks => listed[k - 1] = NoSlot }
    IN  IF candidates = {} THEN NoTrack ELSE TrackIds[Min(candidates)]

\* The alternative the manager proposes for a stuck train is a block nobody
\* owns, although it is chosen by the track lists and not by the table.
RerouteIsFree ==
    \A i \in Used : LET t == suggest_reroute(active_trains[i].track_id)
                    IN  t \in Blocks => track_table[t] = Free

\* A block of T is not taken from its owner in favour of another train.
NoTakeoverOn(T) ==
    \A t \in T : track_table[t] # Free => track_table'[t] \in {track_table[t], Free}

\* A block that is no train's first block changes hands only through Free: a
\* grant never takes it from its owner (the unconditional branch of
\* request_track, resource_manager.c:31, is met only by the owner).
NoTakeover == [][NoTakeoverOn(Blocks \ Starts)]_vars

\* When the check takes a block from a train (the only step that ends a tick
\* and frees a block), that train was on a cycle of waiting trains, and not on
\* one of two trains: "if two trains on neighboring blocks each request the
\* other's block, the manager ... denies movement" (FinalReport.tex:130).
RollbackStep ==
    cursor # Idle /\ cursor' = Idle =>
        \A t \in Blocks : track_table'[t] # track_table[t] =>
            \E i \in Used :
                /\ track_table[t] = active_trains[i].train_id
                /\ active_trains[i].track_id = t
                /\ OnWaitCycle(SyncedStates, active_train_count, TrackIds, i)
                /\ \A j \in Used \ {i} :
                      ~ /\ SyncedStates[i].wants = active_trains[j].track_id
                        /\ SyncedStates[j].wants = t

RollbackOnlyOnCycle == [][RollbackStep]_vars

\* When a check is due, some train is reported if any is on a cycle of waits
\* ("Returns the node_id of a train in a cycle, or -1 if no cycle",
\* deadlock_detector.c:140).
CycleIsReported ==
    UpdatesDone /\ CheckDue =>
        \/ Victim >= 0
        \/ \A i \in Used : ~ OnWaitCycle(SyncedStates, active_train_count, TrackIds, i)

\* The environment the system is meant for: a train the manager has no record
\* of asks for its own first block, and that block is free.
AdmissionOntoFreeBlock ==
    \A id \in Trains : ~ IsCached(id) /\ IsCached(id)' =>
        /\ Start[id] \in Blocks
        /\ track_table[Start[id]] = Free
        /\ track_table'[Start[id]] = id

AdmittedSpec == Init /\ [][Next /\ AdmissionOntoFreeBlock]_vars

\* Where the manager locates each train; a train not cached, or sent to a
\* track that is no block, is nowhere.
LocatedAt ==
    [ id \in Trains |->
        IF \E i \in Used : active_trains[i].train_id = id /\ active_trains[i].track_id \in Blocks
        THEN active_trains[find_train_index(id)].track_id
        ELSE NoTrack ]

Reservation == INSTANCE BlockReservation WITH at <- LocatedAt, Nowhere <- NoTrack

\* In that environment the manager implements the abstract reservation of
\* blocks, rollbacks and lost trains included.
ReservesBlocks == Reservation!Spec

=============================================================================
