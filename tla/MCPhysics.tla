------------------------------ MODULE MCPhysics ------------------------------
(***************************************************************************)
(* One block and the slots of active_trains.  The block's list holds the   *)
(* pointers main.c keeps: slots, which show whichever train the array has  *)
(* moved there.  The calls are those main.c makes (tick, request, release, *)
(* rollback, removal) and those physics_engine.h offers beyond them.  What *)
(* the ownership table and the request records decide in main.c is left    *)
(* open here, and a tick is the steps it is made of: both only add runs.   *)
(***************************************************************************)
EXTENDS PhysicsEngine

CONSTANTS Ids, Speed, Length, MAX_TRAINS, TrackLength, Horizon

\* Trains and blocks are configured with lengths (the defaults that the two
\* main.c define), speeds with any number.
ASSUME PhysicsAssumption ==
    /\ MAX_TRAINS \in Nat
    /\ TrackLength \in Nat \ {0}
    /\ Length \in [Ids -> Nat]
    /\ Speed \in [Ids -> Int]
    /\ \A id \in Ids : Speed[id] > 0 => \E k \in 1 .. Scale : Scale = Speed[id] * k

VARIABLES now, active, trains, track

phvars == << now, active, trains, track >>

MCSpeed  == << 1, 2 >>
MCLength == << 2, 1 >>

Slots  == 1 .. MAX_TRAINS
Zeroed == Fetched(0, 0, 0, 0)

Init ==
    /\ now = 0
    /\ active = 0
    /\ trains = [ i \in Slots |-> Zeroed ]
    /\ track = << >>

\* Time passes, up to Horizon.
Wait == now < Horizon /\ now' = now + 1 /\ UNCHANGED << active, trains, track >>

set_train_waiting_speed(train, waiting) ==
    [ train EXCEPT !.current_speed = IF waiting THEN 0 ELSE train.speed ]

\* The slot of a train, the first unused one if its data is to be fetched.
SlotOf(id) ==
    IF \E i \in 1 .. active : trains[i].train_id = id
    THEN CHOOSE i \in 1 .. active : trains[i].train_id = id
    ELSE active + 1

\* get_or_create_train_data: records with the train's among them.  A train not
\* yet cached is located on its first track.
WithTrain(id, first) ==
    IF SlotOf(id) <= active
    THEN trains
    ELSE [ trains EXCEPT ![active + 1] = Fetched(id, Speed[id], Length[id], first) ]

\* release_track on this block: nothing if the train does not own it (open
\* here), else the first entry that shows a record of the id goes, whichever
\* train the entry was made for.
Shows(ts, id)    == { k \in 1 .. Len(track) : ts[track[k]].train_id = id }
Unlisted(ts, id) == IF Shows(ts, id) = {} THEN track ELSE RemoveAt(track, Min(Shows(ts, id)))
Releases(ts, id) == {track, Unlisted(ts, id)}

\* A request: the slot the train ends up in, with its record changed to r.
Stored(id, first, r) ==
    /\ SlotOf(id) \in Slots
    /\ trains' = [ WithTrain(id, first) EXCEPT ![SlotOf(id)] = r ]
    /\ active' = IF SlotOf(id) <= active THEN active ELSE active + 1
    /\ UNCHANGED now

\* This block is granted: the train is listed, alone, and set in motion; its
\* entry time is left as it was fetched.
Granted(id, first) ==
    LET train == WithTrain(id, first)[SlotOf(id)]
    IN  /\ Stored(id, first, [ set_train_waiting_speed(train, FALSE) EXCEPT !.track_id = Here ])
        /\ track' = << SlotOf(id) >>

\* Another block is granted: this one is released if the train was on it.
GrantedElsewhere(id, first) ==
    LET ts    == WithTrain(id, first)
        train == ts[SlotOf(id)]
    IN  /\ Stored(id, first, [ set_train_waiting_speed(train, FALSE) EXCEPT !.track_id = Elsewhere ])
        /\ track' \in IF train.track_id = Here THEN Releases(ts, id) ELSE {track}

\* A request is denied: the train waits, and may be taken off its block if this
\* list does not show it (what the other lists show is left open).
Denied(id, first) ==
    LET ts    == WithTrain(id, first)
        train == ts[SlotOf(id)]
    IN  /\ \E t \in {train.track_id, NoTrackId} :
              /\ t # train.track_id => Shows(ts, id) = {}
              /\ Stored(id, first, [ set_train_waiting_speed(train, TRUE) EXCEPT !.track_id = t ])
        /\ UNCHANGED track

\* MSG_RELEASE_TRACK, of a train that may no longer be cached.
Released(id) ==
    /\ track' \in Releases(trains, id)
    /\ trains' = [ i \in Slots |->
                     IF i <= active /\ trains[i].train_id = id
                     THEN [ set_train_waiting_speed(trains[i], TRUE) EXCEPT !.track_id = NoTrackId ]
                     ELSE trains[i] ]
    /\ UNCHANGED << now, active >>

\* resolve_deadlock_cycle, of a cached train; whether the block it is recorded
\* to hold is this one is left open.
RolledBack(i) ==
    /\ track' \in Releases(trains, trains[i].train_id)
    /\ trains' = [ trains EXCEPT ![i] =
                     [ set_train_waiting_speed(AtStart(trains[i]), TRUE) EXCEPT !.track_id = NoTrackId ] ]
    /\ UNCHANGED << now, active >>

\* remove_active_train_at, as send_position_updates calls it: the records above
\* move down, and the lists go on pointing to the slots.
Removed(i) ==
    /\ trains[i].track_id = NoTrackId
    /\ active' = active - 1
    /\ trains' = [ j \in Slots |-> IF j < i \/ j > active THEN trains[j]
                                   ELSE IF j < active THEN trains[j + 1]
                                   ELSE Zeroed ]
    /\ UNCHANGED << now, track >>

\* init_train_on_track, for a train that follows the ones on the block, which a
\* caller of physics_engine.h may admit though main.c does not.
Enter(i) ==
    /\ ~ Contains(track, i)
    /\ track' = Append(track, i)
    /\ trains' = [ trains EXCEPT ![i] =
                     [ init_train_on_track(trains[i], trains[i].speed, now) EXCEPT !.track_id = Here ] ]
    /\ UNCHANGED << now, active >>

\* The tick of main.c, at the present time, or at 0 if clock_gettime fails.
MoveAll ==
    /\ \E time \in {now, 0} : trains' = update_track_data(track, trains, time)
    /\ UNCHANGED << now, active, track >>

MoveAndDrop ==
    \E time \in {now, 0} :
        LET after == update_trains_on_track(track, trains, TrackLength, time)
        IN  /\ track' = after.track
            /\ trains' = after.trains
            /\ UNCHANGED << now, active >>

Next ==
    \/ Wait
    \/ MoveAll
    \/ MoveAndDrop
    \/ \E id \in Ids, first \in {Here, Elsewhere} : \/ Granted(id, first)
                                                  \/ GrantedElsewhere(id, first)
                                                  \/ Denied(id, first)
    \/ \E id \in Ids : Released(id)
    \/ \E i \in 1 .. active : RolledBack(i) \/ Removed(i) \/ Enter(i)

Spec == Init /\ [][Next]_phvars

-----------------------------------------------------------------------------
\* The unit intervals of the line a train covers.
Cells(i) == trains[i].rear .. trains[i].front - 1

\* check_train_collision reports two trains exactly when they cover a common
\* stretch of the line.
CollisionIsOverlap ==
    \A a, b \in Slots : Cells(a) # {} /\ Cells(b) # {} =>
        (check_train_collision(trains[a], trains[b]) <=> Cells(a) \cap Cells(b) # {})

\* get_track_occupancy is the share of the block that is covered by trains,
\* never less than that where trains overlap, and never more than the block.
OccupancyIsCover ==
    LET covered  == UNION { Cells(id) : id \in ToSet(track) } \cap 0 .. TrackLength - 1
        occupied == get_track_occupancy(track, trains, TrackLength)
        overlap  == \E a, b \in ToSet(track) : a # b /\ Cells(a) \cap Cells(b) # {}
    IN  /\ Cardinality(covered) <= occupied /\ occupied <= TrackLength
        /\ ~ overlap => occupied = Cardinality(covered)

\* time_until_train_at_position is the first moment at which a train of the
\* track that goes on at its speed has its front at the position.
ArrivalIsFirst ==
    \A p \in 0 .. TrackLength :
        LET at(d) == \E id \in ToSet(track) :
                        /\ trains[id].current_speed > 0
                        /\ trains[id].front * Scale + trains[id].current_speed * d = p * Scale
            until == time_until_train_at_position(track, trains, p)
        IN  IF until = Never
            THEN \A d \in 0 .. Scale * TrackLength : ~ at(d)
            ELSE at(until) /\ \A d \in 0 .. until - 1 : ~ at(d)

\* The time time_to_clear_section predicts is the one after which
\* update_trains_on_track drops the train, for a train that was moved at its
\* present speed at the present time.
ClearanceIsExact ==
    \A id \in ToSet(track) :
        LET train == trains[id]
            clear == time_to_clear_section(train, TrackLength)
        IN  train.current_speed > 0 /\ update_train_position(train, now) = train =>
                \A d \in 0 .. 2 * TrackLength :
                    has_train_left_track(update_train_position(train, now + d), TrackLength)
                        <=> clear <= d * Scale
=============================================================================
