---------------------------- MODULE PhysicsEngine ----------------------------
(***************************************************************************)
(* DeadlockManager/src/physics_engine.c: where trains are along a block,   *)
(* and what its helpers say of that.  Positions, lengths and times are     *)
(* integers here, and a duration, the result of a division by a speed, is  *)
(* in units of 1/Scale of the clock's.  A train is the record of its       *)
(* positions; a track is the sequence of the trains it points to (NULL     *)
(* entries, which the C code skips, are not in it).                        *)
(***************************************************************************)
EXTENDS Integers, SequencesExt

CONSTANT Scale               \* a multiple of every speed

ASSUME ScaleAssumption == Scale \in Nat \ {0}

NoTrackId == -1
Never     == -1              \* no time, in the results of the helpers

Here      == 0               \* the block looked at, and any other one
Elsewhere == 1

\* A train just fetched from TrainController (memset, then the configuration),
\* located on its first track.
Fetched(id, speed, length, first) ==
    [ train_id |-> id, speed |-> speed, length |-> length, track_id |-> first,
      front |-> 0, rear |-> 0, entry |-> 0, current_speed |-> 0 ]

\* A train with its front at the start of the block.
AtStart(train) == [ train EXCEPT !.front = 0, !.rear = - train.length ]

init_train_on_track(train, speed, now) ==
    IF speed < 0
    THEN train
    ELSE [ AtStart(train) EXCEPT !.entry = now, !.current_speed = speed ]

calculate_distance_traveled(speed, elapsed) == IF elapsed < 0 THEN 0 ELSE speed * elapsed

\* update_train_position fails, and changes nothing, before the train's entry.
CanUpdate(train, now) == now >= train.entry

update_train_position(train, now) ==
    LET distance == calculate_distance_traveled(train.current_speed, now - train.entry)
    IN  IF CanUpdate(train, now)
        THEN [ train EXCEPT !.front = distance, !.rear = distance - train.length ]
        ELSE train

\* Mutated form: a train has left with its front.
LeftWithFront(train, length) == length <= 0 \/ train.front >= length

has_train_left_track(train, length) == length <= 0 \/ train.rear >= length

\* Mutated form: one train behind the other is not looked at.
OneSidedCollision(a, b) == a.rear < b.front

check_train_collision(a, b) == a.rear < b.front /\ a.front > b.rear

time_to_clear_section(train, section_end) ==
    IF train.current_speed <= 0 \/ section_end < train.rear
    THEN Never
    ELSE ((section_end - train.rear) * Scale) \div train.current_speed

-----------------------------------------------------------------------------
(* Tracks.  `trains' maps the ids of the sequence `track' to records. *)

\* The array after the trains of the set gone were left out of it.
Compacted(track, gone) ==
    LET kept[k \in 0 .. Len(track)] ==
            IF k = 0 THEN << >>
            ELSE IF track[k] \in gone THEN kept[k - 1]
            ELSE Append(kept[k - 1], track[k])
    IN  kept[Len(track)]

\* update_trains_on_track: the trains are moved in turn, and those past the
\* end are left out.  It gives up at the first train it cannot move: the ones
\* before are moved and written to the front of the array, whose length and
\* remaining entries stay as they were.
update_trains_on_track(track, trains, length, now) ==
    LET stops(k)  == ~ CanUpdate(trains[track[k]], now)
        last      == IF \E k \in DOMAIN track : stops(k)
                     THEN SelectInSeq(track, LAMBDA id : ~ CanUpdate(trains[id], now)) - 1
                     ELSE Len(track)
        done      == SubSeq(track, 1, last)
        moved(id) == update_train_position(trains[id], now)
        gone      == { id \in ToSet(done) : has_train_left_track(moved(id), length) }
        kept      == Compacted(done, gone)
    IN  [ track  |-> IF last = Len(track)
                     THEN kept
                     ELSE kept \o SubSeq(track, Len(kept) + 1, Len(track)),
          trains |-> [ id \in DOMAIN trains |->
                         IF ~ Contains(done, id) THEN trains[id]
                         ELSE IF id \in gone THEN [ moved(id) EXCEPT !.track_id = NoTrackId ]
                         ELSE moved(id) ] ]

\* update_track_data: every train of the track is moved, none is left out.
update_track_data(track, trains, now) ==
    [ id \in DOMAIN trains |->
        IF Contains(track, id) THEN update_train_position(trains[id], now) ELSE trains[id] ]

\* The sum of the parts of a track's trains.
Total(track, part) ==
    LET sum[k \in 0 .. Len(track)] == IF k = 0 THEN 0 ELSE sum[k - 1] + part[track[k]]
    IN  sum[Len(track)]

\* Mutated form: the part of a train before the block counts as well.
OccupiedWithTail(track, trains, length) ==
    LET part == [ id \in ToSet(track) |->
                    IF trains[id].front > 0 /\ trains[id].rear < length
                    THEN Min({trains[id].front, length}) - trains[id].rear
                    ELSE 0 ]
    IN  IF length <= 0 THEN 0 ELSE Min({Total(track, part), length})

\* get_track_occupancy, as a length: the percentage is 100 / length of it.
get_track_occupancy(track, trains, length) ==
    LET part == [ id \in ToSet(track) |->
                    IF trains[id].front > 0 /\ trains[id].rear < length
                    THEN Min({trains[id].front, length}) - Max({trains[id].rear, 0})
                    ELSE 0 ]
    IN  IF length <= 0 THEN 0 ELSE Min({Total(track, part), length})

\* Mutated form: a train past the position is taken for the nearest.
UntilEvenIfPassed(track, trains, position) ==
    LET coming == { id \in ToSet(track) : trains[id].current_speed > 0 }
    IN  IF coming = {}
        THEN Never
        ELSE Min({ ((position - trains[id].front) * Scale) \div trains[id].current_speed : id \in coming })

time_until_train_at_position(track, trains, position) ==
    LET coming == { id \in ToSet(track) :
                       trains[id].current_speed > 0 /\ position >= trains[id].front }
    IN  IF coming = {}
        THEN Never
        ELSE Min({ ((position - trains[id].front) * Scale) \div trains[id].current_speed : id \in coming })

=============================================================================
