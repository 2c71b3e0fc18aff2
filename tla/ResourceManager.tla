-------------------------- MODULE ResourceManager ---------------------------
(***************************************************************************)
(* DeadlockManager/src/resource_manager.c: what request_track and          *)
(* release_track do to the ownership table and to the list of trains a     *)
(* track points to.  The list never has more than one entry (a grant       *)
(* resets it to one), and an entry is a pointer into active_trains: it is  *)
(* kept as the slot it points to, NoSlot standing for num_trains = 0.      *)
(***************************************************************************)
EXTENDS Integers

CONSTANT TRACK_COUNT         \* blocks of the ownership table

ASSUME TrackCountAssumption == TRACK_COUNT \in Nat

Free   == -1                 \* track_table[t] of a block nobody owns
NoSlot == -1

Blocks == 0 .. TRACK_COUNT - 1

InitTable  == [ t \in Blocks |-> Free ]
InitListed == [ t \in Blocks |-> NoSlot ]

\* Mutated form: grants without looking at the owner.
GrantedWhoeverOwns(table, at, trk) == trk \in Blocks

\* request_track(train, trk) for a train located at `at'.
RequestGranted(table, at, trk) ==
    trk \in Blocks /\ (at = trk \/ table[trk] = Free)

\* Mutated form: a release by a train that is not the owner.
ReleasesWhoeverOwns(table, id, trk) == trk \in Blocks

\* release_track(id, trk): only the owner's release does anything.
Releases(table, id, trk) == trk \in Blocks /\ table[trk] = id

\* Mutated form: the block stays owned.
TableNeverFreed(table, id, trk) == table

TableAfterRelease(table, id, trk) ==
    IF Releases(table, id, trk) THEN [ table EXCEPT ![trk] = Free ] ELSE table

\* Mutated form: forgets the train listed, whoever owns the block.
AlwaysUnlisted(table, listed, trains, id, trk) ==
    IF trk \in Blocks THEN [ listed EXCEPT ![trk] = NoSlot ] ELSE listed

\* The released block forgets its train if the record its pointer now shows
\* is that train's.
ListedAfterRelease(table, listed, trains, id, trk) ==
    IF /\ Releases(table, id, trk)
       /\ listed[trk] # NoSlot
       /\ trains[listed[trk]].train_id = id
    THEN [ listed EXCEPT ![trk] = NoSlot ]
    ELSE listed

=============================================================================
