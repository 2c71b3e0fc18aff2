------------------------------ MODULE MCRailway ------------------------------
(* The configurations of examples/ and variations of them, for TLC. *)
EXTENDS RailwaySystem

\* What a train configuration says of its trains.
LineOf(id) == SelectSeq(TrainLines, LAMBDA l : Len(l) >= 4 /\ l[1] = id)[1]

MCStart       == [ id \in Trains |-> LineOf(id)[2] ]
MCDestination == [ id \in Trains |-> LineOf(id)[3] ]
MCRoutes      == [ id \in Trains |-> { LineOf(id)[2], LineOf(id)[3] } ]

\* examples/track_config_demo.txt: a ring of blocks 1, 2, 4, with 3 next to 2
\* and 5 next to 4.
MCDemoTracks == << <<0, 1, -1, -1, -1, -1>>, <<1, 1, 2, 4, -1, -1>>,
                   <<2, 1, 1, 3, 4, -1>>,    <<3, 1, 2, -1, -1, -1>>,
                   <<4, 1, 1, 2, 5, -1>>,    <<5, 1, 4, -1, -1, -1>> >>

\* examples/train_config_demo.txt, with its first comment.
MCDemoTrains == << << >>, <<1, 1, 2, 900>>, <<2, 2, 4, 900>>, <<3, 4, 1, 900>>, <<4, 3, 2, 700>> >>

\* The three trains of the ring.
MCRingTrains == << << >>, <<1, 1, 2, 900>>, <<2, 2, 4, 900>>, <<3, 4, 1, 900>> >>

\* examples/track_config_deadlock_cycle.txt and its trains: 1 from 0 to 1, 2
\* from 1 to 0.
MCSwapTracks == << <<0, 1, 1, -1, -1, -1>>,  <<1, 1, 0, -1, -1, -1>>,
                   <<2, 1, -1, -1, -1, -1>>, <<3, 1, -1, -1, -1, -1>>,
                   <<4, 1, -1, -1, -1, -1>>, <<5, 1, -1, -1, -1, -1>> >>
MCSwapTrains == << << >>, <<1, 0, 1, 900>>, <<2, 1, 0, 900>> >>

\* The same trains on blocks that are not neighbours.
MCApartTracks == [ k \in 1 .. 6 |-> << k - 1, 1, -1, -1, -1, -1 >> ]

\* Trains 1 and 2 are configured to start on the same block.
MCSharedTrains == << <<1, 0, 1, 900>>, <<2, 0, 2, 900>>, <<3, 1, 0, 900>> >>

\* Train 2 is configured with speed 0.
MCStandingTrains == << <<1, 0, 1, 900>>, <<2, 1, 0, 0>> >>
=============================================================================
