-------------------------- MODULE MCDeadlockManager --------------------------
(* Small instances of DeadlockManager for TLC. *)
EXTENDS DeadlockManager

\* Three blocks, each next to the other two (the cycle of track_config_demo.txt).
MCTriangle == << <<0, 1, 1, 2, -1, -1>>, <<1, 1, 0, 2, -1, -1>>, <<2, 1, 0, 1, -1, -1>> >>

\* Train k starts on block k - 1.
MCOwnStart == [ id \in Trains |-> id - 1 ]

\* All trains start on block 0.
MCSharedStart == [ id \in Trains |-> 0 ]

\* Any train names any block.
MCAnyBlock == [ id \in Trains |-> Blocks ]

-----------------------------------------------------------------------------
\* Trains that go around the triangle, train k from block k - 1 to the next.
\* Each is admitted onto its free start block, asks for the next block at any
\* time, and may leave from there.
MCRing == [ id \in Trains |-> { id - 1, id % 3 } ]

Admission(id) ==
    /\ ~ IsCached(id)
    /\ track_table[Start[id]] = Free
    /\ Grant(id, Start[id])

Asking(id) ==
    /\ IsCached(id)
    /\ \E trk \in Requestable[id] \ {Start[id]} :
          DenyHeadOn(id, trk) \/ Grant(id, trk) \/ DenyBusy(id, trk)

Leaving(id) ==
    /\ IsCached(id)
    /\ LocationOf(id) \in Requestable[id] \ {Start[id]}
    /\ Release(id, LocationOf(id))

RingNext == (\E id \in Trains : Admission(id) \/ Asking(id) \/ Leaving(id)) \/ Tick

RingSpec == Init /\ [][RingNext]_vars
=============================================================================
