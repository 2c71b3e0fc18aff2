-------------------------- MODULE DeadlockDetector --------------------------
(***************************************************************************)
(* The pure part of DeadlockManager/src/deadlock_detector.c: the request   *)
(* record the manager keeps for each train, the ageing of a request, and   *)
(* the search for a cycle in the resource graph built from those records.  *)
(*                                                                         *)
(* A train id is a natural number, a track id an integer, and -1 stands    *)
(* for "no track" and "no train", as in the C code.  request_time_ns is    *)
(* kept as `waited', the number of ticks since the current request was     *)
(* made; it is 0 while nothing is wanted, because the C code then never    *)
(* reads the time before it overwrites it.                                 *)
(***************************************************************************)
EXTENDS Integers, SequencesExt

CONSTANT StuckAfter          \* STUCK_TIMEOUT_NS, in ticks of the manager

ASSUME StuckAfterAssumption == StuckAfter \in Nat

NoTrack == -1
NoTrain == -1

TrainStates == {"ACTIVE", "WAITING", "STUCK"}

RequestStates(Ids) ==
    [ train_id : Ids, state : TrainStates, holds : Int, wants : Int,
      waited : 0 .. StuckAfter + 1 ]

-----------------------------------------------------------------------------
InitRequestState(id) ==
    [ train_id |-> id, state |-> "ACTIVE",
      holds |-> NoTrack, wants |-> NoTrack, waited |-> 0 ]

\* Mutated form: a train that lost its block is still recorded to hold it.
UpdateKeepsHolding(r, holds, wants) ==
    [ r EXCEPT !.holds  = IF holds = NoTrack THEN @ ELSE holds,
               !.wants  = wants,
               !.waited = IF wants = r.wants THEN @ ELSE 0 ]

UpdateRequestState(r, holds, wants) ==
    [ r EXCEPT !.holds  = holds,
               !.wants  = wants,
               !.waited = IF wants = r.wants THEN @ ELSE 0 ]

\* One tick of waiting.  The count stops one past the timeout.
AgeRequestState(r) ==
    [ r EXCEPT !.waited = IF r.wants # NoTrack /\ @ <= StuckAfter THEN @ + 1 ELSE @ ]

IsStuck(r) == r.wants # NoTrack /\ r.waited > StuckAfter

DetectStuckTrain(r) ==
    IF r.wants = NoTrack
    THEN r
    ELSE [ r EXCEPT !.state = IF IsStuck(r) THEN "STUCK" ELSE "WAITING" ]

-----------------------------------------------------------------------------
(***************************************************************************)
(* The resource graph of n trains (the records reqs[0] .. reqs[n-1]) and   *)
(* the tracks whose ids are the sequence ids, in the order of track_list.  *)
(* Node i < n is the train in slot i, node n + k - 1 the k-th track: the   *)
(* order in which build_resource_graph adds them.  A train points to the   *)
(* track it holds and a track to every train that wants it.  Should an id  *)
(* stand for several tracks, edges go to and from the first only.          *)
(***************************************************************************)
FirstWith(ids, t) == SelectInSeq(ids, LAMBDA x : x = t)     \* 0 if there is none

TrackNode(n, ids, t) == n + FirstWith(ids, t) - 1           \* a train's node, < n, if none

NodeCount(n, ids) == n + Len(ids)

Nodes(n, ids) == 0 .. NodeCount(n, ids) - 1

\* Mutated form: the last train is left out of the waiting trains.
PointsOneShort(reqs, n, ids, v, w) ==
    \/ v < n /\ w >= n /\ w = TrackNode(n, ids, reqs[v].holds)
    \/ v >= n /\ w < n - 1 /\ v = TrackNode(n, ids, reqs[w].wants)

\* Mutated form: a train points to the track it wants as if it held it.
PointsByWish(reqs, n, ids, v, w) ==
    \/ v < n /\ w >= n /\ w = TrackNode(n, ids, reqs[v].wants)
    \/ v >= n /\ w < n /\ v = TrackNode(n, ids, reqs[w].wants)

Points(reqs, n, ids, v, w) ==
    \/ v < n /\ w >= n /\ w = TrackNode(n, ids, reqs[v].holds)
    \/ v >= n /\ w < n /\ v = TrackNode(n, ids, reqs[w].wants)

(***************************************************************************)
(* The depth-first search.  The colours are threaded through the calls; an *)
(* early return leaves the nodes on the path GRAY, as in C.  `train' is    *)
(* *cycle_train_id: it is set only when the edge that closes the cycle     *)
(* enters a train node.  Explore is one call of dfs_detect_cycle, on node  *)
(* v, and visit[c][w] the call it makes on node w when the colours are c.  *)
(* The nodes v points to stand in to[v] in ascending order.                *)
(***************************************************************************)
Colours == {"WHITE", "GRAY", "BLACK"}

Explore(reqs, n, ids, visit, v, colour) ==
    LET after[k \in 0 .. NodeCount(n, ids)] ==
            IF k = 0
            THEN [ cycle |-> FALSE, train |-> NoTrain, colour |-> [ colour EXCEPT ![v] = "GRAY" ] ]
            ELSE LET r == after[k - 1]
                 IN  IF r.cycle \/ ~ Points(reqs, n, ids, v, k - 1) THEN r ELSE visit[r.colour][k - 1]
        explored == after[NodeCount(n, ids)]
    IN  CASE colour[v] = "GRAY" ->
               [ cycle  |-> TRUE,
                 train  |-> IF v < n THEN reqs[v].train_id ELSE NoTrain,
                 colour |-> colour ]
          [] colour[v] = "BLACK" ->
               [ cycle |-> FALSE, train |-> NoTrain, colour |-> colour ]
          [] colour[v] = "WHITE" ->
               IF explored.cycle
               THEN explored
               ELSE [ explored EXCEPT !.colour = [ @ EXCEPT ![v] = "BLACK" ] ]

Visit(reqs, n, ids) ==
    LET visit[colour \in [Nodes(n, ids) -> Colours]] ==
            [ v \in Nodes(n, ids) |-> Explore(reqs, n, ids, visit, v, colour) ]
    IN  visit

\* The id detect_deadlock returns: the search starts from every train still
\* WHITE and stops at the first cycle.
DetectDeadlock(reqs, n, ids) ==
    LET from[k \in 0 .. n] ==
            IF k = 0
            THEN [ cycle |-> FALSE, train |-> NoTrain, colour |-> [ v \in Nodes(n, ids) |-> "WHITE" ] ]
            ELSE LET r == from[k - 1]
                 IN  IF r.cycle \/ r.colour[k - 1] # "WHITE"
                     THEN r
                     ELSE Visit(reqs, n, ids)[r.colour][k - 1]
    IN  from[n].train

-----------------------------------------------------------------------------
(***************************************************************************)
(* What the search is about, said without a search.                        *)
(***************************************************************************)
\* A way of one or more edges of E leads from a to b: b is in every set of
\* nodes that holds what a points to and what its own members point to.
LeadsTo(V, E, a, b) ==
    \A S \in SUBSET V :
        (\A x \in S \union {a}, y \in V : << x, y >> \in E => y \in S) => b \in S

\* The train in slot i waits for the train in slot j, for a track among ids.
WaitsFor(reqs, ids, i, j) ==
    /\ reqs[j].holds = reqs[i].wants
    /\ \E k \in DOMAIN ids : ids[k] = reqs[i].wants

Waits(reqs, n, ids) ==
    { e \in (0 .. n - 1) \X (0 .. n - 1) : WaitsFor(reqs, ids, e[1], e[2]) }

OnWaitCycle(reqs, n, ids, i) == LeadsTo(0 .. n - 1, Waits(reqs, n, ids), i, i)

=============================================================================
