----------------------------- MODULE MCDetector ------------------------------
(***************************************************************************)
(* The cycle search on every book of request records of N trains, reached  *)
(* one change of a record at a time, on every track configuration, read    *)
(* one line at a time: ids out of range, left out and repeated.            *)
(***************************************************************************)
EXTENDS DeadlockDetector, TrackConfiguration

CONSTANT N                   \* trains

ASSUME NAssumption == N \in Nat

VARIABLES book, tracks

mcvars == << book, tracks >>

Ids == 0 .. N - 1

InitBook == [ i \in Ids |-> InitRequestState(i) ]

Init == book = InitBook /\ tracks = NoTracks

\* The configuration is read before any train is known.  A line names a track,
\* or is a comment or short of numbers.
Read ==
    /\ book = InitBook
    /\ tracks.track_count < MAX_TRACKS
    /\ \E id \in 0 .. MAX_TRACKS : \E len \in {0, 5, 6, 7} :
          tracks' = LoadLine(tracks, [ k \in 1 .. len |-> IF k = 1 THEN id ELSE NoTrack ])
    /\ UNCHANGED book

\* Train i comes to hold and to want any tracks; like the manager, it never
\* wants the track it holds, nor anything while it holds none.
Change(i) ==
    /\ \E h, w \in NoTrack .. MAX_TRACKS - 1 :
          /\ w = h => w = NoTrack
          /\ h = NoTrack => w = NoTrack
          /\ book' = [ book EXCEPT ![i] = UpdateRequestState(@, h, w) ]
    /\ UNCHANGED tracks

Next == Read \/ \E i \in Ids : Change(i)

Spec == Init /\ [][Next]_mcvars

-----------------------------------------------------------------------------
TrackIds == VisitedIds(tracks)

Result == DetectDeadlock(book, N, TrackIds)

CycleExists == \E i \in Ids : OnWaitCycle(book, N, TrackIds, i)

\* No track is held by two trains.
HoldsExclusive ==
    \A i, j \in Ids : book[i].holds = book[j].holds /\ book[i].holds # NoTrack => i = j

\* While no track is held twice the search reports a train exactly when some
\* trains wait for each other in a cycle ("Returns the node_id of a train in a
\* cycle, or -1 if no cycle", deadlock_detector.c:140), over the tracks it
\* looks at.
SearchIsExact == HoldsExclusive => (Result # NoTrain <=> CycleExists)

\* A reported train is on a cycle of waits, whoever holds what: the manager
\* never rolls back a train that merely waits behind a cycle.
ReportedIsOnCycle ==
    \A i \in Ids : Result = book[i].train_id => OnWaitCycle(book, N, TrackIds, i)

Loaded == { t \in 0 .. MAX_TRACKS - 1 : tracks.track_list[t].length # 0 }

\* If the ids of a configuration have no gap and none is repeated (as many
\* lines as ids), the loops over the first track_count entries
\* (resource graph, train_is_on_any_track, suggest_reroute) meet every track
\* the file lists, at its own id, whatever the order of the lines.
GaplessIsSeenInFull ==
    Loaded = 0 .. tracks.track_count - 1 =>
        TrackIds = [ k \in 1 .. tracks.track_count |-> k - 1 ]
=============================================================================
