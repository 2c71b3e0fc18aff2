------------------------- MODULE TrackConfiguration -------------------------
(***************************************************************************)
(* What load_track_data (DeadlockManager/src/main.c) makes of the track    *)
(* configuration.  A line is the sequence of the numbers sscanf finds in   *)
(* it; a comment or an empty line has none.  The track's direction is left *)
(* out, nothing reads it, and its endpoints are kept as a set.             *)
(*                                                                         *)
(* A track is stored by its id, but the number of tracks counts lines, and *)
(* the entries of track_list that no line fills stay zeroed.               *)
(***************************************************************************)
EXTENDS Integers, SequencesExt

CONSTANT MAX_TRACKS          \* entries of track_list

ASSUME MaxTracksAssumption == MAX_TRACKS \in Nat

DEFAULT_BLOCK_LENGTH_MM == 1000

\* An entry no line has filled: it calls itself track 0, next to track 0.
ZeroTrack == [ track_id |-> 0, length |-> 0, endpoints |-> {0} ]

NoTracks ==
    [ track_list |-> [ t \in 0 .. MAX_TRACKS - 1 |-> ZeroTrack ], track_count |-> 0 ]

\* Six numbers are enough for the first sscanf; the second, for seven, is then
\* never tried, and a shorter line fails both.
IsTrackLine(line) == Len(line) >= 6 /\ line[1] \in 0 .. MAX_TRACKS - 1

TrackOf(line) ==
    [ track_id |-> line[1], length |-> DEFAULT_BLOCK_LENGTH_MM,
      endpoints |-> { line[3], line[4], line[5], line[6] } ]

\* Mutated form: a track is stored at the next free entry.
LoadLineInOrder(tracks, line) ==
    IF IsTrackLine(line)
    THEN [ track_list  |-> [ tracks.track_list EXCEPT ![tracks.track_count] = TrackOf(line) ],
           track_count |-> tracks.track_count + 1 ]
    ELSE tracks

LoadLine(tracks, line) ==
    IF IsTrackLine(line)
    THEN [ track_list  |-> [ tracks.track_list EXCEPT ![line[1]] = TrackOf(line) ],
           track_count |-> tracks.track_count + 1 ]
    ELSE tracks

\* The file is read line by line.
LoadTracks(lines) ==
    LET after[k \in 0 .. Len(lines)] ==
            IF k = 0 THEN NoTracks ELSE LoadLine(after[k - 1], lines[k])
    IN  after[Len(lines)]

\* The ids that a loop over the first track_count entries meets, in its order.
VisitedIds(tracks) ==
    [ k \in 1 .. tracks.track_count |-> tracks.track_list[k - 1].track_id ]

=============================================================================
