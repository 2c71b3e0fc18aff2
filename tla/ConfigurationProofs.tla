------------------------- MODULE ConfigurationProofs -------------------------
(***************************************************************************)
(* What the search finds on every book of request records, of any number   *)
(* of trains, over every track configuration; and what track_list and      *)
(* track_count hold after any number of lines of any file, for every size  *)
(* of track_list.  Both are invariants of the inputs of module MCDetector, *)
(* which a run explores for a few trains and lines.                        *)
(***************************************************************************)
EXTENDS MCDetector, DetectorProofs

\* The inputs of the search: tracks in place, and records of N trains.
InputInv ==
    /\ InPlace(tracks) /\ tracks.track_count <= MAX_TRACKS
    /\ book \in [Ids -> RequestStates(Ids)]
    /\ \A i \in Ids : book[i].train_id = i

LEMMA InputInvInit == Init => InputInv
<1> SUFFICES ASSUME Init PROVE InputInv
  OBVIOUS
<1>1. InPlace(tracks) /\ tracks.track_count = 0
  BY NothingInPlace DEF Init, NoTracks
<1>2. ASSUME NEW i \in Ids
      PROVE  InitRequestState(i) \in RequestStates(Ids) /\ InitRequestState(i).train_id = i
  BY StuckAfterAssumption DEF InitRequestState, RequestStates, TrainStates, NoTrack
<1>3. book = [ i \in Ids |-> InitRequestState(i) ]
  BY DEF Init, InitBook
<1> QED
  BY <1>1, <1>2, <1>3, MaxTracksAssumption DEF InputInv

LEMMA InputInvStep == InputInv /\ [Next]_mcvars => InputInv'
<1> SUFFICES ASSUME InputInv, [Next]_mcvars PROVE InputInv'
  OBVIOUS
<1>1. CASE Read
  <2>1. PICK id \in 0 .. MAX_TRACKS, len \in {0, 5, 6, 7} :
            tracks' = LoadLine(tracks, [ k \in 1 .. len |-> IF k = 1 THEN id ELSE NoTrack ])
    BY <1>1 DEF Read
  <2>2. [ k \in 1 .. len |-> IF k = 1 THEN id ELSE NoTrack ] \in Seq(Int)
    BY MaxTracksAssumption DEF NoTrack
  <2>3. InPlace(tracks)'
    BY <2>1, <2>2, LineInPlace DEF InputInv
  <2>4. tracks'.track_count \in {tracks.track_count, tracks.track_count + 1}
    BY <2>1 DEF LoadLine
  <2>5. tracks'.track_count <= MAX_TRACKS
    BY <1>1, <2>4, MaxTracksAssumption DEF Read, InputInv, InPlace
  <2> QED
    BY <1>1, <2>3, <2>5 DEF Read, InputInv
<1>2. ASSUME NEW i \in Ids, Change(i) PROVE InputInv'
  <2>1. PICK h \in NoTrack .. MAX_TRACKS - 1, w \in NoTrack .. MAX_TRACKS - 1 :
            book' = [ book EXCEPT ![i] = UpdateRequestState(book[i], h, w) ]
    BY <1>2 DEF Change
  <2> DEFINE r == book[i]
             x == IF w = r.wants THEN r.waited ELSE 0
             u == UpdateRequestState(r, h, w)
  <2>2. r \in RequestStates(Ids) /\ r.train_id = i
    BY DEF InputInv
  <2>3. x \in 0 .. StuckAfter + 1
    BY <2>2, StuckAfterAssumption DEF RequestStates
  <2>4. u = [ r EXCEPT !.holds = h, !.wants = w, !.waited = x ]
    BY DEF UpdateRequestState
  <2>5. h \in Int /\ w \in Int
    BY MaxTracksAssumption DEF NoTrack
  <2> HIDE DEF r, x, u
  <2>6. u \in RequestStates(Ids) /\ u.train_id = i
    BY <2>2, <2>3, <2>4, <2>5 DEF RequestStates
  <2>7. book' = [ book EXCEPT ![i] = u ]
    BY <2>1 DEF u, r
  <2> QED
    BY <1>2, <2>6, <2>7 DEF Change, InputInv
<1>3. CASE UNCHANGED mcvars
  BY <1>3 DEF InputInv, mcvars
<1> QED
  BY <1>1, <1>2, <1>3 DEF Next

\* The search can be run on these inputs.
LEMMA InputFacts ==
    ASSUME InputInv
    PROVE  /\ Readable(book, N, TrackIds)
           /\ HoldsExclusive => HeldOnce(book, N, TrackIds)
<1>1. TrackIds \in Seq(Nat)
  BY VisitedFacts DEF InputInv, TrackIds
<1>2. \A i \in 0 .. N - 1 : book[i].train_id = i
  BY DEF InputInv, Ids
<1>3. Readable(book, N, TrackIds)
  BY <1>1, <1>2, NAssumption DEF Readable
<1>4. \A k \in DOMAIN TrackIds : TrackIds[k] # NoTrack
  BY <1>1 DEF NoTrack
<1>5. \A i \in 0 .. N - 1 : i # NoTrain
  BY NAssumption DEF NoTrain
<1> QED
  BY <1>2, <1>3, <1>4, <1>5 DEF HeldOnce, HoldsExclusive, Ids

THEOREM InputsAreSearchable == Spec => []InputInv
  BY InputInvInit, InputInvStep, PTL DEF Spec

\* A train that the search reports is on a cycle of waits, whoever holds what.
THEOREM DetectorReportsOnCycle == Spec => []ReportedIsOnCycle
<1>1. InputInv => ReportedIsOnCycle
  <2> SUFFICES ASSUME InputInv, NEW i \in Ids, Result = book[i].train_id
               PROVE  OnWaitCycle(book, N, TrackIds, i)
    BY DEF ReportedIsOnCycle
  <2>1. \A j \in Ids : book[j].train_id = j /\ j # NoTrain
    BY NAssumption DEF InputInv, Ids, NoTrain
  <2>2. PICK j \in 0 .. N - 1 : Result = book[j].train_id /\ OnWaitCycle(book, N, TrackIds, j)
    BY <2>1, InputFacts, SearchIsSound DEF Result
  <2> QED
    BY <2>1, <2>2 DEF Ids
<1> QED
  BY <1>1, InputsAreSearchable, PTL

\* Where no track is held by two trains, the search reports a train exactly
\* when some trains wait for each other in a cycle.
THEOREM DetectorIsExact == Spec => []SearchIsExact
<1>1. InputInv => SearchIsExact
  <2> SUFFICES ASSUME InputInv, HoldsExclusive
               PROVE  Result # NoTrain <=> CycleExists
    BY DEF SearchIsExact
  <2>1. Readable(book, N, TrackIds) /\ HeldOnce(book, N, TrackIds)
    BY InputFacts
  <2>2. ASSUME Result # NoTrain PROVE CycleExists
    BY <2>1, <2>2, SearchIsSound DEF Result, CycleExists, Ids
  <2>3. ASSUME CycleExists PROVE Result # NoTrain
    BY <2>1, <2>3, SearchIsComplete DEF Result, CycleExists, Ids
  <2> QED
    BY <2>2, <2>3
<1> QED
  BY <1>1, InputsAreSearchable, PTL

\* A file whose ids leave no gap and name no track twice is seen in full by
\* the loops over the first track_count entries, for every size of track_list.
THEOREM GaplessFilesAreSeen == Spec => []GaplessIsSeenInFull
<1>1. InputInv => GaplessIsSeenInFull
  BY DEF InputInv, InPlace, GaplessIsSeenInFull, Loaded, TrackIds, VisitedIds
<1> QED
  BY <1>1, InputsAreSearchable, PTL
=============================================================================
