----------------------- MODULE DeadlockManagerProofs ------------------------
(***************************************************************************)
(* Proofs about the DeadlockManager for every number of trains, slots and  *)
(* blocks, every configuration and every message the trains may send.      *)
(*                                                                         *)
(* The inductive invariant is IInv(T), for a set T of blocks:              *)
(*   TypeOK /\ SlotsAligned /\ ExclusiveOn(T) /\ HoldsOwnedOn(T).          *)
(* SlotsAligned is needed because every handler finds a train by its id:   *)
(* without it "the record of train id" is not one record.  HoldsOwnedOn    *)
(* and ExclusiveOn are preserved only where a train is not fetched with a  *)
(* location on a block of T (Admits(T)): T is the set of blocks where no   *)
(* train starts, or every block if trains are admitted onto free blocks.   *)
(*                                                                         *)
(* With that: a rollback hits only a train on a cycle of waits, whatever   *)
(* the trains send, for which no train may wait for the block it is on     *)
(* (NoSelfWish): the head-on test looks away from such a train.  And where *)
(* trains are admitted onto free blocks, no cycle of waits goes            *)
(* unreported, for which trains must be located on blocks only (OnBlocks): *)
(* the search misses a cycle if two trains hold a track, and on tracks     *)
(* beyond the ownership table nothing keeps them apart.                    *)
(*                                                                         *)
(* Finally, with such admissions the manager implements BlockReservation;  *)
(* and where the ids of the track configuration have no gaps, the block it *)
(* proposes to a stuck train is one that nobody owns.                      *)
(***************************************************************************)
EXTENDS DeadlockManager, DetectorProofs

Owners == Trains \union {Free}
Tables == [Blocks -> Owners]
Requests == RequestStates(Trains \union {NoTrain})
Books  == [Slots -> Requests]

\* The slot arrays `trains' and `book', of which the first `count' slots are
\* used, describe the same trains.
AlignedArrays(trains, book, count) ==
    /\ \A i \in 0 .. count - 1 :
          trains[i].train_id \in Trains /\ book[i].train_id = trains[i].train_id
    /\ \A i, j \in 0 .. count - 1 : trains[i].train_id = trains[j].train_id => i = j
    /\ \A i \in Slots \ (0 .. count - 1) : book[i] = NoRequest

IInv(T) == TypeOK /\ SlotsAligned /\ ExclusiveOn(T) /\ HoldsOwnedOn(T)

\* A train that is fetched in this step with a location on a block of T finds
\* it free and gets it.
Admits(T) ==
    \A id \in Trains : ~ IsCached(id) /\ IsCached(id)' /\ Start[id] \in T =>
        track_table[Start[id]] = Free /\ track_table'[Start[id]] = id

-----------------------------------------------------------------------------
(* The operators of the resource manager and of the request records. *)

\* A release frees at most the block named, and only if the train owns it.
LEMMA ReleaseFacts ==
    ASSUME NEW table \in Tables, NEW id \in Trains, NEW trk
    PROVE  LET after == TableAfterRelease(table, id, trk)
           IN  /\ after \in Tables
               /\ \A b \in Blocks : after[b] \in {table[b], Free}
               /\ \A b \in Blocks : table[b] # id \/ b # trk => after[b] = table[b]
  BY TrainsAssumption DEF Tables, Owners, TableAfterRelease, Releases

\* A release leaves the track lists well-typed.
LEMMA UnlistFacts ==
    ASSUME NEW table, NEW list \in [Blocks -> Slots \union {NoSlot}],
           NEW trains, NEW id, NEW trk
    PROVE  ListedAfterRelease(table, list, trains, id, trk) \in [Blocks -> Slots \union {NoSlot}]
  BY DEF ListedAfterRelease, Releases

\* update_train_request_state sets what is held and wanted and nothing else of a
\* record but its waiting time.
LEMMA UpdateFacts ==
    ASSUME NEW r \in Requests, NEW h \in Int, NEW w \in Int
    PROVE  /\ UpdateRequestState(r, h, w) \in Requests
           /\ UpdateRequestState(r, h, w).train_id = r.train_id
           /\ UpdateRequestState(r, h, w).holds = h
           /\ UpdateRequestState(r, h, w).wants = w
<1> DEFINE age == IF w = r.wants THEN r.waited ELSE 0
<1>1. age \in 0 .. StuckAfter + 1
  BY StuckAfterAssumption DEF Requests, RequestStates
<1>2. UpdateRequestState(r, h, w) = [r EXCEPT !.holds = h, !.wants = w, !.waited = age]
  BY DEF UpdateRequestState
<1> HIDE DEF age
<1> QED
  BY <1>1, <1>2 DEF Requests, RequestStates

\* A fresh request record is well-typed and holds nothing.
LEMMA InitStateFacts ==
    ASSUME NEW id \in Trains \union {NoTrain}
    PROVE  /\ InitRequestState(id) \in Requests
           /\ InitRequestState(id).train_id = id
           /\ InitRequestState(id).holds = NoTrack
  BY StuckAfterAssumption
  DEF InitRequestState, Requests, RequestStates, TrainStates, NoTrack

\* Time passing changes only the waiting time of a record.
LEMMA AgeFacts ==
    ASSUME NEW r \in Requests
    PROVE  /\ AgeRequestState(r) \in Requests
           /\ AgeRequestState(r).train_id = r.train_id
           /\ AgeRequestState(r).holds = r.holds
<1> DEFINE age == IF r.wants # NoTrack /\ r.waited <= StuckAfter THEN r.waited + 1 ELSE r.waited
<1>1. age \in 0 .. StuckAfter + 1
  BY StuckAfterAssumption DEF Requests, RequestStates
<1>2. AgeRequestState(r) = [r EXCEPT !.waited = age]
  BY DEF AgeRequestState
<1> HIDE DEF age
<1> QED
  BY <1>1, <1>2 DEF Requests, RequestStates

\* A fresh record does not age: it wants nothing.
LEMMA AgeFresh == AgeRequestState(NoRequest) = NoRequest
<1>1. NoRequest = [ train_id |-> NoTrain, state |-> "ACTIVE",
                    holds |-> NoTrack, wants |-> NoTrack, waited |-> 0 ]
  BY DEF NoRequest, InitRequestState
<1>2. NoRequest.wants = NoTrack
  BY <1>1
<1>3. AgeRequestState(NoRequest) = [NoRequest EXCEPT !.waited = NoRequest.waited]
  BY <1>2 DEF AgeRequestState
<1> QED
  BY <1>1, <1>3

\* detect_stuck_train changes only the state of a record.
LEMMA StuckFacts ==
    ASSUME NEW r \in Requests
    PROVE  /\ DetectStuckTrain(r) \in Requests
           /\ DetectStuckTrain(r).train_id = r.train_id
           /\ DetectStuckTrain(r).holds = r.holds
           /\ DetectStuckTrain(r).wants = r.wants
<1>1. CASE r.wants = NoTrack
  BY <1>1 DEF DetectStuckTrain
<1>2. CASE r.wants # NoTrack
  <2> DEFINE flag == IF IsStuck(r) THEN "STUCK" ELSE "WAITING"
  <2>1. flag \in TrainStates
    BY DEF TrainStates
  <2>2. DetectStuckTrain(r) = [r EXCEPT !.state = flag]
    BY <1>2 DEF DetectStuckTrain
  <2> HIDE DEF flag
  <2> QED
    BY <2>1, <2>2 DEF Requests, RequestStates
<1> QED
  BY <1>1, <1>2

\* No block is shared with the values -1 stands for.
LEMMA ConstantFacts ==
    /\ Slots \subseteq Nat /\ Blocks \subseteq Nat /\ Trains \subseteq Nat
    /\ Free \notin Trains /\ NoTrack \notin Blocks /\ NoSlot \notin Slots
    /\ MAX_TRAINS \in Nat /\ NoTrack \in Int
  BY TrainsAssumption, MaxTrainsAssumption, TrackCountAssumption
  DEF Slots, Blocks, Free, NoTrack, NoSlot

-----------------------------------------------------------------------------
(* Looking trains up. *)

\* Where no train has two slots, the search by id returns the train's slot.
LEMMA IndexFacts ==
    ASSUME active_train_count \in 0 .. MAX_TRAINS,
           NEW records, NEW id,
           \A i, j \in Used : records[i].train_id = records[j].train_id => i = j
    PROVE  LET s == IndexOf(records, id)
           IN  IF \E i \in Used : records[i].train_id = id
               THEN s \in Used /\ records[s].train_id = id
               ELSE s = NoSlot
<1>1. CASE \E i \in Used : records[i].train_id = id
  <2>1. PICK i \in Used : records[i].train_id = id
    BY <1>1
  <2>2. \A j \in 0 .. i - 1 : records[j].train_id # id
    BY <2>1, ConstantFacts DEF Used
  <2>3. IndexOf(records, id) =
            CHOOSE k \in Used : /\ records[k].train_id = id
                                /\ \A j \in 0 .. k - 1 : records[j].train_id # id
    BY <1>1 DEF IndexOf
  <2> QED
    BY <1>1, <2>1, <2>2, <2>3
<1>2. CASE ~ \E i \in Used : records[i].train_id = id
  BY <1>2 DEF IndexOf
<1> QED
  BY <1>1, <1>2

\* What a handler works with once it has looked train id up: its slot, and the
\* slot arrays with `count' used slots.
Found(id, s, trains, book, count) ==
    /\ count \in 0 .. MAX_TRAINS /\ s \in 0 .. count - 1 /\ s \in Slots
    /\ active_train_count <= count
    /\ trains \in [Slots -> TrainRecords] /\ book \in Books
    /\ trains[s].train_id = id
    /\ AlignedArrays(trains, book, count)
    /\ \A i \in (0 .. count - 1) \ {s} :
          /\ i \in Used
          /\ trains[i] = active_trains[i]
          /\ book[i] = train_request_states[i]
    /\ IsCached(id) => /\ s \in Used
                       /\ trains[s] = active_trains[s]
                       /\ book[s] = train_request_states[s]
    /\ ~ IsCached(id) => /\ trains[s].track_id = Start[id]
                         /\ book[s].holds = NoTrack

\* get_or_create_train_data and the initialisation that follows it yield one
\* aligned slot for the train, old or new.
LEMMA LookupFacts ==
    ASSUME TypeOK, SlotsAligned, NEW id \in Trains, IsCached(id) \/ CanFetch(id)
    PROVE  Found(id, SlotFor(id), TrainsWith(id), StatesWith(id), CountWith(id))
<1> DEFINE s == SlotFor(id)
           trains == TrainsWith(id)
           book == StatesWith(id)
           count == CountWith(id)
<1>1. CASE IsCached(id)
  <2>1. s \in Used /\ active_trains[s].train_id = id
    BY <1>1, IndexFacts DEF SlotFor, find_train_index, IsCached, SlotsAligned, TypeOK
  <2>2. trains = active_trains /\ count = active_train_count
    BY <1>1 DEF TrainsWith, CountWith
  <2>3. train_request_states[s].train_id = id
    BY <2>1 DEF SlotsAligned
  <2>4. book = train_request_states
    BY <2>3, ConstantFacts DEF StatesWith
  <2> HIDE DEF s, trains, book, count
  <2> QED
    <3>1. AlignedArrays(trains, book, count)
      BY <2>2, <2>4 DEF AlignedArrays, SlotsAligned, Used
    <3>2. s \in 0 .. count - 1 /\ s \in Slots /\ count \in 0 .. MAX_TRAINS
      BY <2>1, <2>2, ConstantFacts DEF Used, Slots, TypeOK
    <3>3. trains \in [Slots -> TrainRecords] /\ book \in Books
      BY <2>2, <2>4 DEF TypeOK, Books, Requests
    <3>4. Found(id, s, trains, book, count)
      BY <1>1, <2>1, <2>2, <2>4, <3>1, <3>2, <3>3, ConstantFacts DEF Found, Used, TypeOK
    <3> QED
      BY <3>4 DEF s, trains, book, count
<1>2. CASE ~ IsCached(id)
  <2>1. s = active_train_count /\ s \in Slots /\ s \notin Used /\ count = s + 1
    BY <1>2, ConstantFacts DEF SlotFor, CountWith, CanFetch, Slots, Used, TypeOK
  <2>2. trains = [active_trains EXCEPT ![s] = FetchedTrain(id)]
    BY <1>2, <2>1 DEF TrainsWith
  <2>3. train_request_states[s] = NoRequest
    BY <2>1 DEF SlotsAligned
  <2>4. NoRequest.train_id < 0
    BY InitStateFacts DEF NoRequest, NoTrain
  <2>5. book = [train_request_states EXCEPT ![s] = InitRequestState(id)]
    BY <2>1, <2>3, <2>4 DEF StatesWith
  <2>6. FetchedTrain(id) \in TrainRecords
    BY StartAssumption, ConstantFacts DEF FetchedTrain, TrainRecords
  <2>7. FetchedTrain(id).train_id = id /\ FetchedTrain(id).track_id = Start[id]
    BY DEF FetchedTrain
  <2>8. \A i \in Used : active_trains[i].train_id # id
    BY <1>2 DEF IsCached
  <2> HIDE DEF s, trains, book, count
  <2>9. trains \in [Slots -> TrainRecords] /\ book \in Books
    BY <2>1, <2>2, <2>5, <2>6, InitStateFacts DEF TypeOK, Books, Requests
  <2>10. /\ trains[s] = FetchedTrain(id) /\ book[s] = InitRequestState(id)
         /\ \A i \in Slots \ {s} : trains[i] = active_trains[i] /\ book[i] = train_request_states[i]
    BY <2>1, <2>2, <2>5 DEF TypeOK
  <2>11. 0 .. count - 1 = Used \union {s} /\ Used \subseteq Slots
    BY <2>1, ConstantFacts DEF Used, Slots, TypeOK
  <2>12. AlignedArrays(trains, book, count)
    BY <2>1, <2>7, <2>8, <2>10, <2>11, InitStateFacts DEF AlignedArrays, SlotsAligned
  <2> QED
    <3>1. count \in 0 .. MAX_TRAINS /\ s \in 0 .. count - 1 /\ active_train_count <= count
      BY <2>1, ConstantFacts DEF Slots
    <3>2. trains[s].train_id = id /\ trains[s].track_id = Start[id] /\ book[s].holds = NoTrack
      BY <2>7, <2>10, InitStateFacts
    <3>3. \A i \in (0 .. count - 1) \ {s} : i \in Used /\ i \in Slots \ {s}
      BY <2>11
    <3>4. Found(id, s, trains, book, count)
      BY <1>2, <2>1, <2>9, <2>10, <2>12, <3>1, <3>2, <3>3 DEF Found
    <3> QED
      BY <3>4 DEF s, trains, book, count
<1> QED
  BY <1>1, <1>2

-----------------------------------------------------------------------------
(* The steps. *)

\* The invariant holds when the manager starts.
LEMMA InitIInv ==
    ASSUME NEW T \in SUBSET Blocks
    PROVE  Init => IInv(T)
<1> SUFFICES ASSUME Init PROVE IInv(T)
  OBVIOUS
<1>1. TypeOK
  BY TrainsAssumption, MaxTrainsAssumption, CheckAssumption, StuckAfterAssumption,
     TrackCountAssumption, SMT
  DEF Init, TypeOK, InitTable, InitListed, ZeroTrain, NoRequest, InitRequestState,
      RequestStates, TrainRecords, TrainStates, Slots, Idle, Free, NoSlot, NoTrain,
      NoTrack, Blocks
<1>2. Used = {}
  BY DEF Init, Used
<1>3. \A i \in Slots : train_request_states[i] = NoRequest
  BY DEF Init
<1> QED
  BY <1>1, <1>2, <1>3 DEF IInv, SlotsAligned, ExclusiveOn, HoldsOwnedOn

\* A message handler rewrites the slot of the train it is for and leaves the
\* blocks of the other trains alone.
LEMMA SlotStep ==
    ASSUME NEW T \in SUBSET Blocks, IInv(T), NEW id \in Trains,
           NEW s, NEW trains, NEW book, NEW count,
           Found(id, s, trains, book, count),
           NEW rec \in TrainRecords, rec.train_id = id,
           NEW req \in Requests, req.train_id = id,
           active_trains' = [trains EXCEPT ![s] = rec],
           train_request_states' = [book EXCEPT ![s] = req],
           active_train_count' = count,
           track_table' \in Tables,
           \A b \in T : track_table[b] \notin {id, Free} => track_table'[b] = track_table[b],
           rec.track_id \in T => track_table'[rec.track_id] = id,
           req.holds \in T => track_table'[req.holds] = id,
           listed' \in [Blocks -> Slots \union {NoSlot}],
           cursor = Idle, UNCHANGED << tick_count, cursor >>
    PROVE  IInv(T)'
<1>1. /\ s \in Slots /\ s \in 0 .. count - 1 /\ count \in 0 .. MAX_TRAINS
      /\ trains \in [Slots -> TrainRecords] /\ book \in Books
  BY DEF Found
<1>2. TypeOK'
  <2>1. active_trains' \in [Slots -> TrainRecords] /\ train_request_states' \in Books
    BY <1>1 DEF Books
  <2>2. cursor' \in Idle .. active_train_count'
    BY <1>1, ConstantFacts DEF Idle
  <2>3. tick_count' \in 0 .. CHECK_EVERY - 1
    BY DEF IInv, TypeOK
  <2>4. active_train_count' \in 0 .. MAX_TRAINS
    BY <1>1
  <2> QED
    BY <2>1, <2>2, <2>3, <2>4, Zenon DEF TypeOK, Tables, Owners, Books, Requests
<1>3. /\ active_trains'[s] = rec /\ train_request_states'[s] = req
      /\ \A i \in Slots \ {s} : /\ active_trains'[i] = trains[i]
                                /\ train_request_states'[i] = book[i]
  BY <1>1 DEF Books
<1>4. Used' = 0 .. count - 1 /\ Used' \subseteq Slots
  BY <1>1, ConstantFacts DEF Used, Slots
<1>5. \A i \in Used' \ {s} :
          /\ i \in Used /\ i \in Slots \ {s}
          /\ active_trains'[i] = active_trains[i]
          /\ train_request_states'[i] = train_request_states[i]
          /\ active_trains[i].train_id \in Trains \ {id}
  <2> SUFFICES ASSUME NEW i \in Used' \ {s}
               PROVE  /\ i \in Used /\ i \in Slots \ {s}
                      /\ active_trains'[i] = active_trains[i]
                      /\ train_request_states'[i] = train_request_states[i]
                      /\ active_trains[i].train_id \in Trains \ {id}
    OBVIOUS
  <2>1. i \in 0 .. count - 1 /\ i # s /\ i \in Slots
    BY <1>4
  <2>2. i \in Used /\ trains[i] = active_trains[i] /\ book[i] = train_request_states[i]
    BY <2>1 DEF Found
  <2>3. trains[i].train_id \in Trains /\ trains[i].train_id # trains[s].train_id
    BY <1>1, <2>1 DEF Found, AlignedArrays
  <2> QED
    BY <1>3, <2>1, <2>2, <2>3 DEF Found
<1>6. SlotsAligned'
  <2>1. \A i \in Used' : /\ active_trains'[i].train_id \in Trains
                         /\ train_request_states'[i].train_id = active_trains'[i].train_id
    BY <1>3, <1>5 DEF IInv, SlotsAligned
  <2>2. \A i, j \in Used' : active_trains'[i].train_id = active_trains'[j].train_id => i = j
    BY <1>3, <1>5 DEF IInv, SlotsAligned
  <2>3. \A i \in Slots \ Used' : train_request_states'[i] = NoRequest
    BY <1>1, <1>3, <1>4 DEF Found, AlignedArrays
  <2> QED
    BY <2>1, <2>2, <2>3 DEF SlotsAligned
<1>7. ExclusiveOn(T)'
  <2> SUFFICES ASSUME NEW i \in Used', active_trains'[i].track_id \in T
               PROVE  track_table'[active_trains'[i].track_id] = active_trains'[i].train_id
    BY DEF ExclusiveOn
  <2>1. CASE i = s
    BY <1>3, <2>1
  <2>2. CASE i # s
    <3>1. track_table[active_trains[i].track_id] = active_trains[i].train_id
      BY <1>5, <2>2 DEF IInv, ExclusiveOn
    <3> QED
      BY <1>5, <2>2, <3>1, ConstantFacts
  <2> QED
    BY <2>1, <2>2
<1>8. HoldsOwnedOn(T)'
  <2> SUFFICES ASSUME NEW i \in Used', train_request_states'[i].holds \in T
               PROVE  track_table'[train_request_states'[i].holds] = active_trains'[i].train_id
    BY DEF HoldsOwnedOn
  <2>1. CASE i = s
    BY <1>3, <2>1
  <2>2. CASE i # s
    <3>1. track_table[train_request_states[i].holds] = active_trains[i].train_id
      BY <1>5, <2>2 DEF IInv, HoldsOwnedOn
    <3> QED
      BY <1>5, <2>2, <3>1, ConstantFacts
  <2> QED
    BY <2>1, <2>2
<1> QED
  BY <1>2, <1>6, <1>7, <1>8 DEF IInv

\* Where the manager locates a train it serves: a cached train owns that
\* block, a fetched one takes it in this very step.
LEMMA LocationFacts ==
    ASSUME NEW T \in SUBSET Blocks, IInv(T), Admits(T), NEW id \in Trains, Serves(id),
           LocationOf(id) \in T, IsCached(id)'
    PROVE  /\ track_table[LocationOf(id)] \in {id, Free}
           /\ track_table[LocationOf(id)] = Free => track_table'[LocationOf(id)] = id
<1> DEFINE s == SlotFor(id)
<1>1. Found(id, s, TrainsWith(id), StatesWith(id), CountWith(id))
  BY LookupFacts DEF IInv, Serves
<1>2. CASE IsCached(id)
  <2>1. /\ s \in Used /\ TrainsWith(id)[s] = active_trains[s]
        /\ active_trains[s].train_id = id
    BY <1>1, <1>2 DEF Found
  <2>2. track_table[LocationOf(id)] = id
    BY <2>1 DEF IInv, ExclusiveOn, LocationOf
  <2> QED
    BY <2>2, ConstantFacts
<1>3. CASE ~ IsCached(id)
  <2>1. LocationOf(id) = Start[id]
    BY <1>1, <1>3 DEF Found, LocationOf
  <2> QED
    BY <1>3, <2>1 DEF Admits
<1> QED
  BY <1>2, <1>3

\* The two denials of a known train.
LEMMA DenyStep ==
    ASSUME NEW T \in SUBSET Blocks, IInv(T), Admits(T),
           NEW id \in Trains, NEW trk \in Requestable[id],
           DenyHeadOn(id, trk) \/ DenyBusy(id, trk)
    PROVE  IInv(T)' /\ track_table' = track_table
<1> DEFINE s == SlotFor(id)
           at == LocationOf(id)
           trains == TrainsWith(id)
           book == StatesWith(id)
           to == IF DenyHeadOn(id, trk) \/ train_is_on_any_track(id) THEN at ELSE NoTrack
           rec == [ trains[s] EXCEPT !.track_id = to, !.moving = FALSE ]
           req == UpdateRequestState(book[s], at, trk)
<1>1. Serves(id)
  BY DEF DenyHeadOn, DenyBusy
<1>2. Found(id, s, trains, book, CountWith(id))
  BY <1>1, LookupFacts DEF IInv, Serves
<1>3. /\ s \in Slots /\ trains[s] \in TrainRecords /\ trains[s].train_id = id
      /\ trains[s].track_id = at /\ at \in Int
      /\ book[s] \in Requests /\ book[s].train_id = id
  BY <1>2 DEF Found, LocationOf, TrainRecords, Books, AlignedArrays
<1>4. trk \in Int
  BY RequestableAssumption
<1>5. to \in {at, NoTrack} /\ to \in Int
  BY <1>3, ConstantFacts
<1>6. /\ req \in Requests
      /\ req.train_id = id /\ req.holds = at
  BY <1>3, <1>4, UpdateFacts
<1>7. /\ active_trains' = [trains EXCEPT ![s] = rec]
      /\ train_request_states' = [book EXCEPT ![s] = req]
      /\ active_train_count' = CountWith(id)
      /\ UNCHANGED << track_table, listed, tick_count, cursor >>
      /\ cursor = Idle
  <2>1. CASE DenyHeadOn(id, trk)
    <3>1. rec = [ trains[s] EXCEPT !.moving = FALSE ]
      BY <1>3, <2>1 DEF TrainRecords
    <3>2. /\ active_trains' = [ trains EXCEPT ![s] = [ trains[s] EXCEPT !.moving = FALSE ] ]
          /\ train_request_states' = [book EXCEPT ![s] = req]
          /\ active_train_count' = CountWith(id)
          /\ UNCHANGED << track_table, listed, tick_count, cursor >>
          /\ cursor = Idle
      BY <2>1 DEF DenyHeadOn, Serves
    <3> HIDE DEF rec, req, trains, book, s
    <3> QED
      BY <3>1, <3>2
  <2>2. CASE DenyBusy(id, trk)
    <3>1. ~ DenyHeadOn(id, trk)
      BY <2>2 DEF DenyBusy, DenyHeadOn
    <3>2. to = IF train_is_on_any_track(id) THEN at ELSE NoTrack
      BY <3>1
    <3>3. /\ active_trains' =
                [ trains EXCEPT ![s] =
                    [ trains[s] EXCEPT
                          !.track_id = IF train_is_on_any_track(id) THEN at ELSE NoTrack,
                          !.moving = FALSE ] ]
          /\ train_request_states' = [book EXCEPT ![s] = req]
          /\ active_train_count' = CountWith(id)
          /\ UNCHANGED << track_table, listed, tick_count, cursor >>
          /\ cursor = Idle
      BY <2>2 DEF DenyBusy, Serves
    <3> HIDE DEF to, req, trains, book, s
    <3> QED
      BY <3>2, <3>3
  <2> QED
    BY <2>1, <2>2
<1>8. rec \in TrainRecords /\ rec.train_id = id /\ rec.track_id = to
  <2> HIDE DEF to, trains, s
  <2> QED
    BY <1>3, <1>5 DEF TrainRecords
<1> HIDE DEF s, trains, book, to, rec, req
<1>9. IsCached(id)'
  <2>1. s \in Used' /\ active_trains'[s].train_id = id
    BY <1>2, <1>7, <1>8 DEF Found, Used
  <2> QED
    BY <2>1 DEF IsCached
<1>10. at \in T => track_table'[at] = id
  BY <1>1, <1>7, <1>9, LocationFacts, ConstantFacts
<1>11. to \in T => track_table'[to] = id
  BY <1>5, <1>10, ConstantFacts
<1> QED
  BY <1>2, <1>6, <1>7, <1>8, <1>10, <1>11, SlotStep DEF IInv, TypeOK, Tables, Owners

\* A grant, with the release of the block the train leaves.
LEMMA GrantStep ==
    ASSUME NEW T \in SUBSET Blocks, IInv(T), Admits(T),
           NEW id \in Trains, NEW trk \in Requestable[id], Grant(id, trk)
    PROVE  /\ IInv(T)'
           /\ \A b \in T : track_table[b] \notin {id, Free} => track_table'[b] = track_table[b]
           /\ \A b \in T : track_table[b] = id => track_table'[b] \in {id, Free}
<1> DEFINE s == SlotFor(id)
           at == LocationOf(id)
           trains == TrainsWith(id)
           book == StatesWith(id)
           leave == at # NoTrack /\ at # trk
           taken == [ track_table EXCEPT ![trk] = id ]
           after == TableAfterRelease(taken, id, at)
           list == IF leave THEN ListedAfterRelease(taken, listed, trains, id, at) ELSE listed
           power == id \in Powered
           rec == [ trains[s] EXCEPT !.track_id = trk, !.moving = power ]
           first == UpdateRequestState(book[s], at, trk)
           req == UpdateRequestState(first, trk, NoTrack)
<1>1. Serves(id) /\ cursor = Idle
  BY DEF Grant, Serves
<1>2. Found(id, s, trains, book, CountWith(id))
  BY <1>1, LookupFacts DEF IInv, Serves
<1>3. /\ s \in Slots /\ trains[s] \in TrainRecords /\ trains[s].train_id = id
      /\ at \in Int
      /\ book[s] \in Requests /\ book[s].train_id = id
  BY <1>2 DEF Found, LocationOf, TrainRecords, Books, AlignedArrays
<1>4. trk \in Int
  BY RequestableAssumption
<1>5. /\ req \in Requests
      /\ req.train_id = id /\ req.holds = trk
  <2>1. first \in Requests /\ first.train_id = id
    BY <1>3, <1>4, UpdateFacts
  <2> HIDE DEF first
  <2> QED
    BY <2>1, <1>4, UpdateFacts, ConstantFacts
<1>6. rec \in TrainRecords /\ rec.train_id = id /\ rec.track_id = trk
  <2>1. power \in BOOLEAN
    OBVIOUS
  <2> HIDE DEF trains, s, power
  <2> QED
    BY <1>3, <1>4, <2>1 DEF TrainRecords
<1>7. /\ active_trains' = [trains EXCEPT ![s] = rec]
      /\ train_request_states' = [book EXCEPT ![s] = req]
      /\ active_train_count' = CountWith(id)
      /\ track_table' = IF leave THEN after ELSE taken
      /\ listed' = [ list EXCEPT ![trk] = s ]
      /\ UNCHANGED << tick_count, cursor >>
      /\ trk \in Blocks /\ (at = trk \/ track_table[trk] = Free)
  BY DEF Grant, RequestGranted
<1> HIDE DEF s, trains, book, power, rec, first, req
<1>8. IsCached(id)'
  <2>1. s \in Used' /\ active_trains'[s].train_id = id
    BY <1>2, <1>6, <1>7 DEF Found, Used
  <2> QED
    BY <2>1 DEF IsCached
<1>9. track_table \in Tables /\ taken \in Tables
  BY <1>7 DEF IInv, TypeOK, Tables, Owners
<1>10. /\ after \in Tables
       /\ \A b \in Blocks : after[b] \in {taken[b], Free}
       /\ \A b \in Blocks : taken[b] # id \/ b # at => after[b] = taken[b]
  <2> HIDE DEF taken
  <2> QED
    BY <1>9, ReleaseFacts
<1>11. /\ taken[trk] = id
       /\ \A b \in Blocks \ {trk} : taken[b] = track_table[b]
  BY <1>7, <1>9 DEF Tables
<1> HIDE DEF taken, after
<1>12. track_table' \in Tables /\ track_table'[trk] = id
  BY <1>7, <1>9, <1>10, <1>11
<1>13. trk \in T => track_table[trk] \in {id, Free}
  BY <1>1, <1>7, <1>8, LocationFacts
<1>14. \A b \in T : track_table[b] \notin {id, Free} => track_table'[b] = track_table[b]
  <2> SUFFICES ASSUME NEW b \in T, track_table[b] \notin {id, Free}
               PROVE  track_table'[b] = track_table[b]
    OBVIOUS
  <2>1. b # trk /\ b \in Blocks
    BY <1>13
  <2> QED
    BY <2>1, <1>7, <1>10, <1>11
<1>15. \A b \in T : track_table[b] = id => track_table'[b] \in {id, Free}
  BY <1>7, <1>10, <1>11, <1>12
<1>16. listed' \in [Blocks -> Slots \union {NoSlot}]
  <2>1. list \in [Blocks -> Slots \union {NoSlot}]
    BY UnlistFacts DEF IInv, TypeOK
  <2> HIDE DEF list
  <2> QED
    BY <1>3, <1>7, <2>1
<1>17. IInv(T)'
  <2>1. \A b \in T : b = trk => track_table'[b] = id
    BY <1>12
  <2> QED
    BY <1>1, <1>2, <1>5, <1>6, <1>7, <1>12, <1>14, <1>16, <2>1, SlotStep
<1> QED
  BY <1>14, <1>15, <1>17

\* A release, of a cached train or of one the manager has no record of.
LEMMA ReleaseStep ==
    ASSUME NEW T \in SUBSET Blocks, IInv(T), NEW id \in Trains, NEW trk \in Requestable[id],
           Release(id, trk)
    PROVE  IInv(T)' /\ \A b \in Blocks : track_table'[b] \in {track_table[b], Free}
<1> DEFINE s == find_train_index(id)
<1>1. track_table \in Tables /\ track_table' = TableAfterRelease(track_table, id, trk)
  BY DEF IInv, TypeOK, Tables, Owners, Release
<1>2. /\ track_table' \in Tables
      /\ \A b \in Blocks : track_table'[b] \in {track_table[b], Free}
      /\ \A b \in Blocks : track_table[b] # id => track_table'[b] = track_table[b]
  BY <1>1, ReleaseFacts
<1>3. listed' \in [Blocks -> Slots \union {NoSlot}]
  BY UnlistFacts DEF IInv, TypeOK, Release
<1>4. /\ cursor = Idle /\ UNCHANGED << active_train_count, tick_count, cursor >>
      /\ active_trains' =
            [ i \in Slots |->
                IF i = s THEN [ active_trains[i] EXCEPT !.track_id = NoTrack, !.moving = FALSE ]
                         ELSE active_trains[i] ]
      /\ train_request_states' =
            [ i \in Slots |->
                IF i = s THEN UpdateRequestState(train_request_states[i], NoTrack, NoTrack)
                         ELSE train_request_states[i] ]
  BY DEF Release
<1>5. /\ active_trains \in [Slots -> TrainRecords] /\ train_request_states \in Books
      /\ active_train_count \in 0 .. MAX_TRAINS
  BY DEF IInv, TypeOK, Books, Requests
<1>6. CASE IsCached(id)
  <2> DEFINE rec == [ active_trains[s] EXCEPT !.track_id = NoTrack, !.moving = FALSE ]
             req == UpdateRequestState(train_request_states[s], NoTrack, NoTrack)
  <2>1. /\ s \in Used /\ active_trains[s].train_id = id
        /\ train_request_states[s].train_id = id
    BY <1>5, <1>6, IndexFacts DEF find_train_index, IsCached, IInv, SlotsAligned
  <2>2. s \in Slots
    BY <1>5, <2>1, ConstantFacts DEF Used, Slots
  <2> HIDE DEF s
  <2>3. Found(id, s, active_trains, train_request_states, active_train_count)
    <3>1. AlignedArrays(active_trains, train_request_states, active_train_count)
      BY DEF AlignedArrays, IInv, SlotsAligned, Used
    <3> QED
      BY <1>5, <1>6, <2>1, <2>2, <3>1, ConstantFacts DEF Found, Used
  <2>4. rec \in TrainRecords /\ rec.train_id = id /\ rec.track_id = NoTrack
    BY <1>5, <2>1, <2>2, ConstantFacts DEF TrainRecords
  <2>5. /\ req \in Requests
        /\ req.train_id = id /\ req.holds = NoTrack
    BY <1>5, <2>1, <2>2, UpdateFacts, ConstantFacts DEF Books
  <2> HIDE DEF rec, req
  <2>6. active_trains' = [active_trains EXCEPT ![s] = rec]
    BY <1>4, <1>5, <2>2 DEF rec
  <2>7. train_request_states' = [train_request_states EXCEPT ![s] = req]
    BY <1>4, <1>5, <2>2 DEF req, Books
  <2>8. (rec.track_id \in T => track_table'[rec.track_id] = id)
        /\ (req.holds \in T => track_table'[req.holds] = id)
    BY <2>4, <2>5, ConstantFacts
  <2>9. \A b \in T : track_table[b] \notin {id, Free} => track_table'[b] = track_table[b]
    BY <1>2
  <2>10. /\ active_train_count' = active_train_count
         /\ cursor = Idle /\ UNCHANGED << tick_count, cursor >>
    BY <1>4
  <2>11. IInv(T)'
    BY <1>2, <1>3, <2>3, <2>4, <2>5, <2>6, <2>7, <2>8, <2>9, <2>10, SlotStep
  <2> QED
    BY <1>2, <2>11
<1>7. CASE ~ IsCached(id)
  <2>1. s = NoSlot
    BY <1>7 DEF find_train_index, IndexOf, IsCached
  <2>2. active_trains' = active_trains /\ train_request_states' = train_request_states
    BY <1>4, <1>5, <2>1, ConstantFacts DEF Books
  <2>3. \A i \in Used : active_trains[i].train_id \in Trains \ {id}
    BY <1>7 DEF IsCached, IInv, SlotsAligned
  <2>4. TypeOK' /\ SlotsAligned'
    BY <1>2, <1>3, <1>4, <2>2 DEF IInv, TypeOK, SlotsAligned, Used, Tables, Owners
  <2>5. ExclusiveOn(T)'
    <3> SUFFICES ASSUME NEW i \in Used, active_trains[i].track_id \in T
                 PROVE  track_table'[active_trains[i].track_id] = active_trains[i].train_id
      BY <1>4, <2>2 DEF ExclusiveOn, Used
    <3>1. track_table[active_trains[i].track_id] = active_trains[i].train_id
      BY DEF IInv, ExclusiveOn
    <3> QED
      BY <1>2, <2>3, <3>1
  <2>6. HoldsOwnedOn(T)'
    <3> SUFFICES ASSUME NEW i \in Used, train_request_states[i].holds \in T
                 PROVE  track_table'[train_request_states[i].holds] = active_trains[i].train_id
      BY <1>4, <2>2 DEF HoldsOwnedOn, Used
    <3>1. track_table[train_request_states[i].holds] = active_trains[i].train_id
      BY DEF IInv, HoldsOwnedOn
    <3> QED
      BY <1>2, <2>3, <3>1
  <2> QED
    BY <1>2, <2>4, <2>5, <2>6 DEF IInv
<1> QED
  BY <1>2, <1>6, <1>7

\* Steps that only move the loop over the trains, and stuttering.
LEMMA CursorStep ==
    ASSUME NEW T \in SUBSET Blocks, IInv(T),
           UpdateSent \/ UpdateSkipped \/ TickDone \/ UNCHANGED vars
    PROVE  IInv(T)' /\ track_table' = track_table
<1>1. UNCHANGED << track_table, listed, active_trains, active_train_count,
                   train_request_states, tick_count >>
  BY DEF UpdateSent, UpdateSkipped, TickDone, vars
<1>2. cursor' \in Idle .. active_train_count
  BY ConstantFacts
  DEF UpdateSent, UpdateSkipped, TickDone, vars, Used, Idle, IInv, TypeOK
<1>3. TypeOK'
  BY <1>1, <1>2 DEF IInv, TypeOK
<1>4. SlotsAligned' /\ ExclusiveOn(T)' /\ HoldsOwnedOn(T)'
  BY <1>1 DEF IInv, SlotsAligned, ExclusiveOn, HoldsOwnedOn, Used
<1> QED
  BY <1>1, <1>3, <1>4 DEF IInv

\* The start of a tick ages the request records.
LEMMA TickPulseStep ==
    ASSUME NEW T \in SUBSET Blocks, IInv(T), TickPulse
    PROVE  IInv(T)' /\ track_table' = track_table
<1>1. /\ UNCHANGED << track_table, listed, active_trains, active_train_count >>
      /\ train_request_states' = [ i \in Slots |-> AgeRequestState(train_request_states[i]) ]
      /\ cursor' = 0 /\ tick_count' = (tick_count + 1) % CHECK_EVERY
  BY DEF TickPulse
<1>2. train_request_states \in Books
  BY DEF IInv, TypeOK, Books, Requests
<1>3. \A i \in Slots :
          /\ train_request_states[i] \in Requests
          /\ train_request_states'[i] = AgeRequestState(train_request_states[i])
          /\ train_request_states'[i] \in Requests
          /\ train_request_states'[i].train_id = train_request_states[i].train_id
          /\ train_request_states'[i].holds = train_request_states[i].holds
  BY <1>1, <1>2, AgeFacts DEF Books
<1>4. Used \subseteq Slots /\ Used' = Used
  BY <1>1, ConstantFacts DEF Used, Slots, IInv, TypeOK
<1>5. TypeOK'
  <2>1. tick_count' \in 0 .. CHECK_EVERY - 1
    BY <1>1, CheckAssumption DEF IInv, TypeOK
  <2>2. cursor' \in Idle .. active_train_count
    BY <1>1, ConstantFacts DEF IInv, TypeOK, Idle
  <2>3. train_request_states' \in [Slots -> Requests]
    BY <1>1, <1>3
  <2> QED
    BY <1>1, <2>1, <2>2, <2>3 DEF IInv, TypeOK, Requests
<1>6. SlotsAligned'
  <2>1. \A i \in Slots \ Used' : train_request_states'[i] = NoRequest
    BY <1>3, <1>4, AgeFresh DEF IInv, SlotsAligned
  <2>2. \A i \in Used' : /\ active_trains'[i].train_id \in Trains
                         /\ train_request_states'[i].train_id = active_trains'[i].train_id
    BY <1>1, <1>3, <1>4 DEF IInv, SlotsAligned
  <2>3. \A i, j \in Used' : active_trains'[i].train_id = active_trains'[j].train_id => i = j
    BY <1>1, <1>4 DEF IInv, SlotsAligned
  <2> QED
    BY <2>1, <2>2, <2>3 DEF SlotsAligned
<1>7. ExclusiveOn(T)' /\ HoldsOwnedOn(T)'
  BY <1>1, <1>3, <1>4 DEF IInv, ExclusiveOn, HoldsOwnedOn
<1> QED
  BY <1>1, <1>5, <1>6, <1>7 DEF IInv

\* remove_active_train_at: both arrays move down together.
LEMMA CleanupStep ==
    ASSUME NEW T \in SUBSET Blocks, IInv(T), Cleanup
    PROVE  IInv(T)' /\ track_table' = track_table
<1> DEFINE k == cursor
           last == active_train_count - 1
           \* the slot whose contents slot i gets
           from(i) == IF i >= k THEN i + 1 ELSE i
<1>1. /\ UNCHANGED << track_table, listed, tick_count, cursor >>
      /\ k \in Used /\ active_train_count' = last
      /\ active_trains' =
            [ i \in Slots |->
                CASE i = last               -> ZeroTrain
                  [] i >= k /\ i < last     -> active_trains[i + 1]
                  [] i < k \/ i > last      -> active_trains[i] ]
      /\ train_request_states' =
            [ i \in Slots |->
                CASE i = last               -> NoRequest
                  [] i >= k /\ i < last     -> train_request_states[i + 1]
                  [] i < k \/ i > last      -> train_request_states[i] ]
  BY DEF Cleanup
<1>2. /\ active_train_count \in 1 .. MAX_TRAINS /\ k \in 0 .. last
      /\ last \in Slots /\ Used = 0 .. last /\ Used \subseteq Slots
      /\ Used' = 0 .. last - 1
  BY <1>1, ConstantFacts DEF Used, Slots, IInv, TypeOK
<1>3. \A i \in Used' : /\ from(i) \in Used /\ i \in Slots /\ i # last
                       /\ active_trains'[i] = active_trains[from(i)]
                       /\ train_request_states'[i] = train_request_states[from(i)]
  <2> SUFFICES ASSUME NEW i \in Used'
               PROVE  /\ from(i) \in Used /\ i \in Slots /\ i # last
                      /\ active_trains'[i] = active_trains[from(i)]
                      /\ train_request_states'[i] = train_request_states[from(i)]
    OBVIOUS
  <2>1. i \in 0 .. last - 1 /\ i \in Slots /\ i \in Int /\ last \in Int /\ k \in Int
    BY <1>2, ConstantFacts DEF Slots
  <2>2. CASE i >= k
    BY <1>1, <1>2, <2>1, <2>2, SMT
  <2>3. CASE i < k
    BY <1>1, <1>2, <2>1, <2>3, SMT
  <2> QED
    BY <2>1, <2>2, <2>3
<1>4. \A i, j \in Used' : from(i) = from(j) => i = j
  BY <1>2
<1>5. /\ active_trains'[last] = ZeroTrain /\ train_request_states'[last] = NoRequest
      /\ \A i \in Slots : i > last => /\ active_trains'[i] = active_trains[i]
                                      /\ train_request_states'[i] = train_request_states[i]
  <2>1. active_trains'[last] = ZeroTrain /\ train_request_states'[last] = NoRequest
    BY <1>1, <1>2
  <2>2. ASSUME NEW i \in Slots, i > last
        PROVE  /\ active_trains'[i] = active_trains[i]
               /\ train_request_states'[i] = train_request_states[i]
    BY <1>1, <1>2, <2>2, ConstantFacts DEF Slots
  <2> QED
    BY <2>1, <2>2
<1>6. Slots = Used' \union {last} \union { i \in Slots : i > last }
  BY <1>2, ConstantFacts DEF Slots
<1> HIDE DEF from
<1>7. TypeOK'
  <2>1. active_trains \in [Slots -> TrainRecords] /\ train_request_states \in [Slots -> Requests]
    BY DEF IInv, TypeOK, Requests
  <2>2. ZeroTrain \in TrainRecords /\ NoRequest \in Requests
    BY InitStateFacts DEF ZeroTrain, TrainRecords, NoRequest
  <2>3. \A i \in Slots : active_trains'[i] \in TrainRecords /\ train_request_states'[i] \in Requests
    BY <1>2, <1>3, <1>5, <1>6, <2>1, <2>2
  <2>4. /\ active_trains' \in [Slots -> TrainRecords]
        /\ train_request_states' \in [Slots -> Requests]
    <3> DEFINE T1(i) == CASE i = last               -> ZeroTrain
                          [] i >= k /\ i < last     -> active_trains[i + 1]
                          [] i < k \/ i > last      -> active_trains[i]
               R1(i) == CASE i = last               -> NoRequest
                          [] i >= k /\ i < last     -> train_request_states[i + 1]
                          [] i < k \/ i > last      -> train_request_states[i]
    <3>1. /\ active_trains' = [ i \in Slots |-> T1(i) ]
          /\ train_request_states' = [ i \in Slots |-> R1(i) ]
      BY <1>1
    <3> HIDE DEF T1, R1
    <3> QED
      BY <2>3, <3>1
  <2>5. active_train_count' \in 0 .. MAX_TRAINS /\ cursor' \in Idle .. active_train_count'
    BY <1>1, <1>2, ConstantFacts DEF Idle
  <2> QED
    BY <1>1, <2>4, <2>5 DEF IInv, TypeOK, Requests
<1>8. SlotsAligned'
  <2>1. \A i \in Slots \ Used' : train_request_states'[i] = NoRequest
    BY <1>2, <1>5, <1>6 DEF IInv, SlotsAligned
  <2>2. \A i \in Used' : /\ active_trains'[i].train_id \in Trains
                         /\ train_request_states'[i].train_id = active_trains'[i].train_id
    BY <1>3 DEF IInv, SlotsAligned
  <2>3. \A i, j \in Used' : active_trains'[i].train_id = active_trains'[j].train_id => i = j
    BY <1>3, <1>4 DEF IInv, SlotsAligned
  <2> QED
    BY <2>1, <2>2, <2>3 DEF SlotsAligned
<1>9. ExclusiveOn(T)' /\ HoldsOwnedOn(T)'
  BY <1>1, <1>3 DEF IInv, ExclusiveOn, HoldsOwnedOn
<1> QED
  BY <1>1, <1>7, <1>8, <1>9 DEF IInv

\* Before the check every used record holds the block its train is located on.
LEMMA SyncedFacts ==
    ASSUME TypeOK, SlotsAligned
    PROVE  /\ SyncedStates \in Books
           /\ \A i \in Used : /\ SyncedStates[i].train_id = active_trains[i].train_id
                              /\ SyncedStates[i].holds = active_trains[i].track_id
           /\ \A i \in Slots \ Used : SyncedStates[i] = train_request_states[i]
<1> DEFINE holds(i) == active_trains[i].track_id
           wants(i) == IF holds(i) < 0 THEN NoTrack ELSE train_request_states[i].wants
           updated(i) == UpdateRequestState(train_request_states[i], holds(i), wants(i))
           synced(i) == IF i \in Used THEN DetectStuckTrain(updated(i))
                                      ELSE train_request_states[i]
<1>1. SyncedStates = [ i \in Slots |-> synced(i) ]
  BY DEF SyncedStates
<1>2. Used \subseteq Slots
  BY ConstantFacts DEF Used, Slots, TypeOK
<1>3. ASSUME NEW i \in Slots
      PROVE  /\ train_request_states[i] \in Requests
             /\ holds(i) \in Int /\ wants(i) \in Int
  BY ConstantFacts DEF TypeOK, Requests, RequestStates, TrainRecords
<1> HIDE DEF holds, wants
<1>4. ASSUME NEW i \in Slots
      PROVE  /\ updated(i) \in Requests
             /\ updated(i).train_id = train_request_states[i].train_id
             /\ updated(i).holds = holds(i)
  BY <1>3, UpdateFacts
<1> HIDE DEF updated
<1>5. ASSUME NEW i \in Slots
      PROVE  /\ synced(i) \in Requests
             /\ i \in Used => /\ synced(i).train_id = train_request_states[i].train_id
                              /\ synced(i).holds = holds(i)
  BY <1>3, <1>4, StuckFacts
<1>6. \A i \in Slots \ Used : synced(i) = train_request_states[i]
  OBVIOUS
<1> HIDE DEF synced
<1>7. SyncedStates \in Books
  BY <1>1, <1>5 DEF Books
<1>8. ASSUME NEW i \in Used
      PROVE  /\ SyncedStates[i].train_id = active_trains[i].train_id
             /\ SyncedStates[i].holds = active_trains[i].track_id
  BY <1>1, <1>2, <1>5 DEF SlotsAligned, holds
<1> QED
  BY <1>1, <1>6, <1>7, <1>8

\* A deadlock check that rolls nobody back.
LEMMA CheckOnlyStep ==
    ASSUME NEW T \in SUBSET Blocks, IInv(T), CheckOnly
    PROVE  IInv(T)' /\ track_table' = track_table
<1>1. /\ UNCHANGED << track_table, listed, active_trains, active_train_count, tick_count >>
      /\ cursor' = Idle /\ train_request_states' = SyncedStates
  BY DEF CheckOnly
<1>2. /\ SyncedStates \in Books
      /\ \A i \in Used : /\ SyncedStates[i].train_id = active_trains[i].train_id
                         /\ SyncedStates[i].holds = active_trains[i].track_id
      /\ \A i \in Slots \ Used : SyncedStates[i] = train_request_states[i]
  BY SyncedFacts DEF IInv
<1>3. TypeOK'
  <2>1. cursor' \in Idle .. active_train_count
    BY <1>1, ConstantFacts DEF IInv, TypeOK, Idle
  <2> QED
    BY <1>1, <1>2, <2>1 DEF IInv, TypeOK, Books, Requests
<1>4. SlotsAligned'
  BY <1>1, <1>2 DEF IInv, SlotsAligned, Used
<1>5. ExclusiveOn(T)' /\ HoldsOwnedOn(T)'
  BY <1>1, <1>2 DEF IInv, ExclusiveOn, HoldsOwnedOn, Used
<1> QED
  BY <1>1, <1>3, <1>4, <1>5 DEF IInv

\* A deadlock check that takes the victim's block.
LEMMA RollBackStep ==
    ASSUME NEW T \in SUBSET Blocks, IInv(T), CheckAndRollBack
    PROVE  IInv(T)' /\ \A b \in Blocks : track_table'[b] \in {track_table[b], Free}
<1> DEFINE id == Victim
           book == SyncedStates
           s == IndexOf(book, id)
           held == book[s].holds
           rec == [ active_trains[s] EXCEPT !.track_id = NoTrack, !.moving = FALSE ]
           req == UpdateRequestState(book[s], NoTrack, book[s].wants)
<1>1. /\ book \in Books
      /\ \A i \in Used : /\ book[i].train_id = active_trains[i].train_id
                         /\ book[i].holds = active_trains[i].track_id
      /\ \A i \in Slots \ Used : book[i] = train_request_states[i]
  BY SyncedFacts DEF IInv
<1>2. IsCached(id)
  BY DEF CheckAndRollBack, CanRollBack
<1>3. /\ active_trains \in [Slots -> TrainRecords] /\ active_train_count \in 0 .. MAX_TRAINS
      /\ track_table \in Tables /\ Used \subseteq Slots
  BY ConstantFacts DEF IInv, TypeOK, Tables, Owners, Used, Slots
<1> HIDE DEF book
<1>4. s \in Used /\ book[s].train_id = id /\ active_trains[s].train_id = id
  <2>1. \A i, j \in Used : book[i].train_id = book[j].train_id => i = j
    BY <1>1 DEF IInv, SlotsAligned
  <2>2. \E i \in Used : book[i].train_id = id
    BY <1>1, <1>2 DEF IsCached
  <2> HIDE DEF id
  <2> QED
    BY <1>1, <1>3, <2>1, <2>2, IndexFacts
<1>5. find_train_index(id) = s /\ id \in Trains
  <2>1. find_train_index(id) \in Used /\ active_trains[find_train_index(id)].train_id = id
    BY <1>2, <1>3, IndexFacts DEF find_train_index, IsCached, IInv, SlotsAligned
  <2> QED
    BY <1>4, <2>1 DEF IInv, SlotsAligned
<1>6. /\ cursor' = Idle /\ UNCHANGED << active_train_count, tick_count >>
      /\ track_table' = TableAfterRelease(track_table, id, held)
      /\ listed' = ListedAfterRelease(track_table, listed, active_trains, id, held)
      /\ active_trains' = [ active_trains EXCEPT ![s] = rec ]
      /\ train_request_states' = [ book EXCEPT ![s] = req ]
  <2>1. /\ cursor' = Idle /\ UNCHANGED << active_train_count, tick_count >>
        /\ track_table' = TableAfterRelease(track_table, id, held)
        /\ listed' = ListedAfterRelease(track_table, listed, active_trains, id, held)
        /\ active_trains' =
              [ active_trains EXCEPT ![find_train_index(id)] =
                    [ active_trains[find_train_index(id)] EXCEPT
                          !.track_id = NoTrack, !.moving = FALSE ] ]
        /\ train_request_states' = [ book EXCEPT ![s] = req ]
    BY DEF CheckAndRollBack, book
  <2> HIDE DEF id, s, req
  <2> QED
    BY <1>5, <2>1
<1> HIDE DEF id, s, held
<1>7. /\ track_table' \in Tables
      /\ \A b \in Blocks : track_table'[b] \in {track_table[b], Free}
      /\ \A b \in Blocks : track_table[b] # id => track_table'[b] = track_table[b]
  BY <1>3, <1>5, <1>6, ReleaseFacts
<1>8. rec \in TrainRecords /\ rec.train_id = id /\ rec.track_id = NoTrack
  BY <1>3, <1>4, ConstantFacts DEF TrainRecords
<1>9. req \in Requests /\ req.train_id = id /\ req.holds = NoTrack
  <2>1. book[s] \in Requests /\ book[s].wants \in Int
    BY <1>1, <1>3, <1>4 DEF Books, Requests, RequestStates
  <2> QED
    BY <1>4, <2>1, UpdateFacts, ConstantFacts
<1> HIDE DEF rec, req
<1>10. /\ active_trains'[s] = rec /\ train_request_states'[s] = req /\ s \in Slots
       /\ \A i \in Slots \ {s} : /\ active_trains'[i] = active_trains[i]
                                 /\ train_request_states'[i] = book[i]
       /\ active_trains' \in [Slots -> TrainRecords] /\ train_request_states' \in Books
  BY <1>1, <1>3, <1>4, <1>6, <1>8, <1>9 DEF Books
<1>11. Used' = Used
  BY <1>6 DEF Used
<1>12. TypeOK'
  <2>1. listed' \in [Blocks -> Slots \union {NoSlot}]
    BY <1>6, UnlistFacts DEF IInv, TypeOK
  <2>2. cursor' \in Idle .. active_train_count'
    BY <1>3, <1>6, ConstantFacts DEF Idle
  <2>3. tick_count' \in 0 .. CHECK_EVERY - 1
    BY <1>6 DEF IInv, TypeOK
  <2> QED
    BY <1>3, <1>6, <1>7, <1>10, <2>1, <2>2, <2>3, Zenon
    DEF TypeOK, Tables, Owners, Books, Requests
<1>13. SlotsAligned'
  <2>1. \A i \in Used : /\ active_trains'[i].train_id = active_trains[i].train_id
                        /\ train_request_states'[i].train_id = active_trains[i].train_id
    BY <1>1, <1>3, <1>4, <1>8, <1>9, <1>10
  <2>2. \A i \in Slots \ Used : train_request_states'[i] = NoRequest
    BY <1>1, <1>4, <1>10 DEF IInv, SlotsAligned
  <2> QED
    BY <1>11, <2>1, <2>2 DEF IInv, SlotsAligned
<1>14. \A i \in Used \ {s} : /\ active_trains[i].train_id # id
                             /\ active_trains'[i] = active_trains[i]
                             /\ train_request_states'[i].holds = active_trains[i].track_id
  BY <1>1, <1>3, <1>4, <1>10 DEF IInv, SlotsAligned
<1>15. ASSUME NEW i \in Used \ {s}, active_trains[i].track_id \in T
       PROVE  track_table'[active_trains[i].track_id] = active_trains[i].train_id
  <2>1. track_table[active_trains[i].track_id] = active_trains[i].train_id
    BY <1>15 DEF IInv, ExclusiveOn
  <2> QED
    BY <1>7, <1>14, <1>15, <2>1
<1>16. NoTrack \notin T
  BY ConstantFacts
<1>17. ExclusiveOn(T)' /\ HoldsOwnedOn(T)'
  BY <1>8, <1>9, <1>10, <1>11, <1>14, <1>15, <1>16 DEF ExclusiveOn, HoldsOwnedOn
<1> QED
  BY <1>7, <1>12, <1>13, <1>17 DEF IInv

\* Every step preserves the invariant and takes no block of T from its owner.
LEMMA NextIInv ==
    ASSUME NEW T \in SUBSET Blocks, IInv(T), Admits(T), [Next]_vars
    PROVE  IInv(T)' /\ NoTakeoverOn(T)
<1>1. CASE UNCHANGED vars
  BY <1>1, CursorStep DEF NoTakeoverOn
<1>2. ASSUME NEW id \in Trains, NEW trk \in Requestable[id], DenyNoData(id, trk)
      PROVE  IInv(T)' /\ NoTakeoverOn(T)
  BY <1>2, CursorStep DEF DenyNoData, NoTakeoverOn
<1>3. ASSUME NEW id \in Trains, NEW trk \in Requestable[id],
             DenyHeadOn(id, trk) \/ DenyBusy(id, trk)
      PROVE  IInv(T)' /\ NoTakeoverOn(T)
  BY <1>3, DenyStep DEF NoTakeoverOn
<1>4. ASSUME NEW id \in Trains, NEW trk \in Requestable[id], Grant(id, trk)
      PROVE  IInv(T)' /\ NoTakeoverOn(T)
  BY <1>4, GrantStep DEF NoTakeoverOn
<1>5. ASSUME NEW id \in Trains, NEW trk \in Requestable[id], Release(id, trk)
      PROVE  IInv(T)' /\ NoTakeoverOn(T)
  BY <1>5, ReleaseStep DEF NoTakeoverOn
<1>6. CASE TickPulse
  BY <1>6, TickPulseStep DEF NoTakeoverOn
<1>7. CASE UpdateSent \/ UpdateSkipped \/ TickDone
  BY <1>7, CursorStep DEF NoTakeoverOn
<1>8. CASE Cleanup
  BY <1>8, CleanupStep DEF NoTakeoverOn
<1>9. CASE CheckOnly
  BY <1>9, CheckOnlyStep DEF NoTakeoverOn
<1>10. CASE CheckAndRollBack
  BY <1>10, RollBackStep DEF NoTakeoverOn
<1> QED
  BY <1>1, <1>2, <1>3, <1>4, <1>5, <1>6, <1>7, <1>8, <1>9, <1>10 DEF Next, Message, Tick

-----------------------------------------------------------------------------
(* The invariant and what follows from it. *)

\* Where no train starts nobody is fetched into another train's block.
LEMMA AdmitsOffStarts == Admits(Blocks \ Starts)
  BY DEF Admits, Starts

\* The inductive invariant holds whatever messages the trains send.
THEOREM ManagerInvariant == Spec => []IInv(Blocks \ Starts)
<1>1. Init => IInv(Blocks \ Starts)
  BY InitIInv
<1>2. IInv(Blocks \ Starts) /\ [Next]_vars => IInv(Blocks \ Starts)'
  BY NextIInv, AdmitsOffStarts
<1> QED
  BY <1>1, <1>2, PTL DEF Spec

\* The manager's state always has its types: no slot, count, block owner or
\* loop index leaves its range (main.c's arrays are indexed with them).
THEOREM ManagerTypeOK == Spec => []TypeOK
<1>1. IInv(Blocks \ Starts) => TypeOK
  BY DEF IInv
<1> QED
  BY <1>1, ManagerInvariant, PTL

\* active_trains and train_request_states agree slot by slot and no train has
\* two slots, through every fetch and every remove_active_train_at.
THEOREM ManagerSlotsAligned == Spec => []SlotsAligned
<1>1. IInv(Blocks \ Starts) => SlotsAligned
  BY DEF IInv
<1> QED
  BY <1>1, ManagerInvariant, PTL

\* On a block where no train starts, a train the manager locates there is its
\* owner in the resource manager's table, whatever messages the trains send.
THEOREM ManagerExclusive == Spec => []ExclusiveOffStarts
<1>1. IInv(Blocks \ Starts) => ExclusiveOffStarts
  BY DEF IInv, ExclusiveOffStarts
<1> QED
  BY <1>1, ManagerInvariant, PTL

\* On such a block the request records, from which the deadlock detector
\* draws the graph, never show a holding that the table contradicts.
THEOREM ManagerHoldsAreOwned == Spec => []HoldsAreOwned
<1>1. IInv(Blocks \ Starts) => HoldsAreOwned
  BY DEF IInv, HoldsAreOwned
<1> QED
  BY <1>1, ManagerInvariant, PTL

\* A block where no train starts never passes from one owner to another
\* without being free in between.
THEOREM ManagerNoTakeover == Spec => NoTakeover
<1>1. IInv(Blocks \ Starts) /\ [Next]_vars => [NoTakeoverOn(Blocks \ Starts)]_vars
  BY NextIInv, AdmitsOffStarts
<1> QED
  BY <1>1, ManagerInvariant, PTL DEF Spec, NoTakeover

\* When trains are admitted only onto free first blocks, "exactly one train
\* can occupy a track at a time" (resource_manager.c:36) on every block.
THEOREM AdmittedExclusive == AdmittedSpec => []Exclusive
<1>1. Init => IInv(Blocks)
  BY InitIInv
<1>2. IInv(Blocks) /\ [Next /\ AdmissionOntoFreeBlock]_vars => IInv(Blocks)'
  <2>1. ASSUME IInv(Blocks), Next, AdmissionOntoFreeBlock
        PROVE  IInv(Blocks)'
    <3>1. Admits(Blocks)
      BY <2>1 DEF Admits, AdmissionOntoFreeBlock
    <3> QED
      BY <2>1, <3>1, NextIInv
  <2>2. ASSUME IInv(Blocks), UNCHANGED vars
        PROVE  IInv(Blocks)'
    BY <2>2, CursorStep
  <2> QED
    BY <2>1, <2>2
<1>3. IInv(Blocks) => Exclusive
  BY DEF IInv, Exclusive
<1> QED
  BY <1>1, <1>2, <1>3, PTL DEF AdmittedSpec

-----------------------------------------------------------------------------
(* What the check of waiting trains needs. *)

\* No train on a block wants that very block.
NoSelfWish ==
    \A i \in Used : active_trains[i].track_id \in Blocks =>
        train_request_states[i].wants # active_trains[i].track_id

\* Trains are located on blocks of the ownership table or nowhere.
OnBlocks == \A i \in Used : active_trains[i].track_id \in Blocks \union {NoTrack}

\* What one slot has to satisfy for both.
Fits(rec, req) == rec.track_id \in Blocks => req.wants # rec.track_id
Sits(rec) == rec.track_id \in Blocks \union {NoTrack}

-----------------------------------------------------------------------------
(* The graph the manager's check searches. *)

\* The ids the detector gets are natural numbers.
LEMMA TrackIdsFacts == TrackIds \in Seq(Nat)
<1>1. InPlace(Tracks)
  BY TracksAssumption, FileInPlace DEF Tracks
<1>2. Tracks.track_count <= MAX_TRACKS
  BY CountAssumption DEF track_count
<1> QED
  BY <1>1, <1>2, VisitedFacts DEF TrackIds

\* The check runs on records the search can read.
LEMMA CheckReads ==
    ASSUME TypeOK, SlotsAligned
    PROVE  /\ Readable(SyncedStates, active_train_count, TrackIds)
           /\ \A i \in Used : SyncedStates[i].train_id # NoTrain
<1>1. active_train_count \in Nat
  BY ConstantFacts DEF TypeOK
<1>2. TrackIds \in Seq(Int)
  <2>1. \A S : TrackIds \in Seq(Nat) => TrackIds \in Seq(Int)
    OBVIOUS
  <2> QED
    BY <2>1, TrackIdsFacts
<1>3. \A i \in Used : SyncedStates[i].train_id \in Nat
  BY SyncedFacts, ConstantFacts DEF SlotsAligned
<1> QED
  BY <1>1, <1>2, <1>3 DEF Readable, Used, NoTrain

\* The detector names no train, or the train of a slot on a cycle of waits.
LEMMA VictimFacts ==
    ASSUME TypeOK, SlotsAligned, Victim >= 0
    PROVE  \E i \in Used : /\ active_trains[i].train_id = Victim
                           /\ IndexOf(SyncedStates, Victim) = i
                           /\ OnWaitCycle(SyncedStates, active_train_count, TrackIds, i)
<1> DEFINE book == SyncedStates
<1>1. /\ Readable(book, active_train_count, TrackIds)
      /\ \A i \in Used : book[i].train_id = active_trains[i].train_id
  BY CheckReads, SyncedFacts
<1>2. Victim # NoTrain
  BY DEF NoTrain
<1>3. PICK i \in 0 .. active_train_count - 1 :
          /\ Victim = book[i].train_id
          /\ OnWaitCycle(book, active_train_count, TrackIds, i)
  BY <1>1, <1>2, SearchIsSound DEF Victim
<1>4. i \in Used /\ active_trains[i].train_id = Victim
  BY <1>1, <1>3 DEF Used
<1>5. \A j, k \in Used : book[j].train_id = book[k].train_id => j = k
  BY <1>1 DEF SlotsAligned
<1>6. IndexOf(book, Victim) \in Used /\ book[IndexOf(book, Victim)].train_id = Victim
  <2> DEFINE id == Victim
  <2>1. \E k \in Used : book[k].train_id = id
    BY <1>3, <1>4
  <2>2. active_train_count \in 0 .. MAX_TRAINS
    BY DEF TypeOK
  <2> HIDE DEF id, book
  <2>3. IndexOf(book, id) \in Used /\ book[IndexOf(book, id)].train_id = id
    BY <1>5, <2>1, <2>2, IndexFacts
  <2> QED
    BY <2>3 DEF id
<1>7. IndexOf(book, Victim) = i
  BY <1>3, <1>4, <1>5, <1>6
<1> QED
  BY <1>3, <1>4, <1>7

\* Bringing a record in line with its train's location forgets the wish of a
\* train that is nowhere and keeps every other.
LEMMA SyncedWants ==
    ASSUME TypeOK, SlotsAligned, NEW i \in Used
    PROVE  SyncedStates[i].wants =
               IF active_trains[i].track_id < 0 THEN NoTrack ELSE train_request_states[i].wants
<1> DEFINE holds == active_trains[i].track_id
           wants == IF holds < 0 THEN NoTrack ELSE train_request_states[i].wants
           updated == UpdateRequestState(train_request_states[i], holds, wants)
<1>1. i \in Slots /\ SyncedStates[i] = DetectStuckTrain(updated)
  BY ConstantFacts DEF SyncedStates, Used, Slots, TypeOK
<1>2. train_request_states[i] \in Requests /\ holds \in Int /\ wants \in Int
  BY <1>1, ConstantFacts DEF TypeOK, Requests, RequestStates, TrainRecords
<1> HIDE DEF holds, wants
<1>3. updated \in Requests /\ updated.wants = wants
  BY <1>2, UpdateFacts
<1> HIDE DEF updated
<1>4. SyncedStates[i].wants = wants
  BY <1>1, <1>3, StuckFacts
<1> QED
  BY <1>4 DEF wants, holds

-----------------------------------------------------------------------------
(* The steps of the manager and the two strengthenings. *)

SInv == IInv(Blocks \ Starts) /\ NoSelfWish

\* The used slots and what they hold have their types.
LEMMA SlotTypes ==
    ASSUME TypeOK
    PROVE  /\ Used \subseteq Slots
           /\ active_trains \in [Slots -> TrainRecords]
           /\ train_request_states \in [Slots -> Requests]
<1>1. Used \subseteq Slots
  BY ConstantFacts DEF TypeOK, Used, Slots
<1> QED
  BY <1>1 DEF TypeOK, Requests

\* A message handler rewrites one slot; the other used slots are as they were.
LEMMA SlotFits ==
    ASSUME NoSelfWish, NEW id \in Trains,
           NEW s, NEW trains, NEW book, NEW count, Found(id, s, trains, book, count),
           NEW rec, NEW req, Fits(rec, req),
           active_trains' = [trains EXCEPT ![s] = rec],
           train_request_states' = [book EXCEPT ![s] = req],
           active_train_count' = count
    PROVE  NoSelfWish'
<1>1. /\ s \in Slots /\ count \in 0 .. MAX_TRAINS
      /\ trains \in [Slots -> TrainRecords] /\ book \in Books
      /\ \A i \in (0 .. count - 1) \ {s} :
            i \in Used /\ trains[i] = active_trains[i] /\ book[i] = train_request_states[i]
  BY DEF Found
<1>2. Used' = 0 .. count - 1 /\ Used' \subseteq Slots
  BY <1>1, ConstantFacts DEF Used, Slots
<1>3. \A i \in Used' : Fits(active_trains'[i], train_request_states'[i])
  <2> SUFFICES ASSUME NEW i \in Used' PROVE Fits(active_trains'[i], train_request_states'[i])
    OBVIOUS
  <2>1. CASE i = s
    BY <1>1, <2>1 DEF Books
  <2>2. CASE i # s
    <3>1. /\ i \in Used /\ active_trains'[i] = active_trains[i]
          /\ train_request_states'[i] = train_request_states[i]
      BY <1>1, <1>2, <2>2 DEF Books
    <3> QED
      BY <3>1 DEF NoSelfWish, Fits
  <2> QED
    BY <2>1, <2>2
<1> QED
  BY <1>3 DEF NoSelfWish, Fits

\* A denied train wants another track than the one it is on: asking for that
\* one is no head-on conflict, and is granted if it is a block.
LEMMA DenyFits ==
    ASSUME SInv, NEW id \in Trains, NEW trk \in Requestable[id],
           DenyHeadOn(id, trk) \/ DenyBusy(id, trk)
    PROVE  NoSelfWish'
<1> DEFINE s == SlotFor(id)
           at == LocationOf(id)
           trains == TrainsWith(id)
           book == StatesWith(id)
           rec == active_trains'[s]
           req == UpdateRequestState(book[s], at, trk)
<1>1. Serves(id) /\ active_train_count' = CountWith(id)
  BY DEF DenyHeadOn, DenyBusy
<1>2. Found(id, s, trains, book, CountWith(id))
  BY <1>1, LookupFacts DEF SInv, IInv, Serves
<1>3. /\ s \in Slots /\ trains \in [Slots -> TrainRecords] /\ trains[s].track_id = at
      /\ book[s] \in Requests /\ at \in Int /\ trk \in Int
  BY <1>2, RequestableAssumption DEF Found, LocationOf, Books, TrainRecords
<1>4. /\ active_trains' = [trains EXCEPT ![s] = rec]
      /\ rec.track_id \in {at, NoTrack}
  <2>1. CASE DenyHeadOn(id, trk)
    <3>1. active_trains' = [trains EXCEPT ![s].moving = FALSE]
      BY <2>1 DEF DenyHeadOn
    <3> HIDE DEF s, trains, at
    <3> QED
      BY <1>3, <3>1 DEF TrainRecords
  <2>2. CASE DenyBusy(id, trk)
    <3> DEFINE to == IF train_is_on_any_track(id) THEN at ELSE NoTrack
    <3>1. active_trains' =
              [trains EXCEPT ![s] = [trains[s] EXCEPT !.track_id = to, !.moving = FALSE]]
      BY <2>2 DEF DenyBusy
    <3>2. to \in {at, NoTrack}
      OBVIOUS
    <3> HIDE DEF to, s, trains, at
    <3> QED
      BY <1>3, <3>1, <3>2 DEF TrainRecords
  <2> QED
    BY <2>1, <2>2
<1>5. train_request_states' = [book EXCEPT ![s] = req]
  BY DEF DenyHeadOn, DenyBusy
<1>6. req.wants = trk
  <2> HIDE DEF book, s, at
  <2> QED
    BY <1>3, UpdateFacts
<1>7. at \in Blocks => trk # at
  BY DEF DenyHeadOn, DenyBusy, HeadOnRequest, RequestGranted
<1> HIDE DEF s, trains, book, rec, req, at
<1>8. Fits(rec, req)
  BY <1>4, <1>6, <1>7, ConstantFacts DEF Fits
<1> QED
  BY <1>1, <1>2, <1>4, <1>5, <1>8, SlotFits DEF SInv

\* A grant ends the wish.
LEMMA GrantFits ==
    ASSUME SInv, NEW id \in Trains, NEW trk \in Requestable[id], Grant(id, trk)
    PROVE  NoSelfWish'
<1> DEFINE s == SlotFor(id)
           at == LocationOf(id)
           trains == TrainsWith(id)
           book == StatesWith(id)
           power == id \in Powered
           rec == [ trains[s] EXCEPT !.track_id = trk, !.moving = power ]
           first == UpdateRequestState(book[s], at, trk)
           req == UpdateRequestState(first, trk, NoTrack)
<1>1. Serves(id) /\ active_train_count' = CountWith(id)
  BY DEF Grant
<1>2. Found(id, s, trains, book, CountWith(id))
  BY <1>1, LookupFacts DEF SInv, IInv, Serves
<1>3. /\ trains[s] \in TrainRecords /\ book[s] \in Requests /\ at \in Int /\ trk \in Int
  BY <1>2, RequestableAssumption DEF Found, LocationOf, Books, TrainRecords
<1>4. active_trains' = [trains EXCEPT ![s] = rec] /\ train_request_states' = [book EXCEPT ![s] = req]
  BY DEF Grant
<1> HIDE DEF s, trains, book, power
<1>5. req.wants = NoTrack
  <2>1. first \in Requests
    BY <1>3, UpdateFacts
  <2> HIDE DEF first
  <2> QED
    BY <2>1, <1>3, UpdateFacts, ConstantFacts
<1> HIDE DEF rec, req
<1>6. Fits(rec, req)
  BY <1>5, ConstantFacts DEF Fits
<1> QED
  BY <1>1, <1>2, <1>4, <1>6, SlotFits DEF SInv, s

\* Steps that leave every used slot its location, or take it away, and its
\* wish, or take it away.
LEMMA KeepFits ==
    ASSUME NoSelfWish, active_train_count' = active_train_count,
           \A i \in Used :
               /\ active_trains'[i].track_id \in {active_trains[i].track_id, NoTrack}
               /\ train_request_states'[i].wants \in {train_request_states[i].wants, NoTrack}
    PROVE  NoSelfWish'
  BY ConstantFacts DEF NoSelfWish, Used

\* A release, of a train with or without a record.
LEMMA ReleaseFits ==
    ASSUME SInv, NEW id \in Trains, NEW trk \in Requestable[id], Release(id, trk)
    PROVE  NoSelfWish'
<1> DEFINE s == find_train_index(id)
<1>1. /\ active_train_count' = active_train_count
      /\ active_trains' =
            [ i \in Slots |->
                IF i = s THEN [ active_trains[i] EXCEPT !.track_id = NoTrack, !.moving = FALSE ]
                         ELSE active_trains[i] ]
      /\ train_request_states' =
            [ i \in Slots |->
                IF i = s THEN UpdateRequestState(train_request_states[i], NoTrack, NoTrack)
                         ELSE train_request_states[i] ]
  BY DEF Release
<1>2. /\ Used \subseteq Slots /\ active_trains \in [Slots -> TrainRecords]
      /\ train_request_states \in [Slots -> Requests]
  BY SlotTypes DEF SInv, IInv
<1> HIDE DEF s
<1>3. ASSUME NEW i \in Used
      PROVE  /\ active_trains'[i].track_id \in {active_trains[i].track_id, NoTrack}
             /\ train_request_states'[i].wants \in {train_request_states[i].wants, NoTrack}
  <2>1. CASE i = s
    <3>1. UpdateRequestState(train_request_states[i], NoTrack, NoTrack).wants = NoTrack
      BY <1>2, UpdateFacts, ConstantFacts
    <3>2. active_trains'[i].track_id = NoTrack
      BY <1>1, <1>2, <2>1 DEF TrainRecords
    <3> QED
      BY <1>1, <1>2, <2>1, <3>1, <3>2
  <2>2. CASE i # s
    BY <1>1, <1>2, <2>2
  <2> QED
    BY <2>1, <2>2
<1> QED
  BY <1>1, <1>3, KeepFits DEF SInv

\* A tick's start leaves wishes alone.
LEMMA PulseFits ==
    ASSUME SInv, TickPulse
    PROVE  NoSelfWish'
<1>1. /\ UNCHANGED << active_trains, active_train_count >>
      /\ train_request_states' = [ i \in Slots |-> AgeRequestState(train_request_states[i]) ]
  BY DEF TickPulse
<1>2. Used \subseteq Slots /\ train_request_states \in [Slots -> Requests]
  BY SlotTypes DEF SInv, IInv
<1>3. ASSUME NEW r \in Requests PROVE AgeRequestState(r).wants = r.wants
  <2> DEFINE age == IF r.wants # NoTrack /\ r.waited <= StuckAfter THEN r.waited + 1 ELSE r.waited
  <2>1. AgeRequestState(r) = [r EXCEPT !.waited = age]
    BY DEF AgeRequestState
  <2> HIDE DEF age
  <2> QED
    BY <2>1 DEF Requests, RequestStates
<1>4. \A i \in Used : train_request_states'[i].wants = train_request_states[i].wants
  BY <1>1, <1>2, <1>3
<1> QED
  BY <1>1, <1>4, KeepFits DEF SInv

\* remove_active_train_at: what a used slot shows afterwards one showed before,
\* the same one if it lies before the removed slot.
LEMMA CleanupCopies ==
    ASSUME TypeOK, Cleanup, NEW i \in Used'
    PROVE  \E j \in Used : /\ active_trains'[i] = active_trains[j]
                           /\ train_request_states'[i] = train_request_states[j]
                           /\ i < cursor => j = i
<1> DEFINE k == cursor
           last == active_train_count - 1
<1>1. /\ k \in Used /\ active_train_count' = last
      /\ active_trains' =
            [ m \in Slots |->
                CASE m = last               -> ZeroTrain
                  [] m >= k /\ m < last     -> active_trains[m + 1]
                  [] m < k \/ m > last      -> active_trains[m] ]
      /\ train_request_states' =
            [ m \in Slots |->
                CASE m = last               -> NoRequest
                  [] m >= k /\ m < last     -> train_request_states[m + 1]
                  [] m < k \/ m > last      -> train_request_states[m] ]
  BY DEF Cleanup
<1>2. /\ last \in Int /\ k \in Int /\ Used = 0 .. last /\ Used' = 0 .. last - 1
      /\ Used \subseteq Slots
  BY <1>1, ConstantFacts DEF Used, Slots, TypeOK
<1>3. i \in Slots /\ i \in Int /\ i < last /\ i \in Used
  BY <1>2
<1>4. CASE i >= k
  <2>1. i + 1 \in Used
    BY <1>2, <1>3
  <2> QED
    BY <1>1, <1>2, <1>3, <1>4, <2>1
<1>5. CASE i < k
  BY <1>1, <1>2, <1>3, <1>5
<1> QED
  BY <1>2, <1>3, <1>4, <1>5

\* The deadlock check, with or without a rollback.
LEMMA CheckFits ==
    ASSUME SInv, CheckOnly \/ CheckAndRollBack
    PROVE  NoSelfWish'
<1> DEFINE id == Victim
           book == SyncedStates
           s == IndexOf(book, id)
<1>1. /\ Used \subseteq Slots /\ active_trains \in [Slots -> TrainRecords] /\ book \in Books
      /\ active_train_count' = active_train_count
  BY SyncedFacts, SlotTypes DEF SInv, IInv, CheckOnly, CheckAndRollBack
<1>2. \A i \in Used : book[i].wants \in {train_request_states[i].wants, NoTrack}
  BY SyncedWants DEF SInv, IInv
<1>3. CASE CheckOnly
  BY <1>1, <1>2, <1>3, KeepFits DEF SInv, CheckOnly
<1>4. CASE CheckAndRollBack
  <2> DEFINE f == find_train_index(id)
             rec == [ active_trains[f] EXCEPT !.track_id = NoTrack, !.moving = FALSE ]
             req == UpdateRequestState(book[s], NoTrack, book[s].wants)
  <2>1. /\ active_trains' = [ active_trains EXCEPT ![f] = rec ]
        /\ train_request_states' = [ book EXCEPT ![s] = req ]
    BY <1>4 DEF CheckAndRollBack
  <2> HIDE DEF f, s, book
  <2>2. ASSUME NEW i \in Used
        PROVE  active_trains'[i].track_id \in {active_trains[i].track_id, NoTrack}
    BY <1>1, <2>1 DEF TrainRecords
  <2>3. ASSUME NEW i \in Used
        PROVE  train_request_states'[i].wants = book[i].wants
    <3>1. CASE i = s
      <4>1. book[s] \in Requests /\ book[s].wants \in Int
        BY <1>1, <3>1 DEF Books, Requests, RequestStates
      <4>2. req.wants = book[s].wants
        BY <4>1, UpdateFacts, ConstantFacts
      <4> HIDE DEF req
      <4> QED
        BY <1>1, <2>1, <3>1, <4>2 DEF Books
    <3>2. CASE i # s
      <4> HIDE DEF req
      <4> QED
        BY <1>1, <2>1, <3>2 DEF Books
    <3> QED
      BY <3>1, <3>2
  <2> QED
    BY <1>1, <1>2, <2>2, <2>3, KeepFits DEF SInv
<1> QED
  BY <1>3, <1>4

\* Every step keeps the trains from waiting for the blocks they are on.
LEMMA NextFits ==
    ASSUME SInv, [Next]_vars
    PROVE  NoSelfWish'
<1>1. ASSUME UNCHANGED << active_trains, active_train_count, train_request_states >>
      PROVE  NoSelfWish'
  BY <1>1 DEF SInv, NoSelfWish, Used
<1>2. CASE UNCHANGED vars \/ UpdateSent \/ UpdateSkipped \/ TickDone
  BY <1>1, <1>2 DEF vars, UpdateSent, UpdateSkipped, TickDone
<1>3. ASSUME NEW id \in Trains, NEW trk \in Requestable[id],
             DenyNoData(id, trk) \/ DenyHeadOn(id, trk) \/ DenyBusy(id, trk)
      PROVE  NoSelfWish'
  BY <1>1, <1>3, DenyFits DEF DenyNoData, vars
<1>4. CASE Message
  BY <1>3, <1>4, GrantFits, ReleaseFits DEF Message
<1>5. CASE Cleanup
  <2> SUFFICES ASSUME NEW i \in Used', active_trains'[i].track_id \in Blocks
               PROVE  train_request_states'[i].wants # active_trains'[i].track_id
    BY DEF NoSelfWish
  <2>1. PICK j \in Used : /\ active_trains'[i] = active_trains[j]
                          /\ train_request_states'[i] = train_request_states[j]
    BY <1>5, CleanupCopies DEF SInv, IInv
  <2> QED
    BY <2>1 DEF SInv, NoSelfWish
<1> QED
  BY <1>2, <1>4, <1>5, PulseFits, CheckFits DEF Next, Tick

-----------------------------------------------------------------------------
(* Rollbacks. *)

\* A step that ends a tick and changes the table is a rollback.
LEMMA TickEnds ==
    ASSUME TypeOK, [Next]_vars, cursor # Idle, cursor' = Idle,
           NEW t \in Blocks, track_table'[t] # track_table[t]
    PROVE  CheckAndRollBack
<1>1. ~ Message
  BY DEF Message, DenyNoData, DenyHeadOn, Grant, DenyBusy, Release, Serves
<1>2. ~ TickPulse /\ ~ UNCHANGED vars /\ ~ TickDone /\ ~ CheckOnly
  BY DEF TickPulse, vars, TickDone, CheckOnly
<1>3. ~ UpdateSent /\ ~ UpdateSkipped /\ ~ Cleanup
  BY DEF UpdateSent, UpdateSkipped, Cleanup
<1> QED
  BY <1>1, <1>2, <1>3 DEF Next, Tick

\* What a rollback takes.
LEMMA RollbackTakes ==
    ASSUME SInv, CheckAndRollBack, NEW t \in Blocks, track_table'[t] # track_table[t]
    PROVE  \E i \in Used :
                /\ track_table[t] = active_trains[i].train_id
                /\ active_trains[i].track_id = t
                /\ OnWaitCycle(SyncedStates, active_train_count, TrackIds, i)
                /\ \A j \in Used \ {i} :
                      ~ /\ SyncedStates[i].wants = active_trains[j].track_id
                        /\ SyncedStates[j].wants = t
<1> DEFINE book == SyncedStates
           held == book[IndexOf(book, Victim)].holds
<1>1. TypeOK /\ SlotsAligned /\ track_table \in Tables
  BY DEF SInv, IInv, TypeOK, Tables, Owners
<1>2. /\ Victim >= 0 /\ ~ HasOpposingPeer(book, Victim) /\ IsCached(Victim)
      /\ held >= 0
      /\ track_table' = TableAfterRelease(track_table, Victim, held)
  BY DEF CheckAndRollBack, CanRollBack
<1>3. PICK i \in Used : /\ active_trains[i].train_id = Victim
                        /\ IndexOf(book, Victim) = i
                        /\ OnWaitCycle(book, active_train_count, TrackIds, i)
  BY <1>1, <1>2, VictimFacts
<1>4. \A j \in Used : book[j].holds = active_trains[j].track_id
  BY <1>1, SyncedFacts
<1>5. held = active_trains[i].track_id /\ book[i].holds = held
  BY <1>3, <1>4
<1>6. t = held /\ track_table[t] = Victim
  <2> HIDE DEF held
  <2> QED
    BY <1>1, <1>2 DEF TableAfterRelease, Releases, Tables
<1>7. ASSUME NEW j \in Used \ {i}, book[i].wants = active_trains[j].track_id, book[j].wants = t
      PROVE  FALSE
  <2>1. i # NoSlot
    BY <1>1, ConstantFacts DEF Used, NoSlot, TypeOK
  <2>2. active_trains[j].train_id # Victim
    BY <1>1, <1>3 DEF SlotsAligned
  <2>3. ~ (book[i].wants >= 0 /\ book[i].holds # book[i].wants)
    <3>1. book[j].holds = book[i].wants /\ book[j].wants = book[i].holds
      BY <1>4, <1>5, <1>6, <1>7
    <3> HIDE DEF book, held
    <3> QED
      BY <1>2, <1>3, <1>5, <2>1, <2>2, <3>1 DEF HasOpposingPeer
  <2>4. active_trains[j].track_id >= 0
    <3>1. book[j].wants = NoTrack \/ ~ active_trains[j].track_id < 0
      BY <1>1, SyncedWants
    <3>2. active_trains[j].track_id \in Int
      BY <1>1, ConstantFacts DEF TypeOK, Used, Slots, TrainRecords
    <3> QED
      BY <1>7, <3>1, <3>2, ConstantFacts
  <2>5. book[i].wants = t
    BY <1>5, <1>6, <1>7, <2>3, <2>4
  <2>6. train_request_states[i].wants # t
    BY <1>5, <1>6 DEF SInv, NoSelfWish
  <2> QED
    BY <1>1, <2>5, <2>6, SyncedWants, ConstantFacts
<1> QED
  BY <1>3, <1>5, <1>6, <1>7

\* The deadlock check takes a block only from a train that waits in a cycle
\* and whose wanted block is not held by a train that wants its own: in every
\* state, whatever messages came in any order, and however many trains,
\* tracks and cycles there are ("resolve_deadlock_cycle releases the held
\* block", FinalReport.tex:131).
THEOREM ManagerRollbackOnlyOnCycle == Spec => RollbackOnlyOnCycle
<1>1. Init => SInv
  <2>1. Init => NoSelfWish
    BY DEF Init, NoSelfWish, Used
  <2> QED
    BY <2>1, InitIInv DEF SInv
<1>2. SInv /\ [Next]_vars => SInv'
  BY NextFits, NextIInv, AdmitsOffStarts DEF SInv
<1>3. SInv /\ [Next]_vars => [RollbackStep]_vars
  <2> SUFFICES ASSUME SInv, [Next]_vars, cursor # Idle, cursor' = Idle
               PROVE  RollbackStep
    BY DEF RollbackStep
  <2>1. ASSUME NEW t \in Blocks, track_table'[t] # track_table[t]
        PROVE  CheckAndRollBack
    BY <2>1, TickEnds DEF SInv, IInv
  <2> QED
    BY <2>1, RollbackTakes DEF RollbackStep
<1> QED
  BY <1>1, <1>2, <1>3, PTL DEF Spec, RollbackOnlyOnCycle

-----------------------------------------------------------------------------
(* Cycles that are reported. *)

AInv == IInv(Blocks) /\ OnBlocks

\* A train that is in the cache after its message was admitted is located on a
\* block, or nowhere.
LEMMA AdmittedSits ==
    ASSUME AInv, AdmissionOntoFreeBlock, NEW id \in Trains, Serves(id), IsCached(id)'
    PROVE  LocationOf(id) \in Blocks \union {NoTrack}
<1> DEFINE s == SlotFor(id)
<1>1. Found(id, s, TrainsWith(id), StatesWith(id), CountWith(id))
  BY LookupFacts DEF AInv, IInv, Serves
<1> HIDE DEF s
<1>2. CASE IsCached(id)
  BY <1>1, <1>2 DEF Found, LocationOf, AInv, OnBlocks, s
<1>3. CASE ~ IsCached(id)
  <2>1. LocationOf(id) = Start[id]
    BY <1>1, <1>3 DEF Found, LocationOf, s
  <2> QED
    BY <1>3, <2>1 DEF AdmissionOntoFreeBlock
<1> QED
  BY <1>2, <1>3

\* A message handler rewrites one slot.
LEMMA SlotSits ==
    ASSUME AInv, AdmissionOntoFreeBlock, NEW id \in Trains,
           NEW trk, DenyHeadOn(id, trk) \/ DenyBusy(id, trk) \/ Grant(id, trk)
    PROVE  OnBlocks'
<1> DEFINE s == SlotFor(id)
           trains == TrainsWith(id)
           rec == active_trains'[s]
<1>1. Serves(id) /\ active_train_count' = CountWith(id)
  BY DEF DenyHeadOn, DenyBusy, Grant
<1>2. Found(id, s, trains, StatesWith(id), CountWith(id))
  BY <1>1, LookupFacts DEF AInv, IInv, Serves
<1>3. /\ s \in Slots /\ s \in 0 .. CountWith(id) - 1 /\ CountWith(id) \in 0 .. MAX_TRAINS
      /\ trains \in [Slots -> TrainRecords] /\ trains[s].train_id = id
      /\ trains[s].track_id = LocationOf(id)
      /\ \A i \in (0 .. CountWith(id) - 1) \ {s} : i \in Used /\ trains[i] = active_trains[i]
  BY <1>2 DEF Found, LocationOf
<1>4. /\ active_trains' = [trains EXCEPT ![s] = rec] /\ rec.train_id = id
      /\ rec.track_id \in Blocks \union {NoTrack, LocationOf(id)}
  <2>1. CASE DenyHeadOn(id, trk)
    <3>1. active_trains' = [trains EXCEPT ![s].moving = FALSE]
      BY <2>1 DEF DenyHeadOn
    <3> HIDE DEF s, trains
    <3> QED
      BY <1>3, <3>1 DEF TrainRecords
  <2>2. CASE DenyBusy(id, trk)
    <3> DEFINE to == IF train_is_on_any_track(id) THEN LocationOf(id) ELSE NoTrack
    <3>1. active_trains' =
              [trains EXCEPT ![s] = [trains[s] EXCEPT !.track_id = to, !.moving = FALSE]]
      BY <2>2 DEF DenyBusy
    <3>2. to \in {LocationOf(id), NoTrack}
      OBVIOUS
    <3> HIDE DEF to, s, trains
    <3> QED
      BY <1>3, <3>1, <3>2 DEF TrainRecords
  <2>3. CASE Grant(id, trk)
    <3> DEFINE power == id \in Powered
    <3>1. active_trains' =
              [trains EXCEPT ![s] = [trains[s] EXCEPT !.track_id = trk, !.moving = power]]
      BY <2>3 DEF Grant
    <3>2. trk \in Blocks
      BY <2>3 DEF Grant, RequestGranted
    <3> HIDE DEF s, trains, power
    <3> QED
      BY <1>3, <3>1, <3>2 DEF TrainRecords
  <2> QED
    BY <2>1, <2>2, <2>3
<1> HIDE DEF s, trains, rec
<1>5. Used' = 0 .. CountWith(id) - 1 /\ Used' \subseteq Slots
  BY <1>1, <1>3, ConstantFacts DEF Used, Slots
<1>6. active_trains'[s] = rec
  BY <1>3, <1>4
<1>7. LocationOf(id) \in Blocks \union {NoTrack}
  <2>1. IsCached(id)'
    BY <1>3, <1>4, <1>5, <1>6 DEF IsCached
  <2> QED
    BY <1>1, <2>1, AdmittedSits
<1>8. rec.track_id \in Blocks \union {NoTrack}
  BY <1>4, <1>7
<1> SUFFICES ASSUME NEW i \in Used'
             PROVE  active_trains'[i].track_id \in Blocks \union {NoTrack}
  BY DEF OnBlocks
<1>9. CASE i = s
  BY <1>6, <1>8, <1>9
<1>10. CASE i # s
  <2>1. i \in Used /\ active_trains'[i] = active_trains[i]
    BY <1>3, <1>4, <1>5, <1>10
  <2> QED
    BY <2>1 DEF AInv, OnBlocks
<1> QED
  BY <1>9, <1>10

\* Every step keeps the trains on blocks.
LEMMA NextSits ==
    ASSUME AInv, [Next /\ AdmissionOntoFreeBlock]_vars
    PROVE  OnBlocks'
<1>1. ASSUME UNCHANGED << active_trains, active_train_count >>
      PROVE  OnBlocks'
  BY <1>1 DEF AInv, OnBlocks, Used
<1>2. CASE UNCHANGED vars \/ TickPulse \/ UpdateSent \/ UpdateSkipped \/ TickDone \/ CheckOnly
  BY <1>1, <1>2 DEF vars, TickPulse, UpdateSent, UpdateSkipped, TickDone, CheckOnly
<1>3. ASSUME AdmissionOntoFreeBlock, NEW id \in Trains, NEW trk \in Requestable[id],
             DenyNoData(id, trk) \/ DenyHeadOn(id, trk) \/ DenyBusy(id, trk) \/ Grant(id, trk)
      PROVE  OnBlocks'
  BY <1>1, <1>3, SlotSits DEF DenyNoData, vars
<1>4. ASSUME active_train_count' = active_train_count,
             \A i \in Used :
                 active_trains'[i].track_id \in {active_trains[i].track_id, NoTrack}
      PROVE  OnBlocks'
  BY <1>4 DEF AInv, OnBlocks, Used
<1>5. TypeOK
  BY DEF AInv, IInv
<1>6. ASSUME NEW id \in Trains, NEW trk \in Requestable[id], Release(id, trk)
      PROVE  OnBlocks'
  <2> DEFINE s == find_train_index(id)
  <2>1. /\ active_train_count' = active_train_count
        /\ active_trains' =
              [ i \in Slots |->
                  IF i = s THEN [ active_trains[i] EXCEPT !.track_id = NoTrack, !.moving = FALSE ]
                           ELSE active_trains[i] ]
    BY <1>6 DEF Release
  <2> HIDE DEF s
  <2>2. ASSUME NEW i \in Used
        PROVE  active_trains'[i].track_id \in {active_trains[i].track_id, NoTrack}
    <3>1. i \in Slots /\ active_trains[i] \in TrainRecords
      BY <1>5, SlotTypes
    <3>2. CASE i = s
      BY <2>1, <3>1, <3>2 DEF TrainRecords
    <3>3. CASE i # s
      BY <2>1, <3>1, <3>3
    <3> QED
      BY <3>2, <3>3
  <2> QED
    BY <1>4, <2>1, <2>2
<1>7. CASE CheckAndRollBack
  <2> DEFINE s == find_train_index(Victim)
  <2>1. /\ active_train_count' = active_train_count
        /\ active_trains' =
              [ active_trains EXCEPT ![s] =
                    [ active_trains[s] EXCEPT !.track_id = NoTrack, !.moving = FALSE ] ]
    BY <1>7 DEF CheckAndRollBack
  <2> HIDE DEF s
  <2>2. ASSUME NEW i \in Used
        PROVE  active_trains'[i].track_id \in {active_trains[i].track_id, NoTrack}
    <3>1. i \in Slots /\ active_trains \in [Slots -> TrainRecords]
      BY <1>5, SlotTypes
    <3> QED
      BY <2>1, <3>1 DEF TrainRecords
  <2> QED
    BY <1>4, <2>1, <2>2
<1>8. CASE Cleanup
  <2> SUFFICES ASSUME NEW i \in Used'
               PROVE  active_trains'[i].track_id \in Blocks \union {NoTrack}
    BY DEF OnBlocks
  <2>1. PICK j \in Used : active_trains'[i] = active_trains[j]
    BY <1>5, <1>8, CleanupCopies
  <2> QED
    BY <2>1 DEF AInv, OnBlocks
<1> QED
  BY <1>2, <1>3, <1>6, <1>7, <1>8 DEF Next, Message, Tick

\* Where trains are kept apart and on blocks, no track is held twice in the
\* records the search is run on.
LEMMA SyncedHoldOnce ==
    ASSUME AInv
    PROVE  HeldOnce(SyncedStates, active_train_count, TrackIds)
<1> DEFINE book == SyncedStates
<1>1. TypeOK /\ SlotsAligned
  BY DEF AInv, IInv
<1>2. \A i \in Used : /\ book[i].train_id # NoTrain
                      /\ book[i].holds = active_trains[i].track_id
  BY <1>1, CheckReads, SyncedFacts
<1>3. \A k \in DOMAIN TrackIds : TrackIds[k] # NoTrack
  <2>1. \A k \in DOMAIN TrackIds : TrackIds[k] \in Nat
    BY TrackIdsFacts
  <2> QED
    BY <2>1 DEF NoTrack
<1> HIDE DEF book
<1>4. ASSUME NEW i \in Used, NEW j \in Used, book[i].holds = book[j].holds,
             NEW k \in DOMAIN TrackIds, TrackIds[k] = book[i].holds
      PROVE  i = j
  <2>1. active_trains[i].track_id \in Blocks /\ active_trains[j].track_id = active_trains[i].track_id
    BY <1>2, <1>3, <1>4 DEF AInv, OnBlocks
  <2>2. active_trains[i].train_id = active_trains[j].train_id
    BY <2>1 DEF AInv, IInv, ExclusiveOn
  <2> QED
    BY <1>1, <2>2 DEF SlotsAligned
<1>5. HeldOnce(book, active_train_count, TrackIds)
  BY <1>2, <1>4 DEF HeldOnce, Used
<1> QED
  BY <1>5 DEF book

\* The invariants of an admitted manager.
LEMMA AdmittedInvariant == AdmittedSpec => []AInv
<1>1. Init => AInv
  <2>1. Init => OnBlocks
    BY DEF Init, OnBlocks, Used
  <2> QED
    BY <2>1, InitIInv DEF AInv
<1>2. AInv /\ [Next /\ AdmissionOntoFreeBlock]_vars => AInv'
  <2> SUFFICES ASSUME AInv, [Next /\ AdmissionOntoFreeBlock]_vars PROVE AInv'
    OBVIOUS
  <2>1. CASE UNCHANGED vars
    BY <2>1, NextSits, CursorStep DEF AInv
  <2>2. CASE Next /\ AdmissionOntoFreeBlock
    <3>1. Admits(Blocks)
      BY <2>2 DEF Admits, AdmissionOntoFreeBlock
    <3> QED
      BY <2>2, <3>1, NextIInv, NextSits DEF AInv
  <2> QED
    BY <2>1, <2>2
<1> QED
  BY <1>1, <1>2, PTL DEF AdmittedSpec

\* With trains admitted onto free blocks the deadlock check finds a train to
\* report whenever some trains wait for each other in a cycle, for every
\* number of trains and every file of tracks: no deadlock is overlooked by
\* the depth-first search's shared colours, its early return, or its -1 for a
\* cycle entered at a track.
THEOREM AdmittedCycleIsReported == AdmittedSpec => []CycleIsReported
<1>1. AInv => CycleIsReported
  <2> SUFFICES ASSUME AInv, NEW i \in Used,
                      OnWaitCycle(SyncedStates, active_train_count, TrackIds, i)
               PROVE  Victim >= 0
    BY DEF CycleIsReported
  <2>1. TypeOK /\ SlotsAligned
    BY DEF AInv, IInv
  <2>2. Readable(SyncedStates, active_train_count, TrackIds)
    BY <2>1, CheckReads
  <2>3. Victim # NoTrain
    BY <2>2, SyncedHoldOnce, SearchIsComplete DEF Victim, Used
  <2>4. PICK j \in 0 .. active_train_count - 1 : Victim = SyncedStates[j].train_id
    BY <2>2, <2>3, SearchIsSound DEF Victim
  <2>5. Victim \in Nat
    BY <2>1, <2>4, SyncedFacts, ConstantFacts DEF Used, SlotsAligned
  <2> QED
    BY <2>5
<1> QED
  BY <1>1, AdmittedInvariant, PTL

-----------------------------------------------------------------------------
(* The abstract reservation of blocks. *)

\* The manager locates train id on block b.
Locates(id, b) == \E i \in Used : active_trains[i].train_id = id /\ active_trains[i].track_id = b

\* LocatedAt is the function of that relation.
LocatedIsFunction ==
    /\ LocatedAt \in [Trains -> Blocks \union {NoTrack}]
    /\ \A id \in Trains, b \in Blocks : Locates(id, b) <=> LocatedAt[id] = b

\* No train has two slots, so it is located on one block at most.
LEMMA LocatedFacts == TypeOK /\ SlotsAligned => LocatedIsFunction
<1> SUFFICES ASSUME TypeOK, SlotsAligned
             PROVE  LocatedIsFunction
  OBVIOUS
<1>1. \A i, j \in Used : active_trains[i].train_id = active_trains[j].train_id => i = j
  BY DEF SlotsAligned
<1>2. ASSUME NEW id \in Trains, NEW i \in Used, active_trains[i].train_id = id
      PROVE  find_train_index(id) = i
  <2>1. find_train_index(id) \in Used /\ active_trains[find_train_index(id)].train_id = id
    BY <1>1, <1>2, IndexFacts DEF find_train_index, TypeOK
  <2> QED
    BY <1>1, <1>2, <2>1
<1> DEFINE on(id) == \E i \in Used : active_trains[i].train_id = id /\ active_trains[i].track_id \in Blocks
           where(id) == IF on(id) THEN active_trains[find_train_index(id)].track_id ELSE NoTrack
<1>3. LocatedAt = [ id \in Trains |-> where(id) ]
  BY DEF LocatedAt
<1>4. ASSUME NEW id \in Trains
      PROVE  /\ where(id) \in Blocks \union {NoTrack}
             /\ \A b \in Blocks : Locates(id, b) <=> where(id) = b
  <2>1. CASE on(id)
    <3>1. PICK i \in Used : active_trains[i].train_id = id /\ active_trains[i].track_id \in Blocks
      BY <2>1
    <3>2. where(id) = active_trains[i].track_id
      BY <1>2, <2>1, <3>1
    <3>3. \A j \in Used : active_trains[j].train_id = id => j = i
      BY <1>1, <3>1
    <3> HIDE DEF where, on
    <3> QED
      BY <3>1, <3>2, <3>3 DEF Locates
  <2>2. CASE ~ on(id)
    BY <2>2, ConstantFacts DEF Locates
  <2> QED
    BY <2>1, <2>2
<1> HIDE DEF on, where
<1> QED
  BY <1>3, <1>4 DEF LocatedIsFunction

\* A step that moves train id only to a block nobody owned is a step of the
\* abstract reservation.
LEMMA MoveIsReservation ==
    ASSUME IInv(Blocks), IInv(Blocks)', NEW id \in Trains,
           \A other \in Trains \ {id}, b \in Blocks : Locates(other, b)' <=> Locates(other, b),
           \A b \in Blocks : Locates(id, b)' => Locates(id, b) \/ track_table[b] = Free
    PROVE  [Reservation!Next]_LocatedAt
<1>1. LocatedIsFunction /\ LocatedIsFunction'
  <2>1. LocatedIsFunction
    BY LocatedFacts DEF IInv
  <2>2. TypeOK' /\ SlotsAligned'
    BY DEF IInv
  <2> QED
    BY <2>1, <2>2, LocatedFacts, PTL
<1> DEFINE at == LocatedAt
           to == LocatedAt'[id]
<1>2. /\ at \in [Trains -> Blocks \union {NoTrack}] /\ at' \in [Trains -> Blocks \union {NoTrack}]
      /\ \A x \in Trains, b \in Blocks : Locates(x, b) <=> at[x] = b
      /\ \A x \in Trains, b \in Blocks : Locates(x, b)' <=> at'[x] = b
  BY <1>1 DEF LocatedIsFunction
<1> HIDE DEF at
<1>3. \A other \in Trains \ {id} : at'[other] = at[other]
  <2> SUFFICES ASSUME NEW other \in Trains \ {id} PROVE at'[other] = at[other]
    OBVIOUS
  <2>1. \A b \in Blocks : at'[other] = b <=> at[other] = b
    BY <1>2
  <2> QED
    BY <1>2, <2>1, ConstantFacts
<1>4. at' = [ at EXCEPT ![id] = at'[id] ]
  BY <1>2, <1>3
<1>5. CASE at'[id] = NoTrack
  BY <1>4, <1>5 DEF Reservation!Next, Reservation!Leave, at
<1>6. CASE at'[id] \in Blocks /\ at'[id] = at[id]
  <2>1. at' = at
    BY <1>2, <1>4, <1>6
  <2> QED
    BY <2>1 DEF at
<1>7. CASE at'[id] \in Blocks /\ at'[id] # at[id]
  <2>1. track_table[at'[id]] = Free
    BY <1>2, <1>7
  <2>2. ASSUME NEW x \in Trains, at[x] = at'[id] PROVE FALSE
    <3>1. Locates(x, at'[id])
      BY <1>2, <1>7, <2>2
    <3>2. track_table[at'[id]] = x
      BY <1>7, <3>1 DEF Locates, IInv, ExclusiveOn
    <3> QED
      BY <2>1, <3>2, ConstantFacts
  <2>3. Reservation!Vacant(at'[id])
    BY <2>2 DEF Reservation!Vacant, at
  <2>4. Reservation!Enter(id, at'[id])
    BY <1>4, <2>3 DEF Reservation!Enter, at
  <2> QED
    BY <1>7, <2>4 DEF Reservation!Next, at
<1> QED
  BY <1>2, <1>5, <1>6, <1>7

\* A handler that rewrites the slot of the train it serves.
LEMMA SlotIsReservation ==
    ASSUME IInv(Blocks), IInv(Blocks)', NEW id \in Trains,
           NEW s, NEW trains, NEW book, NEW count, Found(id, s, trains, book, count),
           s = SlotFor(id), NEW rec, rec.train_id = id,
           active_trains' = [trains EXCEPT ![s] = rec], active_train_count' = count,
           rec.track_id \in Blocks => Locates(id, rec.track_id) \/ track_table[rec.track_id] = Free
    PROVE  [Reservation!Next]_LocatedAt
<1>1. /\ count \in 0 .. MAX_TRAINS /\ s \in Slots /\ s \in 0 .. count - 1
      /\ trains \in [Slots -> TrainRecords] /\ active_train_count <= count
      /\ \A i \in (0 .. count - 1) \ {s} : i \in Used /\ trains[i] = active_trains[i]
      /\ s \in Used => trains[s] = active_trains[s] /\ trains[s].train_id = id
  <2>1. IsCached(id) \/ s \notin Used
    BY ConstantFacts DEF SlotFor, Used, IInv, TypeOK
  <2> QED
    BY <2>1 DEF Found
<1>2. Used' = 0 .. count - 1 /\ Used' \subseteq Slots /\ Used \subseteq Used'
  BY <1>1, ConstantFacts DEF Used, Slots, IInv, TypeOK
<1>3. /\ active_trains'[s] = rec /\ s \in Used'
      /\ \A i \in Used' \ {s} : i \in Used /\ active_trains'[i] = active_trains[i]
  BY <1>1, <1>2
<1>4. ASSUME NEW other \in Trains \ {id}, NEW b \in Blocks
      PROVE  Locates(other, b)' <=> Locates(other, b)
  <2>1. ASSUME NEW i \in Used, active_trains[i].train_id = other
        PROVE  i \in Used' /\ active_trains'[i] = active_trains[i]
    BY <1>1, <1>2, <1>3, <2>1
  <2>2. ASSUME NEW i \in Used', active_trains'[i].train_id = other
        PROVE  i \in Used /\ active_trains'[i] = active_trains[i]
    BY <1>3, <2>2
  <2> QED
    BY <2>1, <2>2 DEF Locates
<1>5. ASSUME NEW b \in Blocks, Locates(id, b)' PROVE Locates(id, b) \/ track_table[b] = Free
  <2>1. PICK i \in Used' : active_trains'[i].train_id = id /\ active_trains'[i].track_id = b
    BY <1>5 DEF Locates
  <2>2. CASE i = s
    BY <1>3, <2>1, <2>2
  <2>3. CASE i # s
    BY <1>3, <2>1, <2>3 DEF Locates
  <2> QED
    BY <2>2, <2>3
<1> QED
  BY <1>4, <1>5, MoveIsReservation

\* A denial, which only a train on record or admitted in this step can get.
LEMMA DenyIsReservation ==
    ASSUME IInv(Blocks), IInv(Blocks)', AdmissionOntoFreeBlock,
           NEW id \in Trains, NEW trk \in Requestable[id], DenyHeadOn(id, trk) \/ DenyBusy(id, trk)
    PROVE  [Reservation!Next]_LocatedAt
<1> DEFINE s == SlotFor(id)
           trains == TrainsWith(id)
           rec == active_trains'[s]
<1>1. Serves(id) /\ active_train_count' = CountWith(id) /\ track_table' = track_table
  BY DEF DenyHeadOn, DenyBusy
<1>2. Found(id, s, trains, StatesWith(id), CountWith(id))
  BY <1>1, LookupFacts DEF IInv, Serves
<1>3. /\ s \in Slots /\ s \in 0 .. CountWith(id) - 1 /\ trains \in [Slots -> TrainRecords]
      /\ trains[s].train_id = id /\ trains[s].track_id = LocationOf(id)
      /\ IsCached(id) => s \in Used /\ trains[s] = active_trains[s]
  BY <1>2 DEF Found, LocationOf
<1>4. /\ active_trains' = [trains EXCEPT ![s] = rec]
      /\ rec.train_id = id /\ rec.track_id \in {LocationOf(id), NoTrack}
  <2>1. CASE DenyHeadOn(id, trk)
    <3>1. active_trains' = [trains EXCEPT ![s].moving = FALSE]
      BY <2>1 DEF DenyHeadOn
    <3> HIDE DEF s, trains
    <3> QED
      BY <1>3, <3>1 DEF TrainRecords
  <2>2. CASE DenyBusy(id, trk)
    <3> DEFINE to == IF train_is_on_any_track(id) THEN LocationOf(id) ELSE NoTrack
    <3>1. active_trains' =
              [trains EXCEPT ![s] = [trains[s] EXCEPT !.track_id = to, !.moving = FALSE]]
      BY <2>2 DEF DenyBusy
    <3>2. to \in {LocationOf(id), NoTrack}
      OBVIOUS
    <3> HIDE DEF to, s, trains
    <3> QED
      BY <1>3, <3>1, <3>2 DEF TrainRecords
  <2> QED
    BY <2>1, <2>2
<1> HIDE DEF trains, rec
<1>5. IsCached(id)
  <2>1. IsCached(id)'
    BY <1>1, <1>3, <1>4 DEF IsCached, Used
  <2>2. CASE ~ IsCached(id)
    <3>1. /\ Start[id] \in Blocks /\ track_table[Start[id]] = Free
          /\ track_table'[Start[id]] = id
      BY <2>1, <2>2 DEF AdmissionOntoFreeBlock
    <3> QED
      BY <1>1, <3>1, ConstantFacts
  <2> QED
    BY <2>2
<1>6. rec.track_id \in Blocks => Locates(id, rec.track_id)
  BY <1>3, <1>4, <1>5, ConstantFacts DEF Locates
<1> QED
  BY <1>1, <1>2, <1>4, <1>6, SlotIsReservation DEF s

\* A grant moves the train to a free block, or leaves it on its own.
LEMMA GrantIsReservation ==
    ASSUME IInv(Blocks), IInv(Blocks)', AdmissionOntoFreeBlock,
           NEW id \in Trains, NEW trk \in Requestable[id], Grant(id, trk)
    PROVE  [Reservation!Next]_LocatedAt
<1> DEFINE s == SlotFor(id)
           trains == TrainsWith(id)
           power == id \in Powered
           rec == [trains[s] EXCEPT !.track_id = trk, !.moving = power]
<1>1. /\ Serves(id) /\ active_train_count' = CountWith(id)
      /\ active_trains' = [trains EXCEPT ![s] = rec]
      /\ trk \in Blocks /\ (LocationOf(id) = trk \/ track_table[trk] = Free)
  BY DEF Grant, RequestGranted
<1>2. Found(id, s, trains, StatesWith(id), CountWith(id))
  BY <1>1, LookupFacts DEF IInv, Serves
<1> HIDE DEF trains, power
<1>3. rec.train_id = id /\ rec.track_id = trk /\ s \in 0 .. CountWith(id) - 1 /\ s \in Slots
  BY <1>2 DEF Found, TrainRecords
<1>4. Locates(id, trk) \/ track_table[trk] = Free
  <2>1. CASE IsCached(id)
    <3>1. s \in Used /\ active_trains[s].train_id = id /\ LocationOf(id) = active_trains[s].track_id
      BY <1>2, <2>1 DEF Found, LocationOf, trains
    <3> HIDE DEF s
    <3> QED
      BY <1>1, <3>1 DEF Locates
  <2>2. CASE ~ IsCached(id)
    <3>1. LocationOf(id) = Start[id]
      BY <1>2, <2>2 DEF Found, LocationOf, trains
    <3>2. IsCached(id)'
      <4>1. active_trains'[s].train_id = id
        BY <1>1, <1>2, <1>3 DEF Found
      <4> QED
        BY <1>1, <1>3, <4>1 DEF IsCached, Used
    <3>3. track_table[Start[id]] = Free
      BY <2>2, <3>2 DEF AdmissionOntoFreeBlock
    <3> QED
      BY <1>1, <3>1, <3>3
  <2> QED
    BY <2>1, <2>2
<1> HIDE DEF rec
<1> QED
  BY <1>1, <1>2, <1>3, <1>4, SlotIsReservation DEF s
\* A step that rewrites slots without adding a train or a location.
LEMMA LeavingIsReservation ==
    ASSUME IInv(Blocks), IInv(Blocks)', NEW id \in Trains, UNCHANGED active_train_count,
           \A i \in Used : /\ active_trains'[i].train_id = active_trains[i].train_id
                           /\ \/ active_trains'[i].track_id = active_trains[i].track_id
                              \/ /\ active_trains[i].train_id = id
                                 /\ active_trains'[i].track_id = NoTrack
    PROVE  [Reservation!Next]_LocatedAt
<1>1. Used' = Used
  BY DEF Used
<1>2. \A other \in Trains \ {id}, b \in Blocks : Locates(other, b)' <=> Locates(other, b)
  BY <1>1 DEF Locates
<1>3. \A b \in Blocks : Locates(id, b)' => Locates(id, b)
  BY <1>1, ConstantFacts DEF Locates
<1> QED
  BY <1>2, <1>3, MoveIsReservation

\* The record that remove_active_train_at takes out is of a train on no block.
LEMMA CleanupIsReservation ==
    ASSUME IInv(Blocks), IInv(Blocks)', Cleanup
    PROVE  [Reservation!Next]_LocatedAt
<1> DEFINE k == cursor
           last == active_train_count - 1
           from(i) == IF i >= k THEN i + 1 ELSE i
           to(i) == IF i > k THEN i - 1 ELSE i
<1>1. /\ k \in Used /\ active_train_count' = last /\ active_trains[k].track_id = NoTrack
      /\ active_trains' =
            [ i \in Slots |->
                CASE i = last               -> ZeroTrain
                  [] i >= k /\ i < last     -> active_trains[i + 1]
                  [] i < k \/ i > last      -> active_trains[i] ]
  BY DEF Cleanup, IdleAndUnrequested
<1>2. /\ last \in Int /\ k \in 0 .. last /\ Used = 0 .. last /\ Used' = 0 .. last - 1
      /\ Used \subseteq Slots
  BY <1>1, ConstantFacts DEF Used, Slots, IInv, TypeOK
<1>3. ASSUME NEW i \in Used'
      PROVE  from(i) \in Used /\ active_trains'[i] = active_trains[from(i)]
  <2>1. i \in Slots /\ i \in Int /\ i < last
    BY <1>2
  <2>2. CASE i >= k
    BY <1>1, <1>2, <2>1, <2>2
  <2>3. CASE i < k
    BY <1>1, <1>2, <2>1, <2>3
  <2> QED
    BY <1>2, <2>1, <2>2, <2>3
<1>4. ASSUME NEW j \in Used, j # k
      PROVE  to(j) \in Used' /\ from(to(j)) = j
  BY <1>2, <1>4
<1> HIDE DEF from, to
<1>5. ASSUME NEW id \in Trains, NEW b \in Blocks
      PROVE  Locates(id, b)' <=> Locates(id, b)
  <2>1. ASSUME Locates(id, b)' PROVE Locates(id, b)
    BY <1>3, <2>1 DEF Locates
  <2>2. ASSUME Locates(id, b) PROVE Locates(id, b)'
    <3>1. PICK j \in Used : active_trains[j].train_id = id /\ active_trains[j].track_id = b
      BY <2>2 DEF Locates
    <3>2. to(j) \in Used' /\ from(to(j)) = j
      BY <1>1, <1>4, <3>1, ConstantFacts
    <3>3. active_trains'[to(j)] = active_trains[j]
      BY <1>3, <3>2
    <3> QED
      BY <3>1, <3>2, <3>3 DEF Locates
  <2> QED
    BY <2>1, <2>2
<1>6. active_trains[k].train_id \in Trains
  BY <1>1 DEF IInv, SlotsAligned
<1> QED
  BY <1>5, <1>6, MoveIsReservation

\* Every step of the manager is a step of the abstract reservation.
LEMMA NextIsReservation ==
    ASSUME IInv(Blocks), IInv(Blocks)', [Next /\ AdmissionOntoFreeBlock]_vars
    PROVE  [Reservation!Next]_LocatedAt
<1>1. /\ active_trains \in [Slots -> TrainRecords] /\ Used \subseteq Slots
      /\ \A i, j \in Used : active_trains[i].train_id = active_trains[j].train_id => i = j
      /\ \A i \in Used : active_trains[i].train_id \in Trains
  BY ConstantFacts DEF IInv, TypeOK, SlotsAligned, Used, Slots
<1>2. ASSUME UNCHANGED << active_trains, active_train_count >>
      PROVE  [Reservation!Next]_LocatedAt
  BY <1>2 DEF LocatedAt, Used, find_train_index, IndexOf
<1>3. CASE UNCHANGED vars \/ TickPulse \/ UpdateSent \/ UpdateSkipped \/ TickDone \/ CheckOnly
  BY <1>2, <1>3 DEF vars, TickPulse, UpdateSent, UpdateSkipped, TickDone, CheckOnly
<1>4. ASSUME NEW id \in Trains, NEW trk \in Requestable[id], DenyNoData(id, trk)
      PROVE  [Reservation!Next]_LocatedAt
  BY <1>2, <1>4 DEF DenyNoData, vars
<1>5. ASSUME NEW id \in Trains, NEW trk \in Requestable[id], Release(id, trk)
      PROVE  [Reservation!Next]_LocatedAt
  <2> DEFINE s == find_train_index(id)
  <2>1. /\ UNCHANGED active_train_count
        /\ active_trains' =
              [ i \in Slots |->
                  IF i = s THEN [ active_trains[i] EXCEPT !.track_id = NoTrack, !.moving = FALSE ]
                           ELSE active_trains[i] ]
    BY <1>5 DEF Release
  <2>2. s \in Used => active_trains[s].train_id = id
    <3>1. s \in Used => \E i \in Used : active_trains[i].train_id = id
      BY ConstantFacts, <1>1 DEF find_train_index, IndexOf
    <3> QED
      BY <1>1, <3>1, IndexFacts DEF find_train_index, IInv, TypeOK
  <2> HIDE DEF s
  <2>3. \A i \in Used : /\ active_trains'[i].train_id = active_trains[i].train_id
                        /\ \/ active_trains'[i].track_id = active_trains[i].track_id
                           \/ /\ active_trains[i].train_id = id
                              /\ active_trains'[i].track_id = NoTrack
    BY <1>1, <2>1, <2>2 DEF TrainRecords
  <2> QED
    BY <2>1, <2>3, LeavingIsReservation
<1>6. CASE Message /\ AdmissionOntoFreeBlock
  BY <1>4, <1>5, <1>6, DenyIsReservation, GrantIsReservation DEF Message
<1>7. CASE CheckAndRollBack
  <2> DEFINE id == Victim
             s == find_train_index(id)
  <2>1. /\ UNCHANGED active_train_count /\ IsCached(id)
        /\ active_trains' =
              [ active_trains EXCEPT ![s] =
                    [ active_trains[s] EXCEPT !.track_id = NoTrack, !.moving = FALSE ] ]
    BY <1>7 DEF CheckAndRollBack, CanRollBack
  <2> HIDE DEF id
  <2>2. s \in Used /\ active_trains[s].train_id = id
    BY <1>1, <2>1, IndexFacts DEF find_train_index, IsCached, IInv, TypeOK
  <2> HIDE DEF s
  <2>3. id \in Trains
    BY <1>1, <2>2
  <2>4. \A i \in Used : /\ active_trains'[i].train_id = active_trains[i].train_id
                        /\ \/ active_trains'[i].track_id = active_trains[i].track_id
                           \/ /\ active_trains[i].train_id = id
                              /\ active_trains'[i].track_id = NoTrack
    BY <1>1, <2>1, <2>2 DEF TrainRecords
  <2> QED
    BY <2>1, <2>3, <2>4, LeavingIsReservation
<1> QED
  BY <1>3, <1>6, <1>7, CleanupIsReservation DEF Next, Tick

\* With trains admitted onto free first blocks the manager implements the
\* abstract reservation of blocks: through requests, releases, rollbacks and
\* lost trains, a train goes only to a block where nobody is, moves to it in
\* one step, and is never on two.
THEOREM AdmittedReservesBlocks == AdmittedSpec => ReservesBlocks
<1>1. Init => IInv(Blocks)
  BY InitIInv
<1>2. IInv(Blocks) /\ [Next /\ AdmissionOntoFreeBlock]_vars => IInv(Blocks)'
  <2> SUFFICES ASSUME IInv(Blocks), [Next /\ AdmissionOntoFreeBlock]_vars
               PROVE  IInv(Blocks)'
    OBVIOUS
  <2>1. CASE UNCHANGED vars
    BY <2>1, CursorStep
  <2>2. CASE Next /\ AdmissionOntoFreeBlock
    <3>1. Admits(Blocks)
      BY <2>2 DEF Admits, AdmissionOntoFreeBlock
    <3> QED
      BY <2>2, <3>1, NextIInv
  <2> QED
    BY <2>1, <2>2
<1>3. Init => Reservation!Init
  BY DEF Init, Reservation!Init, LocatedAt, Used
<1>4. IInv(Blocks) /\ IInv(Blocks)' /\ [Next /\ AdmissionOntoFreeBlock]_vars
          => [Reservation!Next]_LocatedAt
  BY NextIsReservation
<1> QED
  BY <1>1, <1>2, <1>3, <1>4, PTL DEF AdmittedSpec, ReservesBlocks, Reservation!Spec
-----------------------------------------------------------------------------
(* The proposals for stuck trains. *)

\* A block somebody owns has a train in its list, if a stale one.
OwnedIsListed == \A b \in Blocks : track_table[b] # Free => listed[b] # NoSlot

\* The ids that the lines of the configuration name are 0, 1, .., and as many
\* as these lines: none is left out and none is repeated.
GaplessFile ==
    LET used == TrackLinesUpto(TrackLines, Len(TrackLines))
    IN  { TrackLines[j][1] : j \in used } = 0 .. Cardinality(used) - 1

\* Every entry that the loops meet is the one of its index.
NoGaps == \A k \in DOMAIN TrackIds : TrackIds[k] = k - 1

LEMMA GaplessIds == GaplessFile => NoGaps
<1> SUFFICES ASSUME GaplessFile, NEW k \in DOMAIN TrackIds PROVE TrackIds[k] = k - 1
  BY DEF NoGaps
<1>1. InPlace(Tracks) /\ Filled(Tracks) = 0 .. Tracks.track_count - 1
  BY TracksAssumption, FileInPlace, FileFills DEF Tracks, GaplessFile
<1>2. k \in 1 .. Tracks.track_count /\ TrackIds[k] = Tracks.track_list[k - 1].track_id
  BY DEF TrackIds, VisitedIds
<1>3. k - 1 \in Filled(Tracks)
  BY <1>1, <1>2 DEF InPlace
<1> QED
  BY <1>1, <1>2, <1>3 DEF InPlace, Filled

\* A release clears the list of a block only where it frees the block.
LEMMA ReleaseKeepsListed ==
    ASSUME NEW table \in Tables, NEW list \in [Blocks -> Slots \union {NoSlot}],
           NEW trains, NEW id \in Trains, NEW trk, NEW b \in Blocks,
           TableAfterRelease(table, id, trk)[b] # Free
    PROVE  /\ table[b] # Free
           /\ ListedAfterRelease(table, list, trains, id, trk)[b] = list[b]
  BY DEF TableAfterRelease, ListedAfterRelease, Releases, Tables

\* A step that only releases blocks, or none.
LEMMA ReleaseOwnedIsListed ==
    ASSUME TypeOK, OwnedIsListed, NEW id \in Trains, NEW trk,
           track_table' = TableAfterRelease(track_table, id, trk),
           listed' = ListedAfterRelease(track_table, listed, active_trains, id, trk)
    PROVE  OwnedIsListed'
<1> SUFFICES ASSUME NEW b \in Blocks, track_table'[b] # Free
             PROVE  listed'[b] # NoSlot
  BY DEF OwnedIsListed
<1>1. track_table[b] # Free /\ listed'[b] = listed[b]
  BY ReleaseKeepsListed DEF TypeOK, Tables, Owners
<1> QED
  BY <1>1 DEF OwnedIsListed

\* A grant lists the train on the block it takes.
LEMMA GrantOwnedIsListed ==
    ASSUME IInv({}), OwnedIsListed, NEW id \in Trains, NEW trk \in Requestable[id], Grant(id, trk)
    PROVE  OwnedIsListed'
<1> DEFINE s == SlotFor(id)
           old == LocationOf(id)
           trains == TrainsWith(id)
           taken == [ track_table EXCEPT ![trk] = id ]
           leave == old # NoTrack /\ old # trk
           list == IF leave THEN ListedAfterRelease(taken, listed, trains, id, old) ELSE listed
           after == IF leave THEN TableAfterRelease(taken, id, old) ELSE taken
<1>1. /\ Serves(id) /\ trk \in Blocks
      /\ track_table' = after /\ listed' = [ list EXCEPT ![trk] = s ]
  BY DEF Grant, RequestGranted
<1>2. s \in Slots
  BY <1>1, LookupFacts DEF IInv, Serves, Found
<1>3. /\ listed \in [Blocks -> Slots \union {NoSlot}] /\ taken \in Tables
      /\ \A b \in Blocks \ {trk} : taken[b] = track_table[b]
  BY <1>1 DEF IInv, TypeOK, Tables, Owners
<1> HIDE DEF s, trains, taken, old
<1>4. list \in [Blocks -> Slots \union {NoSlot}]
  BY <1>3, UnlistFacts
<1>5. ASSUME NEW b \in Blocks, after[b] # Free
      PROVE  taken[b] # Free /\ list[b] = listed[b]
  BY <1>3, <1>5, ReleaseKeepsListed
<1> HIDE DEF after, list
<1> SUFFICES ASSUME NEW b \in Blocks, track_table'[b] # Free
             PROVE  listed'[b] # NoSlot
  BY DEF OwnedIsListed
<1>6. CASE b = trk
  BY <1>1, <1>2, <1>4, <1>6, ConstantFacts
<1>7. CASE b # trk
  <2>1. track_table[b] # Free /\ listed'[b] = listed[b]
    BY <1>1, <1>3, <1>4, <1>5, <1>7
  <2> QED
    BY <2>1 DEF OwnedIsListed
<1> QED
  BY <1>6, <1>7

\* Every step of the manager keeps the owned blocks listed.
LEMMA OwnedIsListedStep ==
    ASSUME IInv(Blocks \ Starts), OwnedIsListed, [Next]_vars
    PROVE  OwnedIsListed'
<1>1. ASSUME UNCHANGED << track_table, listed >> PROVE OwnedIsListed'
  BY <1>1 DEF OwnedIsListed
<1>2. CASE UNCHANGED vars \/ TickPulse \/ UpdateSent \/ UpdateSkipped \/ Cleanup \/ TickDone \/ CheckOnly
  BY <1>1, <1>2 DEF vars, TickPulse, UpdateSent, UpdateSkipped, Cleanup, TickDone, CheckOnly
<1>3. CASE CheckAndRollBack
  <2> DEFINE held == SyncedStates[IndexOf(SyncedStates, Victim)].holds
  <2>1. /\ track_table' = TableAfterRelease(track_table, Victim, held)
        /\ listed' = ListedAfterRelease(track_table, listed, active_trains, Victim, held)
        /\ IsCached(Victim)
    BY <1>3 DEF CheckAndRollBack, CanRollBack
  <2>2. Victim \in Trains
    BY <2>1 DEF IsCached, IInv, SlotsAligned
  <2> HIDE DEF held
  <2> QED
    BY <2>1, <2>2, ReleaseOwnedIsListed DEF IInv
<1>4. ASSUME NEW id \in Trains, NEW trk \in Requestable[id],
             DenyNoData(id, trk) \/ DenyHeadOn(id, trk) \/ DenyBusy(id, trk)
      PROVE  OwnedIsListed'
  BY <1>1, <1>4 DEF DenyNoData, DenyHeadOn, DenyBusy, vars
<1>5. ASSUME NEW id \in Trains, NEW trk \in Requestable[id], Release(id, trk)
      PROVE  OwnedIsListed'
  BY <1>5, ReleaseOwnedIsListed DEF Release, IInv
<1>6. ASSUME NEW id \in Trains, NEW trk \in Requestable[id], Grant(id, trk)
      PROVE  OwnedIsListed'
  BY <1>6, GrantOwnedIsListed DEF IInv, ExclusiveOn, HoldsOwnedOn
<1> QED
  BY <1>2, <1>3, <1>4, <1>5, <1>6 DEF Next, Message, Tick

\* Where the configuration's ids have no gaps, the block the manager proposes
\* to a stuck train (suggest_reroute, which asks the track lists) is one that
\* nobody owns in the resource manager's table, whatever messages the trains
\* send and however many records were removed under the lists' pointers.
THEOREM ManagerRerouteIsFree ==
    ASSUME GaplessFile
    PROVE  Spec => []RerouteIsFree
<1>1. Init => OwnedIsListed
  BY DEF Init, InitTable, OwnedIsListed
<1>2. IInv(Blocks \ Starts) /\ OwnedIsListed /\ [Next]_vars => OwnedIsListed'
  BY OwnedIsListedStep
<1>3. OwnedIsListed => RerouteIsFree
  <2> SUFFICES ASSUME OwnedIsListed, NEW i \in Used,
                      suggest_reroute(active_trains[i].track_id) \in Blocks
               PROVE  track_table[suggest_reroute(active_trains[i].track_id)] = Free
    BY DEF RerouteIsFree
  <2> DEFINE candidates == { k \in DOMAIN TrackIds :
                                /\ TrackIds[k] # active_trains[i].track_id
                                /\ k - 1 \in Blocks => listed[k - 1] = NoSlot }
             m == Min(candidates)
  <2>1. suggest_reroute(active_trains[i].track_id) = IF candidates = {} THEN NoTrack ELSE TrackIds[m]
    BY DEF suggest_reroute
  <2>2. candidates # {}
    BY <2>1, ConstantFacts
  <2>3. candidates \subseteq Nat
    BY DEF TrackIds, VisitedIds
  <2> HIDE DEF candidates
  <2>4. m \in candidates
    BY <2>2, <2>3, MinFacts
  <2>5. TrackIds[m] = m - 1 /\ (m - 1 \in Blocks => listed[m - 1] = NoSlot)
    BY <2>4, GaplessIds DEF candidates, NoGaps
  <2> HIDE DEF m
  <2> QED
    BY <2>1, <2>2, <2>5 DEF OwnedIsListed
<1> QED
  BY <1>1, <1>2, <1>3, ManagerInvariant, PTL DEF Spec
=============================================================================
