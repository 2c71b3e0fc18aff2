----------------------------- MODULE TrainProofs -----------------------------
(***************************************************************************)
(* What a train believes and what the manager has on record for it.  The   *)
(* two differ only between a grant and the next position update: a denial, *)
(* a rollback or a lost block leaves the train on no track, which the      *)
(* release of a block the train counts on cannot hurt.  A train that has   *)
(* been granted its destination and not heard of it yet must not give up   *)
(* its old block in between.  It does not: the grant has set its denials   *)
(* to 0, and its standstill is no longer than its denials took.            *)
(*                                                                         *)
(* The same denials keep the manager's report of stuck trains for those    *)
(* that were killed: a wish is no older than the denials it met.           *)
(*                                                                         *)
(* The last part is about the one way in which a train loses a block that  *)
(* stays its own: a denial, when the removal of an earlier record has made *)
(* the block's list show another train.                                    *)
(***************************************************************************)
EXTENDS RegistryProofs

\* Where the manager locates a train: nowhere, or on one track (or on none).
Places(id) == { active_trains[i].track_id : i \in { j \in Used : active_trains[j].train_id = id } }

\* The update loop of the tick that is running has passed the train.
Reached(id) == \E i \in Used : i < cursor /\ active_trains[i].train_id = id

\* The train has heard where it is, but for the loss of its block.
Heard(id) == Places(id) \subseteq {train[id].track, NoTrack}

\* The train has been granted its destination and waits for the update.
Promised(id) ==
    /\ pc[id] \in {"answered", "receiving"}
    /\ Places(id) \subseteq {Destination[id], NoTrack}
    /\ train[id].denies = 0
    /\ train[id].idle < MAX_NO_PROGRESS_TICKS

\* The train asks for its destination, or will as soon as it may ask again.
Asks(id) ==
    \/ train[id].track = NoTrack
    \/ /\ ~ train[id].asked
       /\ train[id].track # Destination[id]
       /\ train[id].ticks >= REQUEST_AFTER_TICKS

\* It has stood still for as long as its denials took.
StoodForDenials(id) ==
    train[id].idle <= train[id].denies * REQUEST_RETRY_TICKS + train[id].since

Informed(id) ==
    /\ pc[id] \in Awaiting => train[id] = NewTrain(id)
    /\ pc[id] \notin Awaiting \union Absent =>
          /\ Places(id) # {}
          /\ Heard(id) \/ Promised(id)
          /\ Reached(id) => Heard(id)
          /\ manager_up /\ Asks(id) /\ Heard(id) => StoodForDenials(id)
          /\ pc[id] \in {"answered", "receiving"} /\ Asks(id) => train[id].since < REQUEST_RETRY_TICKS
          /\ pc[id] \in {"retrying", "requesting"} => Asks(id)

TInv == \A id \in Trains : Informed(id)

-----------------------------------------------------------------------------
(* What the manager's steps do to the place of a train. *)

\* A cached train has one place, that of its slot.
LEMMA PlaceOfSlot ==
    ASSUME SysInv, NEW i \in Used
    PROVE  Places(active_trains[i].train_id) = {active_trains[i].track_id}
  BY DEF Places, SysInv, IInv, SlotsAligned

\* Nothing moves that is not written.
LEMMA SamePlaces ==
    ASSUME UNCHANGED << active_trains, active_train_count >>, NEW id
    PROVE  Places(id)' = Places(id)
  BY DEF Places, Used

\* A handler places the train it serves, and no other, and keeps every record
\* in its slot.
LEMMA ServedPlace ==
    ASSUME SysInv, NEW id \in Trains, NEW trk,
           Grant(id, trk) \/ DenyHeadOn(id, trk) \/ DenyBusy(id, trk)
    PROVE  /\ \A other \in Trains \ {id} : Places(other)' = Places(other)
           /\ Places(id) \subseteq {LocationOf(id)}
           /\ Grant(id, trk) => /\ Places(id)' = {trk}
                                /\ SlotFor(id) \in Used'
                                /\ active_trains'[SlotFor(id)].train_id = id
           /\ ~ Grant(id, trk) =>
                 \E to \in {LocationOf(id), NoTrack} :
                     /\ Places(id)' = {to}
                     /\ DenyHeadOn(id, trk) \/ train_is_on_any_track(id) => to = LocationOf(id)
           /\ \A i \in Used : i \in Used' /\ active_trains'[i].train_id = active_trains[i].train_id
<1> DEFINE s == SlotFor(id)
           trains == TrainsWith(id)
           rec == active_trains'[s]
<1>1. Serves(id) /\ active_train_count' = CountWith(id)
  BY DEF Grant, DenyHeadOn, DenyBusy
<1>2. Found(id, s, trains, StatesWith(id), CountWith(id))
  BY <1>1, LookupFacts DEF SysInv, IInv, Serves
<1>3. /\ s \in Slots /\ trains \in [Slots -> TrainRecords] /\ trains[s].train_id = id
      /\ s \in 0 .. CountWith(id) - 1 /\ CountWith(id) \in 0 .. MAX_TRAINS
      /\ active_train_count <= CountWith(id)
      /\ \A i \in (0 .. CountWith(id) - 1) \ {s} : i \in Used /\ trains[i] = active_trains[i]
      /\ trains[s].track_id = LocationOf(id)
  BY <1>2 DEF Found, LocationOf
<1>4. s \in Used <=> IsCached(id)
  <2>1. s \in Used => IsCached(id)
    BY DEF SlotFor, Used, SysInv, IInv, TypeOK
  <2>2. IsCached(id) => s \in Used
    BY <1>2 DEF Found
  <2> QED
    BY <2>1, <2>2
<1>5. IsCached(id) => active_trains[s] = trains[s]
  BY <1>2 DEF Found
<1>6. /\ active_trains' = [trains EXCEPT ![s] = rec]
      /\ rec.train_id = id
      /\ Grant(id, trk) => rec.track_id = trk
      /\ ~ Grant(id, trk) => rec.track_id \in {LocationOf(id), NoTrack}
      /\ DenyHeadOn(id, trk) => rec.track_id = LocationOf(id)
      /\ DenyBusy(id, trk) /\ train_is_on_any_track(id) => rec.track_id = LocationOf(id)
  <2>1. CASE DenyHeadOn(id, trk)
    <3>1. active_trains' = [trains EXCEPT ![s].moving = FALSE] /\ ~ Grant(id, trk) /\ ~ DenyBusy(id, trk)
      BY <2>1 DEF DenyHeadOn, Grant, DenyBusy
    <3> HIDE DEF s, trains
    <3> QED
      BY <1>3, <3>1 DEF TrainRecords
  <2>2. CASE DenyBusy(id, trk)
    <3> DEFINE to == IF train_is_on_any_track(id) THEN LocationOf(id) ELSE NoTrack
    <3>1. /\ active_trains' =
               [trains EXCEPT ![s] = [trains[s] EXCEPT !.track_id = to, !.moving = FALSE]]
          /\ ~ Grant(id, trk) /\ ~ DenyHeadOn(id, trk)
      BY <2>2 DEF DenyBusy, DenyHeadOn, Grant
    <3>2. /\ to \in {LocationOf(id), NoTrack}
          /\ train_is_on_any_track(id) => to = LocationOf(id)
      OBVIOUS
    <3> HIDE DEF to, s, trains
    <3> QED
      BY <1>3, <3>1, <3>2 DEF TrainRecords
  <2>3. CASE Grant(id, trk)
    <3> DEFINE power == id \in Powered
    <3>1. active_trains' =
              [trains EXCEPT ![s] = [trains[s] EXCEPT !.track_id = trk, !.moving = power]]
      BY <2>3 DEF Grant
    <3>2. ~ DenyHeadOn(id, trk) /\ ~ DenyBusy(id, trk)
      BY <2>3 DEF DenyHeadOn, DenyBusy, Grant
    <3> HIDE DEF power, s, trains
    <3> QED
      BY <1>3, <2>3, <3>1, <3>2 DEF TrainRecords
  <2> QED
    BY <2>1, <2>2, <2>3
<1> HIDE DEF s, trains, rec
<1>7. /\ Used' = 0 .. CountWith(id) - 1 /\ Used' \subseteq Slots /\ Used \subseteq Used'
      /\ s \in Used' /\ active_trains'[s] = rec
      /\ \A i \in Used' \ {s} : i \in Used /\ active_trains'[i] = active_trains[i]
  <2>1. Used' = 0 .. CountWith(id) - 1 /\ Used' \subseteq Slots
    BY <1>1, <1>3, ConstantFacts DEF Used, Slots
  <2>2. Used \subseteq Used'
    <3> DEFINE count == CountWith(id)
    <3>1. /\ count \in 0 .. MAX_TRAINS /\ active_train_count <= count /\ Used' = 0 .. count - 1
          /\ active_train_count \in Int
      BY <1>3, <2>1, ConstantFacts DEF SysInv, IInv, TypeOK
    <3> HIDE DEF count
    <3>2. \A i \in 0 .. active_train_count - 1 : i \in 0 .. count - 1
      BY <3>1, ConstantFacts
    <3> QED
      BY <3>1, <3>2 DEF Used
  <2> QED
    BY <1>3, <1>6, <2>1, <2>2
<1>8. s \in Used => active_trains[s].train_id = id
  BY <1>3, <1>4, <1>5
<1>9. ASSUME NEW other \in Trains \ {id} PROVE Places(other)' = Places(other)
  BY <1>6, <1>7, <1>8 DEF Places
<1>10. \A i \in Used : active_trains[i].train_id = id => i = s
  <2>1. \A i \in Used : active_trains[i].train_id = id => IsCached(id)
    BY DEF IsCached
  <2> QED
    BY <1>4, <1>8, <2>1 DEF SysInv, IInv, SlotsAligned
<1>11. Places(id)' = {rec.track_id}
  BY <1>6, <1>7, <1>10 DEF Places
<1>12. Places(id) \subseteq {LocationOf(id)}
  <2>1. CASE Places(id) = {}
    BY <2>1
  <2>2. CASE Places(id) # {}
    <3>1. IsCached(id)
      BY <2>2 DEF Places, IsCached
    <3> QED
      BY <1>3, <1>4, <1>5, <1>8, <3>1, PlaceOfSlot
  <2> QED
    BY <2>1, <2>2
<1>13. \A i \in Used : i \in Used' /\ active_trains'[i].train_id = active_trains[i].train_id
  BY <1>6, <1>7, <1>8
<1>14. ~ Grant(id, trk) =>
          \E to \in {LocationOf(id), NoTrack} :
              /\ Places(id)' = {to}
              /\ DenyHeadOn(id, trk) \/ train_is_on_any_track(id) => to = LocationOf(id)
  BY <1>6, <1>11
<1>15. Grant(id, trk) => /\ Places(id)' = {trk} /\ s \in Used' /\ active_trains'[s].train_id = id
  BY <1>6, <1>7, <1>11
<1> QED
  BY <1>9, <1>12, <1>13, <1>14, <1>15 DEF s

LEMMA ServedPlaces ==
    ASSUME SysInv, NEW id \in Trains, NEW trk,
           Grant(id, trk) \/ DenyHeadOn(id, trk) \/ DenyBusy(id, trk)
    PROVE  /\ \A other \in Trains \ {id} : Places(other)' = Places(other)
           /\ Grant(id, trk) => Places(id)' = {trk}
           /\ Places(id) # {} /\ ~ Grant(id, trk) =>
                 Places(id)' # {} /\ Places(id)' \subseteq Places(id) \union {NoTrack}
<1>1. Places(id) # {} => Places(id) = {LocationOf(id)}
  BY ServedPlace
<1> QED
  BY <1>1, ServedPlace

\* A release takes the train that asked for it off the tracks, and no other.
LEMMA ReleasedPlaces ==
    ASSUME SysInv, NEW id \in Trains, NEW trk, Release(id, trk), NEW other \in Trains \ {id}
    PROVE  Places(other)' = Places(other)
<1> DEFINE s == find_train_index(id)
<1>1. /\ active_trains \in [Slots -> TrainRecords] /\ Used \subseteq Slots
      /\ \A i, j \in Used : active_trains[i].train_id = active_trains[j].train_id => i = j
  BY SlotTypes DEF SysInv, IInv, SlotsAligned
<1>2. /\ Used' = Used
      /\ active_trains' =
            [ i \in Slots |->
                IF i = s THEN [ active_trains[i] EXCEPT !.track_id = NoTrack, !.moving = FALSE ]
                         ELSE active_trains[i] ]
  BY DEF Release, Used
<1>3. s \in Used => active_trains[s].train_id = id
  <2>1. s \in Used => \E i \in Used : active_trains[i].train_id = id
    BY <1>1, ConstantFacts DEF find_train_index, IndexOf
  <2> QED
    BY <1>1, <2>1, IndexFacts DEF find_train_index, SysInv, IInv, TypeOK
<1> HIDE DEF s
<1>4. \A i \in Used : /\ active_trains'[i].train_id = active_trains[i].train_id
                      /\ active_trains[i].train_id # id => active_trains'[i] = active_trains[i]
  BY <1>1, <1>2, <1>3 DEF TrainRecords
<1>5. /\ { j \in Used : active_trains[j].train_id = other }' =
            { j \in Used : active_trains[j].train_id = other }
      /\ \A i \in { j \in Used : active_trains[j].train_id = other } : active_trains'[i] = active_trains[i]
  BY <1>2, <1>4
<1> QED
  BY <1>5 DEF Places

\* A rollback takes trains off the tracks and moves none.
LEMMA RolledBackPlaces ==
    ASSUME SysInv, CheckAndRollBack, NEW id \in Trains
    PROVE  /\ Places(id)' \subseteq Places(id) \union {NoTrack}
           /\ Places(id) # {} => Places(id)' # {}
<1> DEFINE v == find_train_index(Victim)
<1>1. /\ active_trains \in [Slots -> TrainRecords] /\ Used \subseteq Slots
  BY SlotTypes DEF SysInv, IInv
<1>2. /\ Used' = Used
      /\ active_trains' =
            [active_trains EXCEPT ![v] =
                [active_trains[v] EXCEPT !.track_id = NoTrack, !.moving = FALSE]]
  BY DEF CheckAndRollBack, Used
<1> HIDE DEF v
<1>3. \A i \in Used : /\ active_trains'[i].train_id = active_trains[i].train_id
                      /\ active_trains'[i].track_id \in {active_trains[i].track_id, NoTrack}
  BY <1>1, <1>2 DEF TrainRecords
<1> QED
  BY <1>2, <1>3 DEF Places

\* The clean-up leaves every other train where it is, on its side of the cursor.
LEMMA CleanedPlaces ==
    ASSUME SysInv, Cleanup, NEW id \in Trains
    PROVE  /\ id # active_trains[cursor].train_id => Places(id)' = Places(id)
           /\ Reached(id)' => Reached(id)
<1> DEFINE k == cursor
           last == active_train_count - 1
           from(i) == IF i >= k THEN i + 1 ELSE i
           to(i) == IF i > k THEN i - 1 ELSE i
<1>1. /\ k \in Used /\ active_train_count' = last /\ cursor' = cursor
      /\ active_trains' =
            [ i \in Slots |->
                CASE i = last               -> ZeroTrain
                  [] i >= k /\ i < last     -> active_trains[i + 1]
                  [] i < k \/ i > last      -> active_trains[i] ]
  BY DEF Cleanup
<1>2. /\ last \in Int /\ k \in 0 .. last /\ k \in Int /\ Used = 0 .. last /\ Used' = 0 .. last - 1
      /\ Used \subseteq Slots
  BY <1>1, ConstantFacts DEF Used, Slots, SysInv, IInv, TypeOK
<1>3. ASSUME NEW i \in Used'
      PROVE  from(i) \in Used /\ from(i) # k /\ active_trains'[i] = active_trains[from(i)]
  <2>1. i \in Slots /\ i \in Int /\ i < last
    BY <1>2
  <2>2. CASE i >= k
    BY <1>1, <1>2, <2>1, <2>2
  <2>3. CASE i < k
    BY <1>1, <1>2, <2>1, <2>3
  <2> QED
    BY <1>2, <2>1, <2>2, <2>3
<1>4. ASSUME NEW j \in Used, j # k
      PROVE  to(j) \in Used' /\ from(to(j)) = j
  BY <1>2, <1>4
<1>5. \A i \in Used' : i < k => from(i) = i
  BY <1>2
<1> HIDE DEF from, to
<1>6. Reached(id)' => Reached(id)
  BY <1>1, <1>3, <1>5 DEF Reached
<1>7. ASSUME id # active_trains[k].train_id PROVE Places(id)' = Places(id)
  <2>1. ASSUME NEW b \in Places(id)' PROVE b \in Places(id)
    <3>1. PICK i \in Used' : active_trains'[i].train_id = id /\ active_trains'[i].track_id = b
      BY <2>1 DEF Places
    <3> QED
      BY <1>3, <3>1 DEF Places
  <2>2. ASSUME NEW b \in Places(id) PROVE b \in Places(id)'
    <3>1. PICK j \in Used : active_trains[j].train_id = id /\ active_trains[j].track_id = b
      BY <2>2 DEF Places
    <3>2. to(j) \in Used' /\ from(to(j)) = j
      BY <1>4, <1>7, <3>1
    <3>3. active_trains'[to(j)] = active_trains[j]
      BY <1>3, <3>2
    <3> QED
      BY <3>1, <3>2, <3>3 DEF Places
  <2> QED
    BY <2>1, <2>2
<1> QED
  BY <1>6, <1>7
-----------------------------------------------------------------------------
(* What the steps do to what a train believes. *)

\* One more denial is worth one more wait.
LEMMA OneMoreDenial ==
    ASSUME NEW d \in Nat, NEW r \in Nat
    PROVE  (d + 1) * r = d * r + r /\ d * r \in Nat
  OBVIOUS

LEMMA FewerDenials ==
    ASSUME NEW d \in Nat, NEW n \in Nat, NEW r \in Nat, d < n
    PROVE  d * r + r <= n * r
<1>1. n * r = (d + 1) * r + (n - (d + 1)) * r
  BY Z3
<1>2. (n - (d + 1)) * r >= 0
  BY Z3
<1>3. (d + 1) * r \in Nat /\ n * r \in Nat /\ (n - (d + 1)) * r \in Int
  OBVIOUS
<1> QED
  BY <1>1, <1>2, <1>3, OneMoreDenial

\* The counters of a train.
LEMMA Counters ==
    ASSUME SysInv, NEW id \in Trains
    PROVE  /\ train[id] \in LocalStates /\ train \in [Trains -> LocalStates]
           /\ pc \in [Trains -> PcStates]
           /\ train[id].denies \in Nat /\ train[id].idle \in Int
           /\ train[id].since \in Nat /\ train[id].since <= REQUEST_RETRY_TICKS
           /\ REQUEST_RETRY_TICKS \in Nat \ {0}
           /\ train[id].denies * REQUEST_RETRY_TICKS \in Nat
<1>1. train[id] \in LocalStates /\ train \in [Trains -> LocalStates] /\ pc \in [Trains -> PcStates]
  BY DEF SysInv, Processes
<1>2. /\ train[id].denies \in Nat /\ train[id].idle \in Int
      /\ train[id].since \in Nat /\ train[id].since <= REQUEST_RETRY_TICKS
      /\ REQUEST_RETRY_TICKS \in Nat \ {0}
  BY <1>1, TicksAssumption DEF LocalStates, NoProgressYet
<1>3. train[id].denies * REQUEST_RETRY_TICKS \in Nat
  BY <1>2, OneMoreDenial
<1> QED
  BY <1>1, <1>2, <1>3

\* A step that is none of the train's business.
LEMMA StaysInformed ==
    ASSUME NEW id \in Trains, Informed(id),
           pc'[id] = pc[id], train'[id] = train[id], manager_up' => manager_up,
           Places(id)' = Places(id), Reached(id)' => Reached(id)
    PROVE  Informed(id)'
  BY DEF Informed, Heard, Promised, Asks, StoodForDenials, NewTrain

\* A train that has ended or has not been admitted believes nothing.
LEMMA NothingToHear ==
    ASSUME NEW id \in Trains, pc'[id] \in Awaiting \union Absent,
           pc'[id] \in Awaiting => train'[id] = NewTrain(id)
    PROVE  Informed(id)'
  BY DEF Informed, NewTrain

\* The grant that admits a train or gives it its destination.
LEMMA GrantInforms ==
    ASSUME SysInv, NEW id \in Trains, Informed(id), Acknowledged(id),
           MAX_CONSECUTIVE_DENIES * REQUEST_RETRY_TICKS < MAX_NO_PROGRESS_TICKS
    PROVE  Informed(id)'
<1> DEFINE l == train[id]
<1>0. /\ l \in LocalStates /\ train \in [Trains -> LocalStates] /\ pc \in [Trains -> PcStates]
      /\ l.denies \in Nat /\ l.idle \in Int /\ l.since \in Nat /\ l.since <= REQUEST_RETRY_TICKS
      /\ REQUEST_RETRY_TICKS \in Nat \ {0} /\ l.denies * REQUEST_RETRY_TICKS \in Nat
  BY Counters
<1>1. /\ manager_up /\ Grant(id, Wanted(id))
      /\ pc[id] \in { "admitting", "retrying", "requesting" }
      /\ pc'[id] = IF pc[id] = "admitting" THEN "receiving" ELSE "answered"
  BY <1>0 DEF Acknowledged
<1>2. /\ Places(id)' = {Wanted(id)} /\ Wanted(id) \in Blocks /\ Wanted(id) # NoTrack
      /\ cursor' = Idle
  <2>1. Wanted(id) \in Blocks /\ cursor' = Idle
    BY <1>1 DEF Grant, RequestGranted, Serves
  <2>2. Wanted(id) # NoTrack
    BY <2>1, ConstantFacts
  <2> QED
    BY <1>1, <2>1, <2>2, ServedPlaces
<1>3. ~ Reached(id)'
  BY <1>2, ConstantFacts DEF Reached, Used, Idle
<1>4. CASE pc[id] = "admitting"
  <2>1. l = NewTrain(id)
    BY <1>4 DEF Informed, Awaiting
  <2>2. train'[id] = l
    BY <1>0, <1>1, <1>4 DEF Acknowledged
  <2>3. Wanted(id) = Start[id] /\ l.track = Start[id] /\ l.ticks = 0
    BY <1>4, <2>1 DEF Wanted, NewTrain
  <2>4. Heard(id)' /\ ~ Asks(id)'
    BY <1>2, <2>2, <2>3, TicksAssumption DEF Heard, Asks
  <2> QED
    BY <1>1, <1>2, <1>3, <1>4, <2>4 DEF Informed, Awaiting
<1>5. CASE pc[id] # "admitting"
  <2>1. Heard(id) /\ Asks(id) /\ StoodForDenials(id)
    BY <1>1, <1>5 DEF Informed, Promised, Awaiting, Absent, Ended
  <2>2. /\ train'[id].since = 0 /\ train'[id].denies = 0 /\ train'[id].idle = l.idle
        /\ train'[id].track = l.track
        /\ pc[id] = "requesting" => train'[id].asked
        /\ pc[id] = "retrying" => train'[id].asked = l.asked /\ train'[id].ticks = l.ticks
    BY <1>0, <1>1, <1>5 DEF Acknowledged, LocalStates
  <2>3. Wanted(id) = Destination[id]
    BY <1>5 DEF Wanted
  <2>4. l.denies < MAX_CONSECUTIVE_DENIES /\ MAX_CONSECUTIVE_DENIES \in Nat
    BY <1>1, TicksAssumption DEF SysInv, Processes, Hopeful
  <2>5. l.denies * REQUEST_RETRY_TICKS + REQUEST_RETRY_TICKS
           <= MAX_CONSECUTIVE_DENIES * REQUEST_RETRY_TICKS
    BY <1>0, <2>4, FewerDenials
  <2>6. MAX_CONSECUTIVE_DENIES * REQUEST_RETRY_TICKS \in Nat /\ MAX_NO_PROGRESS_TICKS \in Nat
    BY <1>0, <2>4, OneMoreDenial, TicksAssumption
  <2>7. l.idle < MAX_NO_PROGRESS_TICKS
    BY <1>0, <2>1, <2>5, <2>6 DEF StoodForDenials
  <2>8. Promised(id)'
    BY <1>1, <1>2, <1>5, <2>2, <2>3, <2>7 DEF Promised
  <2>9. ~ (Asks(id)' /\ Heard(id)')
    BY <1>2, <2>2, <2>3 DEF Asks, Heard
  <2>10. train'[id].since < REQUEST_RETRY_TICKS
    BY <1>0, <2>2
  <2> QED
    BY <1>1, <1>2, <1>3, <1>5, <2>8, <2>9, <2>10 DEF Informed, Awaiting
<1> QED
  BY <1>4, <1>5

\* A denial takes the train off the tracks at most.
LEMMA DenialInforms ==
    ASSUME SysInv, NEW id \in Trains, Informed(id), Denied(id)
    PROVE  Informed(id)'
<1> DEFINE l == train[id]
           trk == Wanted(id)
<1>0. /\ l \in LocalStates /\ train \in [Trains -> LocalStates] /\ pc \in [Trains -> PcStates]
      /\ l.denies \in Nat /\ l.idle \in Int /\ l.since \in Nat /\ l.since <= REQUEST_RETRY_TICKS
      /\ REQUEST_RETRY_TICKS \in Nat \ {0} /\ l.denies * REQUEST_RETRY_TICKS \in Nat
  BY Counters
<1>1. /\ pc[id] \in { "admitting", "retrying", "requesting" }
      /\ pc'[id] = IF pc[id] = "admitting" THEN "refused" ELSE "answered"
      /\ DenyNoData(id, trk) \/ DenyHeadOn(id, trk) \/ DenyBusy(id, trk)
      /\ cursor' = Idle
  BY <1>0 DEF Denied, DenyNoData, DenyHeadOn, DenyBusy, Serves, vars
<1>2. CASE pc[id] = "admitting"
  <2>1. pc'[id] \in Absent /\ pc'[id] \notin Awaiting
    BY <1>1, <1>2 DEF Absent, Ended, Awaiting
  <2> QED
    BY <2>1, NothingToHear
<1>3. CASE pc[id] # "admitting"
  <2>1. Places(id) # {} /\ Heard(id) /\ Asks(id) /\ (manager_up => StoodForDenials(id))
    BY <1>1, <1>3 DEF Informed, Promised, Awaiting, Absent, Ended
  <2>2. IsCached(id)
    BY <2>1 DEF Places, IsCached
  <2>3. (DenyHeadOn(id, trk) \/ DenyBusy(id, trk)) /\ ~ Grant(id, trk)
    BY <1>1, <2>2 DEF DenyNoData, DenyHeadOn, DenyBusy, Grant
  <2> HIDE DEF trk
  <2>4. Places(id)' # {} /\ Places(id)' \subseteq Places(id) \union {NoTrack}
    BY <2>1, <2>3, ServedPlaces
  <2>5. /\ train'[id].since = 0 /\ train'[id].denies = l.denies + 1 /\ train'[id].idle = l.idle
        /\ train'[id].track = l.track /\ train'[id].asked = l.asked /\ train'[id].ticks = l.ticks
        /\ manager_up' = manager_up
    BY <1>0, <1>1, <1>3 DEF Denied, LocalStates, office
  <2>6. Heard(id)'
    BY <2>1, <2>4, <2>5 DEF Heard
  <2>7. ~ Reached(id)'
    BY <1>1, ConstantFacts DEF Reached, Used, Idle
  <2>8. manager_up => StoodForDenials(id)'
    <3>1. (l.denies + 1) * REQUEST_RETRY_TICKS = l.denies * REQUEST_RETRY_TICKS + REQUEST_RETRY_TICKS
      BY <1>0, OneMoreDenial
    <3> QED
      BY <1>0, <2>1, <2>5, <3>1 DEF StoodForDenials
  <2>9. train'[id].since < REQUEST_RETRY_TICKS
    BY <1>0, <2>5
  <2> QED
    BY <1>1, <1>3, <2>4, <2>5, <2>6, <2>7, <2>8, <2>9 DEF Informed, Awaiting
<1> QED
  BY <1>2, <1>3

\* What a train makes of an update, counter by counter.
LEMMA UpdateCounts ==
    ASSUME NEW l \in LocalStates, NEW id, NEW at \in Int, NEW moving \in BOOLEAN
    PROVE  LET m == AfterUpdate(l, id, at, moving)
           IN  /\ m.track = at /\ m.denies = l.denies
               /\ m.since = OneMore(l.since, REQUEST_RETRY_TICKS)
               /\ l.track # at => m.idle = 0 /\ m.ticks = 0
               /\ l.track = at /\ moving => m.idle = 0
               /\ l.track = at /\ ~ moving => m.idle <= l.idle + 1 /\ m.ticks = l.ticks
               /\ l.track = at => m.asked = l.asked /\ m.ticks >= l.ticks
<1> DEFINE since == OneMore(l.since, REQUEST_RETRY_TICKS)
           later == [ l EXCEPT !.since = since ]
           there == (at = Destination[id])
           on == OneMore(l.ticks, REQUEST_AFTER_TICKS + COMPLETE_AFTER_TICKS)
           idle == IF l.idle = NoProgressYet THEN l.idle ELSE OneMore(l.idle, MAX_NO_PROGRESS_TICKS)
           m == AfterUpdate(l, id, at, moving)
<1>1. /\ later.track = l.track /\ later.ticks = l.ticks /\ later.since = since
      /\ later.idle = l.idle /\ later.denies = l.denies /\ later.asked = l.asked
      /\ DOMAIN later = {"track", "ticks", "asked", "since", "idle", "denies"}
  BY DEF LocalStates
<1>2. idle <= l.idle + 1 /\ on >= l.ticks /\ l.ticks >= l.ticks
  BY TicksAssumption DEF OneMore, LocalStates, NoProgressYet
<1>3. m = CASE l.track # at ->
                [ later EXCEPT !.track = at, !.ticks = 0, !.idle = 0, !.asked = there ]
           [] l.track = at /\ moving -> [ later EXCEPT !.idle = 0, !.ticks = on ]
           [] l.track = at /\ ~ moving -> [ later EXCEPT !.idle = idle ]
  BY <1>1 DEF AfterUpdate
<1> HIDE DEF since, later, there, on, idle, m
<1>4. CASE l.track # at
  <2>1. m = [ later EXCEPT !.track = at, !.ticks = 0, !.idle = 0, !.asked = there ]
    BY <1>3, <1>4
  <2>2. /\ m.track = at /\ m.ticks = 0 /\ m.idle = 0 /\ m.denies = later.denies
        /\ m.since = later.since
    BY <1>1, <2>1, Zenon
  <2> QED
    BY <1>1, <1>4, <2>2 DEF m, since
<1>5. CASE l.track = at /\ moving
  <2>1. m = [ later EXCEPT !.idle = 0, !.ticks = on ]
    BY <1>3, <1>5
  <2>2. /\ m.track = later.track /\ m.idle = 0 /\ m.denies = later.denies
        /\ m.since = later.since /\ m.ticks = on /\ m.asked = later.asked
    BY <1>1, <2>1, Zenon
  <2> QED
    BY <1>1, <1>2, <1>5, <2>2 DEF m, since
<1>6. CASE l.track = at /\ ~ moving
  <2>1. m = [ later EXCEPT !.idle = idle ]
    BY <1>3, <1>6
  <2>2. /\ m.track = later.track /\ m.idle = idle /\ m.denies = later.denies
        /\ m.since = later.since /\ m.ticks = later.ticks /\ m.asked = later.asked
    BY <1>1, <2>1, Zenon
  <2> QED
    BY <1>1, <1>2, <1>6, <2>2 DEF m, since
<1> QED
  BY <1>4, <1>5, <1>6

\* An update tells the train where it is.
LEMMA UpdateInforms ==
    ASSUME SysInv, NEW id \in Trains, Informed(id), Update(id)
    PROVE  Informed(id)'
<1> DEFINE l == train[id]
           at == active_trains[cursor].track_id
           moving == active_trains[cursor].moving
           m == AfterUpdate(l, id, at, moving)
<1>0. /\ l \in LocalStates /\ train \in [Trains -> LocalStates] /\ pc \in [Trains -> PcStates]
      /\ l.denies \in Nat /\ l.idle \in Int /\ l.since \in Nat /\ l.since <= REQUEST_RETRY_TICKS
      /\ REQUEST_RETRY_TICKS \in Nat \ {0} /\ l.denies * REQUEST_RETRY_TICKS \in Nat
  BY Counters
<1>1. /\ cursor \in Used /\ active_trains[cursor].train_id = id
      /\ pc[id] = "receiving" /\ pc'[id] = "woken" /\ train'[id] = m
      /\ UNCHANGED << active_trains, active_train_count >>
      /\ manager_up' = manager_up /\ manager_up
  BY <1>0 DEF Update, AtCursor, UpdateSent, office
<1>2. at \in Int /\ moving \in BOOLEAN
  BY <1>1, SlotTypes DEF SysInv, IInv, TrainRecords
<1>3. /\ m.track = at /\ m.denies = l.denies
      /\ m.since = OneMore(l.since, REQUEST_RETRY_TICKS)
      /\ l.track # at => m.idle = 0 /\ m.ticks = 0
      /\ l.track = at /\ moving => m.idle = 0
      /\ l.track = at /\ ~ moving => m.idle <= l.idle + 1 /\ m.ticks = l.ticks /\ m.asked = l.asked
  BY <1>0, <1>2, UpdateCounts
<1>4. Places(id) = {at} /\ Places(id)' = {at}
  BY <1>1, PlaceOfSlot, SamePlaces
<1> HIDE DEF at, moving, m
<1>5. Heard(id)'
  BY <1>1, <1>3, <1>4 DEF Heard
<1>6. ASSUME Asks(id)' PROVE StoodForDenials(id)'
  <2>1. m.since \in Nat
    BY <1>0, <1>3 DEF OneMore
  <2>2. CASE l.track # at \/ moving
    BY <1>0, <1>1, <1>3, <2>1, <2>2 DEF StoodForDenials
  <2>3. CASE l.track = at /\ ~ moving
    <3>1. Asks(id)
      BY <1>1, <1>3, <1>6, <2>3 DEF Asks
    <3>2. Heard(id)
      BY <1>4, <2>3 DEF Heard
    <3>3. StoodForDenials(id) /\ l.since < REQUEST_RETRY_TICKS
      BY <1>1, <3>1, <3>2 DEF Informed, Awaiting, Absent, Ended
    <3>4. m.since = l.since + 1
      BY <1>3, <3>3 DEF OneMore
    <3>5. /\ train'[id].idle <= l.idle + 1 /\ train'[id].denies = l.denies
          /\ train'[id].since = l.since + 1
      BY <1>1, <1>3, <2>3, <3>4
    <3>6. m.idle \in Int
      BY <1>0, <1>1, UpdateFollows, <1>2 DEF m, LocalStates, NoProgressYet
    <3> QED
      BY <1>0, <1>1, <3>3, <3>5, <3>6 DEF StoodForDenials
  <2> QED
    BY <2>2, <2>3, <1>2
<1> QED
  BY <1>1, <1>4, <1>5, <1>6 DEF Informed, Awaiting

\* A train that has been promised its destination keeps waiting for the update.
LEMMA DecisionInforms ==
    ASSUME SysInv, NEW id \in Trains, Informed(id), Decide(id)
    PROVE  Informed(id)'
<1> DEFINE l == train[id]
<1>0. /\ l \in LocalStates /\ train \in [Trains -> LocalStates] /\ pc \in [Trains -> PcStates]
      /\ l.since \in Nat /\ l.since <= REQUEST_RETRY_TICKS
      /\ l.denies \in Nat /\ l.idle \in Int /\ REQUEST_RETRY_TICKS \in Nat \ {0}
  BY Counters
<1>1. /\ UNCHANGED << active_trains, active_train_count, cursor >> /\ train' = train
      /\ manager_up' = manager_up
      /\ pc[id] \in {"woken", "answered"}
      /\ pc' = [ pc EXCEPT ![id] = pc'[id] ]
  BY <1>0 DEF Decide, Retry, Request, Finish, GiveUp, Abort, Continue, Settled, vars, office
<1>2. /\ Places(id)' = Places(id) /\ Reached(id)' = Reached(id)
      /\ Asks(id)' = Asks(id) /\ Heard(id)' = Heard(id)
      /\ StoodForDenials(id)' = StoodForDenials(id)
  <2>1. Places(id)' = Places(id)
    BY <1>1, SamePlaces
  <2> QED
    BY <1>1, <2>1 DEF Reached, Used, Asks, Heard, StoodForDenials
<1>3. /\ Places(id) # {} /\ (Heard(id) \/ Promised(id)) /\ (Reached(id) => Heard(id))
      /\ manager_up /\ Asks(id) /\ Heard(id) => StoodForDenials(id)
      /\ pc[id] = "answered" /\ Asks(id) => l.since < REQUEST_RETRY_TICKS
  BY <1>1 DEF Informed, Awaiting, Absent, Ended
<1>4. ASSUME Heard(id), pc'[id] \notin Awaiting,
             pc'[id] \in {"answered", "receiving"} /\ Asks(id) => l.since < REQUEST_RETRY_TICKS,
             pc'[id] \in {"retrying", "requesting"} => Asks(id)
      PROVE  Informed(id)'
  BY <1>1, <1>2, <1>3, <1>4 DEF Informed
<1>5. CASE Retry(id) \/ Request(id)
  <2>1. pc'[id] \in {"retrying", "requesting"} /\ pc[id] = "woken"
    BY <1>0, <1>5 DEF Retry, Request
  <2>2. Asks(id)
    BY <1>5 DEF Retry, Request, RetryDue, RequestDue, Asks
  <2>3. Heard(id)
    BY <1>3, <2>1 DEF Promised
  <2> QED
    BY <1>4, <2>1, <2>2, <2>3 DEF Awaiting
<1>6. CASE Continue(id)
  <2>1. pc'[id] = "receiving"
    BY <1>0, <1>6 DEF Continue
  <2>2. Asks(id) => l.since < REQUEST_RETRY_TICKS
    <3>1. CASE pc[id] = "answered"
      BY <1>3, <3>1
    <3>2. CASE pc[id] = "woken"
      BY <1>0, <1>6, <3>2 DEF Continue, Settled, RetryDue, RequestDue, Asks
    <3> QED
      BY <1>1, <3>1, <3>2
  <2>3. Heard(id) => Informed(id)'
    BY <1>4, <2>1, <2>2 DEF Awaiting
  <2>4. Promised(id) => Promised(id)'
    BY <1>1, <1>2, <2>1 DEF Promised
  <2> QED
    BY <1>1, <1>2, <1>3, <2>1, <2>2, <2>3, <2>4 DEF Informed, Awaiting
<1>7. CASE Finish(id) \/ GiveUp(id) \/ Abort(id)
  <2>1. pc'[id] \in {"finishing", "giving_up", "aborting", "gave_up", "aborted"}
    BY <1>0, <1>7 DEF Finish, GiveUp, Abort
  <2>2. Heard(id)
    <3>1. CASE Finish(id)
      BY <1>3, <3>1 DEF Finish, Complete, Promised, Heard
    <3>2. CASE GiveUp(id) \/ Abort(id)
      BY <1>0, <1>3, <3>2, TicksAssumption DEF GiveUp, Abort, Hopeless, NoProgress, Promised
    <3> QED
      BY <1>7, <3>1, <3>2
  <2> QED
    BY <1>4, <2>1, <2>2 DEF Awaiting
<1> QED
  BY <1>5, <1>6, <1>7 DEF Decide

\* A send that fails tells nothing, and there is no manager left to grant.
LEMMA FailureInforms ==
    ASSUME SysInv, NEW id \in Trains, Informed(id), SendFails(id)
    PROVE  Informed(id)'
<1> DEFINE l == train[id]
<1>0. /\ l \in LocalStates /\ train \in [Trains -> LocalStates] /\ pc \in [Trains -> PcStates]
      /\ REQUEST_RETRY_TICKS \in Nat \ {0}
  BY Counters
<1>1. /\ ~ manager_up' /\ pc[id] \in Sending
      /\ UNCHANGED << active_trains, active_train_count, cursor >>
  BY DEF SendFails, vars, office
<1>2. CASE pc[id] \in {"retrying", "requesting"}
  <2>1. /\ pc'[id] = "answered" /\ train'[id].since = 0
        /\ train'[id].track = l.track /\ train'[id].asked = l.asked /\ train'[id].ticks = l.ticks
    BY <1>0, <1>2 DEF SendFails, LocalStates
  <2>2. Places(id) # {} /\ Heard(id)
    BY <1>2 DEF Informed, Promised, Awaiting, Absent, Ended
  <2>3. Places(id)' = Places(id)
    BY <1>1, SamePlaces
  <2>4. Heard(id)' /\ train'[id].since < REQUEST_RETRY_TICKS
    BY <1>0, <2>1, <2>2, <2>3 DEF Heard
  <2> QED
    BY <1>1, <2>1, <2>2, <2>3, <2>4 DEF Informed, Awaiting
<1>3. CASE pc[id] \notin {"retrying", "requesting"}
  <2>1. pc'[id] \in Absent /\ pc'[id] \notin Awaiting
    BY <1>0, <1>1, <1>3 DEF SendFails, Sending, AfterRelease, Absent, Ended, Awaiting
  <2> QED
    BY <2>1, NothingToHear
<1> QED
  BY <1>2, <1>3

\* The end of a tick comes after every train has heard its update, so that a
\* rollback only takes blocks the trains know of.
LEMMA EndTickInforms ==
    ASSUME SysInv, NEW id \in Trains, Informed(id), EndTick
    PROVE  Informed(id)'
<1>1. /\ UpdatesDone /\ cursor' = Idle /\ UNCHANGED << pc, train >> /\ manager_up' = manager_up
  BY DEF EndTick, TickDone, CheckOnly, CheckAndRollBack, office
<1>2. ~ Reached(id)'
  BY <1>1, ConstantFacts DEF Reached, Used, Idle
<1>3. CASE ~ CheckAndRollBack
  <2>1. UNCHANGED << active_trains, active_train_count >>
    BY <1>3 DEF EndTick, TickDone, CheckOnly
  <2>2. Places(id)' = Places(id)
    BY <2>1, SamePlaces
  <2> QED
    BY <1>1, <1>2, <2>2, StaysInformed
<1>4. CASE CheckAndRollBack
  <2>1. /\ Places(id)' \subseteq Places(id) \union {NoTrack}
        /\ Places(id) # {} => Places(id)' # {}
    BY <1>4, RolledBackPlaces
  <2>2. Places(id) # {} => Reached(id)
    BY <1>1, ConstantFacts DEF UpdatesDone, Places, Reached, Used, SysInv, IInv, TypeOK
  <2>3. /\ Asks(id)' = Asks(id) /\ StoodForDenials(id)' = StoodForDenials(id)
        /\ Heard(id) => Heard(id)'
    BY <1>1, <2>1 DEF Asks, StoodForDenials, Heard
  <2>4. CASE pc[id] \in Awaiting \union Absent
    BY <1>1, <2>4, NothingToHear DEF Informed
  <2>5. CASE pc[id] \notin Awaiting \union Absent
    BY <1>1, <1>2, <2>1, <2>2, <2>3, <2>5 DEF Informed
  <2> QED
    BY <2>4, <2>5
<1> QED
  BY <1>3, <1>4

\* What one train does is none of another's business.
LEMMA OthersInformed ==
    ASSUME SysInv, NEW other \in Trains, NEW id \in Trains \ {other}, Informed(id),
           TrainStep(other) \/ Crash(other)
    PROVE  Informed(id)'
<1>1. pc \in [Trains -> PcStates] /\ train \in [Trains -> LocalStates]
  BY DEF SysInv, Processes
<1>2. pc'[id] = pc[id] /\ train'[id] = train[id] /\ manager_up' = manager_up
  BY <1>1 DEF TrainStep, Acknowledged, Denied, Released, SendFails, Update, NoUpdate, Decide,
              Retry, Request, Finish, GiveUp, Abort, Continue, Crash, office
<1>3. ASSUME Places(id)' = Places(id), Reached(id)' => Reached(id)
      PROVE  Informed(id)'
  BY <1>2, <1>3, StaysInformed
<1>4. ASSUME cursor' = Idle PROVE ~ Reached(id)'
  BY <1>4, ConstantFacts DEF Reached, Used, Idle
<1>5. CASE UNCHANGED vars
  <2>1. Places(id)' = Places(id)
    BY <1>5, SamePlaces DEF vars
  <2> QED
    BY <1>3, <1>5, <2>1 DEF Reached, Used, vars
<1>6. ASSUME NEW trk, Grant(other, trk) \/ DenyHeadOn(other, trk) \/ DenyBusy(other, trk)
      PROVE  Informed(id)'
  <2>1. cursor' = Idle
    BY <1>6 DEF Grant, DenyHeadOn, DenyBusy, Serves
  <2>2. Places(id)' = Places(id)
    BY <1>6, ServedPlaces
  <2> QED
    BY <1>3, <1>4, <2>1, <2>2
<1>7. ASSUME NEW trk, Release(other, trk)
      PROVE  Informed(id)'
  <2>1. cursor' = Idle
    BY <1>7 DEF Release
  <2>2. Places(id)' = Places(id)
    BY <1>7, ReleasedPlaces
  <2> QED
    BY <1>3, <1>4, <2>1, <2>2
<1>8. CASE (UpdateSent \/ UpdateSkipped) /\ AtCursor(other)
  <2>1. /\ cursor \in Used /\ cursor' = cursor + 1 /\ active_trains[cursor].train_id = other
        /\ UNCHANGED << active_trains, active_train_count >>
    BY <1>8 DEF UpdateSent, UpdateSkipped, AtCursor
  <2>2. Places(id)' = Places(id)
    BY <2>1, SamePlaces
  <2>3. Reached(id)' => Reached(id)
    BY <2>1, ConstantFacts DEF Reached, Used
  <2> QED
    BY <1>3, <2>2, <2>3
<1>9. CASE Cleanup /\ AtCursor(other)
  BY <1>3, <1>9, CleanedPlaces DEF AtCursor
<1>10. \/ UNCHANGED vars
       \/ \E trk : Grant(other, trk) \/ DenyHeadOn(other, trk) \/ DenyBusy(other, trk)
       \/ \E trk : Release(other, trk)
       \/ (UpdateSent \/ UpdateSkipped \/ Cleanup) /\ AtCursor(other)
  BY DEF TrainStep, Acknowledged, Denied, DenyNoData, Released, SendFails, Update, NoUpdate,
         Decide, Retry, Request, Finish, GiveUp, Abort, Continue, Crash
<1> QED
  BY <1>5, <1>6, <1>7, <1>8, <1>9, <1>10

\* What TrainController does concerns trains that are not under way yet.
LEMMA ControllerInforms ==
    ASSUME SysInv, NEW id \in Trains, Informed(id), ControllerStep \/ Rerun \/ ManagerStops
    PROVE  Informed(id)'
<1>1. pc \in [Trains -> PcStates] /\ UNCHANGED vars
  BY DEF SysInv, Processes, ControllerStep, SkipLine, LaunchTrain, FinishLoading, ControllerExit,
         Rerun, ManagerStops
<1>2. ASSUME pc'[id] = pc[id], train' = train, manager_up' => manager_up
      PROVE  Informed(id)'
  <2>1. Places(id)' = Places(id) /\ Reached(id)' = Reached(id)
    BY <1>1, SamePlaces DEF vars, Reached, Used
  <2> QED
    BY <1>2, <2>1, StaysInformed
<1>3. CASE SkipLine \/ FinishLoading \/ ControllerExit \/ ManagerStops
  BY <1>2, <1>3 DEF SkipLine, FinishLoading, ControllerExit, ManagerStops
<1>4. CASE Rerun
  BY <1>4, NothingToHear DEF Rerun, Awaiting
<1>5. CASE LaunchTrain
  <2> DEFINE new == NextLine[1]
  <2>1. /\ train' = train /\ manager_up' = manager_up
        /\ \E p \in {"admitting", "failed"} : pc' = [ pc EXCEPT ![new] = p ]
    BY <1>5 DEF LaunchTrain
  <2>2. CASE id # new
    BY <1>1, <1>2, <2>1, <2>2
  <2>3. CASE id = new
    <3>1. controller = "loading" /\ IsTrainLine(NextLine) /\ lines_read < Len(TrainLines)
      BY <1>5 DEF LaunchTrain, Reading
    <3>2. lines_read + 1 \in lines_read + 1 .. Len(TrainLines)
      BY <3>1, LinesAssumption DEF SysInv, Registry
    <3>3. pc[id] = "unborn"
      BY <2>3, <3>1, <3>2 DEF SysInv, Registry, NextLine
    <3>4. train[id] = NewTrain(id)
      BY <3>3 DEF Informed, Awaiting
    <3>5. pc'[id] \in {"admitting", "failed"}
      BY <1>1, <2>1, <2>3
    <3> QED
      BY <2>1, <3>4, <3>5, NothingToHear DEF Awaiting, Absent, Ended
  <2> QED
    BY <2>2, <2>3
<1> QED
  BY <1>3, <1>4, <1>5 DEF ControllerStep

\* Every step keeps every train informed.
LEMMA InformedStep ==
    ASSUME SysInv, TInv, [SysNext]_sysvars,
           MAX_CONSECUTIVE_DENIES * REQUEST_RETRY_TICKS < MAX_NO_PROGRESS_TICKS
    PROVE  TInv'
<1> SUFFICES ASSUME NEW id \in Trains PROVE Informed(id)'
  BY DEF TInv
<1>0. Informed(id)
  BY DEF TInv
<1>1. CASE UNCHANGED sysvars
  <2>1. Places(id)' = Places(id) /\ Reached(id)' = Reached(id)
    BY <1>1, SamePlaces DEF sysvars, vars, Reached, Used
  <2> QED
    BY <1>0, <1>1, <2>1, StaysInformed DEF sysvars, office
<1>2. CASE StartTick
  <2>1. /\ UNCHANGED << pc, train, active_trains, active_train_count >> /\ manager_up' = manager_up
        /\ cursor' = 0
    BY <1>2 DEF StartTick, TickPulse, office
  <2>2. Places(id)' = Places(id)
    BY <2>1, SamePlaces
  <2>3. ~ Reached(id)'
    BY <2>1, ConstantFacts DEF Reached, Used
  <2> QED
    BY <1>0, <2>1, <2>2, <2>3, StaysInformed
<1>3. CASE EndTick
  BY <1>0, <1>3, EndTickInforms
<1>4. CASE ControllerStep \/ Rerun \/ ManagerStops
  BY <1>0, <1>4, ControllerInforms
<1>5. ASSUME NEW other \in Trains \ {id}, TrainStep(other) \/ Crash(other)
      PROVE  Informed(id)'
  BY <1>0, <1>5, OthersInformed
<1>6. ASSUME Released(id) \/ NoUpdate(id) \/ Crash(id)
      PROVE  Informed(id)'
  <2>1. pc \in [Trains -> PcStates]
    BY DEF SysInv, Processes
  <2>2. /\ pc'[id] \in Absent
        /\ pc'[id] \in Awaiting => pc[id] = pc'[id] /\ train' = train
    BY <1>6, <2>1 DEF Released, AfterRelease, NoUpdate, Crash, Absent, Ended, Awaiting
  <2> QED
    BY <1>0, <2>2, NothingToHear DEF Informed
<1>7. ASSUME TrainStep(id) \/ Crash(id)
      PROVE  Informed(id)'
  BY <1>0, <1>6, <1>7, GrantInforms, DenialInforms, UpdateInforms, DecisionInforms, FailureInforms
  DEF TrainStep
<1> QED
  BY <1>1, <1>2, <1>3, <1>4, <1>5, <1>7 DEF SysNext

\* At first no train is under way.
LEMMA TInvInit == SysInit => TInv
<1>1. SysInit => \A id \in Trains : pc[id] \in Awaiting /\ train[id] = NewTrain(id)
  BY DEF SysInit, Awaiting
<1> QED
  BY <1>1 DEF TInv, Informed

-----------------------------------------------------------------------------
(* Releases. *)

\* If a train's denials end it before its standstill does (in the code eight
\* denials, 10 ticks apart, against 1200 ticks), a train never releases a block
\* the manager believes it has left: however late the updates, whichever train
\* is rolled back, and whatever dies, is stopped or run again.
THEOREM SystemReleaseMatchesLocation ==
    ASSUME MAX_CONSECUTIVE_DENIES * REQUEST_RETRY_TICKS < MAX_NO_PROGRESS_TICKS
    PROVE  SysSpec => []ReleaseMatchesLocation
<1>1. SysInit => TInv
  BY TInvInit
<1>2. SysInv /\ TInv /\ [SysNext]_sysvars => TInv'
  BY InformedStep
<1>3. TInv => ReleaseMatchesLocation
  <2> SUFFICES ASSUME TInv, NEW id \in Trains, NEW i \in Used,
                      pc[id] \in {"finishing", "giving_up", "aborting"}, active_trains[i].train_id = id
               PROVE  active_trains[i].track_id \in {train[id].track, NoTrack}
    BY DEF ReleaseMatchesLocation
  <2>1. Heard(id)
    BY DEF TInv, Informed, Promised, Awaiting, Absent, Ended
  <2>2. active_trains[i].track_id \in Places(id)
    BY DEF Places
  <2> QED
    BY <2>1, <2>2 DEF Heard
<1> QED
  BY <1>1, <1>2, <1>3, SystemInvariant, PTL DEF SysSpec

-----------------------------------------------------------------------------
(***************************************************************************)
(* How long a train's wish is on record.  The manager's ticks age it, the  *)
(* train's denials end it; the two are counted by different processes, at  *)
(* different steps of a tick, and a wish can change, be forgotten and be   *)
(* renewed in between.                                                     *)
(***************************************************************************)
\* The update of a running tick is still to come for the train in slot i.
Late(i) == IF cursor # Idle /\ i >= cursor THEN 1 ELSE 0

\* Process p with local state l, located by rec and recorded by req, is killed;
\* or it is not reported as stuck, and if it waits on a track it is under way,
\* knows the track, keeps asking, and has not waited longer than its denials
\* account for.
Patient(p, l, up, rec, req, late) ==
    p # "killed" =>
        /\ req.state # "STUCK"
        /\ up /\ req.wants # NoTrack /\ rec.track_id # NoTrack =>
              /\ p \notin Awaiting \union Absent
              /\ rec.track_id = l.track
              /\ ~ l.asked
              /\ l.track # Destination[rec.train_id]
              /\ l.ticks >= REQUEST_AFTER_TICKS
              /\ req.waited + REQUEST_RETRY_TICKS <= l.denies * REQUEST_RETRY_TICKS + l.since + late

PatientIn(i) ==
    Patient(pc[active_trains[i].train_id], train[active_trains[i].train_id], manager_up,
            active_trains[i], train_request_states[i], Late(i))

AwaitingNotCached == \A id \in Trains : pc[id] \in Awaiting => id \notin Cached

\* No train runs out of denials while a tick is handled.
TickDenials ==
    cursor # Idle => \A id \in Trains :
        pc[id] \notin Awaiting \union Absent => train[id].denies < MAX_CONSECUTIVE_DENIES

PInv == AwaitingNotCached /\ TickDenials /\ \A i \in Used : PatientIn(i)

-----------------------------------------------------------------------------
\* What the operators on a request record do to the time it has waited.
LEMMA UpdateWaits ==
    ASSUME NEW r \in Requests, NEW h \in Int, NEW w \in Int
    PROVE  /\ UpdateRequestState(r, h, w).state = r.state
           /\ UpdateRequestState(r, h, w).waited = IF w = r.wants THEN r.waited ELSE 0
<1> DEFINE age == IF w = r.wants THEN r.waited ELSE 0
<1>1. UpdateRequestState(r, h, w) = [r EXCEPT !.holds = h, !.wants = w, !.waited = age]
  BY DEF UpdateRequestState
<1> HIDE DEF age
<1>2. /\ UpdateRequestState(r, h, w).state = r.state
      /\ UpdateRequestState(r, h, w).waited = age
  BY <1>1 DEF Requests, RequestStates
<1> QED
  BY <1>2 DEF age

LEMMA AgeWaits ==
    ASSUME NEW r \in Requests
    PROVE  /\ AgeRequestState(r).state = r.state
           /\ AgeRequestState(r).wants = r.wants
           /\ AgeRequestState(r).waited \in {r.waited, r.waited + 1}
<1> DEFINE age == IF r.wants # NoTrack /\ r.waited <= StuckAfter THEN r.waited + 1 ELSE r.waited
<1>1. AgeRequestState(r) = [r EXCEPT !.waited = age]
  BY DEF AgeRequestState
<1>2. age \in {r.waited, r.waited + 1}
  OBVIOUS
<1> HIDE DEF age
<1> QED
  BY <1>1, <1>2 DEF Requests, RequestStates

LEMMA StuckWaits ==
    ASSUME NEW r \in Requests
    PROVE  /\ DetectStuckTrain(r).waited = r.waited
           /\ \/ DetectStuckTrain(r).state = r.state
              \/ r.wants # NoTrack /\ DetectStuckTrain(r).state = "WAITING"
              \/ r.wants # NoTrack /\ r.waited > StuckAfter
<1>1. CASE r.wants = NoTrack
  BY <1>1 DEF DetectStuckTrain
<1>2. CASE r.wants # NoTrack
  <2> DEFINE flag == IF IsStuck(r) THEN "STUCK" ELSE "WAITING"
  <2>1. DetectStuckTrain(r) = [r EXCEPT !.state = flag]
    BY <1>2 DEF DetectStuckTrain
  <2>2. flag = "WAITING" \/ r.waited > StuckAfter
    BY DEF IsStuck
  <2> HIDE DEF flag
  <2> QED
    BY <1>2, <2>1, <2>2 DEF Requests, RequestStates
<1> QED
  BY <1>1, <1>2

\* A patient train stays patient when nothing happens to it but the loss of
\* its block, its wish or its life.
LEMMA StaysPatient ==
    ASSUME NEW p, NEW l, NEW up, NEW rec, NEW req, NEW late \in {0, 1},
           Patient(p, l, up, rec, req, late), l \in LocalStates, req.waited \in Int,
           NEW p2, NEW up2, NEW rec2, NEW req2, NEW late2 \in {0, 1},
           p2 = p \/ p2 = "killed" \/ (p # "killed" /\ p2 \notin Awaiting \union Absent),
           up2 => up, late <= late2,
           rec2.train_id = rec.train_id, rec2.track_id \in {rec.track_id, NoTrack},
           req2.state = req.state,
           req2.wants = NoTrack \/ (req2.wants = req.wants /\ req2.waited = req.waited)
    PROVE  Patient(p2, l, up2, rec2, req2, late2)
<1>1. l.denies \in Nat /\ l.since \in Int /\ REQUEST_RETRY_TICKS \in Nat
  BY TicksAssumption DEF LocalStates
<1>2. l.denies * REQUEST_RETRY_TICKS \in Nat
  BY <1>1, OneMoreDenial
<1> QED
  BY <1>1, <1>2 DEF Patient

\* The types of what PatientIn looks at.
LEMMA PatientTypes ==
    ASSUME SysInv, NEW i \in Used
    PROVE  /\ i \in Slots /\ i \in Int /\ cursor \in Int /\ Late(i) \in {0, 1}
           /\ active_trains[i] \in TrainRecords /\ train_request_states[i] \in Requests
           /\ train_request_states[i].waited \in Int /\ train_request_states[i].wants \in Int
           /\ active_trains[i].track_id \in Int
           /\ active_trains[i].train_id \in Trains
           /\ train[active_trains[i].train_id] \in LocalStates
<1>1. i \in Slots /\ i \in Int /\ cursor \in Int
  BY ConstantFacts, SlotTypes DEF SysInv, IInv, TypeOK, Used, Idle
<1>2. active_trains[i] \in TrainRecords /\ train_request_states[i] \in Requests
  BY <1>1, SlotTypes DEF SysInv, IInv
<1>3. active_trains[i].train_id \in Trains
  BY DEF SysInv, IInv, SlotsAligned
<1> QED
  BY <1>1, <1>2, <1>3 DEF TrainRecords, Requests, RequestStates, SysInv, Processes, Late

\* A slot that shows what another one showed, or less of it.
LEMMA SlotStaysPatient ==
    ASSUME SysInv, SysInv', NEW j \in Used, PatientIn(j), NEW i \in Used',
           active_trains'[i].train_id = active_trains[j].train_id,
           active_trains'[i].track_id \in {active_trains[j].track_id, NoTrack},
           train_request_states'[i].state = train_request_states[j].state,
           \/ train_request_states'[i].wants = NoTrack
           \/ /\ train_request_states'[i].wants = train_request_states[j].wants
              /\ train_request_states'[i].waited = train_request_states[j].waited,
           train'[active_trains[j].train_id] = train[active_trains[j].train_id],
           \/ pc'[active_trains[j].train_id] = pc[active_trains[j].train_id]
           \/ pc'[active_trains[j].train_id] = "killed"
           \/ /\ pc[active_trains[j].train_id] # "killed"
              /\ pc'[active_trains[j].train_id] \notin Awaiting \union Absent,
           manager_up' => manager_up, Late(j) <= Late(i)'
    PROVE  PatientIn(i)'
<1> DEFINE id == active_trains[j].train_id
           rec == active_trains[j]
           req == train_request_states[j]
           late == Late(j)
           rec2 == active_trains'[i]
           req2 == train_request_states'[i]
           late2 == Late(i)'
<1>1. late \in {0, 1} /\ train[id] \in LocalStates /\ req.waited \in Int
  BY PatientTypes
<1>2. late2 \in {0, 1}
  BY DEF Late
<1>3. Patient(pc[id], train[id], manager_up, rec, req, late)
  BY DEF PatientIn
<1> HIDE DEF late, late2
<1>4. Patient(pc'[id], train[id], manager_up', rec2, req2, late2)
  BY <1>1, <1>2, <1>3, StaysPatient DEF late, late2
<1> QED
  BY <1>4 DEF PatientIn, late2, Patient

-----------------------------------------------------------------------------
(* The manager's steps, slot by slot. *)

\* A message handler rewrites the slot of the train it serves.
ServedSlot(id, trk, s) ==
    /\ s \in Used' /\ active_trains'[s].train_id = id
    /\ \A i \in Used' \ {s} : /\ i \in Used
                              /\ active_trains'[i] = active_trains[i]
                              /\ train_request_states'[i] = train_request_states[i]
    /\ Grant(id, trk) => train_request_states'[s].wants = NoTrack
    /\ ~ IsCached(id) => train_request_states'[s].state = "ACTIVE"
    /\ IsCached(id) =>
          /\ s \in Used /\ active_trains[s].train_id = id
          /\ train_request_states'[s].state = train_request_states[s].state
          /\ ~ Grant(id, trk) =>
                /\ active_trains'[s].track_id \in {active_trains[s].track_id, NoTrack}
                /\ train_request_states'[s].wants = trk
                /\ train_request_states'[s].waited =
                      IF trk = train_request_states[s].wants THEN train_request_states[s].waited ELSE 0

\* The record of a train that is fetched is a fresh one.
LEMMA FetchedRecord ==
    ASSUME SysInv, NEW id \in Trains, Serves(id), ~ IsCached(id)
    PROVE  StatesWith(id)[SlotFor(id)].state = "ACTIVE"
<1>1. SlotFor(id) \in Slots \ Used /\ train_request_states \in [Slots -> Requests]
  <2>1. SlotFor(id) = active_train_count /\ active_train_count < MAX_TRAINS
    BY DEF SlotFor, Serves, CanFetch
  <2>2. active_train_count \in 0 .. MAX_TRAINS /\ train_request_states \in [Slots -> Requests]
    BY SlotTypes DEF SysInv, IInv, TypeOK
  <2>3. active_train_count \in Slots /\ active_train_count \notin Used
    BY <2>1, <2>2, ConstantFacts DEF Slots, Used
  <2> QED
    BY <2>1, <2>2, <2>3
<1>2. train_request_states[SlotFor(id)] = NoRequest
  BY <1>1 DEF SysInv, IInv, SlotsAligned
<1>3. NoRequest.train_id < 0
  BY DEF NoRequest, InitRequestState, NoTrain
<1>4. StatesWith(id) = [ train_request_states EXCEPT ![SlotFor(id)] = InitRequestState(id) ]
  BY <1>2, <1>3 DEF StatesWith
<1> QED
  BY <1>1, <1>4 DEF InitRequestState

LEMMA ServedSlotFacts ==
    ASSUME SysInv, NEW id \in Trains, NEW trk \in Requestable[id],
           Grant(id, trk) \/ DenyHeadOn(id, trk) \/ DenyBusy(id, trk)
    PROVE  \E s \in Slots : ServedSlot(id, trk, s)
<1> DEFINE s == SlotFor(id)
           at == LocationOf(id)
           trains == TrainsWith(id)
           book == StatesWith(id)
           count == CountWith(id)
           rec == active_trains'[s]
           req == train_request_states'[s]
<1>1. Serves(id) /\ active_train_count' = count
  BY DEF Grant, DenyHeadOn, DenyBusy
<1>2. Found(id, s, trains, book, count)
  BY <1>1, LookupFacts DEF SysInv, IInv, Serves
<1>3. /\ s \in Slots /\ s \in 0 .. count - 1 /\ count \in 0 .. MAX_TRAINS
      /\ trains \in [Slots -> TrainRecords] /\ trains[s].train_id = id /\ trains[s].track_id = at
      /\ book \in [Slots -> Requests] /\ book[s] \in Requests /\ at \in Int /\ trk \in Int
      /\ \A i \in (0 .. count - 1) \ {s} : /\ i \in Used /\ trains[i] = active_trains[i]
                                           /\ book[i] = train_request_states[i]
      /\ IsCached(id) => /\ s \in Used /\ trains[s] = active_trains[s]
                         /\ book[s] = train_request_states[s]
  BY <1>2, RequestableAssumption DEF Found, LocationOf, Books, TrainRecords
<1>4. ~ IsCached(id) => book[s].state = "ACTIVE"
  BY <1>1, FetchedRecord
<1>5. CASE Grant(id, trk)
  <2> DEFINE power == id \in Powered
             first == UpdateRequestState(book[s], at, trk)
  <2>1. /\ active_trains' = [trains EXCEPT ![s] = [trains[s] EXCEPT !.track_id = trk, !.moving = power]]
        /\ train_request_states' = [book EXCEPT ![s] = UpdateRequestState(first, trk, NoTrack)]
    BY <1>5 DEF Grant
  <2> HIDE DEF power, s, trains, book, at, count
  <2>2. first \in Requests /\ first.state = book[s].state
    <3>1. book[s] \in Requests /\ at \in Int /\ trk \in Int
      BY <1>3
    <3>2. first \in Requests
      BY <3>1, UpdateFacts
    <3>3. first.state = book[s].state
      BY <3>1, UpdateWaits
    <3> QED
      BY <3>2, <3>3
  <2> HIDE DEF first
  <2>3. /\ UpdateRequestState(first, trk, NoTrack).wants = NoTrack
        /\ UpdateRequestState(first, trk, NoTrack).state = book[s].state
    BY <1>3, <2>2, UpdateFacts, UpdateWaits, ConstantFacts
  <2>4. /\ rec.train_id = id /\ req.wants = NoTrack /\ req.state = book[s].state
        /\ \A i \in Slots \ {s} : active_trains'[i] = trains[i] /\ train_request_states'[i] = book[i]
    BY <1>3, <2>1, <2>3 DEF TrainRecords
  <2>5. Used' = 0 .. count - 1 /\ Used' \subseteq Slots
    BY <1>1, <1>3, ConstantFacts DEF Used, Slots
  <2> HIDE DEF rec, req
  <2> QED
    BY <1>3, <1>4, <1>5, <2>4, <2>5 DEF ServedSlot, rec, req
<1>6. CASE ~ Grant(id, trk)
  <2>1. /\ active_trains' = [trains EXCEPT ![s] = rec]
        /\ rec.train_id = id /\ rec.track_id \in {at, NoTrack}
    <3>1. CASE DenyHeadOn(id, trk)
      <4>1. active_trains' = [trains EXCEPT ![s].moving = FALSE]
        BY <3>1 DEF DenyHeadOn
      <4> HIDE DEF s, trains, at
      <4> QED
        BY <1>3, <4>1 DEF TrainRecords
    <3>2. CASE DenyBusy(id, trk)
      <4> DEFINE to == IF train_is_on_any_track(id) THEN at ELSE NoTrack
      <4>1. active_trains' =
                [trains EXCEPT ![s] = [trains[s] EXCEPT !.track_id = to, !.moving = FALSE]]
        BY <3>2 DEF DenyBusy
      <4>2. to \in {at, NoTrack}
        OBVIOUS
      <4> HIDE DEF to, s, trains, at
      <4> QED
        BY <1>3, <4>1, <4>2 DEF TrainRecords
    <3> QED
      BY <1>6, <3>1, <3>2
  <2>2. train_request_states' = [book EXCEPT ![s] = UpdateRequestState(book[s], at, trk)]
    BY <1>6 DEF DenyHeadOn, DenyBusy
  <2> HIDE DEF s, trains, book, at, count, rec
  <2>3. /\ UpdateRequestState(book[s], at, trk).wants = trk
        /\ UpdateRequestState(book[s], at, trk).state = book[s].state
        /\ UpdateRequestState(book[s], at, trk).waited = IF trk = book[s].wants THEN book[s].waited ELSE 0
    BY <1>3, UpdateFacts, UpdateWaits
  <2>4. req = UpdateRequestState(book[s], at, trk)
    BY <1>3, <2>2
  <2>5. \A i \in Slots \ {s} : active_trains'[i] = trains[i] /\ train_request_states'[i] = book[i]
    BY <1>3, <2>1, <2>2
  <2>6. Used' = 0 .. count - 1 /\ Used' \subseteq Slots
    BY <1>1, <1>3, ConstantFacts DEF Used, Slots
  <2>7. /\ req.wants = trk /\ req.state = book[s].state
        /\ req.waited = IF trk = book[s].wants THEN book[s].waited ELSE 0
    BY <2>3, <2>4
  <2> HIDE DEF req
  <2> QED
    BY <1>3, <1>4, <1>6, <2>1, <2>5, <2>6, <2>7 DEF ServedSlot, rec, req
<1> QED
  BY <1>5, <1>6

\* The deadlock check: a record that is brought in line keeps its wish and the
\* time it has waited, or has lost its wish; and it is marked stuck only for
\* having waited too long.
LEMMA SyncedWaits ==
    ASSUME SysInv, NEW i \in Used
    PROVE  LET r == train_request_states[i]
           IN  /\ \/ SyncedStates[i].wants = NoTrack
                  \/ SyncedStates[i].wants = r.wants /\ SyncedStates[i].waited = r.waited
               /\ \/ SyncedStates[i].state = r.state
                  \/ SyncedStates[i].state = "WAITING"
                  \/ /\ active_trains[i].track_id >= 0
                     /\ r.wants # NoTrack /\ r.waited > StuckAfter
<1> DEFINE r == train_request_states[i]
           holds == active_trains[i].track_id
           wants == IF holds < 0 THEN NoTrack ELSE r.wants
           updated == UpdateRequestState(r, holds, wants)
<1>1. i \in Slots /\ SyncedStates[i] = DetectStuckTrain(updated)
  BY PatientTypes DEF SyncedStates
<1>2. r \in Requests /\ holds \in Int /\ wants \in Int
  BY PatientTypes, ConstantFacts
<1>3. wants = NoTrack \/ (wants = r.wants /\ holds >= 0)
  BY <1>2
<1> HIDE DEF holds, wants, r
<1>4. /\ updated \in Requests /\ updated.wants = wants /\ updated.state = r.state
      /\ wants = r.wants => updated.waited = r.waited
  BY <1>2, UpdateFacts, UpdateWaits
<1> HIDE DEF updated
<1>5. /\ SyncedStates[i].wants = wants /\ SyncedStates[i].waited = updated.waited
      /\ \/ SyncedStates[i].state = r.state
         \/ SyncedStates[i].state = "WAITING"
         \/ wants # NoTrack /\ updated.waited > StuckAfter
  BY <1>1, <1>4, StuckFacts, StuckWaits
<1> QED
  BY <1>3, <1>4, <1>5 DEF r, holds

-----------------------------------------------------------------------------
(* The steps of the system. *)

\* Steps that leave the manager as it is.
LEMMA QuietPatient ==
    ASSUME SysInv, SysInv', PInv, UNCHANGED vars, manager_up' => manager_up,
           \A id \in Cached : /\ train'[id] = train[id]
                              /\ \/ pc'[id] = pc[id] \/ pc'[id] = "killed"
                                 \/ pc[id] # "killed" /\ pc'[id] \notin Awaiting \union Absent
    PROVE  \A i \in Used' : PatientIn(i)'
<1> SUFFICES ASSUME NEW i \in Used' PROVE PatientIn(i)'
  OBVIOUS
<1>1. /\ i \in Used /\ active_trains' = active_trains /\ cursor' = cursor
      /\ train_request_states' = train_request_states
  BY DEF vars, Used
<1>2. active_trains[i].train_id \in Cached /\ Late(i)' = Late(i) /\ Late(i) \in {0, 1}
  BY <1>1 DEF Cached, Late
<1>3. PatientIn(i)
  BY <1>1 DEF PInv
<1>4. Late(i) <= Late(i)'
  BY <1>2
<1> QED
  BY <1>1, <1>2, <1>3, <1>4, SlotStaysPatient

\* The start of a tick ages every wish, which the updates of the tick make up
\* for.
LEMMA TickPatient ==
    ASSUME SysInv, PInv, StartTick
    PROVE  \A i \in Used' : PatientIn(i)'
<1> SUFFICES ASSUME NEW i \in Used' PROVE PatientIn(i)'
  OBVIOUS
<1> DEFINE id == active_trains[i].train_id
           r == train_request_states[i]
<1>1. /\ UNCHANGED << active_trains, active_train_count, pc, train >> /\ manager_up' = manager_up
      /\ cursor = Idle /\ cursor' = 0
      /\ train_request_states' = [ j \in Slots |-> AgeRequestState(train_request_states[j]) ]
  BY DEF StartTick, TickPulse, office
<1>2. i \in Used /\ i \in Slots /\ i >= 0
  BY <1>1, PatientTypes, ConstantFacts DEF Used, Slots
<1>3. /\ r \in Requests /\ r.waited \in Int /\ train[id] \in LocalStates
      /\ train_request_states'[i] = AgeRequestState(r)
  BY <1>1, <1>2, PatientTypes
<1>4. /\ train_request_states'[i].state = r.state /\ train_request_states'[i].wants = r.wants
      /\ train_request_states'[i].waited \in {r.waited, r.waited + 1}
  BY <1>3, AgeWaits
<1>5. Late(i) = 0 /\ Late(i)' = 1
  BY <1>1, <1>2, ConstantFacts DEF Late, Idle
<1>6. /\ train[id].denies \in Nat /\ train[id].since \in Int /\ REQUEST_RETRY_TICKS \in Nat
      /\ train[id].denies * REQUEST_RETRY_TICKS \in Nat
  BY <1>3, TicksAssumption, OneMoreDenial DEF LocalStates
<1>7. PatientIn(i)
  BY <1>2 DEF PInv
<1> QED
  BY <1>1, <1>3, <1>4, <1>5, <1>6, <1>7 DEF PatientIn, Patient

\* The deadlock check finds no wish old enough to be marked but of the killed.
LEMMA CheckPatient ==
    ASSUME SysInv, SysInv', PInv, OnBlocks, EndTick,
           (MAX_CONSECUTIVE_DENIES - 1) * REQUEST_RETRY_TICKS <= StuckAfter
    PROVE  \A i \in Used' : PatientIn(i)'
<1> SUFFICES ASSUME NEW i \in Used' PROVE PatientIn(i)'
  OBVIOUS
<1> DEFINE id == active_trains[i].train_id
           r == train_request_states[i]
<1>1. /\ UpdatesDone /\ cursor' = Idle /\ UNCHANGED << pc, train, active_train_count >>
      /\ manager_up' = manager_up /\ manager_up
  BY DEF EndTick, TickDone, CheckOnly, CheckAndRollBack, office
<1>2. /\ i \in Used /\ i \in Slots /\ i \in Int /\ r \in Requests /\ r.waited \in Int
      /\ active_trains[i] \in TrainRecords /\ train[id] \in LocalStates /\ id \in Trains
  BY <1>1, PatientTypes DEF Used
<1>3. Late(i) = 0 /\ Late(i)' = 0 /\ cursor # Idle
  BY <1>1, <1>2, ConstantFacts DEF Late, Idle, UpdatesDone, Used, SysInv, IInv, TypeOK
<1>4. PatientIn(i)
  BY <1>2 DEF PInv
<1>5. CASE TickDone
  <2>1. UNCHANGED << active_trains, train_request_states >>
    BY <1>5 DEF TickDone
  <2> QED
    BY <1>1, <1>2, <1>3, <1>4, <2>1, SlotStaysPatient
<1>6. CASE CheckOnly \/ CheckAndRollBack
  <2> DEFINE v == find_train_index(Victim)
             s == IndexOf(SyncedStates, Victim)
  <2>1. /\ active_trains'[i].train_id = active_trains[i].train_id
        /\ active_trains'[i].track_id \in {active_trains[i].track_id, NoTrack}
    <3>1. active_trains \in [Slots -> TrainRecords]
      BY SlotTypes DEF SysInv, IInv
    <3>2. \/ active_trains' = active_trains
          \/ active_trains' = [active_trains EXCEPT ![v] =
                                  [active_trains[v] EXCEPT !.track_id = NoTrack, !.moving = FALSE]]
      BY <1>6 DEF CheckOnly, CheckAndRollBack
    <3> HIDE DEF v
    <3>3. \/ active_trains'[i] = active_trains[i]
          \/ active_trains'[i] = [active_trains[i] EXCEPT !.track_id = NoTrack, !.moving = FALSE]
      BY <1>2, <3>1, <3>2
    <3> QED
      BY <1>2, <3>3 DEF TrainRecords
  <2>2. /\ train_request_states'[i].state = SyncedStates[i].state
        /\ train_request_states'[i].wants = SyncedStates[i].wants
        /\ train_request_states'[i].waited = SyncedStates[i].waited
    <3> DEFINE book == SyncedStates
    <3>1. book \in [Slots -> Requests]
      BY SyncedFacts DEF SysInv, IInv, Books
    <3>2. \/ train_request_states' = book
          \/ train_request_states' = [book EXCEPT ![s] =
                                         UpdateRequestState(book[s], NoTrack, book[s].wants)]
      BY <1>6 DEF CheckOnly, CheckAndRollBack
    <3>3. book[i] \in Requests /\ book[i].wants \in Int
      BY <1>2, <3>1, ConstantFacts DEF Requests, RequestStates
    <3> HIDE DEF book, s
    <3>4. /\ UpdateRequestState(book[i], NoTrack, book[i].wants).state = book[i].state
          /\ UpdateRequestState(book[i], NoTrack, book[i].wants).wants = book[i].wants
          /\ UpdateRequestState(book[i], NoTrack, book[i].wants).waited = book[i].waited
      BY <3>3, UpdateFacts, UpdateWaits, ConstantFacts
    <3>5. \/ train_request_states'[i] = book[i]
          \/ train_request_states'[i] = UpdateRequestState(book[i], NoTrack, book[i].wants)
      BY <1>2, <3>1, <3>2
    <3> QED
      BY <3>4, <3>5 DEF book
  <2> DEFINE checked == SyncedStates[i]
  <2>3. /\ checked.wants = NoTrack \/ (checked.wants = r.wants /\ checked.waited = r.waited)
        /\ \/ checked.state = r.state
           \/ checked.state = "WAITING"
           \/ active_trains[i].track_id >= 0 /\ r.wants # NoTrack /\ r.waited > StuckAfter
    BY <1>2, SyncedWaits
  <2>4. ASSUME pc[id] # "killed", active_trains[i].track_id >= 0, r.wants # NoTrack
        PROVE  r.waited <= StuckAfter
    <3> DEFINE d == train[id].denies
               n == MAX_CONSECUTIVE_DENIES
    <3>1. /\ pc[id] \notin Awaiting \union Absent
          /\ r.waited + REQUEST_RETRY_TICKS <= d * REQUEST_RETRY_TICKS + train[id].since + 0
      BY <1>1, <1>3, <1>4, <2>4 DEF PatientIn, Patient, NoTrack
    <3>2. d < MAX_CONSECUTIVE_DENIES
      BY <1>2, <1>3, <3>1 DEF PInv, TickDenials
    <3>3. /\ d \in Nat /\ n \in Nat \ {0} /\ n - 1 \in Nat /\ REQUEST_RETRY_TICKS \in Nat
          /\ train[id].since \in Nat /\ train[id].since <= REQUEST_RETRY_TICKS
          /\ d * REQUEST_RETRY_TICKS \in Nat /\ StuckAfter \in Nat
      <4>1. n \in Nat \ {0} /\ n - 1 \in Nat /\ StuckAfter \in Nat
        BY TicksAssumption, StuckAfterAssumption
      <4> QED
        BY <1>2, <4>1, Counters
    <3>4. r.waited <= d * REQUEST_RETRY_TICKS
      BY <1>2, <3>1, <3>3
    <3>5. d * REQUEST_RETRY_TICKS <= (n - 1) * REQUEST_RETRY_TICKS
      <4>1. CASE d = n - 1
        BY <3>3, <4>1
      <4>2. CASE d < n - 1
        <5> DEFINE m == n - 1
        <5>1. d < m /\ m \in Nat
          BY <3>3, <4>2
        <5> HIDE DEF m
        <5>2. d * REQUEST_RETRY_TICKS + REQUEST_RETRY_TICKS <= m * REQUEST_RETRY_TICKS
          BY <3>3, <5>1, FewerDenials
        <5>3. m * REQUEST_RETRY_TICKS \in Nat
          BY <3>3, <5>1, OneMoreDenial
        <5> QED
          BY <3>3, <5>2, <5>3 DEF m
      <4> QED
        BY <3>2, <3>3, <4>1, <4>2
    <3>6. (n - 1) * REQUEST_RETRY_TICKS \in Nat
      BY <3>3, OneMoreDenial
    <3> HIDE DEF d
    <3> QED
      BY <1>2, <3>3, <3>4, <3>5, <3>6
  <2> HIDE DEF checked
  <2>5. pc[id] # "killed" => checked.state = r.state \/ checked.state = "WAITING"
    BY <1>2, <2>3, <2>4, StuckAfterAssumption
  <2>6. /\ train_request_states'[i].state = checked.state
        /\ train_request_states'[i].wants = checked.wants
        /\ train_request_states'[i].waited = checked.waited
    BY <2>2 DEF checked
  <2> QED
    BY <1>1, <1>2, <1>3, <1>4, <2>1, <2>3, <2>5, <2>6, ConstantFacts DEF PatientIn, Patient
<1> QED
  BY <1>5, <1>6 DEF EndTick

\* A grant ends the wish of the train it serves.
LEMMA GrantPatient ==
    ASSUME SysInv, SysInv', PInv, NEW id \in Trains, Acknowledged(id)
    PROVE  \A i \in Used' : PatientIn(i)'
<1> SUFFICES ASSUME NEW i \in Used' PROVE PatientIn(i)'
  OBVIOUS
<1> DEFINE trk == Wanted(id)
<1>1. /\ Grant(id, trk) /\ trk \in Requestable[id] /\ cursor = Idle /\ cursor' = Idle
      /\ pc \in [Trains -> PcStates] /\ train \in [Trains -> LocalStates]
      /\ manager_up' = manager_up
      /\ pc[id] # "killed"
      /\ \A other \in Trains \ {id} : pc'[other] = pc[other] /\ train'[other] = train[other]
  BY WantedIsRequestable DEF Acknowledged, Grant, Serves, office, SysInv, Processes
<1> HIDE DEF trk
<1>2. PICK s \in Slots : ServedSlot(id, trk, s)
  BY <1>1, ServedSlotFacts
<1>3. Late(i)' = 0 /\ \A j \in Used : Late(j) = 0
  BY <1>1 DEF Late
<1>4. CASE i # s
  <2>1. /\ i \in Used /\ active_trains'[i] = active_trains[i]
        /\ train_request_states'[i] = train_request_states[i]
        /\ active_trains'[s].train_id = id /\ s \in Used'
    BY <1>2, <1>4 DEF ServedSlot
  <2>2. active_trains[i].train_id \in Trains \ {id}
    BY <1>4, <2>1 DEF SysInv, IInv, SlotsAligned
  <2>3. PatientIn(i) /\ Late(i) <= Late(i)'
    BY <1>3, <2>1 DEF PInv
  <2> QED
    BY <1>1, <2>1, <2>2, <2>3, SlotStaysPatient
<1>5. CASE i = s
  <2>1. /\ active_trains'[i].train_id = id /\ train_request_states'[i].wants = NoTrack
        /\ ~ IsCached(id) => train_request_states'[i].state = "ACTIVE"
        /\ IsCached(id) => /\ i \in Used /\ active_trains[i].train_id = id
                           /\ train_request_states'[i].state = train_request_states[i].state
    BY <1>1, <1>2, <1>5 DEF ServedSlot
  <2>2. train_request_states'[i].state # "STUCK"
    <3>1. CASE IsCached(id)
      BY <1>1, <2>1, <3>1 DEF PInv, PatientIn, Patient
    <3> QED
      BY <2>1, <3>1
  <2> QED
    BY <2>1, <2>2 DEF PatientIn, Patient
<1> QED
  BY <1>4, <1>5

\* A denial makes the train wait for one more of them.
LEMMA DenialPatient ==
    ASSUME SysInv, SysInv', TInv, PInv, Admission, DistinctStarts, NEW id \in Trains, Denied(id)
    PROVE  \A i \in Used' : PatientIn(i)'
<1> DEFINE trk == Wanted(id)
           l == train[id]
<1>1. /\ trk \in Requestable[id] /\ cursor = Idle /\ cursor' = Idle
      /\ pc \in [Trains -> PcStates] /\ train \in [Trains -> LocalStates]
      /\ manager_up' = manager_up /\ manager_up
      /\ pc[id] \in { "admitting", "retrying", "requesting" }
      /\ DenyNoData(id, trk) \/ ((DenyHeadOn(id, trk) \/ DenyBusy(id, trk)) /\ ~ Grant(id, trk))
      /\ \A other \in Trains \ {id} : pc'[other] = pc[other] /\ train'[other] = train[other]
  <2>1. /\ pc \in [Trains -> PcStates] /\ train \in [Trains -> LocalStates] /\ trk \in Requestable[id]
    BY WantedIsRequestable DEF SysInv, Processes
  <2>2. DenyNoData(id, trk) \/ DenyHeadOn(id, trk) \/ DenyBusy(id, trk)
    BY DEF Denied
  <2> HIDE DEF trk
  <2>3. cursor = Idle /\ cursor' = Idle
    BY <2>2 DEF DenyNoData, DenyHeadOn, DenyBusy, Serves, vars
  <2>4. DenyHeadOn(id, trk) \/ DenyBusy(id, trk) => ~ Grant(id, trk)
    BY DEF DenyHeadOn, DenyBusy, Grant
  <2> QED
    BY <2>1, <2>2, <2>3, <2>4 DEF Denied, office
<1>2. CASE DenyNoData(id, trk)
  <2>1. UNCHANGED vars /\ id \notin Cached
    BY <1>2 DEF DenyNoData, IsCached, Cached
  <2>2. \A other \in Cached : other \in Trains \ {id}
    BY <2>1 DEF Cached, SysInv, IInv, SlotsAligned
  <2> QED
    BY <1>1, <2>1, <2>2, QuietPatient
<1>3. CASE (DenyHeadOn(id, trk) \/ DenyBusy(id, trk)) /\ ~ Grant(id, trk)
  <2> SUFFICES ASSUME NEW i \in Used' PROVE PatientIn(i)'
    OBVIOUS
  <2>1. PICK s \in Slots : ServedSlot(id, trk, s)
    BY <1>1, <1>3, ServedSlotFacts
  <2>2. Late(i)' = 0 /\ \A j \in Used : Late(j) = 0
    BY <1>1 DEF Late
  <2>3. pc[id] \in {"retrying", "requesting"} /\ IsCached(id)
    <3>1. CASE pc[id] = "admitting"
      <4>1. trk = Start[id] /\ id \notin Cached
        BY <3>1 DEF Wanted, PInv, AwaitingNotCached, Awaiting
      <4>2. ~ IsCached(id)
        BY <4>1 DEF Cached, IsCached
      <4> QED
        BY <1>3, <3>1, <4>1, <4>2, FirstAnswer
    <3>2. CASE pc[id] # "admitting"
      <4>1. id \in Cached
        BY <1>1, <3>2 DEF Admission, UnderWayCached, Awaiting, Absent, Ended
      <4> QED
        BY <1>1, <3>2, <4>1 DEF Cached, IsCached
    <3> QED
      BY <3>1, <3>2
  <2>4. Heard(id) /\ Asks(id)
    BY <2>3 DEF TInv, Informed, Promised, Awaiting, Absent, Ended
  <2>5. /\ pc'[id] = "answered"
        /\ train'[id].track = l.track /\ train'[id].asked = l.asked /\ train'[id].ticks = l.ticks
        /\ train'[id].since = 0 /\ train'[id].denies = l.denies + 1
    BY <1>1, <2>3 DEF Denied, LocalStates
  <2>6. trk = Destination[id]
    BY <2>3 DEF Wanted
  <2> HIDE DEF trk
  <2>7. CASE i # s
    <3>1. /\ i \in Used /\ active_trains'[i] = active_trains[i]
          /\ train_request_states'[i] = train_request_states[i]
          /\ active_trains'[s].train_id = id /\ s \in Used'
      BY <2>1, <2>7 DEF ServedSlot
    <3>2. active_trains[i].train_id \in Trains \ {id}
      BY <2>7, <3>1 DEF SysInv, IInv, SlotsAligned
    <3>3. PatientIn(i) /\ Late(i) <= Late(i)'
      BY <2>2, <3>1 DEF PInv
    <3> QED
      BY <1>1, <3>1, <3>2, <3>3, SlotStaysPatient
  <2>8. CASE i = s
    <3> DEFINE r == train_request_states[i]
               q == train_request_states'[i]
    <3>1. /\ active_trains'[i].train_id = id /\ i \in Used /\ active_trains[i].train_id = id
          /\ active_trains'[i].track_id \in {active_trains[i].track_id, NoTrack}
          /\ q.state = r.state /\ q.wants = trk
          /\ q.waited = IF trk = r.wants THEN r.waited ELSE 0
      BY <1>3, <2>1, <2>3, <2>8 DEF ServedSlot
    <3>2. PatientIn(i) /\ Late(i) = 0
      BY <2>2, <3>1 DEF PInv
    <3>3. Patient(pc[id], l, manager_up, active_trains[i], r, 0)
      BY <3>1, <3>2 DEF PatientIn
    <3>4. r.waited \in Int /\ l.denies \in Nat /\ l.since \in Nat /\ l.since <= REQUEST_RETRY_TICKS
          /\ REQUEST_RETRY_TICKS \in Nat /\ l.denies * REQUEST_RETRY_TICKS \in Nat
          /\ (l.denies + 1) * REQUEST_RETRY_TICKS = l.denies * REQUEST_RETRY_TICKS + REQUEST_RETRY_TICKS
      BY <3>1, PatientTypes, Counters, OneMoreDenial
    <3>5. q.state # "STUCK"
      BY <2>3, <3>1, <3>3 DEF Patient
    <3>6. ASSUME active_trains'[i].track_id # NoTrack
          PROVE  /\ active_trains'[i].track_id = l.track
                 /\ ~ l.asked /\ l.track # Destination[id] /\ l.ticks >= REQUEST_AFTER_TICKS
      <4>1. active_trains'[i].track_id \in Places(id)
        BY <3>1, <3>6 DEF Places
      <4>2. active_trains'[i].track_id = l.track
        BY <2>4, <3>6, <4>1 DEF Heard
      <4> QED
        BY <2>4, <3>6, <4>2 DEF Asks
    <3>7. ASSUME q.wants # NoTrack, active_trains'[i].track_id # NoTrack
          PROVE  q.waited + REQUEST_RETRY_TICKS <= (l.denies + 1) * REQUEST_RETRY_TICKS + 0 + 0
      <4>1. CASE trk = r.wants
        <5>1. r.waited + REQUEST_RETRY_TICKS <= l.denies * REQUEST_RETRY_TICKS + l.since + 0
          BY <1>1, <2>3, <3>1, <3>3, <3>7, <4>1 DEF Patient
        <5> QED
          BY <3>1, <3>4, <4>1, <5>1
      <4>2. CASE trk # r.wants
        BY <3>1, <3>4, <4>2
      <4> QED
        BY <4>1, <4>2
    <3> HIDE DEF q
    <3>8. Patient(pc'[id], train'[id], manager_up', active_trains'[i], q, 0)
      BY <2>5, <3>1, <3>5, <3>6, <3>7 DEF Patient, Awaiting, Absent, Ended
    <3> QED
      BY <2>2, <3>1, <3>8 DEF PatientIn, q, Patient
  <2> QED
    BY <2>7, <2>8
<1> QED
  BY <1>1, <1>2, <1>3

\* A release ends the wish of the train that leaves.
LEMMA ReleasePatient ==
    ASSUME SysInv, SysInv', PInv, NEW id \in Trains, Released(id)
    PROVE  \A i \in Used' : PatientIn(i)'
<1> SUFFICES ASSUME NEW i \in Used' PROVE PatientIn(i)'
  OBVIOUS
<1> DEFINE s == find_train_index(id)
<1>1. /\ Release(id, train[id].track) /\ cursor = Idle /\ cursor' = Idle
      /\ active_train_count' = active_train_count
      /\ pc \in [Trains -> PcStates] /\ train' = train /\ manager_up' = manager_up
      /\ pc[id] # "killed"
      /\ \A other \in Trains \ {id} : pc'[other] = pc[other]
  BY DEF Released, Release, office, SysInv, Processes
<1>2. i \in Used /\ i \in Slots /\ PatientIn(i) /\ Late(i) = 0 /\ Late(i)' = 0
  BY <1>1, PatientTypes DEF Used, PInv, Late
<1>3. /\ active_trains[i] \in TrainRecords /\ train_request_states[i] \in Requests
      /\ active_trains[i].train_id \in Trains
  BY <1>2, PatientTypes
<1>4. CASE active_trains[i].train_id # id
  <2>1. i # s
    <3>1. IsCached(id) => active_trains[s].train_id = id
      BY IndexFacts DEF find_train_index, IsCached, SysInv, IInv, TypeOK, SlotsAligned
    <3>2. ~ IsCached(id) => s = NoSlot
      BY DEF find_train_index, IndexOf, IsCached
    <3> QED
      BY <1>2, <1>4, <3>1, <3>2, ConstantFacts
  <2>2. active_trains'[i] = active_trains[i] /\ train_request_states'[i] = train_request_states[i]
    BY <1>1, <1>2, <2>1 DEF Release
  <2>3. Late(i) <= Late(i)' /\ active_trains[i].train_id \in Trains \ {id}
    BY <1>2, <1>3, <1>4
  <2> QED
    BY <1>1, <1>2, <2>2, <2>3, SlotStaysPatient
<1>5. CASE active_trains[i].train_id = id
  <2>1. i = s
    <3>1. s \in Used /\ active_trains[s].train_id = id
      BY <1>2, <1>5, IndexFacts DEF find_train_index, SysInv, IInv, TypeOK, SlotsAligned
    <3> QED
      BY <1>2, <1>5, <3>1 DEF SysInv, IInv, SlotsAligned
  <2>2. /\ active_trains'[i] = [ active_trains[i] EXCEPT !.track_id = NoTrack, !.moving = FALSE ]
        /\ train_request_states'[i] = UpdateRequestState(train_request_states[i], NoTrack, NoTrack)
    BY <1>1, <1>2, <2>1 DEF Release
  <2>3. active_trains'[i].train_id = id
    BY <1>3, <1>5, <2>2 DEF TrainRecords
  <2>4. /\ train_request_states'[i].wants = NoTrack
        /\ train_request_states'[i].state = train_request_states[i].state
    <3> DEFINE r == train_request_states[i]
    <3>1. r \in Requests /\ NoTrack \in Int
      BY <1>3, ConstantFacts
    <3> HIDE DEF r
    <3>2. UpdateRequestState(r, NoTrack, NoTrack).wants = NoTrack
      BY <3>1, UpdateFacts
    <3>3. UpdateRequestState(r, NoTrack, NoTrack).state = r.state
      BY <3>1, UpdateWaits
    <3> QED
      BY <2>2, <3>2, <3>3 DEF r
  <2> QED
    BY <1>1, <1>2, <1>5, <2>3, <2>4 DEF PatientIn, Patient
<1> QED
  BY <1>4, <1>5

\* A train that ends without a release, because there is no manager or because
\* it is on no track, leaves no wish behind that the manager minds.
LEMMA EndingPatient ==
    ASSUME SysInv, SysInv', PInv, OnBlocks, UNCHANGED vars, UNCHANGED manager_up, NEW id \in Trains,
           pc[id] # "killed", train[id].track < 0 \/ ~ manager_up,
           \A other \in Trains \ {id} : pc'[other] = pc[other] /\ train'[other] = train[other]
    PROVE  \A i \in Used' : PatientIn(i)'
<1> SUFFICES ASSUME NEW i \in Used' PROVE PatientIn(i)'
  OBVIOUS
<1>1. /\ i \in Used /\ active_trains' = active_trains /\ cursor' = cursor
      /\ train_request_states' = train_request_states
  BY DEF vars, Used
<1>2. PatientIn(i) /\ Late(i)' = Late(i) /\ Late(i) <= Late(i)'
  <2>1. Late(i) \in {0, 1} /\ Late(i)' = Late(i)
    BY <1>1 DEF Late
  <2> QED
    BY <1>1, <2>1 DEF PInv
<1>3. active_trains[i].train_id \in Trains /\ active_trains[i].track_id \in Blocks \union {NoTrack}
  BY <1>1, PatientTypes DEF OnBlocks
<1>4. CASE active_trains[i].train_id # id
  <2>1. active_trains[i].train_id \in Trains \ {id}
    BY <1>3, <1>4
  <2> QED
    BY <1>1, <1>2, <2>1, SlotStaysPatient
<1>5. CASE active_trains[i].train_id = id
  <2>1. active_trains[i].track_id = train[id].track /\ train[id].track < 0 =>
            active_trains[i].track_id = NoTrack
    <3>1. \A b \in Blocks : ~ b < 0
      BY ConstantFacts
    <3> QED
      BY <1>3, <3>1
  <2> QED
    BY <1>1, <1>2, <1>5, <2>1 DEF PatientIn, Patient
<1> QED
  BY <1>4, <1>5

\* A train decides for itself.
LEMMA DecisionPatient ==
    ASSUME SysInv, SysInv', PInv, OnBlocks, NEW id \in Trains, Decide(id)
    PROVE  \A i \in Used' : PatientIn(i)'
<1>1. /\ UNCHANGED vars /\ train' = train /\ manager_up' = manager_up /\ pc[id] # "killed"
      /\ pc \in [Trains -> PcStates] /\ pc' = [ pc EXCEPT ![id] = pc'[id] ]
      /\ pc'[id] \notin Awaiting \union Absent \/ train[id].track < 0
  <2>1. pc \in [Trains -> PcStates] /\ train[id].track \in Int
    BY Counters DEF SysInv, Processes, LocalStates
  <2>2. CASE Retry(id) \/ Request(id) \/ Finish(id) \/ Continue(id)
    BY <2>1, <2>2 DEF Retry, Request, Finish, Continue, Settled, office, Awaiting, Absent, Ended
  <2>3. CASE GiveUp(id) \/ Abort(id)
    BY <2>1, <2>3 DEF GiveUp, Abort, Settled, office, Awaiting, Absent, Ended
  <2> QED
    BY <2>2, <2>3 DEF Decide
<1>2. \A other \in Trains \ {id} : pc'[other] = pc[other] /\ train'[other] = train[other]
  BY <1>1
<1>3. CASE train[id].track < 0
  BY <1>1, <1>2, <1>3, EndingPatient
<1>4. CASE pc'[id] \notin Awaiting \union Absent
  <2>1. \A other \in Cached : other \in Trains
    BY DEF Cached, SysInv, IInv, SlotsAligned
  <2> QED
    BY <1>1, <1>2, <1>4, <2>1, QuietPatient
<1> QED
  BY <1>1, <1>3, <1>4

\* An update makes up for the tick of its train: a train that asks counts it.
LEMMA UpdatePatient ==
    ASSUME SysInv, SysInv', TInv, PInv, NEW id \in Trains, Update(id)
    PROVE  \A i \in Used' : PatientIn(i)'
<1> SUFFICES ASSUME NEW i \in Used' PROVE PatientIn(i)'
  OBVIOUS
<1> DEFINE l == train[id]
           at == active_trains[cursor].track_id
           moving == active_trains[cursor].moving
           m == AfterUpdate(l, id, at, moving)
<1>1. /\ cursor \in Used /\ cursor' = cursor + 1 /\ active_trains[cursor].train_id = id
      /\ UNCHANGED << active_trains, active_train_count, train_request_states >>
      /\ manager_up' = manager_up /\ manager_up
      /\ pc \in [Trains -> PcStates] /\ train \in [Trains -> LocalStates]
      /\ pc[id] = "receiving" /\ pc'[id] = "woken" /\ train'[id] = m
      /\ \A other \in Trains \ {id} : pc'[other] = pc[other] /\ train'[other] = train[other]
  BY DEF Update, AtCursor, UpdateSent, office, SysInv, Processes
<1>2. i \in Used /\ i \in Int /\ cursor \in Nat /\ PatientIn(i)
  BY <1>1, PatientTypes, ConstantFacts DEF Used, PInv, SysInv, IInv, TypeOK
<1>3. CASE i # cursor
  <2>1. Late(i) <= Late(i)'
    BY <1>1, <1>2, <1>3 DEF Late, Idle
  <2>2. active_trains[i].train_id \in Trains \ {id}
    BY <1>1, <1>2, <1>3 DEF SysInv, IInv, SlotsAligned
  <2> QED
    BY <1>1, <1>2, <2>1, <2>2, SlotStaysPatient
<1>4. CASE i = cursor
  <2>1. Late(i) = 1 /\ Late(i)' = 0
    BY <1>1, <1>2, <1>4 DEF Late, Idle
  <2>2. at \in Int /\ moving \in BOOLEAN /\ l \in LocalStates
    BY <1>1, <1>2, <1>4, PatientTypes DEF TrainRecords
  <2>3. /\ m.track = at /\ m.denies = l.denies
        /\ m.since = OneMore(l.since, REQUEST_RETRY_TICKS)
        /\ l.track = at => m.asked = l.asked /\ m.ticks >= l.ticks
    BY <2>2, UpdateCounts
  <2> HIDE DEF m, moving
  <2> DEFINE r == train_request_states[i]
  <2>4. Patient("receiving", l, TRUE, active_trains[i], r, 1)
    BY <1>1, <1>2, <1>4, <2>1 DEF PatientIn, Patient
  <2>5. /\ r.waited \in Int /\ l.ticks \in Int /\ REQUEST_AFTER_TICKS \in Nat
        /\ l.denies * REQUEST_RETRY_TICKS \in Nat /\ l.since \in Nat /\ REQUEST_RETRY_TICKS \in Nat
    BY <1>2, <2>2, PatientTypes, Counters, TicksAssumption DEF LocalStates
  <2>6. m.ticks \in Int
    BY <1>1, SysInv' DEF SysInv, Processes, LocalStates
  <2>7. ASSUME r.wants # NoTrack, at # NoTrack
        PROVE  /\ at = m.track /\ ~ m.asked /\ m.track # Destination[id] /\ m.ticks >= REQUEST_AFTER_TICKS
               /\ r.waited + REQUEST_RETRY_TICKS <= m.denies * REQUEST_RETRY_TICKS + m.since + 0
    <3>1. /\ at = l.track /\ ~ l.asked /\ l.track # Destination[id] /\ l.ticks >= REQUEST_AFTER_TICKS
          /\ r.waited + REQUEST_RETRY_TICKS <= l.denies * REQUEST_RETRY_TICKS + l.since + 1
      BY <1>1, <1>4, <2>4, <2>7 DEF Patient
    <3>2. Asks(id)
      BY <3>1 DEF Asks
    <3>3. l.since < REQUEST_RETRY_TICKS
      BY <1>1, <3>2 DEF TInv, Informed, Awaiting, Absent, Ended
    <3>4. m.since = l.since + 1
      BY <2>3, <3>3 DEF OneMore
    <3> QED
      BY <2>3, <2>5, <2>6, <3>1, <3>4
  <2>8. Patient("woken", m, TRUE, active_trains[i], r, 0)
    BY <1>1, <1>4, <2>4, <2>7 DEF Patient, Awaiting, Absent, Ended
  <2> QED
    BY <1>1, <1>4, <2>1, <2>8 DEF PatientIn, Patient
<1> QED
  BY <1>3, <1>4

\* The manager passes over a train without a process, or forgets it.
LEMMA NoUpdatePatient ==
    ASSUME SysInv, SysInv', PInv, NEW id \in Trains, NoUpdate(id)
    PROVE  \A i \in Used' : PatientIn(i)'
<1> SUFFICES ASSUME NEW i \in Used' PROVE PatientIn(i)'
  OBVIOUS
<1>1. /\ cursor \in Used /\ active_trains[cursor].train_id = id /\ pc[id] \in Absent
      /\ pc' = pc /\ train' = train /\ manager_up' = manager_up
  BY DEF NoUpdate, AtCursor, office
<1>2. cursor \in Nat
  BY <1>1, ConstantFacts DEF Used, SysInv, IInv, TypeOK
<1>3. CASE Cleanup
  <2>1. PICK j \in Used : /\ active_trains'[i] = active_trains[j]
                          /\ train_request_states'[i] = train_request_states[j]
                          /\ i < cursor => j = i
    BY <1>3, CleanupCopies DEF SysInv, IInv
  <2>2. cursor' = cursor /\ i \in Int
    <3>1. Used' \subseteq Int
      BY ConstantFacts DEF Used
    <3> QED
      BY <1>3, <3>1 DEF Cleanup
  <2>3. Late(j) <= Late(i)'
    BY <1>2, <2>1, <2>2 DEF Late, Idle
  <2>4. PatientIn(j)
    BY DEF PInv
  <2> QED
    BY <1>1, <2>1, <2>3, <2>4, SlotStaysPatient
<1>4. CASE UpdateSkipped \/ UpdateSent
  <2>1. /\ UNCHANGED << active_trains, active_train_count, train_request_states >>
        /\ cursor' = cursor + 1
    BY <1>4 DEF UpdateSkipped, UpdateSent
  <2>2. i \in Used /\ i \in Int /\ PatientIn(i)
    BY <2>1, PatientTypes DEF Used, PInv
  <2>3. CASE i # cursor
    <3>1. Late(i) <= Late(i)'
      BY <1>2, <2>1, <2>2, <2>3 DEF Late, Idle
    <3> QED
      BY <1>1, <2>1, <2>2, <3>1, SlotStaysPatient
  <2>4. CASE i = cursor
    BY <1>1, <2>1, <2>2, <2>4 DEF PatientIn, Patient
  <2> QED
    BY <2>3, <2>4
<1> QED
  BY <1>3, <1>4 DEF NoUpdate

\* A train whose first request is not answered is not on record.
LEMMA AwaitingStep ==
    ASSUME SysInv, Reads, AwaitingNotCached, ~ Reruns, [SysNext]_sysvars
    PROVE  AwaitingNotCached'
<1>1. ASSUME \A id \in Trains : pc'[id] \in Awaiting => pc[id] \in Awaiting, Cached' \subseteq Cached
      PROVE  AwaitingNotCached'
  BY <1>1 DEF AwaitingNotCached
<1>2. pc \in [Trains -> PcStates]
  BY DEF SysInv, Processes
<1>3. CASE UNCHANGED sysvars \/ StartTick \/ EndTick \/ ManagerStops
  <2>1. Cached' \subseteq Cached
    <3>1. CASE UNCHANGED << active_trains, active_train_count >>
      BY <3>1, OtherCached
    <3>2. CASE CheckAndRollBack
      BY <3>2, OtherCached
    <3> QED
      BY <1>3, <3>1, <3>2
      DEF sysvars, vars, StartTick, TickPulse, EndTick, TickDone, CheckOnly, ManagerStops
  <2>2. pc' = pc
    BY <1>3 DEF sysvars, StartTick, EndTick, ManagerStops
  <2> QED
    BY <1>1, <2>1, <2>2
<1>4. CASE ControllerStep
  <2>1. Cached' = Cached
    BY <1>4 DEF ControllerStep, SkipLine, LaunchTrain, FinishLoading, ControllerExit, vars, Cached, Used
  <2>2. CASE LaunchTrain
    <3> DEFINE new == NextLine[1]
    <3>1. controller = "loading" /\ IsTrainLine(NextLine) /\ lines_read < Len(TrainLines)
      BY <2>2 DEF LaunchTrain, Reading
    <3>2. lines_read + 1 \in lines_read + 1 .. Len(TrainLines)
      BY <3>1, LinesAssumption DEF SysInv, Registry
    <3>3. pc[new] = "unborn"
      BY <3>1, <3>2 DEF SysInv, Registry, NextLine
    <3>4. \A id \in Trains : pc'[id] = pc[id] \/ id = new
      BY <1>2, <2>2 DEF LaunchTrain
    <3> QED
      BY <1>1, <2>1, <3>3, <3>4 DEF Awaiting
  <2>3. CASE ~ LaunchTrain
    BY <1>1, <1>4, <2>1, <2>3 DEF ControllerStep, SkipLine, FinishLoading, ControllerExit
  <2> QED
    BY <2>2, <2>3
<1>5. ASSUME NEW id \in Trains, TrainStep(id) \/ Crash(id)
      PROVE  AwaitingNotCached'
  <2>1. CASE Acknowledged(id) \/ Denied(id)
    <3>1. \A other \in Trains : pc'[other] \in Awaiting => other # id /\ pc[other] \in Awaiting
      BY <1>2, <2>1 DEF Acknowledged, Denied, Awaiting
    <3>2. Cached' \subseteq Cached \union {id}
      <4>1. CASE DenyNoData(id, Wanted(id))
        BY <4>1 DEF DenyNoData, vars, Cached, Used
      <4>2. CASE ~ DenyNoData(id, Wanted(id))
        BY <2>1, <4>2, ServedCached DEF Acknowledged, Denied
      <4> QED
        BY <4>1, <4>2
    <3> QED
      BY <3>1, <3>2 DEF AwaitingNotCached
  <2>2. CASE ~ (Acknowledged(id) \/ Denied(id))
    <3>1. \A other \in Trains : pc'[other] \in Awaiting => pc[other] \in Awaiting
      <4>1. CASE Released(id) \/ SendFails(id)
        BY <1>2, <4>1 DEF Released, AfterRelease, SendFails, Sending, Awaiting
      <4>2. CASE Update(id) \/ NoUpdate(id) \/ Crash(id)
        BY <1>2, <4>2 DEF Update, NoUpdate, Crash, Awaiting
      <4>3. CASE Decide(id)
        BY <1>2, <4>3 DEF Decide, Retry, Request, Finish, GiveUp, Abort, Continue, Awaiting
      <4> QED
        BY <1>5, <2>2, <4>1, <4>2, <4>3 DEF TrainStep
    <3>2. \/ UNCHANGED << active_trains, active_train_count >>
          \/ Cleanup
          \/ Release(id, train[id].track)
      BY <1>5, <2>2
      DEF TrainStep, Released, SendFails, Update, UpdateSent, NoUpdate, UpdateSkipped, Decide, Retry,
          Request, Finish, GiveUp, Abort, Continue, Crash, vars
    <3>3. Cached' \subseteq Cached
      BY <3>2, OtherCached
    <3> QED
      BY <1>1, <3>1, <3>3
  <2> QED
    BY <2>1, <2>2
<1>6. CASE Rerun
  BY <1>6 DEF Rerun
<1> QED
  BY <1>3, <1>4, <1>5, <1>6 DEF SysNext

\* Trains are denied between ticks only, and those that were denied too often
\* have left or are leaving when the next tick is handled.
LEMMA TickDenialsStep ==
    ASSUME SysInv, TickDenials, [TimelyNext]_sysvars
    PROVE  TickDenials'
<1>1. pc \in [Trains -> PcStates] /\ train \in [Trains -> LocalStates]
  BY DEF SysInv, Processes
<1>2. CASE TimelyTick
  <2>1. UNCHANGED << pc, train >> /\ \A id \in Trains : pc[id] \in {"receiving"} \union Absent
    BY <1>2 DEF TimelyTick, StartTick, AllSettled
  <2> QED
    BY <2>1 DEF TickDenials, SysInv, Processes, Hopeful
<1>3. CASE EndTick
  BY <1>3 DEF EndTick, TickDone, CheckOnly, CheckAndRollBack, TickDenials
<1>4. ASSUME cursor' = Idle
      PROVE  TickDenials'
  BY <1>4 DEF TickDenials
<1>5. ASSUME cursor' # Idle => cursor # Idle,
             \A id \in Trains : /\ pc'[id] \notin Awaiting \union Absent => pc[id] \notin Awaiting \union Absent
                                /\ train'[id].denies = train[id].denies
      PROVE  TickDenials'
  BY <1>5 DEF TickDenials
<1>6. CASE UNCHANGED sysvars \/ ManagerStops
  BY <1>5, <1>6 DEF sysvars, vars, ManagerStops
<1>7. CASE TimelyControllerStep
  <2>1. UNCHANGED vars /\ train' = train
    BY <1>7 DEF TimelyControllerStep, ControllerStep, SkipLine, LaunchTrain, FinishLoading, ControllerExit
  <2>2. \A id \in Trains : pc'[id] = pc[id] \/ pc'[id] \in Awaiting \union Absent
    BY <1>1, <1>7 DEF TimelyControllerStep, ControllerStep, SkipLine, LaunchTrain, FinishLoading,
                      ControllerExit, Awaiting, Absent, Ended
  <2> QED
    BY <1>5, <2>1, <2>2 DEF vars
<1>8. CASE Rerun
  BY <1>1, <1>5, <1>8 DEF Rerun, Awaiting, TickDenials, vars
<1>9. ASSUME NEW id \in Trains, Acknowledged(id) \/ Denied(id) \/ Released(id)
      PROVE  TickDenials'
  <2>1. \/ cursor' = Idle
        \/ cursor' = cursor /\ cursor = Idle
    BY <1>9 DEF Acknowledged, Denied, Released, Grant, Release, DenyNoData, DenyHeadOn, DenyBusy,
                Serves, vars
  <2> QED
    BY <1>4, <2>1
<1>10. ASSUME NEW id \in Trains, SendFails(id) \/ Decide(id) \/ Crash(id)
       PROVE  TickDenials'
  <2>1. /\ UNCHANGED vars /\ pc[id] \notin Absent
        /\ \A other \in Trains : pc'[other] = pc[other] \/ other = id
        /\ pc'[id] \notin Awaiting \union Absent => pc[id] \notin Awaiting
    BY <1>1, <1>10
    DEF SendFails, Sending, AfterRelease, Decide, Retry, Request, Finish, GiveUp, Abort, Continue,
        Settled, Crash, Awaiting, Absent, Ended
  <2>2. \A other \in Trains : train'[other].denies = train[other].denies
    <3>1. CASE train' = train
      BY <3>1
    <3>2. CASE SendFails(id)
      <4> DEFINE since == IF pc[id] \in {"retrying", "requesting"} THEN 0 ELSE train[id].since
      <4>1. train' = [ train EXCEPT ![id] = [ train[id] EXCEPT !.since = since ] ]
        BY <3>2 DEF SendFails
      <4> HIDE DEF since
      <4> QED
        BY <1>1, <4>1 DEF LocalStates
    <3> QED
      BY <1>10, <3>1, <3>2 DEF Decide, Retry, Request, Finish, GiveUp, Abort, Continue, Crash
  <2> QED
    BY <1>5, <2>1, <2>2 DEF vars
<1>11. ASSUME NEW id \in Trains, Update(id) \/ NoUpdate(id)
       PROVE  TickDenials'
  <2>1. cursor \in Used /\ cursor # Idle
    BY <1>11, ConstantFacts DEF Update, NoUpdate, AtCursor, Used, Idle
  <2>2. CASE NoUpdate(id)
    BY <1>5, <2>1, <2>2 DEF NoUpdate
  <2>3. CASE Update(id)
    <3> DEFINE at == active_trains[cursor].track_id
               moving == active_trains[cursor].moving
               m == AfterUpdate(train[id], id, at, moving)
    <3>1. /\ train' = [ train EXCEPT ![id] = m ] /\ pc' = [ pc EXCEPT ![id] = "woken" ]
          /\ pc[id] = "receiving"
      BY <2>3 DEF Update
    <3>2. at \in Int /\ moving \in BOOLEAN
      BY <2>1, PatientTypes DEF TrainRecords
    <3> HIDE DEF at, moving
    <3>3. m.denies = train[id].denies
      BY <1>1, <3>2, UpdateCounts
    <3> HIDE DEF m
    <3> QED
      BY <1>1, <1>5, <2>1, <3>1, <3>3 DEF Awaiting, Absent, Ended
  <2> QED
    BY <1>11, <2>2, <2>3
<1> QED
  BY <1>2, <1>3, <1>6, <1>7, <1>8, <1>9, <1>10, <1>11 DEF TimelyNext, TrainStep

\* Every step of a system that is run once keeps its trains patient.
LEMMA PatienceStep ==
    ASSUME SysInv, SysInv', Reads, TInv, OnBlocks, Admission, PInv, DistinctStarts, ~ Reruns,
           (MAX_CONSECUTIVE_DENIES - 1) * REQUEST_RETRY_TICKS <= StuckAfter, [TimelyNext]_sysvars
    PROVE  PInv'
<1>1. [SysNext]_sysvars
  BY DEF TimelyNext, SysNext, TimelyTick, TimelyControllerStep
<1>2. AwaitingNotCached' /\ TickDenials'
  <2>1. AwaitingNotCached'
    BY <1>1, AwaitingStep DEF PInv
  <2>2. TickDenials'
    BY TickDenialsStep DEF PInv
  <2> QED
    BY <2>1, <2>2
<1> DEFINE Kept == \A i \in Used' : PatientIn(i)'
<1>3. ASSUME TimelyTick PROVE Kept
  BY <1>3, TickPatient DEF TimelyTick
<1>4. ASSUME EndTick PROVE Kept
  BY <1>4, CheckPatient
<1>5. ASSUME NEW id \in Trains, TrainStep(id)
      PROVE  Kept
  <2>1. CASE SendFails(id)
    <3>1. /\ UNCHANGED vars /\ manager_up' = manager_up /\ ~ manager_up /\ pc[id] # "killed"
          /\ \A other \in Trains \ {id} : pc'[other] = pc[other] /\ train'[other] = train[other]
      BY <2>1 DEF SendFails, Sending, office, SysInv, Processes
    <3> QED
      BY <3>1, EndingPatient
  <2>2. CASE Acknowledged(id) \/ Denied(id) \/ Released(id)
    BY <2>2, GrantPatient, DenialPatient, ReleasePatient
  <2>3. CASE Update(id) \/ NoUpdate(id) \/ Decide(id)
    BY <2>3, UpdatePatient, NoUpdatePatient, DecisionPatient
  <2> QED
    BY <1>5, <2>1, <2>2, <2>3 DEF TrainStep
<1>6. \A id \in Cached : id \in Trains
  BY DEF Cached, SysInv, IInv, SlotsAligned
<1>7. ASSUME NEW id \in Trains, Crash(id)
      PROVE  Kept
  <2>1. /\ UNCHANGED << vars, train >> /\ manager_up' = manager_up
        /\ \A other \in Trains : pc'[other] = pc[other] \/ pc'[other] = "killed"
    BY <1>7 DEF Crash, office, SysInv, Processes
  <2>2. \A other \in Cached : /\ train'[other] = train[other]
                              /\ pc'[other] = pc[other] \/ pc'[other] = "killed"
    BY <1>6, <2>1
  <2> QED
    BY <2>1, <2>2, QuietPatient
<1>8. ASSUME UNCHANGED sysvars \/ ManagerStops PROVE Kept
  <2>1. UNCHANGED << vars, train, pc >> /\ (manager_up' => manager_up)
    BY <1>8 DEF sysvars, ManagerStops, office
  <2>2. \A id \in Cached : train'[id] = train[id] /\ pc'[id] = pc[id]
    BY <2>1
  <2> QED
    BY <2>1, <2>2, QuietPatient
<1>9. ASSUME ControllerStep PROVE Kept
  <2>1. UNCHANGED << vars, train >> /\ manager_up' = manager_up
    BY <1>9 DEF ControllerStep, SkipLine, LaunchTrain, FinishLoading, ControllerExit, office
  <2>2. \A id \in Cached : pc'[id] = pc[id]
    <3>1. CASE LaunchTrain
      <4> DEFINE new == NextLine[1]
      <4>1. controller = "loading" /\ IsTrainLine(NextLine) /\ lines_read < Len(TrainLines)
        BY <3>1 DEF LaunchTrain, Reading
      <4>2. lines_read + 1 \in lines_read + 1 .. Len(TrainLines)
        BY <4>1, LinesAssumption DEF SysInv, Registry
      <4>3. pc[new] = "unborn"
        BY <4>1, <4>2 DEF SysInv, Registry, NextLine
      <4>4. \A id \in Cached : id # new
        BY <1>6, <4>3 DEF PInv, AwaitingNotCached, Awaiting
      <4>5. \A id \in Trains : pc'[id] = pc[id] \/ id = new
        BY <3>1 DEF LaunchTrain, SysInv, Processes
      <4> QED
        BY <1>6, <4>4, <4>5
    <3>2. CASE ~ LaunchTrain
      BY <1>9, <3>2 DEF ControllerStep, SkipLine, FinishLoading, ControllerExit
    <3> QED
      BY <3>1, <3>2
  <2>3. \A id \in Cached : train'[id] = train[id] /\ pc'[id] = pc[id]
    BY <2>1, <2>2
  <2> QED
    BY <2>1, <2>3, QuietPatient
<1>10. ASSUME Rerun PROVE Kept
  BY <1>10 DEF Rerun
<1> HIDE DEF Kept
<1>11. Kept
  BY <1>3, <1>4, <1>5, <1>7, <1>8, <1>9, <1>10 DEF Kept, TimelyNext, TimelyControllerStep
<1> QED
  BY <1>2, <1>11 DEF PInv, Kept

\* A system whose trains start on different blocks, that is run once, with
\* timely ticks, reports no train as stuck that would have moved on: a train
\* that is denied gives up before its wait counts as stuck, whatever it is
\* denied for, rolled back from or wished for in between.  In the code eight
\* denials end a train, 10 ticks apart; a wait counts as stuck after 500 ticks.
THEOREM TimelyOnlyKilledTrainsGetStuck ==
    ASSUME DistinctStarts, ~ Reruns,
           MAX_CONSECUTIVE_DENIES * REQUEST_RETRY_TICKS < MAX_NO_PROGRESS_TICKS,
           (MAX_CONSECUTIVE_DENIES - 1) * REQUEST_RETRY_TICKS <= StuckAfter
    PROVE  TimelySpec => []OnlyKilledTrainsGetStuck
<1>1. SysInit => SysInv /\ Reads /\ Admission /\ TInv /\ PInv
  <2>1. SysInit => Reads
    BY ReadsInit
  <2>2. SysInit => Admission
    BY DEF SysInit, Init, InitTable, Admission, SomeAwaiting, IsAwaiting, EarlyOnly, OwnedFromStart,
           UnderWayCached, Launched, Early, Awaiting, Absent
  <2>3. SysInit => TInv
    BY TInvInit
  <2>4. SysInit => PInv
    BY ConstantFacts DEF SysInit, Init, PInv, AwaitingNotCached, Cached, Used, TickDenials
  <2> QED
    BY <2>1, <2>2, <2>3, <2>4, SysInvInit
<1>2. SysInv /\ Reads /\ Admission /\ TInv /\ PInv /\ OnBlocks /\ [TimelyNext]_sysvars
          => (SysInv /\ Reads /\ Admission /\ TInv /\ PInv)'
  <2> SUFFICES ASSUME SysInv, Reads, Admission, TInv, PInv, OnBlocks, [TimelyNext]_sysvars
               PROVE  (SysInv /\ Reads /\ Admission /\ TInv /\ PInv)'
    OBVIOUS
  <2>1. [SysNext]_sysvars
    BY DEF TimelyNext, SysNext, TimelyTick, TimelyControllerStep
  <2>2. SysInv' /\ Reads' /\ Admission' /\ TInv'
    BY <2>1, SysInvStep, ReadsStep, AdmissionStep, InformedStep
  <2> QED
    BY <2>2, PatienceStep
<1>3. AInv => OnBlocks
  BY DEF AInv
<1>4. PInv => OnlyKilledTrainsGetStuck
  BY DEF PInv, PatientIn, Patient, OnlyKilledTrainsGetStuck
<1> QED
  BY <1>1, <1>2, <1>3, <1>4, TimelyAdmits, AdmittedInvariant, PTL DEF TimelySpec

-----------------------------------------------------------------------------
(***************************************************************************)
(* No block is lost.  A block is lost when its owner is taken off it and   *)
(* it is not freed, which a denial does to a train that the block's list   *)
(* does not show; and that comes of the removal of an earlier record.      *)
(***************************************************************************)
\* A train is on every block it owns, so it owns one at most.
Stands(id) == \A t \in Blocks : track_table[t] = id => Places(id) = {t}

\* The list of a block shows the train.
Shows(t, id) == listed[t] \in Used /\ active_trains[listed[t]].train_id = id

\* No denial will take the train off block t.
Undeniable(id, t) == t = Destination[id] \/ pc[id] \in Ended \/ Rivals(id) = {}

Safe(id) == \A t \in Blocks : track_table[t] = id => Shows(t, id) \/ Undeniable(id, t)

\* A train that ended of its own accord owns nothing.
LeftNothing(id) ==
    manager_up /\ pc[id] \in Ended \ {"killed"} => \A t \in Blocks : track_table[t] # id

Keeps(id) == Stands(id) /\ Safe(id) /\ LeftNothing(id)

KInv == AwaitingNotCached /\ \A id \in Trains : Keeps(id)

\* The trains are sent to blocks, and the manager's loops over the tracks meet
\* the blocks of their routes.
RoutesAreSeen ==
    \A id \in Trains : /\ Destination[id] \in Blocks
                       /\ \A t \in Requestable[id] \cap Blocks : t < track_count

\* What a release does to the table and to the lists.
LEMMA FreedBlocks ==
    ASSUME TypeOK, NEW id \in Trains, NEW trk,
           track_table' = TableAfterRelease(track_table, id, trk),
           listed' = ListedAfterRelease(track_table, listed, active_trains, id, trk)
    PROVE  /\ \A t \in Blocks : track_table'[t] \in {track_table[t], Free}
           /\ \A t \in Blocks : track_table'[t] # Free => listed'[t] = listed[t]
           /\ trk \in Blocks => track_table'[trk] # id
<1>1. track_table \in Tables /\ listed \in [Blocks -> Slots \union {NoSlot}]
  BY DEF TypeOK, Tables, Owners
<1>2. \A t \in Blocks : track_table'[t] \in {track_table[t], Free}
  BY <1>1, ReleaseFacts
<1>3. \A t \in Blocks : track_table'[t] # Free => listed'[t] = listed[t]
  BY <1>1, ReleaseKeepsListed
<1>4. trk \in Blocks => track_table'[trk] # id
  BY <1>1, ConstantFacts DEF TableAfterRelease, Releases, Tables
<1> QED
  BY <1>2, <1>3, <1>4

\* What a grant does to them.
LEMMA GrantedBlocks ==
    ASSUME SysInv, NEW id \in Trains, NEW trk, Grant(id, trk)
    PROVE  /\ trk \in Blocks /\ track_table'[trk] = id /\ listed'[trk] = SlotFor(id)
           /\ \A t \in Blocks \ {trk} :
                 /\ track_table'[t] \in {track_table[t], Free}
                 /\ track_table'[t] # Free => listed'[t] = listed[t]
                 /\ t = LocationOf(id) => track_table'[t] # id
<1> DEFINE old == LocationOf(id)
           s == SlotFor(id)
           trains == TrainsWith(id)
           taken == [ track_table EXCEPT ![trk] = id ]
           leave == old # NoTrack /\ old # trk
           after == TableAfterRelease(taken, id, old)
           list == ListedAfterRelease(taken, listed, trains, id, old)
<1>1. /\ trk \in Blocks
      /\ track_table' = IF leave THEN after ELSE taken
      /\ listed' = [ IF leave THEN list ELSE listed EXCEPT ![trk] = s ]
  BY DEF Grant, RequestGranted
<1>2. /\ taken \in Tables /\ taken[trk] = id /\ listed \in [Blocks -> Slots \union {NoSlot}]
      /\ \A t \in Blocks \ {trk} : taken[t] = track_table[t]
  BY <1>1 DEF SysInv, IInv, TypeOK, Tables, Owners
<1> HIDE DEF taken, trains, s
<1>3. list \in [Blocks -> Slots \union {NoSlot}]
  BY <1>2, UnlistFacts
<1>4. /\ \A t \in Blocks : after[t] \in {taken[t], Free}
      /\ \A t \in Blocks : taken[t] # id \/ t # old => after[t] = taken[t]
      /\ \A t \in Blocks : after[t] # Free => list[t] = listed[t]
  BY <1>2, ReleaseFacts, ReleaseKeepsListed
<1>5. old \in Blocks => after[old] # id
  BY <1>2, ConstantFacts DEF TableAfterRelease, Releases, Tables
<1> HIDE DEF after, list, old
<1>6. track_table'[trk] = id /\ listed'[trk] = s
  BY <1>1, <1>2, <1>3, <1>4
<1>7. ASSUME NEW t \in Blocks \ {trk}
      PROVE  /\ track_table'[t] \in {track_table[t], Free}
             /\ track_table'[t] # Free => listed'[t] = listed[t]
             /\ t = old => track_table'[t] # id
  <2>1. t = old => leave
    BY ConstantFacts
  <2> QED
    BY <1>1, <1>2, <1>3, <1>4, <1>5, <2>1
<1> QED
  BY <1>1, <1>6, <1>7 DEF s, old

\* A train becomes the owner of a block only by a request that is granted.
LEMMA OwnersAsked ==
    ASSUME SysInv, [SysNext]_sysvars, NEW x \in Trains, NEW t \in Blocks,
           track_table'[t] = x, track_table[t] # x
    PROVE  Acknowledged(x)
<1>1. TypeOK /\ x # Free
  BY ConstantFacts DEF SysInv, IInv
<1>2. track_table' # track_table
  OBVIOUS
<1>3. ~ EndTick
  <2> SUFFICES ASSUME EndTick PROVE FALSE
    OBVIOUS
  <2>1. CheckAndRollBack
    BY <1>2 DEF EndTick, TickDone, CheckOnly
  <2>2. \A b \in Blocks : track_table'[b] \in {track_table[b], Free}
    BY <2>1, RollBackStep DEF SysInv
  <2> QED
    BY <1>1, <2>2
<1>4. ASSUME NEW id \in Trains, Released(id) PROVE FALSE
  <2>1. Release(id, train[id].track)
    BY <1>4 DEF Released
  <2>2. \A b \in Blocks : track_table'[b] \in {track_table[b], Free}
    BY <1>1, <2>1, FreedBlocks DEF Release
  <2> QED
    BY <1>1, <2>2
<1>5. ASSUME NEW id \in Trains, TrainStep(id) PROVE Acknowledged(id)
  BY <1>2, <1>4, <1>5
  DEF TrainStep, Denied, DenyNoData, DenyHeadOn, DenyBusy, SendFails, Update, UpdateSent, NoUpdate,
      UpdateSkipped, Cleanup, Decide, Retry, Request, Finish, GiveUp, Abort, Continue, vars
<1>6. PICK id \in Trains : Acknowledged(id)
  BY <1>2, <1>3, <1>5
  DEF SysNext, StartTick, TickPulse, ControllerStep, SkipLine, LaunchTrain, FinishLoading,
      ControllerExit, Rerun, ManagerStops, Crash, vars, sysvars
<1>7. x = id
  <2>1. Grant(id, Wanted(id))
    BY <1>6 DEF Acknowledged
  <2> QED
    BY <1>1, <2>1, GrantedBlocks
<1> QED
  BY <1>6, <1>7

\* A train that has ended stays as it ended, in a system that is run once.
LEMMA EndedForGood ==
    ASSUME SysInv, ~ Reruns, [SysNext]_sysvars, NEW x \in Trains, pc[x] \in Ended
    PROVE  pc'[x] = pc[x]
<1>1. pc \in [Trains -> PcStates]
  BY DEF SysInv, Processes
<1>2. /\ pc[x] \notin Sending \union {"receiving", "woken", "answered", "unborn"}
      /\ pc[x] \in Absent
  BY DEF Sending, Ended, Absent
<1>3. ASSUME NEW id \in Trains, TrainStep(id) \/ Crash(id) PROVE pc'[x] = pc[x]
  <2>1. id # x \/ pc' = pc
    BY <1>2, <1>3
    DEF TrainStep, Acknowledged, Denied, Released, SendFails, Update, NoUpdate, Decide, Retry,
        Request, Finish, GiveUp, Abort, Continue, Settled, Crash, Sending
  <2>2. pc' = pc \/ \E p : pc' = [ pc EXCEPT ![id] = p ]
    BY <1>3
    DEF TrainStep, Acknowledged, Denied, Released, SendFails, Update, NoUpdate, Decide, Retry,
        Request, Finish, GiveUp, Abort, Continue, Crash
  <2> QED
    BY <1>1, <2>1, <2>2
<1>4. CASE ControllerStep
  <2>1. CASE LaunchTrain
    <3> DEFINE new == NextLine[1]
    <3>1. controller = "loading" /\ IsTrainLine(NextLine) /\ lines_read < Len(TrainLines)
      BY <2>1 DEF LaunchTrain, Reading
    <3>2. lines_read + 1 \in lines_read + 1 .. Len(TrainLines)
      BY <3>1, LinesAssumption DEF SysInv, Registry
    <3>3. pc[new] = "unborn"
      BY <3>1, <3>2 DEF SysInv, Registry, NextLine
    <3>4. \E p : pc' = [ pc EXCEPT ![new] = p ]
      BY <2>1 DEF LaunchTrain
    <3> HIDE DEF new
    <3> QED
      BY <1>1, <1>2, <3>3, <3>4
  <2>2. CASE ~ LaunchTrain
    BY <1>4, <2>2 DEF ControllerStep, SkipLine, FinishLoading, ControllerExit
  <2> QED
    BY <2>1, <2>2
<1>5. CASE UNCHANGED sysvars \/ StartTick \/ EndTick \/ ManagerStops
  BY <1>5 DEF sysvars, StartTick, EndTick, ManagerStops
<1>6. CASE Rerun
  BY <1>6 DEF Rerun
<1> QED
  BY <1>3, <1>4, <1>5, <1>6 DEF SysNext

\* So a train gets no new rivals.
LEMMA RivalsStay ==
    ASSUME SysInv, ~ Reruns, RoutesAreSeen, [SysNext]_sysvars, NEW id \in Trains
    PROVE  Rivals(id)' \subseteq Rivals(id)
<1> SUFFICES ASSUME NEW x \in Rivals(id)' PROVE x \in Rivals(id)
  OBVIOUS
<1>1. /\ x \in Trains \ {id} /\ Destination[id] \in Requestable[x] /\ Destination[id] \in Blocks
      /\ pc'[x] \notin Ended \/ track_table'[Destination[id]] = x
  BY DEF Rivals, RoutesAreSeen
<1>2. CASE pc'[x] \notin Ended
  <2>1. pc[x] \notin Ended
    BY <1>1, <1>2, EndedForGood
  <2> QED
    BY <1>1, <2>1 DEF Rivals
<1>3. CASE track_table'[Destination[id]] = x
  <2>1. track_table[Destination[id]] = x \/ pc[x] \notin Ended
    BY <1>1, <1>3, OwnersAsked DEF Acknowledged, Ended
  <2> QED
    BY <1>1, <2>1 DEF Rivals
<1> QED
  BY <1>1, <1>2, <1>3

\* A train whose blocks no step takes or writes anew.
LEMMA StaysSafe ==
    ASSUME SysInv, ~ Reruns, RoutesAreSeen, [SysNext]_sysvars,
           NEW x \in Trains, Stands(x), Safe(x),
           \A t \in Blocks : track_table'[t] = x =>
               /\ track_table[t] = x
               /\ Places(x)' = Places(x)
               /\ Shows(t, x) => Shows(t, x)' \/ Undeniable(x, t)
    PROVE  Stands(x)' /\ Safe(x)'
<1>1. Stands(x)'
  BY DEF Stands
<1>2. ASSUME NEW t \in Blocks, Undeniable(x, t) PROVE Undeniable(x, t)'
  BY <1>2, EndedForGood, RivalsStay DEF Undeniable
<1>3. Safe(x)'
  BY <1>2 DEF Safe
<1> QED
  BY <1>1, <1>3

\* A train that owned nothing, or goes on, or ends without owning anything.
LEMMA StaysRid ==
    ASSUME SysInv, ~ Reruns, [SysNext]_sysvars, NEW x \in Trains, LeftNothing(x),
           manager_up' => manager_up,
           pc'[x] = pc[x] \/ pc'[x] \notin Ended \ {"killed"}
                          \/ \A t \in Blocks : track_table[t] # x
    PROVE  LeftNothing(x)'
<1> SUFFICES ASSUME manager_up', pc'[x] \in Ended \ {"killed"}, NEW t \in Blocks, track_table'[t] = x
             PROVE  FALSE
  BY DEF LeftNothing
<1>1. \A b \in Blocks : track_table[b] # x
  BY DEF LeftNothing
<1>2. Acknowledged(x)
  BY <1>1, OwnersAsked
<1>3. pc'[x] \notin Ended
  BY <1>2 DEF Acknowledged, Ended, SysInv, Processes
<1> QED
  BY <1>3

\* A train that is located has a record, and its slot.
LEMMA PlacedIsCached ==
    ASSUME SysInv, NEW id, NEW t, t \in Places(id)
    PROVE  IsCached(id) /\ id \in Cached /\ \E i \in Used : /\ active_trains[i].train_id = id
                                                          /\ active_trains[i].track_id = t
  BY DEF Places, IsCached, Cached

\* A grant gives a train a block whose list then shows it.
LEMMA GrantKeeps ==
    ASSUME SysInv, KInv, ~ Reruns, RoutesAreSeen, NEW id \in Trains, Acknowledged(id),
           [SysNext]_sysvars, NEW x \in Trains
    PROVE  Keeps(x)'
<1> DEFINE trk == Wanted(id)
<1>1. Grant(id, trk) /\ manager_up' = manager_up
  BY DEF Acknowledged, office
<1>2. /\ trk \in Blocks /\ track_table'[trk] = id /\ listed'[trk] = SlotFor(id)
      /\ \A t \in Blocks \ {trk} :
            /\ track_table'[t] \in {track_table[t], Free}
            /\ track_table'[t] # Free => listed'[t] = listed[t]
            /\ t = LocationOf(id) => track_table'[t] # id
  BY <1>1, GrantedBlocks
<1>3. /\ \A other \in Trains \ {id} : Places(other)' = Places(other)
      /\ Places(id) \subseteq {LocationOf(id)}
      /\ Places(id)' = {trk} /\ SlotFor(id) \in Used' /\ active_trains'[SlotFor(id)].train_id = id
      /\ \A i \in Used : i \in Used' /\ active_trains'[i].train_id = active_trains[i].train_id
  BY <1>1, ServedPlace
<1> HIDE DEF trk
<1>4. Keeps(x) /\ Free \notin Trains
  BY ConstantFacts DEF KInv
<1>5. CASE x # id
  <2>1. ASSUME NEW t \in Blocks, track_table'[t] = x
        PROVE  track_table[t] = x /\ listed'[t] = listed[t]
    BY <1>2, <1>4, <1>5, <2>1
  <2>2. ASSUME NEW t \in Blocks, track_table'[t] = x, Shows(t, x)
        PROVE  Shows(t, x)'
    BY <1>3, <2>1, <2>2 DEF Shows
  <2>3. Stands(x)' /\ Safe(x)'
    BY <1>3, <1>4, <1>5, <2>1, <2>2, StaysSafe DEF Keeps
  <2>4. pc'[x] = pc[x]
    BY <1>5 DEF Acknowledged, SysInv, Processes
  <2> QED
    BY <1>1, <1>4, <2>3, <2>4, StaysRid DEF Keeps
<1>6. CASE x = id
  <2>0. PICK b \in Blocks : b = trk
    BY <1>2
  <2>1. ASSUME NEW t \in Blocks, track_table'[t] = id PROVE t = b
    <3> SUFFICES ASSUME t # b PROVE FALSE
      OBVIOUS
    <3>1. track_table[t] = id
      BY <1>2, <1>4, <2>0, <2>1
    <3>2. t = LocationOf(id)
      BY <1>3, <1>4, <1>6, <3>1 DEF Keeps, Stands
    <3> QED
      BY <1>2, <2>0, <2>1, <3>2
  <2>2. Stands(id)'
    <3>1. Places(id)' = {b}
      BY <1>3, <2>0
    <3> QED
      BY <2>1, <3>1 DEF Stands
  <2>3. Shows(b, id)'
    <3>1. listed'[b] \in Used' /\ active_trains'[listed'[b]].train_id = id
      BY <1>2, <1>3, <2>0
    <3> QED
      BY <3>1 DEF Shows
  <2>4. Safe(id)'
    BY <2>1, <2>3 DEF Safe
  <2>5. LeftNothing(id)'
    <3>1. pc'[id] \notin Ended
      BY DEF Acknowledged, Ended, SysInv, Processes
    <3> QED
      BY <3>1 DEF LeftNothing
  <2> QED
    BY <1>6, <2>2, <2>4, <2>5 DEF Keeps
<1> QED
  BY <1>5, <1>6

\* A train that asks for its destination is not there.
LEMMA AskerIsElsewhere ==
    ASSUME TInv, NEW id \in Trains, pc[id] \in {"retrying", "requesting"}, NEW t \in Blocks,
           Places(id) = {t}
    PROVE  t # Destination[id]
<1>1. Asks(id) /\ Heard(id)
  BY DEF TInv, Informed, Promised, Awaiting, Absent, Ended
<1>2. t = train[id].track
  BY <1>1, ConstantFacts DEF Heard
<1> QED
  BY <1>1, <1>2, ConstantFacts DEF Asks

\* A train that is denied because its destination is taken is on the list of
\* the block it owns.
LEMMA DeniedIsListed ==
    ASSUME SysInv, TInv, KInv, RoutesAreSeen, NEW id \in Trains, DenyBusy(id, Wanted(id)),
           pc[id] \in { "admitting", "retrying", "requesting" },
           NEW t \in Blocks, track_table[t] = id
    PROVE  train_is_on_any_track(id)
<1> DEFINE dest == Destination[id]
<1>1. Places(id) = {t} /\ (Shows(t, id) \/ Undeniable(id, t))
  BY DEF KInv, Keeps, Stands, Safe
<1>2. PICK i \in Used : active_trains[i].train_id = id /\ active_trains[i].track_id = t
  BY <1>1, PlacedIsCached
<1>3. IsCached(id) /\ pc[id] \in {"retrying", "requesting"}
  BY <1>1, PlacedIsCached DEF KInv, AwaitingNotCached, Awaiting
<1>4. t # dest /\ Wanted(id) = dest /\ dest \in Blocks
  BY <1>1, <1>3, AskerIsElsewhere DEF Wanted, RoutesAreSeen
<1>5. t \in Requestable[id] /\ t < track_count
  BY <1>2, ConstantFacts DEF SysInv, OnRoute, RoutesAreSeen
<1>6. Rivals(id) # {}
  <2>1. ~ RequestGranted(track_table, LocationOf(id), dest)
    BY <1>4 DEF DenyBusy
  <2>2. track_table[dest] # Free
    BY <1>4, <2>1 DEF RequestGranted
  <2> DEFINE x == track_table[dest]
  <2>3. x \in Trains
    BY <1>4, <2>2 DEF SysInv, IInv, TypeOK
  <2>4. Places(x) = {dest}
    BY <1>4, <2>3 DEF KInv, Keeps, Stands
  <2>5. x # id
    BY <1>1, <1>4, <2>4
  <2>6. \E j \in Used : active_trains[j].train_id = x /\ active_trains[j].track_id = dest
    BY <2>4, PlacedIsCached
  <2>7. dest \in Requestable[x]
    BY <1>4, <2>6, ConstantFacts DEF SysInv, OnRoute
  <2>8. x \in Rivals(id)
    BY <2>3, <2>5, <2>7 DEF Rivals
  <2> QED
    BY <2>8
<1>7. Shows(t, id)
  BY <1>1, <1>3, <1>4, <1>6 DEF Undeniable, Ended
<1>8. TrainsWith(id) = active_trains /\ listed[t] # NoSlot
  BY <1>3, <1>7, ConstantFacts, SlotTypes DEF TrainsWith, Shows, SysInv, IInv
<1> QED
  BY <1>5, <1>7, <1>8 DEF train_is_on_any_track, Shows

\* A denial takes no train off a block it owns.
LEMMA DenialKeeps ==
    ASSUME SysInv, TInv, KInv, ~ Reruns, RoutesAreSeen, NEW id \in Trains, Denied(id),
           [SysNext]_sysvars, NEW x \in Trains
    PROVE  Keeps(x)'
<1> DEFINE trk == Wanted(id)
<1>1. /\ manager_up' = manager_up /\ pc[id] \in { "admitting", "retrying", "requesting" }
      /\ track_table' = track_table /\ listed' = listed
      /\ DenyNoData(id, trk) \/ DenyHeadOn(id, trk) \/ DenyBusy(id, trk)
  BY DEF Denied, DenyNoData, DenyHeadOn, DenyBusy, office, vars
<1> HIDE DEF trk
<1>2. Keeps(x) /\ Free \notin Trains
  BY ConstantFacts DEF KInv
<1>3. \A i \in Used : i \in Used' /\ active_trains'[i].train_id = active_trains[i].train_id
  <2>1. CASE DenyNoData(id, trk)
    BY <2>1 DEF DenyNoData, vars, Used
  <2>2. CASE ~ DenyNoData(id, trk)
    BY <1>1, <2>2, ServedPlace
  <2> QED
    BY <2>1, <2>2
<1>4. ASSUME NEW t \in Blocks, track_table[t] = x PROVE Places(x)' = Places(x)
  <2>1. CASE DenyNoData(id, trk)
    BY <2>1, SamePlaces DEF DenyNoData, vars
  <2>2. CASE ~ DenyNoData(id, trk) /\ x # id
    BY <1>1, <2>2, ServedPlace
  <2>3. CASE ~ DenyNoData(id, trk) /\ x = id
    <3>1. ~ Grant(id, trk)
      BY <1>1, <2>3 DEF DenyHeadOn, DenyBusy, Grant
    <3>2. DenyHeadOn(id, trk) \/ train_is_on_any_track(id)
      BY <1>1, <1>4, <2>3, DeniedIsListed DEF trk
    <3>3. Places(id)' = {LocationOf(id)} /\ Places(id) \subseteq {LocationOf(id)}
      BY <1>1, <2>3, <3>1, <3>2, ServedPlace
    <3>4. Places(id) = {t}
      BY <1>2, <1>4, <2>3 DEF Keeps, Stands
    <3> QED
      BY <2>3, <3>3, <3>4
  <2> QED
    BY <2>1, <2>2, <2>3
<1>5. ASSUME NEW t \in Blocks, Shows(t, x) PROVE Shows(t, x)'
  BY <1>1, <1>3, <1>5 DEF Shows
<1>6. Stands(x)' /\ Safe(x)'
  BY <1>1, <1>2, <1>4, <1>5, StaysSafe DEF Keeps
<1>7. \/ pc'[x] = pc[x] \/ pc'[x] \notin Ended \ {"killed"}
      \/ \A t \in Blocks : track_table[t] # x
  <2>1. CASE x = id /\ pc[id] = "admitting"
    <3>1. Places(id) = {}
      BY <2>1, PlacedIsCached DEF KInv, AwaitingNotCached, Awaiting
    <3> QED
      BY <1>2, <2>1, <3>1 DEF Keeps, Stands
  <2>2. CASE ~ (x = id /\ pc[id] = "admitting")
    BY <1>1, <2>2 DEF Denied, Ended, SysInv, Processes
  <2> QED
    BY <2>1, <2>2
<1> QED
  BY <1>1, <1>2, <1>6, <1>7, StaysRid DEF Keeps

\* A release takes the train that asked for it off all its blocks.
LEMMA ReleaseKeeps ==
    ASSUME SysInv, TInv, KInv, ~ Reruns, RoutesAreSeen, NEW id \in Trains, Released(id),
           [SysNext]_sysvars, NEW x \in Trains
    PROVE  Keeps(x)'
<1> DEFINE trk == train[id].track
<1>1. /\ manager_up' = manager_up /\ pc[id] \in Releasing /\ Release(id, trk)
      /\ \A y \in Trains \ {id} : pc'[y] = pc[y]
  BY DEF Released, office, Releasing, SysInv, Processes
<1>2. /\ \A t \in Blocks : track_table'[t] \in {track_table[t], Free}
      /\ \A t \in Blocks : track_table'[t] # Free => listed'[t] = listed[t]
      /\ trk \in Blocks => track_table'[trk] # id
  BY <1>1, FreedBlocks DEF Release, SysInv, IInv
<1>3. \A i \in Used : i \in Used' /\ active_trains'[i].train_id = active_trains[i].train_id
  BY <1>1, SlotTypes DEF Release, SysInv, IInv, Used, TrainRecords
<1>4. Keeps(x) /\ Keeps(id) /\ Free \notin Trains
  BY ConstantFacts DEF KInv
<1>5. CASE x # id
  <2>1. Places(x)' = Places(x)
    BY <1>1, <1>5, ReleasedPlaces
  <2>2. ASSUME NEW t \in Blocks, track_table'[t] = x
        PROVE  track_table[t] = x /\ listed'[t] = listed[t]
    BY <1>2, <1>4, <2>2
  <2>3. ASSUME NEW t \in Blocks, track_table'[t] = x, Shows(t, x)
        PROVE  Shows(t, x)'
    BY <1>3, <2>2, <2>3 DEF Shows
  <2>4. Stands(x)' /\ Safe(x)'
    BY <1>4, <2>1, <2>2, <2>3, StaysSafe DEF Keeps
  <2> QED
    BY <1>1, <1>4, <1>5, <2>4, StaysRid DEF Keeps
<1>6. CASE x = id
  <2>1. Heard(id)
    BY <1>1 DEF TInv, Informed, Promised, Awaiting, Absent, Ended, Releasing
  <2>2. ASSUME NEW t \in Blocks PROVE track_table'[t] # id
    <3> SUFFICES ASSUME track_table'[t] = id PROVE FALSE
      OBVIOUS
    <3>1. Places(id) = {t}
      BY <1>2, <1>4 DEF Keeps, Stands
    <3>2. t = trk
      BY <2>1, <3>1, ConstantFacts DEF Heard
    <3> QED
      BY <1>2, <3>2
  <2> QED
    BY <1>6, <2>2 DEF Keeps, Stands, Safe, LeftNothing
<1> QED
  BY <1>5, <1>6

\* So does a rollback with its victim.
LEMMA RollbackKeeps ==
    ASSUME SysInv, KInv, ~ Reruns, RoutesAreSeen, EndTick, CheckAndRollBack,
           [SysNext]_sysvars, NEW x \in Trains
    PROVE  Keeps(x)'
<1> DEFINE id == Victim
           held == SyncedStates[IndexOf(SyncedStates, id)].holds
           v == find_train_index(id)
<1>1. /\ manager_up' = manager_up /\ pc' = pc /\ active_train_count' = active_train_count
      /\ track_table' = TableAfterRelease(track_table, id, held)
      /\ listed' = ListedAfterRelease(track_table, listed, active_trains, id, held)
      /\ active_trains' =
            [ active_trains EXCEPT ![v] =
                [ active_trains[v] EXCEPT !.track_id = NoTrack, !.moving = FALSE ] ]
      /\ Victim >= 0
  BY DEF EndTick, CheckAndRollBack, CanRollBack, office
<1>2. /\ v \in Used /\ active_trains[v].train_id = id /\ active_trains[v].track_id = held
      /\ id \in Trains
  <2>1. PICK i \in Used : active_trains[i].train_id = id /\ IndexOf(SyncedStates, id) = i
    BY <1>1, VictimFacts DEF SysInv, IInv
  <2>2. SyncedStates[i].holds = active_trains[i].track_id
    BY SyncedFacts DEF SysInv, IInv
  <2> HIDE DEF id
  <2>3. v \in Used /\ active_trains[v].train_id = id
    BY <2>1, IndexFacts DEF find_train_index, SysInv, IInv, SlotsAligned, TypeOK
  <2> QED
    BY <2>1, <2>2, <2>3 DEF SysInv, IInv, SlotsAligned
<1> HIDE DEF id, held, v
<1>3. /\ \A t \in Blocks : track_table'[t] \in {track_table[t], Free}
      /\ \A t \in Blocks : track_table'[t] # Free => listed'[t] = listed[t]
      /\ held \in Blocks => track_table'[held] # id
  BY <1>1, <1>2, FreedBlocks DEF SysInv, IInv
<1>4. /\ Used' = Used
      /\ \A i \in Used : active_trains'[i].train_id = active_trains[i].train_id
      /\ \A i \in Used \ {v} : active_trains'[i] = active_trains[i]
  BY <1>1, <1>2, SlotTypes DEF SysInv, IInv, Used, TrainRecords
<1>5. Keeps(x) /\ Keeps(id) /\ Free \notin Trains
  BY <1>2, ConstantFacts DEF KInv
<1>6. CASE x # id
  <2>1. Places(x)' = Places(x)
    BY <1>2, <1>4, <1>6 DEF Places
  <2>2. ASSUME NEW t \in Blocks, track_table'[t] = x
        PROVE  track_table[t] = x /\ listed'[t] = listed[t]
    BY <1>3, <1>5, <2>2
  <2>3. ASSUME NEW t \in Blocks, track_table'[t] = x, Shows(t, x)
        PROVE  Shows(t, x)'
    BY <1>4, <2>2, <2>3 DEF Shows
  <2>4. Stands(x)' /\ Safe(x)'
    BY <1>5, <2>1, <2>2, <2>3, StaysSafe DEF Keeps
  <2> QED
    BY <1>1, <1>5, <2>4, StaysRid DEF Keeps
<1>7. CASE x = id
  <2>1. Places(id) = {held}
    BY <1>2, PlaceOfSlot
  <2>2. ASSUME NEW t \in Blocks PROVE track_table'[t] # id
    <3> SUFFICES ASSUME track_table'[t] = id PROVE FALSE
      OBVIOUS
    <3>1. Places(id) = {t}
      BY <1>2, <1>3, <1>5 DEF Keeps, Stands
    <3> QED
      BY <1>3, <2>1, <3>1
  <2>3. \A t \in Blocks : track_table'[t] # x
    BY <1>7, <2>2
  <2> QED
    BY <2>3 DEF Keeps, Stands, Safe, LeftNothing
<1> QED
  BY <1>6, <1>7

\* The removal of a record, when it is harmless.
LEMMA CleanupKeeps ==
    ASSUME SysInv, KInv, ~ Reruns, RoutesAreSeen, Cleanup, UNCHANGED << pc, manager_up >>,
           ShiftIsHarmless, [SysNext]_sysvars, NEW x \in Trains
    PROVE  Keeps(x)'
<1> DEFINE gone == active_trains[cursor].train_id
           last == active_train_count - 1
<1>1. /\ cursor \in Used /\ active_trains[cursor].track_id = NoTrack
      /\ track_table' = track_table /\ listed' = listed
      /\ active_train_count' = last
      /\ active_trains' =
            [ i \in Slots |->
                CASE i = last                  -> ZeroTrain
                  [] i >= cursor /\ i < last   -> active_trains[i + 1]
                  [] i < cursor \/ i > last    -> active_trains[i] ]
  BY DEF Cleanup, IdleAndUnrequested
<1>2. /\ last \in Int /\ cursor \in 0 .. last /\ active_train_count' < active_train_count
      /\ Used = 0 .. last /\ Used' = 0 .. last - 1 /\ Used \subseteq Slots
  BY <1>1, ConstantFacts DEF Used, Slots, SysInv, IInv, TypeOK
<1>3. \A i \in Used : i < cursor => i \in Used' /\ active_trains'[i] = active_trains[i]
  <2> SUFFICES ASSUME NEW i \in Used, i < cursor
               PROVE  i \in Used' /\ active_trains'[i] = active_trains[i]
    OBVIOUS
  <2>1. i \in Slots /\ i \in Int /\ i < last /\ i \in 0 .. last - 1
    BY <1>2
  <2> QED
    BY <1>1, <1>2, <2>1
<1>4. Keeps(x)
  BY DEF KInv
<1>5. ASSUME NEW t \in Blocks, track_table[t] = x
      PROVE  x # gone /\ Places(x) = {t} /\ Places(x)' = Places(x)
  <2>1. Places(x) = {t}
    BY <1>4, <1>5 DEF Keeps, Stands
  <2>2. x # gone
    BY <1>1, <2>1, PlaceOfSlot, ConstantFacts
  <2> QED
    BY <2>1, <2>2, CleanedPlaces
<1>6. ASSUME NEW t \in Blocks, track_table[t] = x, Shows(t, x)
      PROVE  Shows(t, x)' \/ Undeniable(x, t)
  <2> DEFINE p == listed[t]
  <2>1. p \in Used /\ active_trains[p].train_id = x /\ listed'[t] = p
    BY <1>1, <1>6 DEF Shows
  <2>2. CASE p < cursor
    BY <1>3, <2>1, <2>2 DEF Shows
  <2>3. CASE p > cursor
    <3>1. active_trains[p].track_id = t
      BY <1>5, <1>6, <2>1, PlaceOfSlot
    <3> QED
      BY <1>2, <2>1, <2>3, <3>1 DEF ShiftIsHarmless, Undeniable
  <2>4. p # cursor
    BY <1>5, <1>6, <2>1
  <2> QED
    BY <1>2, <2>1, <2>2, <2>3, <2>4
<1>7. Stands(x)' /\ Safe(x)'
  BY <1>1, <1>4, <1>5, <1>6, StaysSafe DEF Keeps
<1> QED
  BY <1>4, <1>7, StaysRid DEF Keeps

\* A step that touches no block and no record.
LEMMA QuietKeeps ==
    ASSUME SysInv, KInv, ~ Reruns, RoutesAreSeen, [SysNext]_sysvars,
           UNCHANGED << track_table, listed, active_trains, active_train_count >>,
           NEW x \in Trains, manager_up' => manager_up,
           \/ ~ manager_up'
           \/ pc'[x] = pc[x] \/ pc'[x] \notin Ended \ {"killed"}
           \/ \A t \in Blocks : track_table[t] # x
    PROVE  Keeps(x)'
<1>1. Keeps(x)
  BY DEF KInv
<1>2. Places(x)' = Places(x)
  BY SamePlaces
<1>3. \A t \in Blocks : Shows(t, x) => Shows(t, x)'
  BY DEF Shows, Used
<1>4. Stands(x)' /\ Safe(x)'
  BY <1>1, <1>2, <1>3, StaysSafe DEF Keeps
<1>5. LeftNothing(x)'
  <2>1. CASE ~ manager_up'
    BY <2>1 DEF LeftNothing
  <2>2. CASE manager_up'
    BY <1>1, <2>2, StaysRid DEF Keeps
  <2> QED
    BY <2>1, <2>2
<1> QED
  BY <1>4, <1>5 DEF Keeps

\* A train that ends without a message owns nothing.
LEMMA DecisionKeeps ==
    ASSUME SysInv, TInv, KInv, ~ Reruns, RoutesAreSeen, [SysNext]_sysvars,
           NEW id \in Trains, Decide(id), NEW x \in Trains
    PROVE  Keeps(x)'
<1>1. /\ UNCHANGED << track_table, listed, active_trains, active_train_count, manager_up >>
      /\ \A y \in Trains \ {id} : pc'[y] = pc[y]
  BY DEF Decide, Retry, Request, Finish, GiveUp, Abort, Continue, vars, office, SysInv, Processes
<1>2. CASE x = id /\ pc'[id] \in Ended
  <2>1. (GiveUp(id) \/ Abort(id)) /\ train[id].track < 0
    BY <1>2 DEF Decide, Retry, Request, Finish, GiveUp, Abort, Continue, Ended, SysInv, Processes,
                LocalStates
  <2>2. Heard(id)
    <3>1. pc[id] \in {"woken", "answered"}
      BY <2>1 DEF GiveUp, Abort, Settled
    <3>2. ~ Promised(id)
      BY <2>1, Counters, TicksAssumption DEF GiveUp, Abort, Hopeless, NoProgress, Promised
    <3> QED
      BY <3>1, <3>2 DEF TInv, Informed, Awaiting, Absent, Ended
  <2>3. \A t \in Blocks : track_table[t] # id
    BY <2>1, <2>2, ConstantFacts DEF KInv, Keeps, Stands, Heard
  <2> QED
    BY <1>1, <1>2, <2>3, QuietKeeps
<1>3. CASE x # id \/ pc'[id] \notin Ended
  BY <1>1, <1>3, QuietKeeps
<1> QED
  BY <1>2, <1>3

\* A train that could not be forked owns nothing.
LEMMA ControllerKeeps ==
    ASSUME SysInv, KInv, ~ Reruns, RoutesAreSeen, [SysNext]_sysvars, ControllerStep,
           NEW x \in Trains
    PROVE  Keeps(x)'
<1>1. UNCHANGED << track_table, listed, active_trains, active_train_count, manager_up >>
  BY DEF ControllerStep, SkipLine, LaunchTrain, FinishLoading, ControllerExit, vars
<1>2. CASE LaunchTrain
  <2> DEFINE new == NextLine[1]
  <2>1. controller = "loading" /\ IsTrainLine(NextLine) /\ lines_read < Len(TrainLines)
    BY <1>2 DEF LaunchTrain, Reading
  <2>2. lines_read + 1 \in lines_read + 1 .. Len(TrainLines)
    BY <2>1, LinesAssumption DEF SysInv, Registry
  <2>3. pc[new] = "unborn"
    BY <2>1, <2>2 DEF SysInv, Registry, NextLine
  <2>4. pc'[x] = pc[x] \/ x = new
    BY <1>2 DEF LaunchTrain, SysInv, Processes
  <2>5. x = new => \A t \in Blocks : track_table[t] # x
    <3> HIDE DEF new
    <3>1. x = new => Places(x) = {}
      BY <2>3, PlacedIsCached DEF KInv, AwaitingNotCached, Awaiting
    <3> QED
      BY <3>1 DEF KInv, Keeps, Stands
  <2> QED
    BY <1>1, <2>4, <2>5, QuietKeeps
<1>3. CASE ~ LaunchTrain
  <2>1. pc' = pc
    BY <1>3 DEF ControllerStep, SkipLine, FinishLoading, ControllerExit
  <2> QED
    BY <1>1, <2>1, QuietKeeps
<1> QED
  BY <1>2, <1>3

\* Every step whose removal of a record is harmless keeps the blocks.
LEMMA KeptStep ==
    ASSUME SysInv, Reads, TInv, KInv, ~ Reruns, RoutesAreSeen, [SysNext]_sysvars, [ShiftIsHarmless]_vars
    PROVE  KInv'
<1>1. AwaitingNotCached'
  BY AwaitingStep DEF KInv
<1> SUFFICES ASSUME NEW x \in Trains PROVE Keeps(x)'
  BY <1>1 DEF KInv
<1>2. CASE UNCHANGED sysvars \/ StartTick \/ ManagerStops
  <2>1. /\ UNCHANGED << track_table, listed, active_trains, active_train_count, pc >>
        /\ manager_up' => manager_up
    BY <1>2 DEF sysvars, vars, office, StartTick, TickPulse, ManagerStops
  <2> QED
    BY <2>1, QuietKeeps
<1>3. CASE EndTick
  <2>1. CASE CheckAndRollBack
    BY <1>3, <2>1, RollbackKeeps
  <2>2. CASE ~ CheckAndRollBack
    <3>1. UNCHANGED << track_table, listed, active_trains, active_train_count, pc, manager_up >>
      BY <1>3, <2>2 DEF EndTick, TickDone, CheckOnly, office
    <3> QED
      BY <3>1, QuietKeeps
  <2> QED
    BY <2>1, <2>2
<1>4. CASE ControllerStep
  BY <1>4, ControllerKeeps
<1>5. ASSUME NEW id \in Trains, TrainStep(id) \/ Crash(id)
      PROVE  Keeps(x)'
  <2>1. CASE Acknowledged(id) \/ Denied(id) \/ Released(id)
    BY <2>1, GrantKeeps, DenialKeeps, ReleaseKeeps
  <2>2. CASE SendFails(id)
    <3>1. /\ UNCHANGED << track_table, listed, active_trains, active_train_count >>
          /\ ~ manager_up'
      BY <2>2 DEF SendFails, vars, office
    <3> QED
      BY <3>1, QuietKeeps
  <2>3. CASE Update(id) \/ Crash(id)
    <3>1. /\ UNCHANGED << track_table, listed, active_trains, active_train_count, manager_up >>
          /\ pc'[x] = pc[x] \/ pc'[x] \in {"woken", "killed"}
      BY <2>3 DEF Update, UpdateSent, Crash, vars, office, SysInv, Processes
    <3> QED
      BY <3>1, QuietKeeps DEF Ended
  <2>4. CASE NoUpdate(id)
    <3>1. UNCHANGED << pc, manager_up >>
      BY <2>4 DEF NoUpdate, office
    <3>2. CASE Cleanup
      <4>1. active_train_count' # active_train_count
        BY <3>2 DEF Cleanup, SysInv, IInv, TypeOK
      <4>2. ShiftIsHarmless
        BY <4>1 DEF vars
      <4> QED
        BY <3>1, <3>2, <4>2, CleanupKeeps
    <3>3. CASE ~ Cleanup
      <4>1. UNCHANGED << track_table, listed, active_trains, active_train_count >>
        BY <2>4, <3>3 DEF NoUpdate, UpdateSkipped, UpdateSent
      <4> QED
        BY <3>1, <4>1, QuietKeeps
    <3> QED
      BY <3>2, <3>3
  <2>5. CASE Decide(id)
    BY <2>5, DecisionKeeps
  <2> QED
    BY <1>5, <2>1, <2>2, <2>3, <2>4, <2>5 DEF TrainStep
<1>6. CASE Rerun
  BY <1>6 DEF Rerun
<1> QED
  BY <1>2, <1>3, <1>4, <1>5, <1>6 DEF SysNext

\* At first no block is owned and no train is on record.
LEMMA KInvInit == SysInit => KInv
<1> SUFFICES ASSUME SysInit PROVE KInv
  OBVIOUS
<1>1. Used = {} /\ track_table = InitTable
  BY ConstantFacts DEF SysInit, Init, Used
<1>2. \A t \in Blocks : track_table[t] = Free
  BY <1>1 DEF InitTable
<1>3. AwaitingNotCached
  BY <1>1 DEF AwaitingNotCached, Cached
<1> QED
  BY <1>2, <1>3, ConstantFacts DEF KInv, Keeps, Stands, Safe, LeftNothing

\* A block of a train is not left to it when the train has ended, ...
LEMMA KeptBlocks == SysInv /\ KInv => NoOrphanedBlock
<1> SUFFICES ASSUME SysInv, KInv, manager_up, NEW t \in Blocks, track_table[t] # Free
             PROVE  pc[track_table[t]] \notin Ended \ {"killed"}
  BY DEF NoOrphanedBlock
<1>1. track_table[t] \in Trains
  BY DEF SysInv, IInv, TypeOK
<1> QED
  BY <1>1 DEF KInv, Keeps, LeftNothing

\* ... or is no longer located on it.
LEMMA VacatedBlocks == SysInv /\ KInv' => [VacatedStep]_vars
<1> SUFFICES ASSUME SysInv, KInv', NEW i \in Used, NEW t \in Blocks, NEW id \in Trains,
                    track_table'[t] = id
             PROVE  \E j \in Used' : active_trains'[j].train_id = id /\ active_trains'[j].track_id = t
  BY DEF VacatedStep, SysInv, IInv, SlotsAligned
<1>1. t \in Places(id)'
  BY DEF KInv, Keeps, Stands
<1> QED
  BY <1>1 DEF Places

\* The invariant of a system whose removals of records are harmless.
LEMMA KeptInvariant ==
    ASSUME ~ Reruns, RoutesAreSeen,
           MAX_CONSECUTIVE_DENIES * REQUEST_RETRY_TICKS < MAX_NO_PROGRESS_TICKS
    PROVE  SysSpec /\ ShiftsAreHarmless => [](SysInv /\ KInv)
<1>1. SysInit => Reads /\ TInv /\ KInv
  BY ReadsInit, TInvInit, KInvInit
<1>2. SysInv /\ Reads /\ TInv /\ KInv /\ [SysNext]_sysvars /\ [ShiftIsHarmless]_vars
          => (Reads /\ TInv /\ KInv)'
  BY ReadsStep, InformedStep, KeptStep
<1> QED
  BY <1>1, <1>2, SystemInvariant, PTL DEF SysSpec, ShiftsAreHarmless

\* In a system that is run once, whose trains' blocks the manager's loops meet
\* and whose trains run out of denials before they count as standing still, no
\* block is left to a train that ended of its own accord, as long as the
\* removals of records are harmless: ticks may be late, trains rolled back,
\* killed or not forked, and the manager stopped.
THEOREM SystemKeepsBlocks ==
    ASSUME ~ Reruns, RoutesAreSeen,
           MAX_CONSECUTIVE_DENIES * REQUEST_RETRY_TICKS < MAX_NO_PROGRESS_TICKS
    PROVE  SysSpec /\ ShiftsAreHarmless => []NoOrphanedBlock
  BY KeptInvariant, KeptBlocks, PTL

\* Nor is a train taken off a block that stays its own: the stale pointers that
\* the removal of a record leaves behind are the only way to lose a block.
THEOREM SystemVacatedIsReleased ==
    ASSUME ~ Reruns, RoutesAreSeen,
           MAX_CONSECUTIVE_DENIES * REQUEST_RETRY_TICKS < MAX_NO_PROGRESS_TICKS
    PROVE  SysSpec /\ ShiftsAreHarmless => VacatedIsReleased
  BY KeptInvariant, VacatedBlocks, PTL DEF VacatedIsReleased

\* There are two trains, or no train starts on or goes to another's destination:
\* who may take the destination of a train is the only one that may leave
\* before it.
FewRivals ==
    \A id, x, y \in Trains :
        x # id /\ y # id /\ Destination[id] \in Requestable[x] => y = x

\* Then a record is removed when its train, the only rival of those that move
\* down, has ended and owns nothing.
LEMMA FewShifts ==
    ASSUME SysInv, KInv, RoutesAreSeen, FewRivals, [SysNext]_sysvars
    PROVE  [ShiftIsHarmless]_vars
<1> SUFFICES ASSUME active_train_count' < active_train_count, NEW i \in Used, i > cursor
             PROVE  Rivals(active_trains[i].train_id) = {}
  BY DEF ShiftIsHarmless
<1>1. active_train_count \in Int /\ ~ active_train_count < active_train_count
  BY DEF SysInv, IInv, TypeOK
<1>2. ASSUME NEW id \in Trains, NEW trk, Grant(id, trk) \/ DenyHeadOn(id, trk) \/ DenyBusy(id, trk)
      PROVE  FALSE
  BY <1>1, <1>2 DEF Grant, DenyHeadOn, DenyBusy, CountWith
<1>3. ASSUME NEW id \in Trains, TrainStep(id) \/ Crash(id) PROVE NoUpdate(id) /\ Cleanup
  BY <1>1, <1>2, <1>3
  DEF TrainStep, Acknowledged, Denied, DenyNoData, Released, Release, SendFails, Update, UpdateSent,
      NoUpdate, UpdateSkipped, Decide, Retry, Request, Finish, GiveUp, Abort, Continue, Crash, vars
<1>4. PICK gone \in Trains : NoUpdate(gone) /\ Cleanup
  BY <1>1, <1>3
  DEF SysNext, StartTick, TickPulse, EndTick, TickDone, CheckOnly, CheckAndRollBack, ControllerStep,
      SkipLine, LaunchTrain, FinishLoading, ControllerExit, Rerun, ManagerStops, vars, sysvars
<1>5. /\ cursor \in Used /\ active_trains[cursor].train_id = gone
      /\ active_trains[cursor].track_id = NoTrack /\ pc[gone] \in Absent
  BY <1>4 DEF NoUpdate, AtCursor, Cleanup, IdleAndUnrequested
<1>6. pc[gone] \in Ended
  BY <1>5 DEF KInv, AwaitingNotCached, Awaiting, Cached, Absent
<1>7. \A t \in Blocks : track_table[t] # gone
  <2>1. Places(gone) = {NoTrack}
    BY <1>5, PlaceOfSlot
  <2> QED
    BY <2>1, ConstantFacts DEF KInv, Keeps, Stands
<1> DEFINE id == active_trains[i].train_id
<1>8. id \in Trains /\ id # gone
  <2>1. cursor # i
    BY <1>5, ConstantFacts DEF Used, SysInv, IInv, TypeOK
  <2> QED
    BY <1>5, <2>1 DEF SysInv, IInv, SlotsAligned
<1> HIDE DEF id
<1>9. ASSUME NEW x \in Rivals(id) PROVE FALSE
  <2>1. x = gone
    BY <1>8 DEF Rivals, FewRivals
  <2> QED
    BY <1>6, <1>7, <1>8, <2>1 DEF Rivals, RoutesAreSeen
<1> QED
  BY <1>9 DEF id

\* So the removals of records are harmless to two trains, whatever they do and
\* whenever the ticks come, and to trains none of which starts on or goes to
\* another's destination, ...
THEOREM SystemShiftsAreHarmless ==
    ASSUME ~ Reruns, RoutesAreSeen, FewRivals,
           MAX_CONSECUTIVE_DENIES * REQUEST_RETRY_TICKS < MAX_NO_PROGRESS_TICKS
    PROVE  SysSpec => ShiftsAreHarmless
<1>1. SysInit => Reads /\ TInv /\ KInv
  BY ReadsInit, TInvInit, KInvInit
<1>2. SysInv /\ Reads /\ TInv /\ KInv /\ [SysNext]_sysvars
          => (Reads /\ TInv /\ KInv)' /\ [ShiftIsHarmless]_vars
  BY ReadsStep, InformedStep, FewShifts, KeptStep
<1> QED
  BY <1>1, <1>2, SystemInvariant, PTL DEF SysSpec, ShiftsAreHarmless

\* ... whose blocks are therefore never lost nor left to a train that ended.
THEOREM FewRivalsKeepBlocks ==
    ASSUME ~ Reruns, RoutesAreSeen, FewRivals,
           MAX_CONSECUTIVE_DENIES * REQUEST_RETRY_TICKS < MAX_NO_PROGRESS_TICKS
    PROVE  SysSpec => []NoOrphanedBlock /\ VacatedIsReleased
  BY SystemShiftsAreHarmless, SystemKeepsBlocks, SystemVacatedIsReleased, PTL
=============================================================================
