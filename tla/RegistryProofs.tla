--------------------------- MODULE RegistryProofs ----------------------------
(***************************************************************************)
(* TrainController registers the first MAX_TRAINS trains of its file, and  *)
(* the manager has MAX_TRAINS slots for records.  That the second limit    *)
(* never turns away a train that passed the first one needs more than the  *)
(* limits being equal: records outlive the run of TrainController they     *)
(* were fetched in.  It holds because every run registers the same trains, *)
(* and because the manager can fetch a record only of a registered one.    *)
(*                                                                         *)
(* The second half follows the trains from the reading of the file to      *)
(* their first grant, and derives from the order of TrainController, the   *)
(* ticks and the requests the environment the DeadlockManager needs.       *)
(***************************************************************************)
EXTENDS RailwayProofs

\* The trains named in the first k lines.
NamedBy(k) == { TrainLines[n][1] : n \in { m \in 1 .. k : IsTrainLine(TrainLines[m]) } }

\* Those among them that are not preceded by MAX_TRAINS others.
FirstBy(k) ==
    { TrainLines[n][1] : n \in { m \in 1 .. k : /\ IsTrainLine(TrainLines[m])
                                               /\ Cardinality(NamedBy(m - 1)) < MAX_TRAINS } }

\* The trains every run of TrainController registers in the end.
Lasting == FirstBy(Len(TrainLines))

Cached == { active_trains[i].train_id : i \in Used }

\* What TrainController has registered so far is determined by how far it has
\* read.
Reads ==
    /\ train_list = FirstBy(lines_read)
    /\ IsFiniteSet(NamedBy(lines_read))
    /\ Cardinality(train_list) < MAX_TRAINS => train_list = NamedBy(lines_read)
    /\ controller # "loading" => lines_read = Len(TrainLines)
    /\ controller = "ended" => \A id \in Trains : pc[id] \in Ended

\* The manager has records of lasting trains only.
Caches ==
    /\ Cached \subseteq Lasting
    /\ Cached # {} => IsFiniteSet(Lasting) /\ Cardinality(Lasting) <= MAX_TRAINS

-----------------------------------------------------------------------------
(* Reading the file. *)

\* No line names nobody.
LEMMA NothingRead == NamedBy(0) = {} /\ FirstBy(0) = {}
  BY DEF NamedBy, FirstBy

\* One more line.
LEMMA OneLine ==
    ASSUME NEW k \in Nat
    PROVE  LET line == TrainLines[k + 1]
           IN  /\ NamedBy(k + 1) = IF IsTrainLine(line) THEN NamedBy(k) \union {line[1]} ELSE NamedBy(k)
               /\ FirstBy(k + 1) = IF IsTrainLine(line) /\ Cardinality(NamedBy(k)) < MAX_TRAINS
                                   THEN FirstBy(k) \union {line[1]} ELSE FirstBy(k)
<1>1. 1 .. k + 1 = (1 .. k) \union {k + 1} /\ (k + 1) - 1 = k
  OBVIOUS
<1>2. NamedBy(k + 1) = IF IsTrainLine(TrainLines[k + 1])
                       THEN NamedBy(k) \union {TrainLines[k + 1][1]} ELSE NamedBy(k)
  BY <1>1 DEF NamedBy
<1>3. FirstBy(k + 1) = IF IsTrainLine(TrainLines[k + 1]) /\ Cardinality(NamedBy(k)) < MAX_TRAINS
                       THEN FirstBy(k) \union {TrainLines[k + 1][1]} ELSE FirstBy(k)
  BY <1>1 DEF FirstBy
<1> QED
  BY <1>2, <1>3

\* The first trains are trains.
LEMMA FirstAreNamed == ASSUME NEW k PROVE FirstBy(k) \subseteq NamedBy(k)
  BY DEF FirstBy, NamedBy

\* A longer part of the file names more of the first trains.
LEMMA FirstGrow ==
    ASSUME NEW k \in Nat, NEW n \in Nat, k <= n
    PROVE  FirstBy(k) \subseteq FirstBy(n)
<1>1. 1 .. k \subseteq 1 .. n
  OBVIOUS
<1> QED
  BY <1>1 DEF FirstBy

\* At first nothing is read and nothing registered.
LEMMA ReadsInit == SysInit => Reads
  BY NothingRead, FS_EmptySet, ConstantFacts DEF SysInit, Reads

\* TrainController's steps register the first trains of what it has read.
LEMMA ReadsStep ==
    ASSUME SysInv, Reads, [SysNext]_sysvars
    PROVE  Reads'
<1>1. /\ lines_read \in 0 .. Len(TrainLines) /\ Len(TrainLines) \in Nat /\ lines_read \in Nat
      /\ pc \in [Trains -> PcStates] /\ IsFiniteSet(train_list) /\ MAX_TRAINS \in Nat
  BY LinesAssumption, ConstantFacts DEF SysInv, Registry, Processes
<1>2. ASSUME UNCHANGED << lines_read, train_list, controller >>,
             controller = "ended" => \A id \in Trains : pc[id] \in Ended => pc'[id] \in Ended
      PROVE  Reads'
  BY <1>2 DEF Reads
<1>3. CASE StartTick \/ EndTick \/ ManagerStops \/ UNCHANGED sysvars
  BY <1>2, <1>3 DEF StartTick, EndTick, ManagerStops, sysvars, office
<1>4. ASSUME NEW id \in Trains, TrainStep(id) \/ Crash(id)
      PROVE  Reads'
  <2>1. UNCHANGED << lines_read, train_list, controller >>
    BY <1>4 DEF TrainStep, Acknowledged, Denied, Released, SendFails, Update, NoUpdate, Decide,
                Retry, Request, Finish, GiveUp, Abort, Continue, Crash, office
  <2>2. \/ pc' = pc
        \/ pc[id] \notin Ended /\ \E p : pc' = [ pc EXCEPT ![id] = p ]
    <3>1. CASE Acknowledged(id) \/ Denied(id) \/ Released(id) \/ SendFails(id)
      BY <3>1 DEF Acknowledged, Denied, Released, SendFails, Sending, Ended
    <3>2. CASE NoUpdate(id)
      BY <3>2 DEF NoUpdate
    <3>4. CASE Update(id) \/ Crash(id)
      BY <3>4 DEF Update, Crash, Absent, Ended
    <3>3. CASE Decide(id)
      BY <3>3 DEF Decide, Retry, Request, Finish, GiveUp, Abort, Continue, Settled, Ended
    <3> QED
      BY <1>4, <3>1, <3>2, <3>3, <3>4 DEF TrainStep
  <2>3. \A other \in Trains : pc[other] \in Ended => pc'[other] \in Ended
    BY <1>1, <2>2
  <2> QED
    BY <1>2, <2>1, <2>3
<1>5. CASE FinishLoading
  BY <1>5 DEF FinishLoading, Reads
<1>6. CASE ControllerExit
  BY <1>6 DEF ControllerExit, Reads
<1>7. CASE Rerun
  BY <1>7, NothingRead, FS_EmptySet DEF Rerun, Reads
<1>8. CASE SkipLine
  <2>1. lines_read' = lines_read + 1 /\ ~ IsTrainLine(TrainLines[lines_read + 1])
        /\ controller = "loading" /\ UNCHANGED << train_list, controller >>
    BY <1>8 DEF SkipLine, Reading, NextLine
  <2>2. FirstBy(lines_read + 1) = FirstBy(lines_read) /\ NamedBy(lines_read + 1) = NamedBy(lines_read)
    BY <1>1, <2>1, OneLine
  <2> QED
    BY <2>1, <2>2 DEF Reads
<1>9. CASE LaunchTrain
  <2> DEFINE id == TrainLines[lines_read + 1][1]
  <2>1. /\ lines_read' = lines_read + 1 /\ IsTrainLine(TrainLines[lines_read + 1])
        /\ controller = "loading" /\ controller' = controller /\ train_list' = Registers(id)
    BY <1>9 DEF LaunchTrain, Reading, NextLine
  <2>2. /\ NamedBy(lines_read + 1) = NamedBy(lines_read) \union {id}
        /\ FirstBy(lines_read + 1) = IF Cardinality(NamedBy(lines_read)) < MAX_TRAINS
                                     THEN FirstBy(lines_read) \union {id} ELSE FirstBy(lines_read)
    BY <1>1, <2>1, OneLine
  <2>3. /\ train_list = FirstBy(lines_read) /\ IsFiniteSet(NamedBy(lines_read))
        /\ Cardinality(train_list) < MAX_TRAINS => train_list = NamedBy(lines_read)
    BY DEF Reads
  <2> HIDE DEF id
  <2>4. Cardinality(train_list) <= Cardinality(NamedBy(lines_read))
    BY <2>3, FirstAreNamed, FS_Subset
  <2>5. /\ Cardinality(train_list) \in Nat /\ Cardinality(NamedBy(lines_read)) \in Nat
        /\ IsFiniteSet(NamedBy(lines_read) \union {id})
    BY <1>1, <2>3, FS_CardinalityType, FS_AddElement
  <2>6. CASE Cardinality(train_list) < MAX_TRAINS
    <3>1. train_list' = train_list \union {id} /\ Cardinality(NamedBy(lines_read)) < MAX_TRAINS
      BY <2>1, <2>3, <2>6 DEF Registers
    <3>2. train_list' = NamedBy(lines_read + 1) /\ train_list' = FirstBy(lines_read + 1)
      BY <2>2, <2>3, <2>6, <3>1
    <3>3. IsFiniteSet(NamedBy(lines_read + 1))
      BY <2>2, <2>5
    <3> QED
      BY <2>1, <3>2, <3>3 DEF Reads
  <2>7. CASE ~ Cardinality(train_list) < MAX_TRAINS
    <3>1. train_list' = train_list /\ ~ Cardinality(NamedBy(lines_read)) < MAX_TRAINS
      BY <1>1, <2>1, <2>4, <2>5, <2>7 DEF Registers
    <3> QED
      BY <2>1, <2>2, <2>3, <2>5, <2>7, <3>1 DEF Reads
  <2> QED
    BY <2>6, <2>7
<1> QED
  BY <1>3, <1>4, <1>5, <1>6, <1>7, <1>8, <1>9 DEF SysNext, ControllerStep

-----------------------------------------------------------------------------
(* The manager's records. *)

\* A handler that fetched a record has one more train in its cache.
LEMMA FoundCached ==
    ASSUME NEW id \in Trains, NEW s, NEW trains, NEW book, NEW count,
           Found(id, s, trains, book, count), NEW rec, rec.train_id = id,
           active_trains' = [trains EXCEPT ![s] = rec], active_train_count' = count
    PROVE  Cached' \subseteq Cached \union {id}
<1>1. /\ count \in 0 .. MAX_TRAINS /\ s \in Slots /\ trains \in [Slots -> TrainRecords]
      /\ \A i \in (0 .. count - 1) \ {s} : i \in Used /\ trains[i] = active_trains[i]
  BY DEF Found
<1>2. Used' = 0 .. count - 1 /\ Used' \subseteq Slots
  BY <1>1, ConstantFacts DEF Used, Slots
<1>3. \A i \in Used' \ {s} : i \in Used /\ active_trains'[i] = active_trains[i]
  BY <1>1, <1>2
<1>4. active_trains'[s] = rec
  BY <1>1
<1> QED
  BY <1>3, <1>4 DEF Cached

\* Whatever the manager answers, it keeps a record of at most that train more.
LEMMA ServedCached ==
    ASSUME SysInv, NEW id \in Trains, NEW trk,
           Grant(id, trk) \/ DenyHeadOn(id, trk) \/ DenyBusy(id, trk)
    PROVE  Cached' \subseteq Cached \union {id}
<1> DEFINE s == SlotFor(id)
           trains == TrainsWith(id)
           rec == active_trains'[s]
<1>1. Serves(id) /\ active_train_count' = CountWith(id)
  BY DEF Grant, DenyHeadOn, DenyBusy
<1>2. Found(id, s, trains, StatesWith(id), CountWith(id))
  BY <1>1, LookupFacts DEF SysInv, IInv, Serves
<1>3. s \in Slots /\ trains \in [Slots -> TrainRecords] /\ trains[s].train_id = id
  BY <1>2 DEF Found
<1> HIDE DEF s, trains
<1>4. active_trains' = [trains EXCEPT ![s] = rec] /\ rec.train_id = id
  <2>1. CASE DenyHeadOn(id, trk)
    <3>1. active_trains' = [trains EXCEPT ![s].moving = FALSE]
      BY <2>1 DEF DenyHeadOn, s, trains
    <3> QED
      BY <1>3, <3>1 DEF TrainRecords
  <2>2. CASE DenyBusy(id, trk)
    <3> DEFINE to == IF train_is_on_any_track(id) THEN LocationOf(id) ELSE NoTrack
    <3>1. active_trains' =
              [trains EXCEPT ![s] = [trains[s] EXCEPT !.track_id = to, !.moving = FALSE]]
      BY <2>2 DEF DenyBusy, s, trains
    <3> HIDE DEF to
    <3> QED
      BY <1>3, <3>1 DEF TrainRecords
  <2>3. CASE Grant(id, trk)
    <3> DEFINE power == id \in Powered
    <3>1. active_trains' =
              [trains EXCEPT ![s] = [trains[s] EXCEPT !.track_id = trk, !.moving = power]]
      BY <2>3 DEF Grant, s, trains
    <3> HIDE DEF power
    <3> QED
      BY <1>3, <3>1 DEF TrainRecords
  <2> QED
    BY <2>1, <2>2, <2>3
<1> HIDE DEF rec
<1> QED
  BY <1>1, <1>2, <1>4, FoundCached

\* No other step of the manager adds a train.
LEMMA OtherCached ==
    ASSUME SysInv,
           \/ \E id \in Trains : \E trk : Release(id, trk)
           \/ Cleanup
           \/ CheckAndRollBack
           \/ UNCHANGED << active_trains, active_train_count >>
    PROVE  Cached' \subseteq Cached
<1>1. /\ active_trains \in [Slots -> TrainRecords] /\ active_train_count \in 0 .. MAX_TRAINS
      /\ Used \subseteq Slots
  BY ConstantFacts DEF SysInv, IInv, TypeOK, Used, Slots
<1>2. ASSUME UNCHANGED active_train_count,
             \A i \in Used : active_trains'[i].train_id = active_trains[i].train_id
      PROVE  Cached' \subseteq Cached
  BY <1>2 DEF Cached, Used
<1>3. ASSUME NEW id \in Trains, NEW trk, Release(id, trk)
      PROVE  Cached' \subseteq Cached
  <2>1. /\ UNCHANGED active_train_count
        /\ \A i \in Used : \/ active_trains'[i] = active_trains[i]
                           \/ active_trains'[i] =
                                 [active_trains[i] EXCEPT !.track_id = NoTrack, !.moving = FALSE]
    BY <1>1, <1>3 DEF Release
  <2> QED
    BY <1>1, <1>2, <2>1 DEF TrainRecords
<1>4. CASE Cleanup
  <2> DEFINE k == cursor
             last == active_train_count - 1
  <2>1. /\ active_train_count' = last /\ k \in 0 .. last
        /\ active_trains' =
              [ i \in Slots |->
                  CASE i = last               -> ZeroTrain
                    [] i >= k /\ i < last     -> active_trains[i + 1]
                    [] i < k \/ i > last      -> active_trains[i] ]
    BY <1>4 DEF Cleanup, Used
  <2>2. ASSUME NEW i \in Used' PROVE \E j \in Used : active_trains'[i] = active_trains[j]
    <3>1. i \in Slots /\ i \in 0 .. last - 1 /\ last \in Int
      BY <1>1, <2>1, ConstantFacts DEF Used, Slots
    <3>2. CASE i >= k
      <4>1. active_trains'[i] = active_trains[i + 1] /\ i + 1 \in Used
        BY <2>1, <3>1, <3>2, ConstantFacts DEF Used
      <4> QED
        BY <4>1
    <3>3. CASE i < k
      <4>1. active_trains'[i] = active_trains[i] /\ i \in Used
        BY <2>1, <3>1, <3>3, ConstantFacts DEF Used
      <4> QED
        BY <4>1
    <3> QED
      BY <2>1, <3>1, <3>2, <3>3
  <2> QED
    BY <2>2 DEF Cached
<1>5. CASE CheckAndRollBack
  <2> DEFINE v == find_train_index(Victim)
  <2>1. /\ UNCHANGED active_train_count
        /\ active_trains' =
              [active_trains EXCEPT ![v] =
                  [active_trains[v] EXCEPT !.track_id = NoTrack, !.moving = FALSE]]
    BY <1>5 DEF CheckAndRollBack
  <2> HIDE DEF v
  <2> QED
    BY <1>1, <1>2, <2>1 DEF TrainRecords
<1>6. CASE UNCHANGED << active_trains, active_train_count >>
  BY <1>2, <1>6
<1> QED
  BY <1>3, <1>4, <1>5, <1>6

\* A train the manager knows is lasting, and then there are not too many.
LEMMA KnownIsLasting ==
    ASSUME SysInv, Reads, Caches, NEW id \in Trains, Known(id)
    PROVE  id \in Lasting /\ IsFiniteSet(Lasting) /\ Cardinality(Lasting) <= MAX_TRAINS
<1>1. CASE IsCached(id)
  <2>1. id \in Cached
    BY <1>1 DEF IsCached, Cached
  <2> QED
    BY <2>1 DEF Caches
<1>2. CASE Describes(id)
  <2>1. id \in train_list /\ train_list = Lasting
    BY <1>2 DEF Describes, Reads, Lasting
  <2> QED
    BY <2>1 DEF SysInv, Registry
<1> QED
  BY <1>1, <1>2 DEF Known

\* Every step keeps the records to lasting trains.
LEMMA CachesStep ==
    ASSUME SysInv, Reads, Caches, [SysNext]_sysvars
    PROVE  Caches'
<1>1. Lasting' = Lasting
  BY DEF Lasting, FirstBy, NamedBy, IsTrainLine
<1>2. ASSUME Cached' \subseteq Cached PROVE Caches'
  BY <1>1, <1>2 DEF Caches
<1>3. CASE UNCHANGED << active_trains, active_train_count >>
  BY <1>2, <1>3, OtherCached
<1>4. CASE StartTick \/ EndTick
  BY <1>2, <1>4, OtherCached DEF StartTick, EndTick, TickPulse, TickDone, CheckOnly
<1>5. CASE ControllerStep \/ Rerun \/ ManagerStops \/ UNCHANGED sysvars
  BY <1>3, <1>5
  DEF ControllerStep, SkipLine, LaunchTrain, FinishLoading, ControllerExit, Rerun, ManagerStops, sysvars, vars
<1>6. ASSUME NEW id \in Trains, Acknowledged(id) \/ Denied(id)
      PROVE  Caches'
  <2>1. \/ UNCHANGED << active_trains, active_train_count >>
        \/ /\ Known(id)
           /\ \/ Grant(id, Wanted(id)) \/ DenyHeadOn(id, Wanted(id)) \/ DenyBusy(id, Wanted(id))
    BY <1>6 DEF Acknowledged, Denied, DenyNoData, vars
  <2>2. CASE Known(id) /\ \/ Grant(id, Wanted(id)) \/ DenyHeadOn(id, Wanted(id))
                          \/ DenyBusy(id, Wanted(id))
    <3>1. Cached' \subseteq Cached \union {id}
      BY <2>2, ServedCached
    <3>2. id \in Lasting /\ IsFiniteSet(Lasting) /\ Cardinality(Lasting) <= MAX_TRAINS
      BY <2>2, KnownIsLasting
    <3> QED
      BY <1>1, <3>1, <3>2 DEF Caches
  <2> QED
    BY <1>3, <2>1, <2>2
<1>7. ASSUME NEW id \in Trains, Released(id) \/ Update(id) \/ NoUpdate(id)
      PROVE  Caches'
  BY <1>2, <1>7, OtherCached DEF Released, Update, NoUpdate, UpdateSent, UpdateSkipped
<1>8. ASSUME NEW id \in Trains, SendFails(id) \/ Decide(id) \/ Crash(id)
      PROVE  Caches'
  BY <1>3, <1>8
  DEF SendFails, Decide, Retry, Request, Finish, GiveUp, Abort, Continue, Crash, vars
<1> QED
  BY <1>4, <1>5, <1>6, <1>7, <1>8 DEF SysNext, TrainStep

-----------------------------------------------------------------------------
\* With room for all lasting trains, one of them that is not cached finds a
\* free slot.
LEMMA LastingFits ==
    ASSUME SysInv, Reads, Caches
    PROVE  RegisteredNotRefused
<1> SUFFICES ASSUME NEW id \in train_list,
                    pc[id] \in { "admitting", "retrying", "requesting" }
             PROVE  ~ NoData(id)
  BY DEF RegisteredNotRefused
<1>1. /\ id \in Trains /\ controller \in {"loading", "waiting", "ended"}
      /\ lines_read \in Nat /\ Len(TrainLines) \in Nat /\ lines_read <= Len(TrainLines)
      /\ MAX_TRAINS \in Nat /\ active_train_count \in 0 .. MAX_TRAINS
  <2>1. TrainLines \in Seq(Seq(Int))
    BY LinesAssumption
  <2>2. MAX_TRAINS \in Nat
    BY ConstantFacts
  <2>3. active_train_count \in 0 .. MAX_TRAINS
    BY DEF SysInv, IInv, TypeOK
  <2>4. id \in Trains /\ controller \in {"loading", "waiting", "ended"} /\ lines_read \in 0 .. Len(TrainLines)
    BY DEF SysInv, Registry
  <2> QED
    BY <2>1, <2>2, <2>3, <2>4
<1>2. id \in Lasting
  BY <1>1, FirstGrow DEF Reads, Lasting
<1>3. controller # "loading" => Known(id)
  <2>1. controller # "ended"
    BY <1>1 DEF Reads, Ended
  <2> QED
    BY <1>1, <2>1 DEF Known, Describes
<1>4. ~ IsCached(id) => active_train_count < MAX_TRAINS
  <2> SUFFICES ASSUME ~ IsCached(id), active_train_count = MAX_TRAINS PROVE FALSE
    BY <1>1
  <2> DEFINE f == [ i \in Used |-> active_trains[i].train_id ]
  <2>1. Used = 0 .. MAX_TRAINS - 1 /\ 0 \in Used
    BY ConstantFacts, MaxTrainsAssumption DEF Used
  <2>2. IsFiniteSet(Lasting) /\ Cardinality(Lasting) <= MAX_TRAINS
    BY <2>1 DEF Caches, Cached
  <2>3. f \in [ Used -> Lasting \ {id} ]
    BY DEF Caches, Cached, IsCached
  <2>4. IsFiniteSet(Used) /\ Cardinality(Used) = MAX_TRAINS
    BY <1>1, <2>1, FS_Interval, MaxTrainsAssumption
  <2>5. IsFiniteSet(Lasting \ {id}) /\ Cardinality(Lasting \ {id}) = Cardinality(Lasting) - 1
    BY <1>2, <2>2, FS_RemoveElement
  <2>6. Cardinality(Lasting) \in Nat
    BY <2>2, FS_CardinalityType
  <2>7. Cardinality(Lasting \ {id}) < Cardinality(Used)
    BY <1>1, <2>2, <2>4, <2>5, <2>6
  <2> HIDE DEF f
  <2>8. \E i, j \in Used : i # j /\ f[i] = f[j]
    BY <2>3, <2>4, <2>5, <2>7, FS_PigeonHole
  <2> QED
    BY <2>8 DEF f, SysInv, IInv, SlotsAligned
<1> QED
  BY <1>3, <1>4 DEF NoData, CanFetch

\* A train that TrainController registered is never refused for want of a
\* record, whatever the number of trains in the file, the slots, the runs of
\* TrainController and the trains that died in them.
THEOREM SystemRegisteredNotRefused == SysSpec => []RegisteredNotRefused
<1>1. SysInit => Reads /\ Caches
  <2>1. SysInit => Reads
    BY ReadsInit
  <2>2. SysInit => Caches
    BY DEF SysInit, Init, Used, Caches, Cached
  <2> QED
    BY <2>1, <2>2
<1>2. SysInv /\ (Reads /\ Caches) /\ [SysNext]_sysvars => (Reads /\ Caches)'
  BY ReadsStep, CachesStep
<1>3. SysInv /\ (Reads /\ Caches) => RegisteredNotRefused
  BY LastingFits
<1> QED
  BY <1>1, <1>2, <1>3, SystemInvariant, PTL DEF SysSpec

-----------------------------------------------------------------------------
(***************************************************************************)
(* Admission.  Trains that start on different blocks, run once and see     *)
(* timely ticks are admitted onto free blocks: no train can be moved onto  *)
(* another's first block before that train has been admitted, because      *)
(* trains ask for another block only after an update, and the first tick   *)
(* is handled when all of them have their answer.                          *)
(***************************************************************************)
DistinctStarts ==
    /\ \A id \in Trains : Start[id] \in Blocks
    /\ \A id, other \in Trains : Start[id] = Start[other] => id = other

\* Trains whose first request is not answered yet.
Awaiting == {"unborn", "admitting"}
IsAwaiting(id) == pc[id] \in Awaiting
SomeAwaiting == \E id \in Trains : IsAwaiting(id)

\* Until every first request is answered no train has done anything else, and
\* a block is owned only by a train on record that starts on it.
Early == Awaiting \union {"receiving", "failed", "refused", "killed"}
EarlyOnly == cursor = Idle /\ \A id \in Trains : pc[id] \in Early
OwnedFromStart ==
    \A t \in Blocks : track_table[t] # Free =>
        track_table[t] \in Cached /\ t = Start[track_table[t]]

\* A train that is under way is on record: a record goes only after its train.
UnderWayCached == \A id \in Trains : pc[id] \notin Awaiting \union Absent => id \in Cached

\* The trains of the lines that were read have been launched.
Launched ==
    \A n \in 1 .. lines_read : IsTrainLine(TrainLines[n]) => pc[TrainLines[n][1]] # "unborn"

Admission ==
    /\ SomeAwaiting => EarlyOnly /\ OwnedFromStart
    /\ UnderWayCached
    /\ Launched

\* A handler keeps every record and has one of the train it serves.
LEMMA ServedStays ==
    ASSUME SysInv, NEW id \in Trains, NEW trk,
           Grant(id, trk) \/ DenyHeadOn(id, trk) \/ DenyBusy(id, trk)
    PROVE  Cached \union {id} \subseteq Cached'
<1> DEFINE s == SlotFor(id)
           trains == TrainsWith(id)
           rec == active_trains'[s]
<1>1. Serves(id) /\ active_train_count' = CountWith(id)
  BY DEF Grant, DenyHeadOn, DenyBusy
<1>2. Found(id, s, trains, StatesWith(id), CountWith(id))
  BY <1>1, LookupFacts DEF SysInv, IInv, Serves
<1>3. /\ s \in Slots /\ trains \in [Slots -> TrainRecords] /\ trains[s].train_id = id
      /\ s \in 0 .. CountWith(id) - 1 /\ CountWith(id) \in 0 .. MAX_TRAINS
      /\ active_train_count <= CountWith(id)
      /\ \A i \in (0 .. CountWith(id) - 1) \ {s} : trains[i] = active_trains[i]
  BY <1>2 DEF Found
<1>4. s \in Used => active_trains[s].train_id = id
  <2>1. CASE IsCached(id)
    BY <1>2, <2>1 DEF Found
  <2>2. CASE ~ IsCached(id)
    <3>1. s \notin Used
      BY <2>2 DEF SlotFor, Used, SysInv, IInv, TypeOK
    <3> QED
      BY <3>1
  <2> QED
    BY <2>1, <2>2
<1>5. /\ active_trains' = [trains EXCEPT ![s] = rec]
      /\ rec.train_id = id
  <2>1. CASE DenyHeadOn(id, trk)
    <3>1. active_trains' = [trains EXCEPT ![s].moving = FALSE]
      BY <2>1 DEF DenyHeadOn
    <3> HIDE DEF s, trains
    <3> QED
      BY <1>3, <3>1 DEF TrainRecords
  <2>2. CASE DenyBusy(id, trk)
    <3> DEFINE to == IF train_is_on_any_track(id) THEN LocationOf(id) ELSE NoTrack
    <3>1. active_trains' =
              [trains EXCEPT ![s] = [trains[s] EXCEPT !.track_id = to, !.moving = FALSE]]
      BY <2>2 DEF DenyBusy
    <3> HIDE DEF to, s, trains
    <3> QED
      BY <1>3, <3>1 DEF TrainRecords
  <2>3. CASE Grant(id, trk)
    <3> DEFINE power == id \in Powered
    <3>1. active_trains' =
              [trains EXCEPT ![s] = [trains[s] EXCEPT !.track_id = trk, !.moving = power]]
      BY <2>3 DEF Grant
    <3> HIDE DEF power, s, trains
    <3> QED
      BY <1>3, <3>1 DEF TrainRecords
  <2> QED
    BY <2>1, <2>2, <2>3
<1> HIDE DEF s, trains, rec
<1>6. /\ Used' = 0 .. CountWith(id) - 1 /\ Used' \subseteq Slots /\ Used \subseteq Used'
      /\ active_trains'[s].train_id = id
      /\ \A i \in Used' \ {s} : active_trains'[i] = active_trains[i]
  <2>1. Used' = 0 .. CountWith(id) - 1 /\ Used' \subseteq Slots
    BY <1>1, <1>3, ConstantFacts DEF Used, Slots
  <2>2. active_train_count \in Int
    BY ConstantFacts DEF SysInv, IInv, TypeOK
  <2>3. Used \subseteq Used'
    <3> DEFINE count == CountWith(id)
    <3>1. count \in 0 .. MAX_TRAINS /\ active_train_count <= count /\ Used' = 0 .. count - 1
      BY <1>3, <2>1
    <3> HIDE DEF count
    <3>2. \A i \in 0 .. active_train_count - 1 : i \in 0 .. count - 1
      BY <2>2, <3>1, ConstantFacts
    <3> QED
      BY <3>1, <3>2 DEF Used
  <2> QED
    BY <1>3, <1>5, <2>1, <2>3
<1>7. id \in Cached'
  BY <1>3, <1>6 DEF Cached
<1>8. ASSUME NEW i \in Used PROVE active_trains[i].train_id \in Cached'
  <2>1. CASE i = s
    BY <1>4, <1>7, <1>8, <2>1
  <2>2. CASE i # s
    BY <1>6, <1>8, <2>2 DEF Cached
  <2> QED
    BY <2>1, <2>2
<1> QED
  BY <1>7, <1>8 DEF Cached

\* Releases and rollbacks keep every record.
LEMMA OtherStays ==
    ASSUME SysInv,
           \/ \E id \in Trains : \E trk : Release(id, trk)
           \/ CheckAndRollBack
           \/ UNCHANGED << active_trains, active_train_count >>
    PROVE  Cached \subseteq Cached'
<1>1. active_trains \in [Slots -> TrainRecords] /\ Used \subseteq Slots
  BY SlotTypes DEF SysInv, IInv
<1>2. ASSUME UNCHANGED active_train_count,
             \A i \in Used : active_trains'[i].train_id = active_trains[i].train_id
      PROVE  Cached \subseteq Cached'
  BY <1>2 DEF Cached, Used
<1>3. ASSUME NEW id \in Trains, NEW trk, Release(id, trk)
      PROVE  Cached \subseteq Cached'
  <2>1. /\ UNCHANGED active_train_count
        /\ \A i \in Used : \/ active_trains'[i] = active_trains[i]
                           \/ active_trains'[i] =
                                 [active_trains[i] EXCEPT !.track_id = NoTrack, !.moving = FALSE]
    BY <1>1, <1>3 DEF Release
  <2> QED
    BY <1>1, <1>2, <2>1 DEF TrainRecords
<1>4. CASE CheckAndRollBack
  <2> DEFINE v == find_train_index(Victim)
  <2>1. /\ UNCHANGED active_train_count
        /\ active_trains' =
              [active_trains EXCEPT ![v] =
                  [active_trains[v] EXCEPT !.track_id = NoTrack, !.moving = FALSE]]
    BY <1>4 DEF CheckAndRollBack
  <2> HIDE DEF v
  <2> QED
    BY <1>1, <1>2, <2>1 DEF TrainRecords
<1> QED
  BY <1>2, <1>3, <1>4

\* remove_active_train_at removes the record at the cursor and no other.
LEMMA CleanupStays ==
    ASSUME SysInv, Cleanup
    PROVE  Cached \ {active_trains[cursor].train_id} \subseteq Cached'
<1> DEFINE k == cursor
           last == active_train_count - 1
           to(i) == IF i > k THEN i - 1 ELSE i
<1>1. /\ k \in Used /\ active_train_count' = last
      /\ active_trains' =
            [ i \in Slots |->
                CASE i = last               -> ZeroTrain
                  [] i >= k /\ i < last     -> active_trains[i + 1]
                  [] i < k \/ i > last      -> active_trains[i] ]
  BY DEF Cleanup
<1>2. /\ last \in Int /\ k \in Int /\ k \in 0 .. last /\ Used = 0 .. last /\ Used' = 0 .. last - 1
      /\ Used \subseteq Slots
  BY <1>1, ConstantFacts DEF Used, Slots, SysInv, IInv, TypeOK
<1>3. ASSUME NEW j \in Used, j # k
      PROVE  to(j) \in Used' /\ active_trains'[to(j)] = active_trains[j]
  <2>1. CASE j > k
    <3>1. /\ j - 1 \in Slots /\ j - 1 \in Int /\ j - 1 >= k /\ j - 1 < last
          /\ (j - 1) + 1 = j /\ j - 1 # last
      BY <1>2, <1>3, <2>1
    <3> QED
      BY <1>1, <1>2, <2>1, <3>1
  <2>2. CASE j < k
    <3>1. j \in Slots /\ j # last /\ ~ j >= k /\ j < last
      BY <1>2, <1>3, <2>2
    <3> QED
      BY <1>1, <1>2, <2>2, <3>1
  <2> QED
    BY <1>2, <1>3, <2>1, <2>2
<1> HIDE DEF to
<1> QED
  BY <1>3 DEF Cached

\* A train's first request, answered: its block goes to it, and no other.
LEMMA FirstGrant ==
    ASSUME SysInv, NEW id \in Trains, Grant(id, Start[id])
    PROVE  /\ track_table'[Start[id]] = id
           /\ \A t \in Blocks \ {Start[id]} : track_table'[t] \in {track_table[t], Free}
<1> DEFINE old == LocationOf(id)
           taken == [ track_table EXCEPT ![Start[id]] = id ]
           leave == old # NoTrack /\ old # Start[id]
<1>1. track_table' = IF leave THEN TableAfterRelease(taken, id, old) ELSE taken
  BY DEF Grant
<1>2. /\ taken \in Tables
      /\ \A t \in Blocks \ {Start[id]} : taken[t] = track_table[t]
      /\ Start[id] \in Blocks /\ taken[Start[id]] = id
  BY DEF Grant, RequestGranted, SysInv, IInv, TypeOK, Tables, Owners
<1> DEFINE after == TableAfterRelease(taken, id, old)
<1> HIDE DEF taken
<1>3. /\ \A t \in Blocks : after[t] \in {taken[t], Free}
      /\ \A t \in Blocks : t # old => after[t] = taken[t]
  BY <1>2, ReleaseFacts
<1> HIDE DEF after
<1>4. \/ track_table' = taken
      \/ track_table' = after /\ Start[id] # old
  BY <1>1 DEF after
<1>5. track_table'[Start[id]] = id
  BY <1>2, <1>3, <1>4
<1>6. \A t \in Blocks : track_table'[t] \in {taken[t], Free}
  BY <1>3, <1>4
<1> QED
  BY <1>2, <1>5, <1>6

\* The lines that describe trains describe those of Trains.
LEMMA LinesOfTrains ==
    ASSUME SysInv, NEW n \in 1 .. lines_read, IsTrainLine(TrainLines[n])
    PROVE  TrainLines[n][1] \in Trains
<1>1. n \in DOMAIN TrainLines
  BY LinesAssumption DEF SysInv, Registry
<1> QED
  BY <1>1, LinesAssumption

\* Once TrainController has read its file every train was launched.
LEMMA AllLaunched ==
    ASSUME SysInv, Reads, Launched, controller # "loading", NEW id \in Trains
    PROVE  pc[id] # "unborn"
<1>1. lines_read = Len(TrainLines)
  BY DEF Reads
<1>2. PICK n \in DOMAIN TrainLines : IsTrainLine(TrainLines[n]) /\ TrainLines[n][1] = id
  BY LinesAssumption
<1>3. n \in 1 .. lines_read
  BY <1>1, <1>2, LinesAssumption
<1> QED
  BY <1>2, <1>3 DEF Launched

\* One train moves on, and the manager keeps every record and block.
LEMMA MoveAdmits ==
    ASSUME SysInv, Admission, NEW id \in Trains, NEW p,
           pc' = [ pc EXCEPT ![id] = p ], p # "unborn",
           UNCHANGED lines_read, Cached \subseteq Cached',
           SomeAwaiting => UNCHANGED << cursor, track_table >>,
           SomeAwaiting => p \in Early,
           pc[id] \in {"unborn", "admitting"} \/ p \notin Awaiting,
           p \notin Awaiting \union Absent => id \in Cached'
    PROVE  Admission'
<1>1. pc \in [Trains -> PcStates]
  BY DEF SysInv, Processes
<1>2. \A other \in Trains : pc'[other] = IF other = id THEN p ELSE pc[other]
  BY <1>1
<1>3. SomeAwaiting' => SomeAwaiting
  BY <1>2 DEF SomeAwaiting, IsAwaiting, Awaiting
<1>4. SomeAwaiting' => EarlyOnly' /\ OwnedFromStart'
  BY <1>2, <1>3 DEF Admission, EarlyOnly, OwnedFromStart
<1>5. UnderWayCached'
  BY <1>2 DEF Admission, UnderWayCached
<1>6. Launched'
  <2> SUFFICES ASSUME NEW n \in 1 .. lines_read, IsTrainLine(TrainLines[n])
               PROVE  pc'[TrainLines[n][1]] # "unborn"
    BY DEF Launched, IsTrainLine
  <2>1. pc[TrainLines[n][1]] # "unborn"
    BY DEF Admission, Launched
  <2>2. TrainLines[n][1] \in Trains
    BY LinesOfTrains
  <2> QED
    BY <1>2, <2>1, <2>2
<1> QED
  BY <1>4, <1>5, <1>6 DEF Admission

\* A train's first request is granted, and its answer was awaited.
LEMMA FirstAnswer ==
    ASSUME SysInv, Admission, DistinctStarts, NEW id \in Trains, pc[id] = "admitting",
           Grant(id, Start[id]) \/ DenyHeadOn(id, Start[id]) \/ DenyBusy(id, Start[id]),
           ~ IsCached(id)
    PROVE  /\ Grant(id, Start[id])
           /\ track_table[Start[id]] = Free
<1>1. Serves(id)
  BY DEF Grant, DenyHeadOn, DenyBusy
<1>2. Found(id, SlotFor(id), TrainsWith(id), StatesWith(id), CountWith(id))
  BY <1>1, LookupFacts DEF SysInv, IInv, Serves
<1>3. LocationOf(id) = Start[id]
  BY <1>2 DEF Found, LocationOf
<1>4. Start[id] \in Blocks
  BY DEF DistinctStarts
<1>5. Grant(id, Start[id])
  BY <1>3, <1>4 DEF DenyHeadOn, DenyBusy, HeadOnRequest, RequestGranted
<1>6. SomeAwaiting
  BY DEF SomeAwaiting, IsAwaiting, Awaiting
<1>7. ASSUME track_table[Start[id]] # Free PROVE FALSE
  <2> DEFINE o == track_table[Start[id]]
  <2>1. o \in Cached /\ Start[id] = Start[o]
    BY <1>4, <1>6, <1>7 DEF Admission, OwnedFromStart
  <2>2. o \in Trains
    BY <2>1 DEF Cached, SysInv, IInv, SlotsAligned
  <2>3. o = id
    BY <2>1, <2>2 DEF DistinctStarts
  <2> QED
    BY <2>1, <2>3 DEF Cached, IsCached
<1> QED
  BY <1>5, <1>7

\* The manager's answers to requests.
LEMMA AnswerAdmits ==
    ASSUME SysInv, Admission, DistinctStarts, NEW id \in Trains, Acknowledged(id) \/ Denied(id)
    PROVE  Admission' /\ (UNCHANGED vars \/ AdmissionOntoFreeBlock)
<1>1. /\ pc[id] \in { "admitting", "retrying", "requesting" }
      /\ pc' = [ pc EXCEPT ![id] = pc'[id] ]
      /\ pc'[id] \in {"receiving", "refused", "answered"}
      /\ pc'[id] = "answered" <=> pc[id] # "admitting"
      /\ pc[id] = "admitting" => pc'[id] = IF Acknowledged(id) THEN "receiving" ELSE "refused"
      /\ lines_read' = lines_read
      /\ cursor = Idle /\ cursor' = Idle
  <2>1. pc \in [Trains -> PcStates]
    BY DEF SysInv, Processes
  <2>2. cursor = Idle /\ cursor' = cursor
    BY DEF Acknowledged, Denied, Grant, DenyNoData, DenyHeadOn, DenyBusy, Serves, vars
  <2>3. CASE Acknowledged(id)
    BY <2>1, <2>2, <2>3 DEF Acknowledged, office
  <2>4. CASE ~ Acknowledged(id)
    BY <2>1, <2>2, <2>4 DEF Denied, office
  <2> QED
    BY <2>3, <2>4
<1>2. pc[id] # "admitting" => id \in Cached
  BY <1>1 DEF Admission, UnderWayCached, Awaiting, Absent, Ended
<1>3. SomeAwaiting => pc[id] = "admitting"
  BY <1>1 DEF Admission, EarlyOnly, Early, Awaiting
<1>4. /\ pc'[id] # "unborn"
      /\ SomeAwaiting => pc'[id] \in Early
      /\ pc'[id] \notin Awaiting
  BY <1>1, <1>3 DEF Early, Awaiting
<1>5. CASE UNCHANGED vars
  <2>1. UNCHANGED << cursor, track_table >> /\ Cached' = Cached
    BY <1>5 DEF vars, Cached, Used
  <2>2. pc'[id] \notin Awaiting \union Absent => id \in Cached'
    <3>1. CASE pc[id] = "admitting" /\ Acknowledged(id)
      BY <2>1, <3>1, ServedStays DEF Acknowledged
    <3>2. CASE pc[id] = "admitting" /\ ~ Acknowledged(id)
      BY <1>1, <3>2 DEF Absent, Ended
    <3>3. CASE pc[id] # "admitting"
      BY <1>2, <2>1, <3>3
    <3> QED
      BY <3>1, <3>2, <3>3
  <2>3. Admission'
    BY <1>1, <1>4, <2>1, <2>2, MoveAdmits
  <2> QED
    BY <1>5, <2>3
<1>6. CASE ~ UNCHANGED vars
  <2> DEFINE trk == Wanted(id)
  <2>1. Grant(id, trk) \/ DenyHeadOn(id, trk) \/ DenyBusy(id, trk)
    BY <1>6 DEF Acknowledged, Denied, DenyNoData
  <2>2. Cached \union {id} \subseteq Cached' /\ Cached' \subseteq Cached \union {id}
    BY <2>1, ServedStays, ServedCached
  <2>3. CASE pc[id] # "admitting"
    <3>1. ~ SomeAwaiting
      BY <1>3, <2>3
    <3>2. Cached' = Cached
      BY <1>2, <2>2, <2>3
    <3>3. AdmissionOntoFreeBlock
      BY <3>2 DEF AdmissionOntoFreeBlock, IsCached, Cached
    <3>4. Admission'
      <4>1. pc \in [Trains -> PcStates]
        BY DEF SysInv, Processes
      <4>2. \A other \in Trains : pc'[other] = IF other = id THEN "answered" ELSE pc[other]
        BY <1>1, <2>3, <4>1
      <4>3. ~ SomeAwaiting'
        BY <3>1, <4>2 DEF SomeAwaiting, IsAwaiting, Awaiting
      <4>4. UnderWayCached'
        BY <2>2, <4>2 DEF Admission, UnderWayCached
      <4>5. \A other \in Trains : pc'[other] # "unborn"
        BY <4>3 DEF SomeAwaiting, IsAwaiting, Awaiting
      <4>6. Launched'
        BY <1>1, <4>5, LinesOfTrains DEF Launched, IsTrainLine
      <4> QED
        BY <4>3, <4>4, <4>6 DEF Admission
    <3> QED
      BY <3>3, <3>4
  <2>4. CASE pc[id] = "admitting"
    <3>1. trk = Start[id] /\ Start[id] \in Blocks
      BY <2>4 DEF Wanted, DistinctStarts
    <3>2. SomeAwaiting /\ EarlyOnly /\ OwnedFromStart
      BY <2>4 DEF SomeAwaiting, IsAwaiting, Awaiting, Admission
    <3>3. \A t \in Blocks : \/ track_table'[t] \in {track_table[t], Free}
                            \/ t = Start[id] /\ track_table'[t] = id
      <4>1. CASE Grant(id, trk)
        BY <3>1, <4>1, FirstGrant
      <4>2. CASE DenyHeadOn(id, trk) \/ DenyBusy(id, trk)
        BY <4>2 DEF DenyHeadOn, DenyBusy
      <4> QED
        BY <2>1, <4>1, <4>2
    <3>4. AdmissionOntoFreeBlock
      <4>1. CASE id \in Cached
        <5>1. Cached' = Cached
          BY <2>2, <4>1
        <5> QED
          BY <5>1 DEF AdmissionOntoFreeBlock, IsCached, Cached
      <4>2. CASE id \notin Cached
        <5>1. ~ IsCached(id)
          BY <4>2 DEF IsCached, Cached
        <5>2. Grant(id, Start[id]) /\ track_table[Start[id]] = Free
          BY <2>1, <2>4, <3>1, <5>1, FirstAnswer
        <5>3. track_table'[Start[id]] = id
          BY <5>2, FirstGrant
        <5>4. \A other \in Trains : IsCached(other)' => IsCached(other) \/ other = id
          BY <2>2 DEF IsCached, Cached
        <5> QED
          BY <3>1, <5>2, <5>3, <5>4 DEF AdmissionOntoFreeBlock
      <4> QED
        BY <4>1, <4>2
    <3>5. \A other \in Trains : pc'[other] = IF other = id THEN pc'[id] ELSE pc[other]
      BY <1>1 DEF SysInv, Processes
    <3>6. EarlyOnly'
      BY <1>1, <1>4, <3>2, <3>5 DEF EarlyOnly
    <3>7. OwnedFromStart'
      BY <2>2, <3>2, <3>3 DEF OwnedFromStart
    <3>8. UnderWayCached'
      BY <2>2, <3>5 DEF Admission, UnderWayCached
    <3>9. Launched'
      <4>1. \A other \in Trains : pc[other] # "unborn" => pc'[other] # "unborn"
        BY <1>4, <3>5
      <4> QED
        BY <1>1, <4>1, LinesOfTrains DEF Admission, Launched, IsTrainLine
    <3> QED
      BY <3>4, <3>6, <3>7, <3>8, <3>9 DEF Admission
  <2> QED
    BY <2>3, <2>4
<1> QED
  BY <1>5, <1>6

\* Every step of a system that is run once.
LEMMA AdmissionStep ==
    ASSUME SysInv, Reads, Admission, DistinctStarts, ~ Reruns, [TimelyNext]_sysvars
    PROVE  Admission' /\ [Next /\ AdmissionOntoFreeBlock]_vars
<1>1. [Next]_vars
  BY SystemStep DEF TimelyNext, SysNext, TimelyTick, TimelyControllerStep
<1>2. ASSUME Cached' \subseteq Cached PROVE AdmissionOntoFreeBlock
  BY <1>2 DEF AdmissionOntoFreeBlock, IsCached, Cached
<1>3. ASSUME UNCHANGED << pc, lines_read >>, 
             SomeAwaiting => UNCHANGED << cursor, track_table >> /\ Cached \subseteq Cached',
             \A id \in Cached : id \in Cached' \/ pc[id] \in Absent
      PROVE  Admission'
  <2>1. ASSUME SomeAwaiting' PROVE EarlyOnly' /\ OwnedFromStart'
    <3>1. /\ SomeAwaiting /\ EarlyOnly /\ OwnedFromStart
          /\ UNCHANGED << cursor, track_table >> /\ Cached \subseteq Cached'
      BY <1>3, <2>1 DEF SomeAwaiting, IsAwaiting, Admission
    <3> QED
      BY <1>3, <3>1 DEF EarlyOnly, OwnedFromStart
  <2>2. UnderWayCached'
    BY <1>3 DEF Admission, UnderWayCached
  <2>3. Launched'
    BY <1>3 DEF Admission, Launched
  <2> QED
    BY <2>1, <2>2, <2>3 DEF Admission
<1>4. ASSUME UNCHANGED << vars, pc, lines_read >> PROVE Admission'
  <2>1. Cached' = Cached
    BY <1>4 DEF vars, Cached, Used
  <2> QED
    BY <1>3, <1>4, <2>1 DEF vars
<1>5. ASSUME cursor # Idle PROVE ~ SomeAwaiting
  BY <1>5 DEF Admission, EarlyOnly
<1>6. CASE UNCHANGED sysvars \/ ManagerStops
  BY <1>1, <1>4, <1>6 DEF sysvars, ManagerStops, vars, office
<1>7. CASE TimelyTick
  <2>1. /\ UNCHANGED << pc, lines_read >> /\ AllSettled
        /\ UNCHANGED << active_trains, active_train_count >>
    BY <1>7 DEF TimelyTick, StartTick, TickPulse, office
  <2>2. Cached' = Cached
    BY <2>1 DEF Cached, Used
  <2>3. ASSUME NEW id \in Trains PROVE pc[id] \notin Awaiting
    <3>1. pc[id] # "unborn"
      BY <2>1, AllLaunched DEF AllSettled, Admission
    <3>2. pc[id] \in {"receiving"} \union Absent
      BY <2>1 DEF AllSettled
    <3> QED
      BY <3>1, <3>2 DEF Awaiting, Absent, Ended
  <2>4. ~ SomeAwaiting
    BY <2>3 DEF SomeAwaiting, IsAwaiting
  <2> QED
    BY <1>1, <1>2, <1>3, <2>1, <2>2, <2>4
<1>8. CASE EndTick
  <2>1. UNCHANGED << pc, lines_read >> /\ UpdatesDone
    BY <1>8 DEF EndTick, TickDone, CheckOnly, CheckAndRollBack, office
  <2>2. ~ SomeAwaiting
    <3>1. active_train_count >= 0
      BY ConstantFacts DEF SysInv, IInv, TypeOK
    <3> QED
      BY <1>5, <2>1, <3>1 DEF UpdatesDone, Idle
  <2>3. Cached' \subseteq Cached /\ Cached \subseteq Cached'
    BY <1>8, OtherCached, OtherStays DEF EndTick, TickDone, CheckOnly
  <2> QED
    BY <1>1, <1>2, <1>3, <2>1, <2>2, <2>3
<1>9. CASE TimelyControllerStep
  <2>1. UNCHANGED vars /\ ControllerStep
    BY <1>9 DEF TimelyControllerStep, ControllerStep, SkipLine, LaunchTrain, FinishLoading, ControllerExit
  <2>2. Cached' = Cached
    BY <2>1 DEF vars, Cached, Used
  <2>3. CASE FinishLoading \/ ControllerExit
    BY <1>1, <1>4, <2>1, <2>3 DEF FinishLoading, ControllerExit
  <2>4. CASE SkipLine
    <3>1. /\ UNCHANGED << vars, pc >> /\ lines_read' = lines_read + 1
          /\ ~ IsTrainLine(TrainLines[lines_read + 1])
      BY <2>4 DEF SkipLine, Reading, NextLine
    <3>2. (SomeAwaiting => EarlyOnly /\ OwnedFromStart)' /\ UnderWayCached'
      BY <2>2, <3>1 DEF vars, Admission, SomeAwaiting, IsAwaiting, EarlyOnly, OwnedFromStart, UnderWayCached
    <3>3. lines_read \in Nat
      BY LinesAssumption DEF SysInv, Registry
    <3>4. Launched'
      BY <3>1, <3>3 DEF Admission, Launched, IsTrainLine
    <3> QED
      BY <1>1, <2>1, <3>2, <3>4 DEF Admission
  <2>5. CASE LaunchTrain
    <3> DEFINE id == TrainLines[lines_read + 1][1]
    <3>1. /\ UNCHANGED vars /\ lines_read' = lines_read + 1 /\ lines_read < Len(TrainLines)
          /\ IsTrainLine(TrainLines[lines_read + 1]) /\ controller = "loading"
          /\ \E p \in {"admitting", "failed"} : pc' = [ pc EXCEPT ![id] = p ]
      BY <2>5 DEF LaunchTrain, Reading, NextLine
    <3>2. lines_read \in Nat /\ Len(TrainLines) \in Nat
      BY LinesAssumption DEF SysInv, Registry
    <3>3. lines_read + 1 \in lines_read + 1 .. Len(TrainLines)
      BY <3>1, <3>2
    <3>4. id \in Trains /\ pc[id] = "unborn"
      <4>1. lines_read + 1 \in DOMAIN TrainLines
        BY <3>1, <3>2, LinesAssumption
      <4>2. id \in Trains
        BY <3>1, <4>1, LinesAssumption
      <4> QED
        BY <3>1, <3>3, <4>2 DEF SysInv, Registry
    <3>5. SomeAwaiting /\ EarlyOnly /\ OwnedFromStart
      BY <3>4 DEF SomeAwaiting, IsAwaiting, Awaiting, Admission
    <3>6. /\ \A other \in Trains : pc'[other] = pc[other] \/ other = id
          /\ pc'[id] \in {"admitting", "failed"}
      BY <3>1, <3>4 DEF SysInv, Processes
    <3>7. EarlyOnly' /\ OwnedFromStart'
      BY <2>2, <3>1, <3>5, <3>6 DEF vars, EarlyOnly, OwnedFromStart, Early, Awaiting
    <3>8. UnderWayCached'
      BY <2>2, <3>6 DEF Admission, UnderWayCached, Awaiting, Absent, Ended
    <3>9. Launched'
      <4> SUFFICES ASSUME NEW n \in 1 .. lines_read + 1, IsTrainLine(TrainLines[n])
                   PROVE  pc'[TrainLines[n][1]] # "unborn"
        BY <3>1 DEF Launched, IsTrainLine
      <4>1. CASE n = lines_read + 1
        BY <3>6, <4>1
      <4>2. CASE n \in 1 .. lines_read
        BY <3>6, <4>2, LinesOfTrains DEF Admission, Launched
      <4> QED
        BY <3>2, <4>1, <4>2
    <3> QED
      BY <1>1, <2>1, <3>7, <3>8, <3>9 DEF Admission
  <2> QED
    BY <2>1, <2>3, <2>4, <2>5 DEF ControllerStep
<1>10. ASSUME NEW id \in Trains, Acknowledged(id) \/ Denied(id)
       PROVE  Admission' /\ [Next /\ AdmissionOntoFreeBlock]_vars
  BY <1>1, <1>10, AnswerAdmits
<1>11. ASSUME NEW id \in Trains, Update(id) \/ NoUpdate(id)
       PROVE  Admission' /\ [Next /\ AdmissionOntoFreeBlock]_vars
  <2>1. /\ UNCHANGED lines_read /\ cursor \in Used /\ active_trains[cursor].train_id = id
        /\ \/ pc' = pc
           \/ pc[id] = "receiving" /\ pc' = [ pc EXCEPT ![id] = "woken" ]
    BY <1>11 DEF Update, NoUpdate, AtCursor, office
  <2>2. ~ SomeAwaiting
    BY <1>5, <2>1 DEF Used, Idle
  <2>3. UpdateSent \/ UpdateSkipped \/ (Cleanup /\ NoUpdate(id))
    BY <1>11 DEF Update, NoUpdate
  <2>4. Cached' \subseteq Cached
    BY <2>3, OtherCached DEF UpdateSent, UpdateSkipped
  <2>5. \A other \in Cached : other \in Cached' \/ pc[other] \in Absent
    <3>1. CASE Cleanup /\ NoUpdate(id)
      BY <2>1, <3>1, CleanupStays DEF NoUpdate
    <3>2. CASE UpdateSent \/ UpdateSkipped
      BY <3>2, OtherStays DEF UpdateSent, UpdateSkipped
    <3> QED
      BY <2>3, <3>1, <3>2
  <2>6. CASE pc' = pc
    BY <1>1, <1>2, <1>3, <2>1, <2>2, <2>4, <2>5, <2>6
  <2>7. CASE pc[id] = "receiving" /\ pc' = [ pc EXCEPT ![id] = "woken" ]
    <3>1. \A other \in Trains : pc'[other] = IF other = id THEN "woken" ELSE pc[other]
      BY <2>7 DEF SysInv, Processes
    <3>2. ~ SomeAwaiting'
      BY <2>2, <3>1 DEF SomeAwaiting, IsAwaiting, Awaiting
    <3>3. UnderWayCached'
      BY <2>5, <2>7, <3>1 DEF Admission, UnderWayCached, Awaiting, Absent, Ended
    <3>4. Launched'
      BY <2>1, <3>1, LinesOfTrains DEF Admission, Launched, IsTrainLine
    <3> QED
      BY <1>1, <1>2, <2>4, <3>2, <3>3, <3>4 DEF Admission
  <2> QED
    BY <2>1, <2>6, <2>7
<1>12. ASSUME NEW id \in Trains, Released(id) \/ SendFails(id) \/ Decide(id) \/ Crash(id)
       PROVE  Admission' /\ [Next /\ AdmissionOntoFreeBlock]_vars
  <2> DEFINE p == pc'[id]
  <2>1. pc \in [Trains -> PcStates]
    BY DEF SysInv, Processes
  <2>2. /\ UNCHANGED lines_read /\ pc' = [ pc EXCEPT ![id] = p ]
        /\ \/ pc[id] \notin Early /\ pc[id] \notin Absent /\ p \notin Awaiting
           \/ p \in {"failed", "killed"} /\ UNCHANGED vars
    <3>1. CASE Released(id)
      BY <2>1, <3>1 DEF Released, AfterRelease, office, Early, Awaiting, Absent, Ended
    <3>2. CASE SendFails(id)
      BY <2>1, <3>2 DEF SendFails, AfterRelease, Sending, office, Early, Awaiting, Absent, Ended
    <3>3. CASE Decide(id)
      BY <2>1, <3>3 DEF Decide, Retry, Request, Finish, GiveUp, Abort, Continue, Settled, office,
                        Early, Awaiting, Absent, Ended
    <3>4. CASE Crash(id)
      BY <2>1, <3>4 DEF Crash, office
    <3> QED
      BY <1>12, <3>1, <3>2, <3>3, <3>4
  <2>3. UNCHANGED vars \/ Release(id, train[id].track)
    BY <1>12 DEF Released, SendFails, Decide, Retry, Request, Finish, GiveUp, Abort, Continue, Crash
  <2>4. Cached' \subseteq Cached /\ Cached \subseteq Cached'
    BY <2>3, OtherCached, OtherStays DEF vars
  <2> HIDE DEF p
  <2>5. p # "unborn" /\ p \notin Awaiting
    BY <2>2 DEF Awaiting
  <2>6. SomeAwaiting => pc[id] \in Early
    BY DEF Admission, EarlyOnly
  <2>7. SomeAwaiting => p \in Early /\ UNCHANGED << cursor, track_table >>
    BY <2>2, <2>6 DEF Early, vars
  <2>8. p \notin Awaiting \union Absent => id \in Cached'
    BY <2>2, <2>4 DEF Admission, UnderWayCached, Early, Absent, Ended
  <2>9. Admission'
    BY <2>2, <2>4, <2>5, <2>7, <2>8, MoveAdmits
  <2> QED
    BY <1>1, <1>2, <2>4, <2>9
<1>13. CASE Rerun
  BY <1>13 DEF Rerun
<1> QED
  BY <1>6, <1>7, <1>8, <1>9, <1>10, <1>11, <1>12, <1>13 DEF TimelyNext, TrainStep

\* Trains that start on different blocks, in a system that is run once with
\* timely ticks, find their first blocks free when they are admitted: the
\* environment in which the manager keeps its blocks apart is the one the
\* railway provides, whatever trains die, are refused or cannot be forked.
THEOREM TimelyAdmits ==
    ASSUME DistinctStarts, ~ Reruns
    PROVE  TimelySpec => AdmittedSpec
<1>1. SysInit => SysInv /\ Reads /\ Admission /\ Init
  <2>1. SysInit => Reads
    BY ReadsInit
  <2>2. SysInit => Admission
    BY DEF SysInit, Init, InitTable, Admission, SomeAwaiting, IsAwaiting, EarlyOnly, OwnedFromStart,
           UnderWayCached, Launched, Early, Awaiting, Absent
  <2> QED
    BY <2>1, <2>2, SysInvInit DEF SysInit
<1>2. [TimelyNext]_sysvars => [SysNext]_sysvars
  BY DEF TimelyNext, SysNext, TimelyTick, TimelyControllerStep
<1>3. SysInv /\ Reads /\ Admission /\ [TimelyNext]_sysvars
          => (SysInv /\ Reads /\ Admission)' /\ [Next /\ AdmissionOntoFreeBlock]_vars
  BY <1>2, SysInvStep, ReadsStep, AdmissionStep
<1> QED
  BY <1>1, <1>3, PTL DEF TimelySpec, AdmittedSpec

\* ... so no two trains are ever located on one block: "exactly one train can
\* occupy a track at a time" (resource_manager.c:36) in the running system.
THEOREM TimelyExclusive ==
    ASSUME DistinctStarts, ~ Reruns
    PROVE  TimelySpec => []Exclusive
  BY TimelyAdmits, AdmittedExclusive, PTL

\* ... and no cycle of waiting trains goes unreported.
THEOREM TimelyCycleIsReported ==
    ASSUME DistinctStarts, ~ Reruns
    PROVE  TimelySpec => []CycleIsReported
  BY TimelyAdmits, AdmittedCycleIsReported, PTL

\* ... and a train moves only onto a block where nobody is: the running system
\* implements the abstract reservation of blocks.
THEOREM TimelyReservesBlocks ==
    ASSUME DistinctStarts, ~ Reruns
    PROVE  TimelySpec => ReservesBlocks
  BY TimelyAdmits, AdmittedReservesBlocks, PTL

\* However late the ticks, in the running system the deadlock check takes a
\* block only from a train that waits in a cycle.
THEOREM SystemRollbackOnlyOnCycle == SysSpec => RollbackOnlyOnCycle
  BY SystemImplementsManager, ManagerRollbackOnlyOnCycle, PTL
=============================================================================
