---------------------------- MODULE RailwayProofs ----------------------------
(***************************************************************************)
(* Proofs about the running system, for every configuration of tracks and  *)
(* trains, every limit and every pattern of deaths, reruns and stops.      *)
(*                                                                         *)
(* The manager's theorems hold for trains that send anything in            *)
(* Requestable.  They hold of the real trains too if these stay within it, *)
(* which is an invariant of the two processes together: a train releases   *)
(* the track it believes to be on, which it has from a position update,    *)
(* which carries what the manager granted it (SysInv).                     *)
(***************************************************************************)
EXTENDS RailwaySystem, DeadlockManagerProofs, FiniteSetTheorems

Releasing == { "finishing", "giving_up", "aborting" }
PcStates  == Sending \union Absent \union { "receiving", "woken", "answered" }

\* A train in these states has not been denied too often; in the others it is
\* about to look at its denials or has ended.
Hopeful == { "unborn", "admitting", "receiving", "woken", "retrying", "requesting" }

\* A train is located on a track of its messages, or on none.
OnRoute ==
    \A i \in Used :
        active_trains[i].track_id \in Requestable[active_trains[i].train_id] \union {NoTrack}

\* So it is in its own view, and it asks for the release of no other track.
Processes ==
    /\ pc \in [Trains -> PcStates]
    /\ train \in [Trains -> LocalStates]
    /\ \A id \in Trains :
          /\ train[id].track \in Requestable[id] \union {NoTrack}
          /\ pc[id] \in Releasing => train[id].track \in Requestable[id]
          /\ pc[id] \in Hopeful => train[id].denies < MAX_CONSECUTIVE_DENIES

\* TrainController's registry is bounded, and the lines it has not read are of
\* trains it has not started.
Registry ==
    /\ controller \in {"loading", "waiting", "ended"} /\ manager_up \in BOOLEAN
    /\ lines_read \in 0 .. Len(TrainLines)
    /\ train_list \subseteq Trains /\ IsFiniteSet(train_list)
    /\ Cardinality(train_list) <= MAX_TRAINS
    /\ controller = "loading" =>
          \A n \in lines_read + 1 .. Len(TrainLines) :
              IsTrainLine(TrainLines[n]) => pc[TrainLines[n][1]] = "unborn"

SysInv == IInv(Blocks \ Starts) /\ OnRoute /\ Processes /\ Registry

-----------------------------------------------------------------------------
(* The manager's side. *)

\* A handler that puts the train it serves on a track of its messages.
LEMMA SlotOnRoute ==
    ASSUME OnRoute, NEW id \in Trains, NEW s, NEW trains, NEW book, NEW count,
           Found(id, s, trains, book, count), NEW rec, rec.train_id = id,
           rec.track_id \in Requestable[id] \union {NoTrack},
           active_trains' = [trains EXCEPT ![s] = rec], active_train_count' = count
    PROVE  OnRoute'
<1>1. /\ count \in 0 .. MAX_TRAINS /\ s \in Slots /\ trains \in [Slots -> TrainRecords]
      /\ \A i \in (0 .. count - 1) \ {s} : i \in Used /\ trains[i] = active_trains[i]
  BY DEF Found
<1>2. Used' = 0 .. count - 1 /\ Used' \subseteq Slots
  BY <1>1, ConstantFacts DEF Used, Slots
<1>3. \A i \in Used' \ {s} : i \in Used /\ active_trains'[i] = active_trains[i]
  BY <1>1, <1>2
<1>4. active_trains'[s] = rec
  BY <1>1
<1> QED
  BY <1>3, <1>4 DEF OnRoute

\* Where the manager locates a train it serves.
LEMMA ServedOnRoute ==
    ASSUME SysInv, NEW id \in Trains, Serves(id)
    PROVE  LocationOf(id) \in Requestable[id] \union {NoTrack}
<1>1. Found(id, SlotFor(id), TrainsWith(id), StatesWith(id), CountWith(id))
  BY LookupFacts DEF SysInv, IInv, Serves
<1>2. CASE IsCached(id)
  BY <1>1, <1>2 DEF Found, SysInv, OnRoute, LocationOf
<1>3. CASE ~ IsCached(id)
  BY <1>1, <1>3, RouteAssumption DEF Found, LocationOf
<1> QED
  BY <1>2, <1>3

\* A denial leaves the train where it is or takes it off the tracks.
LEMMA DenyOnRoute ==
    ASSUME SysInv, NEW id \in Trains, NEW trk, DenyHeadOn(id, trk) \/ DenyBusy(id, trk)
    PROVE  OnRoute'
<1> DEFINE s == SlotFor(id)
           trains == TrainsWith(id)
           rec == active_trains'[s]
<1>1. Serves(id) /\ active_train_count' = CountWith(id)
  BY DEF DenyHeadOn, DenyBusy
<1>2. Found(id, s, trains, StatesWith(id), CountWith(id))
  BY <1>1, LookupFacts DEF SysInv, IInv, Serves
<1>3. /\ s \in Slots /\ trains \in [Slots -> TrainRecords] /\ trains[s].train_id = id
      /\ trains[s].track_id = LocationOf(id)
  BY <1>2 DEF Found, LocationOf
<1> HIDE DEF s, trains
<1>4. /\ active_trains' = [trains EXCEPT ![s] = rec]
      /\ rec.train_id = id /\ rec.track_id \in {LocationOf(id), NoTrack}
  <2>1. CASE DenyHeadOn(id, trk)
    <3>1. active_trains' = [trains EXCEPT ![s].moving = FALSE]
      BY <2>1 DEF DenyHeadOn, s, trains
    <3> QED
      BY <1>3, <3>1 DEF TrainRecords
  <2>2. CASE DenyBusy(id, trk)
    <3> DEFINE to == IF train_is_on_any_track(id) THEN LocationOf(id) ELSE NoTrack
    <3>1. active_trains' =
              [trains EXCEPT ![s] = [trains[s] EXCEPT !.track_id = to, !.moving = FALSE]]
      BY <2>2 DEF DenyBusy, s, trains
    <3>2. to \in {LocationOf(id), NoTrack}
      OBVIOUS
    <3> HIDE DEF to
    <3> QED
      BY <1>3, <3>1, <3>2 DEF TrainRecords
  <2> QED
    BY <2>1, <2>2
<1> HIDE DEF rec
<1>5. rec.track_id \in Requestable[id] \union {NoTrack}
  BY <1>1, <1>4, ServedOnRoute
<1> QED
  BY <1>1, <1>2, <1>4, <1>5, SlotOnRoute DEF SysInv

\* A grant locates the train on the track it asked for.
LEMMA GrantOnRoute ==
    ASSUME SysInv, NEW id \in Trains, NEW trk \in Requestable[id], Grant(id, trk)
    PROVE  OnRoute'
<1> DEFINE s == SlotFor(id)
           trains == TrainsWith(id)
           power == id \in Powered
           rec == [trains[s] EXCEPT !.track_id = trk, !.moving = power]
<1>1. /\ Serves(id) /\ active_train_count' = CountWith(id)
      /\ active_trains' = [trains EXCEPT ![s] = rec]
  BY DEF Grant
<1>2. Found(id, s, trains, StatesWith(id), CountWith(id))
  BY <1>1, LookupFacts DEF SysInv, IInv, Serves
<1> HIDE DEF s, trains, power
<1>3. rec.train_id = id /\ rec.track_id = trk
  BY <1>2 DEF Found, TrainRecords
<1> HIDE DEF rec
<1> QED
  BY <1>1, <1>2, <1>3, SlotOnRoute DEF SysInv

\* The other steps of the manager leave trains where they are, take one off
\* the tracks or move records to other slots.
LEMMA OtherOnRoute ==
    ASSUME SysInv,
           \/ \E id \in Trains : \E trk \in Requestable[id] : Release(id, trk)
           \/ Cleanup
           \/ CheckAndRollBack
           \/ UNCHANGED << active_trains, active_train_count >>
    PROVE  OnRoute'
<1>1. /\ active_trains \in [Slots -> TrainRecords] /\ active_train_count \in 0 .. MAX_TRAINS
      /\ Used \subseteq Slots
  BY ConstantFacts DEF SysInv, IInv, TypeOK, Used, Slots
<1>2. ASSUME UNCHANGED active_train_count,
             \A i \in Used : /\ active_trains'[i].train_id = active_trains[i].train_id
                             /\ active_trains'[i].track_id \in {active_trains[i].track_id, NoTrack}
      PROVE  OnRoute'
  BY <1>2 DEF OnRoute, SysInv, Used
<1>3. ASSUME NEW id \in Trains, NEW trk, Release(id, trk)
      PROVE  OnRoute'
  <2>1. /\ UNCHANGED active_train_count
        /\ \A i \in Used : \/ active_trains'[i] = active_trains[i]
                           \/ active_trains'[i] =
                                 [active_trains[i] EXCEPT !.track_id = NoTrack, !.moving = FALSE]
    BY <1>1, <1>3 DEF Release
  <2> QED
    BY <1>1, <1>2, <2>1 DEF TrainRecords
<1>4. CASE Cleanup
  <2> DEFINE k == cursor
             last == active_train_count - 1
  <2>1. /\ active_train_count' = last /\ k \in 0 .. last
        /\ active_trains' =
              [ i \in Slots |->
                  CASE i = last               -> ZeroTrain
                    [] i >= k /\ i < last     -> active_trains[i + 1]
                    [] i < k \/ i > last      -> active_trains[i] ]
    BY <1>4 DEF Cleanup, Used
  <2>2. ASSUME NEW i \in Used' PROVE \E j \in Used : active_trains'[i] = active_trains[j]
    <3>1. i \in Slots /\ i \in 0 .. last - 1 /\ last \in Int
      BY <1>1, <2>1, ConstantFacts DEF Used, Slots
    <3>2. CASE i >= k
      <4>1. active_trains'[i] = active_trains[i + 1] /\ i + 1 \in Used
        BY <2>1, <3>1, <3>2, ConstantFacts DEF Used
      <4> QED
        BY <4>1
    <3>3. CASE i < k
      <4>1. active_trains'[i] = active_trains[i] /\ i \in Used
        BY <2>1, <3>1, <3>3, ConstantFacts DEF Used
      <4> QED
        BY <4>1
    <3> QED
      BY <2>1, <3>1, <3>2, <3>3
  <2> QED
    BY <2>2 DEF OnRoute, SysInv
<1>5. CASE CheckAndRollBack
  <2> DEFINE v == find_train_index(Victim)
  <2>1. /\ UNCHANGED active_train_count
        /\ active_trains' =
              [active_trains EXCEPT ![v] =
                  [active_trains[v] EXCEPT !.track_id = NoTrack, !.moving = FALSE]]
    BY <1>5 DEF CheckAndRollBack
  <2> HIDE DEF v
  <2> QED
    BY <1>1, <1>2, <2>1 DEF TrainRecords
<1>6. CASE UNCHANGED << active_trains, active_train_count >>
  BY <1>2, <1>6
<1> QED
  BY <1>3, <1>4, <1>5, <1>6

\* Every step of the manager keeps the trains on their routes.
LEMMA OnRouteStep ==
    ASSUME SysInv, [Next]_vars
    PROVE  OnRoute'
<1>1. CASE Message
  BY <1>1, DenyOnRoute, GrantOnRoute, OtherOnRoute DEF Message, DenyNoData, vars
<1>2. CASE Tick
  BY <1>2, OtherOnRoute
  DEF Tick, TickPulse, UpdateSent, UpdateSkipped, TickDone, CheckOnly
<1>3. CASE UNCHANGED vars
  BY <1>3, OtherOnRoute DEF vars
<1> QED
  BY <1>1, <1>2, <1>3 DEF Next
-----------------------------------------------------------------------------
(* The trains' side. *)

\* A train's messages are among those the manager's theorems allow.
LEMMA WantedIsRequestable ==
    ASSUME NEW id \in Trains
    PROVE  Wanted(id) \in Requestable[id]
  BY RouteAssumption DEF Wanted

\* Every step of the system is a step of the manager or none of its business.
LEMMA SystemStep ==
    ASSUME SysInv, [SysNext]_sysvars
    PROVE  [Next]_vars
<1>1. CASE UNCHANGED sysvars
  BY <1>1 DEF sysvars
<1>2. CASE StartTick \/ EndTick
  BY <1>2 DEF StartTick, EndTick, Next, Tick
<1>3. CASE ControllerStep \/ Rerun \/ ManagerStops
  BY <1>3 DEF ControllerStep, SkipLine, LaunchTrain, FinishLoading, ControllerExit, Rerun, ManagerStops
<1>4. ASSUME NEW id \in Trains, Acknowledged(id)
      PROVE  [Next]_vars
  BY <1>4, WantedIsRequestable DEF Acknowledged, Next, Message
<1>5. ASSUME NEW id \in Trains, Denied(id)
      PROVE  [Next]_vars
  BY <1>5, WantedIsRequestable DEF Denied, Next, Message
<1>6. ASSUME NEW id \in Trains, Released(id)
      PROVE  [Next]_vars
  <2>1. train[id].track \in Requestable[id]
    BY <1>6 DEF Released, SysInv, Processes, Releasing
  <2> QED
    BY <1>6, <2>1 DEF Released, Next, Message
<1>7. ASSUME NEW id \in Trains, Update(id) \/ NoUpdate(id)
      PROVE  [Next]_vars
  BY <1>7 DEF Update, NoUpdate, Next, Tick
<1>8. ASSUME NEW id \in Trains, SendFails(id) \/ Decide(id) \/ Crash(id)
      PROVE  [Next]_vars
  BY <1>8 DEF SendFails, Decide, Retry, Request, Finish, GiveUp, Abort, Continue, Crash
<1> QED
  BY <1>1, <1>2, <1>3, <1>4, <1>5, <1>6, <1>7, <1>8 DEF SysNext, TrainStep

\* What a train makes of an update: its own view of where it is follows.
LEMMA UpdateFollows ==
    ASSUME NEW l \in LocalStates, NEW id, NEW at \in Int, NEW moving \in BOOLEAN
    PROVE  /\ AfterUpdate(l, id, at, moving) \in LocalStates
           /\ AfterUpdate(l, id, at, moving).track = at
           /\ AfterUpdate(l, id, at, moving).denies = l.denies
<1> DEFINE later == [ l EXCEPT !.since = OneMore(l.since, REQUEST_RETRY_TICKS) ]
           there == (at = Destination[id])
           on == OneMore(l.ticks, REQUEST_AFTER_TICKS + COMPLETE_AFTER_TICKS)
           idle == IF l.idle = NoProgressYet THEN l.idle ELSE OneMore(l.idle, MAX_NO_PROGRESS_TICKS)
<1>1. /\ later \in LocalStates /\ later.track = l.track /\ later.ticks = l.ticks
      /\ later.idle = l.idle /\ later.denies = l.denies
  <2>1. OneMore(l.since, REQUEST_RETRY_TICKS) \in 0 .. REQUEST_RETRY_TICKS
    BY TicksAssumption DEF OneMore, LocalStates
  <2> QED
    BY <2>1 DEF LocalStates
<1>2. /\ there \in BOOLEAN /\ on \in 0 .. REQUEST_AFTER_TICKS + COMPLETE_AFTER_TICKS
      /\ idle \in NoProgressYet .. MAX_NO_PROGRESS_TICKS
  BY TicksAssumption DEF OneMore, LocalStates, NoProgressYet
<1>3. AfterUpdate(l, id, at, moving) =
         CASE l.track # at ->
                [ later EXCEPT !.track = at, !.ticks = 0, !.idle = 0, !.asked = there ]
           [] l.track = at /\ moving -> [ later EXCEPT !.idle = 0, !.ticks = on ]
           [] l.track = at /\ ~ moving -> [ later EXCEPT !.idle = idle ]
  BY <1>1 DEF AfterUpdate
<1> HIDE DEF later, there, on, idle
<1>0. /\ 0 \in 0 .. REQUEST_AFTER_TICKS + COMPLETE_AFTER_TICKS
      /\ 0 \in NoProgressYet .. MAX_NO_PROGRESS_TICKS
  BY TicksAssumption DEF NoProgressYet
<1>4. /\ [ later EXCEPT !.track = at, !.ticks = 0, !.idle = 0, !.asked = there ] \in LocalStates
      /\ [ later EXCEPT !.track = at, !.ticks = 0, !.idle = 0, !.asked = there ].track = at
      /\ [ later EXCEPT !.track = at, !.ticks = 0, !.idle = 0, !.asked = there ].denies = l.denies
  BY <1>1, <1>2, <1>0, Zenon DEF LocalStates
<1>5. /\ [ later EXCEPT !.idle = 0, !.ticks = on ] \in LocalStates
      /\ [ later EXCEPT !.idle = 0, !.ticks = on ].track = l.track
      /\ [ later EXCEPT !.idle = 0, !.ticks = on ].denies = l.denies
  BY <1>1, <1>2, <1>0, Zenon DEF LocalStates
<1>6. /\ [ later EXCEPT !.idle = idle ] \in LocalStates
      /\ [ later EXCEPT !.idle = idle ].track = l.track
      /\ [ later EXCEPT !.idle = idle ].denies = l.denies
  BY <1>1, <1>2 DEF LocalStates
<1>7. CASE l.track # at
  BY <1>3, <1>4, <1>7
<1>8. CASE l.track = at /\ moving
  BY <1>3, <1>5, <1>8
<1>9. CASE l.track = at /\ ~ moving
  BY <1>3, <1>6, <1>9
<1> QED
  BY <1>7, <1>8, <1>9

\* Only one train's process moves, and its view stays on its route.
LEMMA ProcessMoves ==
    ASSUME Processes, NEW id \in Trains, NEW p \in PcStates, NEW l \in LocalStates,
           pc' = [ pc EXCEPT ![id] = p ],
           train' = train \/ train' = [ train EXCEPT ![id] = l ],
           l.track \in Requestable[id] \union {NoTrack},
           train' = train => l = train[id],
           p \in Releasing => l.track \in Requestable[id],
           p \in Hopeful => l.denies < MAX_CONSECUTIVE_DENIES
    PROVE  Processes'
<1>1. pc' \in [Trains -> PcStates] /\ train' \in [Trains -> LocalStates]
  BY DEF Processes
<1>2. pc'[id] = p /\ train'[id] = l
  BY DEF Processes
<1>3. \A other \in Trains \ {id} : pc'[other] = pc[other] /\ train'[other] = train[other]
  BY DEF Processes
<1> QED
  BY <1>1, <1>2, <1>3 DEF Processes

\* A train starts on its first track with no denial.
LEMMA NewTrainFacts ==
    ASSUME NEW id \in Trains
    PROVE  /\ NewTrain(id) \in LocalStates
           /\ NewTrain(id).track \in Requestable[id]
           /\ NewTrain(id).denies < MAX_CONSECUTIVE_DENIES
  BY StartAssumption, TicksAssumption, RouteAssumption DEF NewTrain, LocalStates, NoProgressYet

\* TrainController forks trains that believe to be on their first track.
LEMMA ControllerKeepsProcesses ==
    ASSUME SysInv, ControllerStep \/ Rerun \/ ManagerStops \/ StartTick \/ EndTick
    PROVE  Processes'
<1>1. ASSUME UNCHANGED << pc, train >>
      PROVE  Processes'
  BY <1>1 DEF SysInv, Processes
<1>2. CASE SkipLine \/ FinishLoading \/ ControllerExit \/ ManagerStops \/ StartTick \/ EndTick
  BY <1>1, <1>2 DEF SkipLine, FinishLoading, ControllerExit, ManagerStops, StartTick, EndTick
<1>3. CASE LaunchTrain
  <2> DEFINE id == NextLine[1]
  <2>1. train' = train /\ \E p \in { "admitting", "failed" } : pc' = [ pc EXCEPT ![id] = p ]
    BY <1>3 DEF LaunchTrain
  <2>2. PICK p \in { "admitting", "failed" } : pc' = [ pc EXCEPT ![id] = p ]
    BY <2>1
  <2>3. p \in PcStates \ Releasing
    BY DEF PcStates, Releasing, Sending, Absent, Ended
  <2>4. pc[id] \in Hopeful
    <3>1. controller = "loading" /\ lines_read + 1 \in lines_read + 1 .. Len(TrainLines)
      BY <1>3, LinesAssumption DEF LaunchTrain, Reading, SysInv, Registry
    <3> QED
      BY <1>3, <3>1 DEF LaunchTrain, NextLine, SysInv, Registry, Hopeful
  <2> HIDE DEF id
  <2> QED
    BY <2>1, <2>2, <2>3, <2>4 DEF SysInv, Processes
<1>4. CASE Rerun
  <2>1. pc' = [ id \in Trains |-> "unborn" ] /\ train' = [ id \in Trains |-> NewTrain(id) ]
    BY <1>4 DEF Rerun
  <2>2. \A id \in Trains : /\ NewTrain(id) \in LocalStates
                           /\ NewTrain(id).track \in Requestable[id]
                           /\ NewTrain(id).denies < MAX_CONSECUTIVE_DENIES
    BY NewTrainFacts
  <2>3. "unborn" \in PcStates \ Releasing
    BY DEF PcStates, Releasing, Absent, Sending
  <2> QED
    BY <2>1, <2>2, <2>3 DEF Processes
<1> QED
  BY <1>2, <1>3, <1>4 DEF ControllerStep
\* What the manager answers does not change where the train believes to be.
LEMMA ReplyKeepsProcesses ==
    ASSUME SysInv, NEW id \in Trains,
           Acknowledged(id) \/ Denied(id) \/ Released(id) \/ SendFails(id)
    PROVE  Processes'
<1> DEFINE l == train[id]
<1>1. /\ pc \in [Trains -> PcStates] /\ train \in [Trains -> LocalStates] /\ l \in LocalStates
      /\ l.track \in Requestable[id] \union {NoTrack}
  BY DEF SysInv, Processes
<1>2. /\ 0 \in 0 .. REQUEST_RETRY_TICKS /\ 0 \in 0 .. MAX_CONSECUTIVE_DENIES /\ TRUE \in BOOLEAN
      /\ pc[id] \in Hopeful => /\ l.denies + 1 \in 0 .. MAX_CONSECUTIVE_DENIES
                              /\ l.denies < MAX_CONSECUTIVE_DENIES
  BY <1>1, TicksAssumption DEF LocalStates, SysInv, Processes
<1>3. \A p \in { "finishing", "giving_up", "aborting" } :
          AfterRelease(p) \in { "finished", "gave_up", "aborted" }
  BY DEF AfterRelease
<1>4. /\ { "failed", "refused", "receiving", "answered", "finished", "gave_up", "aborted" }
          \subseteq PcStates \ Releasing
      /\ { "failed", "refused", "answered", "finished", "gave_up", "aborted" } \cap Hopeful = {}
  BY DEF PcStates, Releasing, Sending, Absent, Ended, Hopeful
<1>5. ASSUME NEW p \in { "failed", "refused", "receiving", "answered", "finished", "gave_up", "aborted" },
             NEW m \in LocalStates,
             pc' = [ pc EXCEPT ![id] = p ], train' = [ train EXCEPT ![id] = m ],
             m.track = l.track, p = "receiving" => m.denies < MAX_CONSECUTIVE_DENIES
      PROVE  Processes'
  <2>1. p \in PcStates /\ p \notin Releasing /\ (p \in Hopeful => p = "receiving")
    BY <1>4
  <2>2. m.track \in Requestable[id] \union {NoTrack} /\ (train' = train => m = train[id])
    BY <1>1, <1>5
  <2>3. Processes
    BY DEF SysInv
  <2> HIDE DEF l
  <2> QED
    BY <1>5, <2>1, <2>2, <2>3, ProcessMoves
<1>6. CASE Released(id)
  <2>1. /\ train' = train /\ pc[id] \in { "finishing", "giving_up", "aborting" }
        /\ pc' = [ pc EXCEPT ![id] = AfterRelease(pc[id]) ]
    BY <1>6 DEF Released, office
  <2>2. train' = [ train EXCEPT ![id] = l ]
    BY <1>1, <2>1
  <2>3. AfterRelease(pc[id]) \in { "finished", "gave_up", "aborted" }
    BY <1>3, <2>1
  <2> HIDE DEF l
  <2> QED
    BY <1>1, <1>5, <2>1, <2>2, <2>3
<1>7. CASE SendFails(id)
  <2> DEFINE p == CASE pc[id] = "admitting" -> "failed"
                    [] pc[id] \in {"retrying", "requesting"} -> "answered"
                    [] pc[id] \in {"finishing", "giving_up", "aborting"} -> AfterRelease(pc[id])
             since == IF pc[id] \in {"retrying", "requesting"} THEN 0 ELSE l.since
             m == [ l EXCEPT !.since = since ]
  <2>1. p \in { "failed", "answered", "finished", "gave_up", "aborted" }
    BY <1>3, <1>7 DEF SendFails, Sending
  <2>2. pc' = [ pc EXCEPT ![id] = p ] /\ train' = [ train EXCEPT ![id] = m ]
    BY <1>7 DEF SendFails
  <2>3. since \in 0 .. REQUEST_RETRY_TICKS
    BY <1>1, <1>2 DEF LocalStates
  <2> HIDE DEF p, since, l
  <2>4. m \in LocalStates /\ m.track = l.track
    BY <1>1, <2>3, Zenon DEF LocalStates
  <2> QED
    BY <1>5, <2>1, <2>2, <2>4
<1>8. CASE Denied(id)
  <2> DEFINE p == IF pc[id] = "admitting" THEN "refused" ELSE "answered"
             n == l.denies + 1
             m == [ l EXCEPT !.since = 0, !.denies = n ]
  <2>1. /\ pc' = [ pc EXCEPT ![id] = p ]
        /\ train' = [ train EXCEPT ![id] = IF pc[id] = "admitting" THEN l ELSE m ]
    BY <1>8 DEF Denied
  <2>2. p \in { "refused", "answered" } /\ p # "receiving"
    OBVIOUS
  <2>3. n \in 0 .. MAX_CONSECUTIVE_DENIES
    BY <1>2, <1>8 DEF Denied, Hopeful
  <2> HIDE DEF p, n, l
  <2>4. m \in LocalStates /\ m.track = l.track
    BY <1>1, <1>2, <2>3, Zenon DEF LocalStates
  <2> QED
    BY <1>1, <1>5, <2>1, <2>2, <2>4
<1>9. CASE Acknowledged(id)
  <2> DEFINE p == IF pc[id] = "admitting" THEN "receiving" ELSE "answered"
             m == [ l EXCEPT !.since = 0, !.denies = 0 ]
             n == [ l EXCEPT !.since = 0, !.denies = 0, !.asked = TRUE ]
  <2>1. /\ pc' = [ pc EXCEPT ![id] = p ]
        /\ \/ train' = [ train EXCEPT ![id] = l ]
           \/ train' = [ train EXCEPT ![id] = m ]
           \/ train' = [ train EXCEPT ![id] = n ]
    BY <1>9 DEF Acknowledged
  <2>2. p \in { "receiving", "answered" }
    OBVIOUS
  <2>3. l.denies < MAX_CONSECUTIVE_DENIES /\ 0 < MAX_CONSECUTIVE_DENIES
    BY <1>2, <1>9, TicksAssumption DEF Acknowledged, Hopeful
  <2> HIDE DEF p, l
  <2>4. m \in LocalStates /\ m.track = l.track /\ m.denies = 0
    BY <1>1, <1>2, Zenon DEF LocalStates
  <2>5. n \in LocalStates /\ n.track = l.track /\ n.denies = 0
    BY <1>1, <1>2, Zenon DEF LocalStates
  <2> QED
    BY <1>1, <1>5, <2>1, <2>2, <2>3, <2>4, <2>5
<1> QED
  BY <1>6, <1>7, <1>8, <1>9
\* An update tells a train a track of its messages, or none.
LEMMA UpdateKeepsProcesses ==
    ASSUME SysInv, NEW id \in Trains, Update(id) \/ NoUpdate(id)
    PROVE  Processes'
<1>1. CASE Update(id)
  <2> DEFINE at == active_trains[cursor].track_id
             moving == active_trains[cursor].moving
             l == AfterUpdate(train[id], id, at, moving)
  <2>1. /\ pc' = [ pc EXCEPT ![id] = "woken" ] /\ train' = [ train EXCEPT ![id] = l ]
        /\ AtCursor(id)
    BY <1>1 DEF Update
  <2>2. cursor \in Used /\ Used \subseteq Slots /\ active_trains[cursor].train_id = id
    BY <2>1, ConstantFacts DEF AtCursor, SysInv, IInv, TypeOK, Used, Slots
  <2>3. at \in Requestable[id] \union {NoTrack} /\ at \in Int /\ moving \in BOOLEAN
    BY <2>2 DEF SysInv, OnRoute, IInv, TypeOK, TrainRecords
  <2>4. train[id] \in LocalStates /\ train \in [Trains -> LocalStates]
    BY DEF SysInv, Processes
  <2> HIDE DEF at, moving
  <2>5. l \in LocalStates /\ l.track = at /\ l.denies = train[id].denies
    BY <2>3, <2>4, UpdateFollows
  <2> HIDE DEF l
  <2>6. train' = train => l = train[id]
    BY <2>1, <2>4
  <2>7. "woken" \in PcStates \ Releasing
    BY DEF PcStates, Releasing
  <2>8. train[id].denies < MAX_CONSECUTIVE_DENIES
    BY <1>1 DEF Update, SysInv, Processes, Hopeful
  <2> QED
    BY <2>1, <2>3, <2>5, <2>6, <2>7, <2>8, ProcessMoves DEF SysInv
<1>2. CASE NoUpdate(id)
  BY <1>2 DEF NoUpdate, office, SysInv, Processes
<1> QED
  BY <1>1, <1>2

\* A train asks for the release of the track it believes to be on.
LEMMA DecisionKeepsProcesses ==
    ASSUME SysInv, NEW id \in Trains, Decide(id) \/ Crash(id)
    PROVE  Processes'
<1> DEFINE l == train[id]
<1>1. /\ pc \in [Trains -> PcStates] /\ train \in [Trains -> LocalStates] /\ l \in LocalStates
      /\ l.track \in Requestable[id] \union {NoTrack}
  BY DEF SysInv, Processes
<1>2. ASSUME NEW p \in PcStates, train' = train, pc' = [ pc EXCEPT ![id] = p ],
             p \in Releasing => l.track \in Requestable[id],
             p \in Hopeful => l.denies < MAX_CONSECUTIVE_DENIES
      PROVE  Processes'
  BY <1>1, <1>2, ProcessMoves DEF SysInv
<1>3. /\ { "retrying", "requesting", "receiving", "killed", "gave_up", "aborted" } \subseteq PcStates \ Releasing
      /\ Releasing = { "finishing", "giving_up", "aborting" } /\ Releasing \subseteq PcStates
      /\ { "killed", "gave_up", "aborted", "finishing", "giving_up", "aborting" } \cap Hopeful = {}
  BY DEF PcStates, Releasing, Sending, Absent, Ended, Hopeful
<1>4. CASE Retry(id) \/ Request(id) \/ Continue(id) \/ Crash(id)
  <2>1. train' = train /\ \E p \in { "retrying", "requesting", "receiving", "killed" } :
                              pc' = [ pc EXCEPT ![id] = p ]
    BY <1>4 DEF Retry, Request, Continue, Crash
  <2>2. Crash(id) => pc' = [ pc EXCEPT ![id] = "killed" ]
    BY DEF Crash
  <2>3. ~ Crash(id) => l.denies < MAX_CONSECUTIVE_DENIES
    <3>1. CASE Retry(id) \/ Request(id)
      BY <3>1 DEF Retry, Request, SysInv, Processes, Hopeful
    <3>2. CASE Continue(id)
      BY <1>1, <3>2, TicksAssumption DEF Continue, Hopeless, LocalStates
    <3> QED
      BY <1>4, <3>1, <3>2
  <2> HIDE DEF l
  <2>4. CASE Crash(id)
    BY <1>2, <1>3, <2>1, <2>2, <2>4
  <2>5. CASE ~ Crash(id)
    BY <1>2, <1>3, <2>1, <2>3, <2>5
  <2> QED
    BY <2>4, <2>5
<1>5. CASE Finish(id)
  <2>1. train' = train /\ pc' = [ pc EXCEPT ![id] = "finishing" ] /\ l.track = Destination[id]
    BY <1>5 DEF Finish, Complete
  <2>2. l.track \in Requestable[id]
    BY <2>1, RouteAssumption
  <2> QED
    BY <1>2, <1>3, <2>1, <2>2
<1>6. CASE GiveUp(id) \/ Abort(id)
  <2>1. /\ train' = train
        /\ \E p \in { "giving_up", "aborting" }, q \in { "gave_up", "aborted" } :
               pc' = [ pc EXCEPT ![id] = IF l.track >= 0 THEN p ELSE q ]
    BY <1>6 DEF GiveUp, Abort
  <2>2. l.track >= 0 => l.track \in Requestable[id]
    BY <1>1 DEF NoTrack
  <2> HIDE DEF l
  <2> QED
    BY <1>2, <1>3, <2>1, <2>2
<1> QED
  BY <1>4, <1>5, <1>6 DEF Decide

\* TrainController registers at most MAX_TRAINS trains and starts each once
\* per run; nobody else starts one.
LEMMA RegistryStep ==
    ASSUME SysInv, SysNext
    PROVE  Registry'
<1>1. pc \in [Trains -> PcStates] /\ Registry /\ MAX_TRAINS \in Nat /\ TrainLines \in Seq(Seq(Int))
  BY ConstantFacts, LinesAssumption DEF SysInv, Processes
<1>2. ASSUME UNCHANGED << controller, lines_read, train_list >>, manager_up' \in BOOLEAN,
             \A other \in Trains : pc[other] = "unborn" => pc'[other] = "unborn"
      PROVE  Registry'
  <2>1. \A n \in 1 .. Len(TrainLines) : IsTrainLine(TrainLines[n]) => TrainLines[n][1] \in Trains
    BY <1>1, LinesAssumption
  <2>2. \A n \in lines_read + 1 .. Len(TrainLines) : n \in 1 .. Len(TrainLines)
    BY <1>1 DEF Registry
  <2> QED
    BY <1>1, <1>2, <2>1, <2>2 DEF Registry
<1>3. CASE StartTick \/ EndTick \/ ManagerStops
  BY <1>1, <1>2, <1>3 DEF StartTick, EndTick, ManagerStops, office, Registry
<1>4. ASSUME NEW id \in Trains, pc[id] # "unborn", UNCHANGED office,
             NEW p, pc' = [ pc EXCEPT ![id] = p ]
      PROVE  Registry'
  BY <1>1, <1>2, <1>4 DEF office, Registry
<1>5. ASSUME NEW id \in Trains, TrainStep(id) \/ Crash(id)
      PROVE  Registry'
  <2>1. CASE Acknowledged(id) \/ Denied(id) \/ Released(id) \/ SendFails(id)
    <3>1. UNCHANGED office /\ pc[id] # "unborn" /\ \E p : pc' = [ pc EXCEPT ![id] = p ]
      BY <2>1 DEF Acknowledged, Denied, Released, SendFails, Sending, office
    <3> QED
      BY <1>4, <3>1
  <2>2. CASE Update(id) \/ Crash(id)
    <3>1. UNCHANGED office /\ pc[id] # "unborn" /\ \E p : pc' = [ pc EXCEPT ![id] = p ]
      BY <2>2 DEF Update, Crash, Absent, office
    <3> QED
      BY <1>4, <3>1
  <2>3. CASE NoUpdate(id)
    BY <1>1, <1>2, <2>3 DEF NoUpdate, office, Registry
  <2>4. CASE Decide(id)
    <3>1. UNCHANGED office /\ pc[id] # "unborn" /\ \E p : pc' = [ pc EXCEPT ![id] = p ]
      BY <2>4 DEF Decide, Retry, Request, Finish, GiveUp, Abort, Continue, Settled, office
    <3> QED
      BY <1>4, <3>1
  <2> QED
    BY <1>5, <2>1, <2>2, <2>3, <2>4 DEF TrainStep
<1>6. CASE FinishLoading \/ ControllerExit
  BY <1>1, <1>6 DEF FinishLoading, ControllerExit, Registry
<1>7. CASE Rerun
  <2>1. \A n \in 1 .. Len(TrainLines) : IsTrainLine(TrainLines[n]) => TrainLines[n][1] \in Trains
    BY <1>1, LinesAssumption
  <2>2. IsFiniteSet({}) /\ Cardinality({}) = 0
    BY FS_EmptySet
  <2> QED
    BY <1>1, <1>7, <2>1, <2>2 DEF Rerun, Registry
<1>8. CASE SkipLine
  BY <1>1, <1>8 DEF SkipLine, Reading, Registry
<1>9. CASE LaunchTrain
  <2> DEFINE id == NextLine[1]
             k == lines_read + 1
  <2>0. /\ Len(TrainLines) \in Nat /\ lines_read \in 0 .. Len(TrainLines)
        /\ DOMAIN TrainLines = 1 .. Len(TrainLines)
    BY <1>1 DEF Registry
  <2>1. /\ k \in 1 .. Len(TrainLines) /\ IsTrainLine(TrainLines[k]) /\ id = TrainLines[k][1]
        /\ lines_read' = k /\ UNCHANGED << controller, manager_up >>
        /\ train_list' = Registers(id) /\ \E p : pc' = [ pc EXCEPT ![id] = p ]
    <3>1. lines_read < Len(TrainLines) /\ lines_read' = k
      BY <1>9 DEF LaunchTrain, Reading
    <3>2. k \in 1 .. Len(TrainLines)
      BY <2>0, <3>1
    <3> QED
      BY <1>9, <3>1, <3>2 DEF LaunchTrain, NextLine
  <2>2. id \in Trains
    BY <2>0, <2>1, LinesAssumption
  <2>3. ASSUME NEW n \in k + 1 .. Len(TrainLines), IsTrainLine(TrainLines[n])
        PROVE  TrainLines[n][1] # id /\ TrainLines[n][1] \in Trains /\ n \in lines_read + 1 .. Len(TrainLines)
    <3>1. n \in DOMAIN TrainLines /\ k \in DOMAIN TrainLines /\ n # k
      BY <2>0, <2>1
    <3>2. n \in lines_read + 1 .. Len(TrainLines)
      BY <2>0
    <3> QED
      BY <2>1, <2>3, <3>1, <3>2, LinesAssumption
  <2>4. train_list' \subseteq Trains /\ IsFiniteSet(train_list') /\ Cardinality(train_list') <= MAX_TRAINS
    <3>1. CASE Cardinality(train_list) < MAX_TRAINS
      <4>1. /\ IsFiniteSet(train_list \union {id}) /\ Cardinality(train_list) \in Nat
            /\ \/ Cardinality(train_list \union {id}) = Cardinality(train_list)
               \/ Cardinality(train_list \union {id}) = Cardinality(train_list) + 1
        BY <1>1, FS_AddElement, FS_CardinalityType DEF Registry
      <4> QED
        BY <1>1, <2>1, <2>2, <3>1, <4>1 DEF Registers, Registry
    <3>2. CASE ~ Cardinality(train_list) < MAX_TRAINS
      BY <1>1, <2>1, <3>2 DEF Registers, Registry
    <3> QED
      BY <3>1, <3>2
  <2> QED
    BY <1>1, <1>9, <2>1, <2>3, <2>4 DEF LaunchTrain, Reading, Registry
<1> QED
  BY <1>3, <1>5, <1>6, <1>7, <1>8, <1>9 DEF SysNext, ControllerStep

\* Every step of the system preserves the invariant.
LEMMA SysInvStep == SysInv /\ [SysNext]_sysvars => SysInv'
<1> SUFFICES ASSUME SysInv, [SysNext]_sysvars PROVE SysInv'
  OBVIOUS
<1>1. [Next]_vars
  BY SystemStep
<1>2. IInv(Blocks \ Starts)'
  BY <1>1, NextIInv, AdmitsOffStarts DEF SysInv
<1>3. OnRoute'
  BY <1>1, OnRouteStep
<1>4. Processes'
  <2>1. CASE UNCHANGED sysvars
    BY <2>1 DEF sysvars, SysInv, Processes
  <2>2. CASE SysNext
    BY <2>2, ControllerKeepsProcesses, ReplyKeepsProcesses, UpdateKeepsProcesses,
       DecisionKeepsProcesses
    DEF SysNext, TrainStep
  <2> QED
    BY <2>1, <2>2
<1>5. Registry'
  <2>1. CASE UNCHANGED sysvars
    BY <2>1 DEF sysvars, office, SysInv, Registry
  <2> QED
    BY <2>1, RegistryStep
<1> QED
  BY <1>2, <1>3, <1>4, <1>5 DEF SysInv

\* The invariant holds when the system starts.
LEMMA SysInvInit == SysInit => SysInv
<1> SUFFICES ASSUME SysInit PROVE SysInv
  OBVIOUS
<1>1. IInv(Blocks \ Starts)
  BY InitIInv DEF SysInit
<1>2. OnRoute
  BY DEF SysInit, Init, OnRoute, Used
<1>3. Processes
  <2>1. \A id \in Trains : /\ NewTrain(id) \in LocalStates
                           /\ NewTrain(id).track \in Requestable[id]
                           /\ NewTrain(id).denies < MAX_CONSECUTIVE_DENIES
    BY NewTrainFacts
  <2>2. "unborn" \in PcStates \ Releasing
    BY DEF PcStates, Releasing, Absent, Sending
  <2> QED
    BY <2>1, <2>2 DEF SysInit, Processes
<1>4. Registry
  <2>1. \A n \in 1 .. Len(TrainLines) : IsTrainLine(TrainLines[n]) => TrainLines[n][1] \in Trains
    BY LinesAssumption
  <2>2. TrainLines \in Seq(Seq(Int)) /\ IsFiniteSet({}) /\ Cardinality({}) = 0 /\ MAX_TRAINS \in Nat
    BY FS_EmptySet, LinesAssumption, ConstantFacts
  <2> QED
    BY <2>1, <2>2 DEF SysInit, Registry
<1> QED
  BY <1>1, <1>2, <1>3, <1>4 DEF SysInv

-----------------------------------------------------------------------------
(* The timing. *)

\* In a tick, the trains that are still to be updated wait for it.
Quiet ==
    cursor # Idle =>
        \A i \in Used : i >= cursor => pc[active_trains[i].train_id] \in {"receiving"} \union Absent

\* No train is in two of the states the properties tell apart.
LEMMA StateFacts ==
    /\ ({"receiving"} \union Absent) \cap (Sending \union {"woken", "answered"}) = {}
    /\ "killed" \in Absent /\ "unborn" \in Absent
  BY DEF Sending, Absent, Ended

\* A train that was not waiting, or has ended, moves.
LEMMA QuietMove ==
    ASSUME SysInv, Quiet, UNCHANGED << cursor, active_trains, active_train_count >>,
           NEW id \in Trains, NEW p, pc' = [ pc EXCEPT ![id] = p ],
           pc[id] \notin {"receiving"} \union Absent \/ p \in Absent
    PROVE  Quiet'
<1>1. pc \in [Trains -> PcStates] /\ \A i \in Used : active_trains[i].train_id \in Trains
  BY DEF SysInv, Processes, IInv, SlotsAligned
<1> QED
  BY <1>1 DEF Quiet, Used, Idle

\* The trains the cursor has not reached keep waiting.
LEMMA QuietStep ==
    ASSUME SysInv, Quiet, [TimelyNext]_sysvars
    PROVE  Quiet'
<1>1. /\ pc \in [Trains -> PcStates] /\ cursor \in Int /\ active_train_count \in 0 .. MAX_TRAINS
      /\ \A i \in Used : active_trains[i].train_id \in Trains
      /\ \A i, j \in Used : active_trains[i].train_id = active_trains[j].train_id => i = j
  BY ConstantFacts DEF SysInv, Processes, IInv, SlotsAligned, TypeOK, Idle
<1>2. ASSUME cursor' = Idle PROVE Quiet'
  BY <1>2 DEF Quiet
<1>3. ASSUME UNCHANGED << vars, pc >> PROVE Quiet'
  BY <1>3 DEF Quiet, vars, Used
<1>4. CASE TimelyTick
  BY <1>1, <1>4 DEF TimelyTick, AllSettled, StartTick, TickPulse, Quiet, Used
<1>5. CASE EndTick
  BY <1>2, <1>5 DEF EndTick, TickDone, CheckOnly, CheckAndRollBack
<1>6. CASE TimelyControllerStep
  <2>1. CASE ControllerExit
    BY <1>3, <2>1 DEF ControllerExit
  <2>2. CASE SkipLine \/ LaunchTrain \/ FinishLoading
    <3>1. cursor = Idle /\ UNCHANGED vars
      BY <1>6, <2>2 DEF TimelyControllerStep, SkipLine, LaunchTrain, FinishLoading, Reading
    <3> QED
      BY <1>2, <3>1 DEF vars
  <2> QED
    BY <1>6, <2>1, <2>2 DEF TimelyControllerStep, ControllerStep
<1>7. CASE Rerun
  BY <1>1, <1>7, StateFacts DEF Rerun, vars, Quiet, Used
<1>8. CASE ManagerStops \/ UNCHANGED sysvars
  BY <1>3, <1>8 DEF ManagerStops, sysvars
<1>9. ASSUME NEW id \in Trains, Acknowledged(id) \/ Denied(id) \/ Released(id)
      PROVE  Quiet'
  <2>1. cursor' = Idle
    BY <1>9 DEF Acknowledged, Denied, Released, Grant, DenyNoData, DenyHeadOn, DenyBusy,
                Release, Serves, vars
  <2> QED
    BY <1>2, <2>1
<1>10. ASSUME NEW id \in Trains, SendFails(id) \/ Decide(id)
       PROVE  Quiet'
  <2>1. /\ pc[id] \in Sending \union {"woken", "answered"}
        /\ UNCHANGED << cursor, active_trains, active_train_count >>
        /\ \E p : pc' = [ pc EXCEPT ![id] = p ]
    BY <1>10 DEF SendFails, Decide, Retry, Request, Finish, GiveUp, Abort, Continue, Settled, vars
  <2> QED
    BY <2>1, StateFacts, QuietMove
<1>11. ASSUME NEW id \in Trains, Crash(id)
       PROVE  Quiet'
  BY <1>11, StateFacts, QuietMove DEF Crash, vars
<1>12. ASSUME NEW id \in Trains, Update(id)
       PROVE  Quiet'
  <2>1. /\ cursor \in Used /\ cursor' = cursor + 1 /\ active_trains[cursor].train_id = id
        /\ UNCHANGED << active_trains, active_train_count >>
        /\ pc' = [ pc EXCEPT ![id] = "woken" ]
    BY <1>12 DEF Update, AtCursor, UpdateSent
  <2>2. ASSUME NEW i \in Used', i >= cursor'
        PROVE  pc'[active_trains'[i].train_id] \in {"receiving"} \union Absent
    <3>1. i \in Used /\ i >= cursor /\ i # cursor /\ cursor # Idle
      BY <1>1, <2>1, <2>2 DEF Used, Idle
    <3>2. active_trains[i].train_id # id
      BY <1>1, <2>1, <3>1
    <3> QED
      BY <1>1, <2>1, <3>1, <3>2 DEF Quiet
  <2> QED
    BY <2>2 DEF Quiet
<1>13. ASSUME NEW id \in Trains, NoUpdate(id)
       PROVE  Quiet'
  <2>1. CASE UpdateSkipped \/ UpdateSent
    <3>1. /\ cursor \in Used /\ cursor' = cursor + 1 /\ pc' = pc
          /\ UNCHANGED << active_trains, active_train_count >>
      BY <1>13, <2>1 DEF NoUpdate, UpdateSkipped, UpdateSent
    <3> QED
      BY <1>1, <3>1 DEF Quiet, Used, Idle
  <2>2. CASE Cleanup
    <3>1. /\ cursor \in Used /\ cursor' = cursor /\ pc' = pc
          /\ active_train_count' = active_train_count - 1
          /\ \A i \in Slots : i >= cursor /\ i < active_train_count - 1 =>
                 active_trains'[i] = active_trains[i + 1]
      <4>1. /\ cursor \in Used /\ cursor' = cursor /\ pc' = pc
            /\ active_train_count' = active_train_count - 1
            /\ active_trains' =
                  [ i \in Slots |->
                      CASE i = active_train_count - 1                 -> ZeroTrain
                        [] i >= cursor /\ i < active_train_count - 1  -> active_trains[i + 1]
                        [] i < cursor \/ i > active_train_count - 1   -> active_trains[i] ]
        BY <1>13, <2>2 DEF NoUpdate, Cleanup
      <4>2. ASSUME NEW i \in Slots, i >= cursor, i < active_train_count - 1
            PROVE  active_trains'[i] = active_trains[i + 1]
        <5>1. i \in Int /\ active_train_count \in Int /\ cursor \in Int
          BY <1>1, ConstantFacts
        <5> QED
          BY <4>1, <4>2, <5>1
      <4> QED
        BY <4>1, <4>2
    <3>2. ASSUME NEW i \in Used', i >= cursor'
          PROVE  pc'[active_trains'[i].train_id] \in {"receiving"} \union Absent
      <4>1. /\ i \in Slots /\ i >= cursor /\ i < active_train_count - 1 /\ cursor # Idle
            /\ i + 1 \in Used /\ i + 1 >= cursor
        BY <1>1, <3>1, <3>2, ConstantFacts DEF Used, Slots, Idle
      <4>2. pc[active_trains[i + 1].train_id] \in {"receiving"} \union Absent
        BY <4>1 DEF Quiet
      <4> QED
        BY <3>1, <4>1, <4>2
    <3> QED
      BY <3>2 DEF Quiet
  <2> QED
    BY <1>13, <2>1, <2>2 DEF NoUpdate
<1> QED
  BY <1>4, <1>5, <1>6, <1>7, <1>8, <1>9, <1>10, <1>11, <1>12, <1>13 DEF TimelyNext, TrainStep

-----------------------------------------------------------------------------
(* The theorems. *)

\* The invariant of the two kinds of processes together holds in every state.
THEOREM SystemInvariant == SysSpec => []SysInv
  BY SysInvInit, SysInvStep, PTL DEF SysSpec

\* The system's state always has its types: no counter of a train passes the
\* limit it is compared with (a train never collects more denials than end
\* it), and TrainController's registry never exceeds MAX_TRAINS.
THEOREM SystemTypeOK == SysSpec => []SysTypeOK
<1>1. SysInv => SysTypeOK
  BY DEF SysInv, IInv, Processes, Registry, PcStates, SysTypeOK
<1> QED
  BY <1>1, SystemInvariant, PTL

\* The running system is one of the environments the manager's theorems allow:
\* whatever TrainController and the trains do, reruns, deaths and stops
\* included, the manager sees a behaviour of its own specification.
THEOREM SystemImplementsManager == SysSpec => Spec
<1>1. SysInit => Init
  BY DEF SysInit
<1>2. SysInv /\ [SysNext]_sysvars => [Next]_vars
  BY SystemStep
<1> QED
  BY <1>1, <1>2, SystemInvariant, PTL DEF SysSpec, Spec

\* So in the running system, off the first blocks, a train is located only on
\* a block it owns ...
THEOREM SystemExclusive == SysSpec => []ExclusiveOffStarts
  BY SystemImplementsManager, ManagerExclusive, PTL

\* ... and no block is taken from its owner in favour of another train.
THEOREM SystemNoTakeover == SysSpec => NoTakeover
  BY SystemImplementsManager, ManagerNoTakeover, PTL

\* With timely ticks the manager never sends an update to a train that is
\* blocked in a send to the manager: sending after MsgReply (TrainController
\* main.c:192) is enough then, for every configuration and every fault.
THEOREM TimelyNoMutualSend == TimelySpec => []NoMutualSend
<1>1. SysInit => Quiet
  BY DEF SysInit, Init, Quiet
<1>2. [TimelyNext]_sysvars => [SysNext]_sysvars
  BY DEF TimelyNext, SysNext, TimelyTick, TimelyControllerStep
<1>3. SysInv /\ Quiet /\ [TimelyNext]_sysvars => Quiet'
  BY QuietStep
<1>4. SysInv /\ Quiet => NoMutualSend
  <2> SUFFICES ASSUME SysInv, Quiet, NEW id \in Trains, AtCursor(id)
               PROVE  pc[id] \notin Sending
    BY DEF NoMutualSend
  <2>1. cursor \in Used /\ cursor >= cursor /\ cursor # Idle /\ active_trains[cursor].train_id = id
    BY DEF AtCursor, Used, Idle
  <2> QED
    BY <2>1, StateFacts DEF Quiet
<1> QED
  BY <1>1, <1>2, <1>3, <1>4, SysInvInit, SysInvStep, PTL DEF TimelySpec
=============================================================================
