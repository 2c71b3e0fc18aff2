---------------------------- MODULE RailwaySystem ----------------------------
(***************************************************************************)
(* The running system: the DeadlockManager, TrainController and the train  *)
(* processes TrainController forks (TrainController/src/main.c: main,      *)
(* ipc_server_thread, run_train_process).  All communication is QNX        *)
(* synchronous message passing, so a message is a blocked sender:          *)
(*   - a train whose pc is in Sending is SEND-blocked on the manager until *)
(*     the manager receives, handles and answers its message, or is gone;  *)
(*   - a manager whose cursor shows a train is blocked on that train's     *)
(*     channel until the train is in MsgReceive ("receiving");             *)
(*   - a manager that has to ask TrainController about a train waits while *)
(*     the configuration is being read, because train_mutex is held: the   *)
(*     train's request is then taken only when the reading is over.        *)
(* Which of several blocked senders and pending pulses the manager takes   *)
(* next depends on priorities and arrival times: any of them here.         *)
(*                                                                         *)
(* A train's tick counters are kept relative to its last update and capped *)
(* where the code's comparison no longer changes.                          *)
(***************************************************************************)
EXTENDS DeadlockManager

CONSTANTS
    Destination,            \* Destination[id] in the train configuration
    TrainLines,             \* the lines of the train configuration, as numbers
    Crashable,              \* the trains that may be killed or not be forked
    Reruns,                 \* TrainController may be started again
    ManagerMayStop,         \* the manager may be stopped (Ctrl+C)
    REQUEST_AFTER_TICKS, COMPLETE_AFTER_TICKS, REQUEST_RETRY_TICKS,
    MAX_NO_PROGRESS_TICKS, MAX_CONSECUTIVE_DENIES

ASSUME DestinationAssumption == Destination \in [Trains -> Int]
ASSUME FaultsAssumption ==
    Crashable \subseteq Trains /\ Reruns \in BOOLEAN /\ ManagerMayStop \in BOOLEAN
ASSUME TicksAssumption ==
    /\ REQUEST_AFTER_TICKS \in Nat \ {0} /\ COMPLETE_AFTER_TICKS \in Nat \ {0}
    /\ REQUEST_RETRY_TICKS \in Nat \ {0} /\ MAX_NO_PROGRESS_TICKS \in Nat \ {0}
    /\ MAX_CONSECUTIVE_DENIES \in Nat \ {0}

\* A train's messages name only its first track and its destination.
ASSUME RouteAssumption ==
    \A id \in Trains : Requestable[id] = { Start[id], Destination[id] }

\* A line with fewer than four numbers describes no train.
IsTrainLine(line) == Len(line) >= 4

\* The lines name each train of Trains once, and Start, Destination and Powered
\* are what they say of it.
ASSUME LinesAssumption ==
    LET trainLines == { n \in DOMAIN TrainLines : IsTrainLine(TrainLines[n]) }
    IN  /\ TrainLines \in Seq(Seq(Int))
        /\ Trains = { TrainLines[n][1] : n \in trainLines }
        /\ \A m, n \in trainLines : TrainLines[m][1] = TrainLines[n][1] => m = n
        /\ \A n \in trainLines : LET line == TrainLines[n]
                                 IN  /\ Start[line[1]] = line[2]
                                     /\ Destination[line[1]] = line[3]
                                     /\ line[1] \in Powered <=> line[4] > 0

VARIABLES
    pc,             \* where each train process is
    train,          \* its local variables
    controller,     \* TrainController: "loading", "waiting" for its trains, "ended"
    lines_read,     \* lines of the configuration it has read
    train_list,     \* the trains it has registered
    manager_up      \* the manager's process exists

office  == << controller, lines_read, train_list, manager_up >>
sysvars == << vars, pc, train, office >>

Sending == { "admitting", "retrying", "requesting", "finishing", "giving_up", "aborting" }

\* Without a process: "failed" was not forked or did not reach the manager.
Ended   == { "failed", "refused", "finished", "gave_up", "aborted", "killed" }
Absent  == Ended \union {"unborn"}

NoProgressYet == -1         \* last_progress_tick = 0
LocalStates ==
    [ track : Int,                                      \* current_track
      ticks : 0 .. REQUEST_AFTER_TICKS + COMPLETE_AFTER_TICKS, \* ticks_on_current_track
      asked : BOOLEAN,                                  \* has_requested_destination
      since : 0 .. REQUEST_RETRY_TICKS,                 \* current_tick - last_request_tick
      idle  : NoProgressYet .. MAX_NO_PROGRESS_TICKS,   \* current_tick - last_progress_tick
      denies : 0 .. MAX_CONSECUTIVE_DENIES ]            \* consecutive_destination_denies

SysTypeOK ==
    /\ TypeOK
    /\ pc \in [Trains -> Sending \union Absent \union {"receiving", "woken", "answered"}]
    /\ train \in [Trains -> LocalStates]
    /\ controller \in {"loading", "waiting", "ended"}
    /\ lines_read \in 0 .. Len(TrainLines)
    /\ train_list \subseteq Trains /\ Cardinality(train_list) <= MAX_TRAINS
    /\ manager_up \in BOOLEAN

\* The local variables a train process starts with.
NewTrain(id) ==
    [ track |-> Start[id], ticks |-> 0, asked |-> FALSE,
      since |-> REQUEST_RETRY_TICKS, idle |-> NoProgressYet, denies |-> 0 ]

\* "DeadlockManager must be started first" (HOW_TO_RUN.md).
SysInit ==
    /\ Init
    /\ pc = [ id \in Trains |-> "unborn" ]
    /\ train = [ id \in Trains |-> NewTrain(id) ]
    /\ controller = "loading"
    /\ lines_read = 0
    /\ train_list = {}
    /\ manager_up = TRUE

-----------------------------------------------------------------------------
(* TrainController: main. *)

NextLine == TrainLines[lines_read + 1]

Reading ==
    /\ controller = "loading"
    /\ lines_read < Len(TrainLines)
    /\ lines_read' = lines_read + 1

SkipLine ==
    /\ Reading
    /\ ~ IsTrainLine(NextLine)
    /\ UNCHANGED << vars, pc, train, controller, train_list, manager_up >>

\* A train that does not fit into train_list is forked all the same.
Registers(id) ==
    IF Cardinality(train_list) < MAX_TRAINS THEN train_list \union {id} ELSE train_list

LaunchTrain ==
    /\ Reading
    /\ IsTrainLine(NextLine)
    /\ LET id == NextLine[1]
       IN  /\ train_list' = Registers(id)
           /\ \/ pc' = [ pc EXCEPT ![id] = "admitting" ]
              \/ id \in Crashable /\ pc' = [ pc EXCEPT ![id] = "failed" ]
    /\ UNCHANGED << vars, train, controller, manager_up >>

\* train_mutex is given back: queries are answered from now on.
FinishLoading ==
    /\ controller = "loading"
    /\ lines_read = Len(TrainLines)
    /\ controller' = "waiting"
    /\ UNCHANGED << vars, pc, train, lines_read, train_list, manager_up >>

\* wait() has returned for every train.
ControllerExit ==
    /\ controller = "waiting"
    /\ \A id \in Trains : pc[id] \in Ended
    /\ controller' = "ended"
    /\ UNCHANGED << vars, pc, train, lines_read, train_list, manager_up >>

ControllerStep == SkipLine \/ LaunchTrain \/ FinishLoading \/ ControllerExit

\* TrainController is started again on the same file, under the same manager.
Rerun ==
    /\ Reruns
    /\ controller = "ended"
    /\ controller' = "loading"
    /\ lines_read' = 0
    /\ train_list' = {}
    /\ pc' = [ id \in Trains |-> "unborn" ]
    /\ train' = [ id \in Trains |-> NewTrain(id) ]
    /\ UNCHANGED << vars, manager_up >>

ManagerStops ==
    /\ ManagerMayStop
    /\ manager_up
    /\ manager_up' = FALSE
    /\ UNCHANGED << vars, pc, train, controller, lines_read, train_list >>

-----------------------------------------------------------------------------
(* The manager takes a train's message and answers it. *)

\* The track named in the request the train is blocked on.
Wanted(id) == IF pc[id] = "admitting" THEN Start[id] ELSE Destination[id]

\* Mutated form: TrainController describes trains it has no record of.
DescribesAnyone(id) == controller = "waiting"

\* What ipc_server_thread answers, once it gets train_mutex.
Describes(id) == controller = "waiting" /\ id \in train_list

\* The manager has a record of the train or can get one.
Known(id) == IsCached(id) \/ Describes(id)

\* The cache is full, or TrainController does not know the train.
NoData(id) ==
    \/ ~ IsCached(id) /\ ~ CanFetch(id)
    \/ controller # "loading" /\ ~ Known(id)

Acknowledged(id) ==
    /\ manager_up
    /\ pc[id] \in { "admitting", "retrying", "requesting" }
    /\ Known(id)
    /\ Grant(id, Wanted(id))
    /\ pc' = [ pc EXCEPT ![id] = IF @ = "admitting" THEN "receiving" ELSE "answered" ]
    /\ train' = [ train EXCEPT ![id] =
                    CASE pc[id] = "admitting" -> @
                      [] pc[id] = "retrying"  -> [ @ EXCEPT !.since = 0, !.denies = 0 ]
                      [] pc[id] = "requesting" ->
                            [ @ EXCEPT !.since = 0, !.denies = 0, !.asked = TRUE ] ]
    /\ UNCHANGED office

Denied(id) ==
    /\ manager_up
    /\ pc[id] \in { "admitting", "retrying", "requesting" }
    /\ \/ NoData(id) /\ DenyNoData(id, Wanted(id))
       \/ Known(id) /\ DenyHeadOn(id, Wanted(id))
       \/ Known(id) /\ DenyBusy(id, Wanted(id))
    /\ pc' = [ pc EXCEPT ![id] = IF @ = "admitting" THEN "refused" ELSE "answered" ]
    /\ train' = [ train EXCEPT ![id] =
                    IF pc[id] = "admitting" THEN @
                    ELSE [ @ EXCEPT !.since = 0, !.denies = train[id].denies + 1 ] ]
    /\ UNCHANGED office

\* Where a train is once its release was answered or could not be sent.
AfterRelease(p) ==
    CASE p = "finishing" -> "finished" [] p = "giving_up" -> "gave_up" [] p = "aborting" -> "aborted"

\* The last message of a train: its release.  Whatever the reply, it ends.
Released(id) ==
    /\ manager_up
    /\ pc[id] \in { "finishing", "giving_up", "aborting" }
    /\ Release(id, train[id].track)
    /\ pc' = [ pc EXCEPT ![id] = AfterRelease(@) ]
    /\ UNCHANGED << train, office >>

\* Mutated form: a train whose send failed tries again at once.
SendRepeated(id) ==
    /\ ~ manager_up
    /\ pc[id] \in Sending
    /\ UNCHANGED sysvars

\* The manager is gone: name_open or MsgSend fails.  Only the first request is
\* fatal; a failed later request is neither a grant nor a denial.
SendFails(id) ==
    /\ ~ manager_up
    /\ pc[id] \in Sending
    /\ pc' = [ pc EXCEPT ![id] =
                 CASE @ = "admitting" -> "failed"
                   [] @ \in {"retrying", "requesting"} -> "answered"
                   [] @ \in {"finishing", "giving_up", "aborting"} -> AfterRelease(@) ]
    /\ train' = [ train EXCEPT ![id].since = IF pc[id] \in {"retrying", "requesting"} THEN 0 ELSE @ ]
    /\ UNCHANGED << vars, office >>

-----------------------------------------------------------------------------
(* Position updates. *)

OneMore(n, cap) == IF n < cap THEN n + 1 ELSE n

\* The train's handling of an update, up to its MsgReply.
AfterUpdate(l, id, at, moving) ==
    LET later == [ l EXCEPT !.since = OneMore(@, REQUEST_RETRY_TICKS) ]
    IN  CASE l.track # at ->
               [ later EXCEPT !.track = at, !.ticks = 0, !.idle = 0,
                              !.asked = (at = Destination[id]) ]
          [] l.track = at /\ moving ->
               [ later EXCEPT !.idle = 0,
                              !.ticks = OneMore(@, REQUEST_AFTER_TICKS + COMPLETE_AFTER_TICKS) ]
          [] l.track = at /\ ~ moving ->
               [ later EXCEPT !.idle =
                    IF @ = NoProgressYet THEN @ ELSE OneMore(@, MAX_NO_PROGRESS_TICKS) ]

AtCursor(id) == cursor \in Used /\ active_trains[cursor].train_id = id

\* Mutated form: the train replies only after it has decided what to send.
UpdateRepliesLate(id) ==
    /\ manager_up
    /\ AtCursor(id)
    /\ pc[id] = "receiving"
    /\ UNCHANGED << vars, office >>
    /\ pc' = [ pc EXCEPT ![id] = "woken" ]
    /\ train' = [ train EXCEPT ![id] =
                    AfterUpdate(@, id, active_trains[cursor].track_id,
                                active_trains[cursor].moving) ]

Update(id) ==
    /\ manager_up
    /\ AtCursor(id)
    /\ pc[id] = "receiving"
    /\ UpdateSent
    /\ pc' = [ pc EXCEPT ![id] = "woken" ]
    /\ train' = [ train EXCEPT ![id] =
                    AfterUpdate(@, id, active_trains[cursor].track_id,
                                active_trains[cursor].moving) ]
    /\ UNCHANGED office

\* The train has no process: name_open fails, or it succeeded just before the
\* train ended and MsgSend fails.
NoUpdate(id) ==
    /\ manager_up
    /\ AtCursor(id)
    /\ pc[id] \in Absent
    /\ UpdateSkipped \/ Cleanup \/ UpdateSent
    /\ UNCHANGED << pc, train, office >>

StartTick == manager_up /\ TickPulse /\ UNCHANGED << pc, train, office >>

EndTick ==
    /\ manager_up
    /\ TickDone \/ CheckOnly \/ CheckAndRollBack
    /\ UNCHANGED << pc, train, office >>

-----------------------------------------------------------------------------
(* What a train decides between two MsgReceive calls. *)

RetryDue(id) ==
    train[id].track = NoTrack /\ train[id].since = REQUEST_RETRY_TICKS

RequestDue(id) ==
    /\ ~ train[id].asked
    /\ train[id].track # Destination[id]
    /\ train[id].ticks >= REQUEST_AFTER_TICKS
    /\ train[id].since = REQUEST_RETRY_TICKS

Retry(id) ==
    /\ pc[id] = "woken"
    /\ RetryDue(id)
    /\ pc' = [ pc EXCEPT ![id] = "retrying" ]
    /\ UNCHANGED << vars, train, office >>

Request(id) ==
    /\ pc[id] = "woken"
    /\ ~ RetryDue(id)
    /\ RequestDue(id)
    /\ pc' = [ pc EXCEPT ![id] = "requesting" ]
    /\ UNCHANGED << vars, train, office >>

\* Past the two requests of a loop pass.
Settled(id) ==
    \/ pc[id] = "answered"
    \/ pc[id] = "woken" /\ ~ RetryDue(id) /\ ~ RequestDue(id)

\* Mutated form: the route is never found complete.
NeverComplete(id) == FALSE

Complete(id) ==
    train[id].track = Destination[id] /\ train[id].ticks >= COMPLETE_AFTER_TICKS

\* Mutated form: denials are not counted up to a limit.
NeverHopeless(id) == FALSE

Hopeless(id) == train[id].denies >= MAX_CONSECUTIVE_DENIES

\* Mutated form: one tick at a standstill ends the train.
NoProgressAtOnce(id) == train[id].idle >= 1

NoProgress(id) == train[id].idle >= MAX_NO_PROGRESS_TICKS

Finish(id) ==
    /\ Settled(id)
    /\ Complete(id)
    /\ pc' = [ pc EXCEPT ![id] = "finishing" ]
    /\ UNCHANGED << vars, train, office >>

\* Mutated form: a train that gives up leaves without a release.
GiveUpSilently(id) ==
    /\ Settled(id)
    /\ ~ Complete(id)
    /\ Hopeless(id)
    /\ pc' = [ pc EXCEPT ![id] = "gave_up" ]
    /\ UNCHANGED << vars, train, office >>

\* A train on no track has nothing to release and ends at once.
GiveUp(id) ==
    /\ Settled(id)
    /\ ~ Complete(id)
    /\ Hopeless(id)
    /\ pc' = [ pc EXCEPT ![id] = IF train[id].track >= 0 THEN "giving_up" ELSE "gave_up" ]
    /\ UNCHANGED << vars, train, office >>

Abort(id) ==
    /\ Settled(id)
    /\ ~ Complete(id)
    /\ ~ Hopeless(id)
    /\ NoProgress(id)
    /\ pc' = [ pc EXCEPT ![id] = IF train[id].track >= 0 THEN "aborting" ELSE "aborted" ]
    /\ UNCHANGED << vars, train, office >>

Continue(id) ==
    /\ Settled(id)
    /\ ~ (Complete(id) \/ Hopeless(id) \/ NoProgress(id))
    /\ pc' = [ pc EXCEPT ![id] = "receiving" ]
    /\ UNCHANGED << vars, train, office >>

Decide(id) ==
    Retry(id) \/ Request(id) \/ Finish(id) \/ GiveUp(id) \/ Abort(id) \/ Continue(id)

\* The process is killed; the kernel withdraws the message it was blocked on.
Crash(id) ==
    /\ id \in Crashable
    /\ pc[id] \notin Absent
    /\ pc' = [ pc EXCEPT ![id] = "killed" ]
    /\ UNCHANGED << vars, train, office >>

-----------------------------------------------------------------------------
TrainStep(id) ==
    \/ Acknowledged(id)
    \/ Denied(id)
    \/ Released(id)
    \/ SendFails(id)
    \/ Update(id)
    \/ NoUpdate(id)
    \/ Decide(id)

SysNext ==
    \/ StartTick
    \/ EndTick
    \/ ControllerStep
    \/ Rerun
    \/ ManagerStops
    \/ \E id \in Trains : TrainStep(id) \/ Crash(id)

SysSpec == SysInit /\ [][SysNext]_sysvars

\* The timing the tick of 10 ms is chosen for: when a tick is handled, the
\* configuration has been read, and every train has done what the previous
\* update made it do and waits for the next.
AllSettled ==
    /\ controller # "loading"
    /\ \A id \in Trains : pc[id] \in {"receiving"} \union Absent

TimelyTick == AllSettled /\ StartTick

\* Nor is a train launched while a tick is handled.
TimelyControllerStep == (controller = "loading" => cursor = Idle) /\ ControllerStep

TimelyNext ==
    \/ TimelyTick
    \/ EndTick
    \/ TimelyControllerStep
    \/ Rerun
    \/ ManagerStops
    \/ \E id \in Trains : TrainStep(id) \/ Crash(id)

\* The timer keeps firing, the manager ends every tick whose updates are done
\* (EndTick is possible exactly then, and nothing else changes that), and
\* TrainController and every train process run.
Fairness ==
    /\ WF_sysvars(TimelyTick)
    /\ []<>(~ UpdatesDone \/ ~ manager_up)
    /\ WF_sysvars(TimelyControllerStep)
    /\ \A id \in Trains : WF_sysvars(TrainStep(id))

TimelySpec == SysInit /\ [][TimelyNext]_sysvars /\ Fairness

-----------------------------------------------------------------------------
(* Properties *)

\* The manager never waits for a train that waits for the manager
\* (main.c:192: requests are sent after MsgReply "to avoid blocking manager
\* tick sends").
NoMutualSend == \A id \in Trains : AtCursor(id) => pc[id] \notin Sending

\* When a train asks for its block to be released, the manager locates it on
\* that block, or on none since a rollback the train has not heard of: the
\* release never strips a train of a block it still counts on.
ReleaseMatchesLocation ==
    \A id \in Trains, i \in Used :
        pc[id] \in {"finishing", "giving_up", "aborting"} /\ active_trains[i].train_id = id
            => active_trains[i].track_id \in {train[id].track, NoTrack}

\* A block is never left to a train that ended of its own accord.
NoOrphanedBlock ==
    manager_up => \A t \in Blocks : track_table[t] # Free =>
        pc[track_table[t]] \notin Ended \ {"killed"}

\* A train that is no longer located on a block it owned has given it back:
\* the comment "it likely failed initial admission" (DeadlockManager main.c:630)
\* on marking a denied train inactive.
VacatedStep ==
    \A i \in Used, t \in Blocks :
        LET id == active_trains[i].train_id
        IN  /\ active_trains[i].track_id = t
            /\ track_table[t] = id
            /\ ~ \E j \in Used' : active_trains'[j].train_id = id /\ active_trains'[j].track_id = t
            => track_table'[t] # id

VacatedIsReleased == [][VacatedStep]_vars

\* The trains that own the destination of id, or may yet ask for it.
Rivals(id) ==
    { x \in Trains \ {id} :
        /\ Destination[id] \in Requestable[x]
        /\ pc[x] \notin Ended \/ track_table[Destination[id]] = x }

\* When a record is removed, every later one moves down and the tracks that
\* point to it show another train (remove_active_train_at).  A train may then be
\* marked inactive on its block when it is denied.  But none of them will be:
\* each is on no block, has arrived, has ended or has no rival.
ShiftIsHarmless ==
    active_train_count' < active_train_count =>
        \A i \in Used : i > cursor =>
            LET id == active_trains[i].train_id
            IN  \/ active_trains[i].track_id \notin Blocks
                \/ active_trains[i].track_id = Destination[id]
                \/ pc[id] \in Ended
                \/ Rivals(id) = {}

ShiftsAreHarmless == [][ShiftIsHarmless]_vars

\* The check leaves a reported cycle unresolved only for two trains on
\* neighboring blocks (FinalReport.tex:130).
HeadOnIsAdjacent ==
    UpdatesDone /\ CheckDue /\ Victim >= 0 /\ ~ CanRollBack =>
        LET r == SyncedStates[IndexOf(SyncedStates, Victim)]
        IN  tracks_are_direct_neighbors(r.holds, r.wants)

\* A train that is denied gives up before its wait counts as stuck, so the
\* stuck report is for trains that were killed.
OnlyKilledTrainsGetStuck ==
    \A i \in Used : train_request_states[i].state = "STUCK" =>
        pc[active_trains[i].train_id] = "killed"

\* A train that TrainController registered is never turned away for want of a
\* record: the manager's cache and the registry have the same limit, so a full
\* cache only ever meets trains the registry left out, whatever records killed
\* trains and earlier runs of TrainController left in the cache.
RegisteredNotRefused ==
    \A id \in train_list : pc[id] \in { "admitting", "retrying", "requesting" } => ~ NoData(id)

\* "TrainController exits when all trains finish" (HOW_TO_RUN.md), and they
\* all do, through contention, rollback and the death of others; a manager
\* that is stopped may keep it waiting.
ControllerReturns == []<>(controller = "ended" \/ ~ manager_up)

\* No train stays blocked in a send to the manager, be the manager busy with a
\* tick, waiting for TrainController, or stopped; so a failed send is not
\* repeated without an update in between either.
SendsReturn == \A id \in Trains : pc[id] \in Sending ~> pc[id] \notin Sending

=============================================================================
