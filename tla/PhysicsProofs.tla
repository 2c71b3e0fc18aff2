---------------------------- MODULE PhysicsProofs ----------------------------
(***************************************************************************)
(* What the helpers of physics_engine.c say agrees with the positions of   *)
(* the trains, for any number of trains, any speeds and lengths, and at    *)
(* any time: PhysInv bounds what a train's record can be when a helper     *)
(* reads it.  A duration is exact because Scale is a multiple of the       *)
(* speeds, and the loops over a track's trains are treated by induction.   *)
(***************************************************************************)
EXTENDS MCPhysics, IterationFacts, FiniteSetTheorems

\* The rear of a train is not ahead of its front.
TrainRecords ==
    { r \in [ train_id : Ids \union {0}, speed : Int, length : Nat,
              track_id : {Here, Elsewhere, NoTrackId}, front : Int, rear : Int,
              entry : Nat, current_speed : Int ] : r.rear <= r.front }

\* r can be the record in a slot at that time: its train stands or goes at its
\* configured speed, and never entered in the future.
RecordOf(r, time) ==
    /\ r \in TrainRecords
    /\ r.speed > 0 => \E k \in 1 .. Scale : Scale = r.speed * k
    /\ r.current_speed \in {0, r.speed}
    /\ r.entry <= time

TypeInv ==
    /\ now \in Nat
    /\ active \in 0 .. MAX_TRAINS
    /\ trains \in [Slots -> TrainRecords]
    /\ \A i \in Slots : RecordOf(trains[i], now)
    /\ track \in Seq(Slots)

\* No slot is listed twice: update_trains_on_track gives up half way only at
\* time 0, at which nothing was left out before.
PhysInv == TypeInv /\ IsInjective(track)

-----------------------------------------------------------------------------
(* The helpers. *)

LEMMA MinOfTwo == \A a, b \in Int : Min({a, b}) = IF a <= b THEN a ELSE b
<1> SUFFICES ASSUME NEW a \in Int, NEW b \in Int
             PROVE  Min({a, b}) = IF a <= b THEN a ELSE b
  OBVIOUS
<1> DEFINE m == IF a <= b THEN a ELSE b
<1>1. m \in {a, b} /\ \A y \in {a, b} : m =< y
  OBVIOUS
<1>2. \A x \in {a, b} : (\A y \in {a, b} : x =< y) => x = m
  OBVIOUS
<1> QED
  BY <1>1, <1>2 DEF Min

LEMMA MaxOfTwo == \A a, b \in Int : Max({a, b}) = IF a >= b THEN a ELSE b
<1> SUFFICES ASSUME NEW a \in Int, NEW b \in Int
             PROVE  Max({a, b}) = IF a >= b THEN a ELSE b
  OBVIOUS
<1> DEFINE m == IF a >= b THEN a ELSE b
<1>1. m \in {a, b} /\ \A y \in {a, b} : m >= y
  OBVIOUS
<1>2. \A x \in {a, b} : (\A y \in {a, b} : x >= y) => x = m
  OBVIOUS
<1> QED
  BY <1>1, <1>2 DEF Max

LEMMA UpdateFacts ==
    ASSUME NEW r \in TrainRecords, NEW time \in Nat
    PROVE  LET u == update_train_position(r, time)
           IN  /\ u \in TrainRecords /\ u.speed = r.speed
               /\ u.length = r.length /\ u.track_id = r.track_id
               /\ u.current_speed = r.current_speed /\ u.entry = r.entry
               /\ time >= r.entry => /\ u.front = r.current_speed * (time - r.entry)
                                     /\ u.rear = u.front - r.length
<1>1. r.entry \in Nat /\ r.length \in Nat /\ r.current_speed \in Int
  BY DEF TrainRecords
<1>2. CASE time >= r.entry
  <2> DEFINE d == r.current_speed * (time - r.entry)
             u == [ r EXCEPT !.front = d, !.rear = d - r.length ]
  <2>1. d \in Int /\ ~ time - r.entry < 0
    BY <1>1, <1>2
  <2>2. calculate_distance_traveled(r.current_speed, time - r.entry) = d
    BY <2>1 DEF calculate_distance_traveled
  <2>3. update_train_position(r, time) = u
    BY <1>2, <2>2 DEF update_train_position, CanUpdate
  <2>4. d - r.length \in Int /\ d - r.length <= d
    BY <1>1, <2>1
  <2>5. u.front = d /\ u.rear = d - r.length
    BY DEF TrainRecords
  <2>6. u \in TrainRecords
    BY <2>1, <2>4, <2>5 DEF TrainRecords
  <2> QED
    BY <2>3, <2>5, <2>6 DEF TrainRecords
<1>3. CASE ~ time >= r.entry
  BY <1>1, <1>3 DEF update_train_position, CanUpdate
<1> QED
  BY <1>2, <1>3

LEMMA RearFacts ==
    ASSUME NEW r \in TrainRecords, NEW time \in Nat, time >= r.entry
    PROVE  update_train_position(r, time).rear = r.current_speed * (time - r.entry) - r.length
<1>1. LET u == update_train_position(r, time)
      IN  u.front = r.current_speed * (time - r.entry) /\ u.rear = u.front - r.length
  BY UpdateFacts
<1> QED
  BY <1>1

\* A division by a speed that divides Scale is exact.
LEMMA ExactDivision ==
    ASSUME NEW q \in Int, NEW s \in Nat, s > 0
    PROVE  (q * s) \div s = q
  OBVIOUS

LEMMA AppendFacts ==
    ASSUME NEW S, NEW t \in Seq(S), NEW e \in S
    PROVE  /\ ToSet(Append(t, e)) = ToSet(t) \union {e}
           /\ IsInjective(t) /\ e \notin ToSet(t) => IsInjective(Append(t, e))
<1> DEFINE a == Append(t, e)
           n == Len(t)
<1>1. n \in Nat /\ DOMAIN t = 1 .. n /\ DOMAIN a = 1 .. n + 1
  OBVIOUS
<1>2. a[n + 1] = e /\ \A i \in 1 .. n : a[i] = t[i]
  OBVIOUS
<1> HIDE DEF a, n
<1>3. ToSet(a) = ToSet(t) \union {e}
  BY <1>1, <1>2 DEF ToSet
<1>4. ASSUME IsInjective(t), e \notin ToSet(t) PROVE IsInjective(a)
  BY <1>1, <1>2, <1>4 DEF ToSet, IsInjective
<1> QED
  BY <1>3, <1>4 DEF a

\* What is left of a sequence is the rest of it, in its order.
LEMMA CompactedFacts ==
    ASSUME NEW S, NEW s \in Seq(S), NEW gone
    PROVE  LET c == Compacted(s, gone)
           IN  /\ c \in Seq(S)
               /\ ToSet(c) = ToSet(s) \ gone
               /\ IsInjective(s) => IsInjective(c)
               /\ ToSet(s) \cap gone = {} => c = s
<1> DEFINE K == Len(s)
           R == Seq(S)
           G == [ k \in 1 .. K |-> [ t \in R |-> IF s[k] \in gone THEN t ELSE Append(t, s[k]) ] ]
           IsKept(f) == f = [ k \in 0 .. K |-> IF k = 0 THEN << >>
                                               ELSE IF s[k] \in gone THEN f[k - 1]
                                               ELSE Append(f[k - 1], s[k]) ]
           kept == CHOOSE f : IsKept(f)
           Step(k) == kept[k] = IF s[k] \in gone THEN kept[k - 1] ELSE Append(kept[k - 1], s[k])
<1>1. K \in Nat /\ << >> \in R /\ \A k \in 1 .. K : s[k] \in S
  OBVIOUS
<1>2. Compacted(s, gone) = kept[K]
  BY Zenon DEF Compacted
<1>3. G \in [1 .. K -> [R -> R]]
  BY <1>1
<1> HIDE DEF R, K
<1>4. PICK f \in [0 .. K -> R] : f = [ k \in 0 .. K |-> IF k = 0 THEN << >> ELSE G[k][f[k - 1]] ]
  <2> DEFINE b == << >>
  <2>1. b \in R
    BY <1>1
  <2> HIDE DEF G, b
  <2>2. \E f \in [0 .. K -> R] : Recursion(K, b, G, f)
    BY <1>1, <1>3, <2>1, RecursionExists
  <2> QED
    BY <2>2 DEF b, Recursion
<1>5. IsKept(f)
  <2>1. \A k \in 1 .. K : f[k - 1] \in R
    BY <1>1
  <2>2. \A k \in 1 .. K : G[k][f[k - 1]] = IF s[k] \in gone THEN f[k - 1] ELSE Append(f[k - 1], s[k])
    BY <2>1
  <2> HIDE DEF G
  <2> QED
    BY <1>1, <1>4, <2>2
<1>6. IsKept(kept)
  <2> HIDE DEF IsKept
  <2> QED
    BY <1>5, Zenon
<1> HIDE DEF kept
<1>7. kept[0] = << >> /\ \A k \in 1 .. K : Step(k)
  <2> DEFINE b == << >>
  <2>1. kept = [ k \in 0 .. K |-> IF k = 0 THEN b
                                  ELSE IF s[k] \in gone THEN kept[k - 1]
                                  ELSE Append(kept[k - 1], s[k]) ]
    BY <1>6
  <2> HIDE DEF b
  <2>2. 0 \in 0 .. K
    BY <1>1
  <2>3. kept[0] = b
    BY <2>1, <2>2, Zenon
  <2>4. ASSUME NEW k \in 1 .. K PROVE Step(k)
    <3>1. k \in 0 .. K /\ k # 0
      BY <1>1
    <3> QED
      BY <2>1, <3>1, Zenon
  <2> QED
    BY <2>3, <2>4 DEF b
<1> HIDE DEF IsKept
<1> DEFINE Upto(k) == { s[i] : i \in 1 .. k }
           P == { k \in 0 .. K : /\ kept[k] \in Seq(S)
                                 /\ ToSet(kept[k]) = Upto(k) \ gone
                                 /\ IsInjective(s) => IsInjective(kept[k])
                                 /\ ToSet(s) \cap gone = {} => kept[k] = SubSeq(s, 1, k) }
<1>8. 0 \in P
  <2>1. kept[0] = << >> /\ Upto(0) = {} /\ ToSet(<< >>) = {} /\ IsInjective(<< >>)
    BY <1>7 DEF ToSet, IsInjective
  <2>2. << >> \in Seq(S) /\ SubSeq(s, 1, 0) = << >>
    OBVIOUS
  <2> QED
    BY <1>1, <2>1, <2>2
<1>9. ASSUME NEW k \in 1 .. K, k - 1 \in P PROVE k \in P
  <2>1. Step(k) /\ Upto(k) = Upto(k - 1) \union {s[k]} /\ kept[k - 1] \in Seq(S)
    BY <1>1, <1>7, <1>9
  <2>2. CASE s[k] \in gone
    <3>1. kept[k] = kept[k - 1] /\ s[k] \in ToSet(s)
      BY <1>1, <2>1, <2>2 DEF ToSet, K
    <3> QED
      BY <1>1, <1>9, <2>1, <2>2, <3>1
  <2>3. CASE s[k] \notin gone
    <3>1. kept[k] = Append(kept[k - 1], s[k])
      BY <2>1, <2>3
    <3>2. kept[k] \in Seq(S)
      BY <1>1, <2>1, <3>1
    <3>3. ToSet(kept[k]) = ToSet(kept[k - 1]) \union {s[k]}
      BY <1>1, <2>1, <3>1, AppendFacts
    <3>4. IsInjective(s) => IsInjective(kept[k])
      <4> SUFFICES ASSUME IsInjective(s) PROVE IsInjective(kept[k])
        OBVIOUS
      <4>1. s[k] \notin Upto(k - 1)
        BY <1>1 DEF IsInjective, K
      <4>2. s[k] \notin ToSet(kept[k - 1]) /\ IsInjective(kept[k - 1])
        BY <1>9, <4>1
      <4> QED
        BY <1>1, <2>1, <3>1, <4>2, AppendFacts
    <3>5. ToSet(s) \cap gone = {} => kept[k] = SubSeq(s, 1, k)
      BY <1>1, <1>9, <3>1 DEF K
    <3> QED
      <4>1. ToSet(kept[k]) = Upto(k) \ gone
        <5> HIDE DEF Upto, Step
        <5>1. ToSet(kept[k - 1]) = Upto(k - 1) \ gone
          BY <1>9
        <5> QED
          BY <2>1, <2>3, <3>3, <5>1
      <4>2. k \in 0 .. K
        BY <1>1
      <4> HIDE DEF Upto, Step, kept
      <4> QED
        BY <3>2, <3>4, <3>5, <4>1, <4>2
  <2> QED
    BY <2>2, <2>3
<1>10. K \in P
  <2> HIDE DEF P
  <2>1. \A k \in 0 .. K : k \in P
    BY <1>1, <1>8, <1>9, InductUpTo
  <2> QED
    BY <1>1, <2>1
<1>11. Upto(K) = ToSet(s) /\ SubSeq(s, 1, K) = s
  BY DEF ToSet, K
<1> QED
  BY <1>2, <1>10, <1>11

-----------------------------------------------------------------------------
(* The inductive invariant. *)

LEMMA ContainsFacts == \A s, e : s \in Seq(Slots) => (Contains(s, e) <=> e \in ToSet(s))
  BY DEF Contains, ToSet

LEMMA ListedFacts ==
    ASSUME NEW s \in Seq(Slots), NEW id \in ToSet(s)
    PROVE  id \in Slots
  BY DEF ToSet

\* What a record is made of.
LEMMA RecordParts ==
    ASSUME NEW t, NEW r, RecordOf(r, t)
    PROVE  /\ r \in TrainRecords /\ r.front \in Int /\ r.rear \in Int /\ r.rear <= r.front
           /\ r.length \in Nat /\ r.entry \in Nat /\ r.entry <= t
           /\ r.current_speed \in {0, r.speed} /\ r.speed \in Int
           /\ r.track_id \in {Here, Elsewhere, NoTrackId}
  BY DEF RecordOf, TrainRecords

\* A record keeps its form when its train is located somewhere, ...
LEMMA LocatedFacts ==
    ASSUME NEW t, NEW r, RecordOf(r, t), NEW k \in {Here, Elsewhere, NoTrackId}
    PROVE  RecordOf([ r EXCEPT !.track_id = k ], t)
<1> DEFINE u == [ r EXCEPT !.track_id = k ]
<1>1. /\ u \in TrainRecords /\ u.speed = r.speed
      /\ u.current_speed = r.current_speed /\ u.entry = r.entry
  BY DEF RecordOf, TrainRecords
<1> HIDE DEF u
<1> QED
  BY <1>1 DEF RecordOf, u

\* ... stops or goes at its speed, ...
LEMMA WaitingFacts ==
    ASSUME NEW t, NEW r, RecordOf(r, t), NEW w \in BOOLEAN
    PROVE  RecordOf(set_train_waiting_speed(r, w), t)
<1> DEFINE c == IF w THEN 0 ELSE r.speed
           u == [ r EXCEPT !.current_speed = c ]
<1>1. c \in {0, r.speed} /\ c \in Int
  BY RecordParts
<1>2. u = set_train_waiting_speed(r, w)
  BY DEF set_train_waiting_speed
<1> HIDE DEF c
<1>3. u \in TrainRecords /\ u.speed = r.speed /\ u.current_speed = c /\ u.entry = r.entry
  BY <1>1 DEF RecordOf, TrainRecords
<1> HIDE DEF u
<1> QED
  BY <1>1, <1>2, <1>3 DEF RecordOf

\* ... is put at the start of a block, ...
LEMMA AtStartFacts ==
    ASSUME NEW t, NEW r, RecordOf(r, t)
    PROVE  RecordOf(AtStart(r), t) /\ AtStart(r).speed = r.speed
<1> DEFINE z == 0
           b == - r.length
           u == [ r EXCEPT !.front = z, !.rear = b ]
<1>1. z \in Int /\ b \in Int /\ b <= z
  BY RecordParts
<1>2. u = AtStart(r)
  BY DEF AtStart
<1> HIDE DEF z, b
<1>3. /\ u \in TrainRecords /\ u.speed = r.speed
      /\ u.current_speed = r.current_speed /\ u.entry = r.entry
  BY <1>1 DEF RecordOf, TrainRecords
<1> HIDE DEF u
<1> QED
  BY <1>2, <1>3 DEF RecordOf

\* ... or enters it at its speed.
LEMMA EnteredFacts ==
    ASSUME NEW t \in Nat, NEW r, RecordOf(r, t)
    PROVE  RecordOf(init_train_on_track(r, r.speed, t), t)
<1>1. CASE r.speed < 0
  BY <1>1 DEF init_train_on_track
<1>2. CASE ~ r.speed < 0
  <2> DEFINE a == AtStart(r)
             s == r.speed
             u == [ a EXCEPT !.entry = t, !.current_speed = s ]
  <2>1. RecordOf(a, t) /\ a.speed = s /\ s \in Int
    BY AtStartFacts, RecordParts
  <2>2. u = init_train_on_track(r, r.speed, t)
    BY <1>2 DEF init_train_on_track
  <2> HIDE DEF a, s
  <2>3. u \in TrainRecords /\ u.speed = s /\ u.current_speed = s /\ u.entry = t
    BY <2>1 DEF RecordOf, TrainRecords
  <2>4. s > 0 => \E k \in 1 .. Scale : Scale = s * k
    BY <2>1 DEF RecordOf
  <2> HIDE DEF u
  <2>5. RecordOf(u, t)
    BY <2>3, <2>4 DEF RecordOf
  <2> QED
    BY <2>2, <2>5
<1> QED
  BY <1>1, <1>2

\* Trains and slots as they are before a train's data is written to them.
LEMMA FetchedFacts ==
    ASSUME NEW t \in Nat
    PROVE  /\ RecordOf(Zeroed, t)
           /\ \A id \in Ids : \A first \in {Here, Elsewhere} :
                  RecordOf(Fetched(id, Speed[id], Length[id], first), t)
<1>1. RecordOf(Zeroed, t)
  BY DEF Zeroed, Fetched, RecordOf, TrainRecords, Here
<1>2. ASSUME NEW id \in Ids, NEW first \in {Here, Elsewhere}
      PROVE  RecordOf(Fetched(id, Speed[id], Length[id], first), t)
  <2> DEFINE r == Fetched(id, Speed[id], Length[id], first)
  <2>1. r \in TrainRecords
    BY PhysicsAssumption DEF Fetched, TrainRecords
  <2>2. r.speed = Speed[id] /\ r.current_speed = 0 /\ r.entry = 0
    BY DEF Fetched
  <2> QED
    BY <2>1, <2>2, PhysicsAssumption DEF RecordOf
<1> QED
  BY <1>1, <1>2

\* A train that is moved, or leaves the track, keeps the form of its record.
LEMMA MovedFacts ==
    ASSUME NEW r, NEW t \in Nat, RecordOf(r, t), NEW time \in Nat
    PROVE  LET u == update_train_position(r, time)
           IN  /\ RecordOf(u, t)
               /\ RecordOf([ u EXCEPT !.track_id = NoTrackId ], t)
<1> DEFINE u == update_train_position(r, time)
           v == [ u EXCEPT !.track_id = NoTrackId ]
<1>1. /\ u \in TrainRecords /\ u.speed = r.speed
      /\ u.current_speed = r.current_speed /\ u.entry = r.entry
  BY UpdateFacts DEF RecordOf
<1> HIDE DEF u
<1>2. /\ v \in TrainRecords /\ v.speed = u.speed
      /\ v.current_speed = u.current_speed /\ v.entry = u.entry
  BY <1>1 DEF TrainRecords
<1> QED
  BY <1>1, <1>2 DEF RecordOf, u

\* At time 0 no train has left its track.
LEMMA NoneLeftAtZero ==
    ASSUME NEW r, NEW t \in Nat, RecordOf(r, t), CanUpdate(r, 0)
    PROVE  ~ has_train_left_track(update_train_position(r, 0), TrackLength)
<1> DEFINE u == update_train_position(r, 0)
<1>1. r \in TrainRecords /\ r.entry = 0 /\ r.length \in Nat /\ r.current_speed \in Int
  BY DEF RecordOf, CanUpdate, TrainRecords
<1>2. u.front = r.current_speed * (0 - r.entry) /\ u.rear = u.front - r.length
  BY <1>1, UpdateFacts
<1>3. u.rear = 0 - r.length
  BY <1>1, <1>2
<1> QED
  BY <1>1, <1>3, PhysicsAssumption DEF has_train_left_track

\* update_trains_on_track leaves a list of distinct slots, whether it comes to
\* the end or gives up.
LEMMA DropFacts ==
    ASSUME PhysInv, NEW time \in {now, 0}
    PROVE  LET after == update_trains_on_track(track, trains, TrackLength, time)
           IN  /\ after.track \in Seq(Slots) /\ IsInjective(after.track)
               /\ after.trains \in [Slots -> TrainRecords]
               /\ \A i \in Slots : RecordOf(after.trains[i], now)
<1> DEFINE stops(k) == ~ CanUpdate(trains[track[k]], time)
           last == IF \E k \in DOMAIN track : stops(k)
                   THEN SelectInSeq(track, LAMBDA id : ~ CanUpdate(trains[id], time)) - 1
                   ELSE Len(track)
           done == SubSeq(track, 1, last)
           moved(id) == update_train_position(trains[id], time)
           gone == { id \in ToSet(done) : has_train_left_track(moved(id), TrackLength) }
           kept == Compacted(done, gone)
           left == IF last = Len(track) THEN kept ELSE kept \o SubSeq(track, Len(kept) + 1, Len(track))
           after == [ id \in DOMAIN trains |->
                        IF ~ Contains(done, id) THEN trains[id]
                        ELSE IF id \in gone THEN [ moved(id) EXCEPT !.track_id = NoTrackId ]
                        ELSE moved(id) ]
<1>1. update_trains_on_track(track, trains, TrackLength, time) = [ track |-> left, trains |-> after ]
  BY Zenon DEF update_trains_on_track
<1>2. /\ now \in Nat /\ time \in Nat /\ track \in Seq(Slots) /\ IsInjective(track)
      /\ DOMAIN trains = Slots
      /\ \A id \in Slots : RecordOf(trains[id], now)
  BY DEF PhysInv, TypeInv
<1>3. last \in 0 .. Len(track) /\ \A k \in 1 .. last : CanUpdate(trains[track[k]], time)
  <2>1. CASE \E k \in DOMAIN track : stops(k)
    <3> DEFINE I == { i \in 1 .. Len(track) : ~ CanUpdate(trains[track[i]], time) }
    <3>1. SelectInSeq(track, LAMBDA id : ~ CanUpdate(trains[id], time)) = IF I # {} THEN Min(I) ELSE 0
      BY DEF SelectInSeq
    <3>2. I \in SUBSET Nat /\ I # {}
      BY <1>2, <2>1
    <3>3. Min(I) \in I /\ \A i \in I : Min(I) <= i
      BY <3>2, MinFacts
    <3>4. last = Min(I) - 1
      BY <2>1, <3>1, <3>2
    <3> HIDE DEF last
    <3> DEFINE m == Min(I)
    <3>5. m \in 1 .. Len(track) /\ last = m - 1
      BY <3>3, <3>4
    <3>6. ASSUME NEW k \in 1 .. last PROVE CanUpdate(trains[track[k]], time)
      <4>1. k \in 1 .. Len(track) /\ ~ m <= k
        BY <1>2, <3>5
      <4>2. k \notin I
        BY <3>3, <4>1
      <4> QED
        BY <4>1, <4>2
    <3> HIDE DEF m
    <3> QED
      BY <1>2, <3>5, <3>6
  <2>2. CASE ~ \E k \in DOMAIN track : stops(k)
    BY <1>2, <2>2
  <2> QED
    BY <2>1, <2>2
<1> HIDE DEF last
<1>4. /\ done \in Seq(Slots) /\ ToSet(done) \subseteq ToSet(track) /\ IsInjective(done)
      /\ \A id \in ToSet(done) : CanUpdate(trains[id], time)
  BY <1>2, <1>3 DEF ToSet, IsInjective
<1>5. last # Len(track) => time = 0
  <2> SUFFICES ASSUME last # Len(track), time = now PROVE FALSE
    BY <1>2
  <2>1. \A k \in DOMAIN track : ~ stops(k)
    BY <1>2 DEF RecordOf, CanUpdate
  <2> QED
    BY <2>1 DEF last
<1> HIDE DEF done
<1>6. /\ kept \in Seq(Slots) /\ ToSet(kept) = ToSet(done) \ gone /\ IsInjective(kept)
      /\ ToSet(done) \cap gone = {} => kept = done
  BY <1>4, CompactedFacts
<1> HIDE DEF kept
<1>7. ASSUME NEW id \in Slots PROVE RecordOf(after[id], now)
  <2> DEFINE u == moved(id)
             v == [ u EXCEPT !.track_id = NoTrackId ]
  <2>1. RecordOf(u, now) /\ RecordOf(v, now)
    BY <1>2, MovedFacts
  <2>2. after[id] \in {trains[id], u, v}
    BY <1>2
  <2> HIDE DEF after, v, moved
  <2> QED
    BY <1>2, <2>1, <2>2
<1>9. CASE last = Len(track)
  <2>1. done = track /\ left = kept
    BY <1>2, <1>9 DEF done
  <2>2. \A id \in Slots : RecordOf(after[id], now)
    <3> HIDE DEF after
    <3> QED
      BY <1>7
  <2> HIDE DEF after, left
  <2>4. after \in [Slots -> TrainRecords]
    <3>1. \A id \in Slots : after[id] \in TrainRecords
      BY <2>2 DEF RecordOf
    <3> QED
      BY <1>2, <3>1 DEF after
  <2> QED
    BY <1>1, <1>6, <2>1, <2>2, <2>4
<1>10. CASE last # Len(track)
  <2>1. gone = {}
    BY <1>2, <1>4, <1>5, <1>10, NoneLeftAtZero, ListedFacts
  <2>2. left = track
    BY <1>2, <1>3, <1>6, <1>10, <2>1 DEF done
  <2>3. \A id \in Slots : RecordOf(after[id], now)
    <3> HIDE DEF after
    <3> QED
      BY <1>7
  <2> HIDE DEF after, left
  <2>5. after \in [Slots -> TrainRecords]
    <3>1. \A id \in Slots : after[id] \in TrainRecords
      BY <2>3 DEF RecordOf
    <3> QED
      BY <1>2, <3>1 DEF after
  <2> QED
    BY <1>1, <1>2, <2>2, <2>3, <2>5
<1> QED
  BY <1>9, <1>10

\* Every action rewrites some records and the list; what has to be shown of it.
LEMMA KeepsPhysInv ==
    ASSUME now' \in Nat, active' \in 0 .. MAX_TRAINS,
           DOMAIN trains' = Slots, trains' = [ i \in DOMAIN trains' |-> trains'[i] ],
           \A i \in Slots : RecordOf(trains'[i], now'),
           track' \in Seq(Slots), IsInjective(track')
    PROVE  PhysInv'
<1>1. \A i \in Slots : trains'[i] \in TrainRecords
  BY DEF RecordOf
<1>2. trains' \in [Slots -> TrainRecords]
  BY <1>1
<1> QED
  BY <1>2 DEF PhysInv, TypeInv

\* What every step may use.
LEMMA PhysInvParts ==
    ASSUME PhysInv
    PROVE  /\ now \in Nat /\ active \in 0 .. MAX_TRAINS /\ MAX_TRAINS \in Nat
           /\ trains \in [Slots -> TrainRecords] /\ DOMAIN trains = Slots
           /\ \A i \in Slots : RecordOf(trains[i], now)
           /\ track \in Seq(Slots) /\ IsInjective(track)
           /\ \A i \in 1 .. active : i \in Slots
  BY PhysicsAssumption DEF PhysInv, TypeInv, Slots

\* A list that lost an entry, or none.
LEMMA UnlistedFacts ==
    ASSUME PhysInv, NEW ts, NEW id
    PROVE  \A l \in Releases(ts, id) : l \in Seq(Slots) /\ IsInjective(l)
<1>1. track \in Seq(Slots) /\ IsInjective(track)
  BY PhysInvParts
<1>2. ASSUME Shows(ts, id) # {} PROVE Unlisted(ts, id) \in Seq(Slots) /\ IsInjective(Unlisted(ts, id))
  <2> DEFINE k == Min(Shows(ts, id))
             n == Len(track)
             u == SubSeq(track, 1, k - 1) \o SubSeq(track, k + 1, n)
  <2>1. Shows(ts, id) \in SUBSET Nat
    BY DEF Shows
  <2>2. k \in Shows(ts, id)
    BY <1>2, <2>1, MinFacts
  <2>3. k \in 1 .. n /\ n \in Nat
    BY <1>1, <2>2 DEF Shows
  <2>4. Unlisted(ts, id) = u
    BY <1>2 DEF Unlisted, RemoveAt
  <2> DEFINE p == SubSeq(track, 1, k - 1)
             q == SubSeq(track, k + 1, n)
  <2> HIDE DEF k
  <2>a. p \in Seq(Slots) /\ Len(p) = k - 1 /\ \A j \in 1 .. k - 1 : p[j] = track[j]
    BY <1>1, <2>3
  <2>b. q \in Seq(Slots) /\ Len(q) = n - k /\ \A j \in 1 .. n - k : q[j] = track[j + k]
    BY <1>1, <2>3
  <2>c. u = p \o q
    OBVIOUS
  <2> HIDE DEF p, q, n, u
  <2>5. u \in Seq(Slots) /\ Len(u) = n - 1
    BY <2>3, <2>a, <2>b, <2>c
  <2>6. \A j \in 1 .. n - 1 : u[j] = IF j < k THEN track[j] ELSE track[j + 1]
    <3> SUFFICES ASSUME NEW j \in 1 .. n - 1
                 PROVE  u[j] = IF j < k THEN track[j] ELSE track[j + 1]
      OBVIOUS
    <3>1. CASE j < k
      BY <2>3, <2>a, <2>b, <2>c, <3>1
    <3>2. CASE ~ j < k
      <4>1. u[j] = q[j - (k - 1)] /\ j - (k - 1) \in 1 .. n - k
        BY <2>3, <2>a, <2>b, <2>c, <3>2
      <4>2. j - (k - 1) + k = j + 1
        BY <2>3
      <4> QED
        BY <2>b, <3>2, <4>1, <4>2
    <3> QED
      BY <3>1, <3>2
  <2>7. DOMAIN u = 1 .. n - 1 /\ DOMAIN track = 1 .. n
    BY <1>1, <2>5 DEF n
  <2>8. IsInjective(u)
    <3> SUFFICES ASSUME NEW a \in 1 .. n - 1, NEW b \in 1 .. n - 1, u[a] = u[b] PROVE a = b
      BY <2>7 DEF IsInjective
    <3> DEFINE A == IF a < k THEN a ELSE a + 1
               B == IF b < k THEN b ELSE b + 1
    <3>1. A \in 1 .. n /\ B \in 1 .. n /\ track[A] = u[a] /\ track[B] = u[b]
      BY <2>3, <2>6
    <3>2. A = B
      BY <1>1, <2>7, <3>1 DEF IsInjective
    <3> QED
      BY <2>3, <3>2
  <2> QED
    BY <2>4, <2>5, <2>8
<1> QED
  BY <1>1, <1>2 DEF Releases, Unlisted

\* The slot and the record a request works on.
LEMMA RequestFacts ==
    ASSUME PhysInv, NEW id \in Ids, NEW first \in {Here, Elsewhere}, SlotOf(id) \in Slots
    PROVE  /\ DOMAIN WithTrain(id, first) = Slots
           /\ \A i \in Slots : RecordOf(WithTrain(id, first)[i], now)
           /\ (IF SlotOf(id) <= active THEN active ELSE active + 1) \in 0 .. MAX_TRAINS
<1> DEFINE r == Fetched(id, Speed[id], Length[id], first)
<1>1. RecordOf(r, now)
  BY PhysInvParts, FetchedFacts
<1> HIDE DEF r
<1>2. CASE SlotOf(id) <= active
  BY <1>2, PhysInvParts DEF WithTrain
<1>3. CASE ~ SlotOf(id) <= active
  <2>1. WithTrain(id, first) = [ trains EXCEPT ![active + 1] = r ]
    BY <1>3 DEF WithTrain, r
  <2>2. DOMAIN WithTrain(id, first) = Slots /\ \A i \in Slots : WithTrain(id, first)[i] \in {trains[i], r}
    BY <2>1, PhysInvParts
  <2>3. active + 1 <= MAX_TRAINS
    <3>1. ~ \E i \in 1 .. active : trains[i].train_id = id
      <4> SUFFICES ASSUME \E i \in 1 .. active : trains[i].train_id = id PROVE FALSE
        OBVIOUS
      <4>1. SlotOf(id) \in 1 .. active
        BY Zenon DEF SlotOf
      <4> QED
        BY <1>3, <4>1, PhysInvParts
    <3>2. SlotOf(id) = active + 1
      BY <3>1, Zenon DEF SlotOf
    <3> QED
      BY <3>2, PhysInvParts DEF Slots
  <2> QED
    BY <1>1, <1>3, <2>2, <2>3, PhysInvParts
<1> QED
  BY <1>2, <1>3

LEMMA StoredFacts ==
    ASSUME PhysInv, NEW id \in Ids, NEW first \in {Here, Elsewhere}, NEW r, RecordOf(r, now),
           Stored(id, first, r), track' \in Seq(Slots), IsInjective(track')
    PROVE  PhysInv'
<1> DEFINE ts == WithTrain(id, first)
<1>1. /\ SlotOf(id) \in Slots /\ trains' = [ ts EXCEPT ![SlotOf(id)] = r ] /\ now' = now
      /\ active' = IF SlotOf(id) <= active THEN active ELSE active + 1
  BY DEF Stored
<1>2. /\ DOMAIN ts = Slots /\ \A i \in Slots : RecordOf(ts[i], now)
      /\ active' \in 0 .. MAX_TRAINS
  BY <1>1, RequestFacts
<1> HIDE DEF ts
<1>3. \A i \in Slots : trains'[i] \in {ts[i], r}
  BY <1>1, <1>2
<1>4. DOMAIN trains' = Slots /\ trains' = [ i \in DOMAIN trains' |-> trains'[i] ]
  BY <1>1, <1>2
<1> QED
  BY <1>1, <1>2, <1>3, <1>4, KeepsPhysInv, PhysInvParts

\* The record of one slot is replaced.
LEMMA OneRecord ==
    ASSUME PhysInv, NEW i \in Slots, NEW r, RecordOf(r, now), now' = now, active' = active,
           trains' = [ trains EXCEPT ![i] = r ],
           track' \in Seq(Slots), IsInjective(track')
    PROVE  PhysInv'
<1>1. \A j \in Slots : trains'[j] \in {trains[j], r}
  BY PhysInvParts
<1>2. DOMAIN trains' = Slots /\ trains' = [ j \in DOMAIN trains' |-> trains'[j] ]
  BY PhysInvParts
<1> QED
  BY <1>1, <1>2, KeepsPhysInv, PhysInvParts

LEMMA PhysInvInit == Init => PhysInv
<1> SUFFICES ASSUME Init PROVE PhysInv
  OBVIOUS
<1>1. now \in Nat /\ active \in 0 .. MAX_TRAINS /\ RecordOf(Zeroed, now)
  BY FetchedFacts, PhysicsAssumption DEF Init
<1>2. trains \in [Slots -> TrainRecords] /\ \A i \in Slots : RecordOf(trains[i], now)
  BY <1>1 DEF Init, RecordOf
<1>3. track \in Seq(Slots) /\ IsInjective(track)
  BY DEF Init, IsInjective
<1> QED
  BY <1>1, <1>2, <1>3 DEF PhysInv, TypeInv

\* The requests: granted here, granted elsewhere, denied.
LEMMA RequestsKeepPhysInv ==
    ASSUME PhysInv, NEW id \in Ids, NEW first \in {Here, Elsewhere},
           Granted(id, first) \/ GrantedElsewhere(id, first) \/ Denied(id, first)
    PROVE  PhysInv'
<1> DEFINE ts == WithTrain(id, first)
           train == ts[SlotOf(id)]
<1>1. SlotOf(id) \in Slots
  BY DEF Granted, GrantedElsewhere, Denied, Stored
<1>2. RecordOf(train, now) /\ now \in Nat /\ track \in Seq(Slots) /\ IsInjective(track)
  BY <1>1, RequestFacts, PhysInvParts
<1>3. CASE Granted(id, first)
  <2> DEFINE r == [ set_train_waiting_speed(train, FALSE) EXCEPT !.track_id = Here ]
  <2>1. Stored(id, first, r) /\ track' = << SlotOf(id) >>
    BY <1>3 DEF Granted
  <2>2. track' \in Seq(Slots) /\ IsInjective(track')
    BY <1>1, <2>1 DEF IsInjective
  <2> HIDE DEF train
  <2>3. RecordOf(r, now)
    BY <1>2, WaitingFacts, LocatedFacts
  <2> HIDE DEF r
  <2> QED
    BY <2>1, <2>2, <2>3, StoredFacts
<1>4. CASE GrantedElsewhere(id, first)
  <2> DEFINE r == [ set_train_waiting_speed(train, FALSE) EXCEPT !.track_id = Elsewhere ]
  <2>1. Stored(id, first, r) /\ track' \in {track} \union Releases(ts, id)
    BY <1>4 DEF GrantedElsewhere
  <2>2. track' \in Seq(Slots) /\ IsInjective(track')
    BY <1>2, <2>1, UnlistedFacts
  <2> HIDE DEF train
  <2>3. RecordOf(r, now)
    BY <1>2, WaitingFacts, LocatedFacts
  <2> HIDE DEF r
  <2> QED
    BY <2>1, <2>2, <2>3, StoredFacts
<1>5. CASE Denied(id, first)
  <2>1. PICK t \in {train.track_id, NoTrackId} :
            Stored(id, first, [ set_train_waiting_speed(train, TRUE) EXCEPT !.track_id = t ])
    BY <1>5 DEF Denied
  <2>2. track' = track
    BY <1>5 DEF Denied
  <2> DEFINE r == [ set_train_waiting_speed(train, TRUE) EXCEPT !.track_id = t ]
  <2> HIDE DEF train
  <2>3. t \in {Here, Elsewhere, NoTrackId}
    BY <1>2, RecordParts
  <2>4. RecordOf(r, now)
    BY <1>2, <2>3, WaitingFacts, LocatedFacts
  <2>5. Stored(id, first, r)
    BY <2>1
  <2> HIDE DEF r
  <2> QED
    BY <1>2, <2>2, <2>4, <2>5, StoredFacts
<1> QED
  BY <1>3, <1>4, <1>5

LEMMA PhysInvStep == PhysInv /\ [Next]_phvars => PhysInv'
<1> SUFFICES ASSUME PhysInv, [Next]_phvars PROVE PhysInv'
  OBVIOUS
<1>1. /\ now \in Nat /\ track \in Seq(Slots) /\ IsInjective(track)
      /\ active \in 0 .. MAX_TRAINS /\ MAX_TRAINS \in Nat
      /\ DOMAIN trains = Slots /\ trains = [ i \in Slots |-> trains[i] ]
      /\ \A i \in Slots : RecordOf(trains[i], now)
      /\ \A i \in 1 .. active : i \in Slots
  BY PhysInvParts
<1>2. CASE Wait
  <2>1. ASSUME NEW i \in Slots PROVE RecordOf(trains'[i], now')
    <3>1. RecordOf(trains[i], now) /\ now' = now + 1 /\ trains' = trains
      BY <1>1, <1>2 DEF Wait
    <3>2. trains[i].entry \in Nat /\ trains[i].entry <= now
      BY <3>1, RecordParts
    <3> QED
      BY <1>1, <3>1, <3>2 DEF RecordOf
  <2> QED
    BY <1>1, <1>2, <2>1, KeepsPhysInv DEF Wait
<1>3. CASE MoveAll
  <2>1. PICK time \in {now, 0} : trains' = update_track_data(track, trains, time)
    BY <1>3 DEF MoveAll
  <2> DEFINE moved(i) == update_train_position(trains[i], time)
  <2>2. \A i \in Slots : trains'[i] \in {moved(i), trains[i]}
    BY <1>1, <2>1 DEF update_track_data
  <2>3. \A i \in Slots : RecordOf(moved(i), now)
    BY <1>1, MovedFacts
  <2>4. DOMAIN trains' = Slots /\ trains' = [ i \in DOMAIN trains' |-> trains'[i] ]
    BY <1>1, <2>1 DEF update_track_data
  <2>5. now' = now /\ track' = track /\ active' = active
    BY <1>3 DEF MoveAll
  <2> HIDE DEF moved
  <2>6. \A i \in Slots : RecordOf(trains'[i], now')
    BY <1>1, <2>2, <2>3, <2>5
  <2> QED
    BY <1>1, <2>4, <2>5, <2>6, KeepsPhysInv
<1>4. CASE MoveAndDrop
  <2>1. PICK time \in {now, 0} :
            LET after == update_trains_on_track(track, trains, TrackLength, time)
            IN  track' = after.track /\ trains' = after.trains /\ now' = now /\ active' = active
    BY <1>4 DEF MoveAndDrop
  <2>2. trains' \in [Slots -> TrainRecords] /\ \A i \in Slots : RecordOf(trains'[i], now')
    BY <2>1, DropFacts
  <2>3. DOMAIN trains' = Slots /\ trains' = [ i \in DOMAIN trains' |-> trains'[i] ]
    BY <2>2
  <2> QED
    BY <1>1, <2>1, <2>2, <2>3, DropFacts, KeepsPhysInv
<1>5. ASSUME NEW id \in Ids, Released(id) PROVE PhysInv'
  <2> DEFINE stopped(i) == [ set_train_waiting_speed(trains[i], TRUE) EXCEPT !.track_id = NoTrackId ]
  <2>1. \A i \in Slots : RecordOf(stopped(i), now)
    BY <1>1, WaitingFacts, LocatedFacts
  <2>2. trains' = [ i \in Slots |-> IF i <= active /\ trains[i].train_id = id THEN stopped(i) ELSE trains[i] ]
    BY <1>5 DEF Released
  <2> HIDE DEF stopped
  <2>3. \A i \in Slots : trains'[i] \in {trains[i], stopped(i)}
    BY <2>2
  <2>4. DOMAIN trains' = Slots /\ trains' = [ i \in DOMAIN trains' |-> trains'[i] ]
    BY <2>2
  <2>5. now' = now /\ active' = active /\ track' \in Releases(trains, id)
    BY <1>5 DEF Released
  <2>6. track' \in Seq(Slots) /\ IsInjective(track')
    BY <2>5, UnlistedFacts
  <2>7. \A i \in Slots : RecordOf(trains'[i], now')
    BY <1>1, <2>1, <2>3, <2>5
  <2> QED
    BY <1>1, <2>4, <2>5, <2>6, <2>7, KeepsPhysInv
<1>6. ASSUME NEW i \in 1 .. active, RolledBack(i) PROVE PhysInv'
  <2> DEFINE u == set_train_waiting_speed(AtStart(trains[i]), TRUE)
             r == [ u EXCEPT !.track_id = NoTrackId ]
  <2>1. i \in Slots /\ RecordOf(u, now)
    BY <1>1, AtStartFacts, WaitingFacts
  <2>2. RecordOf(r, now)
    <3> HIDE DEF u
    <3> QED
      BY <2>1, LocatedFacts
  <2>5. trains' = [ trains EXCEPT ![i] = r ] /\ now' = now /\ active' = active
    BY <1>6 DEF RolledBack
  <2>6. track' \in Seq(Slots) /\ IsInjective(track')
    BY <1>6, UnlistedFacts DEF RolledBack
  <2> HIDE DEF r
  <2> QED
    BY <2>1, <2>2, <2>5, <2>6, OneRecord
<1>7. ASSUME NEW i \in 1 .. active, Removed(i) PROVE PhysInv'
  <2>1. trains' = [ j \in Slots |-> IF j < i \/ j > active THEN trains[j]
                                    ELSE IF j < active THEN trains[j + 1] ELSE Zeroed ]
    BY <1>7 DEF Removed
  <2>2. now' = now /\ track' = track /\ active' = active - 1
    BY <1>7 DEF Removed
  <2>3. RecordOf(Zeroed, now)
    BY <1>1, FetchedFacts
  <2>4. ASSUME NEW j \in Slots PROVE RecordOf(trains'[j], now')
    <3>1. j < active => j + 1 \in Slots
      BY <1>1 DEF Slots
    <3>2. \/ trains'[j] = trains[j]
          \/ j < active /\ trains'[j] = trains[j + 1]
          \/ trains'[j] = Zeroed
      BY <2>1
    <3> QED
      BY <1>1, <2>2, <2>3, <3>1, <3>2
  <2>5. DOMAIN trains' = Slots /\ trains' = [ j \in DOMAIN trains' |-> trains'[j] ]
    BY <2>1
  <2>6. active' \in 0 .. MAX_TRAINS
    BY <1>1, <2>2
  <2> QED
    BY <1>1, <2>2, <2>4, <2>5, <2>6, KeepsPhysInv
<1>8. ASSUME NEW i \in 1 .. active, Enter(i) PROVE PhysInv'
  <2> DEFINE u == trains[i]
             x == init_train_on_track(u, u.speed, now)
             r == [ x EXCEPT !.track_id = Here ]
  <2>1. i \in Slots /\ RecordOf(x, now)
    BY <1>1, EnteredFacts
  <2>3. RecordOf(r, now)
    <3> HIDE DEF x
    <3> QED
      BY <2>1, LocatedFacts
  <2>4. /\ trains' = [ trains EXCEPT ![i] = r ] /\ now' = now /\ active' = active
        /\ track' = Append(track, i) /\ ~ Contains(track, i)
    BY <1>8 DEF Enter
  <2>5. track' \in Seq(Slots) /\ IsInjective(track')
    BY <1>1, <2>1, <2>4, ContainsFacts, AppendFacts
  <2> HIDE DEF r
  <2> QED
    BY <2>1, <2>3, <2>4, <2>5, OneRecord
<1>9. CASE UNCHANGED phvars
  BY <1>9 DEF PhysInv, TypeInv, phvars
<1>10. CASE \E id \in Ids, first \in {Here, Elsewhere} :
               Granted(id, first) \/ GrantedElsewhere(id, first) \/ Denied(id, first)
  BY <1>10, RequestsKeepPhysInv
<1> QED
  BY <1>2, <1>3, <1>4, <1>5, <1>6, <1>7, <1>8, <1>9, <1>10 DEF Next

\* Whatever main.c or a caller of physics_engine.h does in whatever order, and
\* with a clock that may fail: no train has its rear ahead of its front, entered
\* in the future or goes at a speed that is not its own, and no list points to a
\* slot twice.
THEOREM PhysicsInvariant == Spec => []PhysInv
  BY PhysInvInit, PhysInvStep, PTL DEF Spec

-----------------------------------------------------------------------------
(* The helpers agree with the positions. *)

LEMMA RecordTypes ==
    ASSUME PhysInv, NEW id \in Slots
    PROVE  /\ trains[id].front \in Int /\ trains[id].rear \in Int
           /\ trains[id].rear <= trains[id].front
           /\ trains[id].length \in Nat /\ trains[id].current_speed \in Int
           /\ trains[id].entry \in Nat /\ trains[id].entry <= now /\ now \in Nat
  BY DEF PhysInv, TypeInv, RecordOf, TrainRecords

\* Scale is a multiple of the speed of a train in motion.
LEMMA SpeedDivides ==
    ASSUME PhysInv, NEW id \in Slots, trains[id].current_speed > 0
    PROVE  \E k \in Nat : k > 0 /\ Scale = k * trains[id].current_speed
<1>1. trains[id].current_speed = trains[id].speed
  BY DEF PhysInv, TypeInv, RecordOf
<1>2. PICK k \in 1 .. Scale : Scale = trains[id].speed * k
  BY <1>1 DEF PhysInv, TypeInv, RecordOf
<1>3. k \in Nat /\ k > 0 /\ trains[id].speed \in Int
  BY ScaleAssumption DEF PhysInv, TypeInv, RecordOf, TrainRecords
<1>4. Scale = k * trains[id].speed
  BY <1>2, <1>3
<1> QED
  BY <1>1, <1>3, <1>4

\* So the time in which a train in motion covers a distance is exact.
LEMMA DurationFacts ==
    ASSUME PhysInv, NEW id \in Slots, trains[id].current_speed > 0, NEW x \in Int
    PROVE  LET t == (x * Scale) \div trains[id].current_speed
           IN  /\ t \in Int /\ trains[id].current_speed * t = x * Scale
               /\ x >= 0 => t >= 0
<1> DEFINE s == trains[id].current_speed
<1>1. s \in Nat /\ s > 0
  BY RecordTypes
<1>2. PICK k \in Nat : k > 0 /\ Scale = k * s
  BY SpeedDivides
<1> HIDE DEF s
<1>3. x * Scale = (x * k) * s /\ x * k \in Int
  BY <1>1, <1>2
<1>4. (x * Scale) \div s = x * k
  BY <1>1, <1>3, ExactDivision
<1>5. s * (x * k) = x * Scale
  BY <1>1, <1>2
<1>6. x >= 0 => x * k >= 0
  BY <1>2
<1> QED
  BY <1>3, <1>4, <1>5, <1>6 DEF s

\* check_train_collision reports two trains exactly when they cover a common
\* stretch of the line, whatever their positions.
THEOREM CollisionIsExact == Spec => []CollisionIsOverlap
<1>1. PhysInv => CollisionIsOverlap
  <2> SUFFICES ASSUME PhysInv, NEW a \in Slots, NEW b \in Slots, Cells(a) # {}, Cells(b) # {}
               PROVE  check_train_collision(trains[a], trains[b]) <=> Cells(a) \cap Cells(b) # {}
    BY DEF CollisionIsOverlap
  <2> DEFINE ra == trains[a].rear   fa == trains[a].front
             rb == trains[b].rear   fb == trains[b].front
  <2>1. ra \in Int /\ fa \in Int /\ rb \in Int /\ fb \in Int
    BY RecordTypes
  <2>2. Cells(a) = ra .. fa - 1 /\ Cells(b) = rb .. fb - 1
    BY DEF Cells
  <2>3. check_train_collision(trains[a], trains[b]) <=> ra < fb /\ fa > rb
    BY DEF check_train_collision
  <2> HIDE DEF ra, fa, rb, fb
  <2>4. ra < fa /\ rb < fb
    BY <2>1, <2>2
  <2>5. ASSUME ra < fb, fa > rb PROVE Cells(a) \cap Cells(b) # {}
    <3> DEFINE x == IF ra <= rb THEN rb ELSE ra
    <3>1. x \in ra .. fa - 1 /\ x \in rb .. fb - 1
      BY <2>1, <2>4, <2>5
    <3> QED
      BY <2>2, <3>1
  <2>6. ASSUME Cells(a) \cap Cells(b) # {} PROVE ra < fb /\ fa > rb
    <3>1. PICK x : x \in ra .. fa - 1 /\ x \in rb .. fb - 1
      BY <2>2, <2>6
    <3> QED
      BY <2>1, <3>1
  <2> QED
    BY <2>3, <2>5, <2>6
<1> QED
  BY <1>1, PhysicsInvariant, PTL

\* time_until_train_at_position is the first moment at which a train that goes
\* on at its speed has its front at the position; there is none if it says so.
THEOREM ArrivalIsExact == Spec => []ArrivalIsFirst
<1>1. PhysInv => ArrivalIsFirst
  <2> SUFFICES ASSUME PhysInv, NEW p \in 0 .. TrackLength
               PROVE  LET at(d) == \E id \in ToSet(track) :
                               /\ trains[id].current_speed > 0
                               /\ trains[id].front * Scale + trains[id].current_speed * d = p * Scale
                          until == time_until_train_at_position(track, trains, p)
                      IN  IF until = Never
                          THEN \A d \in 0 .. Scale * TrackLength : ~ at(d)
                          ELSE at(until) /\ \A d \in 0 .. until - 1 : ~ at(d)
    BY DEF ArrivalIsFirst
  <2> DEFINE at(d) == \E id \in ToSet(track) :
                          /\ trains[id].current_speed > 0
                          /\ trains[id].front * Scale + trains[id].current_speed * d = p * Scale
             coming == { id \in ToSet(track) :
                           trains[id].current_speed > 0 /\ p >= trains[id].front }
             time(id) == ((p - trains[id].front) * Scale) \div trains[id].current_speed
             times == { time(id) : id \in coming }
             until == time_until_train_at_position(track, trains, p)
  <2>1. until = IF coming = {} THEN Never ELSE Min(times)
    BY Zenon DEF time_until_train_at_position
  <2>2. p \in Int /\ Scale \in Nat /\ Scale > 0
    BY PhysicsAssumption, ScaleAssumption
  <2>3. ASSUME NEW id \in coming
        PROVE  /\ time(id) \in Nat /\ id \in ToSet(track) /\ trains[id].current_speed > 0
               /\ trains[id].front * Scale + trains[id].current_speed * time(id) = p * Scale
    <3> DEFINE f == trains[id].front
               s == trains[id].current_speed
               t == ((p - f) * Scale) \div s
    <3>1. id \in Slots
      BY ListedFacts DEF PhysInv, TypeInv
    <3>2. f \in Int /\ s \in Int /\ s > 0 /\ p - f \in Int /\ p - f >= 0
      BY <2>2, <3>1, RecordTypes
    <3>3. t \in Int /\ s * t = (p - f) * Scale /\ t >= 0
      BY <3>1, <3>2, DurationFacts
    <3> HIDE DEF f, s, t
    <3>4. f * Scale + s * t = p * Scale
      BY <2>2, <3>2, <3>3
    <3> QED
      BY <3>2, <3>3, <3>4 DEF f, s, t
  <2>4. ASSUME NEW d \in Nat, at(d)
        PROVE  \E id \in coming : time(id) = d
    <3>1. PICK id \in ToSet(track) :
              /\ trains[id].current_speed > 0
              /\ trains[id].front * Scale + trains[id].current_speed * d = p * Scale
      BY <2>4
    <3> DEFINE f == trains[id].front
               s == trains[id].current_speed
    <3>2. id \in Slots
      BY ListedFacts DEF PhysInv, TypeInv
    <3>3. f \in Int /\ s \in Nat /\ s > 0 /\ f * Scale + s * d = p * Scale
      BY <3>1, <3>2, RecordTypes
    <3> HIDE DEF f, s
    <3>4. (p - f) * Scale = d * s /\ d * s >= 0
      BY <2>2, <3>3
    <3>5. p >= f
      BY <2>2, <3>3, <3>4
    <3>6. ((p - f) * Scale) \div s = d
      BY <3>3, <3>4, ExactDivision
    <3> QED
      BY <3>1, <3>5, <3>6 DEF f, s
  <2>5. CASE coming = {}
    <3>1. until = Never
      BY <2>1, <2>5
    <3>2. \A d \in Nat : ~ at(d)
      BY <2>4, <2>5
    <3> HIDE DEF at, until
    <3>3. \A d \in 0 .. Scale * TrackLength : d \in Nat
      BY <2>2, PhysicsAssumption
    <3> QED
      BY <3>1, <3>2, <3>3 DEF at, until
  <2>6. CASE coming # {}
    <3>1. times \in SUBSET Nat /\ times # {}
      BY <2>3, <2>6
    <3>2. Min(times) \in times /\ \A x \in times : Min(times) <= x
      BY <3>1, MinFacts
    <3>3. until = Min(times)
      BY <2>1, <2>6
    <3>4. \A x \in times : until <= x
      BY <3>2, <3>3
    <3>5. PICK id \in coming : until = time(id)
      BY <3>2, <3>3
    <3>6. until \in Nat /\ until # Never
      <4>1. until \in times
        BY <3>2, <3>3
      <4> HIDE DEF until, times
      <4> QED
        BY <3>1, <4>1 DEF Never
    <3> HIDE DEF until, times
    <3>7. at(until)
      BY <2>3, <3>5
    <3>8. ASSUME NEW d \in 0 .. until - 1 PROVE ~ at(d)
      <4>1. d \in Nat /\ ~ until <= d
        BY <3>6
      <4>2. d \notin times
        BY <3>4, <4>1
      <4> HIDE DEF at
      <4> QED
        BY <2>4, <4>1, <4>2 DEF times
    <3> HIDE DEF at
    <3> QED
      BY <3>6, <3>7, <3>8 DEF at, until
  <2> QED
    BY <2>5, <2>6
<1> QED
  BY <1>1, PhysicsInvariant, PTL

\* The time time_to_clear_section predicts is the one after which
\* update_trains_on_track drops a train that goes on at its speed.
THEOREM ClearanceIsPredicted == Spec => []ClearanceIsExact
<1>1. PhysInv => ClearanceIsExact
  <2> SUFFICES ASSUME PhysInv, NEW id \in ToSet(track), trains[id].current_speed > 0,
                      update_train_position(trains[id], now) = trains[id],
                      NEW d \in 0 .. 2 * TrackLength
               PROVE  has_train_left_track(update_train_position(trains[id], now + d), TrackLength)
                          <=> time_to_clear_section(trains[id], TrackLength) <= d * Scale
    BY DEF ClearanceIsExact
  <2> DEFINE r == trains[id]
             u == update_train_position(r, now + d)
             s == r.current_speed
             x == TrackLength - r.rear
             clear == (x * Scale) \div s
  <2>1. id \in Slots
    BY ListedFacts DEF PhysInv, TypeInv
  <2>2. /\ r \in TrainRecords /\ now \in Nat /\ now + d \in Nat /\ d \in Nat
        /\ r.entry <= now /\ r.entry <= now + d /\ r.entry \in Nat
        /\ s \in Int /\ s > 0 /\ r.rear \in Int /\ r.length \in Nat
        /\ TrackLength \in Nat /\ TrackLength > 0 /\ x \in Int
    BY <2>1, RecordTypes, PhysicsAssumption DEF PhysInv, TypeInv, RecordOf
  <2>3. r.rear = s * (now - r.entry) - r.length
    <3>1. update_train_position(r, now).rear = s * (now - r.entry) - r.length
      <4> HIDE DEF r
      <4> QED
        BY <2>2, RearFacts DEF s
    <3> QED
      BY <3>1
  <2>4. u.rear = s * (now + d - r.entry) - r.length
    <3> HIDE DEF r
    <3> QED
      BY <2>2, RearFacts DEF s, u
  <2>5. u.rear = r.rear + s * d
    <3> DEFINE e == r.entry   n == now   l == r.length
    <3>1. e \in Int /\ n \in Int /\ l \in Int /\ s \in Int /\ d \in Int
      BY <2>2
    <3>2. r.rear = s * (n - e) - l /\ u.rear = s * (n + d - e) - l
      BY <2>3, <2>4
    <3> HIDE DEF e, n, l, s, r, u
    <3> QED
      BY <3>1, <3>2
  <2>6. has_train_left_track(u, TrackLength) <=> s * d >= x
    <3> HIDE DEF u, r, s
    <3>1. s * d \in Int
      BY <2>2
    <3> QED
      BY <2>2, <2>5, <3>1 DEF has_train_left_track
  <2>7. clear \in Int /\ s * clear = x * Scale
    BY <2>1, <2>2, DurationFacts
  <2>8. CASE x < 0
    <3>1. time_to_clear_section(r, TrackLength) = Never
      BY <2>2, <2>8 DEF time_to_clear_section
    <3>2. s * d >= 0 /\ d * Scale >= 0
      BY <2>2, ScaleAssumption
    <3> QED
      BY <2>2, <2>6, <2>8, <3>1, <3>2, ScaleAssumption DEF Never
  <2>9. CASE x >= 0
    <3>1. time_to_clear_section(r, TrackLength) = clear
      BY <2>2, <2>9 DEF time_to_clear_section
    <3>2. clear <= d * Scale <=> x * Scale <= s * (d * Scale)
      <4> HIDE DEF clear, s, x
      <4> QED
        BY <2>2, <2>7, ScaleAssumption
    <3>3. x * Scale <= s * (d * Scale) <=> x <= s * d
      <4> HIDE DEF s, x
      <4> QED
        BY <2>2, ScaleAssumption
    <3> QED
      BY <2>2, <2>6, <3>1, <3>2, <3>3
  <2> QED
    BY <2>2, <2>8, <2>9
<1> QED
  BY <1>1, PhysicsInvariant, PTL

-----------------------------------------------------------------------------
(* Occupancy: a sum over the trains of a track. *)

\* The sum over a track is the one the loop adds up.
LEMMA TotalFacts ==
    ASSUME NEW s \in Seq(Slots), NEW part, \A id \in ToSet(s) : part[id] \in Int
    PROVE  \E sum \in [0 .. Len(s) -> Int] :
              /\ Total(s, part) = sum[Len(s)] /\ sum[0] = 0
              /\ \A k \in 1 .. Len(s) : sum[k] = sum[k - 1] + part[s[k]]
<1> DEFINE K == Len(s)
           G == [ k \in 1 .. K |-> [ t \in Int |-> t + part[s[k]] ] ]
           IsSum(f) == f = [ k \in 0 .. K |-> IF k = 0 THEN 0 ELSE f[k - 1] + part[s[k]] ]
           sum == CHOOSE f : IsSum(f)
<1>1. K \in Nat /\ \A k \in 1 .. K : part[s[k]] \in Int
  BY DEF ToSet
<1>2. Total(s, part) = sum[K]
  BY Zenon DEF Total
<1>3. G \in [1 .. K -> [Int -> Int]]
  BY <1>1
<1> HIDE DEF K
<1>4. PICK f \in [0 .. K -> Int] : Recursion(K, 0, G, f)
  <2> DEFINE b == 0
             R == Int
  <2>1. b \in R /\ G \in [1 .. K -> [R -> R]]
    BY <1>3
  <2> HIDE DEF G, b, R
  <2>2. \E f \in [0 .. K -> R] : Recursion(K, b, G, f)
    BY <1>1, <2>1, RecursionExists
  <2> QED
    BY <2>2 DEF b, R
<1>5. IsSum(f)
  <2>1. \A k \in 1 .. K : f[k - 1] \in Int
    BY <1>1
  <2>2. \A k \in 1 .. K : G[k][f[k - 1]] = f[k - 1] + part[s[k]]
    BY <2>1
  <2> HIDE DEF G
  <2> QED
    BY <1>1, <1>4, <2>2 DEF Recursion
<1>6. IsSum(sum)
  <2> HIDE DEF IsSum
  <2> QED
    BY <1>5, Zenon
<1> HIDE DEF sum
<1>7. sum[0] = 0 /\ \A k \in 1 .. K : sum[k] = sum[k - 1] + part[s[k]]
  BY <1>1, <1>6
<1> DEFINE P == { k \in 0 .. K : sum[k] \in Int }
<1>8. \A k \in 0 .. K : k \in P
  <2>1. 0 \in P
    BY <1>1, <1>7
  <2>2. ASSUME NEW k \in 1 .. K, k - 1 \in P PROVE k \in P
    <3>1. k \in 0 .. K /\ sum[k - 1] \in Int /\ part[s[k]] \in Int
      BY <1>1, <2>2
    <3>2. sum[k] = sum[k - 1] + part[s[k]]
      BY <1>7
    <3> QED
      BY <3>1, <3>2
  <2> HIDE DEF P
  <2> QED
    BY <1>1, <2>1, <2>2, InductUpTo
<1>9. sum \in [0 .. K -> Int]
  <2>1. sum = [ k \in 0 .. K |-> IF k = 0 THEN 0 ELSE sum[k - 1] + part[s[k]] ]
    BY <1>6
  <2>2. \A k \in 0 .. K : (IF k = 0 THEN 0 ELSE sum[k - 1] + part[s[k]]) \in Int
    BY <1>1, <1>8
  <2> QED
    BY <2>1, <2>2
<1> HIDE DEF IsSum, P
<1> QED
  BY <1>2, <1>7, <1>9 DEF K

\* The part of the block a train covers.
Inside(id) == Cells(id) \cap 0 .. TrackLength - 1

\* The part of a train get_track_occupancy adds.
Part(id) ==
    IF trains[id].front > 0 /\ trains[id].rear < TrackLength
    THEN Min({trains[id].front, TrackLength}) - Max({trains[id].rear, 0})
    ELSE 0

LEMMA PartIsInside ==
    ASSUME PhysInv, NEW id \in Slots
    PROVE  IsFiniteSet(Inside(id)) /\ Part(id) = Cardinality(Inside(id)) /\ Part(id) \in Int
<1> DEFINE f == trains[id].front
           r == trains[id].rear
           L == TrackLength
           m == IF f <= L THEN f ELSE L
           x == IF r >= 0 THEN r ELSE 0
<1>1. f \in Int /\ r \in Int /\ r <= f /\ L \in Nat /\ L > 0
  BY RecordTypes, PhysicsAssumption
<1>2. Min({f, L}) = m /\ Max({r, 0}) = x
  <2> HIDE DEF f, r, L
  <2> QED
    BY <1>1, MinOfTwo, MaxOfTwo
<1>3. Inside(id) = (r .. f - 1) \cap (0 .. L - 1)
  BY DEF Inside, Cells
<1>4. Part(id) = IF f > 0 /\ r < L THEN m - x ELSE 0
  BY <1>2 DEF Part
<1> HIDE DEF f, r, L
<1>5. CASE f > 0 /\ r < L
  <2>1. m \in Int /\ x \in Int /\ x <= m /\ m - 1 \in Int
    BY <1>1, <1>5
  <2>2. Inside(id) = x .. m - 1
    BY <1>1, <1>3
  <2> HIDE DEF m, x
  <2>3. IsFiniteSet(x .. m - 1) /\ Cardinality(x .. m - 1) = m - x
    <3> DEFINE n == m - 1
    <3>1. n \in Int /\ m = n + 1
      BY <2>1
    <3> HIDE DEF n
    <3>2. IsFiniteSet(x .. n) /\ Cardinality(x .. n) = IF x > n THEN 0 ELSE n - x + 1
      BY <2>1, <3>1, FS_Interval
    <3>3. (IF x > n THEN 0 ELSE n - x + 1) = m - x
      BY <2>1, <3>1
    <3> QED
      BY <3>2, <3>3 DEF n
  <2> QED
    BY <1>4, <1>5, <2>1, <2>2, <2>3
<1>6. CASE ~ (f > 0 /\ r < L)
  <2>1. Inside(id) = {}
    BY <1>1, <1>3, <1>6
  <2> QED
    BY <1>4, <1>6, <2>1, FS_EmptySet
<1> QED
  BY <1>5, <1>6

\* get_track_occupancy is the share of the block covered by trains, no less
\* than that where trains overlap, and no more than the block.
THEOREM OccupancyIsExact == Spec => []OccupancyIsCover
<1>1. PhysInv => OccupancyIsCover
  <2> SUFFICES ASSUME PhysInv PROVE OccupancyIsCover
    OBVIOUS
  <2> DEFINE K == Len(track)
             part == [ id \in ToSet(track) |-> Part(id) ]
             total == Total(track, part)
             covered == UNION { Cells(id) : id \in ToSet(track) } \cap 0 .. TrackLength - 1
             overlap == \E a, b \in ToSet(track) : a # b /\ Cells(a) \cap Cells(b) # {}
             Upto(k) == UNION { Inside(track[i]) : i \in 1 .. k }
  <2>1. /\ track \in Seq(Slots) /\ IsInjective(track) /\ K \in Nat
        /\ \A k \in 1 .. K : track[k] \in ToSet(track) /\ track[k] \in Slots
        /\ \A id \in ToSet(track) : id \in Slots
    BY DEF PhysInv, TypeInv, ToSet
  <2>2. \A id \in ToSet(track) : part[id] = Part(id) /\ part[id] \in Int
    BY <2>1, PartIsInside
  <2>3. PICK sum \in [0 .. K -> Int] :
            /\ total = sum[K] /\ sum[0] = 0
            /\ \A k \in 1 .. K : sum[k] = sum[k - 1] + part[track[k]]
    <3> HIDE DEF part
    <3> QED
      BY <2>1, <2>2, TotalFacts
  <2> DEFINE P == { k \in 0 .. K : /\ IsFiniteSet(Upto(k)) /\ Cardinality(Upto(k)) <= sum[k]
                                   /\ ~ overlap => sum[k] = Cardinality(Upto(k)) }
  <2>4. 0 \in P
    <3>1. Upto(0) = {}
      OBVIOUS
    <3>2. IsFiniteSet(Upto(0)) /\ Cardinality(Upto(0)) = 0
      BY <3>1, FS_EmptySet
    <3>3. 0 \in 0 .. K /\ sum[0] = 0
      BY <2>1, <2>3
    <3> HIDE DEF Upto
    <3> QED
      BY <3>2, <3>3
  <2>5. ASSUME NEW k \in 1 .. K, k - 1 \in P PROVE k \in P
    <3> DEFINE A == Upto(k - 1)
               B == Inside(track[k])
    <3>1. Upto(k) = A \union B
      <4>1. 1 .. k = 1 .. k - 1 \union {k}
        BY <2>1
      <4> QED
        BY <4>1
    <3>2. IsFiniteSet(A) /\ Cardinality(A) <= sum[k - 1] /\ (~ overlap => sum[k - 1] = Cardinality(A))
      BY <2>5
    <3>3. IsFiniteSet(B) /\ sum[k] = sum[k - 1] + Cardinality(B)
      BY <2>1, <2>2, <2>3, PartIsInside
    <3>4. ~ overlap => A \cap B = {}
      <4> SUFFICES ASSUME NEW e \in A, e \in B PROVE overlap
        OBVIOUS
      <4>1. PICK i \in 1 .. k - 1 : e \in Inside(track[i])
        OBVIOUS
      <4>2. i \in 1 .. K /\ i # k /\ track[i] # track[k]
        BY <2>1 DEF IsInjective
      <4> QED
        BY <2>1, <4>1, <4>2 DEF Inside
    <3>5. sum[k - 1] \in Int /\ sum[k] \in Int /\ k \in 0 .. K
      <4>1. k \in 0 .. K /\ k - 1 \in 0 .. K
        BY <2>1
      <4> QED
        BY <4>1
    <3> HIDE DEF A, B, Upto, overlap
    <3>6. /\ IsFiniteSet(A \union B)
          /\ Cardinality(A \union B) = Cardinality(A) + Cardinality(B) - Cardinality(A \cap B)
      BY <3>2, <3>3, FS_Union
    <3>7. IsFiniteSet(A \cap B)
      BY <3>2, FS_Subset
    <3>8. Cardinality(A) \in Nat /\ Cardinality(B) \in Nat /\ Cardinality(A \cap B) \in Nat
      BY <3>2, <3>3, <3>7, FS_CardinalityType
    <3>9. ~ overlap => Cardinality(A \cap B) = 0
      BY <3>4, FS_EmptySet
    <3> DEFINE a == Cardinality(A)   b == Cardinality(B)   c == Cardinality(A \cap B)
               x == sum[k - 1]   y == sum[k]   n == Cardinality(Upto(k))
    <3>10. /\ a \in Nat /\ b \in Nat /\ c \in Nat /\ x \in Int /\ y \in Int
           /\ n = a + b - c /\ y = x + b /\ a <= x
           /\ ~ overlap => x = a /\ c = 0
      BY <3>1, <3>2, <3>3, <3>5, <3>6, <3>8, <3>9
    <3> HIDE DEF a, b, c, x, y, n
    <3>11. n <= y /\ (~ overlap => y = n)
      BY <3>10
    <3> QED
      BY <3>1, <3>5, <3>6, <3>11 DEF y, n
  <2>6. K \in P
    <3> HIDE DEF P
    <3>1. \A k \in 0 .. K : k \in P
      BY <2>1, <2>4, <2>5, InductUpTo
    <3> QED
      BY <2>1, <3>1
  <2>7. covered = Upto(K)
    <3>1. ASSUME NEW e \in covered PROVE e \in Upto(K)
      <4>1. PICK id \in ToSet(track) : e \in Inside(id)
        BY DEF Inside
      <4>2. PICK i \in 1 .. K : track[i] = id
        BY <2>1 DEF ToSet
      <4> QED
        BY <4>1, <4>2
    <3>2. ASSUME NEW e \in Upto(K) PROVE e \in covered
      <4>1. PICK i \in 1 .. K : e \in Inside(track[i])
        OBVIOUS
      <4> DEFINE id == track[i]
      <4>2. id \in ToSet(track) /\ e \in Inside(id)
        BY <2>1, <4>1
      <4> HIDE DEF id
      <4> QED
        BY <4>2 DEF Inside
    <3> QED
      BY <3>1, <3>2
  <2>8. Cardinality(covered) \in Nat /\ Cardinality(covered) <= TrackLength
    <3>1. IsFiniteSet(0 .. TrackLength - 1) /\ Cardinality(0 .. TrackLength - 1) = TrackLength
      BY PhysicsAssumption, FS_Interval
    <3>2. covered \in SUBSET (0 .. TrackLength - 1)
      OBVIOUS
    <3> HIDE DEF covered
    <3> QED
      BY <3>1, <3>2, FS_Subset, FS_CardinalityType
  <2>9. get_track_occupancy(track, trains, TrackLength)
            = IF total <= TrackLength THEN total ELSE TrackLength
    <3>1. get_track_occupancy(track, trains, TrackLength) = Min({total, TrackLength})
      BY PhysicsAssumption DEF get_track_occupancy, Part
    <3>2. total \in Int /\ TrackLength \in Int
      BY <2>1, <2>3, PhysicsAssumption
    <3> HIDE DEF total
    <3>3. Min({total, TrackLength}) = IF total <= TrackLength THEN total ELSE TrackLength
      BY <3>2, MinOfTwo
    <3> QED
      BY <3>1, <3>3
  <2>10. Cardinality(covered) <= total /\ total \in Int /\ (~ overlap => total = Cardinality(covered))
    <3> HIDE DEF covered, overlap, Upto, total
    <3> QED
      BY <2>1, <2>3, <2>6, <2>7
  <2> HIDE DEF covered, overlap, total
  <2>11. LET occupied == get_track_occupancy(track, trains, TrackLength)
         IN  /\ Cardinality(covered) <= occupied /\ occupied <= TrackLength
             /\ ~ overlap => occupied = Cardinality(covered)
    BY <2>8, <2>9, <2>10, PhysicsAssumption
  <2> QED
    BY <2>11 DEF OccupancyIsCover, covered, overlap
<1> QED
  BY <1>1, PhysicsInvariant, PTL

=============================================================================
