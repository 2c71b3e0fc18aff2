--------------------------- MODULE DetectorProofs ---------------------------
(***************************************************************************)
(* The depth-first search of deadlock_detector.c is exact, for every book  *)
(* of request records, every number of trains and every list of tracks: a  *)
(* train it reports is on a cycle of waits, and, where no track is held by *)
(* two trains, it reports one whenever there is such a cycle.              *)
(*                                                                         *)
(* The search is a recursion over colourings, so its definition is first   *)
(* shown to have a solution (a call on a WHITE node only ever looks at     *)
(* calls with fewer WHITE nodes), and what a call does is then shown by    *)
(* induction on the number of WHITE nodes.                                 *)
(***************************************************************************)
EXTENDS DeadlockDetector, TrackConfiguration, IterationFacts, FiniteSetTheorems, TLAPS

-----------------------------------------------------------------------------
(* The loop over the nodes that a node points to. *)

Readable(reqs, n, ids) ==
    n \in Nat /\ ids \in Seq(Int) /\ \A i \in 0 .. n - 1 : reqs[i].train_id \in Int

LEMMA CountFacts == \A reqs, n, ids : Readable(reqs, n, ids) => NodeCount(n, ids) \in Nat
  BY DEF Readable, NodeCount

Colourings(n, ids) == [Nodes(n, ids) -> Colours]

Results(n, ids) == [ cycle : BOOLEAN, train : Int, colour : Colourings(n, ids) ]

Whites(n, ids, colour) == { u \in Nodes(n, ids) : colour[u] = "WHITE" }

\* Calls with no WHITE node outside W return, and turn no node WHITE.
Sane(n, ids, visit, W) ==
    \A c \in Colourings(n, ids) : Whites(n, ids, c) \subseteq W =>
        \A w \in Nodes(n, ids) :
            /\ visit[c][w] \in Results(n, ids)
            /\ Whites(n, ids, visit[c][w].colour) \subseteq Whites(n, ids, c)

\* The calls with no WHITE node outside W are answered alike.
Agree(n, ids, visit, other, W) ==
    \A c \in Colourings(n, ids) : Whites(n, ids, c) \subseteq W =>
        \A w \in Nodes(n, ids) : visit[c][w] = other[c][w]

\* a[k] is what dfs_detect_cycle has found on node v, WHITE in `colour', when it
\* has dealt with the nodes below k.
Loop(reqs, n, ids, visit, v, colour, a) ==
    /\ a \in [0 .. NodeCount(n, ids) -> Results(n, ids)]
    /\ \A k \in 0 .. NodeCount(n, ids) :
          Whites(n, ids, a[k].colour) \subseteq Whites(n, ids, colour) \ {v}
    /\ a[0] = [ cycle |-> FALSE, train |-> NoTrain, colour |-> [ colour EXCEPT ![v] = "GRAY" ] ]
    /\ \A k \in 1 .. NodeCount(n, ids) :
          a[k] = IF a[k - 1].cycle \/ ~ Points(reqs, n, ids, v, k - 1)
                 THEN a[k - 1]
                 ELSE visit[a[k - 1].colour][k - 1]

\* The value of a call on a WHITE node when its loop is over.
Closing(v, r) ==
    IF r.cycle THEN r ELSE [ r EXCEPT !.colour = [ @ EXCEPT ![v] = "BLACK" ] ]

LEMMA ClosingFacts ==
    ASSUME NEW n, NEW ids, NEW v \in Nodes(n, ids), NEW r \in Results(n, ids)
    PROVE  /\ Closing(v, r) \in Results(n, ids)
           /\ Whites(n, ids, Closing(v, r).colour) \subseteq Whites(n, ids, r.colour)
           /\ r.cycle => Closing(v, r) = r
           /\ ~ r.cycle => /\ ~ Closing(v, r).cycle
                           /\ Closing(v, r).train = r.train
                           /\ Closing(v, r).colour = [ r.colour EXCEPT ![v] = "BLACK" ]
<1>1. CASE r.cycle
  BY <1>1 DEF Closing
<1>2. CASE ~ r.cycle
  <2> DEFINE c == [ r.colour EXCEPT ![v] = "BLACK" ]
  <2>1. r.colour \in Colourings(n, ids)
    BY DEF Results
  <2>2. c \in Colourings(n, ids) /\ Whites(n, ids, c) \subseteq Whites(n, ids, r.colour)
    BY <2>1 DEF Colourings, Colours, Whites
  <2>3. Closing(v, r) = [ r EXCEPT !.colour = c ]
    BY <1>2 DEF Closing
  <2> HIDE DEF c
  <2>4. Closing(v, r) \in Results(n, ids)
    BY <2>2, <2>3 DEF Results
  <2>5. Closing(v, r).colour = c /\ Closing(v, r).cycle = r.cycle /\ Closing(v, r).train = r.train
    BY <2>3 DEF Results
  <2> QED
    BY <1>2, <2>2, <2>4, <2>5 DEF c
<1> QED
  BY <1>1, <1>2

LEMMA LoopExists ==
    ASSUME NEW reqs, NEW n, NEW ids, Readable(reqs, n, ids),
           NEW visit, NEW v \in Nodes(n, ids), NEW colour \in Colourings(n, ids),
           Sane(n, ids, visit, Whites(n, ids, colour) \ {v})
    PROVE  \E a : Loop(reqs, n, ids, visit, v, colour, a)
<1> DEFINE K == NodeCount(n, ids)
           W == Whites(n, ids, colour) \ {v}
           R == { r \in Results(n, ids) : Whites(n, ids, r.colour) \subseteq W }
           b == [ cycle |-> FALSE, train |-> NoTrain, colour |-> [ colour EXCEPT ![v] = "GRAY" ] ]
           Step(k, r) == IF r.cycle \/ ~ Points(reqs, n, ids, v, k - 1) THEN r ELSE visit[r.colour][k - 1]
           G == [ k \in 1 .. K |-> [ r \in R |-> Step(k, r) ] ]
<1>1. K \in Nat
  BY CountFacts
<1> HIDE DEF K
<1>2. b \in R
  <2>1. [ colour EXCEPT ![v] = "GRAY" ] \in Colourings(n, ids)
    BY DEF Colourings, Colours
  <2>2. Whites(n, ids, [ colour EXCEPT ![v] = "GRAY" ]) \subseteq W
    BY DEF Whites, Colourings
  <2>3. b \in Results(n, ids)
    BY <2>1 DEF Results, NoTrain
  <2>4. b.colour = [ colour EXCEPT ![v] = "GRAY" ]
    OBVIOUS
  <2> QED
    BY <2>2, <2>3, <2>4
<1>3. ASSUME NEW k \in 1 .. K, NEW r \in R PROVE Step(k, r) \in R
  <2>1. k - 1 \in Nodes(n, ids)
    BY <1>1 DEF Nodes, K
  <2>2. r.colour \in Colourings(n, ids)
    BY DEF Results
  <2>3. visit[r.colour][k - 1] \in R
    BY <2>1, <2>2 DEF Sane
  <2> QED
    BY <2>3
<1>4. G \in [1 .. K -> [R -> R]]
  BY <1>3
<1> HIDE DEF b, R, G
<1>5. PICK a \in [0 .. K -> R] : Iterates(K, b, G, a)
  BY <1>1, <1>2, <1>4, IterationExists
<1>6. ASSUME NEW k \in 1 .. K PROVE a[k] = Step(k, a[k - 1])
  <2>1. a[k - 1] \in R
    BY <1>1
  <2> QED
    BY <1>5, <2>1 DEF G, Iterates
<1>7. /\ a \in [0 .. K -> Results(n, ids)]
      /\ \A k \in 0 .. K : Whites(n, ids, a[k].colour) \subseteq W
  BY DEF R
<1> QED
  BY <1>5, <1>6, <1>7 DEF Loop, b, K, Iterates

\* The loop depends on the answers of its own calls only.
LEMMA LoopUnique ==
    ASSUME NEW reqs, NEW n, NEW ids, Readable(reqs, n, ids),
           NEW visit, NEW other, NEW v \in Nodes(n, ids), NEW colour \in Colourings(n, ids),
           Agree(n, ids, visit, other, Whites(n, ids, colour) \ {v}),
           NEW a, Loop(reqs, n, ids, visit, v, colour, a),
           NEW b, Loop(reqs, n, ids, other, v, colour, b)
    PROVE  a = b
<1> DEFINE K == NodeCount(n, ids)
           P == { k \in 0 .. K : a[k] = b[k] }
<1>1. K \in Nat
  BY CountFacts
<1> HIDE DEF K
<1>2. /\ a \in [0 .. K -> Results(n, ids)] /\ b \in [0 .. K -> Results(n, ids)]
      /\ a[0] = b[0]
      /\ \A k \in 0 .. K : Whites(n, ids, a[k].colour) \subseteq Whites(n, ids, colour) \ {v}
      /\ \A k \in 1 .. K :
            /\ a[k] = IF a[k - 1].cycle \/ ~ Points(reqs, n, ids, v, k - 1)
                      THEN a[k - 1]
                      ELSE visit[a[k - 1].colour][k - 1]
            /\ b[k] = IF b[k - 1].cycle \/ ~ Points(reqs, n, ids, v, k - 1)
                      THEN b[k - 1]
                      ELSE other[b[k - 1].colour][k - 1]
  BY Zenon DEF Loop, K
<1>3. 0 \in P
  BY <1>1, <1>2
<1>4. ASSUME NEW k \in 1 .. K, k - 1 \in P PROVE k \in P
  <2>1. k - 1 \in Nodes(n, ids) /\ k - 1 \in 0 .. K
    BY <1>1 DEF Nodes, K
  <2>2. a[k - 1].colour \in Colourings(n, ids)
    BY <1>2, <2>1 DEF Results
  <2>3. visit[a[k - 1].colour][k - 1] = other[a[k - 1].colour][k - 1]
    BY <1>2, <2>1, <2>2 DEF Agree
  <2> QED
    BY <1>2, <1>4, <2>3
<1> HIDE DEF P
<1>5. \A k \in 0 .. K : k \in P
  BY <1>1, <1>3, <1>4, InductUpTo
<1>6. \A k \in 0 .. K : a[k] = b[k]
  BY <1>5 DEF P
<1>7. a \in [0 .. K -> Results(n, ids)] /\ b \in [0 .. K -> Results(n, ids)]
  BY <1>2
<1> QED
  BY <1>1, <1>6, <1>7

-----------------------------------------------------------------------------
(* One call, given the answers of the calls it makes. *)

LEMMA ExploreOther ==
    ASSUME NEW reqs, NEW n, NEW ids, NEW visit, NEW v, NEW colour
    PROVE  /\ colour[v] = "GRAY" =>
                 Explore(reqs, n, ids, visit, v, colour) =
                     [ cycle  |-> TRUE,
                       train  |-> IF v < n THEN reqs[v].train_id ELSE NoTrain,
                       colour |-> colour ]
           /\ colour[v] = "BLACK" =>
                 Explore(reqs, n, ids, visit, v, colour) =
                     [ cycle |-> FALSE, train |-> NoTrain, colour |-> colour ]
<1>1. "GRAY" # "BLACK" /\ "GRAY" # "WHITE" /\ "BLACK" # "WHITE"
  OBVIOUS
<1> QED
  BY <1>1, Zenon DEF Explore

LEMMA ExploreWhite ==
    ASSUME NEW reqs, NEW n, NEW ids, Readable(reqs, n, ids),
           NEW visit, NEW v \in Nodes(n, ids), NEW colour \in Colourings(n, ids),
           colour[v] = "WHITE", NEW a, Loop(reqs, n, ids, visit, v, colour, a)
    PROVE  Explore(reqs, n, ids, visit, v, colour) = Closing(v, a[NodeCount(n, ids)])
<1> DEFINE K == NodeCount(n, ids)
           b == [ cycle |-> FALSE, train |-> NoTrain, colour |-> [ colour EXCEPT ![v] = "GRAY" ] ]
           Step(k, r) == IF r.cycle \/ ~ Points(reqs, n, ids, v, k - 1) THEN r ELSE visit[r.colour][k - 1]
           IsAfter(f) == f = [ k \in 0 .. K |-> IF k = 0 THEN b ELSE Step(k, f[k - 1]) ]
           after == CHOOSE f : IsAfter(f)
<1>1. K \in Nat
  BY CountFacts
<1>2. Explore(reqs, n, ids, visit, v, colour) = Closing(v, after[K])
  <2>1. "WHITE" # "BLACK" /\ "WHITE" # "GRAY"
    OBVIOUS
  <2> QED
    BY <2>1, Zenon DEF Explore, Closing
<1>3. /\ a[0] = b
      /\ \A k \in 1 .. K : a[k] = Step(k, a[k - 1])
      /\ a \in [0 .. K -> Results(n, ids)]
  BY Zenon DEF Loop
<1> HIDE DEF K, b, Step
<1>4. IsAfter(a)
  <2> DEFINE h == [ k \in 0 .. K |-> IF k = 0 THEN b ELSE Step(k, a[k - 1]) ]
  <2>1. \A k \in 0 .. K : a[k] = h[k]
    BY <1>1, <1>3
  <2>2. h \in [0 .. K -> Results(n, ids)]
    BY <1>1, <1>3
  <2> HIDE DEF h
  <2>3. a = h
    BY <1>1, <1>3, <2>1, <2>2
  <2> QED
    BY <2>3 DEF h
<1>5. IsAfter(after)
  <2> HIDE DEF IsAfter
  <2> QED
    BY <1>4, Zenon
<1> HIDE DEF after
<1> DEFINE P == { k \in 0 .. K : after[k] = a[k] }
<1>6. 0 \in P
  BY <1>1, <1>3, <1>5
<1>7. ASSUME NEW k \in 1 .. K, k - 1 \in P PROVE k \in P
  <2>1. after[k] = Step(k, after[k - 1])
    BY <1>1, <1>5
  <2> QED
    BY <1>1, <1>3, <1>7, <2>1
<1> HIDE DEF P
<1>8. \A k \in 0 .. K : k \in P
  BY <1>1, <1>6, <1>7, InductUpTo
<1>9. K \in P
  BY <1>1, <1>8
<1> QED
  BY <1>2, <1>9 DEF P, K

\* A call on a node that is not WHITE returns at once.
LEMMA ExploreNotWhite ==
    ASSUME NEW reqs, NEW n, NEW ids, Readable(reqs, n, ids),
           NEW visit, NEW v \in Nodes(n, ids), NEW colour \in Colourings(n, ids),
           colour[v] # "WHITE"
    PROVE  LET r == Explore(reqs, n, ids, visit, v, colour)
           IN  r \in Results(n, ids) /\ r.colour = colour
<1> DEFINE r == Explore(reqs, n, ids, visit, v, colour)
<1>1. colour[v] \in Colours
  BY DEF Colourings
<1>2. CASE colour[v] = "GRAY"
  <2> DEFINE t == IF v < n THEN reqs[v].train_id ELSE NoTrain
  <2>1. t \in Int
    BY DEF Readable, NoTrain, Nodes
  <2>2. r = [ cycle |-> TRUE, train |-> t, colour |-> colour ]
    BY <1>2, ExploreOther
  <2> HIDE DEF t, r
  <2>3. r \in Results(n, ids) /\ r.colour = colour
    BY <2>1, <2>2 DEF Results
  <2> QED
    BY <2>3 DEF r
<1>3. CASE colour[v] = "BLACK"
  <2>1. r = [ cycle |-> FALSE, train |-> NoTrain, colour |-> colour ]
    BY <1>3, ExploreOther
  <2> HIDE DEF r
  <2>2. r \in Results(n, ids) /\ r.colour = colour
    BY <2>1 DEF Results, NoTrain
  <2> QED
    BY <2>2 DEF r
<1> QED
  BY <1>1, <1>2, <1>3 DEF Colours

\* A call returns and turns no node WHITE, if the calls it makes do.
LEMMA ExploreSane ==
    ASSUME NEW reqs, NEW n, NEW ids, Readable(reqs, n, ids),
           NEW visit, NEW v \in Nodes(n, ids), NEW colour \in Colourings(n, ids),
           Sane(n, ids, visit, Whites(n, ids, colour) \ {v})
    PROVE  LET r == Explore(reqs, n, ids, visit, v, colour)
           IN  /\ r \in Results(n, ids)
               /\ Whites(n, ids, r.colour) \subseteq Whites(n, ids, colour)
<1> DEFINE r == Explore(reqs, n, ids, visit, v, colour)
<1>1. CASE colour[v] # "WHITE"
  BY <1>1, ExploreNotWhite
<1>2. CASE colour[v] = "WHITE"
  <2>1. PICK a : Loop(reqs, n, ids, visit, v, colour, a)
    BY LoopExists
  <2> DEFINE e == a[NodeCount(n, ids)]
  <2>2. r = Closing(v, e)
    BY <1>2, <2>1, ExploreWhite
  <2>3. NodeCount(n, ids) \in 0 .. NodeCount(n, ids)
    BY CountFacts
  <2>4. e \in Results(n, ids) /\ Whites(n, ids, e.colour) \subseteq Whites(n, ids, colour) \ {v}
    BY <2>1, <2>3 DEF Loop
  <2> HIDE DEF e, r
  <2>5. r \in Results(n, ids) /\ Whites(n, ids, r.colour) \subseteq Whites(n, ids, colour)
    BY <2>2, <2>4, ClosingFacts
  <2> QED
    BY <2>5 DEF r
<1> QED
  BY <1>1, <1>2

\* A call depends only on the calls it makes, on colours with fewer WHITE nodes.
LEMMA ExploreLocal ==
    ASSUME NEW reqs, NEW n, NEW ids, Readable(reqs, n, ids),
           NEW visit, NEW other, NEW v \in Nodes(n, ids), NEW colour \in Colourings(n, ids),
           Sane(n, ids, visit, Whites(n, ids, colour) \ {v}),
           Sane(n, ids, other, Whites(n, ids, colour) \ {v}),
           colour[v] = "WHITE" => Agree(n, ids, visit, other, Whites(n, ids, colour) \ {v})
    PROVE  Explore(reqs, n, ids, visit, v, colour) = Explore(reqs, n, ids, other, v, colour)
<1>1. colour[v] \in Colours
  BY DEF Colourings
<1>2. CASE colour[v] = "WHITE"
  <2>1. PICK a : Loop(reqs, n, ids, visit, v, colour, a)
    BY LoopExists
  <2>2. PICK b : Loop(reqs, n, ids, other, v, colour, b)
    BY LoopExists
  <2>3. a = b
    BY <1>2, <2>1, <2>2, LoopUnique
  <2> QED
    BY <1>2, <2>1, <2>2, <2>3, ExploreWhite
<1>3. CASE colour[v] = "GRAY"
  <2> DEFINE r == [ cycle  |-> TRUE,
                    train  |-> IF v < n THEN reqs[v].train_id ELSE NoTrain,
                    colour |-> colour ]
  <2>1. Explore(reqs, n, ids, visit, v, colour) = r
    BY <1>3, ExploreOther
  <2>2. Explore(reqs, n, ids, other, v, colour) = r
    BY <1>3, ExploreOther
  <2> HIDE DEF r
  <2> QED
    BY <2>1, <2>2
<1>4. CASE colour[v] = "BLACK"
  <2> DEFINE r == [ cycle |-> FALSE, train |-> NoTrain, colour |-> colour ]
  <2>1. Explore(reqs, n, ids, visit, v, colour) = r
    BY <1>4, ExploreOther
  <2>2. Explore(reqs, n, ids, other, v, colour) = r
    BY <1>4, ExploreOther
  <2> QED
    BY <2>1, <2>2, Zenon
<1> QED
  BY <1>1, <1>2, <1>3, <1>4 DEF Colours

-----------------------------------------------------------------------------
(* The calls of the search exist. *)

Rank(n, ids, colour) == Cardinality(Whites(n, ids, colour))

LEMMA RankFacts ==
    ASSUME NEW reqs, NEW n, NEW ids, Readable(reqs, n, ids), NEW c \in Colourings(n, ids)
    PROVE  /\ Rank(n, ids, c) \in 0 .. NodeCount(n, ids)
           /\ \A d \in Colourings(n, ids), v \in Nodes(n, ids) :
                 c[v] = "WHITE" /\ Whites(n, ids, d) \subseteq Whites(n, ids, c) \ {v} =>
                     Rank(n, ids, d) < Rank(n, ids, c)
<1>1. NodeCount(n, ids) \in Nat
  BY CountFacts
<1>2. IsFiniteSet(Nodes(n, ids)) /\ Cardinality(Nodes(n, ids)) = NodeCount(n, ids)
  BY <1>1, FS_Interval DEF Nodes
<1>3. \A d : IsFiniteSet(Whites(n, ids, d)) /\ Cardinality(Whites(n, ids, d)) \in Nat
  BY <1>2, FS_Subset, FS_CardinalityType DEF Whites
<1>4. Rank(n, ids, c) \in 0 .. NodeCount(n, ids)
  <2>1. Whites(n, ids, c) \subseteq Nodes(n, ids)
    BY DEF Whites
  <2>2. Cardinality(Whites(n, ids, c)) <= Cardinality(Nodes(n, ids))
    BY <1>2, <2>1, FS_Subset
  <2> QED
    BY <1>1, <1>2, <1>3, <2>2 DEF Rank
<1>5. ASSUME NEW d \in Colourings(n, ids), NEW v \in Nodes(n, ids),
             c[v] = "WHITE", Whites(n, ids, d) \subseteq Whites(n, ids, c) \ {v}
      PROVE  Rank(n, ids, d) < Rank(n, ids, c)
  <2>1. v \in Whites(n, ids, c)
    BY <1>5 DEF Whites
  <2>2. Cardinality(Whites(n, ids, c) \ {v}) = Cardinality(Whites(n, ids, c)) - 1
    BY <1>3, <2>1, FS_RemoveElement
  <2>3. /\ IsFiniteSet(Whites(n, ids, c) \ {v})
        /\ Cardinality(Whites(n, ids, d)) <= Cardinality(Whites(n, ids, c) \ {v})
    BY <1>3, <1>5, FS_Subset
  <2> QED
    BY <1>3, <2>2, <2>3 DEF Rank
<1> QED
  BY <1>4, <1>5

\* The calls that Explore makes from `visit', for every node and colouring.
Calls(reqs, n, ids, visit) ==
    [ c \in Colourings(n, ids) |-> [ v \in Nodes(n, ids) |-> Explore(reqs, n, ids, visit, v, c) ] ]

AllSane(n, ids, visit) == Sane(n, ids, visit, Nodes(n, ids))

LEMMA SaneFacts ==
    ASSUME NEW reqs, NEW n, NEW ids, Readable(reqs, n, ids), NEW visit, AllSane(n, ids, visit)
    PROVE  /\ \A W : Sane(n, ids, visit, W)
           /\ AllSane(n, ids, Calls(reqs, n, ids, visit))
<1>1. \A c : Whites(n, ids, c) \subseteq Nodes(n, ids)
  BY DEF Whites
<1>2. \A W : Sane(n, ids, visit, W)
  BY <1>1 DEF AllSane, Sane
<1>3. ASSUME NEW c \in Colourings(n, ids), NEW w \in Nodes(n, ids)
      PROVE  LET r == Calls(reqs, n, ids, visit)[c][w]
             IN  r \in Results(n, ids) /\ Whites(n, ids, r.colour) \subseteq Whites(n, ids, c)
  <2>1. Calls(reqs, n, ids, visit)[c][w] = Explore(reqs, n, ids, visit, w, c)
    BY DEF Calls
  <2> QED
    BY <1>2, <2>1, ExploreSane
<1> QED
  BY <1>2, <1>3 DEF AllSane, Sane

LEMMA VisitExists ==
    ASSUME NEW reqs, NEW n, NEW ids, Readable(reqs, n, ids)
    PROVE  \E g : g = Calls(reqs, n, ids, g)
<1> DEFINE K == NodeCount(n, ids)
           Upto(k, g) ==
               /\ AllSane(n, ids, g)
               /\ \A c \in Colourings(n, ids), v \in Nodes(n, ids) :
                     Rank(n, ids, c) < k => g[c][v] = Explore(reqs, n, ids, g, v, c)
           P == { k \in 0 .. K + 1 : \E g : Upto(k, g) }
<1>1. K \in Nat /\ \A c \in Colourings(n, ids) : Rank(n, ids, c) \in 0 .. K
  BY CountFacts, RankFacts
<1> HIDE DEF K
<1>2. 0 \in P
  <2> DEFINE g == [ c \in Colourings(n, ids) |-> [ v \in Nodes(n, ids) |->
                      [ cycle |-> FALSE, train |-> NoTrain, colour |-> c ] ] ]
  <2>1. AllSane(n, ids, g)
    BY DEF AllSane, Sane, Results, NoTrain
  <2> HIDE DEF g
  <2>2. Upto(0, g)
    BY <1>1, <2>1
  <2> HIDE DEF Upto
  <2> QED
    BY <1>1, <2>2
<1>3. ASSUME NEW k \in 1 .. K + 1, k - 1 \in P PROVE k \in P
  <2>1. PICK g : Upto(k - 1, g)
    BY <1>3
  <2> DEFINE h == Calls(reqs, n, ids, g)
  <2>2. AllSane(n, ids, h) /\ AllSane(n, ids, g)
    BY <2>1, SaneFacts
  <2>3. \A c \in Colourings(n, ids), v \in Nodes(n, ids) : h[c][v] = Explore(reqs, n, ids, g, v, c)
    BY DEF Calls
  <2> HIDE DEF h
  <2>4. ASSUME NEW c \in Colourings(n, ids), NEW v \in Nodes(n, ids), Rank(n, ids, c) < k
        PROVE  h[c][v] = Explore(reqs, n, ids, h, v, c)
    <3>1. ASSUME c[v] = "WHITE", NEW d \in Colourings(n, ids), NEW w \in Nodes(n, ids),
                 Whites(n, ids, d) \subseteq Whites(n, ids, c) \ {v}
          PROVE  g[d][w] = h[d][w]
      <4>1. Rank(n, ids, d) < Rank(n, ids, c)
        BY <3>1, RankFacts
      <4>2. Rank(n, ids, d) < k - 1
        BY <1>1, <2>4, <4>1
      <4> QED
        BY <2>1, <2>3, <4>2
    <3>2. c[v] = "WHITE" => Agree(n, ids, g, h, Whites(n, ids, c) \ {v})
      BY <3>1 DEF Agree
    <3>3. /\ Sane(n, ids, g, Whites(n, ids, c) \ {v})
          /\ Sane(n, ids, h, Whites(n, ids, c) \ {v})
      BY <2>2, SaneFacts
    <3>4. Explore(reqs, n, ids, g, v, c) = Explore(reqs, n, ids, h, v, c)
      BY <3>2, <3>3, ExploreLocal
    <3> QED
      BY <2>3, <3>4
  <2>5. Upto(k, h)
    BY <2>2, <2>4
  <2> HIDE DEF Upto
  <2> QED
    BY <2>5
<1> HIDE DEF P, Upto
<1>4. \A k \in 0 .. K + 1 : k \in P
  BY <1>1, <1>2, <1>3, InductUpTo
<1>5. PICK g : Upto(K + 1, g)
  <2>1. K + 1 \in P
    BY <1>1, <1>4
  <2> QED
    BY <2>1 DEF P
<1> DEFINE f == Calls(reqs, n, ids, g)
<1>6. \A c \in Colourings(n, ids), v \in Nodes(n, ids) :
          f[c][v] = Explore(reqs, n, ids, g, v, c) /\ g[c][v] = f[c][v]
  BY <1>1, <1>5 DEF Upto, Calls
<1>7. AllSane(n, ids, g) /\ AllSane(n, ids, f)
  BY <1>5, SaneFacts DEF Upto
<1>8. ASSUME NEW c \in Colourings(n, ids), NEW v \in Nodes(n, ids)
      PROVE  Explore(reqs, n, ids, g, v, c) = Explore(reqs, n, ids, f, v, c)
  <2>1. Agree(n, ids, g, f, Whites(n, ids, c) \ {v})
    BY <1>6 DEF Agree
  <2>2. /\ Sane(n, ids, g, Whites(n, ids, c) \ {v})
        /\ Sane(n, ids, f, Whites(n, ids, c) \ {v})
    BY <1>7, SaneFacts
  <2> HIDE DEF f
  <2> QED
    BY <2>1, <2>2, ExploreLocal
<1>9. f = Calls(reqs, n, ids, f)
  BY <1>8, Zenon DEF Calls
<1> QED
  BY <1>9

\* The search is the function that dfs_detect_cycle's calls define.
LEMMA VisitIsCalls ==
    ASSUME NEW reqs, NEW n, NEW ids, Readable(reqs, n, ids)
    PROVE  Visit(reqs, n, ids) = Calls(reqs, n, ids, Visit(reqs, n, ids))
<1> DEFINE Is(g) == g = Calls(reqs, n, ids, g)
<1>1. Visit(reqs, n, ids) = CHOOSE g : Is(g)
  BY Zenon DEF Visit, Calls, Colourings
<1>2. \E g : Is(g)
  BY VisitExists
<1> HIDE DEF Is
<1>3. Is(Visit(reqs, n, ids))
  BY <1>1, <1>2, Zenon
<1> QED
  BY <1>3 DEF Is

LEMMA VisitSane ==
    ASSUME NEW reqs, NEW n, NEW ids, Readable(reqs, n, ids)
    PROVE  AllSane(n, ids, Visit(reqs, n, ids))
<1> DEFINE g == Visit(reqs, n, ids)
           Fine(c) == \A v \in Nodes(n, ids) :
                          /\ g[c][v] \in Results(n, ids)
                          /\ Whites(n, ids, g[c][v].colour) \subseteq Whites(n, ids, c)
           P == { k \in Nat : \A c \in Colourings(n, ids) : Rank(n, ids, c) = k => Fine(c) }
<1>1. \A c \in Colourings(n, ids), v \in Nodes(n, ids) : g[c][v] = Explore(reqs, n, ids, g, v, c)
  BY VisitIsCalls DEF Calls
<1> HIDE DEF g
<1>2. ASSUME NEW k \in Nat, \A j \in Nat : j < k => j \in P PROVE k \in P
  <2>1. ASSUME NEW c \in Colourings(n, ids), Rank(n, ids, c) = k PROVE Fine(c)
    <3>1. ASSUME NEW v \in Nodes(n, ids)
          PROVE  /\ g[c][v] \in Results(n, ids)
                 /\ Whites(n, ids, g[c][v].colour) \subseteq Whites(n, ids, c)
      <4>1. CASE c[v] = "WHITE"
        <5>1. ASSUME NEW d \in Colourings(n, ids), Whites(n, ids, d) \subseteq Whites(n, ids, c) \ {v}
              PROVE  Fine(d)
          <6>1. Rank(n, ids, d) < k /\ Rank(n, ids, d) \in Nat
            BY <2>1, <4>1, <5>1, RankFacts
          <6> QED
            BY <1>2, <6>1
        <5>2. Sane(n, ids, g, Whites(n, ids, c) \ {v})
          BY <5>1 DEF Sane
        <5> QED
          BY <1>1, <5>2, ExploreSane
      <4>2. CASE c[v] # "WHITE"
        BY <1>1, <4>2, ExploreNotWhite
      <4> QED
        BY <4>1, <4>2
    <3> QED
      BY <3>1
  <2> QED
    BY <2>1
<1> HIDE DEF P
<1>3. \A k \in Nat : k \in P
  BY <1>2, InductBelow
<1>4. ASSUME NEW c \in Colourings(n, ids) PROVE Fine(c)
  <2>1. Rank(n, ids, c) \in P
    BY <1>3, RankFacts
  <2> QED
    BY <2>1 DEF P
<1> QED
  BY <1>4 DEF AllSane, Sane, g

\* What a call of dfs_detect_cycle returns.
LEMMA VisitFacts ==
    ASSUME NEW reqs, NEW n, NEW ids, Readable(reqs, n, ids),
           NEW c \in Colourings(n, ids), NEW v \in Nodes(n, ids)
    PROVE  LET visit == Visit(reqs, n, ids)
               r     == visit[c][v]
           IN  /\ r \in Results(n, ids)
               /\ c[v] = "GRAY" => /\ r.cycle /\ r.colour = c
                                   /\ r.train = IF v < n THEN reqs[v].train_id ELSE NoTrain
               /\ c[v] = "BLACK" => ~ r.cycle /\ r.train = NoTrain /\ r.colour = c
               /\ c[v] = "WHITE" =>
                      \E a : /\ Loop(reqs, n, ids, visit, v, c, a)
                             /\ r = Closing(v, a[NodeCount(n, ids)])
<1> DEFINE visit == Visit(reqs, n, ids)
           r == visit[c][v]
           t == IF v < n THEN reqs[v].train_id ELSE NoTrain
<1>1. AllSane(n, ids, visit) /\ \A W : Sane(n, ids, visit, W)
  BY VisitSane, SaneFacts
<1>2. r = Explore(reqs, n, ids, visit, v, c)
  BY VisitIsCalls DEF Calls
<1> HIDE DEF visit, r, t
<1>3. r \in Results(n, ids)
  BY <1>1, <1>2, ExploreSane
<1>4. ASSUME c[v] = "GRAY" PROVE r.cycle /\ r.colour = c /\ r.train = t
  <2>1. r = [ cycle |-> TRUE, train |-> t, colour |-> c ]
    BY <1>2, <1>4, ExploreOther DEF t
  <2> QED
    BY <2>1
<1>5. ASSUME c[v] = "BLACK" PROVE ~ r.cycle /\ r.train = NoTrain /\ r.colour = c
  <2>1. r = [ cycle |-> FALSE, train |-> NoTrain, colour |-> c ]
    BY <1>2, <1>5, ExploreOther
  <2> QED
    BY <2>1
<1>6. ASSUME c[v] = "WHITE"
      PROVE  \E a : /\ Loop(reqs, n, ids, visit, v, c, a)
                    /\ r = Closing(v, a[NodeCount(n, ids)])
  <2>1. PICK a : Loop(reqs, n, ids, visit, v, c, a)
    BY <1>1, LoopExists
  <2>2. r = Closing(v, a[NodeCount(n, ids)])
    BY <1>2, <1>6, <2>1, ExploreWhite
  <2> QED
    BY <2>1, <2>2
<1> QED
  BY <1>3, <1>4, <1>5, <1>6 DEF visit, r, t

-----------------------------------------------------------------------------
(* Ways through a graph. *)

LEMMA LeadsFacts ==
    ASSUME NEW V, NEW E, NEW a \in V, NEW b \in V, NEW c \in V
    PROVE  /\ << a, b >> \in E => LeadsTo(V, E, a, b)
           /\ LeadsTo(V, E, a, b) /\ << b, c >> \in E => LeadsTo(V, E, a, c)
           /\ << a, b >> \in E /\ LeadsTo(V, E, b, c) => LeadsTo(V, E, a, c)
<1>1. << a, b >> \in E => LeadsTo(V, E, a, b)
  BY DEF LeadsTo
<1>2. LeadsTo(V, E, a, b) /\ << b, c >> \in E => LeadsTo(V, E, a, c)
  BY DEF LeadsTo
<1>3. << a, b >> \in E /\ LeadsTo(V, E, b, c) => LeadsTo(V, E, a, c)
  BY DEF LeadsTo
<1> QED
  BY <1>1, <1>2, <1>3

\* A set that is left by no edge and holds what a points to holds all that a
\* leads to.
LEMMA LeadsWithin ==
    ASSUME NEW V, NEW E, NEW a \in V, NEW b \in V, LeadsTo(V, E, a, b),
           NEW S \in SUBSET V,
           \A x \in S \union {a}, y \in V : << x, y >> \in E => y \in S
    PROVE  b \in S
  BY DEF LeadsTo

\* The edges of the resource graph.
Edges(reqs, n, ids) ==
    { e \in Nodes(n, ids) \X Nodes(n, ids) : Points(reqs, n, ids, e[1], e[2]) }

-----------------------------------------------------------------------------
(* What a call has explored, and what it reports. *)

\* A BLACK node is on no cycle and points to BLACK nodes only.
Explored(V, E, c) ==
    \A u \in V : c[u] = "BLACK" =>
        /\ ~ LeadsTo(V, E, u, u)
        /\ \A w \in V : << u, w >> \in E => c[w] = "BLACK"

\* Every GRAY node leads to v.
OnPath(V, E, c, v) == \A u \in V : c[u] = "GRAY" => LeadsTo(V, E, u, v)

\* A train that is reported is on a cycle.
Reports(reqs, n, ids, train) ==
    train # NoTrain =>
        \E w \in 0 .. n - 1 :
            /\ train = reqs[w].train_id
            /\ LeadsTo(Nodes(n, ids), Edges(reqs, n, ids), w, w)

\* BLACK nodes stay BLACK; the GRAY nodes are those of c and of `more'.
Passed(V, c, d, more) ==
    \A u \in V : /\ c[u] = "BLACK" => d[u] = "BLACK"
                 /\ d[u] = "GRAY" <=> c[u] = "GRAY" \/ u \in more

Answer(reqs, n, ids, c, v, r) ==
    LET V == Nodes(n, ids)
        E == Edges(reqs, n, ids)
    IN  /\ ~ r.cycle => /\ r.train = NoTrain
                        /\ r.colour[v] = "BLACK"
                        /\ Explored(V, E, r.colour)
                        /\ Passed(V, c, r.colour, {})
        /\ OnPath(V, E, c, v) => Reports(reqs, n, ids, r.train)

\* What is known when the loop on node v has dealt with the nodes below k.
LoopAnswer(reqs, n, ids, c, v, r, k) ==
    LET V == Nodes(n, ids)
        E == Edges(reqs, n, ids)
    IN  /\ ~ r.cycle => /\ r.train = NoTrain
                        /\ Explored(V, E, r.colour)
                        /\ Passed(V, c, r.colour, {v})
                        /\ \A w \in V : w < k /\ << v, w >> \in E => r.colour[w] = "BLACK"
        /\ OnPath(V, E, c, v) => Reports(reqs, n, ids, r.train)

LEMMA LoopAnswers ==
    ASSUME NEW reqs, NEW n, NEW ids, Readable(reqs, n, ids),
           NEW visit, NEW v \in Nodes(n, ids), NEW c \in Colourings(n, ids),
           c[v] = "WHITE", Explored(Nodes(n, ids), Edges(reqs, n, ids), c),
           \A d \in Colourings(n, ids), w \in Nodes(n, ids) :
               /\ Whites(n, ids, d) \subseteq Whites(n, ids, c) \ {v}
               /\ Explored(Nodes(n, ids), Edges(reqs, n, ids), d)
               => Answer(reqs, n, ids, d, w, visit[d][w]),
           NEW a, Loop(reqs, n, ids, visit, v, c, a)
    PROVE  \A k \in 0 .. NodeCount(n, ids) : LoopAnswer(reqs, n, ids, c, v, a[k], k)
<1> DEFINE K == NodeCount(n, ids)
           V == Nodes(n, ids)
           E == Edges(reqs, n, ids)
           P == { k \in 0 .. K : LoopAnswer(reqs, n, ids, c, v, a[k], k) }
<1>1. K \in Nat
  BY CountFacts
<1>2. 0 \in P
  <2> DEFINE d == [ c EXCEPT ![v] = "GRAY" ]
  <2>1. a[0] = [ cycle |-> FALSE, train |-> NoTrain, colour |-> d ]
    BY DEF Loop
  <2>2. \A u \in V : d[u] = IF u = v THEN "GRAY" ELSE c[u]
    BY DEF Colourings
  <2> HIDE DEF d
  <2>3. Explored(V, E, d)
    BY <2>2 DEF Explored
  <2>4. Passed(V, c, d, {v})
    BY <2>2 DEF Passed
  <2>5. \A w \in V : ~ w < 0
    BY <1>1 DEF Nodes
  <2>6. Reports(reqs, n, ids, NoTrain)
    BY DEF Reports
  <2>7. ~ a[0].cycle /\ a[0].train = NoTrain /\ a[0].colour = d
    BY <2>1
  <2>8. LoopAnswer(reqs, n, ids, c, v, a[0], 0)
    BY <2>3, <2>4, <2>5, <2>6, <2>7 DEF LoopAnswer
  <2> QED
    BY <1>1, <2>8
<1>3. ASSUME NEW k \in 1 .. K, k - 1 \in P PROVE k \in P
  <2> DEFINE r == a[k - 1]
             w == k - 1
             s == visit[r.colour][w]
  <2>1. LoopAnswer(reqs, n, ids, c, v, r, w)
    BY <1>3
  <2>2. /\ w \in V /\ w \in 0 .. K
        /\ a[k] = IF r.cycle \/ ~ Points(reqs, n, ids, v, w) THEN r ELSE s
        /\ r \in Results(n, ids)
        /\ Whites(n, ids, r.colour) \subseteq Whites(n, ids, c) \ {v}
    BY <1>1 DEF Loop, Nodes
  <2>3. \A u \in V : u < k <=> u < w \/ u = w
    BY <1>1 DEF Nodes
  <2>4. << v, w >> \in E <=> Points(reqs, n, ids, v, w)
    BY <2>2 DEF Edges
  <2> HIDE DEF r, w, V, E
  <2>5. CASE r.cycle
    BY <2>1, <2>2, <2>5 DEF LoopAnswer, V, E
  <2>6. CASE ~ r.cycle /\ ~ Points(reqs, n, ids, v, w)
    BY <2>1, <2>2, <2>3, <2>4, <2>6 DEF LoopAnswer, V, E
  <2>7. CASE ~ r.cycle /\ Points(reqs, n, ids, v, w)
    <3>1. r.colour \in Colourings(n, ids)
      BY <2>2 DEF Results
    <3>2. /\ Explored(V, E, r.colour) /\ Passed(V, c, r.colour, {v})
          /\ \A u \in V : u < w /\ << v, u >> \in E => r.colour[u] = "BLACK"
      BY <2>1, <2>7 DEF LoopAnswer, V, E
    <3>3. Answer(reqs, n, ids, r.colour, w, s)
      BY <2>2, <3>1, <3>2 DEF V, E
    <3>4. a[k] = s
      BY <2>2, <2>7
    <3> HIDE DEF s
    <3>5. ASSUME ~ s.cycle
          PROVE  /\ s.train = NoTrain
                 /\ Explored(V, E, s.colour)
                 /\ Passed(V, c, s.colour, {v})
                 /\ \A u \in V : u < k /\ << v, u >> \in E => s.colour[u] = "BLACK"
      <4>1. /\ s.train = NoTrain /\ s.colour[w] = "BLACK"
            /\ Explored(V, E, s.colour)
            /\ Passed(V, r.colour, s.colour, {})
        BY <3>3, <3>5 DEF Answer, V, E
      <4>2. Passed(V, c, s.colour, {v})
        BY <3>2, <4>1 DEF Passed
      <4>3. \A u \in V : u < k /\ << v, u >> \in E => s.colour[u] = "BLACK"
        BY <2>3, <3>2, <4>1 DEF Passed
      <4> QED
        BY <4>1, <4>2, <4>3
    <3>6. ASSUME OnPath(V, E, c, v) PROVE Reports(reqs, n, ids, s.train)
      <4>1. v \in V
        BY DEF V
      <4>2. << v, w >> \in E
        BY <2>4, <2>7
      <4>3. OnPath(V, E, r.colour, w)
        <5> SUFFICES ASSUME NEW u \in V, r.colour[u] = "GRAY" PROVE LeadsTo(V, E, u, w)
          BY DEF OnPath
        <5>1. c[u] = "GRAY" \/ u = v
          BY <3>2 DEF Passed
        <5>2. CASE c[u] = "GRAY"
          <6>1. LeadsTo(V, E, u, v)
            BY <3>6, <5>2 DEF OnPath
          <6> QED
            BY <2>2, <4>1, <4>2, <6>1, LeadsFacts
        <5>3. CASE u = v
          BY <2>2, <4>1, <4>2, <5>3, LeadsFacts
        <5> QED
          BY <5>1, <5>2, <5>3
      <4> QED
        BY <3>3, <4>3 DEF Answer, V, E
    <3>7. LoopAnswer(reqs, n, ids, c, v, a[k], k)
      BY <3>4, <3>5, <3>6 DEF LoopAnswer, V, E
    <3> QED
      BY <1>1, <3>7
  <2>8. LoopAnswer(reqs, n, ids, c, v, a[k], k) => k \in P
    BY <1>1
  <2> QED
    BY <2>5, <2>6, <2>7, <2>8
<1> HIDE DEF P
<1>4. \A k \in 0 .. K : k \in P
  BY <1>1, <1>2, <1>3, InductUpTo
<1> QED
  BY <1>4 DEF P

LEMMA VisitAnswers ==
    ASSUME NEW reqs, NEW n, NEW ids, Readable(reqs, n, ids)
    PROVE  \A c \in Colourings(n, ids), v \in Nodes(n, ids) :
               Explored(Nodes(n, ids), Edges(reqs, n, ids), c) =>
                   Answer(reqs, n, ids, c, v, Visit(reqs, n, ids)[c][v])
<1> DEFINE K == NodeCount(n, ids)
           V == Nodes(n, ids)
           E == Edges(reqs, n, ids)
           visit == Visit(reqs, n, ids)
           Fine(c) == Explored(V, E, c) => \A v \in V : Answer(reqs, n, ids, c, v, visit[c][v])
           P == { k \in Nat : \A c \in Colourings(n, ids) : Rank(n, ids, c) = k => Fine(c) }
<1>1. ASSUME NEW k \in Nat, \A j \in Nat : j < k => j \in P PROVE k \in P
  <2>1. ASSUME NEW c \in Colourings(n, ids), Rank(n, ids, c) = k, Explored(V, E, c), NEW v \in V
        PROVE  Answer(reqs, n, ids, c, v, visit[c][v])
    <3> DEFINE r == visit[c][v]
    <3>1. c[v] \in Colours
      BY DEF Colourings
    <3>2. CASE c[v] = "GRAY"
      <4>1. r.cycle /\ r.train = IF v < n THEN reqs[v].train_id ELSE NoTrain
        BY <3>2, VisitFacts
      <4>2. ASSUME OnPath(V, E, c, v), v < n
            PROVE  v \in 0 .. n - 1 /\ LeadsTo(V, E, v, v)
        BY <3>2, <4>2 DEF OnPath, Nodes, Readable
      <4> HIDE DEF r, V, E
      <4>3. OnPath(V, E, c, v) => Reports(reqs, n, ids, r.train)
        BY <4>1, <4>2 DEF Reports, V, E
      <4>4. Answer(reqs, n, ids, c, v, r)
        BY <4>1, <4>3 DEF Answer, V, E
      <4> QED
        BY <4>4 DEF r
    <3>3. CASE c[v] = "BLACK"
      <4>1. ~ r.cycle /\ r.train = NoTrain /\ r.colour = c
        BY <3>3, VisitFacts
      <4> HIDE DEF r, V, E
      <4>2. Reports(reqs, n, ids, r.train) /\ Passed(V, c, c, {})
        BY <4>1 DEF Reports, Passed
      <4>3. Answer(reqs, n, ids, c, v, r)
        BY <2>1, <3>3, <4>1, <4>2 DEF Answer, V, E
      <4> QED
        BY <4>3 DEF r
    <3>4. CASE c[v] = "WHITE"
      <4>1. PICK a : Loop(reqs, n, ids, visit, v, c, a) /\ r = Closing(v, a[K])
        BY <3>4, VisitFacts
      <4>2. ASSUME NEW d \in Colourings(n, ids), NEW w \in V,
                   Whites(n, ids, d) \subseteq Whites(n, ids, c) \ {v}, Explored(V, E, d)
            PROVE  Answer(reqs, n, ids, d, w, visit[d][w])
        <5>1. Rank(n, ids, d) < k /\ Rank(n, ids, d) \in Nat
          BY <2>1, <3>4, <4>2, RankFacts
        <5> QED
          BY <1>1, <4>2, <5>1
      <4>3. \A k1 \in 0 .. K : LoopAnswer(reqs, n, ids, c, v, a[k1], k1)
        BY <2>1, <3>4, <4>1, <4>2, LoopAnswers
      <4> DEFINE e == a[K]
      <4>4. K \in Nat /\ K \in 0 .. K
        BY CountFacts
      <4>5. e \in Results(n, ids) /\ LoopAnswer(reqs, n, ids, c, v, e, K)
        BY <4>1, <4>3, <4>4 DEF Loop
      <4>6. \A w \in V : w < K
        BY <4>4 DEF Nodes
      <4>7. CASE e.cycle
        <5>1. r = Closing(v, e)
          BY <4>1
        <5> HIDE DEF e, r
        <5>2. r = e
          BY <4>7, <5>1 DEF Closing
        <5>3. Answer(reqs, n, ids, c, v, r)
          BY <4>5, <4>7, <5>2 DEF Answer, LoopAnswer
        <5> QED
          BY <5>3 DEF r
      <4>8. CASE ~ e.cycle
        <5>1. ~ r.cycle /\ r.train = e.train /\ r.colour = [ e.colour EXCEPT ![v] = "BLACK" ]
          BY <4>1, <4>5, <4>8, ClosingFacts
        <5>2. e.colour \in Colourings(n, ids)
          BY <4>5 DEF Results
        <5> HIDE DEF e, r
        <5>3. \A u \in V : r.colour[u] = IF u = v THEN "BLACK" ELSE e.colour[u]
          BY <5>1, <5>2 DEF Colourings
        <5>4. /\ e.train = NoTrain /\ Explored(V, E, e.colour) /\ Passed(V, c, e.colour, {v})
              /\ \A w \in V : << v, w >> \in E => e.colour[w] = "BLACK"
          BY <4>5, <4>6, <4>8 DEF LoopAnswer
        <5>5. e.colour[v] = "GRAY"
          BY <5>4 DEF Passed
        <5> HIDE DEF V, E
        <5>6. v \in V
          BY DEF V
        <5>7. ~ LeadsTo(V, E, v, v)
          <6> DEFINE B == { u \in V : e.colour[u] = "BLACK" }
          <6>1. \A x \in B \union {v}, y \in V : << x, y >> \in E => y \in B
            BY <5>4 DEF Explored
          <6>2. v \notin B /\ B \in SUBSET V
            BY <5>5
          <6> HIDE DEF B
          <6> QED
            BY <5>6, <6>1, <6>2, LeadsWithin
        <5>8. Explored(V, E, r.colour)
          BY <5>3, <5>4, <5>7 DEF Explored
        <5>9. Passed(V, c, r.colour, {})
          BY <3>4, <5>3, <5>4 DEF Passed
        <5>10. r.colour[v] = "BLACK"
          BY <5>3, <5>6
        <5>11. Reports(reqs, n, ids, r.train) /\ r.train = NoTrain
          BY <5>1, <5>4 DEF Reports
        <5>12. Answer(reqs, n, ids, c, v, r)
          BY <5>1, <5>8, <5>9, <5>10, <5>11 DEF Answer, V, E
        <5> QED
          BY <5>12 DEF r
      <4> QED
        BY <4>7, <4>8
    <3> QED
      BY <3>1, <3>2, <3>3, <3>4 DEF Colours
  <2> QED
    BY <2>1
<1> HIDE DEF P
<1>2. \A k \in Nat : k \in P
  BY <1>1, InductBelow
<1>3. ASSUME NEW c \in Colourings(n, ids) PROVE Fine(c)
  <2>1. Rank(n, ids, c) \in P
    BY <1>2, RankFacts
  <2> QED
    BY <2>1 DEF P
<1> QED
  BY <1>3

-----------------------------------------------------------------------------
(* The search from every train that is still WHITE. *)

\* f[k] is what detect_deadlock has found when it has dealt with the trains
\* below slot k.
Scan(reqs, n, ids, f) ==
    /\ f \in [0 .. n -> Results(n, ids)]
    /\ f[0] = [ cycle |-> FALSE, train |-> NoTrain, colour |-> [ v \in Nodes(n, ids) |-> "WHITE" ] ]
    /\ \A k \in 1 .. n :
          f[k] = IF f[k - 1].cycle \/ f[k - 1].colour[k - 1] # "WHITE"
                 THEN f[k - 1]
                 ELSE Visit(reqs, n, ids)[f[k - 1].colour][k - 1]

LEMMA ScanExists ==
    ASSUME NEW reqs, NEW n, NEW ids, Readable(reqs, n, ids)
    PROVE  \E f : Scan(reqs, n, ids, f) /\ DetectDeadlock(reqs, n, ids) = f[n].train
<1> DEFINE R == Results(n, ids)
           b == [ cycle |-> FALSE, train |-> NoTrain, colour |-> [ v \in Nodes(n, ids) |-> "WHITE" ] ]
           visit == Visit(reqs, n, ids)
           Step(k, r) == IF r.cycle \/ r.colour[k - 1] # "WHITE" THEN r ELSE visit[r.colour][k - 1]
           G == [ k \in 1 .. n |-> [ r \in R |-> Step(k, r) ] ]
           IsFrom(f) == f = [ k \in 0 .. n |-> IF k = 0 THEN b ELSE Step(k, f[k - 1]) ]
           from == CHOOSE f : IsFrom(f)
<1>1. n \in Nat
  BY DEF Readable
<1>2. DetectDeadlock(reqs, n, ids) = from[n].train
  BY Zenon DEF DetectDeadlock
<1>3. b \in R
  <2> DEFINE w == [ v \in Nodes(n, ids) |-> "WHITE" ]
  <2>1. w \in Colourings(n, ids)
    BY DEF Colourings, Colours
  <2>2. b = [ cycle |-> FALSE, train |-> NoTrain, colour |-> w ]
    OBVIOUS
  <2> HIDE DEF w, b
  <2> QED
    BY <2>1, <2>2 DEF Results, NoTrain
<1>4. ASSUME NEW k \in 1 .. n, NEW r \in R PROVE Step(k, r) \in R
  <2>1. k - 1 \in Nodes(n, ids)
    BY <1>1 DEF Nodes, NodeCount, Readable
  <2>2. r.colour \in Colourings(n, ids)
    BY DEF Results
  <2>3. visit[r.colour][k - 1] \in R
    BY <2>1, <2>2, VisitFacts
  <2> QED
    BY <2>3
<1>5. G \in [1 .. n -> [R -> R]]
  BY <1>4
<1> HIDE DEF b, R, G, visit
<1>6. PICK a \in [0 .. n -> R] : Iterates(n, b, G, a)
  BY <1>1, <1>3, <1>5, IterationExists
<1>7. a[0] = b /\ \A k \in 1 .. n : a[k] = Step(k, a[k - 1])
  <2>1. \A k \in 1 .. n : a[k - 1] \in R
    BY <1>1
  <2> QED
    BY <1>6, <2>1 DEF Iterates, G
<1> HIDE DEF Step
<1>8. IsFrom(a)
  <2> DEFINE h == [ k \in 0 .. n |-> IF k = 0 THEN b ELSE Step(k, a[k - 1]) ]
  <2>1. \A k \in 0 .. n : a[k] = h[k]
    BY <1>1, <1>7
  <2>2. h \in [0 .. n -> R]
    BY <1>1, <2>1
  <2> HIDE DEF h
  <2>3. a = h
    BY <1>1, <2>1, <2>2
  <2> QED
    BY <2>3 DEF h
<1>9. IsFrom(from)
  <2> HIDE DEF IsFrom
  <2> QED
    BY <1>8, Zenon
<1> HIDE DEF from
<1> DEFINE P == { k \in 0 .. n : from[k] = a[k] }
<1>10. 0 \in P
  BY <1>1, <1>7, <1>9
<1>11. ASSUME NEW k \in 1 .. n, k - 1 \in P PROVE k \in P
  <2>1. from[k] = Step(k, from[k - 1])
    BY <1>1, <1>9
  <2> QED
    BY <1>1, <1>7, <1>11, <2>1
<1> HIDE DEF P
<1>12. \A k \in 0 .. n : k \in P
  BY <1>1, <1>10, <1>11, InductUpTo
<1>13. n \in P
  BY <1>1, <1>12
<1>14. from[n] = a[n]
  BY <1>13 DEF P
<1>15. Scan(reqs, n, ids, a)
  BY <1>7 DEF Scan, b, R, Step, visit
<1> QED
  BY <1>2, <1>14, <1>15

\* No train below slot k is left WHITE or GRAY, unless a cycle was found.
ScanAnswer(reqs, n, ids, r, k) ==
    LET V == Nodes(n, ids)
        E == Edges(reqs, n, ids)
    IN  /\ ~ r.cycle => /\ r.train = NoTrain
                        /\ Explored(V, E, r.colour)
                        /\ \A u \in V : r.colour[u] # "GRAY"
                        /\ \A i \in V : i < k => r.colour[i] = "BLACK"
        /\ Reports(reqs, n, ids, r.train)

LEMMA ScanAnswers ==
    ASSUME NEW reqs, NEW n, NEW ids, Readable(reqs, n, ids), NEW f, Scan(reqs, n, ids, f)
    PROVE  \A k \in 0 .. n : ScanAnswer(reqs, n, ids, f[k], k)
<1> DEFINE V == Nodes(n, ids)
           E == Edges(reqs, n, ids)
           visit == Visit(reqs, n, ids)
           P == { k \in 0 .. n : ScanAnswer(reqs, n, ids, f[k], k) }
<1>1. n \in Nat /\ NodeCount(n, ids) \in Nat /\ \A k \in 0 .. n - 1 : k \in V
  BY DEF Readable, Nodes, NodeCount
<1>2. 0 \in P
  <2> DEFINE d == [ v \in V |-> "WHITE" ]
  <2>1. f[0] = [ cycle |-> FALSE, train |-> NoTrain, colour |-> d ]
    BY DEF Scan
  <2>2. \A u \in V : d[u] = "WHITE"
    OBVIOUS
  <2> HIDE DEF d
  <2>3. ~ f[0].cycle /\ f[0].train = NoTrain /\ f[0].colour = d
    BY <2>1
  <2>4. \A i \in V : ~ i < 0
    BY <1>1 DEF Nodes
  <2>5. Explored(V, E, d) /\ Reports(reqs, n, ids, NoTrain)
    BY <2>2 DEF Explored, Reports
  <2>6. ScanAnswer(reqs, n, ids, f[0], 0)
    BY <2>2, <2>3, <2>4, <2>5 DEF ScanAnswer
  <2> QED
    BY <1>1, <2>6
<1>3. ASSUME NEW k \in 1 .. n, k - 1 \in P PROVE k \in P
  <2> DEFINE r == f[k - 1]
             w == k - 1
             s == visit[r.colour][w]
  <2>1. ScanAnswer(reqs, n, ids, r, w)
    BY <1>3
  <2>2. /\ w \in V
        /\ f[k] = IF r.cycle \/ r.colour[w] # "WHITE" THEN r ELSE s
        /\ r \in Results(n, ids)
    BY <1>1 DEF Scan, Nodes
  <2>3. \A u \in V : u < k <=> u < w \/ u = w
    BY <1>1 DEF Nodes
  <2>4. r.colour \in Colourings(n, ids) /\ r.colour[w] \in Colours
    BY <2>2 DEF Results, Colourings
  <2> HIDE DEF r, w, V, E
  <2>5. CASE r.cycle
    BY <2>1, <2>2, <2>5 DEF ScanAnswer
  <2>6. CASE ~ r.cycle /\ r.colour[w] # "WHITE"
    <3>1. r.colour[w] = "BLACK"
      BY <2>1, <2>2, <2>4, <2>6 DEF ScanAnswer, Colours, V
    <3> QED
      BY <2>1, <2>2, <2>3, <2>6, <3>1 DEF ScanAnswer, V
  <2>7. CASE ~ r.cycle /\ r.colour[w] = "WHITE"
    <3>1. /\ Explored(V, E, r.colour)
          /\ \A u \in V : r.colour[u] # "GRAY"
          /\ \A i \in V : i < w => r.colour[i] = "BLACK"
      BY <2>1, <2>7 DEF ScanAnswer, V, E
    <3>2. Answer(reqs, n, ids, r.colour, w, s)
      BY <2>2, <2>4, <3>1, VisitAnswers DEF V, E
    <3>3. OnPath(V, E, r.colour, w)
      BY <3>1 DEF OnPath
    <3>4. f[k] = s
      BY <2>2, <2>7
    <3> HIDE DEF s
    <3>5. Reports(reqs, n, ids, s.train)
      BY <3>2, <3>3 DEF Answer, V, E
    <3>6. ASSUME ~ s.cycle
          PROVE  /\ s.train = NoTrain /\ Explored(V, E, s.colour)
                 /\ \A u \in V : s.colour[u] # "GRAY"
                 /\ \A i \in V : i < k => s.colour[i] = "BLACK"
      <4>1. /\ s.train = NoTrain /\ s.colour[w] = "BLACK"
            /\ Explored(V, E, s.colour)
            /\ Passed(V, r.colour, s.colour, {})
        BY <3>2, <3>6 DEF Answer, V, E
      <4>2. \A u \in V : s.colour[u] # "GRAY"
        BY <3>1, <4>1 DEF Passed
      <4>3. \A i \in V : i < k => s.colour[i] = "BLACK"
        BY <2>3, <3>1, <4>1 DEF Passed
      <4> QED
        BY <4>1, <4>2, <4>3
    <3> QED
      BY <3>4, <3>5, <3>6 DEF ScanAnswer, V, E
  <2>8. ScanAnswer(reqs, n, ids, f[k], k)
    BY <2>5, <2>6, <2>7
  <2> QED
    BY <1>1, <2>8
<1> HIDE DEF P
<1>4. \A k \in 0 .. n : k \in P
  BY <1>1, <1>2, <1>3, InductUpTo
<1> QED
  BY <1>4 DEF P

-----------------------------------------------------------------------------
(* Cycles of the graph and cycles of waits. *)

\* The position of an id in track_list is that of its first track.
LEMMA FirstFacts ==
    ASSUME NEW ids \in Seq(Int), NEW t
    PROVE  /\ FirstWith(ids, t) \in 0 .. Len(ids)
           /\ FirstWith(ids, t) # 0 => ids[FirstWith(ids, t)] = t
           /\ (\E k \in DOMAIN ids : ids[k] = t) => FirstWith(ids, t) # 0
<1> DEFINE I == { i \in 1 .. Len(ids) : ids[i] = t }
<1>1. FirstWith(ids, t) = IF I # {} THEN Min(I) ELSE 0
  BY DEF FirstWith, SelectInSeq
<1>2. Len(ids) \in Nat /\ DOMAIN ids = 1 .. Len(ids)
  OBVIOUS
<1>3. CASE I = {}
  BY <1>1, <1>2, <1>3
<1>4. CASE I # {}
  <2>1. I \in SUBSET Nat
    BY <1>2
  <2> HIDE DEF I
  <2>2. Min(I) \in I
    BY <1>4, <2>1, MinFacts
  <2> QED
    BY <1>1, <1>2, <1>4, <2>2 DEF I
<1> QED
  BY <1>3, <1>4

\* Train i waits for train j if the graph has edges from j to a track and from
\* that track to i.
LEMMA WaitsAreEdges ==
    ASSUME NEW reqs, NEW n, NEW ids, Readable(reqs, n, ids),
           NEW i \in 0 .. n - 1, NEW j \in 0 .. n - 1
    PROVE  WaitsFor(reqs, ids, i, j) <=>
               \E t \in Nodes(n, ids) : Points(reqs, n, ids, j, t) /\ Points(reqs, n, ids, t, i)
<1> DEFINE h == FirstWith(ids, reqs[j].holds)
           w == FirstWith(ids, reqs[i].wants)
<1>1. n \in Nat /\ ids \in Seq(Int) /\ Len(ids) \in Nat /\ i < n /\ j < n
  BY DEF Readable
<1>2. /\ h \in 0 .. Len(ids) /\ (h # 0 => ids[h] = reqs[j].holds)
      /\ w \in 0 .. Len(ids) /\ (w # 0 => ids[w] = reqs[i].wants)
      /\ (\E k \in DOMAIN ids : ids[k] = reqs[i].wants) => w # 0
  BY <1>1, FirstFacts
<1>3. ASSUME NEW t \in Nodes(n, ids)
      PROVE  /\ Points(reqs, n, ids, j, t) <=> t >= n /\ t = n + h - 1
             /\ Points(reqs, n, ids, t, i) <=> t >= n /\ t = n + w - 1
  BY <1>1 DEF Points, TrackNode, Nodes, NodeCount
<1>4. ASSUME WaitsFor(reqs, ids, i, j)
      PROVE  \E t \in Nodes(n, ids) : Points(reqs, n, ids, j, t) /\ Points(reqs, n, ids, t, i)
  <2>1. w # 0 /\ h = w
    BY <1>2, <1>4 DEF WaitsFor
  <2> HIDE DEF h, w
  <2>2. n + w - 1 \in Nodes(n, ids) /\ n + w - 1 >= n /\ n + h - 1 = n + w - 1
    BY <1>1, <1>2, <2>1 DEF Nodes, NodeCount
  <2> QED
    BY <1>3, <2>2
<1>5. ASSUME NEW t \in Nodes(n, ids), Points(reqs, n, ids, j, t), Points(reqs, n, ids, t, i)
      PROVE  WaitsFor(reqs, ids, i, j)
  <2> HIDE DEF h, w
  <2>1. h = w /\ w # 0
    BY <1>1, <1>2, <1>3, <1>5 DEF Nodes, NodeCount
  <2>2. w \in DOMAIN ids
    BY <1>1, <1>2, <2>1
  <2> QED
    BY <1>2, <2>1, <2>2 DEF WaitsFor
<1> QED
  BY <1>4, <1>5

\* A train the graph leads back to itself waits for itself, through others.
LEMMA LeadsIsWait ==
    ASSUME NEW reqs, NEW n, NEW ids, Readable(reqs, n, ids),
           NEW a \in 0 .. n - 1, NEW b \in 0 .. n - 1,
           LeadsTo(Nodes(n, ids), Edges(reqs, n, ids), a, b)
    PROVE  LeadsTo(0 .. n - 1, Waits(reqs, n, ids), b, a)
<1> DEFINE V == Nodes(n, ids)
           E == Edges(reqs, n, ids)
           T == 0 .. n - 1
           W == Waits(reqs, n, ids)
           \* A train that waits for a in the end, or a track that only such trains want.
           S == { x \in V : /\ x \in T => LeadsTo(T, W, x, a)
                            /\ x \notin T => \A j \in T : << x, j >> \in E => LeadsTo(T, W, j, a) }
<1>1. n \in Nat /\ T \subseteq V
  BY DEF Readable, Nodes, NodeCount
<1>2. \A x, y \in V : << x, y >> \in E <=> Points(reqs, n, ids, x, y)
  BY DEF Edges
<1>3. \A x, y \in V : << x, y >> \in E => (x \in T <=> y \notin T)
  BY <1>1, <1>2 DEF Points, Nodes
<1>4. \A i, j \in T, t \in V : << j, t >> \in E /\ << t, i >> \in E => << i, j >> \in W
  <2> SUFFICES ASSUME NEW i \in T, NEW j \in T, NEW t \in V, << j, t >> \in E, << t, i >> \in E
               PROVE  << i, j >> \in W
    OBVIOUS
  <2>1. WaitsFor(reqs, ids, i, j)
    BY <1>1, <1>2, WaitsAreEdges
  <2> QED
    BY <2>1 DEF Waits
<1> HIDE DEF V, E, T, W
<1>5. ASSUME NEW x \in S \union {a}, NEW y \in V, << x, y >> \in E PROVE y \in S
  <2>1. x \in V /\ a \in T /\ a \in V
    BY <1>1 DEF T
  <2>2. CASE x \in T
    <3>1. y \notin T
      BY <1>3, <1>5, <2>1, <2>2
    <3>2. ASSUME NEW j \in T, << y, j >> \in E PROVE LeadsTo(T, W, j, a)
      <4>1. << j, x >> \in W
        BY <1>4, <1>5, <2>2, <3>2
      <4>2. x = a \/ LeadsTo(T, W, x, a)
        BY <2>2
      <4> QED
        BY <2>1, <2>2, <4>1, <4>2, LeadsFacts
    <3> QED
      BY <3>1, <3>2
  <2>3. CASE x \notin T
    BY <1>3, <1>5, <2>1, <2>3
  <2> QED
    BY <2>2, <2>3
<1>6. b \in S
  <2>1. a \in V /\ b \in V /\ LeadsTo(V, E, a, b)
    BY <1>1 DEF T, V, E
  <2>2. S \in SUBSET V
    OBVIOUS
  <2> HIDE DEF S
  <2> QED
    BY <1>5, <2>1, <2>2, LeadsWithin
<1> QED
  BY <1>6 DEF T, W

\* A train that waits for itself, through others, is on a cycle of the graph.
LEMMA WaitLeads ==
    ASSUME NEW reqs, NEW n, NEW ids, Readable(reqs, n, ids),
           NEW a \in 0 .. n - 1, NEW b \in 0 .. n - 1,
           LeadsTo(0 .. n - 1, Waits(reqs, n, ids), a, b)
    PROVE  LeadsTo(Nodes(n, ids), Edges(reqs, n, ids), b, a)
<1> DEFINE V == Nodes(n, ids)
           E == Edges(reqs, n, ids)
           T == 0 .. n - 1
           W == Waits(reqs, n, ids)
           S == { x \in T : LeadsTo(V, E, x, a) }
<1>1. T \subseteq V
  BY DEF Readable, Nodes, NodeCount
<1>2. ASSUME NEW i \in T, NEW j \in T, << i, j >> \in W
      PROVE  \E t \in V : << j, t >> \in E /\ << t, i >> \in E
  <2>1. WaitsFor(reqs, ids, i, j)
    BY <1>2 DEF Waits
  <2>2. PICK t \in V : Points(reqs, n, ids, j, t) /\ Points(reqs, n, ids, t, i)
    BY <2>1, WaitsAreEdges
  <2> QED
    BY <1>1, <2>2 DEF Edges
<1>3. a \in T /\ b \in T /\ LeadsTo(T, W, a, b) /\ S \in SUBSET T
  OBVIOUS
<1> HIDE DEF V, E, T, W
<1>4. ASSUME NEW x \in S \union {a}, NEW y \in T, << x, y >> \in W PROVE y \in S
  <2>1. x \in T /\ x \in V /\ y \in V /\ a \in V
    BY <1>1, <1>3
  <2>2. PICK t \in V : << y, t >> \in E /\ << t, x >> \in E
    BY <1>2, <1>4, <2>1
  <2>3. LeadsTo(V, E, t, a)
    BY <2>1, <2>2, LeadsFacts
  <2>4. LeadsTo(V, E, y, a)
    BY <2>1, <2>2, <2>3, LeadsFacts
  <2> QED
    BY <2>4
<1> HIDE DEF S
<1>5. b \in S
  BY <1>3, <1>4, LeadsWithin
<1> QED
  BY <1>5 DEF S, V, E

\* detect_deadlock returns no train, or one that is on a cycle of waits: for
\* every number of trains and tracks, whoever holds and wants what.
THEOREM SearchIsSound ==
    ASSUME NEW reqs, NEW n, NEW ids, Readable(reqs, n, ids),
           DetectDeadlock(reqs, n, ids) # NoTrain
    PROVE  \E i \in 0 .. n - 1 :
               /\ DetectDeadlock(reqs, n, ids) = reqs[i].train_id
               /\ OnWaitCycle(reqs, n, ids, i)
<1>1. PICK f : Scan(reqs, n, ids, f) /\ DetectDeadlock(reqs, n, ids) = f[n].train
  BY ScanExists
<1>2. ScanAnswer(reqs, n, ids, f[n], n)
  <2>1. n \in 0 .. n
    BY DEF Readable
  <2> QED
    BY <1>1, <2>1, ScanAnswers
<1>3. Reports(reqs, n, ids, DetectDeadlock(reqs, n, ids))
  BY <1>1, <1>2 DEF ScanAnswer
<1>4. PICK i \in 0 .. n - 1 :
          /\ DetectDeadlock(reqs, n, ids) = reqs[i].train_id
          /\ LeadsTo(Nodes(n, ids), Edges(reqs, n, ids), i, i)
  BY <1>3 DEF Reports
<1>5. OnWaitCycle(reqs, n, ids, i)
  BY <1>4, LeadsIsWait DEF OnWaitCycle
<1> QED
  BY <1>4, <1>5

-----------------------------------------------------------------------------
(* A cycle is reported, if no track is held by two trains. *)

\* No track of ids is held by two trains, and every train has an id.
HeldOnce(reqs, n, ids) ==
    /\ \A i \in 0 .. n - 1 : reqs[i].train_id # NoTrain
    /\ \A i, j \in 0 .. n - 1 :
          reqs[i].holds = reqs[j].holds /\ (\E k \in DOMAIN ids : ids[k] = reqs[i].holds) => i = j

\* Only one edge leaves a train, and only one enters a track.
LEMMA SingleEdges ==
    ASSUME NEW reqs, NEW n, NEW ids, Readable(reqs, n, ids), HeldOnce(reqs, n, ids),
           NEW p \in Nodes(n, ids), NEW q \in Nodes(n, ids),
           NEW t \in Nodes(n, ids), NEW s \in Nodes(n, ids),
           Points(reqs, n, ids, p, t)
    PROVE  /\ t >= n <=> p < n
           /\ p < n /\ Points(reqs, n, ids, p, s) => s = t
           /\ t >= n /\ Points(reqs, n, ids, q, t) => q = p
<1> DEFINE h(i) == FirstWith(ids, reqs[i].holds)
<1>1. n \in Nat /\ ids \in Seq(Int) /\ Len(ids) \in Nat
  BY DEF Readable
<1>2. \A i : /\ h(i) \in 0 .. Len(ids)
             /\ h(i) # 0 => ids[h(i)] = reqs[i].holds /\ h(i) \in DOMAIN ids
  BY <1>1, FirstFacts
<1>3. \A i, x \in Nodes(n, ids) :
          Points(reqs, n, ids, i, x) /\ (i < n \/ x >= n) => i < n /\ x >= n /\ x = n + h(i) - 1
  BY <1>1 DEF Points, TrackNode, Nodes, NodeCount
<1>4. t >= n <=> p < n
  BY <1>1 DEF Points, Nodes, NodeCount
<1> HIDE DEF h
<1>5. ASSUME p < n, Points(reqs, n, ids, p, s) PROVE s = t
  BY <1>1, <1>3, <1>5 DEF Nodes, NodeCount
<1>6. ASSUME t >= n, Points(reqs, n, ids, q, t) PROVE q = p
  <2>1. p < n /\ t = n + h(p) - 1 /\ q < n /\ t = n + h(q) - 1
    BY <1>3, <1>6
  <2>2. h(p) \in 0 .. Len(ids) /\ h(q) \in 0 .. Len(ids) /\ t \in Int
    BY <1>1, <1>2 DEF Nodes, NodeCount
  <2>3. h(p) = h(q) /\ h(p) # 0
    BY <1>1, <1>6, <2>1, <2>2
  <2>4. reqs[p].holds = reqs[q].holds /\ \E k \in DOMAIN ids : ids[k] = reqs[p].holds
    BY <1>2, <2>3
  <2>5. p \in 0 .. n - 1 /\ q \in 0 .. n - 1
    BY <1>1, <2>1 DEF Nodes, NodeCount
  <2> QED
    BY <2>4, <2>5 DEF HeldOnce
<1> QED
  BY <1>4, <1>5, <1>6

\* A track is coloured only after the trains that hold it.
Proper(V, E, n, c) ==
    \A p, t \in V : << p, t >> \in E /\ t >= n /\ c[t] # "WHITE" => c[p] # "WHITE"

\* A track is visited when it is WHITE, from a train that holds it.
Entered(V, E, n, c, v) ==
    v >= n => c[v] = "WHITE" /\ \A p \in V : << p, v >> \in E => c[p] # "WHITE"

\* What a call adds: a cycle comes with a train.
Named(V, E, n, r) ==
    /\ r.cycle => r.train # NoTrain
    /\ ~ r.cycle => Proper(V, E, n, r.colour)

LEMMA LoopNames ==
    ASSUME NEW reqs, NEW n, NEW ids, Readable(reqs, n, ids), HeldOnce(reqs, n, ids),
           NEW visit, NEW v \in Nodes(n, ids), NEW c \in Colourings(n, ids), c[v] = "WHITE",
           Proper(Nodes(n, ids), Edges(reqs, n, ids), n, c),
           Entered(Nodes(n, ids), Edges(reqs, n, ids), n, c, v),
           \A d \in Colourings(n, ids), w \in Nodes(n, ids) :
               /\ Whites(n, ids, d) \subseteq Whites(n, ids, c) \ {v}
               /\ Explored(Nodes(n, ids), Edges(reqs, n, ids), d)
               /\ Proper(Nodes(n, ids), Edges(reqs, n, ids), n, d)
               /\ Entered(Nodes(n, ids), Edges(reqs, n, ids), n, d, w)
               => Named(Nodes(n, ids), Edges(reqs, n, ids), n, visit[d][w]),
           NEW a, Loop(reqs, n, ids, visit, v, c, a),
           \A k \in 0 .. NodeCount(n, ids) : LoopAnswer(reqs, n, ids, c, v, a[k], k)
    PROVE  Named(Nodes(n, ids), Edges(reqs, n, ids), n, a[NodeCount(n, ids)])
<1> DEFINE K == NodeCount(n, ids)
           V == Nodes(n, ids)
           E == Edges(reqs, n, ids)
           \* The first edge of the loop is taken from the colours it starts with.
           Inv(k) == /\ Named(V, E, n, a[k])
                     /\ (\A w \in V : w < k => << v, w >> \notin E) => a[k] = a[0]
           P == { k \in 0 .. K : Inv(k) }
           d0 == [ c EXCEPT ![v] = "GRAY" ]
<1>1. K \in Nat /\ n \in Nat
  BY CountFacts DEF Readable
<1>2. /\ a[0].cycle = FALSE /\ a[0].colour = d0
      /\ \A u \in V : d0[u] = IF u = v THEN "GRAY" ELSE c[u]
  <2>1. a[0] = [ cycle |-> FALSE, train |-> NoTrain, colour |-> d0 ]
    BY DEF Loop
  <2>2. \A u \in V : d0[u] = IF u = v THEN "GRAY" ELSE c[u]
    BY DEF Colourings
  <2> HIDE DEF d0
  <2> QED
    BY <2>1, <2>2
<1>3. v \in V
  OBVIOUS
<1>4. \A p, q \in V : << p, q >> \in E <=> Points(reqs, n, ids, p, q)
  BY DEF Edges
<1>5. \A p, q, t, s \in V :
          << p, t >> \in E =>
              /\ t >= n <=> p < n
              /\ p < n /\ << p, s >> \in E => s = t
              /\ t >= n /\ << q, t >> \in E => q = p
  BY <1>4, SingleEdges
<1> HIDE DEF d0
<1>6. 0 \in P
  <2>1. Proper(V, E, n, d0)
    BY <1>2 DEF Proper, Entered
  <2>2. Inv(0)
    BY <1>2, <2>1 DEF Named
  <2> QED
    BY <1>1, <2>2
<1>7. ASSUME NEW k \in 1 .. K, k - 1 \in P PROVE k \in P
  <2> DEFINE r == a[k - 1]
             w == k - 1
             s == visit[r.colour][w]
  <2>1. Inv(w)
    BY <1>7
  <2>2. /\ w \in V
        /\ a[k] = IF r.cycle \/ ~ Points(reqs, n, ids, v, w) THEN r ELSE s
        /\ r \in Results(n, ids)
        /\ Whites(n, ids, r.colour) \subseteq Whites(n, ids, c) \ {v}
        /\ LoopAnswer(reqs, n, ids, c, v, r, w)
        /\ r.colour \in Colourings(n, ids)
    BY <1>1 DEF Loop, Nodes, Results
  <2>3. /\ \A u \in V : u < w => u < k
        /\ w < k
        /\ \A u \in V : u < w \/ u = w \/ u > w
    BY <1>1 DEF Nodes
  <2>4. << v, w >> \in E <=> Points(reqs, n, ids, v, w)
    BY <2>2 DEF Edges
  <2>5. r = a[w]
    OBVIOUS
  <2> HIDE DEF r, w, V, E
  <2>6. CASE r.cycle \/ << v, w >> \notin E
    <3>1. a[k] = r
      BY <2>2, <2>4, <2>6
    <3> QED
      BY <1>1, <2>1, <2>3, <2>5, <3>1
  <2>7. CASE ~ r.cycle /\ << v, w >> \in E
    <3>1. Explored(V, E, r.colour) /\ Passed(V, c, r.colour, {v})
      BY <2>2, <2>7 DEF LoopAnswer, V, E
    <3>2. Proper(V, E, n, r.colour)
      BY <2>1, <2>5, <2>7 DEF Named
    <3>3. ASSUME w >= n PROVE r.colour[w] = "WHITE" /\ \A p \in V : << p, w >> \in E => r.colour[p] # "WHITE"
      <4>1. v < n /\ v # w
        BY <1>1, <1>3, <1>5, <2>2, <2>7, <3>3 DEF V, Nodes
      <4>2. \A u \in V : u < w => << v, u >> \notin E
        BY <1>3, <1>5, <2>2, <2>7, <4>1 DEF V, Nodes
      <4>3. r = a[0]
        BY <2>1, <2>5, <4>2
      <4>4. c[w] = "WHITE"
        BY <1>3, <2>2, <2>7, <3>3 DEF Proper, V, E
      <4>5. r.colour[w] = "WHITE"
        BY <1>2, <2>2, <4>1, <4>3, <4>4
      <4>6. ASSUME NEW p \in V, << p, w >> \in E PROVE r.colour[p] # "WHITE"
        <5>1. p = v
          BY <1>3, <1>5, <2>2, <2>7, <3>3, <4>6
        <5> QED
          BY <1>2, <1>3, <4>3, <5>1
      <4> QED
        BY <4>5, <4>6
    <3>4. Entered(V, E, n, r.colour, w)
      BY <3>3 DEF Entered
    <3>5. Named(V, E, n, s)
      BY <2>2, <3>1, <3>2, <3>4 DEF V, E
    <3>6. a[k] = s
      BY <2>2, <2>4, <2>7
    <3> QED
      BY <1>1, <2>2, <2>3, <2>7, <3>5, <3>6
  <2> QED
    BY <2>6, <2>7
<1> HIDE DEF P
<1>8. \A k \in 0 .. K : k \in P
  BY <1>1, <1>6, <1>7, InductUpTo
<1>9. K \in P
  BY <1>1, <1>8
<1> QED
  BY <1>9 DEF P

LEMMA VisitNames ==
    ASSUME NEW reqs, NEW n, NEW ids, Readable(reqs, n, ids), HeldOnce(reqs, n, ids)
    PROVE  \A c \in Colourings(n, ids), v \in Nodes(n, ids) :
               /\ Explored(Nodes(n, ids), Edges(reqs, n, ids), c)
               /\ Proper(Nodes(n, ids), Edges(reqs, n, ids), n, c)
               /\ Entered(Nodes(n, ids), Edges(reqs, n, ids), n, c, v)
               => Named(Nodes(n, ids), Edges(reqs, n, ids), n, Visit(reqs, n, ids)[c][v])
<1> DEFINE K == NodeCount(n, ids)
           V == Nodes(n, ids)
           E == Edges(reqs, n, ids)
           visit == Visit(reqs, n, ids)
           Fine(c) == Explored(V, E, c) /\ Proper(V, E, n, c) =>
                          \A v \in V : Entered(V, E, n, c, v) => Named(V, E, n, visit[c][v])
           P == { k \in Nat : \A c \in Colourings(n, ids) : Rank(n, ids, c) = k => Fine(c) }
<1>1. ASSUME NEW k \in Nat, \A j \in Nat : j < k => j \in P PROVE k \in P
  <2>1. ASSUME NEW c \in Colourings(n, ids), Rank(n, ids, c) = k,
               Explored(V, E, c), Proper(V, E, n, c), NEW v \in V, Entered(V, E, n, c, v)
        PROVE  Named(V, E, n, visit[c][v])
    <3> DEFINE r == visit[c][v]
    <3>1. c[v] \in Colours
      BY DEF Colourings
    <3>2. CASE c[v] = "GRAY"
      <4>1. r.cycle /\ r.train = IF v < n THEN reqs[v].train_id ELSE NoTrain
        BY <3>2, VisitFacts
      <4>2. v \in 0 .. n - 1 /\ v < n
        BY <2>1, <3>2 DEF Entered, Nodes, Readable, NodeCount
      <4> HIDE DEF r, V, E
      <4> QED
        BY <4>1, <4>2 DEF Named, HeldOnce, r
    <3>3. CASE c[v] = "BLACK"
      <4>1. ~ r.cycle /\ r.colour = c
        BY <3>3, VisitFacts
      <4> HIDE DEF r, V, E
      <4> QED
        BY <2>1, <4>1 DEF Named, r
    <3>4. CASE c[v] = "WHITE"
      <4>1. PICK a : Loop(reqs, n, ids, visit, v, c, a) /\ r = Closing(v, a[K])
        BY <3>4, VisitFacts
      <4>2. ASSUME NEW d \in Colourings(n, ids), NEW w \in V,
                   Whites(n, ids, d) \subseteq Whites(n, ids, c) \ {v},
                   Explored(V, E, d), Proper(V, E, n, d), Entered(V, E, n, d, w)
            PROVE  Named(V, E, n, visit[d][w])
        <5>1. Rank(n, ids, d) < k /\ Rank(n, ids, d) \in Nat
          BY <2>1, <3>4, <4>2, RankFacts
        <5> QED
          BY <1>1, <4>2, <5>1
      <4>3. \A k1 \in 0 .. K : LoopAnswer(reqs, n, ids, c, v, a[k1], k1)
        BY <2>1, <3>4, <4>1, VisitAnswers, LoopAnswers
      <4> DEFINE e == a[K]
      <4>4. Named(V, E, n, e)
        BY <2>1, <3>4, <4>1, <4>2, <4>3, LoopNames
      <4>5. K \in 0 .. K
        BY CountFacts
      <4>6. e \in Results(n, ids) /\ r = Closing(v, e)
        BY <4>1, <4>5 DEF Loop
      <4> HIDE DEF e, r, V, E
      <4>7. CASE e.cycle
        BY <4>4, <4>6, <4>7 DEF Closing, r
      <4>8. CASE ~ e.cycle
        <5>1. ~ r.cycle /\ r.colour = [ e.colour EXCEPT ![v] = "BLACK" ]
          BY <4>6, <4>8, ClosingFacts DEF V
        <5>2. e.colour \in Colourings(n, ids)
          BY <4>6 DEF Results
        <5>3. \A u \in V : r.colour[u] = IF u = v THEN "BLACK" ELSE e.colour[u]
          BY <5>1, <5>2 DEF Colourings, V
        <5>4. LoopAnswer(reqs, n, ids, c, v, e, K)
          BY <4>3, <4>5 DEF e
        <5>5. e.colour[v] = "GRAY"
          BY <4>8, <5>4 DEF LoopAnswer, Passed, V, E
        <5>6. Proper(V, E, n, e.colour)
          BY <4>4, <4>8 DEF Named
        <5>7. Proper(V, E, n, r.colour)
          BY <5>3, <5>5, <5>6 DEF Proper
        <5> QED
          BY <5>1, <5>7 DEF Named, r
      <4> QED
        BY <4>7, <4>8
    <3> QED
      BY <3>1, <3>2, <3>3, <3>4 DEF Colours
  <2> QED
    BY <2>1
<1> HIDE DEF P
<1>2. \A k \in Nat : k \in P
  BY <1>1, InductBelow
<1>3. ASSUME NEW c \in Colourings(n, ids) PROVE Fine(c)
  <2>1. Rank(n, ids, c) \in P
    BY <1>2, RankFacts
  <2> QED
    BY <2>1 DEF P
<1> QED
  BY <1>3

LEMMA ScanNames ==
    ASSUME NEW reqs, NEW n, NEW ids, Readable(reqs, n, ids), HeldOnce(reqs, n, ids),
           NEW f, Scan(reqs, n, ids, f)
    PROVE  Named(Nodes(n, ids), Edges(reqs, n, ids), n, f[n])
<1> DEFINE V == Nodes(n, ids)
           E == Edges(reqs, n, ids)
           visit == Visit(reqs, n, ids)
           P == { k \in 0 .. n : Named(V, E, n, f[k]) }
<1>1. n \in Nat /\ NodeCount(n, ids) \in Nat /\ \A k \in 0 .. n - 1 : k \in V
  BY DEF Readable, Nodes, NodeCount
<1>2. 0 \in P
  <2> DEFINE d == [ v \in V |-> "WHITE" ]
  <2>1. f[0] = [ cycle |-> FALSE, train |-> NoTrain, colour |-> d ]
    BY DEF Scan
  <2>2. Proper(V, E, n, d)
    BY DEF Proper
  <2> HIDE DEF d
  <2>3. Named(V, E, n, f[0])
    BY <2>1, <2>2 DEF Named
  <2> QED
    BY <1>1, <2>3
<1>3. ASSUME NEW k \in 1 .. n, k - 1 \in P PROVE k \in P
  <2> DEFINE r == f[k - 1]
             w == k - 1
             s == visit[r.colour][w]
  <2>1. Named(V, E, n, r)
    BY <1>3
  <2>2. /\ w \in V /\ ~ w >= n
        /\ f[k] = IF r.cycle \/ r.colour[w] # "WHITE" THEN r ELSE s
        /\ ScanAnswer(reqs, n, ids, r, w)
        /\ r.colour \in Colourings(n, ids)
    <3>1. w \in 0 .. n /\ w \in V /\ ~ w >= n
      BY <1>1
    <3>2. r \in Results(n, ids) /\ f[k] = IF r.cycle \/ r.colour[w] # "WHITE" THEN r ELSE s
      BY <3>1 DEF Scan
    <3>3. ScanAnswer(reqs, n, ids, r, w)
      BY <3>1, ScanAnswers
    <3> HIDE DEF r, w, s
    <3> QED
      BY <3>1, <3>2, <3>3 DEF Results
  <2> HIDE DEF r, w, V, E
  <2>3. CASE r.cycle \/ r.colour[w] # "WHITE"
    BY <1>1, <2>1, <2>2, <2>3
  <2>4. CASE ~ r.cycle /\ r.colour[w] = "WHITE"
    <3>1. Explored(V, E, r.colour)
      BY <2>2, <2>4 DEF ScanAnswer, V, E
    <3>2. Proper(V, E, n, r.colour)
      BY <2>1, <2>4 DEF Named
    <3>3. Entered(V, E, n, r.colour, w)
      BY <2>2 DEF Entered
    <3>4. Named(V, E, n, s)
      BY <2>2, <3>1, <3>2, <3>3, VisitNames DEF V, E
    <3> QED
      BY <1>1, <2>2, <2>4, <3>4
  <2> QED
    BY <2>3, <2>4
<1> HIDE DEF P
<1>4. \A k \in 0 .. n : k \in P
  BY <1>1, <1>2, <1>3, InductUpTo
<1>5. n \in P
  BY <1>1, <1>4
<1> QED
  BY <1>5 DEF P

\* Where no track is held by two trains, detect_deadlock returns a train
\* whenever some train is on a cycle of waits: "Returns the node_id of a train
\* in a cycle, or -1 if no cycle" (deadlock_detector.c:140).
THEOREM SearchIsComplete ==
    ASSUME NEW reqs, NEW n, NEW ids, Readable(reqs, n, ids), HeldOnce(reqs, n, ids),
           NEW i \in 0 .. n - 1, OnWaitCycle(reqs, n, ids, i)
    PROVE  DetectDeadlock(reqs, n, ids) # NoTrain
<1> DEFINE V == Nodes(n, ids)
           E == Edges(reqs, n, ids)
<1>1. n \in Nat /\ n \in 0 .. n /\ i \in V /\ i < n
  BY DEF Readable, Nodes, NodeCount
<1>2. PICK f : Scan(reqs, n, ids, f) /\ DetectDeadlock(reqs, n, ids) = f[n].train
  BY ScanExists
<1>3. ScanAnswer(reqs, n, ids, f[n], n) /\ Named(V, E, n, f[n])
  BY <1>1, <1>2, ScanAnswers, ScanNames
<1>4. LeadsTo(V, E, i, i)
  BY WaitLeads DEF OnWaitCycle
<1> HIDE DEF V, E
<1>5. f[n].cycle
  BY <1>1, <1>3, <1>4 DEF ScanAnswer, Explored, V, E
<1> QED
  BY <1>2, <1>3, <1>5 DEF Named

-----------------------------------------------------------------------------
(* The tracks that the search is given. *)

TrackRecords == [ track_id : Nat, length : Int, endpoints : SUBSET Int ]

\* track_list holds a track at its own id, and zeroed entries elsewhere.
InPlace(tracks) ==
    /\ tracks.track_list \in [0 .. MAX_TRACKS - 1 -> TrackRecords]
    /\ tracks.track_count \in Nat
    /\ \A t \in 0 .. MAX_TRACKS - 1 :
          tracks.track_list[t].length # 0 => tracks.track_list[t].track_id = t

LEMMA NothingInPlace == InPlace(NoTracks)
<1>1. ZeroTrack \in TrackRecords /\ ZeroTrack.length = 0
  BY DEF ZeroTrack, TrackRecords
<1>2. NoTracks.track_list = [ t \in 0 .. MAX_TRACKS - 1 |-> ZeroTrack ] /\ NoTracks.track_count = 0
  BY DEF NoTracks
<1> QED
  BY <1>1, <1>2 DEF InPlace

\* A line either is refused or fills the entry of its id.
LEMMA LineInPlace ==
    ASSUME NEW tracks, InPlace(tracks), NEW line \in Seq(Int)
    PROVE  InPlace(LoadLine(tracks, line))
<1>1. CASE ~ IsTrackLine(line)
  BY <1>1 DEF LoadLine
<1>2. CASE IsTrackLine(line)
  <2> DEFINE id == line[1]
             track == TrackOf(line)
             after == LoadLine(tracks, line)
  <2>1. /\ id \in 0 .. MAX_TRACKS - 1
        /\ after.track_list = [ tracks.track_list EXCEPT ![id] = track ]
        /\ after.track_count = tracks.track_count + 1
    BY <1>2 DEF LoadLine, IsTrackLine
  <2>2. track.track_id = id /\ track \in TrackRecords
    <3>1. \A k \in {3, 4, 5, 6} : line[k] \in Int
      BY <1>2 DEF IsTrackLine
    <3>2. id \in Nat
      BY <2>1
    <3> QED
      BY <3>1, <3>2 DEF TrackOf, DEFAULT_BLOCK_LENGTH_MM, TrackRecords
  <2> HIDE DEF id, track, after
  <2>3. ASSUME NEW t \in 0 .. MAX_TRACKS - 1, after.track_list[t].length # 0
        PROVE  after.track_list[t].track_id = t
    BY <2>1, <2>2, <2>3 DEF InPlace
  <2>4. InPlace(after)
    BY <2>1, <2>2, <2>3 DEF InPlace
  <2> QED
    BY <2>4 DEF after
<1> QED
  BY <1>1, <1>2

\* What the loops over the first track_count entries meet can be searched.
LEMMA VisitedFacts ==
    ASSUME NEW tracks, InPlace(tracks), tracks.track_count <= MAX_TRACKS
    PROVE  VisitedIds(tracks) \in Seq(Nat)
<1>1. ASSUME NEW k \in 1 .. tracks.track_count
      PROVE  tracks.track_list[k - 1].track_id \in Nat
  BY MaxTracksAssumption DEF InPlace, TrackRecords
<1> QED
  BY <1>1 DEF VisitedIds, InPlace

\* What load_track_data can have read.
Loadings ==
    { t \in [ track_list : [0 .. MAX_TRACKS - 1 -> TrackRecords], track_count : Nat ] : InPlace(t) }

\* LoadTracks is what reading line by line, which keeps tracks in place, makes
\* of NoTracks.
LEMMA FileLoops ==
    ASSUME NEW lines \in Seq(Seq(Int))
    PROVE  \E a \in [0 .. Len(lines) -> Loadings] :
              /\ LoadTracks(lines) = a[Len(lines)] /\ a[0] = NoTracks
              /\ \A k \in 1 .. Len(lines) : a[k] = LoadLine(a[k - 1], lines[k])
<1> DEFINE K == Len(lines)
           IsAfter(f) == f = [ k \in 0 .. K |-> IF k = 0 THEN NoTracks ELSE LoadLine(f[k - 1], lines[k]) ]
           after == CHOOSE f : IsAfter(f)
           R == Loadings
           G == [ k \in 1 .. K |-> [ t \in R |-> LoadLine(t, lines[k]) ] ]
<1>1. K \in Nat /\ \A k \in 1 .. K : lines[k] \in Seq(Int)
  OBVIOUS
<1>2. LoadTracks(lines) = after[K]
  BY Zenon DEF LoadTracks
<1>3. NoTracks \in R
  BY NothingInPlace DEF NoTracks, InPlace, Loadings
<1>4. ASSUME NEW k \in 1 .. K, NEW t \in R PROVE LoadLine(t, lines[k]) \in R
  <2> DEFINE u == LoadLine(t, lines[k])
  <2>1. InPlace(u)
    BY <1>1, LineInPlace DEF Loadings
  <2>2. u = t \/ u = [ track_list |-> u.track_list, track_count |-> u.track_count ]
    BY DEF LoadLine
  <2> HIDE DEF u
  <2> QED
    BY <2>1, <2>2 DEF InPlace, u, Loadings
<1>5. G \in [1 .. K -> [R -> R]]
  BY <1>4
<1> HIDE DEF K, R, G
<1>6. PICK a \in [0 .. K -> R] : Iterates(K, NoTracks, G, a)
  BY <1>1, <1>3, <1>5, IterationExists
<1>7. a[0] = NoTracks /\ \A k \in 1 .. K : a[k] = LoadLine(a[k - 1], lines[k])
  <2>1. \A k \in 1 .. K : a[k - 1] \in R
    BY <1>1
  <2> QED
    BY <1>6, <2>1 DEF Iterates, G
<1>8. IsAfter(a)
  <2> DEFINE h == [ k \in 0 .. K |-> IF k = 0 THEN NoTracks ELSE LoadLine(a[k - 1], lines[k]) ]
  <2>1. \A k \in 0 .. K : a[k] = h[k]
    BY <1>1, <1>7
  <2>2. h \in [0 .. K -> R]
    BY <1>1, <2>1
  <2> HIDE DEF h
  <2>3. a = h
    BY <1>1, <2>1, <2>2
  <2> QED
    BY <2>3 DEF h
<1>9. IsAfter(after)
  <2> HIDE DEF IsAfter
  <2> QED
    BY <1>8, Zenon
<1> HIDE DEF after
<1> DEFINE P == { k \in 0 .. K : after[k] = a[k] }
<1>10. 0 \in P
  BY <1>1, <1>7, <1>9
<1>11. ASSUME NEW k \in 1 .. K, k - 1 \in P PROVE k \in P
  <2>1. after[k] = LoadLine(after[k - 1], lines[k])
    BY <1>1, <1>9
  <2> QED
    BY <1>1, <1>7, <1>11, <2>1
<1> HIDE DEF P
<1>12. \A k \in 0 .. K : k \in P
  BY <1>1, <1>10, <1>11, InductUpTo
<1>13. K \in P /\ K \in 0 .. K
  BY <1>1, <1>12
<1>14. LoadTracks(lines) = a[K]
  BY <1>2, <1>13 DEF P
<1> QED
  BY <1>7, <1>14 DEF R, K

\* A whole file leaves every track it names in place.
LEMMA FileInPlace ==
    ASSUME NEW lines \in Seq(Seq(Int))
    PROVE  InPlace(LoadTracks(lines))
<1>1. PICK a \in [0 .. Len(lines) -> Loadings] : LoadTracks(lines) = a[Len(lines)]
  BY FileLoops
<1>2. Len(lines) \in 0 .. Len(lines)
  OBVIOUS
<1>3. a[Len(lines)] \in Loadings
  BY <1>2
<1> QED
  BY <1>1, <1>3 DEF Loadings

\* The lines among the first k that configure a track.
TrackLinesUpto(lines, k) == { j \in 1 .. k : IsTrackLine(lines[j]) }

Filled(tracks) == { t \in 0 .. MAX_TRACKS - 1 : tracks.track_list[t].length # 0 }

\* A whole file fills the entries of the ids it names, and counts its lines.
LEMMA FileFills ==
    ASSUME NEW lines \in Seq(Seq(Int))
    PROVE  LET used == TrackLinesUpto(lines, Len(lines))
           IN  /\ Filled(LoadTracks(lines)) = { lines[j][1] : j \in used }
               /\ LoadTracks(lines).track_count = Cardinality(used)
<1> DEFINE K == Len(lines)
           used(k) == TrackLinesUpto(lines, k)
           named(k) == { lines[j][1] : j \in used(k) }
<1>1. K \in Nat
  OBVIOUS
<1>2. PICK a \in [0 .. K -> Loadings] :
          /\ LoadTracks(lines) = a[K] /\ a[0] = NoTracks
          /\ \A k \in 1 .. K : a[k] = LoadLine(a[k - 1], lines[k])
  BY FileLoops
<1> HIDE DEF K
<1> DEFINE P == { k \in 0 .. K : /\ IsFiniteSet(used(k)) /\ a[k].track_count = Cardinality(used(k))
                                 /\ Filled(a[k]) = named(k) }
<1>3. 0 \in P
  <2>1. used(0) = {} /\ named(0) = {}
    BY DEF TrackLinesUpto
  <2>2. Filled(NoTracks) = {} /\ NoTracks.track_count = 0
    BY DEF Filled, NoTracks, ZeroTrack
  <2>3. 0 \in 0 .. K
    BY <1>1
  <2> HIDE DEF used, named
  <2> QED
    BY <1>2, <2>1, <2>2, <2>3, FS_EmptySet
<1>4. ASSUME NEW k \in 1 .. K, k - 1 \in P PROVE k \in P
  <2> DEFINE t == a[k - 1]
             line == lines[k]
  <2>1. /\ k \in 0 .. K /\ k - 1 \in 0 .. K /\ k \in Nat /\ 1 .. k = 1 .. k - 1 \union {k}
        /\ k \notin used(k - 1)
    BY <1>1 DEF TrackLinesUpto
  <2>2. t \in Loadings /\ a[k] = LoadLine(t, line)
    BY <1>2, <2>1
  <2>3. /\ IsFiniteSet(used(k - 1)) /\ t.track_count = Cardinality(used(k - 1))
        /\ Filled(t) = named(k - 1)
    BY <1>4
  <2>4. CASE ~ IsTrackLine(line)
    <3>1. used(k) = used(k - 1)
      BY <2>1, <2>4 DEF TrackLinesUpto
    <3>2. a[k] = t
      BY <2>2, <2>4 DEF LoadLine
    <3> HIDE DEF used, t
    <3> QED
      BY <2>1, <2>3, <3>1, <3>2
  <2>5. CASE IsTrackLine(line)
    <3> DEFINE id == line[1]
    <3>1. used(k) = used(k - 1) \union {k}
      BY <2>1, <2>5 DEF TrackLinesUpto
    <3>2. named(k) = named(k - 1) \union {id}
      <4> HIDE DEF used
      <4> QED
        BY <3>1
    <3>3. /\ id \in 0 .. MAX_TRACKS - 1 /\ a[k].track_count = t.track_count + 1
          /\ a[k].track_list = [ t.track_list EXCEPT ![id] = TrackOf(line) ]
      BY <2>2, <2>5 DEF LoadLine, IsTrackLine
    <3>4. TrackOf(line).length # 0
      BY DEF TrackOf, DEFAULT_BLOCK_LENGTH_MM
    <3>5. t.track_list \in [0 .. MAX_TRACKS - 1 -> TrackRecords]
      BY <2>2 DEF Loadings
    <3>6. Filled(a[k]) = Filled(t) \union {id}
      <4> HIDE DEF t, line, id
      <4> QED
        BY <3>3, <3>4, <3>5 DEF Filled
    <3>7. /\ IsFiniteSet(used(k - 1) \union {k})
          /\ Cardinality(used(k - 1) \union {k}) = Cardinality(used(k - 1)) + 1
      <4> HIDE DEF used
      <4> QED
        BY <2>1, <2>3, FS_AddElement
    <3> HIDE DEF used, named, t, id
    <3> QED
      BY <2>1, <2>3, <3>1, <3>2, <3>3, <3>6, <3>7
  <2> QED
    BY <2>4, <2>5
<1>5. K \in P
  <2> HIDE DEF P
  <2>1. \A k \in 0 .. K : k \in P
    BY <1>1, <1>3, <1>4, InductUpTo
  <2> QED
    BY <1>1, <2>1
<1> QED
  BY <1>2, <1>5 DEF K
=============================================================================
