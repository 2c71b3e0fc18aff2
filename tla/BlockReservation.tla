-------------------------- MODULE BlockReservation ---------------------------
(***************************************************************************)
(* What the DeadlockManager promises about blocks, without tables, slots,  *)
(* records or messages: every train is on at most one block or on none,    *)
(* and it goes only where no other train is.  Going from one block to the  *)
(* next is one step: a train never gives up its block before it has the    *)
(* next one, and never has two.                                            *)
(***************************************************************************)
CONSTANTS Trains, Blocks, Nowhere

VARIABLE at                 \* at[id]: the block train id is on, or Nowhere

Vacant(b) == \A id \in Trains : at[id] # b

Init == at = [ id \in Trains |-> Nowhere ]

Enter(id, b) ==
    /\ Vacant(b)
    /\ at' = [ at EXCEPT ![id] = b ]

Leave(id) == at' = [ at EXCEPT ![id] = Nowhere ]

Next == \E id \in Trains : Leave(id) \/ \E b \in Blocks : Enter(id, b)

Spec == Init /\ [][Next]_at

-----------------------------------------------------------------------------
\* "Block model: exactly one train can occupy a track at a time."
OneTrainPerBlock ==
    \A id, other \in Trains : at[id] = at[other] /\ at[id] # Nowhere => id = other
=============================================================================
