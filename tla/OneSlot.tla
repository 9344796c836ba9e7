------------------------------ MODULE OneSlot ------------------------------
(***************************************************************************)
(* What the ownership handoff of world_swap.rs promises, at the grain its  *)
(* users can see: a box that holds at most one owned value.  Put makes the *)
(* value visible; Take moves it out; until Release the emptied box does    *)
(* not accept another value yet (the consumer is still inside try_pop).    *)
(***************************************************************************)
CONSTANTS
  Items,   \* the values that may be handed over
  Nothing  \* no value, and not an item

VARIABLES
  box,     \* the value that waits for the consumer, or Nothing
  leaving  \* the consumer has moved a value out and not released the box

Init == box = Nothing /\ leaving = FALSE

Free == box = Nothing /\ ~leaving

Put(v) == Free /\ box' = v /\ UNCHANGED leaving

Take(v) == box = v /\ box' = Nothing /\ leaving' = TRUE

Release == leaving /\ leaving' = FALSE /\ UNCHANGED box

Next == (\E v \in Items : Put(v) \/ Take(v)) \/ Release

Spec == Init /\ [][Next]_<<box, leaving>>
=============================================================================
