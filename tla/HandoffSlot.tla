---------------------------- MODULE HandoffSlot ----------------------------
(***************************************************************************)
(* The one-slot ownership channel of fightbox-steam-audio/src/world_swap.rs*)
(* at the grain of its atomic accesses: the producer end (is_ready,        *)
(* try_reserve, publish_reserved, discard_reservation, try_push), the      *)
(* consumer end (try_pop) and the drop of the two ends.                    *)
(*                                                                         *)
(* The compare-exchange on `state`, the access to the cell and the store   *)
(* that gives the cell to the other end are three steps.  A value is an    *)
(* owned object: `cell` keeps the stale bytes of a value that was moved    *)
(* out, as the memory does, and `initialized` says whether the cell owns   *)
(* what it holds.                                                          *)
(*                                                                         *)
(* Its specification is HandoffSpec, so that a module can extend it beside *)
(* a user of the slot (NeutralSwap_proofs does).                           *)
(***************************************************************************)
CONSTANTS
  Items,   \* the values the producer hands over, each of them once
  Nothing  \* an uninitialized cell, or no value

ASSUME ItemsAssumption == Nothing \notin Items

VARIABLES
  state,        \* Shared.state
  cell,         \* the bytes of Shared.value
  initialized,  \* the cell owns the value it holds
  pusher,       \* where the producer is
  pvalue,       \* the value the producer is handing over
  fresh,        \* the values the producer still owns
  popper,       \* where the consumer is
  cvalue,       \* the value try_pop has moved out
  received,     \* the values the consumer has returned to its caller
  freed,        \* the values Drop for Shared has dropped
  ends          \* the ends that have not been dropped

slotVars == <<state, cell, initialized>>
producerVars == <<pusher, pvalue, fresh>>
consumerVars == <<popper, cvalue, received>>
handoffVars == <<state, cell, initialized, pusher, pvalue, fresh, popper,
                 cvalue, received, freed, ends>>

States == {"EMPTY", "WRITING", "FULL", "READING", "RESERVED"}

HandoffInit ==
  /\ state = "EMPTY" /\ cell = Nothing /\ initialized = FALSE
  /\ pusher = "idle" /\ pvalue = Nothing /\ fresh = Items
  /\ popper = "idle" /\ cvalue = Nothing /\ received = {}
  /\ freed = {}
  /\ ends = {"producer", "consumer"}

-----------------------------------------------------------------------------
(* The producer                                                            *)

ProducerIdle == "producer" \in ends /\ pusher = "idle"

(* try_reserve; a failed exchange returns false and changes nothing.       *)
TryReserve ==
  /\ ProducerIdle
  /\ state = "EMPTY"
  /\ state' = "RESERVED"
  /\ UNCHANGED <<cell, initialized, producerVars, consumerVars, freed, ends>>

DiscardReservation ==
  /\ ProducerIdle
  /\ state = "RESERVED"
  /\ state' = "EMPTY"
  /\ UNCHANGED <<cell, initialized, producerVars, consumerVars, freed, ends>>

(* The exchange of publish_reserved (from RESERVED) or of try_push (from   *)
(* EMPTY).  On failure the value goes back to the caller.                  *)
Claim(from, v) ==
  /\ ProducerIdle
  /\ state = from
  /\ state' = "WRITING"
  /\ pusher' = "write"
  /\ pvalue' = v
  /\ fresh' = fresh \ {v}
  /\ UNCHANGED <<cell, initialized, consumerVars, freed, ends>>

PublishReserved == \E v \in fresh : Claim("RESERVED", v)

(* Fault: try_push does not look at the state it replaces.                 *)
TryPushUnchecked == \E v \in fresh : Claim(state, v)

TryPush == \E v \in fresh : Claim("EMPTY", v)

(* MaybeUninit::write does not drop what the cell held.                    *)
WriteValue ==
  /\ pusher = "write"
  /\ cell' = pvalue
  /\ initialized' = TRUE
  /\ pvalue' = Nothing
  /\ pusher' = "store"
  /\ UNCHANGED <<state, fresh, consumerVars, freed, ends>>

StoreFull ==
  /\ pusher = "store"
  /\ state' = "FULL"
  /\ pusher' = "idle"
  /\ UNCHANGED <<cell, initialized, pvalue, fresh, consumerVars, freed, ends>>

-----------------------------------------------------------------------------
(* The consumer                                                            *)

(* Fault: the consumer does not claim the slot before it reads.            *)
TryPopUnclaimed ==
  /\ "consumer" \in ends
  /\ popper = "idle"
  /\ state = "FULL"
  /\ popper' = "read"
  /\ state' = "EMPTY"
  /\ UNCHANGED <<cell, initialized, producerVars, cvalue, received, freed, ends>>

(* try_pop; with any other state the exchange fails and it returns None.   *)
TryPop ==
  /\ "consumer" \in ends
  /\ popper = "idle"
  /\ state = "FULL"
  /\ state' = "READING"
  /\ popper' = "read"
  /\ UNCHANGED <<cell, initialized, producerVars, cvalue, received, freed, ends>>

(* assume_init_read copies the bytes; the cell owns nothing any more.      *)
ReadValue ==
  /\ popper = "read"
  /\ cvalue' = cell
  /\ initialized' = FALSE
  /\ popper' = "store"
  /\ UNCHANGED <<state, cell, producerVars, received, freed, ends>>

StoreEmpty ==
  /\ popper = "store"
  /\ state' = "EMPTY"
  /\ received' = received \cup {cvalue}
  /\ cvalue' = Nothing
  /\ popper' = "idle"
  /\ UNCHANGED <<cell, initialized, producerVars, freed, ends>>

-----------------------------------------------------------------------------
(* An end is dropped between two calls; the last one drops the value that  *)
(* FULL says the slot still owns (Drop for Shared).                        *)

(* Fault: Drop for Shared does not look at the state.                      *)
SharedDropUnchecked == freed \cup {cell}

(* The values dropped once Drop for Shared has run.                        *)
SharedDrop == IF state = "FULL" THEN freed \cup {cell} ELSE freed

DropEnd(e) ==
  /\ e \in ends
  /\ IF e = "producer" THEN pusher = "idle" ELSE popper = "idle"
  /\ ends' = ends \ {e}
  /\ IF ends' = {}
       THEN freed' = SharedDrop /\ initialized' = FALSE
       ELSE UNCHANGED <<freed, initialized>>
  /\ UNCHANGED <<state, cell, producerVars, consumerVars>>

Producer == \/ TryReserve \/ DiscardReservation \/ PublishReserved \/ TryPush
            \/ WriteValue \/ StoreFull

Consumer == TryPop \/ ReadValue \/ StoreEmpty

HandoffNext == Producer \/ Consumer \/ \E e \in {"producer", "consumer"} : DropEnd(e)

HandoffSpec == HandoffInit /\ [][HandoffNext]_handoffVars

-----------------------------------------------------------------------------
(* Properties                                                              *)

HandoffTypeOK ==
  /\ state \in States
  /\ cell \in Items \cup {Nothing}
  /\ initialized \in BOOLEAN
  /\ pusher \in {"idle", "write", "store"}
  /\ pvalue \in Items \cup {Nothing}
  /\ fresh \subseteq Items
  /\ popper \in {"idle", "read", "store"}
  /\ cvalue \in Items \cup {Nothing}
  /\ received \subseteq Items
  /\ freed \subseteq Items
  /\ ends \subseteq {"producer", "consumer"}

(* The SAFETY comments of write and assume_init_read: the producer writes  *)
(* only into an uninitialized cell (or it would leak a generation), the    *)
(* consumer reads only an initialized one, and never both at once.         *)
ExclusiveCell ==
  /\ pusher = "write" => ~initialized /\ popper = "idle"
  /\ popper = "read" => initialized /\ pusher = "idle"

(* The places that may own a value.                                        *)
Owned == [producer |-> fresh,
          handing  |-> IF pusher = "write" THEN {pvalue} ELSE {},
          slot     |-> IF initialized THEN {cell} ELSE {},
          popping  |-> IF popper = "store" THEN {cvalue} ELSE {},
          consumer |-> received,
          dropped  |-> freed]

(* Whole owned generations move: at every step every value is owned by     *)
(* exactly one place, whoever drops the channel when, so none is leaked,   *)
(* handed over twice or dropped while it is in use.                        *)
OwnedExactlyOnce ==
  \A v \in Items : \E p \in DOMAIN Owned :
    \A q \in DOMAIN Owned : v \in Owned[q] <=> q = p

(* The channel implements the one-place box: a value enters it with the    *)
(* store of FULL and leaves it with the consumer's exchange.               *)
Box == INSTANCE OneSlot WITH
  box <- IF state = "FULL" THEN cell ELSE Nothing,
  leaving <- popper # "idle"

ImplementsBox == Box!Spec
=============================================================================
