----------------------------- MODULE RoleStage -----------------------------
(***************************************************************************)
(* What the macro scheduler promises its host: an admitted event waits     *)
(* until it starts, starts once, and has its role to itself until it is    *)
(* over; one that starts after its deadline is over at once.  The events   *)
(* of one call start together.                                             *)
(***************************************************************************)
CONSTANTS
  Events, Roles, None,
  Role     \* the role each event is pinned to

VARIABLES
  pending,  \* the admitted events that have not started
  playing   \* the event each role plays

Init == pending = {} /\ playing = [r \in Roles |-> None]

Admit(es) ==
  /\ es \cap pending = {}
  /\ pending' = pending \cup es
  /\ UNCHANGED playing

Start(es) ==
  /\ es \subseteq pending
  /\ \A e, f \in es : e # f => Role[e] # Role[f]
  /\ \A e \in es : playing[Role[e]] = None
  /\ \A e \in es : playing'[Role[e]] \in {e, None}
  /\ \A r \in Roles : (\A e \in es : Role[e] # r) => playing'[r] = playing[r]
  /\ DOMAIN playing' = Roles
  /\ pending' = pending \ es

(* Any roles may fall silent at once: they share the clock.                *)
Finish(rs) ==
  /\ playing' = [r \in Roles |-> IF r \in rs THEN None ELSE playing[r]]
  /\ UNCHANGED pending

Next ==
  \/ \E es \in SUBSET Events : Admit(es) \/ Start(es)
  \/ \E rs \in SUBSET Roles : Finish(rs)

Spec == Init /\ [][Next]_<<pending, playing>>
=============================================================================
