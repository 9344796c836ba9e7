--------------------------- MODULE WorldAuthority ---------------------------
(***************************************************************************)
(* Who speaks for the acoustics, seen from outside: one world is active,   *)
(* one more may be ready to follow it or may still be ringing out after    *)
(* it, never both.  "At most one prepared neighbor, and at most two        *)
(* resident worlds" (fightbox-world/FORMAT.md).                            *)
(***************************************************************************)
CONSTANTS
  Worlds,
  None     \* no world

VARIABLES
  active,  \* the world that has authority over new events
  next,    \* the world that is ready to take it
  old      \* the world that had it and whose tails still sound

Init == active \in Worlds /\ next = None /\ old = None

Prepare(w) ==
  /\ next = None /\ old = None
  /\ w # active
  /\ next' = w
  /\ UNCHANGED <<active, old>>

Discard == next # None /\ next' = None /\ UNCHANGED <<active, old>>

Adopt ==
  /\ next # None /\ old = None
  /\ active' = next
  /\ old' = active
  /\ next' = None

Retire == old # None /\ old' = None /\ UNCHANGED <<active, next>>

Next == (\E w \in Worlds : Prepare(w)) \/ Discard \/ Adopt \/ Retire

Spec == Init /\ [][Next]_<<active, next, old>>
=============================================================================
