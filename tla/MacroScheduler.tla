--------------------------- MODULE MacroScheduler ---------------------------
(***************************************************************************)
(* Far-away events on their way to the listener: MacroEventQueue and       *)
(* MacroEventScheduler of fightbox-runtime/src/macro_transport.rs under    *)
(* MacroLocalIngress of ingress.rs, which owns them and keeps the tail of  *)
(* what it started.                                                        *)
(*                                                                         *)
(* The control thread admits events long before they are heard.  It either *)
(* starts what is due, or reserves the earliest common frame in advance    *)
(* and commits or discards that batch later; other calls, and other        *)
(* batches, may come in between.  A call that returns an error changes     *)
(* nothing and is not a step.                                              *)
(*                                                                         *)
(* Slots have no identity here: the id index and the order of a batch are  *)
(* left out.  Gains, assets and the choice between the detailed cell and   *)
(* the fallback are as well; the local leg, which decides how much longer  *)
(* a tail is heard, is any of LocalDelays.                                 *)
(***************************************************************************)
EXTENDS Integers, FiniteSets

CONSTANTS
  Events,       \* event ids
  Roles,        \* EventRole
  Role, Group, Frame, Deadline,
                \* of each event: role, atomic_group_id,
                \* ingress_activation_frame, tail_deadline_frame
  EchoRoles,    \* the roles with authored echo
  Anchors,      \* echo anchors, with
  NoAnchor,     \* all zeros
  LocalDelays,  \* frames of the final local leg
  Capacity,     \* MACRO_EVENT_QUEUE_CAPACITY
  MaxFrame,     \* bound: the clock
  None

ASSUME MacroAssumption ==
  /\ Events \subseteq Nat
  /\ Role \in [Events -> Roles]
  /\ Group \in [Events -> Nat]
  /\ Frame \in [Events -> Nat]
  /\ Deadline \in [Events -> Nat]
  /\ \A e \in Events : Frame[e] <= Deadline[e]  \* ScheduledMacroEvent::validate
  /\ NoAnchor \in Anchors
  /\ LocalDelays \subseteq Nat
  /\ MaxFrame \in Nat
  /\ None \notin Events

VARIABLES
  queue,    \* the occupied slots: [event, anchor, reserved]
  voices,   \* MacroEventScheduler.voices: [event, deadline] by role, or Silent
  tails,    \* MacroLocalIngress.tails, likewise
  now,      \* the frame the host is at
  batches   \* the reservations the host was handed

vars == <<queue, voices, tails, now, batches>>

Slots == [event: Events, anchor: Anchors, reserved: BOOLEAN]
Slot(e, a, held) == [event |-> e, anchor |-> a, reserved |-> held]
Silent == [event |-> None, deadline |-> 0]
Sounds == [event: Events, deadline: Nat] \cup {Silent}

Init ==
  /\ queue = {}
  /\ voices = [r \in Roles |-> Silent]
  /\ tails = [r \in Roles |-> Silent]
  /\ now = 0
  /\ batches = {}

RoleOf(s) == Role[s.event]
FrameOf(s) == Frame[s.event]
Reserved == {s \in queue : s.reserved}
Dormant == {s \in queue : ~s.reserved}

(* The record of a slot, as a batch names it.                              *)
Record(s) == [event |-> s.event, anchor |-> s.anchor]

Holding(records) == {s \in queue : Record(s) \in records}

-----------------------------------------------------------------------------
(* Admission                                                               *)

AdmitGroup(es) ==
  /\ es # {}
  /\ \A e, f \in es : Group[e] = Group[f] /\ (e # f => Role[e] # Role[f])
  /\ \A s \in queue : s.event \notin es
  /\ Cardinality(queue) + Cardinality(es) <= Capacity
  /\ queue' = queue \cup {Slot(e, NoAnchor, FALSE) : e \in es}
  /\ UNCHANGED <<voices, tails, now, batches>>

BindEchoAnchor(s, a) ==
  /\ s \in Dormant
  /\ RoleOf(s) \in EchoRoles
  /\ a # NoAnchor
  /\ queue' = (queue \ {s}) \cup {[s EXCEPT !.anchor = a]}
  /\ UNCHANGED <<voices, tails, now, batches>>

-----------------------------------------------------------------------------
(* Starting what is due                                                    *)

(* retire_due_voices, and retire_due of the ingress                        *)
Retire(sounds) ==
  [r \in Roles |-> IF sounds[r].deadline <= now THEN Silent ELSE sounds[r]]

(* `sounds` after the slots of `started` have taken their roles, each with *)
(* its deadline extended by the local leg before the call returns.         *)
Sounding(sounds, started, delay) ==
  [r \in Roles |->
     IF \E s \in started : RoleOf(s) = r
       THEN LET s == CHOOSE s \in started : RoleOf(s) = r IN
            [event |-> s.event, deadline |-> Deadline[s.event] + delay[r]]
       ELSE sounds[r]]

(* Fault: extend_active_tail is left out.                                  *)
StartWithoutExtension(started, kept, delay) ==
  /\ queue' = queue \ started
  /\ voices' = Sounding(Retire(voices), started, [r \in Roles |-> 0])
  /\ tails' = Sounding(kept, started, delay)

Start(started, kept, delay) ==
  /\ queue' = queue \ started
  /\ voices' = Sounding(Retire(voices), started, delay)
  /\ tails' = Sounding(kept, started, delay)

(* The order of earliest_due_for_available_roles within one role.          *)
Earlier(s, t) ==
  \/ FrameOf(s) < FrameOf(t)
  \/ FrameOf(s) = FrameOf(t) /\ Group[s.event] < Group[t.event]
  \/ FrameOf(s) = FrameOf(t) /\ Group[s.event] = Group[t.event] /\ s.event < t.event

FirstOfEachRole(slots) ==
  {s \in slots : \A t \in slots \ {s} : RoleOf(t) = RoleOf(s) => Earlier(s, t)}

Due == {s \in Dormant : FrameOf(s) <= now /\ Retire(voices)[RoleOf(s)] = Silent}

ActivateDue(delay) ==
  /\ Start(FirstOfEachRole(Due), Retire(tails), delay)
  /\ UNCHANGED <<now, batches>>

-----------------------------------------------------------------------------
(* Reserving a batch, and what becomes of it                               *)

Eligible(lookahead) ==
  {s \in Dormant : /\ FrameOf(s) <= lookahead
                   /\ voices[RoleOf(s)].deadline <= FrameOf(s)}

(* The events of the earliest eligible frame, one of each role.            *)
NextActivation(lookahead) ==
  FirstOfEachRole({s \in Eligible(lookahead) :
                     \A t \in Eligible(lookahead) : FrameOf(s) <= FrameOf(t)})

(* Fault: a reservation that is held does not bar the next.                *)
ReserveNextActivationAgain(lookahead) ==
  LET chosen == NextActivation(lookahead) IN
  /\ chosen # {}
  /\ queue' = (queue \ chosen) \cup {[s EXCEPT !.reserved = TRUE] : s \in chosen}
  /\ batches' = batches \cup {{Record(s) : s \in chosen}}
  /\ UNCHANGED <<voices, tails, now>>

ReserveNextActivation(lookahead) ==
  LET chosen == NextActivation(lookahead) IN
  /\ Reserved = {}
  /\ chosen # {}
  /\ queue' = (queue \ chosen) \cup {[s EXCEPT !.reserved = TRUE] : s \in chosen}
  /\ batches' = batches \cup {{Record(s) : s \in chosen}}
  /\ UNCHANGED <<voices, tails, now>>

(* Fault: a busy role does not stop the commit.                            *)
ValidCommitBusy(batch) ==
  /\ batch \subseteq {Record(s) : s \in Reserved}
  /\ \A b \in batch : Frame[b.event] = now

(* validate_reserved_commit                                                *)
ValidCommit(batch) ==
  /\ batch \subseteq {Record(s) : s \in Reserved}
  /\ \A b \in batch : Frame[b.event] = now /\ voices[Role[b.event]].deadline <= now

(* The scheduler retires its voices here; the ingress keeps its old tails  *)
(* until the next ActivateDue.                                             *)
CommitReserved(batch, delay) ==
  /\ ValidCommit(batch)
  /\ Start(Holding(batch), tails, delay)
  /\ UNCHANGED <<now, batches>>

DiscardReserved(batch) ==
  /\ batch \subseteq {Record(s) : s \in queue}
  /\ queue' = (queue \ Holding(batch))
       \cup {[s EXCEPT !.reserved = FALSE] : s \in Holding(batch)}
  /\ UNCHANGED <<voices, tails, now, batches>>

-----------------------------------------------------------------------------
(* A role falls silent before its deadline.                                *)
Release(r) ==
  /\ voices[r] # Silent
  /\ voices' = [voices EXCEPT ![r] = Silent]
  /\ tails' = [tails EXCEPT ![r] = IF tails[r].event = voices[r].event THEN Silent ELSE tails[r]]
  /\ UNCHANGED <<queue, now, batches>>

Advance ==
  /\ now < MaxFrame
  /\ now' = now + 1
  /\ UNCHANGED <<queue, voices, tails, batches>>

Next ==
  \/ \E es \in SUBSET Events : AdmitGroup(es)
  \/ \E s \in queue, a \in Anchors : BindEchoAnchor(s, a)
  \/ \E delay \in [Roles -> LocalDelays] :
       ActivateDue(delay) \/ \E batch \in batches : CommitReserved(batch, delay)
  \/ \E lookahead \in now..MaxFrame : ReserveNextActivation(lookahead)
  \/ \E batch \in batches : DiscardReserved(batch)
  \/ \E r \in Roles : Release(r)
  \/ Advance

Spec == Init /\ [][Next]_vars

-----------------------------------------------------------------------------
(* Properties                                                              *)

TypeOK ==
  /\ queue \subseteq Slots
  /\ voices \in [Roles -> Sounds]
  /\ tails \in [Roles -> Sounds]
  /\ now \in 0..MaxFrame
  /\ batches \subseteq SUBSET [event: Events, anchor: Anchors]

(* "Only one reservation batch may exist": whatever was admitted, bound,   *)
(* discarded or committed in between, the reserved slots all come from one *)
(* batch that was handed out, of one frame and with one event of a role.   *)
OneBatch ==
  /\ Reserved # {} => \E batch \in batches : {Record(s) : s \in Reserved} \subseteq batch
  /\ \A s, t \in Reserved :
       FrameOf(s) = FrameOf(t) /\ (s.event # t.event => RoleOf(s) # RoleOf(t))

(* The two owners of a role agree: the ingress keeps the tail the          *)
(* scheduler counts, to the frame, or one that is already over.            *)
TailsMatchVoices ==
  \A r \in Roles :
    \/ tails[r] = voices[r]
    \/ voices[r] = Silent /\ tails[r].deadline <= now

(* A role that still sounds is never given to another event, by whichever  *)
(* of the two ways an event starts; it can only be released.               *)
RolesNotStolen ==
  [][\A r \in Roles : tails[r].deadline > now => tails'[r] \in {tails[r], Silent}]_vars

(* Dormant to sounding to over, each admission once.                       *)
Playing == [r \in Roles |-> IF voices[r].deadline > now THEN voices[r].event ELSE None]

Pending == {s.event : s \in queue}

Stage == INSTANCE RoleStage WITH
  pending <- Pending,
  playing <- Playing

ImplementsStage == Stage!Spec
=============================================================================
