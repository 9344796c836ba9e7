----------------------- MODULE MacroScheduler_proofs -----------------------
(***************************************************************************)
(* The macro scheduler for any events, any number of roles, any clock and  *)
(* any calls of its host.                                                  *)
(***************************************************************************)
EXTENDS MacroScheduler, TLAPS

(* contains_id keeps an event from being queued twice: a slot is known by  *)
(* its event.                                                              *)
OneSlotPerEvent == \A s, t \in queue : s.event = t.event => s = t

(* What the scheduler's voices and the ingress's tails are together.       *)
IInv == TypeOK /\ OneSlotPerEvent /\ OneBatch /\ TailsMatchVoices

-----------------------------------------------------------------------------
(* Lemmas about the operators                                              *)

(* The first slots of the roles are slots of different roles.              *)
LEMMA FirstPerRole ==
  ASSUME NEW slots \in SUBSET Slots
  PROVE  /\ FirstOfEachRole(slots) \subseteq slots
         /\ \A s, t \in FirstOfEachRole(slots) : RoleOf(s) = RoleOf(t) => s = t
<1>1. FirstOfEachRole(slots) \subseteq slots
  BY DEF FirstOfEachRole
<1>2. ASSUME NEW s \in FirstOfEachRole(slots), NEW t \in FirstOfEachRole(slots),
             RoleOf(s) = RoleOf(t), s # t
      PROVE  FALSE
  <2>1. Earlier(s, t) /\ Earlier(t, s)
    BY <1>2 DEF FirstOfEachRole
  <2>2. s.event \in Events /\ t.event \in Events
    BY <1>1, <1>2 DEF Slots
  <2>3. /\ s.event \in Nat /\ t.event \in Nat
        /\ FrameOf(s) \in Nat /\ FrameOf(t) \in Nat
        /\ Group[s.event] \in Nat /\ Group[t.event] \in Nat
    BY <2>2, MacroAssumption DEF FrameOf
  <2>4. QED
    BY <2>1, <2>3, SMT DEF Earlier
<1>3. QED
  BY <1>1, <1>2

LEMMA SilentType == Silent \in Sounds
  BY DEF Sounds

(* Retiring leaves sounds, and nothing that is over.                       *)
LEMMA RetireType ==
  ASSUME NEW sounds \in [Roles -> Sounds]
  PROVE  Retire(sounds) \in [Roles -> Sounds]
  BY SilentType DEF Retire

(* A role that starts has the sound of a slot that starts in it.           *)
LEMMA SoundingOf ==
  ASSUME NEW sounds \in [Roles -> Sounds], NEW started \in SUBSET Slots,
         NEW delay \in [Roles -> LocalDelays], NEW r \in Roles
  PROVE  \/ /\ \A s \in started : RoleOf(s) # r
            /\ Sounding(sounds, started, delay)[r] = sounds[r]
         \/ \E s \in started :
              /\ RoleOf(s) = r
              /\ Sounding(sounds, started, delay)[r] =
                   [event |-> s.event, deadline |-> Deadline[s.event] + delay[r]]
<1>1. CASE \A s \in started : RoleOf(s) # r
  BY <1>1 DEF Sounding
<1>2. CASE \E s \in started : RoleOf(s) = r
  <2>1. PICK s : s = CHOOSE t \in started : RoleOf(t) = r
    OBVIOUS
  <2>2. s \in started /\ RoleOf(s) = r
    BY <1>2, <2>1
  <2>3. Sounding(sounds, started, delay)[r] =
          [event |-> s.event, deadline |-> Deadline[s.event] + delay[r]]
    BY <1>2, <2>1 DEF Sounding
  <2>4. QED
    BY <2>2, <2>3
<1>3. QED
  BY <1>1, <1>2

LEMMA SoundingType ==
  ASSUME NEW sounds \in [Roles -> Sounds], NEW started \in SUBSET Slots,
         NEW delay \in [Roles -> LocalDelays]
  PROVE  Sounding(sounds, started, delay) \in [Roles -> Sounds]
<1>1. ASSUME NEW r \in Roles
      PROVE  Sounding(sounds, started, delay)[r] \in Sounds
  <2>1. CASE Sounding(sounds, started, delay)[r] = sounds[r]
    BY <2>1
  <2>2. ASSUME NEW s \in started,
               Sounding(sounds, started, delay)[r] =
                 [event |-> s.event, deadline |-> Deadline[s.event] + delay[r]]
        PROVE  Sounding(sounds, started, delay)[r] \in Sounds
    <3>1. s.event \in Events
      BY DEF Slots
    <3>2. Deadline[s.event] \in Nat /\ delay[r] \in Nat
      BY <3>1, MacroAssumption
    <3>3. Deadline[s.event] + delay[r] \in Nat
      BY <3>2, SMT
    <3>4. QED
      BY <2>2, <3>1, <3>3 DEF Sounds
  <2>3. \/ Sounding(sounds, started, delay)[r] = sounds[r]
        \/ \E s \in started :
             Sounding(sounds, started, delay)[r] =
               [event |-> s.event, deadline |-> Deadline[s.event] + delay[r]]
    BY SoundingOf
  <2>4. QED
    BY <2>1, <2>2, <2>3
<1>2. QED
  BY <1>1 DEF Sounding

-----------------------------------------------------------------------------
LEMMA InitInv == Init => IInv
<1>. SUFFICES ASSUME Init PROVE IInv
  OBVIOUS
<1>1. TypeOK
  BY SilentType, MacroAssumption, SMT DEF Init, TypeOK
<1>2. OneSlotPerEvent /\ OneBatch
  BY DEF Init, OneSlotPerEvent, OneBatch, Reserved
<1>3. TailsMatchVoices
  BY DEF Init, TailsMatchVoices
<1>4. QED
  BY <1>1, <1>2, <1>3 DEF IInv

(* What every start of slots that were queued, whose roles have fallen     *)
(* silent, preserves; `kept` is either form of the tails before it.        *)
LEMMA StartInv ==
  ASSUME IInv,
         NEW started \in SUBSET queue, NEW delay \in [Roles -> LocalDelays],
         NEW kept \in {tails, Retire(tails)},
         Start(started, kept, delay), UNCHANGED <<now, batches>>
  PROVE  IInv'
<1>1. started \in SUBSET Slots
  BY DEF IInv, TypeOK
<1>2. kept \in [Roles -> Sounds] /\ Retire(voices) \in [Roles -> Sounds]
  BY RetireType DEF IInv, TypeOK
<1>3. TypeOK'
  <2>1. (queue \subseteq Slots)'
    BY DEF IInv, TypeOK, Start
  <2>2. (voices \in [Roles -> Sounds])' /\ (tails \in [Roles -> Sounds])'
    BY <1>1, <1>2, SoundingType DEF Start
  <2>3. QED
    BY <2>1, <2>2 DEF IInv, TypeOK
<1>4. OneSlotPerEvent'
  BY DEF IInv, OneSlotPerEvent, Start
<1>5. OneBatch'
  BY DEF IInv, OneBatch, Start, Reserved, Record
<1>6. TailsMatchVoices'
  <2>1. ASSUME NEW r \in Roles
        PROVE  \/ tails'[r] = voices'[r]
               \/ voices'[r] = Silent /\ tails'[r].deadline <= now
    <3>1. CASE \E s \in started : RoleOf(s) = r
      BY <3>1 DEF Start, Sounding
    <3>2. CASE \A s \in started : RoleOf(s) # r
      <4>1. voices'[r] = Retire(voices)[r] /\ tails'[r] = kept[r]
        BY <3>2 DEF Start, Sounding
      <4>2. /\ voices[r] \in Sounds /\ tails[r] \in Sounds
            /\ \/ tails[r] = voices[r]
               \/ voices[r] = Silent /\ tails[r].deadline <= now
        BY DEF IInv, TypeOK, TailsMatchVoices
      <4>3. now \in Nat /\ 0 <= now /\ Silent.deadline = 0
        BY MacroAssumption, SMT DEF IInv, TypeOK, Silent
      <4>4. CASE kept = tails
        BY <4>1, <4>2, <4>3, <4>4, SMT DEF Retire
      <4>5. CASE kept = Retire(tails)
        BY <4>1, <4>2, <4>3, <4>5, SMT DEF Retire
      <4>6. QED
        BY <4>4, <4>5
    <3>3. QED
      BY <3>1, <3>2
  <2>2. QED
    BY <2>1 DEF TailsMatchVoices
<1>7. QED
  BY <1>3, <1>4, <1>5, <1>6 DEF IInv

(* The calls that only touch the queue keep the voices and the tails.      *)
LEMMA QueueInv ==
  ASSUME IInv, UNCHANGED <<voices, tails, now>>,
         (queue \subseteq Slots)', OneSlotPerEvent', OneBatch',
         (batches \subseteq SUBSET [event: Events, anchor: Anchors])'
  PROVE  IInv'
  BY DEF IInv, TypeOK, TailsMatchVoices

LEMMA AdmitInv ==
  ASSUME IInv, NEW es \in SUBSET Events, AdmitGroup(es)
  PROVE  IInv'
<1> DEFINE new == {Slot(e, NoAnchor, FALSE) : e \in es}
<1>1. (queue \subseteq Slots)'
  <2>1. ASSUME NEW e \in es
        PROVE  Slot(e, NoAnchor, FALSE) \in Slots
    BY MacroAssumption DEF Slots, Slot
  <2>2. QED
    BY <2>1 DEF IInv, TypeOK, AdmitGroup
<1>2. OneSlotPerEvent'
  <2>1. queue' = queue \cup new /\ \A s \in queue : s.event \notin es
    BY DEF AdmitGroup
  <2>2. \A s \in new : s.event \in es /\ s = Slot(s.event, NoAnchor, FALSE)
    BY DEF Slot
  <2>3. \A s, t \in new : s.event = t.event => s = t
    BY <2>2
  <2>4. ASSUME NEW s \in queue \cup new, NEW u \in queue \cup new, s.event = u.event
        PROVE  s = u
    <3>1. CASE s \in queue /\ u \in queue
      BY <2>4, <3>1 DEF IInv, OneSlotPerEvent
    <3>2. CASE s \in new /\ u \in new
      BY <2>3, <2>4, <3>2
    <3>3. CASE s \in queue /\ u \in new
      <4>1. u.event \in es /\ s.event \notin es
        BY <2>1, <2>2, <3>3
      <4>2. QED
        BY <4>1, <2>4
    <3>4. CASE s \in new /\ u \in queue
      <4>1. s.event \in es /\ u.event \notin es
        BY <2>1, <2>2, <3>4
      <4>2. QED
        BY <4>1, <2>4
    <3>5. QED
      BY <3>1, <3>2, <3>3, <3>4
  <2>5. QED
    BY <2>1, <2>4 DEF OneSlotPerEvent
<1>3. Reserved' = Reserved
  BY DEF AdmitGroup, Reserved, Slot
<1>4. OneBatch'
  BY <1>3 DEF IInv, OneBatch, AdmitGroup
<1>5. QED
  BY <1>1, <1>2, <1>4, QueueInv DEF IInv, TypeOK, AdmitGroup

LEMMA BindInv ==
  ASSUME IInv, NEW s \in queue, NEW a \in Anchors, BindEchoAnchor(s, a)
  PROVE  IInv'
<1> DEFINE bound == [s EXCEPT !.anchor = a]
<1>1. s \in Slots /\ ~s.reserved
  BY DEF IInv, TypeOK, BindEchoAnchor, Dormant
<1>2. bound \in Slots /\ bound.event = s.event /\ ~bound.reserved
  BY <1>1 DEF Slots
<1>3. queue' = (queue \ {s}) \cup {bound}
  BY DEF BindEchoAnchor
<1>4. (queue \subseteq Slots)'
  BY <1>2, <1>3 DEF IInv, TypeOK
<1>5. OneSlotPerEvent'
  BY <1>2, <1>3 DEF IInv, OneSlotPerEvent
<1>6. Reserved' = Reserved
  BY <1>1, <1>2, <1>3 DEF Reserved
<1>7. OneBatch'
  BY <1>6 DEF IInv, OneBatch, BindEchoAnchor
<1>8. QED
  BY <1>4, <1>5, <1>7, QueueInv DEF IInv, TypeOK, BindEchoAnchor

(* Marking slots changes neither their number nor their events.            *)
LEMMA MarkedSlots ==
  ASSUME IInv, NEW chosen \in SUBSET queue, NEW mark \in BOOLEAN,
         queue' = (queue \ chosen) \cup {[s EXCEPT !.reserved = mark] : s \in chosen}
  PROVE  /\ (queue \subseteq Slots)' /\ OneSlotPerEvent'
         /\ \A t \in queue' :
              \E s \in queue :
                /\ t.event = s.event /\ t.anchor = s.anchor
                /\ IF s \in chosen THEN t.reserved = mark ELSE t = s
<1>1. \A s \in chosen : /\ [s EXCEPT !.reserved = mark] \in Slots
                        /\ [s EXCEPT !.reserved = mark].event = s.event
                        /\ [s EXCEPT !.reserved = mark].anchor = s.anchor
                        /\ [s EXCEPT !.reserved = mark].reserved = mark
  BY DEF IInv, TypeOK, Slots
<1>2. (queue \subseteq Slots)'
  BY <1>1 DEF IInv, TypeOK
<1>3. OneSlotPerEvent'
  <2>1. ASSUME NEW t \in queue', NEW u \in queue', t.event = u.event
        PROVE  t = u
    <3>1. PICK s \in queue : t = IF s \in chosen THEN [s EXCEPT !.reserved = mark] ELSE s
      OBVIOUS
    <3>2. PICK v \in queue : u = IF v \in chosen THEN [v EXCEPT !.reserved = mark] ELSE v
      OBVIOUS
    <3>3. s.event = t.event /\ v.event = u.event
      BY <1>1, <3>1, <3>2
    <3>4. s = v
      BY <2>1, <3>3 DEF IInv, OneSlotPerEvent
    <3>5. QED
      BY <3>1, <3>2, <3>4
  <2>2. QED
    BY <2>1 DEF OneSlotPerEvent
<1>4. \A t \in queue' :
        \E s \in queue : /\ t.event = s.event /\ t.anchor = s.anchor
                         /\ IF s \in chosen THEN t.reserved = mark ELSE t = s
  BY <1>1
<1>5. QED
  BY <1>2, <1>3, <1>4

LEMMA ReserveInv ==
  ASSUME IInv, NEW lookahead \in Nat, ReserveNextActivation(lookahead)
  PROVE  IInv'
<1> DEFINE chosen == NextActivation(lookahead)
           batch == {Record(s) : s \in chosen}
           earliest == {s \in Eligible(lookahead) :
                          \A t \in Eligible(lookahead) : FrameOf(s) <= FrameOf(t)}
<1>1. earliest \in SUBSET queue /\ earliest \in SUBSET Slots
  BY DEF Eligible, Dormant, IInv, TypeOK
<1>2. /\ chosen \subseteq earliest
      /\ \A s, t \in chosen : RoleOf(s) = RoleOf(t) => s = t
  BY <1>1, FirstPerRole DEF NextActivation
<1>3. \A s, t \in chosen : FrameOf(s) = FrameOf(t)
  <2>1. ASSUME NEW s \in earliest, NEW t \in earliest
        PROVE  FrameOf(s) = FrameOf(t)
    <3>1. FrameOf(s) <= FrameOf(t) /\ FrameOf(t) <= FrameOf(s)
      OBVIOUS
    <3>2. FrameOf(s) \in Nat /\ FrameOf(t) \in Nat
      BY <1>1, MacroAssumption DEF Slots, FrameOf
    <3>3. QED
      BY <3>1, <3>2, SMT
  <2>2. QED
    BY <1>2, <2>1
<1>4. /\ Reserved = {}
      /\ queue' = (queue \ chosen) \cup {[s EXCEPT !.reserved = TRUE] : s \in chosen}
      /\ batches' = batches \cup {batch}
  BY DEF ReserveNextActivation
<1>5. chosen \in SUBSET queue
  BY <1>1, <1>2
<1>6. /\ (queue \subseteq Slots)' /\ OneSlotPerEvent'
      /\ \A t \in queue' :
           \E s \in queue :
             /\ t.event = s.event /\ t.anchor = s.anchor
             /\ IF s \in chosen THEN t.reserved = TRUE ELSE t = s
  BY <1>4, <1>5, MarkedSlots
<1>7. \A t \in Reserved' : \E s \in chosen : t.event = s.event /\ t.anchor = s.anchor
  BY <1>4, <1>6 DEF Reserved
<1>8. OneBatch'
  <2>1. {Record(t) : t \in Reserved'} \subseteq batch
    BY <1>7 DEF Record
  <2>2. batch \in batches'
    BY <1>4
  <2>3. ASSUME NEW t \in Reserved', NEW u \in Reserved'
        PROVE  FrameOf(t) = FrameOf(u) /\ (t.event # u.event => RoleOf(t) # RoleOf(u))
    BY <1>2, <1>3, <1>7 DEF FrameOf, RoleOf
  <2>4. QED
    BY <2>1, <2>2, <2>3 DEF OneBatch, Record, FrameOf, RoleOf, Reserved
<1>9. (batches \subseteq SUBSET [event: Events, anchor: Anchors])'
  BY <1>4, <1>5 DEF IInv, TypeOK, Slots, Record
<1>10. QED
  BY <1>6, <1>8, <1>9, QueueInv DEF ReserveNextActivation

LEMMA DiscardInv ==
  ASSUME IInv, NEW batch \in batches, DiscardReserved(batch)
  PROVE  IInv'
<1> DEFINE chosen == Holding(batch)
<1>1. chosen \in SUBSET queue
  BY DEF Holding
<1>2. queue' = (queue \ chosen) \cup {[s EXCEPT !.reserved = FALSE] : s \in chosen}
  BY DEF DiscardReserved
<1>3. /\ (queue \subseteq Slots)' /\ OneSlotPerEvent'
      /\ \A t \in queue' :
           \E s \in queue :
             /\ t.event = s.event /\ t.anchor = s.anchor
             /\ IF s \in chosen THEN t.reserved = FALSE ELSE t = s
  BY <1>1, <1>2, MarkedSlots
<1>4. Reserved' \subseteq Reserved
  BY <1>3 DEF Reserved
<1>5. OneBatch'
  BY <1>4 DEF IInv, OneBatch, DiscardReserved, Record, FrameOf, RoleOf
<1>6. QED
  BY <1>3, <1>5, QueueInv DEF IInv, TypeOK, DiscardReserved

LEMMA ReleaseInv ==
  ASSUME IInv, NEW r \in Roles, Release(r)
  PROVE  IInv'
<1>1. TypeOK'
  BY SilentType DEF IInv, TypeOK, Release
<1>2. TailsMatchVoices'
  BY DEF IInv, TypeOK, TailsMatchVoices, Release
<1>3. OneSlotPerEvent' /\ OneBatch'
  BY DEF IInv, OneSlotPerEvent, OneBatch, Release, Reserved
<1>4. QED
  BY <1>1, <1>2, <1>3 DEF IInv

LEMMA AdvanceInv ==
  ASSUME IInv, Advance
  PROVE  IInv'
<1>1. TypeOK'
  BY MacroAssumption, SMT DEF IInv, TypeOK, Advance
<1>2. TailsMatchVoices'
  <2>1. now \in Int /\ now' = now + 1 /\ voices' = voices /\ tails' = tails
    BY MacroAssumption, SMT DEF IInv, TypeOK, Advance
  <2>2. \A r \in Roles : tails[r].deadline \in Int
    BY DEF IInv, TypeOK, Sounds, Silent
  <2>3. QED
    BY <2>1, <2>2, SMT DEF IInv, TailsMatchVoices
<1>3. OneSlotPerEvent' /\ OneBatch'
  BY DEF IInv, OneSlotPerEvent, OneBatch, Advance, Reserved
<1>4. QED
  BY <1>1, <1>2, <1>3 DEF IInv

-----------------------------------------------------------------------------
(* The slots that start were queued, in roles that have fallen silent.     *)
LEMMA ActivateStarts ==
  ASSUME IInv
  PROVE  /\ FirstOfEachRole(Due) \in SUBSET queue
         /\ \A s, t \in FirstOfEachRole(Due) : RoleOf(s) = RoleOf(t) => s = t
         /\ \A s \in FirstOfEachRole(Due) : voices[RoleOf(s)].deadline <= now
<1>1. Due \in SUBSET queue /\ Due \in SUBSET Slots
  BY DEF Due, Dormant, IInv, TypeOK
<1>2. /\ FirstOfEachRole(Due) \subseteq Due
      /\ \A s, t \in FirstOfEachRole(Due) : RoleOf(s) = RoleOf(t) => s = t
  BY <1>1, FirstPerRole
<1>3. ASSUME NEW s \in Due
      PROVE  voices[RoleOf(s)].deadline <= now
  <2>1. RoleOf(s) \in Roles
    BY <1>1, MacroAssumption DEF Slots, RoleOf
  <2>2. Retire(voices)[RoleOf(s)] = Silent
    BY DEF Due
  <2>3. 0 <= now
    BY MacroAssumption, SMT DEF IInv, TypeOK
  <2>4. QED
    BY <2>1, <2>2, <2>3 DEF Retire, Silent
<1>4. QED
  BY <1>1, <1>2, <1>3

LEMMA CommitStarts ==
  ASSUME IInv, NEW batch \in batches, ValidCommit(batch)
  PROVE  /\ Holding(batch) \in SUBSET Reserved
         /\ \A s, t \in Holding(batch) : RoleOf(s) = RoleOf(t) => s = t
         /\ \A s \in Holding(batch) : voices[RoleOf(s)].deadline <= now
<1>1. ASSUME NEW s \in Holding(batch)
      PROVE  s \in Reserved
  <2>1. s \in queue /\ Record(s) \in batch
    BY DEF Holding
  <2>2. PICK t \in Reserved : Record(t) = Record(s)
    BY <2>1 DEF ValidCommit
  <2>3. t.event = s.event /\ t \in queue
    BY <2>2 DEF Record, Reserved
  <2>4. QED
    BY <2>1, <2>2, <2>3 DEF IInv, OneSlotPerEvent
<1>2. \A s, t \in Holding(batch) : RoleOf(s) = RoleOf(t) => s = t
  BY <1>1 DEF IInv, OneBatch, OneSlotPerEvent, Reserved
<1>3. \A s \in Holding(batch) : voices[RoleOf(s)].deadline <= now
  BY DEF Holding, ValidCommit, Record, RoleOf
<1>4. QED
  BY <1>1, <1>2, <1>3

LEMMA StepInv == ASSUME IInv, [Next]_vars PROVE IInv'
<1>1. ASSUME NEW es \in SUBSET Events, AdmitGroup(es) PROVE IInv'
  BY <1>1, AdmitInv
<1>2. ASSUME NEW s \in queue, NEW a \in Anchors, BindEchoAnchor(s, a) PROVE IInv'
  BY <1>2, BindInv
<1>3. ASSUME NEW delay \in [Roles -> LocalDelays], ActivateDue(delay) PROVE IInv'
  BY <1>3, ActivateStarts, StartInv DEF ActivateDue
<1>4. ASSUME NEW delay \in [Roles -> LocalDelays], NEW batch \in batches,
             CommitReserved(batch, delay)
      PROVE  IInv'
  <2>1. Holding(batch) \in SUBSET queue
    BY DEF Holding
  <2>2. QED
    BY <1>4, <2>1, StartInv DEF CommitReserved
<1>5. ASSUME NEW lookahead \in now..MaxFrame, ReserveNextActivation(lookahead) PROVE IInv'
  <2>1. lookahead \in Nat
    BY MacroAssumption, SMT DEF IInv, TypeOK
  <2>2. QED
    BY <1>5, <2>1, ReserveInv
<1>6. ASSUME NEW batch \in batches, DiscardReserved(batch) PROVE IInv'
  BY <1>6, DiscardInv
<1>7. ASSUME NEW r \in Roles, Release(r) PROVE IInv'
  BY <1>7, ReleaseInv
<1>8. CASE Advance
  BY <1>8, AdvanceInv
<1>9. CASE UNCHANGED vars
  BY <1>9 DEF vars, IInv, TypeOK, OneSlotPerEvent, OneBatch, TailsMatchVoices, Reserved
<1>10. QED
  BY <1>1, <1>2, <1>3, <1>4, <1>5, <1>6, <1>7, <1>8, <1>9 DEF Next

THEOREM SchedulerInvariant == Spec => []IInv
  BY InitInv, StepInv, PTL DEF Spec

(* Slots, voices and tails keep their types.                               *)
THEOREM TypeCorrect == Spec => []TypeOK
<1>1. IInv => TypeOK
  BY DEF IInv
<1>2. QED
  BY <1>1, SchedulerInvariant, PTL

(* Only one reservation batch exists, whatever the host calls between.     *)
THEOREM SingleReservation == Spec => []OneBatch
<1>1. IInv => OneBatch
  BY DEF IInv
<1>2. QED
  BY <1>1, SchedulerInvariant, PTL

(* Scheduler and ingress agree on what each role plays and for how long.   *)
THEOREM SharedDeadlines == Spec => []TailsMatchVoices
<1>1. IInv => TailsMatchVoices
  BY DEF IInv
<1>2. QED
  BY <1>1, SchedulerInvariant, PTL

-----------------------------------------------------------------------------
(* What starting does to one role, and what the other calls leave alone.   *)
LEMMA StartRole ==
  ASSUME IInv,
         NEW started \in SUBSET queue, NEW delay \in [Roles -> LocalDelays],
         \A s \in started : voices[RoleOf(s)].deadline <= now,
         NEW kept \in {tails, Retire(tails)},
         Start(started, kept, delay),
         NEW r \in Roles, tails[r].deadline > now
  PROVE  tails'[r] \in {tails[r], Silent}
<1>1. now \in Int /\ tails[r].deadline \in Int /\ voices[r].deadline \in Int
  <2>1. voices[r] \in Sounds /\ tails[r] \in Sounds
    BY DEF IInv, TypeOK
  <2>2. QED
    BY <2>1, MacroAssumption, SMT DEF IInv, TypeOK, Sounds, Silent
<1>2. voices[r] = tails[r]
  BY <1>1, SMT DEF IInv, TailsMatchVoices
<1>3. \A s \in started : RoleOf(s) # r
  BY <1>1, <1>2, SMT
<1>4. tails'[r] = kept[r]
  BY <1>3 DEF Start, Sounding
<1>5. QED
  BY <1>4 DEF Retire

(* A role that still sounds is not given to another event.                 *)
THEOREM RoleExclusion == Spec => RolesNotStolen
<1>1. IInv /\ [Next]_vars =>
        [\A r \in Roles : tails[r].deadline > now => tails'[r] \in {tails[r], Silent}]_vars
  <2> SUFFICES ASSUME IInv, Next, NEW r \in Roles, tails[r].deadline > now
               PROVE  tails'[r] \in {tails[r], Silent}
    OBVIOUS
  <2>1. ASSUME NEW delay \in [Roles -> LocalDelays], ActivateDue(delay)
        PROVE  tails'[r] \in {tails[r], Silent}
    BY <2>1, ActivateStarts, StartRole DEF ActivateDue
  <2>2. ASSUME NEW delay \in [Roles -> LocalDelays], NEW batch \in batches,
               CommitReserved(batch, delay)
        PROVE  tails'[r] \in {tails[r], Silent}
    <3>1. Holding(batch) \in SUBSET queue
      BY DEF Holding
    <3>2. \A s \in Holding(batch) : voices[RoleOf(s)].deadline <= now
      BY <2>2, CommitStarts DEF CommitReserved
    <3>3. QED
      BY <2>2, <3>1, <3>2, StartRole DEF CommitReserved
  <2>3. ASSUME NEW q \in Roles, Release(q)
        PROVE  tails'[r] \in {tails[r], Silent}
    <3>1. tails \in [Roles -> Sounds]
      BY DEF IInv, TypeOK
    <3>2. QED
      BY <2>3, <3>1 DEF Release
  <2>4. ASSUME UNCHANGED tails
        PROVE  tails'[r] \in {tails[r], Silent}
    BY <2>4
  <2>5. QED
    BY <2>1, <2>2, <2>3, <2>4
    DEF Next, AdmitGroup, BindEchoAnchor, ReserveNextActivation, DiscardReserved, Advance
<1>2. QED
  BY <1>1, SchedulerInvariant, PTL DEF Spec, RolesNotStolen

-----------------------------------------------------------------------------
(* The refinement.                                                         *)

(* A call that changes no voice and keeps the queued events is a stutter.  *)
LEMMA Stutter ==
  ASSUME UNCHANGED <<voices, now>>, Pending' = Pending
  PROVE  [Stage!Next]_<<Pending, Playing>>
  BY DEF Playing

(* Marking slots as reserved or not keeps the queued events.               *)
LEMMA MarkedEvents ==
  ASSUME IInv, NEW chosen \in SUBSET queue, NEW mark \in BOOLEAN,
         queue' = (queue \ chosen) \cup {[s EXCEPT !.reserved = mark] : s \in chosen}
  PROVE  Pending' = Pending
<1>1. \A s \in chosen : [s EXCEPT !.reserved = mark].event = s.event
  BY DEF IInv, TypeOK, Slots
<1>2. Pending' \subseteq Pending
  BY <1>1 DEF Pending
<1>3. ASSUME NEW s \in queue
      PROVE  s.event \in Pending'
  <2>1. CASE s \in chosen
    <3>1. [s EXCEPT !.reserved = mark] \in queue'
      BY <2>1
    <3>2. QED
      BY <1>1, <2>1, <3>1 DEF Pending
  <2>2. CASE s \notin chosen
    BY <2>2 DEF Pending
  <2>3. QED
    BY <2>1, <2>2
<1>4. QED
  BY <1>2, <1>3 DEF Pending

LEMMA PlayingOf ==
  ASSUME NEW r \in Roles
  PROVE  Playing[r] = IF voices[r].deadline > now THEN voices[r].event ELSE None
  BY DEF Playing

(* Slots of different, silent roles that leave the queue and sound start   *)
(* together.                                                               *)
LEMMA StartRefines ==
  ASSUME IInv,
         NEW started \in SUBSET queue, NEW delay \in [Roles -> LocalDelays],
         \A s, t \in started : RoleOf(s) = RoleOf(t) => s = t,
         \A s \in started : voices[RoleOf(s)].deadline <= now,
         NEW kept, Start(started, kept, delay), UNCHANGED now,
         NEW es, es = {s.event : s \in started}
  PROVE  Stage!Start(es)
<1>1. /\ queue' = queue \ started
      /\ voices' = Sounding(Retire(voices), started, delay)
  BY DEF Start
<1>2. /\ queue \in SUBSET Slots /\ started \in SUBSET Slots
      /\ voices \in [Roles -> Sounds] /\ Retire(voices) \in [Roles -> Sounds]
  BY RetireType DEF IInv, TypeOK
<1>3. now \in Nat
  BY MacroAssumption, SMT DEF IInv, TypeOK
<1>4. es \subseteq Pending
  BY DEF Pending
<1>5. Pending' = Pending \ es
  <2>1. \A s, t \in queue : s.event = t.event => s = t
    BY DEF IInv, OneSlotPerEvent
  <2>2. QED
    BY <1>1, <2>1 DEF Pending
<1>6. ASSUME NEW s \in started
      PROVE  /\ Playing[Role[s.event]] = None
             /\ Playing'[Role[s.event]] \in {s.event, None}
  <2>1. RoleOf(s) \in Roles /\ RoleOf(s) = Role[s.event]
    BY <1>2, MacroAssumption DEF Slots, RoleOf
  <2>2. Playing[RoleOf(s)] = None
    <3>1. voices[RoleOf(s)] \in Sounds
      BY <1>2, <2>1
    <3>2. voices[RoleOf(s)].deadline \in Int
      BY <3>1 DEF Sounds, Silent
    <3>3. ~(voices[RoleOf(s)].deadline > now)
      BY <1>3, <3>2, SMT
    <3>4. QED
      BY <2>1, <3>3, PlayingOf
  <2>4. voices'[RoleOf(s)].event = s.event
    <3>1. \E t \in started :
            /\ RoleOf(t) = RoleOf(s)
            /\ voices'[RoleOf(s)] =
                 [event |-> t.event, deadline |-> Deadline[t.event] + delay[RoleOf(s)]]
      BY <1>1, <1>2, <2>1, SoundingOf
    <3>2. QED
      BY <3>1
  <2>5. Playing'[RoleOf(s)] \in {s.event, None}
    BY <2>1, <2>4 DEF Playing
  <2>6. QED
    BY <2>1, <2>2, <2>5
<1>7. ASSUME NEW r \in Roles, \A e \in es : Role[e] # r
      PROVE  Playing'[r] = Playing[r]
  <2>1. \A s \in started : RoleOf(s) # r
    BY <1>7 DEF RoleOf
  <2>2. voices'[r] = Retire(voices)[r]
    BY <1>1, <2>1 DEF Sounding
  <2>3. \/ voices[r].deadline \in Int /\ voices[r].deadline <= now
       \/ voices[r].deadline > now
    <3>1. voices[r] \in Sounds
      BY <1>2
    <3>2. voices[r].deadline \in Int
      BY <3>1 DEF Sounds, Silent
    <3>3. QED
      BY <1>3, <3>2, SMT
  <2>4. CASE voices[r].deadline <= now
    <3>1. voices'[r].deadline = 0
      BY <2>2, <2>4 DEF Retire, Silent
    <3>2. Playing'[r] = None
      BY <1>3, <3>1, SMT DEF Playing
    <3>3. Playing[r] = None
      BY <1>2, <1>3, <2>4, SMT DEF Playing, Sounds, Silent
    <3>4. QED
      BY <3>2, <3>3
  <2>5. CASE ~(voices[r].deadline <= now)
    BY <2>2, <2>5 DEF Retire, Playing
  <2>6. QED
    BY <2>4, <2>5
<1>8. DOMAIN Playing' = Roles
  BY DEF Playing
<1>9. /\ \A e, f \in es : e # f => Role[e] # Role[f]
      /\ \A e \in es : Playing[Role[e]] = None
      /\ \A e \in es : Playing'[Role[e]] \in {e, None}
  BY <1>6 DEF RoleOf
<1>10. \A r \in Roles : (\A e \in es : Role[e] # r) => Playing'[r] = Playing[r]
  BY <1>7
<1>11. QED
  BY <1>4, <1>5, <1>8, <1>9, <1>10, Zenon DEF Stage!Start

(* Every call maps to a step of the stage, or to a stutter.                *)
LEMMA StepRefines ==
  ASSUME IInv, [Next]_vars
  PROVE  [Stage!Next]_<<Pending, Playing>>
<1>1. ASSUME NEW es \in SUBSET Events, AdmitGroup(es)
      PROVE  Stage!Next
  <2>1. Pending' = Pending \cup es
    <3>1. \A e \in es : Slot(e, NoAnchor, FALSE).event = e
      BY DEF Slot
    <3>2. queue' = queue \cup {Slot(e, NoAnchor, FALSE) : e \in es}
      BY <1>1 DEF AdmitGroup
    <3>3. QED
      BY <3>1, <3>2 DEF Pending
  <2>2. es \cap Pending = {}
    BY <1>1 DEF Pending, AdmitGroup
  <2>3. Playing' = Playing
    BY <1>1 DEF AdmitGroup, Playing
  <2>4. Stage!Admit(es)
    BY <2>1, <2>2, <2>3 DEF Stage!Admit
  <2>5. QED
    BY <2>4 DEF Stage!Next
<1>2. ASSUME NEW s \in queue, NEW a \in Anchors, BindEchoAnchor(s, a)
      PROVE  [Stage!Next]_<<Pending, Playing>>
  <2>1. [s EXCEPT !.anchor = a].event = s.event
    BY DEF IInv, TypeOK, Slots
  <2>2. queue' = (queue \ {s}) \cup {[s EXCEPT !.anchor = a]}
    BY <1>2 DEF BindEchoAnchor
  <2>3. Pending' = Pending
    BY <2>1, <2>2 DEF Pending
  <2>4. QED
    BY <1>2, <2>3, Stutter DEF BindEchoAnchor
<1>3. ASSUME NEW delay \in [Roles -> LocalDelays], ActivateDue(delay)
      PROVE  Stage!Next
  <2>1. PICK started : started = FirstOfEachRole(Due)
    OBVIOUS
  <2>2. PICK es : es = {s.event : s \in started}
    OBVIOUS
  <2>3. /\ started \in SUBSET queue
        /\ \A s, t \in started : RoleOf(s) = RoleOf(t) => s = t
        /\ \A s \in started : voices[RoleOf(s)].deadline <= now
    BY <2>1, ActivateStarts
  <2>4. Start(started, Retire(tails), delay) /\ UNCHANGED now
    BY <1>3, <2>1 DEF ActivateDue
  <2>5. Stage!Start(es)
    BY <2>2, <2>3, <2>4, StartRefines
  <2>6. es \in SUBSET Events
    BY <2>2, <2>3 DEF IInv, TypeOK, Slots
  <2>7. QED
    BY <2>5, <2>6 DEF Stage!Next
<1>4. ASSUME NEW delay \in [Roles -> LocalDelays], NEW batch \in batches,
             CommitReserved(batch, delay)
      PROVE  Stage!Next
  <2>1. PICK started : started = Holding(batch)
    OBVIOUS
  <2>2. PICK es : es = {s.event : s \in started}
    OBVIOUS
  <2>3. /\ started \in SUBSET queue
        /\ \A s, t \in started : RoleOf(s) = RoleOf(t) => s = t
        /\ \A s \in started : voices[RoleOf(s)].deadline <= now
    BY <1>4, <2>1, CommitStarts DEF CommitReserved, Holding
  <2>4. Start(started, tails, delay) /\ UNCHANGED now
    BY <1>4, <2>1 DEF CommitReserved
  <2>5. Stage!Start(es)
    BY <2>2, <2>3, <2>4, StartRefines
  <2>6. es \in SUBSET Events
    BY <2>2, <2>3 DEF IInv, TypeOK, Slots
  <2>7. QED
    BY <2>5, <2>6 DEF Stage!Next
<1>5. ASSUME NEW lookahead \in now..MaxFrame, ReserveNextActivation(lookahead)
      PROVE  [Stage!Next]_<<Pending, Playing>>
  <2> DEFINE chosen == NextActivation(lookahead)
  <2>1. chosen \in SUBSET queue
    <3>1. \A slots \in SUBSET queue : FirstOfEachRole(slots) \in SUBSET queue
      BY DEF FirstOfEachRole
    <3>2. QED
      BY <3>1 DEF NextActivation, Eligible, Dormant
  <2>2. queue' = (queue \ chosen) \cup {[s EXCEPT !.reserved = TRUE] : s \in chosen}
    BY <1>5 DEF ReserveNextActivation
  <2>3. QED
    BY <1>5, <2>1, <2>2, MarkedEvents, Stutter DEF ReserveNextActivation
<1>6. ASSUME NEW batch \in batches, DiscardReserved(batch)
      PROVE  [Stage!Next]_<<Pending, Playing>>
  <2>1. Holding(batch) \in SUBSET queue
    BY DEF Holding
  <2>2. QED
    BY <1>6, <2>1, MarkedEvents, Stutter DEF DiscardReserved
<1>7. ASSUME NEW r \in Roles, Release(r)
      PROVE  Stage!Next
  <2>1. Playing' = [q \in Roles |-> IF q \in {r} THEN None ELSE Playing[q]]
    <3>1. voices \in [Roles -> Sounds] /\ voices' = [voices EXCEPT ![r] = Silent] /\ now' = now
      BY <1>7 DEF IInv, TypeOK, Release
    <3>2. now \in Nat
      BY MacroAssumption, SMT DEF IInv, TypeOK
    <3>3. voices'[r].deadline = 0 /\ ~(0 > now)
      BY <3>1, <3>2, SMT DEF Silent
    <3>4. \A q \in Roles : q # r => voices'[q] = voices[q]
      BY <3>1
    <3>5. QED
      BY <3>1, <3>3, <3>4 DEF Playing
  <2>2. Pending' = Pending
    BY <1>7 DEF Release, Pending
  <2>3. Stage!Finish({r})
    BY <2>1, <2>2, Zenon DEF Stage!Finish
  <2>4. QED
    BY <2>3 DEF Stage!Next
<1>8. CASE Advance
  <2> DEFINE over == {r \in Roles : ~(voices[r].deadline > now + 1)}
  <2>1. now \in Nat /\ now' = now + 1 /\ voices' = voices /\ queue' = queue
    BY <1>8, MacroAssumption, SMT DEF IInv, TypeOK, Advance
  <2>2. \A r \in Roles : voices[r].deadline \in Int
    BY DEF IInv, TypeOK, Sounds, Silent
  <2>3. Playing' = [r \in Roles |-> IF r \in over THEN None ELSE Playing[r]]
    <3>1. ASSUME NEW r \in Roles
          PROVE  Playing'[r] = IF r \in over THEN None ELSE Playing[r]
      BY <2>1, <2>2, SMT DEF Playing
    <3>2. QED
      BY <3>1 DEF Playing
  <2>4. Pending' = Pending
    BY <2>1 DEF Pending
  <2>5. Stage!Finish(over)
    BY <2>3, <2>4, Zenon DEF Stage!Finish
  <2>6. QED
    BY <2>5 DEF Stage!Next
<1>9. CASE UNCHANGED vars
  <2>1. Pending' = Pending
    BY <1>9 DEF vars, Pending
  <2>2. QED
    BY <1>9, <2>1, Stutter DEF vars
<1>10. QED
  BY <1>1, <1>2, <1>3, <1>4, <1>5, <1>6, <1>7, <1>8, <1>9 DEF Next

LEMMA InitRefines == Init => Stage!Init
<1>. SUFFICES ASSUME Init PROVE Stage!Init
  OBVIOUS
<1>1. now = 0 /\ \A r \in Roles : voices[r].deadline = 0
  BY DEF Init, Silent
<1>2. Playing = [r \in Roles |-> None]
  BY <1>1, SMT DEF Playing
<1>3. Pending = {}
  BY DEF Init, Pending
<1>4. QED
  BY <1>2, <1>3, Zenon DEF Stage!Init

(* An admitted event waits until it starts, starts once, and has its role  *)
(* to itself until it is over.                                             *)
THEOREM Refinement == Spec => ImplementsStage
<1>1. IInv /\ [Next]_vars => [Stage!Next]_<<Pending, Playing>>
  BY StepRefines
<1>2. QED
  BY InitRefines, <1>1, SchedulerInvariant, PTL DEF Spec, ImplementsStage, Stage!Spec
=============================================================================
