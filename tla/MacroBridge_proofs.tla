------------------------- MODULE MacroBridge_proofs -------------------------
(***************************************************************************)
(* That the commit of a token cannot fail once it is handed out, that its  *)
(* every event is with exactly one owner until its acknowledgement is      *)
(* returned, that it can then be finalized, and that a program only moves  *)
(* on over rendered frames: for any events, roles, delays, block size and  *)
(* number of tokens and generations.                                       *)
(*                                                                         *)
(* The invariant has four parts beside those properties.  Batched says     *)
(* what a reservation is: events of one frame and of different roles.      *)
(* Overlaid and InCall say what the control thread keeps about it.  Tagged *)
(* says that a command or an acknowledgement, wherever it is, is of the    *)
(* token in progress and sits at its event's own role; with that, "no two  *)
(* owners" makes every role free to take or to answer its event.  Timed    *)
(* orders the frames a program is at.                                      *)
(***************************************************************************)
EXTENDS MacroBridge, TLAPS, WellFoundedInduction

Batched ==
  /\ reservation.state = "none" => reservation = NoReservation
  /\ ~Committed => reservation.acked = {}
  /\ \A e, f \in EventsOf(reservation.batch) :
       Frame[e] = Frame[f] /\ (Role[e] = Role[f] => e = f)

Overlaid == \A r \in Roles :
  /\ overlay[r] # NoCommand <=>
       Committed /\ r \in RolesOf(reservation.batch) \ reservation.finalized
  /\ overlay[r] # NoCommand => overlay[r].token = reservation.token

InCall ==
  /\ claimed => Uncommitted
  /\ cpc \in {"direct", "commit"} =>
       /\ reservation.state = "ready"
       /\ EventsOf(provisional) = EventsOf(reservation.batch)
       /\ \A c \in provisional : c.token = reservation.token
  /\ cpc # "polled" => polled = NoAck
  /\ cpc = "polled" => Committed

Tagged ==
  /\ \A c \in commandBox \cup pendingCommands : c.token = reservation.token
  /\ \A r \in Roles : roles[r].phase = "active" =>
       /\ roles[r].command \in Commands
       /\ Role[roles[r].command.event] = r /\ roles[r].command.token = reservation.token
  /\ \A r \in Roles : pendingAcks[r] # NoAck =>
       Role[pendingAcks[r].event] = r /\ pendingAcks[r].token = reservation.token
  /\ ackBox # NoAck => ackBox.token = reservation.token
  /\ polled # NoAck => polled.token = reservation.token

(* Who has the command of an event, or its acknowledgement: AwaitedOnce    *)
(* one event at a time, given Tagged.                                      *)
InMail(e) == \E c \in commandBox : c.event = e
InPending(e) == \E c \in pendingCommands : c.event = e
Playing(e) == roles[Role[e]].phase = "active" /\ roles[Role[e]].command.event = e
Queueing(e) == pendingAcks[Role[e]].event = e
Acking(e) == ackBox.event = e
Polling(e) == polled.event = e

Awaited(e) ==
  Committed /\ e \in EventsOf(reservation.batch) /\ Role[e] \notin reservation.acked

Owned(e) ==
  /\ (InMail(e) \/ InPending(e) \/ Playing(e) \/ Queueing(e) \/ Acking(e) \/ Polling(e))
       <=> Awaited(e)
  /\ InMail(e) => ~(InPending(e) \/ Playing(e) \/ Queueing(e) \/ Acking(e) \/ Polling(e))
  /\ InPending(e) => ~(Playing(e) \/ Queueing(e) \/ Acking(e) \/ Polling(e))
  /\ Playing(e) => ~(Queueing(e) \/ Acking(e) \/ Polling(e))
  /\ Queueing(e) => ~(Acking(e) \/ Polling(e))
  /\ Acking(e) => ~Polling(e)

OneOwner == \A e \in Events : Owned(e)

Ordered(c) == c.start <= c.end /\ c.end <= c.deadline

Timed ==
  /\ \A c \in provisional \cup commandBox \cup pendingCommands :
       Ordered(c) /\ Deadline[c.event] <= c.deadline
  /\ \A r \in Roles : roles[r].phase = "active" =>
       /\ Ordered(roles[r].command) /\ roles[r].next <= roles[r].command.end
       /\ stagedStart # None =>
            /\ stagedStart <= roles[r].next
            /\ roles[r].next + roles[r].staged <= roles[r].command.end
            /\ roles[r].staged > 0 =>
                 roles[r].next + roles[r].staged <= stagedStart + BlockSize

-----------------------------------------------------------------------------
(* Constants and sentinels                                                 *)

(* What a proof about the frames of an event needs of the constants.       *)
LEMMA EventFacts ==
  ASSUME NEW e \in Events
  PROVE  /\ Role[e] \in Roles /\ Frame[e] \in Nat /\ Deadline[e] \in Nat
         /\ Frame[e] <= Deadline[e] /\ e \in Nat /\ Group[e] \in Nat
BY BridgeAssumption

LEMMA NoneIsNoEvent == None \notin Events /\ None \notin Nat
BY BridgeAssumption

LEMMA NoCommandIsNone == NoCommand \notin Commands
BY NoneIsNoEvent DEF NoCommand, Commands

LEMMA AckOrNone ==
  ASSUME NEW a \in Acks
  PROVE  /\ a = NoAck <=> a.event = None
         /\ a # NoAck <=> a.event \in Events
<1>1. NoAck.event = None
  BY DEF NoAck
<1>2. CASE a = NoAck
  BY <1>1, <1>2, NoneIsNoEvent
<1>3. CASE a # NoAck
  <2>1. a.event \in Events
    BY <1>3 DEF Acks
  <2>2. QED
    BY <1>3, <2>1, NoneIsNoEvent
<1>4. QED
  BY <1>2, <1>3

(* A nonempty set of naturals has a least element, so that of the waiting  *)
(* roles there is a first.                                                 *)
LEMMA LeastNatural ==
  ASSUME NEW T, T \subseteq Nat, T # {} PROVE \E x \in T : \A y \in T : x <= y
<1> DEFINE Less == {ss \in Nat \X Nat : ss[1] < ss[2]}
<1>0. IsWellFoundedOn(Less, Nat)
  BY NatLessThanWellFounded, Zenon DEF OpToRel
<1>1. \E x \in T : \A y \in T : <<y, x>> \notin Less
  BY <1>0, WFMin, Zenon
<1>2. \A x, y \in Nat : <<y, x>> \notin Less => x <= y
  OBVIOUS
<1>3. QED
  BY <1>1, <1>2

-----------------------------------------------------------------------------
(* The calls of the scheduler                                              *)

QueueTypes ==
  /\ queue \subseteq Scheduler(0)!Slots
  /\ voices \in [Roles -> Scheduler(0)!Sounds]
  /\ tails \in [Roles -> Scheduler(0)!Sounds]

LEMMA SlotFields ==
  ASSUME NEW s \in Scheduler(0)!Slots
  PROVE  /\ s.event \in Events /\ s.anchor = None /\ s.reserved \in BOOLEAN
         /\ Record(s) = [event |-> s.event, anchor |-> s.anchor]
         /\ Record(s) \in [event: Events, anchor: {None}] /\ Record(s).event = s.event
BY DEF Scheduler!Slots, Record, Scheduler!Record

LEMMA HeldSlot ==
  ASSUME NEW s \in Scheduler(0)!Slots
  PROVE  /\ [s EXCEPT !.reserved = TRUE] \in Scheduler(0)!Slots
         /\ [s EXCEPT !.reserved = TRUE].reserved = TRUE
         /\ Record([s EXCEPT !.reserved = TRUE]) = Record(s)
         /\ [s EXCEPT !.reserved = FALSE] \in Scheduler(0)!Slots
BY DEF Scheduler!Slots, Record, Scheduler!Record

LEMMA AdmitEffect ==
  ASSUME QueueTypes, NEW es \in SUBSET Events, Scheduler(0)!AdmitGroup(es)
  PROVE  QueueTypes' /\ queue \subseteq queue' /\ UNCHANGED <<voices, tails>>
<1>1. UNCHANGED <<voices, tails>> /\ queue' = queue \cup {Scheduler(0)!Slot(e, None, FALSE) : e \in es}
  BY DEF Scheduler!AdmitGroup
<1>2. \A e \in es : Scheduler(0)!Slot(e, None, FALSE) \in Scheduler(0)!Slots
  BY DEF Scheduler!Slot, Scheduler!Slots
<1>3. QED
  BY <1>1, <1>2 DEF QueueTypes, Scheduler!Slots, Scheduler!Sounds

(* Whatever is started leaves the queue, and takes its roles twice over.   *)
LEMMA StartEffect ==
  ASSUME QueueTypes, NEW now \in Nat, NEW started \in SUBSET queue,
         NEW kept \in [Roles -> Scheduler(0)!Sounds], NEW delay \in [Roles -> Nat],
         Scheduler(now)!Start(started, kept, delay)
  PROVE  /\ QueueTypes' /\ queue' = queue \ started
         /\ \A r \in Roles : (\E s \in started : Role[s.event] = r) =>
              \E s \in started : /\ Role[s.event] = r
                                 /\ voices'[r].event = s.event /\ tails'[r].event = s.event
<1> DEFINE Sounds == Scheduler(0)!Sounds
           retired == Scheduler(now)!Retire(voices)
<1>1. /\ queue' = queue \ started
      /\ voices' = Scheduler(now)!Sounding(retired, started, delay)
      /\ tails' = Scheduler(now)!Sounding(kept, started, delay)
  BY DEF Scheduler!Start
<1>2. Scheduler(now)!Silent \in Sounds
  BY DEF Scheduler!Sounds, Scheduler!Silent
<1>3. retired \in [Roles -> Sounds]
  BY <1>2 DEF QueueTypes, Scheduler!Retire
<1>4. ASSUME NEW sounds \in [Roles -> Sounds]
      PROVE  /\ Scheduler(now)!Sounding(sounds, started, delay) \in [Roles -> Sounds]
             /\ \A r \in Roles : (\E s \in started : Role[s.event] = r) =>
                  Scheduler(now)!Sounding(sounds, started, delay)[r].event =
                    (CHOOSE s \in started : Role[s.event] = r).event
  <2> DEFINE first(r) == CHOOSE s \in started : Role[s.event] = r
             taken(r) == \E s \in started : Role[s.event] = r
             new(r) == [event |-> first(r).event,
                        deadline |-> Deadline[first(r).event] + delay[r]]
  <2>1. Scheduler(now)!Sounding(sounds, started, delay) =
          [r \in Roles |-> IF taken(r) THEN new(r) ELSE sounds[r]]
    BY DEF Scheduler!Sounding, Scheduler!RoleOf
  <2>2. ASSUME NEW r \in Roles, taken(r) PROVE new(r) \in Sounds /\ new(r).event = first(r).event
    <3>1. first(r) \in started
      BY <2>2
    <3>2. first(r).event \in Events
      BY <3>1, SlotFields DEF QueueTypes
    <3>3. Deadline[first(r).event] + delay[r] \in Nat
      BY <3>2, EventFacts
    <3>4. QED
      BY <3>2, <3>3 DEF Scheduler!Sounds
  <2> HIDE DEF new, taken
  <2>3. QED
    BY <2>1, <2>2 DEF taken
<1>5. queue' \subseteq Scheduler(0)!Slots
  BY <1>1 DEF QueueTypes
<1>6. QueueTypes'
  BY <1>1, <1>3, <1>4, <1>5 DEF QueueTypes, Scheduler!Slots, Scheduler!Sounds
<1>7. ASSUME NEW r \in Roles, \E s \in started : Role[s.event] = r
      PROVE  \E s \in started : /\ Role[s.event] = r
                                /\ voices'[r].event = s.event /\ tails'[r].event = s.event
  <2> DEFINE s == CHOOSE s \in started : Role[s.event] = r
  <2>1. s \in started /\ Role[s.event] = r
    BY <1>7
  <2>2. voices'[r].event = s.event /\ tails'[r].event = s.event
    BY <1>1, <1>3, <1>4, <1>7
  <2>3. QED
    BY <2>1, <2>2
<1>8. QED
  BY <1>1, <1>6, <1>7

LEMMA ReleaseEffect ==
  ASSUME QueueTypes, NEW r \in Roles, Scheduler(0)!Release(r)
  PROVE  /\ QueueTypes' /\ UNCHANGED queue /\ voices[r] # Silent
         /\ voices'[r] = Silent
         /\ \A q \in Roles \ {r} : voices'[q] = voices[q] /\ tails'[q] = tails[q]
<1>1. Silent \in Scheduler(0)!Sounds /\ Silent = Scheduler(0)!Silent
  BY DEF Silent, Scheduler!Sounds
<1>2. voices[r] # Silent /\ voices' = [voices EXCEPT ![r] = Silent] /\ UNCHANGED queue
  BY DEF Scheduler!Release, Silent
<1>3. tails' = [tails EXCEPT ![r] = IF tails[r].event = voices[r].event
                                     THEN Silent ELSE tails[r]]
  BY DEF Scheduler!Release, Silent
<1>4. tails' \in [Roles -> Scheduler(0)!Sounds] /\ voices' \in [Roles -> Scheduler(0)!Sounds]
  BY <1>1, <1>2, <1>3 DEF QueueTypes
<1>5. QueueTypes'
  BY <1>2, <1>4 DEF QueueTypes, Scheduler!Slots, Scheduler!Sounds
<1>6. QED
  BY <1>2, <1>3, <1>5 DEF QueueTypes

(* The batch that is reserved: events of one frame, one of each role, whose*)
(* roles are free by then.                                                 *)
LEMMA ReserveEffect ==
  ASSUME QueueTypes, NEW lookahead, Scheduler(0)!ReserveNextActivation(lookahead)
  PROVE  LET batch == {Record(s) : s \in Scheduler(0)!NextActivation(lookahead)} IN
         /\ QueueTypes' /\ UNCHANGED <<voices, tails>>
         /\ batch \in SUBSET [event: Events, anchor: {None}]
         /\ batch \subseteq {Record(s) : s \in Reserved'}
         /\ \A e, f \in EventsOf(batch) :
              Frame[e] = Frame[f] /\ (Role[e] = Role[f] => e = f)
         /\ \A e \in EventsOf(batch) : voices[Role[e]].deadline <= Frame[e]
<1> DEFINE Slots == Scheduler(0)!Slots
           eligible == Scheduler(0)!Eligible(lookahead)
           earliest == {s \in eligible : \A t \in eligible : Frame[s.event] <= Frame[t.event]}
           chosen == Scheduler(0)!NextActivation(lookahead)
           held(s) == [s EXCEPT !.reserved = TRUE]
           batch == {Record(s) : s \in chosen}
<1>1. /\ queue' = (queue \ chosen) \cup {held(s) : s \in chosen}
      /\ UNCHANGED <<voices, tails>>
  BY DEF Scheduler!ReserveNextActivation
<1>2. \A s \in eligible : s \in queue /\ s \in Slots /\ s.event \in Events
                          /\ voices[Role[s.event]].deadline <= Frame[s.event]
  BY SlotFields DEF QueueTypes, Scheduler!Eligible, Scheduler!Dormant, Scheduler!RoleOf,
                    Scheduler!FrameOf
<1>3. chosen = {s \in earliest : \A t \in earliest \ {s} :
                  Role[t.event] = Role[s.event] => Scheduler(0)!Earlier(s, t)}
  BY DEF Scheduler!NextActivation, Scheduler!FirstOfEachRole, Scheduler!RoleOf,
         Scheduler!FrameOf
<1> HIDE DEF eligible, chosen
<1>4. \A s, t \in chosen :
        Frame[s.event] = Frame[t.event] /\ (Role[s.event] = Role[t.event] => s = t)
  <2> SUFFICES ASSUME NEW s \in chosen, NEW t \in chosen
               PROVE  /\ Frame[s.event] = Frame[t.event]
                      /\ Role[s.event] = Role[t.event] => s = t
    OBVIOUS
  <2>1. s \in earliest /\ t \in earliest /\ s.event \in Events /\ t.event \in Events
    BY <1>2, <1>3
  <2>2. Frame[s.event] \in Nat /\ Frame[t.event] \in Nat /\ Group[s.event] \in Nat
        /\ Group[t.event] \in Nat /\ s.event \in Nat /\ t.event \in Nat
    BY <2>1, EventFacts
  <2>3. Frame[s.event] = Frame[t.event]
    BY <2>1, <2>2
  <2>4. ASSUME Role[s.event] = Role[t.event], s # t PROVE FALSE
    <3>1. Scheduler(0)!Earlier(s, t) /\ Scheduler(0)!Earlier(t, s)
      BY <1>3, <2>1, <2>4
    <3>2. QED
      BY <2>2, <3>1, SMT DEF Scheduler!Earlier, Scheduler!FrameOf
  <2>5. QED
    BY <2>3, <2>4
<1>5. \A s \in chosen : s \in queue /\ s \in Slots /\ s.event \in Events
                        /\ voices[Role[s.event]].deadline <= Frame[s.event]
  BY <1>2, <1>3
<1> HIDE DEF earliest, held
<1>6. \A s \in chosen : held(s) \in Slots /\ held(s).reserved = TRUE
                        /\ Record(held(s)) = Record(s) /\ Record(s).event = s.event
                        /\ Record(s) \in [event: Events, anchor: {None}]
  BY <1>5, SlotFields, HeldSlot, Zenon DEF held
<1>7. queue' \subseteq Slots
  BY <1>1, <1>6 DEF QueueTypes
<1>8. QueueTypes'
  BY <1>1, <1>7 DEF QueueTypes, Scheduler!Slots, Scheduler!Sounds
<1>9. Reserved' = {s \in queue' : s.reserved}
  BY DEF Reserved, Scheduler!Reserved
<1>10. \A s \in chosen : held(s) \in Reserved'
  BY <1>1, <1>6, <1>9
<1>11. batch \subseteq {Record(s) : s \in Reserved'}
  BY <1>6, <1>10
<1>12. batch \in SUBSET [event: Events, anchor: {None}]
  BY <1>6
<1>13. \A e \in EventsOf(batch) : \E s \in chosen : e = s.event
  BY <1>6 DEF EventsOf
<1>14. /\ \A e, f \in EventsOf(batch) :
              Frame[e] = Frame[f] /\ (Role[e] = Role[f] => e = f)
       /\ \A e \in EventsOf(batch) : voices[Role[e]].deadline <= Frame[e]
  BY <1>4, <1>5, <1>13
<1>15. QED
  BY <1>1, <1>8, <1>11, <1>12, <1>14 DEF chosen

LEMMA DiscardEffect ==
  ASSUME QueueTypes, NEW batch, Scheduler(0)!DiscardReserved(batch)
  PROVE  QueueTypes' /\ UNCHANGED <<voices, tails>>
<1>1. /\ queue' = (queue \ Scheduler(0)!Holding(batch))
                    \cup {[s EXCEPT !.reserved = FALSE] : s \in Scheduler(0)!Holding(batch)}
      /\ UNCHANGED <<voices, tails>>
  BY DEF Scheduler!DiscardReserved
<1>2. Scheduler(0)!Holding(batch) \subseteq queue
  BY DEF Scheduler!Holding
<1>3. queue' \subseteq Scheduler(0)!Slots
  BY <1>1, <1>2, HeldSlot DEF QueueTypes
<1>4. QED
  BY <1>1, <1>3 DEF QueueTypes, Scheduler!Slots, Scheduler!Sounds

-----------------------------------------------------------------------------
(* What the calls of the control thread do to a reservation                *)

Reservations == [token: Nat, batch: SUBSET [event: Events, anchor: {None}],
                 state: {"none", "reserved", "ready", "committed"},
                 acked: SUBSET Roles, finalized: SUBSET Roles]

LEMMA NoReservationFields ==
  /\ NoReservation \in Reservations
  /\ NoReservation.token = 0 /\ NoReservation.batch = {} /\ NoReservation.state = "none"
  /\ NoReservation.acked = {} /\ NoReservation.finalized = {}
BY DEF NoReservation, Reservations

LEMMA BatchEvents ==
  ASSUME TypeOK
  PROVE  /\ EventsOf(reservation.batch) \subseteq Events
         /\ RolesOf(reservation.batch) \subseteq Roles
         /\ reservation \in Reservations /\ reservation.batch \in SUBSET [event: Events, anchor: {None}]
<1>1. reservation \in Reservations
  BY DEF TypeOK, ControlTypes, Reservations
<1>2. EventsOf(reservation.batch) \subseteq Events
  BY <1>1 DEF EventsOf, Reservations
<1>3. RolesOf(reservation.batch) \subseteq Roles
  BY <1>2, EventFacts DEF RolesOf
<1>4. QED
  BY <1>1, <1>2, <1>3 DEF Reservations

LEMMA PrepareEffect ==
  ASSUME TypeOK, NEW lookahead, PrepareToken(lookahead)
  PROVE  /\ QueueTypes' /\ UNCHANGED <<voices, tails>>
         /\ cpc = "idle" /\ reservation = NoReservation /\ commandBox = {} /\ claimed'
         /\ UNCHANGED <<cpc, provisional, overlay, polled, directVars, commandBox, ackVars,
                        audioVars>>
         /\ token' = token + 1 /\ token <= MaxTokens
         /\ reservation' \in Reservations
         /\ reservation'.token = token /\ reservation'.state = "reserved"
         /\ reservation'.acked = {} /\ reservation'.finalized = {}
         /\ reservation'.batch \subseteq {Record(s) : s \in Reserved'}
         /\ \A e, f \in EventsOf(reservation'.batch) :
              Frame[e] = Frame[f] /\ (Role[e] = Role[f] => e = f)
         /\ \A e \in EventsOf(reservation'.batch) : voices[Role[e]].deadline <= Frame[e]
<1> DEFINE batch == {Record(s) : s \in Scheduler(0)!NextActivation(lookahead)}
<1>1. QueueTypes /\ token \in Nat
  BY BridgeAssumption DEF TypeOK, ControlTypes, QueueTypes
<1>2. Scheduler(0)!ReserveNextActivation(lookahead)
  BY DEF PrepareToken
<1>3. /\ QueueTypes' /\ UNCHANGED <<voices, tails>>
      /\ batch \in SUBSET [event: Events, anchor: {None}]
      /\ batch \subseteq {Record(s) : s \in Reserved'}
      /\ \A e, f \in EventsOf(batch) :
           Frame[e] = Frame[f] /\ (Role[e] = Role[f] => e = f)
      /\ \A e \in EventsOf(batch) : voices[Role[e]].deadline <= Frame[e]
  BY <1>1, <1>2, ReserveEffect
<1>4. reservation' = [NoReservation EXCEPT !.token = token, !.state = "reserved",
                                           !.batch = batch]
  BY DEF PrepareToken
<1> HIDE DEF batch
<1>5. /\ reservation' \in Reservations
      /\ reservation'.token = token /\ reservation'.state = "reserved"
      /\ reservation'.acked = {} /\ reservation'.finalized = {}
      /\ reservation'.batch = batch
  BY <1>1, <1>3, <1>4 DEF Reservations, NoReservation
<1>6. /\ cpc = "idle" /\ reservation = NoReservation /\ commandBox = {} /\ claimed'
      /\ UNCHANGED <<cpc, provisional, overlay, polled, directVars, commandBox, ackVars,
                     audioVars>>
      /\ token' = token + 1 /\ token <= MaxTokens
  BY DEF PrepareToken
<1>7. QED
  BY <1>3, <1>5, <1>6

LEMMA StageReadyEffect ==
  ASSUME TypeOK, StageReady
  PROVE  /\ Uncommitted /\ cpc = "idle"
         /\ UNCHANGED <<schedulerVars, cpc, token, provisional, overlay, polled,
                        directVars, commandVars, ackVars, audioVars>>
         /\ reservation' \in Reservations
         /\ reservation'.state = "ready" /\ reservation'.token = reservation.token
         /\ reservation'.batch = reservation.batch
         /\ reservation'.acked = reservation.acked
         /\ reservation'.finalized = reservation.finalized
<1>1. reservation \in Reservations /\ reservation' = [reservation EXCEPT !.state = "ready"]
  BY BatchEvents DEF StageReady
<1>2. /\ reservation' \in Reservations
      /\ reservation'.state = "ready" /\ reservation'.token = reservation.token
      /\ reservation'.batch = reservation.batch
      /\ reservation'.acked = reservation.acked
      /\ reservation'.finalized = reservation.finalized
  BY <1>1 DEF Reservations
<1>3. QED
  BY <1>2 DEF StageReady

(* One acknowledgement more, or a stale one that changes nothing.          *)
LEMMA PollReturnsEffect ==
  ASSUME TypeOK, PollReturns
  PROVE  /\ cpc = "polled" /\ cpc' = "idle" /\ polled' = NoAck
         /\ UNCHANGED <<schedulerVars, token, provisional, overlay, directVars, commandVars,
                        ackBox, audioVars>>
         /\ ackLeaving' \in BOOLEAN
         /\ reservation' \in Reservations
         /\ reservation'.state = reservation.state /\ reservation'.token = reservation.token
         /\ reservation'.batch = reservation.batch
         /\ reservation'.finalized = reservation.finalized
         /\ \/ /\ Qualified(polled)
               /\ reservation'.acked = reservation.acked \cup {Role[polled.event]}
            \/ ~Qualified(polled) /\ reservation'.acked = reservation.acked
<1>1. reservation \in Reservations
  BY BatchEvents
<1>2. /\ cpc = "polled" /\ cpc' = "idle" /\ polled' = NoAck
      /\ UNCHANGED <<schedulerVars, token, provisional, overlay, directVars, commandVars,
                     ackBox, audioVars>>
      /\ ackLeaving' \in BOOLEAN
  BY DEF PollReturns, AckMail!Release
<1>3. CASE Qualified(polled)
  <2>1. Role[polled.event] \in Roles
    BY <1>3, BatchEvents, EventFacts DEF Qualified
  <2>2. reservation' = [reservation EXCEPT !.acked = reservation.acked \cup {Role[polled.event]}]
    BY <1>3 DEF PollReturns
  <2>3. /\ reservation' \in Reservations
        /\ reservation'.state = reservation.state /\ reservation'.token = reservation.token
        /\ reservation'.batch = reservation.batch
        /\ reservation'.finalized = reservation.finalized
        /\ reservation'.acked = reservation.acked \cup {Role[polled.event]}
    BY <1>1, <2>1, <2>2 DEF Reservations
  <2>4. QED
    BY <1>2, <1>3, <2>3
<1>4. CASE ~Qualified(polled)
  <2>1. reservation' = reservation
    BY <1>4 DEF PollReturns
  <2>2. QED
    BY <1>1, <1>2, <1>4, <2>1
<1>5. QED
  BY <1>3, <1>4

LEMMA FinalizeEffect ==
  ASSUME TypeOK, NEW r \in Roles, FinalizeAck(r)
  PROVE  /\ Committed /\ cpc = "idle"
         /\ r \in reservation.acked \ reservation.finalized
         /\ UNCHANGED <<queue, cpc, token, provisional, polled, directVars, commandVars, ackVars,
                        audioVars>>
         /\ QueueTypes'
         /\ \A q \in Roles \ {r} : voices'[q] = voices[q] /\ tails'[q] = tails[q]
         /\ overlay' = [overlay EXCEPT ![r] = NoCommand]
         /\ reservation' \in Reservations
         /\ \/ /\ reservation.finalized \cup {r} = RolesOf(reservation.batch)
               /\ reservation' = NoReservation
            \/ /\ reservation'.state = reservation.state
               /\ reservation'.token = reservation.token
               /\ reservation'.batch = reservation.batch
               /\ reservation'.acked = reservation.acked
               /\ reservation'.finalized = reservation.finalized \cup {r}
<1>1. reservation \in Reservations /\ QueueTypes
  BY BatchEvents DEF TypeOK, ControlTypes, QueueTypes
<1>2. Scheduler(0)!Release(r)
  BY DEF FinalizeAck
<1>3. /\ UNCHANGED queue /\ QueueTypes'
      /\ \A q \in Roles \ {r} : voices'[q] = voices[q] /\ tails'[q] = tails[q]
  BY <1>1, <1>2, ReleaseEffect
<1>4. /\ Committed /\ cpc = "idle"
      /\ r \in reservation.acked \ reservation.finalized
      /\ UNCHANGED <<cpc, token, provisional, polled, directVars, commandVars, ackVars,
                     audioVars>>
      /\ overlay' = [overlay EXCEPT ![r] = NoCommand]
  BY DEF FinalizeAck
<1>5. CASE reservation.finalized \cup {r} = RolesOf(reservation.batch)
  <2>1. reservation' = NoReservation
    BY <1>5 DEF FinalizeAck
  <2>2. QED
    BY <1>3, <1>4, <1>5, <2>1, NoReservationFields
<1>6. CASE reservation.finalized \cup {r} # RolesOf(reservation.batch)
  <2>1. reservation' = [reservation EXCEPT !.finalized = reservation.finalized \cup {r}]
    BY <1>6 DEF FinalizeAck
  <2>2. /\ reservation' \in Reservations
        /\ reservation'.state = reservation.state /\ reservation'.token = reservation.token
        /\ reservation'.batch = reservation.batch
        /\ reservation'.acked = reservation.acked
        /\ reservation'.finalized = reservation.finalized \cup {r}
    BY <1>1, <2>1 DEF Reservations
  <2>3. QED
    BY <1>3, <1>4, <2>2
<1>7. QED
  BY <1>5, <1>6

(* The commands of a commit in progress are of its events, and stay so     *)
(* when they are given the generation of the direct pass.                  *)
LEMMA Generated ==
  ASSUME TypeOK, NEW c \in provisional
  PROVE  LET d == [c EXCEPT !.gen = direct] IN
         /\ c \in Commands /\ c.event \in Events
         /\ d \in Commands /\ d.token = c.token /\ d.event = c.event
         /\ d.start = c.start /\ d.end = c.end /\ d.deadline = c.deadline
<1>1. c \in Commands /\ direct \in Nat
  BY BridgeAssumption, SMT DEF TypeOK, ControlTypes
<1>2. QED
  BY <1>1 DEF Commands

LEMMA CommitStarts ==
  ASSUME TypeOK, InCall, Timed, CommitAndPublish
  PROVE  /\ QueueTypes'
         /\ \A r \in RolesOf(reservation.batch) : \E e \in EventsOf(reservation.batch) :
              Role[e] = r /\ voices'[r].event = e /\ tails'[r].event = e
<1> DEFINE batch == reservation.batch
           delay == Delay(provisional)
<1>1. PICK e \in EventsOf(batch) :
        /\ Scheduler(Frame[e])!ValidCommit(batch)
        /\ Scheduler(Frame[e])!Start(Scheduler(Frame[e])!Holding(batch), tails, delay)
  BY DEF CommitAndPublish
<1>2. Frame[e] \in Nat
  BY <1>1, BatchEvents, EventFacts
<1> DEFINE held == Scheduler(Frame[e])!Holding(batch)
<1>3. held = {s \in queue : Record(s) \in batch}
  BY DEF Scheduler!Holding, Record, Scheduler!Record
<1>4. delay \in [Roles -> Nat]
  <2>1. ASSUME NEW r \in Roles, \E c \in provisional : Role[c.event] = r
        PROVE  LET c == CHOOSE c \in provisional : Role[c.event] = r
               IN c.deadline - Deadline[c.event] \in Nat
    <3> DEFINE c == CHOOSE d \in provisional : Role[d.event] = r
    <3>1. c \in provisional
      BY <2>1
    <3>2. c \in Commands /\ c.event \in Events /\ Deadline[c.event] <= c.deadline
      BY <3>1, Generated DEF Timed
    <3>3. c.deadline - Deadline[c.event] \in Nat
      BY <3>2, EventFacts DEF Commands
    <3>4. QED
      BY <3>3
  <2>2. QED
    BY <2>1 DEF Delay
<1>5. QueueTypes /\ tails \in [Roles -> Scheduler(0)!Sounds]
  BY DEF TypeOK, ControlTypes, QueueTypes
<1>6. held \in SUBSET queue
  BY <1>3
<1> HIDE DEF held, delay, batch
<1>7. /\ QueueTypes'
      /\ \A r \in Roles : (\E s \in held : Role[s.event] = r) =>
           \E s \in held : /\ Role[s.event] = r
                           /\ voices'[r].event = s.event /\ tails'[r].event = s.event
  BY <1>1, <1>2, <1>4, <1>5, <1>6, StartEffect DEF held
<1>8. batch \subseteq {Record(s) : s \in {t \in queue : t.reserved}}
  BY <1>1 DEF Scheduler!ValidCommit, Scheduler!Reserved, Record, Scheduler!Record
<1>9. \A s \in held : s.event \in EventsOf(batch)
  BY <1>3, SlotFields DEF EventsOf, TypeOK, ControlTypes
<1>10. ASSUME NEW r \in RolesOf(batch) PROVE \E s \in held : Role[s.event] = r
  <2>1. PICK b \in batch : Role[b.event] = r
    BY DEF RolesOf, EventsOf
  <2>2. PICK s \in queue : Record(s) = b
    BY <1>8
  <2>3. s \in held /\ s.event = b.event
    BY <1>3, <2>2, SlotFields DEF TypeOK, ControlTypes
  <2>4. QED
    BY <2>1, <2>3
<1>11. RolesOf(batch) \subseteq Roles
  BY BatchEvents DEF batch
<1>12. QED
  BY <1>7, <1>9, <1>10, <1>11 DEF batch

LEMMA CommitEffect ==
  ASSUME TypeOK, InCall, Timed, CommitAndPublish
  PROVE  /\ cpc = "commit" /\ cpc' = "idle" /\ ~claimed' /\ provisional' = {}
         /\ UNCHANGED <<token, polled, directVars, ackVars, audioVars>>
         /\ reservation' \in Reservations
         /\ reservation'.state = "committed" /\ reservation'.token = reservation.token
         /\ reservation'.batch = reservation.batch
         /\ reservation'.acked = reservation.acked
         /\ reservation'.finalized = reservation.finalized
         /\ commandBox' \subseteq Commands
         /\ \A c \in commandBox' : /\ c.token = reservation.token /\ Ordered(c)
                                   /\ Deadline[c.event] <= c.deadline
         /\ EventsOf(commandBox') = EventsOf(reservation.batch)
         /\ overlay' \in [Roles -> Commands \cup {NoCommand}]
         /\ \A r \in RolesOf(reservation.batch) :
              overlay'[r] \in Commands /\ overlay'[r].token = reservation.token
         /\ \A r \in Roles \ RolesOf(reservation.batch) : overlay'[r] = overlay[r]
<1> DEFINE commands == {[c EXCEPT !.gen = direct] : c \in provisional}
<1>1. /\ cpc = "commit" /\ cpc' = "idle" /\ ~claimed' /\ provisional' = {}
      /\ UNCHANGED <<token, polled, directVars, ackVars, audioVars>>
      /\ commandBox' = commands
      /\ reservation' = [reservation EXCEPT !.state = "committed"]
  BY DEF CommitAndPublish
<1>2. /\ reservation' \in Reservations
      /\ reservation'.state = "committed" /\ reservation'.token = reservation.token
      /\ reservation'.batch = reservation.batch
      /\ reservation'.acked = reservation.acked
      /\ reservation'.finalized = reservation.finalized
  BY <1>1, BatchEvents DEF Reservations
<1>3. \A c \in commands : \E d \in provisional :
        /\ c \in Commands /\ c.token = d.token /\ c.event = d.event
        /\ c.start = d.start /\ c.end = d.end /\ c.deadline = d.deadline
  BY Generated
<1>4. \A d \in provisional : \E c \in commands : c.event = d.event
  BY Generated
<1>5. overlay' = [r \in Roles |->
        IF \E c \in commands : Role[c.event] = r
          THEN CHOOSE c \in commands : Role[c.event] = r ELSE overlay[r]]
  BY DEF CommitAndPublish
<1> HIDE DEF commands
<1>6. \A c \in commands : /\ c.token = reservation.token /\ Ordered(c)
                          /\ Deadline[c.event] <= c.deadline /\ c \in Commands
  BY <1>1, <1>3 DEF InCall, Timed, Ordered
<1>7. EventsOf(commands) = EventsOf(provisional)
  BY <1>3, <1>4 DEF EventsOf
<1>8. EventsOf(commands) = EventsOf(reservation.batch)
  BY <1>1, <1>7 DEF InCall
<1>9. \A r \in Roles : (\E c \in commands : Role[c.event] = r) <=> r \in RolesOf(reservation.batch)
  BY <1>8 DEF RolesOf, EventsOf
<1>10. ASSUME NEW r \in RolesOf(reservation.batch)
       PROVE  overlay'[r] \in Commands /\ overlay'[r].token = reservation.token
  <2>1. r \in Roles
    BY BatchEvents
  <2>2. overlay'[r] \in commands
    BY <1>5, <1>9, <2>1
  <2>3. QED
    BY <1>6, <2>2
<1>11. \A r \in Roles \ RolesOf(reservation.batch) : overlay'[r] = overlay[r]
  BY <1>5, <1>9
<1>12. overlay' \in [Roles -> Commands \cup {NoCommand}]
  BY <1>5, <1>10, <1>11 DEF TypeOK, ControlTypes
<1>13. QED
  BY <1>1, <1>2, <1>6, <1>8, <1>10, <1>11, <1>12

LEMMA BeginCommitEffect ==
  ASSUME TypeOK, NEW delay \in Delays, NEW detailed \in SUBSET Roles,
         BeginCommit(delay, detailed)
  PROVE  /\ cpc = "idle" /\ cpc' = "direct" /\ reservation.state = "ready"
         /\ UNCHANGED <<schedulerVars, token, reservation, overlay, polled, directVars,
                        commandVars, ackVars, audioVars>>
         /\ EventsOf(provisional') = EventsOf(reservation.batch)
         /\ provisional' \subseteq Commands
         /\ \A c \in provisional' : /\ c.token = reservation.token /\ Ordered(c)
                                    /\ Deadline[c.event] <= c.deadline
<1> DEFINE late(e) == IF Role[e] \in detailed THEN 0 ELSE delay[Role[e]]
           command(e) ==
             [token |-> reservation.token, gen |-> 1, event |-> e,
              detailed |-> Role[e] \in detailed,
              start |-> Frame[e] + late(e), end |-> Deadline[e] + late(e),
              deadline |-> Deadline[e] + delay[Role[e]]]
<1>1. /\ cpc = "idle" /\ cpc' = "direct" /\ reservation.state = "ready"
      /\ UNCHANGED <<schedulerVars, token, reservation, overlay, polled, directVars,
                     commandVars, ackVars, audioVars>>
  BY DEF BeginCommit
<1>2. provisional' = {command(e) : e \in EventsOf(reservation.batch)}
  BY DEF BeginCommit, Provisional
<1>3. reservation.token \in Nat
  BY BatchEvents DEF Reservations
<1>4. ASSUME NEW e \in EventsOf(reservation.batch)
      PROVE  /\ command(e) \in Commands /\ command(e).event = e
             /\ command(e).token = reservation.token /\ Ordered(command(e))
             /\ Deadline[command(e).event] <= command(e).deadline
  <2>1. e \in Events /\ Role[e] \in Roles /\ Frame[e] \in Nat /\ Deadline[e] \in Nat
        /\ Frame[e] <= Deadline[e]
    BY BatchEvents, EventFacts
  <2>2. delay[Role[e]] \in Nat
    BY <2>1, BridgeAssumption DEF Delays
  <2>3. late(e) \in Nat /\ late(e) <= delay[Role[e]]
    BY <2>2
  <2>4. (Role[e] \in detailed) \in BOOLEAN
    OBVIOUS
  <2> HIDE DEF late
  <2>5. /\ Frame[e] + late(e) \in Nat /\ Deadline[e] + late(e) \in Nat
        /\ Deadline[e] + delay[Role[e]] \in Nat
        /\ Frame[e] + late(e) <= Deadline[e] + late(e)
        /\ Deadline[e] + late(e) <= Deadline[e] + delay[Role[e]]
        /\ Deadline[e] <= Deadline[e] + delay[Role[e]] /\ 1 \in Nat
    BY <2>1, <2>2, <2>3
  <2>6. command(e) \in Commands
    BY <1>3, <2>1, <2>4, <2>5, Zenon DEF Commands
  <2>7. QED
    BY <2>5, <2>6 DEF Ordered
<1> HIDE DEF command
<1>5. EventsOf(provisional') = EventsOf(reservation.batch)
  BY <1>2, <1>4 DEF EventsOf
<1>6. QED
  BY <1>1, <1>2, <1>4, <1>5

-----------------------------------------------------------------------------
(* Types                                                                   *)

LEMMA NumberFacts ==
  /\ MaxFrame \in Nat /\ MaxDirect \in Nat /\ MaxTokens \in Nat
  /\ BlockSize \in Nat \ {0} /\ 0 \in Nat
BY BridgeAssumption

LEMMA InitTypes == Init => TypeOK
<1> SUFFICES ASSUME Init PROVE TypeOK
  OBVIOUS
<1>1. queue \subseteq Scheduler(0)!Slots /\ voices \in [Roles -> Scheduler(0)!Sounds]
      /\ tails \in [Roles -> Scheduler(0)!Sounds]
  BY DEF Init, Silent, Scheduler!Sounds
<1>2. reservation \in Reservations /\ reservation.token = 0 /\ reservation.acked = {}
      /\ reservation.finalized = {}
  BY NoReservationFields DEF Init
<1>3. /\ overlay \in [Roles -> Commands \cup {NoCommand}]
      /\ pendingAcks \in [Roles -> Acks] /\ ackBox = NoAck /\ ackLeaving = FALSE
      /\ polled \in Acks /\ ackBox \in Acks
  BY DEF Init, Acks, AckMail!Init
<1>4. ControlTypes
  BY <1>1, <1>2, <1>3, NumberFacts DEF Init, ControlTypes, Reservations
<1>5. Idle \in [phase: {"empty", "active", "acknowledged"},
                command: Commands \cup {NoCommand}, next: Nat, staged: 0..BlockSize]
  BY NumberFacts DEF Idle
<1>6. roles \in [Roles -> [phase: {"empty", "active", "acknowledged"},
                           command: Commands \cup {NoCommand},
                           next: Nat, staged: 0..BlockSize]]
  BY <1>5 DEF Init
<1>7. AudioTypes
  <2>1. clock \in 0..MaxFrame /\ observed \in 0..direct /\ pendingCommands \subseteq Commands
    BY NumberFacts DEF Init
  <2>2. apc = "idle" /\ stagedStart = None /\ valid = FALSE
    BY DEF Init
  <2>3. QED
    BY <1>3, <1>6, <2>1, <2>2 DEF AudioTypes
<1>8. claimed \in BOOLEAN /\ commandBox \subseteq Commands
  BY DEF Init
<1>9. QED
  BY <1>3, <1>4, <1>7, <1>8 DEF TypeOK

(* The control thread does not touch the callback's state, but for the     *)
(* generation it may observe.                                              *)
LEMMA AudioKept ==
  ASSUME TypeOK, UNCHANGED audioVars, direct' \in Nat, direct <= direct'
  PROVE  AudioTypes'
<1>1. direct \in Nat /\ observed \in 0..direct
  BY NumberFacts DEF TypeOK, ControlTypes, AudioTypes
<1>2. observed' \in 0..direct'
  BY <1>1 DEF audioVars
<1>3. QED
  BY <1>2 DEF TypeOK, AudioTypes, audioVars, roleVars

(* Most calls of the control thread leave the direct generation alone.     *)
LEMMA TypesKept ==
  ASSUME TypeOK, UNCHANGED <<direct, audioVars>>,
         ControlTypes', claimed' \in BOOLEAN, commandBox' \subseteq Commands,
         ackBox' \in Acks, ackLeaving' \in BOOLEAN
  PROVE  TypeOK'
<1>1. direct \in Nat
  BY NumberFacts DEF TypeOK, ControlTypes
<1>2. AudioTypes'
  BY <1>1, AudioKept
<1>3. QED
  BY <1>2 DEF TypeOK

LEMMA SchedulerCallTypes ==
  ASSUME TypeOK, QueueTypes', UNCHANGED <<bookVars, directVars, commandVars, ackVars, audioVars>>
  PROVE  TypeOK'
<1>1. ControlTypes'
  BY DEF TypeOK, ControlTypes, QueueTypes, bookVars, directVars
<1>2. QED
  BY <1>1, TypesKept DEF TypeOK, directVars, commandVars, ackVars

LEMMA ActivateTypes ==
  ASSUME TypeOK, NEW current \in 0..MaxFrame, NEW delay \in Delays,
         ActivateMacroEvents(current, delay)
  PROVE  TypeOK'
<1> DEFINE started == Scheduler(current)!FirstOfEachRole(Scheduler(current)!Due)
           kept == Scheduler(current)!Retire(tails)
<1>1. /\ Scheduler(current)!Start(started, kept, delay)
      /\ UNCHANGED <<bookVars, directVars, commandVars, ackVars, audioVars>>
  BY DEF ActivateMacroEvents
<1>2. QueueTypes
  BY DEF TypeOK, ControlTypes, QueueTypes
<1>3. started \in SUBSET queue
  BY DEF Scheduler!FirstOfEachRole, Scheduler!Due, Scheduler!Dormant
<1>4. kept \in [Roles -> Scheduler(0)!Sounds]
  <2>1. Scheduler(current)!Silent \in Scheduler(0)!Sounds
    BY DEF Scheduler!Sounds, Scheduler!Silent
  <2>2. QED
    BY <1>2, <2>1 DEF QueueTypes, Scheduler!Retire
<1>5. delay \in [Roles -> Nat] /\ current \in Nat
  <2>1. LocalDelays \subseteq Nat
    BY BridgeAssumption
  <2>2. delay \in [Roles -> LocalDelays]
    BY DEF Delays
  <2>3. delay \in [Roles -> Nat]
    BY <2>1, <2>2
  <2>4. current \in Nat
    BY NumberFacts
  <2>5. QED
    BY <2>3, <2>4
<1> HIDE DEF started, kept
<1>6. QueueTypes'
  BY <1>1, <1>2, <1>3, <1>4, <1>5, StartEffect
<1>7. QED
  BY <1>1, <1>6, SchedulerCallTypes

LEMMA ControlTypeStep ==
  ASSUME TypeOK, InCall, Timed, Control PROVE TypeOK'
<1>0. QueueTypes /\ reservation \in Reservations
  BY BatchEvents DEF TypeOK, ControlTypes, QueueTypes
<1>1. ASSUME NEW es \in SUBSET Events, AdmitGroup(es) PROVE TypeOK'
  <2>1. QueueTypes'
    BY <1>0, <1>1, AdmitEffect DEF AdmitGroup
  <2>2. QED
    BY <1>1, <2>1, SchedulerCallTypes DEF AdmitGroup
<1>2. ASSUME NEW delay \in Delays, NEW current \in 0..MaxFrame,
             ActivateMacroEvents(current, delay)
      PROVE  TypeOK'
  BY <1>2, ActivateTypes
<1>3. ASSUME NEW delay \in Delays, NEW detailed \in SUBSET Roles, BeginCommit(delay, detailed)
      PROVE  TypeOK'
  <2>1. ControlTypes'
    BY <1>3, BeginCommitEffect DEF TypeOK, ControlTypes, schedulerVars, directVars
  <2>2. QED
    BY <1>3, <2>1, TypesKept DEF BeginCommit, TypeOK, directVars, commandVars, ackVars
<1>4. ASSUME NEW r \in Roles, ReleaseMacroEvent(r) PROVE TypeOK'
  <2>1. QueueTypes'
    BY <1>0, <1>4, ReleaseEffect DEF ReleaseMacroEvent
  <2>2. QED
    BY <1>4, <2>1, SchedulerCallTypes DEF ReleaseMacroEvent
<1>5. ASSUME NEW lookahead \in 0..MaxFrame, PrepareToken(lookahead) PROVE TypeOK'
  <2>1. token \in 1..MaxTokens + 1 /\ token' \in 1..MaxTokens + 1 /\ token < token'
    BY <1>5, PrepareEffect, NumberFacts DEF TypeOK, ControlTypes
  <2>2. ControlTypes'
    BY <1>5, <2>1, PrepareEffect
       DEF TypeOK, ControlTypes, QueueTypes, directVars, Reservations
  <2>3. claimed' \in BOOLEAN
    BY <1>5 DEF PrepareToken
  <2>4. QED
    BY <1>5, <2>2, <2>3, PrepareEffect, TypesKept DEF TypeOK, directVars, ackVars
<1>6. CASE StageReady
  <2>1. ControlTypes'
    BY <1>6, StageReadyEffect DEF TypeOK, ControlTypes, schedulerVars, directVars, Reservations
  <2>2. QED
    BY <1>6, <2>1, StageReadyEffect, TypesKept DEF TypeOK, directVars, commandVars, ackVars
<1>7. CASE DiscardToken
  <2>1. QueueTypes'
    BY <1>0, <1>7, DiscardEffect DEF DiscardToken
  <2>2. reservation' = NoReservation /\ token \in Nat /\ token >= 1
    BY <1>7, NumberFacts DEF DiscardToken, TypeOK, ControlTypes
  <2>3. ControlTypes'
    BY <1>7, <2>1, <2>2, NoReservationFields
       DEF DiscardToken, TypeOK, ControlTypes, QueueTypes, directVars, Reservations
  <2>4. QED
    BY <1>7, <2>3, TypesKept DEF DiscardToken, TypeOK, directVars, ackVars
<1>8. CASE \/ \E rs \in SUBSET Roles : UpdateControl(rs)
           \/ CommitDirectFails \/ CommitDirectRuns
  <2>1. /\ UNCHANGED <<schedulerVars, token, reservation, overlay, polled, commandVars,
                       ackVars, audioVars>>
        /\ cpc' \in {"idle", "direct", "commit", "polled"}
        /\ provisional' \subseteq Commands
    BY <1>8 DEF UpdateControl, CommitDirectFails, CommitDirectRuns, bookVars, TypeOK,
                ControlTypes
  <2>2. Detailed(ActiveCommands \cup provisional) \subseteq Roles
        /\ Detailed(ActiveCommands) \subseteq Roles
    <3>1. ActiveCommands \subseteq Commands /\ provisional \subseteq Commands
      BY DEF ActiveCommands, TypeOK, ControlTypes
    <3>2. \A c \in Commands : Role[c.event] \in Roles
      BY EventFacts DEF Commands
    <3>3. QED
      BY <3>1, <3>2 DEF Detailed
  <2>3. backend' \subseteq Roles
    BY <1>8, <2>2 DEF UpdateControl, CommitDirectFails, CommitDirectRuns, DirectFails,
                      DirectRuns
  <2>4. direct \in 0..MaxDirect /\ direct' \in 0..MaxDirect /\ direct <= direct'
    BY <1>8, NumberFacts DEF UpdateControl, CommitDirectFails, CommitDirectRuns,
                             DirectFails, DirectRuns, TypeOK, ControlTypes
  <2>5. ControlTypes'
    BY <2>1, <2>3, <2>4 DEF TypeOK, ControlTypes, schedulerVars
  <2>6. AudioTypes'
    BY <2>1, <2>4, NumberFacts, AudioKept
  <2>7. QED
    BY <2>1, <2>5, <2>6 DEF TypeOK, commandVars, ackVars
<1>9. CASE CommitAndPublish
  <2>1. QueueTypes'
    BY <1>9, CommitStarts
  <2>2. ControlTypes'
    BY <1>9, <2>1, CommitEffect DEF TypeOK, ControlTypes, QueueTypes, directVars, Reservations
  <2>3. claimed' \in BOOLEAN
    BY <1>9 DEF CommitAndPublish
  <2>4. QED
    BY <1>9, <2>2, <2>3, CommitEffect, TypesKept DEF TypeOK, directVars, ackVars
<1>10. CASE PollAck
  <2>1. ackBox' \in Acks /\ ackLeaving' \in BOOLEAN /\ polled' \in Acks
    BY <1>10 DEF PollAck, AckMail!Take, TypeOK, Acks
  <2>2. ControlTypes'
    BY <1>10, <2>1 DEF PollAck, TypeOK, ControlTypes, schedulerVars, directVars
  <2>3. QED
    BY <1>10, <2>1, <2>2, TypesKept DEF PollAck, TypeOK, directVars, commandVars
<1>11. CASE PollReturns
  <2>1. NoAck \in Acks
    BY DEF Acks
  <2>2. reservation'.acked \subseteq RolesOf(reservation.batch)
        /\ reservation'.finalized \subseteq reservation'.acked
    BY <1>11, PollReturnsEffect DEF TypeOK, ControlTypes, Qualified, RolesOf
  <2>3. ControlTypes'
    BY <1>11, <2>1, <2>2, PollReturnsEffect
       DEF TypeOK, ControlTypes, schedulerVars, directVars, Reservations
  <2>4. QED
    BY <1>11, <2>3, PollReturnsEffect, TypesKept DEF TypeOK, directVars, commandVars
<1>12. ASSUME NEW r \in Roles, FinalizeAck(r) PROVE TypeOK'
  <2>1. overlay' \in [Roles -> Commands \cup {NoCommand}]
    BY <1>12, FinalizeEffect DEF TypeOK, ControlTypes
  <2>2. /\ reservation'.token < token
        /\ reservation'.finalized \subseteq reservation'.acked
        /\ reservation'.acked \subseteq RolesOf(reservation'.batch)
    <3>1. token \in Nat /\ token >= 1
      BY NumberFacts DEF TypeOK, ControlTypes
    <3>2. QED
      BY <1>12, <3>1, FinalizeEffect, NoReservationFields DEF TypeOK, ControlTypes
  <2>3. ControlTypes'
    BY <1>12, <2>1, <2>2, FinalizeEffect
       DEF TypeOK, ControlTypes, QueueTypes, directVars, Reservations
  <2>4. QED
    BY <1>12, <2>3, FinalizeEffect, TypesKept DEF TypeOK, directVars, commandVars, ackVars
<1>13. QED
  BY <1>1, <1>2, <1>3, <1>4, <1>5, <1>6, <1>7, <1>8, <1>9, <1>10, <1>11, <1>12 DEF Control

-----------------------------------------------------------------------------
(* What the callback does                                                  *)

RoleStates == [phase: {"empty", "active", "acknowledged"},
               command: Commands \cup {NoCommand}, next: Nat, staged: 0..BlockSize]

LEMMA AudioFacts ==
  ASSUME TypeOK
  PROVE  /\ clock \in 0..MaxFrame /\ clock \in Nat /\ commandBox \cup pendingCommands \subseteq Commands
         /\ roles \in [Roles -> RoleStates] /\ pendingAcks \in [Roles -> Acks]
         /\ Taken \subseteq Commands /\ Rejected \cup Accepted \subseteq Taken
BY NumberFacts DEF TypeOK, AudioTypes, RoleStates, Taken, Rejected, Accepted

LEMMA AckTypes ==
  ASSUME TypeOK, NEW c \in Commands, NEW r \in Roles, NEW kind \in {"rejected", "deactivated"}
  PROVE  /\ Ack(c, kind) \in Acks /\ Ack(c, kind) # NoAck
         /\ Ack(c, kind).event = c.event /\ Ack(c, kind).token = c.token
         /\ Queued(c, r, kind) \in Acks
<1>1. Ack(c, kind) \in Acks /\ Ack(c, kind).event = c.event /\ Ack(c, kind).token = c.token
      /\ c.event \in Events
  BY DEF Ack, Acks, Commands
<1>2. Ack(c, kind) # NoAck
  BY <1>1, NoneIsNoEvent DEF NoAck
<1>3. QED
  BY <1>1, <1>2, AudioFacts DEF Queued

LEMMA FlushEffect ==
  ASSUME TypeOK, NEW acks \in [Roles -> Acks], FlushOne(acks)
  PROVE  /\ ackLeaving' = ackLeaving /\ ackBox' \in Acks
         /\ pendingAcks' \in [Roles -> Acks]
         /\ \/ ackBox' = ackBox /\ pendingAcks' = acks
            \/ \E r \in Roles :
                 /\ acks[r] # NoAck /\ ackBox = NoAck
                 /\ ackBox' = acks[r] /\ pendingAcks' = [acks EXCEPT ![r] = NoAck]
<1> DEFINE waiting == {r \in Roles : acks[r] # NoAck}
           first == CHOOSE r \in waiting : \A s \in waiting : r <= s
<1>1. CASE waiting # {} /\ AckMail!Free
  <2>1. AckMail!Put(acks[first]) /\ pendingAcks' = [acks EXCEPT ![first] = NoAck]
    BY <1>1 DEF FlushOne
  <2>2. first \in waiting
    <3>1. \E r \in waiting : \A s \in waiting : r <= s
      BY <1>1, BridgeAssumption, LeastNatural
    <3>2. QED
      BY <3>1
  <2> HIDE DEF first
  <2>3. ackBox = NoAck /\ ackBox' = acks[first] /\ ackLeaving' = ackLeaving
    BY <2>1 DEF AckMail!Put, AckMail!Free
  <2>4. NoAck \in Acks
    BY DEF Acks
  <2>5. QED
    BY <2>1, <2>2, <2>3, <2>4
<1>2. CASE ~(waiting # {} /\ AckMail!Free)
  <2>1. UNCHANGED ackVars /\ pendingAcks' = acks
    BY <1>2 DEF FlushOne
  <2>2. QED
    BY <2>1 DEF TypeOK, ackVars
<1>3. QED
  BY <1>1, <1>2

(* The frames asked for lie in this block and before the end.              *)
LEMMA FramesDueFacts ==
  ASSUME TypeOK, NEW s \in RoleStates, clock <= s.next
  PROVE  /\ FramesDue(s) \in 0..BlockSize
         /\ FramesDue(s) > 0 => /\ s.next + FramesDue(s) <= clock + BlockSize
                                /\ s.next + FramesDue(s) <= s.command.end
<1>1. s.command.end \in Nat /\ s.next \in Nat
  BY DEF RoleStates, Commands, NoCommand
<1>2. clock \in Nat /\ BlockSize \in Nat
  BY AudioFacts, NumberFacts
<1>3. QED
  BY <1>1, <1>2, SMT DEF FramesDue, Smaller

(* A role turns its event away, takes it, or goes on with what it had: it  *)
(* misses it, is asked for its frames, or has nothing to play.             *)
LEMMA StagedRole ==
  ASSUME TypeOK, StageBlock, NEW r \in Roles
  PROVE  \/ \E c \in Rejected :
              /\ Role[c.event] = r /\ roles'[r] = Acknowledged
              /\ pendingAcks'[r] = Queued(c, r, "rejected")
         \/ \E c \in Accepted :
              /\ Role[c.event] = r /\ roles[r].phase # "active" /\ clock <= c.start
              /\ roles'[r] \in RoleStates /\ roles'[r].phase = "active"
              /\ roles'[r].command = c /\ roles'[r].next = c.start
              /\ roles'[r].staged > 0 =>
                   /\ c.start + roles'[r].staged <= clock + BlockSize
                   /\ c.start + roles'[r].staged <= c.end
              /\ pendingAcks'[r] = pendingAcks[r]
         \/ /\ \A c \in Rejected \cup Accepted : Role[c.event] # r
            /\ \/ /\ roles[r].phase = "active" /\ roles'[r] = Acknowledged
                  /\ pendingAcks'[r] = Queued(roles[r].command, r, "rejected")
               \/ /\ roles[r].phase = "active" /\ clock <= roles[r].next
                  /\ roles'[r] \in RoleStates /\ roles'[r].phase = "active"
                  /\ roles'[r].command = roles[r].command
                  /\ roles'[r].next = roles[r].next
                  /\ roles'[r].staged > 0 =>
                       /\ roles[r].next + roles'[r].staged <= clock + BlockSize
                       /\ roles[r].next + roles'[r].staged <= roles[r].command.end
                  /\ pendingAcks'[r] = pendingAcks[r]
               \/ /\ roles[r].phase # "active" /\ roles'[r] = roles[r]
                  /\ pendingAcks'[r] = pendingAcks[r]
<1> DEFINE begun == Accept(roles[r], r)
           turned == \E c \in Rejected : Role[c.event] = r
<1>1. /\ roles'[r] = IF turned \/ Missed(begun) THEN Acknowledged
                     ELSE IF begun.phase = "active"
                       THEN [begun EXCEPT !.staged = FramesDue(begun)] ELSE begun
      /\ pendingAcks'[r] =
           IF turned THEN Queued(CHOOSE c \in Rejected : Role[c.event] = r, r, "rejected")
           ELSE IF Missed(begun) THEN Queued(begun.command, r, "rejected")
           ELSE pendingAcks[r]
  <2> DEFINE away == {Role[c.event] : c \in Rejected}
             begin == [q \in Roles |-> Accept(roles[q], q)]
  <2>1. /\ roles' = [q \in Roles |->
             IF q \in away \/ Missed(begin[q]) THEN Acknowledged
             ELSE IF begin[q].phase = "active"
               THEN [begin[q] EXCEPT !.staged = FramesDue(begin[q])] ELSE begin[q]]
        /\ pendingAcks' = [q \in Roles |->
             IF q \in away
               THEN Queued(CHOOSE c \in Rejected : Role[c.event] = q, q, "rejected")
             ELSE IF Missed(begin[q]) THEN Queued(begin[q].command, q, "rejected")
             ELSE pendingAcks[q]]
    BY DEF StageBlock
  <2>2. begin[r] = begun /\ (r \in away <=> turned)
    OBVIOUS
  <2> HIDE DEF begin, away, begun, turned
  <2>3. QED
    BY <2>1, <2>2
<1>2. roles[r] \in RoleStates /\ clock \in Nat
  BY AudioFacts
<1>3. CASE turned
  <2> DEFINE c == CHOOSE d \in Rejected : Role[d.event] = r
  <2>1. c \in Rejected /\ Role[c.event] = r
    BY <1>3
  <2>2. roles'[r] = Acknowledged /\ pendingAcks'[r] = Queued(c, r, "rejected")
    BY <1>1, <1>3
  <2> HIDE DEF c
  <2>3. QED
    BY <2>1, <2>2
<1>4. CASE ~turned /\ \E c \in Accepted : Role[c.event] = r
  <2> DEFINE c == CHOOSE d \in Accepted : Role[d.event] = r
  <2>1. c \in Accepted /\ Role[c.event] = r
    BY <1>4
  <2>2. begun = [phase |-> "active", command |-> c, next |-> c.start, staged |-> 0]
    BY <1>4 DEF Accept
  <2>3. c \in Commands /\ c.start \in Nat
    BY <2>1, AudioFacts DEF Commands
  <2>4. clock <= c.start /\ roles[r].phase # "active"
    <3>1. ~Invalid /\ c \in Taken
      BY <2>1 DEF Accepted
    <3>2. QED
      BY <1>2, <2>1, <2>3, <3>1 DEF Invalid
  <2> HIDE DEF c
  <2>5. begun \in RoleStates /\ begun.phase = "active" /\ begun.next = c.start
        /\ begun.command = c
    BY <2>2, <2>3, NumberFacts DEF RoleStates
  <2>6. ~Missed(begun)
    BY <1>2, <2>3, <2>4, <2>5 DEF Missed
  <2>7. FramesDue(begun) \in 0..BlockSize
        /\ (FramesDue(begun) > 0 => /\ c.start + FramesDue(begun) <= clock + BlockSize
                                    /\ c.start + FramesDue(begun) <= c.end)
    BY <2>4, <2>5, FramesDueFacts
  <2>8. roles'[r] = [begun EXCEPT !.staged = FramesDue(begun)]
        /\ pendingAcks'[r] = pendingAcks[r]
    BY <1>1, <1>4, <2>5, <2>6
  <2>9. roles'[r] = [phase |-> "active", command |-> c, next |-> c.start,
                     staged |-> FramesDue(begun)]
    BY <2>2, <2>8
  <2> HIDE DEF begun
  <2>10. /\ roles'[r] \in RoleStates /\ roles'[r].staged = FramesDue(begun)
         /\ roles'[r].phase = "active" /\ roles'[r].command = c /\ roles'[r].next = c.start
    BY <2>3, <2>7, <2>9 DEF RoleStates
  <2>11. QED
    BY <2>1, <2>4, <2>7, <2>8, <2>10
<1>5. CASE ~turned /\ ~\E c \in Accepted : Role[c.event] = r
  <2>1. begun = roles[r] /\ \A c \in Rejected \cup Accepted : Role[c.event] # r
    BY <1>5 DEF Accept
  <2> HIDE DEF begun
  <2>2. CASE roles[r].phase = "active" /\ roles[r].next < clock
    BY <1>1, <1>5, <2>1, <2>2 DEF Missed
  <2>3. CASE roles[r].phase = "active" /\ ~(roles[r].next < clock)
    <3>1. clock <= roles[r].next
      BY <1>2, <2>3 DEF RoleStates
    <3>2. FramesDue(roles[r]) \in 0..BlockSize
          /\ (FramesDue(roles[r]) > 0 =>
                /\ roles[r].next + FramesDue(roles[r]) <= clock + BlockSize
                /\ roles[r].next + FramesDue(roles[r]) <= roles[r].command.end)
      BY <1>2, <3>1, FramesDueFacts
    <3>3. roles'[r] = [roles[r] EXCEPT !.staged = FramesDue(roles[r])]
          /\ pendingAcks'[r] = pendingAcks[r]
      BY <1>1, <1>5, <2>1, <2>3 DEF Missed
    <3>4. roles'[r] \in RoleStates /\ roles'[r].phase = "active"
          /\ roles'[r].command = roles[r].command /\ roles'[r].next = roles[r].next
          /\ roles'[r].staged = FramesDue(roles[r])
      BY <1>2, <2>3, <3>2, <3>3 DEF RoleStates
    <3>5. QED
      BY <2>1, <2>3, <3>1, <3>2, <3>3, <3>4
  <2>4. CASE roles[r].phase # "active"
    BY <1>1, <1>5, <2>1, <2>4 DEF Missed
  <2>5. QED
    BY <2>2, <2>3, <2>4
<1>6. QED
  BY <1>3, <1>4, <1>5

LEMMA UnstagedRole ==
  ASSUME TypeOK, NEW r \in Roles
  PROVE  /\ Unstaged[r] \in RoleStates /\ Unstaged[r].phase = roles[r].phase
         /\ Unstaged[r].command = roles[r].command /\ Unstaged[r].next = roles[r].next
         /\ Unstaged[r].staged = 0
<1>1. roles[r] \in RoleStates /\ 0 \in 0..BlockSize
  BY AudioFacts, NumberFacts
<1>2. Unstaged[r] = [roles[r] EXCEPT !.staged = 0]
  BY DEF Unstaged
<1>3. QED
  BY <1>1, <1>2 DEF RoleStates

(* After a committed block: over, further on, or not playing.              *)
LEMMA EndedRole ==
  ASSUME TypeOK, RenderEndCommit, NEW r \in Roles
  PROVE  \/ /\ roles[r].phase # "active" /\ roles'[r] = Unstaged[r]
         \/ roles[r].phase = "active" /\ Complete(r) /\ roles'[r] = Acknowledged
         \/ /\ roles[r].phase = "active" /\ ~Complete(r)
            /\ roles'[r] \in RoleStates /\ roles'[r].phase = "active"
            /\ roles'[r].command = roles[r].command
            /\ roles'[r].next = roles[r].next + roles[r].staged /\ roles'[r].staged = 0
<1>1. roles' = [q \in Roles |-> IF roles[q].phase # "active" THEN Unstaged[q]
                                ELSE IF Complete(q) THEN Acknowledged ELSE Played(q)]
  BY DEF RenderEndCommit
<1>2. CASE roles[r].phase # "active"
  BY <1>1, <1>2
<1>3. CASE roles[r].phase = "active" /\ Complete(r)
  BY <1>1, <1>3
<1>4. CASE roles[r].phase = "active" /\ ~Complete(r)
  <2>1. roles'[r] = Played(r)
    BY <1>1, <1>4
  <2>2. Played(r) = [roles[r] EXCEPT !.next = roles[r].next + roles[r].staged, !.staged = 0]
    BY DEF Played
  <2>3. roles[r] \in RoleStates /\ roles[r].next + roles[r].staged \in Nat /\ 0 \in 0..BlockSize
    <3>1. roles[r] \in RoleStates
      BY AudioFacts
    <3>2. roles[r].next \in Nat /\ roles[r].staged \in Nat
      BY <3>1, NumberFacts DEF RoleStates
    <3>3. QED
      BY <3>1, <3>2, NumberFacts
  <2> DEFINE n == roles[r].next + roles[r].staged
  <2>4. roles'[r] = [roles[r] EXCEPT !.next = n, !.staged = 0]
    BY <2>1, <2>2
  <2> HIDE DEF n
  <2>5. /\ roles'[r] \in RoleStates /\ roles'[r].phase = roles[r].phase
        /\ roles'[r].command = roles[r].command
        /\ roles'[r].next = n /\ roles'[r].staged = 0
    <3>1. n \in Nat
      BY <2>3 DEF n
    <3>2. QED
      BY <2>3, <2>4, <3>1 DEF RoleStates
  <2>6. QED
    BY <1>4, <2>5 DEF n
<1>5. QED
  BY <1>2, <1>3, <1>4

(* The acknowledgements that the end of a committed block flushes from.    *)
EndAcks == [r \in Roles |-> IF Complete(r) THEN Queued(roles[r].command, r, "deactivated")
                            ELSE pendingAcks[r]]

LEMMA EndAcksType ==
  ASSUME TypeOK, Tagged PROVE EndAcks \in [Roles -> Acks]
<1>1. ASSUME NEW r \in Roles, Complete(r)
      PROVE  Queued(roles[r].command, r, "deactivated") \in Acks
  <2>1. roles[r].command \in Commands
    BY <1>1 DEF Complete, Tagged
  <2>2. QED
    BY <2>1, AckTypes
<1>2. QED
  BY <1>1, AudioFacts DEF EndAcks

LEMMA AudioKeeps ==
  ASSUME Audio
  PROVE  /\ UNCHANGED <<controlVars, claimed>>
         /\ UNCHANGED <<queue, voices, tails, cpc, token, reservation, provisional, overlay,
                        polled, backend, direct>>
BY DEF Audio, RenderBegin, StageBlock, RenderSpatial, RenderEndDiscard, RenderEndCommit,
       controlVars, commandVars, schedulerVars, bookVars, directVars

LEMMA AcknowledgedType == Acknowledged \in RoleStates /\ Acknowledged.phase = "acknowledged"
BY NumberFacts DEF Acknowledged, Idle, RoleStates

LEMMA AudioTypeStep ==
  ASSUME TypeOK, Tagged, Audio PROVE TypeOK'
<1>1. ControlTypes' /\ claimed' \in BOOLEAN /\ direct' = direct
  BY AudioKeeps DEF TypeOK, ControlTypes
<1>2. /\ clock \in 0..MaxFrame /\ observed \in 0..direct /\ direct \in Nat
      /\ pendingCommands \subseteq Commands /\ commandBox \subseteq Commands
      /\ roles \in [Roles -> RoleStates] /\ pendingAcks \in [Roles -> Acks]
      /\ valid \in BOOLEAN /\ ackBox \in Acks /\ ackLeaving \in BOOLEAN
      /\ (stagedStart # None <=> apc \in {"staged", "rendered"})
      /\ stagedStart \in (0..MaxFrame) \cup {None}
      /\ apc \in {"idle", "observed", "staged", "rendered"}
  BY NumberFacts DEF TypeOK, ControlTypes, AudioTypes, RoleStates
<1>3. ASSUME /\ clock' \in 0..MaxFrame /\ observed' \in 0..direct
             /\ pendingCommands' \subseteq Commands /\ commandBox' \subseteq Commands
             /\ roles' \in [Roles -> RoleStates] /\ pendingAcks' \in [Roles -> Acks]
             /\ valid' \in BOOLEAN /\ ackBox' \in Acks /\ ackLeaving' \in BOOLEAN
             /\ (stagedStart' # None <=> apc' \in {"staged", "rendered"})
             /\ stagedStart' \in (0..MaxFrame) \cup {None}
             /\ apc' \in {"idle", "observed", "staged", "rendered"}
      PROVE  TypeOK'
  BY <1>1, <1>3 DEF TypeOK, AudioTypes, RoleStates
<1>4. CASE RenderBegin
  <2>1. /\ ackLeaving' = ackLeaving /\ ackBox' \in Acks /\ pendingAcks' \in [Roles -> Acks]
    BY <1>2, <1>4, FlushEffect DEF RenderBegin
  <2>2. observed' \in 0..direct
    BY <1>2, <1>4 DEF RenderBegin
  <2>3. QED
    BY <1>2, <1>3, <1>4, <2>1, <2>2 DEF RenderBegin, commandVars
<1>5. CASE StageBlock
  <2>1. /\ roles' = [r \in Roles |-> roles'[r]] /\ pendingAcks' = [r \in Roles |-> pendingAcks'[r]]
    BY <1>5 DEF StageBlock
  <2>2. \A r \in Roles : roles'[r] \in RoleStates /\ pendingAcks'[r] \in Acks
    <3> SUFFICES ASSUME NEW r \in Roles PROVE roles'[r] \in RoleStates /\ pendingAcks'[r] \in Acks
      OBVIOUS
    <3>1. \A c \in Rejected : Queued(c, r, "rejected") \in Acks
      BY AudioFacts, AckTypes
    <3>2. roles[r].phase = "active" => Queued(roles[r].command, r, "rejected") \in Acks
      BY AckTypes DEF Tagged
    <3>3. pendingAcks[r] \in Acks /\ roles[r] \in RoleStates
      BY <1>2
    <3>4. \/ \E c \in Rejected : /\ roles'[r] = Acknowledged
                                 /\ pendingAcks'[r] = Queued(c, r, "rejected")
          \/ roles'[r] \in RoleStates /\ pendingAcks'[r] = pendingAcks[r]
          \/ /\ roles[r].phase = "active" /\ roles'[r] = Acknowledged
             /\ pendingAcks'[r] = Queued(roles[r].command, r, "rejected")
      BY <1>5, <3>3, StagedRole
    <3>5. QED
      BY <3>1, <3>2, <3>3, <3>4, AcknowledgedType
  <2>3. commandBox' \subseteq Commands /\ pendingCommands' \subseteq Commands
    BY <1>2, <1>5, AudioFacts DEF StageBlock
  <2>4. /\ stagedStart' = clock /\ clock # None /\ apc' = "staged" /\ observed' = 0
        /\ UNCHANGED <<clock, valid, ackBox, ackLeaving>>
    BY <1>2, <1>5, NumberFacts, NoneIsNoEvent DEF StageBlock, ackVars
  <2>5. 0 \in 0..direct
    BY <1>2
  <2>6. roles' \in [Roles -> RoleStates] /\ pendingAcks' \in [Roles -> Acks]
    BY <2>1, <2>2
  <2>7. QED
    BY <1>2, <1>3, <2>3, <2>4, <2>5, <2>6
<1>6. ASSUME NEW ok \in BOOLEAN, RenderSpatial(ok) PROVE TypeOK'
  <2>1. clock' \in 0..MaxFrame
    BY <1>2, <1>6, NumberFacts DEF RenderSpatial
  <2>2. QED
    BY <1>2, <1>3, <1>6, <2>1 DEF RenderSpatial, commandVars, ackVars, roleVars
<1>7. CASE RenderEndDiscard
  <2>1. roles' \in [Roles -> RoleStates]
    BY <1>7, UnstagedRole DEF RenderEndDiscard, Unstaged
  <2>2. QED
    BY <1>2, <1>3, <1>7, <2>1 DEF RenderEndDiscard, commandVars, ackVars
<1>8. CASE RenderEndCommit
  <2>1. FlushOne(EndAcks)
    BY <1>8 DEF RenderEndCommit, EndAcks
  <2>2. /\ ackLeaving' = ackLeaving /\ ackBox' \in Acks /\ pendingAcks' \in [Roles -> Acks]
    BY <2>1, EndAcksType, FlushEffect
  <2>3. roles' = [r \in Roles |-> roles'[r]]
    BY <1>8 DEF RenderEndCommit
  <2>4. \A r \in Roles : roles'[r] \in RoleStates
    BY <1>8, AcknowledgedType, UnstagedRole, EndedRole
  <2>5. roles' \in [Roles -> RoleStates]
    BY <2>3, <2>4
  <2>6. QED
    BY <1>2, <1>3, <1>8, <2>2, <2>5 DEF RenderEndCommit, commandVars
<1>9. QED
  BY <1>4, <1>5, <1>6, <1>7, <1>8 DEF Audio

-----------------------------------------------------------------------------
(* The reservation, the overlay and the call in progress                   *)

(* The calls of the control thread that leave a reservation and the        *)
(* mailboxes alone.                                                        *)
SchedulerCall ==
  \/ \E es \in SUBSET Events : AdmitGroup(es)
  \/ \E delay \in Delays, current \in 0..MaxFrame : ActivateMacroEvents(current, delay)
  \/ \E r \in Roles : ReleaseMacroEvent(r)

DirectCall ==
  \/ \E rs \in SUBSET Roles : UpdateControl(rs)
  \/ CommitDirectFails \/ CommitDirectRuns

LEMMA SchedulerCallKeeps ==
  ASSUME SchedulerCall
  PROVE  /\ cpc = "idle"
         /\ UNCHANGED <<cpc, token, reservation, provisional, overlay, polled, claimed,
                        commandBox, ackVars, audioVars>>
BY DEF SchedulerCall, AdmitGroup, ActivateMacroEvents, ReleaseMacroEvent, bookVars, commandVars

LEMMA DirectCallKeeps ==
  ASSUME DirectCall
  PROVE  /\ UNCHANGED <<schedulerVars, token, reservation, overlay, polled, claimed,
                        commandBox, ackVars, audioVars>>
         /\ \/ cpc = "idle" /\ UNCHANGED <<cpc, provisional>>
            \/ cpc = "direct" /\ cpc' = "idle" /\ provisional' = {}
            \/ cpc = "direct" /\ cpc' = "commit" /\ UNCHANGED provisional
BY DEF DirectCall, UpdateControl, CommitDirectFails, CommitDirectRuns, bookVars, commandVars

(* What is left of the control thread.                                     *)
LEMMA ControlCalls ==
  ASSUME Control
  PROVE  \/ SchedulerCall \/ DirectCall
         \/ \E delay \in Delays, detailed \in SUBSET Roles : BeginCommit(delay, detailed)
         \/ \E lookahead \in 0..MaxFrame : PrepareToken(lookahead)
         \/ StageReady \/ DiscardToken \/ CommitAndPublish \/ PollAck \/ PollReturns
         \/ \E r \in Roles : FinalizeAck(r)
BY DEF Control, SchedulerCall, DirectCall

LEMMA AudioKeepsBook ==
  ASSUME Audio
  PROVE  /\ Batched => Batched'
         /\ Overlaid => Overlaid'
         /\ InCall => InCall'
BY AudioKeeps DEF Batched, Overlaid, InCall, Committed, Uncommitted

LEMMA DiscardFields ==
  ASSUME DiscardToken
  PROVE  /\ cpc = "idle" /\ Uncommitted /\ ~claimed' /\ reservation' = NoReservation
         /\ UNCHANGED <<cpc, token, provisional, overlay, polled, directVars, commandBox,
                        ackVars, audioVars>>
BY DEF DiscardToken

LEMMA BatchedStep ==
  ASSUME TypeOK, Batched, InCall, Timed, Control PROVE Batched'
<1>1. CASE \/ SchedulerCall \/ DirectCall
           \/ \E delay \in Delays, detailed \in SUBSET Roles : BeginCommit(delay, detailed)
           \/ PollAck
  <2>1. UNCHANGED reservation
    BY <1>1, SchedulerCallKeeps, DirectCallKeeps DEF BeginCommit, PollAck
  <2>2. QED
    BY <2>1 DEF Batched, Committed
<1>2. ASSUME NEW lookahead \in 0..MaxFrame, PrepareToken(lookahead) PROVE Batched'
  BY <1>2, PrepareEffect DEF Batched, Committed
<1>3. CASE StageReady
  BY <1>3, StageReadyEffect DEF Batched, Committed, Uncommitted
<1>4. CASE DiscardToken
  BY <1>4, DiscardFields, NoReservationFields DEF Batched, Committed, EventsOf
<1>5. CASE CommitAndPublish
  BY <1>5, CommitEffect DEF Batched, Committed, InCall
<1>6. CASE PollReturns
  BY <1>6, PollReturnsEffect DEF Batched, Committed, InCall
<1>7. ASSUME NEW r \in Roles, FinalizeAck(r) PROVE Batched'
  BY <1>7, FinalizeEffect, NoReservationFields DEF Batched, Committed, EventsOf
<1>8. QED
  BY <1>1, <1>2, <1>3, <1>4, <1>5, <1>6, <1>7, ControlCalls

LEMMA OverlaidStep ==
  ASSUME TypeOK, Batched, Overlaid, InCall, Timed, Control PROVE Overlaid'
<1>1. CASE \/ SchedulerCall \/ DirectCall
           \/ \E delay \in Delays, detailed \in SUBSET Roles : BeginCommit(delay, detailed)
           \/ PollAck
  <2>1. UNCHANGED <<reservation, overlay>>
    BY <1>1, SchedulerCallKeeps, DirectCallKeeps DEF BeginCommit, PollAck
  <2>2. QED
    BY <2>1 DEF Overlaid, Committed
<1>2. ASSUME NEW lookahead \in 0..MaxFrame, PrepareToken(lookahead) PROVE Overlaid'
  BY <1>2, PrepareEffect, NoReservationFields DEF Overlaid, Committed
<1>3. CASE StageReady
  BY <1>3, StageReadyEffect DEF Overlaid, Committed, Uncommitted
<1>4. CASE DiscardToken
  BY <1>4, DiscardFields, NoReservationFields DEF Overlaid, Committed, Uncommitted
<1>5. CASE CommitAndPublish
  <2>1. reservation.state = "ready" /\ ~Committed
    BY <1>5, CommitEffect DEF InCall, Committed
  <2>2. \A r \in Roles : overlay[r] = NoCommand
    BY <2>1 DEF Overlaid
  <2>3. reservation.finalized = {}
    BY <2>1 DEF Batched, TypeOK, ControlTypes
  <2>4. Committed' /\ reservation'.token = reservation.token
        /\ RolesOf(reservation'.batch) = RolesOf(reservation.batch)
        /\ reservation'.finalized = {}
    BY <1>5, <2>3, CommitEffect DEF Committed
  <2>5. QED
    BY <1>5, <2>2, <2>4, CommitEffect, NoCommandIsNone DEF Overlaid
<1>6. CASE PollReturns
  BY <1>6, PollReturnsEffect DEF Overlaid, Committed
<1>7. ASSUME NEW r \in Roles, FinalizeAck(r) PROVE Overlaid'
  <2>1. overlay \in [Roles -> Commands \cup {NoCommand}]
    BY DEF TypeOK, ControlTypes
  <2>2. /\ Committed /\ overlay' = [overlay EXCEPT ![r] = NoCommand]
        /\ overlay'[r] = NoCommand /\ \A q \in Roles \ {r} : overlay'[q] = overlay[q]
    BY <1>7, <2>1, FinalizeEffect
  <2>3. CASE reservation.finalized \cup {r} = RolesOf(reservation.batch)
             /\ reservation' = NoReservation
    BY <2>2, <2>3, NoReservationFields DEF Overlaid, Committed
  <2>4. CASE /\ reservation'.state = reservation.state
             /\ reservation'.token = reservation.token
             /\ reservation'.batch = reservation.batch
             /\ reservation'.finalized = reservation.finalized \cup {r}
    BY <2>2, <2>4 DEF Overlaid, Committed
  <2>5. QED
    BY <1>7, <2>3, <2>4, FinalizeEffect
<1>8. QED
  BY <1>1, <1>2, <1>3, <1>4, <1>5, <1>6, <1>7, ControlCalls

LEMMA InCallStep ==
  ASSUME TypeOK, InCall, Timed, Control PROVE InCall'
<1>1. CASE SchedulerCall
  BY <1>1, SchedulerCallKeeps DEF InCall, Committed, Uncommitted
<1>2. CASE DirectCall
  BY <1>2, DirectCallKeeps DEF InCall, Committed, Uncommitted
<1>3. ASSUME NEW delay \in Delays, NEW detailed \in SUBSET Roles, BeginCommit(delay, detailed)
      PROVE  InCall'
  BY <1>3, BeginCommitEffect DEF InCall, Committed, Uncommitted, commandVars
<1>4. ASSUME NEW lookahead \in 0..MaxFrame, PrepareToken(lookahead) PROVE InCall'
  BY <1>4, PrepareEffect DEF InCall, Uncommitted
<1>5. CASE StageReady
  BY <1>5, StageReadyEffect DEF InCall, Uncommitted
<1>6. CASE DiscardToken
  BY <1>6, DiscardFields DEF InCall
<1>7. CASE CommitAndPublish
  BY <1>7, CommitEffect DEF InCall
<1>8. CASE PollAck
  BY <1>8 DEF PollAck, InCall, Committed, Uncommitted, commandVars
<1>9. CASE PollReturns
  BY <1>9, PollReturnsEffect DEF InCall, Uncommitted, commandVars
<1>10. ASSUME NEW r \in Roles, FinalizeAck(r) PROVE InCall'
  BY <1>10, FinalizeEffect DEF InCall, Committed, Uncommitted, commandVars
<1>11. QED
  BY <1>1, <1>2, <1>3, <1>4, <1>5, <1>6, <1>7, <1>8, <1>9, <1>10, ControlCalls
-----------------------------------------------------------------------------
(* One owner of an event                                                   *)

LEMMA AwaitedFacts ==
  ASSUME TypeOK, Batched, NEW e \in Events, NEW f \in Events, Awaited(e), Awaited(f),
         Role[e] = Role[f]
  PROVE  e = f
BY DEF Batched, Awaited

(* Whoever plays an event or has its acknowledgement is of its own role,   *)
(* so that two of them would be two owners of one event.                   *)
LEMMA OwnRole ==
  ASSUME TypeOK, Batched, Tagged, OneOwner, NEW e \in Events, Awaited(e)
  PROVE  /\ InMail(e) \/ InPending(e) =>
              roles[Role[e]].phase # "active" /\ pendingAcks[Role[e]] = NoAck
         /\ Playing(e) => pendingAcks[Role[e]] = NoAck
<1> DEFINE r == Role[e]
<1>0. r \in Roles /\ pendingAcks[r] \in Acks /\ Owned(e)
  BY EventFacts, AudioFacts DEF OneOwner
<1>1. ASSUME pendingAcks[r] # NoAck PROVE Queueing(e)
  <2>1. pendingAcks[r].event \in Events /\ Role[pendingAcks[r].event] = r
    BY <1>0, <1>1, AckOrNone DEF Tagged
  <2>2. Awaited(pendingAcks[r].event)
    BY <2>1 DEF OneOwner, Owned, Queueing
  <2>3. pendingAcks[r].event = e
    BY <2>1, <2>2, AwaitedFacts
  <2>4. QED
    BY <2>3 DEF Queueing
<1>2. ASSUME roles[r].phase = "active" PROVE Playing(e)
  <2> DEFINE f == roles[r].command.event
  <2>1. f \in Events /\ Role[f] = r
    BY <1>0, <1>2 DEF Tagged, Commands
  <2>2. Playing(f)
    BY <1>2, <2>1 DEF Playing
  <2>3. Awaited(f)
    BY <2>1, <2>2 DEF OneOwner, Owned
  <2>4. f = e
    BY <2>1, <2>3, AwaitedFacts
  <2>5. QED
    BY <2>2, <2>4
<1>3. QED
  BY <1>0, <1>1, <1>2 DEF Owned

(* A role that plays, plays an awaited event of its own.                   *)
LEMMA ActiveRole ==
  ASSUME TypeOK, Tagged, OneOwner, NEW r \in Roles, roles[r].phase = "active"
  PROVE  /\ roles[r].command \in Commands /\ roles[r].command.event \in Events
         /\ Role[roles[r].command.event] = r /\ Playing(roles[r].command.event)
         /\ Awaited(roles[r].command.event)
<1>1. /\ roles[r].command \in Commands /\ roles[r].command.event \in Events
      /\ Role[roles[r].command.event] = r
  BY DEF Tagged, Commands
<1>2. Playing(roles[r].command.event)
  BY <1>1 DEF Playing
<1>3. QED
  BY <1>1, <1>2 DEF OneOwner, Owned

LEMMA TakenCommand ==
  ASSUME TypeOK, OneOwner, NEW c \in Taken
  PROVE  /\ c \in Commands /\ c.event \in Events /\ Role[c.event] \in Roles
         /\ InMail(c.event) \/ InPending(c.event)
         /\ Awaited(c.event)
<1>1. c \in Commands /\ c.event \in Events
  BY AudioFacts DEF Commands
<1>2. InMail(c.event) \/ InPending(c.event)
  BY DEF Taken, InMail, InPending
<1>3. QED
  BY <1>1, <1>2, EventFacts DEF OneOwner, Owned

(* An event that is not awaited has no owner, one that is has one: the     *)
(* acknowledgement it leaves behind is the only one of its role.           *)
LEMMA QueuedIsAck ==
  ASSUME TypeOK, Batched, Tagged, OneOwner, NEW c \in Commands, NEW kind,
         InMail(c.event) \/ InPending(c.event) \/ Playing(c.event)
  PROVE  Queued(c, Role[c.event], kind) = Ack(c, kind)
<1>1. c.event \in Events
  BY DEF Commands
<1>2. Awaited(c.event)
  BY <1>1 DEF OneOwner, Owned
<1>3. QED
  BY <1>1, <1>2, OwnRole DEF Queued

(* A flush hands the acknowledgement of one role on, or none.              *)
LEMMA FlushMoves ==
  ASSUME TypeOK, NEW acks \in [Roles -> Acks], FlushOne(acks), NEW e \in Events,
         \A r \in Roles : acks[r] # NoAck => Role[acks[r].event] = r
  PROVE  \/ (Queueing(e)' <=> acks[Role[e]].event = e) /\ (Acking(e)' <=> Acking(e))
         \/ acks[Role[e]].event = e /\ ~Queueing(e)' /\ ~Acking(e) /\ Acking(e)'
<1>1. Role[e] \in Roles /\ NoAck.event = None /\ e # None
  BY EventFacts, NoneIsNoEvent DEF NoAck
<1>2. CASE ackBox' = ackBox /\ pendingAcks' = acks
  BY <1>2 DEF Queueing, Acking
<1>3. ASSUME NEW r \in Roles, acks[r] # NoAck, ackBox = NoAck, ackBox' = acks[r],
             pendingAcks' = [acks EXCEPT ![r] = NoAck]
      PROVE  \/ (Queueing(e)' <=> acks[Role[e]].event = e) /\ (Acking(e)' <=> Acking(e))
             \/ acks[Role[e]].event = e /\ ~Queueing(e)' /\ ~Acking(e) /\ Acking(e)'
  <2>1. ~Acking(e) /\ (Acking(e)' <=> acks[r].event = e)
    BY <1>1, <1>3 DEF Acking
  <2>2. CASE Role[e] = r
    <3>1. pendingAcks'[Role[e]] = NoAck
      BY <1>1, <1>3, <2>2
    <3>2. QED
      BY <1>1, <2>1, <2>2, <3>1 DEF Queueing
  <2>3. CASE Role[e] # r
    <3>1. pendingAcks'[Role[e]] = acks[Role[e]]
      BY <1>1, <1>3, <2>3
    <3>2. acks[r].event # e
      BY <1>3, <2>3
    <3>3. QED
      BY <2>1, <3>1, <3>2 DEF Queueing
  <2>4. QED
    BY <2>2, <2>3
<1>4. QED
  BY <1>2, <1>3, FlushEffect

LEMMA SameAwaited ==
  ASSUME UNCHANGED reservation, NEW e PROVE Awaited(e)' <=> Awaited(e)
BY DEF Awaited, Committed

LEMMA BeginOwner ==
  ASSUME TypeOK, Tagged, OneOwner, RenderBegin, NEW e \in Events PROVE Owned(e)'
<1>1. Awaited(e)' <=> Awaited(e)
  BY SameAwaited DEF RenderBegin, controlVars, bookVars
<1>2. /\ InMail(e)' <=> InMail(e)
      /\ InPending(e)' <=> InPending(e)
      /\ Playing(e)' <=> Playing(e)
      /\ Polling(e)' <=> Polling(e)
  BY DEF RenderBegin, controlVars, bookVars, commandVars, InMail, InPending, Playing, Polling
<1>3. \/ (Queueing(e)' <=> Queueing(e)) /\ (Acking(e)' <=> Acking(e))
      \/ Queueing(e) /\ ~Queueing(e)' /\ ~Acking(e) /\ Acking(e)'
  <2>1. FlushOne(pendingAcks) /\ pendingAcks \in [Roles -> Acks]
    BY AudioFacts DEF RenderBegin
  <2>2. QED
    BY <2>1, FlushMoves DEF Tagged, Queueing
<1>4. Owned(e)
  BY DEF OneOwner
<1>5. QED
  BY <1>1, <1>2, <1>3, <1>4, Zenon DEF Owned

LEMMA EndCommitOwner ==
  ASSUME TypeOK, Batched, Tagged, OneOwner, RenderEndCommit, NEW e \in Events PROVE Owned(e)'
<1> DEFINE r == Role[e]
           waits == EndAcks[r].event = e
<1>0. r \in Roles /\ Owned(e) /\ roles[r] \in RoleStates
  BY EventFacts, AudioFacts DEF OneOwner
<1>1. Awaited(e)' <=> Awaited(e)
  BY SameAwaited DEF RenderEndCommit, controlVars, bookVars
<1>2. /\ InMail(e)' <=> InMail(e)
      /\ InPending(e)' <=> InPending(e)
      /\ Polling(e)' <=> Polling(e)
  BY DEF RenderEndCommit, controlVars, bookVars, commandVars, InMail, InPending, Polling
<1>3. \A q \in Roles : Complete(q) =>
        /\ EndAcks[q] = Ack(roles[q].command, "deactivated")
        /\ EndAcks[q].event = roles[q].command.event
        /\ Role[roles[q].command.event] = q /\ Playing(roles[q].command.event)
        /\ Awaited(roles[q].command.event) /\ roles[q].command.event \in Events
        /\ pendingAcks[q] = NoAck
  <2> SUFFICES ASSUME NEW q \in Roles, Complete(q)
               PROVE  /\ EndAcks[q] = Ack(roles[q].command, "deactivated")
                      /\ EndAcks[q].event = roles[q].command.event
                      /\ Role[roles[q].command.event] = q /\ Playing(roles[q].command.event)
                      /\ Awaited(roles[q].command.event) /\ roles[q].command.event \in Events
                      /\ pendingAcks[q] = NoAck
    OBVIOUS
  <2>1. /\ roles[q].command \in Commands /\ roles[q].command.event \in Events
        /\ Role[roles[q].command.event] = q /\ Playing(roles[q].command.event)
        /\ Awaited(roles[q].command.event)
    BY ActiveRole DEF Complete
  <2>2. Queued(roles[q].command, q, "deactivated") = Ack(roles[q].command, "deactivated")
    BY <2>1, QueuedIsAck
  <2>3. pendingAcks[q] = NoAck
    BY <2>1, OwnRole
  <2>4. Ack(roles[q].command, "deactivated").event = roles[q].command.event
    BY DEF Ack
  <2>5. QED
    BY <2>1, <2>2, <2>3, <2>4 DEF EndAcks
<1>4. \A q \in Roles : ~Complete(q) => EndAcks[q] = pendingAcks[q]
  BY DEF EndAcks
<1>5. \/ (Queueing(e)' <=> waits) /\ (Acking(e)' <=> Acking(e))
      \/ waits /\ ~Queueing(e)' /\ ~Acking(e) /\ Acking(e)'
  <2>1. FlushOne(EndAcks) /\ EndAcks \in [Roles -> Acks]
    BY EndAcksType DEF RenderEndCommit, EndAcks
  <2>2. \A q \in Roles : EndAcks[q] # NoAck => Role[EndAcks[q].event] = q
    BY <1>3, <1>4 DEF Tagged
  <2>3. QED
    BY <2>1, <2>2, FlushMoves
<1>6. \/ (Playing(e)' <=> Playing(e)) /\ (waits <=> Queueing(e))
      \/ Playing(e) /\ ~Playing(e)' /\ waits
  <2>1. CASE roles[r].phase # "active" /\ roles'[r] = Unstaged[r]
    <3>1. ~Complete(r) /\ roles'[r].phase # "active"
      BY <1>0, <2>1, UnstagedRole DEF Complete
    <3>2. QED
      BY <1>0, <1>4, <2>1, <3>1 DEF Playing, Queueing
  <2>2. CASE roles[r].phase = "active" /\ Complete(r) /\ roles'[r] = Acknowledged
    <3>1. ~Playing(e)'
      BY <2>2, AcknowledgedType DEF Playing
    <3>2. waits <=> Playing(e)
      BY <1>0, <1>3, <2>2 DEF Playing
    <3>3. ~Playing(e) => ~Queueing(e)
      BY <1>0, <1>3, <2>2, NoneIsNoEvent DEF Queueing, NoAck
    <3>4. QED
      BY <3>1, <3>2, <3>3
  <2>3. CASE /\ roles[r].phase = "active" /\ ~Complete(r)
             /\ roles'[r].phase = "active" /\ roles'[r].command = roles[r].command
    BY <1>0, <1>4, <2>3 DEF Playing, Queueing
  <2>4. QED
    BY <1>0, <2>1, <2>2, <2>3, EndedRole
<1> HIDE DEF waits
<1>7. QED
  BY <1>0, <1>1, <1>2, <1>5, <1>6, Zenon DEF Owned

(* Where the commands go when the callback decides on them.                *)
LEMMA TakenMoves ==
  ASSUME StageBlock
  PROVE  /\ commandBox' \subseteq commandBox
         /\ pendingCommands' = IF Future THEN Taken ELSE {}
         /\ ~Future => Taken = Rejected \cup Accepted
         /\ Future => Rejected = {} /\ Accepted = {}
         /\ UNCHANGED <<reservation, polled, ackBox, ackLeaving, claimed>>
BY DEF StageBlock, Rejected, Accepted, controlVars, bookVars, ackVars

LEMMA StageOwner ==
  ASSUME TypeOK, Batched, Tagged, OneOwner, StageBlock, NEW e \in Events PROVE Owned(e)'
<1> DEFINE r == Role[e]
<1>0. r \in Roles /\ Owned(e) /\ e # None
  BY EventFacts, NoneIsNoEvent DEF OneOwner
<1>1. /\ Awaited(e)' <=> Awaited(e)
      /\ Acking(e)' <=> Acking(e)
      /\ Polling(e)' <=> Polling(e)
  <2>1. UNCHANGED <<reservation, polled, ackBox>>
    BY TakenMoves
  <2>2. QED
    BY <2>1, SameAwaited DEF Acking, Polling
<1>2. InMail(e)' => InMail(e)
  BY TakenMoves DEF InMail
(* A command of the batch that is decided on leaves to the role.           *)
<1>3. ASSUME NEW c \in Taken, ~Future
      PROVE  /\ c \in Commands /\ c.event \in Events /\ Awaited(c.event)
             /\ InMail(c.event) \/ InPending(c.event)
             /\ ~InPending(e)'
             /\ e = c.event => ~InMail(e)'
  <2>1. /\ c \in Commands /\ c.event \in Events /\ Awaited(c.event)
        /\ InMail(c.event) \/ InPending(c.event)
    BY TakenCommand
  <2>2. ~InPending(e)'
    BY <1>3, TakenMoves DEF InPending
  <2>3. ASSUME e = c.event PROVE ~InMail(e)'
    <3>1. CASE pendingCommands = {}
      <4>1. commandBox' = {}
        BY <3>1 DEF StageBlock
      <4>2. QED
        BY <4>1 DEF InMail
    <3>2. CASE pendingCommands # {}
      <4>1. InPending(e)
        BY <2>3, <3>2 DEF Taken, InPending
      <4>2. QED
        BY <1>0, <1>2, <4>1 DEF Owned
    <3>3. QED
      BY <3>1, <3>2
  <2>4. QED
    BY <2>1, <2>2, <2>3
<1>4. ASSUME NEW c \in Rejected, Role[c.event] = r, roles'[r] = Acknowledged,
             pendingAcks'[r] = Queued(c, r, "rejected")
      PROVE  Owned(e)'
  <2>1. c \in Taken /\ ~Future
    BY <1>4 DEF Rejected
  <2>2. ~Playing(e)'
    BY <1>4, AcknowledgedType DEF Playing
  <2>3. pendingAcks'[r] = Ack(c, "rejected")
    BY <1>3, <1>4, <2>1, QueuedIsAck
  <2>4. Queueing(e)' <=> e = c.event
    BY <2>3 DEF Queueing, Ack
  <2>5. CASE e = c.event
    <3>1. InMail(e) \/ InPending(e)
      BY <1>3, <2>1, <2>5
    <3>2. ~InMail(e)' /\ ~InPending(e)'
      BY <1>3, <2>1, <2>5
    <3>3. QED
      BY <1>0, <1>1, <2>2, <2>4, <2>5, <3>1, <3>2, Zenon DEF Owned
  <2>6. CASE e # c.event
    <3>1. ~Awaited(e)
      BY <1>3, <1>4, <2>1, <2>6, AwaitedFacts
    <3>2. ~InPending(e)'
      BY <1>3, <2>1
    <3>3. QED
      BY <1>0, <1>1, <1>2, <2>2, <2>4, <2>6, <3>1, <3>2, Zenon DEF Owned
  <2>7. QED
    BY <2>5, <2>6
<1>5. ASSUME NEW c \in Accepted, Role[c.event] = r, roles'[r].phase = "active",
             roles'[r].command = c, pendingAcks'[r] = pendingAcks[r]
      PROVE  Owned(e)'
  <2>1. c \in Taken /\ ~Future
    BY <1>5 DEF Accepted
  <2>2. Playing(e)' <=> e = c.event
    BY <1>5 DEF Playing
  <2>3. ~Queueing(e)'
    <3>1. pendingAcks[r] = NoAck
      BY <1>3, <1>5, <2>1, OwnRole
    <3>2. QED
      BY <1>0, <1>5, <3>1 DEF Queueing, NoAck
  <2>5. CASE e = c.event
    <3>1. InMail(e) \/ InPending(e)
      BY <1>3, <2>1, <2>5
    <3>2. ~InMail(e)' /\ ~InPending(e)'
      BY <1>3, <2>1, <2>5
    <3>3. QED
      BY <1>0, <1>1, <2>2, <2>3, <2>5, <3>1, <3>2, Zenon DEF Owned
  <2>6. CASE e # c.event
    <3>1. ~Awaited(e)
      BY <1>3, <1>5, <2>1, <2>6, AwaitedFacts
    <3>2. ~InPending(e)'
      BY <1>3, <2>1
    <3>3. QED
      BY <1>0, <1>1, <1>2, <2>2, <2>3, <2>6, <3>1, <3>2, Zenon DEF Owned
  <2>7. QED
    BY <2>5, <2>6
<1>6. ASSUME \A c \in Rejected \cup Accepted : Role[c.event] # r
      PROVE  /\ InMail(e)' \/ InPending(e)' <=> InMail(e) \/ InPending(e)
             /\ ~(InMail(e)' /\ InPending(e)')
  <2>1. CASE Future
    <3>1. pendingCommands' = Taken
      BY <2>1, TakenMoves
    <3>2. CASE pendingCommands = {}
      <4>1. commandBox' = {} /\ Taken = commandBox
        BY <3>2 DEF StageBlock, Taken
      <4>2. QED
        BY <3>1, <3>2, <4>1 DEF InMail, InPending
    <3>3. CASE pendingCommands # {}
      <4>1. commandBox' = commandBox /\ Taken = pendingCommands
        BY <3>3 DEF StageBlock, Taken
      <4>2. ~(InMail(e) /\ InPending(e))
        BY <1>0 DEF Owned
      <4>3. QED
        BY <3>1, <4>1, <4>2 DEF InMail, InPending
    <3>4. QED
      BY <3>2, <3>3
  <2>2. CASE ~Future
    <3>1. \A c \in Taken : c.event # e
      BY <1>6, <2>2, TakenMoves
    <3>2. ~InPending(e)' /\ ~InPending(e)
      BY <2>2, <3>1, TakenMoves DEF InPending, Taken
    <3>3. CASE pendingCommands = {}
      <4>1. commandBox' = {} /\ Taken = commandBox
        BY <3>3 DEF StageBlock, Taken
      <4>2. QED
        BY <3>1, <3>2, <4>1 DEF InMail
    <3>4. CASE pendingCommands # {}
      <4>1. commandBox' = commandBox
        BY <3>4 DEF StageBlock
      <4>2. QED
        BY <3>2, <4>1 DEF InMail
    <3>5. QED
      BY <3>3, <3>4
  <2>3. QED
    BY <2>1, <2>2
<1>7. ASSUME \A c \in Rejected \cup Accepted : Role[c.event] # r,
             roles[r].phase = "active", roles'[r] = Acknowledged,
             pendingAcks'[r] = Queued(roles[r].command, r, "rejected")
      PROVE  Owned(e)'
  <2> DEFINE f == roles[r].command.event
  <2>1. /\ roles[r].command \in Commands /\ f \in Events
        /\ Role[f] = r /\ Playing(f) /\ Awaited(f)
    BY <1>0, <1>7, ActiveRole
  <2>2. pendingAcks'[r] = Ack(roles[r].command, "rejected")
    BY <1>7, <2>1, QueuedIsAck
  <2>3. ~Playing(e)' /\ (Queueing(e)' <=> e = f)
    BY <1>7, <2>2, AcknowledgedType DEF Playing, Queueing, Ack
  <2>4. Playing(e) <=> e = f
    BY <1>7 DEF Playing
  <2>5. e # f => ~Awaited(e)
    BY <2>1, AwaitedFacts
  <2> HIDE DEF f
  <2>6. QED
    BY <1>0, <1>1, <1>6, <1>7, <2>3, <2>4, <2>5, Zenon DEF Owned
<1>8. ASSUME \A c \in Rejected \cup Accepted : Role[c.event] # r,
             roles'[r].phase = roles[r].phase, roles'[r].command = roles[r].command,
             pendingAcks'[r] = pendingAcks[r]
      PROVE  Owned(e)'
  <2>1. (Playing(e)' <=> Playing(e)) /\ (Queueing(e)' <=> Queueing(e))
    BY <1>8 DEF Playing, Queueing
  <2>2. QED
    BY <1>0, <1>1, <1>6, <1>8, <2>1, Zenon DEF Owned
<1>9. \/ \E c \in Rejected :
           /\ Role[c.event] = r /\ roles'[r] = Acknowledged
           /\ pendingAcks'[r] = Queued(c, r, "rejected")
      \/ \E c \in Accepted :
           /\ Role[c.event] = r /\ roles'[r].phase = "active" /\ roles'[r].command = c
           /\ pendingAcks'[r] = pendingAcks[r]
      \/ /\ \A c \in Rejected \cup Accepted : Role[c.event] # r
         /\ \/ /\ roles[r].phase = "active" /\ roles'[r] = Acknowledged
               /\ pendingAcks'[r] = Queued(roles[r].command, r, "rejected")
            \/ /\ roles'[r].phase = roles[r].phase /\ roles'[r].command = roles[r].command
               /\ pendingAcks'[r] = pendingAcks[r]
  BY <1>0, StagedRole
<1>10. QED
  BY <1>4, <1>5, <1>7, <1>8, <1>9

LEMMA OwnerAudioStep ==
  ASSUME TypeOK, Batched, Tagged, OneOwner, Audio PROVE OneOwner'
<1> SUFFICES ASSUME NEW e \in Events PROVE Owned(e)'
  BY DEF OneOwner
<1>1. CASE RenderBegin
  BY <1>1, BeginOwner
<1>2. CASE StageBlock
  BY <1>2, StageOwner
<1>3. CASE RenderEndCommit
  BY <1>3, EndCommitOwner
<1>4. CASE RenderEndDiscard \/ \E ok \in BOOLEAN : RenderSpatial(ok)
  <2>1. /\ UNCHANGED <<reservation, polled, ackBox, commandBox, pendingCommands, pendingAcks>>
        /\ roles' = roles \/ roles' = Unstaged
    BY <1>4 DEF RenderEndDiscard, RenderSpatial, controlVars, bookVars, commandVars, ackVars,
                roleVars
  <2>2. Role[e] \in Roles
    BY EventFacts
  <2>3. Playing(e)' <=> Playing(e)
    BY <2>1, <2>2, UnstagedRole DEF Playing
  <2>4. /\ InMail(e)' <=> InMail(e)
        /\ InPending(e)' <=> InPending(e)
        /\ Queueing(e)' <=> Queueing(e)
        /\ Acking(e)' <=> Acking(e)
        /\ Polling(e)' <=> Polling(e)
        /\ Awaited(e)' <=> Awaited(e)
    BY <2>1, SameAwaited DEF InMail, InPending, Queueing, Acking, Polling
  <2>5. Owned(e)
    BY DEF OneOwner
  <2>6. QED
    BY <2>3, <2>4, <2>5, Zenon DEF Owned
<1>5. QED
  BY <1>1, <1>2, <1>3, <1>4 DEF Audio

(* With nothing awaited, nothing is left anywhere for a later token.       *)
LEMMA NothingOwned ==
  ASSUME TypeOK, Tagged, OneOwner, \A e \in Events : ~Awaited(e)
  PROVE  /\ commandBox = {} /\ pendingCommands = {} /\ ackBox = NoAck /\ polled = NoAck
         /\ \A r \in Roles : roles[r].phase # "active" /\ pendingAcks[r] = NoAck
<1>1. \A e \in Events : ~(\/ InMail(e) \/ InPending(e) \/ Playing(e) \/ Queueing(e)
                          \/ Acking(e) \/ Polling(e))
  BY DEF OneOwner, Owned
<1>2. \A c \in commandBox \cup pendingCommands : c.event \in Events
  BY AudioFacts DEF Commands
<1>3. commandBox = {} /\ pendingCommands = {}
  BY <1>1, <1>2 DEF InMail, InPending
<1>4. ackBox = NoAck /\ polled = NoAck
  <2>1. ackBox \in Acks /\ polled \in Acks
    BY DEF TypeOK, ControlTypes
  <2>2. QED
    BY <1>1, <2>1, AckOrNone DEF Acking, Polling
<1>5. ASSUME NEW r \in Roles PROVE roles[r].phase # "active" /\ pendingAcks[r] = NoAck
  <2>1. roles[r].phase # "active"
    BY <1>1, ActiveRole
  <2>2. pendingAcks[r] = NoAck
    <3>1. pendingAcks[r] \in Acks
      BY AudioFacts
    <3>2. ASSUME pendingAcks[r] # NoAck PROVE FALSE
      <4>1. pendingAcks[r].event \in Events /\ Role[pendingAcks[r].event] = r
        BY <3>1, <3>2, AckOrNone DEF Tagged
      <4>2. QED
        BY <1>1, <4>1 DEF Queueing
    <3>3. QED
      BY <3>2
  <2>3. QED
    BY <2>1, <2>2
<1>6. QED
  BY <1>3, <1>4, <1>5

LEMMA NotCommittedNotAwaited ==
  ASSUME ~Committed, NEW e PROVE ~Awaited(e)
BY DEF Awaited

LEMMA UncommittedIsNot == Uncommitted => ~Committed
BY DEF Uncommitted, Committed

(* A call that leaves everything an event may be with as it is.            *)
LEMMA OwnerKept ==
  ASSUME OneOwner, UNCHANGED <<polled, ackBox, commandBox, pendingCommands, pendingAcks, roles>>,
         \A e \in Events : Awaited(e)' <=> Awaited(e)
  PROVE  OneOwner'
<1> SUFFICES ASSUME NEW e \in Events PROVE Owned(e)'
  BY DEF OneOwner
<1>1. /\ InMail(e)' <=> InMail(e)
      /\ InPending(e)' <=> InPending(e)
      /\ Playing(e)' <=> Playing(e)
      /\ Queueing(e)' <=> Queueing(e)
      /\ Acking(e)' <=> Acking(e)
      /\ Polling(e)' <=> Polling(e)
  BY DEF InMail, InPending, Playing, Queueing, Acking, Polling
<1>2. Owned(e) /\ (Awaited(e)' <=> Awaited(e))
  BY DEF OneOwner
<1>3. QED
  BY <1>1, <1>2, Zenon DEF Owned

LEMMA CommitOwner ==
  ASSUME TypeOK, Batched, InCall, Tagged, Timed, OneOwner, CommitAndPublish PROVE OneOwner'
<1> SUFFICES ASSUME NEW e \in Events PROVE Owned(e)'
  BY DEF OneOwner
<1>1. ~Committed /\ reservation.acked = {}
  BY CommitEffect DEF InCall, Committed, Batched
<1>2. ~Awaited(e) /\ Owned(e)
  BY <1>1 DEF Awaited, OneOwner
<1>3. Awaited(e)' <=> e \in EventsOf(reservation.batch)
  BY <1>1, CommitEffect DEF Awaited, Committed
<1>4. InMail(e)' <=> e \in EventsOf(reservation.batch)
  BY CommitEffect DEF InMail, EventsOf
<1>5. /\ InPending(e)' <=> InPending(e)
      /\ Playing(e)' <=> Playing(e)
      /\ Queueing(e)' <=> Queueing(e)
      /\ Acking(e)' <=> Acking(e)
      /\ Polling(e)' <=> Polling(e)
  BY CommitEffect DEF InPending, Playing, Queueing, Acking, Polling, audioVars, roleVars, ackVars
<1>6. QED
  BY <1>2, <1>3, <1>4, <1>5, Zenon DEF Owned

LEMMA PollOwner ==
  ASSUME TypeOK, InCall, OneOwner, PollAck PROVE OneOwner'
<1> SUFFICES ASSUME NEW e \in Events PROVE Owned(e)'
  BY DEF OneOwner
<1>1. /\ Awaited(e)' <=> Awaited(e)
      /\ InMail(e)' <=> InMail(e)
      /\ InPending(e)' <=> InPending(e)
      /\ Playing(e)' <=> Playing(e)
      /\ Queueing(e)' <=> Queueing(e)
  BY SameAwaited DEF PollAck, InMail, InPending, Playing, Queueing, commandVars, audioVars,
                     roleVars
<1>2. NoAck.event = None /\ e # None
  BY NoneIsNoEvent DEF NoAck
<1>3. /\ ~Polling(e) /\ ~Acking(e)'
      /\ Polling(e)' <=> Acking(e)
  BY <1>2 DEF PollAck, InCall, AckMail!Take, Polling, Acking
<1>4. Owned(e)
  BY DEF OneOwner
<1>5. QED
  BY <1>1, <1>3, <1>4, Zenon DEF Owned

(* The acknowledgement that comes back is the one the token waits for.     *)
LEMMA ReturnOwner ==
  ASSUME TypeOK, Batched, Overlaid, InCall, Tagged, OneOwner, PollReturns PROVE OneOwner'
<1> SUFFICES ASSUME NEW e \in Events PROVE Owned(e)'
  BY DEF OneOwner
<1>0. Owned(e) /\ polled \in Acks /\ e # None /\ NoAck.event = None
  BY NoneIsNoEvent DEF OneOwner, TypeOK, ControlTypes, NoAck
<1>1. /\ InMail(e)' <=> InMail(e)
      /\ InPending(e)' <=> InPending(e)
      /\ Playing(e)' <=> Playing(e)
      /\ Queueing(e)' <=> Queueing(e)
      /\ Acking(e)' <=> Acking(e)
  BY PollReturnsEffect DEF InMail, InPending, Playing, Queueing, Acking, commandVars, audioVars,
                           roleVars
<1>2. ~Polling(e)'
  BY <1>0, PollReturnsEffect DEF Polling
<1>3. CASE polled = NoAck
  <2>1. ~Qualified(polled)
    BY <1>0, <1>3, BatchEvents, NoneIsNoEvent DEF Qualified
  <2>2. Awaited(e)' <=> Awaited(e)
    BY <2>1, PollReturnsEffect DEF Awaited, Committed
  <2>3. ~Polling(e)
    BY <1>0, <1>3 DEF Polling
  <2>4. QED
    BY <1>0, <1>1, <1>2, <2>2, <2>3, Zenon DEF Owned
<1>4. CASE polled # NoAck
  <2> DEFINE f == polled.event
  <2>1. f \in Events /\ Role[f] \in Roles /\ Polling(f)
    BY <1>0, <1>4, AckOrNone, EventFacts DEF Polling
  <2>2. Awaited(f)
    BY <2>1 DEF OneOwner, Owned
  <2>3. Qualified(polled)
    <3>1. /\ Committed /\ f \in EventsOf(reservation.batch) /\ Role[f] \notin reservation.acked
          /\ Role[f] \in RolesOf(reservation.batch) \ reservation.finalized
      BY <2>2 DEF Awaited, RolesOf, TypeOK, ControlTypes
    <3>2. overlay[Role[f]] # NoCommand
      BY <2>1, <3>1 DEF Overlaid
    <3>3. polled.token = reservation.token
      BY <1>4 DEF Tagged
    <3>4. QED
      BY <3>1, <3>2, <3>3 DEF Qualified
  <2>4. reservation'.acked = reservation.acked \cup {Role[f]}
    BY <2>3, PollReturnsEffect
  <2>5. Awaited(e)' <=> Awaited(e) /\ Role[e] # Role[f]
    BY <2>4, PollReturnsEffect DEF Awaited, Committed
  <2>6. Polling(e) <=> e = f
    BY DEF Polling
  <2>7. Awaited(e) /\ Role[e] = Role[f] => e = f
    BY <2>1, <2>2, AwaitedFacts
  <2> HIDE DEF f
  <2>8. QED
    BY <1>0, <1>1, <1>2, <2>5, <2>6, <2>7, Zenon DEF Owned
<1>5. QED
  BY <1>3, <1>4

(* A token is cleared when its every role is acknowledged, with nothing    *)
(* left to await.                                                          *)
LEMMA FinalizeAwaited ==
  ASSUME TypeOK, Batched, NEW r \in Roles, FinalizeAck(r), NEW e
  PROVE  /\ Awaited(e)' <=> Awaited(e)
         /\ reservation' = NoReservation => ~Awaited(e)
<1>1. CASE reservation.finalized \cup {r} = RolesOf(reservation.batch)
           /\ reservation' = NoReservation
  <2>1. RolesOf(reservation.batch) \subseteq reservation.acked
    BY <1>1, FinalizeEffect DEF TypeOK, ControlTypes
  <2>2. ~Awaited(e)
    BY <2>1 DEF Awaited, RolesOf
  <2>3. ~Awaited(e)'
    BY <1>1, NoReservationFields DEF Awaited, Committed
  <2>4. QED
    BY <2>2, <2>3
<1>2. CASE /\ reservation'.state = reservation.state
           /\ reservation'.batch = reservation.batch
           /\ reservation'.acked = reservation.acked
  <2>1. Awaited(e)' <=> Awaited(e)
    BY <1>2 DEF Awaited, Committed
  <2>2. Committed'
    BY <1>2, FinalizeEffect DEF Committed
  <2>3. reservation' # NoReservation
    BY <2>2, NoReservationFields DEF Committed
  <2>4. QED
    BY <2>1, <2>3
<1>3. QED
  BY <1>1, <1>2, FinalizeEffect

LEMMA OwnerControlStep ==
  ASSUME TypeOK, Batched, Overlaid, InCall, Tagged, Timed, OneOwner, Control
  PROVE  OneOwner'
<1>1. CASE \/ SchedulerCall \/ DirectCall
           \/ \E delay \in Delays, detailed \in SUBSET Roles : BeginCommit(delay, detailed)
  <2>1. UNCHANGED <<polled, ackBox, commandBox, pendingCommands, pendingAcks, roles, reservation>>
    BY <1>1, SchedulerCallKeeps, DirectCallKeeps
       DEF BeginCommit, commandVars, ackVars, audioVars, roleVars
  <2>2. QED
    BY <2>1, SameAwaited, OwnerKept
<1>2. ASSUME NEW lookahead \in 0..MaxFrame, PrepareToken(lookahead) PROVE OneOwner'
  <2>1. ~Committed /\ ~Committed'
    BY <1>2, PrepareEffect, NoReservationFields DEF Committed
  <2>2. \A e \in Events : Awaited(e)' <=> Awaited(e)
    BY <2>1 DEF Awaited
  <2>3. QED
    BY <1>2, <2>2, PrepareEffect, OwnerKept DEF audioVars, roleVars, ackVars
<1>3. CASE StageReady
  <2>1. ~Committed /\ ~Committed'
    BY <1>3, StageReadyEffect DEF Committed, Uncommitted
  <2>2. \A e \in Events : Awaited(e)' <=> Awaited(e)
    BY <2>1 DEF Awaited
  <2>3. QED
    BY <1>3, <2>2, StageReadyEffect, OwnerKept DEF audioVars, roleVars, ackVars, commandVars
<1>4. CASE DiscardToken
  <2>1. ~Committed /\ ~Committed'
    BY <1>4, DiscardFields, NoReservationFields DEF Committed, Uncommitted
  <2>2. \A e \in Events : Awaited(e)' <=> Awaited(e)
    BY <2>1 DEF Awaited
  <2>3. QED
    BY <1>4, <2>2, DiscardFields, OwnerKept DEF audioVars, roleVars, ackVars
<1>5. ASSUME NEW r \in Roles, FinalizeAck(r) PROVE OneOwner'
  <2>1. \A e \in Events : Awaited(e)' <=> Awaited(e)
    BY <1>5, FinalizeAwaited
  <2>2. QED
    BY <1>5, <2>1, FinalizeEffect, OwnerKept DEF audioVars, roleVars, ackVars, commandVars
<1>6. QED
  BY <1>1, <1>2, <1>3, <1>4, <1>5, CommitOwner, PollOwner, ReturnOwner, ControlCalls

-----------------------------------------------------------------------------
(* All of one token                                                        *)

LEMMA TaggedKept ==
  ASSUME Tagged, reservation'.token = reservation.token, commandBox' \subseteq commandBox,
         UNCHANGED <<polled, ackBox, pendingCommands, pendingAcks, roles>>
  PROVE  Tagged'
BY DEF Tagged

LEMMA TaggedControlStep ==
  ASSUME TypeOK, Batched, InCall, Tagged, Timed, OneOwner, Control
  PROVE  Tagged'
(* With nothing of the old token left, any tag will do.                    *)
<1>1. ASSUME \A e \in Events : ~Awaited(e),
             UNCHANGED <<commandBox, polled, ackBox, pendingCommands, pendingAcks, roles>>
      PROVE  Tagged'
  <2>1. /\ commandBox = {} /\ pendingCommands = {} /\ ackBox = NoAck /\ polled = NoAck
        /\ \A r \in Roles : roles[r].phase # "active" /\ pendingAcks[r] = NoAck
    BY <1>1, NothingOwned
  <2>2. /\ commandBox' = {} /\ pendingCommands' = {} /\ ackBox' = NoAck /\ polled' = NoAck
        /\ \A r \in Roles : roles'[r].phase # "active" /\ pendingAcks'[r] = NoAck
    BY <1>1, <2>1
  <2>3. QED
    BY <2>2 DEF Tagged
<1>2. CASE \/ SchedulerCall \/ DirectCall
           \/ \E delay \in Delays, detailed \in SUBSET Roles : BeginCommit(delay, detailed)
  BY <1>2, SchedulerCallKeeps, DirectCallKeeps, TaggedKept
     DEF BeginCommit, commandVars, ackVars, audioVars, roleVars
<1>3. ASSUME NEW lookahead \in 0..MaxFrame, PrepareToken(lookahead) PROVE Tagged'
  <2>1. ~Committed
    BY <1>3, PrepareEffect, NoReservationFields DEF Committed
  <2>2. QED
    BY <1>1, <1>3, <2>1, NotCommittedNotAwaited, PrepareEffect DEF audioVars, roleVars, ackVars
<1>4. CASE StageReady
  BY <1>4, StageReadyEffect, TaggedKept DEF commandVars, ackVars, audioVars, roleVars
<1>5. CASE DiscardToken
  <2>1. ~Committed
    BY <1>5, UncommittedIsNot, DiscardFields
  <2>2. QED
    BY <1>1, <1>5, <2>1, NotCommittedNotAwaited, DiscardFields DEF audioVars, roleVars, ackVars
<1>6. CASE CommitAndPublish
  <2>1. ~Committed
    BY <1>6, CommitEffect DEF InCall, Committed
  <2>2. /\ pendingCommands = {} /\ ackBox = NoAck /\ polled = NoAck
        /\ \A r \in Roles : roles[r].phase # "active" /\ pendingAcks[r] = NoAck
    BY <2>1, NotCommittedNotAwaited, NothingOwned
  <2>3. UNCHANGED <<polled, ackBox, pendingCommands, pendingAcks, roles>>
    BY <1>6, CommitEffect DEF audioVars, roleVars, ackVars
  <2>4. /\ reservation'.token = reservation.token
        /\ \A c \in commandBox' : c.token = reservation.token
    BY <1>6, CommitEffect
  <2>5. QED
    BY <2>2, <2>3, <2>4 DEF Tagged
<1>7. CASE PollAck
  <2>1. ackBox' = NoAck /\ polled' = ackBox
        /\ UNCHANGED <<reservation, commandBox, pendingCommands, pendingAcks, roles>>
    BY <1>7 DEF PollAck, AckMail!Take, commandVars, audioVars, roleVars
  <2>2. QED
    BY <2>1 DEF Tagged
<1>8. CASE PollReturns
  <2>1. polled' = NoAck /\ reservation'.token = reservation.token
        /\ UNCHANGED <<commandBox, ackBox, pendingCommands, pendingAcks, roles>>
    BY <1>8, PollReturnsEffect DEF commandVars, audioVars, roleVars
  <2>2. QED
    BY <2>1 DEF Tagged
<1>9. ASSUME NEW r \in Roles, FinalizeAck(r) PROVE Tagged'
  <2>1. UNCHANGED <<commandBox, polled, ackBox, pendingCommands, pendingAcks, roles>>
    BY <1>9, FinalizeEffect DEF commandVars, ackVars, audioVars, roleVars
  <2>2. CASE reservation' = NoReservation
    BY <1>1, <1>9, <2>1, <2>2, FinalizeAwaited
  <2>3. CASE reservation'.token = reservation.token
    BY <2>1, <2>3, TaggedKept
  <2>4. QED
    BY <1>9, <2>2, <2>3, FinalizeEffect
<1>10. QED
  BY <1>2, <1>3, <1>4, <1>5, <1>6, <1>7, <1>8, <1>9, ControlCalls

(* What is flushed is what was queued.                                     *)
LEMMA FlushTags ==
  ASSUME TypeOK, Tagged, NEW acks \in [Roles -> Acks], FlushOne(acks),
         \A r \in Roles : acks[r] # NoAck =>
           Role[acks[r].event] = r /\ acks[r].token = reservation.token
  PROVE  /\ ackBox' # NoAck => ackBox'.token = reservation.token
         /\ \A r \in Roles : pendingAcks'[r] # NoAck =>
              Role[pendingAcks'[r].event] = r /\ pendingAcks'[r].token = reservation.token
<1>1. CASE ackBox' = ackBox /\ pendingAcks' = acks
  BY <1>1 DEF Tagged
<1>2. ASSUME NEW q \in Roles, acks[q] # NoAck, ackBox' = acks[q],
             pendingAcks' = [acks EXCEPT ![q] = NoAck]
      PROVE  /\ ackBox'.token = reservation.token
             /\ \A r \in Roles : pendingAcks'[r] # NoAck =>
                  Role[pendingAcks'[r].event] = r /\ pendingAcks'[r].token = reservation.token
  BY <1>2
<1>3. QED
  BY <1>1, <1>2, FlushEffect

LEMMA QueuedTags ==
  ASSUME TypeOK, Tagged, NEW r \in Roles, NEW c \in Commands, NEW kind \in {"rejected", "deactivated"},
         Role[c.event] = r, c.token = reservation.token
  PROVE  /\ Role[Queued(c, r, kind).event] = r
         /\ Queued(c, r, kind).token = reservation.token
BY AckTypes DEF Queued, Tagged

LEMMA TaggedAudioStep ==
  ASSUME TypeOK, Tagged, Audio PROVE Tagged'
<1>0. UNCHANGED <<reservation, polled>>
  BY AudioKeeps
<1>1. CASE RenderBegin
  <2>1. UNCHANGED <<commandBox, pendingCommands, roles>>
    BY <1>1 DEF RenderBegin, commandVars
  <2>2. /\ ackBox' # NoAck => ackBox'.token = reservation.token
        /\ \A r \in Roles : pendingAcks'[r] # NoAck =>
             Role[pendingAcks'[r].event] = r /\ pendingAcks'[r].token = reservation.token
    <3>1. FlushOne(pendingAcks) /\ pendingAcks \in [Roles -> Acks]
      BY <1>1, AudioFacts DEF RenderBegin
    <3>2. QED
      BY <3>1, FlushTags DEF Tagged
  <2>3. QED
    BY <1>0, <2>1, <2>2 DEF Tagged
<1>2. CASE StageBlock
  <2>1. /\ commandBox' \cup pendingCommands' \subseteq commandBox \cup pendingCommands
        /\ ackBox' = ackBox
        /\ Rejected \cup Accepted \subseteq commandBox \cup pendingCommands
    BY <1>2, TakenMoves DEF Taken, Rejected, Accepted
  <2>2. \A c \in Rejected \cup Accepted : c \in Commands /\ c.token = reservation.token
    BY <2>1, AudioFacts DEF Tagged
  <2>3. ASSUME NEW r \in Roles
        PROVE  /\ roles'[r].phase = "active" =>
                    /\ roles'[r].command \in Commands
                    /\ Role[roles'[r].command.event] = r
                    /\ roles'[r].command.token = reservation.token
               /\ pendingAcks'[r] # NoAck =>
                    /\ Role[pendingAcks'[r].event] = r
                    /\ pendingAcks'[r].token = reservation.token
    <3> DEFINE Goal == /\ roles'[r].phase = "active" =>
                            /\ roles'[r].command \in Commands
                            /\ Role[roles'[r].command.event] = r
                            /\ roles'[r].command.token = reservation.token
                       /\ pendingAcks'[r] # NoAck =>
                            /\ Role[pendingAcks'[r].event] = r
                            /\ pendingAcks'[r].token = reservation.token
    <3>1. ASSUME NEW c \in Commands, Role[c.event] = r, c.token = reservation.token,
                 roles'[r] = Acknowledged, pendingAcks'[r] = Queued(c, r, "rejected")
          PROVE  Goal
      BY <3>1, QueuedTags, AcknowledgedType
    <3>2. ASSUME NEW c \in Accepted, Role[c.event] = r, roles'[r].command = c,
                 pendingAcks'[r] = pendingAcks[r]
          PROVE  Goal
      BY <2>2, <3>2 DEF Tagged
    <3>3. ASSUME roles'[r].phase = roles[r].phase, roles'[r].command = roles[r].command,
                 pendingAcks'[r] = pendingAcks[r]
          PROVE  Goal
      BY <3>3 DEF Tagged
    <3>4. roles[r].phase = "active" =>
            /\ roles[r].command \in Commands /\ Role[roles[r].command.event] = r
            /\ roles[r].command.token = reservation.token
      BY DEF Tagged
    <3> HIDE DEF Goal
    <3>5. Goal
      <4>1. \A c \in Rejected : c \in Commands /\ c.token = reservation.token
        BY <2>2
      <4>2. \/ \E c \in Rejected :
                 /\ Role[c.event] = r /\ roles'[r] = Acknowledged
                 /\ pendingAcks'[r] = Queued(c, r, "rejected")
            \/ \E c \in Accepted :
                 /\ Role[c.event] = r /\ roles'[r].command = c
                 /\ pendingAcks'[r] = pendingAcks[r]
            \/ /\ roles[r].phase = "active" /\ roles'[r] = Acknowledged
               /\ pendingAcks'[r] = Queued(roles[r].command, r, "rejected")
            \/ /\ roles'[r].phase = roles[r].phase /\ roles'[r].command = roles[r].command
               /\ pendingAcks'[r] = pendingAcks[r]
        BY <1>2, StagedRole
      <4>3. QED
        BY <3>1, <3>2, <3>3, <3>4, <4>1, <4>2
    <3>6. QED
      BY <3>5 DEF Goal
  <2>4. QED
    BY <1>0, <2>1, <2>3 DEF Tagged
<1>3. CASE RenderEndDiscard \/ \E ok \in BOOLEAN : RenderSpatial(ok)
  <2>1. /\ UNCHANGED <<ackBox, commandBox, pendingCommands, pendingAcks>>
        /\ roles' = roles \/ roles' = Unstaged
    BY <1>3 DEF RenderEndDiscard, RenderSpatial, commandVars, ackVars, roleVars
  <2>2. \A r \in Roles : roles'[r].phase = roles[r].phase /\ roles'[r].command = roles[r].command
    BY <2>1, UnstagedRole
  <2>3. QED
    BY <1>0, <2>1, <2>2 DEF Tagged
<1>4. CASE RenderEndCommit
  <2>1. UNCHANGED <<commandBox, pendingCommands>>
    BY <1>4 DEF RenderEndCommit, commandVars
  <2>2. \A r \in Roles : roles'[r].phase = "active" =>
          roles[r].phase = "active" /\ roles'[r].command = roles[r].command
    <3> SUFFICES ASSUME NEW r \in Roles, roles'[r].phase = "active"
                 PROVE  roles[r].phase = "active" /\ roles'[r].command = roles[r].command
      OBVIOUS
    <3>1. Acknowledged.phase # "active" /\ Unstaged[r].phase = roles[r].phase
      BY AcknowledgedType, UnstagedRole
    <3>2. QED
      BY <1>4, <3>1, EndedRole
  <2>3. \A r \in Roles : EndAcks[r] # NoAck =>
          Role[EndAcks[r].event] = r /\ EndAcks[r].token = reservation.token
    BY QueuedTags DEF EndAcks, Complete, Tagged
  <2>4. /\ ackBox' # NoAck => ackBox'.token = reservation.token
        /\ \A r \in Roles : pendingAcks'[r] # NoAck =>
             Role[pendingAcks'[r].event] = r /\ pendingAcks'[r].token = reservation.token
    <3>1. FlushOne(EndAcks) /\ EndAcks \in [Roles -> Acks]
      BY <1>4, EndAcksType DEF RenderEndCommit, EndAcks
    <3>2. QED
      BY <2>3, <3>1, FlushTags
  <2>5. QED
    BY <1>0, <2>1, <2>2, <2>4 DEF Tagged
<1>5. QED
  BY <1>1, <1>2, <1>3, <1>4 DEF Audio

-----------------------------------------------------------------------------
(* Where a program is                                                      *)

LEMMA TimedControlStep ==
  ASSUME TypeOK, InCall, Timed, Control PROVE Timed'
<1>1. UNCHANGED <<pendingCommands, roles, stagedStart>>
  BY DEF Control, AdmitGroup, ActivateMacroEvents, BeginCommit, ReleaseMacroEvent, PrepareToken,
         StageReady, DiscardToken, UpdateControl, CommitDirectFails, CommitDirectRuns,
         CommitAndPublish, PollAck, PollReturns, FinalizeAck, audioVars, roleVars
<1>2. ASSUME \A c \in provisional' \cup commandBox' :
               Ordered(c) /\ Deadline[c.event] <= c.deadline
      PROVE  Timed'
  BY <1>1, <1>2 DEF Timed, Ordered
<1>3. ASSUME provisional' \cup commandBox' \subseteq provisional \cup commandBox
      PROVE  Timed'
  BY <1>2, <1>3 DEF Timed
<1>4. CASE SchedulerCall \/ DirectCall
  <2>1. provisional' \cup commandBox' \subseteq provisional \cup commandBox
    BY <1>4, SchedulerCallKeeps, DirectCallKeeps
  <2>2. QED
    BY <1>3, <2>1
<1>5. ASSUME NEW delay \in Delays, NEW detailed \in SUBSET Roles, BeginCommit(delay, detailed)
      PROVE  Timed'
  <2>1. commandBox' = commandBox
    BY <1>5, BeginCommitEffect DEF commandVars
  <2>2. \A c \in provisional' \cup commandBox' :
          Ordered(c) /\ Deadline[c.event] <= c.deadline
    BY <1>5, <2>1, BeginCommitEffect DEF Timed
  <2>3. QED
    BY <1>2, <2>2
<1>6. CASE CommitAndPublish
  BY <1>2, <1>6, CommitEffect
<1>7. CASE \/ \E lookahead \in 0..MaxFrame : PrepareToken(lookahead)
           \/ StageReady \/ DiscardToken \/ PollAck \/ PollReturns
           \/ \E r \in Roles : FinalizeAck(r)
  <2>1. UNCHANGED <<provisional, commandBox>>
    BY <1>7 DEF PrepareToken, StageReady, DiscardToken, PollAck, PollReturns, FinalizeAck,
                commandVars
  <2>2. QED
    BY <1>3, <2>1
<1>8. QED
  BY <1>4, <1>5, <1>6, <1>7, ControlCalls

(* What Timed says of one role, at the start s of the staged block.        *)
InTime(role, s) ==
  role.phase = "active" =>
    /\ Ordered(role.command) /\ role.next <= role.command.end
    /\ s # None =>
         /\ s <= role.next
         /\ role.next + role.staged <= role.command.end
         /\ role.staged > 0 => role.next + role.staged <= s + BlockSize

LEMMA RoleNumbers ==
  ASSUME NEW s \in RoleStates
  PROVE  /\ s.next \in Nat /\ s.staged \in Nat /\ s.command.end \in Nat
         /\ s.command.start \in Nat /\ s.command.deadline \in Nat
<1>1. s.staged \in Nat /\ s.next \in Nat
  BY NumberFacts DEF RoleStates
<1>2. s.command \in Commands \cup {NoCommand}
  BY DEF RoleStates
<1>3. QED
  BY <1>1, <1>2 DEF Commands, NoCommand

LEMMA TimedAudioStep ==
  ASSUME TypeOK, Timed, Audio PROVE Timed'
<1>0. UNCHANGED provisional
  BY AudioKeeps
<1>1. ASSUME commandBox' \cup pendingCommands' \subseteq commandBox \cup pendingCommands,
             \A r \in Roles : InTime(roles'[r], stagedStart')
      PROVE  Timed'
  BY <1>0, <1>1 DEF Timed, InTime, Ordered
<1>2. \A r \in Roles : InTime(roles[r], stagedStart) /\ roles[r] \in RoleStates
  BY AudioFacts DEF Timed, InTime
<1>3. CASE RenderBegin \/ \E ok \in BOOLEAN : RenderSpatial(ok)
  <2>1. UNCHANGED <<commandBox, pendingCommands, roles, stagedStart>>
    BY <1>3 DEF RenderBegin, RenderSpatial, commandVars, roleVars
  <2>2. QED
    BY <1>1, <1>2, <2>1
<1>4. CASE StageBlock
  <2>1. commandBox' \cup pendingCommands' \subseteq commandBox \cup pendingCommands
    BY <1>4, TakenMoves DEF Taken
  <2>2. stagedStart' = clock /\ clock \in Nat
    BY <1>4, AudioFacts DEF StageBlock
  <2>3. ASSUME NEW r \in Roles PROVE InTime(roles'[r], clock)
    <3>1. CASE roles'[r] = Acknowledged
      BY <3>1, AcknowledgedType DEF InTime
    <3>2. ASSUME roles'[r] \in RoleStates, clock <= roles'[r].next,
                 Ordered(roles'[r].command), roles'[r].next <= roles'[r].command.end,
                 roles'[r].staged > 0 =>
                   /\ roles'[r].next + roles'[r].staged <= clock + BlockSize
                   /\ roles'[r].next + roles'[r].staged <= roles'[r].command.end
          PROVE  InTime(roles'[r], clock)
      <4>1. /\ roles'[r].next \in Nat /\ roles'[r].staged \in Nat
            /\ roles'[r].command.end \in Nat
        BY <3>2, RoleNumbers
      <4>2. QED
        BY <3>2, <4>1 DEF InTime
    <3>3. ASSUME NEW c \in Accepted, clock <= c.start,
                 roles'[r] \in RoleStates, roles'[r].command = c, roles'[r].next = c.start,
                 roles'[r].staged > 0 => /\ c.start + roles'[r].staged <= clock + BlockSize
                                         /\ c.start + roles'[r].staged <= c.end
          PROVE  InTime(roles'[r], clock)
      <4>1. Ordered(c)
        BY <1>4, TakenMoves DEF Timed, Accepted, Taken
      <4>2. c.start <= c.end
        BY <4>1 DEF Ordered
      <4>3. QED
        BY <3>2, <3>3, <4>1, <4>2
    <3>4. ASSUME roles[r].phase = "active", clock <= roles[r].next,
                 roles'[r] \in RoleStates, roles'[r].command = roles[r].command,
                 roles'[r].next = roles[r].next,
                 roles'[r].staged > 0 =>
                   /\ roles[r].next + roles'[r].staged <= clock + BlockSize
                   /\ roles[r].next + roles'[r].staged <= roles[r].command.end
          PROVE  InTime(roles'[r], clock)
      <4>1. Ordered(roles[r].command) /\ roles[r].next <= roles[r].command.end
        BY <1>2, <3>4 DEF InTime
      <4>2. QED
        BY <3>2, <3>4, <4>1
    <3>5. CASE roles[r].phase # "active" /\ roles'[r] = roles[r]
      BY <3>5 DEF InTime
    <3>6. QED
      BY <1>4, <3>1, <3>3, <3>4, <3>5, StagedRole
  <2>4. QED
    BY <1>1, <2>1, <2>2, <2>3
<1>5. CASE RenderEndDiscard
  <2>1. /\ UNCHANGED <<commandBox, pendingCommands>> /\ stagedStart' = None
        /\ roles' = Unstaged
    BY <1>5 DEF RenderEndDiscard, commandVars
  <2>2. \A r \in Roles : InTime(Unstaged[r], None)
    BY <1>2, UnstagedRole DEF InTime
  <2>3. QED
    BY <1>1, <2>1, <2>2
<1>6. CASE RenderEndCommit
  <2>1. /\ UNCHANGED <<commandBox, pendingCommands>> /\ stagedStart' = None
        /\ stagedStart # None
    BY <1>6 DEF RenderEndCommit, commandVars, TypeOK, AudioTypes
  <2>2. ASSUME NEW r \in Roles PROVE InTime(roles'[r], None)
    <3>1. InTime(Unstaged[r], None)
      BY <1>2, UnstagedRole DEF InTime
    <3>2. InTime(Acknowledged, None)
      BY AcknowledgedType DEF InTime
    <3>3. ASSUME roles[r].phase = "active", roles'[r].command = roles[r].command,
                 roles'[r].next = roles[r].next + roles[r].staged
          PROVE  InTime(roles'[r], None)
      BY <1>2, <2>1, <3>3 DEF InTime
    <3>4. \/ roles'[r] = Unstaged[r] \/ roles'[r] = Acknowledged
          \/ /\ roles[r].phase = "active" /\ roles'[r].command = roles[r].command
             /\ roles'[r].next = roles[r].next + roles[r].staged
      BY <1>6, EndedRole
    <3>5. QED
      BY <3>1, <3>2, <3>3, <3>4
  <2>3. QED
    BY <1>1, <2>1, <2>2
<1>7. QED
  BY <1>3, <1>4, <1>5, <1>6 DEF Audio

(* The end of a block moves a program past frames it staged, all of them   *)
(* in the rendered block; a program that is over had its end before them.  *)
LEMMA PlayedStep ==
  ASSUME TypeOK, Timed, Next, NEW r \in Roles, apc' = "idle", roles'[r].next # roles[r].next
  PROVE  /\ valid /\ clock = stagedStart + BlockSize
         /\ stagedStart <= roles[r].next /\ roles[r].next + roles[r].staged <= clock
<1>1. RenderEndCommit
  <2>1. CASE Control
    <3>1. roles' = roles
      BY <2>1 DEF Control, AdmitGroup, ActivateMacroEvents, BeginCommit, ReleaseMacroEvent,
         PrepareToken, StageReady, DiscardToken, UpdateControl, CommitDirectFails,
         CommitDirectRuns, CommitAndPublish, PollAck, PollReturns, FinalizeAck, audioVars,
         roleVars
    <3>2. QED
      BY <3>1
  <2>2. CASE Audio
    <3>1. ~RenderBegin /\ ~StageBlock /\ \A ok \in BOOLEAN : ~RenderSpatial(ok)
      BY DEF RenderBegin, StageBlock, RenderSpatial
    <3>2. ~RenderEndDiscard
      BY UnstagedRole DEF RenderEndDiscard
    <3>3. QED
      BY <2>2, <3>1, <3>2 DEF Audio
  <2>3. QED
    BY <2>1, <2>2 DEF Next
<1>2. valid /\ clock = stagedStart + BlockSize /\ stagedStart # None
  BY <1>1 DEF RenderEndCommit, CommitsBlock, TypeOK, AudioTypes
<1>3. roles[r] \in RoleStates
  BY AudioFacts
<1>4. roles[r].next \in Nat /\ roles[r].staged \in Nat /\ roles[r].command.end \in Nat
      /\ roles[r].command.deadline \in Nat /\ clock \in Nat
  BY <1>3, RoleNumbers, AudioFacts
<1>5. roles[r].phase = "active" /\ (Complete(r) \/ roles[r].staged # 0)
  <2>1. roles'[r] # Unstaged[r]
    BY UnstagedRole
  <2>2. roles[r].phase = "active"
    BY <1>1, <2>1, EndedRole
  <2>3. ASSUME roles[r].staged = 0 PROVE Complete(r)
    <3>1. roles[r].next + roles[r].staged = roles[r].next
      BY <1>4, <2>3
    <3>2. roles'[r].next # roles[r].next + roles[r].staged
      BY <3>1
    <3>3. QED
      BY <1>1, <2>1, <3>2, EndedRole
  <2>4. QED
    BY <2>2, <2>3
<1>6. /\ stagedStart <= roles[r].next /\ roles[r].next <= roles[r].command.end
      /\ roles[r].command.end <= roles[r].command.deadline
      /\ roles[r].staged > 0 => roles[r].next + roles[r].staged <= stagedStart + BlockSize
  BY <1>2, <1>5 DEF Timed, Ordered
<1>7. Complete(r) => roles[r].command.deadline <= clock
  BY <1>4 DEF Complete
<1>8. QED
  BY <1>2, <1>4, <1>5, <1>6, <1>7

-----------------------------------------------------------------------------
(* What the commit relies on, and what the finalization relies on          *)

(* The part of CommitCannotFail that steps preserve by themselves.         *)
Kept ==
  Uncommitted =>
    /\ claimed /\ commandBox = {}
    /\ reservation.batch \subseteq {Record(s) : s \in Reserved}
    /\ \A e \in EventsOf(reservation.batch) :
         overlay[Role[e]] = NoCommand /\ voices[Role[e]].deadline <= Frame[e]

Matched ==
  Committed => \A r \in RolesOf(reservation.batch) \ reservation.finalized : ReleaseMatches(r)

LEMMA KeptStep ==
  ASSUME TypeOK, Overlaid, InCall, Timed, Kept, Next PROVE Kept'
<1>0. QueueTypes
  BY DEF TypeOK, ControlTypes, QueueTypes
<1>1. ASSUME UNCHANGED <<reservation, claimed, commandBox, overlay>>, queue \subseteq queue',
             \A r \in Roles : voices'[r] \in {voices[r], Silent}
      PROVE  Kept'
  <2>1. Reserved \subseteq Reserved'
    BY <1>1 DEF Reserved, Scheduler!Reserved
  <2>2. ASSUME Uncommitted, NEW e \in EventsOf(reservation.batch)
        PROVE  voices'[Role[e]].deadline <= Frame[e]
    <3>1. voices[Role[e]].deadline <= Frame[e]
      BY <2>2 DEF Kept
    <3>2. Role[e] \in Roles /\ Frame[e] \in Nat
      BY BatchEvents, EventFacts
    <3>3. Silent.deadline = 0
      BY DEF Silent, Scheduler!Silent
    <3>4. QED
      BY <1>1, <3>1, <3>2, <3>3
  <2>3. QED
    BY <1>1, <2>1, <2>2 DEF Kept, Uncommitted
<1>2. ASSUME UNCHANGED <<reservation, claimed, commandBox, overlay, queue, voices>> PROVE Kept'
  BY <1>1, <1>2
<1>3. ASSUME NEW es \in SUBSET Events, AdmitGroup(es) PROVE Kept'
  <2>1. queue \subseteq queue' /\ voices' = voices
    BY <1>0, <1>3, AdmitEffect DEF AdmitGroup
  <2>2. UNCHANGED <<reservation, claimed, commandBox, overlay>>
    BY <1>3 DEF AdmitGroup, bookVars, commandVars
  <2>3. QED
    BY <1>1, <2>1, <2>2
<1>4. ASSUME NEW delay, NEW current, ActivateMacroEvents(current, delay) PROVE Kept'
  <2>1. reservation' = NoReservation
    BY <1>4 DEF ActivateMacroEvents, bookVars
  <2>2. QED
    BY <2>1, NoReservationFields DEF Kept, Uncommitted
<1>5. ASSUME NEW r \in Roles, ReleaseMacroEvent(r) PROVE Kept'
  <2>1. queue' = queue /\ \A q \in Roles : voices'[q] \in {voices[q], Silent}
    BY <1>0, <1>5, ReleaseEffect DEF ReleaseMacroEvent
  <2>2. UNCHANGED <<reservation, claimed, commandBox, overlay>>
    BY <1>5 DEF ReleaseMacroEvent, bookVars, commandVars
  <2>3. QED
    BY <1>1, <2>1, <2>2
<1>6. ASSUME NEW lookahead \in 0..MaxFrame, PrepareToken(lookahead) PROVE Kept'
  <2>1. \A r \in Roles : overlay'[r] = NoCommand
    BY <1>6, PrepareEffect, NoReservationFields DEF Overlaid, Committed
  <2>2. \A e \in EventsOf(reservation'.batch) : Role[e] \in Roles
    BY <1>6, PrepareEffect, EventFacts DEF Reservations, EventsOf
  <2>3. QED
    BY <1>6, <2>1, <2>2, PrepareEffect DEF Kept
<1>7. CASE StageReady
  <2>1. /\ UNCHANGED <<claimed, commandBox, overlay, queue, voices>>
        /\ Uncommitted /\ reservation'.batch = reservation.batch
    BY <1>7, StageReadyEffect DEF schedulerVars, commandVars
  <2>2. Reserved' = Reserved
    BY <2>1 DEF Reserved, Scheduler!Reserved
  <2>3. QED
    BY <2>1, <2>2 DEF Kept
<1>8. CASE DiscardToken
  BY <1>8, DiscardFields, NoReservationFields DEF Kept, Uncommitted
<1>9. CASE \/ DirectCall \/ PollAck
           \/ \E delay \in Delays, detailed \in SUBSET Roles : BeginCommit(delay, detailed)
  <2>1. UNCHANGED <<reservation, claimed, commandBox, overlay, queue, voices>>
    BY <1>9, DirectCallKeeps DEF PollAck, BeginCommit, schedulerVars, commandVars
  <2>2. QED
    BY <1>2, <2>1
<1>10. CASE CommitAndPublish \/ PollReturns
  <2>1. Committed'
    BY <1>10, CommitEffect, PollReturnsEffect DEF Committed, InCall
  <2>2. QED
    BY <2>1 DEF Kept, Committed, Uncommitted
<1>11. ASSUME NEW r \in Roles, FinalizeAck(r) PROVE Kept'
  <2>1. ~Uncommitted'
    BY <1>11, FinalizeEffect, NoReservationFields DEF Committed, Uncommitted
  <2>2. QED
    BY <2>1 DEF Kept
<1>12. CASE Audio
  <2>1. UNCHANGED <<reservation, claimed, overlay, queue, voices>> /\ commandBox' \subseteq commandBox
    BY <1>12, AudioKeeps, TakenMoves
       DEF Audio, RenderBegin, RenderSpatial, RenderEndDiscard, RenderEndCommit, commandVars
  <2>2. Uncommitted => commandBox' = {}
    BY <2>1 DEF Kept
  <2>3. Reserved' = Reserved
    BY <2>1 DEF Reserved, Scheduler!Reserved
  <2>4. QED
    BY <2>1, <2>2, <2>3 DEF Kept, Uncommitted
<1>13. CASE SchedulerCall
  BY <1>3, <1>4, <1>5, <1>13 DEF SchedulerCall
<1>14. QED
  BY <1>6, <1>7, <1>8, <1>9, <1>10, <1>11, <1>12, <1>13, ControlCalls DEF Next

LEMMA MatchedStep ==
  ASSUME TypeOK, Batched, InCall, Timed, Matched, Next PROVE Matched'
<1>0. QueueTypes
  BY DEF TypeOK, ControlTypes, QueueTypes
<1>1. ASSUME UNCHANGED reservation,
             Committed => \A r \in RolesOf(reservation.batch) :
               voices'[r] = voices[r] /\ tails'[r] = tails[r]
      PROVE  Matched'
  BY <1>1 DEF Matched, Committed, ReleaseMatches, RolesOf
<1>2. ASSUME UNCHANGED <<reservation, voices, tails>> PROVE Matched'
  BY <1>1, <1>2
<1>3. CASE \/ DirectCall \/ PollAck \/ Audio
           \/ \E delay \in Delays, detailed \in SUBSET Roles : BeginCommit(delay, detailed)
  <2>1. UNCHANGED <<reservation, voices, tails>>
    BY <1>3, DirectCallKeeps, AudioKeeps DEF PollAck, BeginCommit, schedulerVars
  <2>2. QED
    BY <1>2, <2>1
<1>4. ASSUME NEW es \in SUBSET Events, AdmitGroup(es) PROVE Matched'
  <2>1. UNCHANGED <<voices, tails>>
    BY <1>0, <1>4, AdmitEffect DEF AdmitGroup
  <2>2. UNCHANGED reservation
    BY <1>4 DEF AdmitGroup, bookVars
  <2>3. QED
    BY <1>2, <2>1, <2>2
<1>5. CASE \/ \E delay \in Delays, current \in 0..MaxFrame : ActivateMacroEvents(current, delay)
           \/ \E lookahead \in 0..MaxFrame : PrepareToken(lookahead)
           \/ StageReady \/ DiscardToken
  <2>1. ~Committed'
    <3>1. CASE \E delay \in Delays, current \in 0..MaxFrame : ActivateMacroEvents(current, delay)
      BY <3>1, NoReservationFields DEF ActivateMacroEvents, bookVars, Committed
    <3>2. CASE \E lookahead \in 0..MaxFrame : PrepareToken(lookahead)
      BY <3>2, PrepareEffect DEF Committed
    <3>3. CASE StageReady \/ DiscardToken
      BY <3>3, StageReadyEffect, DiscardFields, NoReservationFields DEF Committed
    <3>4. QED
      BY <1>5, <3>1, <3>2, <3>3
  <2>2. QED
    BY <2>1 DEF Matched
(* The one that is released is none of the batch.                          *)
<1>6. ASSUME NEW r \in Roles, ReleaseMacroEvent(r) PROVE Matched'
  <2>1. \A q \in Roles \ {r} : voices'[q] = voices[q] /\ tails'[q] = tails[q]
    BY <1>0, <1>6, ReleaseEffect DEF ReleaseMacroEvent
  <2>2. UNCHANGED reservation /\ (Committed => voices[r].event \notin EventsOf(reservation.batch))
    BY <1>6 DEF ReleaseMacroEvent, bookVars
  <2>3. ASSUME Committed, NEW q \in RolesOf(reservation.batch) \ reservation.finalized
        PROVE  q \in Roles \ {r}
    <3>1. q \in Roles /\ ReleaseMatches(q)
      BY <2>3, BatchEvents DEF Matched
    <3>2. QED
      BY <2>2, <2>3, <3>1 DEF ReleaseMatches
  <2>4. QED
    BY <2>1, <2>2, <2>3 DEF Matched, Committed, ReleaseMatches, RolesOf
<1>7. CASE CommitAndPublish
  <2>1. reservation'.batch = reservation.batch
    BY <1>7, CommitEffect
  <2>2. QED
    BY <1>7, <2>1, CommitStarts DEF Matched, ReleaseMatches, RolesOf
<1>8. CASE PollReturns
  <2>1. UNCHANGED <<voices, tails>>
    BY <1>8, PollReturnsEffect DEF schedulerVars
  <2>2. /\ reservation'.state = reservation.state /\ reservation'.batch = reservation.batch
        /\ reservation'.finalized = reservation.finalized
    BY <1>8, PollReturnsEffect
  <2>3. QED
    BY <2>1, <2>2 DEF Matched, Committed, ReleaseMatches
<1>9. ASSUME NEW r \in Roles, FinalizeAck(r) PROVE Matched'
  <2>1. CASE reservation' = NoReservation
    BY <2>1, NoReservationFields DEF Matched, Committed
  <2>2. CASE /\ reservation'.state = reservation.state
             /\ reservation'.batch = reservation.batch
             /\ reservation'.finalized = reservation.finalized \cup {r}
    <3>1. \A q \in Roles \ {r} : voices'[q] = voices[q] /\ tails'[q] = tails[q]
      BY <1>9, FinalizeEffect
    <3>2. RolesOf(reservation.batch) \subseteq Roles
      BY BatchEvents
    <3>3. QED
      BY <2>2, <3>1, <3>2 DEF Matched, Committed, ReleaseMatches
  <2>3. QED
    BY <1>9, <2>1, <2>2, FinalizeEffect
<1>10. QED
  BY <1>3, <1>4, <1>5, <1>6, <1>7, <1>8, <1>9, ControlCalls DEF Next, SchedulerCall

-----------------------------------------------------------------------------
(* The invariant, and what it implies                                      *)

Inv == /\ TypeOK /\ Batched /\ Overlaid /\ InCall /\ Tagged /\ Timed
       /\ OneOwner /\ Kept /\ Matched

LEMMA InitInv == Init => Inv
<1> SUFFICES ASSUME Init PROVE Inv
  OBVIOUS
<1>1. TypeOK
  BY InitTypes
<1>2. /\ reservation = NoReservation /\ ~Committed /\ ~Uncommitted
      /\ EventsOf(reservation.batch) = {}
  BY NoReservationFields DEF Init, Committed, Uncommitted, EventsOf
<1>3. /\ commandBox = {} /\ pendingCommands = {} /\ provisional = {} /\ polled = NoAck
      /\ ackBox = NoAck /\ claimed = FALSE /\ cpc = "idle"
      /\ \A r \in Roles : /\ roles[r].phase = "empty" /\ pendingAcks[r] = NoAck
                          /\ overlay[r] = NoCommand
  BY DEF Init, Idle, AckMail!Init
<1>4. Batched /\ Overlaid /\ InCall
  BY <1>2, <1>3, NoReservationFields DEF Batched, Overlaid, InCall
<1>5. Tagged /\ Timed
  BY <1>3 DEF Tagged, Timed
<1>6. OneOwner
  <2> SUFFICES ASSUME NEW e \in Events PROVE Owned(e)
    BY DEF OneOwner
  <2>1. Role[e] \in Roles /\ e # None /\ NoAck.event = None
    BY EventFacts, NoneIsNoEvent DEF NoAck
  <2>2. /\ ~InMail(e) /\ ~InPending(e) /\ ~Playing(e) /\ ~Queueing(e) /\ ~Acking(e)
        /\ ~Polling(e) /\ ~Awaited(e)
    BY <1>2, <1>3, <2>1 DEF InMail, InPending, Playing, Queueing, Acking, Polling, Awaited
  <2>3. QED
    BY <2>2, Zenon DEF Owned
<1>7. Kept /\ Matched
  BY <1>2 DEF Kept, Matched
<1>8. QED
  BY <1>1, <1>4, <1>5, <1>6, <1>7 DEF Inv

LEMMA NextInv == Inv /\ [Next]_vars => Inv'
<1> SUFFICES ASSUME Inv, [Next]_vars PROVE Inv'
  OBVIOUS
<1>0. /\ TypeOK /\ Batched /\ Overlaid /\ InCall /\ Tagged /\ Timed
      /\ OneOwner /\ Kept /\ Matched
  BY DEF Inv
<1>1. CASE Control
  <2>1. TypeOK' /\ Batched' /\ Overlaid' /\ InCall'
    BY <1>0, <1>1, ControlTypeStep, BatchedStep, OverlaidStep, InCallStep
  <2>2. Tagged' /\ Timed' /\ OneOwner'
    BY <1>0, <1>1, TaggedControlStep, TimedControlStep, OwnerControlStep
  <2>3. Kept' /\ Matched'
    BY <1>0, <1>1, KeptStep, MatchedStep DEF Next
  <2>4. QED
    BY <2>1, <2>2, <2>3 DEF Inv
<1>2. CASE Audio
  <2>1. TypeOK' /\ Batched' /\ Overlaid' /\ InCall'
    BY <1>0, <1>2, AudioTypeStep, AudioKeepsBook
  <2>2. Tagged' /\ Timed' /\ OneOwner'
    BY <1>0, <1>2, TaggedAudioStep, TimedAudioStep, OwnerAudioStep
  <2>3. Kept' /\ Matched'
    BY <1>0, <1>2, KeptStep, MatchedStep DEF Next
  <2>4. QED
    BY <2>1, <2>2, <2>3 DEF Inv
<1>3. CASE UNCHANGED vars
  <2>0. UNCHANGED <<queue, voices, tails, cpc, token, reservation, provisional, overlay, polled,
                    backend, direct, claimed, commandBox, ackBox, ackLeaving, clock, apc,
                    observed, stagedStart, valid, pendingCommands, roles, pendingAcks>>
    BY <1>3 DEF vars, controlVars, schedulerVars, bookVars, directVars, commandVars, ackVars,
                audioVars, roleVars
  <2>1. TypeOK'
    BY <1>0, <2>0 DEF TypeOK, ControlTypes, AudioTypes
  <2>2. Batched' /\ Overlaid' /\ InCall' /\ Tagged' /\ Timed'
    BY <1>0, <2>0 DEF Batched, Overlaid, InCall, Tagged, Timed, Committed, Uncommitted
  <2>3. OneOwner'
    BY <1>0, <2>0, SameAwaited, OwnerKept
  <2>4. Reserved' = Reserved
    BY <2>0 DEF Reserved, Scheduler!Reserved
  <2>5. Kept' /\ Matched'
    BY <1>0, <2>0, <2>4 DEF Kept, Matched, Committed, Uncommitted, ReleaseMatches
  <2>6. QED
    BY <2>1, <2>2, <2>3, <2>5 DEF Inv
<1>4. QED
  BY <1>1, <1>2, <1>3 DEF Next

LEMMA Invariance == Spec => []Inv
<1>1. QED
  BY InitInv, NextInv, PTL DEF Spec

(* One frame for the batch, and what is kept, make every check of the      *)
(* commit succeed at that frame.                                           *)
LEMMA KeptIsCommitCannotFail ==
  ASSUME TypeOK, Batched, InCall, Kept PROVE CommitCannotFail
<1>1. ASSUME cpc \in {"direct", "commit"}, NEW e \in EventsOf(reservation.batch)
      PROVE  Uncommitted /\ CanCommit(Frame[e])
  <2>1. Uncommitted
    BY <1>1 DEF InCall, Uncommitted
  <2>2. reservation.batch \subseteq {Record(s) : s \in {t \in queue : t.reserved}}
    BY <2>1 DEF Kept, Reserved, Scheduler!Reserved
  <2>3. ASSUME NEW b \in reservation.batch
        PROVE  Frame[b.event] = Frame[e] /\ voices[Role[b.event]].deadline <= Frame[e]
    <3>1. b.event \in EventsOf(reservation.batch)
      BY DEF EventsOf
    <3>2. QED
      BY <1>1, <2>1, <3>1 DEF Batched, Kept
  <2>4. Scheduler(Frame[e])!ValidCommit(reservation.batch)
    BY <2>2, <2>3 DEF Scheduler!ValidCommit, Scheduler!Reserved, Record, Scheduler!Record
  <2>5. \A r \in RolesOf(reservation.batch) : overlay[r] = NoCommand
    BY <2>1 DEF Kept, RolesOf
  <2>6. QED
    BY <2>1, <2>4, <2>5 DEF CanCommit
<1>2. cpc \in {"direct", "commit"} => Uncommitted
  BY DEF InCall, Uncommitted
<1>3. QED
  BY <1>1, <1>2 DEF CommitCannotFail, Kept

(* The owners of an event are the places that carry it.                    *)
LEMMA OwnersAreCarriers ==
  ASSUME TypeOK, Tagged, NEW e \in Events
  PROVE  Carriers(e) = {p \in {"mailbox", "pending", "playing", "queued", "acking", "polled"} :
           \/ p = "mailbox" /\ InMail(e)
           \/ p = "pending" /\ InPending(e)
           \/ p = "playing" /\ Playing(e)
           \/ p = "queued" /\ Queueing(e)
           \/ p = "acking" /\ Acking(e)
           \/ p = "polled" /\ Polling(e)}
<1>0. Role[e] \in Roles /\ e # None
  BY EventFacts, NoneIsNoEvent
<1>1. e \in EventsOf(commandBox) <=> InMail(e)
  BY DEF EventsOf, InMail
<1>2. e \in EventsOf(pendingCommands) <=> InPending(e)
  BY DEF EventsOf, InPending
<1>3. e \in {roles[r].command.event : r \in {s \in Roles : roles[s].phase = "active"}}
        <=> Playing(e)
  <2>1. \A r \in Roles : roles[r].phase = "active" => Role[roles[r].command.event] = r
    BY DEF Tagged
  <2>2. QED
    BY <1>0, <2>1 DEF Playing
<1>4. e \in {pendingAcks[r].event : r \in Roles} \ {None} <=> Queueing(e)
  <2>1. ASSUME NEW r \in Roles, pendingAcks[r].event = e PROVE Role[e] = r
    <3>1. pendingAcks[r] # NoAck
      BY <1>0, <2>1 DEF NoAck
    <3>2. QED
      BY <2>1, <3>1 DEF Tagged
  <2>2. QED
    BY <1>0, <2>1 DEF Queueing
<1>5. (e \in {ackBox.event} \ {None} <=> Acking(e)) /\ (e \in {polled.event} \ {None} <=> Polling(e))
  BY <1>0 DEF Acking, Polling
<1>6. DOMAIN Carried = {"mailbox", "pending", "playing", "queued", "acking", "polled"}
  BY DEF Carried
<1>7. /\ Carried.mailbox = EventsOf(commandBox)
      /\ Carried.pending = EventsOf(pendingCommands)
      /\ Carried.playing =
           {roles[r].command.event : r \in {s \in Roles : roles[s].phase = "active"}}
      /\ Carried.queued = {pendingAcks[r].event : r \in Roles} \ {None}
      /\ Carried.acking = {ackBox.event} \ {None}
      /\ Carried.polled = {polled.event} \ {None}
  BY DEF Carried
<1>8. /\ e \in Carried["mailbox"] <=> InMail(e)
      /\ e \in Carried["pending"] <=> InPending(e)
      /\ e \in Carried["playing"] <=> Playing(e)
      /\ e \in Carried["queued"] <=> Queueing(e)
      /\ e \in Carried["acking"] <=> Acking(e)
      /\ e \in Carried["polled"] <=> Polling(e)
  BY <1>1, <1>2, <1>3, <1>4, <1>5, <1>7
<1>9. QED
  BY <1>6, <1>8 DEF Carriers

LEMMA OneOwnerIsAwaitedOnce ==
  ASSUME TypeOK, Tagged, OneOwner PROVE AwaitedOnce
<1> SUFFICES ASSUME NEW e \in Events
             PROVE  IF Awaited(e) THEN \E p \in Carriers(e) : Carriers(e) = {p}
                    ELSE Carriers(e) = {}
  BY DEF AwaitedOnce, Awaited
<1>1. Owned(e)
  BY DEF OneOwner
<1>2. CASE ~Awaited(e)
  BY <1>1, <1>2, OwnersAreCarriers DEF Owned
<1>3. CASE Awaited(e)
  <2>1. CASE InMail(e)
    <3>1. Carriers(e) = {"mailbox"}
      BY <1>1, <2>1, OwnersAreCarriers DEF Owned
    <3>2. QED
      BY <1>3, <3>1
  <2>2. CASE InPending(e)
    <3>1. Carriers(e) = {"pending"}
      BY <1>1, <2>2, OwnersAreCarriers DEF Owned
    <3>2. QED
      BY <1>3, <3>1
  <2>3. CASE Playing(e)
    <3>1. Carriers(e) = {"playing"}
      BY <1>1, <2>3, OwnersAreCarriers DEF Owned
    <3>2. QED
      BY <1>3, <3>1
  <2>4. CASE Queueing(e)
    <3>1. Carriers(e) = {"queued"}
      BY <1>1, <2>4, OwnersAreCarriers DEF Owned
    <3>2. QED
      BY <1>3, <3>1
  <2>5. CASE Acking(e)
    <3>1. Carriers(e) = {"acking"}
      BY <1>1, <2>5, OwnersAreCarriers DEF Owned
    <3>2. QED
      BY <1>3, <3>1
  <2>6. CASE Polling(e)
    <3>1. Carriers(e) = {"polled"}
      BY <1>1, <2>6, OwnersAreCarriers DEF Owned
    <3>2. QED
      BY <1>3, <3>1
  <2>7. QED
    BY <1>1, <1>3, <2>1, <2>2, <2>3, <2>4, <2>5, <2>6 DEF Owned
<1>4. QED
  BY <1>2, <1>3

LEMMA MatchedIsFinalizeAccepted ==
  ASSUME TypeOK, Overlaid, Matched PROVE FinalizeAccepted
<1>1. RolesOf(reservation.batch) \subseteq Roles
  BY BatchEvents
<1>2. QED
  BY <1>1 DEF FinalizeAccepted, Overlaid, Matched

-----------------------------------------------------------------------------
(* Theorems                                                                *)

(* Every variable keeps its type, whatever the constants: no call of       *)
(* macro_transport's bridge leaves a half-built token, command or role.    *)
THEOREM TypeCorrect == Spec => []TypeOK
<1>1. Inv => TypeOK
  BY DEF Inv
<1>2. QED
  BY <1>1, Invariance, PTL

(* The three `expect`s that follow the direct pass of a macro commit never *)
(* fail: the token's slots, roles and mailbox are kept from the moment     *)
(* PrepareToken hands it out, through any calls in between.                *)
THEOREM CommitNeverFails == Spec => []CommitCannotFail
<1>1. Inv => CommitCannotFail
  BY KeptIsCommitCannotFail DEF Inv
<1>2. QED
  BY <1>1, Invariance, PTL

(* An event of a committed token has exactly one owner until its           *)
(* acknowledgement is returned, and no other event has any, through both   *)
(* mailboxes and every contended or failed call.                           *)
THEOREM AwaitedExactlyOnce == Spec => []AwaitedOnce
<1>1. Inv => AwaitedOnce
  BY OneOwnerIsAwaitedOnce DEF Inv
<1>2. QED
  BY <1>1, Invariance, PTL

(* The finalization of a role finds the overlay, the voice and the tail of *)
(* its committed event, so that a committed token can always be cleared.   *)
THEOREM FinalizeNeverRefused == Spec => []FinalizeAccepted
<1>1. Inv => FinalizeAccepted
  BY MatchedIsFinalizeAccepted DEF Inv
<1>2. QED
  BY <1>1, Invariance, PTL

(* A macro program moves on, and ends, only past frames of the block that  *)
(* was validly rendered between this begin and this end.                   *)
THEOREM PlayedOnlyWhenRendered == Spec => PlayedWhenRendered
<1>1. Inv /\ [Next]_vars =>
        [\A r \in Roles :
           apc' = "idle" /\ roles'[r].next # roles[r].next =>
             /\ valid /\ clock = stagedStart + BlockSize
             /\ stagedStart <= roles[r].next /\ roles[r].next + roles[r].staged <= clock]_vars
  BY PlayedStep DEF Inv
<1>2. QED
  BY <1>1, Invariance, PTL DEF Spec, PlayedWhenRendered
=============================================================================
