----------------------------- MODULE MacroBridge -----------------------------
(***************************************************************************)
(* The macro production bridge of fightbox-ffi/src/lib.rs: how a batch of  *)
(* far-away events that the control thread has reserved in MacroScheduler  *)
(* becomes sound in the audio callback, and how the callback's last word   *)
(* on each event comes back, over two one-slot mailboxes.                  *)
(*                                                                         *)
(* Control thread: prepare a token, stage its assets, commit it in the     *)
(* control frame of exactly its activation frame, poll and finalize one    *)
(* acknowledgement per event.  Audio thread: begin, render, end, once per  *)
(* block.  The commit reads the block clock, runs the direct pass, whose   *)
(* generation the audio thread sees at once, and only then publishes its   *)
(* commands: the callback may be anywhere in between.                      *)
(*                                                                         *)
(* Asset keys, seeks and readiness generations are fixed once a token is   *)
(* committed and are left out, as are gains and routes.  A snapshot is     *)
(* read as a register (SnapshotChannel).  A mailbox is a OneSlot; that of  *)
(* the commands is reserved by its token (`claimed`), and since no other   *)
(* token can want it meanwhile, it is emptied in one step.                 *)
(***************************************************************************)
EXTENDS Integers, FiniteSets

CONSTANTS
  Events, Roles, Role, Group, Frame, Deadline, LocalDelays, Capacity,
              \* those of MacroScheduler; a delay includes the tail of an echo
  BlockSize,  \* frames of a callback
  MaxFrame,   \* bound: the block clock
  MaxDirect,  \* bound: direct generations
  MaxTokens,  \* bound: tokens
  None

ASSUME BridgeAssumption ==
  /\ Events \subseteq Nat
  /\ Roles \subseteq Nat            \* their order is that of EventRole::ALL
  /\ Role \in [Events -> Roles]
  /\ Group \in [Events -> Nat]
  /\ Frame \in [Events -> Nat]
  /\ Deadline \in [Events -> Nat]
  /\ \A e \in Events : Frame[e] <= Deadline[e]
  /\ LocalDelays \subseteq Nat
  /\ BlockSize \in Nat \ {0}
  /\ {MaxFrame, MaxDirect, MaxTokens} \subseteq Nat
  /\ None \notin Nat

VARIABLES
  queue, voices, tails,  \* the scheduler and its ingress
  \* MacroBridgeControl, and what its control frames publish
  cpc,           \* where the control call is
  token,         \* next_token_id
  reservation,   \* the token in progress
  provisional,   \* the commands of the commit in progress
  overlay,       \* the active command of each role
  polled,        \* pending_acknowledgements: they come one at a time
  backend,       \* the roles whose source is active in control.update
  direct,        \* the published direct generation
  \* the mailboxes
  claimed, commandBox,
  ackBox, ackLeaving,
  \* MacroBridgeAudio
  clock,         \* spatial_block_start_frame
  apc,           \* where the callback is
  observed,      \* the generation this callback has observed
  pendingCommands,
  roles,         \* MacroAudioRole by role
  pendingAcks,   \* pending_acknowledgements by role
  stagedStart,   \* staged_block_start_frame
  valid          \* validity of the block rendered since begin

schedulerVars == <<queue, voices, tails>>
bookVars == <<cpc, token, reservation, provisional, overlay, polled>>
directVars == <<backend, direct>>
controlVars == <<schedulerVars, bookVars, directVars>>
commandVars == <<claimed, commandBox>>
ackVars == <<ackBox, ackLeaving>>
roleVars == <<pendingCommands, roles, pendingAcks>>
audioVars == <<clock, apc, observed, stagedStart, valid, roleVars>>
vars == <<controlVars, commandVars, ackVars, audioVars>>

(* The scheduler at the frame a call goes by.  Which batches were handed   *)
(* out is the bridge's to remember.                                        *)
Scheduler(now) == INSTANCE MacroScheduler WITH
  batches <- SUBSET [event: Events, anchor: {None}],
  EchoRoles <- {}, Anchors <- {None}, NoAnchor <- None

Silent == Scheduler(0)!Silent
Record(s) == Scheduler(0)!Record(s)
Reserved == Scheduler(0)!Reserved

NoCommand == [token |-> 0, gen |-> 0, event |-> None, detailed |-> FALSE,
              start |-> 0, end |-> 0, deadline |-> 0]
NoAck == [token |-> 0, event |-> None, kind |-> "none"]
NoReservation == [token |-> 0, batch |-> {}, state |-> "none", acked |-> {}, finalized |-> {}]
Idle == [phase |-> "empty", command |-> NoCommand, next |-> 0, staged |-> 0]

AckMail == INSTANCE OneSlot WITH
  Items <- {}, Nothing <- NoAck, box <- ackBox, leaving <- ackLeaving

Init ==
  /\ queue = {}
  /\ voices = [r \in Roles |-> Silent]
  /\ tails = [r \in Roles |-> Silent]
  /\ cpc = "idle" /\ token = 1
  /\ reservation = NoReservation /\ provisional = {}
  /\ overlay = [r \in Roles |-> NoCommand]
  /\ polled = NoAck
  /\ backend = {} /\ direct = 0
  /\ claimed = FALSE /\ commandBox = {} /\ AckMail!Init
  /\ clock = 0 /\ apc = "idle" /\ observed = 0
  /\ pendingCommands = {}
  /\ roles = [r \in Roles |-> Idle]
  /\ pendingAcks = [r \in Roles |-> NoAck]
  /\ stagedStart = None /\ valid = FALSE

EventsOf(batch) == {b.event : b \in batch}
RolesOf(batch) == {Role[e] : e \in EventsOf(batch)}
Uncommitted == reservation.state \in {"reserved", "ready"}
Committed == reservation.state = "committed"

-----------------------------------------------------------------------------
(* Control thread: around a token                                          *)

AdmitGroup(es) ==
  /\ cpc = "idle"
  /\ Scheduler(0)!AdmitGroup(es)
  /\ UNCHANGED <<bookVars, directVars, commandVars, ackVars, audioVars>>

(* Fault: what is due is started although a token is in progress.          *)
ActivateMacroEventsAnyway(current, delay) ==
  /\ cpc = "idle"
  /\ current <= clock
  /\ Scheduler(current)!Start(
       Scheduler(current)!FirstOfEachRole(Scheduler(current)!Due),
       Scheduler(current)!Retire(tails), delay)
  /\ UNCHANGED <<bookVars, directVars, commandVars, ackVars, audioVars>>

(* The caller says which frame it is; it knows of no later one.            *)
ActivateMacroEvents(current, delay) ==
  /\ cpc = "idle"
  /\ current <= clock
  /\ reservation = NoReservation
  /\ Scheduler(current)!Start(
       Scheduler(current)!FirstOfEachRole(Scheduler(current)!Due),
       Scheduler(current)!Retire(tails), delay)
  /\ UNCHANGED <<bookVars, directVars, commandVars, ackVars, audioVars>>

(* Fault: a committed event can be released behind the callback's back.    *)
ReleaseMacroEventAnyway(r) ==
  /\ cpc = "idle"
  /\ Scheduler(0)!Release(r)
  /\ UNCHANGED <<bookVars, directVars, commandVars, ackVars, audioVars>>

ReleaseMacroEvent(r) ==
  /\ cpc = "idle"
  /\ ~(Committed /\ voices[r].event \in EventsOf(reservation.batch))
  /\ Scheduler(0)!Release(r)
  /\ UNCHANGED <<bookVars, directVars, commandVars, ackVars, audioVars>>

PrepareToken(lookahead) ==
  /\ cpc = "idle"
  /\ token <= MaxTokens
  /\ reservation = NoReservation
  /\ lookahead >= clock
  /\ commandBox = {} /\ ~claimed
  /\ Scheduler(0)!ReserveNextActivation(lookahead)
  /\ claimed' = TRUE
  /\ reservation' = [NoReservation EXCEPT
       !.token = token, !.state = "reserved",
       !.batch = {Record(s) : s \in Scheduler(0)!NextActivation(lookahead)}]
  /\ token' = token + 1
  /\ UNCHANGED <<cpc, provisional, overlay, polled, directVars, commandBox, ackVars,
                 audioVars>>

StageReady ==
  /\ cpc = "idle"
  /\ Uncommitted
  /\ reservation' = [reservation EXCEPT !.state = "ready"]
  /\ UNCHANGED <<schedulerVars, cpc, token, provisional, overlay, polled,
                 directVars, commandVars, ackVars, audioVars>>

DiscardToken ==
  /\ cpc = "idle"
  /\ Uncommitted
  /\ Scheduler(0)!DiscardReserved(reservation.batch)
  /\ claimed' = FALSE
  /\ reservation' = NoReservation
  /\ UNCHANGED <<cpc, token, provisional, overlay, polled, directVars, commandBox,
                 ackVars, audioVars>>

-----------------------------------------------------------------------------
(* Control thread: control frames, and the commit within one               *)

Detailed(commands) == {Role[c.event] : c \in {d \in commands : d.detailed}}

ActiveCommands == {overlay[r] : r \in Roles} \ {NoCommand}

(* A direct pass with the sources of `rs` active either fails or publishes *)
(* its generation; a later phase may fail, but then this has happened.     *)
DirectFails(rs) == backend' = rs /\ UNCHANGED direct

DirectRuns(rs) ==
  /\ direct < MaxDirect
  /\ backend' = rs
  /\ direct' = direct + 1

(* update_control_frame_v2 and update_source overwrite the engine's own    *)
(* sources by the overlay; update_listener runs with what is there.        *)
UpdateControl(rs) ==
  /\ cpc = "idle"
  /\ ~Uncommitted
  /\ rs \in {Detailed(ActiveCommands), backend}
  /\ DirectRuns(rs) \/ DirectFails(rs)
  /\ UNCHANGED <<schedulerVars, bookVars, commandVars, ackVars, audioVars>>

Delay(commands) ==
  [r \in Roles |->
     IF \E c \in commands : Role[c.event] = r
       THEN LET c == CHOOSE c \in commands : Role[c.event] = r
            IN c.deadline - Deadline[c.event]
       ELSE 0]

(* from_activations: a detailed event starts at its frame and its local    *)
(* leg sounds after its end, the fallback starts that much later.          *)
Provisional(delay, detailed) ==
  {[token    |-> reservation.token,
    gen      |-> 1,
    event    |-> e,
    detailed |-> Role[e] \in detailed,
    start    |-> Frame[e] + (IF Role[e] \in detailed THEN 0 ELSE delay[Role[e]]),
    end      |-> Deadline[e] + (IF Role[e] \in detailed THEN 0 ELSE delay[Role[e]]),
    deadline |-> Deadline[e] + delay[Role[e]]] : e \in EventsOf(reservation.batch)}

(* What is validated before the direct pass, at the frame it loaded.       *)
CanCommit(now) ==
  /\ Scheduler(now)!ValidCommit(reservation.batch)
  /\ \A r \in RolesOf(reservation.batch) : overlay[r] = NoCommand

BeginCommit(delay, detailed) ==
  /\ cpc = "idle"
  /\ reservation.state = "ready"
  /\ CanCommit(clock)
  /\ \A e \in EventsOf(reservation.batch) : Frame[e] < Deadline[e]  \* bind_program_end_frame
  /\ provisional' = Provisional(delay, detailed)
  /\ cpc' = "direct"
  /\ UNCHANGED <<schedulerVars, token, reservation, overlay, polled, directVars,
                 commandVars, ackVars, audioVars>>

(* After a failed pass the token can be committed again, in this block.    *)
CommitDirectFails ==
  /\ cpc = "direct"
  /\ DirectFails(Detailed(ActiveCommands \cup provisional))
  /\ cpc' = "idle"
  /\ provisional' = {}
  /\ UNCHANGED <<schedulerVars, token, reservation, overlay, polled, commandVars,
                 ackVars, audioVars>>

CommitDirectRuns ==
  /\ cpc = "direct"
  /\ DirectRuns(Detailed(ActiveCommands \cup provisional))
  /\ cpc' = "commit"
  /\ UNCHANGED <<schedulerVars, token, reservation, provisional, overlay, polled,
                 commandVars, ackVars, audioVars>>

(* The frame the call loaded is that of its events, wherever the callback  *)
(* is by now.                                                              *)
CommitAndPublish ==
  LET commands == {[c EXCEPT !.gen = direct] : c \in provisional} IN
  /\ cpc = "commit"
  /\ \E e \in EventsOf(reservation.batch) :
       /\ Scheduler(Frame[e])!ValidCommit(reservation.batch)
       /\ Scheduler(Frame[e])!Start(Scheduler(Frame[e])!Holding(reservation.batch),
                                    tails, Delay(provisional))
  /\ overlay' = [r \in Roles |->
       IF \E c \in commands : Role[c.event] = r
         THEN CHOOSE c \in commands : Role[c.event] = r ELSE overlay[r]]
  /\ claimed /\ claimed' = FALSE
  /\ commandBox' = commands
  /\ reservation' = [reservation EXCEPT !.state = "committed"]
  /\ provisional' = {}
  /\ cpc' = "idle"
  /\ UNCHANGED <<token, polled, directVars, ackVars, audioVars>>

-----------------------------------------------------------------------------
(* Control thread: the acknowledgements                                    *)

PollAck ==
  /\ cpc = "idle"
  /\ Committed
  /\ ackBox # NoAck
  /\ AckMail!Take(ackBox)
  /\ polled' = ackBox
  /\ cpc' = "polled"
  /\ UNCHANGED <<schedulerVars, token, reservation, provisional, overlay, directVars,
                 commandVars, audioVars>>

(* The acknowledgement is the one the token waits for.                     *)
Qualified(a) ==
  /\ a.event \in EventsOf(reservation.batch)
  /\ a.token = reservation.token
  /\ overlay[Role[a.event]] # NoCommand
  /\ Role[a.event] \notin reservation.acked

PollReturns ==
  /\ cpc = "polled"
  /\ AckMail!Release
  /\ polled' = NoAck
  /\ reservation' = IF Qualified(polled)
       THEN [reservation EXCEPT !.acked = @ \cup {Role[polled.event]}] ELSE reservation
  /\ cpc' = "idle"
  /\ UNCHANGED <<schedulerVars, token, provisional, overlay, directVars, commandVars,
                 audioVars>>

(* release_matches                                                         *)
ReleaseMatches(r) ==
  \E e \in EventsOf(reservation.batch) :
    Role[e] = r /\ voices[r].event = e /\ tails[r].event = e

FinalizeAck(r) ==
  LET finalized == reservation.finalized \cup {r} IN
  /\ cpc = "idle"
  /\ Committed
  /\ r \in reservation.acked \ reservation.finalized
  /\ overlay[r].token = reservation.token
  /\ ReleaseMatches(r)
  /\ Scheduler(0)!Release(r)
  /\ overlay' = [overlay EXCEPT ![r] = NoCommand]
  /\ reservation' = IF finalized = RolesOf(reservation.batch)
       THEN NoReservation ELSE [reservation EXCEPT !.finalized = finalized]
  /\ UNCHANGED <<cpc, token, provisional, polled, directVars, commandVars, ackVars,
                 audioVars>>

-----------------------------------------------------------------------------
(* Audio thread: begin                                                     *)

Ack(c, kind) == [token |-> c.token, event |-> c.event, kind |-> kind]

(* Fault: a refused acknowledgement is not kept for the next flush.        *)
FlushOneAndForget(acks) ==
  LET waiting == {r \in Roles : acks[r] # NoAck} IN
  IF waiting # {}
    THEN LET r == CHOOSE r \in waiting : \A s \in waiting : r <= s IN
         /\ IF AckMail!Free THEN AckMail!Put(acks[r]) ELSE UNCHANGED ackVars
         /\ pendingAcks' = [acks EXCEPT ![r] = NoAck]
    ELSE UNCHANGED ackVars /\ pendingAcks' = acks

(* flush_one_macro_audio_ack, `acks` being what is pending before it.      *)
FlushOne(acks) ==
  LET waiting == {r \in Roles : acks[r] # NoAck} IN
  IF waiting # {} /\ AckMail!Free
    THEN LET r == CHOOSE r \in waiting : \A s \in waiting : r <= s IN
         AckMail!Put(acks[r]) /\ pendingAcks' = [acks EXCEPT ![r] = NoAck]
    ELSE UNCHANGED ackVars /\ pendingAcks' = acks

RenderBegin ==
  /\ apc = "idle"
  /\ FlushOne(pendingAcks)
  /\ observed' = direct
  /\ apc' = "observed"
  /\ UNCHANGED <<controlVars, commandVars, clock, stagedStart, valid,
                 pendingCommands, roles>>

(* What there is to decide on: the batch kept from an earlier block, or    *)
(* the one in the mailbox.                                                 *)
Taken == IF pendingCommands = {} THEN commandBox ELSE pendingCommands

Future == \E c \in Taken : c.gen > observed

Invalid ==
  \E c \in Taken :
    \/ c.gen # observed
    \/ Frame[c.event] > clock
    \/ c.start < clock
    \/ roles[Role[c.event]].phase = "active"

(* The batch as a whole waits, is rejected, or takes its roles.            *)
Rejected == IF ~Future /\ Invalid THEN Taken ELSE {}
Accepted == IF Future \/ Invalid THEN {} ELSE Taken

Accept(s, r) ==
  IF \E c \in Accepted : Role[c.event] = r
    THEN LET c == CHOOSE c \in Accepted : Role[c.event] = r
         IN [phase |-> "active", command |-> c, next |-> c.start, staged |-> 0]
    ELSE s

Missed(s) == s.phase = "active" /\ s.next < clock

Smaller(a, b) == IF a < b THEN a ELSE b

(* The frames of this block the role's program is asked for.               *)
FramesDue(s) ==
  LET last == Smaller(clock + BlockSize, s.command.end) IN
  IF s.next < last THEN last - s.next ELSE 0

(* queue_macro_audio_ack                                                   *)
Queued(c, r, kind) == IF pendingAcks[r] = NoAck THEN Ack(c, kind) ELSE pendingAcks[r]

(* What an acknowledged role keeps is never read again, and is left out.   *)
Acknowledged == [Idle EXCEPT !.phase = "acknowledged"]

StageBlock ==
  LET turnedAway == {Role[c.event] : c \in Rejected}
      begun == [r \in Roles |-> Accept(roles[r], r)]
  IN
  /\ apc = "observed"
  /\ commandBox' = IF pendingCommands = {} THEN {} ELSE commandBox
  /\ pendingCommands' = IF Future THEN Taken ELSE {}
  /\ roles' = [r \in Roles |->
       IF r \in turnedAway \/ Missed(begun[r]) THEN Acknowledged
       ELSE IF begun[r].phase = "active"
         THEN [begun[r] EXCEPT !.staged = FramesDue(begun[r])] ELSE begun[r]]
  /\ pendingAcks' = [r \in Roles |->
       IF r \in turnedAway
         THEN Queued(CHOOSE c \in Rejected : Role[c.event] = r, r, "rejected")
       ELSE IF Missed(begun[r]) THEN Queued(begun[r].command, r, "rejected")
       ELSE pendingAcks[r]]
  /\ stagedStart' = clock
  /\ observed' = 0
  /\ apc' = "staged"
  /\ UNCHANGED <<controlVars, claimed, ackVars, clock, valid>>

-----------------------------------------------------------------------------
(* Audio thread: the block itself, and end                                 *)

(* A render that fails leaves the clock alone and is no step.              *)
RenderSpatial(ok) ==
  /\ apc = "staged"
  /\ clock + BlockSize <= MaxFrame
  /\ clock' = clock + BlockSize
  /\ valid' = ok
  /\ apc' = "rendered"
  /\ UNCHANGED <<controlVars, commandVars, ackVars, observed, stagedStart, roleVars>>

Unstaged == [r \in Roles |-> [roles[r] EXCEPT !.staged = 0]]

(* Disposition discard, or commit without a valid block of this frame.     *)
RenderEndDiscard ==
  /\ apc \in {"staged", "rendered"}
  /\ roles' = Unstaged
  /\ stagedStart' = None
  /\ valid' = FALSE
  /\ apc' = "idle"
  /\ UNCHANGED <<controlVars, commandVars, ackVars, clock, observed,
                 pendingCommands, pendingAcks>>

(* The role after the block, and whether its program and tail are over.    *)
Played(r) == [roles[r] EXCEPT !.next = @ + roles[r].staged, !.staged = 0]

Complete(r) ==
  /\ roles[r].phase = "active"
  /\ Played(r).next >= roles[r].command.end
  /\ clock >= roles[r].command.deadline

(* Fault: end does not look at what was rendered.                          *)
CommitsAnyBlock == stagedStart # None

CommitsBlock == clock = stagedStart + BlockSize /\ valid

RenderEndCommit ==
  /\ apc \in {"staged", "rendered"}
  /\ CommitsBlock
  /\ roles' = [r \in Roles |->
       IF roles[r].phase # "active" THEN Unstaged[r]
       ELSE IF Complete(r) THEN Acknowledged ELSE Played(r)]
  /\ FlushOne([r \in Roles |->
       IF Complete(r) THEN Queued(roles[r].command, r, "deactivated") ELSE pendingAcks[r]])
  /\ stagedStart' = None
  /\ valid' = FALSE
  /\ apc' = "idle"
  /\ UNCHANGED <<controlVars, commandVars, clock, observed, pendingCommands>>

-----------------------------------------------------------------------------
Delays == [Roles -> LocalDelays]

Control ==
  \/ \E es \in SUBSET Events : AdmitGroup(es)
  \/ \E delay \in Delays :
       \/ \E current \in 0..MaxFrame : ActivateMacroEvents(current, delay)
       \/ \E detailed \in SUBSET Roles : BeginCommit(delay, detailed)
  \/ \E r \in Roles : ReleaseMacroEvent(r)
  \/ \E lookahead \in 0..MaxFrame : PrepareToken(lookahead)
  \/ StageReady \/ DiscardToken
  \/ \E rs \in SUBSET Roles : UpdateControl(rs)
  \/ CommitDirectFails \/ CommitDirectRuns \/ CommitAndPublish
  \/ PollAck \/ PollReturns
  \/ \E r \in Roles : FinalizeAck(r)

Audio ==
  \/ RenderBegin \/ StageBlock
  \/ \E ok \in BOOLEAN : RenderSpatial(ok)
  \/ RenderEndDiscard \/ RenderEndCommit

Next == Control \/ Audio

Spec == Init /\ [][Next]_vars

(* The device keeps calling the callback and some blocks succeed; a call   *)
(* of the control thread returns, and its host polls and finalizes again   *)
(* and again while a token is committed.                                   *)
FairSpec ==
  /\ Spec
  /\ WF_vars(Audio) /\ SF_vars(RenderSpatial(TRUE))
  /\ WF_vars(cpc # "idle" /\ Control)
  /\ SF_vars(PollAck)
  /\ SF_vars(\E r \in Roles : FinalizeAck(r))

-----------------------------------------------------------------------------
(* Properties                                                              *)

Commands == [token: Nat, gen: Nat, event: Events, detailed: BOOLEAN,
             start: Nat, end: Nat, deadline: Nat]
Acks == [token: Nat, event: Events, kind: {"rejected", "deactivated"}] \cup {NoAck}

ControlTypes ==
  /\ queue \subseteq Scheduler(0)!Slots
  /\ voices \in [Roles -> Scheduler(0)!Sounds]
  /\ tails \in [Roles -> Scheduler(0)!Sounds]
  /\ cpc \in {"idle", "direct", "commit", "polled"}
  /\ token \in 1..MaxTokens + 1
  /\ reservation \in [token: Nat, batch: SUBSET [event: Events, anchor: {None}],
                      state: {"none", "reserved", "ready", "committed"},
                      acked: SUBSET Roles, finalized: SUBSET Roles]
  /\ reservation.token < token
  /\ reservation.finalized \subseteq reservation.acked
  /\ reservation.acked \subseteq RolesOf(reservation.batch)
  /\ provisional \subseteq Commands
  /\ overlay \in [Roles -> Commands \cup {NoCommand}]
  /\ polled \in Acks
  /\ backend \subseteq Roles /\ direct \in 0..MaxDirect

AudioTypes ==
  /\ clock \in 0..MaxFrame /\ observed \in 0..direct
  /\ apc \in {"idle", "observed", "staged", "rendered"}
  /\ pendingCommands \subseteq Commands
  /\ roles \in [Roles -> [phase: {"empty", "active", "acknowledged"},
                          command: Commands \cup {NoCommand},
                          next: Nat, staged: 0..BlockSize]]
  /\ pendingAcks \in [Roles -> Acks]
  /\ stagedStart \in (0..MaxFrame) \cup {None}
  /\ stagedStart # None <=> apc \in {"staged", "rendered"}
  /\ valid \in BOOLEAN

TypeOK ==
  /\ ControlTypes /\ AudioTypes
  /\ claimed \in BOOLEAN
  /\ commandBox \subseteq Commands
  /\ ackBox \in Acks /\ ackLeaving \in BOOLEAN

(* The commit relies on three `expect`s after its direct pass.  From the   *)
(* moment a token is handed out, whatever other calls come in between, its *)
(* slots stay held, its roles are free by its frame for scheduler and      *)
(* overlay alike, and the mailbox is kept for it.                          *)
CommitCannotFail ==
  /\ Uncommitted =>
       /\ claimed /\ commandBox = {}
       /\ reservation.batch \subseteq {Record(s) : s \in Reserved}
       /\ \A e \in EventsOf(reservation.batch) :
            overlay[Role[e]] = NoCommand /\ voices[Role[e]].deadline <= Frame[e]
  /\ cpc \in {"direct", "commit"} =>
       Uncommitted /\ \A e \in EventsOf(reservation.batch) : CanCommit(Frame[e])

(* Who has the command of an event, or the acknowledgement of it.          *)
Carried ==
  [mailbox |-> EventsOf(commandBox),
   pending |-> EventsOf(pendingCommands),
   playing |-> {roles[r].command.event : r \in {s \in Roles : roles[s].phase = "active"}},
   queued  |-> {pendingAcks[r].event : r \in Roles} \ {None},
   acking  |-> {ackBox.event} \ {None},
   polled  |-> {polled.event} \ {None}]

Carriers(e) == {p \in DOMAIN Carried : e \in Carried[p]}

(* Every event of a committed token is with exactly one of them until its  *)
(* acknowledgement is returned, and no other event is with any: none is    *)
(* lost or answered twice, and nothing of an old token lingers for a new   *)
(* one to meet, although slots may be full and calls may contend.          *)
AwaitedOnce ==
  \A e \in Events :
    IF /\ Committed /\ e \in EventsOf(reservation.batch)
       /\ Role[e] \notin reservation.acked
      THEN \E p \in Carriers(e) : Carriers(e) = {p}
      ELSE Carriers(e) = {}

(* "Finalization retryable": until a role is finalized, its overlay, its   *)
(* voice and its tail all name the committed event, so the one call that   *)
(* can clear the token is never refused.                                   *)
FinalizeAccepted ==
  Committed =>
    \A r \in RolesOf(reservation.batch) \ reservation.finalized :
      overlay[r].token = reservation.token /\ ReleaseMatches(r)

(* A program moves on, and ends, only past frames that lie in the block    *)
(* that was rendered, validly, between this begin and this end, each at    *)
(* its own engine frame.                                                   *)
PlayedWhenRendered ==
  [][\A r \in Roles :
       apc' = "idle" /\ roles'[r].next # roles[r].next =>
         /\ valid /\ clock = stagedStart + BlockSize
         /\ stagedStart <= roles[r].next /\ roles[r].next + roles[r].staged <= clock]_vars

(* The bridge holds one token at a time: a committed one is always cleared *)
(* in the end, whether its events were played or rejected.                 *)
CommittedSettles == Committed ~> reservation = NoReservation

(* The doc of SteamMacroIngressAcknowledgementKind::TerminalRejected:      *)
(* "Permanent missed/stale rejection."  An event that was playing and is   *)
(* rejected has program frames it will not play.                           *)
RejectedMeansMissed ==
  [][\A r \in Roles :
       roles[r].phase = "active" /\ pendingAcks'[r] = Ack(roles[r].command, "rejected")
         => roles[r].next < roles[r].command.end]_vars

(* The doc of overlay_backend_update: "Overwrites engine-owned slots on    *)
(* every backend publication, including listener-only updates whose        *)
(* retained update already contains a previous overlay."                   *)
DrivenByOverlay ==
  [][direct' # direct => backend' = Detailed(ActiveCommands \cup provisional)]_vars
=============================================================================
