# Verification of spatial-audio-engine

TLA+ models of the concurrent and stateful core of the engine, the TLC runs
that check them on small instances, and TLAPS proofs of the properties that
matter most for every value of the constants.  `PROJECT.json` lists, for every
definition, the source lines it stands for (`map`), the runs, the fault that
each property catches (`mutants`), the hazards and the theorems.

    tlc -workers 2 -config NeutralSwap.cfg MCNeutralSwap.tla
    tlapm NeutralSwap_proofs.tla

Paths below are relative to `src/crates/` unless they say otherwise.

## 1. The system

FightBox renders spatial audio from a city geometry.  A *control* thread owns
simulations (direct sound, pathing, reflections) and moves events and worlds;
an *audio* callback renders fixed blocks and may neither block, allocate nor
run a destructor.  A native host (Swift, behind a C interface) drives both.
Everything hard about the program lies where these meet, so the models are of
the meeting points.

| Component | State | Operations | Meets |
|---|---|---|---|
| Snapshot channel, `fightbox-runtime/src/snapshot.rs` | packed word (published, reading), three slots, the reader's last value | publish, read | every control value that the callback reads each block |
| Handoff slot, `fightbox-steam-audio/src/world_swap.rs` | state byte, one cell | reserve, discard, publish, push, pop, drop | swaps of worlds, FFI mailboxes |
| Neutral world swap, `fightbox-steam-audio/src/linked.rs` | lifecycle byte, two handoff slots, active/warming/retiring/backlog graphs, active/retiring simulations | ticks, prepare, swap, collect; block boundary, warmup, fade, tail, retirement | control and audio threads |
| Cell stream manager, `fightbox-runtime/src/cell_streaming.rs` | active, neighbor, retiring cell, ticket counter, last request, fallback flag | request, start, complete, fail, cancel, adopt, finish | host route, loaders, world swap |
| Macro scheduler and ingress, `fightbox-runtime/src/macro_transport.rs`, `ingress.rs` | 1024 slots, a voice and a tail per role | admit, bind, activate, reserve, commit, discard, release | FFI macro bridge, cell authority |
| FFI macro bridge, `fightbox-ffi/src/lib.rs` | transaction record, two mailboxes, pending acknowledgement | prepare, stage ready, commit with direct pass, poll and finalize acknowledgement, discard | control thread, callback, Swift |
| FFI spatial lifecycle, `fightbox-ffi/src/lib.rs`, with `fightbox-runtime/src/render.rs` and `multi_source.rs` | packed lifecycle and control epoch, two publications, a window of two generations | configure, control update, prepare, render | control thread, callback |
| Binaural world swap, `linked.rs` | several retired graphs, packed delivery word | swap, collect | control and audio threads |
| Simulation worker, `fightbox-runtime/src/workers.rs` | deadlines of three passes, displacement, stop flag | direct, pathing, reflections, stop | runner, mailbox |
| Reflection worker and adoption, `fightbox-steam-audio/src/reflection_worker.rs`, `reflection_adoption.rs`, `multi_source.rs` | one job, one result, forced sources and revisions, acknowledgements | submit, poll, drop; adopt round robin | simulation worker, audio thread |
| Live input ring, `fightbox-runtime/src/live_input.rs` | two counters, tagged samples, drift state | push, pop, discard | capture callback, audio callback |
| Quality governor, `fightbox-steam-audio/src/governor.rs` | timing windows, tier, lockout | observe, promote, demote | simulation |

Behaviours that are hard here, with the line where each bites, are under
`hazards` in `PROJECT.json`.  In short: lock-free exchanges that race (snapshot,
handoff, lifecycle bytes); a control thread whose picture of the audio thread
is always old; owned graphs whose destructor must run on the control thread and
whose native handles belong to a simulation kept elsewhere; loaders that answer
after they were given up; reservations held across other calls; deadlines that
fall exactly on the current frame.

What makes each component correct:

- snapshot: no slot is written while it is read; reads are whole, monotone,
  and stale only after as many lost races as the documentation admits; publish
  is bounded; the reader catches up.
- handoff: exclusive access to the cell; each value has one owner at any time.
- neutral swap: each graph has one owner; admission only when nothing is in
  transit; a simulation outlives its graph; each audible world is driven; the
  lifecycle shown to the host goes through its stages in order; every swap ends.
- cell streaming: two worlds at most; memory limits; the resident payload is that
  of its cell; coarse fallback whenever the requested cell is not on its way.
- macro events: one reservation at a time; a role is not stolen while it
  sounds; scheduler and ingress agree to the frame; an event starts once.
- spatial session: preparation and first callback never hold the render graph
  together; what a callback may claim was prepared with the newest control
  truth; a block sounds like one update, and one racing update does not silence it.
- live input: a delivered frame is whole, in order and delivered once; every
  lost frame is counted; playback never clicks and always starts again.
- reflection lane: an impulse response is heard with the metadata that describes
  it; a jump is never forgotten; the newest one is heard in the end; stop ends.
- macro bridge: a commit that was validated cannot fail after its direct pass;
  every committed event is answered exactly once and its answer can be
  finalized; a program moves on only with a block that was rendered; a committed
  token is always cleared.

## 2. Modules

| Module | Models | Checked by | Proofs |
|---|---|---|---|
| `SnapshotChannel` | snapshot.rs at the grain of its atomic accesses | `snapshot_channel` | `SnapshotChannel_proofs` |
| `HandoffSlot` | world_swap.rs at the same grain | `handoff_slot` | `NeutralSwap_proofs`, last section |
| `NeutralSwap` | the two threads of the neutral swap in linked.rs | `neutral_swap` | `NeutralSwap_proofs` |
| `CellStreaming` | CellStreamManager and its loaders | `cell_streaming` | `CellStreaming_proofs` |
| `MacroScheduler` | macro_transport.rs under ingress.rs | `macro_scheduler`, `stale_discard` | `MacroScheduler_proofs` |
| `MacroBridge` | the macro calls of fightbox-ffi/src/lib.rs, with macro_ingress.rs | `macro_bridge`, `rejected_means_missed`, `driven_by_overlay` | `MacroBridge_proofs` |
| `LiveInput` | live_input.rs: the ring access by access, and AdaptiveInput | `live_input` | `LiveInput_proofs` |
| `SpatialSession` | the spatial calls of fightbox-ffi/src/lib.rs, with what render.rs and multi_source.rs do for them | `spatial_session` | `SpatialSession_proofs` |
| `ReflectionPipeline` | simulation loop (workers.rs), reflection thread (reflection_worker.rs), scheduling and adoption (multi_source.rs, reflection_adoption.rs) | `reflection_pipeline` | `ReflectionPipeline_proofs` |
| `LatestValue`, `OneSlot`, `WorldAuthority`, `RoleStage`, `LossyStream` | abstract specifications | refinement properties of the runs above | refinement theorems |

Five abstract specifications say what a component promises; each detailed
module names its refinement mapping and has the abstract `Spec` as a property:

- `LatestValue`, a register: publish appends, observe takes the latest whole.
  Implemented by `SnapshotChannel`.
- `OneSlot`, a box with put, take and release.  Implemented by `HandoffSlot`,
  and used as the two slots of `NeutralSwap` and as the acknowledgement mailbox
  of `MacroBridge`: they compose the proven abstraction instead of the slot's
  five states.
- `WorldAuthority`: one active world, and one that is next or one that is old,
  never both (fightbox-world/FORMAT.md).  Implemented twice: by the cell
  manager, which decides, and by the neutral swap, which carries it out between
  two threads.
- `RoleStage`: events wait, start together, have their role to themselves, are
  over.  Implemented by `MacroScheduler` through reservations.
- `LossyStream`: frames are offered in order, and each one delivered is whole and
  newer than every one before it.  Implemented by `LiveInput` with tags that
  repeat.

`SpatialSession` reads and writes its two publications as registers of a latest
value, which is what `SnapshotChannel` is proved to implement.

`MacroBridge` composes `MacroScheduler` itself: its control actions are the
actions of that module, at the frame each call goes by (`Scheduler(now)`), joined
with what the bridge does around them.

Modules named `MC...` fix constants; definitions named in a comment "Fault:"
are the bugs that the properties are tried against (`mutants`), and no
next-state relation uses them.

## 3. How the models correspond to the code

**SnapshotChannel.**  `state` is the packed word, `slot` the three cells with a
payload of two words so that a torn read is a state.  `publish` is BeginPublish
(load), WriteLow and WriteHigh (the plain write), PublishWon/PublishLost (the
exchange).  `read` is BeginRead, ReadCurrent/ReadNewer (load), ReadWon/ReadLost,
CopyLow and CopyHigh.  `floor` is a history variable.  The orders Acquire and
Release are taken as sequential consistency: what they forbid beyond that is
not examined.

**HandoffSlot.**  Exchange, cell access and final store are three steps of each
end.  `cell` keeps the stale bytes of a value that was moved out and
`initialized` says who owns them, as in the memory of the program.  Either end
may be dropped between calls; the last drop runs `Drop for Shared`.

**NeutralSwap.**  A generation is a simulation and its render graph.  The
control thread's every public call first runs `collect_retired` (LoadLifecycle,
PopRetired, DropRetired, StoreIdle) and then its own body (Tick, CollectOnly,
PrepareWorld, SwapPreparedWorld and the steps of `offer_prepared`).  The audio
thread's block is FlushRetirement, AdoptAtBlockBoundary, PopPrepared,
TakePrepared, StoreTransition, one of the Render actions, and the steps of
`finish_retirement`.  Every load and store of the lifecycle byte is a step, and
so is each end of a pop.  What one thread does between them touches nothing that
the other reads, and is joined to the step before it.  A block may be refused at
any time (RenderFails).  When a tail ends is a free choice: `tailRemaining`.

**CellStreaming.**  Calls of the manager are actions; a call that returns an
error changes nothing and is a step only if it consumes a loader's result.
`jobs` are the loaders that run: FailPrepare may leave its job in there, so that
its result comes later.  Memory is a sum of `OtherBytes` and the resident worlds.

**MacroScheduler.**  `queue` is the set of occupied slots, `voices` the
scheduler's, `tails` the ingress's; `batches` remembers every reservation that
was ever handed out, because the host holds copies and may commit or discard any
of them.  The order inside a batch and the id index are left out.

**MacroBridge.**  Every `fb_session_*` call of the control thread is one action,
except two.  `update_control_frame_macro_v3` is BeginCommit (load the block
clock, validate, build the provisional commands), CommitDirectRuns or
CommitDirectFails (the direct pass publishes its generation, or nothing), and
CommitAndPublish (scheduler, overlay, mailbox).  `poll_macro_ack_v3` is PollAck
and PollReturns, because the mailbox is free for the callback only after it has
been read.  The callback is RenderBegin (flush, observe the generation),
StageBlock (take the commands, accept or reject, stage requests), RenderSpatial
and one of the two ends; an end that asks for a commit and is refused does what a
discard does.  UpdateControl is each of the other control updates; the set of
Steam-active macro sources it leaves in `control.update` is `backend`.  A
command carries its frames, token and generation.  The local leg, or the echo
tail, is any delay of `LocalDelays`; a role's command is detailed or fallback
freely.  `clock` is both the block clock and the time the host knows.

**LiveInput.**  `push` is PushCheck (load of `read`), PushLeft, PushRight (the
two word stores) and PushPublish; `pop` is PopBegin or PopEmpty (load of
`written`), LoadLeft, LoadRight and PopFrame or PopRaced.  A word holds the whole
frame number, so that a torn pair can be seen; the code, and TagsMatch, look at
the low bits only (2^32 there, 8 here).  WithinTagCycle is the one assumption on
speed: the producer does not write 2^32 frames between two loads of one pop.
AdaptiveInput is `begin_block` (BeginBlock), and `read_frame` branch by branch:
PlayFade, PlaySilence, StartPriming with Discard and its two pops, and Output with
as many pops as the phase moves past.  A sample is the gain it is played with;
FullGain is FadeFrames squared because a fade may start inside a recovery ramp.

**SpatialSession.**  `word` is `SpatialLifecycleState.packed`; each load and each
exchange of it is a step (NoteWon/NoteLost, Examine, RevokeWon/RevokeLost,
ClaimLoad, ClaimWon/ClaimLost, FinishWon, UndoWon, FinishLost).  `truth` counts the
changes of `control.update`; every publication carries the truth it was made
from, so that a block that mixes two can be seen.  An update is note, Apply,
UpdateDirect (the backend publishes), UpdatePropagation (the runtime's snapshot),
UpdateIndirect; a preparation is Examine, TakeGraph, PrepareSimulation,
PreparePropagation, PrimeGraph, MarkPrepared; a block is RenderEnter, ClaimLoad,
ReadPropagation, Correlate, and the end of a first render.  WindowAfter and
Resolved are `snapshot_for_direct_sequence`.  A block that the caller got wrong or a
pass that fails is a Fault, of which there are MaxFaults.  Vendor errors after
correlation, world swaps and the macro bridge are left out.

**ReflectionPipeline.**  Three threads.  The loop wakes for any set of due passes
(Wake), runs them in the code's order (DirectPass, then ReflectionPass or
DeferReflections), and leaves when stopped (Leave, Join).  The reflection thread
is Receive, RunReflections for each source, FinishJob or FailJob, Send, Exit.  The
callback is Block (adoption is chosen and the snapshot read), Adopt (the vendor
takes the response out of its mailbox) and Acknowledge.  `mail` is the vendor's
mailbox, modelled from the comment and the code at `multi_source.rs:1075-1085`: it
drops a response while the last one is unread.  The pathing pass is left out, of
this lane it only harvests; sources share no responses and have divisors of 1;
only `MultiSourceRenderGraph` adopts asynchronously, the neutral graph does not.
Initially every source is forced, as after enabling the worker (6317-6321).

## 4. Runs

| Run | Bounds | Distinct states | Why that is enough |
|---|---|---|---|
| `snapshot_channel` | 3 attempts (as in the code), 7 publications | 19 293 | the reader can lose every race of one read and of the next; each slot plays each part more than once |
| `handoff_slot` | 4 values | 688 | each way of publishing follows each other, after the slot went once around; both ends dropped at any moment |
| `neutral_swap` | 4 worlds: warmup 0, below the cap, cut to the cap (2 here, 64 in the code); fade of 8 blocks as in the code | 56 194 | three swaps in a row, so that what a swap leaves behind meets the next one and the one after |
| `cell_streaming` | 4 cells, 4 tickets, sizes in units of 64 MiB with the default limits, an estimate on either side of each limit, one that overflows | 51 963 | active, retiring and two competing candidates; a late answer finds each state of the manager |
| `macro_scheduler` | 4 events, 2 roles, clock to 4, queue of 3 | 302 856 | a batch of two, a rival of the same frame order before and after it, a deadline that meets the next start, a full queue |
| `macro_bridge` | 3 events, 2 roles, blocks of 2 frames, clock to 8, 2 tokens, 2 direct generations, local delay 1, queue of 2 | 223 713 | a batch of two with ends on and off a block boundary, detailed and fallback; a second token for a role of the first; a commit that the callback meets before, within and after its own block; a direct pass between commit and callback |
| `live_input` | ring of 4, tags of 8, 10 frames, target 2, excess 1, fades of 2, at most 2 frames a sample | 204 947 | the producer laps the consumer twice, once between any two of its loads; the tags wrap; starvation and resynchronisation meet each point of a fade |
| `spatial_session` | one source and a listener, 4 updates, 2 preparations, 2 failures | 254 479 | an update and a repeated preparation meet each step of a first render; two updates race one block after a third, so that a generation is skipped |
| `reflection_pipeline` | 2 sources, 1 update with a listener jump and a wake-up, cadence 2, sequences modulo 2, 1 failed job | 170 077 | the jump falls before, within and after a job; the sequence numbers wrap at once, so only the acknowledgement protects; a failure leaves each set of responses unread |
| `rejected_means_missed` | one token, local delay 3, longer than a block | violation | see section 6 |
| `driven_by_overlay` | as `macro_bridge` | violation | see section 6 |
| `stale_discard` | as `macro_scheduler` | violation | see section 6 |

Deadlock is checked in every run except `handoff_slot`, where both ends may be
dropped and nothing is left to happen, and `spatial_session`, where the host may
stop calling.  (`live_input` stops producing at its bound, but its output device
goes on; `reflection_pipeline` ends in Finished, after the join.)

`snapshot_channel` shows that no read is torn (CompleteReads), a publish loses at most one
exchange (AtMostOneRetry), a read is stale only after three publications during
that read (StaleOnlyAfterRaces), and the reader catches up when publishing
pauses (EventuallyCurrent).  `handoff_slot`: exclusive cell and single ownership.
`neutral_swap`: the list in section 1, against faults such as a collection that
does not look at the lifecycle.  `cell_streaming`: limits, payloads and the
fallback flag.  `macro_scheduler`: one batch, agreement of tails and voices,
events that start once and have their role to themselves.  `macro_bridge`: the three `expect`s after the direct
pass cannot fire (CommitCannotFail), each event of a committed token is with
exactly one of mailbox, callback and acknowledgement path until it is answered
(AwaitedOnce), nothing can refuse its finalization (FinalizeAccepted), its program
moves only with valid blocks (PlayedWhenRendered), and the token is cleared in the
end (CommittedSettles).  `live_input`: no frame is put together from two laps or
played out of order (ImplementsStream), no loss escapes the overrun counter
(LossesCounted), gain moves by one step of a ramp at most (GainMovesInSteps), and
input that comes back is played (PlaysAgain).  `spatial_session`: who holds the
render graph is decided by the lifecycle word alone (RenderGraphExclusive), a
claimable preparation is never older than the control truth (PreparedIsCurrent), a
block sounds like one update (BlockIsOneTruth), falls silent only if two passes
finished since the last one heard (OneUpdateIsAbsorbed), and recovers
(SilenceEnds).  `reflection_pipeline`: DescribedIr, JumpForcesPass, StopCompletes and
CurrentIrIsHeard are the four promises of section 1.

Every module that models code has a type invariant, `TypeOK` (`HandoffTypeOK` in
`HandoffSlot`), without a run of its
own: section 5 proves all of them.  Four further invariants are proved only: no slot
is written while it is read (`SnapshotChannel!SlotExclusion`), a role that sounds is
not given away (`MacroScheduler!RolesNotStolen`), the channels between loop and
worker never meet a full one (`ReflectionPipeline_proofs!ChannelsSuffice`), and each
mailbox holds what its metadata says (`ReflectionPipeline_proofs!Mailed`).

### Fairness

`SnapshotChannel!FairSpec` assumes only that the reader keeps running: `read`
never waits, and the writer may stop for ever, in the middle of a publish as
well.  `NeutralSwap!FairSpec` assumes weak fairness of each thread (the device
calls the callback, the worker ticks), and strong fairness of a rendered warmup
block, a rendered faded block and the end of a tail: a graph that refuses blocks
now and then succeeds now and then.  The end of a tail is justified by
`multi_source.rs`, where tails have deadline frames (2949-3060, 5723-5752,
5862-5895) that rendering moves past.  `MacroBridge!FairSpec`: the device goes on
calling the callback and validly rendered blocks recur, a control call that
began returns, and the host polls and finalizes again and again while a token is
committed, as the Swift host does (FightboxMacroLifecycleCoordinator.swift, 269
and 304, under `src/platforms/ios`); whether blocks are committed or discarded is
left open.  `LiveInput!FairSpec`: the output device goes on calling; the capture
device may stop for ever.  `SpatialSession!FairSpec`: a control call that has begun
returns, and the device goes on calling; no further call is assumed of the host.
`ReflectionPipeline!FairSpec`: the threads run, the device goes on calling, and each
of the two passes is due again and again (strong fairness of a wake-up that
includes it), because deadlines are absolute times that are moved one period on
each time they have been met (workers.rs, 226-246 and 299-302).  No fairness is put on a decision of
the host: nobody has to swap, update or stop.

## 5. Proofs

For every value of the constants, under the assumptions named in each module:

| Theorem | Says |
|---|---|
| `SnapshotChannel_proofs`: TypeCorrect, Exclusion, NoTornRead, BoundedPublish, BoundedStaleness, Refinement | the invariants and StaleOnlyAfterRaces hold and the channel implements LatestValue |
| `NeutralSwap_proofs`: TypeCorrect, Admission, NoBacklog, SimulationSafety, Driving, OrderedLifecycle, SingleOwnership, Refinement | any set of worlds, warmups and fades |
| `NeutralSwap_proofs`: SlotTypeCorrect, SlotExclusion, SlotOwnership, SlotRefinement | the same of `HandoffSlot`, the slots the swap hands its graphs through: any set of values |
| `CellStreaming_proofs`: TypeCorrect, MemoryBudget, NoForeignPayload, FallbackCorrect, Refinement | any sizes and limits |
| `MacroScheduler_proofs`: TypeCorrect, SingleReservation, SharedDeadlines, RoleExclusion, Refinement | any events, roles and frames |
| `SpatialSession_proofs`: TypeCorrect, GraphExclusion, PreparationCurrent, BlockCoherent, UpdateAbsorbed | any sources, any number of updates, preparations and failures |
| `LiveInput_proofs`: TypeCorrect, RingCorrect, SteadyGain, LossesAccounted, Refinement | any capacity, any tag width that is a multiple of it, any target, fade and number of frames |
| `ReflectionPipeline_proofs`: TypeCorrect, ChannelsNeverFull, MailboxesAsPublished, HeardIsDescribed, JumpsAreForced | any sources, any number of direct updates, any failures of jobs |
| `MacroBridge_proofs`: TypeCorrect, CommitNeverFails, AwaitedExactlyOnce, FinalizeNeverRefused, PlayedOnlyWhenRendered | any events and roles, any frames and block size, any interleaving and failure of the calls |

Each file has an inductive invariant, a lemma per action (or per group of them)
that the invariant is preserved, and the theorems as corollaries.

- *Snapshot.*  What the writer believes may be wrong in one way only: the
  reader has moved its mark to the published slot (WriterView).  From this the
  slot being written is free (WriterSlot), published and held slots are complete
  (HeldSlots), and a lost race of the reader is a publication of the writer
  (Races), which is what bounds staleness.
- *Handoff.*  SlotProtocol ties the state byte to where each end is; SingleOwner
  restates the ownership property over a fixed set of places.
- *Neutral swap.*  None of the properties is inductive.  SwapProtocol says, for
  each value of the lifecycle byte, where each thread can be and which slots and
  fields are occupied.  WorldLedger says which generation is where, and follows
  from it.  That retirement finds the slot free (NoBacklog) is a consequence, so
  the backlog in the code is a precaution that is never used; no run checks it
  separately.
- *Cell streaming.*  Residency (a prepared neighbor and a retiring tail exclude
  each other) and Tickets (a loader that bears the neighbor's ticket loads the
  neighbor's cell) strengthen the checked invariants.
- *Macro scheduler.*  OneSlotPerEvent lets an event stand for its slot; OneBatch
  and TailsMatchVoices are inductive with it.
- *Spatial session.*  Four invariants, each resting on those before it.
  LifecycleProtocol says where each thread can be for each value of the lifecycle
  word: the callback's places and the preparation's go with different values, which
  is GraphExclusion.  PreparationProtocol extends PreparedIsCurrent to a first render
  that has claimed and may still give back, as long as the epoch has not moved.
  Coherence says that a direct sequence names one update in all five places a
  generation is kept; a block that finds its sequence therefore finds its update.
  Absorption bounds the distance between the window and the block heard last.
- *Live input.*  Words: a slot's word is at least the number of the last frame that
  belongs there and at most the frame being written.  Pops: a pop therefore loads
  words less than one cycle of the tags ahead of its position, among which a tag is
  unique.  The assumption on speed, WithinTagCycle, is used exactly there.  Counts: the
  overrun counter is ahead of the loss by what the producer is beyond the ring.
  Playback: the gain is the one its fade or recovery ramp gives, so that a ramp may
  begin anywhere in another.
- *Reflection pipeline.*  DescribedIr is about two ways that never meet: the response
  goes through a mailbox that drops what comes while the last one is unread, its
  metadata through the publication.  OneJob: jobs, worker and results together hold
  at most one job, and none unless the lane is busy.  Turns: a job is under way for a
  source only while the audio has acknowledged its published sequence, and what is
  acknowledged is adopted; so mailbox and metadata are used in turns.  Mailed says
  what a mailbox holds in each turn, and Reading says that the metadata a block
  read is still the one published, because nothing may replace it before the
  acknowledgement.  JumpForcesPass needs Revised: the lane's revision of a source is
  never ahead of the motion, the revision a job took is never ahead of the lane's,
  and if the two are equal the source has not jumped since.
- *Macro bridge.*  The scheduler's own theorems are about its own clock; the
  bridge goes by another frame in each call, so what is needed of queue, voices and
  tails is proved anew.  Batched: the events of a reservation share a
  frame and have different roles.  Overlaid and InCall: which variable is occupied in
  which state of the reservation and at which step of a call.  Tagged: every command
  and acknowledgement, wherever it is, is of the token in progress and sits at its
  event's own role, so that nothing of an old token can be met.  With it OneOwner, which says
  of each event in which of the six places it is, moves with each step, and is
  AwaitedOnce.  Kept is the part of CommitCannotFail that steps preserve by
  themselves; that the commit's step is at its place then follows with InCall.  Matched
  says that voice and tail name the committed event until finalization.  Timed orders
  start, next frame, end and deadline of a program, from which PlayedWhenRendered
  follows.  That the flush of acknowledgements finds a first waiting role is the
  one use of well-founded induction.

Assumptions worth naming: the limits of the cell manager lie below the largest
u64 (at the largest, a saturated sum would compare as admissible), memory outside
the worlds stays as sampled, and tickets do not wrap.

Only model-checked: the liveness properties EventuallyCurrent, SwapSettles,
CommittedSettles, PlaysAgain, SilenceEnds, StopCompletes and CurrentIrIsHeard:
fairness and ENABLED are outside what the prover handles.  Every invariant and every
action property that a run checks is a theorem.  Nothing modelled so far
needs induction over data or recursion.

## 6. Disagreement between code and documentation

`stale_discard`.  The comment of `discard_reserved`
(`fightbox-runtime/src/macro_transport.rs:889`) promises that repeating a discard
while its records remain queued is idempotent.  The discard finds its slots by
record and not by reservation.  If the records have been reserved again in the
meantime, together with another event, the repeated discard un-reserves part of
the new batch, which can then no longer be committed.  The FFI cannot get there:
it compares the transaction's token before it discards (`fightbox-ffi/src/lib.rs`,
2110-2127).  A direct user of the ingress can.

`rejected_means_missed`.  TerminalRejected is documented as "Permanent
missed/stale rejection" (`fightbox-steam-audio/src/macro_ingress.rs:619`).  The
begin call rejects every active role whose cursor lies before the block
(`lib.rs:2620`).  The cursor of a program that has been played to its end stays
there while the role waits for its tail deadline.  If the tail, which is the local
leg of a detailed event or its echo, lasts beyond the block that follows the
program, the role is rejected at the next begin: its route is cleared, the tail
is cut and the host is told the event was missed.

`driven_by_overlay`.  `overlay_backend_update` is documented to overwrite the
engine's sources "on every backend publication, including listener-only updates"
(`macro_ingress.rs:820`).  `fb_session_update_listener` does not call it
(`lib.rs:3015`), so it drives the backend with whatever the last control frame or
source update left there: the provisional sources of a commit that failed and was
discarded, or the source of an event that has been finalized.

Read while modelling, and not checked by a run:

- `fb_session_macro_render_begin_v3` and `_end_v3` borrow the render half on the
  audio thread (`lib.rs:2518`, 2724) without looking at the lifecycle word.  The
  comment of the preparation (`lib.rs:1041`) has lifecycle exclusion make that half
  uniquely the control thread's.  For the begin and end calls only the host's
  discipline does.
- `LiveInputTelemetry.overruns` is documented as the oldest frames discarded when
  the ring was full (`live_input.rs:59`).  The producer counts from a `read` it loaded
  before; a frame that the consumer takes meanwhile is counted although it was
  delivered.  LossesCounted therefore says that no loss escapes the counter, and not
  that they are equal.  `underruns` (line 57) also counts a pop that lost the race
  against an overwrite.
- `SimulationCadences` promises a bound on the distance between published responses
  (`workers.rs:18`).  The loop resets the displacement after each reflection pass
  (`workers.rs:298`), also after one that submitted nothing because the last
  responses were not acknowledged yet.
- `run_reflections_for_realtime_prepare` returns Ok without a pass while any response
  is unacknowledged (`multi_source.rs:976`), although the barrier that calls it is
  documented to publish exact current reflection truth (`multi_source.rs:991`).
- A reflection job that fails after some sources were computed leaves their
  responses in the vendor's mailboxes, where they will be adopted under the metadata of
  a later job; the comment at `multi_source.rs:1076` has no later job overtake.
  DescribedIr says where this can happen (`stray`), and CurrentIrIsHeard that it is
  over by a later pass.
- The first block after a preparation may be silenced by a single racing update:
  preparation reads the publication but leaves the window where it was.
  OneUpdateIsAbsorbed begins at the first block that was heard.

## 7. Left out, and why

- `offer_prepared` exchanges the lifecycle from IDLE although the wrapper has
  already refused a swap while its own `retiring` is set.  The model keeps both
  checks.  The second is redundant under the first.
- A caller that drops a prepared world instead of offering it is left out: the
  world would simply stay a candidate.
- Device I/O, signal processing, native calls into Steam Audio, offline packages,
  measurement tools and host user interfaces: their correctness is numerical or
  external.  What the swap relies on (a tail ends; a block may be refused) is an
  assumption of its model.
- `SpatialSession`: sessions with the macro bridge or a world swap, vendor errors
  after correlation, and the payload of pathing and reflections, which publish under
  the direct sequence they find.
- `ReflectionPipeline`: the pathing pass, shared responses, divisors other than 1,
  displacement thresholds, and the synchronous lane.
- `LiveInput`: the arithmetic of the drift controller (its output is any number of
  frames a sample up to a bound), sample formats and the telemetry reader.
- The binaural world swap (`linked.rs:1572-1945`): several graphs are alive at once,
  active, retiring, prepared and waiting for collection, and unlike in the neutral swap
  the retired slot can be full, so that its backlog is needed.  It is in the plan.
- The quality governor and the realtime clock: thresholds over timing windows, of
  which the order of decisions is worth a model and the arithmetic is not.
- Weak memory: see section 3.

## 8. Plan

Written in this order: snapshot channel, handoff slot, neutral swap, cell
streaming, macro scheduler, macro bridge, live input, spatial session, reflection
pipeline.  Next:

1. `BinauralSwap`: several retired graphs on `OneSlot`, and the delivery word.
2. Macro bridge and spatial session as one module, where the lifecycle word and the
   bridge's own exclusion meet.
3. The governor's promotion and lockout; pinning of a tail's cell authority;
   the id index of the queue as a pure algorithm.
