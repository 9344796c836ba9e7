--------------------------- MODULE SpatialSession ---------------------------
(***************************************************************************)
(* A neutral session of fightbox-ffi/src/lib.rs between its one control    *)
(* thread and its one audio thread: the packed lifecycle word that decides *)
(* which of them may touch the render graph, and the two publications that *)
(* a block must read as one.                                               *)
(*                                                                         *)
(* A control update runs the direct pass, whose result the Steam backend   *)
(* publishes under a new direct sequence, and only then publishes the      *)
(* runtime's propagation snapshot with the same number.  A block reads     *)
(* them in the opposite order and resolves the difference with a window of *)
(* two generations (multi_source.rs).  Each publication is a register that *)
(* holds the latest value, which is what SnapshotChannel implements.       *)
(*                                                                         *)
(* Left out: sessions with the macro bridge, world swaps, the optional     *)
(* passes' payload (they publish under the direct sequence they find).     *)
(***************************************************************************)
EXTENDS Integers

CONSTANTS
  Sources,     \* the session's sources
  Listener,    \* the listener, which is updated like a source
  MaxUpdates,  \* bound: control updates
  MaxPrepares, \* bound: calls of prepare
  MaxFaults    \* bound: passes that fail and blocks the caller got wrong

ASSUME SpatialSessionAssumption ==
  /\ Sources # {} /\ Listener \notin Sources
  /\ MaxUpdates \in Nat /\ MaxPrepares \in Nat /\ MaxFaults \in Nat

Lifecycles == {"collecting", "bound_unprepared", "prepared_not_started",
               "starting", "running"}

Inputs == Sources \cup {Listener}

NoEpoch == -1
NoGeneration == [direct |-> -1, truth |-> -1]

VARIABLES
  word,        \* SpatialLifecycleState.packed
  shaped,      \* sources whose shape is configured
  published,   \* listener_published and source_published
  truth,       \* how often control.update has changed
  backend,     \* the Steam backend's latest publication
  propagation, \* the runtime's latest propagation snapshot
  graph,       \* prepared_for_realtime, and the truth it was prepared with
  window,      \* correlation_current and correlation_previous
  control,     \* where the control call is
  cseen,       \* the word it has loaded
  updating,    \* the inputs this update carries
  audio,       \* where the render call is
  aseen,       \* the word it has loaded
  claimed,     \* first_render_epoch
  request,     \* the propagation snapshot this block read
  block,       \* the last block: what it was rendered from
  rendered,    \* history: sequence of the last block that was not silent
  prepares,    \* calls of prepare so far
  faults       \* failures so far

controlVars == <<shaped, published, truth, backend, propagation,
                 control, cseen, updating, prepares>>
audioVars == <<window, audio, aseen, claimed, request, block, rendered>>
vars == <<word, shaped, published, truth, backend, propagation, graph, window,
          control, cseen, updating, audio, aseen, claimed, request, block,
          rendered, prepares, faults>>

Generation(d, t) == [direct |-> d, truth |-> t]

Init ==
  /\ word = [lifecycle |-> "collecting", epoch |-> 0]
  /\ shaped = {} /\ published = {}
  /\ truth = 0
  /\ backend = Generation(0, 0)
  /\ propagation = Generation(0, 0)
  /\ graph = [prepared |-> FALSE, truth |-> 0]
  /\ window = [current |-> backend, previous |-> NoGeneration]
  /\ control = "idle" /\ cseen = word /\ updating = {}
  /\ audio = "idle" /\ aseen = word /\ claimed = NoEpoch
  /\ request = propagation
  /\ block = [kind |-> "none", motion |-> 0, runtime |-> 0]
  /\ rendered = -1
  /\ prepares = 0 /\ faults = 0

Fault == faults < MaxFaults /\ faults' = faults + 1

-----------------------------------------------------------------------------
(* Control thread: configure_spatial_source                                *)

(* The shape that completes the set builds the binding; a failed build     *)
(* takes the shape back.                                                   *)
Configure(s) ==
  /\ control = "idle"
  /\ word.lifecycle = "collecting"
  /\ s \notin shaped
  /\ shaped' = shaped \cup {s}
  /\ word' = [word EXCEPT !.lifecycle =
                IF shaped' = Sources THEN "bound_unprepared" ELSE @]
  /\ UNCHANGED <<published, truth, backend, propagation, graph, control, cseen,
                 updating, prepares, faults, audioVars>>

-----------------------------------------------------------------------------
(* Control thread: fb_session_update_listener, fb_session_update_source    *)
(* and the batched commit_spatial_control_frame                            *)

BeginUpdate(changed) ==
  /\ control = "idle"
  /\ word.lifecycle # "collecting"
  /\ truth < MaxUpdates
  /\ control' = "note" /\ cseen' = word
  /\ updating' = changed
  /\ UNCHANGED <<word, shaped, published, truth, backend, propagation, graph,
                 prepares, faults, audioVars>>

(* note_control_update: a preparation that no callback has used is revoked *)
(* and the epoch moves.                                                    *)
Noted(w) ==
  [lifecycle |-> IF w.lifecycle = "prepared_not_started"
                 THEN "bound_unprepared" ELSE w.lifecycle,
   epoch |-> w.epoch + 1]

NoteWon ==
  /\ control = "note"
  /\ word = cseen
  /\ word' = Noted(cseen)
  /\ control' = "apply"
  /\ UNCHANGED <<shaped, published, truth, backend, propagation, graph, cseen,
                 updating, prepares, faults, audioVars>>

NoteLost ==
  /\ control = "note"
  /\ word # cseen
  /\ cseen' = word
  /\ UNCHANGED <<word, shaped, published, truth, backend, propagation, graph,
                 control, updating, prepares, faults, audioVars>>

Apply ==
  /\ control = "apply"
  /\ truth' = truth + 1
  /\ control' = "direct"
  /\ UNCHANGED <<word, shaped, published, backend, propagation, graph, cseen,
                 updating, prepares, faults, audioVars>>

(* run_direct: the backend publishes the pass under the next sequence.     *)
DirectPass ==
  /\ backend' = Generation(backend.direct + 1, truth)

UpdateDirect ==
  /\ control = "direct"
  /\ \/ DirectPass /\ control' = "propagate" /\ UNCHANGED faults
     \/ Fault /\ control' = "idle" /\ UNCHANGED backend
  /\ UNCHANGED <<word, shaped, published, truth, propagation, graph, cseen,
                 updating, prepares, audioVars>>

(* The propagation snapshot carries the sequence of that pass.             *)
PublishPropagation == propagation' = Generation(backend.direct, truth)

UpdatePropagation ==
  /\ control = "propagate"
  /\ PublishPropagation
  /\ control' = "indirect"
  /\ UNCHANGED <<word, shaped, published, truth, backend, graph, cseen, updating,
                 prepares, faults, audioVars>>

(* Every fourth update also runs pathing and every twelfth reflections;    *)
(* only an update whose passes all succeed counts as published.            *)
UpdateIndirect ==
  /\ control = "indirect"
  /\ \/ published' = published \cup updating /\ UNCHANGED faults
     \/ Fault /\ UNCHANGED published
  /\ control' = "idle"
  /\ UNCHANGED <<word, shaped, truth, backend, propagation, graph, cseen,
                 updating, prepares, audioVars>>

-----------------------------------------------------------------------------
(* Control thread: fb_session_prepare_spatial_v2                           *)

BeginPrepare ==
  /\ control = "idle"
  /\ prepares < MaxPrepares
  /\ prepares' = prepares + 1
  /\ control' = "examine"
  /\ UNCHANGED <<word, shaped, published, truth, backend, propagation, graph,
                 cseen, updating, faults, audioVars>>

(* begin_prepare, its load: refused while shapes are missing and from the  *)
(* first claim on.                                                         *)
Examine ==
  /\ control = "examine"
  /\ cseen' = word
  /\ control' = CASE word.lifecycle = "bound_unprepared" -> "take"
                  [] word.lifecycle = "prepared_not_started" -> "revoke"
                  [] OTHER -> "idle"
  /\ UNCHANGED <<word, shaped, published, truth, backend, propagation, graph,
                 updating, prepares, faults, audioVars>>

(* Fault: a repeated preparation leaves the earlier one claimable.         *)
RevokeForgotten ==
  /\ control = "revoke"
  /\ word = cseen
  /\ control' = "take"
  /\ UNCHANGED <<word, shaped, published, truth, backend, propagation, graph,
                 cseen, updating, prepares, faults, audioVars>>

(* A repeat revokes the earlier preparation before any fallible work.      *)
RevokeWon ==
  /\ control = "revoke"
  /\ word = cseen
  /\ word' = [word EXCEPT !.lifecycle = "bound_unprepared"]
  /\ control' = "take"
  /\ UNCHANGED <<shaped, published, truth, backend, propagation, graph, cseen,
                 updating, prepares, faults, audioVars>>

(* The first callback moved the word meanwhile: look at it again.          *)
RevokeLost ==
  /\ control = "revoke"
  /\ word # cseen
  /\ control' = "examine"
  /\ UNCHANGED <<word, shaped, published, truth, backend, propagation, graph,
                 cseen, updating, prepares, faults, audioVars>>

(* Listener and every source must have been published; then the render     *)
(* graph is borrowed uniquely until the call is over.                      *)
TakeGraph ==
  /\ control = "take"
  /\ control' = IF published = Inputs THEN "simulate" ELSE "idle"
  /\ UNCHANGED <<word, shaped, published, truth, backend, propagation, graph,
                 cseen, updating, prepares, faults, audioVars>>

(* prepare_simulation_for_realtime: a failure of a later pass leaves the   *)
(* direct pass published.                                                  *)
PrepareSimulation ==
  /\ control = "simulate"
  /\ \/ DirectPass /\ control' = "prepare_propagate" /\ UNCHANGED faults
     \/ DirectPass /\ control' = "idle" /\ Fault
     \/ UNCHANGED backend /\ control' = "idle" /\ Fault
  /\ UNCHANGED <<word, shaped, published, truth, propagation, graph, cseen,
                 updating, prepares, audioVars>>

PreparePropagation ==
  /\ control = "prepare_propagate"
  /\ PublishPropagation
  /\ control' = "prime"
  /\ UNCHANGED <<word, shaped, published, truth, backend, graph, cseen, updating,
                 prepares, faults, audioVars>>

(* prepare_for_realtime of the graph: a failure leaves it unprepared.      *)
PrimeGraph ==
  /\ control = "prime"
  /\ \/ graph' = [prepared |-> TRUE, truth |-> truth] /\ control' = "mark" /\ UNCHANGED faults
     \/ graph' = [graph EXCEPT !.prepared = FALSE] /\ control' = "idle" /\ Fault
  /\ UNCHANGED <<word, shaped, published, truth, backend, propagation, cseen,
                 updating, prepares, audioVars>>

(* mark_prepared: nobody else moves an unprepared word.                    *)
MarkPrepared ==
  /\ control = "mark"
  /\ word' = [word EXCEPT !.lifecycle = "prepared_not_started"]
  /\ control' = "idle"
  /\ UNCHANGED <<shaped, published, truth, backend, propagation, graph, cseen,
                 updating, prepares, faults, audioVars>>

-----------------------------------------------------------------------------
(* Audio thread: fb_session_render_spatial_v2                              *)

(* The barrier before the caller's block is read.                          *)
RenderEnter ==
  /\ audio = "idle"
  /\ word.lifecycle \in {"prepared_not_started", "running"}
  /\ audio' = "claim"
  /\ claimed' = NoEpoch
  /\ UNCHANGED <<word, graph, window, aseen, request, block, rendered, faults,
                 controlVars>>

(* A block that does not validate consumes no preparation.                 *)
RenderInvalid ==
  /\ audio = "claim"
  /\ Fault
  /\ audio' = "idle"
  /\ UNCHANGED <<word, graph, window, aseen, claimed, request, block, rendered,
                 controlVars>>

(* claim_first_render, its load.                                           *)
ClaimLoad ==
  /\ audio = "claim"
  /\ aseen' = word
  /\ audio' = CASE word.lifecycle = "running" -> "process"
                [] word.lifecycle = "prepared_not_started" -> "claim_swap"
                [] OTHER -> "idle"
  /\ UNCHANGED <<word, graph, window, claimed, request, block, rendered, faults,
                 controlVars>>

ClaimWon ==
  /\ audio = "claim_swap"
  /\ word = aseen
  /\ word' = [word EXCEPT !.lifecycle = "starting"]
  /\ claimed' = aseen.epoch
  /\ audio' = "process"
  /\ UNCHANGED <<graph, window, aseen, request, block, rendered, faults, controlVars>>

ClaimLost ==
  /\ audio = "claim_swap"
  /\ word # aseen
  /\ audio' = "claim"
  /\ UNCHANGED <<word, graph, window, aseen, claimed, request, block, rendered,
                 faults, controlVars>>

(* process_spatial_block reads the propagation snapshot once.  A caller    *)
(* that omits a program the snapshot has active gets an error, and nothing *)
(* has advanced.                                                           *)
ReadPropagation ==
  /\ audio = "process"
  /\ \/ request' = propagation /\ audio' = "correlate" /\ UNCHANGED <<aseen, faults>>
     \/ /\ Fault /\ aseen' = word /\ UNCHANGED request
        /\ audio' = IF claimed = NoEpoch THEN "idle" ELSE "undo"
  /\ UNCHANGED <<word, graph, window, claimed, block, rendered, controlVars>>

(* Fault: an adjacent generation is taken over without its predecessor.    *)
WindowAfterForgetful(observed) ==
  [current |-> observed,
   previous |-> IF observed.direct = window.current.direct
                THEN window.previous ELSE NoGeneration]

(* Fault: a generation that does not follow the current one is refused.    *)
WindowAfterStrict(observed) ==
  CASE observed.direct = window.current.direct ->
         [current |-> observed, previous |-> window.previous]
    [] observed.direct = window.current.direct + 1 ->
         [current |-> observed, previous |-> window.current]
    [] OTHER -> window

(* snapshot_for_direct_sequence: the window after observing a publication. *)
(* A skipped generation clears the history.                                *)
WindowAfter(observed) ==
  [current |-> observed,
   previous |-> CASE observed.direct = window.current.direct -> window.previous
                  [] observed.direct = window.current.direct + 1 -> window.current
                  [] OTHER -> NoGeneration]

(* Fault: whatever was requested, the current generation is used.          *)
ResolvedLatest(w) == {w.current}

(* The generation of the window that the propagation snapshot names.       *)
Resolved(w) == {g \in {w.current, w.previous} : g.direct = request.direct}

Correlate ==
  /\ audio = "correlate"
  /\ window' = WindowAfter(backend)
  /\ \/ \E g \in Resolved(window') :
          /\ block' = [kind |-> "valid", motion |-> g.truth, runtime |-> request.truth]
          /\ rendered' = request.direct
     \/ /\ Resolved(window') = {}
        /\ block' = [kind |-> "silent", motion |-> 0, runtime |-> 0]
        /\ UNCHANGED rendered
  /\ aseen' = word
  /\ audio' = IF claimed = NoEpoch THEN "idle" ELSE "finish"
  /\ UNCHANGED <<word, graph, claimed, request, faults, controlVars>>

(* finish_first_render_success: also when the block was silent.            *)
FinishWon ==
  /\ audio = "finish"
  /\ word = aseen
  /\ word' = [word EXCEPT !.lifecycle = "running"]
  /\ audio' = "idle"
  /\ UNCHANGED <<graph, window, aseen, claimed, request, block, rendered, faults,
                 controlVars>>

(* Fault: the preparation is given back whatever moved since the claim.    *)
GivenBackAlways(w) == [w EXCEPT !.lifecycle = "prepared_not_started"]

(* finish_first_render_failure: the preparation is given back only if no   *)
(* update moved the epoch since the claim.                                 *)
GivenBack(w) ==
  [w EXCEPT !.lifecycle = IF w.epoch = claimed THEN "prepared_not_started"
                          ELSE "bound_unprepared"]

UndoWon ==
  /\ audio = "undo"
  /\ word = aseen
  /\ word' = GivenBack(aseen)
  /\ audio' = "idle"
  /\ UNCHANGED <<graph, window, aseen, claimed, request, block, rendered, faults,
                 controlVars>>

FinishLost ==
  /\ audio \in {"finish", "undo"}
  /\ word # aseen
  /\ aseen' = word
  /\ UNCHANGED <<word, graph, window, audio, claimed, request, block, rendered,
                 faults, controlVars>>

-----------------------------------------------------------------------------
ControlCall ==
  \/ \E s \in Sources : Configure(s)
  \/ \E i \in Inputs : BeginUpdate({i})
  \/ BeginUpdate(Inputs)
  \/ BeginPrepare

ControlStep ==
  \/ NoteWon \/ NoteLost \/ Apply
  \/ UpdateDirect \/ UpdatePropagation \/ UpdateIndirect
  \/ Examine \/ RevokeWon \/ RevokeLost \/ TakeGraph
  \/ PrepareSimulation \/ PreparePropagation \/ PrimeGraph \/ MarkPrepared

Audio ==
  \/ RenderEnter \/ RenderInvalid \/ ClaimLoad \/ ClaimWon \/ ClaimLost
  \/ ReadPropagation \/ Correlate
  \/ FinishWon \/ UndoWon \/ FinishLost

Next == ControlCall \/ ControlStep \/ Audio

Spec == Init /\ [][Next]_vars

(* A control call that has begun returns and the device keeps calling; no  *)
(* further call is assumed of the host.                                    *)
FairSpec == Spec /\ WF_vars(ControlStep) /\ WF_vars(Audio)

-----------------------------------------------------------------------------
TypeOK ==
  /\ word \in [lifecycle: Lifecycles, epoch: Nat]
  /\ shaped \subseteq Sources /\ published \subseteq Inputs /\ updating \subseteq Inputs
  /\ truth \in Nat
  /\ backend \in [direct: Nat, truth: Nat]
  /\ propagation \in [direct: Nat, truth: Nat]
  /\ request \in [direct: Nat, truth: Nat]
  /\ graph \in [prepared: BOOLEAN, truth: Nat]
  /\ window \in [current: [direct: Nat, truth: Nat],
                 previous: [direct: Nat, truth: Nat] \cup {NoGeneration}]
  /\ control \in {"idle", "note", "apply", "direct", "propagate", "indirect",
                  "examine", "revoke", "take", "simulate", "prepare_propagate",
                  "prime", "mark"}
  /\ audio \in {"idle", "claim", "claim_swap", "process", "correlate", "finish", "undo"}
  /\ cseen \in [lifecycle: Lifecycles, epoch: Nat]
  /\ aseen \in [lifecycle: Lifecycles, epoch: Nat]
  /\ claimed \in Nat \cup {NoEpoch}
  /\ block \in [kind: {"none", "valid", "silent"}, motion: Nat, runtime: Nat]
  /\ rendered \in Nat \cup {-1}
  /\ prepares \in Nat /\ faults \in Nat

ControlHoldsGraph ==
  control \in {"simulate", "prepare_propagate", "prime", "mark"}
AudioHoldsGraph == audio \in {"process", "correlate", "finish"}

(* The render graph is never borrowed by both threads, although neither    *)
(* waits for the other: preparation and first callback exclude each other  *)
(* through the lifecycle word alone.                                       *)
RenderGraphExclusive == ~(ControlHoldsGraph /\ AudioHoldsGraph)

(* A shell that a callback may claim was prepared with exactly the control *)
(* truth of this moment, whatever updates raced an earlier claim, a failed *)
(* first block or a repeated preparation.                                  *)
PreparedIsCurrent ==
  word.lifecycle = "prepared_not_started" =>
    /\ graph = [prepared |-> TRUE, truth |-> truth]
    /\ backend.truth = truth
    /\ propagation = backend
    /\ published = Inputs

(* A block that sounds uses backend results of the very update whose       *)
(* activity and listener state the runtime read, never a neighbour's.      *)
BlockIsOneTruth == block.kind = "valid" => block.motion = block.runtime

(* A block falls silent only if the control thread finished two direct     *)
(* passes since the generation heard last; one racing update is absorbed.  *)
OneUpdateIsAbsorbed ==
  [][(audio = "correlate" /\ block'.kind = "silent" /\ rendered >= 0)
       => backend.direct >= rendered + 2]_vars

(* Silence ends by itself: when the control thread comes to rest the       *)
(* window finds the two publications in step again.                        *)
SilenceEnds == block.kind = "silent" ~> block.kind = "valid"
=============================================================================
