---------------------------- MODULE NeutralSwap ----------------------------
(***************************************************************************)
(* Replacing the neutral spatial world while it plays:                     *)
(* fightbox-steam-audio/src/linked.rs, NeutralMultiSourceSimulation and    *)
(* NeutralSwapControl on the control thread, NeutralSwapRenderGraph on the *)
(* audio thread, and between them the atomic `lifecycle` and two one-slot  *)
(* handoffs, `prepared` (control to audio) and `retired` (audio to         *)
(* control).                                                               *)
(*                                                                         *)
(* A generation is one world: a simulation the control thread drives and a *)
(* render graph built over the native handles of that simulation.  The     *)
(* graph moves through the system and the simulation must be there for as  *)
(* long as the graph is.  Each load and store of `lifecycle`, and the two  *)
(* ends of a pop, are steps of their own; what one thread does between     *)
(* them touches nothing the other reads.                                   *)
(***************************************************************************)
EXTENDS Integers

CONSTANTS
  Generations,      \* the worlds that are ever built
  First,            \* the one build_neutral_swap_pair starts with
  None,             \* no generation
  RequestedWarmup,  \* pre_crossfade_warmup_blocks of each graph
  MaxWarmupBlocks,  \* NEUTRAL_SWAP_MAX_WARMUP_BLOCKS
  FadeBlocks        \* NEUTRAL_SWAP_FADE_BLOCKS

ASSUME SwapAssumption ==
  /\ First \in Generations
  /\ None \notin Generations
  /\ RequestedWarmup \in [Generations -> Nat]
  /\ MaxWarmupBlocks \in Nat
  /\ FadeBlocks \in Nat \ {0}

VARIABLES
  lifecycle,                      \* the shared AtomicU8
  preparedBox, preparedLeaving,   \* the slot `prepared`
  retiredBox, retiredLeaving,     \* the slot `retired`
  \* control thread
  cpc,          \* where the call in progress is
  task,         \* what follows the collection of a retired graph
  world,        \* the world this call prepares or swaps in
  collected,    \* the graph collect_retired has popped
  unbuilt,      \* generations no prepare_world has built
  candidates,   \* prepared worlds in the hands of the caller
  destroyed,    \* generations whose graph has been dropped
  simActive,    \* NeutralMultiSourceSimulation.active
  simRetiring,  \* NeutralMultiSourceSimulation.retiring
  driven,       \* the simulations the last update or run reached
  \* audio thread
  apc,          \* where the block is
  moved,        \* the generation between two owners in this block
  active,       \* NeutralSwapRenderGraph.active
  warming, remaining,   \* .warming and its remaining_blocks
  retiring, completed,  \* .retiring and its completed_blocks
  backlog       \* .retirement_backlog

preparedVars == <<preparedBox, preparedLeaving>>
retiredVars == <<retiredBox, retiredLeaving>>
simVars == <<simActive, simRetiring>>
controlVars == <<cpc, task, world, collected, unbuilt, candidates, destroyed,
                 simActive, simRetiring, driven>>
graphVars == <<active, warming, remaining, retiring, completed, backlog>>
audioVars == <<apc, moved, active, warming, remaining, retiring, completed,
               backlog>>
vars == <<lifecycle, preparedBox, preparedLeaving, retiredBox, retiredLeaving,
          cpc, task, world, collected, unbuilt, candidates, destroyed,
          simActive, simRetiring, driven,
          apc, moved, active, warming, remaining, retiring, completed, backlog>>

Lifecycles == {"IDLE", "PUBLISHING", "PREPARED", "TRANSITION", "TAIL_RETIRING",
               "RETIREMENT_BACKLOG", "RETIRED_PENDING"}

Prepared == INSTANCE OneSlot WITH
  Items <- Generations, Nothing <- None,
  box <- preparedBox, leaving <- preparedLeaving

Retired == INSTANCE OneSlot WITH
  Items <- Generations, Nothing <- None,
  box <- retiredBox, leaving <- retiredLeaving

Init ==
  /\ lifecycle = "IDLE"
  /\ Prepared!Init /\ Retired!Init
  /\ cpc = "idle" /\ task = "tick" /\ world = None /\ collected = None
  /\ unbuilt = Generations \ {First} /\ candidates = {} /\ destroyed = {}
  /\ simActive = First /\ simRetiring = None /\ driven = {First}
  /\ apc = "boundary" /\ moved = None
  /\ active = First
  /\ warming = None /\ remaining = 0
  /\ retiring = None /\ completed = 0
  /\ backlog = None

WarmupBlocks(g) ==
  IF RequestedWarmup[g] < MaxWarmupBlocks THEN RequestedWarmup[g]
                                          ELSE MaxWarmupBlocks

-----------------------------------------------------------------------------
(* Control thread: every call first collects what the audio thread retired *)

Call(what, g) ==
  /\ cpc = "idle"
  /\ task' = what
  /\ world' = g
  /\ cpc' = "load"
  /\ UNCHANGED <<lifecycle, preparedVars, retiredVars, collected, unbuilt,
                 candidates, destroyed, simVars, driven, audioVars>>

(* update_inputs, run_direct, run_pathing, run_reflections.                *)
CallTick == Call("tick", None)

(* collect_retired_world, prepare_simulation_for_realtime.                 *)
CallCollect == Call("collect", None)

CallPrepareWorld == \E g \in unbuilt : Call("prepare", g)

CallSwapPreparedWorld == \E g \in candidates : Call("swap", g)

(* Fault: the wrapper forgets the retiring simulation even when            *)
(* collect_retired returned false.                                         *)
LoadLifecycleForgetting ==
  /\ cpc = "load"
  /\ cpc' = IF lifecycle = "RETIRED_PENDING" THEN "pop" ELSE task
  /\ simRetiring' = IF task = "offer" THEN simRetiring ELSE None
  /\ UNCHANGED <<lifecycle, preparedVars, retiredVars, task, world, collected,
                 unbuilt, candidates, destroyed, simActive, driven, audioVars>>

(* Fault: collect_retired looks into the slot without the lifecycle.       *)
LoadLifecycleUnchecked ==
  /\ cpc = "load"
  /\ cpc' = "pop"
  /\ UNCHANGED <<lifecycle, preparedVars, retiredVars, task, world, collected,
                 unbuilt, candidates, destroyed, simVars, driven, audioVars>>

LoadLifecycle ==
  /\ cpc = "load"
  /\ cpc' = IF lifecycle = "RETIRED_PENDING" THEN "pop" ELSE task
  /\ UNCHANGED <<lifecycle, preparedVars, retiredVars, task, world, collected,
                 unbuilt, candidates, destroyed, simVars, driven, audioVars>>

PopRetired ==
  /\ cpc = "pop"
  /\ IF retiredBox = None
       THEN cpc' = task /\ UNCHANGED <<retiredVars, collected>>
       ELSE Retired!Take(retiredBox) /\ collected' = retiredBox /\ cpc' = "drop"
  /\ UNCHANGED <<lifecycle, preparedVars, task, world, unbuilt, candidates,
                 destroyed, simVars, driven, audioVars>>

DropRetired ==
  /\ cpc = "drop"
  /\ Retired!Release
  /\ destroyed' = destroyed \cup {collected}
  /\ collected' = None
  /\ cpc' = "collected"
  /\ UNCHANGED <<lifecycle, preparedVars, task, world, unbuilt, candidates,
                 simVars, driven, audioVars>>

(* Fault: the lifecycle is not given back.                                 *)
StoreIdleForgotten ==
  /\ cpc = "collected"
  /\ simRetiring' = IF task = "offer" THEN simRetiring ELSE None
  /\ cpc' = task
  /\ UNCHANGED <<lifecycle, preparedVars, retiredVars, task, world, collected,
                 unbuilt, candidates, destroyed, simActive, driven, audioVars>>

(* The collection inside offer_prepared is NeutralSwapControl's own: only  *)
(* the wrapper's drops the retiring simulation.                            *)
StoreIdle ==
  /\ cpc = "collected"
  /\ lifecycle' = "IDLE"
  /\ simRetiring' = IF task = "offer" THEN simRetiring ELSE None
  /\ cpc' = task
  /\ UNCHANGED <<preparedVars, retiredVars, task, world, collected, unbuilt,
                 candidates, destroyed, simActive, driven, audioVars>>

-----------------------------------------------------------------------------
(* Control thread: the calls themselves                                    *)

(* Fault: a world that is prepared and not yet adopted ends the input of   *)
(* the world still playing.                                                *)
AcceptsControlOnceFading == lifecycle \in {"PUBLISHING", "TRANSITION"}

(* retiring_simulation_accepts_control                                     *)
AcceptsControl == lifecycle \in {"PUBLISHING", "PREPARED", "TRANSITION"}

Return == cpc' = "idle" /\ world' = None

Tick ==
  /\ cpc = "tick"
  /\ driven' = {simActive} \cup
       (IF AcceptsControl THEN {simRetiring} \ {None} ELSE {})
  /\ Return
  /\ UNCHANGED <<lifecycle, preparedVars, retiredVars, task, collected, unbuilt,
                 candidates, destroyed, simVars, audioVars>>

CollectOnly ==
  /\ cpc = "collect"
  /\ Return
  /\ UNCHANGED <<lifecycle, preparedVars, retiredVars, task, collected, unbuilt,
                 candidates, destroyed, simVars, driven, audioVars>>

(* prepare_world_with_descriptors                                          *)
PrepareWorld ==
  /\ cpc = "prepare"
  /\ IF simRetiring = None
       THEN candidates' = candidates \cup {world} /\ unbuilt' = unbuilt \ {world}
       ELSE UNCHANGED <<candidates, unbuilt>>
  /\ Return
  /\ UNCHANGED <<lifecycle, preparedVars, retiredVars, task, collected,
                 destroyed, simVars, driven, audioVars>>

(* swap_prepared_world_recoverable up to its call of offer_prepared; a     *)
(* refused world stays with the caller.                                    *)
SwapPreparedWorld ==
  /\ cpc = "swap"
  /\ IF simRetiring = None
       THEN cpc' = "load" /\ task' = "offer" /\ UNCHANGED world
       ELSE Return /\ UNCHANGED task
  /\ UNCHANGED <<lifecycle, preparedVars, retiredVars, collected, unbuilt,
                 candidates, destroyed, simVars, driven, audioVars>>

(* The compare-exchange of offer_prepared_recoverable.                     *)
OfferPrepared ==
  /\ cpc = "offer"
  /\ IF lifecycle = "IDLE"
       THEN lifecycle' = "PUBLISHING" /\ cpc' = "ready" /\ UNCHANGED world
       ELSE Return /\ UNCHANGED lifecycle
  /\ UNCHANGED <<preparedVars, retiredVars, task, collected, unbuilt, candidates,
                 destroyed, simVars, driven, audioVars>>

PrepareForRealtime ==
  /\ cpc = "ready"
  /\ cpc' = "push"
  /\ UNCHANGED <<lifecycle, preparedVars, retiredVars, task, world, collected,
                 unbuilt, candidates, destroyed, simVars, driven, audioVars>>

PreparationFailed ==
  /\ cpc = "ready"
  /\ lifecycle' = "IDLE"
  /\ Return
  /\ UNCHANGED <<preparedVars, retiredVars, task, collected, unbuilt, candidates,
                 destroyed, simVars, driven, audioVars>>

PushPrepared ==
  /\ cpc = "push"
  /\ IF Prepared!Free
       THEN /\ Prepared!Put(world)
            /\ candidates' = candidates \ {world}
            /\ cpc' = "publish"
            /\ UNCHANGED <<lifecycle, world>>
       ELSE /\ lifecycle' = "IDLE"
            /\ Return
            /\ UNCHANGED <<preparedVars, candidates>>
  /\ UNCHANGED <<retiredVars, task, collected, unbuilt, destroyed, simVars,
                 driven, audioVars>>

StorePrepared ==
  /\ cpc = "publish"
  /\ lifecycle' = "PREPARED"
  /\ cpc' = "install"
  /\ UNCHANGED <<preparedVars, retiredVars, task, world, collected, unbuilt,
                 candidates, destroyed, simVars, driven, audioVars>>

(* offer_prepared has returned: the new simulation becomes the active one. *)
InstallSimulation ==
  /\ cpc = "install"
  /\ simRetiring' = simActive
  /\ simActive' = world
  /\ Return
  /\ UNCHANGED <<lifecycle, preparedVars, retiredVars, task, collected, unbuilt,
                 candidates, destroyed, driven, audioVars>>

-----------------------------------------------------------------------------
(* Audio thread: a block boundary                                          *)

(* retired.try_push, from the backlog or from finish_retirement.           *)
PushRetired(g, pushed, refused) ==
  IF Retired!Free
    THEN Retired!Put(g) /\ backlog' = None /\ apc' = pushed
    ELSE backlog' = g /\ apc' = refused /\ UNCHANGED retiredVars

(* flush_retirement up to its store                                        *)
FlushRetirement ==
  /\ apc = "boundary"
  /\ IF backlog = None
       THEN apc' = "adopt" /\ UNCHANGED <<retiredVars, backlog>>
       ELSE PushRetired(backlog, "flushed", "adopt")
  /\ UNCHANGED <<lifecycle, preparedVars, controlVars, moved, active, warming,
                 remaining, retiring, completed>>

StoreRetiredPending ==
  /\ apc \in {"flushed", "retired"}
  /\ lifecycle' = "RETIRED_PENDING"
  /\ apc' = IF apc = "flushed" THEN "adopt" ELSE "boundary"
  /\ UNCHANGED <<preparedVars, retiredVars, controlVars, moved, graphVars>>

(* Fault: begin_crossfade retires the graph it should have made active.    *)
BeginCrossfadeSwapped(g) ==
  /\ retiring' = g
  /\ completed' = 0
  /\ active' = active
  /\ apc' = "fade"

(* begin_crossfade up to its store                                         *)
BeginCrossfade(g) ==
  /\ retiring' = active
  /\ completed' = 0
  /\ active' = g
  /\ apc' = "fade"

(* Fault: the audio thread looks into the slot without the lifecycle.      *)
AdoptAtBlockBoundaryUnpublished ==
  /\ apc = "adopt"
  /\ IF retiring = None /\ backlog = None /\ warming # None /\ remaining = 0
       THEN BeginCrossfade(warming) /\ warming' = None
       ELSE /\ apc' = IF /\ retiring = None /\ backlog = None /\ warming = None
                         THEN "pop" ELSE "render"
            /\ UNCHANGED <<active, warming, retiring, completed>>
  /\ UNCHANGED <<lifecycle, preparedVars, retiredVars, controlVars, moved,
                 remaining, backlog>>

AdoptAtBlockBoundary ==
  /\ apc = "adopt"
  /\ IF retiring = None /\ backlog = None /\ warming # None /\ remaining = 0
       THEN BeginCrossfade(warming) /\ warming' = None
       ELSE /\ apc' = IF /\ retiring = None /\ backlog = None /\ warming = None
                         /\ lifecycle = "PREPARED"
                         THEN "pop" ELSE "render"
            /\ UNCHANGED <<active, warming, retiring, completed>>
  /\ UNCHANGED <<lifecycle, preparedVars, retiredVars, controlVars, moved,
                 remaining, backlog>>

PopPrepared ==
  /\ apc = "pop"
  /\ IF preparedBox = None
       THEN apc' = "render" /\ UNCHANGED <<preparedVars, moved>>
       ELSE Prepared!Take(preparedBox) /\ moved' = preparedBox /\ apc' = "popped"
  /\ UNCHANGED <<lifecycle, retiredVars, controlVars, graphVars>>

TakePrepared ==
  /\ apc = "popped"
  /\ Prepared!Release
  /\ moved' = None
  /\ IF WarmupBlocks(moved) = 0
       THEN BeginCrossfade(moved) /\ UNCHANGED <<warming, remaining>>
       ELSE /\ warming' = moved
            /\ remaining' = WarmupBlocks(moved)
            /\ apc' = "render"
            /\ UNCHANGED <<active, retiring, completed>>
  /\ UNCHANGED <<lifecycle, retiredVars, controlVars, backlog>>

StoreTransition ==
  /\ apc = "fade"
  /\ lifecycle' = "TRANSITION"
  /\ apc' = "render"
  /\ UNCHANGED <<preparedVars, retiredVars, controlVars, moved, graphVars>>

-----------------------------------------------------------------------------
(* Audio thread: the block.  A graph may refuse it at any time; the error  *)
(* returns before any counter moves.                                       *)

RenderFails ==
  /\ apc = "render"
  /\ apc' = "boundary"
  /\ UNCHANGED <<lifecycle, preparedVars, retiredVars, controlVars, moved,
                 graphVars>>

RenderActive ==
  /\ apc = "render"
  /\ warming = None /\ retiring = None
  /\ apc' = "boundary"
  /\ UNCHANGED <<lifecycle, preparedVars, retiredVars, controlVars, moved,
                 graphVars>>

RenderWarmup ==
  /\ apc = "render"
  /\ warming # None
  /\ remaining' = IF remaining = 0 THEN 0 ELSE remaining - 1
  /\ apc' = "boundary"
  /\ UNCHANGED <<lifecycle, preparedVars, retiredVars, controlVars, moved,
                 active, warming, retiring, completed, backlog>>

(* A faded block and finish_transition_block; at the last one the old      *)
(* graph says whether its tail is still sounding.                          *)
RenderFade(tailRemaining) ==
  /\ apc = "render"
  /\ warming = None /\ retiring # None
  /\ completed < FadeBlocks
  /\ completed' = completed + 1
  /\ apc' = IF completed + 1 < FadeBlocks THEN "boundary"
            ELSE IF tailRemaining THEN "tail" ELSE "finish"
  /\ UNCHANGED <<lifecycle, preparedVars, retiredVars, controlVars, moved,
                 active, warming, remaining, retiring, backlog>>

StoreTailRetiring ==
  /\ apc = "tail"
  /\ lifecycle' = "TAIL_RETIRING"
  /\ apc' = "boundary"
  /\ UNCHANGED <<preparedVars, retiredVars, controlVars, moved, graphVars>>

(* render_tail_only                                                        *)
RenderTail(tailRemaining) ==
  /\ apc = "render"
  /\ warming = None /\ retiring # None
  /\ completed >= FadeBlocks
  /\ apc' = IF tailRemaining THEN "boundary" ELSE "finish"
  /\ UNCHANGED <<lifecycle, preparedVars, retiredVars, controlVars, moved,
                 graphVars>>

(* Fault: finish_retirement hands over the graph and keeps it.             *)
FinishRetirementKeeping ==
  /\ apc = "finish"
  /\ lifecycle' = "RETIREMENT_BACKLOG"
  /\ moved' = retiring
  /\ apc' = "retire"
  /\ UNCHANGED <<preparedVars, retiredVars, controlVars, graphVars>>

(* finish_retirement up to the store, then its push.                       *)
FinishRetirement ==
  /\ apc = "finish"
  /\ lifecycle' = "RETIREMENT_BACKLOG"
  /\ moved' = retiring
  /\ retiring' = None
  /\ apc' = "retire"
  /\ UNCHANGED <<preparedVars, retiredVars, controlVars, active, warming,
                 remaining, completed, backlog>>

HandOverRetired ==
  /\ apc = "retire"
  /\ moved' = None
  /\ PushRetired(moved, "retired", "boundary")
  /\ UNCHANGED <<lifecycle, preparedVars, controlVars, active, warming,
                 remaining, retiring, completed>>

-----------------------------------------------------------------------------
Control ==
  \/ CallTick \/ CallCollect \/ CallPrepareWorld \/ CallSwapPreparedWorld
  \/ LoadLifecycle \/ PopRetired \/ DropRetired \/ StoreIdle
  \/ Tick \/ CollectOnly \/ PrepareWorld \/ SwapPreparedWorld \/ OfferPrepared
  \/ PrepareForRealtime \/ PreparationFailed
  \/ PushPrepared \/ StorePrepared \/ InstallSimulation

Audio ==
  \/ FlushRetirement \/ StoreRetiredPending \/ AdoptAtBlockBoundary
  \/ PopPrepared \/ TakePrepared \/ StoreTransition
  \/ RenderFails \/ RenderActive \/ RenderWarmup
  \/ \E tailRemaining \in BOOLEAN : RenderFade(tailRemaining) \/ RenderTail(tailRemaining)
  \/ StoreTailRetiring \/ FinishRetirement \/ HandOverRetired

Next == Control \/ Audio

Spec == Init /\ [][Next]_vars

(* Both threads keep running: the audio device calls the callback and the  *)
(* host's worker ticks.  A graph does not refuse every block for ever, and *)
(* its tail ends (the deadline frames of multi_source.rs).                 *)
FairSpec ==
  /\ Spec
  /\ WF_vars(Control) /\ WF_vars(Audio)
  /\ SF_vars(RenderWarmup)
  /\ SF_vars(\E tailRemaining \in BOOLEAN : RenderFade(tailRemaining))
  /\ SF_vars(RenderTail(FALSE))

-----------------------------------------------------------------------------
(* Properties                                                              *)

GenerationsOrNone == Generations \cup {None}

SlotTypes ==
  /\ preparedBox \in GenerationsOrNone /\ preparedLeaving \in BOOLEAN
  /\ retiredBox \in GenerationsOrNone /\ retiredLeaving \in BOOLEAN

ControlTypes ==
  /\ cpc \in {"idle", "load", "pop", "drop", "collected", "tick",
              "collect", "prepare", "swap", "offer", "ready", "push", "publish", "install"}
  /\ task \in {"tick", "collect", "prepare", "swap", "offer"}
  /\ world \in GenerationsOrNone
  /\ collected \in GenerationsOrNone
  /\ unbuilt \subseteq Generations
  /\ candidates \subseteq Generations
  /\ destroyed \subseteq Generations
  /\ simActive \in Generations /\ simRetiring \in GenerationsOrNone
  /\ driven \subseteq Generations

AudioTypes ==
  /\ apc \in {"boundary", "flushed", "adopt", "pop", "popped", "fade", "render",
              "tail", "finish", "retire", "retired"}
  /\ moved \in GenerationsOrNone
  /\ active \in Generations
  /\ warming \in GenerationsOrNone /\ remaining \in 0..MaxWarmupBlocks
  /\ retiring \in GenerationsOrNone /\ completed \in 0..FadeBlocks
  /\ backlog \in GenerationsOrNone

TypeOK ==
  lifecycle \in Lifecycles /\ SlotTypes /\ ControlTypes /\ AudioTypes

(* The graphs in the hands of the audio thread or on their way from or to  *)
(* it, by owner.                                                           *)
Held == [prepared  |-> preparedBox, moved     |-> moved,
         active    |-> active,      warming   |-> warming,
         retiring  |-> retiring,    backlog   |-> backlog,
         retired   |-> retiredBox,  collected |-> collected]

(* The worlds that are in none of those places.                            *)
Stored == [unbuilt |-> unbuilt, candidates |-> candidates, destroyed |-> destroyed]

Owners(g) == {p \in DOMAIN Held : Held[p] = g} \cup {s \in DOMAIN Stored : g \in Stored[s]}

(* Whole generations move: each is unbuilt, with the caller, destroyed, or *)
(* held in exactly one place, so that none is freed twice, leaked, or      *)
(* dropped where the audio thread would run the destructor.                *)
GraphOwnedOnce ==
  \A g \in Generations : \E o \in Owners(g) : Owners(g) = {o}

(* The doc of offer_prepared: "A graph is never admitted while another is  *)
(* prepared, fading, or waiting to be collected after retirement."  While  *)
(* a graph is being admitted only the active one is with the audio thread, *)
(* and that thread is not about to store the lifecycle of an earlier swap. *)
AdmittedAlone ==
  cpc \in {"ready", "push"} =>
    /\ \A p \in DOMAIN Held \ {"active"} : Held[p] = None
    /\ Prepared!Free /\ Retired!Free
    /\ apc \in {"boundary", "adopt", "render"}

(* The audio thread never finds the retired slot taken, so the backlog     *)
(* stays empty and no block boundary is skipped for it.                    *)
BacklogNeverNeeded ==
  backlog = None /\ (apc = "retire" => Retired!Free)

(* A graph reads the native handles of its own simulation: while a thread  *)
(* can still reach the graph, the control thread keeps the simulation,     *)
(* though the two learn of the swap at different moments.                  *)
SimulationOutlivesGraph ==
  \A p \in DOMAIN Held :
    Held[p] # None =>
      \/ Held[p] \in {simActive, simRetiring}
      \/ cpc \in {"publish", "install"} /\ Held[p] = world

(* The worlds whose current direct sound is in the output or about to be.  *)
Audible ==
  ({active, warming} \cup (IF completed < FadeBlocks THEN {retiring} ELSE {}))
    \ {None}

(* Every control tick reaches each world that is audible: the old one is   *)
(* driven until the crossfade is over, whichever thread is ahead.          *)
DrivenWhileAudible == [][cpc = "tick" /\ cpc' = "idle" => Audible \subseteq driven']_vars

(* NeutralSwapControl::lifecycle                                           *)
Reports == [IDLE               |-> "Idle",
            PUBLISHING         |-> "Publishing",
            PREPARED           |-> "Prepared",
            TRANSITION         |-> "Crossfading",
            TAIL_RETIRING      |-> "TailRetiring",
            RETIREMENT_BACKLOG |-> "TailRetiring",
            RETIRED_PENDING    |-> "TailComplete"]

ReportedLifecycle == Reports[lifecycle]

(* The lifecycle the host is shown goes through its stages in order, with  *)
(* the failed preparation as the one way back, although both threads store *)
(* it without looking.                                                     *)
LifecycleOrder ==
  [][ReportedLifecycle' # ReportedLifecycle =>
       <<ReportedLifecycle, ReportedLifecycle'>> \in
         {<<"Idle", "Publishing">>, <<"Publishing", "Idle">>,
          <<"Publishing", "Prepared">>, <<"Prepared", "Crossfading">>,
          <<"Crossfading", "TailRetiring">>, <<"TailRetiring", "TailComplete">>,
          <<"TailComplete", "Idle">>}]_vars

(* Every swap comes to its end: the old graph is collected and the next    *)
(* world can be admitted.                                                  *)
SwapSettles == lifecycle # "IDLE" ~> lifecycle = "IDLE"

(* The two threads together implement the authority over two worlds: the   *)
(* old world still counts while it waits to be collected, and the new one  *)
(* has authority from its first faded block.                               *)
Authority == INSTANCE WorldAuthority WITH
  Worlds <- Generations,
  next <- IF preparedBox # None THEN preparedBox
          ELSE IF apc = "popped" THEN moved ELSE warming,
  old <- IF retiring # None THEN retiring
         ELSE IF apc = "retire" THEN moved
         ELSE IF retiredBox # None THEN retiredBox ELSE collected

ImplementsAuthority == Authority!Spec
=============================================================================
