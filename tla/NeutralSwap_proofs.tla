------------------------ MODULE NeutralSwap_proofs ------------------------
(***************************************************************************)
(* The neutral swap for any number of worlds, any warmup and any fade      *)
(* length, and the handoff slot its two boxes are.                         *)
(*                                                                         *)
(* None of the properties is inductive.  What makes them so is a protocol: *)
(* each value of `lifecycle` says where the graphs of the swap are, in     *)
(* which part of its block the audio thread can be, and which of its two   *)
(* simulations the control thread holds under which name.                  *)
(***************************************************************************)
EXTENDS NeutralSwap, HandoffSlot, TLAPS

(* The swap's two worlds, as the control thread names them: until the call *)
(* of swap_prepared_world has returned the new one is a local of it.       *)
Newer == IF cpc = "install" THEN world ELSE simActive
Older == IF cpc = "install" THEN simActive ELSE simRetiring

Between == apc \in {"boundary", "adopt", "render"}

NothingPrepared == preparedBox = None /\ ~preparedLeaving
NothingRetired == retiredBox = None /\ ~retiredLeaving /\ collected = None
NoTransition == warming = None /\ retiring = None /\ moved = None

(* What the control thread's place in its call says.                       *)
ControlProtocol ==
  /\ cpc \in {"pop", "drop", "collected"} => lifecycle = "RETIRED_PENDING"
  /\ cpc \in {"tick", "collect", "prepare", "swap", "offer"} => task = cpc
  /\ cpc \in {"ready", "push", "publish"} <=> lifecycle = "PUBLISHING"
  /\ cpc = "install" => lifecycle \notin {"IDLE", "PUBLISHING"} /\ world \in Generations
  /\ cpc \in {"ready", "push", "publish", "install"} => task = "offer"
  /\ task = "offer" /\ cpc # "idle" => simRetiring = None
  /\ cpc # "install" => (simRetiring = None <=> lifecycle \in {"IDLE", "PUBLISHING"})
  /\ cpc = "publish" => world \in Generations
  /\ cpc # "drop" => collected = None

IdleProtocol ==
  lifecycle \in {"IDLE", "PUBLISHING"} =>
    /\ NoTransition /\ NothingRetired /\ Between
    /\ active = simActive
    /\ ~preparedLeaving
    /\ preparedBox = (IF cpc = "publish" THEN world ELSE None)

(* PREPARED: the new graph waits, is on its way, warms up, or has just     *)
(* become active.                                                          *)
PreparedProtocol ==
  lifecycle = "PREPARED" =>
    /\ NothingRetired
    /\ \/ /\ preparedBox = Newer /\ ~preparedLeaving /\ NoTransition
          /\ active = Older /\ apc \in {"boundary", "adopt", "pop", "render"}
       \/ /\ preparedBox = None /\ preparedLeaving /\ moved = Newer
          /\ warming = None /\ retiring = None
          /\ active = Older /\ apc = "popped"
       \/ /\ NothingPrepared /\ moved = None
          /\ warming = Newer /\ retiring = None
          /\ active = Older /\ Between
       \/ /\ NothingPrepared /\ moved = None
          /\ warming = None /\ retiring = Older /\ completed = 0
          /\ active = Newer /\ apc = "fade"

FadeProtocol ==
  lifecycle \in {"TRANSITION", "TAIL_RETIRING"} =>
    /\ NothingPrepared /\ NothingRetired /\ moved = None /\ warming = None
    /\ active = Newer /\ retiring = Older
    /\ \/ Between /\ completed < FadeBlocks /\ lifecycle = "TRANSITION"
       \/ Between /\ completed = FadeBlocks /\ lifecycle = "TAIL_RETIRING"
       \/ apc = "tail" /\ completed = FadeBlocks /\ lifecycle = "TRANSITION"
       \/ apc = "finish" /\ completed = FadeBlocks

RetirementProtocol ==
  /\ lifecycle = "RETIREMENT_BACKLOG" =>
       /\ NothingPrepared /\ collected = None /\ ~retiredLeaving
       /\ warming = None /\ retiring = None /\ active = Newer
       /\ \/ apc = "retire" /\ moved = Older /\ retiredBox = None
          \/ apc = "retired" /\ moved = None /\ retiredBox = Older
  /\ lifecycle = "RETIRED_PENDING" =>
       /\ NothingPrepared /\ NoTransition /\ Between /\ active = Newer
       /\ CASE cpc = "drop" -> retiredBox = None /\ retiredLeaving /\ collected = Older
            [] cpc = "collected" -> NothingRetired
            [] OTHER -> retiredBox = Older /\ ~retiredLeaving /\ collected = None

SwapProtocol ==
  /\ backlog = None
  /\ ControlProtocol
  /\ IdleProtocol
  /\ PreparedProtocol
  /\ FadeProtocol
  /\ RetirementProtocol

(* Which set each world is in.                                             *)
WorldLedger ==
  /\ unbuilt \cap candidates = {} /\ unbuilt \cap destroyed = {}
  /\ candidates \cap destroyed = {}
  /\ simActive \notin unbuilt \cup candidates \cup destroyed
  /\ simRetiring # None =>
       /\ simRetiring # simActive
       /\ simRetiring \notin unbuilt \cup candidates
       /\ simRetiring \in destroyed <=> cpc = "collected"
  /\ task = "prepare" /\ cpc # "idle" => world \in unbuilt
  /\ task \in {"swap", "offer"} /\ cpc \notin {"idle", "publish", "install"} =>
       world \in candidates
  /\ cpc \in {"publish", "install"} =>
       world \notin unbuilt \cup candidates \cup destroyed \cup {simActive}
  /\ Generations = unbuilt \cup candidates \cup destroyed
       \cup ({simActive, simRetiring} \ {None})
       \cup (IF cpc \in {"publish", "install"} THEN {world} ELSE {})

IInv == TypeOK /\ SwapProtocol /\ WorldLedger

-----------------------------------------------------------------------------
(* At the start nothing is in transit.                                     *)
LEMMA InitInv == Init => IInv
<1>. SUFFICES ASSUME Init PROVE IInv
  OBVIOUS
<1>1. ControlTypes /\ AudioTypes /\ lifecycle \in Lifecycles
  BY SwapAssumption, SMT
  DEF Init, Prepared!Init, Retired!Init, ControlTypes, AudioTypes, Lifecycles,
      GenerationsOrNone
<1>2. SwapProtocol
  BY SwapAssumption, SMT
  DEF Init, Prepared!Init, Retired!Init, SwapProtocol, ControlProtocol, IdleProtocol,
      PreparedProtocol, FadeProtocol, RetirementProtocol, Newer, Older, Between,
      NothingPrepared, NothingRetired, NoTransition
<1>3. WorldLedger
  BY SwapAssumption, SMT DEF Init, Prepared!Init, Retired!Init, WorldLedger
<1>4. SlotTypes
  <2>1. preparedBox \in GenerationsOrNone /\ retiredBox \in GenerationsOrNone
    BY SMT DEF Init, Prepared!Init, Retired!Init, GenerationsOrNone
  <2>2. preparedLeaving \in BOOLEAN /\ retiredLeaving \in BOOLEAN
    BY Zenon DEF Init, Prepared!Init, Retired!Init
  <2>3. QED
    BY <2>1, <2>2 DEF SlotTypes
<1>5. QED
  BY <1>1, <1>2, <1>3, <1>4 DEF IInv, TypeOK

(* A call begins.                                                          *)
LEMMA CallInv ==
  ASSUME IInv, CallTick \/ CallCollect \/ CallPrepareWorld \/ CallSwapPreparedWorld
  PROVE  IInv'
<1> USE SwapAssumption
    DEF IInv, TypeOK, SlotTypes, ControlTypes, AudioTypes, SwapProtocol,
        ControlProtocol, IdleProtocol, PreparedProtocol, FadeProtocol,
        RetirementProtocol, WorldLedger, Newer, Older, Between, NothingPrepared,
        NothingRetired, NoTransition, Lifecycles, GenerationsOrNone,
        preparedVars, retiredVars, simVars, controlVars, graphVars, audioVars
<1>1. CASE CallTick
  BY <1>1, SMTT(30) DEF CallTick, Call
<1>2. CASE CallPrepareWorld
  BY <1>2, SMTT(30) DEF CallPrepareWorld, Call
<1>3. CASE CallSwapPreparedWorld
  BY <1>3, SMTT(30) DEF CallSwapPreparedWorld, Call
<1>4. CASE CallCollect
  BY <1>4, SMTT(30) DEF CallCollect, Call
<1>5. QED
  BY <1>1, <1>2, <1>3, <1>4

(* A retired graph is collected.                                           *)
LEMMA CollectInv ==
  ASSUME IInv, LoadLifecycle \/ PopRetired \/ DropRetired \/ StoreIdle
  PROVE  IInv'
<1> USE SwapAssumption
    DEF IInv, TypeOK, SlotTypes, ControlTypes, AudioTypes, SwapProtocol,
        ControlProtocol, IdleProtocol, PreparedProtocol, FadeProtocol,
        RetirementProtocol, WorldLedger, Newer, Older, Between, NothingPrepared,
        NothingRetired, NoTransition, Lifecycles, GenerationsOrNone,
        preparedVars, retiredVars, simVars, controlVars, graphVars, audioVars
<1>1. CASE LoadLifecycle
  BY <1>1, SMTT(30) DEF LoadLifecycle
<1>2. CASE PopRetired
  BY <1>2, SMTT(30) DEF PopRetired, Retired!Take
<1>3. CASE DropRetired
  <2>1. SlotTypes'
    <3>1. (preparedBox \in GenerationsOrNone /\ retiredBox \in GenerationsOrNone)'
      BY <1>3, SMT DEF DropRetired, Retired!Release
    <3>2. (preparedLeaving \in BOOLEAN /\ retiredLeaving \in BOOLEAN)'
      BY <1>3, Zenon DEF DropRetired, Retired!Release
    <3>3. QED
      BY <3>1, <3>2 DEF SlotTypes
  <2>2. (lifecycle \in Lifecycles)' /\ ControlTypes' /\ AudioTypes'
    BY <1>3, SMTT(30) DEF DropRetired, Retired!Release
  <2>3. SwapProtocol'
    BY <1>3, SMTT(30) DEF DropRetired, Retired!Release
  <2>4. WorldLedger'
    BY <1>3, SMTT(30) DEF DropRetired, Retired!Release
  <2>5. QED
    BY <2>1, <2>2, <2>3, <2>4
<1>4. CASE StoreIdle
  BY <1>4, SMTT(30) DEF StoreIdle
<1>5. QED
  BY <1>1, <1>2, <1>3, <1>4

(* The bodies of the calls.                                                *)
LEMMA BodyInv ==
  ASSUME IInv, Tick \/ CollectOnly \/ PrepareWorld \/ SwapPreparedWorld
  PROVE  IInv'
<1> USE SwapAssumption
    DEF IInv, TypeOK, SlotTypes, ControlTypes, AudioTypes, SwapProtocol,
        ControlProtocol, IdleProtocol, PreparedProtocol, FadeProtocol,
        RetirementProtocol, WorldLedger, Newer, Older, Between, NothingPrepared,
        NothingRetired, NoTransition, Lifecycles, GenerationsOrNone,
        preparedVars, retiredVars, simVars, controlVars, graphVars, audioVars
<1>1. CASE Tick
  BY <1>1, SMTT(30) DEF Tick, Return, AcceptsControl
<1>2. CASE PrepareWorld
  BY <1>2, SMTT(30) DEF PrepareWorld, Return
<1>3. CASE SwapPreparedWorld
  BY <1>3, SMTT(30) DEF SwapPreparedWorld, Return
<1>4. CASE CollectOnly
  BY <1>4, SMTT(30) DEF CollectOnly, Return
<1>5. QED
  BY <1>1, <1>2, <1>3, <1>4

(* A world is offered.                                                     *)
LEMMA OfferInv ==
  ASSUME IInv,
         \/ OfferPrepared \/ PrepareForRealtime \/ PreparationFailed
         \/ PushPrepared \/ StorePrepared \/ InstallSimulation
  PROVE  IInv'
<1> USE SwapAssumption
    DEF IInv, TypeOK, SlotTypes, ControlTypes, AudioTypes, SwapProtocol,
        ControlProtocol, IdleProtocol, PreparedProtocol, FadeProtocol,
        RetirementProtocol, WorldLedger, Newer, Older, Between, NothingPrepared,
        NothingRetired, NoTransition, Lifecycles, GenerationsOrNone,
        preparedVars, retiredVars, simVars, controlVars, graphVars, audioVars
<1>1. CASE OfferPrepared
  BY <1>1, SMTT(30) DEF OfferPrepared, Return
<1>2. CASE PrepareForRealtime
  BY <1>2, SMTT(30) DEF PrepareForRealtime
<1>3. CASE PreparationFailed
  BY <1>3, SMTT(30) DEF PreparationFailed, Return
<1>4. CASE PushPrepared
  BY <1>4, SMTT(30) DEF PushPrepared, Return, Prepared!Free, Prepared!Put
<1>5. CASE StorePrepared
  BY <1>5, SMTT(30) DEF StorePrepared
<1>6. CASE InstallSimulation
  BY <1>6, SMTT(30) DEF InstallSimulation, Return
<1>7. QED
  BY <1>1, <1>2, <1>3, <1>4, <1>5, <1>6

(* The audio thread at a block boundary.                                   *)
LEMMA BoundaryInv ==
  ASSUME IInv,
         \/ FlushRetirement \/ StoreRetiredPending \/ AdoptAtBlockBoundary
         \/ PopPrepared \/ TakePrepared \/ StoreTransition
  PROVE  IInv'
<1> USE SwapAssumption
    DEF IInv, TypeOK, SlotTypes, ControlTypes, AudioTypes, SwapProtocol,
        ControlProtocol, IdleProtocol, PreparedProtocol, FadeProtocol,
        RetirementProtocol, WorldLedger, Newer, Older, Between, NothingPrepared,
        NothingRetired, NoTransition, Lifecycles, GenerationsOrNone,
        preparedVars, retiredVars, simVars, controlVars, graphVars, audioVars
<1>1. CASE FlushRetirement
  BY <1>1, SMTT(30) DEF FlushRetirement
<1>2. CASE StoreRetiredPending
  BY <1>2, SMTT(30) DEF StoreRetiredPending
<1>3. CASE AdoptAtBlockBoundary
  <2>1. SlotTypes'
    <3>1. (preparedBox \in GenerationsOrNone /\ retiredBox \in GenerationsOrNone)'
      BY <1>3, SMT DEF AdoptAtBlockBoundary, BeginCrossfade
    <3>2. (preparedLeaving \in BOOLEAN /\ retiredLeaving \in BOOLEAN)'
      BY <1>3, Zenon DEF AdoptAtBlockBoundary, BeginCrossfade
    <3>3. QED
      BY <3>1, <3>2 DEF SlotTypes
  <2>2. (lifecycle \in Lifecycles)' /\ ControlTypes' /\ AudioTypes'
    BY <1>3, SMTT(30) DEF AdoptAtBlockBoundary, BeginCrossfade
  <2>3. SwapProtocol'
    BY <1>3, SMTT(30) DEF AdoptAtBlockBoundary, BeginCrossfade
  <2>4. WorldLedger'
    BY <1>3, SMTT(30) DEF AdoptAtBlockBoundary, BeginCrossfade
  <2>5. QED
    BY <2>1, <2>2, <2>3, <2>4
<1>4. CASE PopPrepared
  <2>1. SlotTypes'
    <3>1. (preparedBox \in GenerationsOrNone /\ retiredBox \in GenerationsOrNone)'
      BY <1>4, SMT DEF PopPrepared, Prepared!Take
    <3>2. (preparedLeaving \in BOOLEAN /\ retiredLeaving \in BOOLEAN)'
      BY <1>4, Zenon DEF PopPrepared, Prepared!Take
    <3>3. QED
      BY <3>1, <3>2 DEF SlotTypes
  <2>2. (lifecycle \in Lifecycles)' /\ ControlTypes' /\ AudioTypes'
    BY <1>4, SMTT(30) DEF PopPrepared, Prepared!Take
  <2>3. SwapProtocol'
    BY <1>4, SMTT(30) DEF PopPrepared, Prepared!Take
  <2>4. WorldLedger'
    BY <1>4, SMTT(30) DEF PopPrepared, Prepared!Take
  <2>5. QED
    BY <2>1, <2>2, <2>3, <2>4
<1>5. CASE TakePrepared
  <2>1. SlotTypes'
    <3>1. (preparedBox \in GenerationsOrNone /\ retiredBox \in GenerationsOrNone)'
      BY <1>5, SMT DEF TakePrepared, BeginCrossfade, WarmupBlocks, Prepared!Release
    <3>2. (preparedLeaving \in BOOLEAN /\ retiredLeaving \in BOOLEAN)'
      BY <1>5, Zenon DEF TakePrepared, BeginCrossfade, WarmupBlocks, Prepared!Release
    <3>3. QED
      BY <3>1, <3>2 DEF SlotTypes
  <2>2. (lifecycle \in Lifecycles)' /\ ControlTypes' /\ AudioTypes'
    BY <1>5, SMTT(30) DEF TakePrepared, BeginCrossfade, WarmupBlocks, Prepared!Release
  <2>3. SwapProtocol'
    BY <1>5, SMTT(30) DEF TakePrepared, BeginCrossfade, WarmupBlocks, Prepared!Release
  <2>4. WorldLedger'
    BY <1>5, SMTT(30) DEF TakePrepared, BeginCrossfade, WarmupBlocks, Prepared!Release
  <2>5. QED
    BY <2>1, <2>2, <2>3, <2>4
<1>6. CASE StoreTransition
  BY <1>6, SMTT(30) DEF StoreTransition
<1>7. QED
  BY <1>1, <1>2, <1>3, <1>4, <1>5, <1>6

(* The audio thread in a block.                                            *)
LEMMA RenderInv ==
  ASSUME IInv,
         \/ RenderFails \/ RenderActive \/ RenderWarmup \/ StoreTailRetiring
         \/ \E tailRemaining \in BOOLEAN : RenderFade(tailRemaining)
         \/ \E tailRemaining \in BOOLEAN : RenderTail(tailRemaining)
         \/ FinishRetirement \/ HandOverRetired
  PROVE  IInv'
<1> USE SwapAssumption
    DEF IInv, TypeOK, SlotTypes, ControlTypes, AudioTypes, SwapProtocol,
        ControlProtocol, IdleProtocol, PreparedProtocol, FadeProtocol,
        RetirementProtocol, WorldLedger, Newer, Older, Between, NothingPrepared,
        NothingRetired, NoTransition, Lifecycles, GenerationsOrNone,
        preparedVars, retiredVars, simVars, controlVars, graphVars, audioVars
<1>1. CASE RenderFails
  BY <1>1, SMTT(30) DEF RenderFails
<1>2. CASE RenderActive
  BY <1>2, SMTT(30) DEF RenderActive
<1>3. CASE RenderWarmup
  BY <1>3, SMTT(30) DEF RenderWarmup
<1>4. CASE \E tailRemaining \in BOOLEAN : RenderFade(tailRemaining)
  BY <1>4, SMTT(30) DEF RenderFade
<1>5. CASE \E tailRemaining \in BOOLEAN : RenderTail(tailRemaining)
  BY <1>5, SMTT(30) DEF RenderTail
<1>6. CASE StoreTailRetiring
  BY <1>6, SMTT(30) DEF StoreTailRetiring
<1>7. CASE FinishRetirement
  BY <1>7, SMTT(30) DEF FinishRetirement
<1>8. CASE HandOverRetired
  BY <1>8, SMTT(30) DEF HandOverRetired, PushRetired, Retired!Free, Retired!Put
<1>9. QED
  BY <1>1, <1>2, <1>3, <1>4, <1>5, <1>6, <1>7, <1>8

-----------------------------------------------------------------------------
LEMMA StepInv == ASSUME IInv, [Next]_vars PROVE IInv'
<1>1. CASE Control
  BY <1>1, CallInv, CollectInv, BodyInv, OfferInv DEF Control
<1>2. CASE Audio
  BY <1>2, BoundaryInv, RenderInv DEF Audio
<1>3. CASE UNCHANGED vars
  BY <1>3
  DEF vars, IInv, TypeOK, SlotTypes, ControlTypes, AudioTypes, SwapProtocol,
      ControlProtocol, IdleProtocol, PreparedProtocol, FadeProtocol,
      RetirementProtocol, WorldLedger, Newer, Older, Between, NothingPrepared,
      NothingRetired, NoTransition
<1>4. QED
  BY <1>1, <1>2, <1>3 DEF Next

(* The protocol of the swap is an invariant of every instance.             *)
THEOREM SwapInvariant == Spec => []IInv
<1>1. QED
  BY InitInv, StepInv, PTL DEF Spec

(* Every variable keeps its type; `remaining` and `completed` stay within  *)
(* the warmup cap and the fade.                                            *)
THEOREM TypeCorrect == Spec => []TypeOK
<1>1. IInv => TypeOK
  BY DEF IInv
<1>2. QED
  BY <1>1, SwapInvariant, PTL

LEMMA HeldPlaces ==
  /\ DOMAIN Held = {"prepared", "moved", "active", "warming", "retiring",
                    "backlog", "retired", "collected"}
  /\ Held["prepared"] = preparedBox /\ Held["moved"] = moved
  /\ Held["active"] = active /\ Held["warming"] = warming
  /\ Held["retiring"] = retiring /\ Held["backlog"] = backlog
  /\ Held["retired"] = retiredBox /\ Held["collected"] = collected
  BY DEF Held

(* A graph is admitted only when the audio thread has nothing but the      *)
(* active one and no store of an earlier swap left to do.                  *)
THEOREM Admission == Spec => []AdmittedAlone
<1>1. IInv => AdmittedAlone
  BY HeldPlaces, SMT
  DEF IInv, SwapProtocol, ControlProtocol, IdleProtocol, AdmittedAlone, Between,
      NothingRetired, NoTransition, Prepared!Free, Retired!Free
<1>2. QED
  BY <1>1, SwapInvariant, PTL

(* The retired slot is free whenever the audio thread needs it.            *)
THEOREM NoBacklog == Spec => []BacklogNeverNeeded
<1>1. IInv => BacklogNeverNeeded
  BY SMT
  DEF IInv, TypeOK, Lifecycles, SwapProtocol, ControlProtocol, IdleProtocol,
      PreparedProtocol, FadeProtocol, RetirementProtocol, BacklogNeverNeeded,
      Between, Retired!Free
<1>2. QED
  BY <1>1, SwapInvariant, PTL

(* No graph is reachable by a thread after its simulation has gone.        *)
THEOREM SimulationSafety == Spec => []SimulationOutlivesGraph
<1>1. IInv => SimulationOutlivesGraph
  BY HeldPlaces, SMT
  DEF IInv, TypeOK, Lifecycles, SwapProtocol, ControlProtocol, IdleProtocol,
      PreparedProtocol, FadeProtocol, RetirementProtocol,
      SimulationOutlivesGraph, Between, Newer, Older, NothingPrepared,
      NothingRetired, NoTransition
<1>2. QED
  BY <1>1, SwapInvariant, PTL

(* Every tick reaches each audible world.                                  *)
THEOREM Driving == Spec => DrivenWhileAudible
<1>1. IInv /\ [Next]_vars => [cpc = "tick" /\ cpc' = "idle" => Audible \subseteq driven']_vars
  <2>1. SUFFICES ASSUME IInv, cpc = "tick", cpc' = "idle", [Next]_vars
                 PROVE  Audible \subseteq driven'
    OBVIOUS
  <2>2. Tick
    BY <2>1, SMT
    DEF Next, vars, Control, Audio, CallTick, CallCollect, CallPrepareWorld,
        CallSwapPreparedWorld, Call, LoadLifecycle, PopRetired, DropRetired,
        StoreIdle, CollectOnly, PrepareWorld, SwapPreparedWorld, OfferPrepared,
        PrepareForRealtime, PreparationFailed, PushPrepared, StorePrepared,
        InstallSimulation, FlushRetirement, StoreRetiredPending,
        AdoptAtBlockBoundary, PopPrepared, TakePrepared, StoreTransition,
        RenderFails, RenderActive, RenderWarmup, RenderFade, RenderTail,
        StoreTailRetiring, FinishRetirement, HandOverRetired, controlVars
  <2>3. Audible \subseteq {simActive} \cup
          (IF AcceptsControl THEN {simRetiring} \ {None} ELSE {})
    BY <2>1, SwapAssumption, SMT
    DEF IInv, TypeOK, AudioTypes, Lifecycles, SwapProtocol, ControlProtocol, IdleProtocol,
        PreparedProtocol, FadeProtocol, RetirementProtocol, Audible,
        AcceptsControl, Between, Newer, Older, NothingPrepared, NothingRetired,
        NoTransition
  <2>4. QED
    BY <2>2, <2>3 DEF Tick
<1>2. QED
  BY <1>1, SwapInvariant, PTL DEF Spec, DrivenWhileAudible

(* The lifecycle the host is shown never skips or repeats a stage.         *)
THEOREM OrderedLifecycle == Spec => LifecycleOrder
<1>1. IInv /\ [Next]_vars =>
        [ReportedLifecycle' # ReportedLifecycle =>
           <<ReportedLifecycle, ReportedLifecycle'>> \in
             {<<"Idle", "Publishing">>, <<"Publishing", "Idle">>,
              <<"Publishing", "Prepared">>, <<"Prepared", "Crossfading">>,
              <<"Crossfading", "TailRetiring">>, <<"TailRetiring", "TailComplete">>,
              <<"TailComplete", "Idle">>}]_vars
  <2>1. ASSUME IInv, [Next]_vars, lifecycle' # lifecycle
        PROVE  \/ lifecycle = "IDLE" /\ lifecycle' = "PUBLISHING"
               \/ lifecycle = "PUBLISHING" /\ lifecycle' \in {"IDLE", "PREPARED"}
               \/ lifecycle = "PREPARED" /\ lifecycle' = "TRANSITION"
               \/ lifecycle = "TRANSITION" /\ lifecycle' \in
                    {"TAIL_RETIRING", "RETIREMENT_BACKLOG"}
               \/ lifecycle = "TAIL_RETIRING" /\ lifecycle' = "RETIREMENT_BACKLOG"
               \/ lifecycle = "RETIREMENT_BACKLOG" /\ lifecycle' = "RETIRED_PENDING"
               \/ lifecycle = "RETIRED_PENDING" /\ lifecycle' = "IDLE"
    BY <2>1, SMT
    DEF IInv, TypeOK, Lifecycles, AudioTypes, SwapProtocol, ControlProtocol,
        IdleProtocol, PreparedProtocol, FadeProtocol, RetirementProtocol,
        Between, NothingPrepared, NothingRetired, NoTransition, Prepared!Free,
        Next, vars, Control, Audio, CallTick, CallCollect, CallPrepareWorld,
        CallSwapPreparedWorld, Call, LoadLifecycle, PopRetired, DropRetired,
        StoreIdle, Tick, CollectOnly, PrepareWorld, SwapPreparedWorld, OfferPrepared,
        PrepareForRealtime, PreparationFailed, PushPrepared, StorePrepared,
        InstallSimulation, FlushRetirement, StoreRetiredPending,
        AdoptAtBlockBoundary, PopPrepared, TakePrepared, StoreTransition,
        RenderFails, RenderActive, RenderWarmup, RenderFade, RenderTail,
        StoreTailRetiring, FinishRetirement, HandOverRetired
  <2>2. ASSUME IInv, [Next]_vars, ReportedLifecycle' # ReportedLifecycle
        PROVE  lifecycle' # lifecycle
    BY <2>2 DEF ReportedLifecycle
  <2>3. QED
    BY <2>1, <2>2, SMT DEF ReportedLifecycle, Reports
<1>2. QED
  BY <1>1, SwapInvariant, PTL DEF Spec, LifecycleOrder

LEMMA StoredPlaces ==
  /\ DOMAIN Stored = {"unbuilt", "candidates", "destroyed"}
  /\ Stored["unbuilt"] = unbuilt /\ Stored["candidates"] = candidates
  /\ Stored["destroyed"] = destroyed
  BY DEF Stored

(* No world is lost, doubled or freed early, in whichever order the two    *)
(* threads take their steps.                                               *)
THEOREM SingleOwnership == Spec => []GraphOwnedOnce
<1>1. ASSUME IInv, NEW g \in Generations
      PROVE  \E o \in Owners(g) : Owners(g) = {o}
  <2>1. g # None /\ backlog # g
    BY <1>1, SwapAssumption DEF IInv, SwapProtocol
  <2>2. CASE g \in unbuilt \cup candidates \cup destroyed
    <3>1. \A p \in DOMAIN Held : Held[p] # g
      BY <1>1, <2>1, <2>2, HeldPlaces, SMT
      DEF IInv, TypeOK, Lifecycles, SwapProtocol, ControlProtocol, IdleProtocol,
          PreparedProtocol, FadeProtocol, RetirementProtocol, WorldLedger,
          Between, Newer, Older, NothingPrepared, NothingRetired, NoTransition
    <3>2. Owners(g) = {s \in DOMAIN Stored : g \in Stored[s]}
      BY <3>1 DEF Owners
    <3>3. QED
      BY <1>1, <2>2, <3>2, StoredPlaces, SMT DEF IInv, WorldLedger
  <2>3. CASE g \notin unbuilt \cup candidates \cup destroyed
    <3>1. Owners(g) = {p \in DOMAIN Held : Held[p] = g}
      BY <2>3, StoredPlaces, SMT DEF Owners
    <3>2. ASSUME NEW o \in DOMAIN Held,
                 \A p \in DOMAIN Held : Held[p] = g <=> p = o
          PROVE  \E q \in Owners(g) : Owners(g) = {q}
      BY <3>1, <3>2
    <3>3. \/ g = simActive
          \/ g = simRetiring /\ cpc # "collected"
          \/ cpc \in {"publish", "install"} /\ g = world
      <4>1. g \in {simActive, simRetiring}
              \cup (IF cpc \in {"publish", "install"} THEN {world} ELSE {})
        <5>1. Generations = unbuilt \cup candidates \cup destroyed
                \cup ({simActive, simRetiring} \ {None})
                \cup (IF cpc \in {"publish", "install"} THEN {world} ELSE {})
          BY <1>1 DEF IInv, WorldLedger
        <5>2. QED
          BY <1>1, <2>3, <5>1
      <4>2. simRetiring # None => (simRetiring \in destroyed <=> cpc = "collected")
        BY <1>1 DEF IInv, WorldLedger
      <4>3. QED
        BY <2>1, <2>3, <4>1, <4>2
    <3>4. \E o \in DOMAIN Held : \A p \in DOMAIN Held : Held[p] = g <=> p = o
      <4>1. CASE lifecycle \in {"IDLE", "PUBLISHING"}
        BY <1>1, <2>1, <3>3, <4>1, HeldPlaces, SMTT(30)
        DEF IInv, SwapProtocol, ControlProtocol, IdleProtocol, WorldLedger,
            Between, NothingRetired, NoTransition
      <4>2. CASE lifecycle = "PREPARED"
        BY <1>1, <2>1, <3>3, <4>2, HeldPlaces, SMTT(30)
        DEF IInv, SwapProtocol, ControlProtocol, PreparedProtocol, WorldLedger,
            Between, Newer, Older, NothingPrepared, NothingRetired, NoTransition
      <4>3. CASE lifecycle \in {"TRANSITION", "TAIL_RETIRING"}
        BY <1>1, <2>1, <3>3, <4>3, HeldPlaces, SMTT(30)
        DEF IInv, SwapProtocol, ControlProtocol, FadeProtocol, WorldLedger,
            Newer, Older, NothingPrepared, NothingRetired
      <4>4. CASE lifecycle = "RETIREMENT_BACKLOG"
        BY <1>1, <2>1, <3>3, <4>4, HeldPlaces, SMTT(30)
        DEF IInv, SwapProtocol, ControlProtocol, RetirementProtocol, WorldLedger,
            Newer, Older, NothingPrepared
      <4>5. CASE lifecycle = "RETIRED_PENDING"
        BY <1>1, <2>1, <3>3, <4>5, HeldPlaces, SMTT(30)
        DEF IInv, SwapProtocol, ControlProtocol, RetirementProtocol, WorldLedger,
            Newer, Older, NothingPrepared, NothingRetired, NoTransition
      <4>6. QED
        BY <1>1, <4>1, <4>2, <4>3, <4>4, <4>5 DEF IInv, TypeOK, Lifecycles
    <3>5. QED
      BY <3>2, <3>4
  <2>4. QED
    BY <2>2, <2>3
<1>2. IInv => GraphOwnedOnce
  BY <1>1 DEF GraphOwnedOnce
<1>3. QED
  BY <1>2, SwapInvariant, PTL

(* Publishing a graph, beginning its crossfade and dropping the old graph  *)
(* are the steps of the authority over two worlds.                         *)
THEOREM Refinement == Spec => ImplementsAuthority
<1> DEFINE Following == IF preparedBox # None THEN preparedBox
                        ELSE IF apc = "popped" THEN moved ELSE warming
           Former == IF retiring # None THEN retiring
                     ELSE IF apc = "retire" THEN moved
                     ELSE IF retiredBox # None THEN retiredBox ELSE collected
           Same == UNCHANGED <<active, Following, Former>>
<1>1. Init => Authority!Init
  BY SwapAssumption DEF Init, Authority!Init, Prepared!Init, Retired!Init
<1>2. IInv /\ [Next]_vars => [Authority!Next]_<<active, Following, Former>>
  <2> SUFFICES ASSUME IInv, [Next]_vars
               PROVE  Authority!Next \/ Same
    OBVIOUS
  <2> USE SwapAssumption
      DEF IInv, TypeOK, SlotTypes, ControlTypes, AudioTypes, SwapProtocol,
          ControlProtocol, IdleProtocol, PreparedProtocol, FadeProtocol,
          RetirementProtocol, WorldLedger, Newer, Older, Between, NothingPrepared,
          NothingRetired, NoTransition, Lifecycles, GenerationsOrNone,
          preparedVars, retiredVars, simVars, controlVars, graphVars, audioVars
  <2>1. CASE PushPrepared
    <3>1. Authority!Prepare(world) \/ Same
      BY <2>1, SMTT(30) DEF PushPrepared, Prepared!Free, Prepared!Put, Return, Authority!Prepare
    <3>2. world \in Generations
      BY <2>1, SMT DEF PushPrepared
    <3>3. QED
      BY <3>1, <3>2 DEF Authority!Next
  <2>2. CASE DropRetired
    <3>1. Authority!Retire
      BY <2>2, SMTT(30) DEF DropRetired, Retired!Release, Authority!Retire
    <3>2. QED
      BY <3>1 DEF Authority!Next
  <2>3. CASE AdoptAtBlockBoundary \/ TakePrepared
    <3>1. Authority!Adopt \/ Same
      BY <2>3, SMTT(30) DEF AdoptAtBlockBoundary, TakePrepared, BeginCrossfade,
                            WarmupBlocks, Prepared!Release, Authority!Adopt
    <3>2. QED
      BY <3>1 DEF Authority!Next
  <2>4. CASE CallTick \/ CallCollect \/ CallPrepareWorld \/ CallSwapPreparedWorld
             \/ LoadLifecycle
             \/ PopRetired \/ StoreIdle \/ Tick \/ CollectOnly \/ PrepareWorld
             \/ SwapPreparedWorld \/ OfferPrepared \/ PrepareForRealtime \/ PreparationFailed
             \/ StorePrepared \/ InstallSimulation
    BY <2>4, SMTT(30)
    DEF CallTick, CallCollect, CallPrepareWorld, CallSwapPreparedWorld, Call, LoadLifecycle,
        PopRetired, Retired!Take, StoreIdle, Tick, CollectOnly, PrepareWorld, SwapPreparedWorld,
        OfferPrepared, PrepareForRealtime, PreparationFailed, StorePrepared,
        InstallSimulation, Return
  <2>5. CASE FlushRetirement \/ StoreRetiredPending \/ PopPrepared \/ StoreTransition
             \/ StoreTailRetiring \/ FinishRetirement \/ HandOverRetired
    BY <2>5, SMTT(30)
    DEF FlushRetirement, StoreRetiredPending, PopPrepared, Prepared!Take,
        StoreTransition, StoreTailRetiring, FinishRetirement, HandOverRetired,
        PushRetired, Retired!Free, Retired!Put
  <2>6. CASE \/ RenderFails \/ RenderActive \/ RenderWarmup
             \/ \E tailRemaining \in BOOLEAN : RenderFade(tailRemaining)
             \/ \E tailRemaining \in BOOLEAN : RenderTail(tailRemaining)
    BY <2>6, SMTT(30)
    DEF RenderFails, RenderActive, RenderWarmup, RenderFade, RenderTail
  <2>7. CASE UNCHANGED vars
    BY <2>7 DEF vars
  <2>8. QED
    BY <2>1, <2>2, <2>3, <2>4, <2>5, <2>6, <2>7 DEF Next, Control, Audio
<1>3. QED
  BY <1>1, <1>2, SwapInvariant, PTL DEF Spec, ImplementsAuthority, Authority!Spec
-----------------------------------------------------------------------------
(* The boxes of the swap: exclusive access and single ownership in the     *)
(* one-slot handoff that they are, for any set of values, and that it      *)
(* implements the box.                                                     *)
(*                                                                         *)
(* Neither property is inductive: both rest on what each value of `state`  *)
(* says about the two ends (SlotProtocol) - WRITING is the producer inside *)
(* publish, READING the consumer inside try_pop, FULL an initialized cell  *)
(* and nobody inside.                                                      *)

SlotProtocol ==
  /\ state \in {"EMPTY", "RESERVED"} => ~initialized /\ pusher = "idle" /\ popper = "idle"
  /\ state = "FULL" => pusher = "idle" /\ popper = "idle" /\ (ends # {} => initialized)
  /\ state = "WRITING" => pusher # "idle" /\ popper = "idle"
  /\ state = "READING" => popper # "idle" /\ pusher = "idle"
  /\ pusher = "write" => ~initialized /\ pvalue \in Items
  /\ pusher = "store" => initialized
  /\ popper = "read" => initialized
  /\ popper = "store" => ~initialized /\ cvalue \in Items
  /\ initialized => cell \in Items
  /\ pusher # "idle" => "producer" \in ends
  /\ popper # "idle" => "consumer" \in ends
  /\ ends = {} => ~initialized

(* OwnedExactlyOnce, place by place.                                       *)
SlotPlaces == {"producer", "handing", "slot", "popping", "consumer", "dropped"}

Owns(p, v) ==
  \/ p = "producer" /\ v \in fresh
  \/ p = "handing" /\ pusher = "write" /\ v = pvalue
  \/ p = "slot" /\ initialized /\ v = cell
  \/ p = "popping" /\ popper = "store" /\ v = cvalue
  \/ p = "consumer" /\ v \in received
  \/ p = "dropped" /\ v \in freed

SingleOwner ==
  \A v \in Items : \E p \in SlotPlaces : \A q \in SlotPlaces : Owns(q, v) <=> q = p

SlotInv == HandoffTypeOK /\ SlotProtocol /\ SingleOwner

LEMMA OwnsIsOwned == OwnedExactlyOnce <=> SingleOwner
<1>1. DOMAIN Owned = SlotPlaces  BY DEF Owned, SlotPlaces
<1>2. \A p \in SlotPlaces : \A v : v \in Owned[p] <=> Owns(p, v)
  BY DEF Owned, SlotPlaces, Owns
<1> QED BY <1>1, <1>2 DEF OwnedExactlyOnce, SingleOwner

LEMMA HandoffInitInv == HandoffInit => SlotInv
<1> SUFFICES ASSUME HandoffInit PROVE SlotInv  OBVIOUS
<1>1. HandoffTypeOK /\ SlotProtocol
  BY DEF HandoffInit, HandoffTypeOK, SlotProtocol, States
<1>2. SingleOwner
  <2>1. \A v \in Items : \A q \in SlotPlaces : Owns(q, v) <=> q = "producer"
    BY DEF HandoffInit, SlotPlaces, Owns
  <2> QED BY <2>1 DEF SingleOwner, SlotPlaces
<1> QED BY <1>1, <1>2 DEF SlotInv

(* What the slot's state says is kept by every step.                       *)
LEMMA SlotStep ==
  ASSUME SlotInv, [HandoffNext]_handoffVars
  PROVE  HandoffTypeOK' /\ SlotProtocol'
<1> USE ItemsAssumption DEF SlotInv, HandoffTypeOK, SlotProtocol, States, slotVars, producerVars,
        consumerVars
<1>1. CASE TryReserve  BY <1>1 DEF TryReserve, ProducerIdle
<1>2. CASE DiscardReservation  BY <1>2 DEF DiscardReservation, ProducerIdle
<1>3. CASE PublishReserved  BY <1>3 DEF PublishReserved, Claim, ProducerIdle
<1>4. CASE TryPush  BY <1>4 DEF TryPush, Claim, ProducerIdle
<1>5. CASE WriteValue  BY <1>5 DEF WriteValue
<1>6. CASE StoreFull  BY <1>6 DEF StoreFull
<1>7. CASE TryPop  BY <1>7 DEF TryPop
<1>8. CASE ReadValue  BY <1>8 DEF ReadValue
<1>9. CASE StoreEmpty  BY <1>9 DEF StoreEmpty
<1>10. ASSUME NEW e \in {"producer", "consumer"}, DropEnd(e)
       PROVE  HandoffTypeOK' /\ SlotProtocol'
  <2>1. CASE ends \ {e} = {}  BY <2>1, <1>10 DEF DropEnd, SharedDrop
  <2>2. CASE ends \ {e} # {}  BY <2>2, <1>10 DEF DropEnd
  <2> QED BY <2>1, <2>2
<1>11. CASE UNCHANGED handoffVars  BY <1>11 DEF handoffVars
<1> QED
  BY <1>1, <1>2, <1>3, <1>4, <1>5, <1>6, <1>7, <1>8, <1>9, <1>10, <1>11
     DEF HandoffNext, Producer, Consumer

(* A value moves from one place to the next and the others stay put.       *)
LEMMA OwnerMoves ==
  ASSUME SingleOwner, NEW u \in Items, NEW from \in SlotPlaces, NEW to \in SlotPlaces,
         Owns(from, u),
         \A v \in Items : v # u => \A q \in SlotPlaces : Owns(q, v)' <=> Owns(q, v),
         \A q \in SlotPlaces : Owns(q, u)' <=> q = to
  PROVE  SingleOwner'
<1> SUFFICES ASSUME NEW v \in Items
             PROVE  \E p \in SlotPlaces : \A q \in SlotPlaces : Owns(q, v)' <=> q = p
  BY DEF SingleOwner
<1>1. CASE v = u  BY <1>1
<1>2. CASE v # u  BY <1>2 DEF SingleOwner
<1> QED BY <1>1, <1>2

(* No value moves.                                                         *)
LEMMA OwnersStay ==
  ASSUME SingleOwner,
         \A v \in Items : \A q \in SlotPlaces : Owns(q, v)' <=> Owns(q, v)
  PROVE  SingleOwner'
BY DEF SingleOwner

LEMMA SlotOwnerStep == ASSUME SlotInv, [HandoffNext]_handoffVars PROVE SingleOwner'
<1> USE DEF SlotInv, slotVars, producerVars, consumerVars
<1>0. \A v \in Items : \A p, q \in SlotPlaces : Owns(p, v) /\ Owns(q, v) => p = q
  BY DEF SingleOwner
<1>1. ASSUME NEW from \in {"EMPTY", "RESERVED"}, NEW v \in fresh, Claim(from, v)
      PROVE  SingleOwner'
  <2>1. v \in Items /\ Owns("producer", v)  BY <1>1 DEF HandoffTypeOK, Owns
  <2>0. \A q \in SlotPlaces : q # "producer" => ~Owns(q, v)
    BY <2>1, <1>0 DEF SlotPlaces
  <2>2. \A q \in SlotPlaces : Owns(q, v)' <=> q = "handing"
    BY <1>1, <2>1, <2>0 DEF Claim, ProducerIdle, Owns, SlotPlaces
  <2>3. \A u \in Items : u # v => \A q \in SlotPlaces : Owns(q, u)' <=> Owns(q, u)
    BY <1>1, <2>1 DEF Claim, ProducerIdle, Owns, SlotPlaces
  <2> QED BY <2>1, <2>2, <2>3, OwnerMoves DEF SlotPlaces
<1>2. CASE WriteValue
  <2>1. PICK x \in Items : x = pvalue /\ Owns("handing", x) /\ ~initialized
    BY <1>2 DEF WriteValue, SlotProtocol, Owns
  <2>0. \A q \in SlotPlaces : q # "handing" => ~Owns(q, x)
    BY <2>1, <1>0 DEF SlotPlaces
  <2>2. \A q \in SlotPlaces : Owns(q, x)' <=> q = "slot"
    BY <1>2, <2>1, <2>0 DEF WriteValue, Owns, SlotPlaces
  <2>3. \A u \in Items : u # x => \A q \in SlotPlaces : Owns(q, u)' <=> Owns(q, u)
    BY <1>2, <2>1 DEF WriteValue, Owns, SlotPlaces
  <2> QED BY <2>1, <2>2, <2>3, OwnerMoves DEF SlotPlaces
<1>3. CASE ReadValue
  <2>1. PICK x \in Items : x = cell /\ Owns("slot", x) /\ initialized
    BY <1>3 DEF ReadValue, SlotProtocol, Owns
  <2>0. \A q \in SlotPlaces : q # "slot" => ~Owns(q, x)
    BY <2>1, <1>0 DEF SlotPlaces
  <2>2. \A q \in SlotPlaces : Owns(q, x)' <=> q = "popping"
    BY <1>3, <2>1, <2>0 DEF ReadValue, Owns, SlotPlaces
  <2>3. \A u \in Items : u # x => \A q \in SlotPlaces : Owns(q, u)' <=> Owns(q, u)
    BY <1>3, <2>1 DEF ReadValue, Owns, SlotPlaces
  <2> QED BY <2>1, <2>2, <2>3, OwnerMoves DEF SlotPlaces
<1>4. CASE StoreEmpty
  <2>1. PICK x \in Items : x = cvalue /\ Owns("popping", x)
    BY <1>4 DEF StoreEmpty, SlotProtocol, Owns
  <2>0. \A q \in SlotPlaces : q # "popping" => ~Owns(q, x)
    BY <2>1, <1>0 DEF SlotPlaces
  <2>2. \A q \in SlotPlaces : Owns(q, x)' <=> q = "consumer"
    BY <1>4, <2>1, <2>0 DEF StoreEmpty, Owns, SlotPlaces
  <2>3. \A u \in Items : u # x => \A q \in SlotPlaces : Owns(q, u)' <=> Owns(q, u)
    BY <1>4, <2>1 DEF StoreEmpty, Owns, SlotPlaces
  <2> QED BY <2>1, <2>2, <2>3, OwnerMoves DEF SlotPlaces
<1>5. ASSUME NEW e \in {"producer", "consumer"}, DropEnd(e)
      PROVE  SingleOwner'
  <2>1. CASE ends \ {e} = {} /\ state = "FULL"
    <3>1. PICK x \in Items : x = cell /\ Owns("slot", x) /\ initialized
      BY <1>5, <2>1 DEF DropEnd, SlotProtocol, Owns
    <3>2. freed' = freed \cup {cell} /\ ~initialized'
      BY <1>5, <2>1 DEF DropEnd, SharedDrop
    <3>0. \A q \in SlotPlaces : q # "slot" => ~Owns(q, x)
      BY <3>1, <1>0 DEF SlotPlaces
    <3>3. \A q \in SlotPlaces : Owns(q, x)' <=> q = "dropped"
      BY <1>5, <3>1, <3>2, <3>0 DEF DropEnd, Owns, SlotPlaces
    <3>4. \A u \in Items : u # x => \A q \in SlotPlaces : Owns(q, u)' <=> Owns(q, u)
      BY <1>5, <3>1, <3>2 DEF DropEnd, Owns, SlotPlaces
    <3> QED BY <3>1, <3>3, <3>4, OwnerMoves DEF SlotPlaces
  <2>2. CASE ends \ {e} # {} \/ state # "FULL"
    <3>1. freed' = freed /\ initialized' = initialized
      <4>1. CASE ends \ {e} # {}
        BY <4>1, <1>5 DEF DropEnd
      <4>2. CASE ends \ {e} = {} /\ state # "FULL"
        <5>1. pusher = "idle" /\ popper = "idle"
          BY <4>2, <1>5 DEF DropEnd, SlotProtocol
        <5>2. ~initialized
          BY <5>1, <4>2 DEF SlotProtocol, HandoffTypeOK, States
        <5> QED BY <5>2, <4>2, <1>5 DEF DropEnd, SharedDrop, HandoffTypeOK
      <4> QED BY <4>1, <4>2, <2>2
    <3>2. \A v \in Items : \A q \in SlotPlaces : Owns(q, v)' <=> Owns(q, v)
      BY <1>5, <3>1 DEF DropEnd, Owns, SlotPlaces
    <3> QED BY <3>2, OwnersStay
  <2> QED BY <2>1, <2>2
<1>6. CASE TryReserve \/ DiscardReservation \/ StoreFull \/ TryPop \/ UNCHANGED handoffVars
  <2>1. \A v \in Items : \A q \in SlotPlaces : Owns(q, v)' <=> Owns(q, v)
    BY <1>6 DEF TryReserve, DiscardReservation, StoreFull, TryPop, handoffVars, Owns, SlotPlaces
  <2> QED BY <2>1, OwnersStay
<1> QED
  BY <1>1, <1>2, <1>3, <1>4, <1>5, <1>6
     DEF HandoffNext, Producer, Consumer, PublishReserved, TryPush

(* The state word grants each end exclusive access to the cell, and every  *)
(* value has one owner, at every interleaving and whoever drops first.     *)
THEOREM SlotInvariant == HandoffSpec => []SlotInv
<1>1. SlotInv /\ [HandoffNext]_handoffVars => SlotInv'
  BY SlotStep, SlotOwnerStep DEF SlotInv
<1> QED BY HandoffInitInv, <1>1, PTL DEF HandoffSpec

(* State word, cell and owners keep their types at every interleaving.     *)
THEOREM SlotTypeCorrect == HandoffSpec => []HandoffTypeOK
BY SlotInvariant, PTL DEF SlotInv

(* Writes go to an uninitialized cell, reads to an initialized one, never  *)
(* at the same time.                                                       *)
THEOREM SlotExclusion == HandoffSpec => []ExclusiveCell
<1>1. SlotInv => ExclusiveCell
  BY DEF SlotInv, SlotProtocol, HandoffTypeOK, States, ExclusiveCell
<1> QED BY SlotInvariant, <1>1, PTL

(* No value is leaked, delivered twice or dropped while owned elsewhere.   *)
THEOREM SlotOwnership == HandoffSpec => []OwnedExactlyOnce
BY SlotInvariant, OwnsIsOwned, PTL DEF SlotInv

(* The channel implements the one-place box.                               *)
THEOREM SlotRefinement == HandoffSpec => ImplementsBox
<1> DEFINE b == IF state = "FULL" THEN cell ELSE Nothing
           l == popper # "idle"
<1>1. HandoffInit => Box!Init
  BY DEF HandoffInit, Box!Init
<1>2. ASSUME SlotInv, [HandoffNext]_handoffVars PROVE [Box!Next]_(<<b, l>>)
  <2> USE <1>2, ItemsAssumption DEF SlotInv, HandoffTypeOK, slotVars, producerVars, consumerVars
  <2>1. CASE \/ TryReserve \/ DiscardReservation \/ PublishReserved
             \/ TryPush \/ WriteValue
    <3>1. state # "FULL" /\ state' # "FULL" /\ popper' = popper
      <4>1. CASE TryReserve \/ DiscardReservation
        BY <4>1 DEF TryReserve, DiscardReservation
      <4>2. CASE PublishReserved \/ TryPush
        BY <4>2 DEF PublishReserved, TryPush, Claim
      <4>3. CASE WriteValue
        BY <4>3 DEF WriteValue, SlotProtocol
      <4> QED BY <2>1, <4>1, <4>2, <4>3
    <3> QED BY <3>1
  <2>2. CASE StoreFull
    <3>1. state # "FULL" /\ popper = "idle" /\ cell \in Items
      BY <2>2 DEF StoreFull, SlotProtocol, States
    <3>2. b = Nothing /\ ~l /\ b' = cell /\ l' = l
      BY <2>2, <3>1 DEF StoreFull
    <3> QED BY <3>1, <3>2 DEF Box!Next, Box!Put, Box!Free
  <2>3. CASE TryPop
    <3>1. cell \in Items /\ b = cell /\ b' = Nothing /\ l'
      BY <2>3 DEF TryPop, SlotProtocol
    <3> QED BY <3>1 DEF Box!Next, Box!Take
  <2>4. CASE ReadValue
    BY <2>4 DEF ReadValue, SlotProtocol
  <2>5. CASE StoreEmpty
    <3>1. l /\ ~l' /\ b = Nothing /\ b' = Nothing
      BY <2>5 DEF StoreEmpty, SlotProtocol
    <3> QED BY <3>1 DEF Box!Next, Box!Release
  <2>6. CASE (\E e \in {"producer", "consumer"} : DropEnd(e)) \/ UNCHANGED handoffVars
    BY <2>6 DEF DropEnd, handoffVars
  <2> QED BY <2>1, <2>2, <2>3, <2>4, <2>5, <2>6 DEF HandoffNext, Producer, Consumer
<1> QED BY SlotInvariant, <1>1, <1>2, PTL DEF HandoffSpec, ImplementsBox, Box!Spec
=============================================================================
