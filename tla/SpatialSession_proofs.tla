----------------------- MODULE SpatialSession_proofs -----------------------
(***************************************************************************)
(* Who holds the render graph, what a claimable preparation was made with, *)
(* that a block sounds like one update and how many updates silence it,    *)
(* for any sources and any number of updates, preparations and failures.   *)
(*                                                                         *)
(* The invariant has four parts.  LifecycleProtocol says where each thread *)
(* can be for each value of the lifecycle word; the graph's exclusion      *)
(* follows from it.  PreparationProtocol says that a word which a callback *)
(* may claim, or have given back, goes with inputs, publications and graph *)
(* of the newest update.  Coherence says that a direct sequence names one  *)
(* update in every place it is kept.  Absorption says how far the window   *)
(* can be from the block heard last.                                       *)
(***************************************************************************)
EXTENDS SpatialSession, TLAPS

LifecycleProtocol ==
  /\ control \in {"take", "simulate", "prepare_propagate", "prime", "mark"} =>
       word.lifecycle = "bound_unprepared"
  /\ control = "revoke" => cseen.lifecycle = "prepared_not_started"
  /\ audio = "claim_swap" => aseen.lifecycle = "prepared_not_started"
  /\ audio \in {"claim", "claim_swap"} => claimed = NoEpoch
  /\ audio \in {"process", "correlate"} =>
       word.lifecycle = IF claimed = NoEpoch THEN "running" ELSE "starting"
  /\ audio \in {"finish", "undo"} => word.lifecycle = "starting"
  /\ word.lifecycle = "starting" => claimed # NoEpoch /\ claimed <= word.epoch

(* A callback may claim the preparation, or a failed first block give it   *)
(* back.                                                                   *)
Claimable ==
  \/ word.lifecycle = "prepared_not_started"
  \/ word.lifecycle = "starting" /\ word.epoch = claimed

Current ==
  /\ graph = [prepared |-> TRUE, truth |-> truth]
  /\ backend.truth = truth
  /\ propagation = backend
  /\ published = Inputs

PreparationProtocol ==
  /\ Claimable => Current /\ control \in {"idle", "note", "examine", "revoke"}
  /\ control \in {"simulate", "prepare_propagate", "prime", "mark"} => published = Inputs
  /\ control \in {"propagate", "prepare_propagate", "prime", "mark"} => backend.truth = truth
  /\ control \in {"prime", "mark"} => propagation = backend
  /\ control = "mark" => graph = [prepared |-> TRUE, truth |-> truth]

(* Where a generation is kept.                                             *)
Generations == {backend, propagation, request, window.current, window.previous}

Coherence ==
  /\ \A g \in Generations : g.direct <= backend.direct
  /\ \A g, h \in Generations : g.direct = h.direct => g.truth = h.truth
  /\ BlockIsOneTruth

Absorption ==
  /\ rendered <= propagation.direct
  /\ audio = "correlate" => rendered <= request.direct
  /\ request.direct <= propagation.direct
  /\ \/ window.previous = NoGeneration
     \/ window.previous.direct = window.current.direct - 1
  /\ rendered >= 0 =>
       \/ window.current.direct = rendered
       \/ window.current.direct = rendered + 1 /\ window.previous.direct = rendered
       \/ window.current.direct >= rendered + 2
  /\ block.kind = "silent" /\ rendered >= 0 => backend.direct >= rendered + 2

Generated == [direct: Nat, truth: Nat]

-----------------------------------------------------------------------------
(* Types                                                                   *)

LEMMA InitTypes == Init => TypeOK
<1> SUFFICES ASSUME Init PROVE TypeOK
  OBVIOUS
<1>1. graph \in [prepared: BOOLEAN, truth: Nat]
  BY DEF Init
<1>2. QED
  BY <1>1, SMT DEF Init, TypeOK, Generation, NoGeneration, NoEpoch, Lifecycles, Inputs

LEMMA ControlTypes ==
  ASSUME TypeOK, ControlCall \/ ControlStep
  PROVE  TypeOK'
<1> USE DEF TypeOK, Lifecycles
<1>1. ASSUME NEW s \in Sources, Configure(s) PROVE TypeOK'
  BY <1>1, SMT DEF Configure, audioVars
<1>2. ASSUME NEW changed \in SUBSET Inputs, BeginUpdate(changed) PROVE TypeOK'
  BY <1>2, SMT DEF BeginUpdate, audioVars
<1>3. ASSUME BeginPrepare PROVE TypeOK'
  BY <1>3, SMT DEF BeginPrepare, audioVars
<1>4. ASSUME NoteWon PROVE TypeOK'
  BY <1>4, SMT DEF NoteWon, Noted, audioVars
<1>5. ASSUME NoteLost PROVE TypeOK'
  BY <1>5, SMT DEF NoteLost, audioVars
<1>6. ASSUME Apply PROVE TypeOK'
  BY <1>6, SMT DEF Apply, audioVars
<1>7. ASSUME UpdateDirect PROVE TypeOK'
  BY <1>7, SMT DEF UpdateDirect, DirectPass, Generation, Fault, audioVars
<1>8. ASSUME UpdatePropagation PROVE TypeOK'
  BY <1>8, SMT DEF UpdatePropagation, PublishPropagation, Generation, audioVars
<1>9. ASSUME UpdateIndirect PROVE TypeOK'
  BY <1>9, SMT DEF UpdateIndirect, Fault, audioVars
<1>10. ASSUME Examine PROVE TypeOK'
  BY <1>10, SMT DEF Examine, audioVars
<1>11. ASSUME RevokeWon PROVE TypeOK'
  BY <1>11, SMT DEF RevokeWon, audioVars
<1>12. ASSUME RevokeLost PROVE TypeOK'
  BY <1>12, SMT DEF RevokeLost, audioVars
<1>13. ASSUME TakeGraph PROVE TypeOK'
  BY <1>13, SMT DEF TakeGraph, audioVars
<1>14. ASSUME PrepareSimulation PROVE TypeOK'
  BY <1>14, SMT DEF PrepareSimulation, DirectPass, Generation, Fault, audioVars
<1>15. ASSUME PreparePropagation PROVE TypeOK'
  BY <1>15, SMT DEF PreparePropagation, PublishPropagation, Generation, audioVars
<1>16. ASSUME PrimeGraph PROVE TypeOK'
  <2>1. TRUE \in BOOLEAN /\ FALSE \in BOOLEAN
    OBVIOUS
  <2>2. CASE graph' = [prepared |-> TRUE, truth |-> truth]
    <3>1. graph' \in [prepared: BOOLEAN, truth: Nat]
      BY <2>1, <2>2, Zenon
    <3>2. QED
      BY <1>16, <3>1, SMT DEF PrimeGraph, Fault, audioVars
  <2>3. CASE graph' = [graph EXCEPT !.prepared = FALSE]
    <3>1. graph' \in [prepared: BOOLEAN, truth: Nat]
      BY <2>1, <2>3, Zenon
    <3>2. QED
      BY <1>16, <3>1, SMT DEF PrimeGraph, Fault, audioVars
  <2>4. QED
    BY <1>16, <2>2, <2>3 DEF PrimeGraph
<1>17. ASSUME MarkPrepared PROVE TypeOK'
  BY <1>17, SMT DEF MarkPrepared, audioVars
<1>18. QED
  BY <1>1, <1>2, <1>3, <1>4, <1>5, <1>6, <1>7, <1>8, <1>9, <1>10, <1>11, <1>12,
     <1>13, <1>14, <1>15, <1>16, <1>17
     DEF ControlCall, ControlStep, Inputs

LEMMA AudioTypes ==
  ASSUME TypeOK, Audio
  PROVE  TypeOK'
<1> USE DEF TypeOK, Lifecycles, controlVars, NoEpoch
<1>1. ASSUME RenderEnter PROVE TypeOK'
  BY <1>1, SMT DEF RenderEnter
<1>2. ASSUME RenderInvalid PROVE TypeOK'
  BY <1>2, SMT DEF RenderInvalid, Fault
<1>3. ASSUME ClaimLoad PROVE TypeOK'
  BY <1>3, SMT DEF ClaimLoad
<1>4. ASSUME ClaimWon PROVE TypeOK'
  BY <1>4, SMT DEF ClaimWon
<1>5. ASSUME ClaimLost PROVE TypeOK'
  BY <1>5, SMT DEF ClaimLost
<1>6. ASSUME ReadPropagation PROVE TypeOK'
  BY <1>6, SMT DEF ReadPropagation, Fault
<1>7. ASSUME Correlate PROVE TypeOK'
  <2>1. window' \in [current: Generated, previous: Generated \cup {NoGeneration}]
    BY <1>7, SMT DEF Correlate, WindowAfter, NoGeneration, Generated
  <2>2. \A g \in Resolved(window') : g \in Generated
    BY <2>1, SMT DEF Resolved, NoGeneration, Generated
  <2>3. block' \in [kind: {"none", "valid", "silent"}, motion: Nat, runtime: Nat]
    BY <1>7, <2>2, SMT DEF Correlate, Generated
  <2>4. QED
    BY <1>7, <2>1, <2>3, SMT DEF Correlate, Generated
<1>8. ASSUME FinishWon PROVE TypeOK'
  BY <1>8, SMT DEF FinishWon
<1>9. ASSUME UndoWon PROVE TypeOK'
  BY <1>9, SMT DEF UndoWon, GivenBack
<1>10. ASSUME FinishLost PROVE TypeOK'
  BY <1>10, SMT DEF FinishLost
<1>11. QED
  BY <1>1, <1>2, <1>3, <1>4, <1>5, <1>6, <1>7, <1>8, <1>9, <1>10 DEF Audio

LEMMA TypeStep == TypeOK /\ [Next]_vars => TypeOK'
<1> SUFFICES ASSUME TypeOK, [Next]_vars PROVE TypeOK'
  OBVIOUS
<1>1. CASE UNCHANGED vars
  BY <1>1, SMT DEF TypeOK, vars
<1>2. QED
  BY <1>1, ControlTypes, AudioTypes DEF Next

(* The lifecycle word, both threads' places and the publications keep      *)
(* their types.                                                            *)
THEOREM TypeCorrect == Spec => []TypeOK
  BY InitTypes, TypeStep, PTL DEF Spec
-----------------------------------------------------------------------------
(* Where the threads can be                                                *)

LEMMA ControlKeepsProtocol ==
  ASSUME TypeOK, LifecycleProtocol,
         ControlCall \/ ControlStep
  PROVE  LifecycleProtocol'
<1> USE DEF TypeOK, Lifecycles, LifecycleProtocol, NoEpoch
<1>1. CASE \E s \in Sources : Configure(s)
  BY <1>1, SMT DEF Configure, audioVars
<1>2. CASE \E changed \in SUBSET Inputs : BeginUpdate(changed)
  BY <1>2, SMT DEF BeginUpdate, audioVars
<1>3. CASE BeginPrepare
  BY <1>3, SMT DEF BeginPrepare, audioVars
<1>4. CASE NoteWon
  BY <1>4, SMT DEF NoteWon, Noted, audioVars
<1>5. CASE NoteLost
  BY <1>5, SMT DEF NoteLost, audioVars
<1>6. CASE Apply
  BY <1>6, SMT DEF Apply, audioVars
<1>7. CASE UpdateDirect
  BY <1>7, SMT DEF UpdateDirect, DirectPass, Generation, audioVars
<1>8. CASE UpdatePropagation
  BY <1>8, SMT DEF UpdatePropagation, PublishPropagation, Generation, audioVars
<1>9. CASE UpdateIndirect
  BY <1>9, SMT DEF UpdateIndirect, audioVars
<1>10. CASE Examine
  BY <1>10, SMT DEF Examine, audioVars
<1>11. CASE RevokeWon
  BY <1>11, SMT DEF RevokeWon, audioVars
<1>12. CASE RevokeLost
  BY <1>12, SMT DEF RevokeLost, audioVars
<1>13. CASE TakeGraph
  BY <1>13, SMT DEF TakeGraph, audioVars
<1>14. CASE PrepareSimulation
  BY <1>14, SMT DEF PrepareSimulation, DirectPass, Generation, audioVars
<1>15. CASE PreparePropagation
  BY <1>15, SMT DEF PreparePropagation, PublishPropagation, Generation, audioVars
<1>16. CASE PrimeGraph
  BY <1>16, SMT DEF PrimeGraph, audioVars
<1>17. CASE MarkPrepared
  BY <1>17, SMT DEF MarkPrepared, audioVars
<1>18. QED
  BY <1>1, <1>2, <1>3, <1>4, <1>5, <1>6, <1>7, <1>8, <1>9, <1>10, <1>11, <1>12, <1>13, <1>14, <1>15, <1>16, <1>17 DEF ControlCall, ControlStep, Inputs

LEMMA AudioKeepsProtocol ==
  ASSUME TypeOK, LifecycleProtocol,
         Audio
  PROVE  LifecycleProtocol'
<1> USE DEF TypeOK, Lifecycles, LifecycleProtocol, NoEpoch
<1>1. CASE RenderEnter
  BY <1>1, SMT DEF RenderEnter, controlVars
<1>2. CASE RenderInvalid
  BY <1>2, SMT DEF RenderInvalid, controlVars
<1>3. CASE ClaimLoad
  BY <1>3, SMT DEF ClaimLoad, controlVars
<1>4. CASE ClaimWon
  BY <1>4, SMT DEF ClaimWon, controlVars
<1>5. CASE ClaimLost
  BY <1>5, SMT DEF ClaimLost, controlVars
<1>6. CASE ReadPropagation
  BY <1>6, SMT DEF ReadPropagation, controlVars
<1>7. CASE Correlate
  BY <1>7, SMT DEF Correlate, controlVars
<1>8. CASE FinishWon
  BY <1>8, SMT DEF FinishWon, controlVars
<1>9. CASE UndoWon
  BY <1>9, SMT DEF UndoWon, GivenBack, controlVars
<1>10. CASE FinishLost
  BY <1>10, SMT DEF FinishLost, controlVars
<1>11. QED
  BY <1>1, <1>2, <1>3, <1>4, <1>5, <1>6, <1>7, <1>8, <1>9, <1>10 DEF Audio

LEMMA ProtocolStep == TypeOK /\ LifecycleProtocol /\ [Next]_vars => LifecycleProtocol'
<1> SUFFICES ASSUME TypeOK, LifecycleProtocol, [Next]_vars PROVE LifecycleProtocol'
  OBVIOUS
<1>1. CASE UNCHANGED vars
  BY <1>1, SMT DEF LifecycleProtocol, vars
<1>2. QED
  BY <1>1, ControlKeepsProtocol, AudioKeepsProtocol DEF Next

(* Neither thread is at a place its view of the lifecycle word excludes.   *)
THEOREM ProtocolHolds == Spec => []LifecycleProtocol
<1>1. Init => LifecycleProtocol
  BY SMT DEF Init, LifecycleProtocol, NoEpoch
<1>2. QED
  BY <1>1, TypeCorrect, ProtocolStep, PTL DEF Spec

(* The render graph is never borrowed by both threads.                     *)
THEOREM GraphExclusion == Spec => []RenderGraphExclusive
<1>1. LifecycleProtocol => RenderGraphExclusive
  BY SMT DEF LifecycleProtocol, RenderGraphExclusive, ControlHoldsGraph, AudioHoldsGraph
<1>2. QED
  BY <1>1, ProtocolHolds, PTL

-----------------------------------------------------------------------------
(* What a claimable preparation was made with                              *)

LEMMA ControlKeepsPreparation ==
  ASSUME TypeOK, LifecycleProtocol, PreparationProtocol,
         ControlCall \/ ControlStep
  PROVE  PreparationProtocol'
<1> USE DEF TypeOK, Lifecycles, LifecycleProtocol, PreparationProtocol, Claimable, Current, NoEpoch
<1>1. CASE \E s \in Sources : Configure(s)
  BY <1>1, SMT DEF Configure, audioVars
<1>2. CASE \E changed \in SUBSET Inputs : BeginUpdate(changed)
  BY <1>2, SMT DEF BeginUpdate, audioVars
<1>3. CASE BeginPrepare
  BY <1>3, SMT DEF BeginPrepare, audioVars
<1>4. CASE NoteWon
  BY <1>4, SMT DEF NoteWon, Noted, audioVars
<1>5. CASE NoteLost
  BY <1>5, SMT DEF NoteLost, audioVars
<1>6. CASE Apply
  BY <1>6, SMT DEF Apply, audioVars
<1>7. CASE UpdateDirect
  BY <1>7, SMT DEF UpdateDirect, DirectPass, Generation, audioVars
<1>8. CASE UpdatePropagation
  BY <1>8, SMT DEF UpdatePropagation, PublishPropagation, Generation, audioVars
<1>9. CASE UpdateIndirect
  BY <1>9, SMT DEF UpdateIndirect, audioVars
<1>10. CASE Examine
  BY <1>10, SMT DEF Examine, audioVars
<1>11. CASE RevokeWon
  BY <1>11, SMT DEF RevokeWon, audioVars
<1>12. CASE RevokeLost
  BY <1>12, SMT DEF RevokeLost, audioVars
<1>13. CASE TakeGraph
  BY <1>13, SMT DEF TakeGraph, audioVars
<1>14. CASE PrepareSimulation
  BY <1>14, SMT DEF PrepareSimulation, DirectPass, Generation, audioVars
<1>15. CASE PreparePropagation
  BY <1>15, SMT DEF PreparePropagation, PublishPropagation, Generation, audioVars
<1>16. CASE PrimeGraph
  BY <1>16, SMT DEF PrimeGraph, audioVars
<1>17. CASE MarkPrepared
  BY <1>17, SMT DEF MarkPrepared, audioVars
<1>18. QED
  BY <1>1, <1>2, <1>3, <1>4, <1>5, <1>6, <1>7, <1>8, <1>9, <1>10, <1>11, <1>12, <1>13, <1>14, <1>15, <1>16, <1>17 DEF ControlCall, ControlStep, Inputs

LEMMA AudioKeepsPreparation ==
  ASSUME TypeOK, LifecycleProtocol, PreparationProtocol,
         Audio
  PROVE  PreparationProtocol'
<1> USE DEF TypeOK, Lifecycles, LifecycleProtocol, PreparationProtocol, Claimable, Current, NoEpoch
<1>1. CASE RenderEnter
  BY <1>1, SMT DEF RenderEnter, controlVars
<1>2. CASE RenderInvalid
  BY <1>2, SMT DEF RenderInvalid, controlVars
<1>3. CASE ClaimLoad
  BY <1>3, SMT DEF ClaimLoad, controlVars
<1>4. CASE ClaimWon
  BY <1>4, SMT DEF ClaimWon, controlVars
<1>5. CASE ClaimLost
  BY <1>5, SMT DEF ClaimLost, controlVars
<1>6. CASE ReadPropagation
  BY <1>6, SMT DEF ReadPropagation, controlVars
<1>7. CASE Correlate
  BY <1>7, SMT DEF Correlate, controlVars
<1>8. CASE FinishWon
  BY <1>8, SMT DEF FinishWon, controlVars
<1>9. CASE UndoWon
  BY <1>9, SMT DEF UndoWon, GivenBack, controlVars
<1>10. CASE FinishLost
  BY <1>10, SMT DEF FinishLost, controlVars
<1>11. QED
  BY <1>1, <1>2, <1>3, <1>4, <1>5, <1>6, <1>7, <1>8, <1>9, <1>10 DEF Audio

LEMMA PreparationStep ==
  TypeOK /\ LifecycleProtocol /\ PreparationProtocol /\ [Next]_vars => PreparationProtocol'
<1> SUFFICES ASSUME TypeOK, LifecycleProtocol, PreparationProtocol, [Next]_vars
             PROVE  PreparationProtocol'
  OBVIOUS
<1>1. CASE UNCHANGED vars
  BY <1>1, SMT DEF PreparationProtocol, Claimable, Current, vars
<1>2. QED
  BY <1>1, ControlKeepsPreparation, AudioKeepsPreparation DEF Next

(* A preparation that may be claimed or given back belongs to the newest   *)
(* update, and the control thread is not at work on another.               *)
THEOREM PreparationHolds == Spec => []PreparationProtocol
<1>1. Init => PreparationProtocol
  BY SMT DEF Init, PreparationProtocol, Claimable, NoEpoch
<1>2. QED
  BY <1>1, TypeCorrect, ProtocolHolds, PreparationStep, PTL DEF Spec

(* What a callback may claim was prepared with the control truth of this   *)
(* moment.                                                                 *)
THEOREM PreparationCurrent == Spec => []PreparedIsCurrent
<1>1. PreparationProtocol => PreparedIsCurrent
  BY SMT DEF PreparationProtocol, Claimable, Current, PreparedIsCurrent
<1>2. QED
  BY <1>1, PreparationHolds, PTL

-----------------------------------------------------------------------------
(* What a block is made of                                                 *)

Heard == <<request, window, block, rendered>>

(* The only steps that move a generation.                                  *)
LEMMA GenerationSteps ==
  ASSUME TypeOK, PreparationProtocol, [Next]_vars
  PROVE  \/ /\ UNCHANGED <<backend, propagation>> /\ UNCHANGED Heard
            /\ audio' = "correlate" => audio = "correlate"
         \/ DirectPass /\ UNCHANGED <<propagation, audio>> /\ UNCHANGED Heard
         \/ /\ PublishPropagation /\ backend.truth = truth
            /\ UNCHANGED <<backend, audio>> /\ UNCHANGED Heard
         \/ ReadPropagation
         \/ Correlate
<1> USE DEF Heard
<1>1. CASE UNCHANGED vars
  BY <1>1 DEF vars
<1>2. CASE ControlCall
  BY <1>2, SMT DEF ControlCall, Configure, BeginUpdate, BeginPrepare, audioVars
<1>3. CASE UpdateDirect \/ PrepareSimulation
  BY <1>3, SMT DEF UpdateDirect, PrepareSimulation, audioVars
<1>4. CASE UpdatePropagation \/ PreparePropagation
  BY <1>4, SMT DEF UpdatePropagation, PreparePropagation, PreparationProtocol, audioVars
<1>5. CASE NoteWon \/ NoteLost \/ Apply \/ UpdateIndirect \/ Examine \/ RevokeWon
           \/ RevokeLost \/ TakeGraph \/ PrimeGraph \/ MarkPrepared
  BY <1>5, SMT DEF NoteWon, NoteLost, Apply, UpdateIndirect, Examine, RevokeWon, RevokeLost,
     TakeGraph, PrimeGraph, MarkPrepared, audioVars
<1>6. CASE RenderEnter \/ RenderInvalid \/ ClaimLoad \/ ClaimWon \/ ClaimLost
           \/ FinishWon \/ UndoWon \/ FinishLost
  BY <1>6, SMT DEF RenderEnter, RenderInvalid, ClaimLoad, ClaimWon, ClaimLost, FinishWon,
     UndoWon, FinishLost, controlVars
<1>7. QED
  BY <1>1, <1>2, <1>3, <1>4, <1>5, <1>6 DEF Next, ControlStep, Audio

LEMMA CoherenceStep ==
  TypeOK /\ PreparationProtocol /\ Coherence /\ [Next]_vars => Coherence'
<1> SUFFICES ASSUME TypeOK, PreparationProtocol, Coherence, [Next]_vars PROVE Coherence'
  OBVIOUS
<1> USE DEF Coherence, Generations, BlockIsOneTruth, Heard
<1>1. CASE UNCHANGED <<backend, propagation>> /\ UNCHANGED Heard
  BY <1>1, SMT
<1>2. CASE DirectPass /\ UNCHANGED <<propagation, audio>> /\ UNCHANGED Heard
  BY <1>2, SMT DEF DirectPass, Generation, TypeOK, NoGeneration
<1>3. CASE /\ PublishPropagation /\ backend.truth = truth
           /\ UNCHANGED <<backend, audio>> /\ UNCHANGED Heard
  BY <1>3, SMT DEF PublishPropagation, Generation, TypeOK
<1>4. CASE ReadPropagation
  BY <1>4, SMT DEF ReadPropagation, controlVars
<1>5. CASE Correlate
  <2>1. window'.current = backend /\ window'.previous \in Generations \cup {NoGeneration}
    BY <1>5, SMT DEF Correlate, WindowAfter
  <2>2. UNCHANGED <<backend, propagation, request>>
    BY <1>5 DEF Correlate, controlVars
  <2>3. /\ \A g \in Generations' : g.direct <= backend.direct
        /\ \A g, h \in Generations' : g.direct = h.direct => g.truth = h.truth
    BY <2>1, <2>2, SMT DEF TypeOK, NoGeneration
  <2>4. Resolved(window') \subseteq Generations'
    BY DEF Resolved
  <2>5. BlockIsOneTruth'
    BY <1>5, <2>2, <2>3, <2>4, SMT DEF Correlate, Resolved
  <2>6. QED
    BY <2>2, <2>3, <2>5
<1>6. QED
  BY <1>1, <1>2, <1>3, <1>4, <1>5, GenerationSteps

(* A direct sequence names one update, wherever it is kept.                *)
THEOREM CoherenceHolds == Spec => []Coherence
<1>1. Init => Coherence
  BY SMT DEF Init, Coherence, Generations, Generation, NoGeneration, BlockIsOneTruth
<1>2. QED
  BY <1>1, TypeCorrect, PreparationHolds, CoherenceStep, PTL DEF Spec

(* A block that sounds is made of one update.                              *)
THEOREM BlockCoherent == Spec => []BlockIsOneTruth
  BY CoherenceHolds, PTL DEF Coherence

LEMMA AbsorptionStep ==
  TypeOK /\ PreparationProtocol /\ Coherence /\ Absorption /\ [Next]_vars => Absorption'
<1> SUFFICES ASSUME TypeOK, PreparationProtocol, Coherence, Absorption, [Next]_vars
             PROVE  Absorption'
  OBVIOUS
<1> USE DEF Absorption, Heard
<1>0. /\ propagation.direct <= backend.direct /\ request.direct <= backend.direct
      /\ window.current.direct <= backend.direct
  BY DEF Coherence, Generations
<1>1. CASE /\ UNCHANGED <<backend, propagation>> /\ UNCHANGED Heard
           /\ audio' = "correlate" => audio = "correlate"
  BY <1>1, SMT
<1>2. CASE DirectPass /\ UNCHANGED <<propagation, audio>> /\ UNCHANGED Heard
  BY <1>2, SMT DEF DirectPass, Generation, TypeOK
<1>3. CASE /\ PublishPropagation /\ backend.truth = truth
           /\ UNCHANGED <<backend, audio>> /\ UNCHANGED Heard
  BY <1>0, <1>3, SMT DEF PublishPropagation, Generation, TypeOK
<1>4. CASE ReadPropagation
  BY <1>4, SMT DEF ReadPropagation, controlVars, TypeOK
<1>5. CASE Correlate
  <2>1. /\ UNCHANGED <<backend, propagation, request>> /\ audio' # "correlate"
        /\ audio = "correlate" /\ window' = WindowAfter(backend)
    BY <1>5 DEF Correlate, controlVars
  <2>2. window'.current = backend
    BY <2>1 DEF WindowAfter
  <2>3. \/ window'.previous = NoGeneration
        \/ window'.previous.direct = window'.current.direct - 1
    BY <2>1, SMT DEF WindowAfter, TypeOK
  <2>4. CASE \E g \in Resolved(window') :
               /\ block' = [kind |-> "valid", motion |-> g.truth, runtime |-> request.truth]
               /\ rendered' = request.direct
    BY <2>1, <2>2, <2>3, <2>4, SMT DEF Resolved, TypeOK, NoGeneration
  <2>5. CASE /\ Resolved(window') = {}
             /\ block' = [kind |-> "silent", motion |-> 0, runtime |-> 0]
             /\ UNCHANGED rendered
    <3>1. request.direct # window'.current.direct /\ request.direct # window'.previous.direct
      BY <2>5 DEF Resolved
    <3>2. rendered >= 0 =>
            \/ window'.current.direct = rendered
            \/ window'.current.direct = rendered + 1 /\ window'.previous.direct = rendered
            \/ window'.current.direct >= rendered + 2
      BY <1>0, <2>1, SMT DEF WindowAfter, TypeOK
    <3>3. rendered >= 0 => backend.direct >= rendered + 2
      BY <1>0, <2>1, <2>2, <3>1, <3>2, SMT DEF TypeOK
    <3>4. QED
      BY <2>1, <2>2, <2>3, <2>5, <3>2, <3>3, SMT
  <2>6. QED
    BY <1>5, <2>4, <2>5 DEF Correlate
<1>6. QED
  BY <1>1, <1>2, <1>3, <1>4, <1>5, GenerationSteps

(* The window stays within reach of the block heard last.                  *)
THEOREM AbsorptionHolds == Spec => []Absorption
<1>1. Init => Absorption
  BY SMT DEF Init, Absorption, Generation, NoGeneration
<1>2. QED
  BY <1>1, TypeCorrect, PreparationHolds, CoherenceHolds, AbsorptionStep, PTL DEF Spec

(* A block falls silent only if two direct passes finished since the       *)
(* generation heard last.                                                  *)
THEOREM UpdateAbsorbed == Spec => OneUpdateIsAbsorbed
<1> DEFINE Falls == audio = "correlate" /\ block'.kind = "silent" /\ rendered >= 0
                      => backend.direct >= rendered + 2
<1>1. TypeOK /\ PreparationProtocol /\ Absorption /\ Absorption' /\ [Next]_vars => [Falls]_vars
  <2> SUFFICES ASSUME TypeOK, PreparationProtocol, Absorption, Absorption', [Next]_vars
               PROVE  Falls
    OBVIOUS
  <2>1. CASE Correlate
    BY <2>1, SMT DEF Correlate, Absorption, controlVars
  <2>2. CASE UNCHANGED block
    BY <2>2, SMT DEF Absorption
  <2>3. QED
    BY <2>1, <2>2, GenerationSteps DEF Heard, ReadPropagation, DirectPass, PublishPropagation
<1>2. QED
  BY <1>1, TypeCorrect, PreparationHolds, AbsorptionHolds, PTL DEF Spec, OneUpdateIsAbsorbed

=============================================================================
