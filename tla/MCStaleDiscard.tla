--------------------------- MODULE MCStaleDiscard ---------------------------
(***************************************************************************)
(* The scheduler with the memory of a host that discards a batch twice.    *)
(***************************************************************************)
EXTENDS MCMacroScheduler

VARIABLE discarded  \* batches discarded and not handed out again

StaleInit == Init /\ discarded = {}

Discarding(batch) == DiscardReserved(batch) /\ discarded' = discarded \cup {batch}

Other ==
  /\ \/ \E es \in SUBSET Events : AdmitGroup(es)
     \/ \E lookahead \in now..MaxFrame : ReserveNextActivation(lookahead)
     \/ Advance
  /\ discarded' = discarded \ {{Record(s) : s \in Reserved}'}

StaleNext == Other \/ \E batch \in batches : Discarding(batch)

StaleSpec == StaleInit /\ [][StaleNext]_<<vars, discarded>>

(* The doc of discard_reserved: "Repeating the same discard while records  *)
(* remain queued is idempotent."                                           *)
RepeatedDiscardIsIdempotent ==
  [][\A batch \in discarded : Discarding(batch) => UNCHANGED queue]_<<vars, discarded>>
=============================================================================
