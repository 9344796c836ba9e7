------------------------ MODULE CellStreaming_proofs ------------------------
(***************************************************************************)
(* The memory budget, the identity of resident worlds, the fallback flag   *)
(* and the authority over two worlds, for any cells, sizes and limits.     *)
(*                                                                         *)
(* Beyond the properties themselves the invariant says when the manager    *)
(* has one world, two, or one and a promise (Residency), and that a ticket *)
(* is issued for one cell and never issued again (Tickets), which is what  *)
(* keeps a late result away from a later preparation.                      *)
(***************************************************************************)
EXTENDS CellStreaming, TLAPS

Residency ==
  /\ retiring # NoResident => neighbor = NoNeighbor
  /\ neighbor.cell # active.cell
  /\ retiring.cell # active.cell
  /\ neighbor.state # "Prepared" => neighbor.bytes = 0 /\ neighbor.payload = neighbor.cell
  /\ neighbor.state = "Prepared" => neighbor.estimate = 0
  /\ neighbor.state \in {"Queued", "Preparing"} =>
       neighbor.sampled = OtherBytes + active.bytes

Tickets ==
  /\ neighbor.state # "None" => neighbor.ticket < nextTicket
  /\ \A j \in jobs : j.ticket < nextTicket
  /\ neighbor.state # "None" =>
       \A j \in jobs : j.ticket = neighbor.ticket => j.cell = neighbor.cell

Inv ==
  /\ TypeOK /\ Residency /\ Tickets
  /\ MemoryWithinLimits /\ PayloadOfItsCell /\ FallbackUnlessServed

-----------------------------------------------------------------------------
LEMMA InitInv == Init => Inv
<1> USE CellAssumption DEF Init, NoNeighbor, NoResident
<1>1. Init => TypeOK
  <2>1. Init => fallback \in BOOLEAN
    BY Zenon
  <2>2. Init => /\ active \in Resident
                /\ neighbor \in Neighbors \cup {NoNeighbor}
                /\ retiring \in Resident \cup {NoResident}
                /\ nextTicket \in 1..MaxTickets + 1
                /\ lastRequested \in Cells \cup {None}
                /\ jobs \subseteq Jobs
    BY SMT DEF Resident, Jobs
  <2>3. QED
    BY <2>1, <2>2 DEF TypeOK
<1>2. Init => Residency /\ Tickets /\ MemoryWithinLimits /\ PayloadOfItsCell
  BY SMT DEF Residency, Tickets, MemoryWithinLimits, PayloadOfItsCell
<1>3. Init => FallbackUnlessServed
  BY DEF FallbackUnlessServed
<1>4. QED
  BY <1>1, <1>2, <1>3 DEF Inv

(* request_prepare                                                         *)
LEMMA RequestInv ==
  ASSUME Inv, NEW c \in Cells, NEW e \in Estimates, NEW r \in Reserves,
         RequestPrepare(c, e, r)
  PROVE  Inv'
<1> USE CellAssumption
    DEF Inv, TypeOK, Resident, NoResident, Neighbors, NoNeighbor, Jobs, Residency,
        Tickets, MemoryWithinLimits, PayloadOfItsCell, FallbackUnlessServed,
        ProcessBytes
<1>1. active' \in Resident /\ retiring' \in Resident \cup {NoResident}
  BY SMTT(30) DEF RequestPrepare, Open, Pending, Admitted, Replaceable, Admissible, Plus
<1>2. neighbor' \in Neighbors \cup {NoNeighbor} /\ nextTicket' \in 1..MaxTickets + 1
  BY SMTT(30) DEF RequestPrepare, Open, Pending, Admitted, Replaceable, Admissible, Plus
<1>3. lastRequested' \in Cells \cup {None} /\ jobs' \subseteq Jobs
  BY SMTT(30) DEF RequestPrepare, Open, Pending, Admitted, Replaceable, Admissible, Plus
<1>4. fallback' \in BOOLEAN
  BY Zenon DEF RequestPrepare, Open, Pending, Admitted, Replaceable, Admissible, Plus
<1>5. Residency'
  BY SMTT(30) DEF RequestPrepare, Open, Pending, Admitted, Replaceable, Admissible, Plus
<1>6. Tickets'
  BY SMTT(30) DEF RequestPrepare, Open, Pending, Admitted, Replaceable, Admissible, Plus
<1>7. MemoryWithinLimits'
  BY SMTT(30) DEF RequestPrepare, Open, Pending, Admitted, Replaceable, Admissible, Plus
<1>8. PayloadOfItsCell'
  BY SMTT(30) DEF RequestPrepare, Open, Pending, Admitted, Replaceable, Admissible, Plus
<1>9. FallbackUnlessServed'
  BY SMTT(30) DEF RequestPrepare, Open, Pending, Admitted, Replaceable, Admissible, Plus
<1>10. QED
  BY <1>1, <1>2, <1>3, <1>4, <1>5, <1>6, <1>7, <1>8, <1>9

(* start_prepare                                                           *)
LEMMA StartInv ==
  ASSUME Inv, StartPrepare
  PROVE  Inv'
<1> USE CellAssumption
    DEF Inv, TypeOK, Resident, NoResident, Neighbors, NoNeighbor, Jobs, Residency,
        Tickets, MemoryWithinLimits, PayloadOfItsCell, FallbackUnlessServed,
        ProcessBytes
<1>1. active' \in Resident /\ retiring' \in Resident \cup {NoResident}
  BY SMTT(30) DEF StartPrepare
<1>2. neighbor' \in Neighbors \cup {NoNeighbor} /\ nextTicket' \in 1..MaxTickets + 1
  BY SMTT(30) DEF StartPrepare
<1>3. lastRequested' \in Cells \cup {None} /\ jobs' \subseteq Jobs
  BY SMTT(30) DEF StartPrepare
<1>4. fallback' \in BOOLEAN
  BY Zenon DEF StartPrepare
<1>5. Residency'
  BY SMTT(30) DEF StartPrepare
<1>6. Tickets'
  BY SMTT(30) DEF StartPrepare
<1>7. MemoryWithinLimits'
  BY SMTT(30) DEF StartPrepare
<1>8. PayloadOfItsCell'
  BY SMTT(30) DEF StartPrepare
<1>9. FallbackUnlessServed'
  BY SMTT(30) DEF StartPrepare
<1>10. QED
  BY <1>1, <1>2, <1>3, <1>4, <1>5, <1>6, <1>7, <1>8, <1>9

(* complete_prepare                                                        *)
LEMMA CompleteInv ==
  ASSUME Inv, NEW job \in jobs, NEW actual \in Actuals, CompletePrepare(job, actual)
  PROVE  Inv'
<1> USE CellAssumption
    DEF Inv, TypeOK, Resident, NoResident, Neighbors, NoNeighbor, Jobs, Residency,
        Tickets, MemoryWithinLimits, PayloadOfItsCell, FallbackUnlessServed,
        ProcessBytes
<1>1. CASE ~Answers(job)
  <2>1. UNCHANGED <<active, neighbor, retiring, nextTicket, lastRequested, fallback>>
    BY <1>1 DEF CompletePrepare
  <2>2. jobs' \subseteq jobs
    BY DEF CompletePrepare
  <2>3. TypeOK' /\ Residency' /\ MemoryWithinLimits' /\ PayloadOfItsCell'
          /\ FallbackUnlessServed'
    BY <2>1, <2>2
  <2>4. Tickets'
    BY <2>1, <2>2, SMT
  <2>5. QED
    BY <2>3, <2>4
<1>2. CASE Answers(job) /\ Acceptable(actual)
  <2>1. /\ neighbor' = [state |-> "Prepared", ticket |-> neighbor.ticket,
                       sampled |-> neighbor.sampled, estimate |-> 0,
                       cell |-> neighbor.cell, bytes |-> actual, payload |-> job.cell]
        /\ neighbor \in Neighbors /\ neighbor.state = "Preparing"
        /\ job.cell = neighbor.cell /\ lastRequested = neighbor.cell
    <3>1. neighbor \in Neighbors /\ neighbor.state = "Preparing"
      BY <1>2, SMT DEF Answers
    <3>2. job.cell = neighbor.cell /\ lastRequested = neighbor.cell
      BY <1>2, SMT DEF Answers, Acceptable
    <3>3. neighbor' = [neighbor EXCEPT !.state = "Prepared", !.estimate = 0,
                                       !.bytes = actual, !.payload = job.cell]
      BY <1>2 DEF CompletePrepare
    <3>4. QED
      BY <3>1, <3>2, <3>3
  <2>2. /\ fallback' = FALSE
        /\ UNCHANGED <<active, retiring, nextTicket, lastRequested>>
        /\ jobs' \subseteq jobs
    BY <1>2 DEF CompletePrepare
  <2>3. actual \in Nat /\ neighbor.sampled + actual <= Limits.target
    BY <1>2, <2>1, SMTT(30) DEF Acceptable, Plus
  <2>4. TypeOK'
    BY <2>1, <2>2, <2>3
  <2>5. Residency'
    BY <2>1, <2>2, <2>3, SMTT(30)
  <2>6. Tickets'
    <3>1. neighbor'.ticket = neighbor.ticket /\ neighbor'.cell = neighbor.cell
      BY <2>1
    <3>2. QED
      BY <2>1, <2>2, <3>1
  <2>7. MemoryWithinLimits'
    BY <2>1, <2>2, <2>3, SMTT(30)
  <2>8. PayloadOfItsCell' /\ FallbackUnlessServed'
    BY <2>1, <2>2
  <2>9. QED
    BY <2>4, <2>5, <2>6, <2>7, <2>8
<1>3. CASE Answers(job) /\ ~Acceptable(actual)
  <2>1. /\ neighbor' = NoNeighbor /\ fallback' = TRUE
        /\ UNCHANGED <<active, retiring, nextTicket, lastRequested>>
        /\ jobs' \subseteq jobs
        /\ retiring = NoResident
    BY <1>3, SMT DEF CompletePrepare, Answers
  <2>2. TypeOK' /\ Residency' /\ Tickets' /\ MemoryWithinLimits' /\ PayloadOfItsCell'
    BY <2>1, SMTT(30)
  <2>3. FallbackUnlessServed'
    BY <2>1
  <2>4. QED
    BY <2>2, <2>3
<1>4. QED
  BY <1>1, <1>2, <1>3

(* fail_prepare                                                            *)
LEMMA FailInv ==
  ASSUME Inv, NEW finished \in SUBSET jobs, FailPrepare(finished)
  PROVE  Inv'
<1> USE CellAssumption
    DEF Inv, TypeOK, Resident, NoResident, Neighbors, NoNeighbor, Jobs, Residency,
        Tickets, MemoryWithinLimits, PayloadOfItsCell, FallbackUnlessServed,
        ProcessBytes
<1>1. active' \in Resident /\ retiring' \in Resident \cup {NoResident}
  BY SMTT(30) DEF FailPrepare
<1>2. neighbor' \in Neighbors \cup {NoNeighbor} /\ nextTicket' \in 1..MaxTickets + 1
  BY SMTT(30) DEF FailPrepare
<1>3. lastRequested' \in Cells \cup {None} /\ jobs' \subseteq Jobs
  BY SMTT(30) DEF FailPrepare
<1>4. fallback' \in BOOLEAN
  BY Zenon DEF FailPrepare
<1>5. Residency'
  BY SMTT(30) DEF FailPrepare
<1>6. Tickets'
  BY SMTT(30) DEF FailPrepare
<1>7. MemoryWithinLimits'
  BY SMTT(30) DEF FailPrepare
<1>8. PayloadOfItsCell'
  BY SMTT(30) DEF FailPrepare
<1>9. FallbackUnlessServed'
  BY SMTT(30) DEF FailPrepare
<1>10. QED
  BY <1>1, <1>2, <1>3, <1>4, <1>5, <1>6, <1>7, <1>8, <1>9

(* cancel_unstarted                                                        *)
LEMMA CancelInv ==
  ASSUME Inv, CancelUnstarted
  PROVE  Inv'
<1> USE CellAssumption
    DEF Inv, TypeOK, Resident, NoResident, Neighbors, NoNeighbor, Jobs, Residency,
        Tickets, MemoryWithinLimits, PayloadOfItsCell, FallbackUnlessServed,
        ProcessBytes
<1>1. active' \in Resident /\ retiring' \in Resident \cup {NoResident}
  BY SMTT(30) DEF CancelUnstarted
<1>2. neighbor' \in Neighbors \cup {NoNeighbor} /\ nextTicket' \in 1..MaxTickets + 1
  BY SMTT(30) DEF CancelUnstarted
<1>3. lastRequested' \in Cells \cup {None} /\ jobs' \subseteq Jobs
  BY SMTT(30) DEF CancelUnstarted
<1>4. fallback' \in BOOLEAN
  BY Zenon DEF CancelUnstarted
<1>5. Residency'
  BY SMTT(30) DEF CancelUnstarted
<1>6. Tickets'
  BY SMTT(30) DEF CancelUnstarted
<1>7. MemoryWithinLimits'
  BY SMTT(30) DEF CancelUnstarted
<1>8. PayloadOfItsCell'
  BY SMTT(30) DEF CancelUnstarted
<1>9. FallbackUnlessServed'
  BY SMTT(30) DEF CancelUnstarted
<1>10. QED
  BY <1>1, <1>2, <1>3, <1>4, <1>5, <1>6, <1>7, <1>8, <1>9

(* adopt_prepared                                                          *)
LEMMA AdoptInv ==
  ASSUME Inv, AdoptPrepared
  PROVE  Inv'
<1> USE CellAssumption
    DEF Inv, TypeOK, Resident, NoResident, Neighbors, NoNeighbor, Jobs, Residency,
        Tickets, MemoryWithinLimits, PayloadOfItsCell, FallbackUnlessServed,
        ProcessBytes
<1>1. active' \in Resident /\ retiring' \in Resident \cup {NoResident}
  BY SMTT(30) DEF AdoptPrepared
<1>2. neighbor' \in Neighbors \cup {NoNeighbor} /\ nextTicket' \in 1..MaxTickets + 1
  BY SMTT(30) DEF AdoptPrepared
<1>3. lastRequested' \in Cells \cup {None} /\ jobs' \subseteq Jobs
  BY SMTT(30) DEF AdoptPrepared
<1>4. fallback' \in BOOLEAN
  BY Zenon DEF AdoptPrepared
<1>5. Residency'
  BY SMTT(30) DEF AdoptPrepared
<1>6. Tickets'
  BY SMTT(30) DEF AdoptPrepared
<1>7. MemoryWithinLimits'
  BY SMTT(30) DEF AdoptPrepared
<1>8. PayloadOfItsCell'
  BY SMTT(30) DEF AdoptPrepared
<1>9. FallbackUnlessServed'
  <2>1. CASE lastRequested = neighbor.cell
    BY <2>1, SMT DEF AdoptPrepared
  <2>2. CASE lastRequested # neighbor.cell
    <3>1. fallback' = TRUE
      BY <2>2 DEF AdoptPrepared
    <3>2. QED
      BY <3>1
  <2>3. QED
    BY <2>1, <2>2
<1>10. QED
  BY <1>1, <1>2, <1>3, <1>4, <1>5, <1>6, <1>7, <1>8, <1>9

(* finish_tail_retirement                                                  *)
LEMMA FinishInv ==
  ASSUME Inv, FinishTailRetirement
  PROVE  Inv'
<1> USE CellAssumption
    DEF Inv, TypeOK, Resident, NoResident, Neighbors, NoNeighbor, Jobs, Residency,
        Tickets, MemoryWithinLimits, PayloadOfItsCell, FallbackUnlessServed,
        ProcessBytes
<1>1. active' \in Resident /\ retiring' \in Resident \cup {NoResident}
  BY SMTT(30) DEF FinishTailRetirement
<1>2. neighbor' \in Neighbors \cup {NoNeighbor} /\ nextTicket' \in 1..MaxTickets + 1
  BY SMTT(30) DEF FinishTailRetirement
<1>3. lastRequested' \in Cells \cup {None} /\ jobs' \subseteq Jobs
  BY SMTT(30) DEF FinishTailRetirement
<1>4. fallback' \in BOOLEAN
  BY Zenon DEF FinishTailRetirement
<1>5. Residency'
  BY SMTT(30) DEF FinishTailRetirement
<1>6. Tickets'
  BY SMTT(30) DEF FinishTailRetirement
<1>7. MemoryWithinLimits'
  BY SMTT(30) DEF FinishTailRetirement
<1>8. PayloadOfItsCell'
  BY SMTT(30) DEF FinishTailRetirement
<1>9. FallbackUnlessServed'
  BY SMTT(30) DEF FinishTailRetirement
<1>10. QED
  BY <1>1, <1>2, <1>3, <1>4, <1>5, <1>6, <1>7, <1>8, <1>9

-----------------------------------------------------------------------------
(* The budget, the identities and the tickets hold in every instance.      *)
THEOREM ManagerInvariant == Spec => []Inv
<1>1. ASSUME Inv, UNCHANGED vars PROVE Inv'
  BY <1>1 DEF vars, Inv, TypeOK, Residency, Tickets, MemoryWithinLimits, PayloadOfItsCell,
              FallbackUnlessServed, ProcessBytes
<1>2. Inv /\ [Next]_vars => Inv'
  BY <1>1, RequestInv, StartInv, CompleteInv, FailInv, CancelInv, AdoptInv, FinishInv
  DEF Next
<1>3. QED
  BY InitInv, <1>2, PTL DEF Spec

THEOREM TypeCorrect == Spec => []TypeOK
<1>1. Inv => TypeOK
  BY DEF Inv
<1>2. QED
  BY <1>1, ManagerInvariant, PTL

(* Neither a preparation nor a second resident world breaks the budget the *)
(* one sample at admission was checked against.                            *)
THEOREM MemoryBudget == Spec => []MemoryWithinLimits
<1>1. Inv => MemoryWithinLimits
  BY DEF Inv
<1>2. QED
  BY <1>1, ManagerInvariant, PTL

(* A late result is never taken for another cell's world.                  *)
THEOREM NoForeignPayload == Spec => []PayloadOfItsCell
<1>1. Inv => PayloadOfItsCell
  BY DEF Inv
<1>2. QED
  BY <1>1, ManagerInvariant, PTL

(* The fallback flag is off only while the last request is being served.   *)
THEOREM FallbackCorrect == Spec => []FallbackUnlessServed
<1>1. Inv => FallbackUnlessServed
  BY DEF Inv
<1>2. QED
  BY <1>1, ManagerInvariant, PTL

-----------------------------------------------------------------------------
(* Publishing, failing, adopting and retiring are the four steps of the    *)
(* authority over two worlds; every other call leaves it alone.            *)
THEOREM Refinement == Spec => ImplementsAuthority
<1> DEFINE Ready == IF neighbor.state = "Prepared" THEN neighbor.cell ELSE None
           Same == UNCHANGED <<active.cell, Ready, retiring.cell>>
<1>1. Init => Authority!Init
  BY CellAssumption DEF Init, Authority!Init, NoNeighbor, NoResident
<1>2. Inv /\ [Next]_vars => [Authority!Next]_<<active.cell, Ready, retiring.cell>>
  <2> SUFFICES ASSUME Inv, [Next]_vars
               PROVE  Authority!Next \/ Same
    OBVIOUS
  <2>1. ASSUME NEW c \in Cells, NEW e \in Estimates, NEW r \in Reserves,
               RequestPrepare(c, e, r)
        PROVE  Same
    BY <2>1, SMT DEF RequestPrepare, Replaceable, Admitted
  <2>2. CASE StartPrepare \/ CancelUnstarted
    BY <2>2, SMT DEF StartPrepare, CancelUnstarted, Inv, TypeOK, Neighbors, NoNeighbor
  <2>3. ASSUME NEW job \in jobs, NEW actual \in Actuals, CompletePrepare(job, actual)
        PROVE  Authority!Next \/ Same
    <3>1. CASE ~Answers(job)
      BY <2>3, <3>1, SMT DEF CompletePrepare
    <3>2. CASE Answers(job) /\ ~Acceptable(actual)
      BY <2>3, <3>2, SMT DEF CompletePrepare, Answers, NoNeighbor
    <3>3. CASE Answers(job) /\ Acceptable(actual)
      <4>1. neighbor \in Neighbors /\ neighbor.state = "Preparing"
        BY <3>3, SMT DEF Answers, Inv, TypeOK, NoNeighbor
      <4>2. neighbor' = [neighbor EXCEPT !.state = "Prepared", !.estimate = 0,
                                         !.bytes = actual, !.payload = job.cell]
        BY <2>3, <3>3 DEF CompletePrepare
      <4>3. neighbor'.state = "Prepared" /\ neighbor'.cell = neighbor.cell
        BY <4>1, <4>2, SMT DEF Neighbors
      <4>4. Ready = None /\ Ready' = neighbor.cell /\ neighbor.cell \in Cells
        BY <4>1, <4>3, SMT DEF Neighbors
      <4>5. neighbor.cell # active.cell /\ retiring.cell = None
        BY <4>1, SMT DEF Inv, Residency, NoNeighbor, NoResident
      <4>6. UNCHANGED <<active.cell, retiring.cell>>
        BY <2>3 DEF CompletePrepare
      <4>7. Authority!Prepare(neighbor.cell)
        BY <4>4, <4>5, <4>6 DEF Authority!Prepare
      <4>8. QED
        BY <4>4, <4>7 DEF Authority!Next
    <3>4. QED
      BY <3>1, <3>2, <3>3
  <2>4. ASSUME NEW finished \in SUBSET jobs, FailPrepare(finished)
        PROVE  Authority!Next \/ Same
    <3>1. neighbor \in Neighbors
      BY <2>4 DEF FailPrepare, Inv, TypeOK, NoNeighbor
    <3>2. Ready' = None /\ UNCHANGED <<active.cell, retiring.cell>>
      BY <2>4 DEF FailPrepare, NoNeighbor
    <3>3. CASE neighbor.state = "Prepared"
      <4>1. Authority!Discard
        BY <3>1, <3>2, <3>3, CellAssumption DEF Authority!Discard, Neighbors
      <4>2. QED
        BY <4>1 DEF Authority!Next
    <3>4. CASE neighbor.state # "Prepared"
      BY <3>2, <3>4
    <3>5. QED
      BY <3>3, <3>4
  <2>5. CASE AdoptPrepared
    <3>1. neighbor \in Neighbors
      BY <2>5 DEF AdoptPrepared, Inv, TypeOK, NoNeighbor
    <3>2. Ready = neighbor.cell /\ Ready # None /\ retiring.cell = None
      BY <2>5, <3>1, CellAssumption DEF AdoptPrepared, Neighbors, NoResident
    <3>3. active'.cell = neighbor.cell /\ retiring'.cell = active.cell /\ Ready' = None
      BY <2>5 DEF AdoptPrepared, NoNeighbor
    <3>4. Authority!Adopt
      BY <3>2, <3>3 DEF Authority!Adopt
    <3>5. QED
      BY <3>4 DEF Authority!Next
  <2>6. CASE FinishTailRetirement
    <3>1. retiring \in Resident
      BY <2>6 DEF FinishTailRetirement, Inv, TypeOK
    <3>2. /\ retiring.cell # None /\ retiring'.cell = None
          /\ UNCHANGED <<active.cell, Ready>>
      BY <2>6, <3>1, CellAssumption DEF FinishTailRetirement, Resident, NoResident
    <3>3. Authority!Retire
      BY <3>2 DEF Authority!Retire
    <3>4. QED
      BY <3>3 DEF Authority!Next
  <2>7. CASE UNCHANGED vars
    BY <2>7 DEF vars
  <2>8. QED
    BY <2>1, <2>2, <2>3, <2>4, <2>5, <2>6, <2>7 DEF Next
<1>3. QED
  BY <1>1, <1>2, ManagerInvariant, PTL DEF Spec, ImplementsAuthority, Authority!Spec

=============================================================================
