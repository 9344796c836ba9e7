--------------------------- MODULE CellStreaming ---------------------------
(***************************************************************************)
(* CellStreamManager of fightbox-runtime/src/cell_streaming.rs with its    *)
(* host: the control thread calls the manager, and the jobs it starts run  *)
(* on loaders whose results come back late, in any order, or for a ticket  *)
(* that the manager has meanwhile given up.                                *)
(*                                                                         *)
(* A call with a ticket the manager does not hold returns an error and     *)
(* changes nothing; it is a step only where it consumes a loader's result. *)
(* Telemetry that nothing reads back (peaks, latencies, last reasons) is   *)
(* left out.                                                               *)
(***************************************************************************)
EXTENDS Integers

CONSTANTS
  Cells,       \* cell identities
  First,       \* the cell new() starts with
  FirstBytes,  \* and its resident bytes
  None,        \* no cell
  Estimates,   \* CellPrepareEstimate: [raw, prepared, scratch]
  Actuals,     \* resident bytes a loader may really deliver
  Reserves,    \* advisory_reserve_bytes a sample may show
  OtherBytes,  \* what the process holds besides resident worlds
  MaxBytes,    \* the largest u64, where saturating_add stops
  Limits,      \* CellStreamingLimits: [raw, reserve, target, peak]
  MaxTickets   \* bound: tickets issued

ASSUME CellAssumption ==
  /\ First \in Cells /\ None \notin Cells
  /\ FirstBytes \in Nat /\ OtherBytes \in Nat /\ MaxBytes \in Nat
  /\ MaxTickets \in Nat
  /\ Estimates \subseteq [raw: Nat, prepared: Nat, scratch: Nat]
  /\ Actuals \subseteq Nat /\ Reserves \subseteq Nat
  /\ Limits \in [raw: Nat, reserve: Nat, target: Nat, peak: Nat]
  /\ Limits.target < MaxBytes /\ Limits.peak < MaxBytes
  /\ OtherBytes + FirstBytes <= MaxBytes

VARIABLES
  active,         \* .active: [cell, bytes, payload]
  neighbor,       \* .neighbor, with state "None" when there is none
  retiring,       \* .retiring, with cell None when there is none
  nextTicket,     \* .next_ticket
  lastRequested,  \* .last_requested
  fallback,       \* .coarse_macro_fallback
  jobs            \* the PrepareJobs the loaders have

vars == <<active, neighbor, retiring, nextTicket, lastRequested, fallback, jobs>>

Resident == [cell: Cells, bytes: Nat, payload: Cells]
NoResident == [cell |-> None, bytes |-> 0, payload |-> None]

(* One record for the three variants of Neighbor: `estimate` is what is    *)
(* still to be allocated for it, `cell` what is or will be resident.       *)
Neighbors == [state: {"Queued", "Preparing", "Prepared"}, ticket: Nat,
              sampled: Nat, estimate: Nat, cell: Cells, bytes: Nat, payload: Cells]
NoNeighbor == [state |-> "None", ticket |-> 0, sampled |-> 0, estimate |-> 0,
               cell |-> None, bytes |-> 0, payload |-> None]

Jobs == [ticket: Nat, cell: Cells]

Init ==
  /\ active = [cell |-> First, bytes |-> FirstBytes, payload |-> First]
  /\ neighbor = NoNeighbor
  /\ retiring = NoResident
  /\ nextTicket = 1
  /\ lastRequested = None
  /\ fallback = FALSE
  /\ jobs = {}

Plus(a, b) == IF a + b < MaxBytes THEN a + b ELSE MaxBytes

(* What a fresh sample of the process shows: other memory and the worlds.  *)
ProcessBytes == OtherBytes + active.bytes + neighbor.bytes + retiring.bytes

-----------------------------------------------------------------------------
(* request_prepare                                                         *)

(* admission_refusal returns None.                                         *)
Admissible(e, reserve) ==
  /\ e.raw <= Limits.raw
  /\ reserve >= Limits.reserve
  /\ Plus(ProcessBytes, e.prepared) <= Limits.target
  /\ Plus(Plus(ProcessBytes, e.prepared), e.scratch) <= Limits.peak

(* Fault: a retiring tail does not block the next preparation.             *)
OpenWhileRetiring(c) == c # active.cell

(* The first two checks pass.                                              *)
Open(c) == c # active.cell /\ retiring = NoResident

Pending(c) == neighbor.cell = c

Replaceable == neighbor.state \in {"None", "Queued"}

Admitted(e, reserve) == Replaceable /\ Admissible(e, reserve)

RequestPrepare(c, e, reserve) ==
  /\ lastRequested' = c
  /\ \/ /\ Open(c) /\ Pending(c)
        /\ UNCHANGED <<neighbor, nextTicket, fallback>>
     \/ /\ Open(c) /\ ~Pending(c) /\ Admitted(e, reserve)
        /\ nextTicket <= MaxTickets
        /\ neighbor' = [state |-> "Queued", ticket |-> nextTicket,
                        sampled |-> ProcessBytes,
                        estimate |-> e.prepared + e.scratch,
                        cell |-> c, bytes |-> 0, payload |-> c]
        /\ nextTicket' = nextTicket + 1
        /\ fallback' = FALSE
     \/ /\ ~(Open(c) /\ (Pending(c) \/ Admitted(e, reserve)))
        /\ fallback' = TRUE
        /\ UNCHANGED <<neighbor, nextTicket>>
  /\ UNCHANGED <<active, retiring, jobs>>

-----------------------------------------------------------------------------
(* The life of a ticket                                                    *)

StartPrepare ==
  /\ neighbor.state = "Queued"
  /\ neighbor' = [neighbor EXCEPT !.state = "Preparing"]
  /\ jobs' = jobs \cup {[ticket |-> neighbor.ticket, cell |-> neighbor.cell]}
  /\ UNCHANGED <<active, retiring, nextTicket, lastRequested, fallback>>

(* Fault: a result is accepted for whatever is being prepared.             *)
AnswersAnyTicket(job) == neighbor.state = "Preparing"

(* complete_prepare finds its ticket in flight.                            *)
Answers(job) == neighbor.state = "Preparing" /\ neighbor.ticket = job.ticket

(* Fault: the estimate stands for what the loader delivered.               *)
AcceptableOnEstimate(actual) == lastRequested = neighbor.cell

Acceptable(actual) ==
  /\ lastRequested = neighbor.cell
  /\ Plus(neighbor.sampled, actual) <= Limits.target

(* A loader delivers: the payload moves into complete_prepare and is       *)
(* dropped there unless it is published.                                   *)
CompletePrepare(job, actual) ==
  /\ jobs' = jobs \ {job}
  /\ IF ~Answers(job)
       THEN UNCHANGED <<neighbor, fallback>>
     ELSE IF Acceptable(actual)
       THEN /\ neighbor' = [neighbor EXCEPT !.state = "Prepared", !.estimate = 0,
                                            !.bytes = actual, !.payload = job.cell]
            /\ fallback' = FALSE
       ELSE /\ neighbor' = NoNeighbor
            /\ fallback' = TRUE
  /\ UNCHANGED <<active, retiring, nextTicket, lastRequested>>

(* fail_prepare takes a ticket in any state of the neighbor.  It reports a *)
(* loader's failure, or gives up a job whose loader still runs.            *)
FailPrepare(finished) ==
  /\ neighbor.state # "None"
  /\ finished \subseteq {j \in jobs : j.ticket = neighbor.ticket}
  /\ jobs' = jobs \ finished
  /\ neighbor' = NoNeighbor
  /\ fallback' = TRUE
  /\ UNCHANGED <<active, retiring, nextTicket, lastRequested>>

CancelUnstarted ==
  /\ neighbor.state = "Queued"
  /\ neighbor' = NoNeighbor
  /\ fallback' = TRUE
  /\ UNCHANGED <<active, retiring, nextTicket, lastRequested, jobs>>

(* Fault: authority moves without looking at what the route wants now.     *)
AdoptPreparedSilently ==
  /\ neighbor.state = "Prepared"
  /\ retiring = NoResident
  /\ retiring' = active
  /\ active' = [cell |-> neighbor.cell, bytes |-> neighbor.bytes, payload |-> neighbor.payload]
  /\ neighbor' = NoNeighbor
  /\ fallback' = FALSE
  /\ UNCHANGED <<nextTicket, lastRequested, jobs>>

AdoptPrepared ==
  /\ neighbor.state = "Prepared"
  /\ retiring = NoResident
  /\ retiring' = active
  /\ active' = [cell |-> neighbor.cell, bytes |-> neighbor.bytes, payload |-> neighbor.payload]
  /\ neighbor' = NoNeighbor
  /\ fallback' = (lastRequested # neighbor.cell)
  /\ UNCHANGED <<nextTicket, lastRequested, jobs>>

FinishTailRetirement ==
  /\ retiring # NoResident
  /\ retiring' = NoResident
  /\ UNCHANGED <<active, neighbor, nextTicket, lastRequested, fallback, jobs>>

Next ==
  \/ \E c \in Cells, e \in Estimates, r \in Reserves : RequestPrepare(c, e, r)
  \/ StartPrepare
  \/ \E job \in jobs, actual \in Actuals : CompletePrepare(job, actual)
  \/ \E finished \in SUBSET jobs : FailPrepare(finished)
  \/ CancelUnstarted
  \/ AdoptPrepared
  \/ FinishTailRetirement

Spec == Init /\ [][Next]_vars

-----------------------------------------------------------------------------
(* Properties                                                              *)

TypeOK ==
  /\ active \in Resident
  /\ neighbor \in Neighbors \cup {NoNeighbor}
  /\ retiring \in Resident \cup {NoResident}
  /\ nextTicket \in 1..MaxTickets + 1
  /\ lastRequested \in Cells \cup {None}
  /\ fallback \in BOOLEAN
  /\ jobs \subseteq Jobs

(* Admission looks at one sample, taken before the preparation starts, and *)
(* completion at the same one.  As long as the rest of the process stays   *)
(* as it was, that is enough: nothing else becomes resident in between, so *)
(* a preparation never lifts the process over the peak limit, and a second *)
(* resident world never over the target.                                   *)
MemoryWithinLimits ==
  /\ neighbor.state \in {"Queued", "Preparing"} =>
       ProcessBytes + neighbor.estimate <= Limits.peak
  /\ neighbor.state = "Prepared" \/ retiring # NoResident =>
       ProcessBytes <= Limits.target

(* Results of loaders that were given up arrive while another cell is      *)
(* being prepared: a resident world is nonetheless always the world of the *)
(* cell it is resident as.                                                 *)
PayloadOfItsCell ==
  /\ active.payload = active.cell
  /\ neighbor.payload = neighbor.cell
  /\ retiring.payload = retiring.cell

(* While the coarse fallback is off, the cell the route asked for last is  *)
(* the active one or on its way to be.                                     *)
FallbackUnlessServed ==
  fallback \/ lastRequested \in {active.cell, neighbor.cell}
           \/ lastRequested = None

(* The manager implements the authority over two worlds.                   *)
Authority == INSTANCE WorldAuthority WITH
  Worlds <- Cells,
  active <- active.cell,
  next <- IF neighbor.state = "Prepared" THEN neighbor.cell ELSE None,
  old <- retiring.cell

ImplementsAuthority == Authority!Spec
=============================================================================
