-------------------------- MODULE SnapshotChannel --------------------------
(***************************************************************************)
(* The single-producer, single-consumer triple buffer of                   *)
(* fightbox-runtime/src/snapshot.rs, at the grain of its atomic accesses.  *)
(*                                                                         *)
(* The packed word `state` names the slot that is published and the slot   *)
(* the reader holds; each end loads it and later replaces it by a          *)
(* compare-exchange.  A slot is not atomic: a payload is two words, written*)
(* and copied one after the other, so that a torn read is a state of the   *)
(* model.  The k-th publication writes k into both words.                  *)
(***************************************************************************)
EXTENDS Integers

CONSTANTS
  MaxReadAttempts,  \* MAX_READ_ATTEMPTS
  MaxPublications   \* bound: the writer stops after this many publications

ASSUME ChannelAssumption ==
  /\ MaxReadAttempts \in Nat \ {0}
  /\ MaxPublications \in Nat

Slots == 0..2

(* Contents of `state`: pack, published and reading of the code.           *)
State == [published: Slots, reading: Slots]

Payload == [low: Nat, high: Nat]

VARIABLES
  state,     \* Shared.state
  slot,      \* Shared.slots
  wpc,       \* where publish is
  wseen,     \* its local `state`
  wvalue,    \* the value being published, or the last one published
  wretries,  \* compare-exchanges this publish has lost
  rpc,       \* where read is
  rseen,     \* its local `state`
  rattempt,  \* attempts this read has lost
  rlow,      \* the word of the payload it has copied so far
  last,      \* SnapshotReader.last
  floor      \* history: the latest publication when this read began

shared == <<state, slot>>
writerVars == <<wpc, wseen, wvalue, wretries>>
readerVars == <<rpc, rseen, rattempt, rlow, last, floor>>
vars == <<state, slot, wpc, wseen, wvalue, wretries,
          rpc, rseen, rattempt, rlow, last, floor>>

Complete(k) == [low |-> k, high |-> k]

Latest == slot[state.published].low

Init ==
  /\ state = [published |-> 0, reading |-> 0]
  /\ slot = [s \in Slots |-> Complete(0)]
  /\ wpc = "idle" /\ wseen = state /\ wvalue = 0 /\ wretries = 0
  /\ rpc = "idle" /\ rseen = state /\ rattempt = 0 /\ rlow = 0
  /\ last = Complete(0)
  /\ floor = 0

-----------------------------------------------------------------------------
(* SnapshotWriter::publish                                                 *)

(* Fault: the slot being read is not excluded.                             *)
WriteSlotIgnoringReader(s) == CHOOSE i \in Slots : i # s.published

(* The first slot that the observed state neither publishes nor reads.     *)
WriteSlot(s) ==
  CHOOSE i \in Slots : /\ i \notin {s.published, s.reading}
                       /\ \A j \in Slots : j < i => j \in {s.published, s.reading}

BeginPublish ==
  /\ wpc = "idle"
  /\ wvalue < MaxPublications
  /\ wvalue' = wvalue + 1
  /\ wseen' = state
  /\ wretries' = 0
  /\ wpc' = "low"
  /\ UNCHANGED <<shared, readerVars>>

WriteLow ==
  /\ wpc = "low"
  /\ slot' = [slot EXCEPT ![WriteSlot(wseen)].low = wvalue]
  /\ wpc' = "high"
  /\ UNCHANGED <<state, wseen, wvalue, wretries, readerVars>>

WriteHigh ==
  /\ wpc = "high"
  /\ slot' = [slot EXCEPT ![WriteSlot(wseen)].high = wvalue]
  /\ wpc' = "swap"
  /\ UNCHANGED <<state, wseen, wvalue, wretries, readerVars>>

(* Fault: the new word also names the slot as the one being read.          *)
PublishWonMarksRead ==
  /\ wpc = "swap"
  /\ state = wseen
  /\ state' = [published |-> WriteSlot(wseen), reading |-> WriteSlot(wseen)]
  /\ wpc' = "idle"
  /\ UNCHANGED <<slot, wseen, wvalue, wretries, readerVars>>

PublishWon ==
  /\ wpc = "swap"
  /\ state = wseen
  /\ state' = [published |-> WriteSlot(wseen), reading |-> wseen.reading]
  /\ wpc' = "idle"
  /\ UNCHANGED <<slot, wseen, wvalue, wretries, readerVars>>

(* Fault: the observed state is not taken over before the retry.           *)
PublishLostKeepsState ==
  /\ wpc = "swap"
  /\ state # wseen
  /\ wretries' = wretries + 1
  /\ wpc' = "low"
  /\ UNCHANGED <<shared, wseen, wvalue, readerVars>>

(* The exchange failed: take the observed state, choose and write again.   *)
PublishLost ==
  /\ wpc = "swap"
  /\ state # wseen
  /\ wseen' = state
  /\ wretries' = wretries + 1
  /\ wpc' = "low"
  /\ UNCHANGED <<shared, wvalue, readerVars>>

Writer == BeginPublish \/ WriteLow \/ WriteHigh \/ PublishWon \/ PublishLost

-----------------------------------------------------------------------------
(* SnapshotReader::read                                                    *)

BeginRead ==
  /\ rpc = "idle"
  /\ rattempt' = 0
  /\ floor' = Latest
  /\ rpc' = "load"
  /\ UNCHANGED <<shared, writerVars, rseen, rlow, last>>

(* The published slot is the one the reader holds: return `last`.          *)
ReadCurrent ==
  /\ rpc = "load"
  /\ state.published = state.reading
  /\ rseen' = state
  /\ rpc' = "idle"
  /\ UNCHANGED <<shared, writerVars, rattempt, rlow, last, floor>>

ReadNewer ==
  /\ rpc = "load"
  /\ state.published # state.reading
  /\ rseen' = state
  /\ rpc' = "swap"
  /\ UNCHANGED <<shared, writerVars, rattempt, rlow, last, floor>>

(* Fault: a plain store in place of the compare-exchange.                  *)
ReadWonByStore ==
  /\ rpc = "swap"
  /\ state' = [published |-> rseen.published, reading |-> rseen.published]
  /\ rpc' = "copyLow"
  /\ UNCHANGED <<slot, writerVars, rseen, rattempt, rlow, last, floor>>

ReadWon ==
  /\ rpc = "swap"
  /\ state = rseen
  /\ state' = [published |-> rseen.published, reading |-> rseen.published]
  /\ rpc' = "copyLow"
  /\ UNCHANGED <<slot, writerVars, rseen, rattempt, rlow, last, floor>>

(* Fault: the reader gives up one attempt early.                           *)
ReadLostOneLess ==
  /\ rpc = "swap"
  /\ state # rseen
  /\ IF rattempt + 2 < MaxReadAttempts
       THEN rattempt' = rattempt + 1 /\ rpc' = "load"
       ELSE UNCHANGED rattempt /\ rpc' = "idle"
  /\ UNCHANGED <<shared, writerVars, rseen, rlow, last, floor>>

(* The exchange failed: another attempt, or after the last one return the  *)
(* retained value.                                                         *)
ReadLost ==
  /\ rpc = "swap"
  /\ state # rseen
  /\ IF rattempt + 1 < MaxReadAttempts
       THEN rattempt' = rattempt + 1 /\ rpc' = "load"
       ELSE UNCHANGED rattempt /\ rpc' = "idle"
  /\ UNCHANGED <<shared, writerVars, rseen, rlow, last, floor>>

CopyLow ==
  /\ rpc = "copyLow"
  /\ rlow' = slot[rseen.published].low
  /\ rpc' = "copyHigh"
  /\ UNCHANGED <<shared, writerVars, rseen, rattempt, last, floor>>

CopyHigh ==
  /\ rpc = "copyHigh"
  /\ last' = [low |-> rlow, high |-> slot[rseen.published].high]
  /\ rpc' = "idle"
  /\ UNCHANGED <<shared, writerVars, rseen, rattempt, rlow, floor>>

Reader == \/ BeginRead \/ ReadCurrent \/ ReadNewer \/ ReadWon \/ ReadLost
          \/ CopyLow \/ CopyHigh

-----------------------------------------------------------------------------
Next == Writer \/ Reader

Spec == Init /\ [][Next]_vars

(* The callback that reads keeps running and nothing in `read` waits; the  *)
(* writer may be descheduled for ever, in the middle of publish too.       *)
FairSpec == Spec /\ WF_vars(Reader)

-----------------------------------------------------------------------------
(* Properties                                                              *)

TypeOK ==
  /\ state \in State
  /\ slot \in [Slots -> Payload]
  /\ wpc \in {"idle", "low", "high", "swap"}
  /\ wseen \in State
  /\ wvalue \in 0..MaxPublications
  /\ wretries \in Nat
  /\ rpc \in {"idle", "load", "swap", "copyLow", "copyHigh"}
  /\ rseen \in State
  /\ rattempt \in 0..MaxReadAttempts - 1
  /\ rlow \in Nat
  /\ last \in Payload
  /\ floor \in Nat

Writing == wpc \in {"low", "high"}
Copying == rpc \in {"copyLow", "copyHigh"}

(* The SAFETY comment of Shared: the writer mutates only a slot that is    *)
(* neither published nor being read - judged against the state now, not    *)
(* against the state the writer loaded - so no slot is written and copied  *)
(* at the same time.                                                       *)
SlotExclusion ==
  /\ Writing => WriteSlot(wseen) \notin {state.published, state.reading}
  /\ Writing /\ Copying => WriteSlot(wseen) # rseen.published

(* A read returns one fully published snapshot, never two halves of        *)
(* different ones, although a publish that lost its race leaves a slot     *)
(* half stale.                                                             *)
CompleteReads == last.low = last.high

(* The documented bounded fallback: a read returns a value older than the  *)
(* latest when it began only if MaxReadAttempts publications completed     *)
(* while it ran.                                                           *)
StaleOnlyAfterRaces ==
  [][rpc # "idle" /\ rpc' = "idle"
       => last'.low >= floor \/ Latest - floor >= MaxReadAttempts]_vars

(* publish may retry when it races the reader, but the reader can move at  *)
(* most once between two publications: a second compare-exchange wins.     *)
AtMostOneRetry == wretries <= 1

(* Once publishing pauses, the reader catches up with the last publication.*)
EventuallyCurrent ==
  wvalue = MaxPublications /\ wpc = "idle" ~> last = Complete(MaxPublications)

(* The channel implements the register: publication takes effect at the    *)
(* writer's successful exchange, observation at the reader's.              *)
Register == INSTANCE LatestValue WITH
  latest <- Latest,
  observed <- IF Copying THEN slot[state.reading].low ELSE last.low

ImplementsRegister == Register!Spec
=============================================================================
