----------------------- MODULE SnapshotChannel_proofs -----------------------
(***************************************************************************)
(* Safety of the triple buffer for any number of publications and any      *)
(* number of read attempts.                                                *)
(*                                                                         *)
(* SlotExclusion is about the slot chosen from a state the writer loaded   *)
(* earlier, so it needs to know how that state may have changed: only the  *)
(* writer publishes, and the reader can only move to the published slot.   *)
(* CompleteReads and the order of reads need the contents of the slots:    *)
(* the published slot and the slot being read are always complete, and     *)
(* outside a copy the reader's retained value is the slot it holds.        *)
(***************************************************************************)
EXTENDS SnapshotChannel, TLAPS

(* How the state may have moved since the writer loaded it.                *)
WriterView ==
  wpc # "idle" =>
    /\ wseen.published = state.published
    /\ state = wseen \/ state.reading = state.published
    /\ wretries = 1 => state = wseen /\ state.reading = state.published

(* How far the writer is with the slot it chose.                           *)
WriterSlot ==
  /\ wpc = "idle" => Latest = wvalue
  /\ wpc # "idle" => Latest = wvalue - 1
  /\ wpc = "high" => slot[WriteSlot(wseen)].low = wvalue
  /\ wpc = "swap" => slot[WriteSlot(wseen)] = Complete(wvalue)

(* What the published slot and the slot held by the reader contain.        *)
HeldSlots ==
  /\ slot[state.published].low = slot[state.published].high
  /\ slot[state.reading].low = slot[state.reading].high
  /\ slot[state.reading].low <= Latest

ReaderView ==
  /\ ~Copying => last = slot[state.reading]
  /\ Copying => /\ state.reading = rseen.published
                /\ last.low <= slot[state.reading].low
                /\ floor <= slot[state.reading].low
  /\ rpc = "copyHigh" => rlow = slot[state.reading].low
  /\ rpc = "swap" => rseen.published # rseen.reading
  /\ last.low = last.high

(* Every lost attempt is paid for by a publication.                        *)
Races ==
  /\ rpc # "idle" => floor + rattempt <= Latest
  /\ rpc = "swap" /\ rseen # state => floor + rattempt + 1 <= Latest

Inv ==
  /\ TypeOK
  /\ WriterView
  /\ WriterSlot
  /\ HeldSlots
  /\ ReaderView
  /\ Races
  /\ AtMostOneRetry

-----------------------------------------------------------------------------
(* Three slots always leave one that is neither published nor read.        *)
LEMMA WriteSlotFree ==
  ASSUME NEW s \in State
  PROVE  /\ WriteSlot(s) \in Slots
         /\ WriteSlot(s) # s.published
         /\ WriteSlot(s) # s.reading
<1> DEFINE P(i) == /\ i \notin {s.published, s.reading}
                   /\ \A j \in Slots : j < i => j \in {s.published, s.reading}
<1>1. \E i \in Slots : P(i)
  <2>1. s.published \in 0..2 /\ s.reading \in 0..2
    BY DEF State, Slots
  <2>2. CASE 0 \notin {s.published, s.reading}
    <3>1. 0 \in Slots /\ P(0)  BY <2>2 DEF Slots
    <3> QED BY <3>1
  <2>3. CASE 0 \in {s.published, s.reading} /\ 1 \notin {s.published, s.reading}
    <3>1. 1 \in Slots /\ P(1)  BY <2>3 DEF Slots
    <3> QED BY <3>1
  <2>4. CASE 0 \in {s.published, s.reading} /\ 1 \in {s.published, s.reading}
    <3>1. 2 \in Slots /\ P(2)  BY <2>4, <2>1 DEF Slots
    <3> QED BY <3>1
  <2> QED BY <2>2, <2>3, <2>4
<1>2. WriteSlot(s) \in Slots /\ P(WriteSlot(s))
  <2> HIDE DEF P
  <2>1. WriteSlot(s) = CHOOSE i \in Slots : P(i)
    BY DEF WriteSlot, P
  <2> QED BY <1>1, <2>1
<1> QED BY <1>2

LEMMA InitInv == Init => Inv
BY ChannelAssumption
   DEF Init, Inv, TypeOK, State, Slots, Payload, Complete, WriterView, WriterSlot,
       HeldSlots, ReaderView, Races, AtMostOneRetry, Latest, Copying

(* The invariant is kept by every step of the writer ...                   *)
LEMMA WriterInv == ASSUME Inv, Writer PROVE Inv'
<1> USE ChannelAssumption
<1> DEFINE w == WriteSlot(wseen)
<1>0. /\ w \in Slots /\ w # wseen.published /\ w # wseen.reading
      /\ wseen \in State /\ state \in State
      /\ state.published \in Slots /\ state.reading \in Slots
  BY WriteSlotFree DEF Inv, TypeOK, State
<1>1. CASE BeginPublish
  BY <1>1, <1>0 DEF BeginPublish, shared, readerVars, Inv, TypeOK, WriterView, WriterSlot,
     HeldSlots, ReaderView, Races, AtMostOneRetry, Latest, Copying, Complete
<1>2. CASE WriteLow
  <2>1. w # state.published /\ w # state.reading
    BY <1>2, <1>0 DEF WriteLow, Inv, WriterView
  <2>2. /\ slot' = [slot EXCEPT ![w].low = wvalue]
        /\ slot' \in [Slots -> Payload]
        /\ slot'[w].low = wvalue
        /\ slot'[state.published] = slot[state.published]
        /\ slot'[state.reading] = slot[state.reading]
    BY <1>2, <1>0, <2>1 DEF WriteLow, Inv, TypeOK, Payload
  <2> HIDE DEF w
  <2>3. w' = w
    BY <1>2 DEF WriteLow, w
  <2> QED
    BY <1>2, <1>0, <2>2, <2>3 DEF WriteLow, readerVars, Inv, TypeOK, WriterView, WriterSlot,
       HeldSlots, ReaderView, Races, AtMostOneRetry, Latest, Copying, w
<1>3. CASE WriteHigh
  <2>1. w # state.published /\ w # state.reading
    BY <1>3, <1>0 DEF WriteHigh, Inv, WriterView
  <2>2. /\ slot' \in [Slots -> Payload]
        /\ slot'[w] = Complete(wvalue)
        /\ slot'[state.published] = slot[state.published]
        /\ slot'[state.reading] = slot[state.reading]
    BY <1>3, <1>0, <2>1 DEF WriteHigh, Inv, TypeOK, Payload, WriterSlot, Complete
  <2> HIDE DEF w
  <2>3. w' = w
    BY <1>3 DEF WriteHigh, w
  <2> QED
    BY <1>3, <1>0, <2>2, <2>3 DEF WriteHigh, readerVars, Inv, TypeOK, WriterView, WriterSlot,
       HeldSlots, ReaderView, Races, AtMostOneRetry, Latest, Copying, w
<1>4. CASE PublishWon
  <2>1. /\ state = wseen
        /\ state' = [published |-> w, reading |-> state.reading]
        /\ state'.published = w /\ state'.reading = state.reading
        /\ state' \in State
        /\ slot[w] = Complete(wvalue) /\ slot[w].low = wvalue /\ slot[w].high = wvalue
    BY <1>4, <1>0 DEF PublishWon, Inv, WriterSlot, Complete, State
  <2> HIDE DEF w
  <2>2. /\ Latest = wvalue - 1 /\ slot' = slot /\ wpc' = "idle" /\ wvalue' = wvalue
        /\ UNCHANGED <<wseen, wretries, rpc, rseen, rattempt, rlow, last, floor>>
        /\ slot[state.reading].low \in Nat /\ wvalue \in Nat /\ Latest \in Nat
    BY <1>4, <1>0 DEF PublishWon, readerVars, Inv, TypeOK, WriterSlot, Latest, Payload
  <2>3. Latest' = wvalue
    BY <2>1, <2>2 DEF Latest
  <2>4. TypeOK'
    BY <2>1, <2>2 DEF Inv, TypeOK
  <2>5. WriterView' /\ WriterSlot' /\ AtMostOneRetry'
    BY <2>1, <2>2, <2>3 DEF Inv, WriterView, WriterSlot, AtMostOneRetry
  <2>6. HeldSlots'
    BY <2>1, <2>2, <2>3 DEF Inv, HeldSlots
  <2>7. ReaderView'
    BY <2>1, <2>2 DEF Inv, ReaderView, Copying
  <2>8. Races'
    BY <2>1, <2>2, <2>3 DEF Inv, TypeOK, Races
  <2> QED BY <2>4, <2>5, <2>6, <2>7, <2>8 DEF Inv
<1>5. CASE PublishLost
  <2>1. wretries = 0 /\ state.reading = state.published
    BY <1>5 DEF PublishLost, Inv, WriterView, TypeOK, AtMostOneRetry
  <2> QED
    BY <1>5, <1>0, <2>1 DEF PublishLost, shared, readerVars, Inv, TypeOK, WriterView,
       WriterSlot, HeldSlots, ReaderView, Races, AtMostOneRetry, Latest, Copying
<1> QED BY <1>1, <1>2, <1>3, <1>4, <1>5 DEF Writer

(* ... and by every step of the reader.                                    *)
LEMMA ReaderInv == ASSUME Inv, Reader PROVE Inv'
<1> USE ChannelAssumption DEF Inv, TypeOK, WriterView, WriterSlot, HeldSlots, ReaderView,
        Races, AtMostOneRetry, Latest, Copying, shared, writerVars
<1>0. /\ wseen \in State /\ state \in State /\ rseen \in State
      /\ state.published \in Slots /\ state.reading \in Slots
      /\ rseen.published \in Slots
      /\ slot[state.published].low \in Nat /\ slot[state.reading].low \in Nat
      /\ last.low \in Nat
  BY DEF State, Payload
<1>1. CASE BeginRead  BY <1>1, <1>0 DEF BeginRead
<1>2. CASE ReadCurrent  BY <1>2, <1>0 DEF ReadCurrent
<1>3. CASE ReadNewer  BY <1>3, <1>0 DEF ReadNewer
<1>4. CASE ReadWon
  <2>1. /\ state' = [published |-> state.published, reading |-> state.published]
        /\ state'.published = state.published /\ state'.reading = state.published
        /\ state' \in State
        /\ state.published # state.reading
        /\ rseen.published = state.published
    BY <1>4, <1>0 DEF ReadWon, State
  <2>2. WriteSlot(wseen)' = WriteSlot(wseen)
    BY <1>4 DEF ReadWon, WriteSlot
  <2> QED BY <1>4, <1>0, <2>1, <2>2 DEF ReadWon
<1>5. CASE ReadLost  BY <1>5, <1>0 DEF ReadLost
<1>6. CASE CopyLow  BY <1>6, <1>0 DEF CopyLow
<1>7. CASE CopyHigh
  <2>1. last' = slot[state.reading] /\ last'.low = slot[state.reading].low /\ last' \in Payload
    BY <1>7, <1>0 DEF CopyHigh, Payload
  <2> QED BY <1>7, <1>0, <2>1 DEF CopyHigh
<1> QED BY <1>1, <1>2, <1>3, <1>4, <1>5, <1>6, <1>7 DEF Reader

LEMMA StutterInv == ASSUME Inv, UNCHANGED vars PROVE Inv'
BY DEF vars, Inv, TypeOK, WriterView, WriterSlot, HeldSlots, ReaderView, Races,
   AtMostOneRetry, Latest, Copying, WriteSlot

(* The strengthened invariant: what the two ends know of each other's      *)
(* progress at every interleaving of their loads, writes and exchanges.    *)
THEOREM ChannelInvariant == Spec => []Inv
<1>1. Inv /\ [Next]_vars => Inv'
  BY WriterInv, ReaderInv, StutterInv DEF Next
<1> QED BY InitInv, <1>1, PTL DEF Spec

THEOREM TypeCorrect == Spec => []TypeOK
BY ChannelInvariant, PTL DEF Inv

(* The SAFETY comment of Shared, for the state as it is when the writer    *)
(* writes: the slot it chose earlier is still neither published nor read.  *)
THEOREM Exclusion == Spec => []SlotExclusion
<1>1. Inv => SlotExclusion
  <2> SUFFICES ASSUME Inv PROVE SlotExclusion  OBVIOUS
  <2>1. /\ WriteSlot(wseen) # wseen.published
        /\ WriteSlot(wseen) # wseen.reading
    BY WriteSlotFree DEF Inv, TypeOK
  <2> QED BY <2>1 DEF Inv, WriterView, ReaderView, SlotExclusion, Writing, Copying
<1> QED BY ChannelInvariant, <1>1, PTL

(* A read never returns halves of two publications.                        *)
THEOREM NoTornRead == Spec => []CompleteReads
<1>1. Inv => CompleteReads  BY DEF Inv, ReaderView, CompleteReads
<1> QED BY ChannelInvariant, <1>1, PTL

(* publish always ends with its second compare-exchange at the latest.     *)
THEOREM BoundedPublish == Spec => []AtMostOneRetry
BY ChannelInvariant, PTL DEF Inv

(* read returns something older than the latest at its start only if as    *)
(* many publications completed meanwhile as it has attempts.               *)
THEOREM BoundedStaleness == Spec => StaleOnlyAfterRaces
<1>1. ASSUME Inv, Next, rpc # "idle", rpc' = "idle"
      PROVE  last'.low >= floor \/ Latest - floor >= MaxReadAttempts
  <2> USE <1>1, ChannelAssumption DEF Inv, TypeOK, Payload, State
  <2>1. CASE Writer
    BY <2>1 DEF Writer, BeginPublish, WriteLow, WriteHigh, PublishWon, PublishLost, readerVars
  <2>2. CASE ReadCurrent
    BY <2>2 DEF ReadCurrent, ReaderView, Copying, Races, Latest
  <2>3. CASE ReadLost
    BY <2>3 DEF ReadLost, Races, Latest
  <2>4. CASE CopyHigh
    BY <2>4 DEF CopyHigh, ReaderView, Copying
  <2>5. CASE BeginRead \/ ReadNewer \/ ReadWon \/ CopyLow
    BY <2>5 DEF BeginRead, ReadNewer, ReadWon, CopyLow
  <2> QED BY <2>1, <2>2, <2>3, <2>4, <2>5 DEF Next, Reader
<1>2. Inv /\ [Next]_vars
        => [rpc # "idle" /\ rpc' = "idle"
              => last'.low >= floor \/ Latest - floor >= MaxReadAttempts]_vars
  BY <1>1
<1> QED BY ChannelInvariant, <1>2, PTL DEF Spec, StaleOnlyAfterRaces

(* The channel implements the latest-value register.  Publication maps to  *)
(* the writer's successful exchange and observation to the reader's; every *)
(* other step maps to a stutter.                                           *)
THEOREM Refinement == Spec => ImplementsRegister
<1> DEFINE obs == IF Copying THEN slot[state.reading].low ELSE last.low
<1>1. Init => Register!Init
  BY DEF Init, Register!Init, Latest, Copying, Complete, Slots
<1>2. ASSUME Inv, Inv', [Next]_vars PROVE [Register!Next]_(Register!vars)
  <2> USE <1>2
  <2> DEFINE same == Latest' = Latest /\ obs' = obs
  <2>0. /\ WriteSlot(wseen) \in Slots
        /\ WriteSlot(wseen) # wseen.published /\ WriteSlot(wseen) # wseen.reading
    BY WriteSlotFree DEF Inv, TypeOK
  <2>1. CASE BeginPublish \/ PublishLost
    BY <2>1 DEF BeginPublish, PublishLost, shared, readerVars, Register!vars, Latest, Copying
  <2>2. CASE WriteLow \/ WriteHigh
    <3>1. /\ WriteSlot(wseen) # state.published
          /\ WriteSlot(wseen) # state.reading
      BY <2>2, <2>0 DEF WriteLow, WriteHigh, Inv, WriterView
    <3>2. /\ slot'[state.published] = slot[state.published]
          /\ slot'[state.reading] = slot[state.reading]
          /\ UNCHANGED <<state, readerVars>>
      BY <2>2, <3>1 DEF WriteLow, WriteHigh, Inv, TypeOK, State
    <3> QED BY <3>2 DEF readerVars, Register!vars, Latest, Copying
  <2>3. CASE PublishWon
    <3>1. Latest = wvalue - 1 /\ Latest' = wvalue /\ wvalue \in Nat
      BY <2>3 DEF PublishWon, Inv, WriterSlot, TypeOK
    <3>2. obs' = obs
      BY <2>3 DEF PublishWon, readerVars, Copying
    <3> QED BY <3>1, <3>2 DEF Register!Next, Register!Publish
  <2>4. CASE ReadWon
    <3>1. Latest' = Latest /\ obs' = Latest
      BY <2>4 DEF ReadWon, Latest, Copying
    <3>2. ~Copying /\ obs = last.low /\ last = slot[state.reading]
      BY <2>4 DEF ReadWon, Copying, Inv, ReaderView
    <3>3. obs <= Latest /\ obs \in Nat /\ Latest \in Nat
      BY <3>2 DEF Inv, HeldSlots, TypeOK, State, Payload, Latest
    <3>4. obs < Latest \/ obs = Latest
      BY <3>3
    <3> QED BY <3>1, <3>4 DEF Register!Next, Register!Observe, Register!vars
  <2>5. CASE BeginRead \/ ReadCurrent \/ ReadNewer \/ ReadLost \/ CopyLow
    BY <2>5 DEF BeginRead, ReadCurrent, ReadNewer, ReadLost, CopyLow, shared,
       Register!vars, Latest, Copying
  <2>6. CASE CopyHigh
    <3>1. obs = slot[state.reading].low /\ Latest' = Latest
      BY <2>6 DEF CopyHigh, shared, Copying, Latest
    <3>2. obs' = last'.low /\ last'.low = slot[state.reading].low
      BY <2>6 DEF CopyHigh, Copying, Inv, ReaderView
    <3> QED BY <3>1, <3>2 DEF Register!vars
  <2>7. CASE UNCHANGED vars
    BY <2>7 DEF vars, Register!vars, Latest, Copying
  <2> QED BY <2>1, <2>2, <2>3, <2>4, <2>5, <2>6, <2>7 DEF Next, Writer, Reader
<1> QED BY ChannelInvariant, <1>1, <1>2, PTL DEF Spec, ImplementsRegister, Register!Spec
=============================================================================
