-------------------------- MODULE LiveInput_proofs --------------------------
(***************************************************************************)
(* What the ring delivers, what it counts and how playback ramps, for any  *)
(* capacity, tag width, target, fade length and any number of frames.      *)
(*                                                                         *)
(* The invariant has four parts.  Words says what the slots hold: a slot   *)
(* never holds an older frame than the last one written for it.  Pops says *)
(* what a pop in progress has loaded: words less than one cycle of the     *)
(* tags ahead of its position.  Counts says that the overrun counter is    *)
(* ahead of the loss by what the producer is beyond the ring.  Playback    *)
(* ties the gain to the ramp it is on.                                     *)
(***************************************************************************)
EXTENDS LiveInput, TLAPS

Words ==
  /\ written = producer.next
  /\ \A k \in Nat : k < producer.next =>
       slots[Slot(k)][1] >= k /\ slots[Slot(k)][2] >= k
  /\ producer.at \in {"right", "publish"} =>
       slots[Slot(producer.next)][1] >= producer.next
  /\ producer.at = "publish" => slots[Slot(producer.next)][2] >= producer.next
  /\ \A i \in 0..(Capacity - 1), c \in 1..2 :
       /\ slots[i][c] <= producer.next
       /\ slots[i][c] = producer.next => producer.at # "idle" \/ producer.next = 0

(* A word that a pop at the present position may have loaded.              *)
Loadable == next..(next + TagModulus - 1)

Pops ==
  /\ seen \in Int \X Int
  /\ popped \in Int \X Int /\ popped[1] = popped[2] /\ popped[1] < next
  /\ pc \in {"left", "right", "settle"} => next < written
  /\ pc \in {"left", "right"} =>
       /\ producer.next <= next + TagModulus
       /\ producer.at # "idle" => producer.next < next + TagModulus
  /\ pc \in {"right", "settle"} => seen[1] \in Loadable
  /\ pc = "settle" => seen[2] \in Loadable

(* The frame being written counts as soon as it was checked.               *)
Begun == IF producer.at = "idle" THEN producer.next ELSE producer.next + 1

Counts ==
  /\ read <= next
  /\ lost <= overruns
  /\ Begun - next - Capacity <= overruns - lost

Popping == pc \in {"pop", "left", "right", "settle"}

Playback ==
  /\ primed => fade = 0
  /\ pc # "rest" => fade = 0
  /\ pc = "discard" => ~primed
  /\ pc = "output" => primed
  /\ Popping => (primed <=> purpose = "play")
  /\ Popping /\ purpose = "play" => pulls >= 1
  /\ primed => gain = FullGain - recovery * FadeFrames
  /\ ~primed => gain = (fadeFrom * fade) \div FadeFrames

-----------------------------------------------------------------------------
(* Arithmetic                                                              *)

(* Two numbers with the same tag, less than a cycle apart, are the same.   *)
LEMMA SameTag ==
  ASSUME NEW N \in Nat \ {0}, NEW a \in Nat, NEW b \in Nat,
         a % N = b % N, a <= b, b < a + N
  PROVE  a = b
<1> DEFINE p == a \div N
           q == b \div N
<1>1. a = N * p + (a % N) /\ p \in Int
  BY SMT
<1>2. b = N * q + (b % N) /\ q \in Int
  BY SMT
<1> HIDE DEF p, q
<1>3. b - a = N * (q - p)
  BY <1>1, <1>2, SMT
<1>4. N * (q - p) >= 0 /\ N * (q - p) < N
  BY <1>3, SMT
<1>5. q - p < 1
  <2>1. ASSUME q - p >= 1 PROVE FALSE
    <3>1. N * (q - p) >= N
      BY <1>1, <1>2, <2>1, SMT
    <3>2. QED
      BY <1>1, <1>2, <1>4, <3>1, SMT
  <2>2. QED
    BY <1>1, <1>2, <2>1, SMT
<1>6. q - p > -1
  <2>1. ASSUME q - p <= -1 PROVE FALSE
    <3>1. N * (q - p) <= -N
      BY <1>1, <1>2, <2>1, SMT
    <3>2. QED
      BY <1>1, <1>2, <1>4, <3>1, SMT
  <2>2. QED
    BY <1>1, <1>2, <2>1, SMT
<1>7. q = p
  BY <1>1, <1>2, <1>5, <1>6, SMT
<1>8. QED
  BY <1>3, <1>7, SMT

(* One step of a fade from gain f moves the gain by F at most.             *)
LEMMA FadeStep ==
  ASSUME NEW F \in Nat \ {0}, NEW f \in 0..(F * F), NEW k \in 1..F
  PROVE  /\ (f * (k - 1)) \div F <= (f * k) \div F
         /\ (f * k) \div F - (f * (k - 1)) \div F <= F
         /\ (f * (k - 1)) \div F \in 0..(F * F)
         /\ (f * k) \div F \in Nat
<1> DEFINE x == f * (k - 1)
           y == f * k
           p == x \div F
           q == y \div F
<1>1. x \in Nat /\ y \in Nat /\ y = x + f
  BY SMT
<1>2. /\ p \in Nat /\ p * F <= x /\ x < p * F + F
      /\ q \in Nat /\ q * F <= y /\ y < q * F + F
  <2> HIDE DEF x, y
  <2> QED
    BY <1>1, SMT
<1>3. F * F \in Nat /\ f <= F * F /\ f \in Nat
  BY SMT
<1> HIDE DEF x, y, p, q
<1>4. p <= q
  <2>1. ASSUME p >= q + 1 PROVE FALSE
    <3>1. p * F >= q * F + F
      BY <1>2, <2>1, SMT
    <3>2. QED
      BY <1>1, <1>2, <1>3, <3>1, SMT
  <2>2. QED
    BY <1>2, <2>1, SMT
<1>5. q - p <= F
  <2>1. ASSUME q >= p + F + 1 PROVE FALSE
    <3>1. q * F >= p * F + F * F + F
      BY <1>2, <2>1, SMT
    <3>2. QED
      BY <1>1, <1>2, <1>3, <3>1, SMT
  <2>2. QED
    BY <1>2, <2>1, SMT
<1>6. p <= F * F
  <2>1. ASSUME p >= F * F + 1 PROVE FALSE
    <3>1. p * F >= (F * F) * F + F
      BY <1>2, <1>3, <2>1, SMT
    <3>2. x <= (F * F) * F
      BY <1>3, SMT DEF x
    <3>3. (F * F) * F \in Nat
      BY <1>3, SMT
    <3>4. QED
      BY <1>1, <1>2, <1>3, <3>1, <3>2, <3>3, SMT
  <2>2. QED
    BY <1>2, <1>3, <2>1, SMT
<1>7. QED
  BY <1>2, <1>3, <1>4, <1>5, <1>6, SMT DEF p, q, x, y

(* A fade begins at the gain it starts from and ends at none.              *)
LEMMA FadeEnds ==
  ASSUME NEW F \in Nat \ {0}, NEW f \in Nat
  PROVE  (f * F) \div F = f /\ (f * 0) \div F = 0
<1>1. (f * F) \div F = f
  BY SMT
<1>2. (f * 0) \div F = 0
  BY SMT
<1>3. QED
  BY <1>1, <1>2

(* A recovery ramp climbs from nothing to full gain by steps of F.         *)
LEMMA RampStep ==
  ASSUME NEW F \in Nat \ {0}, NEW r \in 0..F
  PROVE  /\ F * F - r * F \in 0..(F * F)
         /\ r >= 1 => F * F - (r - 1) * F = (F * F - r * F) + F
         /\ F * F - F * F = 0
<1>1. r * F \in Nat /\ r * F <= F * F /\ F * F \in Nat
  BY SMT
<1>2. (r - 1) * F = r * F - F
  BY SMT
<1>3. QED
  BY <1>1, <1>2, SMT

(* What one store to a channel word does to the slots.                     *)
LEMMA Pair ==
  ASSUME NEW t \in Nat \X Nat, NEW v \in Nat
  PROVE  [t EXCEPT ![1] = v] = <<v, t[2]>> /\ [t EXCEPT ![2] = v] = <<t[1], v>>
<1>1. t = <<t[1], t[2]>>
  BY SMT
<1>2. QED
  BY <1>1, SMT

LEMMA SlotRange == \A k \in Nat : Slot(k) \in 0..(Capacity - 1)
<1>1. ASSUME NEW N \in Nat \ {0}, NEW k \in Nat PROVE k % N \in 0..(N - 1)
  BY SMT
<1>2. QED
  BY <1>1, LiveInputAssumption DEF Slot

LEMMA StoredWord ==
  ASSUME TypeOK, NEW k \in Nat
  PROVE  /\ [slots EXCEPT ![Slot(k)][1] = k] = [slots EXCEPT ![Slot(k)] = <<k, slots[Slot(k)][2]>>]
         /\ [slots EXCEPT ![Slot(k)][2] = k] = [slots EXCEPT ![Slot(k)] = <<slots[Slot(k)][1], k>>]
<1>1. Slot(k) \in 0..(Capacity - 1) /\ slots[Slot(k)] \in Nat \X Nat
  BY SlotRange DEF TypeOK
<1>2. [slots EXCEPT ![Slot(k)][1] = k] = [slots EXCEPT ![Slot(k)] = [slots[Slot(k)] EXCEPT ![1] = k]]
  BY <1>1, SMT DEF TypeOK
<1>3. [slots EXCEPT ![Slot(k)][2] = k] = [slots EXCEPT ![Slot(k)] = [slots[Slot(k)] EXCEPT ![2] = k]]
  BY <1>1, SMT DEF TypeOK
<1>4. QED
  BY <1>1, <1>2, <1>3, Pair, Zenon

Constants ==
  /\ Capacity \in Nat \ {0, 1} /\ TagModulus \in Nat /\ TagModulus > Capacity
  /\ TargetFrames \in Nat /\ TargetFrames <= Capacity
  /\ FadeFrames \in Nat \ {0} /\ MaxPulls \in Nat \ {0}
  /\ FullGain \in Nat

LEMMA ConstantTypes == Constants
<1>1. FadeFrames * FadeFrames \in Nat
  BY LiveInputAssumption, SMT
<1>2. QED
  BY <1>1, LiveInputAssumption, SMT DEF Constants, FullGain

-----------------------------------------------------------------------------
(* Types and playback                                                      *)

LEMMA InitHolds == Init => TypeOK /\ Words /\ Pops /\ Counts /\ Playback
<1> SUFFICES ASSUME Init PROVE TypeOK /\ Words /\ Pops /\ Counts /\ Playback
  OBVIOUS
<1> USE ConstantTypes DEF Init, Constants
<1>1. slots \in [0..(Capacity - 1) -> Nat \X Nat]
  BY SMT
<1>2. primed \in BOOLEAN
  BY Zenon
<1>3. TypeOK
  BY <1>1, <1>2, SMT DEF TypeOK
<1>4. Words
  BY SMT DEF Words
<1>5. Pops
  BY SMT DEF Pops, Nothing
<1>6. Counts
  BY SMT DEF Counts, Begun
<1>7. Playback
  <2>1. gain = (fadeFrom * fade) \div FadeFrames
    BY FadeEnds, SMT
  <2>2. QED
    BY <2>1, SMT DEF Playback, Popping
<1>8. QED
  BY <1>3, <1>4, <1>5, <1>6, <1>7

LEMMA ProducerTypes ==
  ASSUME TypeOK, Producer
  PROVE  TypeOK'
<1> USE DEF TypeOK, consumerVars, playVars
<1>1. CASE PushCheck
  BY <1>1, SMT DEF PushCheck
<1>2. Slot(producer.next) \in 0..(Capacity - 1) /\ producer.next \in Nat
  BY SlotRange
<1>3. CASE PushLeft
  <2>1. slots' = [slots EXCEPT ![Slot(producer.next)] =
                                 <<producer.next, slots[Slot(producer.next)][2]>>]
    BY <1>2, <1>3, StoredWord, Zenon DEF PushLeft
  <2>2. slots' \in [0..(Capacity - 1) -> Nat \X Nat]
    BY <1>2, <2>1, SMT
  <2>3. QED
    BY <1>3, <2>2, SMT DEF PushLeft
<1>4. CASE PushRight
  <2>1. slots' = [slots EXCEPT ![Slot(producer.next)] =
                                 <<slots[Slot(producer.next)][1], producer.next>>]
    BY <1>2, <1>4, StoredWord, Zenon DEF PushRight
  <2>2. slots' \in [0..(Capacity - 1) -> Nat \X Nat]
    BY <1>2, <2>1, SMT
  <2>3. QED
    BY <1>4, <2>2, SMT DEF PushRight
<1>5. CASE PushPublish
  BY <1>5, SMT DEF PushPublish
<1>6. QED
  BY <1>1, <1>3, <1>4, <1>5 DEF Producer

LEMMA ProducerKeepsPlayback ==
  ASSUME TypeOK, Playback, Producer
  PROVE  Playback'
  BY DEF Producer, PushCheck, PushLeft, PushRight, PushPublish, consumerVars, playVars,
     Playback, Popping

(* What the end of a pop leaves of the playback state.                     *)
LEMMA PopTypes ==
  ASSUME TypeOK, Playback, Popping, NEW frame, Popped(frame)
  PROVE  /\ pc' \in {"rest", "pop", "output"}
         /\ purpose' \in {"current", "next", "wasted", "play"}
         /\ pulls' \in 0..MaxPulls /\ primed' \in BOOLEAN
         /\ fade' \in 0..FadeFrames /\ recovery' \in 0..FadeFrames
         /\ gain' = gain /\ fadeFrom' \in 0..FullGain
<1>1. primed' \in BOOLEAN
  BY DEF TypeOK, Popped, Prime, StartFade, playVars
<1>2. pulls' \in 0..MaxPulls
  BY ConstantTypes, SMT DEF TypeOK, Constants, Popped, Playback, Popping
<1>3. pc' \in {"rest", "pop", "output"} /\ purpose' \in {"current", "next", "wasted", "play"}
  BY DEF TypeOK, Popped, Prime
<1>4. FadeFrames \in 0..FadeFrames
  BY ConstantTypes, SMT DEF Constants
<1>5. gain' = gain /\ fadeFrom' \in {fadeFrom, gain}
  BY DEF Popped, Prime, StartFade, playVars
<1>6. fade' \in {fade, FadeFrames} /\ recovery' \in {recovery, FadeFrames}
  BY DEF Popped, Prime, StartFade, playVars
<1>7. QED
  BY <1>1, <1>2, <1>3, <1>4, <1>5, <1>6 DEF TypeOK

LEMMA ConsumerTypes ==
  ASSUME TypeOK, Playback, Consumer
  PROVE  TypeOK'
<1> USE DEF TypeOK
<1>1. CASE BeginBlock
  <2>1. primed' \in BOOLEAN
    BY <1>1 DEF BeginBlock, StartFade
  <2>2. QED
    BY <1>1, <2>1, ConstantTypes, SMT DEF BeginBlock, StartFade, ringVars, Constants
<1>2. CASE PlayFade
  <2>1. gain' \in 0..FullGain
    <3>1. FadeFrames \in Nat \ {0} /\ fadeFrom \in 0..(FadeFrames * FadeFrames)
      BY LiveInputAssumption DEF FullGain
    <3>2. fade \in 1..FadeFrames
      BY <1>2, <3>1, SMT DEF PlayFade
    <3>3. gain' = (fadeFrom * (fade - 1)) \div FadeFrames
      BY <1>2 DEF PlayFade
    <3>4. (fadeFrom * (fade - 1)) \div FadeFrames \in 0..(FadeFrames * FadeFrames)
      BY <3>1, <3>2, FadeStep
    <3>5. QED
      BY <3>3, <3>4 DEF FullGain
  <2>2. QED
    <3>1. fade' \in 0..FadeFrames
      BY <1>2, ConstantTypes, SMT DEF PlayFade, Constants
    <3>2. QED
      BY <1>2, <2>1, <3>1 DEF PlayFade, ringVars
<1>3. CASE PlaySilence
  <2>1. gain' \in 0..FullGain
    BY <1>3, ConstantTypes, SMT DEF PlaySilence, Constants
  <2>2. QED
    BY <1>3, <2>1, SMT DEF PlaySilence, ringVars
<1>4. CASE StartPriming
  BY <1>4, SMT DEF StartPriming, ringVars, playVars
<1>5. CASE Discard
  <2>1. next' \in Nat /\ next' - next \in Nat
    BY <1>5, ConstantTypes, SMT DEF Discard, Larger, Constants
  <2>2. QED
    <3>1. overruns' \in Nat /\ lost' \in Nat /\ read' \in Nat
      <4>1. overruns \in Nat /\ lost \in Nat /\ read \in Nat
        OBVIOUS
      <4> HIDE DEF TypeOK
      <4>2. QED
        BY <1>5, <2>1, <4>1, SMT DEF Discard
    <3>2. QED
      BY <1>5, <2>1, <3>1 DEF Discard, playVars
<1>6. CASE Output
  <2>1. recovery' \in 0..FadeFrames
    BY <1>6, ConstantTypes, SMT DEF Output, Constants
  <2>2. gain' \in 0..FullGain
    BY <1>6, <2>1, RampStep, LiveInputAssumption DEF Output, FullGain
  <2>3. QED
    BY <1>6, <2>1, <2>2, SMT DEF Output, ringVars
<1>7. Position \in Nat /\ Position - next \in Nat
  BY ConstantTypes, SMT DEF Position, Larger, Constants
<1>8. CASE PopEmpty
  BY <1>7, <1>8, PopTypes, SMT DEF PopEmpty, Popping, ringVars
<1>9. CASE PopBegin
  BY <1>7, <1>9, SMT DEF PopBegin, ringVars, playVars
<1>10. CASE LoadLeft
  BY <1>10, SMT DEF LoadLeft, ringVars, playVars
<1>11. CASE LoadRight
  BY <1>11, SMT DEF LoadRight, ringVars, playVars
<1>12. CASE PopFrame
  BY <1>12, PopTypes, SMT DEF PopFrame, Popping, ringVars
<1>13. CASE PopRaced
  BY <1>7, <1>13, PopTypes, SMT DEF PopRaced, Popping, ringVars
<1>14. QED
  BY <1>1, <1>2, <1>3, <1>4, <1>5, <1>6, <1>8, <1>9, <1>10, <1>11, <1>12, <1>13
     DEF Consumer

LEMMA PopKeepsPlayback ==
  ASSUME TypeOK, Playback, Popping, NEW frame, Popped(frame)
  PROVE  Playback'
<1> USE DEF TypeOK, Playback, Popping
<1>1. FullGain - FadeFrames * FadeFrames = 0 /\ FadeFrames \in Nat \ {0}
  BY LiveInputAssumption, SMT DEF FullGain
<1>2. fade = 0 /\ fadeFrom \in Nat /\ gain \in Nat
  BY ConstantTypes, SMT DEF Constants
<1>3. ASSUME ~primed PROVE gain = 0
  <2>1. gain = (fadeFrom * 0) \div FadeFrames
    BY <1>2, <1>3
  <2>2. QED
    BY <1>1, <1>2, <2>1, FadeEnds
<1>4. CASE purpose = "current" \/ purpose = "wasted" \/ (purpose = "next" /\ frame = Nothing)
  <2>1. UNCHANGED playVars /\ pc' \in {"pop", "rest"} /\ (pc' = "pop" => purpose' # "play")
    BY <1>4 DEF Popped
  <2>2. QED
    BY <1>4, <2>1 DEF playVars
<1>5. CASE purpose = "next" /\ frame # Nothing
  <2>1. ~primed
    BY <1>5
  <2>2. Prime
    BY <1>5 DEF Popped
  <2>3. gain' = FullGain - recovery' * FadeFrames
    BY <1>1, <1>3, <2>1, <2>2 DEF Prime
  <2>4. primed' /\ pc' = "output" /\ fade' = 0
    BY <1>2, <2>2 DEF Prime
  <2>5. QED
    BY <2>3, <2>4
<1>6. CASE purpose = "play" /\ frame # Nothing
  <2>1. UNCHANGED playVars /\ UNCHANGED purpose /\ pulls' = pulls - 1
        /\ pc' = IF pulls' = 0 THEN "rest" ELSE "pop"
    BY <1>6 DEF Popped
  <2>2. pc' = "pop" => pulls' >= 1
    BY <1>6, <2>1, SMT
  <2>3. QED
    BY <1>6, <2>1, <2>2 DEF playVars
<1>7. CASE purpose = "play" /\ frame = Nothing
  <2>1. ~primed' /\ fadeFrom' = gain /\ fade' = FadeFrames /\ pc' = "rest" /\ gain' = gain
    BY <1>7 DEF Popped, StartFade
  <2>2. gain' = (fadeFrom' * fade') \div FadeFrames
    BY <1>1, <1>2, <2>1, FadeEnds
  <2>3. QED
    BY <2>1, <2>2
<1>8. QED
  BY <1>4, <1>5, <1>6, <1>7

LEMMA ConsumerKeepsPlayback ==
  ASSUME TypeOK, Playback, Consumer
  PROVE  Playback'
<1> USE DEF Playback, Popping
<1>1. CASE BeginBlock
  <2>1. gain \in Nat /\ FadeFrames \in Nat \ {0}
    BY ConstantTypes, SMT DEF TypeOK, Constants
  <2>2. ~primed' /\ fadeFrom' = gain /\ fade' = FadeFrames /\ pc' = "rest" /\ gain' = gain
    BY <1>1 DEF BeginBlock, StartFade
  <2>3. gain' = (fadeFrom' * fade') \div FadeFrames
    BY <2>1, <2>2, FadeEnds
  <2>4. QED
    BY <2>2, <2>3
<1>2. CASE PlayFade
  <2>1. ~primed
    BY <1>2, SMT DEF PlayFade, TypeOK
  <2>2. QED
    BY <1>2, <2>1 DEF PlayFade
<1>3. CASE PlaySilence
  <2>1. ~primed' /\ fade' = 0 /\ gain' = 0 /\ pc' = "rest" /\ fadeFrom' = fadeFrom
    BY <1>3 DEF PlaySilence
  <2>2. fadeFrom \in Nat /\ FadeFrames \in Nat \ {0}
    BY ConstantTypes, SMT DEF TypeOK, Constants
  <2>3. gain' = (fadeFrom' * fade') \div FadeFrames
    BY <2>1, <2>2, FadeEnds
  <2>4. QED
    BY <2>1, <2>3
<1>4. CASE StartPriming
  BY <1>4 DEF StartPriming, playVars
<1>5. CASE Discard
  BY <1>5 DEF Discard, playVars
<1>6. CASE Output
  <2>1. primed
    BY <1>6 DEF Output
  <2>2. pc' = "pop" => pulls' >= 1
    BY <1>6, SMT DEF Output
  <2>3. primed' = primed /\ fade' = fade /\ purpose' = "play" /\ pc' \in {"rest", "pop"}
        /\ gain' = FullGain - recovery' * FadeFrames
    BY <1>6 DEF Output
  <2>4. QED
    BY <2>1, <2>2, <2>3
<1>7. CASE PopEmpty \/ PopFrame \/ PopRaced
  BY <1>7, PopKeepsPlayback DEF PopEmpty, PopFrame, PopRaced
<1>8. CASE PopBegin
  BY <1>8 DEF PopBegin, playVars
<1>9. CASE LoadLeft \/ LoadRight
  BY <1>9 DEF LoadLeft, LoadRight, playVars
<1>10. QED
  BY <1>1, <1>2, <1>3, <1>4, <1>5, <1>6, <1>7, <1>8, <1>9 DEF Consumer

LEMMA PlaybackStep ==
  TypeOK /\ Playback /\ [Next]_vars => TypeOK' /\ Playback'
<1> SUFFICES ASSUME TypeOK, Playback, [Next]_vars PROVE TypeOK' /\ Playback'
  OBVIOUS
<1>1. CASE UNCHANGED vars
  BY <1>1 DEF vars, TypeOK, Playback, Popping
<1>2. QED
  BY <1>1, ProducerTypes, ProducerKeepsPlayback, ConsumerTypes, ConsumerKeepsPlayback DEF Next

(* Ring, playback state and gain keep their types: a gain stays between    *)
(* silence and full.                                                       *)
THEOREM TypeCorrect == Spec => [](TypeOK /\ Playback)
  BY InitHolds, PlaybackStep, PTL DEF Spec

(* Starvation, resynchronisation and restart never click.                  *)
THEOREM SteadyGain == Spec => GainMovesInSteps
<1> DEFINE Steps == gain' - gain <= FadeFrames /\ gain - gain' <= FadeFrames
<1>1. TypeOK /\ Playback /\ [Next]_vars => [Steps]_vars
  <2> SUFFICES ASSUME TypeOK, Playback, Next PROVE Steps
    OBVIOUS
  <2>1. gain \in Nat /\ FadeFrames \in Nat \ {0} /\ fadeFrom \in 0..(FadeFrames * FadeFrames)
    BY ConstantTypes, SMT DEF TypeOK, Constants, FullGain
  <2>2. CASE UNCHANGED gain
    BY <2>1, <2>2, SMT
  <2>3. CASE PlayFade
    <3>1. fade \in 1..FadeFrames
      BY <2>1, <2>3, SMT DEF PlayFade, TypeOK
    <3>2. gain = (fadeFrom * fade) \div FadeFrames
      BY <2>3, <3>1, SMT DEF Playback, PlayFade, TypeOK
    <3>3. gain' = (fadeFrom * (fade - 1)) \div FadeFrames
      BY <2>3 DEF PlayFade
    <3>4. gain' <= gain /\ gain - gain' <= FadeFrames /\ gain' \in Nat
      <4>1. gain' \in 0..(FadeFrames * FadeFrames)
        BY <2>1, <3>1, <3>3, FadeStep
      <4>2. gain' <= gain /\ gain - gain' <= FadeFrames
        BY <2>1, <3>1, <3>2, <3>3, FadeStep
      <4>3. QED
        BY <4>1, <4>2
    <3>5. gain \in Nat /\ FadeFrames \in Nat
      BY <2>1
    <3>6. ASSUME NEW a \in Nat, NEW b \in Nat, NEW F \in Nat, b <= a PROVE b - a <= F
      BY <3>6, SMT
    <3>7. QED
      BY <3>4, <3>5, <3>6, Zenon
  <2>4. CASE PlaySilence
    <3>1. gain = (fadeFrom * 0) \div FadeFrames
      BY <2>4 DEF Playback, PlaySilence
    <3>2. gain = 0
      BY <2>1, <3>1, FadeEnds
    <3>3. QED
      BY <2>1, <2>4, <3>2, SMT DEF PlaySilence
  <2>5. CASE Output
    <3>1. gain = FullGain - recovery * FadeFrames /\ recovery \in 0..FadeFrames
      BY <2>5 DEF Playback, Output, TypeOK
    <3>2. gain' = FullGain - recovery' * FadeFrames
          /\ recovery' = IF recovery > 0 THEN recovery - 1 ELSE 0
      BY <2>5 DEF Output
    <3>3. CASE recovery = 0
      BY <2>1, <3>1, <3>2, <3>3, SMT
    <3>4. CASE recovery >= 1
      <4>1. gain' = FullGain - (recovery - 1) * FadeFrames
        BY <2>1, <3>1, <3>2, <3>4, SMT
      <4>2. gain' = gain + FadeFrames
        BY <2>1, <3>1, <3>4, <4>1, RampStep DEF FullGain
      <4>3. QED
        BY <2>1, <4>2, SMT
    <3>5. QED
      BY <2>1, <3>1, <3>3, <3>4, SMT
  <2>6. QED
    BY <2>2, <2>3, <2>4, <2>5
       DEF Next, Producer, PushCheck, PushLeft, PushRight, PushPublish, consumerVars, playVars,
           Consumer, BeginBlock, StartFade, StartPriming, Discard, PopEmpty, PopBegin, LoadLeft,
           LoadRight, PopFrame, PopRaced, Popped, Prime
<1>2. QED
  BY <1>1, TypeCorrect, PTL DEF Spec, GainMovesInSteps

-----------------------------------------------------------------------------
(* What the slots hold                                                     *)

(* The steps of the output callback leave the producer's side alone.       *)
LEMMA ConsumerLeavesRing ==
  ASSUME Consumer
  PROVE  UNCHANGED <<slots, written, producer>>
  BY DEF Consumer, BeginBlock, PlayFade, PlaySilence, StartPriming, Discard, Output, PopEmpty,
     PopBegin, LoadLeft, LoadRight, PopFrame, PopRaced, ringVars

LEMMA WordsStep ==
  TypeOK /\ Words /\ [Next]_vars => Words'
<1> SUFFICES ASSUME TypeOK, Words, [Next]_vars PROVE Words'
  OBVIOUS
<1>1. CASE UNCHANGED <<slots, written, producer>>
  BY <1>1 DEF Words, Slot
<1>2. CASE PushCheck
  BY <1>2, SMT DEF PushCheck, Words, Slot, TypeOK
<1>3. producer.next \in Nat /\ Slot(producer.next) \in 0..(Capacity - 1)
  BY SlotRange DEF TypeOK
<1>4. \A i \in 0..(Capacity - 1) : slots[i] \in Nat \X Nat
  BY DEF TypeOK
<1>5. CASE PushLeft
  <2>1. slots' = [slots EXCEPT ![Slot(producer.next)] =
                                 <<producer.next, slots[Slot(producer.next)][2]>>]
    BY <1>3, <1>5, StoredWord, Zenon DEF PushLeft
  <2>2. /\ \A i \in 0..(Capacity - 1) : slots'[i][2] = slots[i][2]
        /\ \A i \in 0..(Capacity - 1) :
             slots'[i][1] = IF i = Slot(producer.next) THEN producer.next ELSE slots[i][1]
    BY <1>3, <2>1, SMT DEF TypeOK
  <2>3. /\ written' = written /\ producer'.next = producer.next
        /\ producer.at = "left" /\ producer'.at = "right"
    BY <1>5, SMT DEF PushLeft, TypeOK
  <2>4. \A k \in Nat : k < producer.next =>
          slots'[Slot(k)][1] >= k /\ slots'[Slot(k)][2] >= k
    BY <1>3, <1>4, <2>2, SlotRange, SMT DEF Words
  <2>5. slots'[Slot(producer.next)][1] >= producer.next
    BY <1>3, <2>2, SMT
  <2>6. \A i \in 0..(Capacity - 1), c \in 1..2 : slots'[i][c] <= producer.next
    BY <1>3, <1>4, <2>2, SMT DEF Words
  <2>7. QED
    BY <2>3, <2>4, <2>5, <2>6 DEF Words, Slot
<1>6. CASE PushRight
  <2>1. slots' = [slots EXCEPT ![Slot(producer.next)] =
                                 <<slots[Slot(producer.next)][1], producer.next>>]
    BY <1>3, <1>6, StoredWord, Zenon DEF PushRight
  <2>2. /\ \A i \in 0..(Capacity - 1) : slots'[i][1] = slots[i][1]
        /\ \A i \in 0..(Capacity - 1) :
             slots'[i][2] = IF i = Slot(producer.next) THEN producer.next ELSE slots[i][2]
    BY <1>3, <2>1, SMT DEF TypeOK
  <2>3. /\ written' = written /\ producer'.next = producer.next
        /\ producer.at = "right" /\ producer'.at = "publish"
    BY <1>6, SMT DEF PushRight, TypeOK
  <2>4. \A k \in Nat : k < producer.next =>
          slots'[Slot(k)][1] >= k /\ slots'[Slot(k)][2] >= k
    BY <1>3, <1>4, <2>2, SlotRange, SMT DEF Words
  <2>5. /\ slots'[Slot(producer.next)][1] >= producer.next
        /\ slots'[Slot(producer.next)][2] >= producer.next
    BY <1>3, <2>2, <2>3, SMT DEF Words
  <2>6. \A i \in 0..(Capacity - 1), c \in 1..2 : slots'[i][c] <= producer.next
    BY <1>3, <1>4, <2>2, SMT DEF Words
  <2>7. QED
    BY <2>3, <2>4, <2>5, <2>6 DEF Words, Slot
<1>7. CASE PushPublish
  <2>1. /\ slots' = slots /\ written' = producer.next + 1
        /\ producer'.next = producer.next + 1 /\ producer.at = "publish" /\ producer'.at = "idle"
    BY <1>7 DEF PushPublish
  <2>2. \A k \in Nat : k < producer.next + 1 =>
          slots[Slot(k)][1] >= k /\ slots[Slot(k)][2] >= k
    <3>1. SUFFICES ASSUME NEW k \in Nat, k < producer.next + 1
                   PROVE  slots[Slot(k)][1] >= k /\ slots[Slot(k)][2] >= k
      OBVIOUS
    <3>2. CASE k < producer.next
      BY <3>2 DEF Words
    <3>3. CASE k = producer.next
      BY <2>1, <3>3 DEF Words
    <3>4. QED
      BY <1>3, <3>1, <3>2, <3>3, SMT
  <2>3. \A i \in 0..(Capacity - 1), c \in 1..2 : slots[i][c] < producer.next + 1
    BY <1>3, <1>4, SMT DEF Words
  <2>4. \A i \in 0..(Capacity - 1), c \in 1..2 :
          slots[i][c] <= producer.next + 1 /\ slots[i][c] # producer.next + 1
    BY <1>3, <1>4, <2>3, SMT
  <2>5. QED
    BY <2>1, <2>2, <2>4 DEF Words, Slot
<1>8. QED
  BY <1>1, <1>2, <1>5, <1>6, <1>7, ConsumerLeavesRing DEF Next, Producer, vars

-----------------------------------------------------------------------------
(* What a pop loads                                                        *)

(* A load at a pop's position is less than a cycle of the tags ahead.      *)
LEMMA LoadIsRecent ==
  ASSUME TypeOK, Words, Pops, pc \in {"left", "right"}, NEW c \in 1..2
  PROVE  slots[Slot(next)][c] \in Loadable
<1>1. /\ next \in Nat /\ producer.next \in Nat /\ TagModulus \in Nat /\ TagModulus > 0
      /\ Slot(next) \in 0..(Capacity - 1)
  <2>1. next \in Nat /\ producer.next \in Nat
    BY DEF TypeOK
  <2>2. TagModulus \in Nat /\ TagModulus > 0
    BY ConstantTypes, SMT DEF Constants
  <2>3. QED
    BY <2>1, <2>2, SlotRange
<1>2. slots[Slot(next)][1] \in Nat /\ slots[Slot(next)][2] \in Nat
  BY <1>1 DEF TypeOK
<1>3. next < producer.next
  BY DEF Pops, Words
<1>4. slots[Slot(next)][1] >= next /\ slots[Slot(next)][2] >= next
  BY <1>1, <1>3 DEF Words
<1>5. /\ slots[Slot(next)][c] <= producer.next
      /\ slots[Slot(next)][c] = producer.next => producer.at # "idle" \/ producer.next = 0
  BY <1>1 DEF Words
<1>6. /\ producer.next <= next + TagModulus
      /\ producer.at # "idle" => producer.next < next + TagModulus
  BY DEF Pops
<1>7. slots[Slot(next)][c] \in Nat /\ slots[Slot(next)][c] >= next
  BY <1>2, <1>4, SMT
<1>8. QED
  BY <1>1, <1>3, <1>5, <1>6, <1>7, SMT DEF Loadable

LEMMA ProducerKeepsPops ==
  ASSUME TypeOK, Words, Pops, Producer
  PROVE  Pops'
<1> USE DEF Pops, Loadable, consumerVars
<1>0. /\ next \in Nat /\ producer.next \in Nat /\ TagModulus \in Nat
      /\ producer \in [at: {"idle", "left", "right", "publish"}, next: Nat]
  BY ConstantTypes DEF TypeOK, Constants
<1>1. CASE PushCheck
  BY <1>0, <1>1, SMT DEF PushCheck, WithinTagCycle
<1>2. CASE PushLeft \/ PushRight
  BY <1>0, <1>2, SMT DEF PushLeft, PushRight
<1>3. CASE PushPublish
  BY <1>0, <1>3, SMT DEF PushPublish, Words
<1>4. QED
  BY <1>1, <1>2, <1>3 DEF Producer

LEMMA ConsumerKeepsPops ==
  ASSUME TypeOK, Words, Pops, Consumer
  PROVE  Pops'
<1> USE DEF Pops
<1>0. UNCHANGED <<slots, written, producer>>
  BY ConsumerLeavesRing
<1>1. /\ next \in Nat /\ written \in Nat /\ Capacity \in Nat /\ TagModulus \in Nat
      /\ TagModulus > Capacity /\ written = producer.next
      /\ \A k \in Int : Larger(next, k) >= next /\ Larger(next, k) \in Nat
                        /\ Larger(next, k) >= k
  BY ConstantTypes, SMT DEF TypeOK, Constants, Larger, Words
<1>2. \A frame : Popped(frame) => pc' \in {"rest", "pop", "output"}
  BY SMT DEF Popped, Prime, TypeOK
<1>3. CASE BeginBlock \/ PlayFade \/ PlaySilence \/ StartPriming \/ Output
  BY <1>0, <1>3, SMT DEF BeginBlock, PlayFade, PlaySilence, StartPriming, Output
<1>4. CASE Discard
  <2>1. next' >= next /\ next' \in Nat
    BY <1>1, <1>4, ConstantTypes, SMT DEF Discard, Constants
  <2>2. QED
    BY <1>0, <1>1, <1>4, <2>1, SMT DEF Discard
<1>5. Position \in Nat /\ Position >= next /\ Position >= written - Capacity
  BY <1>1, SMT DEF Position
<1>6. CASE PopEmpty \/ PopRaced
  BY <1>0, <1>1, <1>2, <1>5, <1>6, SMT DEF PopEmpty, PopRaced
<1>7. CASE PopBegin
  BY <1>0, <1>1, <1>5, <1>7, SMT DEF PopBegin
<1>8. CASE LoadLeft
  <2>1. slots[Slot(next)][1] \in Loadable
    BY <1>8, LoadIsRecent DEF LoadLeft
  <2>2. QED
    BY <1>0, <1>1, <1>8, <2>1, SMT DEF LoadLeft, Loadable
<1>9. CASE LoadRight
  <2>1. slots[Slot(next)][2] \in Loadable
    BY <1>9, LoadIsRecent DEF LoadRight
  <2>2. QED
    BY <1>0, <1>1, <1>9, <2>1, SMT DEF LoadRight, Loadable
<1>10. CASE PopFrame
  <2>1. popped' = <<next, next>>
    <3>1. seen[1] \in Loadable /\ seen[2] \in Loadable /\ seen \in Int \X Int
      BY <1>10 DEF PopFrame
    <3>2. seen[1] % TagModulus = next % TagModulus /\ seen[2] % TagModulus = next % TagModulus
      BY <1>10 DEF PopFrame, TagsMatch, Tag
    <3>3. /\ seen[1] \in Nat /\ next <= seen[1] /\ seen[1] < next + TagModulus
          /\ seen[2] \in Nat /\ next <= seen[2] /\ seen[2] < next + TagModulus
          /\ TagModulus \in Nat \ {0}
      BY <1>1, <3>1, SMT DEF Loadable
    <3>4. seen[1] = next /\ seen[2] = next
      BY <1>1, <3>2, <3>3, SameTag
    <3>5. seen = <<next, next>>
      BY <3>1, <3>4, SMT
    <3>6. QED
      BY <1>10, <3>5 DEF PopFrame
  <2>2. QED
    BY <1>0, <1>1, <1>2, <1>10, <2>1, SMT DEF PopFrame
<1>11. QED
  BY <1>3, <1>4, <1>6, <1>7, <1>8, <1>9, <1>10 DEF Consumer

LEMMA PopsStep ==
  TypeOK /\ Words /\ Pops /\ [Next]_vars => Pops'
<1> SUFFICES ASSUME TypeOK, Words, Pops, [Next]_vars PROVE Pops'
  OBVIOUS
<1>1. CASE UNCHANGED vars
  BY <1>1 DEF vars, Pops, Loadable
<1>2. QED
  BY <1>1, ProducerKeepsPops, ConsumerKeepsPops DEF Next

(* No slot holds an older frame than the last one written for it, and what *)
(* a pop has loaded is less than one cycle of the tags from its position.  *)
THEOREM RingCorrect == Spec => [](Words /\ Pops)
  BY InitHolds, TypeCorrect, WordsStep, PopsStep, PTL DEF Spec

-----------------------------------------------------------------------------
(* What is counted                                                         *)

LEMMA ProducerKeepsCounts ==
  ASSUME TypeOK, Counts, Producer
  PROVE  Counts'
<1> USE DEF Counts, Begun, consumerVars
<1>0. /\ next \in Nat /\ read \in Nat /\ lost \in Nat /\ overruns \in Nat
      /\ producer \in [at: {"idle", "left", "right", "publish"}, next: Nat]
      /\ Capacity \in Nat
  BY ConstantTypes DEF TypeOK, Constants
<1>1. CASE PushCheck
  BY <1>0, <1>1, SMT DEF PushCheck
<1>2. CASE PushLeft \/ PushRight
  BY <1>0, <1>2, SMT DEF PushLeft, PushRight
<1>3. CASE PushPublish
  BY <1>0, <1>3, SMT DEF PushPublish
<1>4. QED
  BY <1>1, <1>2, <1>3 DEF Producer

LEMMA ConsumerKeepsCounts ==
  ASSUME TypeOK, Words, Counts, Consumer
  PROVE  Counts'
<1> USE DEF Counts, Begun
<1>0. /\ next \in Nat /\ read \in Nat /\ lost \in Nat /\ overruns \in Nat /\ written \in Nat
      /\ producer \in [at: {"idle", "left", "right", "publish"}, next: Nat]
      /\ Capacity \in Nat /\ TargetFrames \in Nat /\ TargetFrames <= Capacity
      /\ written = producer.next
  BY ConstantTypes DEF TypeOK, Constants, Words
<1>1. UNCHANGED <<slots, written, producer>>
  BY ConsumerLeavesRing
<1>2. CASE UNCHANGED <<read, next, overruns, lost>>
  BY <1>1, <1>2
<1>3. CASE Discard
  <2>1. next' = Larger(next, written - TargetFrames) /\ overruns' = overruns + (next' - next)
        /\ lost' = lost + (next' - next) /\ read' = IF next' = next THEN read ELSE next'
    BY <1>3 DEF Discard
  <2>2. next' \in Nat /\ next' >= next
    BY <1>0, <2>1, SMT DEF Larger
  <2>3. read' <= next' /\ lost' <= overruns'
    BY <1>0, <2>1, <2>2, SMT
  <2>4. Begun - next' - Capacity <= overruns' - lost'
    BY <1>0, <2>1, <2>2, SMT
  <2>5. QED
    BY <1>1, <2>3, <2>4
<1>4. /\ Position \in Nat /\ Position >= next
      /\ lost + (Position - next) <= overruns
      /\ Begun - Position - Capacity <= overruns - (lost + (Position - next))
  BY <1>0, SMT DEF Position, Larger
<1>5. CASE PopEmpty \/ PopBegin
  <2>1. next' = Position /\ lost' = lost + (Position - next) /\ UNCHANGED <<read, overruns>>
    BY <1>5 DEF PopEmpty, PopBegin, ringVars
  <2>2. QED
    BY <1>0, <1>1, <1>4, <2>1, SMT
<1>6. CASE PopFrame
  <2>1. next' = next + 1 /\ read' = next + 1 /\ UNCHANGED <<overruns, lost>>
    BY <1>6 DEF PopFrame, ringVars
  <2>2. QED
    BY <1>0, <1>1, <2>1, SMT
<1>7. CASE PopRaced
  <2>1. /\ next' = Position /\ lost' = lost + (Position - next) /\ read' = Position
        /\ UNCHANGED overruns
    BY <1>7 DEF PopRaced, ringVars
  <2>2. QED
    BY <1>0, <1>1, <1>4, <2>1, SMT
<1>8. QED
  BY <1>2, <1>3, <1>5, <1>6, <1>7
     DEF Consumer, BeginBlock, PlayFade, PlaySilence, StartPriming, Output, LoadLeft, LoadRight,
         ringVars

LEMMA CountsStep ==
  TypeOK /\ Words /\ Counts /\ [Next]_vars => Counts'
<1> SUFFICES ASSUME TypeOK, Words, Counts, [Next]_vars PROVE Counts'
  OBVIOUS
<1>1. CASE UNCHANGED vars
  BY <1>1 DEF vars, Counts, Begun
<1>2. QED
  BY <1>1, ProducerKeepsCounts, ConsumerKeepsCounts DEF Next

(* No frame that the consumer's position skips is missing from the overrun *)
(* counter.                                                                *)
THEOREM LossesAccounted == Spec => []LossesCounted
<1>1. Counts => LossesCounted
  BY DEF Counts, LossesCounted
<1>2. Spec => []Counts
  BY InitHolds, TypeCorrect, RingCorrect, CountsStep, PTL DEF Spec
<1>3. QED
  BY <1>1, <1>2, PTL

-----------------------------------------------------------------------------
(* What is delivered                                                       *)

LEMMA InitRefines == Init => Stream!Init
  BY DEF Init, Stream!Init, Stream!Whole, Nothing

LEMMA StepRefines ==
  TypeOK /\ Words /\ Pops /\ Pops' /\ [Next]_vars => [Stream!Next]_Stream!vars
<1> SUFFICES ASSUME TypeOK, Words, Pops, Pops', [Next]_vars
             PROVE  Stream!Next \/ UNCHANGED <<written, popped>>
  BY DEF Stream!vars
<1>1. CASE UNCHANGED vars
  BY <1>1 DEF vars
<1>2. CASE PushPublish
  <2>1. written' = written + 1 /\ popped' = popped
    BY <1>2 DEF PushPublish, consumerVars, Words
  <2>2. QED
    BY <2>1 DEF Stream!Next, Stream!Offer
<1>3. CASE PopFrame
  <2>1. /\ next \in Nat /\ written \in Nat /\ next < written /\ popped[1] < next
        /\ popped[1] \in Int
    BY <1>3 DEF PopFrame, Pops, TypeOK
  <2>2. popped' = <<next, next>>
    <3>1. /\ popped' \in Int \X Int /\ popped'[1] = popped'[2] /\ popped'[1] < next'
          /\ next' = next + 1 /\ popped' = seen
      BY <1>3 DEF PopFrame, Pops
    <3>2. seen[1] \in Loadable
      BY <1>3 DEF PopFrame, Pops
    <3>3. seen[1] = next
      BY <2>1, <3>1, <3>2, ConstantTypes, SMT DEF Loadable, Constants
    <3>4. QED
      BY <3>1, <3>3, SMT
  <2>3. written' = written
    BY <1>3 DEF PopFrame, ringVars
  <2>4. next \in 0..(written - 1)
    BY <2>1, SMT
  <2>5. QED
    BY <2>1, <2>2, <2>3, <2>4 DEF Stream!Next, Stream!Deliver, Stream!Whole
<1>4. QED
  BY <1>1, <1>2, <1>3
     DEF Next, Producer, PushCheck, PushLeft, PushRight, consumerVars, Consumer, BeginBlock,
         PlayFade, PlaySilence, StartPriming, Discard, Output, PopEmpty, PopBegin, LoadLeft,
         LoadRight, PopRaced, ringVars

(* Every frame that reaches playback is one captured frame, later than all *)
(* that were delivered before: the ring implements the lossy stream.       *)
THEOREM Refinement == Spec => ImplementsStream
  BY InitRefines, StepRefines, TypeCorrect, RingCorrect, PTL
     DEF Spec, ImplementsStream, Stream!Spec

=============================================================================
