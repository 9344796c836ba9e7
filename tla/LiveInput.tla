----------------------------- MODULE LiveInput -----------------------------
(***************************************************************************)
(* The live input of fightbox-runtime/src/live_input.rs: a ring that the   *)
(* capture callback fills and never waits for, and the AdaptiveInput that  *)
(* the output callback drains it with.                                     *)
(*                                                                         *)
(* The ring is modelled access by access.  Frame number k is stored as k   *)
(* in both channel words of its slot, and the tag of a word is what the    *)
(* code keeps of the number, k modulo 2^32 (TagModulus here).  Samples are *)
(* abstracted to the gain they are played with; the drift controller to    *)
(* the number of frames that one output sample moves past.                 *)
(***************************************************************************)
EXTENDS Integers

CONSTANTS
  Capacity,     \* slots of the ring
  TagModulus,   \* 2^32 in the code: a tag is the low word of a frame number
  TargetFrames, \* target_frames: fill at which playback starts
  ExcessFrames, \* RESYNC_EXCESS_SECONDS of frames
  FadeFrames,   \* fade_frames
  MaxPulls,     \* bound: frames one output sample may move past
  MaxFrames     \* bound: frames captured

ASSUME LiveInputAssumption ==
  /\ Capacity \in Nat \ {0, 1}
  /\ TagModulus \in Nat /\ TagModulus % Capacity = 0 /\ TagModulus > Capacity
  /\ TargetFrames \in 2..Capacity
  /\ ExcessFrames \in Nat
  /\ FadeFrames \in Nat \ {0}
  /\ MaxPulls \in Nat \ {0}
  /\ MaxFrames \in Nat

VARIABLES
  slots,     \* the two channel words of every slot
  written,   \* StereoRing.written
  read,      \* StereoRing.read
  overruns,  \* StereoRing.overruns
  producer,  \* where push is, and StereoProducer.next
  next,      \* StereoConsumer.next
  pc,        \* where the output callback is
  purpose,   \* what the pop in progress is for
  seen,      \* the words it has loaded
  popped,    \* the last frame a pop returned
  pulls,     \* frames the phase still has to move past for this sample
  primed,    \* AdaptiveInput.primed
  fade,      \* fade_remaining
  fadeFrom,  \* fade_start, as a gain
  recovery,  \* recovery_remaining
  gain,      \* last_output, as a gain
  lost       \* history: frames the consumer's position has skipped

ringVars == <<slots, written, overruns, producer>>
playVars == <<primed, fade, fadeFrom, recovery, gain>>
vars == <<slots, written, read, overruns, producer, next, pc, purpose, seen,
          popped, pulls, primed, fade, fadeFrom, recovery, gain, lost>>

(* Gains are counted in parts of 1 / FadeFrames^2: a fade scales a gain    *)
(* that may itself be a part of a recovery ramp.                           *)
FullGain == FadeFrames * FadeFrames

Nothing == <<-1, -1>>

Larger(a, b) == IF a > b THEN a ELSE b

Slot(k) == k % Capacity
Tag(k) == k % TagModulus

FillFrames ==
  IF written - next < Capacity THEN written - next ELSE Capacity

Init ==
  /\ slots = [i \in 0..(Capacity - 1) |-> <<0, 0>>]
  /\ written = 0 /\ read = 0 /\ overruns = 0
  /\ producer = [at |-> "idle", next |-> 0]
  /\ next = 0
  /\ pc = "rest" /\ purpose = "play" /\ seen = Nothing /\ popped = Nothing
  /\ pulls = 0
  /\ primed = FALSE /\ fade = 0 /\ fadeFrom = 0 /\ recovery = 0 /\ gain = 0
  /\ lost = 0

-----------------------------------------------------------------------------
(* StereoProducer::push, in the capture callback                           *)

consumerVars == <<next, pc, purpose, seen, popped, pulls, playVars, lost>>

(* A pop reads the two words of its slot within one cycle of the tags: in  *)
(* the code the producer would have to write 2^32 frames meanwhile.        *)
WithinTagCycle ==
  pc \in {"left", "right"} => producer.next < next + TagModulus

(* Fault: a full ring is not counted.                                      *)
PushCheckUncounted ==
  /\ producer.at = "idle"
  /\ producer.next < MaxFrames
  /\ WithinTagCycle
  /\ producer' = [producer EXCEPT !.at = "left"]
  /\ UNCHANGED <<slots, written, read, overruns, consumerVars>>

(* The ring looks full from the position the consumer published last.      *)
PushCheck ==
  /\ producer.at = "idle"
  /\ producer.next < MaxFrames
  /\ WithinTagCycle
  /\ overruns' = IF producer.next - read >= Capacity THEN overruns + 1 ELSE overruns
  /\ producer' = [producer EXCEPT !.at = "left"]
  /\ UNCHANGED <<slots, written, read, consumerVars>>

PushLeft ==
  /\ producer.at = "left"
  /\ slots' = [slots EXCEPT ![Slot(producer.next)][1] = producer.next]
  /\ producer' = [producer EXCEPT !.at = "right"]
  /\ UNCHANGED <<written, read, overruns, consumerVars>>

PushRight ==
  /\ producer.at = "right"
  /\ slots' = [slots EXCEPT ![Slot(producer.next)][2] = producer.next]
  /\ producer' = [producer EXCEPT !.at = "publish"]
  /\ UNCHANGED <<written, read, overruns, consumerVars>>

PushPublish ==
  /\ producer.at = "publish"
  /\ written' = producer.next + 1
  /\ producer' = [at |-> "idle", next |-> producer.next + 1]
  /\ UNCHANGED <<slots, read, overruns, consumerVars>>

Producer == PushCheck \/ PushLeft \/ PushRight \/ PushPublish

-----------------------------------------------------------------------------
(* AdaptiveInput, in the output callback                                   *)

(* Playback stops and fades from the gain it has.                          *)
StartFade ==
  /\ primed' = FALSE
  /\ fadeFrom' = gain
  /\ fade' = FadeFrames

(* begin_block: input that piled up during an output stall is discarded by *)
(* fading out and starting again.                                          *)
BeginBlock ==
  /\ pc = "rest"
  /\ primed /\ FillFrames > TargetFrames + ExcessFrames /\ fade = 0
  /\ StartFade
  /\ UNCHANGED <<ringVars, read, next, pc, purpose, seen, popped, pulls,
                 recovery, gain, lost>>

(* read_frame while a fade is running.                                     *)
PlayFade ==
  /\ pc = "rest"
  /\ fade > 0
  /\ fade' = fade - 1
  /\ gain' = (fadeFrom * fade') \div FadeFrames
  /\ UNCHANGED <<ringVars, read, next, pc, purpose, seen, popped, pulls,
                 primed, fadeFrom, recovery, lost>>

(* read_frame before playback: silence until the ring holds the target.    *)
PlaySilence ==
  /\ pc = "rest"
  /\ fade = 0 /\ ~primed
  /\ FillFrames < TargetFrames
  /\ gain' = 0
  /\ UNCHANGED <<ringVars, read, next, pc, purpose, seen, popped, pulls,
                 primed, fade, fadeFrom, recovery, lost>>

(* Fault: exactly the target is not enough.                                *)
StartPrimingAbove ==
  /\ pc = "rest"
  /\ fade = 0 /\ ~primed
  /\ FillFrames > TargetFrames
  /\ pc' = "discard"
  /\ UNCHANGED <<ringVars, read, next, purpose, seen, popped, pulls, playVars, lost>>

StartPriming ==
  /\ pc = "rest"
  /\ fade = 0 /\ ~primed
  /\ FillFrames >= TargetFrames
  /\ pc' = "discard"
  /\ UNCHANGED <<ringVars, read, next, purpose, seen, popped, pulls, playVars, lost>>

(* discard_to: only the newest TargetFrames are kept.                      *)
Discard ==
  /\ pc = "discard"
  /\ next' = Larger(next, written - TargetFrames)
  /\ overruns' = overruns + (next' - next)
  /\ lost' = lost + (next' - next)
  /\ read' = IF next' = next THEN read ELSE next'
  /\ pc' = "pop" /\ purpose' = "current"
  /\ UNCHANGED <<slots, written, producer, seen, popped, pulls, playVars>>

-----------------------------------------------------------------------------
(* What read_frame does with the result of a pop.                          *)

(* Fault: playback starts at full gain.                                    *)
PrimeAtFullGain ==
  /\ primed' = TRUE
  /\ recovery' = 0
  /\ UNCHANGED <<fade, fadeFrom, gain>>
  /\ pc' = "output"

(* Both first frames are there: playback starts, ramping up.               *)
Prime ==
  /\ primed' = TRUE
  /\ recovery' = FadeFrames
  /\ UNCHANGED <<fade, fadeFrom, gain>>
  /\ pc' = "output"

(* The second pop is made whatever the first one returned; the pair is     *)
(* used only if both returned a frame.                                     *)
Popped(frame) ==
  \/ /\ purpose = "current"
     /\ purpose' = IF frame = Nothing THEN "wasted" ELSE "next"
     /\ pc' = "pop"
     /\ UNCHANGED <<pulls, playVars>>
  \/ /\ purpose = "next" /\ frame # Nothing
     /\ Prime
     /\ UNCHANGED <<purpose, pulls>>
  \/ /\ \/ purpose = "wasted"
        \/ purpose = "next" /\ frame = Nothing
     /\ pc' = "rest"
     /\ UNCHANGED <<purpose, pulls, playVars>>
  \/ /\ purpose = "play" /\ frame # Nothing
     /\ pulls' = pulls - 1
     /\ pc' = IF pulls' = 0 THEN "rest" ELSE "pop"
     /\ UNCHANGED <<purpose, playVars>>
  \/ /\ purpose = "play" /\ frame = Nothing
     /\ pulls' = 0
     /\ StartFade
     /\ pc' = "rest"
     /\ UNCHANGED <<purpose, recovery, gain>>

(* One output sample: the recovery ramp, then as many pops as the phase    *)
(* moves past whole frames.                                                *)
Output ==
  /\ \/ pc = "output"
     \/ pc = "rest" /\ primed /\ fade = 0
  /\ recovery' = IF recovery > 0 THEN recovery - 1 ELSE 0
  /\ gain' = FullGain - recovery' * FadeFrames
  /\ pulls' \in 0..MaxPulls
  /\ pc' = IF pulls' = 0 THEN "rest" ELSE "pop"
  /\ purpose' = "play"
  /\ UNCHANGED <<ringVars, read, next, seen, popped, primed, fade, fadeFrom, lost>>

-----------------------------------------------------------------------------
(* StereoConsumer::pop                                                     *)

(* The oldest frame that is not overwritten for certain.                   *)
Position == Larger(next, written - Capacity)

PopEmpty ==
  /\ pc = "pop"
  /\ Position >= written
  /\ next' = Position
  /\ lost' = lost + (next' - next)
  /\ Popped(Nothing)
  /\ UNCHANGED <<ringVars, read, seen, popped>>

PopBegin ==
  /\ pc = "pop"
  /\ Position < written
  /\ next' = Position
  /\ lost' = lost + (next' - next)
  /\ pc' = "left"
  /\ UNCHANGED <<ringVars, read, purpose, seen, popped, pulls, playVars>>

LoadLeft ==
  /\ pc = "left"
  /\ seen' = <<slots[Slot(next)][1], seen[2]>>
  /\ pc' = "right"
  /\ UNCHANGED <<ringVars, read, next, purpose, popped, pulls, playVars, lost>>

LoadRight ==
  /\ pc = "right"
  /\ seen' = <<seen[1], slots[Slot(next)][2]>>
  /\ pc' = "settle"
  /\ UNCHANGED <<ringVars, read, next, purpose, popped, pulls, playVars, lost>>

(* Fault: the tag of the first channel stands for both.                    *)
LeftTagMatches == Tag(seen[1]) = Tag(next)

TagsMatch == \A c \in 1..2 : Tag(seen[c]) = Tag(next)

PopFrame ==
  /\ pc = "settle"
  /\ TagsMatch
  /\ next' = next + 1
  /\ read' = next'
  /\ popped' = seen
  /\ Popped(seen)
  /\ UNCHANGED <<ringVars, seen, lost>>

(* An overwrite raced the two loads: move past what is gone and give up.   *)
PopRaced ==
  /\ pc = "settle"
  /\ ~TagsMatch
  /\ next' = Position
  /\ lost' = lost + (next' - next)
  /\ read' = next'
  /\ Popped(Nothing)
  /\ UNCHANGED <<ringVars, seen, popped>>

Consumer ==
  \/ BeginBlock \/ PlayFade \/ PlaySilence \/ StartPriming \/ Discard
  \/ Output \/ PopEmpty \/ PopBegin \/ LoadLeft \/ LoadRight
  \/ PopFrame \/ PopRaced

-----------------------------------------------------------------------------
Next == Producer \/ Consumer

Spec == Init /\ [][Next]_vars

(* The output device keeps calling; the capture device may stop at any     *)
(* time.                                                                   *)
FairSpec == Spec /\ WF_vars(Consumer)

-----------------------------------------------------------------------------
TypeOK ==
  /\ slots \in [0..(Capacity - 1) -> Nat \X Nat]
  /\ written \in Nat /\ read \in Nat /\ overruns \in Nat /\ next \in Nat /\ lost \in Nat
  /\ producer \in [at: {"idle", "left", "right", "publish"}, next: Nat]
  /\ pc \in {"rest", "discard", "pop", "left", "right", "settle", "output"}
  /\ purpose \in {"current", "next", "wasted", "play"}
  /\ pulls \in 0..MaxPulls
  /\ primed \in BOOLEAN
  /\ fade \in 0..FadeFrames /\ recovery \in 0..FadeFrames
  /\ gain \in 0..FullGain /\ fadeFrom \in 0..FullGain

Stream == INSTANCE LossyStream WITH offered <- written, delivered <- popped

(* Whatever the producer overwrites while the consumer reads, every frame  *)
(* that reaches playback has both channels of one captured frame, and none *)
(* is played twice or after a later one, although tags repeat.             *)
ImplementsStream == Stream!Spec

(* The overrun counter never hides a loss: every frame that the consumer's *)
(* position skipped, lapped or discarded, has been counted.                *)
LossesCounted == lost <= overruns

(* Starvation, resynchronisation and restart never click: from one output  *)
(* sample to the next the gain moves by one step of the ramp at most.      *)
GainMovesInSteps ==
  [][/\ gain' - gain <= FadeFrames
     /\ gain - gain' <= FadeFrames]_vars

(* Input that stopped and came back is heard again: once the ring holds    *)
(* the target, playback starts, whatever races the first pops lose.        *)
PlaysAgain == (~primed /\ FillFrames >= TargetFrames) ~> primed
=============================================================================
