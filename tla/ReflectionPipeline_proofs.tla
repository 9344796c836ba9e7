---------------------- MODULE ReflectionPipeline_proofs ----------------------
(***************************************************************************)
(* That an effect convolves with the IR its metadata describes, and that a *)
(* jump is never forgotten, for any sources, updates, cadence, modulus of  *)
(* the sequences and number of failed jobs.                                *)
(*                                                                         *)
(* The invariant follows a job around.  OneJob says that there is at most  *)
(* one, and where; Turns that its sources are those whose last IR the      *)
(* audio has acknowledged, so that what a block reads of the snapshot      *)
(* stays true until its acknowledgement (Reading); Mailed then says what   *)
(* is in every mailbox at every moment.  Revised is about jumps: a job     *)
(* whose revision of a source is still the lane's was computed from where  *)
(* the source is now.                                                      *)
(***************************************************************************)
EXTENDS ReflectionPipeline, TLAPS

InFlight ==
  IF jobs # None THEN jobs
  ELSE IF worker.job # None THEN worker.job
  ELSE IF results # None THEN results.job
  ELSE None

OneJob ==
  /\ worker.job # None <=> worker.at \in {"run", "send"}
  /\ jobs # None => lane.busy /\ worker.job = None /\ results = None
  /\ worker.job # None => lane.busy /\ results = None
  /\ results # None => lane.busy
  /\ worker.job # None => worker.todo \subseteq worker.job.sources
  /\ worker.at = "run" => worker.ok
  /\ worker.at = "send" /\ worker.ok => worker.todo = {}

Turns == \A s \in Sources :
  /\ InFlight # None => (s \in InFlight.sources => ack[s] = lane.sequence[s])
  /\ ack[s] = lane.sequence[s] => adopted[s] = lane.sequence[s]

Reading == audio # NoBlock =>
  /\ audio.described = lane.described[audio.source]
  /\ audio.sequence = lane.sequence[audio.source]
  /\ ack[audio.source] # lane.sequence[audio.source]
  /\ adopted[audio.source] = lane.sequence[audio.source] <=> audio.at = "acknowledge"

(* The job under way has run the source, and did not fail.                 *)
Made(s) ==
  \/ worker.job # None /\ worker.ok /\ s \in worker.job.sources \ worker.todo
  \/ results # None /\ results.ok /\ s \in results.job.sources

Mailed == \A s \in Sources :
  s \in left \/ mail[s] = IF Made(s) THEN InFlight.frame
                          ELSE IF adopted[s] = lane.sequence[s] THEN NoIr
                          ELSE lane.described[s]

Revised ==
  /\ frame <= update
  /\ \A s \in Sources :
       /\ lane.revisions[s] <= frame
       /\ InFlight # None =>
            /\ InFlight.revisions[s] <= lane.revisions[s]
            /\ InFlight.revisions[s] = lane.revisions[s] =>
                 s \notin Jumped(InFlight.frame, frame)

-----------------------------------------------------------------------------
(* Operators                                                               *)

(* The sentinel of an empty channel is neither a job nor a completion.     *)
LEMMA NoneIsNothing == None \notin Job /\ None \notin Completion
<1>1. ASSUME None \in Job PROVE FALSE
  <2>1. None.frame \in Updates /\ DOMAIN None = {"frame", "sources", "revisions"}
    BY <1>1 DEF Job
  <2>2. DOMAIN None = {"none"}
    BY DEF None
  <2>3. QED
    BY <2>1, <2>2
<1>2. ASSUME None \in Completion PROVE FALSE
  <2>1. DOMAIN None = {"job", "ok"}
    BY <1>2 DEF Completion
  <2>2. DOMAIN None = {"none"}
    BY DEF None
  <2>3. QED
    BY <2>1, <2>2
<1>3. QED
  BY <1>1, <1>2

(* A block under way is not the sentinel of none.                          *)
LEMMA BlockIsNone ==
  ASSUME NEW block \in [at: {"apply", "acknowledge"}, source: Sources,
                        described: Updates, sequence: Sequences]
  PROVE  block # NoBlock /\ block.at # NoBlock.at
BY DEF NoBlock

(* A source that has not jumped from a to b has the same place and activity*)
(* at both, so two ways without a jump make one.                           *)
LEMMA JumpedOrNot ==
  ASSUME NEW s \in Sources, NEW a, NEW b, NEW c
  PROVE  /\ s \notin Jumped(a, a)
         /\ s \in Jumped(a, c) => s \in Jumped(a, b) \/ s \in Jumped(b, c)
BY DEF Jumped

(* The next sequence is another one: the modulus is at least two.          *)
LEMMA NextSequence ==
  ASSUME NEW q \in Sequences
  PROVE  (q + 1) % SequenceModulus \in Sequences /\ (q + 1) % SequenceModulus # q
<1>1. SequenceModulus \in Nat /\ SequenceModulus >= 2 /\ q \in Nat /\ q < SequenceModulus
  BY ReflectionPipelineAssumption DEF Sequences
<1>2. CASE q + 1 = SequenceModulus
  <2>1. (q + 1) % SequenceModulus = 0
    BY <1>1, <1>2, SMT
  <2>2. QED
    BY <1>1, <1>2, <2>1, SMT DEF Sequences
<1>3. CASE q + 1 < SequenceModulus
  <2>1. (q + 1) % SequenceModulus = q + 1
    BY <1>1, <1>3, SMT
  <2>2. QED
    BY <1>1, <1>3, <2>1, SMT DEF Sequences
<1>4. QED
  BY <1>1, <1>2, <1>3, SMT

-----------------------------------------------------------------------------
(* Harvesting: what both passes do first, and what the second adds         *)

Harvest == DirectPass \/ ReflectionPass

(* What polling leaves of the lane, field by field.                        *)
LEMMA PolledFields ==
  ASSUME TypeOK, OneJob
  PROVE  /\ Polled \in LaneType
         /\ Polled.busy = (lane.busy /\ results = None)
         /\ Polled.tick = lane.tick /\ Polled.revisions = lane.revisions
         /\ ~(results # None /\ results.ok) =>
              /\ Polled.forced = lane.forced
              /\ Polled.described = lane.described /\ Polled.sequence = lane.sequence
         /\ results # None /\ results.ok =>
              \A s \in Sources :
                /\ s \in results.job.sources =>
                     /\ s \in Polled.forced <=> results.job.revisions[s] # lane.revisions[s]
                     /\ Polled.described[s] = results.job.frame
                     /\ Polled.sequence[s] = (lane.sequence[s] + 1) % SequenceModulus
                /\ s \notin results.job.sources =>
                     /\ s \in Polled.forced <=> s \in lane.forced
                     /\ Polled.described[s] = lane.described[s]
                     /\ Polled.sequence[s] = lane.sequence[s]
<1>1. lane \in LaneType /\ lane.busy \in BOOLEAN
  BY DEF TypeOK, LaneType
<1>2. CASE ~Answered
  <2>1. Polled = lane
    BY <1>2 DEF Polled, Answered
  <2>2. results = None
    BY <2>1, <1>2 DEF OneJob, Answered
  <2>3. QED
    BY <1>1, <2>1, <2>2, Zenon
<1>3. CASE Answered /\ ~results.ok
  <2>1. Polled = [lane EXCEPT !.busy = FALSE] /\ results # None
    BY <1>3 DEF Polled, Answered
  <2>2. QED
    BY <1>1, <1>3, <2>1 DEF LaneType
<1>4. CASE Answered /\ results.ok
  <2> DEFINE job == results.job
             F == {s \in Sources : IF s \in job.sources
                     THEN job.revisions[s] # lane.revisions[s] ELSE s \in lane.forced}
             D == [s \in Sources |-> IF s \in job.sources THEN job.frame
                                     ELSE lane.described[s]]
             Q == [s \in Sources |-> IF s \in job.sources
                     THEN (lane.sequence[s] + 1) % SequenceModulus ELSE lane.sequence[s]]
  <2>1. results # None /\ results \in Completion /\ job \in Job /\ job.frame \in Updates
    BY <1>4 DEF Answered, TypeOK, Completion, Job
  <2>2. Polled = [lane EXCEPT !.busy = FALSE, !.forced = F, !.described = D, !.sequence = Q]
    BY <1>4 DEF Polled, Published
  <2>3. F \in SUBSET Sources
    OBVIOUS
  <2>4. D \in [Sources -> Updates]
    BY <2>1, <1>1 DEF LaneType
  <2>5. Q \in [Sources -> Sequences]
    BY <1>1, NextSequence DEF LaneType
  <2>6. \A s \in Sources :
          /\ s \in job.sources =>
               /\ s \in F <=> job.revisions[s] # lane.revisions[s]
               /\ D[s] = job.frame
               /\ Q[s] = (lane.sequence[s] + 1) % SequenceModulus
          /\ s \notin job.sources =>
               /\ s \in F <=> s \in lane.forced
               /\ D[s] = lane.described[s]
               /\ Q[s] = lane.sequence[s]
    OBVIOUS
  <2> HIDE DEF F, D, Q
  <2>7. /\ Polled \in LaneType
        /\ Polled.busy = FALSE /\ Polled.tick = lane.tick
        /\ Polled.revisions = lane.revisions
        /\ Polled.forced = F /\ Polled.described = D /\ Polled.sequence = Q
    BY <1>1, <2>2, <2>3, <2>4, <2>5 DEF LaneType
  <2>8. Polled.busy = (lane.busy /\ results = None)
    BY <2>1, <2>7, Zenon
  <2>9. QED
    BY <1>4, <2>1, <2>6, <2>7, <2>8, Zenon
<1>5. QED
  BY <1>1, <1>2, <1>3, <1>4 DEF TypeOK, Completion

(* A pass harvests; the reflection pass may put a job in the free channel. *)
LEMMA HarvestStep ==
  ASSUME TypeOK, OneJob, Harvest
  PROVE  /\ UNCHANGED <<update, stop, frame, worker, failures, left, mail, ack,
                        audio, next, adopted, heard, closed>>
         /\ results' = None
         /\ lane' \in LaneType
         /\ lane'.forced = Polled.forced /\ lane'.revisions = lane.revisions
         /\ lane'.described = Polled.described /\ lane'.sequence = Polled.sequence
         /\ \/ jobs' = jobs /\ lane'.busy = Polled.busy
            \/ /\ jobs = None /\ ~Polled.busy /\ lane'.busy /\ jobs' \in Job
               /\ jobs'.frame = frame /\ jobs'.revisions = lane.revisions
               /\ \A s \in jobs'.sources : ack[s] = Polled.sequence[s]
<1>1. results' = None
  BY DEF Harvest, DirectPass, ReflectionPass, Poll, Answered, OneJob
<1>2. CASE DirectPass
  BY <1>1, <1>2, PolledFields DEF DirectPass, hostVars, workerVars, audioVars
<1>3. CASE ReflectionPass
  <2> DEFINE l == NextTick(Polled)
             Submitted == WorthAJob(Polled) /\ jobs = None
             new == [frame |-> frame, sources |-> Enabled(l), revisions |-> l.revisions]
  <2>1. UNCHANGED <<update, stop, frame, worker, failures, left, mail, ack,
                    audio, next, adopted, heard, closed>>
    BY <1>3 DEF ReflectionPass, hostVars, workerVars, audioVars
  <2>2. Polled \in LaneType /\ Polled.revisions = lane.revisions
    BY PolledFields
  <2>3. CASE PollFails \/ ~MaySchedule(Polled)
    BY <1>1, <1>3, <2>1, <2>2, <2>3 DEF ReflectionPass
  <2>4. CASE ~(PollFails \/ ~MaySchedule(Polled))
    <3>1. l \in LaneType /\ l.forced = Polled.forced /\ l.revisions = Polled.revisions
          /\ l.described = Polled.described /\ l.sequence = Polled.sequence
          /\ l.busy = Polled.busy
      <4>1. (Polled.tick + 1) % Cadence \in 0..Cadence - 1
        BY <2>2, ReflectionPipelineAssumption, SMT DEF LaneType
      <4>2. QED
        BY <2>2, <4>1 DEF NextTick, LaneType
    <3>2. lane' = [l EXCEPT !.busy = @ \/ Submitted]
          /\ jobs' = IF Submitted THEN new ELSE jobs
      BY <1>3, <2>4 DEF ReflectionPass
    <3>3. ~Polled.busy
      BY <2>4 DEF MaySchedule
    <3> HIDE DEF l
    <3>4. CASE ~Submitted
      <4>1. lane' = [l EXCEPT !.busy = l.busy] /\ jobs' = jobs
        BY <3>2, <3>4, <3>1, Zenon DEF LaneType
      <4>2. QED
        BY <1>1, <2>1, <2>2, <3>1, <4>1 DEF LaneType
    <3>5. CASE Submitted
      <4>1. lane' = [l EXCEPT !.busy = TRUE] /\ jobs' = new /\ jobs = None
        BY <3>2, <3>5, <3>1, Zenon DEF LaneType
      <4>2. Enabled(l) = Enabled(Polled) /\ Enabled(l) # {} /\ Enabled(l) \subseteq Sources
        BY <3>1, <3>5 DEF Enabled, WorthAJob
      <4>3. new \in Job
        <5>0. ASSUME NEW E, E \subseteq Sources, E # {} PROVE E \in (SUBSET Sources) \ {{}}
          BY <5>0
        <5>1. Enabled(l) \in (SUBSET Sources) \ {{}}
          BY <4>2, <5>0, Zenon
        <5>2. l.revisions \in [Sources -> Updates] /\ frame \in Updates
          BY <3>1 DEF LaneType, TypeOK
        <5>3. QED
          BY <5>1, <5>2 DEF Job
      <4>4. \A s \in new.sources : ack[s] = Polled.sequence[s]
        BY <4>2 DEF Enabled
      <4>5. new.frame = frame /\ new.revisions = lane.revisions
        BY <2>2, <3>1
      <4>6. lane' \in LaneType /\ lane'.busy /\ lane'.forced = l.forced
            /\ lane'.revisions = l.revisions /\ lane'.described = l.described
            /\ lane'.sequence = l.sequence
        BY <3>1, <4>1 DEF LaneType
      <4>7. QED
        BY <1>1, <2>1, <2>2, <3>1, <3>3, <4>1, <4>3, <4>4, <4>5, <4>6, Zenon
    <3>6. QED
      BY <3>4, <3>5
  <2>5. QED
    BY <2>3, <2>4
<1>4. QED
  BY <1>2, <1>3 DEF Harvest

-----------------------------------------------------------------------------
(* Types, and the one job                                                  *)

LEMMA InitTypes == Init => TypeOK /\ OneJob
<1> SUFFICES ASSUME Init PROVE TypeOK /\ OneJob
  OBVIOUS
<1>1. 0 \in Updates /\ NoIr \in {NoIr} \cup Updates
  BY ReflectionPipelineAssumption DEF Updates
<1>2. 0 \in Sequences /\ 1 % SequenceModulus \in Sequences
  <2>1. 0 \in Sequences
    BY ReflectionPipelineAssumption DEF Sequences
  <2>2. QED
    BY <2>1, NextSequence
<1>3. 1 \in Sources /\ 0 \in 0..Cadence - 1 /\ 0 \in 0..MaxFailures
  BY ReflectionPipelineAssumption DEF Sources
<1>4. lane \in LaneType
  BY <1>1, <1>2, <1>3 DEF Init, LaneType
<1>5. worker \in [at: {"recv", "run", "send", "gone"}, job: Job \cup {None},
                  todo: SUBSET Sources, ok: BOOLEAN]
  BY DEF Init, Idle
<1>6. heard \in [Sources -> Ir]
  BY <1>1 DEF Init, Ir
<1>7. TypeOK
  BY <1>1, <1>2, <1>3, <1>4, <1>5, <1>6 DEF Init, TypeOK, NoBlock
<1>8. OneJob
  BY DEF Init, OneJob, Idle
<1>9. QED
  BY <1>7, <1>8

LEMMA HostTypes ==
  ASSUME TypeOK, Host PROVE TypeOK'
<1>1. CASE Publish
  <2>1. update' \in Updates
    BY <1>1, ReflectionPipelineAssumption, SMT DEF Publish, TypeOK, Updates
  <2>2. QED
    BY <1>1, <2>1 DEF Publish, TypeOK, loopVars, workerVars, audioVars
<1>2. CASE Stop
  BY <1>2 DEF Stop, TypeOK, loopVars, workerVars, audioVars
<1>3. QED
  BY <1>1, <1>2 DEF Host

LEMMA WakeTypes ==
  ASSUME TypeOK, Revised, NEW due \in SUBSET Passes, Wake(due)
  PROVE  /\ TypeOK'
         /\ UNCHANGED <<jobs, worker, results>>
         /\ lane'.busy = lane.busy /\ lane'.described = lane.described
         /\ lane'.sequence = lane.sequence
         /\ frame' = update
         /\ lane'.forced = lane.forced \cup Jumped(frame, update)
         /\ \A s \in Sources : lane'.revisions[s] =
              IF s \in Jumped(frame, update) THEN lane.revisions[s] + 1 ELSE lane.revisions[s]
<1> DEFINE jumped == Jumped(frame, update)
           R == [s \in Sources |->
                  IF s \in jumped THEN lane.revisions[s] + 1 ELSE lane.revisions[s]]
<1>1. lane' = [lane EXCEPT !.forced = lane.forced \cup jumped, !.revisions = R]
  BY DEF Wake
<1>2. jumped \subseteq Sources
  BY ReflectionPipelineAssumption, TypeOK DEF Jumped, TypeOK, Updates
<1>3. R \in [Sources -> Updates]
  <2>1. SUFFICES ASSUME NEW s \in Sources
                 PROVE  (IF s \in jumped THEN lane.revisions[s] + 1 ELSE lane.revisions[s])
                          \in Updates
    OBVIOUS
  <2>2. lane.revisions[s] \in Updates /\ lane.revisions[s] <= frame
        /\ frame <= update /\ frame \in Updates /\ update \in Updates
    BY DEF Revised, TypeOK, LaneType
  <2>3. CASE s \in jumped
    <3>1. frame # update
      BY <2>3, JumpedOrNot
    <3>2. lane.revisions[s] + 1 \in Updates
      BY <2>2, <3>1, ReflectionPipelineAssumption, SMT DEF Updates
    <3>3. QED
      BY <2>3, <3>2
  <2>4. QED
    BY <2>2, <2>3
<1>4. \A s \in Sources : R[s] =
        IF s \in jumped THEN lane.revisions[s] + 1 ELSE lane.revisions[s]
  OBVIOUS
<1> HIDE DEF R
<1>5. /\ lane' \in LaneType
      /\ lane'.busy = lane.busy /\ lane'.described = lane.described
      /\ lane'.sequence = lane.sequence
      /\ lane'.forced = lane.forced \cup jumped /\ lane'.revisions = R
  BY <1>1, <1>2, <1>3 DEF TypeOK, LaneType
<1>6. TypeOK'
  <2>1. fresh' \in BOOLEAN /\ deferred' \in BOOLEAN
    <3>1. fresh' = ("direct" \in due) /\ deferred' = FALSE
      BY Zenon DEF Wake
    <3>2. ("direct" \in due) \in BOOLEAN /\ FALSE \in BOOLEAN
      OBVIOUS
    <3>3. QED
      BY <3>1, <3>2, Zenon
  <2>2. batch' \in SUBSET Passes /\ loop' = "batch" /\ frame' \in Updates
    BY DEF Wake, TypeOK
  <2>3. UNCHANGED <<update, stop, shown, jobs, closed, results, worker, failures,
                    left, mail, ack, audio, next, adopted, heard>>
    BY DEF Wake, hostVars, workerVars, audioVars
  <2>4. QED
    BY <1>5, <2>1, <2>2, <2>3 DEF TypeOK
<1>7. frame' = update /\ UNCHANGED <<jobs, worker, results>>
  BY DEF Wake, workerVars
<1>8. QED
  BY <1>4, <1>5, <1>6, <1>7, Zenon

LEMMA LoopTypes ==
  ASSUME TypeOK, OneJob, Revised, Loop PROVE TypeOK'
<1>1. CASE \E due \in SUBSET Passes : Wake(due)
  BY <1>1, WakeTypes
<1>2. CASE Harvest
  <2>1. batch' \in SUBSET Passes /\ loop' \in {"parked", "batch", "joining", "joined"}
    BY <1>2 DEF Harvest, DirectPass, ReflectionPass, EndPass, TypeOK
  <2>2. shown' \in Updates /\ fresh' \in BOOLEAN /\ deferred' \in BOOLEAN
    BY <1>2 DEF Harvest, DirectPass, ReflectionPass, TypeOK
  <2>3. jobs' \in Job \cup {None} /\ lane' \in LaneType /\ results' \in Completion \cup {None}
    BY <1>2, HarvestStep, Zenon DEF TypeOK
  <2>4. UNCHANGED <<update, stop, frame, worker, failures, left, mail, ack,
                    audio, next, adopted, heard, closed>>
    BY <1>2, HarvestStep
  <2>5. QED
    BY <2>1, <2>2, <2>3, <2>4 DEF TypeOK
<1>3. CASE DeferReflections
  BY <1>3 DEF DeferReflections, EndPass, TypeOK, hostVars, workerVars, audioVars
<1>4. CASE Leave
  BY <1>4 DEF Leave, TypeOK, hostVars, workerVars, audioVars
<1>5. CASE Join
  BY <1>5 DEF Join, TypeOK, hostVars, workerVars, audioVars
<1>6. QED
  BY <1>1, <1>2, <1>3, <1>4, <1>5 DEF Loop, Harvest

(* What each step of the reflection thread does to its own state.          *)
LEMMA WorkerSteps ==
  ASSUME TypeOK, OneJob, Worker
  PROVE  /\ UNCHANGED <<update, frame, lane, ack, audio, next, adopted, heard>>
         /\ worker'.job \in Job \cup {None} /\ worker'.todo \in SUBSET Sources
         /\ \/ /\ worker.job = None /\ worker.at = "recv" /\ jobs \in Job /\ jobs' = None
               /\ worker' = [at |-> "run", job |-> jobs, todo |-> jobs.sources, ok |-> TRUE]
               /\ UNCHANGED <<results, mail, left>>
            \/ \E s \in Sources :
                 /\ worker.at = "run" /\ s \in worker.todo
                 /\ worker'.at = "run" /\ worker'.job = worker.job
                 /\ worker'.ok = worker.ok /\ worker'.todo = worker.todo \ {s}
                 /\ mail' = Delivered(s)
                 /\ UNCHANGED <<jobs, results, left>>
            \/ /\ worker.at = "run"
               /\ worker'.at = "send" /\ worker'.job = worker.job /\ ~worker'.ok
               /\ worker'.todo = worker.todo
               /\ left' = left \cup (worker.job.sources \ worker.todo)
               /\ UNCHANGED <<jobs, results, mail>>
            \/ /\ worker.at = "run" /\ worker.todo = {}
               /\ worker'.at = "send" /\ worker'.job = worker.job
               /\ worker'.ok = worker.ok /\ worker'.todo = worker.todo
               /\ UNCHANGED <<jobs, results, mail, left>>
            \/ /\ worker.at = "send" /\ results = None /\ worker.job \in Job
               /\ results' = [job |-> worker.job, ok |-> worker.ok]
               /\ worker' = Idle
               /\ UNCHANGED <<jobs, mail, left>>
            \/ /\ worker.at = "recv" /\ worker.job = None
               /\ worker'.at = "gone" /\ worker'.job = worker.job
               /\ worker'.ok = worker.ok /\ worker'.todo = worker.todo
               /\ UNCHANGED <<jobs, results, mail, left>>
<1> USE DEF hostVars, loopVars, audioVars
<1>0. worker \in [at: {"recv", "run", "send", "gone"}, job: Job \cup {None},
                  todo: SUBSET Sources, ok: BOOLEAN]
  BY DEF TypeOK
<1>1. CASE Receive
  <2>1. jobs \in Job /\ jobs.sources \in SUBSET Sources
    BY <1>1 DEF Receive, TypeOK, Job
  <2>2. worker' = [at |-> "run", job |-> jobs, todo |-> jobs.sources, ok |-> TRUE]
    BY <1>1 DEF Receive
  <2>3. worker.job = None
    BY <1>1, <2>1, NoneIsNothing DEF OneJob, Receive
  <2>4. worker'.job = jobs /\ worker'.todo = jobs.sources
    BY <2>2
  <2>5. QED
    BY <1>1, <2>1, <2>2, <2>3, <2>4 DEF Receive
<1>2. CASE \E s \in Sources : RunReflections(s)
  <2>1. PICK s \in Sources : RunReflections(s)
    BY <1>2
  <2>2. worker'.job = worker.job /\ worker'.at = worker.at /\ worker'.ok = worker.ok
        /\ worker'.todo = worker.todo \ {s} /\ worker.at = "run" /\ s \in worker.todo
    BY <1>0, <2>1 DEF RunReflections
  <2>3. UNCHANGED <<update, frame, lane, ack, audio, next, adopted, heard>>
        /\ mail' = Delivered(s) /\ UNCHANGED <<jobs, results, left>>
    BY <2>1 DEF RunReflections
  <2>4. worker'.job \in Job \cup {None} /\ worker'.todo \in SUBSET Sources
    BY <1>0, <2>2
  <2>5. QED
    BY <2>2, <2>3, <2>4, Zenon
<1>3. CASE FailJob
  <2>1. worker'.job = worker.job /\ worker'.at = "send" /\ worker'.ok = FALSE
        /\ worker'.todo = worker.todo
    BY <1>0, <1>3 DEF FailJob
  <2>2. QED
    BY <1>0, <1>3, <2>1 DEF FailJob
<1>4. CASE FinishJob
  <2>1. worker'.job = worker.job /\ worker'.at = "send" /\ worker'.ok = worker.ok
        /\ worker'.todo = worker.todo
    BY <1>0, <1>4 DEF FinishJob
  <2>2. QED
    BY <1>0, <1>4, <2>1 DEF FinishJob, workerVars
<1>5. CASE Send
  <2>1. worker' = Idle /\ Idle.job = None /\ Idle.todo = {}
    BY <1>5 DEF Send, Idle
  <2>2. worker.job \in Job
    BY <1>0, <1>5 DEF Send, OneJob
  <2>3. QED
    BY <1>5, <2>1, <2>2 DEF Send
<1>6. CASE Exit
  <2>1. worker'.job = worker.job /\ worker'.at = "gone" /\ worker'.ok = worker.ok
        /\ worker'.todo = worker.todo
    BY <1>0, <1>6 DEF Exit
  <2>2. worker.job = None
    BY <1>0, <1>6 DEF Exit, OneJob
  <2>3. QED
    BY <1>0, <1>6, <2>1, <2>2 DEF Exit
<1>7. QED
  BY <1>1, <1>2, <1>3, <1>4, <1>5, <1>6 DEF Worker

LEMMA WorkerTypes ==
  ASSUME TypeOK, OneJob, Worker PROVE TypeOK'
<1>1. UNCHANGED <<update, stop, loop, batch, fresh, deferred, frame, lane, shown, closed,
                  ack, audio, next, adopted, heard>>
  BY DEF Worker, Receive, RunReflections, FailJob, FinishJob, Send, Exit, hostVars,
         loopVars, audioVars
<1>2. worker' \in [at: {"recv", "run", "send", "gone"}, job: Job \cup {None},
                   todo: SUBSET Sources, ok: BOOLEAN]
  <2>1. worker \in [at: {"recv", "run", "send", "gone"}, job: Job \cup {None},
                    todo: SUBSET Sources, ok: BOOLEAN]
    BY DEF TypeOK
  <2>2. CASE Receive
    <3>1. worker' = [at |-> "run", job |-> jobs, todo |-> jobs.sources, ok |-> TRUE]
          /\ jobs \in Job /\ jobs.sources \in SUBSET Sources
      BY <2>2 DEF Receive, TypeOK, Job
    <3>2. QED
      BY <3>1
  <2>3. CASE \E s \in Sources : RunReflections(s)
    BY <2>1, <2>3 DEF RunReflections
  <2>4. CASE FailJob
    BY <2>1, <2>4 DEF FailJob
  <2>5. CASE FinishJob
    BY <2>1, <2>5 DEF FinishJob
  <2>6. CASE Send
    BY <2>1, <2>6 DEF Send, Idle
  <2>7. CASE Exit
    BY <2>1, <2>7 DEF Exit
  <2>8. QED
    BY <2>2, <2>3, <2>4, <2>5, <2>6, <2>7 DEF Worker
<1>3. jobs' \in Job \cup {None}
  BY DEF Worker, Receive, RunReflections, FailJob, FinishJob, Send, Exit, TypeOK
<1>4. results' \in Completion \cup {None}
  <2>1. CASE Send
    <3>1. results' = [job |-> worker.job, ok |-> worker.ok] /\ worker.job \in Job
          /\ worker.ok \in BOOLEAN
      BY <2>1 DEF Send, TypeOK, OneJob
    <3>2. QED
      BY <3>1 DEF Completion
  <2>2. CASE ~Send
    BY <2>2 DEF Worker, Receive, RunReflections, FailJob, FinishJob, Exit, TypeOK
  <2>3. QED
    BY <2>1, <2>2
<1>5. failures' \in 0..MaxFailures
  BY ReflectionPipelineAssumption
     DEF Worker, Receive, RunReflections, FailJob, FinishJob, Send, Exit, TypeOK
<1>6. left' \in SUBSET Sources
  <2>1. CASE FailJob
    <3>1. worker.job.sources \in SUBSET Sources
      BY <2>1 DEF FailJob, TypeOK, OneJob, Job
    <3>2. QED
      BY <2>1, <3>1 DEF FailJob, TypeOK
  <2>2. CASE ~FailJob
    BY <2>2 DEF Worker, Receive, RunReflections, FinishJob, Send, Exit, workerVars, TypeOK
  <2>3. QED
    BY <2>1, <2>2
<1>7. mail' \in [Sources -> {NoIr} \cup Updates]
  <2>1. CASE \E s \in Sources : RunReflections(s)
    <3>1. PICK s \in Sources : RunReflections(s)
      BY <2>1
    <3>2. worker.job.frame \in Updates
      BY <3>1 DEF RunReflections, TypeOK, OneJob, Job
    <3>3. QED
      BY <3>1, <3>2 DEF RunReflections, Delivered, TypeOK
  <2>2. CASE ~\E s \in Sources : RunReflections(s)
    BY <2>2 DEF Worker, Receive, FailJob, FinishJob, Send, Exit, workerVars, TypeOK
  <2>3. QED
    BY <2>1, <2>2
<1>8. QED
  BY <1>1, <1>2, <1>3, <1>4, <1>5, <1>6, <1>7 DEF TypeOK

(* What each step of the audio callback does.                              *)
LEMMA AudioSteps ==
  ASSUME TypeOK, Audio
  PROVE  /\ UNCHANGED <<update, stop, loop, batch, fresh, deferred, frame, lane, shown,
                        jobs, closed, results, worker, failures>>
         /\ audio = NoBlock <=> audio.at = "idle"
         /\ \/ /\ audio = NoBlock
               /\ \E s \in Sources :
                    /\ adopted[s] # lane.sequence[s]
                    /\ audio' = [at |-> "apply", source |-> s, described |-> lane.described[s],
                                 sequence |-> lane.sequence[s]]
               /\ next' \in Sources
               /\ UNCHANGED <<mail, left, ack, adopted, heard>>
            \/ /\ audio # NoBlock /\ audio.at = "apply" /\ Adopt
               /\ audio'.at = "acknowledge" /\ audio'.source = audio.source
               /\ audio'.described = audio.described /\ audio'.sequence = audio.sequence
               /\ audio' \in [at: {"apply", "acknowledge"}, source: Sources,
                              described: Updates, sequence: Sequences]
               /\ UNCHANGED <<ack, next>>
            \/ /\ audio # NoBlock /\ audio.at = "acknowledge"
               /\ audio' = NoBlock
               /\ ack' = [ack EXCEPT ![audio.source] = audio.sequence]
               /\ UNCHANGED <<mail, left, next, adopted, heard>>
<1> USE DEF hostVars, loopVars, workerVars
<1>1. audio = NoBlock <=> audio.at = "idle"
  BY BlockIsNone DEF TypeOK, NoBlock
<1>2. audio # NoBlock => audio \in [at: {"apply", "acknowledge"}, source: Sources,
                                    described: Updates, sequence: Sequences]
  BY DEF TypeOK
<1>3. CASE Block
  <2>1. PICK s \in Sources :
          /\ Selected(s)
          /\ next' = (s % SourceCount) + 1
          /\ audio' = [at |-> "apply", source |-> s, described |-> lane.described[s],
                       sequence |-> lane.sequence[s]]
    BY <1>3 DEF Block
  <2>2. adopted[s] # lane.sequence[s]
    BY <2>1 DEF Selected, Pending
  <2>3. (s % SourceCount) + 1 \in Sources
    BY ReflectionPipelineAssumption, SMT DEF Sources
  <2>4. QED
    BY <1>1, <1>3, <2>1, <2>2, <2>3 DEF Block
<1>4. CASE Adopt
  <2>1. audio # NoBlock /\ audio.at = "apply"
    BY <1>1, <1>4 DEF Adopt
  <2>2. audio' = [audio EXCEPT !.at = "acknowledge"]
    BY <1>4 DEF Adopt
  <2>3. audio'.at = "acknowledge" /\ audio'.source = audio.source
        /\ audio'.described = audio.described /\ audio'.sequence = audio.sequence
        /\ audio' \in [at: {"apply", "acknowledge"}, source: Sources,
                       described: Updates, sequence: Sequences]
    BY <1>2, <2>1, <2>2
  <2>4. QED
    BY <1>1, <1>4, <2>1, <2>3 DEF Adopt
<1>5. CASE Acknowledge
  BY <1>1, <1>5 DEF Acknowledge
<1>6. QED
  BY <1>3, <1>4, <1>5 DEF Audio

LEMMA AudioTypes ==
  ASSUME TypeOK, Audio PROVE TypeOK'
<1> DEFINE Blocks == [at: {"apply", "acknowledge"}, source: Sources,
                      described: Updates, sequence: Sequences]
<1>1. UNCHANGED <<update, stop, loop, batch, fresh, deferred, frame, lane, shown,
                  jobs, closed, results, worker, failures>>
  BY AudioSteps
<1>2. audio' \in Blocks \cup {NoBlock}
  <2>1. \A s \in Sources : lane.described[s] \in Updates /\ lane.sequence[s] \in Sequences
    BY DEF TypeOK, LaneType
  <2>2. QED
    BY <2>1, AudioSteps
<1>3. next' \in Sources
  BY AudioSteps DEF TypeOK
<1>4. audio # NoBlock => audio.source \in Sources /\ audio.described \in Updates
                         /\ audio.sequence \in Sequences
  BY DEF TypeOK
<1>5. ack' \in [Sources -> Sequences]
  BY <1>4, AudioSteps DEF TypeOK
<1>6. /\ mail' \in [Sources -> {NoIr} \cup Updates] /\ left' \in SUBSET Sources
      /\ adopted' \in [Sources -> Sequences]
  <2>1. CASE Adopt /\ audio # NoBlock
    BY <1>4, <2>1 DEF Adopt, TypeOK
  <2>2. CASE ~(Adopt /\ audio # NoBlock)
    BY <2>2, AudioSteps DEF TypeOK
  <2>3. QED
    BY <2>1, <2>2
<1>7. heard' \in [Sources -> Ir]
  <2>1. CASE Adopt /\ audio # NoBlock
    <3> DEFINE s == audio.source
               h == [update |-> IF mail[s] = NoIr THEN heard[s].update ELSE mail[s],
                     described |-> audio.described, stray |-> s \in left]
    <3>1. heard' = [heard EXCEPT ![s] = h]
      BY <2>1 DEF Adopt
    <3>2. (s \in left) \in BOOLEAN
      OBVIOUS
    <3>3. (IF mail[s] = NoIr THEN heard[s].update ELSE mail[s]) \in Updates \cup {NoIr}
      BY <1>4, <2>1 DEF TypeOK, Ir
    <3>4. h \in Ir
      BY <1>4, <2>1, <3>2, <3>3, Zenon DEF Ir
    <3>5. QED
      BY <1>4, <2>1, <3>1, <3>4 DEF TypeOK
  <2>2. CASE ~(Adopt /\ audio # NoBlock)
    BY <2>2, AudioSteps DEF TypeOK
  <2>3. QED
    BY <2>1, <2>2
<1>8. QED
  BY <1>1, <1>2, <1>3, <1>5, <1>6, <1>7 DEF TypeOK

-----------------------------------------------------------------------------
(* Every step, as the invariants see it                                    *)

(* The steps that touch neither the job, nor a mailbox, nor a block.       *)
Quiet ==
  /\ UNCHANGED <<frame, lane, jobs, results, worker, mail, left, ack, audio, adopted, heard>>
  /\ update' = update \/ update' = update + 1

Woken == \E due \in SUBSET Passes : Wake(due)

LEMMA StepKinds ==
  ASSUME [Next]_vars PROVE Quiet \/ Woken \/ Harvest \/ Worker \/ Audio
<1>1. CASE Host
  BY <1>1 DEF Host, Publish, Stop, Quiet, loopVars, workerVars, audioVars
<1>2. CASE Loop
  BY <1>2 DEF Loop, Woken, Harvest, DeferReflections, Leave, Join, Quiet, hostVars,
              workerVars, audioVars
<1>3. CASE Finished \/ UNCHANGED vars
  BY <1>3 DEF Finished, vars, Quiet
<1>4. QED
  BY <1>1, <1>2, <1>3 DEF Next

LEMMA TypeStep ==
  ASSUME TypeOK, OneJob, Revised, [Next]_vars PROVE TypeOK'
<1>1. CASE Finished \/ UNCHANGED vars
  BY <1>1 DEF Finished, vars, TypeOK
<1>2. QED
  BY <1>1, HostTypes, LoopTypes, WorkerTypes, AudioTypes DEF Next

LEMMA OneJobStep ==
  ASSUME TypeOK, OneJob, Revised, [Next]_vars PROVE OneJob'
<1>1. CASE Quiet \/ Audio
  BY <1>1, AudioSteps DEF Quiet, OneJob
<1>2. CASE Woken
  BY <1>2, WakeTypes DEF Woken, OneJob
<1>3. CASE Harvest
  <2>1. worker' = worker /\ results' = None
    BY <1>3, HarvestStep
  <2>2. Polled.busy = (lane.busy /\ results = None)
    BY PolledFields
  <2>3. CASE jobs' = jobs /\ lane'.busy = Polled.busy
    BY <2>1, <2>2, <2>3 DEF OneJob
  <2>4. CASE jobs = None /\ ~Polled.busy /\ lane'.busy
    BY <2>1, <2>2, <2>4 DEF OneJob
  <2>5. QED
    BY <1>3, <2>3, <2>4, HarvestStep
<1>4. CASE Worker
  <2>1. CASE worker.at = "recv" /\ worker.job = None /\ jobs \in Job /\ jobs' = None
             /\ worker' = [at |-> "run", job |-> jobs, todo |-> jobs.sources, ok |-> TRUE]
             /\ results' = results
    <3>1. worker'.at = "run" /\ worker'.job = jobs /\ worker'.todo = jobs.sources
          /\ worker'.ok = TRUE
      BY <2>1
    <3>2. jobs # None
      BY <2>1, NoneIsNothing
    <3>3. QED
      BY <1>4, <2>1, <3>1, <3>2, WorkerSteps DEF OneJob
  <2>2. CASE worker.at = "send" /\ results = None /\ worker.job \in Job
             /\ results' = [job |-> worker.job, ok |-> worker.ok]
             /\ worker' = Idle /\ jobs' = jobs
    <3>1. worker'.at = "recv" /\ worker'.job = None
      BY <2>2 DEF Idle
    <3>2. worker.job # None
      BY <2>2, NoneIsNothing
    <3>3. QED
      BY <1>4, <2>2, <3>1, <3>2, WorkerSteps DEF OneJob
  <2>3. CASE results' = results /\ jobs' = jobs /\ worker'.job = worker.job
             /\ worker'.todo \subseteq worker.todo
             /\ \/ worker.at = "run" /\ worker'.at = "run" /\ worker'.ok = worker.ok
                \/ worker.at = "run" /\ worker'.at = "send"
                   /\ (worker'.ok => worker'.todo = {})
                \/ worker.at = "recv" /\ worker'.at = "gone"
    BY <1>4, <2>3, WorkerSteps DEF OneJob
  <2>4. QED
    BY <1>4, <2>1, <2>2, <2>3, WorkerSteps
<1>5. QED
  BY <1>1, <1>2, <1>3, <1>4, StepKinds

(* The job under way is where it is until its completion is harvested.     *)
LEMMA InFlightSteps ==
  ASSUME TypeOK, OneJob, Revised, [Next]_vars
  PROVE  /\ InFlight \in Job \cup {None}
         /\ Quiet \/ Woken \/ Worker \/ Audio => InFlight' = InFlight
         /\ results # None => InFlight = results.job /\ jobs = None
         /\ Harvest =>
              \/ results = None /\ InFlight' = InFlight
              \/ results # None /\ InFlight' = None
              \/ /\ worker.job = None
                 /\ InFlight' \in Job /\ InFlight'.frame = frame
                 /\ InFlight'.revisions = lane.revisions
                 /\ \A s \in InFlight'.sources : ack[s] = Polled.sequence[s]
<1>1. InFlight \in Job \cup {None}
  BY DEF InFlight, TypeOK, Completion
<1>2. results # None => InFlight = results.job /\ jobs = None
  BY DEF InFlight, OneJob
<1>3. ASSUME Quiet \/ Audio PROVE InFlight' = InFlight
  BY <1>3, AudioSteps DEF Quiet, InFlight
<1>4. ASSUME Woken PROVE InFlight' = InFlight
  BY <1>4, WakeTypes DEF Woken, InFlight
<1>5. ASSUME Worker PROVE InFlight' = InFlight
  <2>1. CASE worker.at = "recv" /\ worker.job = None /\ jobs \in Job /\ jobs' = None
             /\ worker' = [at |-> "run", job |-> jobs, todo |-> jobs.sources, ok |-> TRUE]
    <3>1. worker'.job = jobs /\ jobs # None
      BY <2>1, NoneIsNothing
    <3>2. QED
      BY <2>1, <3>1 DEF InFlight
  <2>2. CASE worker.at = "send" /\ results = None /\ worker.job \in Job
             /\ results' = [job |-> worker.job, ok |-> worker.ok]
             /\ worker' = Idle /\ jobs' = jobs
    <3>1. worker'.job = None /\ results'.job = worker.job
      BY <2>2 DEF Idle
    <3>2. worker.job # None /\ jobs = None /\ results' # None
      <4>1. results' \in Completion
        BY <2>2 DEF Completion, TypeOK
      <4>2. QED
        BY <2>2, <4>1, NoneIsNothing DEF OneJob
    <3>3. QED
      BY <2>2, <3>1, <3>2 DEF InFlight
  <2>3. CASE results' = results /\ jobs' = jobs /\ worker'.job = worker.job
    BY <2>3 DEF InFlight
  <2>4. QED
    BY <1>5, <2>1, <2>2, <2>3, WorkerSteps
<1>6. ASSUME Harvest
      PROVE  \/ results = None /\ InFlight' = InFlight
             \/ results # None /\ InFlight' = None
             \/ /\ worker.job = None
                /\ InFlight' \in Job /\ InFlight'.frame = frame
                /\ InFlight'.revisions = lane.revisions
                /\ \A s \in InFlight'.sources : ack[s] = Polled.sequence[s]
  <2>1. worker' = worker /\ results' = None
    BY <1>6, HarvestStep
  <2>2. CASE jobs' = jobs
    BY <2>1, <2>2, <1>2 DEF InFlight, OneJob
  <2>3. CASE /\ ~Polled.busy /\ jobs' \in Job /\ jobs'.frame = frame /\ jobs'.revisions = lane.revisions
             /\ \A s \in jobs'.sources : ack[s] = Polled.sequence[s]
    <3>1. jobs' # None
      BY <2>3, NoneIsNothing
    <3>2. InFlight' = jobs'
      BY <3>1 DEF InFlight
    <3>3. worker.job = None
      BY <2>3, PolledFields DEF OneJob
    <3>4. QED
      BY <2>3, <3>2, <3>3
  <2>4. QED
    BY <1>6, <2>2, <2>3, HarvestStep
<1>7. QED
  BY <1>1, <1>2, <1>3, <1>4, <1>5, <1>6

-----------------------------------------------------------------------------
(* Whose turn it is                                                        *)

(* What harvesting publishes of a source.                                  *)
LEMMA HarvestedSource ==
  ASSUME TypeOK, OneJob, Turns, Harvest, NEW s \in Sources
  PROVE  \/ /\ lane'.sequence[s] = lane.sequence[s]
            /\ lane'.described[s] = lane.described[s]
            /\ s \in lane'.forced <=> s \in lane.forced
            /\ ~(results # None /\ results.ok /\ s \in results.job.sources)
         \/ /\ results # None /\ results.ok /\ s \in results.job.sources
            /\ ack[s] = lane.sequence[s] /\ adopted[s] = lane.sequence[s]
            /\ lane'.sequence[s] # lane.sequence[s]
            /\ lane'.described[s] = results.job.frame
            /\ s \in lane'.forced <=> results.job.revisions[s] # lane.revisions[s]
<1>1. lane.sequence[s] \in Sequences
  BY DEF TypeOK, LaneType
<1>2. (lane.sequence[s] + 1) % SequenceModulus # lane.sequence[s]
  BY <1>1, NextSequence
<1>3. /\ lane'.forced = Polled.forced /\ lane'.described = Polled.described
      /\ lane'.sequence = Polled.sequence
  BY HarvestStep
<1>4. CASE ~(results # None /\ results.ok)
  BY <1>3, <1>4, PolledFields
<1>5. CASE results # None /\ results.ok /\ s \notin results.job.sources
  BY <1>3, <1>5, PolledFields
<1>6. CASE results # None /\ results.ok /\ s \in results.job.sources
  <2>1. InFlight = results.job /\ InFlight # None
    <3>1. results.job \in Job
      BY <1>6 DEF TypeOK, Completion
    <3>2. InFlight = results.job
      BY <1>6 DEF InFlight, OneJob
    <3>3. QED
      BY <3>1, <3>2, NoneIsNothing
  <2>2. ack[s] = lane.sequence[s] /\ adopted[s] = lane.sequence[s]
    BY <1>6, <2>1 DEF Turns
  <2>3. QED
    BY <1>2, <1>3, <1>6, <2>2, PolledFields
<1>7. QED
  BY <1>4, <1>5, <1>6

LEMMA TurnsStep ==
  ASSUME TypeOK, OneJob, Revised, Turns, Reading, [Next]_vars PROVE Turns'
<1>1. SUFFICES ASSUME NEW s \in Sources
               PROVE  /\ InFlight' # None => (s \in InFlight'.sources => ack'[s] = lane'.sequence[s])
                      /\ ack'[s] = lane'.sequence[s] => adopted'[s] = lane'.sequence[s]
  BY DEF Turns
<1>2. /\ InFlight # None => (s \in InFlight.sources => ack[s] = lane.sequence[s])
      /\ ack[s] = lane.sequence[s] => adopted[s] = lane.sequence[s]
  BY DEF Turns
<1>3. CASE Quiet \/ Woken \/ Worker
  <2>1. InFlight' = InFlight
    BY <1>3, InFlightSteps
  <2>2. ack' = ack /\ adopted' = adopted /\ lane'.sequence = lane.sequence
    BY <1>3, WakeTypes, WorkerSteps DEF Quiet, Woken, Wake, audioVars
  <2>3. QED
    BY <1>2, <2>1, <2>2
<1>4. CASE Audio
  <2>1. InFlight' = InFlight /\ lane' = lane
    BY <1>4, InFlightSteps, AudioSteps
  <2>2. CASE ack' = ack /\ adopted' = adopted
    BY <1>2, <2>1, <2>2
  <2>3. CASE audio # NoBlock /\ Adopt /\ ack' = ack
    <3>1. adopted' = [adopted EXCEPT ![audio.source] = audio.sequence]
      BY <2>3 DEF Adopt
    <3>2. audio.sequence = lane.sequence[audio.source]
      BY <2>3 DEF Reading
    <3>3. adopted'[s] = adopted[s] \/ adopted'[s] = lane.sequence[s]
      BY <3>1, <3>2 DEF TypeOK
    <3>4. QED
      BY <1>2, <2>1, <2>3, <3>3
  <2>4. CASE /\ audio # NoBlock /\ audio.at = "acknowledge" /\ adopted' = adopted
             /\ ack' = [ack EXCEPT ![audio.source] = audio.sequence]
    <3>1. audio.sequence = lane.sequence[audio.source]
          /\ adopted[audio.source] = lane.sequence[audio.source]
      BY <2>4 DEF Reading
    <3>2. \/ ack'[s] = ack[s]
          \/ ack'[s] = lane.sequence[s] /\ adopted[s] = lane.sequence[s]
      BY <2>4, <3>1 DEF TypeOK
    <3>3. QED
      BY <1>2, <2>1, <2>4, <3>2
  <2>5. QED
    BY <1>4, <2>2, <2>3, <2>4, AudioSteps
<1>5. CASE Harvest
  <2>1. ack' = ack /\ adopted' = adopted /\ lane'.sequence = Polled.sequence
    BY <1>5, HarvestStep
  <2>2. ack'[s] = lane'.sequence[s] => adopted'[s] = lane'.sequence[s]
    BY <1>2, <1>5, <2>1, HarvestedSource
  <2>3. CASE results = None /\ InFlight' = InFlight
    <3>1. lane'.sequence[s] = lane.sequence[s]
      BY <1>5, <2>3, HarvestedSource
    <3>2. QED
      BY <1>2, <2>1, <2>2, <2>3, <3>1
  <2>4. CASE InFlight' = None
    BY <2>2, <2>4
  <2>5. CASE \A t \in InFlight'.sources : ack[t] = Polled.sequence[t]
    BY <2>1, <2>2, <2>5
  <2>6. QED
    BY <1>5, <2>3, <2>4, <2>5, InFlightSteps
<1>6. QED
  BY <1>3, <1>4, <1>5, StepKinds

LEMMA ReadingStep ==
  ASSUME TypeOK, OneJob, Revised, Turns, Reading, [Next]_vars PROVE Reading'
<1>1. audio # NoBlock => audio.source \in Sources
  BY DEF TypeOK
<1>2. CASE Quiet \/ Woken \/ Worker
  <2>1. UNCHANGED <<audio, ack, adopted>> /\ lane'.sequence = lane.sequence
        /\ lane'.described = lane.described
    BY <1>2, WakeTypes, WorkerSteps DEF Quiet, Woken, Wake, audioVars
  <2>2. QED
    BY <2>1 DEF Reading
<1>3. CASE Audio
  <2>1. lane' = lane
    BY <1>3, AudioSteps
  <2>2. CASE /\ audio = NoBlock
             /\ \E s \in Sources :
                  /\ adopted[s] # lane.sequence[s]
                  /\ audio' = [at |-> "apply", source |-> s,
                               described |-> lane.described[s],
                               sequence |-> lane.sequence[s]]
             /\ UNCHANGED <<mail, left, ack, adopted, heard>>
    <3>1. PICK s \in Sources :
                  /\ adopted[s] # lane.sequence[s]
                  /\ audio' = [at |-> "apply", source |-> s,
                               described |-> lane.described[s],
                               sequence |-> lane.sequence[s]]
      BY <2>2
    <3>2. ack[s] # lane.sequence[s]
      BY <3>1 DEF Turns
    <3>3. audio'.at = "apply" /\ audio'.source = s /\ audio'.described = lane.described[s]
          /\ audio'.sequence = lane.sequence[s]
      BY <3>1
    <3>4. QED
      BY <2>1, <2>2, <3>1, <3>2, <3>3 DEF Reading
  <2>3. CASE /\ audio # NoBlock /\ audio.at = "apply" /\ Adopt
             /\ audio'.at = "acknowledge" /\ audio'.source = audio.source
             /\ audio'.described = audio.described /\ audio'.sequence = audio.sequence
             /\ ack' = ack
    <3>1. adopted'[audio.source] = lane.sequence[audio.source]
      BY <1>1, <2>3 DEF Adopt, TypeOK, Reading
    <3>2. QED
      BY <2>1, <2>3, <3>1 DEF Reading
  <2>4. CASE audio' = NoBlock
    BY <2>4 DEF Reading
  <2>5. QED
    BY <1>3, <2>2, <2>3, <2>4, AudioSteps
<1>4. CASE Harvest
  <2>1. UNCHANGED <<audio, ack, adopted>>
    BY <1>4, HarvestStep
  <2>2. ASSUME audio # NoBlock
        PROVE  lane'.sequence[audio.source] = lane.sequence[audio.source]
               /\ lane'.described[audio.source] = lane.described[audio.source]
    <3>1. ack[audio.source] # lane.sequence[audio.source]
      BY <2>2 DEF Reading
    <3>2. QED
      BY <1>1, <1>4, <2>2, <3>1, HarvestedSource
  <2>3. QED
    BY <2>1, <2>2 DEF Reading
<1>5. QED
  BY <1>2, <1>3, <1>4, StepKinds

-----------------------------------------------------------------------------
(* Jumps                                                                   *)

LEMMA RevisedStep ==
  ASSUME TypeOK, OneJob, Turns, Revised, [Next]_vars PROVE Revised'
<1>0. /\ \A s \in Sources : lane.revisions[s] \in Nat
      /\ InFlight # None => \A s \in Sources : InFlight.revisions[s] \in Nat
      /\ frame \in Nat /\ update \in Nat
  <2>1. Updates \subseteq Nat
    BY ReflectionPipelineAssumption DEF Updates
  <2>2. InFlight # None => InFlight \in Job
    BY InFlightSteps
  <2>3. QED
    BY <2>1, <2>2 DEF TypeOK, LaneType, Job
<1>1. CASE Quiet \/ Worker \/ Audio
  <2>1. InFlight' = InFlight
    BY <1>1, InFlightSteps
  <2>2. lane' = lane /\ frame' = frame /\ (update' = update \/ update' = update + 1)
    BY <1>1, WorkerSteps, AudioSteps DEF Quiet
  <2>3. QED
    BY <1>0, <2>1, <2>2 DEF Revised
<1>2. CASE Woken
  <2>1. PICK due \in SUBSET Passes : Wake(due)
    BY <1>2 DEF Woken
  <2>2. InFlight' = InFlight
    BY <1>2, InFlightSteps
  <2>3. frame' = update /\ update' = update
    BY <2>1 DEF Wake, hostVars
  <2>4. ASSUME NEW s \in Sources
        PROVE  /\ lane'.revisions[s] <= frame'
               /\ InFlight # None =>
                    /\ InFlight.revisions[s] <= lane'.revisions[s]
                    /\ InFlight.revisions[s] = lane'.revisions[s] =>
                         s \notin Jumped(InFlight.frame, frame')
    <3>1. lane.revisions[s] <= frame /\ frame <= update
      BY DEF Revised
    <3>2. InFlight # None =>
            /\ InFlight.revisions[s] <= lane.revisions[s]
            /\ InFlight.revisions[s] = lane.revisions[s] =>
                 s \notin Jumped(InFlight.frame, frame)
      BY DEF Revised
    <3>3. CASE s \in Jumped(frame, update)
      <4>1. lane'.revisions[s] = lane.revisions[s] + 1
        BY <2>1, <3>3, WakeTypes
      <4>2. frame # update
        BY <3>3, JumpedOrNot
      <4>3. QED
        BY <1>0, <2>3, <3>1, <3>2, <4>1, <4>2
    <3>4. CASE s \notin Jumped(frame, update)
      <4>1. lane'.revisions[s] = lane.revisions[s]
        BY <2>1, <3>4, WakeTypes
      <4>2. InFlight # None =>
              (s \in Jumped(InFlight.frame, update) => s \in Jumped(InFlight.frame, frame))
        BY <3>4, JumpedOrNot
      <4>3. lane'.revisions[s] <= frame'
        BY <1>0, <2>3, <3>1, <4>1
      <4>4. QED
        BY <2>3, <3>2, <4>1, <4>2, <4>3
    <3>5. QED
      BY <3>3, <3>4
  <2>5. frame' <= update'
    BY <1>0, <2>3
  <2>6. QED
    BY <2>2, <2>4, <2>5 DEF Revised
<1>3. CASE Harvest
  <2>1. UNCHANGED <<frame, update>> /\ lane'.revisions = lane.revisions
    BY <1>3, HarvestStep
  <2>2. CASE InFlight' = InFlight
    BY <2>1, <2>2 DEF Revised
  <2>3. CASE InFlight' = None
    BY <2>1, <2>3 DEF Revised
  <2>4. CASE InFlight'.frame = frame /\ InFlight'.revisions = lane.revisions
    <3>1. \A s \in Sources : s \notin Jumped(frame, frame)
      BY JumpedOrNot
    <3>2. QED
      BY <1>0, <2>1, <2>4, <3>1 DEF Revised
  <2>5. QED
    BY <1>3, <2>2, <2>3, <2>4, InFlightSteps
<1>4. QED
  BY <1>1, <1>2, <1>3, StepKinds

LEMMA JumpStep ==
  ASSUME TypeOK, OneJob, Turns, Revised, JumpForcesPass, [Next]_vars PROVE JumpForcesPass'
<1>1. CASE Quiet \/ Worker \/ Audio
  <2>1. lane' = lane /\ frame' = frame
    BY <1>1, WorkerSteps, AudioSteps DEF Quiet
  <2>2. QED
    BY <2>1 DEF JumpForcesPass
<1>2. CASE Woken
  <2>1. PICK due \in SUBSET Passes : Wake(due)
    BY <1>2 DEF Woken
  <2>2. frame' = update /\ lane'.described = lane.described
        /\ lane'.forced = lane.forced \cup Jumped(frame, update)
    BY <2>1, WakeTypes
  <2>3. ASSUME NEW s \in Sources, s \in Jumped(lane.described[s], update)
        PROVE  s \in lane.forced \cup Jumped(frame, update)
    <3>1. s \in Jumped(lane.described[s], frame) \/ s \in Jumped(frame, update)
      BY <2>3, JumpedOrNot
    <3>2. QED
      BY <3>1 DEF JumpForcesPass
  <2>4. QED
    BY <2>2, <2>3 DEF JumpForcesPass
<1>3. CASE Harvest
  <2>1. frame' = frame
    BY <1>3, HarvestStep
  <2>2. ASSUME NEW s \in Sources, s \in Jumped(lane'.described[s], frame)
        PROVE  s \in lane'.forced
    <3>1. CASE lane'.described[s] = lane.described[s] /\ (s \in lane'.forced <=> s \in lane.forced)
      BY <2>2, <3>1 DEF JumpForcesPass
    <3>2. CASE /\ results # None /\ lane'.described[s] = results.job.frame
               /\ s \in lane'.forced <=> results.job.revisions[s] # lane.revisions[s]
      <4>1. InFlight = results.job /\ InFlight # None
        <5>1. results.job \in Job /\ InFlight = results.job
          BY <3>2, InFlightSteps DEF TypeOK, Completion
        <5>2. QED
          BY <5>1, NoneIsNothing
      <4>2. InFlight.revisions[s] = lane.revisions[s] => s \notin Jumped(InFlight.frame, frame)
        BY <4>1 DEF Revised
      <4>3. QED
        BY <2>2, <3>2, <4>1, <4>2
    <3>3. QED
      BY <1>3, <3>1, <3>2, HarvestedSource
  <2>3. QED
    BY <2>1, <2>2 DEF JumpForcesPass
<1>4. QED
  BY <1>1, <1>2, <1>3, StepKinds

-----------------------------------------------------------------------------
(* The mailboxes                                                           *)

LEMMA MadeFacts ==
  ASSUME TypeOK, OneJob, NEW s \in Sources
  PROVE  /\ Made(s) => InFlight # None /\ s \in InFlight.sources
         /\ worker.job # None => InFlight = worker.job /\ InFlight \in Job
<1>1. results # None => results.job \in Job /\ InFlight = results.job
  BY DEF TypeOK, Completion, InFlight, OneJob
<1>2. worker.job # None => worker.job \in Job /\ InFlight = worker.job
  BY DEF TypeOK, InFlight, OneJob
<1>3. QED
  BY <1>1, <1>2, NoneIsNothing DEF Made

LEMMA MailedWorkerStep ==
  ASSUME TypeOK, OneJob, Revised, Turns, Mailed, Worker PROVE Mailed'
<1>1. SUFFICES ASSUME NEW s \in Sources, s \notin left'
               PROVE  mail'[s] = IF Made(s)' THEN InFlight'.frame
                                 ELSE IF adopted'[s] = lane'.sequence[s] THEN NoIr
                                 ELSE lane'.described[s]
  BY DEF Mailed
<1>2. UNCHANGED <<InFlight, lane, adopted>>
  <2>1. [Next]_vars
    BY DEF Next
  <2>2. QED
    BY <2>1, InFlightSteps, WorkerSteps
<1>3. ASSUME s \notin left, mail'[s] = mail[s], Made(s)' <=> Made(s)
      PROVE  mail'[s] = IF Made(s)' THEN InFlight'.frame
                        ELSE IF adopted'[s] = lane'.sequence[s] THEN NoIr
                        ELSE lane'.described[s]
  BY <1>2, <1>3 DEF Mailed
<1>4. CASE /\ worker.job = None /\ worker.at = "recv" /\ jobs \in Job
           /\ worker' = [at |-> "run", job |-> jobs, todo |-> jobs.sources, ok |-> TRUE]
           /\ UNCHANGED <<results, mail, left>>
  <2>1. results = None
    BY <1>4, NoneIsNothing DEF OneJob
  <2>2. worker'.job = jobs /\ worker'.todo = jobs.sources
    BY <1>4
  <2>3. Made(s)' <=> Made(s)
    BY <1>4, <2>1, <2>2 DEF Made
  <2>4. QED
    BY <1>1, <1>3, <1>4, <2>3
<1>5. ASSUME NEW t \in Sources,
             /\ worker.at = "run" /\ t \in worker.todo
             /\ worker'.at = "run" /\ worker'.job = worker.job
             /\ worker'.ok = worker.ok /\ worker'.todo = worker.todo \ {t}
             /\ mail' = Delivered(t)
             /\ UNCHANGED <<jobs, results, left>>
      PROVE  mail'[s] = IF Made(s)' THEN InFlight'.frame
                        ELSE IF adopted'[s] = lane'.sequence[s] THEN NoIr
                        ELSE lane'.described[s]
  <2>1. /\ worker.job # None /\ worker.ok /\ results = None
        /\ worker.todo \subseteq worker.job.sources
    BY <1>5 DEF OneJob
  <2>2. InFlight = worker.job /\ InFlight # None
    BY <2>1, MadeFacts, NoneIsNothing
  <2>3. CASE s = t
    <3>1. ~Made(s) /\ Made(s)'
      BY <1>5, <2>1, <2>3 DEF Made
    <3>2. adopted[s] = lane.sequence[s]
      BY <1>5, <2>1, <2>2, <2>3 DEF Turns
    <3>3. mail[s] = NoIr
      BY <1>1, <1>5, <3>1, <3>2 DEF Mailed
    <3>4. mail'[s] = worker.job.frame
      BY <1>5, <2>3, <3>3 DEF Delivered, TypeOK
    <3>5. QED
      BY <1>2, <2>2, <3>1, <3>4
  <2>4. CASE s # t
    <3>1. Made(s)' <=> Made(s)
      BY <1>5, <2>1, <2>4 DEF Made
    <3>2. mail'[s] = mail[s]
      BY <1>5, <2>4 DEF Delivered, TypeOK
    <3>3. QED
      BY <1>1, <1>3, <1>5, <3>1, <3>2
  <2>5. QED
    BY <2>3, <2>4
<1>6. CASE /\ worker.at = "run"
           /\ worker'.at = "send" /\ worker'.job = worker.job /\ ~worker'.ok
           /\ worker'.todo = worker.todo
           /\ left' = left \cup (worker.job.sources \ worker.todo)
           /\ UNCHANGED <<jobs, results, mail>>
  <2>1. results = None /\ ~Made(s)'
    BY <1>6 DEF OneJob, Made
  <2>2. ~Made(s)
    BY <1>1, <1>6, <2>1 DEF Made
  <2>3. QED
    BY <1>1, <1>3, <1>6, <2>1, <2>2
<1>7. CASE /\ worker'.job = worker.job
           /\ worker'.ok = worker.ok /\ worker'.todo = worker.todo
           /\ UNCHANGED <<jobs, results, mail, left>>
  <2>1. Made(s)' <=> Made(s)
    BY <1>7 DEF Made
  <2>2. QED
    BY <1>1, <1>3, <1>7, <2>1
<1>8. CASE /\ worker.at = "send" /\ results = None /\ worker.job \in Job
           /\ results' = [job |-> worker.job, ok |-> worker.ok]
           /\ worker' = Idle
           /\ UNCHANGED <<jobs, mail, left>>
  <2>1. worker'.job = None /\ results'.job = worker.job /\ results'.ok = worker.ok
    BY <1>8 DEF Idle
  <2>2. results' # None
    <3>1. results' \in Completion
      BY <1>8 DEF Completion, TypeOK
    <3>2. QED
      BY <3>1, NoneIsNothing
  <2>3. worker.job # None /\ (worker.ok => worker.todo = {})
    BY <1>8, NoneIsNothing DEF OneJob
  <2>4. Made(s)' <=> Made(s)
    BY <1>8, <2>1, <2>2, <2>3 DEF Made
  <2>5. QED
    BY <1>1, <1>3, <1>8, <2>4
<1>9. QED
  BY <1>4, <1>5, <1>6, <1>7, <1>8, WorkerSteps

LEMMA MailedStep ==
  ASSUME TypeOK, OneJob, Revised, Turns, Reading, Mailed, [Next]_vars PROVE Mailed'
<1>1. CASE Quiet \/ Woken
  <2>1. UNCHANGED <<InFlight, worker, results, mail, left, adopted>>
        /\ lane'.sequence = lane.sequence /\ lane'.described = lane.described
    BY <1>1, InFlightSteps, WakeTypes DEF Quiet, Woken, Wake, audioVars, workerVars
  <2>2. QED
    BY <2>1 DEF Mailed, Made
<1>2. CASE Worker
  BY <1>2, MailedWorkerStep
<1>3. CASE Audio
  <2>1. UNCHANGED <<InFlight, worker, results, lane>>
    BY <1>3, InFlightSteps, AudioSteps
  <2>2. CASE UNCHANGED <<mail, left, adopted>>
    BY <2>1, <2>2 DEF Mailed, Made
  <2>3. CASE audio # NoBlock /\ audio.at = "apply" /\ Adopt
    <3> DEFINE a == audio.source
    <3>1. a \in Sources
      BY <2>3 DEF TypeOK
    <3>2. mail' = [mail EXCEPT ![a] = NoIr] /\ left' = left \ {a}
          /\ adopted' = [adopted EXCEPT ![a] = audio.sequence]
      BY <2>3 DEF Adopt
    <3>3. ack[a] # lane.sequence[a] /\ audio.sequence = lane.sequence[a]
      BY <2>3 DEF Reading
    <3>4. ~Made(a)
      BY <3>1, <3>3, MadeFacts DEF Turns
    <3>5. mail'[a] = NoIr /\ adopted'[a] = lane.sequence[a]
      BY <3>1, <3>2, <3>3 DEF TypeOK
    <3>6. \A s \in Sources : s # a => mail'[s] = mail[s] /\ adopted'[s] = adopted[s]
                                      /\ (s \in left' <=> s \in left)
      BY <3>1, <3>2 DEF TypeOK
    <3>7. \A s \in Sources : Made(s)' <=> Made(s)
      BY <2>1 DEF Made
    <3> HIDE DEF a
    <3>8. SUFFICES ASSUME NEW s \in Sources, s \notin left'
                   PROVE  mail'[s] = IF Made(s)' THEN InFlight'.frame
                                     ELSE IF adopted'[s] = lane'.sequence[s] THEN NoIr
                                     ELSE lane'.described[s]
      BY DEF Mailed
    <3>9. CASE s = a
      BY <2>1, <3>4, <3>5, <3>7, <3>9
    <3>10. CASE s # a
      <4>1. s \notin left /\ mail'[s] = mail[s] /\ adopted'[s] = adopted[s]
            /\ (Made(s)' <=> Made(s))
        BY <3>6, <3>7, <3>8, <3>10
      <4>2. QED
        BY <2>1, <4>1 DEF Mailed
    <3>11. QED
      BY <3>9, <3>10
  <2>4. QED
    BY <1>3, <2>2, <2>3, AudioSteps
<1>4. CASE Harvest
  <2>1. UNCHANGED <<worker, mail, left, adopted>> /\ results' = None
    BY <1>4, HarvestStep
  <2>2. SUFFICES ASSUME NEW s \in Sources, s \notin left
                 PROVE  mail[s] = IF Made(s)' THEN InFlight'.frame
                                  ELSE IF adopted[s] = lane'.sequence[s] THEN NoIr
                                  ELSE lane'.described[s]
    BY <2>1 DEF Mailed
  <2>3. mail[s] = IF Made(s) THEN InFlight.frame
                  ELSE IF adopted[s] = lane.sequence[s] THEN NoIr ELSE lane.described[s]
    BY <2>2 DEF Mailed
  <2>4. CASE /\ lane'.sequence[s] = lane.sequence[s] /\ lane'.described[s] = lane.described[s]
             /\ ~(results # None /\ results.ok /\ s \in results.job.sources)
    <3>1. Made(s)' <=> Made(s)
      BY <2>1, <2>4 DEF Made
    <3>2. Made(s) => InFlight' = InFlight
      <4>1. Made(s) => worker.job # None /\ results = None
        BY <2>4 DEF Made, OneJob
      <4>2. QED
        BY <1>4, <4>1, InFlightSteps
    <3>3. QED
      BY <2>3, <2>4, <3>1, <3>2
  <2>5. CASE /\ results # None /\ results.ok /\ s \in results.job.sources
             /\ adopted[s] = lane.sequence[s] /\ lane'.sequence[s] # lane.sequence[s]
             /\ lane'.described[s] = results.job.frame
    <3>1. Made(s) /\ InFlight = results.job
      BY <2>5, InFlightSteps DEF Made
    <3>2. ~Made(s)'
      BY <2>1, <2>5 DEF Made, OneJob
    <3>3. QED
      BY <2>3, <2>5, <3>1, <3>2
  <2>6. QED
    BY <1>4, <2>4, <2>5, HarvestedSource
<1>5. QED
  BY <1>1, <1>2, <1>3, <1>4, StepKinds

LEMMA HeardStep ==
  ASSUME TypeOK, OneJob, Turns, Reading, Mailed, DescribedIr, [Next]_vars
  PROVE  DescribedIr'
<1>1. CASE heard' = heard
  BY <1>1 DEF DescribedIr
<1>2. CASE audio # NoBlock /\ audio.at = "apply" /\ Adopt
  <2> DEFINE a == audio.source
             h == [update |-> IF mail[a] = NoIr THEN heard[a].update ELSE mail[a],
                   described |-> audio.described, stray |-> a \in left]
  <2>1. a \in Sources
    BY <1>2 DEF TypeOK
  <2>2. heard' = [heard EXCEPT ![a] = h]
    BY <1>2 DEF Adopt
  <2>3. /\ ack[a] # lane.sequence[a] /\ adopted[a] # lane.sequence[a]
        /\ audio.described = lane.described[a]
    BY <1>2 DEF Reading
  <2>4. ~Made(a)
    BY <2>1, <2>3, MadeFacts DEF Turns
  <2>5. a \in left \/ mail[a] = lane.described[a]
    BY <2>1, <2>3, <2>4 DEF Mailed
  <2>6. lane.described[a] # NoIr
    <3>1. lane.described[a] \in Updates
      BY <2>1 DEF TypeOK, LaneType
    <3>2. QED
      BY <3>1, ReflectionPipelineAssumption, SMT DEF Updates, NoIr
  <2>7. h.stray \/ h.update = h.described
    <3>1. CASE a \in left
      BY <3>1, Zenon
    <3>2. CASE mail[a] = lane.described[a]
      BY <2>3, <2>6, <3>2
    <3>3. QED
      BY <2>5, <3>1, <3>2
  <2> HIDE DEF h, a
  <2>8. QED
    BY <2>1, <2>2, <2>7 DEF DescribedIr, TypeOK
<1>3. QED
  BY <1>1, <1>2, StepKinds, WorkerSteps, AudioSteps, HarvestStep
     DEF Quiet, Woken, Wake, audioVars

-----------------------------------------------------------------------------
(* The theorems                                                            *)

Inv ==
  /\ TypeOK /\ OneJob /\ Turns /\ Reading /\ Mailed /\ Revised
  /\ DescribedIr /\ JumpForcesPass

LEMMA InitInv == Init => Inv
<1> SUFFICES ASSUME Init PROVE Inv
  OBVIOUS
<1>1. TypeOK /\ OneJob
  BY InitTypes
<1>2. InFlight = None /\ \A s \in Sources : ~Made(s)
  BY DEF Init, InFlight, Made, Idle
<1>3. \A s \in Sources : ack[s] = 0 /\ adopted[s] = 0 /\ mail[s] = 0 /\ lane.described[s] = 0
                         /\ lane.revisions[s] = 0 /\ lane.sequence[s] = 1 % SequenceModulus
  BY DEF Init
<1>4. 1 % SequenceModulus # 0
  <2>1. 0 \in Sequences
    BY ReflectionPipelineAssumption, SMT DEF Sequences
  <2>2. (0 + 1) % SequenceModulus # 0
    BY <2>1, NextSequence
  <2>3. QED
    BY <2>2
<1>5. Turns /\ Reading
  BY <1>2, <1>3, <1>4 DEF Turns, Reading, Init
<1>6. Mailed
  BY <1>2, <1>3, <1>4 DEF Mailed
<1>7. Revised
  BY <1>2, <1>3 DEF Revised, Init
<1>8. DescribedIr /\ JumpForcesPass
  <2>1. DescribedIr
    BY DEF Init, DescribedIr
  <2>2. JumpForcesPass
    BY <1>3 DEF Init, JumpForcesPass
  <2>3. QED
    BY <2>1, <2>2
<1>9. QED
  BY <1>1, <1>5, <1>6, <1>7, <1>8 DEF Inv

LEMMA NextInv == Inv /\ [Next]_vars => Inv'
BY TypeStep, OneJobStep, TurnsStep, ReadingStep, MailedStep, RevisedStep, HeardStep, JumpStep
   DEF Inv

LEMMA Invariance == Spec => []Inv
BY InitInv, NextInv, PTL DEF Spec

(* The lane, the channels, the mailboxes and a block keep their types.     *)
THEOREM TypeCorrect == Spec => []TypeOK
<1>1. Inv => TypeOK
  BY DEF Inv
<1>2. QED
  BY <1>1, Invariance, PTL

(* Neither send of the lane meets a full channel: the completion of a job  *)
(* finds the slot harvested, and a pass that may schedule finds the slot   *)
(* of the jobs free, so that try_send is never refused and the thread      *)
(* never blocks before it is asked to leave.                               *)
ChannelsSuffice ==
  /\ worker.at = "send" => results = None
  /\ MaySchedule(Polled) => jobs = None

THEOREM ChannelsNeverFull == Spec => []ChannelsSuffice
<1>1. Inv => ChannelsSuffice
  <2> SUFFICES ASSUME Inv PROVE ChannelsSuffice
    OBVIOUS
  <2>1. Polled.busy = (lane.busy /\ results = None)
    BY PolledFields DEF Inv
  <2>2. QED
    BY <2>1 DEF Inv, OneJob, ChannelsSuffice, MaySchedule
<1>2. QED
  BY <1>1, Invariance, PTL

(* Whatever the worker runs or fails and the audio adopts or leaves, every *)
(* mailbox without a failed job's leavings holds the IR of the job under   *)
(* way if that has run the source, else the published IR until it is       *)
(* adopted, else nothing.                                                  *)
THEOREM MailboxesAsPublished == Spec => []Mailed
<1>1. Inv => Mailed
  BY DEF Inv
<1>2. QED
  BY <1>1, Invariance, PTL

(* An effect convolves with the IR its metadata describes, although the    *)
(* two arrive by different ways.                                           *)
THEOREM HeardIsDescribed == Spec => []DescribedIr
<1>1. Inv => DescribedIr
  BY DEF Inv
<1>2. QED
  BY <1>1, Invariance, PTL

(* A source that has jumped since the motion its last IR was made from is  *)
(* forced into the next job.                                               *)
THEOREM JumpsAreForced == Spec => []JumpForcesPass
<1>1. Inv => JumpForcesPass
  BY DEF Inv
<1>2. QED
  BY <1>1, Invariance, PTL
=============================================================================
