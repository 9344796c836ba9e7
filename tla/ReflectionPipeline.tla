------------------------- MODULE ReflectionPipeline -------------------------
(***************************************************************************)
(* The asynchronous reflection lane: three threads and the mailboxes       *)
(* between them.                                                           *)
(*   loop     the SimulationWorker of fightbox-runtime/src/workers.rs that *)
(*            runs due passes of MultiSourceSimulation                     *)
(*            (fightbox-steam-audio/src/multi_source.rs)                   *)
(*   worker   the ReflectionWorker of reflection_worker.rs, which runs one *)
(*            job at a time and answers in a slot for one completion       *)
(*   audio    the render graph, which adopts one source's impulse response *)
(*            (IR) in a block and acknowledges it                          *)
(* An IR goes from worker to audio through a mailbox of the vendor library *)
(* and its metadata goes from loop to audio in the published snapshot: two *)
(* ways that nothing but the acknowledgement keeps in step.                *)
(*                                                                         *)
(* Time is abstracted: a pass is due at any moment.  An IR is abstracted   *)
(* to the number of the motion update it was computed from, and the poses  *)
(* of an update to the place of the listener and the active sources.  The  *)
(* pathing pass is left out: of the lane it only harvests, as the direct   *)
(* pass does.  One quality group, no sharing, update divisors of 1.        *)
(***************************************************************************)
EXTENDS Integers

CONSTANTS
  SourceCount,     \* sources with a reflection send
  Place,           \* Place[v]: where the listener is in update v; another
                   \*   place is a teleport
  ActiveIn,        \* ActiveIn[v]: sources active in update v
  Cadence,         \* cadence_divisor: reflection ticks per periodic pass
  SequenceModulus, \* 2^64 in the code
  MaxUpdates,      \* bound: updates after the initial one
  MaxFailures      \* bound: jobs that the vendor library fails

Sources == 1..SourceCount

ASSUME ReflectionPipelineAssumption ==
  /\ SourceCount \in Nat \ {0}
  /\ MaxUpdates \in Nat /\ MaxFailures \in Nat
  /\ Place \in [0..MaxUpdates -> Nat]
  /\ ActiveIn \in [0..MaxUpdates -> SUBSET Sources]
  /\ Cadence \in Nat \ {0}
  /\ SequenceModulus \in Nat \ {0, 1}

VARIABLES
  update,    \* the update the host published last
  stop,      \* SimulationWorker.stop
  loop,      \* where the simulation thread is
  batch,     \* passes it has still to run since it woke
  fresh,     \* this batch ran a direct pass
  deferred,  \* a reflection pass waits for the next direct deadline
  frame,     \* the update MultiSourceSimulation.frame was taken from
  lane,      \* its reflection state: see LaneType
  shown,     \* the update the published snapshot took its endpoints from
  jobs,      \* sync_channel(1) of jobs
  closed,    \* its sender is dropped
  results,   \* sync_channel(1) of completions
  worker,    \* the reflection thread: where it is, its job, what it has run
  failures,  \* jobs failed so far
  mail,      \* per source: the IR in the vendor's mailbox
  left,      \* history: sources whose unread IR a failed job left there
  ack,       \* WorldGeneration.reflection_acknowledged
  audio,     \* the block in progress, with what it read of the snapshot
  next,      \* ReflectionAdoption.next_source
  adopted,   \* reflection_adopted_sequence of each source
  heard      \* what each source's effect convolves with

hostVars == <<update, stop>>
loopVars == <<loop, batch, fresh, deferred, frame>>
workerVars == <<worker, failures, left>>
audioVars == <<ack, audio, next, adopted, heard>>
vars == <<update, stop, loop, batch, fresh, deferred, frame, lane,
          shown, jobs, closed, results, worker, failures, mail, left, ack,
          audio, next, adopted, heard>>

None == [none |-> TRUE]
NoIr == -1
Updates == 0..MaxUpdates
Passes == {"direct", "reflections"}
Sequences == 0..SequenceModulus - 1
Job == [frame: Updates, sources: (SUBSET Sources) \ {{}},
        revisions: [Sources -> Updates]]
Completion == [job: Job, ok: BOOLEAN]
Ir == [update: Updates \cup {NoIr}, described: Updates \cup {NoIr},
       stray: BOOLEAN]

(* The state of MultiSourceSimulation that polling and scheduling change;  *)
(* described and sequence are what the snapshot publishes of the last IR.  *)
LaneType == [busy: BOOLEAN, tick: 0..Cadence - 1,
             forced: SUBSET Sources, revisions: [Sources -> Updates],
             described: [Sources -> Updates], sequence: [Sources -> Sequences]]

Idle == [at |-> "recv", job |-> None, todo |-> {}, ok |-> TRUE]
NoBlock == [at |-> "idle"]

TypeOK ==
  /\ update \in Updates /\ stop \in BOOLEAN
  /\ loop \in {"parked", "batch", "joining", "joined"}
  /\ batch \in SUBSET Passes
  /\ fresh \in BOOLEAN /\ deferred \in BOOLEAN
  /\ frame \in Updates /\ shown \in Updates
  /\ lane \in LaneType
  /\ jobs \in Job \cup {None} /\ closed \in BOOLEAN
  /\ results \in Completion \cup {None}
  /\ worker \in [at: {"recv", "run", "send", "gone"}, job: Job \cup {None},
                 todo: SUBSET Sources, ok: BOOLEAN]
  /\ failures \in 0..MaxFailures
  /\ mail \in [Sources -> {NoIr} \cup Updates] /\ left \in SUBSET Sources
  /\ ack \in [Sources -> Sequences] /\ adopted \in [Sources -> Sequences]
  /\ audio \in [at: {"apply", "acknowledge"}, source: Sources,
                described: Updates, sequence: Sequences] \cup {NoBlock}
  /\ next \in Sources
  /\ heard \in [Sources -> Ir]

(* The world is prepared: a synchronous pass has published update 0's IR   *)
(* and metadata, which forces nothing less, and the worker is enabled.     *)
Init ==
  /\ update = 0 /\ stop = FALSE
  /\ loop = "parked" /\ batch = {} /\ fresh = FALSE /\ deferred = FALSE
  /\ frame = 0 /\ shown = 0
  /\ lane = [busy |-> FALSE, tick |-> 0, forced |-> Sources,
             revisions |-> [s \in Sources |-> 0],
             described |-> [s \in Sources |-> 0],
             sequence |-> [s \in Sources |-> 1 % SequenceModulus]]
  /\ jobs = None /\ closed = FALSE /\ results = None
  /\ worker = Idle /\ failures = 0
  /\ mail = [s \in Sources |-> 0] /\ left = {}
  /\ ack = [s \in Sources |-> 0] /\ adopted = [s \in Sources |-> 0]
  /\ audio = NoBlock /\ next = 1
  /\ heard = [s \in Sources |->
                [update |-> NoIr, described |-> NoIr, stray |-> FALSE]]

-----------------------------------------------------------------------------
(* The host.                                                               *)

Publish ==
  /\ update < MaxUpdates /\ ~stop
  /\ update' = update + 1
  /\ UNCHANGED <<stop, loopVars, lane, shown, jobs, closed, results,
                 workerVars, mail, audioVars>>

Stop ==
  /\ ~stop
  /\ stop' = TRUE
  /\ UNCHANGED <<update, loopVars, lane, shown, jobs, closed, results,
                 workerVars, mail, audioVars>>

-----------------------------------------------------------------------------
(* The simulation thread.                                                  *)

(* update_inputs: the sources whose IR an endpoint's jump invalidates.     *)
Jumped(from, to) ==
  IF Place[from] # Place[to] THEN Sources
  ELSE (ActiveIn[from] \ ActiveIn[to]) \cup (ActiveIn[to] \ ActiveIn[from])

(* The top of the loop: some deadlines have passed, and the newest update  *)
(* becomes the frame.  A deferred pass is still due.                       *)
Wake(due) ==
  /\ loop = "parked" /\ ~stop
  /\ due # {} /\ (deferred => "reflections" \in due)
  /\ loop' = "batch" /\ batch' = due /\ fresh' = ("direct" \in due)
  /\ deferred' = FALSE
  /\ frame' = update
  /\ LET jumped == Jumped(frame, update) IN
       lane' = [lane EXCEPT
                 !.forced = @ \cup jumped,
                 !.revisions = [s \in Sources |->
                                  IF s \in jumped THEN @[s] + 1 ELSE @[s]]]
  /\ UNCHANGED <<hostVars, shown, jobs, closed, results,
                 workerVars, mail, audioVars>>

(* Fault: a finished job settles whatever its sources were forced for.     *)
PublishedAsSettled(completion) ==
  LET job == completion.job IN
  [lane EXCEPT
    !.busy = FALSE,
    !.forced = @ \ job.sources,
    !.described = [s \in Sources |->
                     IF s \in job.sources THEN job.frame ELSE @[s]],
    !.sequence = [s \in Sources |->
                    IF s \in job.sources THEN (@[s] + 1) % SequenceModulus
                    ELSE @[s]]]

(* publish_reflection_completion: the metadata of every IR of the job goes *)
(* out, even if its source has jumped since; then its next pass is forced. *)
Published(completion) ==
  LET job == completion.job IN
  [lane EXCEPT
    !.busy = FALSE,
    !.forced = {s \in Sources :
                 IF s \in job.sources
                 THEN job.revisions[s] # lane.revisions[s] ELSE s \in @},
    !.described = [s \in Sources |->
                     IF s \in job.sources THEN job.frame ELSE @[s]],
    !.sequence = [s \in Sources |->
                    IF s \in job.sources THEN (@[s] + 1) % SequenceModulus
                    ELSE @[s]]]

(* poll_reflection_worker: whether it succeeds, and the lane it leaves.    *)
Answered == lane.busy /\ results # None
PollFails == Answered /\ ~results.ok
Polled ==
  IF ~Answered THEN lane
  ELSE IF results.ok THEN Published(results)
  ELSE [lane EXCEPT !.busy = FALSE]
Poll == results' = IF Answered THEN None ELSE results

(* A pass of the batch ends: the loop goes on to the next one or parks.    *)
EndPass(pass) ==
  /\ batch' = batch \ {pass}
  /\ loop' = IF batch' = {} THEN "parked" ELSE "batch"

(* run_direct: a failed reflection job, harvested here, fails this pass.   *)
DirectPass ==
  /\ loop = "batch" /\ "direct" \in batch
  /\ Poll
  /\ lane' = Polled
  /\ shown' = IF PollFails THEN shown ELSE frame
  /\ EndPass("direct")
  /\ UNCHANGED <<hostVars, fresh, deferred, frame, jobs, closed,
                 workerVars, mail, audioVars>>

(* Fault: the measured cost alone decides.                                 *)
MayWaitAlways == TRUE

(* reflection_job_should_wait: a batch without a direct pass may find that *)
(* the measured cost does not fit before the next direct deadline.         *)
MayWait == ~fresh

DeferReflections ==
  /\ loop = "batch" /\ batch = {"reflections"}
  /\ MayWait
  /\ deferred' = TRUE
  /\ EndPass("reflections")
  /\ UNCHANGED <<hostVars, fresh, frame, lane, shown, jobs, closed, results,
                 workerVars, mail, audioVars>>

(* Fault: the loop trusts that the audio has taken every IR it was sent.   *)
EnabledUnasked(l) == DOMAIN l.sequence

(* schedule_reflections: sources whose last IR the audio has taken, if one *)
(* of them is forced or the tick is periodic.                              *)
Enabled(l) == {s \in Sources : ack[s] = l.sequence[s]}
WorthAJob(l) ==
  /\ Enabled(l) # {}
  /\ (Enabled(l) \cap l.forced # {} \/ l.tick = 0)

NextTick(l) == [l EXCEPT !.tick = (@ + 1) % Cadence]

(* Fault: a free slot in the jobs channel is taken for leave.              *)
MayScheduleIfFree(l) == jobs = None

(* One job, until its completion has been harvested.                       *)
MaySchedule(l) == ~l.busy

(* The whole pass: harvest, then submit unless a job is still running.     *)
(* Submission is a try_send into the slot of the jobs channel.             *)
ReflectionPass ==
  /\ loop = "batch" /\ batch = {"reflections"}
  /\ Poll
  /\ EndPass("reflections")
  /\ IF PollFails \/ ~MaySchedule(Polled)
     THEN /\ lane' = Polled
          /\ jobs' = jobs
     ELSE LET l == NextTick(Polled)
              submits == WorthAJob(Polled) /\ jobs = None
          IN /\ lane' = [l EXCEPT !.busy = @ \/ submits]
             /\ jobs' = IF submits
                        THEN [frame |-> frame, sources |-> Enabled(l),
                              revisions |-> l.revisions]
                        ELSE jobs
  /\ UNCHANGED <<hostVars, fresh, deferred, frame, shown, closed, workerVars,
                 mail, audioVars>>

(* The loop leaves, and drops the runner: ReflectionWorker::drop closes    *)
(* the jobs channel and joins the thread.                                  *)
Leave ==
  /\ loop = "parked" /\ stop
  /\ loop' = "joining" /\ closed' = TRUE
  /\ UNCHANGED <<hostVars, batch, fresh, deferred, frame, lane, shown, jobs,
                 results, workerVars, mail, audioVars>>

Join ==
  /\ loop = "joining" /\ worker.at = "gone"
  /\ loop' = "joined"
  /\ UNCHANGED <<hostVars, batch, fresh, deferred, frame, lane, shown, jobs,
                 closed, results, workerVars, mail, audioVars>>

-----------------------------------------------------------------------------
(* The reflection thread.                                                  *)

Receive ==
  /\ worker.at = "recv" /\ jobs # None
  /\ worker' = [at |-> "run", job |-> jobs, todo |-> jobs.sources, ok |-> TRUE]
  /\ jobs' = None
  /\ UNCHANGED <<hostVars, loopVars, lane, shown, closed, results, failures,
                 left, mail, audioVars>>

(* The vendor computes the IR of one source, and keeps an unread one.      *)
Delivered(s) == [mail EXCEPT ![s] = IF @ = NoIr THEN worker.job.frame ELSE @]
RunReflections(s) ==
  /\ worker.at = "run" /\ s \in worker.todo
  /\ mail' = Delivered(s)
  /\ worker' = [worker EXCEPT !.todo = @ \ {s}]
  /\ UNCHANGED <<hostVars, loopVars, lane, shown, jobs, closed, results,
                 failures, left, audioVars>>

(* run_job returns an error: what it ran stays in the mailboxes.           *)
FailJob ==
  /\ worker.at = "run" /\ failures < MaxFailures
  /\ failures' = failures + 1
  /\ worker' = [worker EXCEPT !.at = "send", !.ok = FALSE]
  /\ left' = left \cup (worker.job.sources \ worker.todo)
  /\ UNCHANGED <<hostVars, loopVars, lane, shown, jobs, closed, results, mail,
                 audioVars>>

FinishJob ==
  /\ worker.at = "run" /\ worker.todo = {}
  /\ worker' = [worker EXCEPT !.at = "send"]
  /\ UNCHANGED <<hostVars, loopVars, lane, shown, jobs, closed, results,
                 failures, left, mail, audioVars>>

(* The send blocks while an earlier completion is unharvested.             *)
Send ==
  /\ worker.at = "send" /\ results = None
  /\ results' = [job |-> worker.job, ok |-> worker.ok]
  /\ worker' = Idle
  /\ UNCHANGED <<hostVars, loopVars, lane, shown, jobs, closed, failures, left,
                 mail, audioVars>>

Exit ==
  /\ worker.at = "recv" /\ jobs = None /\ closed
  /\ worker' = [worker EXCEPT !.at = "gone"]
  /\ UNCHANGED <<hostVars, loopVars, lane, shown, jobs, closed, results,
                 failures, left, mail, audioVars>>

-----------------------------------------------------------------------------
(* The audio callback.                                                     *)

(* ReflectionAdoption.select: the first pending source from next on.       *)
Pending == {s \in Sources : /\ s \in ActiveIn[shown]
                            /\ adopted[s] # lane.sequence[s]}
Distance(s) == (s - next + SourceCount) % SourceCount
Selected(s) == s \in Pending /\ \A t \in Pending : Distance(s) <= Distance(t)

(* A block with something to adopt reads the snapshot; the mailboxes of    *)
(* all other sources are held closed.                                      *)
Block ==
  /\ audio.at = "idle"
  /\ \E s \in Sources :
       /\ Selected(s)
       /\ next' = (s % SourceCount) + 1
       /\ audio' = [at |-> "apply", source |-> s,
                    described |-> lane.described[s],
                    sequence |-> lane.sequence[s]]
  /\ UNCHANGED <<hostVars, loopVars, lane, shown, jobs, closed, results,
                 workerVars, mail, ack, adopted, heard>>

(* reflection_effect_apply takes the IR out of the mailbox, if there is    *)
(* one, and convolves with the parameters of the metadata.                 *)
Adopt ==
  /\ audio.at = "apply"
  /\ LET s == audio.source IN
       /\ heard' = [heard EXCEPT
                     ![s] = [update |-> IF mail[s] = NoIr THEN @.update
                                        ELSE mail[s],
                             described |-> audio.described,
                             stray |-> s \in left]]
       /\ mail' = [mail EXCEPT ![s] = NoIr]
       /\ left' = left \ {s}
       /\ adopted' = [adopted EXCEPT ![s] = audio.sequence]
  /\ audio' = [audio EXCEPT !.at = "acknowledge"]
  /\ UNCHANGED <<hostVars, loopVars, lane, shown, jobs, closed, results,
                 worker, failures, ack, next>>

Acknowledge ==
  /\ audio.at = "acknowledge"
  /\ ack' = [ack EXCEPT ![audio.source] = audio.sequence]
  /\ audio' = NoBlock
  /\ UNCHANGED <<hostVars, loopVars, lane, shown, jobs, closed, results,
                 workerVars, mail, next, adopted, heard>>

-----------------------------------------------------------------------------
Finished == loop = "joined" /\ audio.at = "idle" /\ UNCHANGED vars

Host == Publish \/ Stop
Loop == \/ \E due \in SUBSET Passes : Wake(due)
        \/ DirectPass \/ DeferReflections \/ ReflectionPass
        \/ Leave \/ Join
Worker == \/ Receive \/ (\E s \in Sources : RunReflections(s))
          \/ FailJob \/ FinishJob \/ Send \/ Exit
Audio == Block \/ Adopt \/ Acknowledge

Next == Host \/ Loop \/ Worker \/ Audio \/ Finished

Spec == Init /\ [][Next]_vars

(* Every deadline keeps passing, so every pass is due again and again; the *)
(* threads keep running, and the device keeps asking for blocks.           *)
WakeFor(pass) == \E due \in SUBSET Passes : pass \in due /\ Wake(due)
FairSpec ==
  /\ Spec
  /\ SF_vars(WakeFor("direct")) /\ SF_vars(WakeFor("reflections"))
  /\ WF_vars(Loop) /\ WF_vars(Worker) /\ WF_vars(Audio)

-----------------------------------------------------------------------------
(* What an effect convolves with is the IR its metadata describes, though  *)
(* the two arrive by different ways, one of which drops what comes too     *)
(* soon; except an IR that a failed job left unread                        *)
(* (multi_source.rs:1075-1085, 1161, 4128-4134).                           *)
DescribedIr == \A s \in Sources :
  heard[s].stray \/ heard[s].update = heard[s].described

(* A jump is never forgotten: while the last IR published for a source is  *)
(* from before its last jump, its next pass is forced and waits for no     *)
(* cadence, also when the jump happened during the job that made that IR   *)
(* or the job for the jump failed (multi_source.rs:849-852, 1083-1084).    *)
JumpForcesPass == \A s \in Sources :
  s \in Jumped(lane.described[s], frame) => s \in lane.forced

(* Stopping the simulation always ends: the reflection thread is joined    *)
(* with whatever job it had, although nobody harvests its completion       *)
(* (reflection_worker.rs:96-105, workers.rs:376-382).                      *)
StopCompletes == stop ~> (loop = "joined")

(* Once the host has moved the listener for the last time, every source    *)
(* that is active then comes to be heard with the IR of that place and     *)
(* stays so, whatever passes are deferred, off cadence, in flight at the   *)
(* jump or failed (workers.rs:520-528, multi_source.rs:1083, 1166).        *)
CurrentIrIsHeard == <>[](\/ stop
                         \/ \A s \in ActiveIn[update] : heard[s].update = update)
=============================================================================
