--------------------------- MODULE QueueThrottle ---------------------------
(***************************************************************************)
(* Jobs that pause the queues of other jobs while they work.               *)
(*                                                                         *)
(* The reset-user-traffic job pauses the usage queues and waits a while     *)
(* for their workers to finish; the cleanup of usage records pauses one of  *)
(* them and does not wait; the restart of a profile's nodes pauses the      *)
(* queues of the other restarts.  A pause is a flag of the queue in Redis:  *)
(* it is not counted, and it outlives the job that set it.                  *)
(*                                                                         *)
(* The names are the throttle's own: a module can extend it together with   *)
(* that of the component whose queues are paused.                           *)
(***************************************************************************)
EXTENDS Naturals, Sequences

CONSTANTS
    Queues,       \* the queues that are paused
    Jobs,         \* the jobs that pause them; one of each runs at a time
    Pauses,       \* Pauses[j]: what j pauses, and resumes, in groups one after another
    Drains,       \* the jobs that wait for the workers (throttleQueues)
    Guarded,      \* the jobs that pause within their try, so that they resume at least
    Recurring,    \* the jobs a cron starts again and again
    Concurrency,  \* Concurrency[q]: jobs of q that run at once
    MaxAttempts,  \* maxAttempts of throttleQueues
    MaxStalls,    \* BullMQ's maxStalledCount
    MaxWaiting,   \* bound: jobs of one queue that wait
    MaxFailures   \* bound: crashes and refused commands

Of(j) == {q \in Queues : \E i \in DOMAIN Pauses[j] : q \in Pauses[j][i]}

ASSUME ThrottleAssumption ==
    /\ Pauses \in [Jobs -> Seq(SUBSET Queues)]
    /\ \A j \in Jobs : Of(j) # {}
    /\ Drains \subseteq Jobs /\ Guarded \subseteq Jobs /\ Recurring \subseteq Jobs
    /\ Concurrency \in [Queues -> Nat \ {0}]
    /\ {MaxAttempts, MaxStalls, MaxWaiting, MaxFailures} \subseteq Nat

VARIABLES
    paused,     \* the queues whose flag is set
    waiting,    \* waiting[q]: jobs in q
    busy,       \* busy[q]: jobs of q in a worker
    run,        \* run[j]: how far j is: its stage, the queues still to pause or to
                \*   resume, the counts that found a worker, and its stalls
    disturbed,  \* jobs that had a queue resumed under them (history)
    abandoned,  \* paused queues whose job is gone (history)
    failures    \* crashes and refused commands so far (bound)

queueVars == <<waiting, busy>>
throttleVars == <<paused, queueVars, run, disturbed, abandoned, failures>>

Stage == {"idle", "pausing", "draining", "working", "resuming"}
At(stage, rest, stalls) == [stage |-> stage, rest |-> rest, tries |-> 0, stalls |-> stalls]
Idle == At("idle", {}, 0)

ThrottleTypeOK ==
    /\ paused \in SUBSET Queues
    /\ waiting \in [Queues -> Nat]
    /\ busy \in [Queues -> Nat]
    /\ run \in [Jobs -> [stage : Stage, rest : SUBSET Queues,
                         tries : 0..MaxAttempts, stalls : 0..MaxStalls]]
    /\ disturbed \in SUBSET Jobs
    /\ abandoned \in SUBSET Queues
    /\ failures \in Nat

ThrottleInit ==
    /\ paused = {}
    /\ waiting = [q \in Queues |-> 0]
    /\ busy = [q \in Queues |-> 0]
    /\ run = [j \in Jobs |-> Idle]
    /\ disturbed = {}
    /\ abandoned = {}
    /\ failures = 0

Failure ==
    /\ failures < MaxFailures
    /\ failures' = failures + 1

(* j has paused q, and has not begun to resume.                             *)
Suspends(j, q) ==
    /\ q \in Of(j)
    /\ \/ run[j].stage \in {"draining", "working"}
       \/ run[j].stage = "pausing" /\ q \notin run[j].rest

(* The next queue of j's groups.                                            *)
Turn(j, q) ==
    /\ q \in run[j].rest
    /\ \E i \in DOMAIN Pauses[j] :
        /\ q \in Pauses[j][i]
        /\ \A k \in 1..(i - 1) : Pauses[j][k] \cap run[j].rest = {}

-----------------------------------------------------------------------------
(* The paused queues and their workers.                                     *)

Arrive(q) ==
    /\ waiting[q] < MaxWaiting
    /\ waiting' = [waiting EXCEPT ![q] = @ + 1]
    /\ UNCHANGED <<paused, busy, run, disturbed, abandoned, failures>>

(* A pause keeps jobs from being taken; those that run go on.               *)
Take(q) ==
    /\ q \notin paused
    /\ waiting[q] > 0
    /\ busy[q] < Concurrency[q]
    /\ waiting' = [waiting EXCEPT ![q] = @ - 1]
    /\ busy' = [busy EXCEPT ![q] = @ + 1]
    /\ UNCHANGED <<paused, run, disturbed, abandoned, failures>>

Finish(q) ==
    /\ busy[q] > 0
    /\ busy' = [busy EXCEPT ![q] = @ - 1]
    /\ UNCHANGED <<paused, waiting, run, disturbed, abandoned, failures>>

(* The worker dies: its job counts as active until it is found stalled.      *)
Stall(q) ==
    /\ busy[q] > 0
    /\ Failure
    /\ busy' = [busy EXCEPT ![q] = @ - 1]
    /\ waiting' = [waiting EXCEPT ![q] = @ + 1]
    /\ UNCHANGED <<paused, run, disturbed, abandoned>>

-----------------------------------------------------------------------------
(* A job that pauses queues.                                                *)

Start(j) ==
    /\ run[j].stage = "idle"
    /\ run' = [run EXCEPT ![j] = At("pausing", Of(j), 0)]
    /\ disturbed' = disturbed \ {j}
    /\ UNCHANGED <<paused, queueVars, abandoned, failures>>

Paused(j, q) ==
    IF run[j].rest # {q} THEN [run[j] EXCEPT !.rest = @ \ {q}]
    ELSE At(IF j \in Drains THEN "draining" ELSE "working", {}, run[j].stalls)

PauseQueue(j, q) ==
    /\ run[j].stage = "pausing"
    /\ Turn(j, q)
    /\ paused' = paused \cup {q}
    /\ run' = [run EXCEPT ![j] = Paused(j, q)]
    /\ UNCHANGED <<queueVars, disturbed, abandoned, failures>>

(* Redis refuses the command.  Only a job that pauses within its try goes on *)
(* to resume; the others fail as they are, and are not tried again.          *)
PauseFails(j) ==
    /\ run[j].stage = "pausing"
    /\ Failure
    /\ IF j \in Guarded
       THEN /\ run' = [run EXCEPT ![j] = At("resuming", Of(j), run[j].stalls)]
            /\ UNCHANGED abandoned
       ELSE /\ run' = [run EXCEPT ![j] = Idle]
            /\ abandoned' = abandoned \cup (Of(j) \cap paused)
    /\ UNCHANGED <<paused, queueVars, disturbed>>

(* Fault: the wait ends as soon as one of the queues is quiet.              *)
Counted_One(j) ==
    IF (\E q \in Of(j) : busy[q] = 0) \/ run[j].tries = MaxAttempts
    THEN [run[j] EXCEPT !.stage = "working"] ELSE [run[j] EXCEPT !.tries = @ + 1]

(* Fault: the wait goes on for as long as there is a worker.                *)
Counted_Forever(j) ==
    IF \A q \in Of(j) : busy[q] = 0
    THEN [run[j] EXCEPT !.stage = "working"] ELSE [run[j] EXCEPT !.tries = @ + 1]

(* One attempt of throttleQueues: nobody is active, or it sleeps, and after  *)
(* the last attempt goes on whatever it finds.                              *)
Counted(j) ==
    IF (\A q \in Of(j) : busy[q] = 0) \/ run[j].tries = MaxAttempts
    THEN [run[j] EXCEPT !.stage = "working"] ELSE [run[j] EXCEPT !.tries = @ + 1]

CountActive(j) ==
    /\ run[j].stage = "draining"
    /\ run' = [run EXCEPT ![j] = Counted(j)]
    /\ UNCHANGED <<paused, queueVars, disturbed, abandoned, failures>>

(* Fault: an early return skips the resume.                                 *)
Work_Return(j) ==
    /\ run[j].stage = "working"
    /\ run' = [run EXCEPT ![j] = Idle]
    /\ UNCHANGED <<paused, queueVars, disturbed, abandoned, failures>>

(* The job's own work: whether it returns or throws, finally resumes.        *)
Work(j) ==
    /\ run[j].stage = "working"
    /\ run' = [run EXCEPT ![j] = At("resuming", Of(j), run[j].stalls)]
    /\ UNCHANGED <<paused, queueVars, disturbed, abandoned, failures>>

(* Fault: only the first queue is resumed.                                  *)
Resumed_First(j, q) == Idle

Resumed(j, q) == IF run[j].rest # {q} THEN [run[j] EXCEPT !.rest = @ \ {q}] ELSE Idle

(* The flag is cleared, whoever else has set it.                            *)
ResumeQueue(j, q) ==
    /\ run[j].stage = "resuming"
    /\ Turn(j, q)
    /\ paused' = paused \ {q}
    /\ run' = [run EXCEPT ![j] = Resumed(j, q)]
    /\ disturbed' = disturbed \cup {k \in Jobs \ {j} : Suspends(k, q)}
    /\ abandoned' = abandoned \ {q}
    /\ UNCHANGED <<queueVars, failures>>

ResumeFails(j) ==
    /\ run[j].stage = "resuming"
    /\ Failure
    /\ run' = [run EXCEPT ![j] = Idle]
    /\ abandoned' = abandoned \cup (run[j].rest \cap paused)
    /\ UNCHANGED <<paused, queueVars, disturbed>>

(* The worker dies: the stalled job starts over, or has stalled too often.   *)
Crash(j) ==
    /\ run[j].stage # "idle"
    /\ Failure
    /\ IF run[j].stalls < MaxStalls
       THEN /\ run' = [run EXCEPT ![j] = At("pausing", Of(j), run[j].stalls + 1)]
            /\ disturbed' = disturbed \ {j}
            /\ UNCHANGED abandoned
       ELSE /\ run' = [run EXCEPT ![j] = Idle]
            /\ abandoned' = abandoned \cup (Of(j) \cap paused)
            /\ UNCHANGED disturbed
    /\ UNCHANGED <<paused, queueVars>>

-----------------------------------------------------------------------------

QueueStep(q) == Arrive(q) \/ Take(q) \/ Finish(q) \/ Stall(q)

JobStep(j) ==
    \/ CountActive(j) \/ Work(j)
    \/ \E q \in Queues : PauseQueue(j, q) \/ ResumeQueue(j, q)

ThrottleNext ==
    \/ \E q \in Queues : QueueStep(q)
    \/ \E j \in Jobs :
        JobStep(j) \/ Start(j) \/ PauseFails(j) \/ ResumeFails(j) \/ Crash(j)

ThrottleSpec == ThrottleInit /\ [][ThrottleNext]_throttleVars

-----------------------------------------------------------------------------
(* Properties.                                                              *)

(* While a job that waited for the workers works, none of them runs: nothing *)
(* it paused was taken after its count, unless another job resumed the queue *)
(* under it, or the wait was given up.                                      *)
DrainedWhileWorking ==
    \A j \in Drains :
        run[j].stage = "working" /\ run[j].tries < MaxAttempts /\ j \notin disturbed
            => \A q \in Of(j) : busy[q] = 0

(* j is on its way to resume q.                                             *)
WillResume(j, q) ==
    /\ q \in Of(j)
    /\ run[j].stage # "idle"
    /\ run[j].stage = "resuming" => q \in run[j].rest

(* However pauses and resumes of several jobs interleave, a paused queue has *)
(* a job on its way to resume it, unless one was abandoned by a crash or a   *)
(* refused command.                                                         *)
PausedHasOwner ==
    \A q \in paused \ abandoned : \E j \in Jobs : WillResume(j, q)

(* The workers go on, and the crons keep starting their jobs.                *)
ThrottleFairness ==
    /\ \A j \in Jobs : WF_throttleVars(JobStep(j))
    /\ \A j \in Recurring : WF_throttleVars(Start(j))

ThrottleFairSpec == ThrottleSpec /\ ThrottleFairness

(* A paused queue is resumed in the end, also when the job that paused it    *)
(* died for good, provided that a recurring job pauses it too.               *)
PausedIsResumed ==
    \A q \in Queues :
        q \in paused ~> \/ q \notin paused
                        \/ q \in abandoned /\ \A j \in Recurring : q \notin Of(j)

=============================================================================
