----------------------------- MODULE MotionQueue -----------------------------
(***************************************************************************)
(* The simulator's bounded motion queue (lefly_simulator/queue.py) with    *)
(* the part of SimulatorState it drives and the immediate commands of      *)
(* engine.py that share the device with it.                                *)
(*                                                                         *)
(* One asyncio event loop runs everything, so an action is what one task   *)
(* does between two real suspensions.  MotionQueue._lock is never held     *)
(* across an await, so it never makes anybody wait and is not a variable.  *)
(* What can suspend a task is a sleep, an Event, and the delivery of       *)
(* events: MotionQueue._emit awaits a subscriber that returns an awaitable *)
(* (EventSubscriber, queue.py:19).  The variable subscribers says whether  *)
(* those attached return at once, as every one under src/ outside the      *)
(* tests does, or suspend their publisher.                                 *)
(*                                                                         *)
(* One joint stands for the five: a command moves it to a target, by a     *)
(* delta, or (device.rest) to the rest pose.                               *)
(***************************************************************************)
EXTENDS Integers, Sequences, FiniteSets, SequencesExt

CONSTANTS
    Commands,        \* motion command ids a client may submit
    None,            \* no command
    Kind,            \* Kind[c]: "absolute", "relative" or "rest"
    Amount,          \* Amount[c]: target or delta of a move
    Positions,       \* the joint's legal positions
    RestPose,        \* the joint's default, where device.rest goes
    Capacity,        \* bound on waiting jobs
    Steps,           \* steps a motion is divided into
    SeenLimit,       \* SEEN_COMMAND_LIMIT
    SetModes,        \* modes status.set is called with
    MaxSubmits,      \* bound: submissions, for each kind of subscriber
    MaxImmediate,    \* bound: immediate commands
    MaxFailures,     \* bound: sleeps of the clock that raise
    MayClose         \* whether close() is called at all

Modes == {"starting", "resting", "active", "listening", "thinking",
          "speaking", "error"}

Subscribers == {"prompt", "suspending"}

ASSUME QueueAssumption ==
    /\ None \notin Commands
    /\ Kind \in [Commands -> {"absolute", "relative", "rest"}]
    /\ Amount \in [Commands -> Int]
    /\ Positions \subseteq Int
    /\ RestPose \in Positions
    /\ Capacity \in Nat \ {0}
    /\ Steps \in Nat \ {0}
    /\ SeenLimit \in Nat \ {0}
    /\ SetModes \subseteq Modes
    /\ MaxSubmits \in [Subscribers -> Nat]
    /\ MaxImmediate \in Nat
    /\ MaxFailures \in Nat
    /\ MayClose \in BOOLEAN

VARIABLES
    waiting,     \* _waiting: ids of the jobs that have not started, in order
    accepted,    \* _accepted: ids that owe a motion.finished
    seenOrder,   \* _seen_order
    seenIds,     \* _seen_ids
    current,     \* _current, or None
    restId,      \* _rest_transition_id, or None
    interrupt,   \* _interrupt.is_set()
    ready,       \* ids whose job.ready is set
    worker,      \* where the worker task stands
    step,        \* the step the worker is in
    target,      \* job.targets of each accepted command
    projected,   \* _projected
    closing,     \* how far _close has come
    mode,        \* SimulatorState: the semantic status mode,
    motion,      \* its motion state,
    queueSize,   \* its copy of the queue's length,
    pos,         \* the joint's position
    revision,    \* and the publication revision
    emissions,   \* groups queued on _event_lock, in order
    direct,      \* events of immediate commands not yet published
    log,         \* what subscribers heard of each command
    heard,       \* the last revision subscribers heard
    subscribers, \* how the subscribers attached return
    budget       \* what the bounds still allow

queueVars == <<waiting, accepted, seenOrder, seenIds, current, restId, target,
               projected>>
workerVars == <<interrupt, ready, worker, step>>
device == <<mode, motion, queueSize, pos, revision>>
outVars == <<emissions, direct, log, heard>>
env == <<subscribers, budget>>
vars == <<queueVars, workerVars, closing, device, outVars, env>>

WorkerAt == {"idle", "popping", "ready", "starting", "sleeping", "slept",
             "moving", "finishing", "dead"}
Outcomes == {"completed", "failed", "cancelled", "shutdown"}
Told == {"accepted", "started", "progress"} \union Outcomes
Bounded == {"submits", "immediate", "failures"}

-----------------------------------------------------------------------------
(* Events.  "cancelled" is motion.finished with reason device_rest,        *)
(* "shutdown" the one with reason device_shutdown; "state" is a            *)
(* device.state_changed.                                                   *)

Lifecycle(c, what) == [what |-> what, command |-> c, revision |-> 0]
Snapshot(n) == [what |-> "state", command |-> None, revision |-> n]

Event == [what : Told, command : Commands, revision : {0}]
             \union [what : {"state"}, command : {None}, revision : Nat]

(* A call of _emit_group and what its caller does when it returns.  For    *)
(* "enqueue", interrupt is interrupt_active; for "worker" it is            *)
(* clear_interrupt.                                                        *)
Group(task, c, intr, events) ==
    [task |-> task, command |-> c, interrupt |-> intr, events |-> events]

Groups == [task : {"enqueue", "worker"}, command : Commands,
           interrupt : BOOLEAN, events : Seq(Event)]
             \union [task : {"close"}, command : {None},
                      interrupt : {FALSE}, events : Seq(Event)]

IsRest(c) == Kind[c] = "rest"
Waiting == ToSet(waiting)

(* Nobody else's code is running: no emission that cannot suspend is in    *)
(* progress, and the worker is not between two steps it takes in one go.   *)
Quiet ==
    /\ worker # "popping"
    /\ subscribers = "prompt" => emissions = <<>> /\ direct = <<>>

Init ==
    /\ waiting = <<>> /\ accepted = {}
    /\ seenOrder = <<>> /\ seenIds = {}
    /\ current = None /\ restId = None
    /\ interrupt = FALSE /\ ready = {}
    /\ worker = "idle" /\ step = 1
    /\ target = [c \in Commands |-> RestPose]
    /\ projected = RestPose
    /\ closing = "open"
    /\ mode = "active" /\ motion = "idle" /\ queueSize = 0
    /\ pos = RestPose /\ revision = 0
    /\ emissions = <<>> /\ direct = <<>>
    /\ log = [c \in Commands |-> <<>>]
    /\ heard = 0
    /\ subscribers \in Subscribers
    /\ budget = [b \in Bounded |-> IF b = "submits" THEN MaxSubmits[subscribers]
                                  ELSE IF b = "immediate" THEN MaxImmediate
                                  ELSE MaxFailures]

Spend(what) ==
    /\ budget[what] > 0
    /\ budget' = [budget EXCEPT ![what] = @ - 1]
    /\ UNCHANGED subscribers

-----------------------------------------------------------------------------
(* enqueue: MotionQueue._enqueue                                           *)

(* _prepare: where the joint would end up.                                 *)
NextTarget(c) ==
    CASE Kind[c] = "absolute" -> Amount[c]
      [] Kind[c] = "relative" -> projected + Amount[c]
      [] Kind[c] = "rest"     -> RestPose

(* Mutant: targets are not checked against the joint's limits.             *)
AdmissibleAnywhere(c) ==
    closing = "open" /\ c \notin seenIds /\ restId = None

(* The checks that precede the two ways of being accepted.                 *)
Admissible(c) ==
    /\ NextTarget(c) \in Positions
    /\ closing = "open"
    /\ c \notin seenIds
    /\ restId = None

HasRoom == Len(waiting) < Capacity

(* _remember_id_locked, called once the new id is in accepted'.            *)
Remember(c) ==
    IF Len(seenOrder) >= SeenLimit
      THEN /\ seenOrder' = Append(Tail(seenOrder), c)
           /\ seenIds' = (IF Head(seenOrder) \in accepted'
                            THEN seenIds
                            ELSE seenIds \ {Head(seenOrder)}) \union {c}
      ELSE /\ seenOrder' = Append(seenOrder, c)
           /\ seenIds' = seenIds \union {c}

(* What both ways of being accepted do to the device and to the job.       *)
Queued(c, cancelled, interruptActive) ==
    /\ target' = [target EXCEPT ![c] = NextTarget(c)]
    /\ projected' = NextTarget(c)
    /\ ready' = ready \ {c}
    /\ queueSize' = Len(waiting')
    /\ revision' = revision + 1
    /\ emissions' = Append(emissions,
         Group("enqueue", c, interruptActive,
               <<Lifecycle(c, "accepted"), Snapshot(revision + 1)>>
                 \o [i \in DOMAIN cancelled |->
                       Lifecycle(cancelled[i], "cancelled")]))
    /\ UNCHANGED <<current, interrupt, worker, step, closing, mode, motion, pos,
                   direct, log, heard>>

Enqueue(c) ==
    /\ Quiet /\ Spend("submits")
    /\ Admissible(c) /\ ~IsRest(c) /\ HasRoom
    /\ waiting' = Append(waiting, c)
    /\ accepted' = accepted \union {c}
    /\ Remember(c)
    /\ Queued(c, <<>>, FALSE)
    /\ UNCHANGED restId

(* A rest that is accepted, for the mutants of EnqueueRest.                *)
AcceptRest(c) ==
    /\ Quiet /\ Spend("submits")
    /\ Admissible(c) /\ IsRest(c)
    /\ restId' = c

(* Mutant: the motions a rest cancels stay accepted.                       *)
EnqueueRestKeeping(c) ==
    /\ AcceptRest(c)
    /\ waiting' = <<c>> /\ accepted' = accepted \union {c}
    /\ Remember(c)
    /\ Queued(c, waiting, current # None /\ ~IsRest(current))

(* Mutant: the running motion is not interrupted.                          *)
EnqueueRestPolite(c) ==
    /\ AcceptRest(c)
    /\ waiting' = <<c>> /\ accepted' = (accepted \ Waiting) \union {c}
    /\ Remember(c)
    /\ Queued(c, waiting, FALSE)

(* Mutant: the running motion's end is announced here as well.             *)
EnqueueRestTwice(c) ==
    /\ AcceptRest(c)
    /\ waiting' = <<c>> /\ accepted' = (accepted \ Waiting) \union {c}
    /\ Remember(c)
    /\ Queued(c, (IF current = None THEN <<>> ELSE <<current>>) \o waiting,
              current # None /\ ~IsRest(current))

(* device.rest: every waiting motion is cancelled, the running one is      *)
(* interrupted once the acceptance has been announced.                     *)
EnqueueRest(c) ==
    /\ Quiet /\ Spend("submits")
    /\ Admissible(c) /\ IsRest(c)
    /\ waiting' = <<c>>
    /\ accepted' = (accepted \ Waiting) \union {c}
    /\ Remember(c)
    /\ restId' = c
    /\ Queued(c, waiting, current # None /\ ~IsRest(current))

(* Every early return publishes a device.error and changes nothing else.   *)
Refuse(c) ==
    /\ Quiet /\ Spend("submits")
    /\ ~(Admissible(c) /\ (IsRest(c) \/ HasRoom))
    /\ UNCHANGED <<queueVars, workerVars, closing, device, outVars>>

-----------------------------------------------------------------------------
(* The worker: _run, _run_job, _sleep_or_interrupt, _finish_job            *)

(* _run_job up to its first _emit_group.                                   *)
StartJob(c, queue) ==
    /\ mode' = IF ~IsRest(c) /\ mode = "resting" THEN "starting" ELSE mode
    /\ motion' = "moving"
    /\ queueSize' = Len(queue)
    /\ revision' = revision + 1
    /\ emissions' = Append(emissions,
         Group("worker", c, FALSE,
               <<Lifecycle(c, "started"), Snapshot(revision + 1)>>))
    /\ worker' = "starting"

(* The worker wakes (or goes round its loop) and takes the next job; a job *)
(* whose acceptance is still being announced keeps it waiting.             *)
Pop ==
    /\ worker = "popping" \/ (worker = "idle" /\ Quiet)
    /\ waiting # <<>>
    /\ current' = Head(waiting)
    /\ waiting' = Tail(waiting)
    /\ IF Head(waiting) \in ready
         THEN StartJob(Head(waiting), Tail(waiting))
         ELSE /\ worker' = "ready"
              /\ UNCHANGED <<mode, motion, queueSize, revision, emissions>>
    /\ UNCHANGED <<accepted, seenOrder, seenIds, restId, target, projected,
                   interrupt, ready, step, closing, pos, direct, log, heard,
                   env>>

JobReady ==
    /\ worker = "ready" /\ Quiet
    /\ current \in ready
    /\ StartJob(current, waiting)
    /\ UNCHANGED <<queueVars, interrupt, ready, step, closing, pos, direct, log,
                   heard, env>>

(* A sleep that runs to its end.  An interrupt that was set before the     *)
(* sleep ended is always noticed; one set afterwards may come too late,    *)
(* because the worker has still to resume from asyncio.wait and gather.    *)
TimerFires ==
    /\ worker = "sleeping" /\ Quiet
    /\ interrupt => IsRest(current)
    /\ worker' = "slept"
    /\ UNCHANGED <<queueVars, interrupt, ready, step, closing, device, outVars,
                   env>>

(* One step of the motion: exactly on target in the last one, in between   *)
(* the start and the target before.                                        *)
Between(a, b) == {p \in Positions : (a <= p /\ p <= b) \/ (b <= p /\ p <= a)}

Move ==
    /\ worker = "slept" /\ Quiet
    /\ pos' \in Between(pos, target[current])
    /\ step = Steps => pos' = target[current]
    /\ revision' = revision + 1
    /\ emissions' = Append(emissions,
         Group("worker", current, FALSE,
               <<Lifecycle(current, "progress"), Snapshot(revision + 1)>>))
    /\ worker' = "moving"
    /\ UNCHANGED <<queueVars, interrupt, ready, step, closing, mode, motion,
                   queueSize, direct, log, heard, env>>

ModeAfter(c, status) ==
    IF status = "completed" /\ IsRest(c)
      THEN IF mode # "error" THEN "resting" ELSE mode
    ELSE IF status = "completed" /\ mode = "starting" THEN "active"
    ELSE IF status = "failed" THEN "error"
    ELSE mode

(* _finish_job up to its _emit_group; pending is the rest of emissions.    *)
(* Its early return (the id is no longer accepted) is dead code: see       *)
(* CurrentIsAccepted.                                                      *)
Finish(c, status, pending) ==
    /\ accepted' = accepted \ {c}
    /\ current' = None
    /\ mode' = ModeAfter(c, status)
    /\ motion' = IF status = "failed" THEN "error" ELSE "idle"
    /\ queueSize' = Len(waiting)
    /\ revision' = revision + 1
    /\ emissions' = Append(pending,
         Group("worker", c, status = "cancelled",
               <<Snapshot(revision + 1), Lifecycle(c, status)>>))
    /\ worker' = "finishing"
    /\ UNCHANGED <<waiting, seenOrder, seenIds, restId, target, projected,
                   interrupt, ready, step, pos>>

(* _sleep_or_interrupt raises _MotionCancelled("device_rest").             *)
Preempted ==
    /\ worker \in {"sleeping", "slept"} /\ Quiet
    /\ interrupt /\ ~IsRest(current)
    /\ Finish(current, "cancelled", emissions)
    /\ UNCHANGED <<closing, direct, log, heard, env>>

(* The clock's sleep raises instead of returning.                          *)
ClockFails ==
    /\ worker = "sleeping" /\ Quiet /\ Spend("failures")
    /\ interrupt => IsRest(current)
    /\ Finish(current, "failed", emissions)
    /\ UNCHANGED <<closing, direct, log, heard>>

-----------------------------------------------------------------------------
(* Emission: _emit_group holds _event_lock, first come first served        *)

Hear(e) ==
    IF e.what = "state"
      THEN heard' = e.revision /\ UNCHANGED log
      ELSE /\ log' = [log EXCEPT ![e.command] = Append(@, e.what)]
           /\ UNCHANGED heard

Deliver ==
    /\ emissions # <<>>
    /\ Head(emissions).events # <<>>
    /\ Hear(Head(Head(emissions).events))
    /\ emissions' = <<[Head(emissions) EXCEPT !.events = Tail(@)]>>
                      \o Tail(emissions)
    /\ UNCHANGED <<queueVars, workerVars, closing, device, direct, env>>

(* The head group of kind task has been delivered: its caller goes on.     *)
Delivered(task) ==
    /\ emissions # <<>>
    /\ Head(emissions).events = <<>>
    /\ Head(emissions).task = task

(* _enqueue after _emit_group.                                             *)
Announced ==
    /\ Delivered("enqueue")
    /\ emissions' = Tail(emissions)
    /\ interrupt' = (interrupt \/ Head(emissions).interrupt)
    /\ ready' = ready \union {Head(emissions).command}
    /\ UNCHANGED <<queueVars, worker, step, closing, device, direct, log, heard,
                   env>>

(* _run_job after motion.started, and after each motion.progress but the   *)
(* last: into the next sleep.                                              *)
NextStep ==
    /\ Delivered("worker")
    /\ \/ worker = "starting" /\ step' = 1
       \/ worker = "moving" /\ step < Steps /\ step' = step + 1
    /\ worker' = "sleeping"
    /\ emissions' = Tail(emissions)
    /\ UNCHANGED <<queueVars, interrupt, ready, closing, device, direct, log,
                   heard, env>>

Complete ==
    /\ Delivered("worker")
    /\ worker = "moving" /\ step = Steps
    /\ Finish(current, "completed", Tail(emissions))
    /\ UNCHANGED <<closing, direct, log, heard, env>>

(* _finish_job after its _emit_group, back to the top of _run, which goes  *)
(* straight on when _wake is set: that is, when a job is waiting.          *)
Finished ==
    /\ Delivered("worker")
    /\ worker = "finishing"
    /\ emissions' = Tail(emissions)
    /\ interrupt' = (interrupt /\ ~Head(emissions).interrupt)
    /\ restId' = IF restId = Head(emissions).command THEN None ELSE restId
    /\ worker' = IF waiting = <<>> THEN "idle" ELSE "popping"
    /\ UNCHANGED <<waiting, accepted, seenOrder, seenIds, current, target,
                   projected, ready, step, closing, device, direct, log, heard,
                   env>>

-----------------------------------------------------------------------------
(* Immediate commands: SimulatorEngine.execute (device.get_state, light.*  *)
(* and status.set) changes the state and publishes it without _event_lock  *)

(* Mutant: a change that nobody is told of.                                *)
ImmediateUnpublished ==
    /\ Quiet /\ Spend("immediate")
    /\ mode' \in SetModes \union {mode}
    /\ revision' = revision + 1
    /\ UNCHANGED <<queueVars, workerVars, closing, motion, queueSize, pos,
                   emissions, log, heard, direct>>

Immediate ==
    /\ Quiet /\ Spend("immediate")
    /\ mode' \in SetModes \union {mode}
    /\ revision' = revision + 1
    /\ direct' = Append(direct, Snapshot(revision + 1))
    /\ UNCHANGED <<queueVars, workerVars, closing, motion, queueSize, pos,
                   emissions, log, heard>>

DeliverDirect ==
    /\ direct # <<>>
    /\ Hear(Head(direct))
    /\ direct' = Tail(direct)
    /\ UNCHANGED <<queueVars, workerVars, closing, device, emissions, env>>

-----------------------------------------------------------------------------
(* close                                                                   *)

(* _close up to "await worker": the worker dies where it stands, and with  *)
(* it what its one call of _emit_group had not yet published.              *)
WorkerGroups == {i \in DOMAIN emissions : emissions[i].task = "worker"}

BeginClose ==
    /\ MayClose /\ Quiet
    /\ closing = "open"
    /\ closing' = "cancelling"
    /\ worker' = "dead"
    /\ IF WorkerGroups = {}
         THEN UNCHANGED emissions
         ELSE \E i \in WorkerGroups : emissions' = RemoveAt(emissions, i)
    /\ UNCHANGED <<queueVars, interrupt, ready, step, device, direct, log,
                   heard, env>>

(* Mutant: close forgets the running job.                                  *)
UnfinishedWaiting == waiting

(* list(_accepted.values()), in the order of acceptance.                   *)
Unfinished == (IF current \in accepted THEN <<current>> ELSE <<>>) \o waiting

Shutdown(jobs) ==
    [i \in 1 .. 2 * Len(jobs) |->
       IF i % 2 = 1 THEN Snapshot(revision + (i + 1) \div 2)
                    ELSE Lifecycle(jobs[i \div 2], "shutdown")]

DrainClose ==
    /\ closing = "cancelling" /\ Quiet
    /\ closing' = "emitting"
    /\ accepted' = {} /\ waiting' = <<>>
    /\ current' = None /\ restId' = None
    /\ interrupt' = FALSE
    /\ projected' = pos
    /\ motion' = "idle" /\ queueSize' = 0
    /\ revision' = revision + Len(Unfinished)
    /\ emissions' = Append(emissions,
                           Group("close", None, FALSE, Shutdown(Unfinished)))
    /\ UNCHANGED <<seenOrder, seenIds, target, ready, worker, step, mode, pos,
                   direct, log, heard, env>>

EndClose ==
    /\ closing = "emitting" /\ Delivered("close")
    /\ emissions' = Tail(emissions)
    /\ closing' = "closed"
    /\ UNCHANGED <<queueVars, workerVars, device, direct, log, heard, env>>

-----------------------------------------------------------------------------
(* Nothing is owed to anybody: the only place where the system may stop.   *)
Settled ==
    /\ accepted = {} /\ waiting = <<>>
    /\ emissions = <<>> /\ direct = <<>>
    /\ worker \in {"idle", "dead"}
    /\ closing \in {"open", "closed"}
    /\ UNCHANGED vars

Submit == \E c \in Commands : Enqueue(c) \/ EnqueueRest(c) \/ Refuse(c)
Worker == \/ Pop \/ JobReady \/ TimerFires \/ Move \/ Preempted
          \/ NextStep \/ Complete \/ Finished
Emission == Deliver \/ DeliverDirect \/ Announced
Close == DrainClose \/ EndClose

Next ==
    \/ Submit
    \/ Immediate
    \/ Worker
    \/ ClockFails
    \/ Emission
    \/ BeginClose
    \/ Close
    \/ Settled

Spec == Init /\ [][Next]_vars

(* The event loop runs every runnable task, sleeps end and subscribers     *)
(* return; nobody is obliged to submit, to close, or to fail.              *)
FairSpec == Spec /\ WF_vars(Worker) /\ WF_vars(Emission) /\ WF_vars(Close)

-----------------------------------------------------------------------------
TypeOK ==
    /\ waiting \in Seq(Commands)
    /\ accepted \subseteq Commands
    /\ seenOrder \in Seq(Commands)
    /\ seenIds \subseteq Commands
    /\ current \in Commands \union {None}
    /\ restId \in Commands \union {None}
    /\ interrupt \in BOOLEAN
    /\ ready \subseteq Commands
    /\ worker \in WorkerAt
    /\ step \in 1 .. Steps
    /\ target \in [Commands -> Positions]
    /\ projected \in Positions
    /\ closing \in {"open", "cancelling", "emitting", "closed"}
    /\ mode \in Modes
    /\ motion \in {"idle", "moving", "error"}
    /\ queueSize \in Nat
    /\ pos \in Positions
    /\ revision \in Nat
    /\ emissions \in Seq(Groups)
    /\ direct \in Seq(Event)
    /\ log \in [Commands -> Seq(Told)]
    /\ heard \in Nat
    /\ subscribers \in Subscribers
    /\ budget \in [Bounded -> Nat]

(* The worker holds a job exactly between taking and finishing one.  It is *)
(* dead, perhaps with a job in its hands, once close has begun.            *)
Running == {"ready", "starting", "sleeping", "slept", "moving"}

WorkerHoldsJob ==
    /\ worker \in Running => current \in Commands
    /\ worker \in {"idle", "popping", "finishing"} => current = None
    /\ closing # "open" => worker = "dead"

(* Safety *)

Owing == IF current = None THEN {} ELSE {current}

(* Every command that owes a motion.finished is waiting or running, once,  *)
(* and nothing else is: _accepted, _waiting and _current never drift apart *)
(* although _enqueue, _finish_job and _close each update them by hand.     *)
(* After _close has begun the dead worker's job may still be _current.     *)
Bookkeeping ==
    /\ accepted = Waiting \union Owing
    /\ current \notin Waiting
    /\ IsInjective(waiting)

(* The early return of _finish_job (queue.py:402) is never taken: the job  *)
(* the worker runs is the accepted one.                                    *)
CurrentIsAccepted ==
    worker \in Running => current \in accepted

(* A command still owed a finish cannot be accepted a second time, though  *)
(* _remember_id_locked forgets old ids.                                    *)
AcceptedAreSeen == accepted \subseteq seenIds

(* Forgetting keeps _seen_ids and _seen_order the same set, within the     *)
(* limit: no id is left in _seen_ids with nothing to expire it.  It holds  *)
(* when SeenLimit > Capacity + 1, as 1024 and 8 do.                        *)
SeenIsBounded ==
    /\ seenIds = ToSet(seenOrder)
    /\ Len(seenOrder) <= SeenLimit

(* The published queue size never exceeds the capacity, which              *)
(* SimulatorState would reject by raising inside the worker.               *)
WithinCapacity ==
    /\ Len(waiting) <= Capacity
    /\ queueSize <= Capacity

(* While a rest is pending it is alone in the queue: nothing was accepted  *)
(* behind it and everything before it was cancelled.                       *)
RestStandsAlone == restId # None /\ closing = "open" => Waiting \subseteq {restId}

(* Every motion that is running when a rest is pending has been told to    *)
(* stop, or will be by the announcement of that rest, or is the rest.      *)
RestInterrupts ==
    restId # None /\ closing = "open" /\ current \notin {None, restId} =>
        \/ interrupt
        \/ \E i \in DOMAIN emissions : /\ emissions[i].task = "enqueue"
                                       /\ emissions[i].command = restId
                                       /\ emissions[i].interrupt

(* What subscribers hear of a command follows the lifecycle contract.      *)
(* Only the first life of an id counts if they suspend: its end may then   *)
(* be unpublished when the id, forgotten, is accepted again, and be lost   *)
(* when close kills the worker that has still to publish it.               *)
Again(c) == {i \in DOMAIN log[c] : i > 1 /\ log[c][i] = "accepted"}

Heard(c) ==
    IF subscribers = "prompt" \/ Again(c) = {} THEN log[c]
    ELSE SubSeq(log[c], 1, Min(Again(c)) - 1)

ToldLast ==
    [c \in Commands |-> IF Heard(c) = <<>> THEN "none" ELSE Last(Heard(c))]
Lifecycles == INSTANCE MotionLifecycle WITH told <- ToldLast
LifecycleSpec == Lifecycles!Spec

(* Action properties *)

(* Only status.set clears a latched error (models.py:299): no motion that  *)
(* starts, completes or is cancelled does.                                 *)
ErrorIsLatched ==
    [][mode = "error" /\ mode' # "error" => Immediate]_vars

(* Complete-state snapshots reach subscribers with increasing revisions    *)
(* and without gaps, if none of them suspends: immediate commands publish  *)
(* outside _event_lock.                                                    *)
RevisionsInOrder ==
    [][subscribers = "prompt" /\ heard' # heard => heard' = heard + 1]_vars

(* No motion other than the rest starts while a rest is pending, if no     *)
(* subscriber suspends.  If one does, a motion taken from the queue before *)
(* its acceptance was announced still starts, and stops in its first sleep.*)
OnlyRestStarts ==
    [][subscribers = "prompt" /\ worker' = "starting" /\ worker # "starting" =>
         restId \in {None, current'}]_vars

(* A running motion is cancelled with reason device_rest only when a rest  *)
(* is pending.                                                             *)
CancelledOnlyForRest == [][Preempted => restId # None]_vars

(* Liveness, under FairSpec *)

(* Every command announced as accepted is announced as finished, if no     *)
(* subscriber suspends: the worker removes a job from _accepted before it  *)
(* announces the end, and close may cancel it in between.                  *)
EveryAcceptedFinishes ==
    \A c \in Commands :
        subscribers = "prompt" /\ ToldLast[c] \in Lifecycles!Owed
            ~> ToldLast[c] \in Lifecycles!Ended
=============================================================================
