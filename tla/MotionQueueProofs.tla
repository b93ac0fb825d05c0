-------------------------- MODULE MotionQueueProofs --------------------------
(***************************************************************************)
(* Theorems of MotionQueue, for every value of its constants.              *)
(***************************************************************************)
EXTENDS MotionQueue, SequenceTheorems, TLAPS

USE DEF WorkerAt, Outcomes, Told, Modes

(* A function on 1..n is a sequence: what the mapped event lists are.      *)
LEMMA SeqOfFunction ==
    ASSUME NEW S, NEW n \in Nat, NEW f \in [1 .. n -> S]
    PROVE  f \in Seq(S) /\ Len(f) = n
  OBVIOUS

LEMMA LifecycleIsEvent ==
    ASSUME NEW c \in Commands, NEW what \in Told
    PROVE  Lifecycle(c, what) \in Event
  BY DEF Lifecycle, Event

LEMMA SnapshotIsEvent ==
    ASSUME NEW n \in Nat
    PROVE  Snapshot(n) \in Event
  BY DEF Snapshot, Event

(* The events of the acceptance of a motion or a rest.                     *)
LEMMA AcceptanceEvents ==
    ASSUME NEW c \in Commands, NEW n \in Nat, NEW jobs \in Seq(Commands)
    PROVE  <<Lifecycle(c, "accepted"), Snapshot(n)>>
             \o [i \in DOMAIN jobs |-> Lifecycle(jobs[i], "cancelled")]
               \in Seq(Event)
  <1> DEFINE rest == [i \in DOMAIN jobs |-> Lifecycle(jobs[i], "cancelled")]
  <1>1. <<Lifecycle(c, "accepted"), Snapshot(n)>> \in Seq(Event)
    BY LifecycleIsEvent, SnapshotIsEvent
  <1>a. DOMAIN jobs = 1 .. Len(jobs) /\ Len(jobs) \in Nat
    BY LenProperties
  <1>2. \A i \in 1 .. Len(jobs) : rest[i] \in Event
    BY LifecycleIsEvent
  <1>3. rest \in [1 .. Len(jobs) -> Event]
    BY <1>2, <1>a
  <1>4. rest \in Seq(Event)
    BY <1>3, <1>a, SeqOfFunction
  <1> QED BY <1>1, <1>4, ConcatProperties

(* The events of _close.                                                   *)
LEMMA ShutdownEvents ==
    ASSUME revision \in Nat, NEW jobs \in Seq(Commands)
    PROVE  Shutdown(jobs) \in Seq(Event)
  <1> DEFINE n == 2 * Len(jobs)
  <1>1. n \in Nat
    BY LenProperties
  <1>2. ASSUME NEW i \in 1 .. n
        PROVE  Shutdown(jobs)[i] \in Event
    <2>1. CASE i % 2 = 1
      <3>1. revision + (i + 1) \div 2 \in Nat
        OBVIOUS
      <3> QED BY <2>1, <3>1, SnapshotIsEvent DEF Shutdown
    <2>2. CASE i % 2 # 1
      <3>1. i \div 2 \in 1 .. Len(jobs)
        BY <2>2, LenProperties
      <3>2. jobs[i \div 2] \in Commands
        BY <3>1, ElementOfSeq
      <3> QED BY <2>2, <3>2, LifecycleIsEvent DEF Shutdown
    <2> QED BY <2>1, <2>2
  <1>3. Shutdown(jobs) \in [1 .. n -> Event]
    BY <1>2 DEF Shutdown
  <1> QED BY <1>1, <1>3, SeqOfFunction

-----------------------------------------------------------------------------
(* Type correctness, with WorkerHoldsJob                                   *)

TypeInv == TypeOK /\ WorkerHoldsJob

USE QueueAssumption DEF QueueAssumption

DeviceType ==
    /\ mode \in Modes
    /\ motion \in {"idle", "moving", "error"}
    /\ queueSize \in Nat
    /\ pos \in Positions
    /\ revision \in Nat

EnvType == subscribers \in Subscribers /\ budget \in [Bounded -> Nat]

QueueType ==
    /\ waiting \in Seq(Commands)
    /\ accepted \subseteq Commands
    /\ seenOrder \in Seq(Commands)
    /\ seenIds \subseteq Commands
    /\ current \in Commands \union {None}
    /\ restId \in Commands \union {None}
    /\ target \in [Commands -> Positions]
    /\ projected \in Positions

WorkerType ==
    /\ interrupt \in BOOLEAN
    /\ ready \subseteq Commands
    /\ worker \in WorkerAt
    /\ step \in 1 .. Steps

OutType ==
    /\ emissions \in Seq(Groups)
    /\ direct \in Seq(Event)
    /\ log \in [Commands -> Seq(Told)]
    /\ heard \in Nat

ClosingType == closing \in {"open", "cancelling", "emitting", "closed"}

LEMMA TypeParts ==
    /\ TypeOK <=> /\ QueueType /\ WorkerType /\ DeviceType /\ OutType
                  /\ EnvType /\ ClosingType
    /\ TypeOK' <=> /\ QueueType' /\ WorkerType' /\ DeviceType' /\ OutType'
                   /\ EnvType' /\ ClosingType'
  BY DEF TypeOK, QueueType, WorkerType, DeviceType, OutType, EnvType, ClosingType

LEMMA TypeInit == Init => TypeInv
  <1> SUFFICES ASSUME Init PROVE TypeInv
    OBVIOUS
  <1>1. /\ waiting \in Seq(Commands) /\ seenOrder \in Seq(Commands)
        /\ emissions \in Seq(Groups) /\ direct \in Seq(Event)
    BY EmptySeq DEF Init
  <1>2. log \in [Commands -> Seq(Told)]
    BY EmptySeq DEF Init
  <1>3. EnvType
    BY DEF Init, EnvType
  <1>4. /\ step \in 1 .. Steps
        /\ target \in [Commands -> Positions]
        /\ mode \in Modes
    BY DEF Init
  <1> QED BY <1>1, <1>2, <1>3, <1>4
          DEF Init, TypeInv, TypeOK, EnvType, WorkerHoldsJob, Running

(* Appending a well-formed group of events.                                *)
LEMMA AppendGroup ==
    ASSUME NEW q \in Seq(Groups), NEW task \in {"enqueue", "worker"},
           NEW c \in Commands, NEW intr \in BOOLEAN, NEW events \in Seq(Event)
    PROVE  Append(q, Group(task, c, intr, events)) \in Seq(Groups)
  <1>1. Group(task, c, intr, events) \in Groups
    BY DEF Group, Groups
  <1> QED BY <1>1

(* The worker lives only while the queue is open.                          *)
LEMMA AliveWhileOpen ==
    ASSUME TypeInv, worker # "dead"
    PROVE  closing = "open"
  BY DEF TypeInv, WorkerHoldsJob

LEMMA FinishType ==
    ASSUME TypeInv, closing = "open", NEW c \in Commands,
           NEW status \in {"completed", "failed", "cancelled"},
           NEW pending \in Seq(Groups),
           Finish(c, status, pending),
           UNCHANGED <<closing, direct, log, heard>>,
           EnvType'
    PROVE  TypeInv'
  <1>1. <<Snapshot(revision + 1), Lifecycle(c, status)>> \in Seq(Event)
    BY LifecycleIsEvent, SnapshotIsEvent DEF TypeInv, TypeOK
  <1>2. emissions' \in Seq(Groups)
    BY <1>1, AppendGroup DEF Finish
  <1>3. DeviceType'
    <2>1. ModeAfter(c, status) \in Modes
      BY DEF ModeAfter, TypeInv, TypeOK
    <2>2. Len(waiting) \in Nat
      BY LenProperties DEF TypeInv, TypeOK
    <2> QED BY <2>1, <2>2 DEF Finish, TypeInv, TypeOK, DeviceType
  <1>4. accepted' \subseteq Commands /\ current' = None /\ worker' = "finishing"
    BY DEF Finish, TypeInv, TypeOK, DeviceType
  <1> QED BY <1>2, <1>3, <1>4
          DEF Finish, TypeInv, TypeOK, DeviceType, EnvType, WorkerHoldsJob,
              Running

LEMMA StartJobType ==
    ASSUME TypeInv, NEW c \in Commands, NEW queue \in Seq(Commands),
           StartJob(c, queue), UNCHANGED pos
    PROVE  /\ DeviceType'
           /\ emissions' \in Seq(Groups)
           /\ worker' = "starting"
  <1>1. <<Lifecycle(c, "started"), Snapshot(revision + 1)>> \in Seq(Event)
    BY LifecycleIsEvent, SnapshotIsEvent DEF TypeInv, TypeOK
  <1>2. emissions' \in Seq(Groups)
    BY <1>1, AppendGroup DEF StartJob, TypeInv, TypeOK
  <1>3. Len(queue) \in Nat
    BY LenProperties
  <1>4. mode' \in Modes
    BY DEF StartJob, TypeInv, TypeOK
  <1>5. DeviceType'
    BY <1>3, <1>4 DEF StartJob, TypeInv, TypeOK, DeviceType
  <1>6. worker' = "starting"
    BY DEF StartJob
  <1> QED BY <1>2, <1>5, <1>6

LEMMA QueuedType ==
    ASSUME TypeInv, NEW c \in Commands, NEW jobs \in Seq(Commands),
           NEW intr \in BOOLEAN, NextTarget(c) \in Positions,
           waiting' \in Seq(Commands), Queued(c, jobs, intr)
    PROVE  /\ target' \in [Commands -> Positions]
           /\ projected' \in Positions
           /\ ready' \subseteq Commands
           /\ DeviceType'
           /\ emissions' \in Seq(Groups)
  <1>1. <<Lifecycle(c, "accepted"), Snapshot(revision + 1)>>
          \o [i \in DOMAIN jobs |-> Lifecycle(jobs[i], "cancelled")] \in Seq(Event)
    BY AcceptanceEvents DEF TypeInv, TypeOK
  <1>2. emissions' \in Seq(Groups)
    BY <1>1, AppendGroup DEF Queued, TypeInv, TypeOK, DeviceType
  <1>3. Len(waiting') \in Nat
    BY LenProperties
  <1> QED BY <1>2, <1>3 DEF Queued, TypeInv, TypeOK, DeviceType

LEMMA RememberType ==
    ASSUME TypeInv, NEW c \in Commands, Remember(c)
    PROVE  seenOrder' \in Seq(Commands) /\ seenIds' \subseteq Commands
  <1>1. CASE Len(seenOrder) >= SeenLimit
    <2>1. seenOrder # <<>>
      BY <1>1 DEF TypeInv, TypeOK
    <2>2. Tail(seenOrder) \in Seq(Commands)
      BY <2>1, HeadTailProperties DEF TypeInv, TypeOK
    <2>a. seenOrder' = Append(Tail(seenOrder), c)
      BY <1>1 DEF Remember
    <2>3. seenOrder' \in Seq(Commands)
      BY <2>a, <2>2, AppendProperties
    <2>4. seenIds' \subseteq Commands
      BY <1>1 DEF Remember, TypeInv, TypeOK
    <2> QED BY <2>3, <2>4
  <1>2. CASE ~(Len(seenOrder) >= SeenLimit)
    <2>a. seenOrder' = Append(seenOrder, c)
      BY <1>2 DEF Remember
    <2>1. seenOrder' \in Seq(Commands)
      BY <2>a, AppendProperties DEF TypeInv, TypeOK
    <2>2. seenIds' \subseteq Commands
      BY <1>2 DEF Remember, TypeInv, TypeOK
    <2> QED BY <2>1, <2>2
  <1> QED BY <1>1, <1>2

LEMMA SpendType ==
    ASSUME TypeInv, NEW what \in Bounded,
           Spend(what)
    PROVE  EnvType'
  BY DEF Spend, TypeInv, TypeOK, EnvType

LEMMA HearType ==
    ASSUME TypeInv, NEW e \in Event, Hear(e)
    PROVE  log' \in [Commands -> Seq(Told)] /\ heard' \in Nat
  <1>1. CASE e.what = "state"
    BY <1>1 DEF Hear, Event, TypeInv, TypeOK
  <1>2. CASE e.what # "state"
    <2>1. e.what \in Told /\ e.command \in Commands
      BY <1>2 DEF Event
    <2>2. Append(log[e.command], e.what) \in Seq(Told)
      BY <2>1 DEF TypeInv, TypeOK
    <2>3. log' = [log EXCEPT ![e.command] = Append(log[e.command], e.what)]
      BY <1>2 DEF Hear
    <2>4. log' \in [Commands -> Seq(Told)]
      BY <2>1, <2>2, <2>3 DEF TypeInv, TypeOK
    <2> QED BY <1>2, <2>4 DEF Hear, TypeInv, TypeOK
  <1> QED BY <1>1, <1>2
(* The head of a non-empty queue of emissions, and what is behind it.      *)
LEMMA HeadGroup ==
    ASSUME TypeInv, emissions # <<>>
    PROVE  /\ Head(emissions) \in Groups
           /\ Tail(emissions) \in Seq(Groups)
           /\ Head(emissions).events \in Seq(Event)
           /\ Head(emissions).interrupt \in BOOLEAN
           /\ Head(emissions).task \in {"enqueue", "worker"} =>
                 Head(emissions).command \in Commands
  <1>1. Head(emissions) \in Groups /\ Tail(emissions) \in Seq(Groups)
    BY HeadTailProperties DEF TypeInv, TypeOK
  <1> QED BY <1>1 DEF Groups

USE DEF vars, queueVars, workerVars, device, outVars, env, EnvType

LEMMA EnqueueType ==
    ASSUME TypeInv, NEW c \in Commands, Enqueue(c)
    PROVE  TypeInv'
  <1>1. waiting' \in Seq(Commands) /\ accepted' \subseteq Commands
    BY AppendProperties DEF Enqueue, TypeInv, TypeOK
  <1>2. seenOrder' \in Seq(Commands) /\ seenIds' \subseteq Commands
    BY RememberType DEF Enqueue
  <1>3. EnvType'
    BY SpendType DEF Enqueue, Bounded
  <1>4. <<>> \in Seq(Commands) /\ FALSE \in BOOLEAN
    BY EmptySeq
  <1>5. NextTarget(c) \in Positions /\ Queued(c, <<>>, FALSE)
    BY DEF Enqueue, Admissible
  <1>6. /\ target' \in [Commands -> Positions]
        /\ projected' \in Positions
        /\ ready' \subseteq Commands
        /\ DeviceType'
        /\ emissions' \in Seq(Groups)
    <2>1. UNCHANGED <<mode, motion, pos>>
      BY <1>5 DEF Queued
    <2> QED BY <1>1, <1>4, <1>5, <2>1, QueuedType
  <1>7. UNCHANGED <<current, interrupt, worker, step, closing, direct, log,
                    heard, restId>>
    BY <1>5 DEF Queued, Enqueue
  <1> QED BY <1>1, <1>2, <1>3, <1>6, <1>7
          DEF TypeInv, TypeOK, DeviceType, WorkerHoldsJob

LEMMA EnqueueRestType ==
    ASSUME TypeInv, NEW c \in Commands, EnqueueRest(c)
    PROVE  TypeInv'
  <1>1. waiting' \in Seq(Commands) /\ accepted' \subseteq Commands
        /\ restId' = c
    BY DEF EnqueueRest, TypeInv, TypeOK
  <1>2. seenOrder' \in Seq(Commands) /\ seenIds' \subseteq Commands
    BY RememberType DEF EnqueueRest
  <1>3. EnvType'
    BY SpendType DEF EnqueueRest, Bounded
  <1>4. (current # None /\ ~IsRest(current)) \in BOOLEAN
    OBVIOUS
  <1>5. /\ NextTarget(c) \in Positions
        /\ Queued(c, waiting, current # None /\ ~IsRest(current))
    BY DEF EnqueueRest, Admissible
  <1>6. /\ target' \in [Commands -> Positions]
        /\ projected' \in Positions
        /\ ready' \subseteq Commands
        /\ DeviceType'
        /\ emissions' \in Seq(Groups)
    <2>1. waiting \in Seq(Commands)
      BY DEF TypeInv, TypeOK
    <2> QED BY <1>1, <1>4, <1>5, <2>1, QueuedType
  <1>7. UNCHANGED <<current, interrupt, worker, step, closing, direct, log,
                    heard>>
    BY <1>5 DEF Queued
  <1> QED BY <1>1, <1>2, <1>3, <1>6, <1>7
          DEF TypeInv, TypeOK, DeviceType, WorkerHoldsJob

LEMMA PopType ==
    ASSUME TypeInv, Pop
    PROVE  TypeInv'
  <1>0. closing = "open"
    BY AliveWhileOpen DEF Pop
  <1>1. Head(waiting) \in Commands /\ Tail(waiting) \in Seq(Commands)
    BY HeadTailProperties DEF Pop, TypeInv, TypeOK
  <1>2. /\ DeviceType' /\ emissions' \in Seq(Groups)
        /\ worker' \in {"starting", "ready"}
    <2>1. CASE Head(waiting) \in ready
      <3>1. StartJob(Head(waiting), Tail(waiting)) /\ UNCHANGED pos
        BY <2>1 DEF Pop
      <3> QED BY <1>1, <3>1, StartJobType
    <2>2. CASE Head(waiting) \notin ready
      BY <2>2 DEF Pop, TypeInv, TypeOK, DeviceType
    <2> QED BY <2>1, <2>2
  <1>3. /\ current' \in Commands /\ waiting' \in Seq(Commands)
        /\ UNCHANGED <<accepted, seenOrder, seenIds, restId, target, projected,
                       interrupt, ready, step, closing, direct, log, heard,
                       env>>
    BY <1>1 DEF Pop
  <1> QED BY <1>0, <1>2, <1>3 DEF TypeInv, TypeOK, DeviceType, WorkerHoldsJob, Running

LEMMA JobReadyType ==
    ASSUME TypeInv, JobReady
    PROVE  TypeInv'
  <1>0. closing = "open"
    BY AliveWhileOpen DEF JobReady
  <1>1. current \in Commands /\ waiting \in Seq(Commands)
    BY DEF JobReady, TypeInv, TypeOK, WorkerHoldsJob, Running
  <1>2. StartJob(current, waiting) /\ UNCHANGED pos
    BY DEF JobReady
  <1>3. DeviceType' /\ emissions' \in Seq(Groups) /\ worker' = "starting"
    BY <1>1, <1>2, StartJobType
  <1>4. UNCHANGED <<queueVars, interrupt, ready, step, closing, direct, log,
                    heard, env>>
    BY DEF JobReady
  <1> QED BY <1>0, <1>1, <1>3, <1>4
          DEF TypeInv, TypeOK, DeviceType, WorkerHoldsJob, Running

LEMMA MoveType ==
    ASSUME TypeInv, Move
    PROVE  TypeInv'
  <1>0. closing = "open"
    BY AliveWhileOpen DEF Move
  <1>1. current \in Commands
    BY DEF Move, TypeInv, WorkerHoldsJob, Running
  <1>2. pos' \in Positions
    BY DEF Move, Between
  <1>3. <<Lifecycle(current, "progress"), Snapshot(revision + 1)>> \in Seq(Event)
    BY <1>1, LifecycleIsEvent, SnapshotIsEvent DEF TypeInv, TypeOK
  <1>4. emissions' \in Seq(Groups)
    BY <1>1, <1>3, AppendGroup DEF Move, TypeInv, TypeOK
  <1>5. /\ revision' = revision + 1 /\ worker' = "moving"
        /\ UNCHANGED <<queueVars, interrupt, ready, step, closing, mode, motion,
                       queueSize, direct, log, heard, env>>
    BY DEF Move
  <1> QED BY <1>0, <1>1, <1>2, <1>4, <1>5
          DEF TypeInv, TypeOK, WorkerHoldsJob, Running

LEMMA PreemptedType ==
    ASSUME TypeInv, Preempted
    PROVE  TypeInv'
  <1>0. closing = "open"
    BY AliveWhileOpen DEF Preempted
  <1>1. current \in Commands
    BY DEF Preempted, TypeInv, WorkerHoldsJob, Running
  <1>2. /\ Finish(current, "cancelled", emissions)
        /\ UNCHANGED <<closing, direct, log, heard, env>>
    BY DEF Preempted
  <1>3. emissions \in Seq(Groups) /\ EnvType'
    BY <1>2 DEF TypeInv, TypeOK
  <1> QED BY <1>0, <1>1, <1>2, <1>3, FinishType

LEMMA ClockFailsType ==
    ASSUME TypeInv, ClockFails
    PROVE  TypeInv'
  <1>0. closing = "open"
    BY AliveWhileOpen DEF ClockFails
  <1>1. current \in Commands
    BY DEF ClockFails, TypeInv, WorkerHoldsJob, Running
  <1>2. /\ Finish(current, "failed", emissions)
        /\ UNCHANGED <<closing, direct, log, heard>>
    BY DEF ClockFails
  <1>3. emissions \in Seq(Groups) /\ EnvType'
    BY SpendType DEF ClockFails, Bounded, TypeInv, TypeOK
  <1> QED BY <1>0, <1>1, <1>2, <1>3, FinishType

LEMMA CompleteType ==
    ASSUME TypeInv, Complete
    PROVE  TypeInv'
  <1>0. closing = "open"
    BY AliveWhileOpen DEF Complete
  <1>1. current \in Commands
    BY DEF Complete, TypeInv, WorkerHoldsJob, Running
  <1>2. /\ Finish(current, "completed", Tail(emissions))
        /\ UNCHANGED <<closing, direct, log, heard, env>>
        /\ emissions # <<>>
    BY DEF Complete, Delivered
  <1>3. Tail(emissions) \in Seq(Groups) /\ EnvType'
    BY <1>2, HeadGroup DEF TypeInv, TypeOK
  <1> QED BY <1>0, <1>1, <1>2, <1>3, FinishType
LEMMA DeliverType ==
    ASSUME TypeInv, Deliver
    PROVE  TypeInv'
  <1> DEFINE g == Head(emissions)
  <1>1. emissions # <<>> /\ g.events # <<>> /\ Hear(Head(g.events))
    BY DEF Deliver
  <1>2. g \in Groups /\ Tail(emissions) \in Seq(Groups) /\ g.events \in Seq(Event)
    BY <1>1, HeadGroup
  <1>3. Head(g.events) \in Event /\ Tail(g.events) \in Seq(Event)
    BY <1>1, <1>2, HeadTailProperties
  <1>4. log' \in [Commands -> Seq(Told)] /\ heard' \in Nat
    BY <1>1, <1>3, HearType
  <1>5. [g EXCEPT !.events = Tail(g.events)] \in Groups
    BY <1>2, <1>3 DEF Groups
  <1>6. <<[g EXCEPT !.events = Tail(g.events)]>> \in Seq(Groups)
    BY <1>5
  <1>7. emissions' = <<[g EXCEPT !.events = Tail(g.events)]>> \o Tail(emissions)
    BY DEF Deliver
  <1>8. emissions' \in Seq(Groups)
    BY <1>2, <1>6, <1>7, ConcatProperties
  <1>9. UNCHANGED <<queueVars, workerVars, closing, device, direct, env>>
    BY DEF Deliver
  <1> HIDE DEF g
  <1> QED BY <1>4, <1>8, <1>9 DEF TypeInv, TypeOK, WorkerHoldsJob

LEMMA AnnouncedType ==
    ASSUME TypeInv, Announced
    PROVE  TypeInv'
  <1>1. /\ Tail(emissions) \in Seq(Groups)
        /\ Head(emissions).interrupt \in BOOLEAN
        /\ Head(emissions).command \in Commands
    BY HeadGroup DEF Announced, Delivered
  <1>2. interrupt' \in BOOLEAN
    BY <1>1 DEF Announced
  <1>3. emissions' \in Seq(Groups) /\ ready' \subseteq Commands
    BY <1>1 DEF Announced, TypeInv, TypeOK
  <1>4. UNCHANGED <<queueVars, worker, step, closing, device, direct, log,
                    heard, env>>
    BY DEF Announced
  <1> QED BY <1>2, <1>3, <1>4 DEF TypeInv, TypeOK, WorkerHoldsJob

LEMMA NextStepType ==
    ASSUME TypeInv, NextStep
    PROVE  TypeInv'
  <1>0. closing = "open"
    BY AliveWhileOpen DEF NextStep
  <1>1. emissions' \in Seq(Groups)
    BY HeadGroup DEF NextStep, Delivered
  <1>2. step' \in 1 .. Steps /\ current \in Commands /\ worker' = "sleeping"
    BY DEF NextStep, TypeInv, TypeOK, WorkerHoldsJob, Running
  <1>3. UNCHANGED <<queueVars, interrupt, ready, closing, device, direct, log,
                    heard, env>>
    BY DEF NextStep
  <1> QED BY <1>0, <1>1, <1>2, <1>3 DEF TypeInv, TypeOK, WorkerHoldsJob, Running

LEMMA FinishedType ==
    ASSUME TypeInv, Finished
    PROVE  TypeInv'
  <1>0. closing = "open"
    BY AliveWhileOpen DEF Finished
  <1>1. emissions' \in Seq(Groups)
    BY HeadGroup DEF Finished, Delivered
  <1>2. interrupt' \in BOOLEAN
    BY DEF Finished
  <1>3. /\ restId' \in Commands \union {None}
        /\ current = None
        /\ worker' \in {"idle", "popping"}
    BY DEF Finished, TypeInv, TypeOK, WorkerHoldsJob
  <1>4. UNCHANGED <<waiting, accepted, seenOrder, seenIds, current, target,
                    projected, ready, step, closing, device, direct, log,
                    heard, env>>
    BY DEF Finished
  <1> QED BY <1>0, <1>1, <1>2, <1>3, <1>4 DEF TypeInv, TypeOK, WorkerHoldsJob, Running

LEMMA ImmediateType ==
    ASSUME TypeInv, Immediate
    PROVE  TypeInv'
  <1>1. Snapshot(revision + 1) \in Event /\ direct \in Seq(Event)
    BY SnapshotIsEvent DEF TypeInv, TypeOK
  <1>2. direct' \in Seq(Event)
    BY <1>1, AppendProperties DEF Immediate
  <1>3. mode' \in Modes /\ revision' \in Nat
    BY DEF Immediate, TypeInv, TypeOK
  <1>4. EnvType'
    BY SpendType DEF Immediate, Bounded
  <1>5. UNCHANGED <<queueVars, workerVars, closing, motion, queueSize, pos,
                    emissions, log, heard>>
    BY DEF Immediate
  <1> QED BY <1>2, <1>3, <1>4, <1>5 DEF TypeInv, TypeOK, WorkerHoldsJob

LEMMA DeliverDirectType ==
    ASSUME TypeInv, DeliverDirect
    PROVE  TypeInv'
  <1>1. Head(direct) \in Event /\ Tail(direct) \in Seq(Event)
    BY HeadTailProperties DEF DeliverDirect, TypeInv, TypeOK
  <1>2. log' \in [Commands -> Seq(Told)] /\ heard' \in Nat
    BY <1>1, HearType DEF DeliverDirect
  <1>3. direct' = Tail(direct)
        /\ UNCHANGED <<queueVars, workerVars, closing, device, emissions, env>>
    BY DEF DeliverDirect
  <1>4. QueueType' /\ WorkerType' /\ ClosingType'
    BY <1>3, TypeParts DEF TypeInv, QueueType, WorkerType, ClosingType
  <1>5. DeviceType' /\ OutType' /\ EnvType'
    BY <1>1, <1>2, <1>3, TypeParts DEF TypeInv, DeviceType, OutType
  <1> QED BY <1>3, <1>4, <1>5, TypeParts DEF TypeInv, WorkerHoldsJob

LEMMA RemoveAtType ==
    ASSUME NEW S, NEW q \in Seq(S), NEW i \in 1 .. Len(q)
    PROVE  RemoveAt(q, i) \in Seq(S)
  <1>1. Len(q) \in Nat /\ \A j \in 1 .. Len(q) : q[j] \in S
    BY LenProperties, ElementOfSeq
  <1>2. SubSeq(q, 1, i - 1) \in Seq(S) /\ SubSeq(q, i + 1, Len(q)) \in Seq(S)
    BY <1>1, SubSeqProperties
  <1> QED BY <1>2, ConcatProperties DEF RemoveAt

LEMMA BeginCloseType ==
    ASSUME TypeInv, BeginClose
    PROVE  TypeInv'
  <1>1. emissions' \in Seq(Groups)
    <2>1. CASE WorkerGroups = {}
      BY <2>1 DEF BeginClose, TypeInv, TypeOK
    <2>2. CASE WorkerGroups # {}
      <3>1. PICK i \in WorkerGroups : emissions' = RemoveAt(emissions, i)
        BY <2>2 DEF BeginClose
      <3>2. emissions \in Seq(Groups) /\ i \in 1 .. Len(emissions)
        BY LenProperties DEF WorkerGroups, TypeInv, TypeOK
      <3> QED BY <3>1, <3>2, RemoveAtType
    <2> QED BY <2>1, <2>2
  <1>2. /\ closing' = "cancelling" /\ worker' = "dead"
        /\ UNCHANGED <<queueVars, interrupt, ready, step, device, direct, log,
                       heard, env>>
    BY DEF BeginClose
  <1> QED BY <1>1, <1>2 DEF TypeInv, TypeOK, WorkerHoldsJob, Running

LEMMA DrainCloseType ==
    ASSUME TypeInv, DrainClose
    PROVE  TypeInv'
  <1>1. Unfinished \in Seq(Commands)
    <2>1. (IF current \in accepted THEN <<current>> ELSE <<>>) \in Seq(Commands)
      BY EmptySeq DEF TypeInv, TypeOK
    <2> QED BY <2>1, ConcatProperties DEF Unfinished, TypeInv, TypeOK
  <1>2. Shutdown(Unfinished) \in Seq(Event) /\ Len(Unfinished) \in Nat
    BY <1>1, ShutdownEvents, LenProperties DEF TypeInv, TypeOK
  <1>3. Group("close", None, FALSE, Shutdown(Unfinished)) \in Groups
    BY <1>2 DEF Group, Groups
  <1>4. emissions' \in Seq(Groups)
    BY <1>3, AppendProperties DEF DrainClose, TypeInv, TypeOK
  <1>5. waiting' \in Seq(Commands) /\ revision' \in Nat
    BY <1>2, EmptySeq DEF DrainClose, TypeInv, TypeOK
  <1>6. /\ closing' = "emitting" /\ accepted' = {} /\ current' = None
        /\ restId' = None /\ interrupt' = FALSE /\ projected' = pos
        /\ motion' = "idle" /\ queueSize' = 0
        /\ UNCHANGED <<seenOrder, seenIds, target, ready, worker, step, mode,
                       pos, direct, log, heard, env>>
    BY DEF DrainClose
  <1>7. worker = "dead"
    BY DEF DrainClose, TypeInv, WorkerHoldsJob
  <1> QED BY <1>7, <1>4, <1>5, <1>6 DEF TypeInv, TypeOK, WorkerHoldsJob, Running

LEMMA EndCloseType ==
    ASSUME TypeInv, EndClose
    PROVE  TypeInv'
  <1>1. emissions' \in Seq(Groups)
    BY HeadGroup DEF EndClose, Delivered
  <1>2. /\ closing' = "closed"
        /\ UNCHANGED <<queueVars, workerVars, device, direct, log, heard, env>>
    BY DEF EndClose
  <1>3. worker = "dead"
    BY DEF EndClose, TypeInv, WorkerHoldsJob
  <1> QED BY <1>1, <1>2, <1>3 DEF TypeInv, TypeOK, WorkerHoldsJob

-----------------------------------------------------------------------------
LEMMA TypeStep == TypeInv /\ [Next]_vars => TypeInv'
  <1> SUFFICES ASSUME TypeInv, [Next]_vars PROVE TypeInv'
    OBVIOUS
  <1>1. ASSUME NEW c \in Commands, Enqueue(c) PROVE TypeInv'
    BY <1>1, EnqueueType
  <1>2. ASSUME NEW c \in Commands, EnqueueRest(c) PROVE TypeInv'
    BY <1>2, EnqueueRestType
  <1>3. ASSUME NEW c \in Commands, Refuse(c) PROVE TypeInv'
    <2>1. EnvType'
      BY <1>3, SpendType DEF Refuse, Bounded
    <2>2. UNCHANGED <<queueVars, workerVars, closing, device, outVars>>
      BY <1>3 DEF Refuse
    <2>3. QueueType' /\ WorkerType' /\ ClosingType'
      BY <2>2, TypeParts DEF TypeInv, QueueType, WorkerType, ClosingType
    <2>4. DeviceType' /\ OutType'
      BY <2>2, TypeParts DEF TypeInv, DeviceType, OutType
    <2> QED BY <2>1, <2>2, <2>3, <2>4, TypeParts DEF TypeInv, WorkerHoldsJob
  <1>4. CASE TimerFires
    <2>1. /\ worker = "sleeping" /\ worker' = "slept"
          /\ UNCHANGED <<queueVars, interrupt, ready, step, closing, device,
                         outVars, env>>
      BY <1>4 DEF TimerFires
    <2> QED BY <2>1 DEF TypeInv, TypeOK, WorkerHoldsJob, Running
  <1>5. CASE UNCHANGED vars
    BY <1>5 DEF TypeInv, TypeOK, WorkerHoldsJob
  <1>6. CASE Settled
    BY <1>5, <1>6 DEF Settled
  <1>7. CASE Immediate
    BY <1>7, ImmediateType
  <1>8. CASE ClockFails
    BY <1>8, ClockFailsType
  <1>9. CASE Worker
    BY <1>4, <1>9, PopType, JobReadyType, MoveType, PreemptedType,
       NextStepType, CompleteType, FinishedType DEF Worker
  <1>10. CASE Emission
    BY <1>10, DeliverType, DeliverDirectType, AnnouncedType DEF Emission
  <1>11. CASE BeginClose
    BY <1>11, BeginCloseType
  <1>12. CASE Close
    BY <1>12, DrainCloseType, EndCloseType DEF Close
  <1> HIDE DEF vars
  <1> QED BY <1>1, <1>2, <1>3, <1>5, <1>6, <1>7, <1>8, <1>9, <1>10, <1>11,
             <1>12 DEF Next, Submit

LEMMA TypeInvariant == Spec => []TypeInv
  BY TypeInit, TypeStep, PTL DEF Spec

(* Every variable of the queue, the worker, the device and the event       *)
(* stream keeps its type, for any commands, capacity and bounds.           *)
THEOREM TypeCorrect == Spec => []TypeOK
  <1>1. TypeInv => TypeOK
    BY DEF TypeInv
  <1> QED BY <1>1, TypeInvariant, PTL

-----------------------------------------------------------------------------
(* Sequences without repetition, and their sets of elements                *)

LEMMA AppendSet ==
    ASSUME NEW S, NEW q \in Seq(S), NEW x \in S
    PROVE  /\ ToSet(Append(q, x)) = ToSet(q) \union {x}
           /\ IsInjective(q) /\ x \notin ToSet(q) => IsInjective(Append(q, x))
  <1> DEFINE n == Len(q)  r == Append(q, x)
  <1>1. /\ n \in Nat /\ DOMAIN q = 1 .. n
        /\ DOMAIN r = 1 .. n + 1 /\ r[n + 1] = x
        /\ \A i \in 1 .. n : r[i] = q[i]
    BY LenProperties, AppendProperties
  <1>2. DOMAIN r = DOMAIN q \union {n + 1}
    BY <1>1
  <1>3. ToSet(r) = ToSet(q) \union {x}
    BY <1>1, <1>2 DEF ToSet
  <1>4. ASSUME IsInjective(q), x \notin ToSet(q),
               NEW i \in DOMAIN r, NEW j \in DOMAIN r, r[i] = r[j]
        PROVE  i = j
    <2>1. \A k \in DOMAIN q : r[k] = q[k] /\ q[k] # x
      BY <1>1, <1>4 DEF ToSet
    <2> QED BY <1>1, <1>2, <1>4, <2>1 DEF IsInjective
  <1>5. IsInjective(q) /\ x \notin ToSet(q) => IsInjective(r)
    BY <1>4 DEF IsInjective
  <1> QED BY <1>3, <1>5

LEMMA TailSet ==
    ASSUME NEW S, NEW q \in Seq(S), q # <<>>
    PROVE  /\ ToSet(q) = {Head(q)} \union ToSet(Tail(q))
           /\ IsInjective(q) => /\ IsInjective(Tail(q))
                                /\ Head(q) \notin ToSet(Tail(q))
  <1> DEFINE n == Len(q)  t == Tail(q)
  <1>1. /\ n \in Nat \ {0} /\ DOMAIN q = 1 .. n
        /\ DOMAIN t = 1 .. n - 1 /\ Head(q) = q[1]
        /\ \A i \in 1 .. n - 1 : t[i] = q[i + 1]
    <2>1. n \in Nat /\ n # 0 /\ DOMAIN q = 1 .. n
      BY LenProperties, EmptySeq
    <2>2. /\ t \in Seq(S) /\ Len(t) = n - 1 /\ Head(q) = q[1]
          /\ \A i \in 1 .. Len(t) : t[i] = q[i + 1]
      BY HeadTailProperties
    <2>3. DOMAIN t = 1 .. n - 1
      BY <2>2, LenProperties
    <2> HIDE DEF t, n
    <2> QED BY <2>1, <2>2, <2>3
  <1> HIDE DEF n, t
  <1>2. \A i \in DOMAIN q : i = 1 \/ (i - 1 \in DOMAIN t /\ t[i - 1] = q[i])
    BY <1>1
  <1>3. \A i \in DOMAIN t : i + 1 \in DOMAIN q /\ t[i] = q[i + 1]
    BY <1>1
  <1>4. 1 \in DOMAIN q
    BY <1>1
  <1>5. ToSet(q) = {Head(q)} \union ToSet(t)
    <2>1. ASSUME NEW x \in ToSet(q) PROVE x \in {Head(q)} \union ToSet(t)
      BY <1>1, <1>2, <2>1 DEF ToSet
    <2>2. Head(q) \in ToSet(q)
      BY <1>1, <1>4 DEF ToSet
    <2>3. ASSUME NEW x \in ToSet(t) PROVE x \in ToSet(q)
      BY <1>3, <2>3 DEF ToSet
    <2> QED BY <2>1, <2>2, <2>3
  <1>6. ASSUME IsInjective(q) PROVE IsInjective(t) /\ Head(q) \notin ToSet(t)
    <2>1. \A i, j \in DOMAIN t : t[i] = t[j] => i + 1 = j + 1
      BY <1>3, <1>6 DEF IsInjective
    <2>2. \A i, j \in DOMAIN t : i + 1 = j + 1 => i = j
      BY <1>1
    <2>3. IsInjective(t)
      BY <2>1, <2>2 DEF IsInjective
    <2>4. \A i \in DOMAIN t : i + 1 # 1
      BY <1>1
    <2>5. ASSUME NEW i \in DOMAIN t, t[i] = q[1] PROVE FALSE
      <3>1. i + 1 \in DOMAIN q /\ q[i + 1] = q[1]
        BY <1>3, <2>5
      <3> QED BY <1>4, <1>6, <2>4, <3>1 DEF IsInjective
    <2>6. Head(q) \notin ToSet(t)
      BY <1>1, <2>5 DEF ToSet
    <2> QED BY <2>3, <2>6
  <1> QED BY <1>5, <1>6 DEF t

-----------------------------------------------------------------------------
(* The queue's books                                                       *)

(* Alone, Bookkeeping is not inductive: that an accepted id is not         *)
(* accepted again follows from AcceptedAreSeen, that a job being finished  *)
(* is nowhere else from WorkerHoldsJob, and the published size is within   *)
(* the capacity because the queue's length is.                             *)
Books ==
    /\ TypeInv
    /\ Bookkeeping
    /\ AcceptedAreSeen
    /\ WithinCapacity

USE DEF Waiting

LEMMA EmptySet == ToSet(<<>>) = {} /\ IsInjective(<<>>)
  BY DEF ToSet, IsInjective

LEMMA SingleSet ==
    ASSUME NEW c PROVE ToSet(<<c>>) = {c} /\ IsInjective(<<c>>)
  BY DEF ToSet, IsInjective

LEMMA BooksInit == Init => Books
  <1> SUFFICES ASSUME Init PROVE Books
    OBVIOUS
  <1>1. /\ waiting = <<>> /\ accepted = {} /\ seenIds = {}
        /\ current = None /\ queueSize = 0
    BY DEF Init
  <1>2. Bookkeeping
    BY <1>1, EmptySet DEF Bookkeeping, Owing
  <1> QED BY <1>1, <1>2, TypeInit
          DEF Books, AcceptedAreSeen, WithinCapacity

(* What _remember_id_locked forgets is never an accepted id.               *)
LEMMA RememberKeepsAccepted ==
    ASSUME NEW c, accepted' \subseteq seenIds \union {c}, Remember(c)
    PROVE  accepted' \subseteq seenIds'
  BY DEF Remember

(* Steps that leave the queue, and the size the device publishes, alone.   *)
BookVars == <<waiting, accepted, seenIds, current, queueSize>>

LEMMA BooksUnchanged ==
    ASSUME Books, TypeInv', UNCHANGED BookVars
    PROVE  Books'
  BY DEF Books, Bookkeeping, Owing, AcceptedAreSeen, WithinCapacity, BookVars

LEMMA EnqueueBooks ==
    ASSUME Books, TypeInv', NEW c \in Commands, Enqueue(c)
    PROVE  Books'
  <1>1. /\ waiting' = Append(waiting, c)
        /\ accepted' = accepted \union {c}
        /\ Remember(c) /\ c \notin seenIds /\ Len(waiting) < Capacity
        /\ current' = current /\ queueSize' = Len(waiting')
    BY DEF Enqueue, Admissible, HasRoom, Queued
  <1>2. waiting \in Seq(Commands) /\ accepted \subseteq seenIds
    BY DEF Books, TypeInv, TypeOK, AcceptedAreSeen
  <1>3. /\ accepted = Waiting \union Owing /\ current \notin Waiting
        /\ IsInjective(waiting)
    BY DEF Books, Bookkeeping
  <1>4. c \notin Waiting /\ current # c
    BY <1>1, <1>2, <1>3 DEF Owing
  <1>5. Waiting' = Waiting \union {c} /\ IsInjective(waiting')
    BY <1>1, <1>2, <1>3, <1>4, AppendSet
  <1>6. Bookkeeping'
    BY <1>1, <1>3, <1>4, <1>5 DEF Bookkeeping, Owing
  <1>7. AcceptedAreSeen'
    BY <1>1, <1>2, RememberKeepsAccepted DEF AcceptedAreSeen
  <1>8. Len(waiting') = Len(waiting) + 1 /\ Len(waiting) \in Nat
    BY <1>1, <1>2, AppendProperties, LenProperties
  <1>9. WithinCapacity'
    BY <1>1, <1>8 DEF WithinCapacity
  <1> QED BY <1>6, <1>7, <1>9 DEF Books

LEMMA EnqueueRestBooks ==
    ASSUME Books, TypeInv', NEW c \in Commands, EnqueueRest(c)
    PROVE  Books'
  <1>1. /\ waiting' = <<c>>
        /\ accepted' = (accepted \ Waiting) \union {c}
        /\ Remember(c) /\ c \notin seenIds
        /\ current' = current /\ queueSize' = Len(waiting')
    BY DEF EnqueueRest, Admissible, Queued
  <1>2. accepted \subseteq seenIds /\ accepted = Waiting \union Owing
        /\ current \notin Waiting
    BY DEF Books, AcceptedAreSeen, Bookkeeping
  <1>3. current # c
    BY <1>1, <1>2 DEF Owing
  <1>4. Waiting' = {c} /\ IsInjective(waiting')
    BY <1>1, SingleSet
  <1>5. Bookkeeping'
    BY <1>1, <1>2, <1>3, <1>4 DEF Bookkeeping, Owing
  <1>6. AcceptedAreSeen'
    BY <1>1, <1>2, RememberKeepsAccepted DEF AcceptedAreSeen
  <1>7. WithinCapacity'
    BY <1>1 DEF WithinCapacity
  <1> QED BY <1>5, <1>6, <1>7 DEF Books

LEMMA PopBooks ==
    ASSUME Books, TypeInv', Pop
    PROVE  Books'
  <1>1. /\ current' = Head(waiting) /\ waiting' = Tail(waiting)
        /\ waiting # <<>> /\ worker \in {"idle", "popping"}
        /\ UNCHANGED <<accepted, seenIds>>
        /\ queueSize' \in {queueSize, Len(waiting')}
    BY DEF Pop, StartJob
  <1>2. /\ waiting \in Seq(Commands) /\ current = None
        /\ queueSize <= Capacity /\ Len(waiting) <= Capacity
        /\ accepted \subseteq seenIds
    BY <1>1 DEF Books, TypeInv, TypeOK, WorkerHoldsJob, WithinCapacity,
                AcceptedAreSeen
  <1>3. /\ Waiting = {Head(waiting)} \union Waiting'
        /\ IsInjective(waiting') /\ Head(waiting) \notin Waiting'
    BY <1>1, <1>2, TailSet DEF Books, Bookkeeping
  <1>4. Head(waiting) # None
    BY <1>1, <1>2, HeadTailProperties
  <1>5. Bookkeeping'
    BY <1>1, <1>2, <1>3, <1>4 DEF Books, Bookkeeping, Owing
  <1>6. Len(waiting') = Len(waiting) - 1 /\ Len(waiting) \in Nat
    BY <1>1, <1>2, HeadTailProperties, LenProperties
  <1>7. WithinCapacity'
    BY <1>1, <1>2, <1>6 DEF WithinCapacity
  <1> QED BY <1>1, <1>2, <1>5, <1>7 DEF Books, AcceptedAreSeen

LEMMA FinishBooks ==
    ASSUME Books, TypeInv', current \in Commands, NEW status, NEW pending,
           Finish(current, status, pending)
    PROVE  Books'
  <1>1. /\ accepted' = accepted \ {current} /\ current' = None
        /\ queueSize' = Len(waiting) /\ UNCHANGED <<waiting, seenIds>>
    BY DEF Finish
  <1>2. /\ waiting \in Seq(Commands) /\ accepted = Waiting \union {current}
        /\ current \notin Waiting
    BY DEF Books, TypeInv, TypeOK, Bookkeeping, Owing
  <1>3. Waiting \subseteq Commands
    BY <1>2, ElementOfSeq, LenProperties DEF ToSet
  <1>4. Bookkeeping'
    BY <1>1, <1>2, <1>3 DEF Books, Bookkeeping, Owing
  <1> QED BY <1>1, <1>4 DEF Books, AcceptedAreSeen, WithinCapacity

LEMMA DrainCloseBooks ==
    ASSUME Books, TypeInv', DrainClose
    PROVE  Books'
  <1>1. /\ accepted' = {} /\ waiting' = <<>> /\ current' = None
        /\ queueSize' = 0
    BY DEF DrainClose
  <1>2. Bookkeeping'
    BY <1>1, EmptySet DEF Bookkeeping, Owing
  <1> QED BY <1>1, <1>2 DEF Books, AcceptedAreSeen, WithinCapacity

LEMMA BooksStep == Books /\ [Next]_vars => Books'
  <1> SUFFICES ASSUME Books, [Next]_vars PROVE Books'
    OBVIOUS
  <1>0. TypeInv'
    BY TypeStep DEF Books
  <1>1. ASSUME NEW c \in Commands, Enqueue(c) PROVE Books'
    BY <1>0, <1>1, EnqueueBooks
  <1>2. ASSUME NEW c \in Commands, EnqueueRest(c) PROVE Books'
    BY <1>0, <1>2, EnqueueRestBooks
  <1>3. ASSUME NEW c \in Commands, Refuse(c) PROVE Books'
    BY <1>0, <1>3, BooksUnchanged DEF Refuse, BookVars
  <1>4. CASE Pop
    BY <1>0, <1>4, PopBooks
  <1>5. CASE JobReady
    <2>1. /\ queueSize' = Len(waiting)
          /\ UNCHANGED <<waiting, accepted, seenIds, current>>
      BY <1>5 DEF JobReady, StartJob
    <2> QED BY <1>0, <2>1
            DEF Books, Bookkeeping, Owing, AcceptedAreSeen, WithinCapacity
  <1>6. CASE Preempted \/ ClockFails \/ Complete
    <2>1. \E status, pending : Finish(current, status, pending)
      BY <1>6 DEF Preempted, ClockFails, Complete
    <2>2. current \in Commands
      BY <1>6 DEF Preempted, ClockFails, Complete, Books, TypeInv,
                  WorkerHoldsJob, Running
    <2> QED BY <1>0, <2>1, <2>2, FinishBooks
  <1>7. CASE TimerFires \/ Move \/ NextStep \/ Finished \/ Immediate
    <2>1. UNCHANGED BookVars
      BY <1>7 DEF TimerFires, Move, NextStep, Finished, Immediate, BookVars
    <2> QED BY <1>0, <2>1, BooksUnchanged
  <1>8. CASE Emission
    <2>1. UNCHANGED BookVars
      BY <1>8 DEF Emission, Deliver, DeliverDirect, Announced, BookVars
    <2> QED BY <1>0, <2>1, BooksUnchanged
  <1>9. CASE BeginClose \/ EndClose \/ Settled \/ UNCHANGED vars
    <2>1. UNCHANGED BookVars
      BY <1>9 DEF BeginClose, EndClose, Settled, BookVars
    <2> QED BY <1>0, <2>1, BooksUnchanged
  <1>10. CASE DrainClose
    BY <1>0, <1>10, DrainCloseBooks
  <1> HIDE DEF vars
  <1> QED BY <1>1, <1>2, <1>3, <1>4, <1>5, <1>6, <1>7, <1>8, <1>9, <1>10
          DEF Next, Submit, Worker, Close

LEMMA BooksInvariant == Spec => []Books
  BY BooksInit, BooksStep, PTL DEF Spec

(* _accepted, _waiting and _current agree: every command that owes a       *)
(* motion.finished is waiting or running, once, and nothing else is.       *)
THEOREM BookkeepingCorrect == Spec => []Bookkeeping
  <1>1. Books => Bookkeeping
    BY DEF Books
  <1> QED BY <1>1, BooksInvariant, PTL

(* The job the worker runs is accepted: the early return of _finish_job is *)
(* dead code.                                                              *)
THEOREM NoEarlyReturn == Spec => []CurrentIsAccepted
  <1>1. Books => CurrentIsAccepted
    BY DEF Books, Bookkeeping, Owing, TypeInv, WorkerHoldsJob, CurrentIsAccepted
  <1> QED BY <1>1, BooksInvariant, PTL

(* However small SEEN_COMMAND_LIMIT is, a command that is still owed a     *)
(* finish is never accepted a second time.                                 *)
THEOREM NoReacceptance == Spec => []AcceptedAreSeen
  <1>1. Books => AcceptedAreSeen
    BY DEF Books
  <1> QED BY <1>1, BooksInvariant, PTL

(* Neither the queue nor the size it publishes exceeds the capacity.       *)
THEOREM CapacityHolds == Spec => []WithinCapacity
  <1>1. Books => WithinCapacity
    BY DEF Books
  <1> QED BY <1>1, BooksInvariant, PTL

-----------------------------------------------------------------------------
(* A pending rest is alone in the queue                                    *)

Alone == TypeInv /\ RestStandsAlone

LEMMA AloneInit == Init => Alone
  BY TypeInit DEF Init, Alone, RestStandsAlone

LEMMA AloneStep == Alone /\ [Next]_vars => Alone'
  <1> SUFFICES ASSUME TypeInv, RestStandsAlone, [Next]_vars
               PROVE  RestStandsAlone'
    BY TypeStep DEF Alone
  <1>1. ASSUME NEW c \in Commands, Enqueue(c) PROVE RestStandsAlone'
    BY <1>1 DEF Enqueue, Admissible, RestStandsAlone
  <1>2. ASSUME NEW c \in Commands, EnqueueRest(c) PROVE RestStandsAlone'
    BY <1>2, SingleSet DEF EnqueueRest, RestStandsAlone
  <1>3. ASSUME NEW c \in Commands, Refuse(c) PROVE RestStandsAlone'
    BY <1>3 DEF Refuse, RestStandsAlone
  <1>4. CASE Pop
    <2>1. /\ waiting # <<>> /\ waiting' = Tail(waiting)
          /\ UNCHANGED <<restId, closing>>
      BY <1>4 DEF Pop
    <2>2. Waiting' \subseteq Waiting
      BY <2>1, TailSet DEF TypeInv, TypeOK
    <2> QED BY <2>1, <2>2 DEF RestStandsAlone
  <1>5. CASE Finished
    BY <1>5 DEF Finished, RestStandsAlone
  <1>6. CASE BeginClose \/ DrainClose \/ EndClose
    BY <1>6 DEF BeginClose, DrainClose, EndClose, RestStandsAlone
  <1>7. CASE \/ JobReady \/ TimerFires \/ Move \/ NextStep \/ Preempted
             \/ Complete \/ ClockFails \/ Immediate \/ Emission \/ Settled
             \/ UNCHANGED vars
    <2>1. UNCHANGED <<waiting, restId, closing>>
      BY <1>7 DEF JobReady, TimerFires, Move, NextStep, Preempted, Complete,
                  ClockFails, Finish, Immediate, Emission, Deliver,
                  DeliverDirect, Announced, Settled
    <2> QED BY <2>1 DEF RestStandsAlone
  <1> HIDE DEF vars
  <1> QED BY <1>1, <1>2, <1>3, <1>4, <1>5, <1>6, <1>7
          DEF Next, Submit, Worker, Close

(* Nothing is queued behind a rest, and nothing queued before it survives  *)
(* it: _enqueue empties the queue for a rest and refuses every motion      *)
(* until _finish_job has announced its end.                                *)
THEOREM RestIsAlone == Spec => []RestStandsAlone
  <1>1. Alone => RestStandsAlone
    BY DEF Alone
  <1> QED BY <1>1, AloneInit, AloneStep, PTL DEF Spec

-----------------------------------------------------------------------------
(* A pending rest interrupts what is running                               *)

(* A rest is marked in _rest_transition_id from its acceptance to the end  *)
(* of the announcement that it finished, and the worker announces one      *)
(* thing at a time.                                                        *)
Silent(q) == \A i \in DOMAIN q : q[i].task # "worker"

Marked(q, at, cur, rest, acc) ==
    /\ \A c \in acc : IsRest(c) => rest = c
    /\ \A i, j \in DOMAIN q :
         q[i].task = "worker" /\ q[j].task = "worker" => i = j
    /\ \A i \in DOMAIN q : q[i].task = "worker" =>
         /\ at \in {"starting", "moving", "finishing"}
         /\ at # "finishing" => q[i].command = cur
         /\ IsRest(q[i].command) => rest = q[i].command
         /\ at = "finishing" /\ IsRest(q[i].command) => q[i].command \notin acc

(* An announcement under way that will interrupt when it is over.          *)
Stops(q, rest) ==
    \E i \in DOMAIN q : /\ q[i].task = "enqueue" /\ q[i].command = rest
                        /\ q[i].interrupt

Interrupting ==
    closing = "open" =>
        /\ Marked(emissions, worker, current, restId, accepted)
        /\ RestInterrupts

(* The same groups, of some of whose events subscribers were told.         *)
Alike(p, q) ==
    /\ DOMAIN p = DOMAIN q
    /\ \A i \in DOMAIN q : /\ p[i].task = q[i].task
                           /\ p[i].command = q[i].command
                           /\ p[i].interrupt = q[i].interrupt

LEMMA MarkedMoves ==
    ASSUME NEW q \in Seq(Groups), NEW at, NEW cur, NEW rest, NEW acc,
           Marked(q, at, cur, rest, acc)
    PROVE  /\ \A p : Alike(p, q) => /\ Marked(p, at, cur, rest, acc)
                                    /\ \A r : Stops(q, r) => Stops(p, r)
           /\ \A g : g.task # "worker" =>
                  Marked(Append(q, g), at, cur, rest, acc)
           /\ \A g, r : Stops(q, r) => Stops(Append(q, g), r)
           /\ q # <<>> /\ Head(q).task = "worker" =>
                  /\ Silent(Tail(q))
                  /\ \A r : Stops(q, r) => Stops(Tail(q), r)
           /\ q # <<>> /\ Head(q).task # "worker" =>
                  /\ Marked(Tail(q), at, cur, rest, acc)
                  /\ \A r : Stops(q, r) =>
                        Stops(Tail(q), r) \/ (Head(q).command = r /\ Head(q).interrupt)
           /\ at \notin {"starting", "moving", "finishing"} => Silent(q)
  <1>1. \A p : Alike(p, q) => /\ Marked(p, at, cur, rest, acc)
                              /\ \A r : Stops(q, r) => Stops(p, r)
    <2>1. ASSUME NEW p, Alike(p, q) PROVE Marked(p, at, cur, rest, acc)
      <3>1. /\ DOMAIN p = DOMAIN q
            /\ \A i \in DOMAIN q : /\ p[i].task = q[i].task
                                   /\ p[i].command = q[i].command
        BY <2>1 DEF Alike
      <3>2. \A i, j \in DOMAIN p :
                p[i].task = "worker" /\ p[j].task = "worker" => i = j
        BY <3>1 DEF Marked
      <3>3. \A i \in DOMAIN p : p[i].task = "worker" =>
                /\ at \in {"starting", "moving", "finishing"}
                /\ at # "finishing" => p[i].command = cur
                /\ IsRest(p[i].command) => rest = p[i].command
                /\ at = "finishing" /\ IsRest(p[i].command) =>
                       p[i].command \notin acc
        BY <3>1 DEF Marked
      <3>4. \A c \in acc : IsRest(c) => rest = c
        BY DEF Marked
      <3> QED BY <3>2, <3>3, <3>4 DEF Marked
    <2>2. \A p, r : Alike(p, q) /\ Stops(q, r) => Stops(p, r)
      BY DEF Alike, Stops
    <2> QED BY <2>1, <2>2
  <1>2. \A g : \A i \in DOMAIN Append(q, g) :
            \/ i \in DOMAIN q /\ Append(q, g)[i] = q[i]
            \/ Append(q, g)[i] = g
    OBVIOUS
  <1>3. \A g : \A i \in DOMAIN q : i \in DOMAIN Append(q, g)
                                   /\ Append(q, g)[i] = q[i]
    OBVIOUS
  <1>4. q # <<>> => /\ \A i \in DOMAIN Tail(q) :
                         i + 1 \in DOMAIN q /\ Tail(q)[i] = q[i + 1]
                         /\ i \in Nat /\ i # 0
                    /\ \A i \in DOMAIN q : i = 1 \/
                         (i - 1 \in DOMAIN Tail(q) /\ Tail(q)[i - 1] = q[i])
                    /\ Head(q) = q[1] /\ 1 \in DOMAIN q
    OBVIOUS
  <1>5. \A g : g.task # "worker" => Marked(Append(q, g), at, cur, rest, acc)
    BY <1>2 DEF Marked
  <1>6. \A g, r : Stops(q, r) => Stops(Append(q, g), r)
    BY <1>3 DEF Stops
  <1>7. ASSUME q # <<>>, Head(q).task = "worker"
        PROVE  /\ Silent(Tail(q))
               /\ \A r : Stops(q, r) => Stops(Tail(q), r)
    <2>1. \A i \in DOMAIN q : i # 1 => q[i].task # "worker"
      BY <1>4, <1>7 DEF Marked
    <2>2. Silent(Tail(q))
      BY <1>4, <1>7, <2>1 DEF Silent
    <2>3. ASSUME NEW r, Stops(q, r) PROVE Stops(Tail(q), r)
      <3>1. PICK i \in DOMAIN q : /\ q[i].task = "enqueue" /\ q[i].interrupt
                                  /\ q[i].command = r
        BY <2>3 DEF Stops
      <3>2. i - 1 \in DOMAIN Tail(q) /\ Tail(q)[i - 1] = q[i]
        BY <1>4, <1>7, <3>1
      <3> QED BY <3>1, <3>2 DEF Stops
    <2> QED BY <2>2, <2>3
  <1>8. ASSUME q # <<>>, Head(q).task # "worker"
        PROVE  /\ Marked(Tail(q), at, cur, rest, acc)
               /\ \A r : Stops(q, r) => Stops(Tail(q), r)
                           \/ (Head(q).command = r /\ Head(q).interrupt)
    <2>1. \A i, j \in DOMAIN Tail(q) :
            Tail(q)[i].task = "worker" /\ Tail(q)[j].task = "worker" => i = j
      <3>1. \A i, j \in DOMAIN Tail(q) :
              Tail(q)[i].task = "worker" /\ Tail(q)[j].task = "worker" =>
                  i + 1 = j + 1
        BY <1>4, <1>8 DEF Marked
      <3> QED BY <1>4, <1>8, <3>1
    <2>2. Marked(Tail(q), at, cur, rest, acc)
      BY <1>4, <1>8, <2>1 DEF Marked
    <2>3. ASSUME NEW r, Stops(q, r), ~(Head(q).command = r /\ Head(q).interrupt)
          PROVE  Stops(Tail(q), r)
      <3>1. PICK i \in DOMAIN q : /\ q[i].task = "enqueue" /\ q[i].interrupt
                                  /\ q[i].command = r
        BY <2>3 DEF Stops
      <3>2. i - 1 \in DOMAIN Tail(q) /\ Tail(q)[i - 1] = q[i]
        BY <1>4, <1>8, <2>3, <3>1
      <3> QED BY <3>1, <3>2 DEF Stops
    <2> QED BY <2>2, <2>3
  <1>9. at \notin {"starting", "moving", "finishing"} => Silent(q)
    BY DEF Marked, Silent
  <1> QED BY <1>1, <1>5, <1>6, <1>7, <1>8, <1>9

(* The worker announces something new, when it announced nothing.          *)
LEMMA MarkedSpeaks ==
    ASSUME NEW q \in Seq(Groups), Silent(q), NEW at, NEW cur, NEW rest, NEW acc,
           \A c \in acc : IsRest(c) => rest = c
    PROVE  /\ \A g : /\ g.task = "worker" /\ at \in {"starting", "moving"}
                     /\ g.command = cur /\ cur \in acc
                     => Marked(Append(q, g), at, cur, rest, acc)
           /\ \A g : /\ g.task = "worker" /\ at = "finishing"
                     /\ g.command \notin acc
                     /\ IsRest(g.command) => rest = g.command
                     => Marked(Append(q, g), at, cur, rest, acc)
           /\ Marked(q, at, cur, rest, acc)
  <1>1. \A g : \A i \in DOMAIN Append(q, g) :
            \/ i \in DOMAIN q /\ Append(q, g)[i] = q[i]
            \/ i = Len(q) + 1 /\ Append(q, g)[i] = g
    OBVIOUS
  <1>2. \A g : \A i, j \in DOMAIN Append(q, g) :
            /\ Append(q, g)[i].task = "worker" /\ Append(q, g)[j].task = "worker"
            => i = j
    BY <1>1 DEF Silent
  <1> QED BY <1>1, <1>2 DEF Silent, Marked

LEMMA HeadTold ==
    ASSUME TypeInv, Deliver
    PROVE  Alike(emissions', emissions)
  <1>1. emissions \in Seq(Groups) /\ emissions # <<>>
    BY DEF Deliver, TypeInv, TypeOK
  <1> DEFINE h == [Head(emissions) EXCEPT !.events = Tail(Head(emissions).events)]
  <1>2. /\ h.task = Head(emissions).task /\ h.command = Head(emissions).command
        /\ h.interrupt = Head(emissions).interrupt
    <2>1. Head(emissions) \in Groups
      BY <1>1
    <2> QED BY <2>1 DEF Groups
  <1>3. emissions' = <<h>> \o Tail(emissions)
    BY DEF Deliver
  <1> HIDE DEF h
  <1>4. /\ DOMAIN emissions' = DOMAIN emissions
        /\ \A i \in DOMAIN emissions :
             emissions'[i] = IF i = 1 THEN h ELSE emissions[i]
    BY <1>1, <1>3
  <1>5. Head(emissions) = emissions[1]
    BY <1>1
  <1> QED BY <1>2, <1>4, <1>5 DEF Alike

LEMMA InterruptingInit == Init => Interrupting
  BY DEF Init, Interrupting, Marked, RestInterrupts

LEMMA InterruptingEnqueue ==
    ASSUME Books, Interrupting, NEW c \in Commands, Enqueue(c) \/ EnqueueRest(c)
    PROVE  Interrupting'
  <1> SUFFICES ASSUME closing' = "open" PROVE Interrupting'
    BY DEF Interrupting
  <1>1. /\ closing = "open" /\ restId = None /\ emissions \in Seq(Groups)
        /\ UNCHANGED <<current, interrupt, worker>>
    BY DEF Enqueue, EnqueueRest, Admissible, Queued, Books, TypeInv, TypeOK
  <1>2. PICK intr, events :
          /\ emissions' = Append(emissions, Group("enqueue", c, intr, events))
          /\ EnqueueRest(c) => intr = (current # None /\ ~IsRest(current))
    BY DEF Enqueue, EnqueueRest, Queued
  <1> DEFINE g == Group("enqueue", c, intr, events)
  <1>3. g.task = "enqueue" /\ g.command = c /\ g.interrupt = intr
    BY DEF Group
  <1> HIDE DEF g
  <1>4. Marked(Append(emissions, g), worker, current, None, accepted)
    <2>1. Marked(emissions, worker, current, None, accepted)
      BY <1>1 DEF Interrupting
    <2> QED BY <1>1, <1>3, <2>1, MarkedMoves
  <1>5. emissions' = Append(emissions, g)
    BY <1>2 DEF g
  <1>6. /\ \A d \in accepted : ~IsRest(d)
        /\ \A i \in DOMAIN emissions' : emissions'[i].task = "worker" =>
               ~IsRest(emissions'[i].command)
    <2>1. \A d \in accepted : d # None
      BY DEF Books, TypeInv, TypeOK
    <2>2. \A i \in DOMAIN emissions : emissions[i].command = None =>
              emissions[i].task # "worker"
      <3>1. \A i \in DOMAIN emissions : emissions[i] \in Groups
        BY <1>1
      <3> QED BY <3>1 DEF Groups
    <2>3. \A i \in DOMAIN emissions' :
              \/ i \in DOMAIN emissions /\ emissions'[i] = emissions[i]
              \/ emissions'[i] = g
      BY <1>1, <1>5
    <2> QED BY <1>3, <1>4, <1>5, <2>1, <2>2, <2>3 DEF Marked
  <1>7. CASE Enqueue(c)
    <2>1. restId' = None /\ accepted' = accepted \union {c} /\ ~IsRest(c)
      BY <1>1, <1>7 DEF Enqueue
    <2> QED BY <1>1, <1>4, <1>5, <1>6, <2>1 DEF Interrupting, Marked, RestInterrupts
  <1>8. CASE EnqueueRest(c)
    <2>1. /\ restId' = c /\ accepted' = (accepted \ Waiting) \union {c}
          /\ intr = (current # None /\ ~IsRest(current))
      BY <1>2, <1>8 DEF EnqueueRest
    <2>2. Marked(emissions', worker', current', restId', accepted')
      BY <1>1, <1>4, <1>5, <1>6, <2>1 DEF Marked
    <2>3. RestInterrupts'
      <3>1. ASSUME current # None PROVE ~IsRest(current)
        BY <1>6, <3>1 DEF Books, Bookkeeping, Owing
      <3>2. /\ Len(emissions) + 1 \in DOMAIN emissions'
            /\ emissions'[Len(emissions) + 1] = g
        BY <1>1, <1>5
      <3> QED BY <1>1, <1>3, <2>1, <3>1, <3>2 DEF RestInterrupts
    <2> QED BY <2>2, <2>3 DEF Interrupting
  <1> QED BY <1>7, <1>8

LEMMA InterruptingFinish ==
    ASSUME Books, Interrupting, closing = "open", NEW status,
           \/ worker \in {"sleeping", "slept"} /\ Finish(current, status, emissions)
           \/ Complete /\ Finish(current, status, Tail(emissions))
    PROVE  Interrupting'
  <1>1. /\ emissions \in Seq(Groups) /\ current \in accepted
        /\ Marked(emissions, worker, current, restId, accepted)
    BY DEF Books, TypeInv, TypeOK, WorkerHoldsJob, Running, Bookkeeping, Owing,
           Interrupting, Complete
  <1>2. PICK q : /\ q \in Seq(Groups) /\ Silent(q)
                 /\ Finish(current, status, q)
    <2>1. CASE worker \in {"sleeping", "slept"} /\ Finish(current, status, emissions)
      BY <1>1, <2>1, MarkedMoves
    <2>2. CASE Complete /\ Finish(current, status, Tail(emissions))
      <3>1. emissions # <<>> /\ Head(emissions).task = "worker"
        BY <2>2 DEF Complete, Delivered
      <3>2. Tail(emissions) \in Seq(Groups)
        BY <1>1, <3>1
      <3> QED BY <1>1, <2>2, <3>1, <3>2, MarkedMoves
    <2> QED BY <2>1, <2>2
  <1> DEFINE g == Group("worker", current, status = "cancelled",
                        <<Snapshot(revision + 1), Lifecycle(current, status)>>)
  <1>3. g.task = "worker" /\ g.command = current
    BY DEF Group
  <1>4. /\ emissions' = Append(q, g) /\ worker' = "finishing" /\ restId' = restId
        /\ accepted' = accepted \ {current} /\ current' = None
    BY <1>2 DEF Finish
  <1> HIDE DEF g
  <1>5. Marked(Append(q, g), "finishing", None, restId, accepted \ {current})
    <2> DEFINE left == accepted \ {current}
    <2>1. \A c \in left : IsRest(c) => restId = c
      BY <1>1 DEF Marked
    <2>2. g.command \notin left /\ (IsRest(g.command) => restId = g.command)
      BY <1>1, <1>3 DEF Marked
    <2> HIDE DEF left
    <2>3. Marked(Append(q, g), "finishing", None, restId, left)
      BY <1>2, <1>3, <2>1, <2>2, MarkedSpeaks
    <2> QED BY <2>3 DEF left
  <1> QED BY <1>4, <1>5 DEF Interrupting, RestInterrupts

LEMMA InterruptingWorker ==
    ASSUME Books, RestStandsAlone, Interrupting, Books',
           \/ Pop \/ JobReady \/ Move \/ NextStep \/ Finished
    PROVE  Interrupting'
  <1>0. closing' = closing /\ (closing = "open")
    BY AliveWhileOpen DEF Pop, JobReady, Move, NextStep, Finished, StartJob, Books
  <1>1. /\ emissions \in Seq(Groups) /\ waiting \in Seq(Commands)
        /\ Marked(emissions, worker, current, restId, accepted)
        /\ RestInterrupts
    BY <1>0 DEF Books, TypeInv, TypeOK, Interrupting
  <1>2. CASE Pop
    <2>1. /\ waiting # <<>> /\ current' = Head(waiting) /\ accepted' = accepted
          /\ restId' = restId /\ worker \in {"idle", "popping"}
      BY <1>2 DEF Pop
    <2>2. Head(waiting) \in Waiting
      BY <1>1, <2>1 DEF ToSet
    <2>3. RestInterrupts'
      BY <1>0, <2>1, <2>2 DEF RestStandsAlone, RestInterrupts
    <2>4. Silent(emissions)
      BY <1>1, <2>1, MarkedMoves
    <2>5. Head(waiting) \in accepted
      BY <2>2 DEF Books, Bookkeeping
    <2>6. CASE emissions' = emissions /\ worker' = "ready"
      BY <1>1, <2>1, <2>3, <2>4, <2>6, MarkedSpeaks DEF Interrupting, Marked
    <2>7. CASE StartJob(Head(waiting), Tail(waiting))
      <3>1. PICK g : /\ emissions' = Append(emissions, g)
                     /\ g.task = "worker" /\ g.command = Head(waiting)
                     /\ worker' = "starting"
        BY <2>7 DEF StartJob, Group
      <3> QED BY <1>1, <2>1, <2>3, <2>4, <2>5, <3>1, MarkedSpeaks
              DEF Interrupting, Marked
    <2> QED BY <1>2, <2>6, <2>7 DEF Pop
  <1>3. CASE JobReady \/ Move
    <2>1. /\ current' = current /\ accepted' = accepted /\ restId' = restId
          /\ interrupt' = interrupt /\ worker \in {"ready", "slept"}
      BY <1>3 DEF JobReady, Move, queueVars
    <2>2. PICK g : /\ emissions' = Append(emissions, g)
                   /\ g.task = "worker" /\ g.command = current
                   /\ worker' \in {"starting", "moving"}
      BY <1>3 DEF JobReady, Move, StartJob, Group
    <2>3. Silent(emissions) /\ current \in accepted
      BY <1>1, <2>1, MarkedMoves
      DEF Books, TypeInv, WorkerHoldsJob, Running, Bookkeeping, Owing
    <2>4. Marked(emissions', worker', current', restId', accepted')
      BY <1>1, <2>1, <2>2, <2>3, MarkedSpeaks DEF Marked
    <2>5. Stops(emissions, restId) => Stops(emissions', restId')
      BY <1>1, <2>1, <2>2, MarkedMoves
    <2> QED BY <1>0, <1>1, <2>1, <2>4, <2>5 DEF Interrupting, RestInterrupts, Stops
  <1>4. CASE NextStep \/ Finished
    <2>1. /\ emissions # <<>> /\ Head(emissions).task = "worker"
          /\ emissions' = Tail(emissions)
          /\ current' = current /\ accepted' = accepted
      BY <1>4 DEF NextStep, Finished, Delivered, queueVars
    <2>2. Silent(emissions') /\ emissions' \in Seq(Groups)
      BY <1>1, <2>1, MarkedMoves
    <2>3. CASE NextStep
      <3>1. restId' = restId /\ interrupt' = interrupt
        BY <2>3 DEF NextStep, queueVars
      <3>2. Marked(emissions', worker', current', restId', accepted')
        BY <1>1, <2>1, <2>2, <3>1, MarkedSpeaks DEF Marked
      <3>3. Stops(emissions, restId) => Stops(emissions', restId')
        BY <1>1, <2>1, <3>1, MarkedMoves
      <3> QED BY <1>0, <1>1, <2>1, <3>1, <3>2, <3>3
              DEF Interrupting, RestInterrupts, Stops
    <2>4. CASE Finished
      <3>1. /\ worker = "finishing" /\ current = None
            /\ restId' = IF restId = Head(emissions).command THEN None ELSE restId
        BY <2>4 DEF Finished, Books, TypeInv, WorkerHoldsJob
      <3>2. Head(emissions) = emissions[1] /\ 1 \in DOMAIN emissions
        BY <1>1, <2>1
      <3>3. \A c \in accepted : IsRest(c) => restId' = c
        BY <1>1, <2>1, <3>1, <3>2 DEF Marked
      <3>4. Marked(emissions', worker', current', restId', accepted')
        BY <2>1, <2>2, <3>3, MarkedSpeaks
      <3> QED BY <2>1, <3>1, <3>4 DEF Interrupting, RestInterrupts
    <2> QED BY <1>4, <2>3, <2>4
  <1> QED BY <1>2, <1>3, <1>4

LEMMA InterruptingStep ==
    ASSUME Books, RestStandsAlone, Interrupting, Books', [Next]_vars
    PROVE  Interrupting'
  <1>1. ASSUME NEW c \in Commands, Refuse(c) PROVE Interrupting'
    BY <1>1 DEF Refuse, queueVars, workerVars, outVars, Interrupting,
                RestInterrupts
  <1>2. CASE Preempted \/ ClockFails \/ Complete
    <2>1. closing = "open"
      BY <1>2, AliveWhileOpen DEF Preempted, ClockFails, Complete, Books
    <2> QED BY <1>2, <2>1, InterruptingFinish DEF Preempted, ClockFails, Complete
  <1>3. CASE TimerFires \/ Immediate \/ DeliverDirect \/ Settled \/ UNCHANGED vars
    <2>1. /\ UNCHANGED <<emissions, current, restId, accepted, interrupt, closing>>
          /\ worker' = worker \/ (worker = "sleeping" /\ worker' = "slept")
      BY <1>3 DEF TimerFires, Immediate, DeliverDirect, Settled, vars, queueVars,
                  workerVars, outVars
    <2> QED BY <2>1 DEF Interrupting, RestInterrupts, Marked
  <1>4. CASE BeginClose \/ Close
    BY <1>4 DEF BeginClose, Close, DrainClose, EndClose, Interrupting
  <1>5. CASE Deliver
    <2>1. /\ UNCHANGED <<worker, current, restId, accepted, interrupt, closing>>
          /\ Alike(emissions', emissions) /\ emissions \in Seq(Groups)
      BY <1>5, HeadTold DEF Deliver, queueVars, workerVars, Books, TypeInv, TypeOK
    <2>2. CASE closing = "open"
      <3>1. /\ Marked(emissions', worker, current, restId, accepted)
            /\ Stops(emissions, restId) => Stops(emissions', restId)
        BY <2>1, <2>2, MarkedMoves DEF Interrupting
      <3> QED BY <2>1, <2>2, <3>1 DEF Interrupting, RestInterrupts, Stops
    <2> QED BY <2>1, <2>2 DEF Interrupting
  <1>6. CASE Announced
    <2>1. /\ UNCHANGED <<worker, current, restId, accepted, closing>>
          /\ emissions # <<>> /\ Head(emissions).task # "worker"
          /\ emissions' = Tail(emissions) /\ emissions \in Seq(Groups)
          /\ interrupt' = (interrupt \/ Head(emissions).interrupt)
      BY <1>6 DEF Announced, Delivered, queueVars, workerVars, Books, TypeInv,
                  TypeOK
    <2>2. CASE closing = "open"
      <3>1. /\ Marked(emissions', worker, current, restId, accepted)
            /\ Stops(emissions, restId) => Stops(emissions', restId)
                                           \/ Head(emissions).interrupt
        BY <2>1, <2>2, MarkedMoves DEF Interrupting
      <3> QED BY <2>1, <2>2, <3>1 DEF Interrupting, RestInterrupts, Stops
    <2> QED BY <2>1, <2>2 DEF Interrupting
  <1> QED BY <1>1, <1>2, <1>3, <1>4, <1>5, <1>6, InterruptingEnqueue,
          InterruptingWorker DEF Next, Submit, Worker, Emission

(* Whatever runs when a rest becomes pending has been told to stop, or     *)
(* will be when that rest has been announced.                              *)
THEOREM RestsInterrupt == Spec => []RestInterrupts
  <1>1. Spec => [](Books /\ Alone)
    BY BooksInvariant, AloneInit, AloneStep, PTL DEF Spec
  <1>2. Interrupting => RestInterrupts
    BY DEF Interrupting, RestInterrupts
  <1>3. Books /\ Alone /\ Books' /\ Interrupting /\ [Next]_vars => Interrupting'
    BY InterruptingStep DEF Alone
  <1> QED BY <1>1, <1>2, <1>3, InterruptingInit, PTL DEF Spec

-----------------------------------------------------------------------------
(* Revisions are heard in order                                            *)

(* The snapshots among these events climb, one at a time, from low to high.*)
States(q) == {i \in DOMAIN q : q[i].what = "state"}

Climbs(q, low, high) ==
    /\ States(q) = {} => low = high
    /\ \A i \in States(q) :
         /\ (\A j \in States(q) : i <= j) => q[i].revision = low + 1
         /\ (\A j \in States(q) : j <= i) => q[i].revision = high
         /\ \A k \in States(q) :
              i < k /\ (\A j \in States(q) : j <= i \/ k <= j) =>
                  q[k].revision = q[i].revision + 1

Pending == IF emissions = <<>> THEN direct ELSE Head(emissions).events

(* With subscribers that return at once, what is not yet published is what *)
(* one task is publishing.                                                 *)
InOrder ==
    subscribers = "prompt" =>
        /\ Len(emissions) <= 1
        /\ emissions # <<>> => direct = <<>>
        /\ worker = "popping" => emissions = <<>> /\ direct = <<>>
        /\ Climbs(Pending, heard, revision)

LEMMA ClimbsEmpty ==
    ASSUME NEW low, NEW high
    PROVE  Climbs(<<>>, low, high) <=> low = high
  BY DEF Climbs, States

LEMMA ClimbsOne ==
    ASSUME NEW q \in Seq(Event), NEW low \in Nat, NEW k \in DOMAIN q,
           States(q) = {k}, q[k].revision = low + 1
    PROVE  Climbs(q, low, low + 1)
  <1>1. k \in Int
    OBVIOUS
  <1> QED BY <1>1 DEF Climbs

LEMMA ClimbsTail ==
    ASSUME NEW q \in Seq(Event), q # <<>>, NEW low \in Nat, NEW high \in Nat,
           Climbs(q, low, high)
    PROVE  IF Head(q).what = "state"
             THEN Head(q).revision = low + 1 /\ Climbs(Tail(q), low + 1, high)
             ELSE Climbs(Tail(q), low, high)
  <1> DEFINE t == Tail(q)
  <1>1. /\ DOMAIN q = 1 .. Len(q) /\ 1 \in DOMAIN q /\ Head(q) = q[1]
        /\ Len(q) \in Nat /\ DOMAIN t = 1 .. Len(q) - 1
        /\ \A i \in DOMAIN t : t[i] = q[i + 1]
    OBVIOUS
  <1> HIDE DEF t
  <1>2. /\ \A i \in States(t) : i + 1 \in States(q) /\ i \in Nat /\ i >= 1
                                /\ t[i] = q[i + 1]
        /\ \A i \in States(q) : i # 1 => i - 1 \in States(t)
        /\ \A i \in States(q) : i \in Nat /\ i >= 1
    BY <1>1 DEF States
  <1>3. ASSUME NEW i \in States(t), NEW k \in States(t), i < k,
               \A j \in States(t) : j <= i \/ k <= j
        PROVE  t[k].revision = t[i].revision + 1
    <2>1. \A j \in States(q) : j <= i + 1 \/ k + 1 <= j
      <3> TAKE j \in States(q)
      <3>1. CASE j = 1
        BY <1>2, <1>3, <3>1
      <3>2. CASE j # 1
        <4>1. j - 1 <= i \/ k <= j - 1
          BY <1>2, <1>3, <3>2
        <4> QED BY <1>2, <1>3, <4>1
      <3> QED BY <3>1, <3>2
    <2>2. i + 1 \in States(q) /\ k + 1 \in States(q) /\ i + 1 < k + 1
      BY <1>2, <1>3
    <2>3. q[k + 1].revision = q[i + 1].revision + 1
      BY <2>1, <2>2 DEF Climbs
    <2> QED BY <1>2, <1>3, <2>3
  <1>4. ASSUME NEW i \in States(t), \A j \in States(t) : j <= i
        PROVE  t[i].revision = high
    <2>1. \A j \in States(q) : j <= i + 1
      <3> TAKE j \in States(q)
      <3>1. CASE j = 1
        BY <1>2, <3>1
      <3>2. CASE j # 1
        <4>1. j - 1 <= i
          BY <1>2, <1>4, <3>2
        <4> QED BY <1>2, <4>1
      <3> QED BY <3>1, <3>2
    <2>2. i + 1 \in States(q)
      BY <1>2
    <2>3. q[i + 1].revision = high
      BY <2>1, <2>2 DEF Climbs
    <2> QED BY <1>2, <2>3
  <1>5. CASE Head(q).what = "state"
    <2>1. 1 \in States(q)
      BY <1>1, <1>5 DEF States
    <2>2. q[1].revision = low + 1
      BY <1>2, <2>1 DEF Climbs
    <2>3. States(t) = {} => low + 1 = high
      <3>1. States(t) = {} => \A j \in States(q) : j <= 1
        BY <1>2
      <3> QED BY <2>1, <2>2, <3>1 DEF Climbs
    <2>4. ASSUME NEW i \in States(t), \A j \in States(t) : i <= j
          PROVE  t[i].revision = (low + 1) + 1
      <3>1. \A j \in States(q) : j <= 1 \/ i + 1 <= j
        <4> TAKE j \in States(q)
        <4>1. CASE j = 1
          BY <4>1
        <4>2. CASE j # 1
          <5>1. i <= j - 1
            BY <1>2, <2>4, <4>2
          <5> QED BY <1>2, <2>4, <5>1
        <4> QED BY <4>1, <4>2
      <3>2. i + 1 \in States(q) /\ 1 < i + 1
        BY <1>2
      <3>3. q[i + 1].revision = q[1].revision + 1
        BY <2>1, <3>1, <3>2 DEF Climbs
      <3> QED BY <1>2, <2>2, <3>3
    <2>5. Climbs(t, low + 1, high)
      BY <1>3, <1>4, <2>3, <2>4 DEF Climbs
    <2> QED BY <1>1, <1>5, <2>2, <2>5 DEF t
  <1>6. CASE Head(q).what # "state"
    <2>1. 1 \notin States(q)
      BY <1>1, <1>6 DEF States
    <2>2. States(t) = {} => low = high
      BY <1>2, <2>1 DEF Climbs
    <2>3. ASSUME NEW i \in States(t), \A j \in States(t) : i <= j
          PROVE  t[i].revision = low + 1
      <3>1. \A j \in States(q) : i + 1 <= j
        <4> TAKE j \in States(q)
        <4>1. i <= j - 1
          BY <1>2, <2>1, <2>3
        <4> QED BY <1>2, <2>3, <4>1
      <3>2. i + 1 \in States(q)
        BY <1>2
      <3>3. q[i + 1].revision = low + 1
        BY <3>1, <3>2 DEF Climbs
      <3> QED BY <1>2, <3>3
    <2>4. Climbs(t, low, high)
      BY <1>3, <1>4, <2>2, <2>3 DEF Climbs
    <2> QED BY <1>6, <2>4 DEF t
  <1> QED BY <1>5, <1>6

LEMMA EvenOdd ==
    ASSUME NEW a \in Int
    PROVE  /\ (2 * a) % 2 = 0
           /\ a % 2 = 1 => (a + 1) % 2 = 0 /\ (a + 2) % 2 = 1
           /\ a % 2 # 1 => a = 2 * (a \div 2)
  <1>4. ASSUME a % 2 # 1 PROVE a = 2 * (a \div 2)
    BY <1>4
  <1>1. (2 * a) % 2 = 0
    OBVIOUS
  <1>2. ASSUME a % 2 = 1 PROVE (a + 1) % 2 = 0
    BY <1>2
  <1>3. ASSUME a % 2 = 1 PROVE (a + 2) % 2 = 1
    BY <1>3
  <1> QED BY <1>1, <1>2, <1>3, <1>4

(* close publishes a snapshot before the end of each motion.               *)
LEMMA ClimbsShutdown ==
    ASSUME revision \in Nat, NEW jobs \in Seq(Commands)
    PROVE  Climbs(Shutdown(jobs), revision, revision + Len(jobs))
  <1> DEFINE q == Shutdown(jobs)
             n == Len(jobs)
  <1>1. n \in Nat /\ DOMAIN q = 1 .. 2 * n
    BY DEF Shutdown
  <1>2. \A i \in DOMAIN q : i % 2 = 1 =>
            q[i].what = "state" /\ q[i].revision = revision + (i + 1) \div 2
    BY DEF Shutdown, Snapshot
  <1>3. \A i \in DOMAIN q : i % 2 # 1 => q[i].what # "state"
    BY DEF Shutdown, Lifecycle
  <1> HIDE DEF q, n
  <1>4. /\ \A i \in States(q) : i \in 1 .. 2 * n /\ i % 2 = 1
                             /\ q[i].revision = revision + (i + 1) \div 2
        /\ \A i \in 1 .. 2 * n : i % 2 = 1 => i \in States(q)
    BY <1>1, <1>2, <1>3 DEF States
  <1>a. \A a \in Int : a % 2 = 1 => (a + 1) % 2 = 0 /\ (a + 2) % 2 = 1
    BY EvenOdd
  <1>5. ASSUME n = 0 PROVE Climbs(q, revision, revision + n)
    <2>1. \A i : i \notin States(q)
      BY <1>4, <1>5
    <2>2. revision + n = revision
      BY <1>5
    <2> QED BY <2>1, <2>2 DEF Climbs
  <1>6. ASSUME n # 0 PROVE Climbs(q, revision, revision + n)
    <2>1. 1 \in States(q) /\ 2 * n - 1 \in States(q)
      <3>1. 1 \in 1 .. 2 * n /\ 1 % 2 = 1 /\ 2 * n - 1 \in 1 .. 2 * n
            /\ (2 * n - 1) % 2 = 1
        BY <1>1, <1>6
      <3> QED BY <1>4, <3>1
    <2>2. ASSUME NEW i \in States(q), \A j \in States(q) : i <= j
          PROVE  q[i].revision = revision + 1
      <3>1. i = 1
        BY <1>4, <2>1, <2>2
      <3> QED BY <1>4, <3>1
    <2>3. ASSUME NEW i \in States(q), \A j \in States(q) : j <= i
          PROVE  q[i].revision = revision + n
      <3>1. 2 * n - 1 <= i /\ i <= 2 * n /\ i % 2 = 1 /\ i \in Int
        BY <1>4, <2>1, <2>3
      <3>2. i = 2 * n - 1
        <4>1. (2 * n) % 2 = 0
          BY <1>1, EvenOdd
        <4>2. i % 2 # (2 * n) % 2
          BY <3>1, <4>1
        <4>3. i # 2 * n
          BY <4>2
        <4> QED BY <1>1, <3>1, <4>3
      <3>3. (i + 1) \div 2 = n
        BY <1>1, <3>2
      <3> QED BY <1>4, <3>3
    <2>4. ASSUME NEW i \in States(q), NEW k \in States(q), i < k,
                 \A j \in States(q) : j <= i \/ k <= j
          PROVE  q[k].revision = q[i].revision + 1
      <3>1. i \in 1 .. 2 * n /\ k \in 1 .. 2 * n /\ i % 2 = 1 /\ k % 2 = 1
        BY <1>4
      <3>7. (i + 1) % 2 = 0 /\ (i + 2) % 2 = 1
        BY <1>a, <3>1
      <3>8. k # i + 1
        BY <3>1, <3>7
      <3>2. i + 2 \in 1 .. 2 * n /\ (i + 2) % 2 = 1
        BY <1>1, <2>4, <3>1, <3>7, <3>8
      <3>3. k <= i + 2
        BY <1>4, <2>4, <3>1, <3>2
      <3>4. k = i + 2
        BY <2>4, <3>1, <3>3, <3>8
      <3>5. (k + 1) \div 2 = (i + 1) \div 2 + 1
        BY <3>1, <3>4
      <3>6. (i + 1) \div 2 \in Int
        BY <3>1
      <3>9. /\ q[k].revision = revision + (k + 1) \div 2
            /\ q[i].revision = revision + (i + 1) \div 2
        BY <1>4
      <3>10. revision + ((i + 1) \div 2 + 1) = (revision + (i + 1) \div 2) + 1
        BY <3>6
      <3> QED BY <3>5, <3>9, <3>10
    <2> QED BY <2>1, <2>2, <2>3, <2>4 DEF Climbs
  <1> QED BY <1>5, <1>6 DEF q, n

LEMMA EventKinds ==
    /\ \A c, what : /\ Lifecycle(c, what).what = what
                    /\ Lifecycle(c, what).command = c
    /\ \A n : Snapshot(n).what = "state" /\ Snapshot(n).revision = n
    /\ \A what \in Told : what # "state"
  BY DEF Lifecycle, Snapshot

LEMMA InOrderInit == Init => InOrder
  BY ClimbsEmpty DEF Init, InOrder, Pending

(* When code runs that may publish, nothing is being published.            *)
LEMMA NothingPending ==
    ASSUME TypeInv, InOrder, subscribers = "prompt",
           Quiet \/ worker = "popping"
    PROVE  emissions = <<>> /\ direct = <<>> /\ heard = revision
  BY ClimbsEmpty DEF Quiet, InOrder, Pending

(* A task begins to publish.                                               *)
LEMMA InOrderNew ==
    ASSUME subscribers' = "prompt" => heard = revision /\ direct = <<>>,
           heard' = heard, direct' = direct, worker' # "popping",
           NEW g, emissions' = Append(<<>>, g),
           Climbs(g.events, revision, revision')
    PROVE  InOrder'
  <1>1. /\ Append(<<>>, g) = <<g>> /\ <<g>> # <<>>
        /\ Head(<<g>>) = g /\ Len(<<g>>) = 1
    OBVIOUS
  <1> QED BY <1>1 DEF InOrder, Pending

LEMMA InOrderQueued ==
    ASSUME TypeInv, InOrder, NEW c \in Commands, Enqueue(c) \/ EnqueueRest(c)
    PROVE  InOrder'
  <1> SUFFICES ASSUME subscribers' = "prompt" PROVE InOrder'
    BY DEF InOrder
  <1>1. /\ subscribers = "prompt" /\ Quiet /\ revision \in Nat
        /\ waiting \in Seq(Commands)
    BY DEF Enqueue, EnqueueRest, Spend, TypeInv, TypeOK
  <1>2. PICK jobs \in Seq(Commands), intr \in BOOLEAN : Queued(c, jobs, intr)
    <2>1. <<>> \in Seq(Commands) /\ (current # None /\ ~IsRest(current)) \in BOOLEAN
      OBVIOUS
    <2> QED BY <1>1, <2>1 DEF Enqueue, EnqueueRest
  <1> DEFINE q == <<Lifecycle(c, "accepted"), Snapshot(revision + 1)>>
                    \o [i \in DOMAIN jobs |-> Lifecycle(jobs[i], "cancelled")]
  <1>3. q \in Seq(Event)
    BY <1>1, AcceptanceEvents
  <1>4. 2 \in DOMAIN q /\ States(q) = {2} /\ q[2].revision = revision + 1
    <2> DEFINE told == [i \in DOMAIN jobs |-> Lifecycle(jobs[i], "cancelled")]
               first == <<Lifecycle(c, "accepted"), Snapshot(revision + 1)>>
    <2>1. /\ told \in Seq(Event) /\ \A i \in DOMAIN told : told[i].what # "state"
      <3>1. DOMAIN jobs = 1 .. Len(jobs) /\ Len(jobs) \in Nat
        BY LenProperties
      <3>2. told \in [1 .. Len(jobs) -> Event]
        BY <3>1, LifecycleIsEvent
      <3> QED BY <3>1, <3>2, SeqOfFunction DEF Lifecycle
    <2>2. /\ first \in Seq(Event) /\ first[1].what # "state"
          /\ first[2].what = "state" /\ first[2].revision = revision + 1
          /\ Len(first) = 2
      <3>1. /\ Lifecycle(c, "accepted") \in Event
            /\ Snapshot(revision + 1) \in Event
        BY <1>1, LifecycleIsEvent, SnapshotIsEvent
      <3>2. first[1] = Lifecycle(c, "accepted") /\ first[2] = Snapshot(revision + 1)
        OBVIOUS
      <3>3. Len(first) = 2 /\ first \in Seq(Event)
        BY <3>1
      <3> HIDE DEF first
      <3> QED BY <3>2, <3>3, EventKinds
    <2> HIDE DEF told, first
    <2>a. /\ Len(first \o told) = 2 + Len(told) /\ Len(told) \in Nat
          /\ first \o told \in Seq(Event)
          /\ \A i \in 1 .. 2 + Len(told) :
               (first \o told)[i] = IF i <= 2 THEN first[i] ELSE told[i - 2]
      <3>1. Len(told) \in Nat /\ first \in Seq(Event) /\ told \in Seq(Event)
        BY <2>1, <2>2
      <3>2. /\ first \o told \in Seq(Event)
            /\ Len(first \o told) = 2 + Len(told)
            /\ \A i \in 1 .. Len(first) + Len(told) :
                 (first \o told)[i] = IF i <= Len(first) THEN first[i]
                                      ELSE told[i - Len(first)]
        <4>1. /\ first \o told \in Seq(Event)
              /\ Len(first \o told) = Len(first) + Len(told)
              /\ \A i \in 1 .. Len(first) + Len(told) :
                   (first \o told)[i] = IF i <= Len(first) THEN first[i]
                                        ELSE told[i - Len(first)]
          BY <3>1, ConcatProperties
        <4> QED BY <2>2, <4>1
      <3> QED BY <2>2, <3>1, <3>2
    <2>3. \A i \in DOMAIN (first \o told) :
            \/ i = 1 /\ (first \o told)[i] = first[1]
            \/ i = 2 /\ (first \o told)[i] = first[2]
            \/ i - 2 \in DOMAIN told /\ (first \o told)[i] = told[i - 2]
      BY <2>1, <2>2, <2>a
    <2>4. 2 \in DOMAIN (first \o told) /\ (first \o told)[2] = first[2]
      BY <2>1, <2>2, <2>a
    <2>5. States(first \o told) = {2} /\ (first \o told)[2].revision = revision + 1
      BY <2>1, <2>2, <2>3, <2>4 DEF States
    <2> QED BY <2>4, <2>5 DEF told, first
  <1>5. PICK g : emissions' = Append(emissions, g) /\ g.events = q
    <2>1. Group("enqueue", c, intr, q).events = q
      BY DEF Group
    <2>2. emissions' = Append(emissions, Group("enqueue", c, intr, q))
      BY <1>2 DEF Queued
    <2> QED BY <2>1, <2>2
  <1> HIDE DEF q
  <1>6. Climbs(q, revision, revision + 1)
    BY <1>1, <1>3, <1>4, ClimbsOne
  <1>7. /\ revision' = revision + 1 /\ heard' = heard /\ direct' = direct
        /\ worker' = worker
    BY <1>2 DEF Queued
  <1> QED BY <1>1, <1>5, <1>6, <1>7, NothingPending, InOrderNew DEF Quiet

(* The worker publishes one snapshot with one event of its motion.         *)
LEMMA ClimbsPair ==
    ASSUME revision \in Nat, NEW c \in Commands, NEW what \in Told
    PROVE  /\ Climbs(<<Lifecycle(c, what), Snapshot(revision + 1)>>,
                     revision, revision + 1)
           /\ Climbs(<<Snapshot(revision + 1), Lifecycle(c, what)>>,
                     revision, revision + 1)
           /\ Climbs(<<Snapshot(revision + 1)>>, revision, revision + 1)
  <1> DEFINE l == Lifecycle(c, what)
             s == Snapshot(revision + 1)
  <1>1. /\ l \in Event /\ s \in Event /\ l.what # "state" /\ s.what = "state"
        /\ s.revision = revision + 1
    <2>1. revision + 1 \in Nat
      OBVIOUS
    <2> QED BY <2>1, LifecycleIsEvent, SnapshotIsEvent, EventKinds
  <1> HIDE DEF l, s
  <1>2. /\ States(<<l, s>>) = {2} /\ States(<<s, l>>) = {1}
        /\ States(<<s>>) = {1}
    BY <1>1 DEF States
  <1>3. /\ 2 \in DOMAIN <<l, s>> /\ <<l, s>> \in Seq(Event)
        /\ 1 \in DOMAIN <<s, l>> /\ <<s, l>> \in Seq(Event)
        /\ 1 \in DOMAIN <<s>> /\ <<s>> \in Seq(Event)
    BY <1>1
  <1>4. <<l, s>>[2] = s /\ <<s, l>>[1] = s /\ <<s>>[1] = s
    OBVIOUS
  <1>5. /\ Climbs(<<l, s>>, revision, revision + 1)
        /\ Climbs(<<s, l>>, revision, revision + 1)
        /\ Climbs(<<s>>, revision, revision + 1)
    BY <1>1, <1>2, <1>3, <1>4, ClimbsOne
  <1> QED BY <1>5 DEF l, s

LEMMA InOrderWorker ==
    ASSUME TypeInv, InOrder,
           Pop \/ JobReady \/ Move \/ Preempted \/ ClockFails \/ Complete
    PROVE  InOrder'
  <1> SUFFICES ASSUME subscribers' = "prompt" PROVE InOrder'
    BY DEF InOrder
  <1>1. /\ subscribers = "prompt" /\ revision \in Nat
        /\ waiting \in Seq(Commands)
        /\ worker \in Running => current \in Commands
        /\ heard' = heard /\ direct' = direct
    BY DEF Pop, JobReady, Move, Preempted, ClockFails, Complete, Spend, TypeInv,
           TypeOK, WorkerHoldsJob
  <1>2. CASE Pop /\ worker' = "ready"
    <2>1. UNCHANGED <<emissions, revision>>
      BY <1>2 DEF Pop, StartJob
    <2> QED BY <1>1, <1>2, <2>1 DEF InOrder, Pending
  <1>3. CASE ~(Pop /\ worker' = "ready")
    <2> DEFINE s == Snapshot(revision + 1)
    <2>1. PICK q, g : /\ emissions' = Append(q, g)
                      /\ \E c \in Commands, what \in Told :
                           g.events \in {<<Lifecycle(c, what), s>>,
                                        <<s, Lifecycle(c, what)>>}
                      /\ revision' = revision + 1
                      /\ worker' \in {"starting", "moving", "finishing"}
                      /\ \/ q = emissions /\ (Quiet \/ worker = "popping")
                         \/ Complete /\ q = Tail(emissions)
      <3>1. ASSUME NEW c \in Commands, NEW rest, StartJob(c, rest),
                   Quiet \/ worker = "popping"
            PROVE  \E g : /\ emissions' = Append(emissions, g)
                          /\ g.events = <<Lifecycle(c, "started"), s>>
                          /\ revision' = revision + 1 /\ worker' = "starting"
        BY <3>1 DEF StartJob, Group
      <3>2. ASSUME NEW q, NEW what, Finish(current, what, q)
            PROVE  \E g : /\ emissions' = Append(q, g)
                          /\ g.events = <<s, Lifecycle(current, what)>>
                          /\ revision' = revision + 1 /\ worker' = "finishing"
        <4> DEFINE g == Group("worker", current, what = "cancelled",
                              <<s, Lifecycle(current, what)>>)
        <4>1. /\ emissions' = Append(q, g)
              /\ revision' = revision + 1 /\ worker' = "finishing"
          BY <3>2 DEF Finish
        <4>2. g.events = <<s, Lifecycle(current, what)>>
          BY DEF Group
        <4> HIDE DEF g
        <4> QED BY <4>1, <4>2
      <3> HIDE DEF s
      <3>3. CASE Pop
        <4>1. /\ waiting # <<>> /\ (Quiet \/ worker = "popping")
              /\ StartJob(Head(waiting), Tail(waiting))
          BY <1>3, <3>3 DEF Pop
        <4>2. Head(waiting) \in Commands
          BY <1>1, <4>1
        <4>3. PICK g : /\ emissions' = Append(emissions, g)
                       /\ g.events = <<Lifecycle(Head(waiting), "started"), s>>
                       /\ revision' = revision + 1 /\ worker' = "starting"
          BY <3>1, <4>1, <4>2
        <4>4. "started" \in Told
          OBVIOUS
        <4> QED BY <4>1, <4>2, <4>3, <4>4
      <3>4. CASE JobReady
        <4>1. Quiet /\ current \in Commands /\ StartJob(current, waiting)
          BY <1>1, <3>4 DEF JobReady, Running
        <4>2. PICK g : /\ emissions' = Append(emissions, g)
                       /\ g.events = <<Lifecycle(current, "started"), s>>
                       /\ revision' = revision + 1 /\ worker' = "starting"
          BY <3>1, <4>1
        <4>3. "started" \in Told
          OBVIOUS
        <4> QED BY <4>1, <4>2, <4>3
      <3>5. CASE Move
        <4> DEFINE g == Group("worker", current, FALSE,
                              <<Lifecycle(current, "progress"), s>>)
        <4>1. /\ Quiet /\ current \in Commands
              /\ emissions' = Append(emissions, g)
              /\ revision' = revision + 1 /\ worker' = "moving"
          BY <1>1, <3>5 DEF Move, Running, s
        <4>2. g.events = <<Lifecycle(current, "progress"), s>>
          BY DEF Group
        <4> HIDE DEF g
        <4> QED BY <4>1, <4>2
      <3>6. CASE Preempted \/ ClockFails
        <4>1. PICK what \in {"cancelled", "failed"} :
                  /\ Quiet /\ current \in Commands
                  /\ Finish(current, what, emissions)
          BY <1>1, <3>6 DEF Preempted, ClockFails, Running
        <4>2. PICK g : /\ emissions' = Append(emissions, g)
                       /\ g.events = <<s, Lifecycle(current, what)>>
                       /\ revision' = revision + 1 /\ worker' = "finishing"
          BY <3>2, <4>1
        <4>3. what \in Told
          OBVIOUS
        <4> QED BY <4>1, <4>2, <4>3
      <3>7. CASE Complete
        <4>1. /\ current \in Commands
              /\ Finish(current, "completed", Tail(emissions))
          BY <1>1, <3>7 DEF Complete, Running
        <4>2. PICK g : /\ emissions' = Append(Tail(emissions), g)
                       /\ g.events = <<s, Lifecycle(current, "completed")>>
                       /\ revision' = revision + 1 /\ worker' = "finishing"
          BY <3>2, <4>1
        <4>3. "completed" \in Told
          OBVIOUS
        <4> QED BY <3>7, <4>1, <4>2, <4>3
      <3> QED BY <3>3, <3>4, <3>5, <3>6, <3>7
    <2>2. q = <<>> /\ direct = <<>> /\ heard = revision
      <3>1. CASE Quiet \/ worker = "popping"
        <4>1. ~Complete
          BY <1>1, <3>1, NothingPending DEF Complete, Delivered
        <4> QED BY <1>1, <2>1, <3>1, <4>1, NothingPending
      <3>2. CASE Complete /\ q = Tail(emissions)
        <4>1. /\ emissions # <<>> /\ Head(emissions).events = <<>>
              /\ Len(emissions) <= 1 /\ emissions \in Seq(Groups)
              /\ direct = <<>> /\ Climbs(Pending, heard, revision)
          BY <1>1, <3>2 DEF Complete, Delivered, InOrder, TypeInv, TypeOK
        <4>2. Tail(emissions) = <<>>
          BY <4>1
        <4> QED BY <3>2, <4>1, <4>2, ClimbsEmpty DEF Pending
      <3> QED BY <2>1, <3>1, <3>2
    <2>3. Climbs(g.events, revision, revision + 1)
      <3>1. PICK c \in Commands, what \in Told :
              g.events \in {<<Lifecycle(c, what), s>>, <<s, Lifecycle(c, what)>>}
        BY <2>1
      <3>2. /\ Climbs(<<Lifecycle(c, what), s>>, revision, revision + 1)
            /\ Climbs(<<s, Lifecycle(c, what)>>, revision, revision + 1)
        BY <1>1, ClimbsPair
      <3> QED BY <3>1, <3>2
    <2> QED BY <1>1, <2>1, <2>2, <2>3, InOrderNew
  <1> QED BY <1>2, <1>3

LEMMA InOrderDirect ==
    ASSUME TypeInv, InOrder, Immediate \/ DeliverDirect
    PROVE  InOrder' /\ (subscribers = "prompt" /\ heard' # heard =>
                            heard' = heard + 1)
  <1> SUFFICES ASSUME subscribers = "prompt"
               PROVE  InOrder' /\ (heard' # heard => heard' = heard + 1)
    BY DEF InOrder, Immediate, DeliverDirect, Spend
  <1>1. /\ revision \in Nat /\ heard \in Nat /\ direct \in Seq(Event)
        /\ emissions' = emissions /\ worker' = worker
    BY DEF Immediate, DeliverDirect, TypeInv, TypeOK
  <1>2. CASE Immediate
    <2>1. /\ emissions = <<>> /\ direct = <<>> /\ heard = revision
          /\ worker # "popping"
      BY <1>2, NothingPending DEF Immediate, Quiet
    <2>2. /\ direct' = <<Snapshot(revision + 1)>> /\ heard' = heard
          /\ revision' = revision + 1
      BY <1>2, <2>1 DEF Immediate
    <2>3. Climbs(<<Snapshot(revision + 1)>>, revision, revision + 1)
      <3> DEFINE s == Snapshot(revision + 1)
      <3>1. s \in Event /\ s.what = "state" /\ s.revision = revision + 1
        BY <1>1, SnapshotIsEvent, EventKinds
      <3> HIDE DEF s
      <3>2. 1 \in DOMAIN <<s>> /\ <<s>> \in Seq(Event) /\ <<s>>[1] = s
            /\ States(<<s>>) = {1}
        BY <3>1 DEF States
      <3>3. Climbs(<<s>>, revision, revision + 1)
        BY <1>1, <3>1, <3>2, ClimbsOne
      <3> QED BY <3>3 DEF s
    <2> QED BY <1>1, <2>1, <2>2, <2>3 DEF InOrder, Pending
  <1>3. CASE DeliverDirect
    <2>1. /\ direct # <<>> /\ Hear(Head(direct)) /\ direct' = Tail(direct)
          /\ revision' = revision
      BY <1>3 DEF DeliverDirect
    <2>2. emissions = <<>> /\ worker # "popping" /\ Climbs(direct, heard, revision)
      BY <2>1 DEF InOrder, Pending
    <2>3. IF Head(direct).what = "state"
            THEN Head(direct).revision = heard + 1
                 /\ Climbs(Tail(direct), heard + 1, revision)
            ELSE Climbs(Tail(direct), heard, revision)
      BY <1>1, <2>1, <2>2, ClimbsTail
    <2>4. /\ Climbs(direct', heard', revision')
          /\ heard' # heard => heard' = heard + 1
      BY <2>1, <2>3 DEF Hear
    <2> QED BY <1>1, <2>2, <2>4 DEF InOrder, Pending
  <1> QED BY <1>2, <1>3

LEMMA InOrderDeliver ==
    ASSUME TypeInv, InOrder, Deliver
    PROVE  InOrder' /\ (subscribers = "prompt" /\ heard' # heard =>
                            heard' = heard + 1)
  <1> SUFFICES ASSUME subscribers = "prompt"
               PROVE  InOrder' /\ (heard' # heard => heard' = heard + 1)
    BY DEF InOrder, Deliver
  <1> DEFINE q == Head(emissions).events
             h == [Head(emissions) EXCEPT !.events = Tail(q)]
  <1>1. /\ emissions # <<>> /\ q # <<>> /\ Hear(Head(q))
        /\ emissions' = <<h>> \o Tail(emissions)
        /\ direct' = direct /\ revision' = revision /\ worker' = worker
    BY DEF Deliver
  <1>2. /\ emissions \in Seq(Groups) /\ Len(emissions) <= 1 /\ direct = <<>>
        /\ Climbs(q, heard, revision) /\ worker # "popping"
        /\ heard \in Nat /\ revision \in Nat
    BY <1>1 DEF InOrder, Pending, TypeInv, TypeOK
  <1>3. q \in Seq(Event) /\ h.events = Tail(q)
    <2>1. Head(emissions) \in Groups
      BY <1>1, <1>2
    <2> QED BY <2>1, HeadGroup, <1>1 DEF Groups
  <1> HIDE DEF q, h
  <1>4. emissions' # <<>> /\ Len(emissions') = 1 /\ Head(emissions') = h
    <2>1. Tail(emissions) = <<>>
      BY <1>1, <1>2
    <2>2. <<h>> \in Seq({h}) /\ <<h>> # <<>> /\ Len(<<h>>) = 1 /\ Head(<<h>>) = h
      OBVIOUS
    <2>3. <<h>> \o <<>> = <<h>>
      BY <2>2, ConcatEmptySeq
    <2> QED BY <1>1, <2>1, <2>2, <2>3
  <1>5. IF Head(q).what = "state"
          THEN Head(q).revision = heard + 1 /\ Climbs(Tail(q), heard + 1, revision)
          ELSE Climbs(Tail(q), heard, revision)
    BY <1>1, <1>2, <1>3, ClimbsTail
  <1>6. Climbs(h.events, heard', revision) /\ (heard' # heard => heard' = heard + 1)
    BY <1>1, <1>3, <1>5 DEF Hear
  <1> QED BY <1>1, <1>2, <1>4, <1>6 DEF InOrder, Pending

LEMMA InOrderStep ==
    ASSUME TypeInv, InOrder, [Next]_vars
    PROVE  InOrder' /\ (subscribers = "prompt" /\ heard' # heard =>
                            heard' = heard + 1)
  <1>1. ASSUME NEW c \in Commands, Enqueue(c) \/ EnqueueRest(c)
        PROVE  heard' = heard
    BY <1>1 DEF Enqueue, EnqueueRest, Queued
  <1>2. CASE Pop \/ JobReady \/ Move \/ Preempted \/ ClockFails \/ Complete
    <2>1. heard' = heard
      BY <1>2 DEF Pop, JobReady, Move, Preempted, ClockFails, Complete
    <2> QED BY <1>2, <2>1, InOrderWorker
  <1>3. CASE \/ (\E c \in Commands : Refuse(c)) \/ TimerFires \/ Settled
             \/ UNCHANGED vars
    <2>1. /\ UNCHANGED <<emissions, direct, heard, revision, subscribers>>
          /\ worker' = worker \/ worker' = "slept"
      BY <1>3 DEF Refuse, TimerFires, Settled, Spend
    <2> QED BY <2>1 DEF InOrder, Pending
  <1>4. CASE Announced \/ NextStep \/ Finished \/ EndClose
    <2>1. /\ emissions # <<>> /\ Head(emissions).events = <<>>
          /\ emissions' = Tail(emissions) /\ emissions \in Seq(Groups)
          /\ UNCHANGED <<direct, heard, revision, subscribers>>
      BY <1>4 DEF Announced, NextStep, Finished, EndClose, Delivered, TypeInv,
                  TypeOK
    <2>2. CASE subscribers = "prompt"
      <3>1. /\ Len(emissions) <= 1 /\ direct = <<>> /\ heard = revision
        BY <2>1, <2>2, ClimbsEmpty DEF InOrder, Pending
      <3>2. emissions' = <<>>
        BY <2>1, <3>1
      <3> QED BY <2>1, <3>1, <3>2, ClimbsEmpty DEF InOrder, Pending
    <2> QED BY <2>1, <2>2 DEF InOrder
  <1>5. CASE BeginClose
    <2>1. UNCHANGED <<direct, heard, revision, subscribers>> /\ worker' = "dead"
      BY <1>5 DEF BeginClose
    <2>2. CASE subscribers = "prompt"
      <3>1. emissions = <<>> /\ direct = <<>> /\ heard = revision
        BY <1>5, <2>2, NothingPending DEF BeginClose
      <3>2. WorkerGroups = {}
        BY <3>1 DEF WorkerGroups
      <3>3. emissions' = <<>>
        BY <1>5, <3>1, <3>2 DEF BeginClose
      <3> QED BY <2>1, <3>1, <3>3, ClimbsEmpty DEF InOrder, Pending
    <2> QED BY <2>1, <2>2 DEF InOrder
  <1>6. CASE DrainClose
    <2>1. /\ heard' = heard /\ direct' = direct /\ subscribers' = subscribers
          /\ worker' = worker /\ Quiet /\ revision \in Nat
          /\ revision' = revision + Len(Unfinished)
          /\ Unfinished \in Seq(Commands)
      <3>1. Unfinished \in Seq(Commands)
        <4>1. /\ waiting \in Seq(Commands) /\ accepted \subseteq Commands
          BY DEF TypeInv, TypeOK
        <4>2. (IF current \in accepted THEN <<current>> ELSE <<>>) \in Seq(Commands)
          BY <4>1
        <4> QED BY <4>1, <4>2, ConcatProperties DEF Unfinished
      <3> QED BY <1>6, <3>1 DEF DrainClose, TypeInv, TypeOK
    <2>2. CASE subscribers = "prompt"
      <3> DEFINE g == Group("close", None, FALSE, Shutdown(Unfinished))
      <3>1. g.events = Shutdown(Unfinished)
        BY DEF Group
      <3>2. emissions = <<>> /\ direct = <<>> /\ heard = revision
        BY <2>1, <2>2, NothingPending
      <3>3. emissions' = Append(<<>>, g)
        BY <1>6, <3>2 DEF DrainClose
      <3> HIDE DEF g
      <3>4. Climbs(g.events, revision, revision')
        BY <2>1, <3>1, ClimbsShutdown
      <3> QED BY <2>1, <3>2, <3>3, <3>4, InOrderNew DEF Quiet
    <2> QED BY <2>1, <2>2 DEF InOrder
  <1> QED BY <1>1, <1>2, <1>3, <1>4, <1>5, <1>6, InOrderQueued, InOrderDirect,
          InOrderDeliver DEF Next, Submit, Worker, Emission, Close

(* With subscribers that return at once, complete snapshots are heard in   *)
(* the order of their revisions and none is skipped, whoever changed the   *)
(* device and although immediate commands do not queue with the motions.   *)
THEOREM RevisionsAreHeard == Spec => RevisionsInOrder
  <1>1. TypeInv /\ InOrder /\ [Next]_vars =>
            [subscribers = "prompt" /\ heard' # heard => heard' = heard + 1]_vars
    BY InOrderStep
  <1>2. TypeInv /\ InOrder /\ [Next]_vars => InOrder'
    BY InOrderStep
  <1>3. Spec => []TypeInv
    BY TypeInvariant
  <1> QED BY <1>1, <1>2, <1>3, InOrderInit, PTL DEF Spec, RevisionsInOrder

-----------------------------------------------------------------------------
(* The queue implements the lifecycle contract                             *)

(* Of each command there is a story: what was heard of it last, and then,  *)
(* in the order in which it will be published, what each group that waits  *)
(* for _event_lock, or has it, has still to say.  The invariant is that    *)
(* every two consecutive words of it may follow each other, that its last  *)
(* word fits where the queue has the command, and that the worker, if it   *)
(* speaks, has the last word on its job.  It needs no assumption on the    *)
(* subscribers: if they suspend their publisher, several groups wait.      *)

(* The contract's steps: b may be told after a.                            *)
Owed == Lifecycles!Owed
Ended == {"none"} \union Lifecycles!Ended

Follows(a, b) ==
    \/ a \in Ended /\ b = "accepted"
    \/ a = "accepted" /\ b = "started"
    \/ a \in {"started", "progress"} /\ b \in {"progress", "failed"}
    \/ a = "progress" /\ b = "completed"
    \/ a \in Owed /\ b \in {"cancelled", "shutdown"}

(* What a command that the worker holds was last told, when the worker     *)
(* stands at this point.                                                   *)
Stage(at) ==
    CASE at = "ready" -> {"accepted"}
      [] at = "starting" -> {"started"}
      [] at \in {"sleeping", "slept"} -> {"started", "progress"}
      [] at = "moving" -> {"progress"}
      [] OTHER -> Owed

LEMMA StageIs ==
    /\ \A at : Stage(at) \subseteq Owed
    /\ Stage("ready") = {"accepted"} /\ Stage("starting") = {"started"}
    /\ Stage("sleeping") = {"started", "progress"}
    /\ Stage("slept") = {"started", "progress"}
    /\ Stage("moving") = {"progress"} /\ Stage("dead") = Owed
    /\ Stage("finishing") = Owed
  BY DEF Stage, Owed, Lifecycles!Owed

(* What an acceptance publishes, event by event.                           *)
Acceptance(c, n, jobs) ==
    <<Lifecycle(c, "accepted"), Snapshot(n)>>
        \o [i \in DOMAIN jobs |-> Lifecycle(jobs[i], "cancelled")]

Accepts(q, c, n, jobs) ==
    /\ q \in Seq(Event) /\ 1 \in DOMAIN q
    /\ q[1] = Lifecycle(c, "accepted")
    /\ \A i \in DOMAIN q : \/ i = 1
                           \/ i = 2 /\ q[i] = Snapshot(n)
                           \/ /\ i # 1 /\ i - 2 \in DOMAIN jobs
                              /\ q[i] = Lifecycle(jobs[i - 2], "cancelled")
    /\ \A k \in DOMAIN jobs : /\ k + 2 \in DOMAIN q
                              /\ q[k + 2] = Lifecycle(jobs[k], "cancelled")

LEMMA AcceptanceSays ==
    ASSUME NEW c \in Commands, NEW n \in Nat, NEW jobs \in Seq(Commands)
    PROVE  Accepts(Acceptance(c, n, jobs), c, n, jobs)
  <1> DEFINE a == Lifecycle(c, "accepted")
             s == Snapshot(n)
             first == <<a, s>>
             told == [i \in DOMAIN jobs |-> Lifecycle(jobs[i], "cancelled")]
             q == first \o told
  <1>1. /\ a \in Event /\ s \in Event
        /\ DOMAIN jobs = 1 .. Len(jobs) /\ Len(jobs) \in Nat
    BY LifecycleIsEvent, SnapshotIsEvent
  <1>2. told \in Seq(Event) /\ Len(told) = Len(jobs)
    <2>1. told \in [1 .. Len(jobs) -> Event]
      BY <1>1, LifecycleIsEvent
    <2> QED BY <1>1, <2>1, SeqOfFunction
  <1>3. \A i \in DOMAIN jobs : told[i] = Lifecycle(jobs[i], "cancelled")
    OBVIOUS
  <1>4. q = first \o told
    OBVIOUS
  <1> HIDE DEF a, s, told, q
  <1>5. first \in Seq(Event) /\ Len(first) = 2 /\ first[1] = a /\ first[2] = s
    BY <1>1
  <1> HIDE DEF first
  <1>6. /\ q \in Seq(Event) /\ Len(q) = 2 + Len(jobs)
        /\ \A i \in 1 .. 2 + Len(jobs) :
             q[i] = IF i <= 2 THEN first[i] ELSE told[i - 2]
    <2>1. /\ first \o told \in Seq(Event)
          /\ Len(first \o told) = Len(first) + Len(told)
          /\ \A i \in 1 .. Len(first) + Len(told) :
               (first \o told)[i] = IF i <= Len(first) THEN first[i]
                                    ELSE told[i - Len(first)]
      <3>1. first \in Seq(Event) /\ told \in Seq(Event)
        BY <1>2, <1>5
      <3> QED BY <3>1, ConcatProperties
    <2> QED BY <1>2, <1>4, <1>5, <2>1
  <1>7. DOMAIN q = 1 .. 2 + Len(jobs)
    BY <1>6
  <1>8. ASSUME NEW i \in DOMAIN q
        PROVE  \/ i = 1
               \/ i = 2 /\ q[i] = s
               \/ /\ i # 1 /\ i - 2 \in DOMAIN jobs
                  /\ q[i] = Lifecycle(jobs[i - 2], "cancelled")
    <2>1. CASE i <= 2
      BY <1>1, <1>5, <1>6, <1>7, <2>1
    <2>2. CASE ~(i <= 2)
      <3>1. i - 2 \in DOMAIN jobs /\ i # 1
        BY <1>1, <1>7, <2>2
      <3> QED BY <1>3, <1>6, <1>7, <2>2, <3>1
    <2> QED BY <2>1, <2>2
  <1>9. ASSUME NEW k \in DOMAIN jobs
        PROVE  k + 2 \in DOMAIN q /\ q[k + 2] = Lifecycle(jobs[k], "cancelled")
    <2>1. k + 2 \in 1 .. 2 + Len(jobs) /\ ~(k + 2 <= 2) /\ (k + 2) - 2 = k
      BY <1>1
    <2>2. q[k + 2] = told[(k + 2) - 2]
      BY <1>6, <2>1
    <2> QED BY <1>3, <1>7, <2>1, <2>2
  <1>10. 1 \in DOMAIN q /\ q[1] = a
    BY <1>1, <1>5, <1>6, <1>7
  <1>11. /\ q \in Seq(Event) /\ 1 \in DOMAIN q /\ q[1] = a
         /\ \A i \in DOMAIN q : \/ i = 1
                                \/ i = 2 /\ q[i] = s
                                \/ /\ i # 1 /\ i - 2 \in DOMAIN jobs
                                   /\ q[i] = Lifecycle(jobs[i - 2], "cancelled")
         /\ \A k \in DOMAIN jobs :
                /\ k + 2 \in DOMAIN q
                /\ q[k + 2] = Lifecycle(jobs[k], "cancelled")
    BY <1>6, <1>8, <1>9, <1>10
  <1>12. Acceptance(c, n, jobs) = q
    BY DEF Acceptance, a, s, q, first, told
  <1> QED BY <1>11, <1>12 DEF Accepts, a, s

(* What close publishes, event by event.                                   *)
LEMMA ShutdownSays ==
    ASSUME revision \in Nat, NEW jobs \in Seq(Commands), NEW q, q = Shutdown(jobs)
    PROVE  /\ q \in Seq(Event)
           /\ \A i \in DOMAIN q : \/ q[i].command = None
                                  \/ /\ i \div 2 \in DOMAIN jobs /\ i = 2 * (i \div 2)
                                     /\ q[i] = Lifecycle(jobs[i \div 2], "shutdown")
           /\ \A k \in DOMAIN jobs :
                  /\ 2 * k \in DOMAIN q
                  /\ q[2 * k] = Lifecycle(jobs[k], "shutdown")
  <1>1. /\ q \in Seq(Event) /\ DOMAIN q = 1 .. 2 * Len(jobs)
        /\ DOMAIN jobs = 1 .. Len(jobs) /\ Len(jobs) \in Nat
    BY ShutdownEvents DEF Shutdown
  <1>2. \A i \in DOMAIN q : q[i] = IF i % 2 = 1
                                   THEN Snapshot(revision + (i + 1) \div 2)
                                   ELSE Lifecycle(jobs[i \div 2], "shutdown")
    BY DEF Shutdown
  <1>3. ASSUME NEW i \in DOMAIN q, i % 2 # 1
        PROVE  i \div 2 \in DOMAIN jobs /\ i = 2 * (i \div 2)
    <2>1. i \in 1 .. 2 * Len(jobs) /\ i \in Int
      BY <1>1
    <2>2. i = 2 * (i \div 2)
      BY <1>3, <2>1, EvenOdd
    <2>3. i \div 2 \in Int
      BY <2>1
    <2> QED BY <1>1, <2>1, <2>2, <2>3
  <1>4. ASSUME NEW k \in DOMAIN jobs
        PROVE  2 * k \in DOMAIN q /\ (2 * k) % 2 # 1 /\ (2 * k) \div 2 = k
    <2>1. k \in Int /\ 2 * k \in 1 .. 2 * Len(jobs)
      BY <1>1
    <2>2. (2 * k) % 2 = 0
      BY <2>1, EvenOdd
    <2>3. (2 * k) \div 2 = k
      BY <2>1
    <2> QED BY <1>1, <2>1, <2>2, <2>3
  <1>5. \A n : Snapshot(n).command = None
    BY DEF Snapshot
  <1> QED BY <1>1, <1>2, <1>3, <1>4, <1>5

(* Everything accepted is in Unfinished, once.                             *)
LEMMA UnfinishedIs ==
    ASSUME Books
    PROVE  /\ Unfinished \in Seq(Commands) /\ IsInjective(Unfinished)
           /\ ToSet(Unfinished) = accepted
  <1>1. /\ waiting \in Seq(Commands) /\ IsInjective(waiting)
        /\ accepted = Waiting \union Owing /\ current \notin Waiting
        /\ accepted \subseteq Commands
    BY DEF Books, TypeInv, TypeOK, Bookkeeping
  <1>2. CASE current \in accepted
    <2> DEFINE one == <<current>>
    <2>1. /\ one \in Seq(Commands) /\ Len(one) = 1 /\ one[1] = current
          /\ Unfinished = one \o waiting
      BY <1>1, <1>2 DEF Unfinished
    <2>2. accepted = Waiting \union {current}
      BY <1>1, <1>2, QueueAssumption DEF Owing
    <2> HIDE DEF one
    <2> DEFINE u == one \o waiting
    <2>3. /\ u \in Seq(Commands) /\ Len(u) = 1 + Len(waiting)
          /\ \A i \in 1 .. 1 + Len(waiting) :
               u[i] = IF i <= 1 THEN one[i] ELSE waiting[i - 1]
      <3>1. /\ one \o waiting \in Seq(Commands)
            /\ Len(one \o waiting) = Len(one) + Len(waiting)
            /\ \A i \in 1 .. Len(one) + Len(waiting) :
                 (one \o waiting)[i] = IF i <= Len(one) THEN one[i]
                                       ELSE waiting[i - Len(one)]
        <4>1. one \in Seq(Commands) /\ waiting \in Seq(Commands)
          BY <1>1, <2>1
        <4> QED BY <4>1, ConcatProperties
      <3> QED BY <2>1, <3>1
    <2> HIDE DEF u
    <2>4. /\ DOMAIN u = 1 .. 1 + Len(waiting) /\ Len(waiting) \in Nat
          /\ DOMAIN waiting = 1 .. Len(waiting)
      BY <1>1, <2>3
    <2>5. /\ 1 \in DOMAIN u /\ u[1] = current
          /\ \A i \in DOMAIN u :
                 i # 1 => i - 1 \in DOMAIN waiting /\ u[i] = waiting[i - 1]
          /\ \A i \in DOMAIN waiting : i + 1 \in DOMAIN u /\ u[i + 1] = waiting[i]
      <3>1. ASSUME NEW i \in DOMAIN u, i # 1
            PROVE  i - 1 \in DOMAIN waiting /\ u[i] = waiting[i - 1]
        BY <2>3, <2>4, <3>1
      <3>2. ASSUME NEW i \in DOMAIN waiting
            PROVE  i + 1 \in DOMAIN u /\ u[i + 1] = waiting[i]
        <4>1. i + 1 \in 1 .. 1 + Len(waiting) /\ ~(i + 1 <= 1) /\ (i + 1) - 1 = i
          BY <2>4
        <4>2. u[i + 1] = waiting[(i + 1) - 1]
          BY <2>3, <4>1
        <4> QED BY <2>4, <4>1, <4>2
      <3> QED BY <2>1, <2>3, <2>4, <3>1, <3>2
    <2>6. IsInjective(u)
      <3> SUFFICES ASSUME NEW i \in DOMAIN u, NEW j \in DOMAIN u, u[i] = u[j]
                   PROVE  i = j
        BY DEF IsInjective
      <3>1. CASE i = 1 \/ j = 1
        BY <1>1, <2>5, <3>1 DEF ToSet
      <3>2. CASE i # 1 /\ j # 1
        <4>1. i - 1 = j - 1
          BY <1>1, <2>5, <3>2 DEF IsInjective
        <4> QED BY <2>4, <4>1
      <3> QED BY <3>1, <3>2
    <2>7. ToSet(u) = accepted
      <3>1. ASSUME NEW x \in ToSet(u) PROVE x \in accepted
        <4>1. PICK i \in DOMAIN u : u[i] = x
          BY <3>1 DEF ToSet
        <4>2. CASE i = 1
          BY <1>2, <2>5, <4>1, <4>2
        <4>3. CASE i # 1
          BY <2>2, <2>5, <4>1, <4>3 DEF ToSet
        <4> QED BY <4>2, <4>3
      <3>2. ASSUME NEW x \in accepted PROVE x \in ToSet(u)
        <4>1. CASE x = current
          BY <2>5, <4>1 DEF ToSet
        <4>2. CASE x \in Waiting
          <5>1. PICK i \in DOMAIN waiting : waiting[i] = x
            BY <4>2 DEF ToSet
          <5> QED BY <2>5, <5>1 DEF ToSet
        <4> QED BY <2>2, <3>2, <4>1, <4>2
      <3> QED BY <3>1, <3>2
    <2> QED BY <2>1, <2>3, <2>6, <2>7 DEF u
  <1>3. CASE current \notin accepted
    <2>1. Unfinished = <<>> \o waiting
      BY <1>3 DEF Unfinished
    <2>2. Unfinished = waiting
      BY <1>1, <2>1, ConcatEmptySeq
    <2>3. accepted = Waiting
      BY <1>1, <1>3 DEF Owing
    <2> QED BY <1>1, <2>2, <2>3
  <1> QED BY <1>2, <1>3

(* What group g has still to say of c.                                     *)
Says(g, c) ==
    {w \in Told : \E k \in DOMAIN g.events :
                      g.events[k].command = c /\ g.events[k].what = w}

(* What was last heard of c, and then what each group of q will say of it. *)
Story(q, t, c) ==
    [i \in 0 .. Len(q) |-> IF i = 0 THEN {t[c]} ELSE Says(q[i], c)]

(* In a story f whose last part is n nothing is said between parts i and j.*)
Hush(f, i, j) == \A k \in i + 1 .. j - 1 : f[k] = {}

(* Everything is said in its turn.  An id that was forgotten may be        *)
(* accepted again although its end is never heard: close killed the worker *)
(* that was announcing it.                                                 *)
May(a, b, who) == Follows(a, b) \/ (who = "suspending" /\ b = "accepted")

Turns(f, n, who) ==
    \A i, j \in 0 .. n : i < j /\ Hush(f, i, j) =>
        \A a \in f[i], b \in f[j] : May(a, b, who)

(* What is said last is in S.                                              *)
Ends(f, n, S) == \A i \in 0 .. n : Hush(f, i, n + 1) => f[i] \subseteq S

LEMMA StoryGrows ==
    ASSUME NEW n \in Nat, NEW f, NEW g, NEW who, Turns(f, n, who),
           \A i \in 0 .. n : g[i] = f[i]
    PROVE  /\ g[n + 1] = {} =>
                  /\ Turns(g, n + 1, who)
                  /\ \A S : Ends(f, n, S) => Ends(g, n + 1, S)
           /\ \A w, S : /\ g[n + 1] = {w} /\ Ends(f, n, S)
                        /\ \A a \in S : May(a, w, who)
                        => Turns(g, n + 1, who) /\ Ends(g, n + 1, {w})
  <1>1. ASSUME NEW i \in 0 .. n, NEW j \in 0 .. n + 1, j <= n + 1
        PROVE  Hush(g, i, j) <=> Hush(f, i, j)
    BY DEF Hush
  <1>2. ASSUME NEW i \in 0 .. n, NEW j \in 0 .. n, i < j, Hush(g, i, j),
               NEW a \in g[i], NEW b \in g[j]
        PROVE  May(a, b, who)
    BY <1>1, <1>2 DEF Turns
  <1>3. ASSUME NEW i \in 0 .. n + 1, NEW j \in 0 .. n + 1, i < j
        PROVE  i \in 0 .. n /\ (j \in 0 .. n \/ j = n + 1)
    BY <1>3
  <1>4. ASSUME g[n + 1] = {}
        PROVE  /\ Turns(g, n + 1, who)
               /\ \A S : Ends(f, n, S) => Ends(g, n + 1, S)
    <2>1. Turns(g, n + 1, who)
      BY <1>2, <1>3, <1>4 DEF Turns
    <2>2. ASSUME NEW S, Ends(f, n, S), NEW i \in 0 .. n + 1, Hush(g, i, n + 2)
          PROVE  g[i] \subseteq S
      <3>1. CASE i = n + 1
        BY <1>4, <3>1
      <3>2. CASE i # n + 1
        <4>1. i \in 0 .. n /\ Hush(g, i, n + 1)
          BY <2>2, <3>2 DEF Hush
        <4>2. Hush(f, i, n + 1)
          BY <1>1, <4>1
        <4> QED BY <2>2, <4>1, <4>2 DEF Ends
      <3> QED BY <3>1, <3>2
    <2>3. (n + 1) + 1 = n + 2
      OBVIOUS
    <2> QED BY <2>1, <2>2, <2>3 DEF Ends
  <1>5. ASSUME NEW w, NEW S, g[n + 1] = {w}, Ends(f, n, S),
               \A a \in S : May(a, w, who)
        PROVE  Turns(g, n + 1, who) /\ Ends(g, n + 1, {w})
    <2>1. ASSUME NEW i \in 0 .. n, Hush(g, i, n + 1), NEW a \in g[i]
          PROVE  May(a, w, who)
      <3>1. Hush(f, i, n + 1)
        BY <1>1, <2>1
      <3> QED BY <1>5, <2>1, <3>1 DEF Ends
    <2>2. Turns(g, n + 1, who)
      BY <1>2, <1>3, <1>5, <2>1 DEF Turns
    <2>3. ASSUME NEW i \in 0 .. n + 1, Hush(g, i, (n + 1) + 1)
          PROVE  g[i] \subseteq {w}
      <3>1. CASE i = n + 1
        BY <1>5, <3>1
      <3>2. CASE i # n + 1
        <4>1. n + 1 \in i + 1 .. ((n + 1) + 1) - 1
          BY <3>2
        <4>2. g[n + 1] = {}
          BY <2>3, <4>1 DEF Hush
        <4> QED BY <1>5, <4>2
      <3> QED BY <3>1, <3>2
    <2> QED BY <2>2, <2>3 DEF Ends
  <1> QED BY <1>4, <1>5

LEMMA StoryAgain ==
    ASSUME NEW n \in Nat, NEW f, NEW g, Turns(f, n, "suspending"),
           \A i \in 0 .. n : g[i] = f[i], g[n + 1] = {"accepted"}
    PROVE  Turns(g, n + 1, "suspending") /\ Ends(g, n + 1, {"accepted"})
  <1> DEFINE S == UNION {f[i] : i \in 0 .. n}
  <1>1. Ends(f, n, S)
    BY DEF Ends
  <1>2. \A a \in S : May(a, "accepted", "suspending")
    BY DEF May
  <1> HIDE DEF S
  <1> QED BY <1>1, <1>2, StoryGrows

(* A part that says nothing any more is left out.                          *)
LEMMA StoryShrinks ==
    ASSUME NEW n \in Nat, NEW d \in 1 .. n, NEW f, NEW g, NEW who,
           f[d] = {}, Turns(f, n, who),
           \A i \in 0 .. n - 1 : g[i] = IF i < d THEN f[i] ELSE f[i + 1]
    PROVE  /\ Turns(g, n - 1, who)
           /\ \A S : Ends(f, n, S) => Ends(g, n - 1, S)
  <1> DEFINE at(i) == IF i < d THEN i ELSE i + 1
  <1>1. \A i \in 0 .. n - 1 : at(i) \in 0 .. n /\ g[i] = f[at(i)]
    OBVIOUS
  <1>2. ASSUME NEW i \in 0 .. n - 1, NEW j \in 1 .. n, i < j, Hush(g, i, j)
        PROVE  Hush(f, at(i), at(j))
    <2> SUFFICES ASSUME NEW k \in at(i) + 1 .. at(j) - 1 PROVE f[k] = {}
      BY DEF Hush
    <2>1. CASE k = d
      BY <2>1
    <2>2. CASE k < d
      <3>1. k \in i + 1 .. j - 1 /\ k \in 0 .. n - 1
        BY <1>2, <2>2
      <3>2. g[k] = {}
        BY <1>2, <3>1 DEF Hush
      <3> QED BY <2>2, <3>1, <3>2
    <2>3. CASE k > d
      <3>1. k - 1 \in i + 1 .. j - 1 /\ k - 1 \in 0 .. n - 1 /\ ~(k - 1 < d)
            /\ (k - 1) + 1 = k
        BY <1>2, <2>3
      <3>2. g[k - 1] = {}
        BY <1>2, <3>1 DEF Hush
      <3> QED BY <3>1, <3>2
    <2> QED BY <2>1, <2>2, <2>3
  <1>3. Turns(g, n - 1, who)
    <2> SUFFICES ASSUME NEW i \in 0 .. n - 1, NEW j \in 0 .. n - 1, i < j,
                        Hush(g, i, j), NEW a \in g[i], NEW b \in g[j]
                 PROVE  May(a, b, who)
      BY DEF Turns
    <2>1. Hush(f, at(i), at(j))
      BY <1>2
    <2>2. at(i) < at(j)
      OBVIOUS
    <2>3. a \in f[at(i)] /\ b \in f[at(j)] /\ at(i) \in 0 .. n /\ at(j) \in 0 .. n
      BY <1>1
    <2> HIDE DEF at
    <2> QED BY <2>1, <2>2, <2>3 DEF Turns
  <1>4. ASSUME NEW S, Ends(f, n, S), NEW i \in 0 .. n - 1,
               Hush(g, i, (n - 1) + 1)
        PROVE  g[i] \subseteq S
    <2>1. (n - 1) + 1 = n /\ n \in 1 .. n /\ i < n /\ at(n) = n + 1
      OBVIOUS
    <2>2. Hush(f, at(i), n + 1)
      <3>1. Hush(g, i, n)
        BY <1>4, <2>1
      <3> QED BY <1>2, <2>1, <3>1
    <2>3. g[i] = f[at(i)] /\ at(i) \in 0 .. n
      BY <1>1
    <2> HIDE DEF at
    <2> QED BY <1>4, <2>2, <2>3 DEF Ends
  <1> QED BY <1>3, <1>4 DEF Ends

(* What the first part says is heard.                                      *)
LEMMA StoryHeard ==
    ASSUME NEW n \in Nat \ {0}, NEW f, NEW g, NEW who, NEW a, NEW w,
           Turns(f, n, who), f[0] = {a}, f[1] = {w}, g[0] = {w}, g[1] = {},
           \A i \in 2 .. n : g[i] = f[i]
    PROVE  /\ May(a, w, who)
           /\ Turns(g, n, who)
           /\ \A S : Ends(f, n, S) => Ends(g, n, S)
  <1> DEFINE at(i) == IF i = 0 THEN 1 ELSE i
  <1>1. May(a, w, who)
    <2>1. Hush(f, 0, 1) /\ 0 \in 0 .. n /\ 1 \in 0 .. n /\ 0 < 1
      BY DEF Hush
    <2> QED BY <2>1 DEF Turns
  <1>2. \A i \in 0 .. n : i # 1 => at(i) \in 0 .. n /\ g[i] = f[at(i)]
    OBVIOUS
  <1>3. ASSUME NEW i \in 0 .. n, NEW j \in 2 .. n + 1, i < j, Hush(g, i, j)
        PROVE  Hush(f, at(i), j)
    <2> SUFFICES ASSUME NEW k \in at(i) + 1 .. j - 1 PROVE f[k] = {}
      BY DEF Hush
    <2>1. k \in i + 1 .. j - 1 /\ k \in 2 .. n
      BY <1>3
    <2> QED BY <1>3, <2>1 DEF Hush
  <1>4. Turns(g, n, who)
    <2> SUFFICES ASSUME NEW i \in 0 .. n, NEW j \in 0 .. n, i < j,
                        Hush(g, i, j), NEW b \in g[i], NEW c \in g[j]
                 PROVE  May(b, c, who)
      BY DEF Turns
    <2>1. i # 1 /\ j # 1 /\ j \in 2 .. n + 1 /\ j # 0
      OBVIOUS
    <2>2. Hush(f, at(i), j) /\ at(i) < j /\ at(j) = j
      BY <1>3, <2>1
    <2>3. b \in f[at(i)] /\ c \in f[j] /\ at(i) \in 0 .. n
      BY <1>2, <2>1, <2>2
    <2> HIDE DEF at
    <2> QED BY <2>2, <2>3 DEF Turns
  <1>5. ASSUME NEW S, Ends(f, n, S), NEW i \in 0 .. n, Hush(g, i, n + 1)
        PROVE  g[i] \subseteq S
    <2>1. CASE i = 1
      BY <2>1
    <2>2. CASE i # 1
      <3>1. Hush(f, at(i), n + 1)
        BY <1>3, <1>5
      <3>2. g[i] = f[at(i)] /\ at(i) \in 0 .. n
        BY <1>2, <2>2
      <3> HIDE DEF at
      <3> QED BY <1>5, <3>1, <3>2 DEF Ends
    <2> QED BY <2>1, <2>2
  <1> QED BY <1>1, <1>4, <1>5 DEF Ends

(* A part is lost after which c, if at all, is accepted again.             *)
LEMMA StoryLost ==
    ASSUME NEW n \in Nat, NEW d \in 1 .. n, NEW f, NEW g, Turns(f, n, "suspending"),
           \A i \in 0 .. n - 1 : g[i] = IF i < d THEN f[i] ELSE f[i + 1],
           \A j \in d + 1 .. n : Hush(f, d, j) => f[j] \subseteq {"accepted"}
    PROVE  /\ Turns(g, n - 1, "suspending")
           /\ \A S : Ends(f, n, S) /\ (\E j \in d + 1 .. n : f[j] # {}) =>
                         Ends(g, n - 1, S)
           /\ \A S : Ends(f, n, S) /\ S \subseteq Owed \ {"accepted"} =>
                         Ends(g, n - 1, Owed)
  <1> DEFINE h == [i \in 0 .. n |-> IF i = d THEN {} ELSE f[i]]
  <1>0. /\ h[d] = {} /\ \A i \in 0 .. n : i # d => h[i] = f[i]
        /\ d \in 0 .. n
    OBVIOUS
  <1>1. \A i \in 0 .. n - 1 : g[i] = IF i < d THEN h[i] ELSE h[i + 1]
    OBVIOUS
  <1> HIDE DEF h
  <1>2. ASSUME NEW i \in 0 .. n, NEW j \in 0 .. n + 1, i < j, Hush(h, i, j)
        PROVE  \/ Hush(f, i, j)
               \/ i < d /\ d < j /\ Hush(f, i, d) /\ Hush(f, d, j)
    <2>1. ASSUME NEW k \in i + 1 .. j - 1, k # d PROVE f[k] = {}
      <3>1. h[k] = {}
        BY <1>2, <2>1 DEF Hush
      <3> QED BY <1>0, <2>1, <3>1
    <2>2. CASE i < d /\ d < j
      BY <2>1, <2>2 DEF Hush
    <2>3. CASE ~(i < d /\ d < j)
      BY <2>1, <2>3 DEF Hush
    <2> QED BY <2>2, <2>3
  <1>3. Turns(h, n, "suspending")
    <2> SUFFICES ASSUME NEW i \in 0 .. n, NEW j \in 0 .. n, i < j,
                        Hush(h, i, j), NEW a \in h[i], NEW b \in h[j]
                 PROVE  May(a, b, "suspending")
      BY DEF Turns
    <2>1. i # d /\ j # d /\ a \in f[i] /\ b \in f[j]
      BY <1>0
    <2>2. CASE Hush(f, i, j)
      BY <2>1, <2>2 DEF Turns
    <2>3. CASE d < j /\ Hush(f, d, j)
      <3>1. j \in d + 1 .. n
        BY <2>3
      <3> QED BY <2>1, <2>3, <3>1 DEF May
    <2>4. j \in 0 .. n + 1
      OBVIOUS
    <2> QED BY <1>2, <2>2, <2>3, <2>4
  <1>4. /\ Turns(g, n - 1, "suspending")
        /\ \A S : Ends(h, n, S) => Ends(g, n - 1, S)
    BY <1>0, <1>1, <1>3, StoryShrinks
  <1>5. ASSUME NEW S, Ends(f, n, S), NEW m \in d + 1 .. n, f[m] # {}
        PROVE  Ends(h, n, S)
    <2> SUFFICES ASSUME NEW i \in 0 .. n, Hush(h, i, n + 1)
                 PROVE  h[i] \subseteq S
      BY DEF Ends
    <2>1. CASE i = d
      BY <1>0, <2>1
    <2>2. CASE i # d
      <3>1. ~Hush(f, d, n + 1)
        BY <1>5 DEF Hush
      <3>2. Hush(f, i, n + 1)
        BY <1>2, <3>1
      <3> QED BY <1>0, <1>5, <2>2, <3>2 DEF Ends
    <2> QED BY <2>1, <2>2
  <1>6. ASSUME NEW S, Ends(f, n, S), S \subseteq Owed \ {"accepted"}
        PROVE  Ends(h, n, Owed)
    <2> SUFFICES ASSUME NEW i \in 0 .. n, Hush(h, i, n + 1), NEW a \in h[i]
                 PROVE  a \in Owed
      BY DEF Ends
    <2>1. i # d /\ a \in f[i]
      BY <1>0
    <2>2. CASE Hush(f, i, n + 1)
      BY <1>6, <2>1, <2>2 DEF Ends
    <2>3. CASE i < d /\ Hush(f, i, d) /\ Hush(f, d, n + 1)
      <3>1. f[d] \subseteq S
        BY <1>0, <1>6, <2>3 DEF Ends
      <3>2. CASE f[d] = {}
        <4>1. Hush(f, i, n + 1)
          <5> SUFFICES ASSUME NEW k \in i + 1 .. (n + 1) - 1 PROVE f[k] = {}
            BY DEF Hush
          <5>1. k < d \/ k = d \/ k > d
            OBVIOUS
          <5> QED BY <2>3, <3>2, <5>1 DEF Hush
        <4> QED BY <2>2, <4>1
      <3>3. CASE f[d] # {}
        <4>1. PICK b \in f[d] : TRUE
          BY <3>3
        <4>2. May(a, b, "suspending") /\ b \in Owed /\ b # "accepted"
          BY <1>0, <1>6, <2>1, <2>3, <3>1, <4>1 DEF Turns
        <4> QED BY <4>2 DEF May, Follows, Owed, Lifecycles!Owed
      <3> QED BY <3>2, <3>3
    <2> QED BY <1>2, <2>2, <2>3
  <1> QED BY <1>4, <1>5, <1>6

(* What is said of c after part i, where the worker speaks of c: nothing;  *)
(* or, once the worker has done with c, at first that c is accepted again, *)
(* and that if it is.                                                      *)
Trails(f, n, i, c, at, acc) ==
    IF at = "finishing"
    THEN /\ \A j \in i + 1 .. n : Hush(f, i, j) => f[j] \subseteq {"accepted"}
         /\ c \in acc => \E j \in i + 1 .. n : f[j] # {}
    ELSE Hush(f, i, n + 1)

Speaking(q, t, at, acc) ==
    \A i \in DOMAIN q : q[i].task = "worker" =>
        /\ \A c \in Commands : c # q[i].command => Says(q[i], c) = {}
        /\ Trails(Story(q, t, q[i].command), Len(q), i, q[i].command, at, acc)

(* What is waiting, running and done agrees with what is told of it.       *)
Agrees(f, n, c, wait, cur, acc, at, who) ==
    /\ Turns(f, n, who)
    /\ c \in wait => Ends(f, n, {"accepted"})
    /\ c = cur /\ c \in acc => Ends(f, n, Stage(at))
    /\ who = "prompt" /\ c \notin acc => Ends(f, n, Ended)

Agreed(q, t, wait, cur, acc, at, who) ==
    \A c \in Commands :
        Agrees(Story(q, t, c), Len(q), c, wait, cur, acc, at, who)

(* A group says one thing of a command.                                    *)
OnceEach(events) ==
    \A k, l \in DOMAIN events :
        /\ events[k].command \in Commands
        /\ events[l].command = events[k].command
        => k = l

AllOnce(q) == \A i \in DOMAIN q : OnceEach(q[i].events)

LastTold == [c \in Commands |-> IF log[c] = <<>> THEN "none"
                                ELSE log[c][Len(log[c])]]

Contract ==
    /\ AllOnce(emissions)
    /\ \A i \in DOMAIN direct : direct[i].what = "state"
    /\ closing = "open" => Speaking(emissions, LastTold, worker, accepted)
    /\ Agreed(emissions, LastTold, Waiting, current, accepted, worker,
              subscribers)

LEMMA TrailsGrow ==
    ASSUME NEW n \in Nat, NEW i \in 1 .. n, NEW f, NEW g, NEW c, NEW at,
           NEW acc, NEW now, Trails(f, n, i, c, at, acc),
           \A k \in 0 .. n : g[k] = f[k],
           \/ g[n + 1] = {} /\ (c \in now => c \in acc)
           \/ at = "finishing" /\ g[n + 1] = {"accepted"}
           \/ at = "finishing" /\ c \in acc /\ c \notin now
    PROVE  Trails(g, n + 1, i, c, at, now)
  <1>1. \A j \in 0 .. n + 1 : Hush(g, i, j) <=> Hush(f, i, j)
    BY DEF Hush
  <1>2. CASE at # "finishing"
    <2>1. Hush(f, i, n + 1) /\ g[n + 1] = {}
      BY <1>2 DEF Trails
    <2>2. \A k \in i + 1 .. ((n + 1) + 1) - 1 : k = n + 1 \/ k \in i + 1 .. (n + 1) - 1
      OBVIOUS
    <2>3. Hush(g, i, (n + 1) + 1)
      BY <2>1, <2>2 DEF Hush
    <2> QED BY <1>2, <2>3 DEF Trails
  <1>3. CASE at = "finishing"
    <2>1. /\ \A j \in i + 1 .. n : Hush(f, i, j) => f[j] \subseteq {"accepted"}
          /\ c \in acc => \E j \in i + 1 .. n : f[j] # {}
      BY <1>3 DEF Trails
    <2>2. ASSUME NEW j \in i + 1 .. n + 1, Hush(g, i, j)
          PROVE  g[j] \subseteq {"accepted"}
      <3>1. CASE j \in i + 1 .. n
        BY <1>1, <2>1, <2>2, <3>1
      <3>2. CASE j = n + 1
        <4>1. CASE c \in acc
          <5>1. PICK k \in i + 1 .. n : f[k] # {}
            BY <2>1, <4>1
          <5>2. k \in i + 1 .. j - 1 /\ g[k] # {}
            BY <3>2, <5>1
          <5> QED BY <2>2, <5>2 DEF Hush
        <4>2. CASE c \notin acc
          BY <3>2, <4>2
        <4> QED BY <4>1, <4>2
      <3> QED BY <3>1, <3>2
    <2>3. ASSUME c \in now PROVE \E j \in i + 1 .. n + 1 : g[j] # {}
      <3>1. CASE g[n + 1] = {"accepted"}
        <4>1. n + 1 \in i + 1 .. n + 1
          OBVIOUS
        <4> QED BY <3>1, <4>1
      <3>2. CASE g[n + 1] = {} /\ c \in acc
        <4>1. PICK k \in i + 1 .. n : f[k] # {}
          BY <2>1, <3>2
        <4> QED BY <4>1
      <3> QED BY <2>3, <3>1, <3>2
    <2> QED BY <1>3, <2>2, <2>3 DEF Trails
  <1> QED BY <1>2, <1>3

LEMMA TrailsShrink ==
    ASSUME NEW n \in Nat, NEW i \in 1 .. n, NEW f, NEW g, NEW c, NEW at,
           NEW acc, Trails(f, n, i + 1, c, at, acc), i + 1 <= n,
           \A k \in 1 .. n - 1 : g[k] = f[k + 1]
    PROVE  Trails(g, n - 1, i, c, at, acc)
  <1>1. ASSUME NEW j \in 1 .. n, Hush(g, i, j) PROVE Hush(f, i + 1, j + 1)
    <2> SUFFICES ASSUME NEW k \in (i + 1) + 1 .. (j + 1) - 1 PROVE f[k] = {}
      BY DEF Hush
    <2>1. k - 1 \in i + 1 .. j - 1 /\ k - 1 \in 1 .. n - 1 /\ (k - 1) + 1 = k
      OBVIOUS
    <2>2. g[k - 1] = {}
      BY <1>1, <2>1 DEF Hush
    <2> QED BY <2>1, <2>2
  <1>2. CASE at # "finishing"
    <2>1. Hush(f, i + 1, n + 1)
      BY <1>2 DEF Trails
    <2>2. Hush(g, i, (n - 1) + 1)
      <3> SUFFICES ASSUME NEW k \in i + 1 .. ((n - 1) + 1) - 1 PROVE g[k] = {}
        BY DEF Hush
      <3>1. k + 1 \in (i + 1) + 1 .. (n + 1) - 1 /\ k \in 1 .. n - 1
        OBVIOUS
      <3> QED BY <2>1, <3>1 DEF Hush
    <2> QED BY <1>2, <2>2 DEF Trails
  <1>3. CASE at = "finishing"
    <2>1. /\ \A j \in (i + 1) + 1 .. n : Hush(f, i + 1, j) =>
                 f[j] \subseteq {"accepted"}
          /\ c \in acc => \E j \in (i + 1) + 1 .. n : f[j] # {}
      BY <1>3 DEF Trails
    <2>2. ASSUME NEW j \in i + 1 .. n - 1, Hush(g, i, j)
          PROVE  g[j] \subseteq {"accepted"}
      <3>1. Hush(f, i + 1, j + 1) /\ j + 1 \in (i + 1) + 1 .. n /\ g[j] = f[j + 1]
        BY <1>1, <2>2
      <3> QED BY <2>1, <3>1
    <2>3. ASSUME c \in acc PROVE \E j \in i + 1 .. n - 1 : g[j] # {}
      <3>1. PICK k \in (i + 1) + 1 .. n : f[k] # {}
        BY <2>1, <2>3
      <3>2. k - 1 \in i + 1 .. n - 1 /\ k - 1 \in 1 .. n - 1 /\ (k - 1) + 1 = k
        OBVIOUS
      <3>3. g[k - 1] # {}
        BY <3>1, <3>2
      <3> QED BY <3>2, <3>3
    <2> QED BY <1>3, <2>2, <2>3 DEF Trails
  <1> QED BY <1>2, <1>3

LEMMA TrailsSame ==
    ASSUME NEW n \in Nat, NEW i \in 1 .. n, NEW f, NEW g, NEW c, NEW at,
           NEW acc, Trails(f, n, i, c, at, acc),
           \A k \in 2 .. n : g[k] = f[k]
    PROVE  Trails(g, n, i, c, at, acc)
  <1>1. \A j \in 0 .. n + 1 : Hush(g, i, j) <=> Hush(f, i, j)
    BY DEF Hush
  <1>2. CASE at # "finishing"
    <2>1. Hush(f, i, n + 1) /\ n + 1 \in 0 .. n + 1
      BY <1>2 DEF Trails
    <2> QED BY <1>1, <1>2, <2>1 DEF Trails
  <1>3. CASE at = "finishing"
    <2>1. \A j \in i + 1 .. n : j \in 2 .. n /\ j \in 0 .. n + 1
      OBVIOUS
    <2> QED BY <1>1, <1>3, <2>1 DEF Trails
  <1> QED BY <1>2, <1>3

(* Stories of longer and shorter queues of groups.                         *)
LEMMA Grown ==
    ASSUME NEW q \in Seq(Groups), NEW g, NEW t, NEW c
    PROVE  /\ Len(q) \in Nat /\ Len(Append(q, g)) = Len(q) + 1
           /\ \A i \in 0 .. Len(q) :
                  Story(Append(q, g), t, c)[i] = Story(q, t, c)[i]
           /\ Story(Append(q, g), t, c)[Len(q) + 1] = Says(g, c)
  <1> DEFINE p == Append(q, g)
  <1>1. /\ Len(q) \in Nat /\ Len(p) = Len(q) + 1
        /\ \A i \in 1 .. Len(q) : p[i] = q[i]
        /\ p[Len(q) + 1] = g
    OBVIOUS
  <1> HIDE DEF p
  <1>2. /\ \A i \in 0 .. Len(q) : Story(p, t, c)[i] = Story(q, t, c)[i]
        /\ Story(p, t, c)[Len(q) + 1] = Says(g, c)
    BY <1>1 DEF Story
  <1> QED BY <1>1, <1>2 DEF p

(* p is q without its part d.                                              *)
Without(p, q, d) ==
    /\ p \in Seq(Groups) /\ Len(p) = Len(q) - 1
    /\ \A i \in 1 .. Len(q) - 1 : p[i] = IF i < d THEN q[i] ELSE q[i + 1]

LEMMA Removed ==
    ASSUME NEW q \in Seq(Groups), NEW d \in DOMAIN q
    PROVE  Without(RemoveAt(q, d), q, d)
  <1>1. Len(q) \in Nat /\ DOMAIN q = 1 .. Len(q) /\ d \in 1 .. Len(q)
    OBVIOUS
  <1> DEFINE a == SubSeq(q, 1, d - 1)
             b == SubSeq(q, d + 1, Len(q))
  <1>0. \A j \in 1 .. Len(q) : q[j] \in Groups
    BY <1>1, ElementOfSeq
  <1>2. /\ a \in Seq(Groups) /\ Len(a) = d - 1
        /\ \A i \in 1 .. d - 1 : a[i] = q[i]
    <2>1. 1 \in Int /\ d - 1 \in Int /\ \A j \in 1 .. d - 1 : q[j] \in Groups
      BY <1>0, <1>1
    <2>2. /\ a \in Seq(Groups)
          /\ Len(a) = IF 1 <= d - 1 THEN (d - 1) - 1 + 1 ELSE 0
          /\ \A i \in 1 .. (d - 1) - 1 + 1 : a[i] = q[1 + i - 1]
      BY <2>1, SubSeqProperties
    <2> HIDE DEF a
    <2>3. \A i \in 1 .. d - 1 : i \in 1 .. (d - 1) - 1 + 1 /\ 1 + i - 1 = i
      BY <1>1
    <2> QED BY <1>1, <2>2, <2>3
  <1>3. /\ b \in Seq(Groups) /\ Len(b) = Len(q) - d
        /\ \A i \in 1 .. Len(q) - d : b[i] = q[i + d]
    <2>1. /\ d + 1 \in Int /\ Len(q) \in Int
          /\ \A j \in d + 1 .. Len(q) : q[j] \in Groups
      BY <1>0, <1>1
    <2>2. /\ b \in Seq(Groups)
          /\ Len(b) = IF d + 1 <= Len(q) THEN Len(q) - (d + 1) + 1 ELSE 0
          /\ \A i \in 1 .. Len(q) - (d + 1) + 1 : b[i] = q[d + 1 + i - 1]
      BY <2>1, SubSeqProperties
    <2> HIDE DEF b
    <2>3. \A i \in 1 .. Len(q) - d :
             i \in 1 .. Len(q) - (d + 1) + 1 /\ d + 1 + i - 1 = i + d
      BY <1>1
    <2> QED BY <1>1, <2>2, <2>3
  <1>4. RemoveAt(q, d) = a \o b
    BY DEF RemoveAt
  <1> HIDE DEF a, b
  <1> DEFINE p == a \o b
  <1>5. /\ p \in Seq(Groups) /\ Len(p) = Len(a) + Len(b)
        /\ \A i \in 1 .. Len(a) + Len(b) :
             p[i] = IF i <= Len(a) THEN a[i] ELSE b[i - Len(a)]
    <2>1. a \in Seq(Groups) /\ b \in Seq(Groups)
      BY <1>2, <1>3
    <2> QED BY <2>1, ConcatProperties
  <1> HIDE DEF p
  <1>6. Len(a) + Len(b) = Len(q) - 1
    BY <1>1, <1>2, <1>3
  <1>7. ASSUME NEW i \in 1 .. Len(q) - 1
        PROVE  p[i] = IF i < d THEN q[i] ELSE q[i + 1]
    <2>1. CASE i < d
      BY <1>1, <1>2, <1>5, <1>6, <2>1
    <2>2. CASE ~(i < d)
      <3>1. i - (d - 1) \in 1 .. Len(q) - d /\ (i - (d - 1)) + d = i + 1
            /\ ~(i <= d - 1)
        BY <1>1, <2>2
      <3>2. b[i - (d - 1)] = q[i + 1]
        BY <1>3, <3>1
      <3>3. p[i] = b[i - (d - 1)]
        BY <1>2, <1>5, <1>6, <3>1
      <3> QED BY <2>2, <3>2, <3>3
    <2> QED BY <2>1, <2>2
  <1> QED BY <1>4, <1>5, <1>6, <1>7 DEF Without, p

LEMMA Beheaded ==
    ASSUME NEW q \in Seq(Groups), q # <<>>
    PROVE  /\ Without(Tail(q), q, 1) /\ 1 \in 1 .. Len(q) /\ Head(q) = q[1]
           /\ Len(q) \in Nat /\ DOMAIN q = 1 .. Len(q)
  BY DEF Without

LEMMA Shrunk ==
    ASSUME NEW q \in Seq(Groups), NEW d \in 1 .. Len(q), NEW p,
           Without(p, q, d), NEW t, NEW c
    PROVE  \A i \in 0 .. Len(q) - 1 :
               Story(p, t, c)[i] = IF i < d THEN Story(q, t, c)[i]
                                   ELSE Story(q, t, c)[i + 1]
  <1>1. /\ Len(q) \in Nat /\ Len(p) = Len(q) - 1
        /\ \A i \in 1 .. Len(q) - 1 : p[i] = IF i < d THEN q[i] ELSE q[i + 1]
    BY DEF Without
  <1> SUFFICES ASSUME NEW i \in 0 .. Len(q) - 1
               PROVE  Story(p, t, c)[i] = IF i < d THEN Story(q, t, c)[i]
                                          ELSE Story(q, t, c)[i + 1]
    OBVIOUS
  <1>2. CASE i = 0
    BY <1>1, <1>2 DEF Story
  <1>3. CASE i # 0
    <2>1. i \in 1 .. Len(q) - 1
      BY <1>1, <1>3
    <2>2. Story(p, t, c)[i] = Says(p[i], c)
      BY <1>1, <2>1 DEF Story
    <2>3. i < d => Story(q, t, c)[i] = Says(q[i], c)
      BY <1>1, <2>1 DEF Story
    <2>4. ~(i < d) => Story(q, t, c)[i + 1] = Says(q[i + 1], c)
      BY <1>1, <2>1 DEF Story
    <2> QED BY <1>1, <2>1, <2>2, <2>3, <2>4
  <1> QED BY <1>2, <1>3

(* What group g says of c comes in its turn, and leaves c where the queue  *)
(* has it.                                                                 *)
Fits(q, t, g, c, wait, cur, acc, at, who) ==
    \E w : /\ Says(g, c) = {w}
           /\ \/ w = "accepted" /\ who = "suspending"
              \/ \E S : /\ Ends(Story(q, t, c), Len(q), S)
                        /\ \A a \in S : May(a, w, who)
           /\ c \in wait => w = "accepted"
           /\ c = cur /\ c \in acc => w \in Stage(at)
           /\ who = "prompt" /\ c \notin acc => w \in Ended

LEMMA EndsWiden ==
    ASSUME NEW f, NEW n, NEW S, NEW T, Ends(f, n, S), S \subseteq T
    PROVE  Ends(f, n, T)
  BY DEF Ends

(* Nothing is said of c, and it stays where it is or goes where what was   *)
(* said last of it fits as well.                                           *)
Keeps(c, wait, cur, acc, at, wait1, cur1, acc1, at1) ==
    /\ c \in wait1 => c \in wait
    /\ c = cur1 /\ c \in acc1 =>
           \/ c = cur /\ c \in acc /\ Stage(at) \subseteq Stage(at1)
           \/ c \in wait /\ "accepted" \in Stage(at1)
    /\ c \notin acc1 => c \notin acc

LEMMA AgreesKeeps ==
    ASSUME NEW f, NEW n, NEW g, NEW m, NEW c, NEW who,
           NEW wait, NEW cur, NEW acc, NEW at,
           NEW wait1, NEW cur1, NEW acc1, NEW at1,
           Agrees(f, n, c, wait, cur, acc, at, who),
           Keeps(c, wait, cur, acc, at, wait1, cur1, acc1, at1),
           Turns(g, m, who),
           \A S : Ends(f, n, S) => Ends(g, m, S)
    PROVE  Agrees(g, m, c, wait1, cur1, acc1, at1, who)
  <1>1. c \in wait1 => Ends(g, m, {"accepted"})
    BY DEF Agrees, Keeps
  <1>2. ASSUME c = cur1, c \in acc1 PROVE Ends(g, m, Stage(at1))
    <2>1. CASE c = cur /\ c \in acc /\ Stage(at) \subseteq Stage(at1)
      BY <2>1, EndsWiden DEF Agrees
    <2>2. CASE c \in wait /\ "accepted" \in Stage(at1)
      <3>1. Ends(g, m, {"accepted"}) /\ {"accepted"} \subseteq Stage(at1)
        BY <2>2 DEF Agrees
      <3> QED BY <3>1, EndsWiden
    <2> QED BY <1>2, <2>1, <2>2 DEF Keeps
  <1>3. who = "prompt" /\ c \notin acc1 => Ends(g, m, Ended)
    BY DEF Agrees, Keeps
  <1> QED BY <1>1, <1>2, <1>3 DEF Agrees

LEMMA AgreedGrows ==
    ASSUME NEW q \in Seq(Groups), NEW g, NEW t, NEW who,
           NEW wait, NEW cur, NEW acc, NEW at,
           NEW wait1, NEW cur1, NEW acc1, NEW at1,
           Agreed(q, t, wait, cur, acc, at, who),
           \A c \in Commands :
             \/ /\ Says(g, c) = {}
                /\ Keeps(c, wait, cur, acc, at, wait1, cur1, acc1, at1)
             \/ Fits(q, t, g, c, wait1, cur1, acc1, at1, who)
    PROVE  Agreed(Append(q, g), t, wait1, cur1, acc1, at1, who)
  <1> SUFFICES ASSUME NEW c \in Commands
               PROVE  Agrees(Story(Append(q, g), t, c), Len(q) + 1, c,
                             wait1, cur1, acc1, at1, who)
    BY Grown DEF Agreed
  <1> DEFINE f == Story(q, t, c)
             h == Story(Append(q, g), t, c)
             n == Len(q)
  <1>1. /\ n \in Nat /\ h[n + 1] = Says(g, c)
        /\ \A i \in 0 .. n : h[i] = f[i]
    BY Grown
  <1>2. Agrees(f, n, c, wait, cur, acc, at, who)
    BY DEF Agreed
  <1> HIDE DEF f, h, n
  <1>3. Turns(f, n, who)
    BY <1>2 DEF Agrees
  <1>4. CASE /\ Says(g, c) = {}
             /\ Keeps(c, wait, cur, acc, at, wait1, cur1, acc1, at1)
    <2>1. /\ Turns(h, n + 1, who)
          /\ \A S : Ends(f, n, S) => Ends(h, n + 1, S)
      BY <1>1, <1>3, <1>4, StoryGrows
    <2>2. Agrees(h, n + 1, c, wait1, cur1, acc1, at1, who)
      BY <1>2, <1>4, <2>1, AgreesKeeps
    <2> QED BY <2>2 DEF h, n
  <1>5. CASE Fits(q, t, g, c, wait1, cur1, acc1, at1, who)
    <2>1. PICK w :
           /\ Says(g, c) = {w}
           /\ \/ w = "accepted" /\ who = "suspending"
              \/ \E S : Ends(f, n, S) /\ \A a \in S : May(a, w, who)
           /\ c \in wait1 => w = "accepted"
           /\ c = cur1 /\ c \in acc1 => w \in Stage(at1)
           /\ who = "prompt" /\ c \notin acc1 => w \in Ended
      BY <1>5 DEF Fits, f, n
    <2>2. Turns(h, n + 1, who) /\ Ends(h, n + 1, {w})
      <3>1. CASE w = "accepted" /\ who = "suspending"
        BY <1>1, <1>3, <2>1, <3>1, StoryAgain
      <3>2. CASE \E S : Ends(f, n, S) /\ \A a \in S : May(a, w, who)
        BY <1>1, <1>3, <2>1, <3>2, StoryGrows
      <3> QED BY <2>1, <3>1, <3>2
    <2>3. c = cur1 /\ c \in acc1 => Ends(h, n + 1, Stage(at1))
      BY <2>1, <2>2, EndsWiden
    <2>4. who = "prompt" /\ c \notin acc1 => Ends(h, n + 1, Ended)
      BY <2>1, <2>2, EndsWiden
    <2>5. Agrees(h, n + 1, c, wait1, cur1, acc1, at1, who)
      BY <2>1, <2>2, <2>3, <2>4 DEF Agrees
    <2> QED BY <2>5 DEF h, n
  <1> QED BY <1>4, <1>5

(* A group that has said everything goes, and nothing else happens to the  *)
(* jobs.                                                                   *)
LEMMA AgreedShrinks ==
    ASSUME NEW q \in Seq(Groups), q # <<>>, Head(q).events = <<>>,
           NEW t, NEW who, NEW wait, NEW cur, NEW acc, NEW at, NEW at1,
           Agreed(q, t, wait, cur, acc, at, who),
           Stage(at) \subseteq Stage(at1) \/ cur \notin acc
    PROVE  Agreed(Tail(q), t, wait, cur, acc, at1, who)
  <1>1. 1 \in DOMAIN q /\ Head(q) = q[1] /\ Tail(q) \in Seq(Groups)
    OBVIOUS
  <1> SUFFICES ASSUME NEW c \in Commands
               PROVE  Agrees(Story(Tail(q), t, c), Len(q) - 1, c,
                             wait, cur, acc, at1, who)
    BY Beheaded DEF Agreed, Without
  <1> DEFINE f == Story(q, t, c)
             h == Story(Tail(q), t, c)
             n == Len(q)
  <1>2. /\ n \in Nat /\ 1 \in 1 .. n
        /\ \A i \in 0 .. n - 1 : h[i] = IF i < 1 THEN f[i] ELSE f[i + 1]
    BY Beheaded, Shrunk
  <1>3. Agrees(f, n, c, wait, cur, acc, at, who)
    BY DEF Agreed
  <1>4. f[1] = {}
    <2>1. Says(q[1], c) = {}
      <3>1. DOMAIN q[1].events = {}
        BY <1>1
      <3> QED BY <3>1 DEF Says
    <2>2. f[1] = Says(q[1], c)
      BY <1>2 DEF Story
    <2> QED BY <2>1, <2>2
  <1> HIDE DEF f, h, n
  <1>5. Turns(h, n - 1, who) /\ \A S : Ends(f, n, S) => Ends(h, n - 1, S)
    <2>1. Turns(f, n, who)
      BY <1>3 DEF Agrees
    <2> QED BY <1>2, <1>4, <2>1, StoryShrinks
  <1>6. Keeps(c, wait, cur, acc, at, wait, cur, acc, at1)
    BY DEF Keeps
  <1>7. Agrees(h, n - 1, c, wait, cur, acc, at1, who)
    BY <1>3, <1>5, <1>6, AgreesKeeps
  <1> QED BY <1>7 DEF h, n

(* Others than the worker speak after it.                                  *)
LEMMA SpeakingGrows ==
    ASSUME NEW q \in Seq(Groups), NEW g, g.task # "worker", NEW t, NEW at,
           NEW acc, NEW acc1, Speaking(q, t, at, acc),
           \A i \in DOMAIN q : q[i].task = "worker" =>
             LET c == q[i].command IN
             \/ Says(g, c) = {} /\ (c \in acc1 => c \in acc)
             \/ at = "finishing" /\ Says(g, c) = {"accepted"}
             \/ at = "finishing" /\ c \in acc /\ c \notin acc1
    PROVE  Speaking(Append(q, g), t, at, acc1)
  <1> DEFINE p == Append(q, g)
  <1>1. /\ Len(q) \in Nat /\ Len(p) = Len(q) + 1 /\ p[Len(q) + 1] = g
        /\ DOMAIN q = 1 .. Len(q) /\ DOMAIN p = 1 .. Len(q) + 1
        /\ \A i \in 1 .. Len(q) : p[i] = q[i]
    OBVIOUS
  <1> SUFFICES ASSUME NEW i \in DOMAIN p, p[i].task = "worker"
               PROVE  /\ \A c \in Commands : c # p[i].command => Says(p[i], c) = {}
                      /\ Trails(Story(p, t, p[i].command), Len(p), i,
                                p[i].command, at, acc1)
    BY DEF Speaking
  <1>2. i \in 1 .. Len(q) /\ p[i] = q[i]
    <2>1. i # Len(q) + 1
      BY <1>1
    <2>2. i \in 1 .. Len(q)
      BY <1>1, <2>1
    <2> QED BY <1>1, <2>2
  <1>3. /\ \A c \in Commands : c # q[i].command => Says(q[i], c) = {}
        /\ Trails(Story(q, t, q[i].command), Len(q), i, q[i].command, at, acc)
    BY <1>1, <1>2 DEF Speaking
  <1> DEFINE c == q[i].command
  <1>4. /\ Story(p, t, c)[Len(q) + 1] = Says(g, c)
        /\ \A k \in 0 .. Len(q) : Story(p, t, c)[k] = Story(q, t, c)[k]
    BY Grown
  <1>5. \/ Says(g, c) = {} /\ (c \in acc1 => c \in acc)
        \/ at = "finishing" /\ Says(g, c) = {"accepted"}
        \/ at = "finishing" /\ c \in acc /\ c \notin acc1
    BY <1>1, <1>2
  <1>6. Trails(Story(q, t, c), Len(q), i, c, at, acc)
    BY <1>3
  <1> DEFINE f == Story(q, t, c)
             h == Story(p, t, c)
             n == Len(q)
  <1> HIDE DEF p, c
  <1>7. Trails(h, n + 1, i, c, at, acc1)
    <2>1. /\ n \in Nat /\ i \in 1 .. n /\ Trails(f, n, i, c, at, acc)
          /\ \A k \in 0 .. n : h[k] = f[k]
          /\ \/ h[n + 1] = {} /\ (c \in acc1 => c \in acc)
             \/ at = "finishing" /\ h[n + 1] = {"accepted"}
             \/ at = "finishing" /\ c \in acc /\ c \notin acc1
      BY <1>1, <1>2, <1>4, <1>5, <1>6
    <2> HIDE DEF f, h, n
    <2> QED BY <2>1, TrailsGrow
  <1> QED BY <1>1, <1>2, <1>3, <1>7 DEF c

(* The worker speaks when it was silent.                                   *)
LEMMA SpeakingBegins ==
    ASSUME NEW q \in Seq(Groups), Silent(q), NEW g, NEW t, NEW at, NEW acc,
           \A c \in Commands : c # g.command => Says(g, c) = {},
           at = "finishing" => g.command \notin acc
    PROVE  Speaking(Append(q, g), t, at, acc)
  <1> DEFINE p == Append(q, g)
  <1>1. /\ Len(q) \in Nat /\ Len(p) = Len(q) + 1 /\ p[Len(q) + 1] = g
        /\ DOMAIN q = 1 .. Len(q) /\ DOMAIN p = 1 .. Len(q) + 1
        /\ \A i \in 1 .. Len(q) : p[i] = q[i]
    OBVIOUS
  <1> SUFFICES ASSUME NEW i \in DOMAIN p, p[i].task = "worker"
               PROVE  /\ \A c \in Commands : c # p[i].command => Says(p[i], c) = {}
                      /\ Trails(Story(p, t, p[i].command), Len(p), i,
                                p[i].command, at, acc)
    BY DEF Speaking
  <1> HIDE DEF p
  <1>2. i = Len(q) + 1 /\ p[i] = g
    BY <1>1 DEF Silent
  <1>3. \A f, c : (at = "finishing" => c \notin acc) =>
                       Trails(f, Len(q) + 1, Len(q) + 1, c, at, acc)
    BY <1>1 DEF Trails, Hush
  <1> QED BY <1>1, <1>2, <1>3

LEMMA SpeakingShrinks ==
    ASSUME NEW q \in Seq(Groups), q # <<>>, NEW t, NEW at, NEW acc,
           Speaking(q, t, at, acc)
    PROVE  Speaking(Tail(q), t, at, acc)
  <1> DEFINE p == Tail(q)
  <1>0. 1 \in DOMAIN q
    OBVIOUS
  <1>1. /\ Len(q) \in Nat /\ Len(p) = Len(q) - 1
        /\ \A i \in 1 .. Len(q) - 1 : p[i] = q[i + 1]
        /\ DOMAIN q = 1 .. Len(q) /\ DOMAIN p = 1 .. Len(q) - 1
    OBVIOUS
  <1> SUFFICES ASSUME NEW i \in DOMAIN p, p[i].task = "worker"
               PROVE  /\ \A c \in Commands : c # p[i].command => Says(p[i], c) = {}
                      /\ Trails(Story(p, t, p[i].command), Len(p), i,
                                p[i].command, at, acc)
    BY DEF Speaking
  <1> DEFINE c == p[i].command
  <1>2. \A k \in 0 .. Len(q) - 1 :
           Story(p, t, c)[k] = IF k < 1 THEN Story(q, t, c)[k]
                               ELSE Story(q, t, c)[k + 1]
    BY Beheaded, Shrunk
  <1> HIDE DEF p
  <1>3. p[i] = q[i + 1] /\ i + 1 \in DOMAIN q /\ i \in 1 .. Len(q)
    BY <1>1
  <1>4. /\ \A d \in Commands : d # c => Says(p[i], d) = {}
        /\ Trails(Story(q, t, c), Len(q), i + 1, c, at, acc)
    BY <1>3 DEF Speaking
  <1> HIDE DEF c
  <1>5. \A k \in 1 .. Len(q) - 1 : Story(p, t, c)[k] = Story(q, t, c)[k + 1]
    BY <1>1, <1>2
  <1>6. Trails(Story(p, t, c), Len(q) - 1, i, c, at, acc)
    BY <1>1, <1>3, <1>4, <1>5, TrailsShrink
  <1> QED BY <1>1, <1>4, <1>6 DEF c

LEMMA SilentSpeaks ==
    ASSUME NEW q, Silent(q), NEW t, NEW at, NEW acc
    PROVE  Speaking(q, t, at, acc)
  BY DEF Silent, Speaking

LEMMA OnceGrows ==
    ASSUME NEW q \in Seq(Groups), AllOnce(q), NEW g, OnceEach(g.events)
    PROVE  AllOnce(Append(q, g))
  <1>1. \A i \in DOMAIN Append(q, g) :
            \/ i \in DOMAIN q /\ Append(q, g)[i] = q[i]
            \/ Append(q, g)[i] = g
    OBVIOUS
  <1> QED BY <1>1 DEF AllOnce

LEMMA OnceShrinks ==
    ASSUME NEW q \in Seq(Groups), AllOnce(q), NEW p, NEW d \in 1 .. Len(q),
           Without(p, q, d)
    PROVE  AllOnce(p)
  <1>1. /\ p \in Seq(Groups) /\ Len(q) \in Nat /\ DOMAIN q = 1 .. Len(q)
        /\ DOMAIN p = 1 .. Len(q) - 1
        /\ \A i \in 1 .. Len(q) - 1 : p[i] = IF i < d THEN q[i] ELSE q[i + 1]
    <2>1. /\ p \in Seq(Groups) /\ Len(p) = Len(q) - 1
          /\ \A i \in 1 .. Len(q) - 1 : p[i] = IF i < d THEN q[i] ELSE q[i + 1]
      BY DEF Without
    <2>2. Len(q) \in Nat /\ DOMAIN q = 1 .. Len(q) /\ DOMAIN p = 1 .. Len(p)
      BY <2>1, LenProperties
    <2> QED BY <2>1, <2>2
  <1>2. \A i \in 1 .. Len(q) - 1 : i \in DOMAIN q /\ i + 1 \in DOMAIN q
    BY <1>1
  <1> QED BY <1>1, <1>2 DEF AllOnce

(* Group g, of which d is the command, says only w, and only of d.         *)
Announces(g, d, w) ==
    /\ g.command = d /\ OnceEach(g.events)
    /\ \A c \in Commands : Says(g, c) = IF c = d THEN {w} ELSE {}

(* What the worker publishes announces one thing of one command.           *)
LEMMA PairSays ==
    ASSUME NEW d \in Commands, NEW w, w \in Told, NEW n, NEW intr
    PROVE  /\ Announces(Group("worker", d, intr,
                              <<Lifecycle(d, w), Snapshot(n)>>), d, w)
           /\ Announces(Group("worker", d, intr,
                              <<Snapshot(n), Lifecycle(d, w)>>), d, w)
  <1>1. /\ Lifecycle(d, w).command = d /\ Lifecycle(d, w).what = w
        /\ Snapshot(n).command \notin Commands
    BY DEF Lifecycle, Snapshot
  <1>2. ASSUME NEW q, NEW k \in {1, 2}, DOMAIN q = {1, 2},
               q[k] = Lifecycle(d, w),
               \A l \in {1, 2} : l # k => q[l] = Snapshot(n)
        PROVE  Announces(Group("worker", d, intr, q), d, w)
    <2> DEFINE g == Group("worker", d, intr, q)
    <2>1. g.command = d /\ g.events = q
      BY DEF Group
    <2> HIDE DEF g
    <2>2. OnceEach(q)
      BY <1>1, <1>2 DEF OnceEach
    <2>3. \A c : Says(g, c) = {x \in Told : \E l \in DOMAIN q :
                                  q[l].command = c /\ q[l].what = x}
      BY <2>1 DEF Says
    <2>4. \A l \in DOMAIN q : \A c \in Commands :
             q[l].command = c => c = d /\ q[l].what = w
      BY <1>1, <1>2
    <2>5. Says(g, d) = {w}
      <3>1. w \in Says(g, d)
        BY <1>1, <1>2, <2>3
      <3> QED BY <2>3, <2>4, <3>1
    <2>6. \A c \in Commands : c # d => Says(g, c) = {}
      BY <2>3, <2>4
    <2> QED BY <2>1, <2>2, <2>5, <2>6 DEF Announces, g
  <1>3. Announces(Group("worker", d, intr, <<Lifecycle(d, w), Snapshot(n)>>), d, w)
    <2> DEFINE q == <<Lifecycle(d, w), Snapshot(n)>>
    <2>1. DOMAIN q = {1, 2} /\ q[1] = Lifecycle(d, w) /\ q[2] = Snapshot(n)
      OBVIOUS
    <2> HIDE DEF q
    <2>2. Announces(Group("worker", d, intr, q), d, w)
      BY <1>2, <2>1
    <2> QED BY <2>2 DEF q
  <1>4. Announces(Group("worker", d, intr, <<Snapshot(n), Lifecycle(d, w)>>), d, w)
    <2> DEFINE q == <<Snapshot(n), Lifecycle(d, w)>>
    <2>1. DOMAIN q = {1, 2} /\ q[2] = Lifecycle(d, w) /\ q[1] = Snapshot(n)
      OBVIOUS
    <2> HIDE DEF q
    <2>2. Announces(Group("worker", d, intr, q), d, w)
      BY <1>2, <2>1
    <2> QED BY <2>2 DEF q
  <1> QED BY <1>3, <1>4

LEMMA AcceptanceWords ==
    ASSUME NEW g, NEW c \in Commands, NEW n \in Nat,
           NEW jobs \in Seq(Commands), IsInjective(jobs), c \notin ToSet(jobs),
           g.events = Acceptance(c, n, jobs)
    PROVE  /\ OnceEach(g.events) /\ Says(g, c) = {"accepted"}
           /\ \A d \in Commands : d # c =>
                  Says(g, d) = IF d \in ToSet(jobs) THEN {"cancelled"} ELSE {}
  <1> DEFINE q == g.events
  <1>1. Accepts(q, c, n, jobs)
    BY AcceptanceSays
  <1>2. /\ \A d, w : Lifecycle(d, w).command = d /\ Lifecycle(d, w).what = w
        /\ Snapshot(n).command \notin Commands
    BY DEF Lifecycle, Snapshot
  <1>3. \A d : Says(g, d) = {x \in Told : \E l \in DOMAIN q :
                                q[l].command = d /\ q[l].what = x}
    BY DEF Says
  <1> HIDE DEF q
  <1>4. /\ DOMAIN jobs \subseteq Int /\ DOMAIN q \subseteq Int
        /\ \A k, l \in DOMAIN jobs : jobs[k] = jobs[l] => k = l
        /\ \A k \in DOMAIN jobs : jobs[k] # c /\ jobs[k] \in ToSet(jobs)
    <2>1. q \in Seq(Event)
      BY <1>1 DEF Accepts
    <2> QED BY <2>1 DEF IsInjective, ToSet
  <1>5. ASSUME NEW i \in DOMAIN q, q[i].command \in Commands
        PROVE  \/ i = 1 /\ q[i].command = c /\ q[i].what = "accepted"
               \/ /\ i # 1 /\ i - 2 \in DOMAIN jobs
                  /\ q[i].command = jobs[i - 2] /\ q[i].what = "cancelled"
    BY <1>1, <1>2, <1>5 DEF Accepts
  <1>6. OnceEach(q)
    <2> SUFFICES ASSUME NEW k \in DOMAIN q, NEW l \in DOMAIN q,
                        q[k].command \in Commands,
                        q[l].command = q[k].command
                 PROVE  k = l
      BY DEF OnceEach
    <2>1. CASE k = 1 \/ l = 1
      BY <1>4, <1>5, <2>1
    <2>2. CASE k # 1 /\ l # 1
      <3>1. k - 2 = l - 2
        BY <1>4, <1>5, <2>2
      <3> QED BY <1>4, <3>1
    <2> QED BY <2>1, <2>2
  <1>7. Says(g, c) = {"accepted"}
    <2>1. 1 \in DOMAIN q /\ q[1].command = c /\ q[1].what = "accepted"
      BY <1>1, <1>2 DEF Accepts
    <2>2. \A i \in DOMAIN q : q[i].command = c => q[i].what = "accepted"
      BY <1>4, <1>5
    <2>3. "accepted" \in Says(g, c)
      BY <1>3, <2>1
    <2>4. \A x \in Says(g, c) : x = "accepted"
      BY <1>3, <2>2
    <2> QED BY <2>3, <2>4
  <1>8. ASSUME NEW d \in Commands, d # c
        PROVE  Says(g, d) = IF d \in ToSet(jobs) THEN {"cancelled"} ELSE {}
    <2>1. \A i \in DOMAIN q : q[i].command = d =>
              q[i].what = "cancelled" /\ d \in ToSet(jobs)
      BY <1>4, <1>5, <1>8
    <2>2. ASSUME d \in ToSet(jobs)
          PROVE  \E i \in DOMAIN q : q[i].command = d /\ q[i].what = "cancelled"
      <3>1. PICK k \in DOMAIN jobs : jobs[k] = d
        BY <2>2 DEF ToSet
      <3> QED BY <1>1, <1>2, <3>1 DEF Accepts
    <2>3. CASE d \in ToSet(jobs)
      <3>1. Says(g, d) = {"cancelled"}
        BY <1>3, <2>1, <2>2, <2>3
      <3> QED BY <2>3, <3>1
    <2>4. CASE d \notin ToSet(jobs)
      <3>1. Says(g, d) = {}
        BY <1>3, <2>1, <2>4
      <3> QED BY <2>4, <3>1
    <2> QED BY <2>3, <2>4
  <1> QED BY <1>6, <1>7, <1>8 DEF q

LEMMA ShutdownWords ==
    ASSUME revision \in Nat, NEW g, NEW jobs \in Seq(Commands),
           IsInjective(jobs), g.events = Shutdown(jobs)
    PROVE  /\ OnceEach(g.events)
           /\ \A d \in Commands :
                  Says(g, d) = IF d \in ToSet(jobs) THEN {"shutdown"} ELSE {}
  <1> DEFINE q == g.events
  <1>1. /\ \A i \in DOMAIN q : \/ q[i].command = None
                               \/ /\ i \div 2 \in DOMAIN jobs /\ i = 2 * (i \div 2)
                                  /\ q[i] = Lifecycle(jobs[i \div 2], "shutdown")
        /\ \A k \in DOMAIN jobs :
               /\ 2 * k \in DOMAIN q
               /\ q[2 * k] = Lifecycle(jobs[k], "shutdown")
    BY ShutdownSays
  <1>2. \A d, w : Lifecycle(d, w).command = d /\ Lifecycle(d, w).what = w
    BY DEF Lifecycle
  <1>3. \A d : Says(g, d) = {x \in Told : \E l \in DOMAIN q :
                                q[l].command = d /\ q[l].what = x}
    BY DEF Says
  <1> HIDE DEF q
  <1>4. /\ \A k, l \in DOMAIN jobs : jobs[k] = jobs[l] => k = l
        /\ \A k \in DOMAIN jobs : jobs[k] \in ToSet(jobs)
    BY DEF IsInjective, ToSet
  <1>5. ASSUME NEW i \in DOMAIN q, q[i].command \in Commands
        PROVE  /\ i \div 2 \in DOMAIN jobs /\ i = 2 * (i \div 2)
               /\ q[i].command = jobs[i \div 2] /\ q[i].what = "shutdown"
    BY <1>1, <1>2, <1>5
  <1>6. OnceEach(q)
    <2> SUFFICES ASSUME NEW k \in DOMAIN q, NEW l \in DOMAIN q,
                        q[k].command \in Commands,
                        q[l].command = q[k].command
                 PROVE  k = l
      BY DEF OnceEach
    <2>1. k \div 2 = l \div 2
      BY <1>4, <1>5
    <2> QED BY <1>5, <2>1
  <1>7. ASSUME NEW d \in Commands
        PROVE  Says(g, d) = IF d \in ToSet(jobs) THEN {"shutdown"} ELSE {}
    <2>1. \A i \in DOMAIN q : q[i].command = d =>
              q[i].what = "shutdown" /\ d \in ToSet(jobs)
      BY <1>4, <1>5
    <2>2. ASSUME d \in ToSet(jobs)
          PROVE  \E i \in DOMAIN q : q[i].command = d /\ q[i].what = "shutdown"
      <3>1. PICK k \in DOMAIN jobs : jobs[k] = d
        BY <2>2 DEF ToSet
      <3> QED BY <1>1, <1>2, <3>1
    <2>3. CASE d \in ToSet(jobs)
      <3>1. Says(g, d) = {"shutdown"}
        BY <1>3, <2>1, <2>2, <2>3
      <3> QED BY <2>3, <3>1
    <2>4. CASE d \notin ToSet(jobs)
      <3>1. Says(g, d) = {}
        BY <1>3, <2>1, <2>4
      <3> QED BY <2>4, <3>1
    <2> QED BY <2>3, <2>4
  <1> QED BY <1>6, <1>7 DEF q

LEMMA Standing ==
    ASSUME Books, Contract
    PROVE  /\ TypeInv /\ emissions \in Seq(Groups) /\ AllOnce(emissions)
           /\ Agreed(emissions, LastTold, Waiting, current, accepted, worker,
                     subscribers)
           /\ current \notin Waiting /\ Waiting \subseteq accepted
           /\ accepted \subseteq Commands
           /\ current \in Commands <=> current \in accepted
           /\ \A c \in accepted : c \in Waiting \/ c = current
           /\ \A i \in DOMAIN direct : direct[i].what = "state"
           /\ closing = "open" => Speaking(emissions, LastTold, worker, accepted)
  <1>1. /\ accepted = Waiting \union Owing /\ current \notin Waiting
        /\ current \in Commands \union {None} /\ accepted \subseteq Commands
    BY DEF Books, Bookkeeping, TypeInv, TypeOK
  <1> QED BY <1>1 DEF Books, Contract, AllOnce, TypeInv, TypeOK, Owing

(* A step in which nobody is told anything and nothing is said of the      *)
(* jobs' order but by the groups.                                          *)
LEMMA ContractIs ==
    ASSUME log' = log, direct' = direct, subscribers' = subscribers, Contract,
           AllOnce(emissions'),
           Agreed(emissions', LastTold, Waiting', current', accepted', worker',
                  subscribers),
           closing' = "open" => Speaking(emissions', LastTold, worker', accepted')
    PROVE  Contract'
  <1>1. LastTold' = LastTold
    BY DEF LastTold
  <1> QED BY <1>1 DEF Contract, AllOnce

(* The worker's group is about the running job, or about one it has done   *)
(* with.                                                                   *)
LEMMA WorkerGroup ==
    ASSUME Books, Interrupting, closing = "open", NEW i \in DOMAIN emissions,
           emissions[i].task = "worker"
    PROVE  /\ worker \in {"starting", "moving", "finishing"}
           /\ emissions[i].command \in Commands
           /\ worker # "finishing" => emissions[i].command = current
           /\ worker = "finishing" => current = None
           /\ \A j \in DOMAIN emissions : emissions[j].task = "worker" => j = i
  <1>1. /\ Marked(emissions, worker, current, restId, accepted)
        /\ emissions \in Seq(Groups) /\ WorkerHoldsJob
    BY DEF Interrupting, Books, TypeInv, TypeOK
  <1>2. emissions[i] \in Groups
    BY <1>1, ElementOfSeq, LenProperties
  <1> QED BY <1>1, <1>2 DEF Marked, Groups, WorkerHoldsJob

(* An acceptance, with the jobs it cancels.                                *)
LEMMA ContractQueued ==
    ASSUME Books, Interrupting, Contract, NEW c \in Commands, NEW intr,
           NEW jobs \in Seq(Commands), Queued(c, jobs, intr), IsInjective(jobs),
           ToSet(jobs) \subseteq Waiting, closing = "open", c \notin accepted,
           subscribers' = subscribers,
           accepted' = (accepted \ ToSet(jobs)) \union {c},
           Waiting' = (Waiting \ ToSet(jobs)) \union {c}
    PROVE  Contract'
  <1> DEFINE t == LastTold
             n == revision + 1
             g == Group("enqueue", c, intr, Acceptance(c, n, jobs))
             gone == ToSet(jobs)
  <1>1. /\ emissions' = Append(emissions, g)
        /\ current' = current /\ worker' = worker /\ log' = log
        /\ direct' = direct /\ closing' = closing
    BY DEF Queued, Acceptance
  <1>2. g.events = Acceptance(c, n, jobs) /\ g.task = "enqueue" /\ n \in Nat
    BY DEF Group, Books, TypeInv, TypeOK
  <1> HIDE DEF n, g
  <1>3. /\ c \notin gone /\ c # current
        /\ emissions \in Seq(Groups) /\ AllOnce(emissions)
        /\ current \notin Waiting /\ Waiting \subseteq accepted
        /\ accepted \subseteq Commands
        /\ current \in Commands <=> current \in accepted
        /\ Agreed(emissions, t, Waiting, current, accepted, worker, subscribers)
        /\ Speaking(emissions, t, worker, accepted)
    BY Standing
  <1>4. /\ OnceEach(g.events) /\ Says(g, c) = {"accepted"}
        /\ \A d \in Commands : d # c =>
               Says(g, d) = IF d \in gone THEN {"cancelled"} ELSE {}
    BY <1>2, <1>3, AcceptanceWords
  <1> HIDE DEF gone
  <1>5. subscribers \in {"prompt", "suspending"}
    BY DEF Books, TypeInv, TypeOK, Subscribers
  <1>6. ASSUME NEW d \in Commands
        PROVE \/ /\ Says(g, d) = {}
                 /\ Keeps(d, Waiting, current, accepted, worker,
                          Waiting', current, accepted', worker)
              \/ Fits(emissions, t, g, d, Waiting', current, accepted', worker,
                      subscribers)
    <2>1. Agrees(Story(emissions, t, d), Len(emissions), d, Waiting, current,
                 accepted, worker, subscribers)
      BY <1>3 DEF Agreed
    <2>2. CASE d = c
      <3>1. Says(g, d) = {"accepted"} /\ d # current
        BY <1>3, <1>4, <2>2
      <3>2. CASE subscribers = "suspending"
        BY <3>1, <3>2 DEF Fits
      <3>3. CASE subscribers = "prompt"
        <4>1. Ends(Story(emissions, t, d), Len(emissions), Ended)
          BY <2>1, <2>2, <3>3 DEF Agrees
        <4>2. \A a \in Ended : May(a, "accepted", subscribers)
          BY DEF May, Follows
        <4>3. c \in accepted'
          OBVIOUS
        <4> QED BY <2>2, <3>1, <4>1, <4>2, <4>3 DEF Fits
      <3> QED BY <1>5, <3>2, <3>3
    <2>3. CASE d # c /\ d \in gone
      <3>1. /\ Says(g, d) = {"cancelled"} /\ d # current /\ d \in Waiting
            /\ d \notin Waiting'
        BY <1>3, <1>4, <2>3 DEF gone
      <3>2. Ends(Story(emissions, t, d), Len(emissions), {"accepted"})
        BY <2>1, <3>1 DEF Agrees
      <3>3. \A a \in {"accepted"} : May(a, "cancelled", subscribers)
        BY DEF May, Follows, Owed, Lifecycles!Owed
      <3>4. "cancelled" \in Ended
        BY DEF Ended, Lifecycles!Ended
      <3> QED BY <3>1, <3>2, <3>3, <3>4 DEF Fits
    <2>4. CASE d # c /\ d \notin gone
      <3>1. Says(g, d) = {}
        BY <1>4, <2>4
      <3>2. /\ d \in Waiting' => d \in Waiting
            /\ d \in accepted' <=> d \in accepted
        BY <2>4 DEF gone
      <3>3. Keeps(d, Waiting, current, accepted, worker,
                  Waiting', current, accepted', worker)
        BY <3>2 DEF Keeps
      <3> QED BY <3>1, <3>3
    <2> QED BY <2>2, <2>3, <2>4
  <1>7. Agreed(Append(emissions, g), t, Waiting', current, accepted', worker,
               subscribers)
    <2> HIDE DEF t
    <2> DEFINE wait1 == Waiting'
               acc1 == accepted'
    <2>1. \A d \in Commands :
              \/ /\ Says(g, d) = {}
                 /\ Keeps(d, Waiting, current, accepted, worker,
                          wait1, current, acc1, worker)
              \/ Fits(emissions, t, g, d, wait1, current, acc1, worker,
                      subscribers)
      BY <1>6
    <2> HIDE DEF wait1, acc1
    <2>2. Agreed(Append(emissions, g), t, wait1, current, acc1, worker,
                 subscribers)
      BY <1>3, <2>1, AgreedGrows
    <2> QED BY <2>2 DEF wait1, acc1
  <1>8. Speaking(Append(emissions, g), t, worker, accepted')
    <2>1. ASSUME NEW i \in DOMAIN emissions, emissions[i].task = "worker",
                 NEW e, e = emissions[i].command
          PROVE  \/ Says(g, e) = {} /\ (e \in accepted' => e \in accepted)
                 \/ worker = "finishing" /\ Says(g, e) = {"accepted"}
                 \/ worker = "finishing" /\ e \in accepted /\ e \notin accepted'
      <3>1. /\ e \in Commands
            /\ worker # "finishing" => e = current
            /\ worker = "finishing" => current = None
        BY <2>1, WorkerGroup
      <3>2. CASE e = c
        BY <1>3, <1>4, <3>1, <3>2
      <3>3. CASE e # c /\ e \in gone
        BY <1>3, <3>1, <3>3 DEF gone
      <3>4. CASE e # c /\ e \notin gone
        BY <1>4, <3>1, <3>4 DEF gone
      <3> QED BY <3>2, <3>3, <3>4
    <2> HIDE DEF t
    <2> DEFINE acc1 == accepted'
    <2>2. \A i \in DOMAIN emissions : emissions[i].task = "worker" =>
            LET e == emissions[i].command IN
            \/ Says(g, e) = {} /\ (e \in acc1 => e \in accepted)
            \/ worker = "finishing" /\ Says(g, e) = {"accepted"}
            \/ worker = "finishing" /\ e \in accepted /\ e \notin acc1
      BY <2>1
    <2> HIDE DEF acc1
    <2>3. g.task # "worker"
      BY <1>2
    <2>4. Speaking(Append(emissions, g), t, worker, acc1)
      BY <1>3, <2>2, <2>3, SpeakingGrows
    <2> QED BY <2>4 DEF acc1
  <1>9. AllOnce(Append(emissions, g))
    BY <1>3, <1>4, OnceGrows
  <1> QED BY <1>1, <1>7, <1>8, <1>9, ContractIs

LEMMA ContractEnqueue ==
    ASSUME Books, Interrupting, Contract, NEW c \in Commands,
           Enqueue(c) \/ EnqueueRest(c)
    PROVE  Contract'
  <1>1. /\ closing = "open" /\ c \notin accepted /\ subscribers' = subscribers
        /\ waiting \in Seq(Commands) /\ IsInjective(waiting)
    BY DEF Enqueue, EnqueueRest, Admissible, Spend, Books, AcceptedAreSeen,
           Bookkeeping, TypeInv, TypeOK
  <1>2. CASE Enqueue(c)
    <2>1. /\ Queued(c, <<>>, FALSE) /\ waiting' = Append(waiting, c)
          /\ accepted' = accepted \union {c}
      BY <1>2 DEF Enqueue
    <2>2. ToSet(<<>>) = {} /\ IsInjective(<<>>) /\ <<>> \in Seq(Commands)
      BY EmptySet, EmptySeq
    <2>3. Waiting' = Waiting \union {c}
      BY <1>1, <2>1, AppendSet
    <2> QED BY <1>1, <2>1, <2>2, <2>3, ContractQueued
  <1>3. CASE EnqueueRest(c)
    <2>1. /\ Queued(c, waiting, current # None /\ ~IsRest(current))
          /\ waiting' = <<c>> /\ accepted' = (accepted \ Waiting) \union {c}
      BY <1>3 DEF EnqueueRest
    <2>2. Waiting' = {c}
      BY <2>1, SingleSet
    <2>3. (Waiting \ Waiting) \union {c} = {c}
      OBVIOUS
    <2> QED BY <1>1, <2>1, <2>2, <2>3, ContractQueued
  <1> QED BY <1>2, <1>3

(* What may have been said last of job d, which the worker holds or takes. *)
Before(d, wait, at) == IF d \in wait THEN {"accepted"} ELSE Stage(at)

(* The worker goes on with d, or is done with it: w is to be said of it.   *)
GoesOn(d, w, wait, cur, acc, at, wait1, cur1, acc1, at1) ==
    /\ d \in wait \/ (d = cur /\ d \in acc)
    /\ \A a \in Before(d, wait, at) : Follows(a, w)
    /\ d \notin wait1 /\ wait1 \subseteq wait
    /\ cur1 \in Commands => cur1 = d
    /\ cur1 = d => w \in Stage(at1)
    /\ acc \subseteq acc1 \union {d}
    /\ d \notin acc1 => w \in Ended
    /\ at1 = "finishing" => d \notin acc1

(* The worker, silent so far, says w of the job d it holds.                *)
LEMMA WorkerSpeaks ==
    ASSUME NEW q \in Seq(Groups), Silent(q), AllOnce(q), NEW t, NEW who,
           NEW wait, NEW cur, NEW acc, NEW at, NEW wait1, NEW cur1, NEW acc1,
           NEW at1, Agreed(q, t, wait, cur, acc, at, who),
           NEW d \in Commands, NEW w, NEW g, Announces(g, d, w),
           GoesOn(d, w, wait, cur, acc, at, wait1, cur1, acc1, at1)
    PROVE  /\ Agreed(Append(q, g), t, wait1, cur1, acc1, at1, who)
           /\ Speaking(Append(q, g), t, at1, acc1)
           /\ AllOnce(Append(q, g))
  <1>0. /\ d \in wait \/ (d = cur /\ d \in acc)
        /\ \A a \in Before(d, wait, at) : Follows(a, w)
        /\ d \notin wait1 /\ wait1 \subseteq wait
        /\ cur1 \in Commands => cur1 = d
        /\ cur1 = d => w \in Stage(at1)
        /\ acc \subseteq acc1 \union {d}
        /\ d \notin acc1 => w \in Ended
        /\ at1 = "finishing" => d \notin acc1
    BY DEF GoesOn
  <1>1. /\ OnceEach(g.events) /\ Says(g, d) = {w} /\ g.command = d
        /\ \A c \in Commands : c # d => Says(g, c) = {}
    BY DEF Announces
  <1>2. ASSUME NEW c \in Commands
        PROVE \/ /\ Says(g, c) = {}
                 /\ Keeps(c, wait, cur, acc, at, wait1, cur1, acc1, at1)
              \/ Fits(q, t, g, c, wait1, cur1, acc1, at1, who)
    <2>1. CASE c = d
      <3>1. Ends(Story(q, t, c), Len(q), Before(d, wait, at))
        BY <1>0, <2>1 DEF Agreed, Agrees, Before
      <3>2. \A a \in Before(d, wait, at) : May(a, w, who)
        BY <1>0 DEF May
      <3> QED BY <1>0, <1>1, <2>1, <3>1, <3>2 DEF Fits
    <2>2. CASE c # d
      BY <1>0, <1>1, <2>2 DEF Keeps
    <2> QED BY <2>1, <2>2
  <1>3. Agreed(Append(q, g), t, wait1, cur1, acc1, at1, who)
    BY <1>2, AgreedGrows
  <1>4. Speaking(Append(q, g), t, at1, acc1)
    BY <1>0, <1>1, SpeakingBegins
  <1> QED BY <1>1, <1>3, <1>4, OnceGrows

(* Everything is in the same order as before, and the worker is silent or  *)
(* nothing moved.                                                          *)
LEMMA AgreedKeeps ==
    ASSUME NEW q, NEW t, NEW who,
           NEW wait, NEW cur, NEW acc, NEW at,
           NEW wait1, NEW cur1, NEW acc1, NEW at1,
           Agreed(q, t, wait, cur, acc, at, who),
           \A c \in Commands :
               Keeps(c, wait, cur, acc, at, wait1, cur1, acc1, at1)
    PROVE  Agreed(q, t, wait1, cur1, acc1, at1, who)
  <1> SUFFICES ASSUME NEW c \in Commands
               PROVE  Agrees(Story(q, t, c), Len(q), c, wait1, cur1, acc1, at1, who)
    BY DEF Agreed
  <1> DEFINE f == Story(q, t, c)
             n == Len(q)
  <1>1. Agrees(f, n, c, wait, cur, acc, at, who)
    BY DEF Agreed
  <1> HIDE DEF f, n
  <1>2. Turns(f, n, who)
    BY <1>1 DEF Agrees
  <1>3. Agrees(f, n, c, wait1, cur1, acc1, at1, who)
    BY <1>1, <1>2, AgreesKeeps
  <1> QED BY <1>3 DEF f, n

(* A step that leaves the log, the direct events and the subscribers alone *)
Unheard == log' = log /\ direct' = direct /\ subscribers' = subscribers

LEMMA QuietWorker ==
    ASSUME Books, Interrupting, worker \in {"idle", "popping", "ready",
                                            "sleeping", "slept"}
    PROVE  closing = "open" /\ Silent(emissions)
  <1>1. closing = "open"
    BY DEF Books, TypeInv, WorkerHoldsJob
  <1>2. Marked(emissions, worker, current, restId, accepted)
    BY <1>1 DEF Interrupting
  <1> QED BY <1>1, <1>2 DEF Marked, Silent

(* _run takes a job, and _run_job announces that it started.               *)
LEMMA ContractStart ==
    ASSUME Books, Interrupting, Contract, Pop \/ JobReady
    PROVE  Contract'
  <1>1. /\ Unheard /\ accepted' = accepted /\ closing' = closing
        /\ worker \in {"idle", "popping", "ready"} /\ revision \in Nat
    BY DEF Pop, JobReady, StartJob, Unheard, Books, TypeInv, TypeOK
  <1>2. /\ TypeInv /\ emissions \in Seq(Groups) /\ AllOnce(emissions)
        /\ Agreed(emissions, LastTold, Waiting, current, accepted, worker,
                  subscribers)
        /\ Silent(emissions) /\ accepted \subseteq Commands
        /\ Waiting \subseteq accepted /\ current \notin Waiting
        /\ current \in Commands => current \in accepted
    BY <1>1, Standing, QuietWorker
  <1> DEFINE t == LastTold
             wait == Waiting
             wait1 == Waiting'
             cur1 == current'
             at1 == worker'
             n == revision + 1
  <1>3. \/ /\ Pop /\ cur1 \in wait /\ wait1 = wait \ {cur1}
        \/ /\ JobReady /\ cur1 = current /\ current \in accepted
           /\ worker = "ready" /\ wait1 = wait
    <2>1. CASE Pop
      <3>1. /\ waiting # <<>> /\ waiting \in Seq(Commands)
            /\ current' = Head(waiting) /\ waiting' = Tail(waiting)
            /\ IsInjective(waiting)
        BY <2>1 DEF Pop, Books, Bookkeeping, TypeInv, TypeOK
      <3>2. /\ ToSet(waiting) = {Head(waiting)} \union ToSet(Tail(waiting))
            /\ Head(waiting) \notin ToSet(Tail(waiting))
        BY <3>1, TailSet
      <3> QED BY <2>1, <3>1, <3>2
    <2>2. CASE JobReady
      <3>1. /\ current' = current /\ waiting' = waiting /\ worker = "ready"
            /\ current \in Commands
        BY <2>2 DEF JobReady, Books, TypeInv, WorkerHoldsJob, Running
      <3> QED BY <1>2, <2>2, <3>1
    <2> QED BY <2>1, <2>2
  <1>4. cur1 \in Commands /\ cur1 \in accepted
    BY <1>2, <1>3
  <1>5. CASE StartJob(cur1, Tail(waiting)) \/ StartJob(cur1, waiting)
    <2> DEFINE g == Group("worker", cur1, FALSE,
                          <<Lifecycle(cur1, "started"), Snapshot(n)>>)
    <2>1. emissions' = Append(emissions, g) /\ at1 = "starting"
      BY <1>5 DEF StartJob
    <2>2. Announces(g, cur1, "started")
      BY <1>4, PairSays
    <2>3. /\ \A a \in Before(cur1, wait, worker) : Follows(a, "started")
          /\ cur1 \in wait \/ (cur1 = current /\ cur1 \in accepted)
          /\ "started" \in Stage(at1)
      BY <1>3, <1>4, <2>1, StageIs DEF Follows, Before
    <2>4. cur1 \notin wait1 /\ wait1 \subseteq wait
      BY <1>2, <1>3
    <2> HIDE DEF wait, wait1, cur1, at1, n, g, t
    <2>6. GoesOn(cur1, "started", wait, current, accepted, worker,
                 wait1, cur1, accepted, at1)
      BY <1>4, <2>1, <2>3, <2>4 DEF GoesOn
    <2>5. /\ Agreed(Append(emissions, g), t, wait1, cur1, accepted, at1,
                    subscribers)
          /\ Speaking(Append(emissions, g), t, at1, accepted)
          /\ AllOnce(Append(emissions, g))
      <3>1. /\ Agreed(emissions, t, wait, current, accepted, worker, subscribers)
            /\ emissions \in Seq(Groups) /\ Silent(emissions)
            /\ AllOnce(emissions) /\ cur1 \in Commands
        BY <1>2, <1>4 DEF t, wait
      <3> QED BY <2>2, <2>6, <3>1, WorkerSpeaks
    <2> QED BY <1>1, <2>1, <2>5, ContractIs DEF Unheard, wait1, cur1, at1, t
  <1>6. CASE Pop /\ emissions' = emissions /\ at1 = "ready"
    <2>1. cur1 \in wait /\ wait1 = wait \ {cur1}
      BY <1>2, <1>3, <1>6 DEF Pop, JobReady
    <2> HIDE DEF wait, wait1, cur1, at1, t
    <2>2. ASSUME NEW c \in Commands
          PROVE  Keeps(c, wait, current, accepted, worker,
                       wait1, cur1, accepted, at1)
      BY <1>6, <2>1, StageIs DEF Keeps
    <2>3. Agreed(emissions, t, wait1, cur1, accepted, at1, subscribers)
      BY <1>2, <2>2, AgreedKeeps DEF t, wait
    <2>4. Speaking(emissions, t, at1, accepted)
      BY <1>2, SilentSpeaks
    <2> QED BY <1>1, <1>2, <1>6, <2>3, <2>4, ContractIs
            DEF Unheard, wait1, cur1, at1, t
  <1> QED BY <1>3, <1>5, <1>6 DEF Pop, JobReady

LEMMA ContractMove ==
    ASSUME Books, Interrupting, Contract, Move
    PROVE  Contract'
  <1>1. /\ Unheard /\ accepted' = accepted /\ waiting' = waiting
        /\ current' = current /\ worker = "slept" /\ worker' = "moving"
        /\ current \in Commands /\ current \in accepted
    BY DEF Move, Unheard, Books, TypeInv, WorkerHoldsJob, Running, Bookkeeping,
           Owing
  <1>2. /\ emissions \in Seq(Groups) /\ AllOnce(emissions)
        /\ Agreed(emissions, LastTold, Waiting, current, accepted, "slept",
                  subscribers)
        /\ Silent(emissions) /\ current \notin Waiting
    BY <1>1, Standing, QuietWorker
  <1> DEFINE g == Group("worker", current, FALSE,
                        <<Lifecycle(current, "progress"), Snapshot(revision + 1)>>)
             t == LastTold
             wait == Waiting
  <1>3. emissions' = Append(emissions, g)
    BY DEF Move
  <1>4. Announces(g, current, "progress")
    BY <1>1, PairSays
  <1>5. GoesOn(current, "progress", wait, current, accepted, "slept",
               wait, current, accepted, "moving")
    BY <1>1, <1>2, StageIs DEF GoesOn, Before, Follows
  <1> HIDE DEF g, t, wait
  <1>6. Agreed(emissions, t, wait, current, accepted, "slept", subscribers)
    BY <1>2 DEF t, wait
  <1>7. /\ Agreed(Append(emissions, g), t, wait, current, accepted, "moving",
                  subscribers)
        /\ Speaking(Append(emissions, g), t, "moving", accepted)
        /\ AllOnce(Append(emissions, g))
    BY <1>1, <1>2, <1>4, <1>5, <1>6, WorkerSpeaks
  <1> QED BY <1>1, <1>3, <1>7, ContractIs DEF Unheard, t, wait

(* _finish_job up to its announcement.                                     *)
LEMMA FinishSpeaks ==
    ASSUME Books, Contract, Unheard, NEW q \in Seq(Groups), Silent(q), AllOnce(q),
           Agreed(q, LastTold, Waiting, current, accepted, worker, subscribers),
           NEW status, status \in Ended, status \in Told,
           \A a \in Stage(worker) : Follows(a, status),
           worker \in Running, Finish(current, status, q)
    PROVE  Contract'
  <1>1. /\ accepted' = accepted \ {current} /\ waiting' = waiting
        /\ current' = None /\ worker' = "finishing"
        /\ current \in Commands /\ current \in accepted
        /\ current \notin Waiting
    BY DEF Finish, Books, TypeInv, WorkerHoldsJob, Bookkeeping, Owing
  <1> DEFINE g == Group("worker", current, status = "cancelled",
                        <<Snapshot(revision + 1), Lifecycle(current, status)>>)
             t == LastTold
             wait == Waiting
             acc1 == accepted \ {current}
  <1>2. emissions' = Append(q, g)
    BY DEF Finish
  <1>3. Announces(g, current, status)
    BY <1>1, PairSays
  <1>4. GoesOn(current, status, wait, current, accepted, worker,
               wait, None, acc1, "finishing")
    BY <1>1 DEF GoesOn, Before
  <1> HIDE DEF g, t, wait, acc1
  <1>5. Agreed(q, t, wait, current, accepted, worker, subscribers)
    BY DEF t, wait
  <1>6. /\ Agreed(Append(q, g), t, wait, None, acc1, "finishing", subscribers)
        /\ Speaking(Append(q, g), t, "finishing", acc1)
        /\ AllOnce(Append(q, g))
    BY <1>1, <1>3, <1>4, <1>5, WorkerSpeaks
  <1> QED BY <1>1, <1>2, <1>6, ContractIs DEF Unheard, t, wait, acc1

LEMMA EndingWords ==
    /\ {"completed", "failed", "cancelled"} \subseteq Ended
    /\ {"completed", "failed", "cancelled"} \subseteq Told
    /\ \A at \in {"sleeping", "slept", "moving"} : \A a \in Stage(at) :
           Follows(a, "cancelled")
    /\ \A a \in Stage("sleeping") : Follows(a, "failed")
    /\ \A a \in Stage("moving") : Follows(a, "completed")
  BY StageIs DEF Ended, Lifecycles!Ended, Owed, Lifecycles!Owed, Follows

LEMMA ContractFinish ==
    ASSUME Books, Interrupting, Contract, Preempted \/ ClockFails \/ Complete
    PROVE  Contract'
  <1>1. Unheard
    BY DEF Preempted, ClockFails, Complete, Spend, Unheard
  <1>2. /\ emissions \in Seq(Groups) /\ AllOnce(emissions)
        /\ Agreed(emissions, LastTold, Waiting, current, accepted, worker,
                  subscribers)
    BY Standing
  <1>3. CASE Preempted
    <2>1. /\ worker \in {"sleeping", "slept"}
          /\ Finish(current, "cancelled", emissions) /\ Silent(emissions)
      BY <1>3, QuietWorker DEF Preempted
    <2> QED BY <1>1, <1>2, <2>1, EndingWords, FinishSpeaks DEF Running
  <1>4. CASE ClockFails
    <2>1. /\ worker = "sleeping"
          /\ Finish(current, "failed", emissions) /\ Silent(emissions)
      BY <1>4, QuietWorker DEF ClockFails
    <2> QED BY <1>1, <1>2, <2>1, EndingWords, FinishSpeaks DEF Running
  <1>5. CASE Complete
    <2> DEFINE q == Tail(emissions)
    <2>1. /\ emissions # <<>> /\ Head(emissions).events = <<>>
          /\ Head(emissions).task = "worker" /\ worker = "moving"
          /\ Finish(current, "completed", q)
      BY <1>5 DEF Complete, Delivered
    <2>2. Marked(emissions, worker, current, restId, accepted)
      BY <2>1 DEF Interrupting, Books, TypeInv, WorkerHoldsJob
    <2>3. q \in Seq(Groups) /\ Silent(q)
      BY <1>2, <2>1, <2>2, MarkedMoves
    <2>4. AllOnce(q)
      BY <1>2, <2>1, Beheaded, OnceShrinks
    <2>5. Agreed(q, LastTold, Waiting, current, accepted, worker, subscribers)
      BY <1>2, <2>1, AgreedShrinks
    <2> HIDE DEF q
    <2> QED BY <1>1, <2>1, <2>3, <2>4, <2>5, EndingWords, FinishSpeaks DEF Running
  <1> QED BY <1>3, <1>4, <1>5

(* A caller of _emit_group goes on when its group has been delivered.      *)
LEMMA ContractDelivered ==
    ASSUME Books, Interrupting, Contract,
           Announced \/ NextStep \/ Finished \/ EndClose
    PROVE  Contract'
  <1>1. /\ Unheard /\ accepted' = accepted /\ waiting' = waiting
        /\ current' = current /\ emissions' = Tail(emissions)
        /\ emissions # <<>> /\ Head(emissions).events = <<>>
    BY DEF Announced, NextStep, Finished, EndClose, Delivered, Unheard
  <1>2. /\ emissions \in Seq(Groups) /\ AllOnce(emissions)
        /\ Agreed(emissions, LastTold, Waiting, current, accepted, worker,
                  subscribers)
        /\ closing = "open" => Speaking(emissions, LastTold, worker, accepted)
        /\ accepted \subseteq Commands
    BY Standing
  <1>3. AllOnce(Tail(emissions))
    BY <1>1, <1>2, Beheaded, OnceShrinks
  <1>4. Stage(worker) \subseteq Stage(worker') \/ current \notin accepted
    <2>1. CASE Finished
      <3>1. current = None
        BY <2>1 DEF Finished, Books, TypeInv, WorkerHoldsJob
      <3> QED BY <1>2, <3>1
    <2>2. CASE ~Finished
      <3>1. \/ worker' = worker
            \/ worker \in {"starting", "moving"} /\ worker' = "sleeping"
        BY <2>2 DEF Announced, NextStep, EndClose
      <3> QED BY <3>1, StageIs
    <2> QED BY <2>1, <2>2
  <1>5. Agreed(Tail(emissions), LastTold, Waiting, current, accepted, worker',
               subscribers)
    BY <1>1, <1>2, <1>4, AgreedShrinks
  <1>6. ASSUME closing' = "open"
        PROVE  Speaking(Tail(emissions), LastTold, worker', accepted)
    <2>1. CASE Announced
      <3>1. closing = "open" /\ worker' = worker
        BY <1>6, <2>1 DEF Announced
      <3> QED BY <1>1, <1>2, <3>1, SpeakingShrinks
    <2>2. CASE NextStep \/ Finished
      <3>1. Head(emissions).task = "worker" /\ closing = "open"
        BY <1>6, <2>2 DEF NextStep, Finished, Delivered
      <3>2. Marked(emissions, worker, current, restId, accepted)
        BY <3>1 DEF Interrupting
      <3>3. Silent(Tail(emissions))
        BY <1>1, <1>2, <3>1, <3>2, MarkedMoves
      <3> QED BY <3>3, SilentSpeaks
    <2>3. CASE EndClose
      BY <1>6, <2>3 DEF EndClose
    <2> QED BY <2>1, <2>2, <2>3
  <1> QED BY <1>1, <1>3, <1>5, <1>6, ContractIs DEF Unheard

(* Steps that neither say nor announce anything.                           *)
LEMMA ContractQuiet ==
    ASSUME Books, Interrupting, Contract,
           \/ TimerFires \/ Settled \/ UNCHANGED vars
           \/ \E c \in Commands : Refuse(c)
           \/ Immediate
    PROVE  Contract'
  <1>1. /\ subscribers' = subscribers /\ log' = log
        /\ accepted' = accepted /\ waiting' = waiting
        /\ current' = current /\ emissions' = emissions /\ closing' = closing
        /\ worker' = worker \/ (worker = "sleeping" /\ worker' = "slept")
        /\ direct' = direct \/ (Immediate /\ worker' = worker)
    BY DEF TimerFires, Settled, Refuse, Immediate, Spend
  <1>2. LastTold' = LastTold
    BY <1>1 DEF LastTold
  <1>3. \A i \in DOMAIN direct' : direct'[i].what = "state"
    <2>1. CASE direct' = direct
      BY <2>1 DEF Contract
    <2>2. CASE Immediate
      <3>1. direct' = Append(direct, Snapshot(revision + 1))
        BY <2>2 DEF Immediate
      <3>2. \A i \in DOMAIN direct' :
                \/ i \in DOMAIN direct /\ direct'[i] = direct[i]
                \/ direct'[i] = Snapshot(revision + 1)
        <4>1. direct \in Seq(Event)
          BY DEF Books, TypeInv, TypeOK
        <4> HIDE DEF Told
        <4> QED BY <3>1, <4>1
      <3> QED BY <3>2 DEF Snapshot, Contract
    <2> QED BY <1>1, <2>1, <2>2
  <1>4. CASE worker' = worker
    BY <1>1, <1>2, <1>3, <1>4 DEF Contract
  <1>5. CASE worker = "sleeping" /\ worker' = "slept"
    <2>1. /\ Agreed(emissions, LastTold, Waiting, current, accepted, worker,
                    subscribers)
          /\ Silent(emissions)
      BY <1>5, Standing, QuietWorker
    <2>2. \A c \in Commands : Keeps(c, Waiting, current, accepted, worker,
                                    Waiting, current, accepted, "slept")
      BY <1>5, StageIs DEF Keeps
    <2>3. Agreed(emissions, LastTold, Waiting, current, accepted, "slept",
                 subscribers)
      BY <2>1, <2>2, AgreedKeeps
    <2>4. Speaking(emissions, LastTold, "slept", accepted)
      BY <2>1, SilentSpeaks
    <2> QED BY <1>1, <1>2, <1>3, <1>5, <2>3, <2>4 DEF Contract
  <1> QED BY <1>1, <1>4, <1>5

LEMMA StorySame ==
    ASSUME NEW n \in Nat, NEW f, NEW g, NEW who, Turns(f, n, who),
           \A i \in 0 .. n : g[i] = f[i]
    PROVE  Turns(g, n, who) /\ \A S : Ends(f, n, S) => Ends(g, n, S)
  <1>1. \A i \in 0 .. n : \A j \in 0 .. n + 1 : Hush(g, i, j) <=> Hush(f, i, j)
    BY DEF Hush
  <1>2. Turns(g, n, who)
    BY <1>1 DEF Turns
  <1>3. \A i \in 0 .. n : Hush(g, i, n + 1) <=> Hush(f, i, n + 1)
    BY <1>1
  <1> QED BY <1>2, <1>3 DEF Ends

(* What a group still says when its first event has been published.        *)
LEMMA TailSays ==
    ASSUME NEW g, NEW h, g.events \in Seq(Event), g.events # <<>>,
           h.events = Tail(g.events), OnceEach(g.events)
    PROVE  /\ OnceEach(h.events)
           /\ \A c \in Commands :
                  IF Head(g.events).command = c
                  THEN Says(g, c) = {Head(g.events).what} /\ Says(h, c) = {}
                  ELSE Says(h, c) = Says(g, c)
  <1> DEFINE ev == g.events
             tl == h.events
  <1>1. /\ DOMAIN ev \subseteq Int /\ 1 \in DOMAIN ev
        /\ DOMAIN tl \subseteq Int /\ Head(ev) = ev[1] /\ ev[1] \in Event
        /\ \A k \in DOMAIN tl : k + 1 \in DOMAIN ev /\ tl[k] = ev[k + 1]
                                /\ k + 1 # 1
        /\ \A k \in DOMAIN ev : k # 1 => k - 1 \in DOMAIN tl
                                         /\ tl[k - 1] = ev[k]
    <2>1. /\ ev \in Seq(Event) /\ ev # <<>> /\ tl = Tail(ev)
      OBVIOUS
    <2> HIDE DEF ev, tl
    <2>2. ev[1] \in Event /\ Head(ev) = ev[1] /\ 1 \in DOMAIN ev
      BY <2>1, ElementOfSeq, LenProperties, HeadTailProperties, EmptySeq
    <2> HIDE DEF Told
    <2> QED BY <2>1, <2>2
  <1>2. /\ \A c : Says(g, c) = {x \in Told : \E l \in DOMAIN ev :
                                   ev[l].command = c /\ ev[l].what = x}
        /\ \A c : Says(h, c) = {x \in Told : \E l \in DOMAIN tl :
                                   tl[l].command = c /\ tl[l].what = x}
    BY DEF Says
  <1>3. \A k, l \in DOMAIN ev :
            /\ ev[k].command \in Commands
            /\ ev[l].command = ev[k].command
            => k = l
    BY DEF OnceEach
  <1> HIDE DEF ev, tl
  <1>4. OnceEach(tl)
    <2> SUFFICES ASSUME NEW k \in DOMAIN tl, NEW l \in DOMAIN tl,
                        tl[k].command \in Commands, tl[l].command = tl[k].command
                 PROVE  k = l
      BY DEF OnceEach
    <2>1. k + 1 = l + 1
      BY <1>1, <1>3
    <2> QED BY <1>1, <2>1
  <1>5. ASSUME NEW c \in Commands, ev[1].command = c
        PROVE  Says(g, c) = {ev[1].what} /\ Says(h, c) = {}
    <2>1. ev[1].what \in Told
      BY <1>1, <1>5 DEF Event
    <2>2. \A l \in DOMAIN ev : ev[l].command = c => l = 1
      BY <1>1, <1>3, <1>5
    <2>3. \A l \in DOMAIN tl : tl[l].command # c
      BY <1>1, <2>2
    <2>4. ev[1].what \in Says(g, c)
      BY <1>1, <1>2, <1>5, <2>1
    <2>5. \A x \in Says(g, c) : x = ev[1].what
      BY <1>2, <2>2
    <2> QED BY <1>2, <2>3, <2>4, <2>5
  <1>6. ASSUME NEW c \in Commands, ev[1].command # c
        PROVE  Says(h, c) = Says(g, c)
    <2>1. \A x : (\E l \in DOMAIN ev : ev[l].command = c /\ ev[l].what = x)
                 <=> (\E l \in DOMAIN tl : tl[l].command = c /\ tl[l].what = x)
      BY <1>1, <1>6
    <2> QED BY <1>2, <2>1
  <1> QED BY <1>1, <1>4, <1>5, <1>6 DEF ev, tl

(* One event of c is heard, or none of a command.                          *)
Hears ==
    \/ log' = log
    \/ \E c \in Commands, w \in Told :
         /\ log' = [log EXCEPT ![c] = Append(@, w)]
         /\ May(LastTold[c], w, subscribers)

LEMMA LastToldHears ==
    ASSUME TypeInv, NEW c \in Commands, NEW w \in Told,
           log' = [log EXCEPT ![c] = Append(@, w)]
    PROVE  /\ LastTold'[c] = w
           /\ \A d \in Commands : d # c => LastTold'[d] = LastTold[d]
  <1>1. /\ log[c] \in Seq(Told) /\ log'[c] = Append(log[c], w)
        /\ \A d \in Commands : d # c => log'[d] = log[d]
    BY DEF TypeInv, TypeOK
  <1> DEFINE p == log[c]
             r == Append(p, w)
  <1> HIDE DEF p
  <1>2. r # <<>> /\ r[Len(r)] = w
    <2>1. p \in Seq(Told)
      BY <1>1 DEF p
    <2> HIDE DEF Told
    <2> QED BY <2>1
  <1> HIDE DEF r
  <1>3. log'[c] = r
    BY <1>1 DEF r, p
  <1> QED BY <1>1, <1>2, <1>3 DEF LastTold

LEMMA ContractDeliver ==
    ASSUME Books, Contract, Deliver
    PROVE  Contract' /\ Hears
  <1> DEFINE q == emissions
             p == emissions'
             n == Len(q)
             t == LastTold
             u == LastTold'
             ev == q[1].events
             e == Head(ev)
             h == [Head(q) EXCEPT !.events = Tail(ev)]
  <1>1. /\ TypeInv /\ q \in Seq(Groups) /\ AllOnce(q)
        /\ Agreed(q, t, Waiting, current, accepted, worker, subscribers)
        /\ closing = "open" => Speaking(q, t, worker, accepted)
        /\ \A i \in DOMAIN direct : direct[i].what = "state"
    BY Standing
  <1>2. /\ q # <<>> /\ Head(q) = q[1] /\ 1 \in DOMAIN q /\ n \in Nat \ {0}
        /\ ev # <<>> /\ Hear(e) /\ p = <<h>> \o Tail(q)
        /\ DOMAIN q = 1 .. n
        /\ UNCHANGED <<waiting, current, accepted, worker, closing, direct,
                       subscribers>>
    <2>1. q # <<>> /\ Head(q).events # <<>> /\ Hear(Head(Head(q).events))
          /\ p = <<[Head(q) EXCEPT !.events = Tail(Head(q).events)]>> \o Tail(q)
          /\ UNCHANGED <<waiting, current, accepted, worker, closing, direct,
                         subscribers>>
      BY DEF Deliver
    <2>2. Head(q) = q[1] /\ 1 \in DOMAIN q /\ n \in Nat \ {0} /\ DOMAIN q = 1 .. n
      BY <1>1, <2>1
    <2> QED BY <2>1, <2>2
  <1>3. q[1] \in Groups /\ ev \in Seq(Event)
    <2>1. q[1] \in Groups
      BY <1>1, <1>2, ElementOfSeq
    <2> QED BY <2>1 DEF Groups
  <1>4. /\ h.events = Tail(ev) /\ h.command = q[1].command /\ h.task = q[1].task
        /\ Len(p) = n /\ DOMAIN p = 1 .. n /\ p[1] = h
        /\ \A i \in 2 .. n : p[i] = q[i]
    <2>1. h.events = Tail(ev) /\ h.command = q[1].command /\ h.task = q[1].task
      BY <1>2, <1>3 DEF Groups
    <2> HIDE DEF h, ev
    <2>2. Len(p) = n /\ DOMAIN p = 1 .. n /\ p[1] = h
          /\ \A i \in 2 .. n : p[i] = q[i]
      BY <1>1, <1>2
    <2> QED BY <2>1, <2>2
  <1>5. /\ OnceEach(h.events)
        /\ \A c \in Commands :
               IF e.command = c THEN Says(q[1], c) = {e.what} /\ Says(h, c) = {}
                                ELSE Says(h, c) = Says(q[1], c)
    <2>1. OnceEach(ev)
      BY <1>1, <1>2 DEF AllOnce
    <2> HIDE DEF h
    <2>2. /\ q[1].events \in Seq(Event) /\ q[1].events # <<>>
          /\ h.events = Tail(q[1].events) /\ OnceEach(q[1].events)
      BY <1>2, <1>3, <1>4, <2>1
    <2>3. /\ OnceEach(h.events)
          /\ \A c \in Commands :
                 IF Head(q[1].events).command = c
                 THEN Says(q[1], c) = {Head(q[1].events).what} /\ Says(h, c) = {}
                 ELSE Says(h, c) = Says(q[1], c)
      BY <2>2, TailSays
    <2> QED BY <2>3
  <1>6. e \in Event
    BY <1>2, <1>3, HeadTailProperties
  <1> HIDE DEF q, p, n, ev, e, h
  <1>7. AllOnce(p)
    <2>1. \A i \in DOMAIN p : i = 1 \/ (i \in 2 .. n /\ i \in DOMAIN q)
      BY <1>2, <1>4
    <2> QED BY <1>1, <1>4, <1>5, <2>1 DEF AllOnce
  <1>8. /\ \A c \in Commands : e.command # c => u[c] = t[c]
        /\ e.command \in Commands =>
               /\ u[e.command] = e.what /\ e.what \in Told
               /\ log' = [log EXCEPT ![e.command] = Append(@, e.what)]
        /\ e.command \notin Commands => log' = log
    <2>1. CASE e.what = "state"
      <3>1. e.command \notin Commands /\ log' = log
        BY <1>2, <1>6, <2>1 DEF Event, Hear
      <3> QED BY <3>1 DEF LastTold
    <2>2. CASE e.what # "state"
      <3>1. /\ e.command \in Commands /\ e.what \in Told
            /\ log' = [log EXCEPT ![e.command] = Append(@, e.what)]
        BY <1>2, <1>6, <2>2 DEF Event, Hear
      <3> QED BY <1>1, <3>1, LastToldHears
    <2> QED BY <2>1, <2>2
  <1>9. ASSUME NEW c \in Commands
        PROVE  /\ \A i \in 2 .. n : Story(p, u, c)[i] = Story(q, t, c)[i]
               /\ Story(p, u, c)[0] = {u[c]} /\ Story(q, t, c)[0] = {t[c]}
               /\ Story(p, u, c)[1] = Says(h, c)
               /\ Story(q, t, c)[1] = Says(q[1], c)
    <2>1. Len(p) = n /\ Len(q) = n /\ n \in Nat \ {0}
      BY <1>2, <1>4 DEF n
    <2> HIDE DEF t, u
    <2> QED BY <1>4, <2>1 DEF Story
  <1> HIDE DEF t, u
  <1>10. ASSUME NEW c \in Commands
         PROVE  /\ Agrees(Story(p, u, c), n, c, Waiting, current, accepted,
                          worker, subscribers)
                /\ e.command = c => May(t[c], e.what, subscribers)
    <2> DEFINE f == Story(q, t, c)
               g == Story(p, u, c)
    <2>1. Agrees(f, n, c, Waiting, current, accepted, worker, subscribers)
      BY <1>1 DEF Agreed, n
    <2>2. Keeps(c, Waiting, current, accepted, worker,
                Waiting, current, accepted, worker)
      BY DEF Keeps
    <2>3. CASE e.command = c
      <3>1. /\ f[0] = {t[c]} /\ f[1] = {e.what} /\ g[0] = {e.what} /\ g[1] = {}
            /\ \A i \in 2 .. n : g[i] = f[i]
        BY <1>5, <1>8, <1>9, <2>3
      <3> HIDE DEF f, g
      <3>2. Turns(f, n, subscribers)
        BY <2>1 DEF Agrees
      <3>3. /\ May(t[c], e.what, subscribers) /\ Turns(g, n, subscribers)
            /\ \A S : Ends(f, n, S) => Ends(g, n, S)
        BY <1>2, <3>1, <3>2, StoryHeard
      <3>4. Agrees(g, n, c, Waiting, current, accepted, worker, subscribers)
        BY <2>1, <2>2, <3>3, AgreesKeeps
      <3> QED BY <3>3, <3>4 DEF g
    <2>4. CASE e.command # c
      <3>1. Says(h, c) = Says(q[1], c) /\ u[c] = t[c]
        BY <1>5, <1>8, <2>4
      <3>2. g[0] = f[0] /\ g[1] = f[1] /\ \A i \in 2 .. n : g[i] = f[i]
        <4>1. /\ \A i \in 2 .. n : g[i] = f[i]
              /\ g[0] = {u[c]} /\ f[0] = {t[c]}
              /\ g[1] = Says(h, c) /\ f[1] = Says(q[1], c)
          BY <1>9
        <4> HIDE DEF f, g
        <4> QED BY <3>1, <4>1
      <3> HIDE DEF f, g
      <3>3. n \in Nat /\ \A i \in 0 .. n : g[i] = f[i]
        BY <1>2, <3>2
      <3>4. Turns(f, n, subscribers)
        BY <2>1 DEF Agrees
      <3>5. Turns(g, n, subscribers) /\ \A S : Ends(f, n, S) => Ends(g, n, S)
        BY <3>3, <3>4, StorySame
      <3>6. Agrees(g, n, c, Waiting, current, accepted, worker, subscribers)
        BY <2>1, <2>2, <3>5, AgreesKeeps
      <3> QED BY <2>4, <3>6 DEF g
    <2> QED BY <2>3, <2>4
  <1>11. Agreed(p, u, Waiting, current, accepted, worker, subscribers)
    BY <1>4, <1>10 DEF Agreed
  <1>12. ASSUME closing = "open" PROVE Speaking(p, u, worker, accepted)
    <2> SUFFICES ASSUME NEW i \in DOMAIN p, p[i].task = "worker"
                 PROVE  /\ \A c \in Commands : c # p[i].command =>
                                                   Says(p[i], c) = {}
                        /\ Trails(Story(p, u, p[i].command), Len(p), i,
                                  p[i].command, worker, accepted)
      BY DEF Speaking
    <2>1. /\ i \in DOMAIN q /\ i \in 1 .. n /\ q[i].task = "worker"
          /\ p[i].command = q[i].command
          /\ i = 1 \/ p[i] = q[i]
      <3>1. i \in 1 .. n /\ (i = 1 \/ i \in 2 .. n)
        BY <1>2, <1>4
      <3> QED BY <1>2, <1>4, <3>1
    <2>2. /\ \A c \in Commands : c # q[i].command => Says(q[i], c) = {}
          /\ Trails(Story(q, t, q[i].command), n, i, q[i].command, worker, accepted)
      BY <1>1, <1>12, <2>1 DEF Speaking, n
    <2>3. ASSUME NEW c \in Commands, c # p[i].command PROVE Says(p[i], c) = {}
      <3>1. Says(q[i], c) = {}
        BY <2>1, <2>2, <2>3
      <3>2. CASE p[i] = q[i]
        BY <3>1, <3>2
      <3>3. CASE i = 1
        BY <1>4, <1>5, <3>1, <3>3
      <3> QED BY <2>1, <3>2, <3>3
    <2>4. q[i].command \in Commands
      <3>1. q[i] \in Groups
        BY <1>1, <1>2, <2>1, ElementOfSeq DEF n
      <3> QED BY <2>1, <3>1 DEF Groups
    <2>5. \A k \in 2 .. n :
             Story(p, u, q[i].command)[k] = Story(q, t, q[i].command)[k]
      BY <1>9, <2>4
    <2>6. Trails(Story(p, u, q[i].command), n, i, q[i].command, worker, accepted)
      BY <1>2, <2>1, <2>2, <2>5, TrailsSame
    <2> QED BY <1>4, <2>1, <2>3, <2>6
  <1>13. Contract'
    BY <1>1, <1>2, <1>7, <1>11, <1>12 DEF Contract, AllOnce, p, u
  <1>14. Hears
    BY <1>8, <1>10 DEF Hears, t
  <1> QED BY <1>13, <1>14

LEMMA ContractDirect ==
    ASSUME Books, Contract, DeliverDirect
    PROVE  Contract' /\ Hears
  <1>1. /\ direct # <<>> /\ direct \in Seq(Event) /\ Hear(Head(direct))
        /\ direct' = Tail(direct)
        /\ UNCHANGED <<waiting, current, accepted, worker, closing, emissions,
                       subscribers>>
    BY DEF DeliverDirect, Books, TypeInv, TypeOK
  <1>2. /\ Head(direct) = direct[1] /\ 1 \in DOMAIN direct
        /\ \A i \in DOMAIN Tail(direct) : /\ i + 1 \in DOMAIN direct
                                          /\ Tail(direct)[i] = direct[i + 1]
    BY <1>1
  <1>3. log' = log
    BY <1>1, <1>2 DEF Hear, Contract
  <1>4. LastTold' = LastTold
    BY <1>3 DEF LastTold
  <1> QED BY <1>1, <1>2, <1>3, <1>4 DEF Contract, Hears

(* close kills the worker, and with it what it had still to say.           *)
LEMMA ContractBeginClose ==
    ASSUME Books, Interrupting, Contract, BeginClose
    PROVE  Contract'
  <1>1. /\ Unheard /\ accepted' = accepted /\ waiting' = waiting
        /\ current' = current /\ worker' = "dead" /\ closing = "open"
        /\ closing' # "open" /\ Quiet
    BY DEF BeginClose, Unheard
  <1>2. /\ emissions \in Seq(Groups) /\ AllOnce(emissions)
        /\ Agreed(emissions, LastTold, Waiting, current, accepted, worker,
                  subscribers)
        /\ Speaking(emissions, LastTold, worker, accepted)
        /\ current \notin Waiting /\ Waiting \subseteq accepted
    BY <1>1, Standing
  <1>3. \A c \in Commands : Keeps(c, Waiting, current, accepted, worker,
                                  Waiting, current, accepted, "dead")
    BY StageIs DEF Keeps
  <1>4. CASE WorkerGroups = {}
    <2>1. emissions' = emissions
      BY <1>4 DEF BeginClose
    <2>2. Agreed(emissions, LastTold, Waiting, current, accepted, "dead",
                 subscribers)
      BY <1>2, <1>3, AgreedKeeps
    <2> QED BY <1>1, <1>2, <2>1, <2>2, ContractIs DEF Unheard
  <1>5. CASE WorkerGroups # {}
    <2>1. PICK d \in WorkerGroups : emissions' = RemoveAt(emissions, d)
      BY <1>5 DEF BeginClose
    <2> DEFINE q == emissions
               p == RemoveAt(emissions, d)
               n == Len(q)
               t == LastTold
               me == q[d].command
    <2>2. /\ d \in DOMAIN q /\ d \in 1 .. n /\ n \in Nat
          /\ q[d].task = "worker"
      BY <1>2, LenProperties DEF WorkerGroups
    <2>3. subscribers = "suspending"
      <3>1. q # <<>>
        BY <2>2
      <3> QED BY <1>1, <3>1 DEF Quiet, Books, TypeInv, TypeOK, Subscribers
    <2>4. /\ worker \in {"starting", "moving", "finishing"} /\ me \in Commands
          /\ worker # "finishing" => me = current
          /\ worker = "finishing" => current = None
      BY <1>1, <2>2, WorkerGroup
    <2>5. /\ \A c \in Commands : c # me => Says(q[d], c) = {}
          /\ Trails(Story(q, t, me), n, d, me, worker, accepted)
      BY <1>2, <2>2 DEF Speaking
    <2>6. Without(p, q, d) /\ Len(p) = n - 1
      BY <1>2, <2>2, Removed DEF Without
    <2> HIDE DEF p, n, t, me
    <2>7. ASSUME NEW c \in Commands
          PROVE  Agrees(Story(p, t, c), n - 1, c, Waiting, current, accepted,
                        "dead", subscribers)
      <3> DEFINE f == Story(q, t, c)
                 g == Story(p, t, c)
      <3>1. \A i \in 0 .. n - 1 : g[i] = IF i < d THEN f[i] ELSE f[i + 1]
        <4>1. q \in Seq(Groups) /\ d \in 1 .. Len(q) /\ Without(p, q, d)
          BY <1>2, <2>2, <2>6 DEF n
        <4>2. \A i \in 0 .. Len(q) - 1 :
                  Story(p, t, c)[i] = IF i < d THEN Story(q, t, c)[i]
                                      ELSE Story(q, t, c)[i + 1]
          BY <4>1, Shrunk
        <4> QED BY <4>2 DEF n
      <3>2. Agrees(f, n, c, Waiting, current, accepted, worker, subscribers)
        BY <1>2 DEF Agreed, n, t
      <3>3. f[d] = Says(q[d], c)
        BY <2>2 DEF Story, n
      <3>4. c = me => Trails(f, n, d, me, worker, accepted)
        BY <2>5
      <3> HIDE DEF f, g
      <3>5. Turns(f, n, "suspending")
        BY <2>3, <3>2 DEF Agrees
      <3>6. CASE c # me
        <4>1. f[d] = {}
          BY <2>5, <3>3, <3>6
        <4>2. /\ Turns(g, n - 1, subscribers)
              /\ \A S : Ends(f, n, S) => Ends(g, n - 1, S)
          BY <2>2, <2>3, <3>1, <3>5, <4>1, StoryShrinks
        <4>3. Agrees(g, n - 1, c, Waiting, current, accepted, "dead", subscribers)
          BY <1>3, <3>2, <4>2, AgreesKeeps
        <4> QED BY <4>3 DEF g
      <3>7. CASE c = me
        <4>1. \A j \in d + 1 .. n : Hush(f, d, j) => f[j] \subseteq {"accepted"}
          <5>1. CASE worker = "finishing"
            BY <3>4, <3>7, <5>1 DEF Trails
          <5>2. CASE worker # "finishing"
            <6>1. Hush(f, d, n + 1)
              BY <3>4, <3>7, <5>2 DEF Trails
            <6>2. \A j \in d + 1 .. n : f[j] = {}
              BY <2>2, <6>1 DEF Hush
            <6> QED BY <6>2
          <5> QED BY <5>1, <5>2
        <4>2. /\ Turns(g, n - 1, "suspending")
              /\ \A S : Ends(f, n, S) /\ (\E j \in d + 1 .. n : f[j] # {}) =>
                            Ends(g, n - 1, S)
              /\ \A S : Ends(f, n, S) /\ S \subseteq Owed \ {"accepted"} =>
                            Ends(g, n - 1, Owed)
          BY <2>2, <3>1, <3>5, <4>1, StoryLost
        <4>3. ASSUME c \in Waiting PROVE Ends(g, n - 1, {"accepted"})
          <5>1. worker = "finishing" /\ c \in accepted
            BY <1>2, <2>4, <3>7, <4>3
          <5>2. \E j \in d + 1 .. n : f[j] # {}
            BY <3>4, <3>7, <5>1 DEF Trails
          <5>3. Ends(f, n, {"accepted"})
            BY <3>2, <4>3 DEF Agrees
          <5> QED BY <4>2, <5>2, <5>3
        <4>4. ASSUME c = current, c \in accepted PROVE Ends(g, n - 1, Stage("dead"))
          <5>1. worker \in {"starting", "moving"}
            BY <2>4, <4>4
          <5>2. Ends(f, n, Stage(worker))
            BY <3>2, <4>4 DEF Agrees
          <5>3. Stage(worker) \subseteq Owed \ {"accepted"} /\ Stage("dead") = Owed
            BY <5>1, StageIs
          <5> QED BY <4>2, <5>2, <5>3
        <4>5. Agrees(g, n - 1, c, Waiting, current, accepted, "dead", subscribers)
          BY <2>3, <4>2, <4>3, <4>4 DEF Agrees
        <4> QED BY <4>5 DEF g
      <3> QED BY <3>6, <3>7
    <2>8. Agreed(p, t, Waiting, current, accepted, "dead", subscribers)
      BY <2>6, <2>7 DEF Agreed
    <2>9. AllOnce(p)
      BY <1>2, <2>2, <2>6, OnceShrinks DEF n
    <2> QED BY <1>1, <2>1, <2>8, <2>9, ContractIs DEF Unheard, p, t
  <1> QED BY <1>4, <1>5

(* close announces the end of everything that was still accepted.          *)
LEMMA ContractDrain ==
    ASSUME Books, Contract, DrainClose
    PROVE  Contract'
  <1> DEFINE jobs == Unfinished
             g == Group("close", None, FALSE, Shutdown(jobs))
             t == LastTold
             wait == Waiting
  <1>1. /\ Unheard /\ accepted' = {} /\ waiting' = <<>> /\ current' = None
        /\ worker' = worker /\ closing' # "open"
        /\ emissions' = Append(emissions, g) /\ revision \in Nat
    BY DEF DrainClose, Unheard, Books, TypeInv, TypeOK
  <1>2. worker = "dead"
    BY DEF DrainClose, Books, TypeInv, WorkerHoldsJob
  <1>3. /\ emissions \in Seq(Groups) /\ AllOnce(emissions)
        /\ Agreed(emissions, t, wait, current, accepted, worker, subscribers)
        /\ \A c \in accepted : c \in wait \/ c = current
    BY Standing
  <1>4. /\ jobs \in Seq(Commands) /\ IsInjective(jobs) /\ ToSet(jobs) = accepted
    BY UnfinishedIs
  <1>5. g.events = Shutdown(jobs)
    BY DEF Group
  <1> HIDE DEF jobs, g, t, wait
  <1>6. /\ OnceEach(g.events)
        /\ \A c \in Commands :
               Says(g, c) = IF c \in accepted THEN {"shutdown"} ELSE {}
    <2>1. /\ OnceEach(g.events)
          /\ \A c \in Commands :
                 Says(g, c) = IF c \in ToSet(jobs) THEN {"shutdown"} ELSE {}
      BY <1>1, <1>4, <1>5, ShutdownWords
    <2> QED BY <1>4, <2>1
  <1>7. ASSUME NEW c \in Commands
        PROVE \/ /\ Says(g, c) = {}
                 /\ Keeps(c, wait, current, accepted, worker, {}, None, {}, worker)
              \/ Fits(emissions, t, g, c, {}, None, {}, worker, subscribers)
    <2>1. CASE c \in accepted
      <3>1. Says(g, c) = {"shutdown"}
        BY <1>6, <2>1
      <3>2. PICK S : /\ Ends(Story(emissions, t, c), Len(emissions), S)
                     /\ S \subseteq Owed
        <4>1. Agrees(Story(emissions, t, c), Len(emissions), c, wait, current,
                     accepted, worker, subscribers)
          BY <1>3 DEF Agreed
        <4>2. {"accepted"} \subseteq Owed /\ Stage(worker) \subseteq Owed
          BY StageIs DEF Owed, Lifecycles!Owed
        <4> QED BY <1>3, <2>1, <4>1, <4>2 DEF Agrees
      <3>3. \A a \in S : May(a, "shutdown", subscribers)
        BY <3>2 DEF May, Follows
      <3>4. "shutdown" \in Ended
        BY DEF Ended, Lifecycles!Ended
      <3> QED BY <3>1, <3>2, <3>3, <3>4 DEF Fits
    <2>2. CASE c \notin accepted
      BY <1>6, <2>2 DEF Keeps
    <2> QED BY <2>1, <2>2
  <1>8. Agreed(Append(emissions, g), t, {}, None, {}, worker, subscribers)
    BY <1>3, <1>7, AgreedGrows
  <1>9. AllOnce(Append(emissions, g))
    BY <1>3, <1>6, OnceGrows
  <1>10. Waiting' = {}
    BY <1>1, EmptySet
  <1> QED BY <1>1, <1>8, <1>9, <1>10, ContractIs DEF Unheard, t

LEMMA ContractInit == Init => Contract
  <1> SUFFICES ASSUME Init PROVE Contract
    OBVIOUS
  <1>1. /\ emissions = <<>> /\ direct = <<>> /\ waiting = <<>>
        /\ accepted = {} /\ Len(emissions) = 0
        /\ DOMAIN emissions = {} /\ DOMAIN direct = {}
    BY DEF Init
  <1>2. Waiting = {}
    BY <1>1, EmptySet
  <1>3. ASSUME NEW c \in Commands
        PROVE  Agrees(Story(emissions, LastTold, c), 0, c, Waiting, current,
                      accepted, worker, subscribers)
    <2> DEFINE f == Story(emissions, LastTold, c)
    <2>1. f[0] = {"none"}
      BY <1>1 DEF Story, LastTold, Init
    <2> HIDE DEF f
    <2>2. Turns(f, 0, subscribers)
      BY DEF Turns
    <2>3. Ends(f, 0, Ended)
      <3>1. "none" \in Ended
        BY DEF Ended
      <3> QED BY <2>1, <3>1 DEF Ends
    <2>4. Agrees(f, 0, c, Waiting, current, accepted, worker, subscribers)
      BY <1>1, <1>2, <2>2, <2>3 DEF Agrees
    <2> QED BY <2>4 DEF f
  <1> QED BY <1>1, <1>3 DEF Contract, AllOnce, Speaking, Agreed

LEMMA ContractStep ==
    ASSUME Books, Interrupting, Contract, [Next]_vars
    PROVE  Contract' /\ Hears /\ subscribers' = subscribers
  <1>1. ASSUME NEW c \in Commands, Enqueue(c) \/ EnqueueRest(c)
        PROVE  Contract' /\ Hears /\ subscribers' = subscribers
    <2>1. log' = log /\ subscribers' = subscribers
      BY <1>1 DEF Enqueue, EnqueueRest, Queued, Spend
    <2> QED BY <1>1, <2>1, ContractEnqueue DEF Hears
  <1>2. CASE \/ Pop \/ JobReady \/ Move \/ Preempted \/ ClockFails \/ Complete
             \/ Announced \/ NextStep \/ Finished \/ EndClose
             \/ BeginClose \/ DrainClose
    <2>1. log' = log /\ subscribers' = subscribers
      BY <1>2 DEF Pop, JobReady, Move, Preempted, ClockFails, Complete, Spend,
                  Announced, NextStep, Finished, EndClose, BeginClose, DrainClose
    <2>2. Contract'
      BY <1>2, ContractStart, ContractMove, ContractFinish, ContractDelivered,
         ContractBeginClose, ContractDrain
    <2> QED BY <2>1, <2>2 DEF Hears
  <1>3. CASE Deliver \/ DeliverDirect
    <2>1. subscribers' = subscribers
      BY <1>3 DEF Deliver, DeliverDirect
    <2> QED BY <1>3, <2>1, ContractDeliver, ContractDirect
  <1>4. CASE \/ TimerFires \/ Settled \/ UNCHANGED vars \/ Immediate
             \/ \E c \in Commands : Refuse(c)
    <2>1. log' = log /\ subscribers' = subscribers
      BY <1>4 DEF TimerFires, Settled, Immediate, Refuse, Spend
    <2> QED BY <1>4, <2>1, ContractQuiet DEF Hears
  <1> HIDE DEF vars
  <1> QED BY <1>1, <1>2, <1>3, <1>4
          DEF Next, Submit, Worker, Emission, Close

(* The second acceptance that is heard of an id, if any, is there to be    *)
(* found: what Heard leaves out begins with it.                            *)
FirstAgain ==
    \A c \in Commands : Again(c) # {} =>
        \E m \in Again(c) : \A k \in Again(c) : m <= k

(* What the contract's state does in a step.                               *)
Tells ==
    \/ ToldLast' = ToldLast
    \/ \E c \in Commands, w \in Told :
         /\ Follows(ToldLast[c], w)
         /\ ToldLast' = [ToldLast EXCEPT ![c] = w]

(* Nothing is left out of a log that is followed by something.             *)
LEMMA HeardGrows ==
    ASSUME NEW l \in Seq(Told), NEW w \in Told, NEW k \in 1 .. Len(l)
    PROVE  /\ SubSeq(Append(l, w), 1, k - 1) = SubSeq(l, 1, k - 1)
           /\ SubSeq(Append(l, w), 1, Len(l)) = l
  <1>1. Len(l) \in Nat /\ DOMAIN l = 1 .. Len(l)
    BY LenProperties
  <1> DEFINE r == Append(l, w)
  <1>2. \A i \in 1 .. Len(l) : r[i] = l[i]
    BY AppendProperties
  <1> HIDE DEF r
  <1>3. SubSeq(r, 1, k - 1) = SubSeq(l, 1, k - 1)
    <2> HIDE DEF Told
    <2> QED BY <1>1, <1>2
  <1>4. SubSeq(r, 1, Len(l)) = l
    <2> HIDE DEF Told
    <2> QED BY <1>1, <1>2
  <1> QED BY <1>3, <1>4 DEF r

LEMMA MinIs ==
    ASSUME NEW S, S \subseteq Int, NEW m \in S, \A k \in S : m <= k
    PROVE  Min(S) = m
  <1>1. Min(S) \in S /\ \A k \in S : Min(S) <= k
    BY DEF Min
  <1>2. Min(S) <= m /\ m <= Min(S) /\ Min(S) \in Int /\ m \in Int
    BY <1>1
  <1> QED BY <1>2

LEMMA HeardTells ==
    ASSUME TypeInv, FirstAgain, Hears, subscribers' = subscribers
    PROVE  FirstAgain' /\ Tells
  <1>1. CASE log' = log
    BY <1>1 DEF FirstAgain, Tells, ToldLast, Heard, Again
  <1>2. ASSUME NEW c \in Commands, NEW w \in Told,
               log' = [log EXCEPT ![c] = Append(@, w)],
               May(LastTold[c], w, subscribers)
        PROVE  FirstAgain' /\ Tells
    <2> DEFINE l == log[c]
               r == log'[c]
               n == Len(l)
               A == Again(c)
               B == Again(c)'
    <2>1. /\ l \in Seq(Told) /\ r = Append(l, w)
          /\ \A d \in Commands : d # c => log'[d] = log[d]
      BY <1>2 DEF TypeInv, TypeOK
    <2>2. /\ A = {i \in DOMAIN l : i > 1 /\ l[i] = "accepted"}
          /\ B = {i \in DOMAIN r : i > 1 /\ r[i] = "accepted"}
          /\ LastTold[c] = IF l = <<>> THEN "none" ELSE l[n]
          /\ ToldLast[c] = IF Heard(c) = <<>> THEN "none"
                           ELSE Heard(c)[Len(Heard(c))]
          /\ ToldLast'[c] = IF Heard(c)' = <<>> THEN "none"
                            ELSE Heard(c)'[Len(Heard(c)')]
          /\ Heard(c) = IF subscribers = "prompt" \/ A = {} THEN l
                        ELSE SubSeq(l, 1, Min(A) - 1)
          /\ Heard(c)' = IF subscribers = "prompt" \/ B = {} THEN r
                         ELSE SubSeq(r, 1, Min(B) - 1)
      BY DEF Again, LastTold, ToldLast, Heard, Last
    <2> HIDE DEF l, r, A, B
    <2>3. /\ n \in Nat /\ DOMAIN l = 1 .. n /\ DOMAIN r = 1 .. n + 1
          /\ r[n + 1] = w /\ Len(r) = n + 1 /\ r # <<>>
          /\ \A i \in 1 .. n : r[i] = l[i]
          /\ l = <<>> <=> n = 0
      <3>1. n \in Nat /\ DOMAIN l = 1 .. n /\ (l = <<>> <=> n = 0)
        BY <2>1, LenProperties, EmptySeq
      <3>2. /\ Len(r) = n + 1 /\ r \in Seq(Told) /\ r[n + 1] = w
            /\ \A i \in 1 .. n : r[i] = l[i]
        BY <2>1, AppendProperties
      <3>3. DOMAIN r = 1 .. n + 1 /\ r # <<>>
        BY <3>1, <3>2, LenProperties, EmptySeq
      <3> QED BY <3>1, <3>2, <3>3
    <2> HIDE DEF n
    <2>4. /\ A \subseteq Int /\ B \subseteq Int /\ A \subseteq B
          /\ \A k \in B : k \in A \/ (k = n + 1 /\ w = "accepted" /\ n # 0)
          /\ \A k \in A : k \in 1 .. n
          /\ w = "accepted" /\ n # 0 => n + 1 \in B
      BY <2>2, <2>3
    <2>5. A # {} => \E m \in A : \A k \in A : m <= k
      BY DEF FirstAgain, A
    <2>6. ASSUME A # {} PROVE \E m \in A : /\ \A k \in B : m <= k
                                           /\ Min(A) = m /\ Min(B) = m
      <3>1. PICK m \in A : \A k \in A : m <= k
        BY <2>5, <2>6
      <3>2. \A k \in B : m <= k
        BY <2>3, <2>4, <3>1
      <3> QED BY <2>4, <3>1, <3>2, MinIs
    <2>7. B # {} => \E m \in B : \A k \in B : m <= k
      <3>1. CASE A # {}
        BY <2>4, <2>6, <3>1
      <3>2. CASE A = {} /\ B # {}
        <4>1. n + 1 \in B /\ \A k \in B : k = n + 1
          BY <2>4, <3>2
        <4> QED BY <2>3, <4>1
      <3> QED BY <3>1, <3>2
    <2>8. FirstAgain'
      <3> SUFFICES ASSUME NEW d \in Commands, Again(d)' # {}
                   PROVE  \E m \in Again(d)' : \A k \in Again(d)' : m <= k
        BY DEF FirstAgain
      <3>1. CASE d = c
        BY <2>7, <3>1 DEF B
      <3>2. CASE d # c
        <4>1. Again(d)' = Again(d)
          BY <2>1, <3>2 DEF Again
        <4> QED BY <4>1 DEF FirstAgain
      <3> QED BY <3>1, <3>2
    <2>9. \/ Heard(c)' = Heard(c)
          \/ /\ Heard(c)' = r
             /\ Follows(IF Heard(c) = <<>> THEN "none"
                        ELSE Heard(c)[Len(Heard(c))], w)
      <3>1. CASE subscribers = "prompt"
        BY <1>2, <2>2, <3>1 DEF May, n
      <3>2. CASE subscribers # "prompt" /\ A # {}
        <4>1. PICK m \in A : Min(A) = m /\ Min(B) = m
          BY <2>6, <3>2
        <4>2. m \in 1 .. Len(l) /\ B # {}
          BY <2>4, <4>1 DEF n
        <4>3. SubSeq(r, 1, m - 1) = SubSeq(l, 1, m - 1)
          BY <2>1, <4>2, HeardGrows
        <4> QED BY <2>2, <3>2, <4>1, <4>2, <4>3
      <3>3. CASE subscribers # "prompt" /\ A = {} /\ w = "accepted" /\ n # 0
        <4>1. Min(B) = n + 1 /\ B # {}
          <5>1. n + 1 \in B /\ \A k \in B : n + 1 <= k
            BY <2>3, <2>4, <3>3
          <5> QED BY <2>4, <5>1, MinIs
        <4>2. SubSeq(r, 1, n) = l
          <5>1. 1 \in 1 .. Len(l)
            BY <2>3, <3>3 DEF n
          <5> QED BY <2>1, <5>1, HeardGrows DEF n
        <4>3. Min(B) - 1 = n
          BY <2>3, <4>1
        <4> QED BY <2>2, <3>3, <4>1, <4>2, <4>3
      <3>4. CASE subscribers # "prompt" /\ A = {} /\ ~(w = "accepted" /\ n # 0)
        <4>1. B = {} /\ Heard(c)' = r /\ Heard(c) = l
          BY <2>2, <2>4, <3>4
        <4>2. Follows(LastTold[c], w)
          <5>1. CASE w # "accepted"
            BY <1>2, <5>1 DEF May
          <5>2. CASE w = "accepted"
            <6>1. LastTold[c] = "none"
              BY <2>2, <2>3, <3>4, <5>2
            <6> QED BY <5>2, <6>1 DEF Follows, Ended
          <5> QED BY <5>1, <5>2
        <4> QED BY <2>2, <4>1, <4>2 DEF n
      <3> QED BY <3>1, <3>2, <3>3, <3>4
    <2>10. \A d \in Commands : d # c => ToldLast'[d] = ToldLast[d]
      <3>1. \A d \in Commands : d # c => Heard(d)' = Heard(d)
        BY <2>1 DEF Heard, Again
      <3> QED BY <3>1 DEF ToldLast
    <2>11. CASE Heard(c)' = Heard(c)
      <3>1. ToldLast'[c] = ToldLast[c]
        BY <2>2, <2>11
      <3>2. ToldLast' = ToldLast
        BY <2>10, <3>1 DEF ToldLast
      <3> QED BY <2>8, <3>2 DEF Tells
    <2>12. CASE /\ Heard(c)' = r
                /\ Follows(IF Heard(c) = <<>> THEN "none"
                           ELSE Heard(c)[Len(Heard(c))], w)
      <3>1. ToldLast'[c] = w /\ Follows(ToldLast[c], w)
        BY <2>2, <2>3, <2>12
      <3>2. ToldLast' = [ToldLast EXCEPT ![c] = w]
        BY <2>10, <3>1 DEF ToldLast
      <3> QED BY <2>8, <3>1, <3>2 DEF Tells
    <2> QED BY <2>9, <2>11, <2>12
  <1> QED BY <1>1, <1>2 DEF Hears

LEMMA TellsImplements == Tells => [Lifecycles!Next]_ToldLast
  <1> SUFFICES ASSUME NEW c \in Commands, NEW what, Follows(ToldLast[c], what),
                      ToldLast' = [ToldLast EXCEPT ![c] = what]
               PROVE  Lifecycles!Next
    BY DEF Tells
  <1> QED BY DEF Follows, Ended, Owed, Lifecycles!Next, Lifecycles!Accept,
                 Lifecycles!Start, Lifecycles!Progress, Lifecycles!Complete,
                 Lifecycles!Fail, Lifecycles!Cancel, Lifecycles!Tell,
                 Lifecycles!Owed, Lifecycles!Ended

(* The queue implements the lifecycle contract of MotionLifecycle, for any *)
(* commands, capacity, limit of remembered ids and subscribers, those that *)
(* suspend their publisher included: of each id, up to its second life if  *)
(* they do.                                                                *)
THEOREM LifecycleIsKept == Spec => LifecycleSpec
  <1>1. Init => Lifecycles!Init /\ FirstAgain
    BY DEF Init, Lifecycles!Init, ToldLast, Heard, Again, FirstAgain
  <1>2. Books /\ Interrupting /\ Contract /\ [Next]_vars => Contract'
    BY ContractStep
  <1>3. Books /\ Interrupting /\ Contract /\ FirstAgain /\ [Next]_vars
            => FirstAgain' /\ [Lifecycles!Next]_ToldLast
    BY ContractStep, HeardTells, TellsImplements DEF Books
  <1>4. Spec => [](Books /\ Alone)
    BY BooksInvariant, AloneInit, AloneStep, PTL DEF Spec
  <1>5. Books /\ Alone /\ Books' /\ Interrupting /\ [Next]_vars => Interrupting'
    BY InterruptingStep DEF Alone
  <1>6. Spec => []Interrupting
    BY <1>4, <1>5, InterruptingInit, PTL DEF Spec
  <1>7. Spec => []Contract
    BY <1>2, <1>4, <1>6, ContractInit, PTL DEF Spec
  <1>8. Spec => [][Lifecycles!Next]_ToldLast
    BY <1>1, <1>3, <1>4, <1>6, <1>7, PTL DEF Spec
  <1> QED BY <1>1, <1>8, PTL DEF Spec, LifecycleSpec, Lifecycles!Spec

-----------------------------------------------------------------------------
(* What a rest and an error hold off                                       *)

(* An error is latched: whatever motion starts, completes, fails or is     *)
(* cancelled, only status.set ends the mode.                               *)
THEOREM ErrorStays == Spec => ErrorIsLatched
  <1> DEFINE A == mode = "error" /\ mode' # "error" => Immediate
  <1>1. [Next]_vars => [A]_vars
    <2> SUFFICES ASSUME Next, mode = "error", mode' # "error" PROVE Immediate
      OBVIOUS
    <2>1. ASSUME Submit PROVE mode' = mode
      BY <2>1 DEF Submit, Enqueue, EnqueueRest, Refuse, Queued, device
    <2>2. CASE Pop \/ JobReady
      BY <2>2 DEF Pop, JobReady, StartJob
    <2>3. CASE Preempted \/ ClockFails \/ Complete
      BY <2>3 DEF Preempted, ClockFails, Complete, Finish, ModeAfter
    <2>4. CASE TimerFires \/ Move \/ NextStep \/ Finished \/ Emission
               \/ BeginClose \/ Close \/ Settled
      BY <2>4 DEF TimerFires, Move, NextStep, Finished, Emission, Deliver,
                  DeliverDirect, Announced, BeginClose, Close, DrainClose,
                  EndClose, Settled, vars, device
    <2> QED BY <2>1, <2>2, <2>3, <2>4 DEF Next, Worker
  <1>2. Spec => [][A]_vars
    BY <1>1, PTL DEF Spec
  <1> QED BY <1>2 DEF ErrorIsLatched

(* With prompt subscribers, whoever waits has been announced, or is being  *)
(* announced right now; so the worker never waits for a job to be ready.   *)
Announcing(q, c) ==
    \E i \in DOMAIN q : q[i].task = "enqueue" /\ q[i].command = c

Unannounced(wait, known, q) ==
    \A c \in wait : c \in known \/ Announcing(q, c)

AtOnce ==
    subscribers = "prompt" =>
        worker # "ready" /\ Unannounced(Waiting, ready, emissions)

LEMMA AnnouncingMoves ==
    ASSUME NEW q \in Seq(Groups), NEW c
    PROVE  /\ \A g : Announcing(q, c) => Announcing(Append(q, g), c)
           /\ \A g : g.task = "enqueue" /\ g.command = c =>
                         Announcing(Append(q, g), c)
           /\ \A p : Alike(p, q) => (Announcing(q, c) => Announcing(p, c))
           /\ q # <<>> /\ Head(q).task # "enqueue" =>
                  (Announcing(q, c) => Announcing(Tail(q), c))
           /\ q # <<>> /\ Head(q).command # c =>
                  (Announcing(q, c) => Announcing(Tail(q), c))
           /\ ~Announcing(<<>>, c)
  <1>1. \A g : /\ \A i \in DOMAIN q : i \in DOMAIN Append(q, g)
                                      /\ Append(q, g)[i] = q[i]
               /\ Len(q) + 1 \in DOMAIN Append(q, g)
               /\ Append(q, g)[Len(q) + 1] = g
    OBVIOUS
  <1>2. q # <<>> => /\ \A i \in DOMAIN q : i = 1 \/
                         (i - 1 \in DOMAIN Tail(q) /\ Tail(q)[i - 1] = q[i])
                    /\ Head(q) = q[1]
    OBVIOUS
  <1>3. \A g : Announcing(q, c) => Announcing(Append(q, g), c)
    BY <1>1 DEF Announcing
  <1>4. \A g : g.task = "enqueue" /\ g.command = c => Announcing(Append(q, g), c)
    BY <1>1 DEF Announcing
  <1>5. \A p : Alike(p, q) => (Announcing(q, c) => Announcing(p, c))
    BY DEF Announcing, Alike
  <1>6. ASSUME q # <<>>, Announcing(q, c),
               Head(q).task # "enqueue" \/ Head(q).command # c
        PROVE  Announcing(Tail(q), c)
    BY <1>2, <1>6 DEF Announcing
  <1>7. ~Announcing(<<>>, c)
    BY DEF Announcing
  <1> QED BY <1>3, <1>4, <1>5, <1>6, <1>7

LEMMA AtOnceStep ==
    ASSUME Books, InOrder, AtOnce, [Next]_vars
    PROVE  AtOnce'
  <1> SUFFICES ASSUME subscribers' = "prompt" PROVE AtOnce'
    BY DEF AtOnce
  <1>0. subscribers' = subscribers
    BY DEF Next, vars, env, Submit, Worker, Emission, Close, Enqueue,
           EnqueueRest, Refuse, Spend, Immediate, Pop, JobReady, TimerFires,
           Move, Preempted, NextStep, Complete, Finished, ClockFails, Deliver,
           DeliverDirect, Announced, BeginClose, DrainClose, EndClose, Settled
  <1>1. /\ emissions \in Seq(Groups) /\ waiting \in Seq(Commands)
        /\ worker # "ready" /\ Unannounced(Waiting, ready, emissions)
        /\ Quiet => emissions = <<>>
        /\ worker = "popping" => emissions = <<>>
    BY <1>0 DEF Books, TypeInv, TypeOK, AtOnce, Quiet, InOrder
  <1>2. ASSUME NEW c \in Commands, Enqueue(c) \/ EnqueueRest(c)
        PROVE  AtOnce'
    <2>1. PICK g : emissions' = Append(emissions, g) /\ g.task = "enqueue"
                   /\ g.command = c
      BY <1>2 DEF Enqueue, EnqueueRest, Queued, Group
    <2>2. ready' = ready \ {c} /\ worker' = worker /\ emissions = <<>>
      BY <1>1, <1>2 DEF Enqueue, EnqueueRest, Queued
    <2>3. Waiting' \subseteq Waiting \union {c}
      <3>1. waiting' = Append(waiting, c) \/ waiting' = <<c>>
        BY <1>2 DEF Enqueue, EnqueueRest
      <3>2. ToSet(Append(waiting, c)) = Waiting \union {c} /\ ToSet(<<c>>) = {c}
        BY <1>1, AppendSet, SingleSet
      <3> QED BY <3>1, <3>2
    <2>4. \A d \in Waiting : d \in ready
      BY <1>1, <2>2, AnnouncingMoves DEF Unannounced
    <2> QED BY <1>1, <2>1, <2>2, <2>3, <2>4, AnnouncingMoves
            DEF AtOnce, Unannounced
  <1>3. CASE Pop
    <2>1. emissions = <<>> /\ waiting # <<>> /\ waiting' = Tail(waiting)
          /\ ready' = ready
      BY <1>1, <1>3 DEF Pop
    <2>2. Head(waiting) \in Waiting /\ Waiting' \subseteq Waiting
      BY <1>1, <2>1, TailSet
    <2>3. \A d \in Waiting : d \in ready
      BY <1>1, <2>1, AnnouncingMoves DEF Unannounced
    <2>4. worker' = "starting"
      BY <1>3, <2>2, <2>3 DEF Pop, StartJob
    <2> QED BY <2>2, <2>1, <2>3, <2>4 DEF AtOnce, Unannounced
  <1>4. CASE Announced
    <2>1. /\ emissions # <<>> /\ emissions' = Tail(emissions)
          /\ ready' = ready \union {Head(emissions).command}
          /\ UNCHANGED <<waiting, worker>>
      BY <1>4 DEF Announced, Delivered, queueVars
    <2> QED BY <1>1, <2>1, AnnouncingMoves DEF AtOnce, Unannounced
  <1>5. CASE NextStep \/ Finished \/ EndClose
    <2>1. /\ emissions # <<>> /\ emissions' = Tail(emissions)
          /\ Head(emissions).task # "enqueue"
          /\ UNCHANGED <<waiting, ready>> /\ worker' # "ready"
      BY <1>1, <1>5 DEF NextStep, Finished, EndClose, Delivered, queueVars,
                        workerVars
    <2> QED BY <1>1, <2>1, AnnouncingMoves DEF AtOnce, Unannounced
  <1>6. CASE Complete
    <2>1. /\ emissions # <<>> /\ Head(emissions).task # "enqueue"
          /\ UNCHANGED <<waiting, ready>> /\ worker' # "ready"
          /\ Tail(emissions) \in Seq(Groups)
      BY <1>1, <1>6 DEF Complete, Delivered, Finish
    <2>2. PICK g : emissions' = Append(Tail(emissions), g)
      BY <1>6 DEF Complete, Finish
    <2> QED BY <1>1, <2>1, <2>2, AnnouncingMoves DEF AtOnce, Unannounced
  <1>7. CASE Move \/ Preempted \/ ClockFails
    <2>1. /\ UNCHANGED <<waiting, ready>> /\ worker' # "ready"
          /\ \E g : emissions' = Append(emissions, g)
      BY <1>7 DEF Move, Preempted, ClockFails, Finish, queueVars
    <2> QED BY <1>1, <2>1, AnnouncingMoves DEF AtOnce, Unannounced
  <1>8. CASE Deliver
    <2>1. Alike(emissions', emissions) /\ UNCHANGED <<waiting, ready, worker>>
      BY <1>8, HeadTold DEF Deliver, queueVars, workerVars, Books
    <2> QED BY <1>1, <2>1, AnnouncingMoves DEF AtOnce, Unannounced
  <1>9. CASE BeginClose
    <2>1. /\ emissions = <<>> /\ UNCHANGED <<waiting, ready>> /\ worker' = "dead"
      BY <1>1, <1>9 DEF BeginClose, queueVars
    <2> QED BY <1>1, <2>1, AnnouncingMoves DEF AtOnce, Unannounced
  <1>10. CASE DrainClose
    <2>1. waiting' = <<>> /\ worker' = worker
      BY <1>10 DEF DrainClose
    <2> QED BY <1>1, <2>1, EmptySet DEF AtOnce, Unannounced
  <1>11. CASE \/ JobReady \/ TimerFires \/ Immediate \/ DeliverDirect \/ Settled
              \/ UNCHANGED vars \/ \E c \in Commands : Refuse(c)
    <2>1. /\ UNCHANGED <<waiting, ready, emissions>>
          /\ worker' = worker \/ worker' = "slept"
      BY <1>1, <1>11 DEF JobReady, TimerFires, Immediate, DeliverDirect,
         Settled, Refuse, queueVars, workerVars, outVars, vars
    <2> QED BY <1>1, <2>1 DEF AtOnce, Unannounced
  <1> HIDE DEF vars
  <1> QED BY <1>2, <1>3, <1>4, <1>5, <1>6, <1>7, <1>8, <1>9, <1>10, <1>11
          DEF Next, Submit, Worker, Emission, Close

(* A pending rest comes next: with prompt subscribers no motion is started *)
(* between its acceptance and its own start.                               *)
THEOREM RestComesNext == Spec => OnlyRestStarts
  <1> DEFINE A == subscribers = "prompt" /\ worker' = "starting"
                  /\ worker # "starting" => restId \in {None, current'}
  <1>1. Init => AtOnce
    BY EmptySet DEF Init, AtOnce, Unannounced
  <1>2. Spec => []InOrder
    <2>1. TypeInv /\ InOrder /\ [Next]_vars => InOrder'
      BY InOrderStep
    <2> QED BY <2>1, InOrderInit, TypeInvariant, PTL DEF Spec
  <1>3. Books /\ InOrder /\ AtOnce /\ [Next]_vars => AtOnce'
    BY AtOnceStep
  <1>4. Books /\ Alone /\ AtOnce /\ [Next]_vars => [A]_vars
    <2> SUFFICES ASSUME Books, Alone, AtOnce, Next, subscribers = "prompt",
                        worker' = "starting", worker # "starting"
                 PROVE  restId \in {None, current'}
      OBVIOUS
    <2>1. Pop
      BY DEF Next, Submit, Worker, Emission, Close, Enqueue, EnqueueRest, Refuse,
         Queued, Immediate, JobReady, TimerFires, Move, Preempted, NextStep,
         Complete, Finish, Finished, ClockFails, Deliver, DeliverDirect,
         Announced, BeginClose, DrainClose, EndClose, Settled, workerVars, vars,
         AtOnce
    <2>2. /\ waiting \in Seq(Commands) /\ waiting # <<>> /\ closing = "open"
          /\ current' = Head(waiting)
      BY <2>1 DEF Pop, Books, TypeInv, TypeOK, WorkerHoldsJob
    <2>3. Head(waiting) \in Waiting
      BY <2>2, TailSet
    <2> QED BY <2>2, <2>3 DEF Alone, RestStandsAlone
  <1>5. Spec => [][A]_vars
    BY <1>1, <1>2, <1>3, <1>4, BooksInvariant, AloneInit, AloneStep, PTL DEF Spec
  <1> QED BY <1>5 DEF OnlyRestStarts

-----------------------------------------------------------------------------
(* The memory of ids                                                       *)

(* The commands that owe a finish were remembered last: what waits is the  *)
(* end of _seen_order, and what runs comes before it.  While a rest is     *)
(* pending nothing is remembered, and afterwards nobody owes anything.     *)
Recent(wait, cur, acc, order) ==
    /\ Len(wait) <= Len(order)
    /\ \A k \in DOMAIN wait : order[Len(order) - Len(wait) + k] = wait[k]
    /\ cur \in acc => /\ Len(wait) < Len(order)
                      /\ order[Len(order) - Len(wait)] = cur

Remembering ==
    /\ SeenIsBounded /\ IsInjective(seenOrder)
    /\ restId # None => IsRest(restId)
    /\ restId = None /\ closing = "open" =>
           Recent(waiting, current, accepted, seenOrder)

(* What is forgotten owes nothing.                                         *)
LEMMA ForgetsNobody ==
    ASSUME Books, Remembering, SeenLimit > Capacity + 1, restId = None,
           closing = "open", Len(seenOrder) >= SeenLimit
    PROVE  /\ seenOrder # <<>> /\ Head(seenOrder) \notin accepted
           /\ Len(seenOrder) = SeenLimit
           /\ Len(waiting) + 1 < Len(seenOrder)
  <1>1. /\ waiting \in Seq(Commands) /\ seenOrder \in Seq(Commands)
        /\ accepted = Waiting \union Owing /\ Len(waiting) <= Capacity
        /\ IsInjective(seenOrder) /\ Len(seenOrder) <= SeenLimit
        /\ Recent(waiting, current, accepted, seenOrder)
        /\ Capacity \in Nat /\ SeenLimit \in Nat
    <2>1. waiting \in Seq(Commands) /\ seenOrder \in Seq(Commands)
      BY DEF Books, TypeInv, TypeOK
    <2>2. accepted = Waiting \union Owing /\ Len(waiting) <= Capacity
      BY DEF Books, Bookkeeping, WithinCapacity
    <2>3. /\ IsInjective(seenOrder) /\ Len(seenOrder) <= SeenLimit
          /\ Recent(waiting, current, accepted, seenOrder)
      BY DEF Remembering, SeenIsBounded
    <2> QED BY <2>1, <2>2, <2>3
  <1>2. /\ Len(waiting) \in Nat /\ Len(seenOrder) \in Nat
        /\ DOMAIN waiting = 1 .. Len(waiting)
        /\ DOMAIN seenOrder = 1 .. Len(seenOrder)
    <2>1. waiting \in Seq(Commands) /\ seenOrder \in Seq(Commands)
      BY DEF Books, TypeInv, TypeOK
    <2> QED BY ONLY <2>1
  <1>3. Len(seenOrder) = SeenLimit /\ Len(waiting) + 1 < Len(seenOrder)
    <2>1. \A a, b, s, c \in Nat :
            s > c + 1 /\ a <= s /\ a >= s /\ b <= c => a = s /\ b + 1 < a
      OBVIOUS
    <2> QED BY <1>1, <1>2, <2>1
  <1>4. seenOrder # <<>> /\ Head(seenOrder) = seenOrder[1] /\ 1 \in DOMAIN seenOrder
    BY <1>1, <1>2, <1>3
  <1>5. ASSUME NEW i \in DOMAIN seenOrder, i > 1
        PROVE  seenOrder[i] # seenOrder[1]
    BY <1>1, <1>4, <1>5 DEF IsInjective
  <1>6. ASSUME NEW k \in DOMAIN waiting PROVE waiting[k] # seenOrder[1]
    <2>1. /\ Len(seenOrder) - Len(waiting) + k \in DOMAIN seenOrder
          /\ Len(seenOrder) - Len(waiting) + k > 1
      BY <1>2, <1>3
    <2> QED BY <1>1, <1>5, <2>1 DEF Recent
  <1>7. current \in accepted => current # seenOrder[1]
    <2>1. /\ Len(seenOrder) - Len(waiting) \in DOMAIN seenOrder
          /\ Len(seenOrder) - Len(waiting) > 1
      BY <1>2, <1>3
    <2> QED BY <1>1, <1>5, <2>1 DEF Recent
  <1>8. seenOrder[1] \notin Waiting
    BY <1>6 DEF ToSet
  <1> QED BY <1>1, <1>3, <1>4, <1>7, <1>8 DEF Owing

(* A new id is remembered as the last one.                                 *)
LEMMA RememberLast ==
    ASSUME Books, Remembering, SeenLimit > Capacity + 1, restId = None,
           closing = "open", NEW c \in Commands, c \notin seenIds,
           accepted' \subseteq accepted \union {c}, Remember(c)
    PROVE  /\ SeenIsBounded' /\ IsInjective(seenOrder')
           /\ \/ seenOrder' = Append(seenOrder, c)
              \/ /\ seenOrder # <<>> /\ seenOrder' = Append(Tail(seenOrder), c)
                 /\ Len(waiting) + 1 < Len(seenOrder)
  <1>1. /\ seenOrder \in Seq(Commands) /\ seenIds = ToSet(seenOrder)
        /\ Len(seenOrder) <= SeenLimit /\ IsInjective(seenOrder)
        /\ SeenLimit \in Nat /\ Len(seenOrder) \in Nat
    BY DEF Books, TypeInv, TypeOK, Remembering, SeenIsBounded
  <1>2. CASE Len(seenOrder) >= SeenLimit
    <2> DEFINE t == Tail(seenOrder)
    <2>1. /\ seenOrder # <<>> /\ Head(seenOrder) \notin accepted
          /\ Len(seenOrder) = SeenLimit /\ Len(waiting) + 1 < Len(seenOrder)
      BY <1>2, ForgetsNobody
    <2>2. /\ t \in Seq(Commands) /\ Len(t) = SeenLimit - 1
          /\ IsInjective(t) /\ Head(seenOrder) \notin ToSet(t)
          /\ seenIds = {Head(seenOrder)} \union ToSet(t)
      BY <1>1, <2>1, TailSet
    <2>3. Head(seenOrder) # c
      BY <2>2
    <2>4. /\ seenOrder' = Append(t, c)
          /\ seenIds' = (seenIds \ {Head(seenOrder)}) \union {c}
      BY <1>2, <2>1, <2>3 DEF Remember
    <2> HIDE DEF t
    <2>5. c \notin ToSet(t)
      BY <2>2
    <2>6. /\ ToSet(seenOrder') = ToSet(t) \union {c} /\ IsInjective(seenOrder')
          /\ Len(seenOrder') = SeenLimit
      BY <1>1, <2>2, <2>4, <2>5, AppendSet
    <2> QED BY <1>1, <2>1, <2>2, <2>4, <2>6 DEF SeenIsBounded, t
  <1>3. CASE Len(seenOrder) < SeenLimit
    <2>1. /\ seenOrder' = Append(seenOrder, c) /\ seenIds' = seenIds \union {c}
      BY <1>1, <1>3 DEF Remember
    <2>2. /\ ToSet(seenOrder') = seenIds' /\ IsInjective(seenOrder')
          /\ Len(seenOrder') <= SeenLimit
      BY <1>1, <1>3, <2>1, AppendSet
    <2> QED BY <2>1, <2>2 DEF SeenIsBounded
  <1> QED BY <1>1, <1>2, <1>3

LEMMA RecentGrows ==
    ASSUME NEW wait \in Seq(Commands), NEW cur, NEW acc, NEW c \in Commands,
           NEW order \in Seq(Commands), NEW p, Recent(wait, cur, acc, order),
           cur # c,
           \/ p = Append(order, c)
           \/ order # <<>> /\ p = Append(Tail(order), c)
              /\ Len(wait) + 1 < Len(order)
    PROVE  Recent(Append(wait, c), cur, acc \union {c}, p)
  <1> DEFINE w == Append(wait, c)
  <1>1. /\ Len(w) = Len(wait) + 1 /\ Len(wait) \in Nat /\ Len(order) \in Nat
        /\ DOMAIN w = 1 .. Len(wait) + 1 /\ w[Len(wait) + 1] = c
        /\ \A k \in 1 .. Len(wait) : w[k] = wait[k] /\ k \in DOMAIN wait
    OBVIOUS
  <1>4. Len(wait) <= Len(order)
    BY DEF Recent
  (* The new one stands last in both.                                      *)
  <1>5. ASSUME Len(p) \in Nat, Len(w) <= Len(p), p[Len(p)] = c,
               \A k \in 1 .. Len(wait) : p[Len(p) - Len(w) + k] = w[k],
               cur \in acc \union {c} => /\ Len(w) < Len(p)
                                         /\ p[Len(p) - Len(w)] = cur
        PROVE  Recent(w, cur, acc \union {c}, p)
    <2> HIDE DEF w
    <2>1. Len(p) - Len(w) + (Len(wait) + 1) = Len(p)
      BY <1>1, <1>5
    <2>2. \A k \in DOMAIN w : k \in 1 .. Len(wait) \/ k = Len(wait) + 1
      <3>1. \A n \in Nat : \A k \in 1 .. n + 1 : k \in 1 .. n \/ k = n + 1
        OBVIOUS
      <3> QED BY <1>1, <3>1
    <2>3. \A k \in DOMAIN w : p[Len(p) - Len(w) + k] = w[k]
      BY <1>1, <1>5, <2>1, <2>2
    <2> QED BY <1>5, <2>3 DEF Recent
  <1>2. CASE p = Append(order, c)
    <2>1. /\ Len(p) = Len(order) + 1 /\ p[Len(order) + 1] = c
          /\ \A k \in 1 .. Len(order) : p[k] = order[k]
      BY <1>2
    <2> HIDE DEF w
    <2>2. ASSUME NEW k \in 1 .. Len(wait)
          PROVE  p[Len(p) - Len(w) + k] = w[k]
      <3>1. /\ Len(p) - Len(w) + k = Len(order) - Len(wait) + k
            /\ Len(order) - Len(wait) + k \in 1 .. Len(order)
        BY <1>1, <1>4, <2>1
      <3> QED BY <1>1, <2>1, <3>1 DEF Recent
    <2>3. cur \in acc \union {c} => Len(w) < Len(p) /\ p[Len(p) - Len(w)] = cur
      <3>1. SUFFICES ASSUME cur \in acc
                     PROVE  Len(w) < Len(p) /\ p[Len(p) - Len(w)] = cur
        OBVIOUS
      <3>2. Len(wait) < Len(order) /\ order[Len(order) - Len(wait)] = cur
        BY <3>1 DEF Recent
      <3>3. /\ Len(p) - Len(w) = Len(order) - Len(wait)
            /\ Len(order) - Len(wait) \in 1 .. Len(order)
        BY <1>1, <2>1, <3>2
      <3>4. p[Len(order) - Len(wait)] = cur
        BY <2>1, <3>2, <3>3
      <3>5. \A a, b \in Nat : a < b => a + 1 < b + 1
        OBVIOUS
      <3>6. Len(w) < Len(p)
        BY <1>1, <2>1, <3>2, <3>5
      <3> QED BY <3>3, <3>4, <3>6
    <2> QED BY <1>1, <1>4, <1>5, <2>1, <2>2, <2>3 DEF w
  <1>3. CASE order # <<>> /\ p = Append(Tail(order), c)
             /\ Len(wait) + 1 < Len(order)
    <2>1. /\ Len(p) = Len(order) /\ p[Len(order)] = c
          /\ \A k \in 1 .. Len(order) - 1 : p[k] = order[k + 1]
      BY <1>3
    <2> HIDE DEF w
    <2>2. Len(wait) + 1 < Len(order)
      BY <1>3
    <2>3. ASSUME NEW k \in 1 .. Len(wait)
          PROVE  p[Len(p) - Len(w) + k] = w[k]
      <3>1. /\ Len(p) - Len(w) + k \in 1 .. Len(order) - 1
            /\ Len(p) - Len(w) + k + 1 = Len(order) - Len(wait) + k
        BY <1>1, <2>1, <2>2
      <3> QED BY <1>1, <2>1, <3>1 DEF Recent
    <2>4. cur \in acc \union {c} => Len(w) < Len(p) /\ p[Len(p) - Len(w)] = cur
      <3>1. /\ Len(p) - Len(w) \in 1 .. Len(order) - 1
            /\ Len(p) - Len(w) + 1 = Len(order) - Len(wait)
            /\ Len(w) < Len(p)
        BY <1>1, <2>1, <2>2
      <3> QED BY <2>1, <3>1 DEF Recent
    <2> QED BY <1>1, <1>5, <2>1, <2>2, <2>3, <2>4 DEF w
  <1> QED BY <1>2, <1>3

LEMMA RememberingStep ==
    ASSUME Books, RestStandsAlone, Interrupting, Remembering,
           SeenLimit > Capacity + 1, [Next]_vars
    PROVE  Remembering'
  <1>1. /\ waiting \in Seq(Commands) /\ seenOrder \in Seq(Commands)
        /\ accepted = Waiting \union Owing /\ accepted \subseteq seenIds
        /\ None \notin Commands /\ current \notin Waiting
        /\ accepted \subseteq Commands
    BY DEF Books, TypeInv, TypeOK, Bookkeeping, AcceptedAreSeen
  <1>2. ASSUME NEW c \in Commands, Enqueue(c)
        PROVE  Remembering'
    <2>1. /\ restId = None /\ closing = "open" /\ c \notin seenIds
          /\ accepted' = accepted \union {c} /\ Remember(c)
          /\ waiting' = Append(waiting, c)
          /\ UNCHANGED <<restId, closing, current>>
      BY <1>2 DEF Enqueue, Admissible, Queued
    <2>2. c # current
      BY <1>1, <2>1 DEF Owing
    <2>3. Recent(waiting, current, accepted, seenOrder)
      BY <2>1 DEF Remembering
    <2>4. Recent(waiting', current', accepted', seenOrder')
      BY <1>1, <2>1, <2>2, <2>3, RememberLast, RecentGrows
    <2> QED BY <2>1, <2>4, RememberLast DEF Remembering
  <1>3. ASSUME NEW c \in Commands, EnqueueRest(c)
        PROVE  Remembering'
    <2>1. /\ restId = None /\ closing = "open" /\ c \notin seenIds
          /\ accepted' \subseteq accepted \union {c} /\ Remember(c)
          /\ restId' = c /\ IsRest(c)
      BY <1>3 DEF EnqueueRest, Admissible
    <2> QED BY <1>1, <2>1, RememberLast DEF Remembering
  <1>4. CASE Pop
    <2>1. /\ waiting # <<>> /\ waiting' = Tail(waiting)
          /\ current' = Head(waiting)
          /\ UNCHANGED <<accepted, seenOrder, seenIds, restId, closing>>
      BY <1>4 DEF Pop
    <2>2. ASSUME Recent(waiting, current, accepted, seenOrder)
          PROVE  Recent(Tail(waiting), Head(waiting), accepted, seenOrder)
      <3> DEFINE w == Tail(waiting)
      <3>1. /\ Len(w) = Len(waiting) - 1 /\ Len(waiting) \in Nat \ {0}
            /\ DOMAIN w = 1 .. Len(waiting) - 1 /\ Head(waiting) = waiting[1]
            /\ \A k \in DOMAIN w : w[k] = waiting[k + 1] /\ k + 1 \in DOMAIN waiting
            /\ 1 \in DOMAIN waiting /\ Len(seenOrder) \in Nat
        BY <1>1, <2>1
      <3> HIDE DEF w
      <3>2. \A k \in DOMAIN w : seenOrder[Len(seenOrder) - Len(w) + k] = w[k]
        <4>1. \A k \in DOMAIN w : Len(seenOrder) - Len(w) + k
                                     = Len(seenOrder) - Len(waiting) + (k + 1)
          BY <3>1
        <4> QED BY <2>2, <3>1, <4>1 DEF Recent
      <3>3. Len(w) < Len(seenOrder)
        BY <2>2, <3>1 DEF Recent
      <3>4. Len(seenOrder) - Len(w) = Len(seenOrder) - Len(waiting) + 1
        BY <3>1
      <3> QED BY <2>2, <3>1, <3>2, <3>3, <3>4 DEF Recent, w
    <2> QED BY <2>1, <2>2 DEF Remembering, SeenIsBounded
  <1>5. CASE Preempted \/ ClockFails \/ Complete
    <2>1. /\ accepted' = accepted \ {current} /\ current' = None
          /\ UNCHANGED <<waiting, seenOrder, seenIds, restId, closing>>
      BY <1>5 DEF Preempted, ClockFails, Complete, Finish
    <2> QED BY <1>1, <2>1 DEF Remembering, SeenIsBounded, Recent
  <1>6. CASE Finished
    <2>1. /\ UNCHANGED <<waiting, accepted, current, seenOrder, seenIds, closing>>
          /\ worker = "finishing" /\ emissions # <<>>
          /\ Head(emissions).task = "worker"
          /\ restId' = IF restId = Head(emissions).command THEN None ELSE restId
      BY <1>6 DEF Finished, Delivered
    <2>2. CASE restId # None /\ restId = Head(emissions).command /\ closing = "open"
      <3>1. /\ current = None /\ Waiting \subseteq {restId}
        BY <2>1, <2>2 DEF RestStandsAlone, Books, TypeInv, WorkerHoldsJob
      <3>2. Head(emissions) = emissions[1] /\ 1 \in DOMAIN emissions
        <4>1. emissions \in Seq(Groups)
          BY DEF Books, TypeInv, TypeOK
        <4> QED BY <2>1, <4>1
      <3>3. restId \notin accepted
        BY <2>1, <2>2, <3>2 DEF Interrupting, Marked, Remembering
      <3>4. waiting = <<>>
        <4>1. \A k \in DOMAIN waiting : waiting[k] \in Waiting
          BY DEF ToSet
        <4>2. DOMAIN waiting = {}
          BY <1>1, <3>1, <3>3, <4>1
        <4> QED BY <1>1, <4>2
      <3>5. Recent(waiting, current, accepted, seenOrder)
        <4>1. Len(seenOrder) \in Nat /\ DOMAIN waiting = {} /\ Len(waiting) = 0
          BY <1>1, <3>4
        <4> QED BY <1>1, <3>1, <4>1 DEF Recent
      <3> QED BY <2>1, <2>2, <3>5 DEF Remembering, SeenIsBounded
    <2>3. CASE ~(restId # None /\ restId = Head(emissions).command
                 /\ closing = "open")
      BY <2>1, <2>3 DEF Remembering, SeenIsBounded
    <2> QED BY <2>2, <2>3
  <1>7. CASE BeginClose \/ DrainClose \/ EndClose
    <2>1. UNCHANGED <<seenOrder, seenIds>> /\ closing' # "open"
          /\ restId' \in {None, restId}
      BY <1>7 DEF BeginClose, DrainClose, EndClose, queueVars
    <2> QED BY <2>1 DEF Remembering, SeenIsBounded
  <1>8. CASE \/ JobReady \/ TimerFires \/ Move \/ NextStep \/ Immediate
             \/ Emission \/ Settled \/ UNCHANGED vars
             \/ \E c \in Commands : Refuse(c)
    <2>1. UNCHANGED <<waiting, accepted, current, seenOrder, seenIds, closing,
                      restId>>
      BY <1>8 DEF JobReady, TimerFires, Move, NextStep, Immediate, Emission,
         Deliver, DeliverDirect, Announced, Settled, Refuse, vars, queueVars
    <2> QED BY <2>1 DEF Remembering, SeenIsBounded
  <1> HIDE DEF vars
  <1> QED BY <1>2, <1>3, <1>4, <1>5, <1>6, <1>7, <1>8
          DEF Next, Submit, Worker, Close

(* With a limit above the queue and what may stand beside it (1024 and 8   *)
(* in the code), every remembered id is in the list that expires it, and   *)
(* the memory stays within the limit.                                      *)
THEOREM MemoryIsBounded ==
    ASSUME SeenLimit > Capacity + 1
    PROVE  Spec => []SeenIsBounded
  <1>1. Spec => [](Books /\ Alone)
    BY BooksInvariant, AloneInit, AloneStep, PTL DEF Spec
  <1>2. Books /\ Alone /\ Books' /\ Interrupting /\ [Next]_vars => Interrupting'
    BY InterruptingStep DEF Alone
  <1>3. Spec => []Interrupting
    BY <1>1, <1>2, InterruptingInit, PTL DEF Spec
  <1>4. Init => Remembering
    <2>1. Recent(<<>>, None, {}, <<>>)
      BY DEF Recent
    <2>2. 0 <= SeenLimit
      OBVIOUS
    <2> QED BY <2>1, <2>2, EmptySet DEF Init, Remembering, SeenIsBounded
  <1>5. Books /\ Alone /\ Interrupting /\ Remembering /\ [Next]_vars
            => Remembering'
    BY RememberingStep DEF Alone
  <1>6. Remembering => SeenIsBounded
    BY DEF Remembering
  <1> QED BY <1>1, <1>3, <1>4, <1>5, <1>6, PTL DEF Spec
=============================================================================
