------------------------------ MODULE AgentRobot ------------------------------
(***************************************************************************)
(* The agent's robot service (lefly_agent/robot.py) with those who use it  *)
(* at the same time: the runtime's worker and the tools of the model it    *)
(* runs, the touch dispatcher (touch.py), the status coordinator           *)
(* (status.py) and the connection monitor (runtime.py), over a device      *)
(* client that loses its connection.                                       *)
(*                                                                         *)
(* The service judges a command by the last state it heard, holds a lock   *)
(* while the command is answered, and learns what it did from states that  *)
(* come later; other clients of the device act meanwhile.                  *)
(*                                                                         *)
(* A task resumes with the answer it waits for: what is handled between    *)
(* the two changes nothing it then reads.  Where it does, in the monitor,  *)
(* the two are steps.  The device is MotionQueue's, reduced to what its    *)
(* states tell the agent: motions accepted one after the other are one     *)
(* motion, and a command and what it starts are announced together.        *)
(***************************************************************************)
EXTENDS Integers, Sequences, SequencesExt, FiniteSets

CONSTANTS
    Tools,       \* tool calls of the model that may run at once
    None,        \* no state, nobody
    Asked,       \* commands the agent is asked for
    Foreign,     \* and those other clients of the device send
    Capacity,    \* bound of the dispatcher's queue
    MaxFlight,   \* bound: events on their way when one more is published
    Limits       \* bounds: how often each thing below may happen

Touch == "touch"
Clients == Tools \union {Touch}
Motions == {"nod", "wake"}
Kinds == Motions \union {"rest", "light"}

(* turns of the worker, tool calls and presses, acts of other clients,     *)
(* lost connections, late answers, motions that fail, and all of them      *)
Counted == {"turns", "calls", "presses", "others", "losses", "late",
            "failures", "all"}

ASSUME RobotAssumption ==
    /\ IsFiniteSet(Tools) /\ Tools # {} /\ Touch \notin Tools
    /\ Asked \subseteq Kinds /\ Foreign \subseteq Kinds \union {"active"}
    /\ Capacity \in Nat \ {0} /\ MaxFlight \in Nat
    /\ Limits \in [Counted -> Nat]

VARIABLES
    device,      \* its mode, the job it does and its revision
    age,         \* states it ever published, over its restarts
    rested,      \* its age when it last came to rest
    connected,   \* DeviceClient.is_connected
    sent,        \* commands on their way to the device
    wire,        \* events on their way to the agent
    robot,       \* _state, _last_revision and _rest_transition_pending
    lock,        \* who asked for RobotCommandService._lock; the head has it
    task,        \* what each client of the service does
    heard,       \* StatusCoordinator._mode, and the age of its state
    turn,        \* the worker: its turn and what the turn has to restore
    forsaken,    \* a set_status was not answered, or not sent at its end
    presses,     \* TouchBehaviorDispatcher._queue
    monitor,     \* where _monitor_connection stands
    saw,         \* it has seen the connection down since the last loss
    budget       \* what the bounds still allow

deviceVars == <<device, age, rested>>
serviceVars == <<robot, lock, task>>
turnVars == <<turn, forsaken>>
monitorVars == <<monitor, saw>>
vars == <<deviceVars, connected, sent, wire, serviceVars, heard, turnVars,
          presses, monitorVars, budget>>

Fresh == [state |-> None, last |-> None, resting |-> FALSE]
Idle == [at |-> "idle", kind |-> None]
NoTurn == [at |-> "idle", restore |-> FALSE, began |-> 0]

Init ==
    /\ device = [mode |-> "active", job |-> "none", revision |-> 0]
    /\ age = 0 /\ rested = 0
    /\ connected = FALSE /\ sent = <<>> /\ wire = <<>>
    /\ robot = Fresh /\ lock = <<>> /\ task = [t \in Clients |-> Idle]
    /\ heard = None /\ turn = NoTurn /\ forsaken = FALSE /\ presses = 0
    /\ monitor = "asleep" /\ saw = TRUE
    /\ budget = Limits

Spend(what) ==
    /\ budget[what] > 0 /\ budget["all"] > 0
    /\ budget' = [budget EXCEPT ![what] = @ - 1, !["all"] = @ - 1]

IsReady == connected /\ robot.state # None

-----------------------------------------------------------------------------
(* The device                                                              *)
StateOf(d, a) == [what |-> "state", by |-> None, mode |-> d.mode,
                  revision |-> d.revision, age |-> a]
Answer(what, by) == [what |-> what, by |-> by]

(* publish_snapshot, heard by the agent's session after the answers.       *)
Publish(d, answers) ==
    /\ Len(wire) <= MaxFlight
    /\ device' = [d EXCEPT !.revision = @ + 1]
    /\ age' = age + 1
    /\ rested' = IF d.mode = "resting" /\ device.mode # "resting"
                 THEN age' ELSE rested
    /\ wire' = IF connected
               THEN wire \o answers \o <<StateOf(device', age')>> ELSE wire

Resists(kind) == device.job = "rest" /\ kind \in Motions \union {"rest"}

Commanded(kind) ==
    CASE kind \in Motions ->
           [device EXCEPT !.job = "motion",
                          !.mode = IF @ = "resting" THEN "starting" ELSE @]
      [] kind = "rest" -> [device EXCEPT !.job = "rest"]
      [] kind \in {"thinking", "active"} -> [device EXCEPT !.mode = kind]
      [] kind \in {"light", "get"} -> device

Handle ==
    /\ sent # <<>> /\ sent' = Tail(sent)
    /\ LET c == Head(sent)
       IN IF Resists(c.kind)
          THEN /\ wire' = Append(wire, Answer("error", c.by))
               /\ UNCHANGED deviceVars
          ELSE Publish(Commanded(c.kind), <<Answer("accepted", c.by)>>)
    /\ UNCHANGED <<connected, serviceVars, heard, turnVars, presses,
                   monitorVars, budget>>

OtherClient(kind) ==
    /\ Spend("others") /\ ~Resists(kind)
    /\ Publish(Commanded(kind), <<>>)
    /\ UNCHANGED <<connected, sent, serviceVars, heard, turnVars, presses,
                   monitorVars>>

Done == [device EXCEPT
    !.job = "none",
    !.mode = IF device.job = "rest" /\ @ # "error" THEN "resting"
             ELSE IF device.job = "motion" /\ @ = "starting" THEN "active"
             ELSE @]

JobEnds ==
    /\ device.job # "none"
    /\ Publish(Done, <<>>)
    /\ UNCHANGED <<connected, sent, serviceVars, heard, turnVars, presses,
                   monitorVars, budget>>

JobFails ==
    /\ device.job # "none" /\ Spend("failures")
    /\ Publish([device EXCEPT !.job = "none", !.mode = "error"], <<>>)
    /\ UNCHANGED <<connected, sent, serviceVars, heard, turnVars, presses,
                   monitorVars>>

-----------------------------------------------------------------------------
(* The service                                                             *)
Unlock == lock' = Tail(lock)

Send(by, kind, judged) ==
    sent' = Append(sent, [by |-> by, kind |-> kind, judged |-> judged])

(* The check before the lock is asked for.                                 *)
RestPending(kind) == robot.resting /\ kind \in Motions \union {"rest"}

Asks(t, kind) == [task EXCEPT ![t] = [at |-> "locking", kind |-> kind]]

Call(t, kind) ==
    /\ task[t] = Idle
    /\ IF RestPending(kind) THEN UNCHANGED <<lock, task>>
       ELSE /\ lock' = Append(lock, t) /\ task' = Asks(t, kind)

(* Mutant: a robot at rest is asked to nod, as one that is not.            *)
RefusesAwakeOnly(kind) ==
    \/ ~connected \/ robot.state = None
    \/ kind \in Motions /\ robot.resting

(* What is judged with the lock in hand, by the last state heard.          *)
Refuses(kind) ==
    \/ ~connected \/ robot.state = None
    \/ kind \in Motions /\ robot.resting
    \/ kind \in {"nod", "rest"} /\ robot.state.mode = "resting"

(* Mutant: the task ends, but the lock is kept.                            *)
LeaveLocked(t) == UNCHANGED lock /\ task' = [task EXCEPT ![t] = Idle]

Leave(t) == Unlock /\ task' = [task EXCEPT ![t] = Idle]

Refuse(t) ==
    /\ Leave(t)
    /\ robot' = [robot EXCEPT !.state = IF connected THEN @ ELSE None]
    /\ UNCHANGED sent

Enter(t) ==
    /\ lock # <<>> /\ Head(lock) = t /\ task[t].at = "locking"
    /\ IF Refuses(task[t].kind) THEN Refuse(t)
       ELSE /\ Send(t, task[t].kind, robot.state.age)
            /\ task' = [task EXCEPT ![t].at = "asking"]
            /\ robot' = [robot EXCEPT !.resting = @ \/ task[t].kind = "rest"]
            /\ UNCHANGED lock
    /\ UNCHANGED <<deviceVars, connected, wire, heard, turnVars, presses,
                   monitorVars, budget>>

(* The command of t was accepted or failed.  A touch goes on to its light. *)
Answered(t, ok) ==
    /\ robot' = [robot EXCEPT
                   !.resting = @ /\ (ok \/ task[t].kind # "rest")]
    /\ IF t = Touch /\ ok /\ task[t].kind = "nod"
       THEN lock' = Append(Tail(lock), t) /\ task' = Asks(t, "light")
       ELSE Leave(t)
    /\ UNCHANGED <<heard, turnVars, monitorVars>>

-----------------------------------------------------------------------------
(* The connection monitor and synchronize_state                            *)
(* Mutant: the revision is forgotten, but not the state.                   *)
InvalidatedRevision == robot' = [Fresh EXCEPT !.state = robot.state]

Invalidated == robot' = Fresh

Poll ==
    /\ monitor = "asleep"
    /\ saw' = (saw \/ ~connected)
    /\ IF connected /\ robot.state = None
       THEN /\ monitor' = "locking" /\ lock' = Append(lock, "monitor")
            /\ UNCHANGED robot
       ELSE /\ IF connected THEN UNCHANGED robot ELSE Invalidated
            /\ UNCHANGED <<lock, monitor>>
    /\ UNCHANGED <<deviceVars, connected, sent, wire, task, heard, turnVars,
                   presses, budget>>

MonitorEnters ==
    /\ monitor = "locking" /\ Head(lock) = "monitor"
    /\ Invalidated
    /\ IF connected
       THEN /\ Send("monitor", "get", age) /\ monitor' = "asking"
            /\ UNCHANGED <<lock, saw>>
       ELSE /\ Unlock /\ monitor' = "asleep" /\ saw' = TRUE
            /\ UNCHANGED sent
    /\ UNCHANGED <<deviceVars, connected, wire, task, heard, turnVars,
                   presses, budget>>

MonitorAnswered(ok) ==
    /\ IF ok
       THEN /\ monitor' = IF robot.state = None THEN "listening" ELSE "woken"
            /\ UNCHANGED lock
       ELSE Unlock /\ monitor' = "asleep"
    /\ UNCHANGED <<robot, task, heard, turnVars, saw>>

(* The state it waited for came, or two seconds passed without one.  They  *)
(* pass when none is on its way; that one is slow is a late answer.        *)
Synchronized ==
    /\ monitor = "woken" /\ monitor' = "asleep" /\ Unlock
    /\ UNCHANGED <<deviceVars, connected, sent, wire, robot, task, heard,
                   turnVars, presses, saw, budget>>

SyncTimeout ==
    /\ monitor = "listening" /\ monitor' = "asleep"
    /\ IF sent = <<>> /\ wire = <<>> THEN UNCHANGED budget
       ELSE Spend("late")
    /\ Invalidated /\ Unlock
    /\ UNCHANGED <<deviceVars, connected, sent, wire, task, heard, turnVars,
                   presses, saw>>

-----------------------------------------------------------------------------
(* A turn of the worker: a robot command it recognised, or an inference    *)
(* between begin_inference and finish_inference, with its tool calls.      *)
Worker == "worker"

(* Tools are alike: the first that is free takes the call.                 *)
Free == CHOOSE t \in Tools : task[t] = Idle

TakeFast(kind) ==
    /\ turn.at = "idle" /\ Spend("turns")
    /\ turn' = [NoTurn EXCEPT !.at = "fast"]
    /\ Call(Free, kind)
    /\ UNCHANGED <<deviceVars, connected, sent, wire, robot, heard, forsaken,
                   presses, monitorVars>>

BeginInference ==
    /\ turn.at = "idle" /\ Spend("turns")
    /\ IF connected /\ heard # None /\ heard.mode = "active"
       THEN /\ Send(Worker, "thinking", heard.age)
            /\ turn' = [NoTurn EXCEPT !.at = "beginning",
                                      !.began = heard.age]
       ELSE turn' = [NoTurn EXCEPT !.at = "inferring"] /\ UNCHANGED sent
    /\ UNCHANGED <<deviceVars, connected, wire, serviceVars, heard, forsaken,
                   presses, monitorVars>>

CallTool(kind) ==
    /\ turn.at = "inferring" /\ \E t \in Tools : task[t] = Idle
    /\ Spend("calls") /\ Call(Free, kind)
    /\ UNCHANGED <<deviceVars, connected, sent, wire, robot, heard, turnVars,
                   presses, monitorVars>>

EndTurn ==
    /\ turn.at \in {"fast", "inferring"}
    /\ \A t \in Tools : task[t] = Idle
    /\ IF turn.restore /\ connected
       THEN /\ Send(Worker, "active", turn.began)
            /\ turn' = [turn EXCEPT !.at = "finishing"]
       ELSE turn' = NoTurn /\ UNCHANGED sent
    /\ forsaken' = (forsaken \/ (turn.restore /\ ~connected))
    /\ UNCHANGED <<deviceVars, connected, wire, serviceVars, heard, presses,
                   monitorVars, budget>>

(* Mutant: an inference does not remember that it has a mode to restore.   *)
StatusAnsweredForgetting(ok) ==
    /\ turn' = IF turn.at = "beginning" THEN [turn EXCEPT !.at = "inferring"]
               ELSE NoTurn
    /\ forsaken' = (forsaken \/ ~ok)
    /\ UNCHANGED <<serviceVars, heard, monitorVars>>

(* A set_status was answered, or it failed and is only logged.             *)
StatusAnswered(ok) ==
    /\ turn' = IF turn.at = "beginning"
               THEN [turn EXCEPT !.at = "inferring", !.restore = ok]
               ELSE NoTurn
    /\ forsaken' = (forsaken \/ ~ok)
    /\ UNCHANGED <<serviceVars, heard, monitorVars>>

-----------------------------------------------------------------------------
(* The touch dispatcher: its queue drops what does not fit.                *)
Press ==
    /\ connected /\ Spend("presses")
    /\ presses' = IF presses < Capacity THEN presses + 1 ELSE presses
    /\ UNCHANGED <<deviceVars, connected, sent, wire, serviceVars, heard,
                   turnVars, monitorVars>>

TakeTouch ==
    /\ presses > 0 /\ presses' = presses - 1 /\ Call(Touch, "nod")
    /\ UNCHANGED <<deviceVars, connected, sent, wire, robot, heard, turnVars,
                   monitorVars, budget>>

-----------------------------------------------------------------------------
(* The device client                                                       *)
Continues(m) == robot.last = None \/ m.revision = robot.last + 1

(* Mutant: a resting state does not end the rest transition.               *)
OnStateStillResting(m) ==
    /\ robot' =
         [state |-> IF Continues(m) THEN [mode |-> m.mode, age |-> m.age]
                    ELSE None,
          last |-> m.revision, resting |-> robot.resting]
    /\ heard' = [mode |-> m.mode, age |-> m.age]
    /\ monitor' = IF monitor = "listening" /\ Continues(m) THEN "woken"
                  ELSE monitor
    /\ UNCHANGED <<lock, task, turnVars, saw>>

(* RobotCommandService._on_state and StatusCoordinator._on_state           *)
OnState(m) ==
    /\ robot' =
         [state |-> IF Continues(m) THEN [mode |-> m.mode, age |-> m.age]
                    ELSE None,
          last |-> m.revision,
          resting |-> robot.resting
                        /\ ~(Continues(m) /\ m.mode = "resting")]
    /\ heard' = [mode |-> m.mode, age |-> m.age]
    /\ monitor' = IF monitor = "listening" /\ Continues(m) THEN "woken"
                  ELSE monitor
    /\ UNCHANGED <<lock, task, turnVars, saw>>

Resume(by, ok) ==
    CASE by \in Clients -> Answered(by, ok)
      [] by = "monitor" -> MonitorAnswered(ok)
      [] by = Worker -> StatusAnswered(ok)
      [] by = None -> UNCHANGED <<serviceVars, heard, turnVars, monitorVars>>

Receive ==
    /\ wire # <<>> /\ wire' = Tail(wire)
    /\ LET m == Head(wire)
       IN IF m.what = "state" THEN OnState(m)
          ELSE Resume(m.by, m.what = "accepted")
    /\ UNCHANGED <<deviceVars, connected, sent, presses, budget>>

Asking(by) ==
    CASE by \in Clients -> task[by].at = "asking"
      [] by = "monitor" -> monitor = "asking"
      [] by = Worker -> turn.at \in {"beginning", "finishing"}

Askers == Clients \union {"monitor", Worker}

Unanswered(by) ==
    /\ Asking(by)
    /\ \A i \in DOMAIN sent : sent[i].by # by
    /\ \A i \in DOMAIN wire : wire[i].by # by

(* The request failed: with the connection, or for its timeout.            *)
RequestFails(by) ==
    /\ Unanswered(by) /\ Resume(by, FALSE)
    /\ UNCHANGED <<deviceVars, connected, sent, wire, presses, budget>>

Forget(by, m) == IF m.by = by THEN [m EXCEPT !.by = None] ELSE m

RequestTimeout(by) ==
    /\ Asking(by) /\ ~Unanswered(by) /\ Spend("late")
    /\ sent' = [i \in DOMAIN sent |-> Forget(by, sent[i])]
    /\ wire' = [i \in DOMAIN wire |-> Forget(by, wire[i])]
    /\ UNCHANGED <<deviceVars, connected, serviceVars, heard, turnVars,
                   presses, monitorVars>>

(* The connection is lost, alone or with the device, which then starts     *)
(* anew and counts its revisions from zero.                                *)
Lose(restarts) ==
    /\ connected /\ Spend("losses")
    /\ connected' = FALSE /\ sent' = <<>> /\ wire' = <<>> /\ saw' = FALSE
    /\ IF restarts
       THEN device' = [mode |-> "active", job |-> "none", revision |-> 0]
       ELSE UNCHANGED device
    /\ UNCHANGED <<age, rested, serviceVars, heard, turnVars, presses,
                   monitor>>

(* It comes back half a second later at the earliest, and the monitor      *)
(* looks every quarter of one, except while it waits for a state.          *)
Reconnect ==
    /\ ~connected /\ connected' = TRUE
    /\ saw \/ monitor = "listening"
    /\ \A by \in Askers : ~Asking(by)
    /\ UNCHANGED <<deviceVars, sent, wire, serviceVars, heard, turnVars,
                   presses, monitorVars, budget>>

Next ==
    \/ Handle \/ JobEnds \/ JobFails
    \/ \E kind \in Foreign : OtherClient(kind)
    \/ Poll \/ MonitorEnters \/ Synchronized \/ SyncTimeout
    \/ \E t \in Clients : Enter(t)
    \/ \E kind \in Asked : TakeFast(kind) \/ CallTool(kind)
    \/ BeginInference \/ EndTurn \/ Press \/ TakeTouch
    \/ Receive \/ Reconnect
    \/ \E by \in Askers : RequestFails(by) \/ RequestTimeout(by)
    \/ \E restarts \in BOOLEAN : Lose(restarts)

Spec == Init /\ [][Next]_vars

(* Tasks that can run do, what is sent arrives or is lost, motions and     *)
(* inferences end, timers fire and the client reconnects.                  *)
FairSpec ==
    /\ Spec
    /\ WF_vars(Handle) /\ WF_vars(JobEnds) /\ WF_vars(Receive)
    /\ WF_vars(Poll) /\ WF_vars(MonitorEnters) /\ WF_vars(Synchronized)
    /\ WF_vars(SyncTimeout) /\ WF_vars(Reconnect)
    /\ WF_vars(EndTurn) /\ WF_vars(TakeTouch)
    /\ \A t \in Clients : WF_vars(Enter(t))
    /\ \A by \in Askers : WF_vars(RequestFails(by))

-----------------------------------------------------------------------------
(* What the service judges by is what it heard last of everything the      *)
(* device published on this connection: it lags by exactly the states that *)
(* are on their way, whatever was lost, restarted or synchronised before.  *)
NothingMissed ==
    connected /\ robot.state # None =>
        robot.state.age + Cardinality({i \in DOMAIN wire :
                                         wire[i].what = "state"}) = age

(* The agent does not disturb a robot at rest, except to wake it up: what  *)
(* it sent that ends a rest was decided before the agent had heard of that *)
(* rest (for the end of an inference, when the inference began).           *)
RestIsKept ==
    [][device.mode = "resting" /\ device'.mode # "resting"
         /\ sent' # sent /\ connected' =>
           Head(sent).kind = "wake" \/ Head(sent).judged < rested]_vars

(* In the end, when nobody asks for anything any more:                     *)
(* the mode an inference set has ended with it, unless one of the two      *)
(* commands failed or the connection was down when the second was due;     *)
ThinkingEnds == <>[](device.mode # "thinking" \/ forsaken)

(* whoever asked for the robot was served: nobody keeps the lock, no turn   *)
(* and no touch waits for ever, the robot is ready whatever was lost, and   *)
(* a rest the agent asked for is over for it, which accepts motions again,  *)
(* unless a motion of the device failed.                                    *)
EverybodyIsServed ==
    <>[](/\ \A t \in Clients : task[t] = Idle
         /\ turn.at = "idle" /\ presses = 0 /\ IsReady
         /\ ~robot.resting \/ budget["failures"] < Limits["failures"])
=============================================================================
