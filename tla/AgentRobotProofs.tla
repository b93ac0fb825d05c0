--------------------------- MODULE AgentRobotProofs ---------------------------
(***************************************************************************)
(* Theorems of AgentRobot, for any tools, commands, bounds and capacity:   *)
(* its types, that the service misses nothing the device has said, and     *)
(* that the agent leaves a robot at rest alone.                            *)
(***************************************************************************)
EXTENDS AgentRobot, FiniteSetTheorems, TLAPS

USE RobotAssumption DEF RobotAssumption

-----------------------------------------------------------------------------
(* Types                                                                   *)
Modes == {"active", "starting", "thinking", "resting", "error"}
Views == [mode : Modes, age : Nat]
Commands == [by : Askers \union {None},
             kind : Kinds \union {"thinking", "active", "get"}, judged : Nat]
Answers == [what : {"accepted", "error"}, by : Askers \union {None}]
StateMessages == [what : {"state"}, by : {None}, mode : Modes,
                  revision : Nat, age : Nat]
Messages == Answers \union StateMessages

DeviceType ==
    /\ device \in [mode : Modes, job : {"none", "motion", "rest"},
                   revision : Nat]
    /\ age \in Nat /\ rested \in Nat

NetworkType ==
    /\ connected \in BOOLEAN
    /\ sent \in Seq(Commands) /\ wire \in Seq(Messages)

RobotType ==
    /\ robot \in [state : Views \union {None}, last : Nat \union {None},
                  resting : BOOLEAN]
    /\ heard \in Views \union {None}

TaskType ==
    /\ task \in [Clients -> [at : {"idle", "locking", "asking"},
                             kind : Kinds \union {None}]]
    /\ \A t \in Clients : task[t].at # "idle" => task[t].kind \in Kinds
    /\ turn \in [at : {"idle", "fast", "beginning", "inferring", "finishing"},
                 restore : BOOLEAN, began : Nat]
    /\ monitor \in {"asleep", "locking", "asking", "listening", "woken"}
    /\ saw \in BOOLEAN

TypeOK == DeviceType /\ NetworkType /\ RobotType /\ TaskType

DeviceStates == [mode : Modes, job : {"none", "motion", "rest"}, revision : Nat]

LEMMA TypeInit == Init => TypeOK
  <1> SUFFICES ASSUME Init PROVE TypeOK
    OBVIOUS
  <1>1. DeviceType
    BY DEF Init, DeviceType, Modes
  <1>2. NetworkType /\ RobotType
    <2>0. connected = FALSE /\ sent = <<>> /\ wire = <<>>
      BY DEF Init
    <2>1. connected \in BOOLEAN /\ sent \in Seq(Commands)
          /\ wire \in Seq(Messages)
      <3>1. \A S : <<>> \in Seq(S)
        OBVIOUS
      <3> QED BY <2>0, <3>1
    <2>2. RobotType
      BY DEF Init, RobotType, Fresh
    <2> QED BY <2>1, <2>2 DEF NetworkType
  <1>3. TaskType
    BY DEF Init, TaskType, NoTurn, Idle
  <1> QED BY <1>1, <1>2, <1>3 DEF TypeOK

(* A new state is published, after at most one answer.                     *)
LEMMA PublishType ==
    ASSUME TypeOK, NEW d \in DeviceStates, NEW answers \in Seq(Messages),
           Publish(d, answers)
    PROVE  /\ DeviceType' /\ wire' \in Seq(Messages)
           /\ StateOf(device', age') \in Messages
  <1>1. device' = [d EXCEPT !.revision = d.revision + 1] /\ age' = age + 1
    BY DEF Publish
  <1>2. age' \in Nat /\ rested' \in Nat
    BY <1>1 DEF Publish, TypeOK, DeviceType
  <1>3. device' \in DeviceStates
    BY <1>1 DEF DeviceStates
  <1>4. DeviceType'
    BY <1>2, <1>3 DEF DeviceType, DeviceStates
  <1>5. StateOf(device', age') \in Messages
    BY <1>2, <1>3 DEF StateOf, Messages, StateMessages, DeviceStates
  <1>6. wire \in Seq(Messages)
    BY DEF TypeOK, NetworkType
  <1>7. wire' = wire \/ wire' = wire \o answers \o <<StateOf(device', age')>>
    BY DEF Publish
  <1>8. wire' \in Seq(Messages)
    <2> DEFINE m == StateOf(device', age')
    <2>1. m \in Messages /\ (wire' = wire \/ wire' = wire \o answers \o <<m>>)
      BY <1>5, <1>7
    <2> HIDE DEF m
    <2>2. answers \in Seq(Messages)
      OBVIOUS
    <2>3. wire \o answers \in Seq(Messages)
      BY ONLY <1>6, <2>2
    <2>4. (wire \o answers) \o <<m>> \in Seq(Messages)
      BY ONLY <2>1, <2>3
    <2> QED BY ONLY <1>6, <2>1, <2>4
  <1> QED BY <1>4, <1>5, <1>8

LEMMA CommandedType ==
    ASSUME TypeOK, NEW kind \in Kinds \union {"thinking", "active", "get"}
    PROVE  /\ Commanded(kind) \in DeviceStates
           /\ kind \in {"rest", "light", "get"} =>
                Commanded(kind).mode = device.mode
  BY DEF TypeOK, DeviceType, Commanded, DeviceStates, Modes, Kinds, Motions

LEMMA DoneType ==
    ASSUME TypeOK
    PROVE  /\ Done \in DeviceStates
           /\ [device EXCEPT !.job = "none", !.mode = "error"] \in DeviceStates
  BY DEF TypeOK, DeviceType, Done, DeviceStates, Modes

LEMMA SentParts ==
    ASSUME TypeOK, sent # <<>>
    PROVE  Head(sent) \in Commands /\ Tail(sent) \in Seq(Commands)
  <1>1. sent \in Seq(Commands)
    BY DEF TypeOK, NetworkType
  <1> QED BY <1>1

LEMMA WireParts ==
    ASSUME TypeOK, wire # <<>>
    PROVE  Head(wire) \in Messages /\ Tail(wire) \in Seq(Messages)
  <1>1. wire \in Seq(Messages)
    BY DEF TypeOK, NetworkType
  <1> QED BY <1>1

LEMMA SendType ==
    ASSUME TypeOK, NEW by \in Askers,
           NEW kind \in Kinds \union {"thinking", "active", "get"},
           NEW judged \in Nat, Send(by, kind, judged)
    PROVE  sent' \in Seq(Commands)
  <1>1. [by |-> by, kind |-> kind, judged |-> judged] \in Commands
    BY DEF Commands
  <1> QED BY <1>1 DEF TypeOK, NetworkType, Send

(* The device acts, by itself or on a command.                             *)
LEMMA DeviceActs ==
    ASSUME TypeOK, Handle \/ JobEnds \/ JobFails
                     \/ \E kind \in Foreign : OtherClient(kind)
    PROVE  \/ /\ Handle /\ UNCHANGED deviceVars
              /\ \E by \in Askers \union {None} :
                     wire' = Append(wire, Answer("error", by))
           \/ \E d \in DeviceStates :
                /\ Publish(d, <<>>) /\ UNCHANGED sent
           \/ /\ Handle /\ Head(sent) \in Commands
              /\ Publish(Commanded(Head(sent).kind),
                         <<Answer("accepted", Head(sent).by)>>)
  <1>1. CASE Handle
    BY <1>1, SentParts DEF Handle, Commands
  <1>2. CASE JobEnds \/ JobFails
    BY <1>2, DoneType DEF JobEnds, JobFails
  <1>3. ASSUME NEW kind \in Foreign, OtherClient(kind)
        PROVE  \E d \in DeviceStates : Publish(d, <<>>) /\ UNCHANGED sent
    BY <1>3, CommandedType DEF OtherClient
  <1> QED BY <1>1, <1>2, <1>3

LEMMA DeviceActsType ==
    ASSUME TypeOK, Handle \/ JobEnds \/ JobFails
                     \/ \E kind \in Foreign : OtherClient(kind)
    PROVE  TypeOK'
  <1>1. RobotType' /\ TaskType' /\ connected' = connected
    BY DEF TypeOK, RobotType, TaskType, Handle, JobEnds, JobFails, OtherClient,
           serviceVars, turnVars, monitorVars
  <1>2. sent' \in Seq(Commands)
    BY SentParts DEF TypeOK, NetworkType, Handle, JobEnds, JobFails, OtherClient
  <1>3. DeviceType' /\ wire' \in Seq(Messages)
    <2>1. CASE UNCHANGED deviceVars
               /\ \E by \in Askers \union {None} :
                     wire' = Append(wire, Answer("error", by))
      <3>1. \A by \in Askers \union {None} : Answer("error", by) \in Messages
        BY DEF Answer, Messages, Answers
      <3> QED BY <2>1, <3>1 DEF TypeOK, DeviceType, NetworkType, deviceVars
    <2>2. ASSUME NEW d \in DeviceStates, Publish(d, <<>>)
          PROVE  DeviceType' /\ wire' \in Seq(Messages)
      <3>1. <<>> \in Seq(Messages)
        OBVIOUS
      <3> QED BY <2>2, <3>1, PublishType
    <2>3. ASSUME NEW c \in Commands,
                 Publish(Commanded(c.kind), <<Answer("accepted", c.by)>>)
          PROVE  DeviceType' /\ wire' \in Seq(Messages)
      <3>1. Answer("accepted", c.by) \in Messages /\ Commanded(c.kind) \in DeviceStates
        BY <2>3, CommandedType DEF Commands, Answer, Messages, Answers
      <3>2. <<Answer("accepted", c.by)>> \in Seq(Messages)
        BY <3>1
      <3> QED BY <2>3, <3>1, <3>2, PublishType
    <2> QED BY <2>1, <2>2, <2>3, DeviceActs
  <1> QED BY <1>1, <1>2, <1>3 DEF TypeOK, NetworkType

LEMMA AskersType ==
    /\ "monitor" \in Askers /\ Worker \in Askers
    /\ Clients \subseteq Askers /\ Touch \in Clients
    /\ "nod" \in Kinds /\ "wake" \in Kinds /\ "light" \in Kinds
    /\ Asked \subseteq Kinds
  BY DEF Askers, Worker, Clients, Kinds, Motions

LEMMA CallType ==
    ASSUME TypeOK, NEW t, NEW kind \in Kinds, Call(t, kind)
    PROVE  /\ task' \in [Clients -> [at : {"idle", "locking", "asking"},
                                    kind : Kinds \union {None}]]
           /\ \A c \in Clients : task'[c].at # "idle" => task'[c].kind \in Kinds
  BY DEF TypeOK, TaskType, Call, Asks

LEMMA LeaveType ==
    ASSUME TypeOK, NEW t, Leave(t)
    PROVE  /\ task' \in [Clients -> [at : {"idle", "locking", "asking"},
                                    kind : Kinds \union {None}]]
           /\ \A c \in Clients : task'[c].at # "idle" => task'[c].kind \in Kinds
  BY DEF TypeOK, TaskType, Leave, Idle

LEMMA MonitorType ==
    ASSUME TypeOK, Poll \/ MonitorEnters \/ Synchronized \/ SyncTimeout
    PROVE  TypeOK'
  <1>1. DeviceType' /\ connected' = connected /\ wire' = wire
    BY DEF TypeOK, DeviceType, Poll, MonitorEnters, Synchronized, SyncTimeout,
           deviceVars
  <1>2. RobotType'
    <2>1. UNCHANGED heard /\ (UNCHANGED robot \/ robot' = Fresh)
      BY DEF Poll, MonitorEnters, Synchronized, SyncTimeout, Invalidated
    <2>2. Fresh \in [state : Views \union {None}, last : Nat \union {None},
                     resting : BOOLEAN]
      BY DEF Fresh
    <2> QED BY <2>1, <2>2 DEF TypeOK, RobotType
  <1>3. TaskType'
    <2>1. UNCHANGED <<task, turn>>
      BY DEF Poll, MonitorEnters, Synchronized, SyncTimeout, turnVars
    <2>2. /\ monitor' \in {"asleep", "locking", "asking", "listening", "woken"}
          /\ saw' \in BOOLEAN
      BY DEF TypeOK, TaskType, NetworkType, Poll, MonitorEnters, Synchronized,
             SyncTimeout
    <2> QED BY <2>1, <2>2 DEF TypeOK, TaskType
  <1>4. sent' \in Seq(Commands)
    <2>1. sent' = sent \/ Send("monitor", "get", age)
      BY DEF Poll, MonitorEnters, Synchronized, SyncTimeout
    <2>2. age \in Nat /\ sent \in Seq(Commands)
      BY DEF TypeOK, DeviceType, NetworkType
    <2> QED BY <2>1, <2>2, SendType, AskersType
  <1> QED BY <1>1, <1>2, <1>3, <1>4 DEF TypeOK, NetworkType

LEMMA EnterType ==
    ASSUME TypeOK, NEW t \in Clients, Enter(t)
    PROVE  TypeOK'
  <1>1. /\ UNCHANGED <<device, age, rested, connected, wire, heard, turn,
                       monitor, saw>>
        /\ task[t].at = "locking" /\ task[t].kind \in Kinds
    BY DEF Enter, deviceVars, turnVars, monitorVars, TypeOK, TaskType
  <1>2. CASE Refuses(task[t].kind)
    <2>1. /\ Leave(t) /\ sent' = sent
          /\ robot' = [robot EXCEPT !.state = IF connected THEN robot.state ELSE None]
      BY <1>2 DEF Enter, Refuse
    <2>2. RobotType'
      BY <1>1, <2>1 DEF TypeOK, RobotType
    <2> QED BY <1>1, <2>1, <2>2, LeaveType
            DEF TypeOK, DeviceType, NetworkType, TaskType
  <1>3. CASE ~Refuses(task[t].kind)
    <2>1. /\ Send(t, task[t].kind, robot.state.age)
          /\ task' = [task EXCEPT ![t].at = "asking"]
          /\ robot' = [robot EXCEPT
                         !.resting = robot.resting \/ task[t].kind = "rest"]
      BY <1>3 DEF Enter
    <2>2. robot.state.age \in Nat
      BY <1>3 DEF Refuses, TypeOK, RobotType, Views
    <2>3. sent' \in Seq(Commands)
      BY <1>1, <2>1, <2>2, SendType, AskersType
    <2>4. RobotType'
      BY <1>1, <2>1 DEF TypeOK, RobotType
    <2>5. TaskType'
      BY <1>1, <2>1 DEF TypeOK, TaskType
    <2> QED BY <1>1, <2>3, <2>4, <2>5 DEF TypeOK, DeviceType, NetworkType
  <1> QED BY <1>2, <1>3

LEMMA TurnType ==
    ASSUME TypeOK,
           \/ \E kind \in Asked : TakeFast(kind) \/ CallTool(kind)
           \/ BeginInference \/ EndTurn \/ Press \/ TakeTouch
    PROVE  TypeOK'
  <1>1. /\ UNCHANGED <<device, age, rested, connected, wire, robot, heard,
                       monitor, saw>>
    BY DEF TakeFast, CallTool, BeginInference, EndTurn, Press, TakeTouch,
           deviceVars, serviceVars, monitorVars
  <1>2. /\ task' \in [Clients -> [at : {"idle", "locking", "asking"},
                                 kind : Kinds \union {None}]]
        /\ \A c \in Clients : task'[c].at # "idle" => task'[c].kind \in Kinds
    <2>1. task' = task \/ \E t \in Clients \union {Free}, kind \in Kinds : Call(t, kind)
      BY AskersType DEF TakeFast, CallTool, BeginInference, EndTurn, Press,
         TakeTouch, serviceVars
    <2> QED BY <2>1, CallType DEF TypeOK, TaskType
  <1>3. turn' \in [at : {"idle", "fast", "beginning", "inferring", "finishing"},
                   restore : BOOLEAN, began : Nat]
    <2>1. CASE BeginInference
      <3>1. heard # None => heard.age \in Nat
        BY DEF TypeOK, RobotType, Views
      <3>2. \/ turn' = [at |-> "inferring", restore |-> FALSE, began |-> 0]
            \/ /\ heard # None
               /\ turn' = [at |-> "beginning", restore |-> FALSE,
                           began |-> heard.age]
        BY <2>1 DEF BeginInference, NoTurn
      <3>3. CASE turn' = [at |-> "inferring", restore |-> FALSE, began |-> 0]
        BY <3>3
      <3>4. CASE heard # None /\ turn' = [at |-> "beginning", restore |-> FALSE,
                                         began |-> heard.age]
        BY <3>1, <3>4
      <3> QED BY <3>2, <3>3, <3>4
    <2>2. CASE ~BeginInference
      <3>1. \/ turn' = turn
            \/ turn' = [at |-> "fast", restore |-> FALSE, began |-> 0]
            \/ turn' = [at |-> "idle", restore |-> FALSE, began |-> 0]
            \/ turn' = [turn EXCEPT !.at = "finishing"]
        BY <2>2 DEF TakeFast, CallTool, EndTurn, Press, TakeTouch, turnVars, NoTurn
      <3>2. CASE turn' = [at |-> "fast", restore |-> FALSE, began |-> 0]
        BY <3>2
      <3>3. CASE turn' = [at |-> "idle", restore |-> FALSE, began |-> 0]
        BY <3>3
      <3>4. CASE turn' = turn \/ turn' = [turn EXCEPT !.at = "finishing"]
        BY <3>4 DEF TypeOK, TaskType
      <3> QED BY <3>1, <3>2, <3>3, <3>4
    <2> QED BY <2>1, <2>2
  <1>4. sent' \in Seq(Commands)
    <2>1. \/ sent' = sent
          \/ heard # None /\ Send(Worker, "thinking", heard.age)
          \/ Send(Worker, "active", turn.began)
      BY DEF TakeFast, CallTool, BeginInference, EndTurn, Press, TakeTouch
    <2>2. (heard # None => heard.age \in Nat) /\ turn.began \in Nat
      BY DEF TypeOK, RobotType, TaskType, Views
    <2> QED BY <2>1, <2>2, SendType, AskersType DEF TypeOK, NetworkType
  <1> QED BY <1>1, <1>2, <1>3, <1>4
          DEF TypeOK, DeviceType, NetworkType, RobotType, TaskType

LEMMA ResumeType ==
    ASSUME TypeOK, NEW by \in Askers \union {None}, NEW ok \in BOOLEAN,
           Resume(by, ok)
    PROVE  RobotType' /\ TaskType'
  <1>1. ASSUME by \in Clients, Answered(by, ok) PROVE RobotType' /\ TaskType'
    <2>1. /\ UNCHANGED <<heard, turn, monitor, saw>>
          /\ robot' = [robot EXCEPT !.resting =
                         robot.resting /\ (ok \/ task[by].kind # "rest")]
          /\ task' = Asks(by, "light") \/ Leave(by)
      BY <1>1 DEF Answered, turnVars, monitorVars
    <2>2. RobotType'
      BY <2>1 DEF TypeOK, RobotType
    <2>3. CASE task' = Asks(by, "light")
      BY <2>1, <2>2, <2>3, AskersType DEF TypeOK, TaskType, Asks
    <2>4. CASE Leave(by)
      BY <2>1, <2>2, <2>4, LeaveType DEF TypeOK, TaskType
    <2> QED BY <2>1, <2>3, <2>4
  <1>2. ASSUME MonitorAnswered(ok) PROVE RobotType' /\ TaskType'
    BY <1>2 DEF MonitorAnswered, TypeOK, RobotType, TaskType, turnVars
  <1>3. ASSUME StatusAnswered(ok) PROVE RobotType' /\ TaskType'
    BY <1>3 DEF StatusAnswered, TypeOK, RobotType, TaskType, serviceVars,
                monitorVars, NoTurn
  <1>4. ASSUME UNCHANGED <<serviceVars, heard, turnVars, monitorVars>>
        PROVE  RobotType' /\ TaskType'
    BY <1>4 DEF TypeOK, RobotType, TaskType, serviceVars, turnVars, monitorVars
  <1>5. \/ (by \in Clients /\ Answered(by, ok)) \/ MonitorAnswered(ok)
        \/ StatusAnswered(ok)
        \/ UNCHANGED <<serviceVars, heard, turnVars, monitorVars>>
    BY DEF Resume, Askers
  <1> QED BY <1>1, <1>2, <1>3, <1>4, <1>5

LEMMA ReceiveType ==
    ASSUME TypeOK, Receive
    PROVE  TypeOK'
  <1>1. /\ UNCHANGED <<device, age, rested, connected, sent>>
        /\ wire # <<>> /\ wire' = Tail(wire)
    BY DEF Receive, deviceVars
  <1>2. Head(wire) \in Messages /\ wire' \in Seq(Messages)
    BY <1>1, WireParts
  <1>3. CASE Head(wire).what = "state"
    <2> DEFINE m == Head(wire)
               view == [mode |-> m.mode, age |-> m.age]
    <2>1. OnState(m)
      BY <1>3 DEF Receive
    <2>2. view \in Views /\ m.revision \in Nat
      BY <1>2, <1>3 DEF Messages, Answers, StateMessages, Views
    <2>3. UNCHANGED <<task, turn, saw>>
          /\ monitor' \in {"asleep", "locking", "asking", "listening", "woken"}
      BY <2>1 DEF OnState, turnVars, TypeOK, TaskType
    <2>4. RobotType'
      BY <2>1, <2>2 DEF OnState, TypeOK, RobotType
    <2> QED BY <1>1, <1>2, <2>3, <2>4 DEF TypeOK, DeviceType, NetworkType, TaskType
  <1>4. CASE Head(wire).what # "state"
    <2>1. /\ Resume(Head(wire).by, Head(wire).what = "accepted")
          /\ Head(wire).by \in Askers \union {None}
      BY <1>2, <1>4 DEF Receive, Messages, Answers, StateMessages
    <2>2. (Head(wire).what = "accepted") \in BOOLEAN
      OBVIOUS
    <2> QED BY <1>1, <1>2, <2>1, <2>2, ResumeType
            DEF TypeOK, DeviceType, NetworkType
  <1> QED BY <1>3, <1>4

(* The requests of one task are nobody's any more.                         *)
LEMMA ForgetType ==
    ASSUME TypeOK, NEW by
    PROVE  /\ [i \in DOMAIN sent |-> Forget(by, sent[i])] \in Seq(Commands)
           /\ [i \in DOMAIN wire |-> Forget(by, wire[i])] \in Seq(Messages)
  <1>1. \A c \in Commands : Forget(by, c) \in Commands
    BY DEF Forget, Commands
  <1>2. \A m \in Messages : Forget(by, m) \in Messages
    BY DEF Forget, Messages, Answers, StateMessages
  <1>3. sent \in Seq(Commands) /\ wire \in Seq(Messages)
    BY DEF TypeOK, NetworkType
  <1>4. [i \in DOMAIN sent |-> Forget(by, sent[i])] \in Seq(Commands)
    BY ONLY <1>1, <1>3
  <1>5. [i \in DOMAIN wire |-> Forget(by, wire[i])] \in Seq(Messages)
    BY ONLY <1>2, <1>3
  <1> QED BY <1>4, <1>5

LEMMA ConnectionType ==
    ASSUME TypeOK,
           \/ Reconnect
           \/ \E by \in Askers : RequestFails(by) \/ RequestTimeout(by)
           \/ \E restarts \in BOOLEAN : Lose(restarts)
    PROVE  TypeOK'
  <1>1. CASE Reconnect
    BY <1>1 DEF Reconnect, deviceVars, serviceVars, turnVars, monitorVars,
                TypeOK, DeviceType, NetworkType, RobotType, TaskType
  <1>2. ASSUME NEW by \in Askers, RequestFails(by) PROVE TypeOK'
    <2>1. UNCHANGED <<device, age, rested, connected, sent, wire>>
          /\ Resume(by, FALSE)
      BY <1>2 DEF RequestFails, deviceVars
    <2> QED BY <2>1, ResumeType DEF TypeOK, DeviceType, NetworkType
  <1>3. ASSUME NEW by \in Askers, RequestTimeout(by) PROVE TypeOK'
    <2>1. /\ UNCHANGED <<device, age, rested, connected, robot, task, heard,
                         turn, monitor, saw>>
          /\ sent' = [i \in DOMAIN sent |-> Forget(by, sent[i])]
          /\ wire' = [i \in DOMAIN wire |-> Forget(by, wire[i])]
      BY <1>3 DEF RequestTimeout, deviceVars, serviceVars, turnVars, monitorVars
    <2>2. sent' \in Seq(Commands) /\ wire' \in Seq(Messages)
      BY <2>1, ForgetType
    <2> QED BY <2>1, <2>2 DEF TypeOK, DeviceType, NetworkType, RobotType, TaskType
  <1>4. ASSUME NEW restarts \in BOOLEAN, Lose(restarts) PROVE TypeOK'
    <2>1. /\ UNCHANGED <<age, rested, robot, task, heard, turn, monitor>>
          /\ connected' = FALSE /\ sent' = <<>> /\ wire' = <<>> /\ saw' = FALSE
          /\ \/ device' = device
             \/ device' = [mode |-> "active", job |-> "none", revision |-> 0]
      BY <1>4 DEF Lose, serviceVars, turnVars
    <2>2. DeviceType'
      BY <2>1 DEF TypeOK, DeviceType, Modes
    <2>3. \A S : <<>> \in Seq(S)
      OBVIOUS
    <2> QED BY <2>1, <2>2, <2>3 DEF TypeOK, NetworkType, RobotType, TaskType
  <1> QED BY <1>1, <1>2, <1>3, <1>4

LEMMA TypeStep ==
    ASSUME TypeOK, [Next]_vars PROVE TypeOK'
  <1>1. CASE UNCHANGED vars
    BY <1>1 DEF vars, deviceVars, serviceVars, turnVars, monitorVars,
                TypeOK, DeviceType, NetworkType, RobotType, TaskType
  <1> QED BY <1>1, DeviceActsType, MonitorType, EnterType, TurnType,
             ReceiveType, ConnectionType DEF Next

(* Every variable the properties are about keeps its type.                 *)
THEOREM TypeCorrect == Spec => []TypeOK
  <1>1. TypeOK /\ [Next]_vars => TypeOK'
    BY TypeStep
  <1> QED BY <1>1, TypeInit, PTL DEF Spec

-----------------------------------------------------------------------------
(* What is on its way ends with the device's last state and leaves out     *)
(* none before it; nothing is left of a connection that was lost.          *)

IsState(m) == m.what = "state"
OnAir(w, n) == \E i \in DOMAIN w : IsState(w[i]) /\ w[i].age = n

InOrder(w, a) ==
    /\ \A i \in DOMAIN w : IsState(w[i]) => w[i].age <= a
    /\ \A i, j \in DOMAIN w :
         i < j /\ IsState(w[i]) /\ IsState(w[j]) => w[i].age < w[j].age

Complete(w, a) ==
    \A i \in DOMAIN w : IsState(w[i]) => \A n \in w[i].age .. a : OnAir(w, n)

Ahead(w, c) == \A i \in DOMAIN w : IsState(w[i]) => c < w[i].age

Joined(w, c, a) == c <= a /\ \A n \in c + 1 .. a : OnAir(w, n)

Cleared ==
    /\ ~connected => sent = <<>> /\ wire = <<>>
    /\ monitor = "listening" => robot.state = None
    /\ ~connected /\ saw => robot.state = None

Followed ==
    /\ InOrder(wire, age) /\ Complete(wire, age)
    /\ connected /\ robot.state # None =>
         Ahead(wire, robot.state.age) /\ Joined(wire, robot.state.age, age)

LEMMA AppendParts ==
    ASSUME NEW w \in Seq(Messages), NEW m \in Messages
    PROVE  /\ Append(w, m) \in Seq(Messages)
           /\ DOMAIN Append(w, m) = DOMAIN w \union {Len(w) + 1}
           /\ Len(w) + 1 \notin DOMAIN w
           /\ Append(w, m)[Len(w) + 1] = m
           /\ \A i \in DOMAIN w : /\ i \in Nat /\ i < Len(w) + 1
                                  /\ Append(w, m)[i] = w[i]
  OBVIOUS

LEMMA TailParts ==
    ASSUME NEW w \in Seq(Messages), w # <<>>
    PROVE  /\ Tail(w) \in Seq(Messages) /\ Head(w) \in Messages
           /\ 1 \in DOMAIN w /\ Head(w) = w[1]
           /\ \A i \in DOMAIN Tail(w) :
                /\ i \in Nat /\ i >= 1
                /\ i + 1 \in DOMAIN w /\ Tail(w)[i] = w[i + 1]
           /\ \A i \in DOMAIN w : i # 1 => /\ i \in Nat /\ i - 1 \in DOMAIN Tail(w)
                                           /\ Tail(w)[i - 1] = w[i]
  OBVIOUS

LEMMA StateAge ==
    ASSUME NEW w \in Seq(Messages), NEW i \in DOMAIN w, IsState(w[i])
    PROVE  w[i].age \in Nat
  <1>1. w[i] \in Messages
    OBVIOUS
  <1> QED BY <1>1 DEF IsState, Messages, Answers, StateMessages

(* The device sends something that is no state.                            *)
LEMMA OtherAppended ==
    ASSUME NEW w \in Seq(Messages), NEW m \in Messages, ~IsState(m),
           NEW a, NEW c
    PROVE  /\ InOrder(w, a) => InOrder(Append(w, m), a)
           /\ Complete(w, a) => Complete(Append(w, m), a)
           /\ Ahead(w, c) => Ahead(Append(w, m), c)
           /\ Joined(w, c, a) => Joined(Append(w, m), c, a)
  <1> DEFINE v == Append(w, m)
             k == Len(w) + 1
  <1>1. /\ DOMAIN v = DOMAIN w \union {k} /\ ~IsState(v[k])
        /\ \A i \in DOMAIN w : v[i] = w[i]
    BY AppendParts
  <1> HIDE DEF v, k
  <1>2. \A n : OnAir(w, n) => OnAir(v, n)
    BY <1>1 DEF OnAir
  <1>3. InOrder(w, a) => InOrder(v, a)
    BY <1>1 DEF InOrder
  <1>4. Complete(w, a) => Complete(v, a)
    BY <1>1, <1>2 DEF Complete
  <1>5. Ahead(w, c) => Ahead(v, c)
    BY <1>1 DEF Ahead
  <1>6. Joined(w, c, a) => Joined(v, c, a)
    BY <1>2 DEF Joined
  <1> QED BY <1>3, <1>4, <1>5, <1>6 DEF v

(* The device publishes its next state.                                    *)
LEMMA NextAppended ==
    ASSUME NEW w \in Seq(Messages), NEW m \in Messages, IsState(m),
           NEW a \in Nat, m.age = a + 1, NEW c \in Nat,
           InOrder(w, a), Complete(w, a)
    PROVE  LET v == Append(w, m)
           IN  /\ InOrder(v, a + 1) /\ Complete(v, a + 1)
               /\ Ahead(w, c) /\ Joined(w, c, a) =>
                    Ahead(v, c) /\ Joined(v, c, a + 1)
  <1> DEFINE v == Append(w, m)
             k == Len(w) + 1
             e == a + 1
  <1>1. /\ DOMAIN v = DOMAIN w \union {k} /\ v[k] = m
        /\ \A i \in DOMAIN w : v[i] = w[i] /\ i < k /\ i \in Nat
        /\ k \in Nat /\ k \notin DOMAIN w
    BY AppendParts
  <1>2. \A i \in DOMAIN w : IsState(w[i]) => w[i].age \in Nat
    BY StateAge
  <1>3. e = a + 1 /\ e \in Nat
    OBVIOUS
  <1> HIDE DEF v, k, e
  <1>4. \A n : OnAir(w, n) => OnAir(v, n)
    BY <1>1 DEF OnAir
  <1>5. OnAir(v, e)
    BY <1>1, <1>3 DEF OnAir
  <1>6. InOrder(v, e)
    <2>1. ASSUME NEW i \in DOMAIN v, IsState(v[i]) PROVE v[i].age <= e
      BY <1>1, <1>2, <1>3, <2>1 DEF InOrder
    <2>2. ASSUME NEW i \in DOMAIN v, NEW j \in DOMAIN v, i < j,
                 IsState(v[i]), IsState(v[j])
          PROVE  v[i].age < v[j].age
      <3>1. i \in DOMAIN w
        BY <1>1, <2>2
      <3>2. CASE j = k
        BY <1>1, <1>2, <1>3, <2>2, <3>1, <3>2 DEF InOrder
      <3>3. CASE j \in DOMAIN w
        BY <1>1, <2>2, <3>1, <3>3 DEF InOrder
      <3> QED BY <1>1, <3>2, <3>3
    <2> QED BY <2>1, <2>2 DEF InOrder
  <1>7. Complete(v, e)
    <2>1. ASSUME NEW i \in DOMAIN v, IsState(v[i]), NEW n \in v[i].age .. e
          PROVE  OnAir(v, n)
      <3>1. CASE n = e
        BY <1>5, <3>1
      <3>2. CASE n # e
        <4>1. i \in DOMAIN w
          BY <1>1, <1>3, <3>2
        <4>2. w[i].age \in Nat
          BY <1>1, <1>2, <2>1, <4>1
        <4>3. n \in w[i].age .. a
          BY <1>1, <1>3, <3>2, <4>1, <4>2
        <4> QED BY <1>1, <1>4, <2>1, <4>1, <4>3 DEF Complete
      <3> QED BY <3>1, <3>2
    <2> QED BY <2>1 DEF Complete
  <1>8. Ahead(w, c) /\ Joined(w, c, a) => Ahead(v, c) /\ Joined(v, c, e)
    BY <1>1, <1>3, <1>4, <1>5 DEF Ahead, Joined
  <1> QED BY <1>6, <1>7, <1>8 DEF v, e

(* One message is received: what was behind it is still in order.          *)
LEMMA TailInOrder ==
    ASSUME NEW w \in Seq(Messages), w # <<>>, NEW a \in Nat, NEW c \in Nat,
           InOrder(w, a), Complete(w, a)
    PROVE  LET v == Tail(w)
               n == Head(w).age
           IN  /\ InOrder(v, a) /\ Complete(v, a)
               /\ ~IsState(Head(w)) /\ Ahead(w, c) /\ Joined(w, c, a) =>
                    Ahead(v, c) /\ Joined(v, c, a)
               /\ IsState(Head(w)) => Ahead(v, n) /\ Joined(v, n, a)
  <1> DEFINE v == Tail(w)
             h == Head(w).age
  <1>1. /\ v \in Seq(Messages) /\ 1 \in DOMAIN w /\ Head(w) = w[1]
        /\ \A i \in DOMAIN v : /\ i \in Nat /\ i >= 1
                               /\ i + 1 \in DOMAIN w /\ v[i] = w[i + 1]
        /\ \A i \in DOMAIN w : i # 1 => /\ i - 1 \in DOMAIN v
                                        /\ v[i - 1] = w[i]
    BY TailParts
  <1>2. /\ \A i \in DOMAIN w : IsState(w[i]) => w[i].age \in Nat
        /\ IsState(Head(w)) => h \in Nat
    BY <1>1, StateAge
  <1> HIDE DEF v
  <1>3. InOrder(v, a) /\ (Ahead(w, c) => Ahead(v, c))
    <2>1. \A i, j \in DOMAIN v : i < j => i + 1 < j + 1
      BY <1>1
    <2>2. InOrder(v, a)
      BY <1>1, <2>1 DEF InOrder
    <2>3. Ahead(w, c) => Ahead(v, c)
      BY <1>1 DEF Ahead
    <2> QED BY <2>2, <2>3
  <1>4. ASSUME NEW n, OnAir(w, n), IsState(Head(w)) => h # n
        PROVE  OnAir(v, n)
    <2>1. PICK i \in DOMAIN w : IsState(w[i]) /\ w[i].age = n
      BY <1>4 DEF OnAir
    <2>2. i # 1
      BY <1>1, <1>4, <2>1
    <2> QED BY <1>1, <2>1, <2>2 DEF OnAir
  <1>5. IsState(Head(w)) => Ahead(v, h)
    <2> SUFFICES ASSUME IsState(Head(w)), NEW i \in DOMAIN v, IsState(v[i])
                 PROVE  h < v[i].age
      BY DEF Ahead
    <2>1. 1 < i + 1 /\ i + 1 \in DOMAIN w /\ IsState(w[i + 1])
      BY <1>1
    <2>2. w[1].age < w[i + 1].age
      BY <1>1, <2>1 DEF InOrder
    <2> QED BY <1>1, <2>2
  <1>6. Complete(v, a)
    <2>1. ASSUME NEW i \in DOMAIN v, IsState(v[i]), NEW n \in v[i].age .. a
          PROVE  OnAir(v, n)
      <3>1. OnAir(w, n)
        BY <1>1, <2>1 DEF Complete
      <3>2. IsState(Head(w)) => h < v[i].age
        BY <1>5, <2>1 DEF Ahead
      <3>3. v[i].age \in Nat /\ (IsState(Head(w)) => h \in Nat)
        BY <1>1, <1>2, <2>1
      <3> HIDE DEF h
      <3>4. n >= v[i].age /\ n \in Int
        BY <3>3
      <3> QED BY <1>4, <3>1, <3>2, <3>3, <3>4 DEF h
    <2> QED BY <2>1 DEF Complete
  <1>7. ~IsState(Head(w)) /\ Joined(w, c, a) => Joined(v, c, a)
    BY <1>4 DEF Joined
  <1>8. ASSUME IsState(Head(w)) PROVE Joined(v, h, a)
    <2>1. h \in Nat /\ h <= a
      BY <1>1, <1>2, <1>8 DEF InOrder
    <2>2. ASSUME NEW n \in h + 1 .. a PROVE OnAir(v, n)
      <3>1. n \in h .. a /\ n # h
        BY <2>1
      <3>2. OnAir(w, n)
        BY <1>1, <1>8, <3>1 DEF Complete
      <3> QED BY <1>4, <1>8, <3>1, <3>2
    <2> QED BY <2>1, <2>2 DEF Joined
  <1> QED BY <1>3, <1>5, <1>6, <1>7, <1>8 DEF v

LEMMA ClearedInit == Init => Cleared
  BY DEF Init, Cleared, Fresh

(* Only what is received gives the service a state.                        *)
LEMMA ForgetsOrKeeps ==
    ASSUME TypeOK,
           \/ Poll \/ MonitorEnters \/ Synchronized \/ SyncTimeout
           \/ \E t \in Clients : Enter(t)
           \/ \E kind \in Asked : TakeFast(kind) \/ CallTool(kind)
           \/ BeginInference \/ EndTurn \/ Press \/ TakeTouch
    PROVE  /\ UNCHANGED <<age, wire, connected>>
           /\ robot'.state = robot.state \/ robot'.state = None
           /\ ~connected => sent' = sent
           /\ monitor' = "listening" => monitor = "listening"
           /\ ~connected /\ saw' => saw \/ robot'.state = None
  <1>1. CASE Poll \/ MonitorEnters \/ Synchronized \/ SyncTimeout
    BY <1>1 DEF Poll, MonitorEnters, Synchronized, SyncTimeout, Invalidated,
                Fresh, deviceVars
  <1>2. ASSUME NEW t \in Clients, Enter(t)
        PROVE  /\ UNCHANGED <<age, wire, connected, monitor, saw>>
               /\ robot'.state = robot.state \/ robot'.state = None
               /\ ~connected => sent' = sent
    BY <1>2 DEF Enter, Refuse, Refuses, deviceVars, monitorVars, TypeOK, RobotType
  <1>3. ASSUME \/ \E kind \in Asked : TakeFast(kind) \/ CallTool(kind)
               \/ BeginInference \/ EndTurn \/ Press \/ TakeTouch
        PROVE  /\ UNCHANGED <<age, wire, connected, robot, monitor, saw>>
               /\ ~connected => sent' = sent
    BY <1>3 DEF TakeFast, CallTool, BeginInference, EndTurn, Press, TakeTouch,
                deviceVars, serviceVars, monitorVars
  <1> QED BY <1>1, <1>2, <1>3

LEMMA ResumeKeeps ==
    ASSUME TypeOK, NEW by \in Askers \union {None}, NEW ok, Resume(by, ok)
    PROVE  /\ robot'.state = robot.state /\ saw' = saw
           /\ monitor' = "listening" =>
                monitor = "listening" \/ robot.state = None
  <1>1. \/ (by \in Clients /\ Answered(by, ok)) \/ MonitorAnswered(ok)
        \/ StatusAnswered(ok)
        \/ UNCHANGED <<serviceVars, heard, turnVars, monitorVars>>
    BY DEF Resume, Askers
  <1> QED BY <1>1 DEF Answered, MonitorAnswered, StatusAnswered, serviceVars,
                      monitorVars, TypeOK, RobotType

LEMMA ClearedStep ==
    ASSUME TypeOK, Cleared, [Next]_vars
    PROVE  Cleared'
  <1>1. CASE UNCHANGED vars
    BY <1>1 DEF vars, serviceVars, monitorVars, Cleared
  <1>2. CASE Handle \/ JobEnds \/ JobFails
               \/ \E kind \in Foreign : OtherClient(kind)
    <2>1. UNCHANGED <<connected, robot, monitor, saw>>
      BY <1>2 DEF Handle, JobEnds, JobFails, OtherClient, serviceVars, monitorVars
    <2>2. ~connected => wire' = wire /\ sent' = sent
      BY <1>2 DEF Cleared, Handle, JobEnds, JobFails, OtherClient, Publish
    <2> QED BY <2>1, <2>2 DEF Cleared
  <1>3. CASE \/ Poll \/ MonitorEnters \/ Synchronized \/ SyncTimeout
             \/ \E t \in Clients : Enter(t)
             \/ \E kind \in Asked : TakeFast(kind) \/ CallTool(kind)
             \/ BeginInference \/ EndTurn \/ Press \/ TakeTouch
    BY <1>3, ForgetsOrKeeps DEF Cleared
  <1>4. CASE Receive
    <2>1. /\ UNCHANGED <<connected, sent>> /\ wire # <<>>
          /\ Head(wire) \in Messages
      BY <1>4, WireParts DEF Receive
    <2>2. connected' /\ connected
      BY <2>1 DEF Cleared, TypeOK, NetworkType
    <2>3. CASE Head(wire).what = "state"
      BY <1>4, <2>2, <2>3 DEF Receive, OnState, Cleared
    <2>4. CASE Head(wire).what # "state"
      <3>1. Resume(Head(wire).by, Head(wire).what = "accepted")
            /\ Head(wire).by \in Askers \union {None}
        BY <1>4, <2>1, <2>4 DEF Receive, Messages, Answers, StateMessages
      <3> QED BY <2>2, <3>1, ResumeKeeps DEF Cleared
    <2> QED BY <2>3, <2>4
  <1>5. CASE Reconnect
    BY <1>5 DEF Reconnect, serviceVars, monitorVars, Cleared
  <1>6. ASSUME NEW by \in Askers, RequestFails(by) PROVE Cleared'
    <2>1. UNCHANGED <<connected, sent, wire>> /\ Resume(by, FALSE)
      BY <1>6 DEF RequestFails
    <2> QED BY <2>1, ResumeKeeps DEF Cleared
  <1>7. ASSUME NEW by \in Askers, RequestTimeout(by) PROVE Cleared'
    <2>1. UNCHANGED <<connected, robot, monitor, saw>>
          /\ sent' = [i \in DOMAIN sent |-> Forget(by, sent[i])]
          /\ wire' = [i \in DOMAIN wire |-> Forget(by, wire[i])]
      BY <1>7 DEF RequestTimeout, serviceVars, monitorVars
    <2>2. sent = <<>> => sent' = <<>>
      BY <2>1
    <2>3. wire = <<>> => wire' = <<>>
      BY <2>1
    <2> QED BY <2>1, <2>2, <2>3 DEF Cleared
  <1>8. ASSUME NEW restarts \in BOOLEAN, Lose(restarts) PROVE Cleared'
    BY <1>8 DEF Lose, serviceVars, Cleared
  <1> QED BY <1>1, <1>2, <1>3, <1>4, <1>5, <1>6, <1>7, <1>8 DEF Next

(* Steps that receive and publish nothing.                                 *)
LEMMA FollowedQuiet ==
    ASSUME Followed, UNCHANGED <<age, wire>>,
           robot'.state = robot.state \/ robot'.state = None,
           connected' => connected \/ robot'.state = None
    PROVE  Followed'
  BY DEF Followed

LEMMA FollowedDevice ==
    ASSUME TypeOK, Cleared, Followed,
           Handle \/ JobEnds \/ JobFails
             \/ \E kind \in Foreign : OtherClient(kind)
    PROVE  Followed'
  <1>1. UNCHANGED <<connected, robot>>
    BY DEF Handle, JobEnds, JobFails, OtherClient, serviceVars
  <1>2. /\ wire \in Seq(Messages) /\ age \in Nat
        /\ robot.state # None => robot.state.age \in Nat
    BY DEF TypeOK, NetworkType, DeviceType, RobotType, Views
  <1>3. \A by \in Askers \union {None} :
          /\ Answer("error", by) \in Messages /\ ~IsState(Answer("error", by))
          /\ Answer("accepted", by) \in Messages
          /\ ~IsState(Answer("accepted", by))
    BY DEF Answer, Messages, Answers, IsState
  <1>4. ASSUME NEW half \in Seq(Messages), NEW d \in DeviceStates,
               NEW answers \in Seq(Messages), Publish(d, answers),
               half = wire \o answers, InOrder(half, age), Complete(half, age),
               \A c \in Nat : Ahead(wire, c) /\ Joined(wire, c, age) =>
                                  Ahead(half, c) /\ Joined(half, c, age)
        PROVE  Followed'
    <2>1. CASE connected
      <3> DEFINE m == StateOf(device', age')
      <3>1. /\ m \in Messages /\ IsState(m) /\ m.age = age + 1
            /\ age' = age + 1 /\ wire' = Append(half, m)
        <4>1. m \in Messages /\ wire' = half \o <<m>> /\ age' = age + 1
          BY <1>4, <2>1, PublishType DEF Publish
        <4>2. IsState(m) /\ m.age = age'
          BY DEF StateOf, IsState
        <4> QED BY <1>4, <4>1, <4>2
      <3> HIDE DEF m
      <3>2. InOrder(wire', age') /\ Complete(wire', age')
        <4>1. 0 \in Nat
          OBVIOUS
        <4> QED BY <1>2, <1>4, <3>1, <4>1, NextAppended
      <3>3. \A c \in Nat : Ahead(half, c) /\ Joined(half, c, age) =>
                             Ahead(wire', c) /\ Joined(wire', c, age')
        BY <1>2, <1>4, <3>1, NextAppended
      <3> QED BY <1>1, <1>2, <1>4, <3>2, <3>3 DEF Followed
    <2>2. CASE ~connected
      <3>1. wire' = <<>>
        BY <1>4, <2>2 DEF Publish, Cleared
      <3> QED BY <1>1, <2>2, <3>1 DEF Followed, InOrder, Complete
    <2> QED BY <2>1, <2>2
  <1>5. CASE UNCHANGED deviceVars
             /\ \E by \in Askers \union {None} :
                    wire' = Append(wire, Answer("error", by))
    BY <1>1, <1>2, <1>3, <1>5, OtherAppended DEF Followed, deviceVars
  <1>6. ASSUME NEW d \in DeviceStates, Publish(d, <<>>) PROVE Followed'
    <2>1. <<>> \in Seq(Messages) /\ wire \o <<>> = wire
      BY <1>2
    <2> QED BY <1>2, <1>4, <1>6, <2>1 DEF Followed
  <1>7. ASSUME NEW c \in Commands,
               Publish(Commanded(c.kind), <<Answer("accepted", c.by)>>)
        PROVE  Followed'
    <2> DEFINE m == Answer("accepted", c.by)
    <2>1. m \in Messages /\ ~IsState(m) /\ Commanded(c.kind) \in DeviceStates
      BY <1>3, <1>7, CommandedType DEF Commands
    <2> HIDE DEF m
    <2>2. /\ <<m>> \in Seq(Messages) /\ wire \o <<m>> = Append(wire, m)
          /\ Append(wire, m) \in Seq(Messages)
      BY <1>2, <2>1
    <2>3. InOrder(Append(wire, m), age) /\ Complete(Append(wire, m), age)
      BY <1>2, <2>1, OtherAppended DEF Followed
    <2>4. \A n \in Nat : Ahead(wire, n) /\ Joined(wire, n, age) =>
              Ahead(Append(wire, m), n) /\ Joined(Append(wire, m), n, age)
      BY <1>2, <2>1, OtherAppended
    <2>5. Publish(Commanded(c.kind), <<m>>)
      BY <1>7 DEF m
    <2> QED BY <1>4, <2>1, <2>2, <2>3, <2>4, <2>5
  <1> QED BY <1>5, <1>6, <1>7, DeviceActs

LEMMA FollowedReceive ==
    ASSUME TypeOK, Followed, Receive
    PROVE  Followed'
  <1>1. /\ UNCHANGED <<age, connected>> /\ wire # <<>> /\ wire' = Tail(wire)
    BY DEF Receive, deviceVars
  <1>2. /\ wire \in Seq(Messages) /\ age \in Nat /\ Head(wire) \in Messages
        /\ robot.state # None => robot.state.age \in Nat
    BY <1>1, WireParts DEF TypeOK, NetworkType, DeviceType, RobotType, Views
  <1>3. InOrder(wire', age) /\ Complete(wire', age)
    <2>1. 0 \in Nat
      OBVIOUS
    <2> QED BY <1>1, <1>2, <2>1, TailInOrder DEF Followed
  <1>4. CASE IsState(Head(wire))
    <2>1. robot'.state = None \/ robot'.state = [mode |-> Head(wire).mode,
                                                age |-> Head(wire).age]
      BY <1>4 DEF Receive, OnState, IsState
    <2>2. Ahead(wire', Head(wire).age) /\ Joined(wire', Head(wire).age, age)
      <3>1. 0 \in Nat
        OBVIOUS
      <3> QED BY <1>1, <1>2, <1>4, <3>1, TailInOrder DEF Followed
    <2> QED BY <1>1, <1>3, <2>1, <2>2 DEF Followed
  <1>5. CASE ~IsState(Head(wire))
    <2>1. Resume(Head(wire).by, Head(wire).what = "accepted")
          /\ Head(wire).by \in Askers \union {None}
      BY <1>2, <1>5 DEF Receive, IsState, Messages, Answers, StateMessages
    <2>2. robot'.state = robot.state
      BY <2>1, ResumeKeeps
    <2>3. connected /\ robot.state # None =>
            Ahead(wire', robot.state.age) /\ Joined(wire', robot.state.age, age)
      BY <1>1, <1>2, <1>5, TailInOrder DEF Followed
    <2> QED BY <1>1, <1>3, <2>2, <2>3 DEF Followed
  <1> QED BY <1>4, <1>5

LEMMA FollowedForget ==
    ASSUME TypeOK, Followed, NEW by \in Askers, RequestTimeout(by)
    PROVE  Followed'
  <1>1. /\ UNCHANGED <<age, connected, robot>>
        /\ wire' = [i \in DOMAIN wire |-> Forget(by, wire[i])]
    BY DEF RequestTimeout, deviceVars, serviceVars
  <1>2. DOMAIN wire' = DOMAIN wire
    BY <1>1
  <1>3. \A m \in Messages : /\ IsState(Forget(by, m)) <=> IsState(m)
                            /\ IsState(m) => Forget(by, m).age = m.age
    BY DEF Forget, IsState, Messages, Answers, StateMessages
  <1>4. \A i \in DOMAIN wire : wire[i] \in Messages
    BY DEF TypeOK, NetworkType
  <1>5. \A i \in DOMAIN wire : /\ IsState(wire'[i]) <=> IsState(wire[i])
                               /\ IsState(wire[i]) => wire'[i].age = wire[i].age
    BY <1>1, <1>3, <1>4
  <1>6. \A n : OnAir(wire, n) => OnAir(wire', n)
    BY <1>2, <1>5 DEF OnAir
  <1>7. InOrder(wire', age)
    BY <1>2, <1>5 DEF Followed, InOrder
  <1>8. Complete(wire', age)
    BY <1>2, <1>5, <1>6 DEF Followed, Complete
  <1>9. \A c : Ahead(wire, c) /\ Joined(wire, c, age) =>
               Ahead(wire', c) /\ Joined(wire', c, age)
    BY <1>2, <1>5, <1>6 DEF Ahead, Joined
  <1> QED BY <1>1, <1>7, <1>8, <1>9 DEF Followed

LEMMA FollowedStep ==
    ASSUME TypeOK, Cleared, Followed, [Next]_vars
    PROVE  Followed'
  <1>1. CASE UNCHANGED vars
    BY <1>1, FollowedQuiet DEF vars, deviceVars, serviceVars
  <1>2. CASE \/ Poll \/ MonitorEnters \/ Synchronized \/ SyncTimeout
             \/ \E t \in Clients : Enter(t)
             \/ \E kind \in Asked : TakeFast(kind) \/ CallTool(kind)
             \/ BeginInference \/ EndTurn \/ Press \/ TakeTouch
    BY <1>2, ForgetsOrKeeps, FollowedQuiet
  <1>3. CASE Reconnect
    BY <1>3, FollowedQuiet DEF Reconnect, deviceVars, serviceVars, Cleared
  <1>4. ASSUME NEW by \in Askers, RequestFails(by) PROVE Followed'
    <2>1. UNCHANGED <<age, connected, wire>> /\ Resume(by, FALSE)
      BY <1>4 DEF RequestFails, deviceVars
    <2> QED BY <2>1, ResumeKeeps, FollowedQuiet
  <1>5. ASSUME NEW restarts \in BOOLEAN, Lose(restarts) PROVE Followed'
    BY <1>5 DEF Lose, Followed, InOrder, Complete
  <1> QED BY <1>1, <1>2, <1>3, <1>4, <1>5, FollowedDevice, FollowedReceive,
             FollowedForget DEF Next

(* Indices of states on a wire and the ages they tell are the same in      *)
(* number.                                                                 *)
LEMMA CountOnAir ==
    ASSUME NEW w \in Seq(Messages), NEW a \in Nat, NEW c \in Nat,
           InOrder(w, a), Ahead(w, c), Joined(w, c, a)
    PROVE  c + Cardinality({i \in DOMAIN w : w[i].what = "state"}) = a
  <1> DEFINE S == {i \in DOMAIN w : w[i].what = "state"}
             T == c + 1 .. a
             f == [n \in T |-> CHOOSE i \in S : w[i].age = n]
  <1>1. \A i \in S : i \in DOMAIN w /\ IsState(w[i]) /\ w[i].age \in T
    BY StateAge DEF IsState, InOrder, Ahead
  <1>2. \A n \in T : \E i \in S : w[i].age = n
    BY DEF Joined, OnAir, IsState
  <1>3. \A n \in T : f[n] \in S /\ w[f[n]].age = n
    BY <1>2
  <1>4. \A i, j \in S : w[i].age = w[j].age => i = j
    <2>1. \A i, j \in S : i < j => w[i].age < w[j].age
      BY <1>1 DEF InOrder
    <2>2. \A i \in S : i \in Nat
      OBVIOUS
    <2> QED BY <1>1, <2>1, <2>2
  <1> HIDE DEF S
  <1>5. \A i \in S : f[w[i].age] = i
    BY <1>1, <1>3, <1>4
  <1>6. f \in Bijection(T, S)
    <2>1. f \in [T -> S]
      BY <1>3
    <2>2. \A m, n \in T : f[m] = f[n] => m = n
      BY <1>3
    <2>3. \A i \in S : \E n \in T : f[n] = i
      BY <1>1, <1>5
    <2> HIDE DEF f, T
    <2> QED BY <2>1, <2>2, <2>3 DEF Bijection, Injection, Surjection, IsInjective
  <1>7. Cardinality(S) = Cardinality(T)
    BY <1>6, FS_Interval, FS_Bijection DEF ExistsBijection
  <1>8. Cardinality(T) = a - c
    <2>1. c <= a /\ c + 1 \in Int /\ a \in Int
      BY DEF Joined
    <2>2. Cardinality(T) = IF c + 1 > a THEN 0 ELSE a - (c + 1) + 1
      BY <2>1, FS_Interval
    <2> QED BY <2>1, <2>2
  <1> QED BY <1>7, <1>8 DEF S

(* The state the service judges by lags behind the device by exactly the   *)
(* states on their way, through every loss, restart and synchronisation.   *)
THEOREM NothingIsMissed == Spec => []NothingMissed
  <1>1. Init => Cleared /\ Followed
    BY ClearedInit DEF Init, Followed, InOrder, Complete
  <1>2. TypeOK /\ Cleared /\ Followed /\ [Next]_vars => Cleared' /\ Followed'
    BY ClearedStep, FollowedStep
  <1>3. TypeOK /\ Followed => NothingMissed
    BY CountOnAir DEF Followed, NothingMissed, TypeOK, NetworkType, DeviceType,
                      RobotType, Views
  <1> QED BY <1>1, <1>2, <1>3, TypeCorrect, PTL DEF Spec

-----------------------------------------------------------------------------
(* A state in which the device was not at rest, since it last came to      *)
(* rest, tells that it is not at rest now; p is the present.               *)

Present == [age |-> age, rested |-> rested, mode |-> device.mode]

Moved(a, p) == a <= p.age /\ (a >= p.rested => p.mode # "resting")
Awake(v, p) == v.age <= p.age /\ (v.mode # "resting" => Moved(v.age, p))

Told(w, p) == \A i \in DOMAIN w : IsState(w[i]) => Awake(w[i], p)
Judged(c, p) == c.kind \in {"nod", "thinking", "active"} => Moved(c.judged, p)
AllJudged(s, p) == \A i \in DOMAIN s : Judged(s[i], p)
Began(t, p) == t.at = "beginning" \/ t.restore => Moved(t.began, p)

Informed ==
    /\ rested <= age
    /\ Told(wire, Present)
    /\ robot.state # None => Awake(robot.state, Present)
    /\ heard # None => Awake(heard, Present)
    /\ Began(turn, Present)
    /\ AllJudged(sent, Present)

(* What was known of the device stays true as it goes on.                  *)
GoesOn(p, q) ==
    p.age <= q.age /\ \A a \in Nat : Moved(a, p) => Moved(a, q)

Times == [age : Nat, rested : Nat, mode : Modes]

LEMMA PresentType ==
    ASSUME TypeOK
    PROVE  /\ Present \in Times
           /\ Present.age = age /\ Present.rested = rested
           /\ Present.mode = device.mode
  BY DEF Present, Times, TypeOK, DeviceType

LEMMA AwakeStays ==
    ASSUME NEW p \in Times, NEW q \in Times, GoesOn(p, q), NEW v,
           v.age \in Nat, Awake(v, p)
    PROVE  Awake(v, q)
  BY DEF Awake, GoesOn, Times

LEMMA ToldStays ==
    ASSUME NEW p \in Times, NEW q \in Times, GoesOn(p, q),
           NEW w \in Seq(Messages), Told(w, p)
    PROVE  Told(w, q)
  BY AwakeStays, StateAge DEF Told

LEMMA JudgedStays ==
    ASSUME NEW p \in Times, NEW q \in Times, GoesOn(p, q),
           NEW s \in Seq(Commands), AllJudged(s, p)
    PROVE  AllJudged(s, q)
  <1>1. \A i \in DOMAIN s : s[i] \in Commands
    OBVIOUS
  <1>2. \A c \in Commands : Judged(c, p) => Judged(c, q)
    BY DEF Commands, Judged, GoesOn
  <1> QED BY <1>1, <1>2 DEF AllJudged

LEMMA BeganStays ==
    ASSUME NEW p \in Times, NEW q \in Times, GoesOn(p, q), NEW t,
           t.began \in Nat, Began(t, p)
    PROVE  Began(t, q)
  BY DEF Began, GoesOn

LEMMA PublishGoesOn ==
    ASSUME TypeOK, TypeOK', Informed, NEW d \in DeviceStates, NEW answers,
           Publish(d, answers)
    PROVE  /\ GoesOn(Present, Present') /\ rested' <= age'
           /\ Awake(StateOf(device', age'), Present')
  <1>1. /\ age' = age + 1 /\ device'.mode = d.mode
        /\ rested' = IF d.mode = "resting" /\ device.mode # "resting"
                       THEN age' ELSE rested
    BY DEF Publish, DeviceStates
  <1>2. age \in Nat /\ rested \in Nat /\ rested <= age
    BY DEF TypeOK, DeviceType, Informed
  <1>3. /\ Present.age = age /\ Present.rested = rested
        /\ Present.mode = device.mode
        /\ Present'.age = age' /\ Present'.rested = rested'
        /\ Present'.mode = device'.mode
    BY DEF Present
  <1>4. rested' <= age'
    BY <1>1, <1>2
  <1>5. GoesOn(Present, Present')
    BY <1>1, <1>2, <1>3 DEF GoesOn, Moved
  <1>6. Awake(StateOf(device', age'), Present')
    BY <1>1, <1>2, <1>3 DEF Awake, StateOf, Moved
  <1> QED BY <1>4, <1>5, <1>6

(* The device and the parts of Informed that it does not touch.            *)
LEMMA InformedGoesOn ==
    ASSUME TypeOK, TypeOK', Informed, GoesOn(Present, Present'),
           UNCHANGED <<robot, heard, turn>>
    PROVE  /\ Told(wire, Present') /\ AllJudged(sent, Present')
           /\ robot'.state # None => Awake(robot'.state, Present')
           /\ heard' # None => Awake(heard', Present')
           /\ Began(turn', Present')
  <1>1. Present \in Times /\ Present' \in Times
    BY PresentType DEF Present, Times, TypeOK, DeviceType
  <1>2. /\ wire \in Seq(Messages) /\ sent \in Seq(Commands)
        /\ robot.state # None => robot.state.age \in Nat
        /\ heard # None => heard.age \in Nat
        /\ turn.began \in Nat
    BY DEF TypeOK, NetworkType, RobotType, TaskType, Views
  <1>3. Told(wire, Present') /\ AllJudged(sent, Present')
    BY <1>1, <1>2, ToldStays, JudgedStays DEF Informed
  <1>4. /\ robot.state # None => Awake(robot.state, Present')
        /\ heard # None => Awake(heard, Present')
    BY <1>1, <1>2, AwakeStays DEF Informed
  <1>5. Began(turn, Present')
    BY <1>1, <1>2, BeganStays DEF Informed
  <1> QED BY <1>3, <1>4, <1>5

LEMMA TailJudged ==
    ASSUME NEW s \in Seq(Commands), s # <<>>, NEW p, AllJudged(s, p)
    PROVE  AllJudged(Tail(s), p) /\ Judged(Head(s), p)
  <1>1. /\ \A i \in DOMAIN Tail(s) : i + 1 \in DOMAIN s /\ Tail(s)[i] = s[i + 1]
        /\ 1 \in DOMAIN s /\ Head(s) = s[1]
    OBVIOUS
  <1> QED BY <1>1 DEF AllJudged

LEMMA AppendJudged ==
    ASSUME NEW s \in Seq(Commands), NEW c \in Commands, NEW p,
           AllJudged(s, p), Judged(c, p)
    PROVE  AllJudged(Append(s, c), p)
  <1>1. \A i \in DOMAIN Append(s, c) :
            Append(s, c)[i] = c \/ (i \in DOMAIN s /\ Append(s, c)[i] = s[i])
    OBVIOUS
  <1> QED BY <1>1 DEF AllJudged

LEMMA AppendTold ==
    ASSUME NEW w \in Seq(Messages), NEW m \in Messages, NEW p,
           Told(w, p), IsState(m) => Awake(m, p)
    PROVE  Told(Append(w, m), p)
  BY AppendParts DEF Told

LEMMA InformedDevice ==
    ASSUME TypeOK, TypeOK', Informed,
           Handle \/ JobEnds \/ JobFails
             \/ \E kind \in Foreign : OtherClient(kind)
    PROVE  Informed'
  <1>1. UNCHANGED <<robot, heard, turn>>
    BY DEF Handle, JobEnds, JobFails, OtherClient, serviceVars, turnVars
  <1>2. wire \in Seq(Messages) /\ sent \in Seq(Commands)
    BY DEF TypeOK, NetworkType
  <1>3. ASSUME GoesOn(Present, Present'), rested' <= age',
               Told(wire', Present')
        PROVE  Informed'
    <2>1. sent' = sent \/ (sent # <<>> /\ sent' = Tail(sent))
      BY DEF Handle, JobEnds, JobFails, OtherClient
    <2>2. AllJudged(sent', Present')
      BY <1>1, <1>2, <1>3, <2>1, InformedGoesOn, TailJudged
    <2> QED BY <1>1, <1>3, <2>2, InformedGoesOn DEF Informed
  <1>4. ASSUME NEW d \in DeviceStates, NEW answers \in Seq(Messages),
               Publish(d, answers),
               \A p : Told(wire, p) => Told(wire \o answers, p)
        PROVE  Informed'
    <2> DEFINE m == StateOf(device', age')
    <2>1. GoesOn(Present, Present') /\ rested' <= age' /\ Awake(m, Present')
      BY <1>4, PublishGoesOn
    <2>2. Told(wire, Present') /\ Told(wire \o answers, Present')
      BY <1>1, <1>4, <2>1, InformedGoesOn
    <2>3. m \in Messages
      BY <1>4, PublishType
    <2>4. wire' = wire \/ wire' = wire \o answers \o <<m>>
      BY <1>4 DEF Publish
    <2> HIDE DEF m
    <2>5. wire \o answers \in Seq(Messages)
      BY <1>2, <1>4
    <2>6. (wire \o answers) \o <<m>> = Append(wire \o answers, m)
      BY <2>3, <2>5
    <2>7. Told(wire', Present')
      BY <2>1, <2>2, <2>3, <2>4, <2>5, <2>6, AppendTold
    <2> QED BY <1>3, <2>1, <2>7
  <1>5. CASE UNCHANGED deviceVars
             /\ \E by \in Askers \union {None} :
                    wire' = Append(wire, Answer("error", by))
    <2>1. PICK by \in Askers \union {None} :
                    wire' = Append(wire, Answer("error", by))
      BY <1>5
    <2>2. Answer("error", by) \in Messages /\ ~IsState(Answer("error", by))
      BY DEF Answer, Messages, Answers, IsState
    <2>3. Present' = Present /\ GoesOn(Present, Present') /\ rested' <= age'
      BY <1>5 DEF Present, deviceVars, GoesOn, Informed, TypeOK, DeviceType
    <2>4. Told(wire', Present')
      BY <1>2, <2>1, <2>2, <2>3, AppendTold DEF Informed
    <2> QED BY <1>3, <2>3, <2>4
  <1>6. ASSUME NEW d \in DeviceStates, Publish(d, <<>>) PROVE Informed'
    <2>1. <<>> \in Seq(Messages) /\ wire \o <<>> = wire
      BY <1>2
    <2> QED BY <1>4, <1>6, <2>1
  <1>7. ASSUME NEW c \in Commands,
               Publish(Commanded(c.kind), <<Answer("accepted", c.by)>>)
        PROVE  Informed'
    <2> DEFINE m == Answer("accepted", c.by)
    <2>1. m \in Messages /\ ~IsState(m) /\ Commanded(c.kind) \in DeviceStates
      BY <1>7, CommandedType DEF Commands, Answer, Messages, Answers, IsState
    <2>2. Publish(Commanded(c.kind), <<m>>)
      BY <1>7
    <2> HIDE DEF m
    <2>3. <<m>> \in Seq(Messages) /\ wire \o <<m>> = Append(wire, m)
      BY <1>2, <2>1
    <2>4. \A p : Told(wire, p) => Told(wire \o <<m>>, p)
      BY <1>2, <2>1, <2>3, AppendTold
    <2> QED BY <1>4, <2>1, <2>2, <2>3, <2>4
  <1> QED BY <1>5, <1>6, <1>7, DeviceActs

LEMMA SendJudged ==
    ASSUME TypeOK, Informed, NEW by \in Askers,
           NEW kind \in Kinds \union {"thinking", "active", "get"},
           NEW judged \in Nat, Send(by, kind, judged),
           kind \in {"nod", "thinking", "active"} => Moved(judged, Present)
    PROVE  AllJudged(sent', Present)
  <1> DEFINE c == [by |-> by, kind |-> kind, judged |-> judged]
  <1>1. c \in Commands /\ Judged(c, Present)
    BY DEF Commands, Judged
  <1>2. sent \in Seq(Commands) /\ sent' = Append(sent, c)
    BY DEF TypeOK, NetworkType, Send
  <1> HIDE DEF c
  <1> QED BY <1>1, <1>2, AppendJudged DEF Informed

(* Steps in which the device does nothing and nothing is received.         *)
LEMMA InformedQuiet ==
    ASSUME Informed, UNCHANGED <<device, age, rested, wire, heard>>,
           robot'.state = robot.state \/ robot'.state = None,
           AllJudged(sent', Present), Began(turn', Present)
    PROVE  Informed'
  <1>1. Present' = Present
    BY DEF Present
  <1> QED BY <1>1 DEF Informed

LEMMA InformedMonitor ==
    ASSUME TypeOK, Informed, Poll \/ MonitorEnters \/ Synchronized \/ SyncTimeout
    PROVE  Informed'
  <1>1. /\ UNCHANGED <<device, age, rested, wire, heard, turn>>
        /\ robot'.state = robot.state \/ robot'.state = None
    BY DEF Poll, MonitorEnters, Synchronized, SyncTimeout, Invalidated, Fresh,
           deviceVars, turnVars
  <1>2. sent' = sent \/ Send("monitor", "get", age)
    BY DEF Poll, MonitorEnters, Synchronized, SyncTimeout
  <1>3. AllJudged(sent', Present)
    BY <1>2, SendJudged, AskersType DEF Informed, TypeOK, DeviceType
  <1> QED BY <1>1, <1>3, InformedQuiet DEF Informed

(* A motion is asked of the robot for a state in which it is not at rest.  *)
LEMMA InformedEnter ==
    ASSUME TypeOK, Informed, NEW t \in Clients, Enter(t)
    PROVE  Informed'
  <1>1. /\ UNCHANGED <<device, age, rested, wire, heard, turn>>
        /\ task[t].kind \in Kinds
    BY DEF Enter, deviceVars, turnVars, TypeOK, TaskType
  <1>2. robot'.state = robot.state \/ robot'.state = None
    BY ForgetsOrKeeps
  <1>3. \/ sent' = sent
        \/ /\ ~Refuses(task[t].kind)
           /\ Send(t, task[t].kind, robot.state.age)
    BY DEF Enter, Refuse
  <1>4. AllJudged(sent', Present)
    <2>1. CASE sent' = sent
      BY <2>1 DEF Informed
    <2>2. CASE ~Refuses(task[t].kind) /\ Send(t, task[t].kind, robot.state.age)
      <3>1. robot.state \in Views /\ Awake(robot.state, Present)
        BY <2>2 DEF Refuses, TypeOK, RobotType, Informed
      <3>2. robot.state.age \in Nat
        BY <3>1 DEF Views
      <3>3. task[t].kind = "nod" => Moved(robot.state.age, Present)
        BY <2>2, <3>1 DEF Refuses, Awake
      <3>4. task[t].kind \notin {"thinking", "active"}
        BY <1>1 DEF Kinds, Motions
      <3> QED BY <1>1, <2>2, <3>2, <3>3, <3>4, SendJudged, AskersType
    <2> QED BY <1>3, <2>1, <2>2
  <1> QED BY <1>1, <1>2, <1>4, InformedQuiet DEF Informed

(* What is heard of the mode, when an inference begins, holds of the mode  *)
(* it ends with.                                                           *)
LEMMA InformedTurn ==
    ASSUME TypeOK, Informed,
           \/ \E kind \in Asked : TakeFast(kind) \/ CallTool(kind)
           \/ BeginInference \/ EndTurn \/ Press \/ TakeTouch
    PROVE  Informed'
  <1>1. UNCHANGED <<device, age, rested, wire, robot, heard>>
    BY DEF TakeFast, CallTool, BeginInference, EndTurn, Press, TakeTouch,
           deviceVars, serviceVars
  <1>2. CASE BeginInference
    <2>1. \/ turn' = [NoTurn EXCEPT !.at = "inferring"] /\ sent' = sent
          \/ /\ heard # None /\ heard.mode = "active"
             /\ Send(Worker, "thinking", heard.age)
             /\ turn' = [NoTurn EXCEPT !.at = "beginning", !.began = heard.age]
      BY <1>2 DEF BeginInference
    <2>2. CASE turn' = [NoTurn EXCEPT !.at = "inferring"] /\ sent' = sent
      <3>1. Began(turn', Present)
        BY <2>2 DEF Began, NoTurn
      <3> QED BY <1>1, <2>2, <3>1, InformedQuiet DEF Informed
    <2>3. CASE /\ heard # None /\ heard.mode = "active"
               /\ Send(Worker, "thinking", heard.age)
               /\ turn' = [NoTurn EXCEPT !.at = "beginning", !.began = heard.age]
      <3>1. heard.age \in Nat /\ Moved(heard.age, Present)
        BY <2>3 DEF Informed, Awake, TypeOK, RobotType, Views
      <3>2. AllJudged(sent', Present)
        BY <2>3, <3>1, SendJudged, AskersType
      <3>3. Began(turn', Present)
        BY <2>3, <3>1 DEF Began, NoTurn
      <3> QED BY <1>1, <3>2, <3>3, InformedQuiet
    <2> QED BY <2>1, <2>2, <2>3
  <1>3. CASE EndTurn
    <2>1. \/ turn' = NoTurn /\ sent' = sent
          \/ /\ turn.restore /\ Send(Worker, "active", turn.began)
             /\ turn' = [turn EXCEPT !.at = "finishing"]
      BY <1>3 DEF EndTurn
    <2>2. CASE turn' = NoTurn /\ sent' = sent
      <3>1. Began(turn', Present)
        BY <2>2 DEF Began, NoTurn
      <3> QED BY <1>1, <2>2, <3>1, InformedQuiet DEF Informed
    <2>3. CASE /\ turn.restore /\ Send(Worker, "active", turn.began)
               /\ turn' = [turn EXCEPT !.at = "finishing"]
      <3>1. turn.began \in Nat /\ Moved(turn.began, Present)
        BY <2>3 DEF Informed, Began, TypeOK, TaskType
      <3>2. AllJudged(sent', Present)
        BY <2>3, <3>1, SendJudged, AskersType
      <3>3. Began(turn', Present)
        BY <2>3, <3>1 DEF Began, TypeOK, TaskType
      <3> QED BY <1>1, <3>2, <3>3, InformedQuiet
    <2> QED BY <2>1, <2>2, <2>3
  <1>4. CASE \/ \E kind \in Asked : TakeFast(kind) \/ CallTool(kind)
             \/ Press \/ TakeTouch
    <2>1. sent' = sent
      BY <1>4 DEF TakeFast, CallTool, Press, TakeTouch
    <2>2. turn' = turn \/ turn' = [NoTurn EXCEPT !.at = "fast"]
      BY <1>4 DEF TakeFast, CallTool, Press, TakeTouch, turnVars
    <2>3. Began(turn', Present)
      BY <2>2 DEF Informed, Began, NoTurn
    <2> QED BY <1>1, <2>1, <2>3, InformedQuiet DEF Informed
  <1> QED BY <1>2, <1>3, <1>4

LEMMA ResumeBegan ==
    ASSUME TypeOK, Informed, NEW by \in Askers \union {None}, NEW ok,
           Resume(by, ok)
    PROVE  Began(turn', Present) /\ UNCHANGED heard
  <1>1. CASE StatusAnswered(ok)
    <2>1. \/ turn' = NoTurn
          \/ /\ turn.at = "beginning"
             /\ turn' = [turn EXCEPT !.at = "inferring", !.restore = ok]
      BY <1>1 DEF StatusAnswered
    <2>2. CASE turn' = NoTurn
      <3>1. turn'.at # "beginning" /\ turn'.restore = FALSE
        BY <2>2 DEF NoTurn
      <3>2. Began(turn', Present)
        BY <3>1 DEF Began
      <3> QED BY <1>1, <3>2 DEF StatusAnswered
    <2>3. CASE /\ turn.at = "beginning"
               /\ turn' = [turn EXCEPT !.at = "inferring", !.restore = ok]
      <3>1. turn'.began = turn.began /\ Moved(turn.began, Present)
        BY <2>3 DEF Informed, Began, TypeOK, TaskType
      <3> QED BY <1>1, <3>1 DEF Began, StatusAnswered
    <2> QED BY <2>1, <2>2, <2>3
  <1>2. CASE (by \in Clients /\ Answered(by, ok)) \/ MonitorAnswered(ok)
             \/ UNCHANGED <<serviceVars, heard, turnVars, monitorVars>>
    BY <1>2 DEF Answered, MonitorAnswered, turnVars, Informed
  <1> QED BY <1>1, <1>2 DEF Resume, Askers

LEMMA InformedReceive ==
    ASSUME TypeOK, Informed, Receive
    PROVE  Informed'
  <1>1. /\ UNCHANGED <<device, age, rested, sent>> /\ wire # <<>>
        /\ wire' = Tail(wire) /\ wire \in Seq(Messages)
    BY DEF Receive, deviceVars, TypeOK, NetworkType
  <1>2. /\ Head(wire) \in Messages /\ Told(wire', Present)
        /\ IsState(Head(wire)) => Awake(Head(wire), Present)
    BY <1>1, TailParts DEF Informed, Told
  <1>3. Present' = Present
    BY <1>1 DEF Present
  <1>4. CASE IsState(Head(wire))
    <2> DEFINE view == [mode |-> Head(wire).mode, age |-> Head(wire).age]
    <2>1. /\ robot'.state = None \/ robot'.state = view
          /\ heard' = view /\ turn' = turn
      BY <1>4 DEF Receive, OnState, IsState, turnVars
    <2>2. Awake(view, Present)
      BY <1>2, <1>4 DEF Awake
    <2> QED BY <1>1, <1>2, <1>3, <2>1, <2>2 DEF Informed
  <1>5. CASE ~IsState(Head(wire))
    <2>1. Resume(Head(wire).by, Head(wire).what = "accepted")
          /\ Head(wire).by \in Askers \union {None}
      BY <1>2, <1>5 DEF Receive, IsState, Messages, Answers, StateMessages
    <2>2. /\ robot'.state = robot.state /\ heard' = heard
          /\ Began(turn', Present)
      BY <2>1, ResumeKeeps, ResumeBegan
    <2> QED BY <1>1, <1>2, <1>3, <2>2 DEF Informed
  <1> QED BY <1>4, <1>5

LEMMA InformedConnection ==
    ASSUME TypeOK, Informed,
           \/ Reconnect
           \/ \E by \in Askers : RequestFails(by) \/ RequestTimeout(by)
           \/ \E restarts \in BOOLEAN : Lose(restarts)
    PROVE  Informed'
  <1>1. CASE Reconnect
    <2>1. UNCHANGED <<device, age, rested, wire, heard, robot, turn, sent>>
      BY <1>1 DEF Reconnect, deviceVars, serviceVars, turnVars
    <2> QED BY <2>1, InformedQuiet DEF Informed
  <1>2. ASSUME NEW by \in Askers, RequestFails(by) PROVE Informed'
    <2>1. UNCHANGED <<device, age, rested, wire, sent>> /\ Resume(by, FALSE)
      BY <1>2 DEF RequestFails, deviceVars
    <2>2. heard' = heard /\ robot'.state = robot.state /\ Began(turn', Present)
      BY <2>1, ResumeKeeps, ResumeBegan
    <2> QED BY <2>1, <2>2, InformedQuiet DEF Informed
  <1>3. ASSUME NEW by \in Askers, RequestTimeout(by) PROVE Informed'
    <2>1. /\ UNCHANGED <<device, age, rested, robot, heard, turn>>
          /\ sent' = [i \in DOMAIN sent |-> Forget(by, sent[i])]
          /\ wire' = [i \in DOMAIN wire |-> Forget(by, wire[i])]
      BY <1>3 DEF RequestTimeout, deviceVars, serviceVars, turnVars
    <2>2. Present' = Present
      BY <2>1 DEF Present
    <2>3. \A m \in Messages : IsState(Forget(by, m)) =>
              /\ IsState(m) /\ Forget(by, m).age = m.age
              /\ Forget(by, m).mode = m.mode
      BY DEF Forget, IsState, Messages, Answers, StateMessages
    <2>4. \A c \in Commands : /\ Forget(by, c).kind = c.kind
                              /\ Forget(by, c).judged = c.judged
      BY DEF Forget, Commands
    <2>5. /\ DOMAIN wire' = DOMAIN wire /\ DOMAIN sent' = DOMAIN sent
          /\ \A i \in DOMAIN wire : wire'[i] = Forget(by, wire[i])
                                    /\ wire[i] \in Messages
          /\ \A i \in DOMAIN sent : sent'[i] = Forget(by, sent[i])
                                    /\ sent[i] \in Commands
      BY <2>1 DEF TypeOK, NetworkType
    <2>6. Told(wire', Present)
      BY <2>3, <2>5 DEF Told, Awake, Informed
    <2>7. AllJudged(sent', Present)
      BY <2>4, <2>5 DEF AllJudged, Judged, Informed
    <2> QED BY <2>1, <2>2, <2>6, <2>7 DEF Informed
  <1>4. ASSUME NEW restarts \in BOOLEAN, Lose(restarts) PROVE Informed'
    <2>1. /\ UNCHANGED <<age, rested, robot, heard, turn>>
          /\ sent' = <<>> /\ wire' = <<>>
          /\ device' = device \/ device'.mode = "active"
      BY <1>4 DEF Lose, serviceVars, turnVars
    <2>2. /\ Present'.age = Present.age /\ Present'.rested = Present.rested
          /\ Present'.mode = Present.mode \/ Present'.mode # "resting"
      BY <2>1 DEF Present
    <2>3. \A a : Moved(a, Present) => Moved(a, Present')
      BY <2>2 DEF Moved
    <2>4. Told(wire', Present') /\ AllJudged(sent', Present')
      BY <2>1 DEF Told, AllJudged
    <2> QED BY <2>1, <2>2, <2>3, <2>4 DEF Informed, Awake, Began
  <1> QED BY <1>1, <1>2, <1>3, <1>4

LEMMA InformedStep ==
    ASSUME TypeOK, Informed, [Next]_vars
    PROVE  Informed'
  <1>1. CASE UNCHANGED vars
    <2>1. UNCHANGED <<device, age, rested, wire, heard, robot, turn, sent>>
      BY <1>1 DEF vars, deviceVars, serviceVars, turnVars
    <2> QED BY <2>1, InformedQuiet DEF Informed
  <1>2. CASE Handle \/ JobEnds \/ JobFails
               \/ \E kind \in Foreign : OtherClient(kind)
    BY <1>2, TypeStep, InformedDevice
  <1> QED BY <1>1, <1>2, InformedMonitor, InformedEnter, InformedTurn,
             InformedReceive, InformedConnection DEF Next

LEMMA InformedInit == Init => Informed
  BY DEF Init, Informed, Told, AllJudged, Began, NoTurn, Fresh

(* A rest the device enters after a command was judged is the only reason  *)
(* for which the command may end it, unless it is one to wake up.          *)
LEMMA RestStep ==
    ASSUME TypeOK, Informed, [Next]_vars,
           device.mode = "resting", device'.mode # "resting",
           sent' # sent, connected'
    PROVE  Head(sent).kind = "wake" \/ Head(sent).judged < rested
  <1>1. CASE Handle
    <2> DEFINE c == Head(sent)
    <2>1. /\ sent # <<>> /\ c \in Commands /\ Judged(c, Present)
          /\ sent \in Seq(Commands)
      BY <1>1, SentParts, TailJudged DEF Handle, Informed, TypeOK, NetworkType
    <2>2. Publish(Commanded(c.kind), <<Answer("accepted", c.by)>>)
      BY <1>1 DEF Handle, deviceVars
    <2>3. device'.mode = Commanded(c.kind).mode
      BY <2>1, <2>2, CommandedType DEF Publish, DeviceStates, Commands
    <2>4. c.kind \notin {"rest", "light", "get"}
      BY <2>1, <2>3, CommandedType DEF Commands
    <2>5. c.kind = "wake" \/ c.kind \in {"nod", "thinking", "active"}
      BY <2>1, <2>4 DEF Commands, Kinds, Motions
    <2>6. c.judged \in Nat /\ rested \in Nat
      BY <2>1 DEF Commands, TypeOK, DeviceType
    <2>7. c.kind # "wake" => c.judged < rested
      BY <2>1, <2>5, <2>6 DEF Judged, Moved, Present
    <2> QED BY <2>7
  <1>2. CASE JobEnds \/ JobFails \/ \E kind \in Foreign : OtherClient(kind)
    BY <1>2 DEF JobEnds, JobFails, OtherClient
  <1>3. CASE \E restarts \in BOOLEAN : Lose(restarts)
    BY <1>3 DEF Lose
  <1>4. CASE \/ Poll \/ MonitorEnters \/ Synchronized \/ SyncTimeout
             \/ \E t \in Clients : Enter(t)
    BY <1>4 DEF Poll, MonitorEnters, Synchronized, SyncTimeout, Enter, deviceVars
  <1>5. CASE \/ \E kind \in Asked : TakeFast(kind) \/ CallTool(kind)
             \/ BeginInference \/ EndTurn \/ Press \/ TakeTouch
    BY <1>5 DEF TakeFast, CallTool, BeginInference, EndTurn, Press, TakeTouch,
                deviceVars
  <1>6. CASE \/ Receive \/ Reconnect
             \/ \E by \in Askers : RequestFails(by) \/ RequestTimeout(by)
             \/ UNCHANGED vars
    BY <1>6 DEF Receive, Reconnect, RequestFails, RequestTimeout, deviceVars, vars
  <1> QED BY <1>1, <1>2, <1>3, <1>4, <1>5, <1>6 DEF Next

(* The agent ends no rest it could have known of, unless it is asked to    *)
(* wake the robot up: whatever motion, thinking or active it sends was     *)
(* judged by a state in which the device was not at rest.                  *)
THEOREM RestsAreKept == Spec => RestIsKept
  <1>1. TypeOK /\ Informed /\ [Next]_vars => Informed'
    BY InformedStep
  <1>2. TypeOK /\ Informed /\ [Next]_vars =>
          [device.mode = "resting" /\ device'.mode # "resting"
             /\ sent' # sent /\ connected' =>
               Head(sent).kind = "wake" \/ Head(sent).judged < rested]_vars
    BY RestStep
  <1> QED BY <1>1, <1>2, InformedInit, TypeCorrect, PTL DEF Spec, RestIsKept
=============================================================================
