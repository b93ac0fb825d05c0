--------------------------- MODULE ConsolePageProofs ---------------------------
(***************************************************************************)
(* Proofs about ConsolePage: for any commands, revisions, selections and   *)
(* faults a page that follows a connection shows what it observed of it    *)
(* and never goes back, keeps its lease alive, and says of its commands    *)
(* only what is true.                                                      *)
(***************************************************************************)
EXTENDS ConsolePage, FiniteSetTheorems, TLAPS

(***************************************************************************)
(* Types                                                                   *)
(***************************************************************************)
States == [rev : Nat, busy : BOOLEAN]
Roles == {"controller", "readonly"}
Epochs == Nat \ {0}

EndTypes == {"completed", "cancelled", "failed", "error"}

HelloMessages ==
    [kind : {"hello"}, epoch : Epochs, state : States, role : Roles]
StateMessages == [kind : {"state"}, epoch : Epochs, state : States]
EventMessages ==
    [kind : {"event"}, epoch : Epochs, type : {"state"}, of : SUBSET Commands,
     state : States]
    \union
    [kind : {"event"}, epoch : Epochs, type : EndTypes,
     of : SUBSET Commands, state : {NoState}]
ErrorMessages ==
    [kind : {"error"}, of : SUBSET Commands, losesControl : BOOLEAN]
ControlMessages == [kind : {"control"}, role : Roles]
Messages ==
    HelloMessages \union StateMessages \union EventMessages
    \union ErrorMessages \union ControlMessages

Requests ==
    [kind : {"command"}, of : Commands, epoch : Nat]
    \union [kind : {"acquire", "select", "renew"}]

Stores ==
    [connection : {"offline", "connecting", "online", "stale"}, role : Roles,
     epoch : Nat, state : States \union {NoState},
     pending : [Commands -> {"none", "open"}],
     timeline : [Commands -> {"none", "open", "finished", "failed"}]]

Devices ==
    [epoch : Epochs, rev : Nat, busy : BOOLEAN, missed : Nat,
     rest : {"none", "waiting", "running"}, off : BOOLEAN]

Jobs ==
    {j \in [at : {"new", "sent", "refused", "queued", "running", "done",
                  "failed", "cancelled"},
            unheard : BOOLEAN] : j.at = "new" => ~j.unheard}

PageType ==
    /\ mounted \in BOOLEAN /\ sock \in {"none", "opening", "open"}
    /\ timer \in BOOLEAN /\ renew \in BOOLEAN
    /\ observed \in [epoch : Nat, rev : Nat \union {-1}]
    /\ store \in Stores
    /\ asked \in [of : SUBSET Motions, epoch : Nat]

WireType ==
    /\ up \in Seq(Requests)
    /\ down \in Seq(Messages) /\ late \in Seq(Messages)

ServerType ==
    /\ routed \in Seq(EventMessages)
    /\ lease \in {"mine", "other", "free"}
    /\ device \in Devices
    /\ job \in [Commands -> Jobs]

TypeOK == PageType /\ WireType /\ ServerType /\ faults \in Nat

(***************************************************************************)
(* A connection: its hello comes first and once, nothing of it is left     *)
(* when it is gone, and the store is as observed.                          *)
(***************************************************************************)
NoHello(msgs) == \A i \in DOMAIN msgs : msgs[i].kind # "hello"
HelloFirst(msgs) ==
    /\ msgs # <<>>
    /\ \A i \in DOMAIN msgs : (msgs[i].kind = "hello") <=> i = 1

Connected ==
    /\ ~mounted => sock = "none"
    /\ sock # "open" => /\ observed = NoObservation /\ lease # "mine"
                        /\ up = <<>> /\ down = <<>>
    /\ sock = "open" /\ observed = NoObservation => HelloFirst(down)
    /\ observed # NoObservation => NoHello(down) /\ observed.rev \in Nat

(***************************************************************************)
(* Commands: one is on its way at most once, and what is said of it on the *)
(* way to the page is true of the device, and stays true.                  *)
(***************************************************************************)
Over(c, jobs) == jobs[c].at \in {"done", "cancelled"}
Undone(c, jobs) == jobs[c].at \in {"refused", "failed"} \/ jobs[c].unheard

IsTrue(m, jobs) ==
    CASE m.kind = "event" ->
           \A c \in m.of :
             /\ m.type \in {"completed", "cancelled"} => Over(c, jobs)
             /\ m.type \in {"failed", "error"} => Undone(c, jobs)
             /\ m.type = "state" /\ c \in Lights => Over(c, jobs)
      [] m.kind = "error" -> \A c \in m.of : Undone(c, jobs)
      [] OTHER -> TRUE

AllTrue(msgs, jobs) == \A i \in DOMAIN msgs : IsTrue(msgs[i], jobs)

OnItsWay(reqs, jobs) ==
    \A i \in DOMAIN reqs : reqs[i].kind = "command" =>
        /\ jobs[reqs[i].of].at = "sent" /\ ~jobs[reqs[i].of].unheard
        /\ \A j \in DOMAIN reqs : reqs[j].kind = "command"
                                  /\ reqs[j].of = reqs[i].of => j = i

Truthful ==
    /\ OnItsWay(up, job)
    /\ AllTrue(down, job) /\ AllTrue(routed, job)

-----------------------------------------------------------------------------
(***************************************************************************)
(* Messages, and what the reducer makes of them                            *)
(***************************************************************************)
LEMMA MessagesAreMessages ==
    /\ \A e \in Epochs, s \in States, r \in Roles :
           HelloMessage(e, s, r) \in Messages
    /\ \A e \in Epochs, s \in States : StateMessage(e, s) \in Messages
    /\ \A of \in SUBSET Commands, b \in BOOLEAN :
           ErrorMessage(of, b) \in Messages
    /\ \A r \in Roles : ControlMessage(r) \in Messages
    /\ \A m \in EventMessages : m \in Messages
  BY DEF Messages, HelloMessage, HelloMessages, StateMessage, StateMessages,
     ErrorMessage, ErrorMessages, ControlMessage, ControlMessages

LEMMA EventsAreEvents ==
    /\ \A e \in Epochs, of \in SUBSET Commands, s \in States :
           EventMessage(e, "state", of, s) \in EventMessages
    /\ \A e \in Epochs, of \in SUBSET Commands, type \in EndTypes :
           EventMessage(e, type, of, NoState) \in EventMessages
  BY DEF EventMessages, EventMessage, EndTypes

LEMMA MessageCases ==
    ASSUME NEW m \in Messages
    PROVE  \/ m.kind = "hello" /\ m \in HelloMessages
           \/ m.kind = "state" /\ m \in StateMessages
           \/ m.kind = "event" /\ m \in EventMessages
           \/ m.kind = "error" /\ m \in ErrorMessages
           \/ m.kind = "control" /\ m \in ControlMessages
  BY DEF Messages, HelloMessages, StateMessages, EventMessages, ErrorMessages,
     ControlMessages

LEMMA EventCases ==
    ASSUME NEW m \in EventMessages
    PROVE  /\ m.kind = "event" /\ m.epoch \in Epochs /\ m.of \in SUBSET Commands
           /\ m.type \in {"state"} \union EndTypes
           /\ m.type = "state" => m.state \in States
  BY DEF EventMessages, EndTypes

LEMMA CorrelateIs ==
    ASSUME NEW s \in Stores, NEW type \in {"state"} \union EndTypes,
           NEW of \in SUBSET Commands
    PROVE  LET t == CorrelateCommand(s, type, of) IN
           /\ t \in Stores
           /\ t.connection = s.connection /\ t.role = s.role
           /\ t.epoch = s.epoch /\ t.state = s.state
           /\ \A c \in Commands :
                t.timeline[c] = IF c \in of /\ s.timeline[c] # "none"
                                THEN CommandStatus(c, s.timeline[c], type)
                                ELSE s.timeline[c]
  <1>1. \A c, status : status \in {"none", "open", "finished", "failed"} =>
            CommandStatus(c, status, type)
                \in {"none", "open", "finished", "failed"}
    BY DEF CommandStatus, Terminal
  <1> DEFINE update(records) ==
                [c \in Commands |-> IF c \in of /\ records[c] # "none"
                                      THEN CommandStatus(c, records[c], type)
                                      ELSE records[c]]
             pending == [c \in Commands |->
                           IF update(s.pending)[c] \in Terminal THEN "none"
                           ELSE update(s.pending)[c]]
  <1>2. update(s.timeline)
            \in [Commands -> {"none", "open", "finished", "failed"}]
    BY <1>1 DEF Stores
  <1>3. update(s.pending)
            \in [Commands -> {"none", "open", "finished", "failed"}]
    BY <1>1 DEF Stores
  <1>4. pending \in [Commands -> {"none", "open"}]
    BY <1>3 DEF Terminal
  <1>5. CorrelateCommand(s, type, of)
            = [s EXCEPT !.pending = pending, !.timeline = update(s.timeline)]
    BY DEF CorrelateCommand
  <1> HIDE DEF pending
  <1>6. \A c \in Commands :
            update(s.timeline)[c] = IF c \in of /\ s.timeline[c] # "none"
                                    THEN CommandStatus(c, s.timeline[c], type)
                                    ELSE s.timeline[c]
    OBVIOUS
  <1> DEFINE timeline == update(s.timeline)
             t == CorrelateCommand(s, type, of)
  <1> HIDE DEF update, timeline
  <1>7. timeline \in [Commands -> {"none", "open", "finished", "failed"}]
    BY <1>2 DEF timeline
  <1>8. t = [s EXCEPT !.pending = pending, !.timeline = timeline]
    BY <1>5 DEF timeline
  <1> HIDE DEF t
  <1>9. t \in Stores
    BY <1>4, <1>7, <1>8 DEF Stores
  <1>10. /\ t.connection = s.connection /\ t.role = s.role
         /\ t.epoch = s.epoch /\ t.state = s.state /\ t.timeline = timeline
    BY <1>8 DEF Stores
  <1> QED BY <1>6, <1>9, <1>10 DEF t, timeline

LEMMA FailIs ==
    ASSUME NEW s \in Stores, NEW of \in SUBSET Commands
    PROVE  LET t == FailCommand(s, of) IN
           /\ t \in Stores
           /\ t.connection = s.connection /\ t.role = s.role
           /\ t.epoch = s.epoch /\ t.state = s.state
           /\ \A c \in Commands :
                t.timeline[c] = IF c \in of /\ s.timeline[c] # "none"
                                THEN "failed" ELSE s.timeline[c]
  <1> DEFINE pending == [c \in Commands |->
                           IF c \in of THEN "none" ELSE s.pending[c]]
             timeline == [c \in Commands |->
                            IF c \in of /\ s.timeline[c] # "none"
                            THEN "failed" ELSE s.timeline[c]]
  <1>1. /\ pending \in [Commands -> {"none", "open"}]
        /\ timeline \in [Commands -> {"none", "open", "finished", "failed"}]
        /\ \A c \in Commands :
             timeline[c] = IF c \in of /\ s.timeline[c] # "none"
                           THEN "failed" ELSE s.timeline[c]
    BY DEF Stores
  <1>2. FailCommand(s, of) = [s EXCEPT !.pending = pending,
                                       !.timeline = timeline]
    BY DEF FailCommand
  <1> DEFINE t == FailCommand(s, of)
  <1> HIDE DEF pending, timeline
  <1>6. t = [s EXCEPT !.pending = pending, !.timeline = timeline]
    BY <1>2
  <1> HIDE DEF t
  <1>7. /\ pending \in [Commands -> {"none", "open"}]
        /\ timeline \in [Commands -> {"none", "open", "finished", "failed"}]
    BY <1>1
  <1>3. t \in Stores
    BY <1>6, <1>7 DEF Stores
  <1>4. /\ t.connection = s.connection /\ t.role = s.role
        /\ t.epoch = s.epoch /\ t.state = s.state /\ t.timeline = timeline
    BY <1>6 DEF Stores
  <1>5. \A c \in Commands :
            t.timeline[c] = IF c \in of /\ s.timeline[c] # "none"
                            THEN "failed" ELSE s.timeline[c]
    BY <1>1, <1>4
  <1> QED BY <1>3, <1>4, <1>5 DEF t

(* What an event does to a store: nothing, or its commands and perhaps the *)
(* connection and the state.                                               *)
Correlated(s, t, m) ==
    \A c \in Commands :
        t.timeline[c] = IF c \in m.of /\ s.timeline[c] # "none"
                        THEN CommandStatus(c, s.timeline[c], m.type)
                        ELSE s.timeline[c]

LEMMA EventIs ==
    ASSUME NEW s \in Stores, NEW m \in EventMessages
    PROVE  LET t == ReduceEvent(s, m) IN
           /\ t \in Stores
           /\ t.role = s.role /\ t.epoch = s.epoch
           /\ t = s \/ Correlated(s, t, m)
           /\ \/ t.connection = s.connection /\ t.state = s.state
                 /\ (m.type = "state" /\ m.epoch = s.epoch /\ s.state # NoState
                       => m.state.rev <= s.state.rev)
              \/ /\ m.type = "state" /\ m.epoch = s.epoch /\ s.state # NoState
                 /\ t.connection = "stale" /\ t.state = s.state
                 /\ m.state.rev > s.state.rev + 1
              \/ /\ m.type = "state" /\ m.epoch = s.epoch /\ s.state # NoState
                 /\ t.connection = "online" /\ t.state = m.state
                 /\ m.state.rev = s.state.rev + 1
  <1> DEFINE t == ReduceEvent(s, m)
  <1>1. /\ m.type \in {"state"} \union EndTypes /\ m.of \in SUBSET Commands
        /\ m.type = "state" => m.state \in States
    BY EventCases
  <1>2. CASE m.epoch # s.epoch
    BY <1>2 DEF ReduceEvent
  <1>3. CASE m.epoch = s.epoch /\ m.type # "state"
    <2>1. t = CorrelateCommand(s, m.type, m.of)
      BY <1>3 DEF ReduceEvent
    <2> HIDE DEF t
    <2>2. /\ t \in Stores
          /\ t.connection = s.connection /\ t.role = s.role
          /\ t.epoch = s.epoch /\ t.state = s.state
          /\ Correlated(s, t, m)
      BY <1>1, <2>1, CorrelateIs DEF Correlated
    <2> QED BY <1>3, <2>2 DEF t
  <1>4. CASE m.epoch = s.epoch /\ m.type = "state"
    <2>1. t = ReduceStateEvent(s, m) /\ m.state \in States
      BY <1>1, <1>4 DEF ReduceEvent
    <2> HIDE DEF t
    <2>2. CASE s.state = NoState
      BY <1>4, <2>1, <2>2 DEF ReduceStateEvent, t
    <2>3. CASE s.state # NoState /\ m.state.rev <= s.state.rev
      <3>1. t = CorrelateCommand(s, m.type, m.of)
        BY <2>1, <2>3 DEF ReduceStateEvent, States, Stores
      <3>2. /\ t \in Stores
            /\ t.connection = s.connection /\ t.role = s.role
            /\ t.epoch = s.epoch /\ t.state = s.state
            /\ Correlated(s, t, m)
        BY <1>1, <3>1, CorrelateIs DEF Correlated
      <3> QED BY <2>3, <3>2 DEF t
    <2>4. CASE s.state # NoState /\ m.state.rev > s.state.rev + 1
      <3> DEFINE g == RevisionGap(s)
      <3>1. t = CorrelateCommand(g, m.type, m.of)
        BY <2>1, <2>4 DEF ReduceStateEvent, States, Stores
      <3>2. /\ g \in Stores /\ g.connection = "stale" /\ g.role = s.role
            /\ g.epoch = s.epoch /\ g.state = s.state /\ g.timeline = s.timeline
        BY DEF RevisionGap, Stores
      <3> HIDE DEF g
      <3>3. /\ t \in Stores
            /\ t.connection = g.connection /\ t.role = g.role
            /\ t.epoch = g.epoch /\ t.state = g.state
            /\ Correlated(g, t, m)
        BY <1>1, <3>1, <3>2, CorrelateIs DEF Correlated
      <3>4. Correlated(s, t, m)
        BY <3>2, <3>3 DEF Correlated
      <3> QED BY <1>4, <2>4, <3>2, <3>3, <3>4 DEF t
    <2>5. CASE /\ s.state # NoState /\ ~(m.state.rev <= s.state.rev)
               /\ ~(m.state.rev > s.state.rev + 1)
      <3> DEFINE g == [s EXCEPT !.connection = "online", !.state = m.state]
      <3>1. t = CorrelateCommand(g, m.type, m.of)
        BY <2>1, <2>5 DEF ReduceStateEvent, States, Stores
      <3>2. /\ g \in Stores /\ g.connection = "online" /\ g.role = s.role
            /\ g.epoch = s.epoch /\ g.state = m.state /\ g.timeline = s.timeline
        BY <2>1 DEF Stores
      <3> HIDE DEF g
      <3>3. /\ t \in Stores
            /\ t.connection = g.connection /\ t.role = g.role
            /\ t.epoch = g.epoch /\ t.state = g.state
            /\ Correlated(g, t, m)
        BY <1>1, <3>1, <3>2, CorrelateIs DEF Correlated
      <3>4. Correlated(s, t, m)
        BY <3>2, <3>3 DEF Correlated
      <3>5. m.state.rev = s.state.rev + 1
        <4>1. s.state \in States /\ s.state.rev \in Nat /\ m.state.rev \in Nat
          BY <2>1, <2>5 DEF Stores, States
        <4> QED BY <2>5, <4>1
      <3> QED BY <1>4, <2>5, <3>2, <3>3, <3>4, <3>5 DEF t
    <2> QED BY <2>2, <2>3, <2>4, <2>5
  <1> QED BY <1>1, <1>2, <1>3, <1>4

LEMMA ReduceType ==
    ASSUME NEW s \in Stores, NEW m \in Messages
    PROVE  Reduce(s, m) \in Stores
  <1>1. CASE m.kind = "hello" /\ m \in HelloMessages
    BY <1>1 DEF Reduce, ReduceHello, HelloMessages, Stores, Epochs, Roles
  <1>2. CASE m.kind = "state" /\ m \in StateMessages
    BY <1>2 DEF Reduce, ReduceFullState, StateMessages, Stores, Epochs
  <1>3. CASE m.kind = "event" /\ m \in EventMessages
    <2>1. Reduce(s, m) = ReduceEvent(s, m)
      BY <1>3 DEF Reduce
    <2> QED BY <1>3, <2>1, EventIs
  <1>4. CASE m.kind = "error" /\ m \in ErrorMessages
    <2> DEFINE r == IF m.losesControl THEN [s EXCEPT !.role = "readonly"] ELSE s
    <2>1. r \in Stores /\ m.of \in SUBSET Commands
      BY <1>4 DEF ErrorMessages, Stores, Roles
    <2>2. Reduce(s, m) = FailCommand(r, m.of)
      BY <1>4 DEF Reduce, ReduceError
    <2> HIDE DEF r
    <2> QED BY <2>1, <2>2, FailIs
  <1>5. CASE m.kind = "control" /\ m \in ControlMessages
    BY <1>5 DEF Reduce, ControlMessages, Stores, Roles
  <1> QED BY <1>1, <1>2, <1>3, <1>4, <1>5, MessageCases

(* Only these messages say who has control.                                *)
LEMMA ReduceRole ==
    ASSUME NEW s \in Stores, NEW m \in Messages, ~BringsLease(m)
    PROVE  Reduce(s, m).role = s.role
  <1>1. CASE m.kind = "state" /\ m \in StateMessages
    BY <1>1 DEF Reduce, ReduceFullState, Stores
  <1>2. CASE m.kind = "event" /\ m \in EventMessages
    <2>1. Reduce(s, m) = ReduceEvent(s, m)
      BY <1>2 DEF Reduce
    <2> QED BY <1>2, <2>1, EventIs
  <1>3. CASE m.kind = "error" /\ m \in ErrorMessages
    <2>1. m.of \in SUBSET Commands /\ ~m.losesControl
      BY <1>3 DEF ErrorMessages, BringsLease
    <2>2. Reduce(s, m) = FailCommand(s, m.of)
      BY <1>3, <2>1 DEF Reduce, ReduceError
    <2> QED BY <2>1, <2>2, FailIs
  <1> QED BY <1>1, <1>2, <1>3, MessageCases DEF BringsLease

(* What a message that tells the truth does to the record of a command.    *)
LEMMA ReduceTimeline ==
    ASSUME NEW s \in Stores, NEW m \in Messages, NEW jobs, IsTrue(m, jobs),
           NEW c \in Commands
    PROVE  \/ Reduce(s, m).timeline[c] = s.timeline[c]
           \/ Reduce(s, m).timeline[c] = "open"
           \/ Reduce(s, m).timeline[c] = "finished" /\ Over(c, jobs)
           \/ Reduce(s, m).timeline[c] = "failed" /\ Undone(c, jobs)
  <1>1. CASE m.kind = "hello" /\ m \in HelloMessages
    BY <1>1 DEF Reduce, ReduceHello, Stores
  <1>2. CASE m.kind = "state" /\ m \in StateMessages
    BY <1>2 DEF Reduce, ReduceFullState, Stores
  <1>3. CASE m.kind = "event" /\ m \in EventMessages
    <2> DEFINE t == ReduceEvent(s, m)
    <2>1. Reduce(s, m) = t
      BY <1>3 DEF Reduce
    <2>2. t = s \/ Correlated(s, t, m)
      BY <1>3, EventIs
    <2>3. m.type \in {"state"} \union EndTypes
      BY <1>3, EventCases
    <2>4. c \in m.of =>
            /\ m.type \in {"completed", "cancelled"} => Over(c, jobs)
            /\ m.type \in {"failed", "error"} => Undone(c, jobs)
            /\ m.type = "state" /\ c \in Lights => Over(c, jobs)
      BY <1>3 DEF IsTrue
    <2>5. c \in Lights <=> c \notin Motions
      BY CommandsAssumption DEF Commands
    <2> HIDE DEF t
    <2>6. CASE t = s
      BY <2>1, <2>6
    <2>7. CASE /\ c \in m.of
               /\ t.timeline[c] = CommandStatus(c, s.timeline[c], m.type)
      <3>1. \/ t.timeline[c] = s.timeline[c]
            \/ /\ m.type \in {"state", "completed", "cancelled"}
               /\ t.timeline[c] = "finished"
               /\ (m.type = "state" => c \in Lights)
            \/ m.type \in {"failed", "error"} /\ t.timeline[c] = "failed"
        BY <2>3, <2>5, <2>7 DEF CommandStatus, EndTypes
      <3> QED BY <2>1, <2>4, <2>7, <3>1
    <2>8. CASE t.timeline[c] = s.timeline[c]
      BY <2>1, <2>8
    <2> QED BY <2>2, <2>6, <2>7, <2>8 DEF Correlated
  <1>4. CASE m.kind = "error" /\ m \in ErrorMessages
    <2> DEFINE r == IF m.losesControl THEN [s EXCEPT !.role = "readonly"] ELSE s
    <2>1. r \in Stores /\ m.of \in SUBSET Commands /\ r.timeline = s.timeline
      BY <1>4 DEF ErrorMessages, Stores, Roles
    <2>2. Reduce(s, m) = FailCommand(r, m.of)
      BY <1>4 DEF Reduce, ReduceError
    <2>3. c \in m.of => Undone(c, jobs)
      BY <1>4 DEF IsTrue
    <2> HIDE DEF r
    <2> QED BY <2>1, <2>2, <2>3, FailIs
  <1>5. CASE m.kind = "control" /\ m \in ControlMessages
    BY <1>5 DEF Reduce, Stores
  <1> QED BY <1>1, <1>2, <1>3, <1>4, <1>5, MessageCases

-----------------------------------------------------------------------------
(***************************************************************************)
(* Types of every step                                                     *)
(***************************************************************************)
LEMMA SeqTypes ==
    ASSUME NEW S, NEW q \in Seq(S)
    PROVE  /\ \A x \in S : Append(q, x) \in Seq(S) /\ q \o <<x>> \in Seq(S)
           /\ q # <<>> => Head(q) \in S /\ Tail(q) \in Seq(S)
           /\ <<>> \in Seq(S)
  OBVIOUS

LEMMA ReplyType ==
    ASSUME WireType, NEW m \in Messages, Reply(<<m>>)
    PROVE  down' \in Seq(Messages)
  BY SeqTypes DEF WireType, Reply

LEMMA ShowType ==
    ASSUME PageType, NEW s \in Stores, NEW newLease \in BOOLEAN,
           Show(s, newLease)
    PROVE  /\ store' \in Stores /\ renew' \in BOOLEAN
           /\ asked' \in [of : SUBSET Motions, epoch : Nat]
  BY DEF PageType, Show, RenewArmed, NoMove

LEMMA StoreTypes ==
    ASSUME NEW s \in Stores
    PROVE  /\ Connecting(s) \in Stores /\ ClosedConnection(s) \in Stores
           /\ InitialStore \in Stores
           /\ \A c \in Commands : AddLocalCommand(s, c) \in Stores
  <1>1. Connecting(s) \in Stores /\ ClosedConnection(s) \in Stores
    BY DEF Connecting, ClosedConnection, Stores, Roles
  <1>2. InitialStore \in Stores
    BY DEF InitialStore, Stores, Roles
  <1>3. \A c \in Commands : AddLocalCommand(s, c) \in Stores
    BY DEF AddLocalCommand, Stores
  <1> QED BY <1>1, <1>2, <1>3

LEMMA SessionType ==
    ASSUME TypeOK, SessionEnds
    PROVE  /\ up' \in Seq(Requests) /\ down' \in Seq(Messages)
           /\ lease' \in {"other", "free"}
  BY DEF TypeOK, ServerType, SessionEnds

LEMMA TypeLifecycle ==
    ASSUME TypeOK, Lifecycle
    PROVE  TypeOK'
  <1>1. NoObservation \in [epoch : Nat, rev : Nat \union {-1}]
    BY DEF NoObservation
  <1>2. store \in Stores /\ mounted \in BOOLEAN
    BY DEF TypeOK, PageType
  <1>3. CASE Mount \/ OpenSocket \/ OpenFails
    <2>1. Show(Connecting(store), FALSE)
      BY <1>3 DEF Mount, OpenSocket, OpenFails
    <2>2. /\ store' \in Stores /\ renew' \in BOOLEAN
          /\ asked' \in [of : SUBSET Motions, epoch : Nat]
      BY <1>2, <2>1, ShowType, StoreTypes DEF TypeOK
    <2>3. /\ mounted' \in BOOLEAN /\ sock' \in {"none", "opening", "open"}
          /\ timer' \in BOOLEAN
          /\ UNCHANGED <<observed, wireVars, serverVars, faults>>
      BY <1>2, <1>3 DEF Mount, OpenSocket, OpenFails, ScheduleReconnect, TypeOK,
         PageType
    <2> QED BY <2>2, <2>3 DEF TypeOK, PageType, WireType, ServerType, wireVars,
            serverVars
  <1>4. CASE Reload
    <2>1. store' \in Stores
      BY <1>2, <1>4, StoreTypes DEF Reload
    <2>2. asked' \in [of : SUBSET Motions, epoch : Nat]
      BY <1>4 DEF Reload, NoMove
    <2>3. /\ up' \in Seq(Requests) /\ down' \in Seq(Messages)
          /\ lease' \in {"other", "free"} /\ late' \in Seq(Messages)
      BY <1>4, SessionType DEF Reload
    <2>4. PageType'
      BY <1>1, <1>4, <2>1, <2>2 DEF Reload, PageType
    <2>5. WireType' /\ ServerType'
      BY <1>4, <2>3 DEF Reload, TypeOK, WireType, ServerType
    <2>6. faults' \in Nat
      BY <1>4 DEF Reload, Fault, TypeOK
    <2> QED BY <2>4, <2>5, <2>6 DEF TypeOK
  <1>5. CASE SocketLost
    <2>1. Show(ClosedConnection(store), TRUE)
      BY <1>5 DEF SocketLost
    <2>2. /\ store' \in Stores /\ renew' \in BOOLEAN
          /\ asked' \in [of : SUBSET Motions, epoch : Nat]
      BY <1>2, <2>1, ShowType, StoreTypes DEF TypeOK
    <2>3. /\ up' \in Seq(Requests) /\ down' \in Seq(Messages)
          /\ lease' \in {"other", "free"}
      BY <1>5, SessionType DEF SocketLost
    <2> QED BY <1>1, <1>2, <1>5, <2>2, <2>3
            DEF SocketLost, ScheduleReconnect, Fault, TypeOK, PageType,
                WireType, ServerType
  <1> QED BY <1>3, <1>4, <1>5 DEF Lifecycle

LEMMA ObservedType ==
    ASSUME TypeOK, NEW m \in Messages
    PROVE  ObservedAfter(m) \in [epoch : Nat, rev : Nat \union {-1}]
  <1>1. observed \in [epoch : Nat, rev : Nat \union {-1}]
    BY DEF TypeOK, PageType
  <1>2. CASE m.kind = "hello" /\ m \in HelloMessages
    BY <1>2 DEF ObservedAfter, HelloMessages, States, Epochs
  <1>3. CASE m.kind = "state" /\ m \in StateMessages
    BY <1>1, <1>3 DEF ObservedAfter, StateMessages, States, Epochs
  <1>4. CASE m.kind = "event" /\ m \in EventMessages
    BY <1>1, <1>4, EventCases DEF ObservedAfter, States, Epochs
  <1>5. CASE m.kind = "error" \/ m.kind = "control"
    BY <1>1, <1>5 DEF ObservedAfter
  <1> QED BY <1>2, <1>3, <1>4, <1>5, MessageCases

LEMMA TypeReceive ==
    ASSUME TypeOK, Receive \/ ReceiveLate
    PROVE  TypeOK'
  <1>1. CASE Receive
    <2> DEFINE m == Head(down)
    <2>1. /\ m \in Messages /\ Tail(down) \in Seq(Messages)
          /\ down \in Seq(Messages) /\ down # <<>>
      BY <1>1, SeqTypes DEF Receive, TypeOK, WireType
    <2> HIDE DEF m
    <2>2. BringsLease(m) \in BOOLEAN
      BY <2>1, MessageCases DEF BringsLease, ErrorMessages
    <2>3. Show(Reduce(store, m), BringsLease(m))
      BY <1>1 DEF Receive, m
    <2>4. /\ store' \in Stores /\ renew' \in BOOLEAN
          /\ asked' \in [of : SUBSET Motions, epoch : Nat]
      BY <2>1, <2>2, <2>3, ShowType, ReduceType DEF TypeOK, PageType
    <2>5. UNCHANGED <<mounted, routed, device, job, faults>>
      BY <1>1 DEF Receive
    <2>6. CASE IsGap(m)
      <3>1. /\ sock' = "none" /\ observed' = NoObservation
            /\ late' = SubSeq(down, 2, IF Len(down) > 1 THEN 2 ELSE 1)
            /\ SessionEnds /\ timer' = mounted
        BY <1>1, <2>6 DEF Receive, m, ScheduleReconnect
      <3>2. late' \in Seq(Messages)
        <4>1. CASE Len(down) > 1
          BY <2>1, <3>1, <4>1
        <4>2. CASE ~(Len(down) > 1)
          <5>1. late' = <<>>
            BY <2>1, <3>1, <4>2
          <5> QED BY <5>1
        <4> QED BY <4>1, <4>2
      <3>3. NoObservation \in [epoch : Nat, rev : Nat \union {-1}]
        BY DEF NoObservation
      <3> QED BY <2>4, <2>5, <3>1, <3>2, <3>3, SessionType
              DEF TypeOK, PageType, WireType, ServerType
    <2>7. CASE ~IsGap(m)
      <3>1. /\ down' = Tail(down) /\ observed' = ObservedAfter(m)
            /\ UNCHANGED <<sock, timer, up, late, lease>>
        BY <1>1, <2>7 DEF Receive, m
      <3> QED BY <2>1, <2>4, <2>5, <3>1, ObservedType
              DEF TypeOK, PageType, WireType, ServerType
    <2> QED BY <2>6, <2>7
  <1>2. CASE ReceiveLate
    BY <1>2, SeqTypes DEF ReceiveLate, TypeOK, PageType, WireType, ServerType,
       pageVars, serverVars
  <1> QED BY <1>1, <1>2

(* A command that moves on.                                                *)
Moves(c, x) == job' = [job EXCEPT ![c].at = x]

LEMMA JobMoves ==
    ASSUME TypeOK, NEW c \in Commands,
           NEW x \in {"sent", "refused", "queued", "running", "done", "failed",
                      "cancelled"},
           Moves(c, x)
    PROVE  /\ job' \in [Commands -> Jobs]
           /\ job'[c].at = x /\ job'[c].unheard = job[c].unheard
           /\ \A d \in Commands : d # c => job'[d] = job[d]
  <1> DEFINE j == [job[c] EXCEPT !.at = x]
  <1>1. /\ job \in [Commands -> Jobs] /\ job[c] \in Jobs /\ j \in Jobs
        /\ j.at = x /\ j.unheard = job[c].unheard
    BY DEF TypeOK, ServerType, Jobs
  <1>2. job' = [job EXCEPT ![c] = j]
    BY DEF Moves
  <1> HIDE DEF j
  <1>3. job' \in [Commands -> Jobs] /\ job'[c] = j
    BY <1>1, <1>2
  <1>4. \A d \in Commands : d # c => job'[d] = job[d]
    BY <1>1, <1>2
  <1> QED BY <1>1, <1>3, <1>4

LEMMA SendType ==
    ASSUME TypeOK, NEW m \in Requests, Send(m)
    PROVE  up' \in Seq(Requests) /\ sock = "open"
  BY SeqTypes DEF TypeOK, WireType, Send

LEMMA SendCommandType ==
    ASSUME TypeOK, NEW c \in Commands, SendCommand(c)
    PROVE  /\ up' \in Seq(Requests) /\ store' \in Stores
           /\ job' \in [Commands -> Jobs]
  <1>1. store \in Stores /\ store.epoch \in Nat
    BY DEF TypeOK, PageType, Stores
  <1>2. [kind |-> "command", of |-> c, epoch |-> store.epoch] \in Requests
    BY <1>1 DEF Requests
  <1>3. up' \in Seq(Requests)
    BY <1>2, SendType DEF SendCommand
  <1>4. store' \in Stores
    BY <1>1, StoreTypes DEF SendCommand
  <1>5. job' \in [Commands -> Jobs]
    <2>1. Moves(c, "sent")
      BY DEF SendCommand, Moves
    <2> QED BY <2>1, JobMoves
  <1> QED BY <1>3, <1>4, <1>5

LEMMA TypeUser ==
    ASSUME TypeOK, User \/ RenewFires
    PROVE  TypeOK'
  <1> USE DEF TypeOK, PageType, WireType, ServerType
  <1>1. ASSUME NEW c \in Commands, Click(c) PROVE TypeOK'
    <2>1. /\ up' \in Seq(Requests) /\ store' \in Stores
          /\ job' \in [Commands -> Jobs]
      BY <1>1, SendCommandType DEF Click
    <2> QED BY <1>1, <2>1 DEF Click, Sending
  <1>2. ASSUME NEW c \in Motions, AskMove(c) PROVE TypeOK'
    <2>1. asked' \in [of : SUBSET Motions, epoch : Nat]
      BY <1>2 DEF AskMove, Stores
    <2> QED BY <1>2, <2>1 DEF AskMove, wireVars, serverVars
  <1>3. ASSUME NEW confirmed \in BOOLEAN, AnswerMove(confirmed) PROVE TypeOK'
    <2>1. PICK c \in asked.of :
            SendCommand(c) \/ UNCHANGED <<up, store, job>>
      BY <1>3 DEF AnswerMove
    <2>2. c \in Commands
      BY <2>1 DEF Commands
    <2>3. /\ up' \in Seq(Requests) /\ store' \in Stores
          /\ job' \in [Commands -> Jobs]
      BY <2>1, <2>2, SendCommandType
    <2>4. asked' \in [of : SUBSET Motions, epoch : Nat]
      BY <1>3 DEF AnswerMove, NoMove
    <2> QED BY <1>3, <2>3, <2>4 DEF AnswerMove, Sending
  <1>4. CASE ClickAcquire \/ ClickSelect
    <2>1. up' \in Seq(Requests)
      BY <1>4, SendType DEF ClickAcquire, ClickSelect, Requests
    <2> QED BY <1>4, <2>1 DEF ClickAcquire, ClickSelect, Sending
  <1>5. CASE RenewFires
    <2>1. up' \in Seq(Requests)
      BY <1>5, SendType DEF RenewFires, Requests
    <2> QED BY <1>5, <2>1 DEF RenewFires, Sending
  <1> QED BY <1>1, <1>2, <1>3, <1>4, <1>5 DEF User

(* What the gateway and the device change.                                 *)
LEMMA DeviceTypes ==
    ASSUME ServerType
    PROVE  /\ device.epoch \in Epochs /\ DeviceState \in States
           /\ \A b \in BOOLEAN : NextState(b) \in States
           /\ \A c : Busy(c) \in BOOLEAN
           /\ device.busy \in BOOLEAN /\ device.rev \in Nat
           /\ FirstDevice \in Devices
  BY DEF ServerType, Devices, DeviceState, States, NextState, Busy, FirstDevice,
     Epochs

LEMMA PublishType ==
    ASSUME ServerType, NEW d \in Devices, NEW s \in States,
           NEW ms \in Seq(EventMessages), PublishFrom(d, s, ms)
    PROVE  device' \in Devices /\ routed' \in Seq(EventMessages)
  <1>1. device' = [d EXCEPT !.rev = s.rev, !.busy = s.busy, !.missed = 0]
    BY DEF PublishFrom
  <1>2. s.rev \in Nat /\ s.busy \in BOOLEAN
    BY DEF States
  <1>3. device' \in Devices
    BY <1>1, <1>2 DEF Devices
  <1>4. routed' \in Seq(EventMessages)
    BY DEF PublishFrom, ServerType
  <1> QED BY <1>3, <1>4

(***************************************************************************)
(* Commands go on: an end stays an end, what failed for the page has       *)
(* failed for good; and nobody but the gateway touches what is sent.       *)
(***************************************************************************)
GoesOn(jobs, next) ==
    \A c \in Commands : /\ Over(c, jobs) => Over(c, next)
                        /\ Undone(c, jobs) => Undone(c, next)

Untouched(jobs, next) ==
    \A c \in Commands : jobs[c].at = "sent" => next[c] = jobs[c]

LEMMA TrueMessages ==
    ASSUME NEW jobs
    PROVE  /\ \A e, s, r : IsTrue(HelloMessage(e, s, r), jobs)
           /\ \A e, s : IsTrue(StateMessage(e, s), jobs)
           /\ \A r : IsTrue(ControlMessage(r), jobs)
           /\ \A b : IsTrue(ErrorMessage({}, b), jobs)
           /\ \A c, b : Undone(c, jobs) => IsTrue(ErrorMessage({c}, b), jobs)
           /\ \A e, s, of : (\A c \in of : c \in Lights => Over(c, jobs)) =>
                  IsTrue(EventMessage(e, "state", of, s), jobs)
           /\ \A e, s, of, type :
                  (\A c \in of : /\ type \in {"completed", "cancelled"} =>
                                       Over(c, jobs)
                                 /\ type \in {"failed", "error"} =>
                                       Undone(c, jobs))
                  /\ type # "state" =>
                  IsTrue(EventMessage(e, type, of, s), jobs)
  <1>1. \A e, s, r : IsTrue(HelloMessage(e, s, r), jobs)
    BY DEF IsTrue, HelloMessage
  <1>2. /\ \A e, s : IsTrue(StateMessage(e, s), jobs)
        /\ \A r : IsTrue(ControlMessage(r), jobs)
    BY DEF IsTrue, StateMessage, ControlMessage
  <1>3. /\ \A b : IsTrue(ErrorMessage({}, b), jobs)
        /\ \A c, b : Undone(c, jobs) => IsTrue(ErrorMessage({c}, b), jobs)
    BY DEF IsTrue, ErrorMessage
  <1>4. \A e, s, of : (\A c \in of : c \in Lights => Over(c, jobs)) =>
            IsTrue(EventMessage(e, "state", of, s), jobs)
    BY DEF IsTrue, EventMessage
  <1>5. \A e, s, of, type :
            (\A c \in of : /\ type \in {"completed", "cancelled"} =>
                                 Over(c, jobs)
                           /\ type \in {"failed", "error"} => Undone(c, jobs))
            /\ type # "state" =>
            IsTrue(EventMessage(e, type, of, s), jobs)
    BY DEF IsTrue, EventMessage
  <1> QED BY <1>1, <1>2, <1>3, <1>4, <1>5

LEMMA TruthJoins ==
    ASSUME NEW jobs, NEW S, NEW q \in Seq(S), NEW r \in Seq(S),
           AllTrue(q, jobs), AllTrue(r, jobs)
    PROVE  q \o r \in Seq(S) /\ AllTrue(q \o r, jobs)
  <1>1. q \o r \in Seq(S)
    OBVIOUS
  <1>2. ASSUME NEW i \in DOMAIN (q \o r)
        PROVE  IsTrue((q \o r)[i], jobs)
    <2>1. CASE i <= Len(q)
      <3>1. i \in DOMAIN q /\ (q \o r)[i] = q[i]
        BY <2>1
      <3> QED BY <3>1 DEF AllTrue
    <2>2. CASE ~(i <= Len(q))
      <3>1. i - Len(q) \in DOMAIN r /\ (q \o r)[i] = r[i - Len(q)]
        BY <2>2
      <3> QED BY <3>1 DEF AllTrue
    <2> QED BY <2>1, <2>2
  <1> QED BY <1>1, <1>2 DEF AllTrue

(* What the hub will tell: events, and true ones when the premise holds.   *)
Tells(premise) ==
    /\ device' \in Devices
    /\ \E ms \in Seq(EventMessages) :
         routed' = routed \o ms /\ (premise => AllTrue(ms, job'))

LEMMA TellsIs ==
    ASSUME ServerType, NEW premise, Tells(premise)
    PROVE  /\ device' \in Devices /\ routed' \in Seq(EventMessages)
           /\ premise /\ AllTrue(routed, job') => AllTrue(routed', job')
  <1>1. routed \in Seq(EventMessages)
    BY DEF ServerType
  <1> QED BY <1>1, TruthJoins DEF Tells

LEMMA TellsMany ==
    ASSUME ServerType, NEW premise, NEW d \in Devices, NEW s \in States,
           NEW ms \in Seq(EventMessages), PublishFrom(d, s, ms),
           premise => AllTrue(ms, job')
    PROVE  Tells(premise)
  BY PublishType DEF PublishFrom, Tells

(* One state event about a set of commands.                                *)
LEMMA StateEventIs ==
    ASSUME ServerType, NEW of \in SUBSET Commands, NEW s \in States
    PROVE  LET ms == <<EventMessage(device.epoch, "state", of, s)>> IN
           /\ ms \in Seq(EventMessages)
           /\ \A jobs : (\A c \in of : c \in Lights => Over(c, jobs)) =>
                            AllTrue(ms, jobs)
  <1> DEFINE m == EventMessage(device.epoch, "state", of, s)
  <1>1. m \in EventMessages
    BY DeviceTypes, EventsAreEvents
  <1>2. \A jobs : (\A c \in of : c \in Lights => Over(c, jobs)) =>
                      IsTrue(m, jobs)
    BY TrueMessages
  <1> HIDE DEF m
  <1>3. <<m>> \in Seq(EventMessages)
    BY <1>1
  <1>4. \A jobs : IsTrue(m, jobs) => AllTrue(<<m>>, jobs)
    BY DEF AllTrue
  <1> QED BY <1>2, <1>3, <1>4 DEF m

LEMMA TellsOne ==
    ASSUME ServerType, NEW premise, NEW d \in Devices,
           NEW of \in SUBSET Commands, NEW s \in States,
           PublishFrom(d, s, <<EventMessage(device.epoch, "state", of, s)>>),
           premise => \A c \in of : c \in Lights => Over(c, job')
    PROVE  Tells(premise)
  <1> DEFINE ms == <<EventMessage(device.epoch, "state", of, s)>>
  <1>1. ms \in Seq(EventMessages) /\ (premise => AllTrue(ms, job'))
    BY StateEventIs
  <1>2. PublishFrom(d, s, ms)
    OBVIOUS
  <1> HIDE DEF ms
  <1> QED BY <1>1, <1>2, TellsMany

(* Motions that are cancelled together, in whatever order: what is told of *)
(* them, and what they become.                                             *)
Cancellable == SUBSET ({{c} : c \in Unfinished} \union {{}})

LEMMA OrderType ==
    ASSUME TypeOK, NEW S \in Cancellable, NEW order \in SetToSeqs(S)
    PROVE  /\ Len(order) \in Nat /\ DOMAIN order = 1 .. Len(order)
           /\ \A i \in DOMAIN order :
                 /\ order[i] \in SUBSET Commands
                 /\ \A c \in order[i] : c \in Unfinished /\ c \notin Lights
           /\ Cancelled(order) \in Seq(EventMessages)
           /\ DOMAIN Cancelled(order) = DOMAIN order
           /\ \A i \in DOMAIN order :
                 Cancelled(order)[i] =
                     EventMessage(device.epoch, "cancelled", order[i], NoState)
  <1>1. IsFiniteSet(S)
    <2>1. IsFiniteSet(Unfinished)
      BY CommandsAssumption, FS_Subset DEF Unfinished
    <2>2. IsFiniteSet({{c} : c \in Unfinished})
      <3> DEFINE f == [c \in Unfinished |-> {c}]
      <3>1. f \in Surjection(Unfinished, {{c} : c \in Unfinished})
        BY DEF Surjection
      <3> QED BY <2>1, <3>1, FS_Surjection
    <2>3. IsFiniteSet({{}})
      BY FS_Singleton
    <2>4. IsFiniteSet({{c} : c \in Unfinished} \union {{}})
      BY <2>2, <2>3, FS_Union
    <2> QED BY <2>4, FS_Subset DEF Cancellable
  <1> DEFINE n == Cardinality(S)
  <1>2. n \in Nat /\ order \in [1 .. n -> S]
    BY <1>1, FS_CardinalityType DEF SetToSeqs
  <1> HIDE DEF n
  <1>3. Len(order) = n /\ DOMAIN order = 1 .. n
    BY <1>2
  <1>4. ASSUME NEW i \in DOMAIN order
        PROVE  /\ order[i] \in SUBSET Commands
               /\ \A c \in order[i] : c \in Unfinished /\ c \notin Lights
    <2>1. order[i] \in S
      BY <1>2, <1>3
    <2> QED BY <2>1, CommandsAssumption DEF Cancellable, Unfinished, Commands
  <1>5. ASSUME NEW i \in DOMAIN order
        PROVE  EventMessage(device.epoch, "cancelled", order[i], NoState)
                   \in EventMessages
    <2>1. order[i] \in SUBSET Commands
      BY <1>4
    <2> QED BY <2>1, DeviceTypes, EventsAreEvents DEF TypeOK, EndTypes
  <1>6. /\ Cancelled(order) \in Seq(EventMessages)
        /\ DOMAIN Cancelled(order) = DOMAIN order
        /\ \A i \in DOMAIN order :
              Cancelled(order)[i] =
                  EventMessage(device.epoch, "cancelled", order[i], NoState)
    <2> DEFINE q(i) == EventMessage(device.epoch, "cancelled", order[i], NoState)
    <2>1. \A i \in 1 .. n : q(i) \in EventMessages
      BY <1>3, <1>5
    <2>2. Cancelled(order) = [i \in 1 .. n |-> q(i)]
      BY <1>3 DEF Cancelled
    <2>3. \A i \in 1 .. n : Cancelled(order)[i] = q(i)
      BY <2>2
    <2> HIDE DEF q
    <2>4. [i \in 1 .. n |-> q(i)] \in Seq(EventMessages)
      BY <1>2, <2>1
    <2>5. DOMAIN Cancelled(order) = 1 .. n
      BY <2>2
    <2> QED BY <1>3, <2>2, <2>3, <2>4, <2>5 DEF q
  <1> QED BY <1>2, <1>3, <1>4, <1>6

LEMMA OrderEnds ==
    ASSUME TypeOK, NEW S \in Cancellable, NEW order \in SetToSeqs(S)
    PROVE  LET next == JobsWithout(order) IN
           /\ next \in [Commands -> Jobs]
           /\ \A c \in Commands : c \notin Unfinished => next[c] = job[c]
           /\ GoesOn(job, next) /\ Untouched(job, next)
           /\ AllTrue(Cancelled(order), next)
  <1> DEFINE next == JobsWithout(order)
  <1>1. \A c \in Commands :
            /\ job[c] \in Jobs /\ [job[c] EXCEPT !.at = "cancelled"] \in Jobs
            /\ [job[c] EXCEPT !.at = "cancelled"].at = "cancelled"
            /\ [job[c] EXCEPT !.at = "cancelled"].unheard = job[c].unheard
    BY DEF TypeOK, ServerType, Jobs
  <1>2. \A c \in Commands :
            next[c] = IF \E i \in DOMAIN order : c \in order[i]
                        THEN [job[c] EXCEPT !.at = "cancelled"] ELSE job[c]
    BY DEF JobsWithout
  <1>3. next \in [Commands -> Jobs]
    BY <1>1 DEF JobsWithout
  <1>4. \A c \in Commands : c \notin Unfinished => next[c] = job[c]
    BY <1>2, OrderType
  <1>5. \A c \in Commands : \/ next[c] = job[c]
                            \/ /\ next[c].at = "cancelled"
                               /\ next[c].unheard = job[c].unheard
    BY <1>1, <1>2
  <1>6. \A i \in DOMAIN order : \A c \in order[i] :
            c \in Commands /\ next[c].at = "cancelled"
    BY <1>1, <1>2, OrderType
  <1> HIDE DEF next
  <1>7. \A c \in Unfinished : job[c].at \in {"queued", "running"}
    BY DEF Unfinished
  <1>8. GoesOn(job, next)
    <2>1. ASSUME NEW c \in Commands
          PROVE  /\ Over(c, job) => Over(c, next)
                 /\ Undone(c, job) => Undone(c, next)
      <3>1. CASE c \in Unfinished
        BY <1>5, <1>7, <3>1 DEF Over, Undone
      <3>2. CASE c \notin Unfinished
        BY <1>4, <3>2 DEF Over, Undone
      <3> QED BY <3>1, <3>2
    <2> QED BY <2>1 DEF GoesOn
  <1>9. Untouched(job, next)
    BY <1>4, <1>7 DEF Untouched
  <1>10. ASSUME NEW i \in DOMAIN Cancelled(order)
         PROVE  IsTrue(Cancelled(order)[i], next)
    <2>1. /\ i \in DOMAIN order
          /\ Cancelled(order)[i] =
                 EventMessage(device.epoch, "cancelled", order[i], NoState)
      BY OrderType
    <2>2. \A c \in order[i] : Over(c, next)
      BY <1>6, <2>1 DEF Over
    <2> QED BY <2>1, <2>2, TrueMessages
  <1>11. AllTrue(Cancelled(order), next)
    BY <1>10 DEF AllTrue
  <1> QED BY <1>3, <1>4, <1>8, <1>9, <1>11 DEF next

(***************************************************************************)
(* A command at the gateway                                                *)
(***************************************************************************)
LEMMA CommandRefused ==
    ASSUME TypeOK, NEW c \in Commands, NEW e, RefuseCommand(c, e)
    PROVE  /\ job' \in [Commands -> Jobs]
           /\ \A d \in Commands : d # c => job'[d] = job[d]
           /\ Undone(c, job') /\ Tells(TRUE)
           /\ \E b \in BOOLEAN : Reply(<<ErrorMessage({c}, b)>>)
  <1>1. ServerType /\ job \in [Commands -> Jobs] /\ device \in Devices
        /\ routed \in Seq(EventMessages) /\ {c} \in SUBSET Commands
    BY DEF TypeOK, ServerType
  <1>2. Moves(c, "refused") /\ device' = device
    BY DEF RefuseCommand, Moves
  <1>3. /\ job' \in [Commands -> Jobs] /\ job'[c].at = "refused"
        /\ \A d \in Commands : d # c => job'[d] = job[d]
    BY <1>2, JobMoves
  <1>4. Undone(c, job')
    BY <1>3 DEF Undone
  <1> DEFINE m == EventMessage(device.epoch, "error", {c}, NoState)
  <1>5. m \in EventMessages /\ IsTrue(m, job')
    <2>1. m \in EventMessages
      BY <1>1, DeviceTypes, EventsAreEvents DEF EndTypes
    <2> QED BY <1>4, <2>1, TrueMessages
  <1>6. routed' = routed \/ routed' = Append(routed, m)
    BY DEF RefuseCommand
  <1> HIDE DEF m
  <1>7. Tells(TRUE)
    <2>1. <<m>> \in Seq(EventMessages) /\ AllTrue(<<m>>, job')
      BY <1>5 DEF AllTrue
    <2>2. <<>> \in Seq(EventMessages) /\ AllTrue(<<>>, job')
      BY DEF AllTrue
    <2>3. routed' = routed \o <<>> \/ routed' = routed \o <<m>>
      BY <1>1, <1>5, <1>6
    <2> QED BY <1>1, <1>2, <2>1, <2>2, <2>3 DEF Tells
  <1>8. \E b \in BOOLEAN : Reply(<<ErrorMessage({c}, b)>>)
    BY DEF RefuseCommand
  <1> QED BY <1>3, <1>4, <1>7, <1>8

LEMMA CommandApplied ==
    ASSUME TypeOK, NEW c \in Commands, NEW heard \in BOOLEAN,
           ApplyCommand(c, heard)
    PROVE  /\ job' \in [Commands -> Jobs]
           /\ \A d \in Commands : d # c => job'[d] = job[d]
           /\ Tells(TRUE) /\ (~heard => Undone(c, job'))
  <1>1. ServerType /\ job \in [Commands -> Jobs] /\ device \in Devices
        /\ {c} \in SUBSET Commands /\ NextState(device.busy) \in States
    BY DeviceTypes DEF TypeOK, ServerType
  <1> DEFINE j == [at |-> "done", unheard |-> ~heard]
  <1>2. j \in Jobs /\ j.at = "done" /\ j.unheard = ~heard
    BY DEF Jobs
  <1>3. job' = [job EXCEPT ![c] = j]
    BY DEF ApplyCommand
  <1> HIDE DEF j
  <1>4. /\ job' \in [Commands -> Jobs] /\ job'[c] = j
        /\ \A d \in Commands : d # c => job'[d] = job[d]
    BY <1>1, <1>2, <1>3
  <1>5. PublishFrom(device, NextState(device.busy),
          <<EventMessage(device.epoch, "state", {c}, NextState(device.busy))>>)
    BY DEF ApplyCommand, Publish
  <1>6. Over(c, job') /\ (~heard => Undone(c, job'))
    BY <1>2, <1>4 DEF Over, Undone
  <1>7. Tells(TRUE)
    BY <1>1, <1>5, <1>6, TellsOne
  <1> QED BY <1>4, <1>6, <1>7

LEMMA MotionQueued ==
    ASSUME TypeOK, NEW c \in Commands, NEW heard \in BOOLEAN,
           QueueMotion(c, heard)
    PROVE  /\ job' \in [Commands -> Jobs]
           /\ \A d \in Commands : d # c =>
                /\ Over(d, job) => Over(d, job')
                /\ Undone(d, job) => Undone(d, job')
                /\ job[d].at = "sent" => job'[d] = job[d]
           /\ Tells(job[c].at = "sent") /\ (~heard => Undone(c, job'))
  <1> DEFINE S == IF c \in Rests THEN Waiting ELSE {}
             s == NextState(TRUE)
             j == [at |-> "queued", unheard |-> ~heard]
  <1>1. PICK order \in SetToSeqs(S) :
          /\ job' = [JobsWithout(order) EXCEPT ![c] = j]
          /\ Publish(s, <<EventMessage(device.epoch, "state", {c}, s)>>
                        \o Cancelled(order))
    BY DEF QueueMotion
  <1>2. ServerType /\ device \in Devices /\ {c} \in SUBSET Commands
        /\ c \notin Lights /\ s \in States
    BY CommandsAssumption, DeviceTypes DEF QueueMotion, TypeOK, ServerType
  <1>3. S \in Cancellable
    BY DEF Waiting, Unfinished, Cancellable
  <1>4. j \in Jobs /\ j.at = "queued" /\ j.unheard = ~heard
    BY DEF Jobs
  <1> DEFINE next == JobsWithout(order)
             first == <<EventMessage(device.epoch, "state", {c}, s)>>
  <1>5. /\ next \in [Commands -> Jobs]
        /\ \A d \in Commands : d \notin Unfinished => next[d] = job[d]
        /\ GoesOn(job, next) /\ Untouched(job, next)
        /\ AllTrue(Cancelled(order), next)
    BY <1>3, OrderEnds
  <1>6. first \in Seq(EventMessages) /\ AllTrue(first, job')
    BY <1>2, StateEventIs
  <1>7. Cancelled(order) \in Seq(EventMessages)
    BY <1>3, OrderType
  <1>8. job' = [next EXCEPT ![c] = j] /\ PublishFrom(device, s, first \o Cancelled(order))
    BY <1>1 DEF Publish
  <1> HIDE DEF S, s, j, next, first
  <1>9. /\ job' \in [Commands -> Jobs] /\ job'[c] = j
        /\ \A d \in Commands : d # c => job'[d] = next[d]
    BY <1>4, <1>5, <1>8
  <1>10. ASSUME job[c].at = "sent"
         PROVE  AllTrue(first \o Cancelled(order), job')
    <2>1. ASSUME NEW i \in DOMAIN Cancelled(order)
          PROVE  IsTrue(Cancelled(order)[i], job')
      <3>1. /\ i \in DOMAIN order /\ order[i] \in SUBSET Commands
            /\ Cancelled(order)[i] =
                   EventMessage(device.epoch, "cancelled", order[i], NoState)
            /\ \A d \in order[i] : d \in Unfinished
        BY <1>3, OrderType
      <3>2. c \notin order[i]
        BY <1>10, <3>1 DEF Unfinished
      <3>3. IsTrue(EventMessage(device.epoch, "cancelled", order[i], NoState),
                   next)
        BY <1>5, <3>1 DEF AllTrue
      <3>4. \A d \in order[i] : Over(d, next)
        BY <3>3 DEF IsTrue, EventMessage
      <3>5. \A d \in order[i] : Over(d, job')
        BY <1>9, <3>1, <3>2, <3>4 DEF Over
      <3> QED BY <3>1, <3>5, TrueMessages
    <2>2. AllTrue(Cancelled(order), job')
      BY <2>1 DEF AllTrue
    <2> QED BY <1>6, <1>7, <2>2, TruthJoins
  <1>11. first \o Cancelled(order) \in Seq(EventMessages)
    BY <1>6, <1>7
  <1>12. Tells(job[c].at = "sent")
    BY <1>2, <1>8, <1>10, <1>11, TellsMany
  <1>13. ~heard => Undone(c, job')
    BY <1>4, <1>9 DEF Undone
  <1>14. ASSUME NEW d \in Commands, d # c
         PROVE  /\ Over(d, job) => Over(d, job')
                /\ Undone(d, job) => Undone(d, job')
                /\ job[d].at = "sent" => job'[d] = job[d]
    BY <1>5, <1>9, <1>14 DEF GoesOn, Untouched, Over, Undone
  <1> QED BY <1>9, <1>12, <1>13, <1>14

(* What is told and answered of a command that the gateway handles.        *)
LEMMA CommandSteps ==
    ASSUME TypeOK, HandleCommand
    PROVE  LET c == Head(up).of IN
           /\ c \in Commands /\ up # <<>> /\ up' = Tail(up)
           /\ Head(up).kind = "command" /\ up \in Seq(Requests)
           /\ UNCHANGED <<pageVars, late, lease, faults>>
           /\ job' \in [Commands -> Jobs]
           /\ \A d \in Commands : d # c =>
                /\ Over(d, job) => Over(d, job')
                /\ Undone(d, job) => Undone(d, job')
                /\ job[d].at = "sent" => job'[d] = job[d]
           /\ Tells(job[c].at = "sent")
           /\ \/ down' = down
              \/ /\ Undone(c, job')
                 /\ \E b \in BOOLEAN : Reply(<<ErrorMessage({c}, b)>>)
  <1> DEFINE c == Head(up).of
  <1>1. /\ up # <<>> /\ up' = Tail(up) /\ Head(up).kind = "command"
        /\ up \in Seq(Requests) /\ Head(up) \in Requests
        /\ UNCHANGED <<pageVars, late, lease, faults>>
    BY SeqTypes DEF HandleCommand, TypeOK, WireType
  <1>2. c \in Commands
    BY <1>1 DEF Requests
  <1>3. \/ RefuseCommand(c, Head(up).epoch)
        \/ \E heard \in BOOLEAN : /\ Answer(c, heard)
                                  /\ ApplyCommand(c, heard)
                                     \/ QueueMotion(c, heard)
    BY DEF HandleCommand
  <1> HIDE DEF c
  <1>4. Tells(TRUE) => Tells(job[c].at = "sent")
    BY DEF Tells
  <1>5. CASE RefuseCommand(c, Head(up).epoch)
    <2>1. /\ job' \in [Commands -> Jobs]
          /\ \A d \in Commands : d # c => job'[d] = job[d]
          /\ Undone(c, job') /\ Tells(TRUE)
          /\ \E b \in BOOLEAN : Reply(<<ErrorMessage({c}, b)>>)
      BY <1>2, <1>5, CommandRefused
    <2> QED BY <1>1, <1>2, <1>4, <2>1 DEF c, Over, Undone
  <1>6. ASSUME NEW heard \in BOOLEAN, Answer(c, heard),
               ApplyCommand(c, heard) \/ QueueMotion(c, heard)
        PROVE  /\ job' \in [Commands -> Jobs]
               /\ \A d \in Commands : d # c =>
                    /\ Over(d, job) => Over(d, job')
                    /\ Undone(d, job) => Undone(d, job')
                    /\ job[d].at = "sent" => job'[d] = job[d]
               /\ Tells(job[c].at = "sent") /\ (~heard => Undone(c, job'))
    <2>1. CASE ApplyCommand(c, heard)
      <3>1. /\ job' \in [Commands -> Jobs]
            /\ \A d \in Commands : d # c => job'[d] = job[d]
            /\ Tells(TRUE) /\ (~heard => Undone(c, job'))
        BY <1>2, <2>1, CommandApplied
      <3> QED BY <1>4, <3>1 DEF Over, Undone
    <2>2. CASE QueueMotion(c, heard)
      BY <1>2, <2>2, MotionQueued
    <2> QED BY <1>6, <2>1, <2>2
  <1>7. ASSUME NEW heard \in BOOLEAN, Answer(c, heard), ~heard => Undone(c, job')
        PROVE  \/ down' = down
               \/ /\ Undone(c, job')
                  /\ \E b \in BOOLEAN : Reply(<<ErrorMessage({c}, b)>>)
    BY <1>7 DEF Answer
  <1>8. CASE \E heard \in BOOLEAN : /\ Answer(c, heard)
                                    /\ ApplyCommand(c, heard)
                                       \/ QueueMotion(c, heard)
    <2>1. PICK heard \in BOOLEAN : /\ Answer(c, heard)
                                   /\ ApplyCommand(c, heard)
                                      \/ QueueMotion(c, heard)
      BY <1>8
    <2> QED BY <1>1, <1>2, <1>6, <1>7, <2>1 DEF c
  <1> QED BY <1>3, <1>5, <1>8

LEMMA TypeCommand ==
    ASSUME TypeOK, HandleCommand
    PROVE  TypeOK'
  <1> DEFINE c == Head(up).of
  <1>1. /\ c \in Commands /\ up' = Tail(up) /\ up # <<>> /\ up \in Seq(Requests)
        /\ UNCHANGED <<pageVars, late, lease, faults>>
        /\ job' \in [Commands -> Jobs] /\ Tells(job[c].at = "sent")
        /\ \/ down' = down
           \/ \E b \in BOOLEAN : Reply(<<ErrorMessage({c}, b)>>)
    BY CommandSteps
  <1> HIDE DEF c
  <1>2. device' \in Devices /\ routed' \in Seq(EventMessages)
    BY <1>1, TellsIs DEF TypeOK
  <1>3. down' \in Seq(Messages)
    <2>1. \A b \in BOOLEAN : ErrorMessage({c}, b) \in Messages
      BY <1>1, MessagesAreMessages
    <2> QED BY <1>1, <2>1, ReplyType DEF TypeOK, WireType
  <1>4. up' \in Seq(Requests)
    BY <1>1, SeqTypes
  <1> QED BY <1>1, <1>2, <1>3, <1>4 DEF TypeOK, PageType, WireType, ServerType,
          pageVars

LEMMA TypeGateway ==
    ASSUME TypeOK, Accept \/ HandleRenew \/ HandleAcquire \/ Broadcast
    PROVE  TypeOK'
  <1>1. CASE Accept
    <2>1. lease' \in {"mine", "other", "free"}
      BY <1>1 DEF Accept, TypeOK, ServerType
    <2>2. (IF lease' = "mine" THEN "controller" ELSE "readonly") \in Roles
      BY DEF Roles
    <2>3. HelloMessage(device.epoch, DeviceState,
              IF lease' = "mine" THEN "controller" ELSE "readonly") \in Messages
      BY <2>2, DeviceTypes, MessagesAreMessages DEF TypeOK
    <2>4. down' \in Seq(Messages)
      BY <1>1, <2>3, SeqTypes DEF Accept, Reply, TypeOK, WireType
    <2> QED BY <1>1, <2>1, <2>4
            DEF Accept, TypeOK, PageType, WireType, ServerType
  <1>2. CASE HandleRenew \/ HandleAcquire
    <2>1. /\ ControlMessage("controller") \in Messages
          /\ ErrorMessage({}, TRUE) \in Messages
      BY MessagesAreMessages DEF Roles
    <2>2. down' \in Seq(Messages)
      <3>1. Reply(<<ControlMessage("controller")>>)
            \/ Reply(<<ErrorMessage({}, TRUE)>>)
        BY <1>2 DEF HandleRenew, HandleAcquire
      <3> QED BY <2>1, <3>1, ReplyType DEF TypeOK
    <2>3. up' \in Seq(Requests)
      BY <1>2, SeqTypes DEF HandleRenew, HandleAcquire, TypeOK, WireType
    <2> QED BY <1>2, <2>2, <2>3
            DEF HandleRenew, HandleAcquire, ServerKeeps, TypeOK, PageType,
                WireType, ServerType, pageVars
  <1>3. CASE Broadcast
    <2>1. Head(routed) \in Messages /\ routed' \in Seq(EventMessages)
      BY <1>3, SeqTypes, MessagesAreMessages DEF Broadcast, TypeOK, ServerType
    <2>2. down' \in Seq(Messages)
      <3>1. CASE sock = "open"
        BY <1>3, <2>1, <3>1, ReplyType DEF Broadcast, TypeOK
      <3>2. CASE sock # "open"
        BY <1>3, <3>2 DEF Broadcast, TypeOK, WireType
      <3> QED BY <3>1, <3>2
    <2> QED BY <1>3, <2>1, <2>2
            DEF Broadcast, TypeOK, PageType, WireType, ServerType, pageVars
  <1> QED BY <1>1, <1>2, <1>3

LEMMA SelectType ==
    ASSUME TypeOK, Select
    PROVE  /\ device' \in Devices
           /\ down' \in Seq(Messages)
  <1>1. PICK r \in {0, MaxRevision - 1} :
          /\ device' = [FirstDevice EXCEPT !.epoch = device.epoch + 1, !.rev = r]
          /\ IF sock = "open"
               THEN Reply(<<StateMessage(device'.epoch,
                                         [rev |-> r, busy |-> FALSE])>>)
               ELSE UNCHANGED down
    BY DEF Select
  <1>2. r \in Nat /\ device.epoch + 1 \in Epochs
    BY PageAssumption, DeviceTypes DEF TypeOK, Epochs
  <1>3. /\ device' \in Devices
        /\ device'.epoch \in Epochs
    BY <1>1, <1>2 DEF FirstDevice, Devices
  <1>4. StateMessage(device'.epoch, [rev |-> r, busy |-> FALSE]) \in Messages
    BY <1>2, <1>3, MessagesAreMessages DEF States
  <1>5. down' \in Seq(Messages)
    <2>1. CASE sock = "open"
      BY <1>1, <1>4, <2>1, SeqTypes DEF Reply, TypeOK, WireType
    <2>2. CASE sock # "open"
      BY <1>1, <2>2 DEF TypeOK, WireType
    <2> QED BY <2>1, <2>2
  <1> QED BY <1>3, <1>5

LEMMA TypeSelect ==
    ASSUME TypeOK, HandleSelect \/ OtherSelects
    PROVE  TypeOK'
  <1>1. /\ device' \in Devices
        /\ down' \in Seq(Messages)
    <2>1. CASE Select
      BY <2>1, SelectType
    <2>2. CASE Reply(<<StateMessage(device.epoch, DeviceState)>>)
               /\ UNCHANGED device
      <3>1. StateMessage(device.epoch, DeviceState) \in Messages
        BY DeviceTypes, MessagesAreMessages DEF TypeOK
      <3> QED BY <2>2, <3>1, ReplyType DEF TypeOK, ServerType
    <2>3. CASE Reply(<<ErrorMessage({}, lease # "mine")>>) /\ UNCHANGED device
      <3>1. ErrorMessage({}, lease # "mine") \in Messages
        BY MessagesAreMessages
      <3> QED BY <2>3, <3>1, ReplyType DEF TypeOK, ServerType
    <2> QED BY <2>1, <2>2, <2>3 DEF HandleSelect, OtherSelects
  <1>2. up' \in Seq(Requests)
    BY SeqTypes DEF HandleSelect, OtherSelects, TypeOK, WireType
  <1> QED BY <1>1, <1>2 DEF HandleSelect, OtherSelects, ServerKeeps, TypeOK,
          PageType, WireType, ServerType, pageVars

(***************************************************************************)
(* What happens at the device                                              *)
(***************************************************************************)
DeviceGoesOn ==
    /\ job' \in [Commands -> Jobs] /\ GoesOn(job, job') /\ Untouched(job, job')
    /\ Tells(TRUE)

LEMMA JobsStay ==
    ASSUME TypeOK, job' = job, Tells(TRUE)
    PROVE  DeviceGoesOn
  BY DEF TypeOK, ServerType, DeviceGoesOn, GoesOn, Untouched

LEMMA MotionStarts ==
    ASSUME TypeOK, NEW c \in Motions, StartMotion(c)
    PROVE  DeviceGoesOn
  <1>1. ServerType /\ job \in [Commands -> Jobs] /\ device \in Devices
        /\ c \in Commands /\ {c} \in SUBSET Commands /\ c \notin Lights
        /\ NextState(TRUE) \in States
    BY CommandsAssumption, DeviceTypes DEF TypeOK, ServerType, Commands
  <1>2. /\ job[c].at = "queued" /\ Moves(c, "running")
        /\ PublishFrom(device, NextState(TRUE),
             <<EventMessage(device.epoch, "state", {c}, NextState(TRUE))>>)
    BY DEF StartMotion, Publish, Moves
  <1>3. /\ job' \in [Commands -> Jobs] /\ job'[c].unheard = job[c].unheard
        /\ \A d \in Commands : d # c => job'[d] = job[d]
    BY <1>1, <1>2, JobMoves
  <1>4. GoesOn(job, job') /\ Untouched(job, job')
    BY <1>1, <1>2, <1>3 DEF GoesOn, Untouched, Over, Undone
  <1>5. Tells(TRUE)
    BY <1>1, <1>2, TellsOne
  <1> QED BY <1>3, <1>4, <1>5 DEF DeviceGoesOn

LEMMA MotionEnds ==
    ASSUME TypeOK, NEW c \in Motions, FinishMotion(c)
    PROVE  DeviceGoesOn
  <1> DEFINE s == NextState(Busy(c))
             type(end) == IF end = "done" THEN "completed" ELSE end
  <1>1. PICK end \in {"done", "failed", "cancelled"} :
          /\ Moves(c, end)
          /\ PublishFrom(device, s,
               <<EventMessage(device.epoch, "state", {c}, s),
                 EventMessage(device.epoch, type(end), {c}, NoState)>>)
    BY DEF FinishMotion, Publish, Moves
  <1>2. ServerType /\ job \in [Commands -> Jobs] /\ device \in Devices
        /\ c \in Commands /\ {c} \in SUBSET Commands /\ c \notin Lights
        /\ s \in States /\ device.epoch \in Epochs
    BY CommandsAssumption, DeviceTypes DEF TypeOK, ServerType, Commands
  <1>3. job[c].at = "running"
    BY DEF FinishMotion
  <1>4. /\ job' \in [Commands -> Jobs] /\ job'[c].unheard = job[c].unheard
        /\ job'[c].at = end
        /\ \A d \in Commands : d # c => job'[d] = job[d]
    BY <1>1, <1>2, JobMoves
  <1>5. GoesOn(job, job') /\ Untouched(job, job')
    BY <1>2, <1>3, <1>4 DEF GoesOn, Untouched, Over, Undone
  <1> DEFINE m == EventMessage(device.epoch, "state", {c}, s)
             n == EventMessage(device.epoch, type(end), {c}, NoState)
  <1>6. m \in EventMessages /\ IsTrue(m, job')
    BY <1>2, EventsAreEvents, TrueMessages
  <1>7. n \in EventMessages /\ IsTrue(n, job')
    <2>1. type(end) \in EndTypes
      BY DEF EndTypes
    <2>2. /\ type(end) \in {"completed", "cancelled"} => Over(c, job')
          /\ type(end) \in {"failed", "error"} => Undone(c, job')
          /\ type(end) # "state"
      BY <1>4 DEF Over, Undone
    <2> HIDE DEF type
    <2> QED BY <1>2, <2>1, <2>2, EventsAreEvents, TrueMessages
  <1>8. PublishFrom(device, s, <<m, n>>)
    BY <1>1
  <1> HIDE DEF m, n, s, type
  <1>9. <<m, n>> \in Seq(EventMessages) /\ AllTrue(<<m, n>>, job')
    BY <1>6, <1>7 DEF AllTrue
  <1>10. Tells(TRUE)
    BY <1>2, <1>8, <1>9, TellsMany
  <1> QED BY <1>4, <1>5, <1>10 DEF DeviceGoesOn

LEMMA DeviceRests ==
    ASSUME TypeOK, Rest
    PROVE  DeviceGoesOn
  <1> DEFINE d == [device EXCEPT !.rest = "waiting"]
             s == NextState(TRUE)
             first == <<EventMessage(device.epoch, "state", {}, s)>>
  <1>1. PICK order \in SetToSeqs(Waiting) :
          job' = JobsWithout(order) /\ PublishFrom(d, s, first \o Cancelled(order))
    BY DEF Rest
  <1>2. ServerType /\ s \in States /\ d \in Devices /\ {} \in SUBSET Commands
    BY DeviceTypes DEF TypeOK, ServerType, Devices
  <1>3. Waiting \in Cancellable
    BY DEF Waiting, Unfinished, Cancellable
  <1>4. first \in Seq(EventMessages) /\ AllTrue(first, job')
    BY <1>2, StateEventIs
  <1> HIDE DEF d, s, first
  <1>5. Cancelled(order) \in Seq(EventMessages) /\ AllTrue(Cancelled(order), job')
    BY <1>1, <1>3, OrderType, OrderEnds
  <1>6. first \o Cancelled(order) \in Seq(EventMessages)
        /\ AllTrue(first \o Cancelled(order), job')
    BY <1>4, <1>5, TruthJoins
  <1>7. Tells(TRUE)
    BY <1>1, <1>2, <1>6, TellsMany
  <1> QED BY <1>1, <1>3, <1>7, OrderEnds DEF DeviceGoesOn

LEMMA DeviceShutsDown ==
    ASSUME TypeOK, ShutDown
    PROVE  DeviceGoesOn
  <1> DEFINE d == [device EXCEPT !.rest = "none", !.off = TRUE]
             state(i) == [rev |-> device.rev + i, busy |-> FALSE]
             S == {{c} : c \in Unfinished} \union
                  (IF device.rest = "none" THEN {} ELSE {{}})
             one(order, i) ==
               IF i % 2 = 0 THEN Cancelled(order)[i \div 2]
               ELSE EventMessage(device.epoch, "state", order[(i + 1) \div 2],
                                 state((i + 1) \div 2))
             told(order) == [i \in 1 .. 2 * Len(order) |-> one(order, i)]
  <1>1. PICK order \in SetToSeqs(S) :
          job' = JobsWithout(order)
          /\ PublishFrom(d, state(Len(order)), told(order))
    BY DEF ShutDown
  <1>2. /\ ServerType /\ d \in Devices /\ device.rev \in Nat
        /\ device.epoch \in Epochs
    BY DeviceTypes DEF TypeOK, ServerType, Devices
  <1>3. S \in Cancellable
    BY DEF Cancellable
  <1> HIDE DEF S
  <1>4. /\ Len(order) \in Nat /\ DOMAIN order = 1 .. Len(order)
        /\ \A i \in DOMAIN order :
              /\ order[i] \in SUBSET Commands
              /\ \A c \in order[i] : c \in Unfinished /\ c \notin Lights
        /\ Cancelled(order) \in Seq(EventMessages)
        /\ DOMAIN Cancelled(order) = DOMAIN order
    BY <1>3, OrderType
  <1>5. \A i \in DOMAIN order : /\ Cancelled(order)[i] \in EventMessages
                                /\ IsTrue(Cancelled(order)[i], job')
    <2>1. AllTrue(Cancelled(order), job')
      BY <1>1, <1>3, OrderEnds
    <2> QED BY <1>4, <2>1 DEF AllTrue
  <1>6. \A k \in Nat : state(k) \in States
    BY <1>2 DEF States
  <1> HIDE DEF state, d
  <1>7. ASSUME NEW k \in DOMAIN order
        PROVE  LET m == EventMessage(device.epoch, "state", order[k], state(k))
               IN m \in EventMessages /\ IsTrue(m, job')
    <2>1. state(k) \in States /\ order[k] \in SUBSET Commands
          /\ \A c \in order[k] : c \notin Lights
      BY <1>4, <1>6
    <2> QED BY <1>2, <2>1, EventsAreEvents, TrueMessages
  <1>8. ASSUME NEW i \in 1 .. 2 * Len(order)
        PROVE  one(order, i) \in EventMessages /\ IsTrue(one(order, i), job')
    <2>1. CASE i % 2 = 0
      <3>1. i \div 2 \in 1 .. Len(order)
        BY <1>4, <2>1
      <3>2. one(order, i) = Cancelled(order)[i \div 2]
        BY <2>1
      <3> QED BY <1>4, <1>5, <3>1, <3>2
    <2>2. CASE i % 2 # 0
      <3> DEFINE k == (i + 1) \div 2
      <3>1. k \in 1 .. Len(order)
        BY <1>4, <2>2
      <3>2. one(order, i) = EventMessage(device.epoch, "state", order[k], state(k))
        BY <2>2
      <3> HIDE DEF k
      <3> QED BY <1>4, <1>7, <3>1, <3>2
    <2> QED BY <2>1, <2>2
  <1> DEFINE ms == told(order)
  <1>9. ms \in Seq(EventMessages) /\ AllTrue(ms, job')
    <2>1. ms = [i \in 1 .. 2 * Len(order) |-> one(order, i)]
      OBVIOUS
    <2> DEFINE n == 2 * Len(order)
    <2> HIDE DEF one
    <2>2. n \in Nat /\ \A i \in 1 .. n : one(order, i) \in EventMessages
                                         /\ IsTrue(one(order, i), job')
      BY <1>4, <1>8
    <2>3. ms = [i \in 1 .. n |-> one(order, i)]
      BY <2>1
    <2> HIDE DEF n, ms
    <2>4. DOMAIN ms = 1 .. n /\ \A i \in 1 .. n : ms[i] = one(order, i)
      BY <2>3
    <2>5. ms \in Seq(EventMessages)
      BY <2>2, <2>3
    <2> QED BY <2>2, <2>4, <2>5 DEF AllTrue
  <1>10. PublishFrom(d, state(Len(order)), ms) /\ state(Len(order)) \in States
    BY <1>1, <1>4, <1>6
  <1> HIDE DEF ms
  <1>11. Tells(TRUE)
    BY <1>2, <1>9, <1>10, TellsMany
  <1> QED BY <1>1, <1>3, <1>11, OrderEnds DEF DeviceGoesOn

(* A state that is about no command.                                       *)
LEMMA DeviceChanges ==
    ASSUME TypeOK,
           \/ CatchUp \/ StartRest \/ FinishRest \/ Change \/ RestartDevice
           \/ \E catchesUp \in BOOLEAN : Skip(catchesUp)
    PROVE  DeviceGoesOn
  <1>1. /\ ServerType /\ device \in Devices /\ routed \in Seq(EventMessages)
        /\ device.rev \in Nat /\ device.busy \in BOOLEAN /\ device.missed \in Nat
        /\ \A b \in BOOLEAN : NextState(b) \in States
        /\ {} \in SUBSET Commands
    BY DeviceTypes DEF TypeOK, ServerType, Devices
  <1>2. ASSUME NEW d \in Devices, NEW s \in States,
               PublishFrom(d, s, <<EventMessage(device.epoch, "state", {}, s)>>)
        PROVE  Tells(TRUE)
    BY <1>1, <1>2, TellsOne
  <1>3. CASE CatchUp
    <2> DEFINE s == [rev |-> device.rev + device.missed + 1,
                     busy |-> device.busy]
    <2>1. s \in States
      BY <1>1 DEF States
    <2>2. PublishFrom(device, s, <<EventMessage(device.epoch, "state", {}, s)>>)
          /\ job' = job
      BY <1>3 DEF CatchUp, Publish
    <2> HIDE DEF s
    <2> QED BY <1>1, <1>2, <2>1, <2>2, JobsStay
  <1>4. CASE StartRest
    <2> DEFINE d == [device EXCEPT !.rest = "running"]
    <2>1. d \in Devices
      BY <1>1 DEF Devices
    <2>2. PublishFrom(d, NextState(TRUE),
            <<EventMessage(device.epoch, "state", {}, NextState(TRUE))>>)
          /\ job' = job
      BY <1>4 DEF StartRest
    <2> HIDE DEF d
    <2> QED BY <1>1, <1>2, <2>1, <2>2, JobsStay
  <1>5. CASE FinishRest
    <2> DEFINE d == [device EXCEPT !.rest = "none"]
               s == NextState(Unfinished # {})
    <2>1. d \in Devices /\ s \in States
      BY <1>1 DEF Devices
    <2>2. PublishFrom(d, s, <<EventMessage(device.epoch, "state", {}, s)>>)
          /\ job' = job
      BY <1>5 DEF FinishRest
    <2> HIDE DEF d, s
    <2> QED BY <1>2, <2>1, <2>2, JobsStay
  <1>6. CASE Change
    <2>1. PublishFrom(device, NextState(device.busy),
            <<EventMessage(device.epoch, "state", {}, NextState(device.busy))>>)
          /\ job' = job
      BY <1>6 DEF Change, Publish
    <2> QED BY <1>1, <1>2, <2>1, JobsStay
  <1>7. CASE RestartDevice
    <2> DEFINE d == [device EXCEPT !.off = FALSE]
               s == [rev |-> 0, busy |-> FALSE]
    <2>1. d \in Devices /\ s \in States
      BY <1>1 DEF Devices, States
    <2>2. PublishFrom(d, s, <<EventMessage(device.epoch, "state", {}, s)>>)
          /\ job' = job
      BY <1>7 DEF RestartDevice
    <2> HIDE DEF d, s
    <2> QED BY <1>2, <2>1, <2>2, JobsStay
  <1>8. ASSUME NEW catchesUp \in BOOLEAN, Skip(catchesUp)
        PROVE  DeviceGoesOn
    <2> DEFINE s == [rev |-> device.rev + 2, busy |-> device.busy]
               ms == <<EventMessage(device.epoch, "state", {}, s)>>
    <2>1. s \in States
      BY <1>1 DEF States
    <2>2. ms \in Seq(EventMessages) /\ AllTrue(ms, job')
      BY <1>1, <2>1, StateEventIs
    <2>3. \/ PublishFrom(device, s, ms)
          \/ /\ device' = [device EXCEPT !.missed = 2]
             /\ routed' = Append(routed,
                             EventMessage(device.epoch, "state", {}, s))
      BY <1>8 DEF Skip, Publish
    <2>4. CASE PublishFrom(device, s, ms)
      <3> HIDE DEF s
      <3>1. Tells(TRUE)
        BY <1>1, <1>2, <2>1, <2>4
      <3> QED BY <1>8, <3>1, JobsStay DEF Skip
    <2>5. CASE /\ device' = [device EXCEPT !.missed = 2]
               /\ routed' = Append(routed,
                               EventMessage(device.epoch, "state", {}, s))
      <3> DEFINE m == EventMessage(device.epoch, "state", {}, s)
      <3>1. m \in EventMessages
        BY <1>1, <2>1, DeviceTypes, EventsAreEvents
      <3>2. device' \in Devices
        BY <1>1, <2>5 DEF Devices
      <3> HIDE DEF s
      <3>3. routed' = Append(routed, m) /\ ms = <<m>>
        BY <2>5
      <3> HIDE DEF m
      <3>4. routed' = routed \o <<m>>
        BY <1>1, <3>1, <3>3
      <3>5. Tells(TRUE)
        BY <2>2, <3>2, <3>3, <3>4 DEF Tells
      <3> QED BY <1>8, <3>5, JobsStay DEF Skip
    <2> QED BY <2>3, <2>4, <2>5
  <1> QED BY <1>3, <1>4, <1>5, <1>6, <1>7, <1>8

AtDevice ==
    \/ Device \/ Change \/ Rest \/ ShutDown \/ RestartDevice
    \/ \E catchesUp \in BOOLEAN : Skip(catchesUp)

LEMMA DeviceSteps ==
    ASSUME TypeOK, AtDevice
    PROVE  /\ DeviceKeeps /\ faults' \in Nat
           /\ DeviceGoesOn
  <1>1. /\ DeviceKeeps
        /\ faults' = faults \/ faults' = faults + 1
    BY DEF AtDevice, Device, CatchUp, StartRest, FinishRest, StartMotion,
       FinishMotion, Change, Rest, ShutDown, RestartDevice, Skip, Fault
  <1>2. \/ CatchUp \/ StartRest \/ FinishRest \/ Change \/ RestartDevice
        \/ \E catchesUp \in BOOLEAN : Skip(catchesUp)
        \/ Rest \/ ShutDown
        \/ \E c \in Motions : StartMotion(c) \/ FinishMotion(c)
    BY DEF AtDevice, Device
  <1>3. faults' \in Nat
    BY <1>1 DEF TypeOK
  <1> QED BY <1>1, <1>2, <1>3, DeviceChanges, DeviceRests, DeviceShutsDown,
          MotionStarts, MotionEnds

LEMMA TypeDevice ==
    ASSUME TypeOK, AtDevice
    PROVE  TypeOK'
  <1>1. /\ UNCHANGED <<pageVars, wireVars, lease>> /\ faults' \in Nat
        /\ job' \in [Commands -> Jobs] /\ Tells(TRUE)
    BY DeviceSteps DEF DeviceKeeps, DeviceGoesOn
  <1>2. device' \in Devices /\ routed' \in Seq(EventMessages)
    BY <1>1, TellsIs DEF TypeOK
  <1> QED BY <1>1, <1>2 DEF TypeOK, PageType, WireType, ServerType, pageVars,
          wireVars

LEMMA TypeOthers ==
    ASSUME TypeOK, Others, ~AtDevice
    PROVE  TypeOK'
  <1>2. CASE RestartGateway
    <2>1. Show(ClosedConnection(store), TRUE) /\ store \in Stores
      BY <1>2 DEF RestartGateway, TypeOK, PageType
    <2>2. /\ store' \in Stores /\ renew' \in BOOLEAN
          /\ asked' \in [of : SUBSET Motions, epoch : Nat]
      BY <2>1, ShowType, StoreTypes DEF TypeOK
    <2>3. /\ up' \in Seq(Requests) /\ down' \in Seq(Messages)
          /\ lease' \in {"other", "free"}
      BY <1>2, SessionType DEF RestartGateway
    <2>4. /\ job' \in [Commands -> Jobs] /\ routed' \in Seq(EventMessages)
          /\ device' \in Devices
      <3>1. \A c \in Commands : /\ job[c] \in Jobs
                                /\ [job[c] EXCEPT !.at = "failed"] \in Jobs
        BY DEF TypeOK, ServerType, Jobs
      <3> QED BY <1>2, <3>1, DeviceTypes DEF RestartGateway, TypeOK
    <2>5. PageType'
      BY <1>2, <2>2 DEF RestartGateway, ScheduleReconnect, NoObservation, TypeOK,
         PageType
    <2>6. faults' \in Nat /\ late' = late
      BY <1>2 DEF RestartGateway, Fault, TypeOK
    <2> QED BY <2>3, <2>4, <2>5, <2>6 DEF TypeOK, WireType, ServerType
  <1>3. CASE TakeOver
    <2>1. down' \in Seq(Messages)
      <3>1. ControlMessage("readonly") \in Messages
        BY MessagesAreMessages DEF Roles
      <3> QED BY <1>3, <3>1, ReplyType DEF TakeOver, TypeOK
    <2> QED BY <1>3, <2>1 DEF TakeOver, Fault, TypeOK, PageType, WireType,
            ServerType, pageVars
  <1>4. CASE Expire \/ OtherLeaves
    BY <1>4 DEF Expire, OtherLeaves, Fault, TypeOK, PageType, WireType,
       ServerType, pageVars, wireVars
  <1>5. CASE OtherSelects
    BY <1>5, TypeSelect
  <1> QED BY <1>2, <1>3, <1>4, <1>5 DEF Others, AtDevice

LEMMA TypeNext ==
    ASSUME TypeOK, [Next]_vars
    PROVE  TypeOK'
  <1>1. CASE UNCHANGED vars
    BY <1>1 DEF vars, pageVars, wireVars, serverVars, TypeOK, PageType,
       WireType, ServerType
  <1> QED BY <1>1, TypeLifecycle, TypeReceive, TypeUser, TypeCommand,
          TypeGateway, TypeSelect, TypeDevice, TypeOthers
          DEF Next, Gateway, AtDevice

LEMMA TypeInit ==
    ASSUME Init
    PROVE  TypeOK
  <1>1. store \in Stores
    BY DEF Init, InitialStore, Stores, Roles
  <1>2. /\ device \in Devices
        /\ job \in [Commands -> Jobs]
    BY DEF Init, FirstDevice, Devices, Epochs, Jobs
  <1>3. PageType
    BY <1>1 DEF Init, NoObservation, NoMove, PageType
  <1>4. WireType /\ ServerType
    BY <1>2 DEF Init, WireType, ServerType
  <1> QED BY <1>3, <1>4 DEF Init, TypeOK

(* Every variable of the page and of its gateway keeps its type.           *)
THEOREM TypeCorrect == Spec => []TypeOK
  BY TypeInit, TypeNext, PTL DEF Spec

-----------------------------------------------------------------------------
(***************************************************************************)
(* What is observed and what is shown                                      *)
(***************************************************************************)
Linked == Connected /\ ObserverAgrees

LEMMA HelloLemmas ==
    ASSUME NEW msgs \in Seq(Messages), NEW m \in Messages
    PROVE  /\ m.kind # "hello" /\ NoHello(msgs) => NoHello(Append(msgs, m))
           /\ m.kind # "hello" /\ HelloFirst(msgs) => HelloFirst(Append(msgs, m))
           /\ m.kind = "hello" => HelloFirst(<<m>>)
           /\ msgs # <<>> /\ NoHello(msgs) =>
                  NoHello(Tail(msgs)) /\ Head(msgs).kind # "hello"
           /\ HelloFirst(msgs) =>
                  NoHello(Tail(msgs)) /\ Head(msgs).kind = "hello"
  <1>1. m.kind # "hello" /\ NoHello(msgs) => NoHello(Append(msgs, m))
    BY DEF NoHello
  <1>2. ASSUME m.kind # "hello", HelloFirst(msgs)
        PROVE  HelloFirst(Append(msgs, m))
    <2>1. Len(msgs) > 0 /\ Append(msgs, m) # <<>>
      BY <1>2 DEF HelloFirst
    <2> QED BY <1>2, <2>1 DEF HelloFirst
  <1>3. m.kind = "hello" => HelloFirst(<<m>>)
    BY DEF HelloFirst
  <1>4. msgs # <<>> /\ NoHello(msgs) =>
            NoHello(Tail(msgs)) /\ Head(msgs).kind # "hello"
    BY DEF NoHello
  <1>5. ASSUME HelloFirst(msgs)
        PROVE  NoHello(Tail(msgs)) /\ Head(msgs).kind = "hello"
    <2>1. Len(msgs) > 0
      BY <1>5 DEF HelloFirst
    <2>2. \A i \in DOMAIN Tail(msgs) : /\ i + 1 \in DOMAIN msgs /\ i + 1 # 1
                                       /\ Tail(msgs)[i] = msgs[i + 1]
      BY <2>1
    <2>3. NoHello(Tail(msgs))
      BY <1>5, <2>2 DEF HelloFirst, NoHello
    <2> QED BY <1>5, <2>1, <2>3 DEF HelloFirst
  <1> QED BY <1>1, <1>2, <1>3, <1>4, <1>5

(* The page does nothing; an open connection may bring one message more.   *)
ServerStep ==
    /\ UNCHANGED pageVars
    /\ sock # "open" => UNCHANGED <<up, down>> /\ lease' # "mine"
    /\ \/ down' = down
       \/ \E m \in Messages : m.kind # "hello" /\ down' = Append(down, m)

LEMMA ServerStepLinks ==
    ASSUME TypeOK, Linked, ServerStep
    PROVE  Linked'
  <1>1. UNCHANGED <<mounted, sock, timer, observed, store, renew, asked>>
    BY DEF ServerStep, pageVars
  <1>2. down \in Seq(Messages)
    BY DEF TypeOK, WireType
  <1>3. /\ NoHello(down) => NoHello(down')
        /\ HelloFirst(down) => HelloFirst(down')
    BY <1>2, HelloLemmas DEF ServerStep
  <1>4. Connected'
    BY <1>1, <1>3 DEF Linked, Connected, ServerStep
  <1> QED BY <1>1, <1>4 DEF Linked, ObserverAgrees

LEMMA ReplyIsAppend ==
    ASSUME TypeOK, NEW m \in Messages, Reply(<<m>>)
    PROVE  down' = Append(down, m)
  BY DEF TypeOK, WireType, Reply

LEMMA KindsOf ==
    /\ \A e, s : StateMessage(e, s).kind # "hello"
    /\ \A of, b : ErrorMessage(of, b).kind # "hello"
    /\ \A r : ControlMessage(r).kind # "hello"
    /\ \A e, t, of, s : EventMessage(e, t, of, s).kind # "hello"
  BY DEF StateMessage, ErrorMessage, ControlMessage, EventMessage

LEMMA SelectLinks ==
    ASSUME TypeOK, Select
    PROVE  \/ down' = down
           \/ /\ sock = "open"
              /\ \E m \in Messages : m.kind # "hello" /\ down' = Append(down, m)
  <1>1. PICK r \in {0, MaxRevision - 1} :
          /\ device' = [FirstDevice EXCEPT !.epoch = device.epoch + 1, !.rev = r]
          /\ IF sock = "open"
               THEN Reply(<<StateMessage(device'.epoch,
                                         [rev |-> r, busy |-> FALSE])>>)
               ELSE UNCHANGED down
    BY DEF Select
  <1>2. CASE sock = "open"
    <2> DEFINE m == StateMessage(device.epoch + 1, [rev |-> r, busy |-> FALSE])
    <2>1. r \in Nat /\ device.epoch + 1 \in Epochs
      BY PageAssumption, DeviceTypes DEF TypeOK, Epochs
    <2>2. device'.epoch = device.epoch + 1
      BY <1>1 DEF FirstDevice
    <2>3. m \in Messages /\ m.kind # "hello"
      BY <2>1, KindsOf, MessagesAreMessages DEF States
    <2>4. Reply(<<m>>)
      BY <1>1, <1>2, <2>2
    <2> HIDE DEF m
    <2> QED BY <1>2, <2>3, <2>4, ReplyIsAppend
  <1>3. CASE sock # "open"
    BY <1>1, <1>3
  <1> QED BY <1>2, <1>3

LEMMA ServerLinks ==
    ASSUME TypeOK, Linked,
           Gateway \/ Broadcast \/ Device \/ (Others /\ ~RestartGateway)
    PROVE  ServerStep
  <1>1. up # <<>> \/ lease = "mine" => sock = "open"
    BY DEF Linked, Connected
  <1>2. CASE HandleCommand
    <2> DEFINE c == Head(up).of
    <2>1. c \in Commands /\ {c} \in SUBSET Commands
      BY <1>2, CommandSteps
    <2>2. \/ down' = down
          \/ \E b \in BOOLEAN : Reply(<<ErrorMessage({c}, b)>>)
      BY <1>2, CommandSteps
    <2> HIDE DEF c
    <2>3. \/ down' = down
          \/ \E m \in Messages : m.kind # "hello" /\ down' = Append(down, m)
      BY <2>1, <2>2, KindsOf, MessagesAreMessages, ReplyIsAppend
    <2> QED BY <1>1, <1>2, <2>3 DEF HandleCommand, ServerStep
  <1>3. CASE HandleRenew \/ HandleAcquire
    <2>1. Reply(<<ControlMessage("controller")>>)
          \/ Reply(<<ErrorMessage({}, TRUE)>>)
      BY <1>3 DEF HandleRenew, HandleAcquire
    <2>2. \E m \in Messages : m.kind # "hello" /\ down' = Append(down, m)
      <3>1. /\ ControlMessage("controller") \in Messages
            /\ ErrorMessage({}, TRUE) \in Messages
        BY MessagesAreMessages DEF Roles
      <3>2. /\ ControlMessage("controller").kind # "hello"
            /\ ErrorMessage({}, TRUE).kind # "hello"
        BY KindsOf
      <3> QED BY <2>1, <3>1, <3>2, ReplyIsAppend
    <2> QED BY <1>1, <1>3, <2>2 DEF HandleRenew, HandleAcquire, ServerKeeps,
            ServerStep
  <1>4. CASE HandleSelect
    <2>1. \/ Select
          \/ Reply(<<StateMessage(device.epoch, DeviceState)>>)
          \/ Reply(<<ErrorMessage({}, lease # "mine")>>)
      BY <1>4 DEF HandleSelect
    <2>2. \/ down' = down
          \/ \E m \in Messages : m.kind # "hello" /\ down' = Append(down, m)
      BY <2>1, DeviceTypes, SelectLinks, KindsOf, MessagesAreMessages,
         ReplyIsAppend DEF TypeOK
    <2> QED BY <1>1, <1>4, <2>2 DEF HandleSelect, ServerKeeps, ServerStep
  <1>5. CASE Broadcast
    <2>1. Head(routed) \in Messages /\ Head(routed).kind # "hello"
      <3>1. Head(routed) \in EventMessages
        BY <1>5, SeqTypes DEF Broadcast, TypeOK, ServerType
      <3> QED BY <3>1, EventCases, MessagesAreMessages
    <2>2. sock = "open" => down' = Append(down, Head(routed))
      BY <1>5, <2>1, ReplyIsAppend DEF Broadcast
    <2> QED BY <1>1, <1>5, <2>1, <2>2 DEF Broadcast, ServerStep
  <1>6. CASE AtDevice
    BY <1>1, <1>6, DeviceSteps DEF DeviceKeeps, ServerStep, wireVars
  <1>7. CASE TakeOver
    <2>1. \E m \in Messages : m.kind # "hello" /\ down' = Append(down, m)
      BY <1>7, KindsOf, MessagesAreMessages, ReplyIsAppend DEF TakeOver, Roles
    <2> QED BY <1>1, <1>7, <2>1 DEF TakeOver, ServerStep
  <1>8. CASE Expire \/ OtherLeaves
    BY <1>8 DEF Expire, OtherLeaves, ServerStep, wireVars
  <1>9. CASE OtherSelects
    BY <1>9, SelectLinks DEF OtherSelects, ServerKeeps, ServerStep
  <1> QED BY <1>2, <1>3, <1>4, <1>5, <1>6, <1>7, <1>8, <1>9
          DEF Gateway, Others, AtDevice

(* The connection is gone, and the page knows it.                          *)
LEMMA CutLinks ==
    ASSUME TypeOK, sock' # "open", sock' = "none" \/ mounted',
           observed' = NoObservation, SessionEnds,
           store'.connection # "online"
    PROVE  Linked'
  BY DEF Linked, Connected, ObserverAgrees, SessionEnds, TypeOK, ServerType

LEMMA ConnectionOf ==
    ASSUME NEW s \in Stores
    PROVE  /\ Connecting(s).connection # "online"
           /\ ClosedConnection(s).connection # "online"
           /\ InitialStore.connection # "online"
           /\ \A c \in Commands :
                LET t == AddLocalCommand(s, c) IN
                /\ t.connection = s.connection /\ t.epoch = s.epoch
                /\ t.state = s.state /\ t.role = s.role
  BY DEF Connecting, ClosedConnection, InitialStore, AddLocalCommand, Stores

LEMMA LifecycleLinks ==
    ASSUME TypeOK, Linked, Lifecycle \/ RestartGateway
    PROVE  Linked' /\ observed' = NoObservation
  <1>1. store \in Stores
    BY DEF TypeOK, PageType
  <1>2. CASE Mount \/ OpenSocket \/ OpenFails
    <2>1. sock = "none" /\ observed = NoObservation
      BY <1>2 DEF Mount, OpenSocket, OpenFails, Linked, Connected
    <2>2. store'.connection # "online"
      BY <1>1, <1>2, ConnectionOf DEF Mount, OpenSocket, OpenFails, Show
    <2>3. UNCHANGED <<observed, up, down, lease>>
      BY <1>2 DEF Mount, OpenSocket, OpenFails, wireVars, serverVars
    <2>4. sock' # "open" /\ (mounted' = TRUE \/ sock' = "none")
      BY <1>2, <2>1 DEF Mount, OpenSocket, OpenFails
    <2> QED BY <2>1, <2>2, <2>3, <2>4 DEF Linked, Connected, ObserverAgrees
  <1>3. CASE Reload
    BY <1>1, <1>3, CutLinks, ConnectionOf DEF Reload
  <1>4. CASE SocketLost \/ RestartGateway
    BY <1>1, <1>4, CutLinks, ConnectionOf DEF SocketLost, RestartGateway, Show
  <1> QED BY <1>2, <1>3, <1>4 DEF Lifecycle

LEMMA UserLinks ==
    ASSUME TypeOK, Linked, User \/ RenewFires
    PROVE  /\ Linked' /\ UNCHANGED <<observed, down>>
           /\ store'.epoch = store.epoch /\ store'.state = store.state
           /\ store'.role = store.role
  <1>1. store \in Stores
    BY DEF TypeOK, PageType
  <1>2. UNCHANGED <<mounted, sock, observed, down, lease>>
    BY DEF User, Click, AskMove, AnswerMove, ClickAcquire, ClickSelect,
       RenewFires, Sending, wireVars, serverVars
  <1>3. \/ store' = store
        \/ \E c \in Commands : store' = AddLocalCommand(store, c)
    <2>1. \A c \in asked.of : c \in Commands
      BY DEF TypeOK, PageType, Commands
    <2> QED BY <2>1 DEF User, Click, AskMove, AnswerMove, ClickAcquire,
            ClickSelect, RenewFires, SendCommand
  <1>4. /\ store'.epoch = store.epoch /\ store'.state = store.state
        /\ store'.role = store.role /\ store'.connection = store.connection
    BY <1>1, <1>3, ConnectionOf
  <1>5. sock # "open" => up' = up
    BY DEF User, Click, AskMove, AnswerMove, ClickAcquire, ClickSelect,
       RenewFires, SendCommand, Send, wireVars
  <1> QED BY <1>2, <1>4, <1>5 DEF Linked, Connected, ObserverAgrees

LEMMA AcceptLinks ==
    ASSUME TypeOK, Linked, Accept
    PROVE  Linked' /\ UNCHANGED <<observed, store>>
  <1> DEFINE m == HelloMessage(device.epoch, DeviceState,
                    IF lease' = "mine" THEN "controller" ELSE "readonly")
  <1>1. /\ sock = "opening" /\ sock' = "open" /\ mounted
        /\ observed = NoObservation /\ down = <<>>
        /\ store.connection # "online"
    BY DEF Accept, Linked, Connected, ObserverAgrees, TypeOK, PageType
  <1>2. UNCHANGED <<mounted, observed, store>> /\ Reply(<<m>>)
    BY DEF Accept
  <1>3. m.kind = "hello" /\ m \in Messages
    BY DeviceTypes, MessagesAreMessages DEF HelloMessage, Roles, TypeOK
  <1> HIDE DEF m
  <1>4. down' = <<m>>
    BY <1>1, <1>2 DEF Reply
  <1>5. HelloFirst(down')
    BY <1>3, <1>4 DEF HelloFirst
  <1> QED BY <1>1, <1>2, <1>5 DEF Linked, Connected, ObserverAgrees

LEMMA ReceiveLinks ==
    ASSUME TypeOK, Linked, Receive
    PROVE  /\ Linked'
           /\ observed # NoObservation /\ observed' # NoObservation =>
                  NotBefore(store, store')
  <1> DEFINE m == Head(down)
  <1>1. /\ sock = "open" /\ down # <<>> /\ m \in Messages
        /\ down \in Seq(Messages) /\ Tail(down) \in Seq(Messages)
        /\ store \in Stores
        /\ observed \in [epoch : Nat, rev : Nat \union {-1}]
    BY SeqTypes DEF Receive, TypeOK, WireType, PageType
  <1>2. store' = Reduce(store, m) /\ mounted' = mounted /\ mounted
    BY <1>1 DEF Receive, Show, Linked, Connected, TypeOK, PageType
  <1>3. IF IsGap(m)
        THEN sock' = "none" /\ observed' = NoObservation /\ SessionEnds
        ELSE /\ down' = Tail(down) /\ observed' = ObservedAfter(m)
             /\ UNCHANGED <<sock, up, lease>>
    BY DEF Receive
  <1> HIDE DEF m
  <1>4. CASE observed = NoObservation
    <2>1. /\ HelloFirst(down) /\ ~(store.connection = "online")
      BY <1>1, <1>4 DEF Linked, Connected, ObserverAgrees
    <2>2. m.kind = "hello" /\ NoHello(Tail(down)) /\ m \in HelloMessages
      BY <1>1, <2>1, HelloLemmas, MessageCases DEF m
    <2>3. /\ ~IsGap(m) /\ observed' = [epoch |-> m.epoch, rev |-> m.state.rev]
          /\ down' = Tail(down) /\ UNCHANGED <<sock, up, lease>>
      BY <1>3, <2>2 DEF IsGap, ObservedAfter
    <2>4. m.state.rev \in Nat
      BY <2>2 DEF HelloMessages, States
    <2>5. store'.epoch = m.epoch /\ store'.state = m.state
      BY <1>1, <1>2, <2>2 DEF Reduce, ReduceHello, Stores
    <2> QED BY <1>1, <1>2, <1>4, <2>2, <2>3, <2>4, <2>5
            DEF Linked, Connected, ObserverAgrees, NoObservation
  <1>5. CASE observed # NoObservation
    <2>1. /\ NoHello(down) /\ observed.rev \in Nat
          /\ observed = [epoch |-> store.epoch, rev |-> store.state.rev]
      BY <1>5 DEF Linked, Connected, ObserverAgrees
    <2>2. m.kind # "hello" /\ NoHello(Tail(down))
      BY <1>1, <2>1, HelloLemmas DEF m
    <2>3. /\ store.state \in States /\ store.state # NoState
          /\ store.epoch \in Nat /\ store.state.rev \in Nat
          /\ observed.epoch = store.epoch /\ observed.rev = store.state.rev
      BY <1>1, <2>1 DEF Stores, NoState
    <2>4. CASE IsGap(m)
      <3>1. /\ m \in EventMessages /\ m.type = "state" /\ m.epoch = store.epoch
            /\ m.state.rev > store.state.rev + 1
        BY <1>1, <2>3, <2>4, MessageCases DEF IsGap
      <3>2. Reduce(store, m) = ReduceEvent(store, m) /\ m.state \in States
        BY <3>1, EventCases DEF Reduce
      <3>3. m.state.rev \in Nat
        BY <3>2 DEF States
      <3>4. store'.connection = "stale"
        BY <1>1, <1>2, <2>3, <3>1, <3>2, <3>3, EventIs
      <3> QED BY <1>1, <1>2, <1>3, <2>4, <3>4, CutLinks
    <2>5. CASE ~IsGap(m)
      <3>1. /\ down' = Tail(down) /\ observed' = ObservedAfter(m)
            /\ UNCHANGED <<sock, up, lease>>
        BY <1>3, <2>5
      <3>2. /\ observed' = [epoch |-> store'.epoch, rev |-> store'.state.rev]
            /\ store'.state.rev \in Nat
            /\ NotBefore(store, store')
        <4>1. CASE m.kind = "state" /\ m \in StateMessages
          <5>1. store' = ReduceFullState(store, m)
            BY <1>2, <4>1 DEF Reduce
          <5>2. m.epoch \in Nat /\ m.state.rev \in Nat
            BY <4>1 DEF StateMessages, Epochs, States
          <5>3. CASE StaleState(store, m)
            <6>1. store' = store
              BY <5>1, <5>3 DEF ReduceFullState
            <6>2. ObservedAfter(m) = observed
              <7>1. CASE /\ m.epoch = observed.epoch
                         /\ m.state.rev = observed.rev
                BY <2>1, <2>3, <4>1, <7>1 DEF ObservedAfter
              <7>2. CASE ~(/\ m.epoch = observed.epoch
                           /\ m.state.rev = observed.rev)
                BY <1>5, <2>3, <4>1, <5>2, <5>3, <7>2
                   DEF ObservedAfter, StaleState
              <7> QED BY <7>1, <7>2
            <6> QED BY <2>1, <2>3, <3>1, <6>1, <6>2 DEF NotBefore
          <5>4. CASE ~StaleState(store, m)
            <6>1. store'.epoch = m.epoch /\ store'.state = m.state
              BY <1>1, <5>1, <5>4 DEF ReduceFullState, Stores
            <6>2. \/ m.epoch > store.epoch
                  \/ m.epoch = store.epoch /\ m.state.rev > store.state.rev
              BY <2>3, <5>2, <5>4 DEF StaleState
            <6>3. ObservedAfter(m) = [epoch |-> m.epoch, rev |-> m.state.rev]
              BY <2>3, <4>1, <5>2, <6>2 DEF ObservedAfter
            <6> QED BY <2>3, <3>1, <5>2, <6>1, <6>2, <6>3 DEF NotBefore
          <5> QED BY <5>3, <5>4
        <4>2. CASE m.kind = "event" /\ m \in EventMessages
          <5>1. store' = ReduceEvent(store, m)
            BY <1>2, <4>2 DEF Reduce
          <5>2. m.type = "state" => m.state.rev \in Nat
            BY <4>2, EventCases DEF States
          <5>3. CASE /\ m.type = "state" /\ m.epoch = store.epoch
                     /\ m.state.rev = store.state.rev + 1
            <6>1. store'.epoch = store.epoch /\ store'.state = m.state
              BY <1>1, <2>3, <4>2, <5>1, <5>3, EventIs
            <6>2. ObservedAfter(m) = [observed EXCEPT !.rev = m.state.rev]
              BY <2>3, <4>2, <5>3 DEF ObservedAfter
            <6> QED BY <2>1, <2>3, <3>1, <5>2, <5>3, <6>1, <6>2 DEF NotBefore
          <5>4. CASE ~(/\ m.type = "state" /\ m.epoch = store.epoch
                       /\ m.state.rev = store.state.rev + 1)
            <6>1. ObservedAfter(m) = observed
              BY <2>3, <4>2, <5>4 DEF ObservedAfter
            <6>2. ~(/\ m.type = "state" /\ m.epoch = store.epoch
                    /\ m.state.rev > store.state.rev + 1)
              BY <2>3, <2>5, <4>2 DEF IsGap
            <6>3. store'.epoch = store.epoch /\ store'.state = store.state
              BY <1>1, <4>2, <5>1, <5>4, <6>2, EventIs
            <6> QED BY <2>1, <2>3, <3>1, <6>1, <6>3 DEF NotBefore
          <5> QED BY <5>3, <5>4
        <4>3. CASE m.kind = "error" /\ m \in ErrorMessages
          <5> DEFINE r == IF m.losesControl
                          THEN [store EXCEPT !.role = "readonly"] ELSE store
          <5>1. /\ r \in Stores /\ m.of \in SUBSET Commands
                /\ r.epoch = store.epoch /\ r.state = store.state
            BY <1>1, <4>3 DEF ErrorMessages, Stores, Roles
          <5>2. store' = FailCommand(r, m.of)
            BY <1>2, <4>3 DEF Reduce, ReduceError
          <5> HIDE DEF r
          <5>3. store'.epoch = store.epoch /\ store'.state = store.state
            BY <5>1, <5>2, FailIs
          <5>4. ObservedAfter(m) = observed
            BY <4>3 DEF ObservedAfter
          <5> QED BY <2>1, <2>3, <3>1, <5>3, <5>4 DEF NotBefore
        <4>4. CASE m.kind = "control" /\ m \in ControlMessages
          <5>1. store'.epoch = store.epoch /\ store'.state = store.state
            BY <1>1, <1>2, <4>4 DEF Reduce, Stores
          <5>2. ObservedAfter(m) = observed
            BY <4>4 DEF ObservedAfter
          <5> QED BY <2>1, <2>3, <3>1, <5>1, <5>2 DEF NotBefore
        <4> QED BY <1>1, <2>2, <4>1, <4>2, <4>3, <4>4, MessageCases
      <3>3. observed' # NoObservation /\ observed'.rev \in Nat
        BY <3>2 DEF NoObservation
      <3> QED BY <1>1, <1>2, <2>2, <3>1, <3>2, <3>3
              DEF Linked, Connected, ObserverAgrees
    <2> QED BY <2>4, <2>5
  <1> QED BY <1>4, <1>5

LEMMA LateLinks ==
    ASSUME TypeOK, Linked, ReceiveLate \/ UNCHANGED vars
    PROVE  Linked' /\ UNCHANGED <<observed, store>>
  <1>1. UNCHANGED <<mounted, sock, observed, store, up, down, lease>>
    BY DEF ReceiveLate, vars, pageVars, wireVars, serverVars
  <1> QED BY <1>1 DEF Linked, Connected, ObserverAgrees

LEMMA NextLinks ==
    ASSUME TypeOK, Linked, [Next]_vars
    PROVE  /\ Linked'
           /\ observed # NoObservation /\ observed' # NoObservation =>
                  NotBefore(store, store')
  <1>1. /\ store \in Stores /\ store.epoch \in Nat
        /\ observed # NoObservation => store.state.rev \in Nat
    BY DEF TypeOK, PageType, Linked, Connected, ObserverAgrees, Stores
  <1>2. CASE Lifecycle \/ RestartGateway
    BY <1>2, LifecycleLinks
  <1>3. CASE User \/ RenewFires
    BY <1>1, <1>3, UserLinks DEF NotBefore
  <1>4. CASE Accept
    BY <1>1, <1>4, AcceptLinks DEF NotBefore
  <1>5. CASE Receive
    BY <1>5, ReceiveLinks
  <1>6. CASE ReceiveLate \/ UNCHANGED vars
    BY <1>1, <1>6, LateLinks DEF NotBefore
  <1>7. CASE Gateway \/ Broadcast \/ Device \/ (Others /\ ~RestartGateway)
    <2>1. ServerStep
      BY <1>7, ServerLinks
    <2>2. store' = store
      BY <2>1 DEF ServerStep, pageVars
    <2> QED BY <1>1, <2>1, <2>2, ServerStepLinks DEF NotBefore
  <1> QED BY <1>2, <1>3, <1>4, <1>5, <1>6, <1>7 DEF Next

LEMMA InitLinks ==
    ASSUME Init
    PROVE  Linked
  BY DEF Init, Linked, Connected, ObserverAgrees, InitialStore

(* While a page observes a connection, the socket's pair and the store's   *)
(* are the same, whatever the order in which events, states, selections    *)
(* and errors come; only a page with a connection that said hello is       *)
(* online.  By the invariant Linked: the hello of a connection is its      *)
(* first message and comes once, so a page with no observation adopts a    *)
(* hello and nothing else; nothing is left of a connection that is gone.   *)
THEOREM PageIsAsObserved == Spec => []ObserverAgrees
  <1>1. Init => TypeOK /\ Linked
    BY TypeInit, InitLinks
  <1>2. TypeOK /\ Linked /\ [Next]_vars => (TypeOK /\ Linked)'
    BY TypeNext, NextLinks
  <1>3. Linked => ObserverAgrees
    BY DEF Linked
  <1> QED BY <1>1, <1>2, <1>3, PTL DEF Spec

(* While a connection lasts, no event, state or error that the page        *)
(* receives takes it back to an earlier selection or revision.             *)
THEOREM PageNeverGoesBack == Spec => NeverGoesBack
  <1>1. Init => TypeOK /\ Linked
    BY TypeInit, InitLinks
  <1>2. TypeOK /\ Linked /\ [Next]_vars => (TypeOK /\ Linked)'
    BY TypeNext, NextLinks
  <1>3. TypeOK /\ Linked /\ [Next]_vars =>
            [observed # NoObservation /\ observed' # NoObservation =>
                 NotBefore(store, store')]_vars
    BY NextLinks
  <1> QED BY <1>1, <1>2, <1>3, PTL DEF Spec, NeverGoesBack

-----------------------------------------------------------------------------
(***************************************************************************)
(* The lease of a page that follows its connection                         *)
(***************************************************************************)
WillRenew(armed, reqs, msgs) ==
    \/ armed
    \/ \E i \in DOMAIN reqs : reqs[i].kind = "renew"
    \/ \E i \in DOMAIN msgs : BringsLease(msgs[i])

LEMMA WillRenewKeeps ==
    ASSUME NEW armed \in BOOLEAN, NEW reqs \in Seq(Requests),
           NEW msgs \in Seq(Messages), WillRenew(armed, reqs, msgs)
    PROVE  /\ \A r \in Requests : WillRenew(armed, Append(reqs, r), msgs)
           /\ \A m \in Messages : WillRenew(armed, reqs, Append(msgs, m))
           /\ reqs # <<>> /\ Head(reqs).kind # "renew" =>
                  WillRenew(armed, Tail(reqs), msgs)
           /\ msgs # <<>> /\ ~BringsLease(Head(msgs)) =>
                  WillRenew(armed, reqs, Tail(msgs))
  <1>1. \A r \in Requests : WillRenew(armed, Append(reqs, r), msgs)
    BY DEF WillRenew
  <1>2. \A m \in Messages : WillRenew(armed, reqs, Append(msgs, m))
    BY DEF WillRenew, BringsLease
  <1>3. ASSUME reqs # <<>>, Head(reqs).kind # "renew"
        PROVE  WillRenew(armed, Tail(reqs), msgs)
    <2>1. ASSUME NEW i \in DOMAIN reqs, reqs[i].kind = "renew"
          PROVE  /\ i - 1 \in DOMAIN Tail(reqs)
                 /\ Tail(reqs)[i - 1] = reqs[i]
      BY <1>3, <2>1
    <2> QED BY <2>1 DEF WillRenew
  <1>4. ASSUME msgs # <<>>, ~BringsLease(Head(msgs))
        PROVE  WillRenew(armed, reqs, Tail(msgs))
    <2>1. ASSUME NEW i \in DOMAIN msgs, BringsLease(msgs[i])
          PROVE  /\ i - 1 \in DOMAIN Tail(msgs)
                 /\ Tail(msgs)[i - 1] = msgs[i]
      <3>1. i # 1
        BY <1>4, <2>1
      <3> QED BY <1>4, <3>1
    <2> QED BY <2>1 DEF WillRenew
  <1> QED BY <1>1, <1>2, <1>3, <1>4

LEMMA WillRenewBrings ==
    ASSUME NEW armed, NEW reqs, NEW msgs \in Seq(Messages), NEW m \in Messages,
           BringsLease(m)
    PROVE  WillRenew(armed, reqs, Append(msgs, m))
  <1>1. /\ Len(msgs) + 1 \in DOMAIN Append(msgs, m)
        /\ Append(msgs, m)[Len(msgs) + 1] = m
    OBVIOUS
  <1> QED BY <1>1 DEF WillRenew

LEMMA RenewsIs ==
    ControllerRenews <=>
        (store.role = "controller" /\ sock = "open" /\ observed # NoObservation
             => WillRenew(renew, up, down))
  BY DEF ControllerRenews, WillRenew

LEMMA RenewsReceive ==
    ASSUME TypeOK, Linked, ControllerRenews, Receive,
           store'.role = "controller", sock' = "open"
    PROVE  WillRenew(renew', up', down')
  <1> DEFINE m == Head(down)
  <1>1. /\ store \in Stores /\ m \in Messages /\ renew \in BOOLEAN
        /\ up \in Seq(Requests) /\ down \in Seq(Messages) /\ down # <<>>
        /\ sock = "open"
    BY SeqTypes DEF Receive, TypeOK, PageType, WireType
  <1>2. /\ store' = Reduce(store, m)
        /\ renew' = (renew \/ BringsLease(m))
    BY DEF Receive, Show, RenewArmed
  <1>3. down' = Tail(down) /\ up' = up
    BY DEF Receive
  <1>4. CASE BringsLease(m)
    BY <1>2, <1>4 DEF WillRenew
  <1>5. CASE ~BringsLease(m)
    <2>1. store.role = "controller" /\ renew' = renew
      BY <1>1, <1>2, <1>5, ReduceRole
    <2>2. observed # NoObservation
      <3>1. observed = NoObservation => m.kind = "hello"
        BY <1>1, HelloLemmas DEF Linked, Connected
      <3> QED BY <1>5, <3>1 DEF BringsLease
    <2>3. WillRenew(renew, up, down)
      BY <1>1, <2>1, <2>2, RenewsIs
    <2>4. WillRenew(renew, up, Tail(down))
      BY <1>1, <1>5, <2>3, WillRenewKeeps
    <2> QED BY <1>3, <2>1, <2>4
  <1> QED BY <1>4, <1>5

LEMMA RenewsServer ==
    ASSUME TypeOK, ServerStep, WillRenew(renew, up, down),
           Gateway \/ Broadcast \/ Device \/ (Others /\ ~RestartGateway)
    PROVE  WillRenew(renew', up', down')
  <1>1. /\ renew \in BOOLEAN /\ up \in Seq(Requests)
        /\ down \in Seq(Messages) /\ renew' = renew
    BY DEF TypeOK, PageType, WireType, ServerStep, pageVars
  <1>2. CASE HandleRenew
    <2>1. PICK m \in {ControlMessage("controller"), ErrorMessage({}, TRUE)} :
             Reply(<<m>>)
      BY <1>2 DEF HandleRenew
    <2>2. m \in Messages /\ BringsLease(m)
      <3>1. /\ ControlMessage("controller") \in Messages
            /\ ErrorMessage({}, TRUE) \in Messages
        BY MessagesAreMessages DEF Roles
      <3>2. /\ BringsLease(ControlMessage("controller"))
            /\ BringsLease(ErrorMessage({}, TRUE))
        BY DEF BringsLease, ControlMessage, ErrorMessage
      <3> QED BY <3>1, <3>2
    <2>3. down' = Append(down, m)
      BY <2>1, <2>2, ReplyIsAppend
    <2> QED BY <1>1, <2>2, <2>3, WillRenewBrings
  <1>3. CASE ~HandleRenew
    <2>1. \/ up' = up
          \/ up # <<>> /\ Head(up).kind # "renew" /\ up' = Tail(up)
      <3>1. AtDevice => up' = up
        BY DeviceSteps DEF DeviceKeeps, wireVars
      <3> QED BY <1>3, <3>1 DEF Gateway, HandleCommand, HandleAcquire,
              HandleSelect, Broadcast, AtDevice, Others, TakeOver, Expire,
              OtherLeaves, OtherSelects, wireVars
    <2>2. WillRenew(renew, up', down) /\ up' \in Seq(Requests)
      BY <1>1, <2>1, SeqTypes, WillRenewKeeps
    <2> DEFINE u == up'
    <2>3. \/ down' = down
          \/ \E m \in Messages : down' = Append(down, m)
      BY DEF ServerStep
    <2> HIDE DEF u
    <2>4. WillRenew(renew, u, down) /\ u \in Seq(Requests)
      BY <2>2 DEF u
    <2>5. WillRenew(renew, u, down')
      BY <1>1, <2>3, <2>4, WillRenewKeeps
    <2> QED BY <1>1, <2>5 DEF u
  <1> QED BY <1>2, <1>3

LEMMA RenewsUser ==
    ASSUME TypeOK, WillRenew(renew, up, down), User \/ RenewFires, sock = "open"
    PROVE  WillRenew(renew', up', down)
  <1>1. /\ renew \in BOOLEAN /\ up \in Seq(Requests) /\ down \in Seq(Messages)
    BY DEF TypeOK, PageType, WireType
  <1>2. CASE RenewFires
    <2>1. up' = Append(up, [kind |-> "renew"])
      BY <1>2 DEF RenewFires, Send
    <2>2. /\ Len(up) + 1 \in DOMAIN Append(up, [kind |-> "renew"])
          /\ Append(up, [kind |-> "renew"])[Len(up) + 1].kind = "renew"
      BY <1>1
    <2> QED BY <2>1, <2>2 DEF WillRenew
  <1>3. CASE User
    <2>1. renew' = renew
      BY <1>3 DEF User, Click, AskMove, AnswerMove, ClickAcquire, ClickSelect
    <2>2. up' = up \/ \E r \in Requests : up' = Append(up, r)
      <3>1. ASSUME NEW c \in Commands, SendCommand(c)
            PROVE  \E r \in Requests : up' = Append(up, r)
        <4>1. [kind |-> "command", of |-> c, epoch |-> store.epoch] \in Requests
          BY DEF Requests, TypeOK, PageType, Stores
        <4> QED BY <3>1, <4>1 DEF SendCommand, Send
      <3>2. /\ [kind |-> "acquire"] \in Requests
            /\ [kind |-> "select"] \in Requests
        BY DEF Requests
      <3>3. \A c \in asked.of : c \in Commands
        BY DEF TypeOK, PageType, Commands
      <3> QED BY <1>3, <3>1, <3>2, <3>3 DEF User, Click, AskMove, AnswerMove,
              ClickAcquire, ClickSelect, Send, wireVars
    <2>3. WillRenew(renew, up', down)
      BY <1>1, <2>2, WillRenewKeeps
    <2> QED BY <2>1, <2>3
  <1> QED BY <1>2, <1>3

LEMMA RenewsNext ==
    ASSUME TypeOK, Linked, ControllerRenews, [Next]_vars
    PROVE  ControllerRenews'
  <1> SUFFICES ASSUME store'.role = "controller", sock' = "open",
                      observed' # NoObservation
               PROVE  WillRenew(renew', up', down')
    BY DEF ControllerRenews, WillRenew
  <1>1. CASE Receive
    BY <1>1, RenewsReceive
  <1>2. ~(Lifecycle \/ RestartGateway)
    BY LifecycleLinks
  <1>3. ~Accept
    BY AcceptLinks DEF Accept, Linked, Connected
  <1>4. CASE User \/ RenewFires
    <2>1. /\ UNCHANGED <<observed, down>> /\ store'.role = store.role
          /\ sock' = sock
      BY <1>4, UserLinks DEF User, Click, AskMove, AnswerMove, ClickAcquire,
         ClickSelect, RenewFires, Sending
    <2>2. WillRenew(renew, up, down) /\ sock = "open"
      BY <2>1, RenewsIs
    <2> QED BY <1>4, <2>1, <2>2, RenewsUser
  <1>5. CASE ReceiveLate \/ UNCHANGED vars
    <2>1. UNCHANGED <<sock, observed, store, renew, up, down>>
      BY <1>5 DEF ReceiveLate, vars, pageVars, wireVars
    <2>2. WillRenew(renew, up, down)
      BY <2>1, RenewsIs
    <2> QED BY <2>1, <2>2
  <1>6. CASE Gateway \/ Broadcast \/ Device \/ (Others /\ ~RestartGateway)
    <2>1. ServerStep
      BY <1>6, ServerLinks
    <2>2. WillRenew(renew, up, down)
      BY <2>1, RenewsIs DEF ServerStep, pageVars
    <2> QED BY <1>6, <2>1, <2>2, RenewsServer
  <1> QED BY <1>1, <1>2, <1>3, <1>4, <1>5, <1>6 DEF Next

(* A page that believes it has control of a connection it follows always   *)
(* has its renewal armed, on its way, or the answer to one coming: no      *)
(* order of takeovers, refusals and renewals lets it hold on to a lease it *)
(* no longer keeps alive.                                                  *)
THEOREM ControlIsRenewed == Spec => []ControllerRenews
  <1>1. Init => TypeOK /\ Linked /\ ControllerRenews
    BY TypeInit, InitLinks DEF Init, ControllerRenews, InitialStore
  <1>2. TypeOK /\ Linked /\ ControllerRenews /\ [Next]_vars =>
            (TypeOK /\ Linked /\ ControllerRenews)'
    BY TypeNext, NextLinks, RenewsNext
  <1> QED BY <1>1, <1>2, PTL DEF Spec

-----------------------------------------------------------------------------
(* The dialog that asks about a move is gone when another selection is     *)
(* shown, so a move is never confirmed for a target it was not asked for.  *)
THEOREM AskedAboutWhatIsShown == Spec => []AskedIsShown
  <1>1. Init => TypeOK /\ AskedIsShown
    BY TypeInit DEF Init, AskedIsShown
  <1>2. ASSUME TypeOK, AskedIsShown, [Next]_vars
        PROVE  AskedIsShown'
    <2>1. CASE \E s, newLease : Show(s, newLease)
      BY <1>2, <2>1 DEF Show, AskedIsShown
    <2>2. CASE \E c \in Motions : AskMove(c)
      BY <2>2 DEF AskMove, AskedIsShown
    <2>3. CASE asked' = NoMove
      BY <2>3 DEF AskedIsShown
    <2>4. CASE asked' = asked /\ store'.epoch = store.epoch
      BY <1>2, <2>4 DEF AskedIsShown
    <2>5. CASE Lifecycle \/ RestartGateway \/ Receive
      BY <2>1, <2>3, <2>5 DEF Lifecycle, Mount, Reload, OpenSocket, OpenFails,
         SocketLost, RestartGateway, Receive
    <2>6. CASE User \/ RenewFires
      <3>1. ASSUME NEW c \in Commands
            PROVE  AddLocalCommand(store, c).epoch = store.epoch
        BY <1>2, ConnectionOf DEF TypeOK, PageType
      <3> QED BY <2>2, <2>3, <2>4, <2>6, <3>1 DEF User, Click, AnswerMove,
              ClickAcquire, ClickSelect, RenewFires, SendCommand
    <2>7. CASE \/ Accept \/ ReceiveLate \/ Gateway \/ Broadcast \/ Device
               \/ (Others /\ ~RestartGateway) \/ UNCHANGED vars
      <3>1. AtDevice => UNCHANGED pageVars
        BY <1>2, DeviceSteps DEF DeviceKeeps
      <3> QED BY <2>4, <2>7, <3>1 DEF Accept, ReceiveLate, Gateway,
              HandleCommand, HandleRenew, HandleAcquire, HandleSelect,
              ServerKeeps, Broadcast, AtDevice, Others, TakeOver, Expire,
              OtherLeaves, OtherSelects, vars, pageVars
    <2> QED BY <1>2, <2>5, <2>6, <2>7 DEF Next
  <1> QED BY <1>1, <1>2, TypeNext, PTL DEF Spec

-----------------------------------------------------------------------------
(***************************************************************************)
(* What is said of commands                                                *)
(***************************************************************************)
LEMMA TruthLasts ==
    ASSUME NEW jobs, NEW next, GoesOn(jobs, next), NEW msgs \in Seq(Messages),
           AllTrue(msgs, jobs)
    PROVE  AllTrue(msgs, next)
  <1>1. ASSUME NEW m \in Messages, IsTrue(m, jobs)
        PROVE  IsTrue(m, next)
    <2>1. CASE m.kind = "event" /\ m \in EventMessages
      <3>1. m.of \subseteq Commands
        BY <2>1, EventCases
      <3> QED BY <1>1, <2>1, <3>1 DEF IsTrue, GoesOn
    <2>2. CASE m.kind = "error" /\ m \in ErrorMessages
      <3>1. m.of \subseteq Commands
        BY <2>2 DEF ErrorMessages
      <3> QED BY <1>1, <2>2, <3>1 DEF IsTrue, GoesOn
    <2>3. CASE m.kind # "event" /\ m.kind # "error"
      BY <2>3 DEF IsTrue
    <2> QED BY <2>1, <2>2, <2>3, MessageCases
  <1>2. \A i \in DOMAIN msgs : msgs[i] \in Messages
    OBVIOUS
  <1> QED BY <1>1, <1>2 DEF AllTrue

LEMMA TruthOf ==
    ASSUME NEW jobs, NEW S, NEW msgs \in Seq(S), AllTrue(msgs, jobs)
    PROVE  /\ \A m \in S : IsTrue(m, jobs) => AllTrue(Append(msgs, m), jobs)
           /\ msgs # <<>> => IsTrue(Head(msgs), jobs)
                             /\ AllTrue(Tail(msgs), jobs)
  <1>1. ASSUME NEW m \in S, IsTrue(m, jobs)
        PROVE  AllTrue(Append(msgs, m), jobs)
    <2>1. \A i \in DOMAIN Append(msgs, m) :
              Append(msgs, m)[i] = m \/ (i \in DOMAIN msgs
                                         /\ Append(msgs, m)[i] = msgs[i])
      OBVIOUS
    <2> QED BY <1>1, <2>1 DEF AllTrue
  <1>2. ASSUME msgs # <<>>
        PROVE  IsTrue(Head(msgs), jobs) /\ AllTrue(Tail(msgs), jobs)
    <2>1. 1 \in DOMAIN msgs /\ Head(msgs) = msgs[1]
      BY <1>2
    <2>2. \A i \in DOMAIN Tail(msgs) : /\ i + 1 \in DOMAIN msgs
                                       /\ Tail(msgs)[i] = msgs[i + 1]
      BY <1>2
    <2> QED BY <2>1, <2>2 DEF AllTrue
  <1> QED BY <1>1, <1>2

LEMMA OnItsWayKeeps ==
    ASSUME NEW jobs \in [Commands -> Jobs], NEW reqs \in Seq(Requests),
           OnItsWay(reqs, jobs)
    PROVE  /\ reqs # <<>> => OnItsWay(Tail(reqs), jobs)
           /\ \A r \in Requests : r.kind # "command" =>
                  OnItsWay(Append(reqs, r), jobs)
           /\ reqs # <<>> /\ Head(reqs).kind = "command" =>
                  \A next \in [Commands -> Jobs] :
                      (\A d \in Commands : d # Head(reqs).of
                           /\ jobs[d].at = "sent" => next[d] = jobs[d])
                      => OnItsWay(Tail(reqs), next)
           /\ \A c \in Commands, e \in Nat : jobs[c].at = "new" =>
                  OnItsWay(Append(reqs, [kind |-> "command", of |-> c,
                                         epoch |-> e]),
                           [jobs EXCEPT ![c].at = "sent"])
           /\ \A next \in [Commands -> Jobs] :
                  Untouched(jobs, next) => OnItsWay(reqs, next)
  <1>1. \A i \in DOMAIN reqs : /\ reqs[i] \in Requests
                               /\ reqs[i].kind = "command" =>
                                      reqs[i].of \in Commands
    BY DEF Requests
  <1>2. \A i \in DOMAIN Tail(reqs) : reqs # <<>> =>
            i + 1 \in DOMAIN reqs /\ i + 1 # 1 /\ Tail(reqs)[i] = reqs[i + 1]
    OBVIOUS
  <1>3. reqs # <<>> => OnItsWay(Tail(reqs), jobs)
    BY <1>2 DEF OnItsWay
  <1>4. \A r \in Requests : r.kind # "command" => OnItsWay(Append(reqs, r), jobs)
    <2>1. \A r, i : i \in DOMAIN Append(reqs, r) =>
              \/ Append(reqs, r)[i] = r
              \/ i \in DOMAIN reqs /\ Append(reqs, r)[i] = reqs[i]
      OBVIOUS
    <2> QED BY <2>1 DEF OnItsWay
  <1>5. ASSUME reqs # <<>>, Head(reqs).kind = "command",
               NEW next \in [Commands -> Jobs],
               \A d \in Commands : d # Head(reqs).of /\ jobs[d].at = "sent" =>
                                       next[d] = jobs[d]
        PROVE  OnItsWay(Tail(reqs), next)
    <2>1. 1 \in DOMAIN reqs /\ reqs[1] = Head(reqs)
      BY <1>5
    <2>2. \A i \in DOMAIN Tail(reqs) : Tail(reqs)[i].kind = "command" =>
              Tail(reqs)[i].of # Head(reqs).of
      BY <1>2, <1>5, <2>1 DEF OnItsWay
    <2>3. OnItsWay(Tail(reqs), jobs)
      BY <1>3, <1>5
    <2>4. \A i \in DOMAIN Tail(reqs) : Tail(reqs)[i].kind = "command" =>
              Tail(reqs)[i].of \in Commands
      BY <1>1, <1>2, <1>5
    <2>5. \A i \in DOMAIN Tail(reqs) : Tail(reqs)[i].kind = "command" =>
              next[Tail(reqs)[i].of] = jobs[Tail(reqs)[i].of]
      BY <1>5, <2>2, <2>3, <2>4 DEF OnItsWay
    <2> QED BY <2>3, <2>5 DEF OnItsWay
  <1>6. ASSUME NEW c \in Commands, NEW e \in Nat, jobs[c].at = "new"
        PROVE  OnItsWay(Append(reqs, [kind |-> "command", of |-> c,
                                      epoch |-> e]),
                        [jobs EXCEPT ![c].at = "sent"])
    <2> DEFINE r == [kind |-> "command", of |-> c, epoch |-> e]
               next == [jobs EXCEPT ![c].at = "sent"]
    <2>1. \A i \in DOMAIN Append(reqs, r) :
              \/ i = Len(reqs) + 1 /\ Append(reqs, r)[i] = r
              \/ i \in DOMAIN reqs /\ Append(reqs, r)[i] = reqs[i]
                 /\ i # Len(reqs) + 1
      OBVIOUS
    <2>2. \A i \in DOMAIN reqs : reqs[i].kind = "command" => reqs[i].of # c
      BY <1>6 DEF OnItsWay
    <2>3. r.of = c /\ r.kind = "command"
      OBVIOUS
    <2>4. /\ next[c].at = "sent" /\ ~next[c].unheard
          /\ \A d \in Commands : d # c => next[d] = jobs[d]
      BY <1>6 DEF Jobs
    <2> HIDE DEF r, next
    <2>5. OnItsWay(Append(reqs, r), next)
      BY <1>1, <2>1, <2>2, <2>3, <2>4 DEF OnItsWay
    <2> QED BY <2>5 DEF r, next
  <1>7. \A next \in [Commands -> Jobs] :
            Untouched(jobs, next) => OnItsWay(reqs, next)
    BY <1>1 DEF OnItsWay, Untouched
  <1> QED BY <1>3, <1>4, <1>5, <1>6, <1>7

LEMMA TruthKept ==
    ASSUME TypeOK, Truthful, GoesOn(job, job')
    PROVE  /\ AllTrue(down, job') /\ AllTrue(routed, job')
           /\ down \in Seq(Messages) /\ routed \in Seq(EventMessages)
           /\ up \in Seq(Requests) /\ job \in [Commands -> Jobs]
           /\ OnItsWay(up, job)
  <1>1. down \in Seq(Messages) /\ up \in Seq(Requests)
    BY DEF TypeOK, WireType
  <1>2. routed \in Seq(EventMessages) /\ job \in [Commands -> Jobs]
    BY DEF TypeOK, ServerType
  <1>3. routed \in Seq(Messages)
    BY <1>2, MessagesAreMessages
  <1> QED BY <1>1, <1>2, <1>3, TruthLasts DEF Truthful

(* A message more for the page, or for the hub to send.                    *)
LEMMA TrueReply ==
    ASSUME TypeOK, Truthful, GoesOn(job, job'), NEW m \in Messages,
           IsTrue(m, job'), Reply(<<m>>)
    PROVE  AllTrue(down', job')
  BY TruthKept, TruthOf, ReplyIsAppend

LEMMA TruthCommand ==
    ASSUME TypeOK, Truthful, HandleCommand
    PROVE  Truthful' /\ GoesOn(job, job')
  <1> DEFINE c == Head(up).of
  <1>1. /\ c \in Commands /\ up # <<>> /\ up' = Tail(up)
        /\ Head(up).kind = "command" /\ up \in Seq(Requests)
        /\ job' \in [Commands -> Jobs]
        /\ \A d \in Commands : d # c =>
             /\ Over(d, job) => Over(d, job')
             /\ Undone(d, job) => Undone(d, job')
             /\ job[d].at = "sent" => job'[d] = job[d]
        /\ Tells(job[c].at = "sent")
        /\ \/ down' = down
           \/ /\ Undone(c, job')
              /\ \E b \in BOOLEAN : Reply(<<ErrorMessage({c}, b)>>)
    BY CommandSteps
  <1>2. job \in [Commands -> Jobs] /\ OnItsWay(up, job)
    BY DEF TypeOK, ServerType, Truthful
  <1>3. job[c].at = "sent" /\ ~job[c].unheard
    <2>1. 1 \in DOMAIN up /\ up[1] = Head(up)
      BY <1>1
    <2> QED BY <1>1, <1>2, <2>1 DEF OnItsWay
  <1>4. OnItsWay(up', job')
    BY <1>1, <1>2, OnItsWayKeeps
  <1> HIDE DEF c
  <1>5. GoesOn(job, job')
    BY <1>1, <1>3 DEF GoesOn, Over, Undone
  <1>6. AllTrue(down, job') /\ AllTrue(routed, job')
    BY <1>5, TruthKept
  <1>7. AllTrue(routed', job')
    BY <1>1, <1>3, <1>6, TellsIs DEF TypeOK
  <1>8. AllTrue(down', job')
    <2>1. CASE down' = down
      BY <1>6, <2>1
    <2>2. ASSUME Undone(c, job'), NEW b \in BOOLEAN, Reply(<<ErrorMessage({c}, b)>>)
          PROVE  AllTrue(down', job')
      <3>1. ErrorMessage({c}, b) \in Messages /\ IsTrue(ErrorMessage({c}, b), job')
        BY <1>1, <2>2, MessagesAreMessages, TrueMessages
      <3> QED BY <1>5, <2>2, <3>1, TrueReply
    <2> QED BY <1>1, <2>1, <2>2
  <1> QED BY <1>4, <1>5, <1>7, <1>8 DEF Truthful

(* The page is told something that is about no command.                    *)
LEMMA TruthAnswers ==
    ASSUME TypeOK, Truthful,
           \/ HandleRenew \/ HandleAcquire \/ HandleSelect \/ OtherSelects
           \/ TakeOver \/ Expire \/ OtherLeaves \/ Accept
    PROVE  Truthful' /\ job' = job
  <1>1. job' = job /\ routed' = routed
    BY DEF HandleRenew, HandleAcquire, HandleSelect, OtherSelects, ServerKeeps,
       TakeOver, Expire, OtherLeaves, Accept
  <1>2. up' = up \/ (up # <<>> /\ up' = Tail(up))
    BY DEF HandleRenew, HandleAcquire, HandleSelect, OtherSelects, TakeOver,
       Expire, OtherLeaves, Accept, wireVars
  <1>3. /\ job \in [Commands -> Jobs] /\ up \in Seq(Requests)
        /\ OnItsWay(up, job) /\ GoesOn(job, job')
    BY <1>1 DEF TypeOK, WireType, ServerType, Truthful, GoesOn
  <1>4. OnItsWay(up', job')
    BY <1>1, <1>2, <1>3, OnItsWayKeeps
  <1>5. \/ down' = down
        \/ \E m \in Messages : IsTrue(m, job') /\ Reply(<<m>>)
    <2>1. device.epoch \in Epochs /\ DeviceState \in States
      BY DeviceTypes DEF TypeOK
    <2>2. CASE HandleRenew \/ HandleAcquire \/ TakeOver
      <3>1. \E m \in {ControlMessage("controller"), ControlMessage("readonly"),
                      ErrorMessage({}, TRUE)} : Reply(<<m>>)
        BY <2>2 DEF HandleRenew, HandleAcquire, TakeOver
      <3>2. /\ ControlMessage("controller") \in Messages
            /\ ControlMessage("readonly") \in Messages
            /\ ErrorMessage({}, TRUE) \in Messages
        BY MessagesAreMessages DEF Roles
      <3> QED BY <3>1, <3>2, TrueMessages
    <2>3. ASSUME Select
          PROVE  \/ down' = down
                 \/ \E m \in Messages : IsTrue(m, job') /\ Reply(<<m>>)
      <3>1. PICK r \in {0, MaxRevision - 1} :
              /\ device' = [FirstDevice EXCEPT !.epoch = device.epoch + 1,
                                               !.rev = r]
              /\ IF sock = "open"
                   THEN Reply(<<StateMessage(device'.epoch,
                                  [rev |-> r, busy |-> FALSE])>>)
                   ELSE UNCHANGED down
        BY <2>3 DEF Select
      <3> DEFINE m == StateMessage(device.epoch + 1, [rev |-> r, busy |-> FALSE])
      <3>2. r \in Nat /\ device.epoch + 1 \in Epochs
        BY <2>1, PageAssumption DEF Epochs
      <3>3. m \in Messages /\ IsTrue(m, job')
        BY <3>2, MessagesAreMessages, TrueMessages DEF States
      <3>4. device'.epoch = device.epoch + 1
        BY <3>1 DEF FirstDevice
      <3>5. Reply(<<m>>) \/ down' = down
        BY <3>1, <3>4
      <3> HIDE DEF m
      <3> QED BY <3>3, <3>5
    <2>4. CASE HandleSelect \/ OtherSelects
      <3>1. \/ Select
            \/ Reply(<<StateMessage(device.epoch, DeviceState)>>)
            \/ \E b \in BOOLEAN : Reply(<<ErrorMessage({}, b)>>)
        BY <2>4 DEF HandleSelect, OtherSelects
      <3>2. /\ StateMessage(device.epoch, DeviceState) \in Messages
            /\ IsTrue(StateMessage(device.epoch, DeviceState), job')
            /\ \A b \in BOOLEAN : /\ ErrorMessage({}, b) \in Messages
                                  /\ IsTrue(ErrorMessage({}, b), job')
        BY <2>1, MessagesAreMessages, TrueMessages
      <3> QED BY <2>3, <3>1, <3>2
    <2>5. CASE Accept
      <3>1. PICK r \in Roles :
              Reply(<<HelloMessage(device.epoch, DeviceState, r)>>)
        BY <2>5 DEF Accept, Roles
      <3>2. /\ HelloMessage(device.epoch, DeviceState, r) \in Messages
            /\ IsTrue(HelloMessage(device.epoch, DeviceState, r), job')
        BY <2>1, MessagesAreMessages, TrueMessages
      <3> QED BY <3>1, <3>2
    <2>6. CASE Expire \/ OtherLeaves
      BY <2>6 DEF Expire, OtherLeaves, wireVars
    <2> QED BY <2>2, <2>4, <2>5, <2>6
  <1>6. AllTrue(down', job')
    BY <1>3, <1>5, TruthKept, TrueReply
  <1> QED BY <1>1, <1>4, <1>6 DEF Truthful

LEMMA TruthDevice ==
    ASSUME TypeOK, Truthful, AtDevice
    PROVE  Truthful' /\ GoesOn(job, job')
  <1>1. /\ job' \in [Commands -> Jobs] /\ GoesOn(job, job')
        /\ Untouched(job, job') /\ Tells(TRUE) /\ UNCHANGED <<up, down>>
    BY DeviceSteps DEF DeviceKeeps, DeviceGoesOn, wireVars
  <1>2. /\ AllTrue(down, job') /\ AllTrue(routed, job')
        /\ up \in Seq(Requests) /\ job \in [Commands -> Jobs]
        /\ OnItsWay(up, job)
    BY <1>1, TruthKept
  <1>3. OnItsWay(up', job')
    BY <1>1, <1>2, OnItsWayKeeps
  <1>4. AllTrue(routed', job')
    BY <1>1, <1>2, TellsIs DEF TypeOK
  <1> QED BY <1>1, <1>2, <1>3, <1>4 DEF Truthful

LEMMA TruthBroadcast ==
    ASSUME TypeOK, Truthful, Broadcast
    PROVE  Truthful' /\ job' = job
  <1>1. UNCHANGED <<job, up>>
    BY DEF Broadcast
  <1>2. /\ GoesOn(job, job') /\ OnItsWay(up', job')
        /\ AllTrue(down, job') /\ AllTrue(routed, job')
        /\ down \in Seq(Messages) /\ routed \in Seq(EventMessages)
    BY <1>1 DEF GoesOn, Truthful, TypeOK, WireType, ServerType
  <1>3. /\ Head(routed) \in EventMessages /\ IsTrue(Head(routed), job')
        /\ AllTrue(Tail(routed), job') /\ routed' = Tail(routed)
    BY <1>2, SeqTypes, TruthOf DEF Broadcast
  <1>4. Head(routed) \in Messages
    BY <1>3, MessagesAreMessages
  <1>5. down' = down \/ Reply(<<Head(routed)>>)
    BY DEF Broadcast
  <1>6. AllTrue(down', job')
    BY <1>2, <1>3, <1>4, <1>5, TrueReply
  <1> QED BY <1>1, <1>2, <1>3, <1>6 DEF Truthful

LEMMA TruthPage ==
    ASSUME TypeOK, Truthful,
           \/ Lifecycle \/ RestartGateway \/ Receive \/ ReceiveLate
           \/ UNCHANGED vars
    PROVE  Truthful' /\ GoesOn(job, job')
  <1>1. /\ down \in Seq(Messages) /\ routed \in Seq(EventMessages)
        /\ up \in Seq(Requests) /\ job \in [Commands -> Jobs]
    BY DEF TypeOK, WireType, ServerType
  <1>2. \A jobs : /\ OnItsWay(<<>>, jobs) /\ AllTrue(<<>>, jobs)
    BY DEF OnItsWay, AllTrue
  <1>3. CASE Lifecycle \/ Receive \/ ReceiveLate \/ UNCHANGED vars
    <2>1. UNCHANGED <<job, routed>>
      BY <1>3 DEF Lifecycle, Mount, Reload, OpenSocket, OpenFails, SocketLost,
         Receive, ReceiveLate, vars, serverVars
    <2>2. up' = up \/ up' = <<>>
      BY <1>3 DEF Lifecycle, Mount, Reload, OpenSocket, OpenFails, SocketLost,
         Receive, ReceiveLate, SessionEnds, vars, wireVars
    <2>3. down' = down \/ (down # <<>> /\ down' = Tail(down)) \/ down' = <<>>
      BY <1>3 DEF Lifecycle, Mount, Reload, OpenSocket, OpenFails, SocketLost,
         Receive, ReceiveLate, SessionEnds, vars, wireVars
    <2>4. AllTrue(down', job)
      BY <1>1, <1>2, <2>3, TruthOf DEF Truthful
    <2> QED BY <1>2, <2>1, <2>2, <2>4 DEF Truthful, GoesOn
  <1>4. CASE RestartGateway
    <2>1. /\ up' = <<>> /\ down' = <<>> /\ routed' = <<>>
          /\ job' = [c \in Commands |->
                       IF c \in Unfinished THEN [job[c] EXCEPT !.at = "failed"]
                       ELSE job[c]]
      BY <1>4 DEF RestartGateway, SessionEnds
    <2>2. GoesOn(job, job')
      <3>1. ASSUME NEW c \in Commands
            PROVE  /\ Over(c, job) => Over(c, job')
                   /\ Undone(c, job) => Undone(c, job')
        <4>1. CASE c \in Unfinished
          <5>1. job'[c].at = "failed" /\ job[c].at \in {"queued", "running"}
            BY <1>1, <2>1, <4>1 DEF Unfinished, Jobs
          <5> QED BY <5>1 DEF Over, Undone
        <4>2. CASE c \notin Unfinished
          BY <2>1, <4>2 DEF Over, Undone
        <4> QED BY <4>1, <4>2
      <3> QED BY <3>1 DEF GoesOn
    <2> QED BY <1>2, <2>1, <2>2 DEF Truthful
  <1> QED BY <1>3, <1>4

LEMMA TruthUser ==
    ASSUME TypeOK, Truthful, User \/ RenewFires
    PROVE  Truthful' /\ GoesOn(job, job')
  <1>1. /\ down \in Seq(Messages) /\ routed \in Seq(EventMessages)
        /\ up \in Seq(Requests) /\ job \in [Commands -> Jobs]
        /\ OnItsWay(up, job) /\ store.epoch \in Nat
        /\ \A c \in asked.of : c \in Commands
    BY DEF TypeOK, PageType, WireType, ServerType, Truthful, Stores, Commands
  <1>2. UNCHANGED <<down, routed>>
    BY DEF User, Click, AskMove, AnswerMove, ClickAcquire, ClickSelect,
       RenewFires, Sending, wireVars, serverVars
  <1>3. ASSUME GoesOn(job, job'), OnItsWay(up', job')
        PROVE  Truthful' /\ GoesOn(job, job')
    BY <1>2, <1>3, TruthKept DEF Truthful
  <1>4. ASSUME NEW c \in Commands, job[c].at = "new", SendCommand(c)
        PROVE  Truthful' /\ GoesOn(job, job')
    <2>1. /\ job' = [job EXCEPT ![c].at = "sent"]
          /\ up' = Append(up, [kind |-> "command", of |-> c,
                               epoch |-> store.epoch])
      BY <1>4 DEF SendCommand, Send
    <2>2. /\ job'[c].unheard = job[c].unheard
          /\ \A d \in Commands : d # c => job'[d] = job[d]
      BY <1>1, <2>1 DEF Jobs
    <2>3. GoesOn(job, job')
      BY <1>1, <1>4, <2>2 DEF GoesOn, Over, Undone
    <2>4. OnItsWay(up', job')
      BY <1>1, <1>4, <2>1, OnItsWayKeeps
    <2> QED BY <1>3, <2>3, <2>4
  <1>5. ASSUME job' = job,
               up' = up \/ \E r \in Requests : /\ r.kind # "command"
                                               /\ up' = Append(up, r)
        PROVE  Truthful' /\ GoesOn(job, job')
    <2>1. GoesOn(job, job') /\ OnItsWay(up', job')
      BY <1>1, <1>5, OnItsWayKeeps DEF GoesOn
    <2> QED BY <1>3, <2>1
  <1>6. \A k \in {"acquire", "select", "renew"} :
            [kind |-> k] \in Requests /\ [kind |-> k].kind # "command"
    BY DEF Requests
  <1>7. \/ \E c \in Commands : job[c].at = "new" /\ SendCommand(c)
        \/ /\ job' = job
           /\ up' = up \/ \E k \in {"acquire", "select", "renew"} :
                              up' = Append(up, [kind |-> k])
    BY <1>1 DEF User, Click, AskMove, AnswerMove, ClickAcquire, ClickSelect,
       RenewFires, Send, wireVars, serverVars
  <1> QED BY <1>4, <1>5, <1>6, <1>7

LEMMA TruthNext ==
    ASSUME TypeOK, Truthful, [Next]_vars
    PROVE  Truthful' /\ GoesOn(job, job')
  <1>1. job' = job => GoesOn(job, job')
    BY DEF GoesOn
  <1> QED BY <1>1, TruthCommand, TruthAnswers, TruthDevice, TruthBroadcast,
          TruthPage, TruthUser DEF Next, Gateway, Others, AtDevice

LEMMA ShownNext ==
    ASSUME TypeOK, Truthful, ShownOutcomeIsTrue, [Next]_vars
    PROVE  ShownOutcomeIsTrue'
  <1>1. /\ store \in Stores /\ down \in Seq(Messages)
        /\ \A c \in asked.of : c \in Commands
    BY DEF TypeOK, PageType, WireType, Commands
  <1>2. SUFFICES ASSUME NEW c \in Commands
                 PROVE  /\ store'.timeline[c] = "finished" => Over(c, job')
                        /\ store'.timeline[c] = "failed" => Undone(c, job')
    BY DEF ShownOutcomeIsTrue, Over, Undone
  <1>3. /\ store.timeline[c] = "finished" => Over(c, job)
        /\ store.timeline[c] = "failed" => Undone(c, job)
    BY DEF ShownOutcomeIsTrue, Over, Undone
  <1>4. GoesOn(job, job')
    BY TruthNext
  <1>5. CASE store'.timeline[c] = store.timeline[c]
    BY <1>3, <1>4, <1>5 DEF GoesOn
  <1>6. CASE store'.timeline[c] \in {"open", "none"}
    BY <1>6
  <1>7. CASE Receive
    <2> DEFINE m == Head(down)
    <2>1. /\ m \in Messages /\ store' = Reduce(store, m) /\ job' = job
          /\ IsTrue(m, job)
      BY <1>1, <1>7, SeqTypes, TruthOf DEF Receive, Show, Truthful
    <2> HIDE DEF m
    <2>2. \/ store'.timeline[c] = store.timeline[c]
          \/ store'.timeline[c] = "open"
          \/ store'.timeline[c] = "finished" /\ Over(c, job)
          \/ store'.timeline[c] = "failed" /\ Undone(c, job)
      BY <1>1, <2>1, ReduceTimeline
    <2> QED BY <1>5, <1>6, <2>1, <2>2
  <1>8. CASE Lifecycle \/ RestartGateway
    <2>1. /\ Connecting(store).timeline = store.timeline
          /\ ClosedConnection(store).timeline = store.timeline
          /\ InitialStore.timeline[c] = "none"
      BY <1>1 DEF Connecting, ClosedConnection, InitialStore, Stores
    <2>2. store' \in {Connecting(store), ClosedConnection(store), InitialStore}
      BY <1>8 DEF Lifecycle, Mount, Reload, OpenSocket, OpenFails, SocketLost,
         RestartGateway, Show
    <2> QED BY <1>5, <1>6, <2>1, <2>2
  <1>9. CASE User \/ RenewFires
    <2>1. store' = store \/ \E d \in Commands : store' = AddLocalCommand(store, d)
      BY <1>1, <1>9 DEF User, Click, AskMove, AnswerMove, ClickAcquire,
         ClickSelect, RenewFires, SendCommand
    <2>2. \A d \in Commands :
            \/ AddLocalCommand(store, d).timeline[c] = store.timeline[c]
            \/ AddLocalCommand(store, d).timeline[c] = "open"
      BY <1>1 DEF AddLocalCommand, Stores
    <2> QED BY <1>5, <1>6, <2>1, <2>2
  <1>10. CASE \/ Accept \/ ReceiveLate \/ Gateway \/ Broadcast \/ Device
              \/ (Others /\ ~RestartGateway) \/ UNCHANGED vars
    <2>1. store' = store
      <3>1. AtDevice => UNCHANGED pageVars
        BY DeviceSteps DEF DeviceKeeps
      <3> QED BY <1>10, <3>1 DEF Accept, ReceiveLate, Gateway, HandleCommand,
              HandleRenew, HandleAcquire, HandleSelect, ServerKeeps, Broadcast,
              AtDevice, Others, TakeOver, Expire, OtherLeaves, OtherSelects,
              vars, pageVars
    <2> QED BY <1>5, <2>1
  <1> QED BY <1>7, <1>8, <1>9, <1>10 DEF Next

(* What the page shows of a command's end is what happened to it at the    *)
(* device, over lost connections, late acceptances, gaps, rests, shutdowns *)
(* and restarts of the gateway: an end only of what was applied, completed *)
(* or cancelled, failure only of what failed or was refused, or was asked  *)
(* for in vain for want of an answer.  By the invariant Truthful: a        *)
(* command is on its way once, while it is "sent"; every message on its    *)
(* way to the page or to the hub says what is true of its command, and     *)
(* what is true of an end stays true.                                      *)
THEOREM OutcomesAreTrue == Spec => []ShownOutcomeIsTrue
  <1>1. Init => TypeOK /\ Truthful /\ ShownOutcomeIsTrue
    <2> SUFFICES ASSUME Init
                 PROVE  TypeOK /\ Truthful /\ ShownOutcomeIsTrue
      OBVIOUS
    <2>1. up = <<>> /\ down = <<>> /\ routed = <<>> /\ store = InitialStore
      BY DEF Init
    <2>2. Truthful
      BY <2>1 DEF Truthful, OnItsWay, AllTrue
    <2>3. \A c \in Commands : store.timeline[c] = "none"
      BY <2>1 DEF InitialStore
    <2> QED BY <2>2, <2>3, TypeInit DEF ShownOutcomeIsTrue
  <1>2. TypeOK /\ Truthful /\ ShownOutcomeIsTrue /\ [Next]_vars =>
            (TypeOK /\ Truthful /\ ShownOutcomeIsTrue)'
    BY TypeNext, TruthNext, ShownNext
  <1> QED BY <1>1, <1>2, PTL DEF Spec
=============================================================================
