------------------------------ MODULE AgentPage ------------------------------
(***************************************************************************)
(* The conversation with the LeFly agent as a page shows it: AgentSocket   *)
(* (packages/lefly-console-web/src/api/agentSocket.ts), the reducer of     *)
(* agent/agentStore.ts, what agent/agentControl.ts makes of it and the     *)
(* composer of features/overview/Overview.tsx; and the agent it talks to   *)
(* (packages/lefly-agent: server.py and the worker of runtime.py).         *)
(*                                                                         *)
(* A submission and the response to it have one name; a text is the        *)
(* sequence of its deltas; a response calls one tool at most.  What an     *)
(* agent.state message brings (the phase, the queue, the model, the device *)
(* flag) and the limits of 100 entries are left out.                       *)
(***************************************************************************)
EXTENDS Integers, Sequences, SequencesExt

CONSTANTS
    Requests,    \* submissions of this page
    Others,      \* submissions of another page
    None,        \* no submission
    Capacity,    \* the agent's queue of submissions
    Tooled,      \* submissions whose answer may take a tool
    MaxParts,    \* bound: deltas of one response
    MaxFlight,   \* bound: messages on their way, but for the last of a step
    MaxFaults    \* bound: connections lost or remade, agents restarted

ASSUME AgentAssumption ==
    /\ Requests \intersect Others = {} /\ Tooled \subseteq Requests \union Others
    /\ None \notin Requests \union Others
    /\ {Capacity, MaxParts, MaxFlight} \subseteq Nat \ {0} /\ MaxFaults \in Nat

All == Requests \union Others

VARIABLES
    composer,   \* agentPending, and the submission it waits for
    sock,       \* "none", "opening", "open", or "dead": closed, not yet told
    timer,      \* reconnectTimer is set
    pending,    \* AgentSocket.pending: submissions with their callbacks
    settled,    \* what each submission's callbacks were told
    store,      \* AgentStoreState
    up,         \* submissions on their way to the agent
    down,       \* messages on their way to the page
    midway,     \* responses under way when the connection's hello was taken
    queue,      \* the runtime's queue
    worker,     \* the response it makes: the deltas sent, the state of its tool
    history,    \* the runtime's history
    asked,      \* submissions made
    faults      \* faults that happened

pageVars == <<composer, sock, timer, pending, settled, store>>
agentVars == <<queue, worker, history>>
vars == <<pageVars, up, down, midway, agentVars, asked, faults>>

NoDraft == [status |-> "none", parts |-> <<>>]
Resting == [of |-> None, sent |-> 0, tool |-> "none", step |-> "idle"]

Init ==
    /\ composer = None /\ sock = "none" /\ timer = TRUE
    /\ pending = {} /\ settled = [r \in Requests |-> "none"]
    /\ store = [connection |-> "offline", messages |-> <<>>,
                drafts |-> [r \in All |-> NoDraft],
                tools |-> [r \in Tooled |-> "none"]]
    /\ up = <<>> /\ down = <<>> /\ midway = {}
    /\ queue = <<>> /\ worker = Resting /\ history = <<>>
    /\ asked = {} /\ faults = 0

Parts(n) == [i \in 1 .. n |-> i]
Question(r) == [id |-> r, role |-> "user", parts |-> Parts(1)]
Answer(r, parts) == [id |-> r, role |-> "agent", parts |-> parts]

(* A message is known by its id: the answer to r has another than r.       *)
SameId(m, n) == m.id = n.id /\ m.role = n.role
Has(messages, m) == \E i \in DOMAIN messages : SameId(messages[i], m)
Answered(messages, r) == Has(messages, Answer(r, <<>>))

-----------------------------------------------------------------------------
(* agentStore: one operator for each kind of message                       *)
AppendMessage(messages, m) ==
    IF Has(messages, m) THEN messages ELSE Append(messages, m)

(* Mutant: what was streaming before the connection was lost is kept.      *)
HelloKeeping(s, m) ==
    [s EXCEPT !.connection = "online", !.messages = m.messages]

(* agent.hello replaces everything.                                        *)
Hello(s, m) ==
    [connection |-> "online", messages |-> m.messages,
     drafts |-> [r \in All |-> NoDraft], tools |-> [r \in Tooled |-> "none"]]

(* Only answers have drafts, and no answer comes as an agent.message.      *)
Message(s, m) == [s EXCEPT !.messages = AppendMessage(@, m.message)]

Started(s, r) ==
    IF Answered(s.messages, r) \/ s.drafts[r] # NoDraft THEN s
    ELSE [s EXCEPT !.drafts[r].status = "streaming"]

(* A delta without a draft makes one: its beginning was missed.            *)
Delta(s, r, part) ==
    IF Answered(s.messages, r) \/ s.drafts[r].status = "interrupted" THEN s
    ELSE [s EXCEPT !.drafts[r] = [status |-> "streaming",
                                  parts |-> Append(@.parts, part)]]

(* Mutant: completion drops the draft and shows no answer.                 *)
CompletedOnly(s, r) == [s EXCEPT !.drafts[r] = NoDraft]

(* The draft becomes the answer; without a draft there is nothing to show. *)
Completed(s, r) ==
    IF s.drafts[r] = NoDraft THEN s
    ELSE [s EXCEPT !.messages = IF s.drafts[r].parts = <<>> THEN @
                                ELSE AppendMessage(@, Answer(r,
                                                          s.drafts[r].parts)),
                   !.drafts[r] = NoDraft]

(* Mutant: what was said before a failure is kept as an answer.            *)
FailedCommitting(s, r) ==
    [s EXCEPT !.messages = AppendMessage(@, Answer(r, s.drafts[r].parts)),
              !.drafts[r].status = "interrupted"]

Failed(s, r) == [s EXCEPT !.drafts[r].status = "interrupted"]

(* upsertToolProgress: the end of a call whose start was missed is shown.  *)
UpsertTool(s, r, status) == [s EXCEPT !.tools[r] = status]

(* agentReducer: accepted and error change the error line alone.           *)
Reduce(s, m) ==
    CASE m.kind = "hello"     -> Hello(s, m)
      [] m.kind = "message"   -> Message(s, m)
      [] m.kind = "started"   -> Started(s, m.of)
      [] m.kind = "delta"     -> Delta(s, m.of, m.part)
      [] m.kind = "completed" -> Completed(s, m.of)
      [] m.kind = "failed"    -> Failed(s, m.of)
      [] m.kind = "tool"      -> UpsertTool(s, m.of, m.status)
      [] OTHER -> s

(* createAgentControl: drafts of answers that are committed are not shown. *)
ShownDraft(r) ==
    IF Answered(store.messages, r) THEN NoDraft ELSE store.drafts[r]

-----------------------------------------------------------------------------
(* AgentSocket and the composer                                            *)
Keep == UNCHANGED <<agentVars, asked>>

(* onAccepted and onRejected free the composer that waits for r.           *)
Settle(told, how) ==
    /\ settled' = [r \in Requests |-> IF r \in told THEN how ELSE settled[r]]
    /\ composer' = IF composer \in told THEN None ELSE composer

Fault == faults < MaxFaults /\ faults' = faults + 1

(* openSocket                                                              *)
OpenSocket ==
    /\ timer
    /\ timer' = FALSE /\ sock' = "opening"
    /\ store' = [store EXCEPT !.connection = "connecting"]
    /\ UNCHANGED <<composer, pending, settled, up, down, midway, faults>>
    /\ Keep

(* The WebSocket cannot be made: scheduleReconnect, for another attempt.   *)
OpenFails ==
    /\ timer /\ Fault
    /\ timer' = TRUE
    /\ store' = [store EXCEPT !.connection = "connecting"]
    /\ UNCHANGED <<composer, sock, pending, settled, up, down, midway>>
    /\ Keep

(* Mutant: callbacks of a connection that is gone are kept for later.      *)
ClosedKeeping ==
    /\ sock = "dead" /\ down = <<>>
    /\ sock' = "none" /\ timer' = TRUE
    /\ store' = [store EXCEPT !.connection = "offline"]
    /\ UNCHANGED <<composer, pending, settled, up, down, midway, faults>>
    /\ Keep

(* rejectPending                                                           *)
RejectPending == Settle(pending, "rejected") /\ pending' = {}

(* onclose, after the messages that did arrive: the callbacks first, then  *)
(* the store and the timer.                                                *)
Closed ==
    /\ sock = "dead" /\ down = <<>>
    /\ sock' = "none" /\ timer' = TRUE
    /\ RejectPending
    /\ store' = [store EXCEPT !.connection = "offline"]
    /\ UNCHANGED <<up, down, midway, faults>>
    /\ Keep

(* retireSocket: nothing more is heard of it, its onclose included.        *)
RetireSocket == IF sock = "none" THEN UNCHANGED <<composer, settled, pending, down>>
                ELSE RejectPending /\ down' = <<>>

(* The effect of ConnectedApp run again, as React does in development:     *)
(* close, then connect.  What was sent before the close is still read.     *)
Remount ==
    /\ Fault
    /\ RetireSocket
    /\ sock' = "opening" /\ timer' = FALSE
    /\ store' = [store EXCEPT !.connection = "connecting"]
    /\ UNCHANGED <<up, midway>>
    /\ Keep

(* sendText: nothing is sent on a socket that is not open.                 *)
SendText(r) ==
    IF sock = "open" THEN pending' = pending \union {r} /\ up' = Append(up, r)
    ELSE UNCHANGED <<pending, up>>

(* submitAgentText: the composer waits if the text was sent.               *)
Submit(r) ==
    /\ r \notin asked /\ composer = None /\ store.connection = "online"
    /\ asked' = asked \union {r}
    /\ SendText(r)
    /\ composer' = IF r \in pending' THEN r ELSE None
    /\ UNCHANGED <<sock, timer, settled, store, down, midway, agentVars, faults>>

(* Another workspace and back: the composer forgets, the socket does not.  *)
LeaveOverview ==
    /\ composer # None
    /\ composer' = None
    /\ UNCHANGED <<sock, timer, pending, settled, store, up, down, midway,
                   faults>>
    /\ Keep

SettleSubmission(m) ==
    CASE m.kind = "accepted" -> Settle({m.of} \intersect pending, "accepted")
                                /\ pending' = pending \ {m.of}
      [] m.kind = "error" -> Settle({m.of} \intersect pending, "rejected")
                             /\ pending' = pending \ {m.of}
      [] OTHER -> UNCHANGED <<settled, composer, pending>>

(* onmessage: the callbacks first, then the store.                         *)
Receive ==
    /\ sock \in {"open", "dead"} /\ down # <<>>
    /\ SettleSubmission(Head(down))
    /\ store' = Reduce(store, Head(down))
    /\ down' = Tail(down)
    /\ UNCHANGED <<sock, timer, up, midway, faults>>
    /\ Keep

-----------------------------------------------------------------------------
(* The agent's server and worker                                           *)
Offer(ms) ==
    IF sock = "open" THEN Len(down) < MaxFlight /\ down' = down \o ms
    ELSE UNCHANGED down

AgentKeeps == UNCHANGED <<pageVars, midway, asked, faults>>

(* _agent_socket: the hello is the first message.                          *)
Accept ==
    /\ sock = "opening"
    /\ sock' = "open"
    /\ down' = <<[kind |-> "hello", messages |-> history]>>
    /\ midway' = IF worker.sent > 0 THEN {worker.of} ELSE {}
    /\ UNCHANGED <<composer, timer, pending, settled, store, up, faults>>
    /\ Keep

(* submit_text: the question goes to every page, in the same breath.       *)
Enqueue(r) ==
    /\ queue' = Append(queue, r)
    /\ history' = Append(history, Question(r))

HasRoom == Len(queue) < Capacity
Asks(r) == [kind |-> "message", message |-> Question(r)]

(* Mutant: the answer to the sender overtakes the question.                *)
HandleTextEarly ==
    /\ up # <<>> /\ up' = Tail(up)
    /\ IF HasRoom
         THEN /\ Enqueue(Head(up))
              /\ Offer(<<[kind |-> "accepted", of |-> Head(up)],
                         Asks(Head(up))>>)
         ELSE /\ Offer(<<[kind |-> "error", of |-> Head(up)]>>)
              /\ UNCHANGED <<queue, history>>
    /\ UNCHANGED worker /\ AgentKeeps

(* _handle_text: queue_full is the only refusal of a well-formed text.     *)
HandleText ==
    /\ up # <<>> /\ up' = Tail(up)
    /\ IF HasRoom
         THEN /\ Enqueue(Head(up))
              /\ Offer(<<Asks(Head(up)),
                         [kind |-> "accepted", of |-> Head(up)]>>)
         ELSE /\ Offer(<<[kind |-> "error", of |-> Head(up)]>>)
              /\ UNCHANGED <<queue, history>>
    /\ UNCHANGED worker /\ AgentKeeps

(* The same for a submission of another page: only that page is answered.  *)
OtherAsks(r) ==
    /\ r \notin asked /\ HasRoom
    /\ asked' = asked \union {r}
    /\ Enqueue(r) /\ Offer(<<Asks(r)>>)
    /\ UNCHANGED <<pageVars, up, midway, worker, faults>>

(* _run and _process_m3                                                    *)
Take ==
    /\ worker = Resting /\ queue # <<>>
    /\ queue' = Tail(queue)
    /\ worker' = [Resting EXCEPT !.of = Head(queue), !.step = "working"]
    /\ Offer(<<[kind |-> "started", of |-> Head(queue)]>>)
    /\ UNCHANGED <<up, history>> /\ AgentKeeps

Working == worker.step = "working"

SendDelta ==
    /\ Working /\ worker.sent < MaxParts /\ worker.tool # "running"
    /\ worker' = [worker EXCEPT !.sent = @ + 1]
    /\ Offer(<<[kind |-> "delta", of |-> worker.of, part |-> worker.sent + 1]>>)
    /\ UNCHANGED <<up, queue, history>> /\ AgentKeeps

(* The tool of a fast answer, or of a turn of the model, before its text.  *)
StartTool ==
    /\ Working /\ worker.of \in Tooled
    /\ worker.tool = "none" /\ worker.sent = 0
    /\ worker' = [worker EXCEPT !.tool = "running"]
    /\ Offer(<<[kind |-> "tool", of |-> worker.of, status |-> "running"]>>)
    /\ UNCHANGED <<up, queue, history>> /\ AgentKeeps

EndTool ==
    /\ worker.tool = "running"
    /\ \E end \in {"completed", "failed"} :
         /\ worker' = [worker EXCEPT !.tool = end]
         /\ Offer(<<[kind |-> "tool", of |-> worker.of, status |-> end]>>)
    /\ UNCHANGED <<up, queue, history>> /\ AgentKeeps

(* The answer is in the history before anyone hears that it is complete.   *)
Complete ==
    /\ Working /\ worker.sent > 0 /\ worker.tool \in {"none", "completed"}
    /\ history' = Append(history, Answer(worker.of, Parts(worker.sent)))
    /\ worker' = [worker EXCEPT !.step = "syncing"]
    /\ Offer(<<[kind |-> "completed", of |-> worker.of]>>)
    /\ UNCHANGED <<up, queue>> /\ AgentKeeps

(* A turn of the model ends there; a fast answer is told to the session    *)
(* first, which may fail when the answer is complete already.              *)
EndTurn ==
    /\ worker.step = "syncing"
    /\ worker' = Resting
    /\ UNCHANGED <<up, down, queue, history>> /\ AgentKeeps

Fail ==
    /\ \/ Working /\ worker.tool # "running"
       \/ worker.step = "syncing"
    /\ worker' = Resting
    /\ Offer(<<[kind |-> "failed", of |-> worker.of],
               [kind |-> "error", of |-> worker.of]>>)
    /\ UNCHANGED <<up, queue, history>> /\ AgentKeeps

-----------------------------------------------------------------------------
(* Faults                                                                  *)
(* The connection breaks, or the server closes one whose outbound queue is *)
(* full; some of what was sent may still arrive, before onclose.           *)
Lose ==
    /\ sock \in {"opening", "open"} /\ Fault
    /\ sock' = "dead" /\ up' = <<>>
    /\ \E n \in 0 .. Len(down) : down' = SubSeq(down, 1, n)
    /\ UNCHANGED <<composer, timer, pending, settled, store, midway>>
    /\ Keep

RestartAgent ==
    /\ Fault
    /\ sock' = IF sock = "none" THEN "none" ELSE "dead"
    /\ up' = <<>> /\ down' = <<>>
    /\ queue' = <<>> /\ worker' = Resting /\ history' = <<>>
    /\ UNCHANGED <<composer, timer, pending, settled, store, midway, asked>>

Page ==
    \/ OpenSocket \/ OpenFails \/ Closed \/ Remount \/ Receive \/ LeaveOverview
    \/ \E r \in Requests : Submit(r)

Agent ==
    \/ Accept \/ HandleText \/ Take \/ SendDelta \/ StartTool
    \/ EndTool \/ Complete \/ EndTurn \/ Fail \/ \E r \in Others : OtherAsks(r)

Next == Page \/ Agent \/ Lose \/ RestartAgent

Spec == Init /\ [][Next]_vars

(* Timers fire, what is sent is delivered or the loss is noticed, and the  *)
(* worker comes to an end with every submission.                           *)
FairSpec ==
    /\ Spec
    /\ WF_vars(OpenSocket) /\ WF_vars(Closed)
    /\ WF_vars(Receive) /\ WF_vars(Accept) /\ WF_vars(HandleText)
    /\ WF_vars(Take \/ SendDelta \/ StartTool \/ EndTool \/ Complete \/ EndTurn
                                                                  \/ Fail)

-----------------------------------------------------------------------------
(* What a connected page shows as said was said: its messages are those of *)
(* the agent's history, in that order, none twice, and with their whole    *)
(* text unless the connection began in the middle of it; and a response it *)
(* shows as interrupted has no answer.                                     *)
Ids(messages) == [i \in DOMAIN messages |-> <<messages[i].id, messages[i].role>>]

ConversationIsTrue ==
    store.connection = "online" /\ sock = "open" =>
        /\ IsInjective(Ids(store.messages))
        /\ \A i \in DOMAIN store.messages : \E j \in DOMAIN history :
             /\ SameId(store.messages[i], history[j])
             /\ \/ store.messages[i] = history[j]
                \/ history[j].id \in midway
             /\ \A k \in 1 .. i - 1 : \E l \in 1 .. j - 1 :
                  SameId(store.messages[k], history[l])
        /\ \A r \in All \ midway :
             ShownDraft(r).status = "interrupted" => ~Answered(history, r)

(* The composer empties itself only when the text it sent is on the page:  *)
(* an accepted submission is in the list, as long as its agent lives.      *)
AcceptedIsShown ==
    \A r \in Requests :
        /\ settled[r] = "accepted" /\ Has(history, Question(r))
        /\ store.connection = "online"
        => Has(store.messages, Question(r))

(* A submission's callbacks are told once, whatever happens to it later.   *)
SettledOnce ==
    [][\A r \in Requests : settled[r] # "none" => settled'[r] = settled[r]]_vars

(* The composer never waits for ever: the answer, a refusal or the loss of *)
(* the connection frees it.                                                *)
ComposerFrees == \A r \in Requests : composer = r ~> composer # r

(* No response streams and no tool runs for ever on the page, whatever it  *)
(* missed of them, and no tool does once its answer is shown.              *)
ResponsesEnd ==
    /\ \A r \in All :
         store.drafts[r].status = "streaming" ~>
             store.drafts[r].status # "streaming"
    /\ \A r \in Tooled :
         /\ store.tools[r] = "running" ~> store.tools[r] # "running"
         /\ [](Answered(store.messages, r) => store.tools[r] # "running")

(* A complete answer comes to be shown, on every connection that did not   *)
(* begin in the middle of it (then its end finds no draft and is ignored). *)
AnswersAreShown ==
    \A r \in All :
        Answered(history, r) /\ store.connection = "online" ~>
            \/ Answered(store.messages, r)
            \/ store.connection # "online" \/ r \in midway
=============================================================================
