---------------------------- MODULE AgentPageProofs ----------------------------
(***************************************************************************)
(* Proofs about AgentPage, for any submissions, connections lost and       *)
(* agents restarted: a submission is settled once, one that was accepted   *)
(* is shown, what a connected page shows as said was said, and no tool is  *)
(* shown as running beside the answer it was called for.                   *)
(***************************************************************************)
EXTENDS AgentPage, TLAPS

(***************************************************************************)
(* Types                                                                   *)
(***************************************************************************)
Texts == [id : All, role : {"user", "agent"}, parts : Seq(Nat)]
Drafts == [status : {"none", "streaming", "interrupted"}, parts : Seq(Nat)]
Calls == {"none", "running", "completed", "failed"}

Stores == [connection : {"offline", "connecting", "online"},
           messages : Seq(Texts), drafts : [All -> Drafts],
           tools : [Tooled -> Calls]]

Messages ==
    [kind : {"hello"}, messages : Seq(Texts)]
    \union [kind : {"message"}, message : Texts]
    \union [kind : {"accepted", "error", "started", "completed", "failed"},
            of : All]
    \union [kind : {"delta"}, of : All, part : Nat]
    \union [kind : {"tool"}, of : Tooled, status : Calls]

Plain == {m \in Messages : m.kind \notin {"hello", "accepted"}}

PageType ==
    /\ sock \in {"none", "opening", "open", "dead"} /\ timer \in BOOLEAN
    /\ pending \in SUBSET Requests
    /\ settled \in [Requests -> {"none", "accepted", "rejected"}]
    /\ store \in Stores
    /\ down \in Seq(Messages)

AgentType ==
    /\ up \in Seq(Requests) /\ queue \in Seq(All)
    /\ worker \in [of : All \union {None}, sent : Nat, tool : Calls,
                   step : {"idle", "working", "syncing"}]
    /\ worker.step # "idle" \/ worker.sent # 0 => worker.of \in All
    /\ worker.tool # "none" => worker.of \in Tooled
    /\ history \in Seq(Texts)
    /\ midway \in SUBSET All /\ asked \in SUBSET All

TypeOK == PageType /\ AgentType

(***************************************************************************)
(* A connection: nothing of one that is gone is left, and its hello comes  *)
(* first.                                                                  *)
(***************************************************************************)
HelloFirst(msgs) == \A i \in DOMAIN msgs : msgs[i].kind = "hello" => i = 1
HasHello(msgs) == msgs # <<>> /\ msgs[1].kind = "hello"

Connected ==
    /\ timer => sock = "none"
    /\ sock \in {"none", "opening"} => down = <<>>
    /\ HelloFirst(down)

(***************************************************************************)
(* A submission is on its way once, and not when it was answered.          *)
(***************************************************************************)
Accepts(msgs, i, r) ==
    i \in DOMAIN msgs /\ msgs[i].kind = "accepted" /\ msgs[i].of = r

SubmittedOnce ==
    /\ pending \subseteq asked
    /\ \A r \in pending : settled[r] = "none"
    /\ \A r \in Requests \ asked : settled[r] = "none"
    /\ \A i \in DOMAIN up :
         /\ up[i] \in asked /\ settled[up[i]] # "accepted"
         /\ \A k \in DOMAIN down : ~Accepts(down, k, up[i])
         /\ \A j \in DOMAIN up : up[j] = up[i] => j = i
    /\ \A k \in DOMAIN down, r \in Requests : Accepts(down, k, r) => r \in asked

(***************************************************************************)
(* The question comes before the answer that it was accepted.              *)
(***************************************************************************)
Announced(messages, msgs) ==
    \A i \in DOMAIN msgs, r \in Requests : Accepts(msgs, i, r) =>
        \/ \E j \in DOMAIN msgs : j < i /\ msgs[j] = Asks(r)
        \/ ~HasHello(msgs) /\ Has(messages, Question(r))

(* A hello on its way brings the questions that were accepted before.      *)
Brought ==
    \A r \in Requests :
        settled[r] = "accepted" /\ Has(history, Question(r)) /\ HasHello(down)
            => Has(down[1].messages, Question(r))

Asking ==
    Connected /\ SubmittedOnce /\ Announced(store.messages, down) /\ Brought

-----------------------------------------------------------------------------
(***************************************************************************)
(* Messages, and what the reducer makes of them                            *)
(***************************************************************************)
LEMMA SeqFacts ==
    ASSUME NEW S, NEW q \in Seq(S)
    PROVE  /\ <<>> \in Seq(S)
           /\ \A x \in S : Append(q, x) \in Seq(S) /\ <<x>> \in Seq(S)
           /\ q # <<>> => Head(q) \in S /\ Tail(q) \in Seq(S) /\ Head(q) = q[1]
           /\ q # <<>> => \A i \in DOMAIN Tail(q) :
                             i + 1 \in DOMAIN q /\ Tail(q)[i] = q[i + 1]
           /\ \A i \in DOMAIN q : q[i] \in S
  OBVIOUS

LEMMA SeqMoves ==
    ASSUME NEW S, NEW q \in Seq(S), NEW p,
           \/ p = q
           \/ p = <<>>
           \/ q # <<>> /\ p = Tail(q)
           \/ \E x \in S : p = Append(q, x)
    PROVE  p \in Seq(S)
  <1>1. CASE p = q
    BY <1>1
  <1>2. CASE p = <<>>
    BY <1>2
  <1>3. CASE q # <<>> /\ p = Tail(q)
    BY <1>3
  <1>4. CASE \E x \in S : p = Append(q, x)
    BY <1>4
  <1> QED BY <1>1, <1>2, <1>3, <1>4

LEMMA PartsType ==
    ASSUME NEW n \in Nat
    PROVE  Parts(n) \in Seq(Nat)
  BY DEF Parts

LEMMA MessageTypes ==
    /\ \A h \in Seq(Texts) : [kind |-> "hello", messages |-> h] \in Messages
    /\ \A r \in All : /\ Question(r) \in Texts /\ Asks(r) \in Plain
                      /\ [kind |-> "accepted", of |-> r] \in Messages
                      /\ \A parts \in Seq(Nat) : Answer(r, parts) \in Texts
    /\ \A r \in All, k \in {"error", "started", "completed", "failed"} :
           [kind |-> k, of |-> r] \in Plain
    /\ \A r \in All, p \in Nat :
           [kind |-> "delta", of |-> r, part |-> p] \in Plain
    /\ \A r \in Tooled, c \in Calls :
           [kind |-> "tool", of |-> r, status |-> c] \in Plain
  <1>1. \A r \in All : Question(r) \in Texts
    BY PartsType DEF Question, Texts
  <1>2. \A r \in All, parts \in Seq(Nat) : Answer(r, parts) \in Texts
    BY DEF Answer, Texts
  <1>3. /\ \A h \in Seq(Texts) : [kind |-> "hello", messages |-> h] \in Messages
        /\ \A r \in All : [kind |-> "accepted", of |-> r] \in Messages
    BY DEF Messages
  <1>4. \A r \in All : Asks(r) \in Plain
    BY <1>1 DEF Asks, Messages, Plain
  <1>5. \A r \in All, k \in {"error", "started", "completed", "failed"} :
            [kind |-> k, of |-> r] \in Plain
    BY DEF Messages, Plain
  <1>6. /\ \A r \in All, p \in Nat :
               [kind |-> "delta", of |-> r, part |-> p] \in Plain
        /\ \A r \in Tooled, c \in Calls :
               [kind |-> "tool", of |-> r, status |-> c] \in Plain
    BY DEF Messages, Plain
  <1> QED BY <1>1, <1>2, <1>3, <1>4, <1>5, <1>6

LEMMA MessageCases ==
    ASSUME NEW m \in Messages
    PROVE  \/ m.kind = "hello" /\ m.messages \in Seq(Texts)
           \/ m.kind = "message" /\ m.message \in Texts
           \/ m.kind \in {"accepted", "error", "started", "completed", "failed"}
              /\ m.of \in All
           \/ m.kind = "delta" /\ m.of \in All /\ m.part \in Nat
           \/ m.kind = "tool" /\ m.of \in Tooled /\ m.status \in Calls
  BY DEF Messages

(* What a message leaves of the page's texts: a hello replaces them, any   *)
(* other keeps them and adds one at most.                                  *)
LEMMA AppendMessageIs ==
    ASSUME NEW messages \in Seq(Texts), NEW m \in Texts
    PROVE  /\ AppendMessage(messages, m) \in Seq(Texts)
           /\ \A x : Has(messages, x) => Has(AppendMessage(messages, m), x)
           /\ Has(AppendMessage(messages, m), m)
           /\ \/ AppendMessage(messages, m) = messages
              \/ AppendMessage(messages, m) = Append(messages, m)
                 /\ ~Has(messages, m)
  <1>1. Append(messages, m) \in Seq(Texts)
    OBVIOUS
  <1>2. /\ \A i \in DOMAIN messages : i \in DOMAIN Append(messages, m)
                                      /\ Append(messages, m)[i] = messages[i]
        /\ Len(messages) + 1 \in DOMAIN Append(messages, m)
        /\ Append(messages, m)[Len(messages) + 1] = m
    OBVIOUS
  <1>3. /\ \A x : Has(messages, x) => Has(Append(messages, m), x)
        /\ Has(Append(messages, m), m)
    BY <1>2 DEF Has, SameId
  <1> QED BY <1>1, <1>3 DEF AppendMessage

LEMMA ReduceIs ==
    ASSUME NEW s \in Stores, NEW m \in Messages
    PROVE  LET t == Reduce(s, m) IN
           /\ t \in Stores
           /\ m.kind = "hello" => t.messages = m.messages
           /\ m.kind # "hello" =>
                  t.connection = s.connection
                  /\ \A x : Has(s.messages, x) => Has(t.messages, x)
           /\ m.kind = "message" => Has(t.messages, m.message)
  <1> DEFINE t == Reduce(s, m)
  <1>1. /\ NoDraft \in Drafts /\ s.messages \in Seq(Texts)
        /\ s.drafts \in [All -> Drafts] /\ s.tools \in [Tooled -> Calls]
    <2>1. <<>> \in Seq(Nat)
      OBVIOUS
    <2> QED BY <2>1 DEF NoDraft, Drafts, Stores
  <1>2. CASE m.kind = "hello" /\ m.messages \in Seq(Texts)
    <2>1. t = [connection |-> "online", messages |-> m.messages,
               drafts |-> [r \in All |-> NoDraft],
               tools |-> [r \in Tooled |-> "none"]]
      BY <1>2 DEF Reduce, Hello
    <2> HIDE DEF t
    <2> QED BY <1>1, <1>2, <2>1 DEF Stores, Calls, t
  <1>3. CASE m.kind = "message" /\ m.message \in Texts
    <2> DEFINE q == AppendMessage(s.messages, m.message)
    <2>1. /\ q \in Seq(Texts) /\ Has(q, m.message)
          /\ \A x : Has(s.messages, x) => Has(q, x)
      BY <1>1, <1>3, AppendMessageIs
    <2>2. t = [s EXCEPT !.messages = q]
      BY <1>3 DEF Reduce, Message
    <2> HIDE DEF q, t
    <2>3. t \in Stores /\ t.messages = q /\ t.connection = s.connection
      BY <2>1, <2>2 DEF Stores
    <2> QED BY <1>3, <2>1, <2>3 DEF t
  <1>4. CASE m.kind \in {"accepted", "error"}
    BY <1>4 DEF Reduce
  <1>5. CASE m.kind = "tool" /\ m.of \in Tooled /\ m.status \in Calls
    <2>1. t = [s EXCEPT !.tools[m.of] = m.status]
      BY <1>5 DEF Reduce, UpsertTool
    <2> HIDE DEF t
    <2>2. t \in Stores /\ t.messages = s.messages /\ t.connection = s.connection
      BY <1>5, <2>1 DEF Stores
    <2> QED BY <1>5, <2>2 DEF t
  <1>6. CASE m.kind \in {"started", "failed", "delta"} /\ m.of \in All
             /\ (m.kind = "delta" => m.part \in Nat)
    <2>1. PICK d \in Drafts : t = s \/ t = [s EXCEPT !.drafts[m.of] = d]
      <3>1. s.drafts[m.of] \in Drafts
        BY <1>1, <1>6
      <3>2. CASE m.kind = "started"
        <4>1. t = s \/ t = [s EXCEPT !.drafts[m.of].status = "streaming"]
          BY <3>2 DEF Reduce, Started
        <4>2. [s.drafts[m.of] EXCEPT !.status = "streaming"] \in Drafts
          BY <3>1 DEF Drafts
        <4> QED BY <1>1, <4>1, <4>2
      <3>3. CASE m.kind = "failed"
        <4>1. t = [s EXCEPT !.drafts[m.of].status = "interrupted"]
          BY <3>3 DEF Reduce, Failed
        <4>2. [s.drafts[m.of] EXCEPT !.status = "interrupted"] \in Drafts
          BY <3>1 DEF Drafts
        <4> QED BY <1>1, <4>1, <4>2
      <3>4. CASE m.kind = "delta"
        <4> DEFINE d == [status |-> "streaming",
                         parts |-> Append(s.drafts[m.of].parts, m.part)]
        <4>1. t = s \/ t = [s EXCEPT !.drafts[m.of] = d]
          BY <3>4 DEF Reduce, Delta
        <4>2. d \in Drafts
          <5>1. s.drafts[m.of].parts \in Seq(Nat) /\ m.part \in Nat
            BY <1>6, <3>1, <3>4 DEF Drafts
          <5>2. Append(s.drafts[m.of].parts, m.part) \in Seq(Nat)
            BY <5>1
          <5> QED BY <5>2 DEF Drafts
        <4> QED BY <4>1, <4>2
      <3> QED BY <1>6, <3>2, <3>3, <3>4
    <2> HIDE DEF t
    <2>2. t \in Stores /\ t.messages = s.messages /\ t.connection = s.connection
      BY <1>6, <2>1 DEF Stores
    <2> QED BY <1>6, <2>2 DEF t
  <1>7. CASE m.kind = "completed" /\ m.of \in All
    <2> DEFINE a == Answer(m.of, s.drafts[m.of].parts)
               q == AppendMessage(s.messages, a)
    <2>1. a \in Texts
      <3>1. s.drafts[m.of].parts \in Seq(Nat)
        BY <1>1, <1>7 DEF Drafts
      <3> QED BY <1>7, <3>1, MessageTypes
    <2>2. q \in Seq(Texts) /\ \A x : Has(s.messages, x) => Has(q, x)
      <3> HIDE DEF a
      <3> QED BY <1>1, <2>1, AppendMessageIs
    <2>3. \/ t = s
          \/ \E p \in {s.messages, q} :
               t = [s EXCEPT !.messages = p, !.drafts[m.of] = NoDraft]
      BY <1>7 DEF Reduce, Completed
    <2> HIDE DEF q, t
    <2>4. ASSUME NEW p \in {s.messages, q},
                 t = [s EXCEPT !.messages = p, !.drafts[m.of] = NoDraft]
          PROVE  /\ t \in Stores /\ t.messages \in {s.messages, q}
                 /\ t.connection = s.connection
      <3>1. p \in Seq(Texts)
        BY <1>1, <2>2
      <3>2. [s.drafts EXCEPT ![m.of] = NoDraft] \in [All -> Drafts]
        BY <1>1, <1>7
      <3>3. t \in Stores
        BY <2>4, <3>1, <3>2 DEF Stores
      <3>4. t.messages = p /\ t.connection = s.connection
        BY <2>4 DEF Stores
      <3> QED BY <3>3, <3>4
    <2> QED BY <1>7, <2>2, <2>3, <2>4 DEF t
  <1> QED BY <1>2, <1>3, <1>4, <1>5, <1>6, <1>7, MessageCases

-----------------------------------------------------------------------------
(***************************************************************************)
(* Types of every step                                                     *)
(***************************************************************************)
LEMMA TypeInit ==
    ASSUME Init
    PROVE  TypeOK
  <1>1. NoDraft \in Drafts
    <2>1. <<>> \in Seq(Nat)
      OBVIOUS
    <2> QED BY <2>1 DEF NoDraft, Drafts
  <1>2. <<>> \in Seq(Texts) /\ <<>> \in Seq(Messages) /\ <<>> \in Seq(Requests)
        /\ <<>> \in Seq(All)
    OBVIOUS
  <1>3. store \in Stores
    BY <1>1, <1>2 DEF Init, Stores, Calls
  <1>4. PageType
    BY <1>2, <1>3 DEF Init, PageType
  <1>5. AgentType
    BY <1>2 DEF Init, AgentType, Resting, Calls
  <1> QED BY <1>4, <1>5 DEF TypeOK

LEMMA ConnectionType ==
    ASSUME NEW s \in Stores, NEW c \in {"offline", "connecting", "online"}
    PROVE  [s EXCEPT !.connection = c] \in Stores
  BY DEF Stores

LEMMA SettleType ==
    ASSUME PageType, NEW told \in SUBSET Requests,
           NEW how \in {"accepted", "rejected"}, Settle(told, how)
    PROVE  settled' \in [Requests -> {"none", "accepted", "rejected"}]
  BY DEF PageType, Settle

LEMMA TypePage ==
    ASSUME TypeOK, Page
    PROVE  TypeOK'
  <1>1. /\ store \in Stores /\ down \in Seq(Messages) /\ up \in Seq(Requests)
        /\ pending \in SUBSET Requests
        /\ settled \in [Requests -> {"none", "accepted", "rejected"}]
        /\ asked \in SUBSET All
    BY DEF TypeOK, PageType, AgentType
  <1>2. \A c \in {"offline", "connecting", "online"} :
            [store EXCEPT !.connection = c] \in Stores
    BY <1>1, ConnectionType
  <1>3. CASE OpenSocket \/ OpenFails \/ LeaveOverview
    <2>1. store' \in Stores
      BY <1>1, <1>2, <1>3 DEF OpenSocket, OpenFails, LeaveOverview
    <2>2. UNCHANGED <<pending, settled, up, down, midway, agentVars, asked>>
      BY <1>3 DEF OpenSocket, OpenFails, LeaveOverview, Keep
    <2>3. /\ sock' \in {"none", "opening", "open", "dead"}
          /\ timer' \in BOOLEAN
      BY <1>3 DEF OpenSocket, OpenFails, LeaveOverview, TypeOK, PageType
    <2> QED BY <2>1, <2>2, <2>3 DEF TypeOK, PageType, AgentType, agentVars
  <1>4. CASE Closed \/ Remount
    <2>1. store' \in Stores
      BY <1>2, <1>4 DEF Closed, Remount
    <2>2. /\ settled' \in [Requests -> {"none", "accepted", "rejected"}]
          /\ pending' \in SUBSET Requests
      BY <1>1, <1>4, SettleType DEF Closed, Remount, RetireSocket,
         RejectPending, TypeOK
    <2>3. down' \in Seq(Messages)
      <3>1. down' = down \/ down' = <<>>
        BY <1>4 DEF Closed, Remount, RetireSocket
      <3> QED BY <1>1, <3>1, SeqMoves
    <2>4. UNCHANGED <<up, midway, agentVars, asked>>
      BY <1>4 DEF Closed, Remount, Keep
    <2>5. /\ sock' \in {"none", "opening", "open", "dead"}
          /\ timer' \in BOOLEAN
      BY <1>4 DEF Closed, Remount
    <2> QED BY <2>1, <2>2, <2>3, <2>4, <2>5
            DEF TypeOK, PageType, AgentType, agentVars
  <1>5. CASE Receive
    <2>1. Head(down) \in Messages /\ down' \in Seq(Messages)
      BY <1>1, <1>5, SeqFacts DEF Receive
    <2>2. store' \in Stores
      BY <1>1, <1>5, <2>1, ReduceIs DEF Receive
    <2>3. /\ settled' \in [Requests -> {"none", "accepted", "rejected"}]
          /\ pending' \in SUBSET Requests
      <3>1. SettleSubmission(Head(down))
        BY <1>5 DEF Receive
      <3>2. \A told \in SUBSET Requests : told \intersect pending \in SUBSET Requests
        BY <1>1
      <3>3. {Head(down).of} \intersect pending \in SUBSET Requests
        BY <1>1
      <3> QED BY <1>1, <3>1, <3>3, SettleType DEF SettleSubmission, TypeOK
    <2>4. UNCHANGED <<sock, timer, up, midway, agentVars, asked>>
      BY <1>5 DEF Receive, Keep
    <2> QED BY <2>1, <2>2, <2>3, <2>4
            DEF TypeOK, PageType, AgentType, agentVars
  <1>6. ASSUME NEW r \in Requests, Submit(r)
        PROVE  TypeOK'
    <2>1. up' \in Seq(Requests) /\ pending' \in SUBSET Requests
      <3>1. \/ pending' = pending \union {r} /\ up' = Append(up, r)
            \/ pending' = pending /\ up' = up
        BY <1>6 DEF Submit, SendText
      <3>2. up' \in Seq(Requests)
        BY <1>1, <3>1, SeqMoves
      <3> QED BY <1>1, <3>1, <3>2
    <2>2. asked' \in SUBSET All
      BY <1>1, <1>6 DEF Submit, All
    <2>3. UNCHANGED <<sock, timer, settled, store, down, midway, agentVars>>
      BY <1>6 DEF Submit
    <2> QED BY <2>1, <2>2, <2>3 DEF TypeOK, PageType, AgentType, agentVars
  <1> QED BY <1>3, <1>4, <1>5, <1>6 DEF Page

LEMMA OfferOne ==
    ASSUME TypeOK, NEW m \in Messages, Offer(<<m>>)
    PROVE  down' = down \/ (sock = "open" /\ down' = Append(down, m))
  BY DEF TypeOK, PageType, Offer

LEMMA OfferTwo ==
    ASSUME TypeOK, NEW m \in Messages, NEW n \in Messages, Offer(<<m, n>>)
    PROVE  \/ down' = down /\ sock # "open"
           \/ sock = "open" /\ down' = Append(Append(down, m), n)
              /\ Append(down, m) \in Seq(Messages)
  BY DEF TypeOK, PageType, Offer

LEMMA EnqueueType ==
    ASSUME TypeOK, NEW r \in All, Enqueue(r)
    PROVE  queue' \in Seq(All) /\ history' \in Seq(Texts)
  <1>1. Question(r) \in Texts /\ history \in Seq(Texts) /\ queue \in Seq(All)
    BY MessageTypes DEF TypeOK, AgentType
  <1> HIDE DEF Question
  <1> QED BY <1>1 DEF Enqueue

(* What the agent puts on the page's connection.                           *)
LEMMA AgentOffers ==
    ASSUME TypeOK, Agent
    PROVE  \/ down' = down
           \/ Accept
           \/ /\ HandleText /\ sock = "open"
              /\ down' = Append(Append(down, Asks(Head(up))),
                                [kind |-> "accepted", of |-> Head(up)])
           \/ \E m \in Plain : sock = "open" /\ down' = Append(down, m)
           \/ \E m, n \in Plain :
                sock = "open" /\ down' = Append(Append(down, m), n)
  <1>1. /\ up \in Seq(Requests) /\ queue \in Seq(All)
        /\ worker.step # "idle" => worker.of \in All
        /\ worker.tool # "none" => worker.of \in Tooled
        /\ worker.sent \in Nat
    BY DEF TypeOK, AgentType
  <1> Plain \subseteq Messages
    BY DEF Plain
  <1>2. CASE HandleText
    <2>1. Head(up) \in All
      BY <1>1, <1>2, SeqFacts DEF HandleText, All
    <2>2. /\ Asks(Head(up)) \in Messages
          /\ [kind |-> "accepted", of |-> Head(up)] \in Messages
          /\ [kind |-> "error", of |-> Head(up)] \in Plain
      BY <2>1, MessageTypes
    <2>3. \/ Offer(<<Asks(Head(up)), [kind |-> "accepted", of |-> Head(up)]>>)
          \/ Offer(<<[kind |-> "error", of |-> Head(up)]>>)
      BY <1>2 DEF HandleText
    <2> HIDE DEF Asks
    <2> QED BY <1>2, <2>2, <2>3, OfferOne, OfferTwo
  <1>3. CASE \E r \in Others : OtherAsks(r)
    <2>1. PICK r \in Others : Offer(<<Asks(r)>>)
      BY <1>3 DEF OtherAsks
    <2>2. Asks(r) \in Plain
      BY MessageTypes DEF All
    <2> QED BY <2>1, <2>2, OfferOne
  <1>4. CASE Take
    <2>1. Head(queue) \in All
      BY <1>1, <1>4, SeqFacts DEF Take
    <2>2. [kind |-> "started", of |-> Head(queue)] \in Plain
      BY <2>1, MessageTypes
    <2>3. Offer(<<[kind |-> "started", of |-> Head(queue)]>>)
      BY <1>4 DEF Take
    <2> QED BY <2>2, <2>3, OfferOne
  <1>5. CASE SendDelta
    <2>1. [kind |-> "delta", of |-> worker.of, part |-> worker.sent + 1]
              \in Plain
      BY <1>1, <1>5, MessageTypes DEF SendDelta, Working
    <2>2. Offer(<<[kind |-> "delta", of |-> worker.of,
                   part |-> worker.sent + 1]>>)
      BY <1>5 DEF SendDelta
    <2> QED BY <2>1, <2>2, OfferOne
  <1>6. CASE StartTool \/ EndTool
    <2>1. PICK c \in Calls :
            Offer(<<[kind |-> "tool", of |-> worker.of, status |-> c]>>)
      BY <1>6 DEF StartTool, EndTool, Calls
    <2>2. [kind |-> "tool", of |-> worker.of, status |-> c] \in Plain
      BY <1>1, <1>6, MessageTypes DEF StartTool, EndTool
    <2> QED BY <2>1, <2>2, OfferOne
  <1>7. CASE Complete
    <2>1. [kind |-> "completed", of |-> worker.of] \in Plain
      BY <1>1, <1>7, MessageTypes DEF Complete, Working
    <2>2. Offer(<<[kind |-> "completed", of |-> worker.of]>>)
      BY <1>7 DEF Complete
    <2> QED BY <2>1, <2>2, OfferOne
  <1>8. CASE Fail
    <2>1. /\ [kind |-> "failed", of |-> worker.of] \in Plain
          /\ [kind |-> "error", of |-> worker.of] \in Plain
      BY <1>1, <1>8, MessageTypes DEF Fail, Working
    <2>2. Offer(<<[kind |-> "failed", of |-> worker.of],
                  [kind |-> "error", of |-> worker.of]>>)
      BY <1>8 DEF Fail
    <2> QED BY <2>1, <2>2, OfferTwo
  <1>9. CASE EndTurn
    BY <1>9 DEF EndTurn
  <1> QED BY <1>2, <1>3, <1>4, <1>5, <1>6, <1>7, <1>8, <1>9 DEF Agent

LEMMA TypeAgent ==
    ASSUME TypeOK, Agent
    PROVE  TypeOK'
  <1>1. /\ up \in Seq(Requests) /\ queue \in Seq(All) /\ history \in Seq(Texts)
        /\ worker \in [of : All \union {None}, sent : Nat, tool : Calls,
                       step : {"idle", "working", "syncing"}]
        /\ worker.step # "idle" \/ worker.sent # 0 => worker.of \in All
        /\ worker.tool # "none" => worker.of \in Tooled
        /\ midway \in SUBSET All /\ asked \in SUBSET All
        /\ down \in Seq(Messages)
    BY DEF TypeOK, PageType, AgentType
  <1>2. CASE Accept
    <2>1. [kind |-> "hello", messages |-> history] \in Messages
      BY <1>1, MessageTypes
    <2>2. down' \in Seq(Messages)
      BY <1>2, <2>1, SeqFacts DEF Accept
    <2>3. midway' \in SUBSET All
      BY <1>1, <1>2 DEF Accept
    <2> QED BY <1>2, <2>2, <2>3 DEF Accept, Keep, TypeOK, PageType, AgentType,
            agentVars
  <1>3. CASE ~Accept
    <2>1. down' \in Seq(Messages)
      <3>1. CASE down' = down
        BY <1>1, <3>1
      <3>2. ASSUME NEW m \in Messages
            PROVE  Append(down, m) \in Seq(Messages)
        BY <1>1
      <3>3. ASSUME NEW m \in Messages, NEW n \in Messages
            PROVE  Append(Append(down, m), n) \in Seq(Messages)
        BY <3>2
      <3>4. CASE HandleText
        <4>1. Head(up) \in All
          BY <1>1, <3>4, SeqFacts DEF HandleText, All
        <4>2. /\ Asks(Head(up)) \in Plain
              /\ [kind |-> "accepted", of |-> Head(up)] \in Messages
          BY <4>1, MessageTypes
        <4> QED BY <1>3, <3>1, <3>2, <3>3, <4>2, AgentOffers DEF Plain
      <3>5. CASE ~HandleText
        BY <1>3, <3>1, <3>2, <3>3, <3>5, AgentOffers DEF Plain
      <3> QED BY <3>4, <3>5
    <2>2. UNCHANGED <<sock, timer, pending, settled, store, midway>>
      BY <1>3 DEF Agent, HandleText, OtherAsks, Take, SendDelta, StartTool,
         EndTool, Complete, EndTurn, Fail, AgentKeeps, pageVars
    <2>3. up' \in Seq(Requests)
      <3>1. up' = up \/ (up # <<>> /\ up' = Tail(up))
        BY <1>3 DEF Agent, HandleText, OtherAsks, Take, SendDelta, StartTool,
           EndTool, Complete, EndTurn, Fail
      <3> QED BY <1>1, <3>1, SeqMoves
    <2>4. asked' \in SUBSET All
      BY <1>1, <1>3 DEF Agent, HandleText, OtherAsks, Take, SendDelta,
         StartTool, EndTool, Complete, EndTurn, Fail, AgentKeeps, All
    <2>5. queue' \in Seq(All) /\ history' \in Seq(Texts)
      <3>1. CASE HandleText
        <4>1. Head(up) \in All
          BY <1>1, <3>1, SeqFacts DEF HandleText, All
        <4> QED BY <1>1, <3>1, <4>1, EnqueueType DEF HandleText
      <3>2. CASE \E r \in Others : OtherAsks(r)
        BY <3>2, EnqueueType DEF OtherAsks, All
      <3>3. CASE Take
        BY <1>1, <3>3, SeqFacts DEF Take
      <3>4. CASE Complete
        <4>1. Answer(worker.of, Parts(worker.sent)) \in Texts
          BY <1>1, <3>4, PartsType, MessageTypes DEF Complete, Working
        <4> HIDE DEF Answer
        <4> QED BY <1>1, <3>4, <4>1 DEF Complete
      <3>5. CASE SendDelta \/ StartTool \/ EndTool \/ EndTurn \/ Fail
        BY <1>1, <3>5 DEF SendDelta, StartTool, EndTool, EndTurn, Fail
      <3> QED BY <1>3, <3>1, <3>2, <3>3, <3>4, <3>5 DEF Agent
    <2>6. /\ worker' \in [of : All \union {None}, sent : Nat, tool : Calls,
                          step : {"idle", "working", "syncing"}]
          /\ worker'.step # "idle" \/ worker'.sent # 0 => worker'.of \in All
          /\ worker'.tool # "none" => worker'.of \in Tooled
      <3>1. Resting \in [of : All \union {None}, sent : Nat, tool : Calls,
                         step : {"idle", "working", "syncing"}]
        BY DEF Resting, Calls
      <3>2. CASE HandleText \/ \E r \in Others : OtherAsks(r)
        BY <1>1, <3>2 DEF HandleText, OtherAsks
      <3>3. CASE Take
        <4>1. Head(queue) \in All
          BY <1>1, <3>3, SeqFacts DEF Take
        <4> QED BY <3>3, <4>1 DEF Take, Resting, Calls
      <3>4. CASE SendDelta \/ Complete
        <4>1. /\ worker.of \in All
              /\ \/ worker' = [worker EXCEPT !.sent = worker.sent + 1]
                 \/ worker' = [worker EXCEPT !.step = "syncing"]
          BY <1>1, <3>4 DEF SendDelta, Complete, Working
        <4> QED BY <1>1, <4>1
      <3>5. CASE StartTool \/ EndTool
        <4>1. /\ worker.of \in Tooled
              /\ \E c \in Calls : worker' = [worker EXCEPT !.tool = c]
          BY <1>1, <3>5 DEF StartTool, EndTool, Calls
        <4> QED BY <1>1, <4>1
      <3>6. CASE EndTurn \/ Fail
        BY <3>1, <3>6 DEF EndTurn, Fail, Resting
      <3> QED BY <1>3, <3>2, <3>3, <3>4, <3>5, <3>6 DEF Agent
    <2> QED BY <2>1, <2>2, <2>3, <2>4, <2>5, <2>6
            DEF TypeOK, PageType, AgentType
  <1> QED BY <1>2, <1>3

LEMMA TypeFaults ==
    ASSUME TypeOK, Lose \/ RestartAgent \/ UNCHANGED vars
    PROVE  TypeOK'
  <1>1. CASE Lose
    <2>1. down' \in Seq(Messages)
      BY <1>1 DEF Lose, TypeOK, PageType
    <2>2. up' \in Seq(Requests)
      BY <1>1 DEF Lose
    <2> QED BY <1>1, <2>1, <2>2 DEF Lose, Keep, TypeOK, PageType, AgentType,
            agentVars
  <1>2. CASE RestartAgent
    <2>1. /\ down' \in Seq(Messages) /\ up' \in Seq(Requests)
          /\ queue' \in Seq(All) /\ history' \in Seq(Texts)
          /\ worker' = Resting
      BY <1>2 DEF RestartAgent
    <2>2. /\ worker' \in [of : All \union {None}, sent : Nat, tool : Calls,
                          step : {"idle", "working", "syncing"}]
          /\ worker'.step = "idle" /\ worker'.tool = "none"
          /\ worker'.sent = 0
      BY <2>1 DEF Resting, Calls
    <2>3. sock' \in {"none", "opening", "open", "dead"}
      BY <1>2 DEF RestartAgent
    <2> QED BY <1>2, <2>1, <2>2, <2>3
            DEF RestartAgent, TypeOK, PageType, AgentType
  <1>3. CASE UNCHANGED vars
    BY <1>3 DEF vars, pageVars, agentVars, TypeOK, PageType, AgentType
  <1> QED BY <1>1, <1>2, <1>3

LEMMA TypeNext ==
    ASSUME TypeOK, [Next]_vars
    PROVE  TypeOK'
  BY TypePage, TypeAgent, TypeFaults DEF Next

(* Every variable of the page and of its agent keeps its type.             *)
THEOREM TypeCorrect == Spec => []TypeOK
  BY TypeInit, TypeNext, PTL DEF Spec

-----------------------------------------------------------------------------
(***************************************************************************)
(* Submissions and their answers                                           *)
(***************************************************************************)
LEMMA AcceptsMoves ==
    ASSUME NEW q \in Seq(Messages), NEW m \in Messages, NEW r
    PROVE  /\ \A i : Accepts(Append(q, m), i, r) <=>
                        \/ Accepts(q, i, r)
                        \/ /\ i = Len(q) + 1 /\ m.kind = "accepted"
                           /\ m.of = r
           /\ q # <<>> => \A i : Accepts(Tail(q), i, r) =>
                                    Accepts(q, i + 1, r)
           /\ \A n \in 0 .. Len(q) : \A i :
                  Accepts(SubSeq(q, 1, n), i, r) => Accepts(q, i, r) /\ i <= n
  <1>1. \A i : i \in DOMAIN Append(q, m) =>
            \/ i \in DOMAIN q /\ Append(q, m)[i] = q[i] /\ i # Len(q) + 1
            \/ i = Len(q) + 1 /\ Append(q, m)[i] = m
    OBVIOUS
  <1>2. \A i : i \in DOMAIN q \/ i = Len(q) + 1 => i \in DOMAIN Append(q, m)
    OBVIOUS
  <1>3. \A i : Accepts(Append(q, m), i, r) <=>
                  \/ Accepts(q, i, r)
                  \/ i = Len(q) + 1 /\ m.kind = "accepted" /\ m.of = r
    BY <1>1, <1>2 DEF Accepts
  <1>4. \A n \in 0 .. Len(q) : \A i \in DOMAIN SubSeq(q, 1, n) :
            i \in DOMAIN q /\ i <= n /\ SubSeq(q, 1, n)[i] = q[i]
    OBVIOUS
  <1>5. q # <<>> => \A i : Accepts(Tail(q), i, r) => Accepts(q, i + 1, r)
    BY SeqFacts DEF Accepts
  <1>6. \A n \in 0 .. Len(q) : \A i :
            Accepts(SubSeq(q, 1, n), i, r) => Accepts(q, i, r) /\ i <= n
    BY <1>4 DEF Accepts
  <1> QED BY <1>3, <1>5, <1>6

LEMMA HelloMoves ==
    ASSUME NEW q \in Seq(Messages), HelloFirst(q)
    PROVE  /\ \A m \in Messages : m.kind # "hello" =>
                  /\ HelloFirst(Append(q, m))
                  /\ HasHello(Append(q, m)) <=> HasHello(q)
                  /\ HasHello(q) => Append(q, m)[1] = q[1]
           /\ q # <<>> => HelloFirst(Tail(q)) /\ ~HasHello(Tail(q))
           /\ \A n \in 0 .. Len(q) :
                  /\ HelloFirst(SubSeq(q, 1, n))
                  /\ HasHello(SubSeq(q, 1, n)) =>
                         HasHello(q) /\ SubSeq(q, 1, n)[1] = q[1]
  <1>1. ASSUME NEW m \in Messages, m.kind # "hello"
        PROVE  /\ HelloFirst(Append(q, m))
               /\ HasHello(Append(q, m)) <=> HasHello(q)
               /\ HasHello(q) => Append(q, m)[1] = q[1]
    <2>1. \A i : i \in DOMAIN Append(q, m) =>
              \/ i \in DOMAIN q /\ Append(q, m)[i] = q[i]
              \/ i = Len(q) + 1 /\ Append(q, m)[i] = m
      OBVIOUS
    <2>2. HelloFirst(Append(q, m))
      BY <1>1, <2>1 DEF HelloFirst
    <2>3. q # <<>> => Append(q, m)[1] = q[1]
      OBVIOUS
    <2>4. q = <<>> => Append(q, m)[1] = m
      OBVIOUS
    <2>5. Append(q, m) # <<>>
      <3>1. Len(Append(q, m)) # 0 /\ Len(<<>>) = 0
        OBVIOUS
      <3> QED BY <3>1
    <2> QED BY <1>1, <2>2, <2>3, <2>4, <2>5 DEF HasHello
  <1>2. ASSUME q # <<>>
        PROVE  HelloFirst(Tail(q)) /\ ~HasHello(Tail(q))
    <2>1. \A i \in DOMAIN Tail(q) : i + 1 \in DOMAIN q /\ i + 1 # 1
                                    /\ Tail(q)[i] = q[i + 1]
      BY <1>2
    <2>2. \A i \in DOMAIN Tail(q) : Tail(q)[i].kind # "hello"
      BY <2>1 DEF HelloFirst
    <2>3. Tail(q) # <<>> => 1 \in DOMAIN Tail(q)
      BY <1>2
    <2> QED BY <2>2, <2>3 DEF HelloFirst, HasHello
  <1>3. ASSUME NEW n \in 0 .. Len(q)
        PROVE  /\ HelloFirst(SubSeq(q, 1, n))
               /\ HasHello(SubSeq(q, 1, n)) =>
                      HasHello(q) /\ SubSeq(q, 1, n)[1] = q[1]
    <2>1. \A i \in DOMAIN SubSeq(q, 1, n) :
              i \in DOMAIN q /\ SubSeq(q, 1, n)[i] = q[i]
      OBVIOUS
    <2>2. SubSeq(q, 1, n) # <<>> => q # <<>> /\ SubSeq(q, 1, n)[1] = q[1]
      OBVIOUS
    <2> QED BY <2>1, <2>2 DEF HelloFirst, HasHello
  <1> QED BY <1>1, <1>2, <1>3

LEMMA QuestionsAre ==
    /\ \A r, s : Asks(r) = Asks(s) <=> r = s
    /\ \A r, p : \A h \in Seq(Texts) : p \in Seq(Nat) =>
          \A s : Has(Append(h, Answer(r, p)), Question(s)) => Has(h, Question(s))
    /\ \A r, s : \A h \in Seq(Texts) :
          Has(Append(h, Question(r)), Question(s)) => r = s \/ Has(h, Question(s))
  <1>1. \A r, s : Asks(r) = Asks(s) => r = s
    <2>1. \A r : Asks(r).message = Question(r) /\ Question(r).id = r
      BY DEF Asks, Question
    <2> QED BY <2>1
  <1>2. \A m : \A h \in Seq(Texts) : \A i \in DOMAIN Append(h, m) :
            \/ i \in DOMAIN h /\ Append(h, m)[i] = h[i]
            \/ Append(h, m)[i] = m
    OBVIOUS
  <1>3. \A m, x : \A h \in Seq(Texts) :
            Has(Append(h, m), x) => SameId(m, x) \/ Has(h, x)
    BY <1>2 DEF Has
  <1>4. /\ \A r, p, s : ~SameId(Answer(r, p), Question(s))
        /\ \A r, s : SameId(Question(r), Question(s)) => r = s
    BY DEF SameId, Answer, Question
  <1> QED BY <1>1, <1>3, <1>4

LEMMA AnnouncedMoves ==
    ASSUME NEW q \in Seq(Messages), HelloFirst(q), NEW messages,
           Announced(messages, q)
    PROVE  /\ \A m \in Plain : Announced(messages, Append(q, m))
           /\ \A n \in 0 .. Len(q) : Announced(messages, SubSeq(q, 1, n))
  <1>1. ASSUME NEW m \in Plain
        PROVE  Announced(messages, Append(q, m))
    <2>1. m \in Messages /\ m.kind \notin {"hello", "accepted"}
      BY DEF Plain
    <2>2. HasHello(Append(q, m)) <=> HasHello(q)
      BY <2>1, HelloMoves
    <2>3. \A j \in DOMAIN q : j \in DOMAIN Append(q, m)
                              /\ Append(q, m)[j] = q[j]
      OBVIOUS
    <2> QED BY <2>1, <2>2, <2>3, AcceptsMoves DEF Announced, Accepts
  <1>2. ASSUME NEW n \in 0 .. Len(q)
        PROVE  Announced(messages, SubSeq(q, 1, n))
    <2>1. HasHello(SubSeq(q, 1, n)) => HasHello(q)
      BY HelloMoves
    <2>2. \A i, j : i \in DOMAIN q /\ i <= n /\ j \in DOMAIN q /\ j < i =>
              j \in DOMAIN SubSeq(q, 1, n) /\ SubSeq(q, 1, n)[j] = q[j]
      <3>1. \A j \in 1 .. n : j \in DOMAIN SubSeq(q, 1, n)
                              /\ SubSeq(q, 1, n)[j] = q[j]
        OBVIOUS
      <3>2. DOMAIN q = 1 .. Len(q) /\ n \in Nat
        OBVIOUS
      <3> QED BY <3>1, <3>2
    <2> QED BY <2>1, <2>2, AcceptsMoves DEF Announced, Accepts
  <1> QED BY <1>1, <1>2

(* The agent answers the question it has just announced.                   *)
LEMMA AnnouncedBoth ==
    ASSUME NEW q \in Seq(Messages), HelloFirst(q), NEW messages,
           Announced(messages, q), NEW r \in All
    PROVE  Announced(messages, Append(Append(q, Asks(r)),
                                      [kind |-> "accepted", of |-> r]))
  <1> DEFINE a == Asks(r)
             b == [kind |-> "accepted", of |-> r]
             p == Append(q, a)
  <1>1. a \in Plain /\ b \in Messages /\ b.of = r /\ b.kind = "accepted"
    BY MessageTypes
  <1>2. a \in Messages
    BY <1>1 DEF Plain
  <1>3. /\ p \in Seq(Messages) /\ p[Len(p)] = a /\ Len(p) \in DOMAIN p
        /\ Len(p) \in Nat
    BY <1>2
  <1>4. Announced(messages, p) /\ HelloFirst(p)
    BY <1>1, <1>2, AnnouncedMoves, HelloMoves DEF Plain
  <1>5. a = Asks(r)
    OBVIOUS
  <1> HIDE DEF a, b, p
  <1>6. HasHello(Append(p, b)) <=> HasHello(p)
    BY <1>1, <1>3, <1>4, HelloMoves
  <1>7. \A j \in DOMAIN p : /\ j \in DOMAIN Append(p, b)
                            /\ Append(p, b)[j] = p[j] /\ j < Len(p) + 1
    BY <1>3
  <1>8. ASSUME NEW i \in DOMAIN Append(p, b), NEW s \in Requests,
               Accepts(Append(p, b), i, s)
        PROVE  \/ \E j \in DOMAIN Append(p, b) : j < i
                                                /\ Append(p, b)[j] = Asks(s)
               \/ ~HasHello(Append(p, b)) /\ Has(messages, Question(s))
    <2>1. CASE Accepts(p, i, s)
      BY <1>4, <1>6, <1>7, <2>1 DEF Announced, Accepts
    <2>2. CASE i = Len(p) + 1 /\ r = s
      BY <1>3, <1>5, <1>7, <2>2
    <2> QED BY <1>1, <1>3, <1>8, <2>1, <2>2, AcceptsMoves
  <1> QED BY <1>8 DEF Announced, a, b, p

(* The page has read the first message.                                    *)
LEMMA AnnouncedTail ==
    ASSUME NEW q \in Seq(Messages), q # <<>>, HelloFirst(q), NEW old, NEW new,
           Announced(old, q),
           Head(q).kind # "hello" => \A x : Has(old, x) => Has(new, x),
           Head(q).kind = "message" => Has(new, Head(q).message)
    PROVE  Announced(new, Tail(q))
  <1>1. ~HasHello(Tail(q)) /\ Head(q) = q[1]
    BY HelloMoves, SeqFacts
  <1>2. \A j \in DOMAIN q : j = 1 \/ (j - 1 \in DOMAIN Tail(q)
                                      /\ Tail(q)[j - 1] = q[j])
    OBVIOUS
  <1>3. ASSUME NEW i \in DOMAIN Tail(q), NEW r \in Requests,
               Accepts(Tail(q), i, r)
        PROVE  \/ \E j \in DOMAIN Tail(q) : j < i /\ Tail(q)[j] = Asks(r)
               \/ ~HasHello(Tail(q)) /\ Has(new, Question(r))
    <2>1. Accepts(q, i + 1, r) /\ i \in Nat
      BY <1>3, AcceptsMoves, SeqFacts DEF Accepts
    <2>2. \/ \E j \in DOMAIN q : j < i + 1 /\ q[j] = Asks(r)
          \/ ~HasHello(q) /\ Has(old, Question(r))
      BY <2>1 DEF Announced, Accepts
    <2>3. CASE ~HasHello(q) /\ Has(old, Question(r))
      BY <1>1, <2>3 DEF HasHello
    <2>4. ASSUME NEW j \in DOMAIN q, j < i + 1, q[j] = Asks(r)
          PROVE  \/ \E k \in DOMAIN Tail(q) : k < i /\ Tail(q)[k] = Asks(r)
                 \/ ~HasHello(Tail(q)) /\ Has(new, Question(r))
      <3>1. CASE j = 1
        <4>1. /\ Head(q) = Asks(r) /\ Asks(r).kind = "message"
              /\ Asks(r).message = Question(r)
          BY <1>1, <2>4, <3>1 DEF Asks
        <4> QED BY <1>1, <4>1
      <3>2. CASE j # 1
        <4>1. j - 1 \in DOMAIN Tail(q) /\ Tail(q)[j - 1] = Asks(r)
          BY <1>2, <2>4, <3>2
        <4>2. j - 1 < i
          BY <2>1, <2>4
        <4> QED BY <4>1, <4>2
      <3> QED BY <3>1, <3>2
    <2> QED BY <2>2, <2>3, <2>4
  <1> QED BY <1>3 DEF Announced

LEMMA AskingInit ==
    ASSUME Init
    PROVE  Asking
  <1>1. down = <<>> /\ up = <<>> /\ pending = {} /\ sock = "none"
        /\ settled = [r \in Requests |-> "none"]
    BY DEF Init
  <1>2. Connected /\ SubmittedOnce
    BY <1>1 DEF Connected, SubmittedOnce, HelloFirst, Accepts
  <1>3. Announced(store.messages, down) /\ Brought
    BY <1>1 DEF Announced, Brought, HasHello
  <1> QED BY <1>2, <1>3 DEF Asking

(* What is left of a connection that breaks or is retired.                 *)
LessOf(q) == {q, <<>>} \union {SubSeq(q, 1, n) : n \in 0 .. Len(q)}

LEMMA LessIs ==
    ASSUME NEW q \in Seq(Messages), HelloFirst(q), NEW p \in LessOf(q)
    PROVE  /\ HelloFirst(p) /\ (HasHello(p) => HasHello(q) /\ p[1] = q[1])
           /\ \A i, r : Accepts(p, i, r) => Accepts(q, i, r)
           /\ \A h : Announced(h, q) => Announced(h, p)
  <1>1. CASE p = q
    BY <1>1
  <1>2. CASE p = <<>>
    BY <1>2 DEF HelloFirst, HasHello, Accepts, Announced
  <1>3. ASSUME NEW n \in 0 .. Len(q), p = SubSeq(q, 1, n)
        PROVE  /\ HelloFirst(p) /\ (HasHello(p) => HasHello(q) /\ p[1] = q[1])
               /\ \A i, r : Accepts(p, i, r) => Accepts(q, i, r)
               /\ \A h : Announced(h, q) => Announced(h, p)
    <2>1. \A i, r : Accepts(p, i, r) => Accepts(q, i, r)
      <3>1. <<>> \in Seq(Messages)
        OBVIOUS
      <3>2. \A i \in DOMAIN p : i \in DOMAIN q /\ p[i] = q[i]
        BY <1>3
      <3> QED BY <3>2 DEF Accepts
    <2> QED BY <1>3, <2>1, HelloMoves, AnnouncedMoves
  <1> QED BY <1>1, <1>2, <1>3 DEF LessOf

(* A step of the page that only ends, or looks for, a connection.          *)
LEMMA AskingQuiet ==
    ASSUME TypeOK, Asking, down' \in LessOf(down), timer' => sock' = "none",
           sock' \in {"none", "opening"} => down' = <<>>,
           store'.messages = store.messages, asked' = asked,
           history' = history \/ history' = <<>>,
           up' = up \/ up' = <<>>, pending' \subseteq pending,
           \A r \in Requests : \/ settled'[r] = settled[r]
                               \/ /\ r \in pending /\ r \notin pending'
                                  /\ settled'[r] = "rejected"
    PROVE  Asking'
  <1>1. /\ down \in Seq(Messages) /\ up \in Seq(Requests)
        /\ HelloFirst(down) /\ Announced(store.messages, down)
        /\ pending \subseteq Requests
    BY DEF TypeOK, PageType, AgentType, Asking, Connected
  <1>2. /\ HelloFirst(down')
        /\ HasHello(down') => HasHello(down) /\ down'[1] = down[1]
        /\ \A k, r : Accepts(down', k, r) => Accepts(down, k, r)
        /\ Announced(store.messages, down')
    BY <1>1, LessIs
  <1>3. Connected'
    BY <1>2 DEF Connected
  <1>4. SubmittedOnce'
    <2>1. pending' \subseteq asked /\ \A r \in pending' : settled'[r] = "none"
      BY <1>1 DEF Asking, SubmittedOnce
    <2>2. \A r \in Requests \ asked : settled'[r] = "none"
      BY DEF Asking, SubmittedOnce
    <2>3. CASE up' = up
      <3>1. \A i \in DOMAIN up : up[i] \in Requests
        BY <1>1
      <3>2. \A i \in DOMAIN up : settled'[up[i]] # "accepted"
        BY <3>1 DEF Asking, SubmittedOnce
      <3>3. \A k, r : Accepts(down', k, r) => k \in DOMAIN down
        BY <1>2 DEF Accepts
      <3> QED BY <1>2, <2>1, <2>2, <2>3, <3>2, <3>3 DEF Asking, SubmittedOnce
    <2>4. CASE up' = <<>>
      <3>1. \A k, r : Accepts(down', k, r) => k \in DOMAIN down
        BY <1>2 DEF Accepts
      <3> QED BY <1>2, <2>1, <2>2, <2>4, <3>1 DEF Asking, SubmittedOnce
    <2> QED BY <2>3, <2>4
  <1>5. Announced(store'.messages, down')
    BY <1>2
  <1>6. Brought'
    <2>1. \A x : Has(history', x) => Has(history, x)
      BY DEF Has
    <2> QED BY <1>2, <2>1 DEF Asking, Brought
  <1> QED BY <1>3, <1>4, <1>5, <1>6 DEF Asking

LEMMA AskingPage ==
    ASSUME TypeOK, Asking,
           \/ OpenSocket \/ OpenFails \/ LeaveOverview \/ Closed \/ Remount
           \/ Lose \/ RestartAgent \/ UNCHANGED vars
    PROVE  Asking'
  <1>1. /\ down' \in LessOf(down) /\ store'.messages = store.messages
        /\ asked' = asked /\ (history' = history \/ history' = <<>>)
        /\ up' = up \/ up' = <<>>
    BY DEF OpenSocket, OpenFails, LeaveOverview, Closed, Remount, RetireSocket,
       Lose, RestartAgent, vars, pageVars, agentVars, Keep, LessOf, TypeOK,
       PageType, Stores
  <1>2. timer' => sock' = "none"
    BY DEF OpenSocket, OpenFails, LeaveOverview, Closed, Remount,
       Lose, RestartAgent, vars, pageVars, Asking, Connected
  <1>3. sock' \in {"none", "opening"} => down' = <<>>
    BY DEF OpenSocket, OpenFails, LeaveOverview, Closed, Remount, RetireSocket,
       Lose, RestartAgent, vars, pageVars, Asking, Connected
  <1>4. /\ pending' \subseteq pending
        /\ \A r \in Requests : \/ settled'[r] = settled[r]
                               \/ /\ r \in pending /\ r \notin pending'
                                  /\ settled'[r] = "rejected"
    BY DEF OpenSocket, OpenFails, LeaveOverview, Closed, Remount, RetireSocket,
       RejectPending, Settle, Lose, RestartAgent, vars, pageVars
  <1> QED BY <1>1, <1>2, <1>3, <1>4, AskingQuiet

LEMMA AskingSubmit ==
    ASSUME TypeOK, Asking, NEW r \in Requests, Submit(r)
    PROVE  Asking'
  <1>1. /\ up \in Seq(Requests) /\ down \in Seq(Messages)
        /\ r \notin asked /\ asked' = asked \union {r}
        /\ UNCHANGED <<sock, timer, settled, store, down, history>>
    BY DEF TypeOK, PageType, AgentType, Submit, agentVars
  <1>2. \/ pending' = pending \union {r} /\ up' = Append(up, r)
        \/ pending' = pending /\ up' = up
    BY DEF Submit, SendText
  <1>3. /\ settled[r] = "none"
        /\ \A i \in DOMAIN up : up[i] # r
        /\ \A k \in DOMAIN down : ~Accepts(down, k, r)
    BY <1>1 DEF Asking, SubmittedOnce
  <1>4. \A i \in DOMAIN up' : \/ i \in DOMAIN up /\ up'[i] = up[i]
                              \/ /\ i \notin DOMAIN up /\ i = Len(up) + 1
                                 /\ up'[i] = r
    BY <1>1, <1>2
  <1>5. SubmittedOnce'
    <2>1. /\ pending' \subseteq asked'
          /\ \A s \in pending' : settled'[s] = "none"
          /\ \A s \in Requests \ asked' : settled'[s] = "none"
      BY <1>1, <1>2, <1>3 DEF Asking, SubmittedOnce
    <2>2. \A i \in DOMAIN up' :
            /\ up'[i] \in asked' /\ settled'[up'[i]] # "accepted"
            /\ \A k \in DOMAIN down' : ~Accepts(down', k, up'[i])
            /\ \A j \in DOMAIN up' : up'[j] = up'[i] => j = i
      BY <1>1, <1>3, <1>4 DEF Asking, SubmittedOnce
    <2>3. \A k \in DOMAIN down', s \in Requests :
            Accepts(down', k, s) => s \in asked'
      BY <1>1 DEF Asking, SubmittedOnce
    <2> QED BY <2>1, <2>2, <2>3 DEF SubmittedOnce
  <1>6. Connected' /\ Announced(store'.messages, down') /\ Brought'
    BY <1>1 DEF Asking, Connected, Brought
  <1> QED BY <1>5, <1>6 DEF Asking

LEMMA AskingReceive ==
    ASSUME TypeOK, Asking, Receive
    PROVE  Asking'
  <1> DEFINE m == Head(down)
  <1>1. /\ down \in Seq(Messages) /\ up \in Seq(Requests) /\ down # <<>>
        /\ m \in Messages /\ store \in Stores /\ m = down[1]
        /\ HelloFirst(down) /\ sock \in {"open", "dead"}
        /\ pending \subseteq Requests
        /\ settled \in [Requests -> {"none", "accepted", "rejected"}]
    BY SeqFacts DEF TypeOK, PageType, AgentType, Receive, Asking, Connected
  <1>2. /\ down' = Tail(down) /\ store' = Reduce(store, m)
        /\ UNCHANGED <<sock, timer, up, history, asked>>
        /\ SettleSubmission(m)
    BY DEF Receive, Keep, agentVars
  <1>3. HelloFirst(down') /\ ~HasHello(down')
    BY <1>1, <1>2, HelloMoves
  <1> HIDE DEF m
  <1>4. /\ pending' \subseteq pending
        /\ \A r \in Requests :
             \/ settled'[r] = settled[r]
             \/ /\ r \in pending /\ r \notin pending' /\ settled'[r] = "rejected"
             \/ /\ r \in pending /\ r \notin pending' /\ settled'[r] = "accepted"
                /\ m.kind = "accepted" /\ m.of = r
    BY <1>1, <1>2 DEF SettleSubmission, Settle
  <1>5. Connected'
    BY <1>1, <1>2, <1>3 DEF Asking, Connected
  <1>6. SubmittedOnce'
    <2>1. /\ pending' \subseteq asked' /\ \A r \in pending' : settled'[r] = "none"
          /\ \A r \in Requests \ asked' : settled'[r] = "none"
      BY <1>1, <1>2, <1>4 DEF Asking, SubmittedOnce
    <2>2. \A k, r : Accepts(down', k, r) =>
              Accepts(down, k + 1, r) /\ k + 1 \in DOMAIN down
      BY <1>1, <1>2, AcceptsMoves DEF Accepts
    <2>3. \A r : m.kind = "accepted" /\ m.of = r => Accepts(down, 1, r)
                                                    /\ 1 \in DOMAIN down
      BY <1>1 DEF Accepts
    <2>4. \A i \in DOMAIN up : settled'[up[i]] # "accepted"
      <3>1. \A i \in DOMAIN up : up[i] \in Requests
        BY <1>1
      <3> QED BY <1>4, <2>3, <3>1 DEF Asking, SubmittedOnce
    <2> QED BY <1>2, <2>1, <2>2, <2>4 DEF Asking, SubmittedOnce
  <1>7. Announced(store'.messages, down')
    <2>1. /\ m.kind # "hello" => \A x : Has(store.messages, x) =>
                                           Has(store'.messages, x)
          /\ m.kind = "message" => Has(store'.messages, m.message)
      BY <1>1, <1>2, ReduceIs
    <2> QED BY <1>1, <1>2, <2>1, AnnouncedTail DEF Asking, m
  <1>8. Brought'
    BY <1>3 DEF Brought
  <1> QED BY <1>5, <1>6, <1>7, <1>8 DEF Asking

(* The agent's history has a new question of the page's only when it takes *)
(* up a submission, which was not accepted yet.                            *)
LEMMA NewQuestions ==
    ASSUME TypeOK, Asking, Agent
    PROVE  /\ HandleText => /\ Head(up) \in Requests /\ up # <<>>
                            /\ Head(up) \in asked /\ up' = Tail(up)
                            /\ settled[Head(up)] # "accepted"
                            /\ Head(up) = up[1] /\ 1 \in DOMAIN up
           /\ \A r \in Requests : Has(history', Question(r)) =>
                  Has(history, Question(r)) \/ (HandleText /\ r = Head(up))
  <1>1. /\ up \in Seq(Requests) /\ history \in Seq(Texts) /\ worker.sent \in Nat
    BY DEF TypeOK, AgentType
  <1>2. HandleText => /\ Head(up) \in Requests /\ up # <<>> /\ up' = Tail(up)
                      /\ Head(up) \in asked /\ settled[Head(up)] # "accepted"
                      /\ Head(up) = up[1] /\ 1 \in DOMAIN up
    <2>1. HandleText => up # <<>> /\ up' = Tail(up)
      BY DEF HandleText
    <2>2. up # <<>> => 1 \in DOMAIN up /\ Head(up) = up[1]
                       /\ Head(up) \in Requests
      BY <1>1
    <2> QED BY <2>1, <2>2 DEF Asking, SubmittedOnce
  <1>3. \A r \in Requests : Has(history', Question(r)) =>
            Has(history, Question(r)) \/ (HandleText /\ r = Head(up))
    <2>1. CASE HandleText
      <3>1. history' = history \/ history' = Append(history, Question(Head(up)))
        BY <2>1 DEF HandleText, Enqueue
      <3> QED BY <1>1, <2>1, <3>1, QuestionsAre
    <2>2. ASSUME NEW o \in Others, OtherAsks(o)
          PROVE  \A r \in Requests : Has(history', Question(r)) =>
                                         Has(history, Question(r))
      <3>1. history' = Append(history, Question(o))
        BY <2>2 DEF OtherAsks, Enqueue
      <3>2. \A r \in Requests : r # o
        BY AgentAssumption
      <3> QED BY <1>1, <3>1, <3>2, QuestionsAre
    <2>3. CASE Complete
      <3>1. history' = Append(history, Answer(worker.of, Parts(worker.sent)))
        BY <2>3 DEF Complete
      <3> QED BY <1>1, <3>1, PartsType, QuestionsAre
    <2>4. CASE \/ Take \/ SendDelta \/ StartTool \/ EndTool \/ EndTurn \/ Fail
               \/ Accept
      BY <2>4 DEF Take, SendDelta, StartTool, EndTool, EndTurn, Fail, Accept,
                  Keep, agentVars
    <2> QED BY <2>1, <2>2, <2>3, <2>4 DEF Agent
  <1> QED BY <1>2, <1>3

(* One more message on a connection: p comes of q.                         *)
Extends(p, q) ==
    /\ p \in Seq(Messages) /\ HelloFirst(p)
    /\ HasHello(p) => HasHello(q) /\ p[1] = q[1]
    /\ \A h : Announced(h, q) => Announced(h, p)

LEMMA MoreIs ==
    ASSUME NEW q \in Seq(Messages), HelloFirst(q), NEW m \in Plain
    PROVE  /\ Extends(Append(q, m), q)
           /\ \A k, r : Accepts(Append(q, m), k, r) => Accepts(q, k, r)
  <1>1. m \in Messages /\ m.kind \notin {"hello", "accepted"}
    BY DEF Plain
  <1>2. Append(q, m) \in Seq(Messages)
    BY <1>1
  <1>3. \A h : Announced(h, q) => Announced(h, Append(q, m))
    BY AnnouncedMoves
  <1> QED BY <1>1, <1>2, <1>3, HelloMoves, AcceptsMoves DEF Extends

LEMMA AnswersIs ==
    ASSUME NEW q \in Seq(Messages), HelloFirst(q), NEW s \in All
    PROVE  LET p == Append(Append(q, Asks(s)), [kind |-> "accepted", of |-> s])
           IN  /\ Extends(p, q)
               /\ \A k, r : Accepts(p, k, r) => Accepts(q, k, r) \/ r = s
  <1> DEFINE b == [kind |-> "accepted", of |-> s]
             o == Append(q, Asks(s))
             p == Append(o, b)
  <1>1. Asks(s) \in Plain /\ b \in Messages /\ b.kind = "accepted" /\ b.of = s
    BY MessageTypes
  <1>2. \A h : Announced(h, q) => Announced(h, p)
    BY AnnouncedBoth
  <1> HIDE DEF b
  <1>3. Extends(o, q) /\ \A k, r : Accepts(o, k, r) => Accepts(q, k, r)
    <2> HIDE DEF Asks
    <2> QED BY <1>1, MoreIs
  <1> HIDE DEF o
  <1>4. o \in Seq(Messages) /\ HelloFirst(o)
    BY <1>3 DEF Extends
  <1>5. p \in Seq(Messages)
    BY <1>1, <1>4
  <1>6. /\ HelloFirst(p) /\ (HasHello(p) <=> HasHello(o))
        /\ HasHello(o) => p[1] = o[1]
        /\ \A k, r : Accepts(p, k, r) => Accepts(o, k, r) \/ r = s
    BY <1>1, <1>4, HelloMoves, AcceptsMoves
  <1>7. Extends(p, q) /\ \A k, r : Accepts(p, k, r) => Accepts(q, k, r) \/ r = s
    BY <1>2, <1>3, <1>5, <1>6 DEF Extends
  <1> QED BY <1>7 DEF o, b

(* What the agent does but for accepting a connection or a submission.     *)
LEMMA AskingAgent ==
    ASSUME TypeOK, Asking, Agent, ~Accept
    PROVE  Asking'
  <1>1. /\ down \in Seq(Messages) /\ up \in Seq(Requests)
        /\ history \in Seq(Texts) /\ worker.sent \in Nat
        /\ HelloFirst(down) /\ Announced(store.messages, down)
    BY DEF TypeOK, PageType, AgentType, Asking, Connected
  <1>2. UNCHANGED <<sock, timer, pending, settled, store>>
    BY DEF Agent, HandleText, OtherAsks, Take, SendDelta, StartTool, EndTool,
       Complete, EndTurn, Fail, AgentKeeps, pageVars
  <1>3. \/ up' = up
        \/ HandleText /\ up # <<>> /\ up' = Tail(up)
    BY DEF Agent, HandleText, OtherAsks, Take, SendDelta, StartTool, EndTool,
       Complete, EndTurn, Fail
  <1>4. asked \subseteq asked'
    BY DEF Agent, HandleText, OtherAsks, Take, SendDelta, StartTool, EndTool,
       Complete, EndTurn, Fail, AgentKeeps
  <1>5. HandleText => /\ Head(up) \in Requests /\ up # <<>> /\ up' = Tail(up)
                      /\ Head(up) \in asked /\ settled[Head(up)] # "accepted"
                      /\ Head(up) = up[1] /\ 1 \in DOMAIN up
    BY NewQuestions
  <1>6. \A r \in Requests : Has(history', Question(r)) =>
            Has(history, Question(r)) \/ (HandleText /\ r = Head(up))
    BY NewQuestions
  <1>7. /\ Extends(down', down)
        /\ \A k, r : Accepts(down', k, r) =>
               Accepts(down, k, r) \/ (HandleText /\ r = Head(up))
    <2>1. CASE down' = down
      BY <1>1, <2>1 DEF Extends
    <2>2. ASSUME NEW m \in Plain, down' = Append(down, m)
          PROVE  /\ Extends(down', down)
                 /\ \A k, r : Accepts(down', k, r) => Accepts(down, k, r)
      BY <1>1, <2>2, MoreIs
    <2>3. ASSUME NEW m \in Plain, NEW n \in Plain,
                 down' = Append(Append(down, m), n)
          PROVE  /\ Extends(down', down)
                 /\ \A k, r : Accepts(down', k, r) => Accepts(down, k, r)
      <3> DEFINE o == Append(down, m)
      <3>1. Extends(o, down) /\ \A k, r : Accepts(o, k, r) => Accepts(down, k, r)
        BY <1>1, MoreIs
      <3> HIDE DEF o
      <3>2. o \in Seq(Messages) /\ HelloFirst(o)
        BY <3>1 DEF Extends
      <3>3. /\ Extends(Append(o, n), o)
            /\ \A k, r : Accepts(Append(o, n), k, r) => Accepts(o, k, r)
        BY <3>2, MoreIs
      <3>4. down' = Append(o, n)
        BY <2>3 DEF o
      <3> QED BY <3>1, <3>3, <3>4 DEF Extends
    <2>4. CASE HandleText /\ down' = Append(Append(down, Asks(Head(up))),
                                            [kind |-> "accepted", of |-> Head(up)])
      <3>1. Head(up) \in All
        BY <1>5, <2>4 DEF All
      <3> QED BY <1>1, <2>4, <3>1, AnswersIs
    <2> QED BY <2>1, <2>2, <2>3, <2>4, AgentOffers
  <1>8. down' = down \/ sock = "open"
    BY AgentOffers
  <1>9. Connected'
    BY <1>2, <1>7, <1>8 DEF Asking, Connected, Extends
  <1>10. Announced(store'.messages, down')
    BY <1>1, <1>2, <1>7 DEF Extends
  <1>11. SubmittedOnce'
    <2>1. /\ pending' \subseteq asked' /\ \A r \in pending' : settled'[r] = "none"
          /\ \A r \in Requests \ asked' : settled'[r] = "none"
      BY <1>2, <1>4 DEF Asking, SubmittedOnce
    <2>2. \A k, r : Accepts(down', k, r) /\ r \in Requests => r \in asked'
      BY <1>4, <1>5, <1>7 DEF Asking, SubmittedOnce, Accepts
    <2>3. CASE up' = up
      <3>1. \A i \in DOMAIN up : HandleText => up = Tail(up)
        BY <1>5, <2>3
      <3>2. up # <<>> => up # Tail(up)
        <4>1. up # <<>> => Len(Tail(up)) # Len(up)
          BY <1>1
        <4> QED BY <4>1
      <3>3. ~HandleText
        BY <1>5, <3>1, <3>2
      <3> QED BY <1>2, <1>4, <1>7, <2>1, <2>2, <2>3, <3>3
              DEF Asking, SubmittedOnce, Accepts
    <2>4. CASE HandleText /\ up # <<>> /\ up' = Tail(up)
      <3>1. \A i \in DOMAIN up' : i + 1 \in DOMAIN up /\ up'[i] = up[i + 1]
                                  /\ i + 1 # 1 /\ i \in Int
        BY <1>1, <2>4
      <3>2. \A i \in DOMAIN up' : up'[i] # Head(up)
        BY <1>5, <2>4, <3>1 DEF Asking, SubmittedOnce
      <3>3. \A i \in DOMAIN up' : up'[i] \in asked' /\ settled'[up'[i]] # "accepted"
        BY <1>2, <1>4, <3>1 DEF Asking, SubmittedOnce
      <3>4. \A i \in DOMAIN up' : \A k : ~Accepts(down', k, up'[i])
        BY <1>7, <3>1, <3>2 DEF Asking, SubmittedOnce, Accepts
      <3>5. \A i, j \in DOMAIN up' : up'[j] = up'[i] => j = i
        <4>1. \A i, j \in DOMAIN up' : up'[j] = up'[i] => j + 1 = i + 1
          BY <3>1 DEF Asking, SubmittedOnce
        <4> QED BY <3>1, <4>1
      <3> QED BY <2>1, <2>2, <3>3, <3>4, <3>5 DEF SubmittedOnce
    <2> QED BY <1>3, <2>3, <2>4
  <1>12. Brought'
    BY <1>2, <1>5, <1>6, <1>7 DEF Asking, Brought, Extends
  <1> QED BY <1>9, <1>10, <1>11, <1>12 DEF Asking

(* A connection begins: its hello brings the whole history.                *)
LEMMA AskingAccept ==
    ASSUME TypeOK, Asking, Accept
    PROVE  Asking'
  <1> DEFINE h == [kind |-> "hello", messages |-> history]
  <1>1. /\ down' = <<h>> /\ h.kind = "hello" /\ h.messages = history
        /\ sock' = "open" /\ sock = "opening"
        /\ UNCHANGED <<timer, pending, settled, store, up, asked, history>>
    BY DEF Accept, Keep, agentVars
  <1> HIDE DEF h
  <1>2. DOMAIN down' = {1} /\ down'[1] = h
    BY <1>1
  <1>3. HelloFirst(down') /\ HasHello(down')
    <2>1. down' # <<>>
      BY <1>1
    <2> QED BY <1>1, <1>2, <2>1 DEF HelloFirst, HasHello
  <1>4. \A k, r : ~Accepts(down', k, r)
    BY <1>1, <1>2 DEF Accepts
  <1>5. Connected'
    BY <1>1, <1>3 DEF Asking, Connected
  <1>6. SubmittedOnce'
    BY <1>1, <1>4 DEF Asking, SubmittedOnce
  <1>7. Announced(store'.messages, down') /\ Brought'
    BY <1>1, <1>2, <1>4 DEF Announced, Brought
  <1> QED BY <1>5, <1>6, <1>7 DEF Asking

LEMMA AskingNext ==
    ASSUME TypeOK, Asking, [Next]_vars
    PROVE  Asking'
  BY AskingPage, AskingSubmit, AskingReceive, AskingAgent, AskingAccept
  DEF Next, Page

(* A callback once told is never told again: not by an answer that comes   *)
(* late, not by the loss of the connection.                                *)
THEOREM SettledAreSettled == Spec => SettledOnce
  <1>1. TypeOK /\ Asking /\ [Next]_vars =>
            [\A r \in Requests : settled[r] # "none" =>
                                     settled'[r] = settled[r]]_vars
    <2> SUFFICES ASSUME TypeOK, Asking, Next
                 PROVE  \A r \in Requests : settled[r] # "none" =>
                                                settled'[r] = settled[r]
      OBVIOUS
    <2>1. /\ \A r \in pending : settled[r] = "none"
          /\ settled \in [Requests -> {"none", "accepted", "rejected"}]
      BY DEF Asking, SubmittedOnce, TypeOK, PageType
    <2>2. \/ settled' = settled
          \/ \E told, how : /\ told \subseteq pending
                            /\ settled' = [r \in Requests |->
                                             IF r \in told THEN how
                                             ELSE settled[r]]
      <3>1. CASE Receive
        <4>1. \/ settled' = settled
              \/ \E how : settled' = [r \in Requests |->
                                        IF r \in {Head(down).of} \intersect pending
                                        THEN how ELSE settled[r]]
          BY <3>1 DEF Receive, SettleSubmission, Settle
        <4>2. {Head(down).of} \intersect pending \subseteq pending
          OBVIOUS
        <4> QED BY <4>1, <4>2
      <3>2. CASE Closed
        BY <3>2 DEF Closed, RejectPending, Settle
      <3>5. CASE Remount
        BY <3>5 DEF Remount, RetireSocket, RejectPending, Settle
      <3>3. CASE \/ OpenSocket \/ OpenFails \/ LeaveOverview
                 \/ (\E r \in Requests : Submit(r)) \/ Lose \/ RestartAgent
        BY <3>3 DEF OpenSocket, OpenFails, LeaveOverview, Submit, Lose,
                    RestartAgent
      <3>4. CASE Agent
        BY <3>4 DEF Agent, Accept, HandleText, OtherAsks, Take, SendDelta,
           StartTool, EndTool, Complete, EndTurn, Fail, AgentKeeps, pageVars
      <3> QED BY <3>1, <3>2, <3>3, <3>4, <3>5 DEF Next, Page
    <2> QED BY <2>1, <2>2
  <1>2. Spec => [](TypeOK /\ Asking)
    BY TypeInit, TypeNext, AskingInit, AskingNext, PTL DEF Spec
  <1> QED BY <1>1, <1>2, PTL DEF Spec, SettledOnce

LEMMA AcceptedIsShownNext ==
    ASSUME TypeOK, Asking, AcceptedIsShown, [Next]_vars
    PROVE  AcceptedIsShown'
  <1> SUFFICES ASSUME NEW r \in Requests, settled'[r] = "accepted",
                      Has(history', Question(r)),
                      store'.connection = "online"
               PROVE  Has(store'.messages, Question(r))
    BY DEF AcceptedIsShown
  <1>1. /\ store \in Stores /\ down \in Seq(Messages)
        /\ history \in Seq(Texts) /\ worker.sent \in Nat
        /\ HelloFirst(down) /\ up \in Seq(Requests)
    BY DEF TypeOK, PageType, AgentType, Asking, Connected
  <1>2. CASE Receive
    <2> DEFINE m == Head(down)
    <2>1. /\ m \in Messages /\ m = down[1] /\ down # <<>> /\ 1 \in DOMAIN down
          /\ store' = Reduce(store, m) /\ SettleSubmission(m)
          /\ history' = history
      BY <1>1, <1>2, SeqFacts DEF Receive, Keep, agentVars
    <2> HIDE DEF m
    <2>2. CASE settled[r] = "accepted" /\ m.kind = "hello"
      <3>1. Has(m.messages, Question(r))
        BY <2>1, <2>2 DEF Asking, Brought, HasHello
      <3> QED BY <1>1, <2>1, <2>2, <3>1, ReduceIs
    <2>3. CASE settled[r] = "accepted" /\ m.kind # "hello"
      <3>1. /\ store'.connection = store.connection
            /\ \A x : Has(store.messages, x) => Has(store'.messages, x)
        BY <1>1, <2>1, <2>3, ReduceIs
      <3> QED BY <2>1, <2>3, <3>1 DEF AcceptedIsShown
    <2>4. CASE settled[r] # "accepted"
      <3>1. m.kind = "accepted" /\ m.of = r
        BY <2>1, <2>4 DEF SettleSubmission, Settle
      <3>2. Accepts(down, 1, r)
        BY <2>1, <3>1 DEF Accepts
      <3>3. \A j \in DOMAIN down : ~(j < 1)
        BY <1>1
      <3>4. Has(store.messages, Question(r))
        BY <2>1, <3>2, <3>3 DEF Asking, Announced
      <3> QED BY <1>1, <2>1, <3>1, <3>4, ReduceIs
    <2> QED BY <2>2, <2>3, <2>4
  <1>3. CASE OpenSocket \/ OpenFails \/ Closed \/ Remount
    BY <1>1, <1>3 DEF OpenSocket, OpenFails, Closed, Remount, Stores
  <1>4. CASE \/ LeaveOverview \/ (\E s \in Requests : Submit(s)) \/ Lose
             \/ UNCHANGED vars
    BY <1>4 DEF LeaveOverview, Submit, Lose, Keep, AcceptedIsShown, vars,
                pageVars, agentVars
  <1>5. CASE RestartAgent
    BY <1>5 DEF RestartAgent, Has
  <1>6. CASE Agent
    <2>1. settled' = settled /\ store' = store
      BY <1>6 DEF Agent, Accept, HandleText, OtherAsks, Take, SendDelta,
         StartTool, EndTool, Complete, EndTurn, Fail, AgentKeeps, pageVars
    <2>2. Has(history, Question(r))
      BY <1>6, <2>1, NewQuestions
    <2> QED BY <2>1, <2>2 DEF AcceptedIsShown
  <1> QED BY <1>2, <1>3, <1>4, <1>5, <1>6 DEF Next, Page

(* The composer that empties itself is right: an accepted submission is in *)
(* the list whenever the page is connected to the agent that accepted it.  *)
THEOREM AcceptedAreShown == Spec => []AcceptedIsShown
  <1>1. Init => AcceptedIsShown
    BY DEF Init, AcceptedIsShown
  <1> QED BY <1>1, TypeInit, TypeNext, AskingInit, AskingNext,
          AcceptedIsShownNext, PTL DEF Spec

-----------------------------------------------------------------------------
(***************************************************************************)
(* What is shown as said was said                                          *)
(***************************************************************************)
(* The agent's own books: who asks is not asking already, is not answered  *)
(* before it is taken, and is answered once.                               *)
Untaken(r) == r \notin asked \/ r \in ToSet(up) \/ r \in ToSet(queue)

WellSaid(m) ==
    m.role = "agent" => m = Answer(m.id, Parts(Len(m.parts))) /\ m.parts # <<>>

Said ==
    /\ \A i, j \in DOMAIN history : SameId(history[i], history[j]) => i = j
    /\ \A i \in DOMAIN history : WellSaid(history[i])
    /\ \A r \in All : Untaken(r) => ~Answered(history, r) /\ worker.of # r
    /\ \A r \in All : r \notin asked \/ r \in ToSet(up) =>
           ~Has(history, Question(r)) /\ r \notin ToSet(queue)
    /\ ToSet(queue) \subseteq asked /\ IsInjective(queue)
    /\ Working => ~Answered(history, worker.of)

(* A page is online once its connection's hello was taken.                 *)
Online ==
    /\ sock = "opening" => store.connection # "online"
    /\ sock = "open" => (store.connection = "online" <=> ~HasHello(down))

(* What the page shows when it has read a hello on its way.                *)
Base == IF HasHello(down) THEN down[1].messages ELSE store.messages
BaseDraft(r) == IF HasHello(down) THEN NoDraft ELSE store.drafts[r]

(* Messages that will add x to what is shown.                              *)
Names(m, x) == \/ m.kind = "message" /\ SameId(m.message, x)
               \/ m.kind = "completed" /\ SameId(Answer(m.of, <<>>), x)

(* Shown texts, and those on their way after them, are the history's, in   *)
(* its order.                                                              *)
Ordered(shown, q, said, missed) ==
    /\ \A i \in DOMAIN shown : \E j \in DOMAIN said : SameId(shown[i], said[j])
    /\ \A i \in DOMAIN shown, j \in DOMAIN said :
           SameId(shown[i], said[j]) => shown[i] = said[j] \/ said[j].id \in missed
    /\ \A i, k \in DOMAIN shown, j, l \in DOMAIN said :
           i < k /\ SameId(shown[i], said[j]) /\ SameId(shown[k], said[l]) => j < l
    /\ \A k \in DOMAIN q : q[k].kind = "message" => q[k].message.role = "user"
    /\ \A k \in DOMAIN q : q[k].kind \in {"message", "completed"} =>
           \E j \in DOMAIN said : Names(q[k], said[j])
    /\ \A k \in DOMAIN q, j \in DOMAIN said :
           Names(q[k], said[j]) /\ q[k].kind = "message" => q[k].message = said[j]
    /\ \A i \in DOMAIN shown, k \in DOMAIN q, j, l \in DOMAIN said :
           SameId(shown[i], said[j]) /\ Names(q[k], said[l]) => j < l
    /\ \A i, k \in DOMAIN q, j, l \in DOMAIN said :
           i < k /\ Names(q[i], said[j]) /\ Names(q[k], said[l]) => j < l

LEMMA Naming ==
    ASSUME NEW m, NEW x, NEW y
    PROVE  /\ Names(m, x) /\ Names(m, y) => SameId(x, y)
           /\ Names(m, x) /\ SameId(x, y) => Names(m, y)
           /\ Names(m, x) => m.kind \in {"message", "completed"}
  BY DEF Names, SameId

LEMMA AppendAt ==
    ASSUME NEW S, NEW q \in Seq(S), NEW x
    PROVE  /\ \A i \in DOMAIN Append(q, x) :
                  \/ i \in DOMAIN q /\ Append(q, x)[i] = q[i]
                  \/ i = Len(q) + 1 /\ Append(q, x)[i] = x
           /\ \A i \in DOMAIN q : /\ i \in DOMAIN Append(q, x) /\ i \in Int
                                  /\ Append(q, x)[i] = q[i] /\ i < Len(q) + 1
           /\ Len(q) + 1 \in DOMAIN Append(q, x)
           /\ Append(q, x)[Len(q) + 1] = x /\ Len(q) \in Nat
  OBVIOUS

LEMMA TailAt ==
    ASSUME NEW S, NEW q \in Seq(S), q # <<>>
    PROVE  /\ \A i \in DOMAIN Tail(q) : /\ i + 1 \in DOMAIN q /\ i \in Int
                                        /\ Tail(q)[i] = q[i + 1] /\ 1 < i + 1
           /\ \A i \in DOMAIN q : /\ i \in Int
                                  /\ \/ i = 1
                                     \/ /\ i - 1 \in DOMAIN Tail(q) /\ 1 < i
                                        /\ Tail(q)[i - 1] = q[i]
           /\ 1 \in DOMAIN q /\ Head(q) = q[1] /\ Tail(q) \in Seq(S)
  OBVIOUS

(* A text that is said is new, and one more message may tell of it.        *)
LEMMA OrderedSaid ==
    ASSUME NEW shown \in Seq(Texts), NEW q \in Seq(Messages),
           NEW said \in Seq(Texts), NEW missed, Ordered(shown, q, said, missed),
           NEW x \in Texts, ~Has(said, x), NEW m, Names(m, x),
           m.kind = "message" => m.message = x /\ x.role = "user"
    PROVE  Ordered(shown, Append(q, m), Append(said, x), missed)
  <1> DEFINE n == Len(said) + 1
             told == Append(said, x)
             more == Append(q, m)
  <1>1. /\ \A j \in DOMAIN told : \/ j \in DOMAIN said /\ told[j] = said[j]
                                  \/ j = n /\ told[j] = x
        /\ \A j \in DOMAIN said : j \in DOMAIN told /\ told[j] = said[j] /\ j < n
        /\ n \in DOMAIN told /\ told[n] = x
    BY AppendAt
  <1>2. \A k \in DOMAIN more : \/ k \in DOMAIN q /\ more[k] = q[k]
                               \/ k = Len(q) + 1 /\ more[k] = m
    BY AppendAt
  <1>3. \A j \in DOMAIN said : ~SameId(said[j], x) /\ ~SameId(x, said[j])
    BY DEF Has, SameId
  <1>4. \A i \in DOMAIN shown : ~SameId(shown[i], x)
    BY <1>3 DEF Ordered, SameId
  <1>5. \A k \in DOMAIN q : ~Names(q[k], x)
    BY <1>3, Naming DEF Ordered
  <1>6. \A j \in DOMAIN said : ~Names(m, said[j])
    BY <1>3, Naming
  <1>7. \A i, k \in DOMAIN more : i < k => i \in DOMAIN q
    <2>1. \A i \in DOMAIN q : i < Len(q) + 1 /\ i \in Int
      BY AppendAt
    <2>2. \A i, k \in DOMAIN more : i < k /\ i = Len(q) + 1 => FALSE
      BY AppendAt
    <2> QED BY <1>2, <2>2
  <1> HIDE DEF told, more, n
  <1>8. /\ \A i \in DOMAIN shown : \E j \in DOMAIN told : SameId(shown[i], told[j])
        /\ \A i \in DOMAIN shown, j \in DOMAIN told :
               SameId(shown[i], told[j]) =>
                   shown[i] = told[j] \/ told[j].id \in missed
        /\ \A i, k \in DOMAIN shown, j, l \in DOMAIN told :
               i < k /\ SameId(shown[i], told[j]) /\ SameId(shown[k], told[l])
                   => j < l
    BY <1>1, <1>4 DEF Ordered
  <1>9. /\ \A k \in DOMAIN more : more[k].kind = "message" =>
                                      more[k].message.role = "user"
        /\ \A k \in DOMAIN more : more[k].kind \in {"message", "completed"} =>
               \E j \in DOMAIN told : Names(more[k], told[j])
    <2>1. /\ \A k \in DOMAIN q : q[k].kind = "message" =>
                                     q[k].message.role = "user"
          /\ \A k \in DOMAIN q : q[k].kind \in {"message", "completed"} =>
                 \E j \in DOMAIN said : Names(q[k], said[j])
      BY DEF Ordered
    <2> QED BY <1>1, <1>2, <2>1
  <1>10. \A k \in DOMAIN more, j \in DOMAIN told :
             Names(more[k], told[j]) /\ more[k].kind = "message" =>
                 more[k].message = told[j]
    BY <1>1, <1>2, <1>5, <1>6 DEF Ordered
  <1>11. \A i \in DOMAIN shown, k \in DOMAIN more, j, l \in DOMAIN told :
             SameId(shown[i], told[j]) /\ Names(more[k], told[l]) => j < l
    <2>1. \A i \in DOMAIN shown, k \in DOMAIN q, j, l \in DOMAIN said :
              SameId(shown[i], said[j]) /\ Names(q[k], said[l]) => j < l
      BY DEF Ordered
    <2>2. \A i \in DOMAIN shown, j \in DOMAIN told :
              SameId(shown[i], told[j]) =>
                  j \in DOMAIN said /\ told[j] = said[j] /\ j < n
      BY <1>1, <1>4
    <2>3. \A k \in DOMAIN more, l \in DOMAIN told :
              Names(more[k], told[l]) =>
                  \/ l = n
                  \/ /\ k \in DOMAIN q /\ more[k] = q[k]
                     /\ l \in DOMAIN said /\ told[l] = said[l]
      BY <1>1, <1>2, <1>6
    <2> QED BY <2>1, <2>2, <2>3
  <1>12. \A i, k \in DOMAIN more, j, l \in DOMAIN told :
             i < k /\ Names(more[i], told[j]) /\ Names(more[k], told[l]) => j < l
    BY <1>1, <1>2, <1>5, <1>6, <1>7 DEF Ordered
  <1> QED BY <1>8, <1>9, <1>10, <1>11, <1>12 DEF Ordered, told, more

(* A message that adds nothing comes, and the first one goes.              *)
LEMMA OrderedMoves ==
    ASSUME NEW shown \in Seq(Texts), NEW q \in Seq(Messages),
           NEW said \in Seq(Texts), NEW missed, Ordered(shown, q, said, missed)
    PROVE  /\ \A m : m.kind \notin {"message", "completed"} =>
                         Ordered(shown, Append(q, m), said, missed)
           /\ q # <<>> => Ordered(shown, Tail(q), said, missed)
  <1>0. /\ \A i \in DOMAIN shown, k \in DOMAIN q, j, l \in DOMAIN said :
               SameId(shown[i], said[j]) /\ Names(q[k], said[l]) => j < l
        /\ \A i, k \in DOMAIN q, j, l \in DOMAIN said :
               i < k /\ Names(q[i], said[j]) /\ Names(q[k], said[l]) => j < l
    BY DEF Ordered
  <1>1. ASSUME NEW m, m.kind \notin {"message", "completed"}
        PROVE  Ordered(shown, Append(q, m), said, missed)
    <2> DEFINE more == Append(q, m)
    <2>1. \A k \in DOMAIN more : \/ k \in DOMAIN q /\ more[k] = q[k]
                                 \/ more[k] = m
      BY AppendAt
    <2>2. \A x : ~Names(m, x)
      BY <1>1, Naming
    <2> HIDE DEF more
    <2>3. /\ \A k \in DOMAIN more : more[k].kind = "message" =>
                                        more[k].message.role = "user"
          /\ \A k \in DOMAIN more : more[k].kind \in {"message", "completed"} =>
                 \E j \in DOMAIN said : Names(more[k], said[j])
          /\ \A k \in DOMAIN more, j \in DOMAIN said :
                 Names(more[k], said[j]) /\ more[k].kind = "message" =>
                     more[k].message = said[j]
      BY <1>1, <2>1, <2>2 DEF Ordered
    <2>4. \A i \in DOMAIN shown, k \in DOMAIN more, j, l \in DOMAIN said :
              SameId(shown[i], said[j]) /\ Names(more[k], said[l]) => j < l
      BY <1>0, <2>1, <2>2
    <2>5. \A i, k \in DOMAIN more, j, l \in DOMAIN said :
              i < k /\ Names(more[i], said[j]) /\ Names(more[k], said[l]) => j < l
      BY <1>0, <2>1, <2>2
    <2> QED BY <2>3, <2>4, <2>5 DEF Ordered, more
  <1>2. ASSUME q # <<>>
        PROVE  Ordered(shown, Tail(q), said, missed)
    <2> DEFINE less == Tail(q)
    <2>1. \A k \in DOMAIN less : k + 1 \in DOMAIN q /\ less[k] = q[k + 1]
      BY <1>2, TailAt
    <2>2. \A i, k \in DOMAIN less : i < k => i + 1 < k + 1
      BY <1>2, TailAt
    <2> HIDE DEF less
    <2>3. /\ \A k \in DOMAIN less : less[k].kind = "message" =>
                                        less[k].message.role = "user"
          /\ \A k \in DOMAIN less : less[k].kind \in {"message", "completed"} =>
                 \E j \in DOMAIN said : Names(less[k], said[j])
          /\ \A k \in DOMAIN less, j \in DOMAIN said :
                 Names(less[k], said[j]) /\ less[k].kind = "message" =>
                     less[k].message = said[j]
      BY <2>1 DEF Ordered
    <2>4. /\ \A i \in DOMAIN shown, k \in DOMAIN less, j, l \in DOMAIN said :
                 SameId(shown[i], said[j]) /\ Names(less[k], said[l]) => j < l
          /\ \A i, k \in DOMAIN less, j, l \in DOMAIN said :
                 i < k /\ Names(less[i], said[j]) /\ Names(less[k], said[l])
                     => j < l
      BY <2>1, <2>2 DEF Ordered
    <2> QED BY <2>3, <2>4 DEF Ordered, less
  <1> QED BY <1>1, <1>2

(* The first message goes, and what it names is shown.                     *)
LEMMA OrderedShown ==
    ASSUME NEW shown \in Seq(Texts), NEW q \in Seq(Messages),
           NEW said \in Seq(Texts), NEW missed, Ordered(shown, q, said, missed),
           q # <<>>, NEW y \in Texts,
           q[1].kind \in {"message", "completed"},
           \A x : Names(q[1], x) <=> SameId(y, x),
           \A j \in DOMAIN said : SameId(y, said[j]) =>
               y = said[j] \/ said[j].id \in missed
    PROVE  Ordered(Append(shown, y), Tail(q), said, missed)
  <1> DEFINE less == Tail(q)
             more == Append(shown, y)
             n == Len(shown) + 1
  <1>1. /\ \A k \in DOMAIN less : /\ k + 1 \in DOMAIN q /\ less[k] = q[k + 1]
                                  /\ 1 < k + 1
        /\ 1 \in DOMAIN q
    BY TailAt
  <1>2. \A i \in DOMAIN more : \/ i \in DOMAIN shown /\ more[i] = shown[i]
                               \/ i = n /\ more[i] = y
    BY AppendAt
  <1>3. \A i, k \in DOMAIN more : i < k => i \in DOMAIN shown
    <2>1. \A i, k \in DOMAIN more : i < k /\ i = n => FALSE
      BY AppendAt
    <2> QED BY <1>2, <2>1
  <1>4. Ordered(shown, less, said, missed)
    BY OrderedMoves
  <1> HIDE DEF less, more, n
  <1>5. \A j \in DOMAIN said : SameId(y, said[j]) => Names(q[1], said[j])
    OBVIOUS
  <1>6. \E j \in DOMAIN said : SameId(y, said[j])
    BY <1>1 DEF Ordered
  <1>7. /\ \A i \in DOMAIN more : \E j \in DOMAIN said : SameId(more[i], said[j])
        /\ \A i \in DOMAIN more, j \in DOMAIN said :
               SameId(more[i], said[j]) =>
                   more[i] = said[j] \/ said[j].id \in missed
    BY <1>2, <1>6 DEF Ordered
  <1>10. /\ \A i, k \in DOMAIN shown, j, l \in DOMAIN said :
                i < k /\ SameId(shown[i], said[j]) /\ SameId(shown[k], said[l])
                    => j < l
         /\ \A i \in DOMAIN shown, k \in DOMAIN q, j, l \in DOMAIN said :
                SameId(shown[i], said[j]) /\ Names(q[k], said[l]) => j < l
         /\ \A k \in DOMAIN q, j, l \in DOMAIN said :
                1 < k /\ Names(q[1], said[j]) /\ Names(q[k], said[l]) => j < l
    BY <1>1 DEF Ordered
  <1>8. \A i, k \in DOMAIN more, j, l \in DOMAIN said :
            i < k /\ SameId(more[i], said[j]) /\ SameId(more[k], said[l]) => j < l
    <2>1. \A i, k \in DOMAIN more : i < k =>
              /\ i \in DOMAIN shown /\ more[i] = shown[i]
              /\ (k \in DOMAIN shown /\ more[k] = shown[k]) \/ more[k] = y
      BY <1>2, <1>3, AppendAt DEF more
    <2> QED BY <1>1, <1>5, <1>10, <2>1
  <1>9. \A i \in DOMAIN more, k \in DOMAIN less, j, l \in DOMAIN said :
            SameId(more[i], said[j]) /\ Names(less[k], said[l]) => j < l
    <2>1. \A i \in DOMAIN more : \/ i \in DOMAIN shown /\ more[i] = shown[i]
                                 \/ more[i] = y
      BY <1>2
    <2> QED BY <1>1, <1>5, <1>10, <2>1
  <1> QED BY <1>4, <1>7, <1>8, <1>9 DEF Ordered, less, more

(* Messages about the response to r.                                       *)
Is(m, kind, r) == m.kind = kind /\ m.of = r
Says(q, kind, r) == \E k \in DOMAIN q : Is(q[k], kind, r)
About(m, r) ==
    \E kind \in {"started", "delta", "completed", "failed"} : Is(m, kind, r)

(* The text of r streams: the draft is its beginning, and the deltas on    *)
(* their way the rest of its n parts, in order.                            *)
Streams(draft, q, r, n) ==
    /\ draft.parts = Parts(Len(draft.parts)) /\ Len(draft.parts) <= n
    /\ \A k \in DOMAIN q : Is(q[k], "delta", r) =>
           Len(draft.parts) < q[k].part /\ q[k].part <= n
    /\ \A i, k \in DOMAIN q :
           i < k /\ Is(q[i], "delta", r) /\ Is(q[k], "delta", r) =>
               q[i].part < q[k].part
    /\ \A p \in Len(draft.parts) + 1 .. n :
           \E k \in DOMAIN q : Is(q[k], "delta", r) /\ q[k].part = p

(* And nothing ends it early: what fails has been completed before.        *)
Flows(draft, q, r, n) ==
    /\ Streams(draft, q, r, n) /\ draft.status # "interrupted"
    /\ \A k \in DOMAIN q : Is(q[k], "failed", r) =>
           \E i \in DOMAIN q : i < k /\ Is(q[i], "completed", r)
    /\ \A i, k \in DOMAIN q :
           Is(q[i], "completed", r) /\ Is(q[k], "delta", r) => k < i

LEMMA PartsAre ==
    /\ \A n \in Nat : Len(Parts(n)) = n /\ Append(Parts(n), n + 1) = Parts(n + 1)
    /\ Parts(0) = <<>>
  BY DEF Parts

LEMMA SaysMoves ==
    ASSUME NEW q \in Seq(Messages), NEW kind, NEW r
    PROVE  /\ \A m : Says(Append(q, m), kind, r) <=>
                         Says(q, kind, r) \/ Is(m, kind, r)
           /\ q # <<>> => /\ Says(Tail(q), kind, r) => Says(q, kind, r)
                          /\ ~Is(q[1], kind, r) =>
                                 (Says(q, kind, r) => Says(Tail(q), kind, r))
  <1>1. ASSUME NEW m
        PROVE  Says(Append(q, m), kind, r) <=> Says(q, kind, r) \/ Is(m, kind, r)
    <2> DEFINE more == Append(q, m)
    <2>1. /\ \A i \in DOMAIN more : (i \in DOMAIN q /\ more[i] = q[i]) \/ more[i] = m
          /\ \A i \in DOMAIN q : i \in DOMAIN more /\ more[i] = q[i]
          /\ Len(q) + 1 \in DOMAIN more /\ more[Len(q) + 1] = m
      BY AppendAt
    <2> HIDE DEF more
    <2>2. Says(more, kind, r) <=> Says(q, kind, r) \/ Is(m, kind, r)
      BY <2>1 DEF Says
    <2> QED BY <2>2 DEF more
  <1>2. ASSUME q # <<>>
        PROVE  /\ Says(Tail(q), kind, r) => Says(q, kind, r)
               /\ ~Is(q[1], kind, r) =>
                      (Says(q, kind, r) => Says(Tail(q), kind, r))
    BY <1>2, TailAt DEF Says
  <1> QED BY <1>1, <1>2

(* What the agent may say next of a text that flows.                       *)
LEMMA FlowsMore ==
    ASSUME NEW draft \in Drafts, NEW q \in Seq(Messages), NEW r, NEW n \in Nat,
           Flows(draft, q, r, n), NEW m
    PROVE  /\ ~About(m, r) \/ Is(m, "started", r) \/ Is(m, "completed", r)
                  => Flows(draft, Append(q, m), r, n)
           /\ Is(m, "failed", r) /\ Says(q, "completed", r)
                  => Flows(draft, Append(q, m), r, n)
           /\ /\ Is(m, "delta", r) /\ m.part = n + 1
              /\ ~Says(q, "completed", r)
              => Flows(draft, Append(q, m), r, n + 1)
  <1> DEFINE more == Append(q, m)
             z == Len(q) + 1
             l == Len(draft.parts)
  <1>1. /\ \A i \in DOMAIN more : \/ i \in DOMAIN q /\ more[i] = q[i] /\ i < z
                                  \/ i = z /\ more[i] = m
        /\ \A i \in DOMAIN q : i \in DOMAIN more /\ more[i] = q[i] /\ i < z
        /\ \A i \in DOMAIN more : i \in Int /\ ~(i < i)
        /\ z \in DOMAIN more /\ more[z] = m
    BY AppendAt
  <1>2. \A i, k \in DOMAIN more : i < k => i \in DOMAIN q /\ more[i] = q[i]
    <2>1. \A i, k \in DOMAIN more : i < k /\ i = z => FALSE
      BY AppendAt
    <2> QED BY <1>1, <2>1
  <1>3. l \in Nat
    BY DEF Drafts
  <1>4. \A k \in DOMAIN q : Is(q[k], "delta", r) => q[k].part \in Nat
    <2>1. \A k \in DOMAIN q : q[k] \in Messages
      OBVIOUS
    <2> QED BY <2>1, MessageCases DEF Is
  <1> HIDE DEF more, z
  <1>5. /\ draft.parts = Parts(l) /\ l <= n /\ draft.status # "interrupted"
        /\ \A k \in DOMAIN q : Is(q[k], "delta", r) => l < q[k].part /\ q[k].part <= n
        /\ \A i, k \in DOMAIN q :
               i < k /\ Is(q[i], "delta", r) /\ Is(q[k], "delta", r) =>
                   q[i].part < q[k].part
        /\ \A p \in l + 1 .. n :
               \E k \in DOMAIN q : Is(q[k], "delta", r) /\ q[k].part = p
        /\ \A k \in DOMAIN q : Is(q[k], "failed", r) =>
               \E i \in DOMAIN q : i < k /\ Is(q[i], "completed", r)
        /\ \A i, k \in DOMAIN q :
               Is(q[i], "completed", r) /\ Is(q[k], "delta", r) => k < i
    BY DEF Flows, Streams
  <1>6. ASSUME ~Is(m, "delta", r)
        PROVE  /\ Streams(draft, more, r, n)
               /\ \A i, k \in DOMAIN more :
                      Is(more[i], "completed", r) /\ Is(more[k], "delta", r) => k < i
    <2> HIDE DEF l
    <2>1. /\ \A k \in DOMAIN more : Is(more[k], "delta", r) =>
                 l < more[k].part /\ more[k].part <= n
          /\ \A i, k \in DOMAIN more :
                 i < k /\ Is(more[i], "delta", r) /\ Is(more[k], "delta", r) =>
                     more[i].part < more[k].part
          /\ \A p \in l + 1 .. n :
                 \E k \in DOMAIN more : Is(more[k], "delta", r) /\ more[k].part = p
      BY <1>1, <1>5, <1>6
    <2>2. \A i, k \in DOMAIN more :
              Is(more[i], "completed", r) /\ Is(more[k], "delta", r) => k < i
      BY <1>1, <1>5, <1>6
    <2> QED BY <1>5, <2>1, <2>2 DEF Streams, l
  <1>7. ASSUME ~Is(m, "failed", r) \/ Says(q, "completed", r)
        PROVE  \A k \in DOMAIN more : Is(more[k], "failed", r) =>
                   \E i \in DOMAIN more : i < k /\ Is(more[i], "completed", r)
    BY <1>1, <1>5, <1>7 DEF Says
  <1>8. ASSUME Is(m, "delta", r), m.part = n + 1, ~Says(q, "completed", r)
        PROVE  Flows(draft, more, r, n + 1)
    <2>1. ~Is(m, "completed", r) /\ ~Is(m, "failed", r)
      BY <1>8 DEF Is
    <2>2. \A i \in DOMAIN more : ~Is(more[i], "completed", r)
      BY <1>1, <1>8, <2>1 DEF Says
    <2> HIDE DEF l
    <2>3. /\ l <= n + 1 /\ l < n + 1
          /\ \A p \in Nat : p <= n => p <= n + 1 /\ p < n + 1
          /\ \A p \in l + 1 .. n + 1 : p \in l + 1 .. n \/ p = n + 1
      BY <1>3, <1>5
    <2>4. \A k \in DOMAIN more : Is(more[k], "delta", r) =>
              l < more[k].part /\ more[k].part <= n + 1
      BY <1>1, <1>4, <1>5, <1>8, <2>3
    <2>5. \A i, k \in DOMAIN more :
              i < k /\ Is(more[i], "delta", r) /\ Is(more[k], "delta", r) =>
                  more[i].part < more[k].part
      BY <1>1, <1>2, <1>4, <1>5, <1>8, <2>3
    <2>6. \A p \in l + 1 .. n + 1 :
              \E k \in DOMAIN more : Is(more[k], "delta", r) /\ more[k].part = p
      BY <1>1, <1>5, <1>8, <2>3
    <2>7. Streams(draft, more, r, n + 1)
      BY <1>5, <2>3, <2>4, <2>5, <2>6 DEF Streams, l
    <2> QED BY <1>5, <1>7, <2>1, <2>2, <2>7 DEF Flows
  <1>9. ASSUME ~Is(m, "delta", r),
               ~Is(m, "failed", r) \/ Says(q, "completed", r)
        PROVE  Flows(draft, more, r, n)
    BY <1>5, <1>6, <1>7, <1>9 DEF Flows
  <1>10. ~About(m, r) \/ Is(m, "started", r) \/ Is(m, "completed", r)
           => ~Is(m, "delta", r) /\ ~Is(m, "failed", r)
    BY DEF About, Is
  <1>11. Is(m, "failed", r) => ~Is(m, "delta", r)
    BY DEF Is
  <1> QED BY <1>8, <1>9, <1>10, <1>11 DEF more

(* What the page makes of the next message of a text that flows.           *)
LEMMA FlowsLess ==
    ASSUME NEW draft \in Drafts, NEW q \in Seq(Messages), NEW r, NEW n \in Nat,
           Flows(draft, q, r, n), q # <<>>
    PROVE  /\ ~Is(q[1], "failed", r)
           /\ Is(q[1], "completed", r) => draft.parts = Parts(n)
           /\ ~About(q[1], r) \/ Is(q[1], "started", r) =>
                  \A d \in Drafts :
                      d.parts = draft.parts /\ d.status # "interrupted" =>
                          Flows(d, Tail(q), r, n)
           /\ Is(q[1], "delta", r) =>
                  \A d \in Drafts :
                      /\ d.parts = Append(draft.parts, q[1].part)
                      /\ d.status # "interrupted"
                      => Flows(d, Tail(q), r, n)
  <1> DEFINE less == Tail(q)
             l == Len(draft.parts)
  <1>1. /\ \A i \in DOMAIN less : /\ i + 1 \in DOMAIN q /\ less[i] = q[i + 1]
                                  /\ i \in Int /\ 1 < i + 1
        /\ \A i \in DOMAIN q : \/ i = 1
                               \/ i - 1 \in DOMAIN less /\ less[i - 1] = q[i]
        /\ \A i \in DOMAIN q : i \in Int /\ ~(i < 1)
        /\ 1 \in DOMAIN q
    BY TailAt
  <1>2. l \in Nat
    BY DEF Drafts
  <1>3. \A k \in DOMAIN q : Is(q[k], "delta", r) => q[k].part \in Nat
    <2>1. \A k \in DOMAIN q : q[k] \in Messages
      OBVIOUS
    <2> QED BY <2>1, MessageCases DEF Is
  <1> HIDE DEF less
  <1>4. /\ draft.parts = Parts(l) /\ l <= n /\ draft.status # "interrupted"
        /\ \A k \in DOMAIN q : Is(q[k], "delta", r) => l < q[k].part /\ q[k].part <= n
        /\ \A i, k \in DOMAIN q :
               i < k /\ Is(q[i], "delta", r) /\ Is(q[k], "delta", r) =>
                   q[i].part < q[k].part
        /\ \A p \in l + 1 .. n :
               \E k \in DOMAIN q : Is(q[k], "delta", r) /\ q[k].part = p
        /\ \A k \in DOMAIN q : Is(q[k], "failed", r) =>
               \E i \in DOMAIN q : i < k /\ Is(q[i], "completed", r)
        /\ \A i, k \in DOMAIN q :
               Is(q[i], "completed", r) /\ Is(q[k], "delta", r) => k < i
    BY DEF Flows, Streams
  <1>5. ~Is(q[1], "failed", r)
    BY <1>1, <1>4
  <1>6. ASSUME Is(q[1], "completed", r)
        PROVE  draft.parts = Parts(n)
    <2>1. \A k \in DOMAIN q : ~Is(q[k], "delta", r)
      BY <1>1, <1>4, <1>6
    <2>2. \A p \in l + 1 .. n : FALSE
      BY <1>4, <2>1
    <2>3. n = l
      <3>1. ~(n \in l + 1 .. n)
        BY <2>2
      <3> QED BY <1>2, <1>4, <3>1
    <2> QED BY <1>4, <2>3
  <1>7. ASSUME NEW d \in Drafts, d.status # "interrupted",
               Streams(d, less, r, n), ~Is(q[1], "completed", r)
        PROVE  Flows(d, less, r, n)
    <2>1. \A i, k \in DOMAIN q : i < k /\ i # 1 => i - 1 < k - 1
      BY <1>1
    <2>2. \A k \in DOMAIN less : k = (k + 1) - 1
      BY <1>1
    <2>3. \A k \in DOMAIN less : Is(less[k], "failed", r) =>
              \E i \in DOMAIN less : i < k /\ Is(less[i], "completed", r)
      <3> SUFFICES ASSUME NEW k \in DOMAIN less, Is(less[k], "failed", r)
                   PROVE  \E i \in DOMAIN less : i < k /\ Is(less[i], "completed", r)
        OBVIOUS
      <3>1. k + 1 \in DOMAIN q /\ less[k] = q[k + 1]
        BY <1>1
      <3>2. PICK i \in DOMAIN q : i < k + 1 /\ Is(q[i], "completed", r)
        BY <1>4, <3>1
      <3>3. i # 1
        BY <1>7, <3>2
      <3>4. i - 1 \in DOMAIN less /\ less[i - 1] = q[i] /\ i - 1 < k
        BY <1>1, <2>1, <2>2, <3>1, <3>2, <3>3
      <3> QED BY <3>2, <3>4
    <2>4. \A i, k \in DOMAIN less :
              Is(less[i], "completed", r) /\ Is(less[k], "delta", r) => k < i
      <3>1. \A i, k \in DOMAIN less :
                Is(less[i], "completed", r) /\ Is(less[k], "delta", r) =>
                    k + 1 < i + 1
        BY <1>1, <1>4
      <3> QED BY <1>1, <3>1
    <2> QED BY <1>7, <2>3, <2>4 DEF Flows
  <1>8. \A i, k \in DOMAIN less :
            i < k /\ Is(less[i], "delta", r) /\ Is(less[k], "delta", r) =>
                less[i].part < less[k].part
    <2>1. \A i, k \in DOMAIN less : i < k => i + 1 < k + 1
      BY <1>1
    <2> QED BY <1>1, <1>4, <2>1
  <1>9. ASSUME ~About(q[1], r) \/ Is(q[1], "started", r), NEW d \in Drafts,
               d.parts = draft.parts, d.status # "interrupted"
        PROVE  Flows(d, less, r, n)
    <2>1. ~Is(q[1], "delta", r) /\ ~Is(q[1], "completed", r)
      BY <1>9 DEF About, Is
    <2>2. Len(d.parts) = l
      BY <1>9
    <2> HIDE DEF l
    <2>3. /\ \A k \in DOMAIN less : Is(less[k], "delta", r) =>
                 l < less[k].part /\ less[k].part <= n
          /\ \A p \in l + 1 .. n :
                 \E k \in DOMAIN less : Is(less[k], "delta", r) /\ less[k].part = p
      <3>1. \A k \in DOMAIN less : Is(less[k], "delta", r) =>
                l < less[k].part /\ less[k].part <= n
        BY <1>1, <1>4
      <3>2. ASSUME NEW p \in l + 1 .. n
            PROVE  \E k \in DOMAIN less : Is(less[k], "delta", r) /\ less[k].part = p
        <4>1. PICK k \in DOMAIN q : Is(q[k], "delta", r) /\ q[k].part = p
          BY <1>4
        <4>2. k - 1 \in DOMAIN less /\ less[k - 1] = q[k]
          BY <1>1, <2>1, <4>1
        <4> QED BY <4>1, <4>2
      <3> QED BY <3>1, <3>2
    <2>4. d.parts = Parts(l)
      BY <1>4, <1>9
    <2>5. Streams(d, less, r, n)
      BY <1>4, <1>8, <2>2, <2>3, <2>4 DEF Streams
    <2> QED BY <1>7, <1>9, <2>1, <2>5
  <1>10. ASSUME Is(q[1], "delta", r), NEW d \in Drafts,
                d.parts = Append(draft.parts, q[1].part),
                d.status # "interrupted"
         PROVE  Flows(d, less, r, n)
    <2>1. ~Is(q[1], "completed", r)
      BY <1>10 DEF Is
    <2>2. l < q[1].part /\ q[1].part <= n /\ q[1].part \in Nat
      BY <1>1, <1>3, <1>4, <1>10
    <2>3. l + 1 \in l + 1 .. n
      BY <1>2, <2>2
    <2>4. PICK k \in DOMAIN q : Is(q[k], "delta", r) /\ q[k].part = l + 1
      BY <1>4, <2>3
    <2>5. q[1].part = l + 1
      <3>1. k = 1 \/ 1 < k
        BY <1>1
      <3>2. 1 < k => q[1].part < l + 1
        BY <1>1, <1>4, <1>10, <2>4
      <3>3. ~(q[1].part < l + 1)
        BY <1>2, <2>2
      <3> QED BY <2>4, <3>1, <3>2, <3>3
    <2>6. d.parts = Parts(l + 1) /\ Len(d.parts) = l + 1 /\ l + 1 <= n
      <3> HIDE DEF l
      <3>1. Append(Parts(l), l + 1) = Parts(l + 1) /\ Len(Parts(l + 1)) = l + 1
        <4>1. l + 1 \in Nat
          BY <1>2
        <4> QED BY <1>2, <4>1, PartsAre
      <3>2. d.parts = Append(Parts(l), l + 1)
        BY <1>4, <1>10, <2>5
      <3>3. l + 1 <= n
        BY <2>2, <2>5
      <3> QED BY <3>1, <3>2, <3>3
    <2>7. \A p \in l + 2 .. n : p \in l + 1 .. n /\ p # l + 1
      BY <1>2
    <2>8. \A k1 \in DOMAIN less : Is(less[k1], "delta", r) =>
              l + 1 < less[k1].part /\ less[k1].part <= n
      BY <1>1, <1>4, <1>10, <2>5
    <2>9. ASSUME NEW p \in l + 2 .. n
          PROVE  \E k1 \in DOMAIN less :
                     Is(less[k1], "delta", r) /\ less[k1].part = p
      <3>1. PICK i \in DOMAIN q : Is(q[i], "delta", r) /\ q[i].part = p
        BY <1>4, <2>7
      <3>2. i # 1
        BY <2>5, <2>7, <3>1
      <3>3. i - 1 \in DOMAIN less /\ less[i - 1] = q[i]
        BY <1>1, <3>2
      <3> QED BY <3>1, <3>3
    <2>10. l + 2 = (l + 1) + 1
      BY <1>2
    <2> HIDE DEF l
    <2>11. Streams(d, less, r, n)
      BY <1>8, <2>6, <2>8, <2>9, <2>10 DEF Streams
    <2> QED BY <1>7, <1>10, <2>1, <2>11
  <1> QED BY <1>5, <1>6, <1>9, <1>10 DEF less

-----------------------------------------------------------------------------
(* The agent's books                                                       *)

LEMMA ToSetMoves ==
    ASSUME NEW S, NEW q \in Seq(S), NEW x
    PROVE  /\ ToSet(Append(q, x)) = ToSet(q) \union {x}
           /\ x \notin ToSet(q) /\ IsInjective(q) => IsInjective(Append(q, x))
           /\ q # <<>> => /\ ToSet(Tail(q)) \subseteq ToSet(q)
                          /\ Head(q) \in ToSet(q)
                          /\ IsInjective(q) => /\ Head(q) \notin ToSet(Tail(q))
                                               /\ IsInjective(Tail(q))
  <1>1. /\ \A i \in DOMAIN Append(q, x) :
               \/ i \in DOMAIN q /\ Append(q, x)[i] = q[i]
               \/ i = Len(q) + 1 /\ Append(q, x)[i] = x
        /\ \A i \in DOMAIN q : i \in DOMAIN Append(q, x) /\ Append(q, x)[i] = q[i]
        /\ Len(q) + 1 \in DOMAIN Append(q, x) /\ Append(q, x)[Len(q) + 1] = x
    BY AppendAt
  <1>2. ToSet(Append(q, x)) = ToSet(q) \union {x}
    BY <1>1 DEF ToSet
  <1>3. x \notin ToSet(q) /\ IsInjective(q) => IsInjective(Append(q, x))
    BY <1>1 DEF ToSet, IsInjective
  <1>4. ASSUME q # <<>>
        PROVE  /\ ToSet(Tail(q)) \subseteq ToSet(q) /\ Head(q) \in ToSet(q)
               /\ IsInjective(q) => /\ Head(q) \notin ToSet(Tail(q))
                                    /\ IsInjective(Tail(q))
    <2>1. /\ \A i \in DOMAIN Tail(q) : /\ i + 1 \in DOMAIN q /\ i \in Int
                                       /\ Tail(q)[i] = q[i + 1] /\ 1 < i + 1
          /\ 1 \in DOMAIN q /\ Head(q) = q[1]
      BY <1>4, TailAt
    <2>2. ToSet(Tail(q)) \subseteq ToSet(q) /\ Head(q) \in ToSet(q)
      BY <2>1 DEF ToSet
    <2>3. ASSUME IsInjective(q)
          PROVE  Head(q) \notin ToSet(Tail(q)) /\ IsInjective(Tail(q))
      <3>1. \A i \in DOMAIN Tail(q) : i + 1 # 1
        BY <2>1
      <3>2. Head(q) \notin ToSet(Tail(q))
        BY <2>1, <2>3, <3>1 DEF ToSet, IsInjective
      <3>3. \A i, j \in DOMAIN Tail(q) : Tail(q)[i] = Tail(q)[j] => i + 1 = j + 1
        BY <2>1, <2>3 DEF IsInjective
      <3>4. IsInjective(Tail(q))
        BY <2>1, <3>3 DEF IsInjective
      <3> QED BY <3>2, <3>4
    <2> QED BY <2>2, <2>3
  <1> QED BY <1>2, <1>3, <1>4

LEMMA HasMoves ==
    ASSUME NEW h \in Seq(Texts), NEW x, NEW y
    PROVE  Has(Append(h, x), y) <=> Has(h, y) \/ SameId(x, y)
  BY AppendAt DEF Has

(* Whom the worker takes has been asking till then.                        *)
LEMMA TakenIs ==
    ASSUME TypeOK, Said, Take, NEW h, h = Head(queue)
    PROVE  /\ h \in All /\ h \in asked /\ Untaken(h) /\ ~Untaken(h)'
           /\ \A r : Untaken(r)' => Untaken(r)
  <1>1. up \in Seq(Requests) /\ queue \in Seq(All)
    BY DEF TypeOK, AgentType
  <1>2. queue # <<>> /\ queue' = Tail(queue) /\ up' = up /\ asked' = asked
    BY DEF Take, AgentKeeps
  <1>3. /\ ToSet(Tail(queue)) \subseteq ToSet(queue)
        /\ h \in ToSet(queue) /\ h \notin ToSet(Tail(queue))
    BY <1>1, <1>2, ToSetMoves DEF Said
  <1>4. h \in All
    BY <1>1, <1>2
  <1>5. h \in asked /\ h \notin ToSet(up)
    BY <1>3, <1>4 DEF Said
  <1> QED BY <1>2, <1>3, <1>4, <1>5 DEF Untaken

(* A text that reaches the agent is new to it.                             *)
LEMMA HandledIs ==
    ASSUME TypeOK, Asking, Said, up # <<>>
    PROVE  /\ Head(up) \in Requests /\ Head(up) \in asked /\ Head(up) \in ToSet(up)
           /\ Head(up) \notin ToSet(queue) /\ ~Has(history, Question(Head(up)))
           /\ ToSet(Tail(up)) \subseteq ToSet(up)
           /\ Head(up) \notin ToSet(Tail(up))
  <1>1. up \in Seq(Requests)
    BY DEF TypeOK, AgentType
  <1>2. Head(up) \in Requests /\ Head(up) \in All
    BY <1>1 DEF All
  <1>3. IsInjective(up) /\ ToSet(up) \subseteq asked
    BY DEF Asking, SubmittedOnce, IsInjective, ToSet
  <1>4. /\ ToSet(Tail(up)) \subseteq ToSet(up) /\ Head(up) \in ToSet(up)
        /\ Head(up) \notin ToSet(Tail(up))
    BY <1>1, <1>3, ToSetMoves
  <1> QED BY <1>2, <1>3, <1>4 DEF Said

(* Nobody who has been taken asks again.                                   *)
LEMMA UntakenLess ==
    ASSUME TypeOK, Asking, Said, [Next]_vars, NEW r \in All, Untaken(r)'
    PROVE  Untaken(r)
  <1>1. up \in Seq(Requests) /\ queue \in Seq(All)
    BY DEF TypeOK, AgentType
  <1>2. CASE UNCHANGED <<asked, up, queue>>
    BY <1>2 DEF Untaken
  <1>3. CASE \/ OpenSocket \/ OpenFails \/ Closed \/ Remount \/ Receive
             \/ LeaveOverview \/ SendDelta \/ StartTool \/ EndTool \/ Complete
             \/ EndTurn \/ Fail \/ Accept
    BY <1>2, <1>3 DEF OpenSocket, OpenFails, Closed, Remount, Receive,
       LeaveOverview, SendDelta, StartTool, EndTool, Complete, EndTurn, Fail,
       Accept, Keep, agentVars, AgentKeeps
  <1>4. ASSUME NEW s \in Requests, Submit(s)
        PROVE  Untaken(r)
    <2>1. /\ s \notin asked /\ asked' = asked \union {s} /\ queue' = queue
          /\ up' = up \/ up' = Append(up, s)
      BY <1>4 DEF Submit, SendText, agentVars
    <2>2. ToSet(Append(up, s)) = ToSet(up) \union {s}
      BY <1>1, ToSetMoves
    <2> QED BY <2>1, <2>2 DEF Untaken
  <1>5. CASE HandleText
    <2>1. /\ up # <<>> /\ up' = Tail(up) /\ asked' = asked
          /\ queue' = queue \/ queue' = Append(queue, Head(up))
      BY <1>5 DEF HandleText, Enqueue, AgentKeeps
    <2>2. ToSet(Append(queue, Head(up))) = ToSet(queue) \union {Head(up)}
      BY <1>1, ToSetMoves
    <2> QED BY <2>1, <2>2, HandledIs DEF Untaken
  <1>6. ASSUME NEW s \in Others, OtherAsks(s)
        PROVE  Untaken(r)
    <2>1. /\ s \notin asked /\ asked' = asked \union {s} /\ up' = up
          /\ queue' = Append(queue, s)
      BY <1>6 DEF OtherAsks, Enqueue
    <2>2. ToSet(Append(queue, s)) = ToSet(queue) \union {s}
      BY <1>1, ToSetMoves
    <2> QED BY <2>1, <2>2 DEF Untaken
  <1>7. CASE Take
    BY <1>7, TakenIs
  <1>8. CASE Lose \/ RestartAgent
    <2>1. up' = <<>> /\ asked' = asked /\ (queue' = queue \/ queue' = <<>>)
      BY <1>8 DEF Lose, RestartAgent, Keep, agentVars
    <2>2. ToSet(<<>>) = {}
      BY DEF ToSet
    <2> QED BY <2>1, <2>2 DEF Untaken
  <1> QED BY <1>2, <1>3, <1>4, <1>5, <1>6, <1>7, <1>8
          DEF Next, Page, Agent, vars, agentVars

(* A question joins the queue and the history.                             *)
LEMMA SaidEnqueue ==
    ASSUME TypeOK, Asking, Said, [Next]_vars, NEW s \in All, Enqueue(s),
           UNCHANGED worker, asked' = asked \union {s},
           ~Has(history, Question(s)), s \notin ToSet(queue),
           ToSet(up') \subseteq ToSet(up) \ {s}
    PROVE  Said'
  <1>1. queue \in Seq(All) /\ history \in Seq(Texts)
    BY DEF TypeOK, AgentType
  <1>2. /\ queue' = Append(queue, s) /\ history' = Append(history, Question(s))
        /\ worker' = worker
    BY DEF Enqueue
  <1>3. /\ ToSet(queue') = ToSet(queue) \union {s} /\ IsInjective(queue')
    BY <1>1, <1>2, ToSetMoves DEF Said
  <1>4. \A y : Has(history', y) <=> Has(history, y) \/ SameId(Question(s), y)
    BY <1>1, <1>2, HasMoves
  <1>5. \A r : ~SameId(Question(s), Answer(r, <<>>))
    BY DEF SameId, Question, Answer
  <1>6. \A r \in All : Untaken(r)' => Untaken(r)
    BY UntakenLess
  <1>7. /\ \A i \in DOMAIN history' :
               \/ i \in DOMAIN history /\ history'[i] = history[i]
               \/ i = Len(history) + 1 /\ history'[i] = Question(s)
    BY <1>1, <1>2, AppendAt
  <1>8. \A i \in DOMAIN history : ~SameId(history[i], Question(s))
    BY DEF Has
  <1>9. \A i, j \in DOMAIN history' : SameId(history'[i], history'[j]) => i = j
    <2>1. \A i \in DOMAIN history : ~SameId(Question(s), history[i])
      BY <1>8 DEF SameId
    <2> QED BY <1>7, <1>8, <2>1 DEF Said
  <1>10. \A i \in DOMAIN history' : WellSaid(history'[i])
    <2>1. WellSaid(Question(s))
      BY DEF WellSaid, Question
    <2> QED BY <1>7, <2>1 DEF Said
  <1>11. \A r \in All : Untaken(r)' => ~Answered(history', r) /\ worker'.of # r
    BY <1>2, <1>4, <1>5, <1>6 DEF Said, Answered
  <1>12. \A r \in All : r \notin asked' \/ r \in ToSet(up') =>
             ~Has(history', Question(r)) /\ r \notin ToSet(queue')
    <2>1. \A r : r # s => ~SameId(Question(s), Question(r))
      BY DEF SameId, Question
    <2> QED BY <1>3, <1>4, <2>1 DEF Said
  <1>13. ToSet(queue') \subseteq asked'
    BY <1>3 DEF Said
  <1>14. Working' => ~Answered(history', worker'.of)
    BY <1>2, <1>4, <1>5 DEF Said, Answered, Working
  <1> QED BY <1>3, <1>9, <1>10, <1>11, <1>12, <1>13, <1>14 DEF Said

LEMMA SaidNext ==
    ASSUME TypeOK, Asking, Said, [Next]_vars
    PROVE  Said'
  <1>1. /\ up \in Seq(Requests) /\ queue \in Seq(All) /\ history \in Seq(Texts)
        /\ worker.of \in All \union {None} /\ None \notin All /\ worker.sent \in Nat
    BY AgentAssumption DEF TypeOK, AgentType, All
  <1>2. \A r \in All : Untaken(r)' => Untaken(r)
    BY UntakenLess
  <1>3. ASSUME UNCHANGED <<history, queue>>, asked \subseteq asked',
               \A r \in All : r \notin asked' \/ r \in ToSet(up') =>
                                  r \notin asked \/ r \in ToSet(up),
               \/ worker'.of = worker.of /\ worker'.step = worker.step
               \/ worker' = Resting
        PROVE  Said'
    <2>1. \A r \in All : Untaken(r)' => ~Answered(history', r) /\ worker'.of # r
      BY <1>1, <1>2, <1>3 DEF Said, Resting
    <2>2. \A r \in All : r \notin asked' \/ r \in ToSet(up') =>
              ~Has(history', Question(r)) /\ r \notin ToSet(queue')
      BY <1>3 DEF Said
    <2>3. Working' => ~Answered(history', worker'.of)
      BY <1>3 DEF Said, Working, Resting
    <2>4. /\ \A i, j \in DOMAIN history' : SameId(history'[i], history'[j]) => i = j
          /\ \A i \in DOMAIN history' : WellSaid(history'[i])
          /\ ToSet(queue') \subseteq asked' /\ IsInjective(queue')
      BY <1>3 DEF Said
    <2> QED BY <2>1, <2>2, <2>3, <2>4 DEF Said
  <1>4. CASE \/ OpenSocket \/ OpenFails \/ Closed \/ Remount \/ Receive
             \/ LeaveOverview \/ Accept \/ UNCHANGED vars
    <2>1. UNCHANGED <<asked, up, queue, history, worker>>
      BY <1>4 DEF OpenSocket, OpenFails, Closed, Remount, Receive, LeaveOverview,
         Accept, Keep, agentVars, vars
    <2> QED BY <1>3, <2>1
  <1>5. CASE SendDelta \/ StartTool \/ EndTool \/ EndTurn \/ Fail
    <2>1. /\ UNCHANGED <<asked, up, queue, history>>
          /\ \/ worker'.of = worker.of /\ worker'.step = worker.step
             \/ worker' = Resting
      <3>1. worker \in [of : All \union {None}, sent : Nat, tool : Calls,
                        step : {"idle", "working", "syncing"}]
        BY DEF TypeOK, AgentType
      <3> QED BY <1>5, <3>1 DEF SendDelta, StartTool, EndTool, EndTurn, Fail,
                                AgentKeeps
    <2> QED BY <1>3, <2>1
  <1>6. CASE Lose
    <2>1. up' = <<>> /\ UNCHANGED <<asked, queue, history, worker>>
      BY <1>6 DEF Lose, Keep, agentVars
    <2>2. ToSet(up') = {}
      BY <2>1 DEF ToSet
    <2> QED BY <1>3, <2>1, <2>2
  <1>7. ASSUME NEW s \in Requests, Submit(s)
        PROVE  Said'
    <2>1. /\ s \notin asked /\ asked' = asked \union {s}
          /\ UNCHANGED <<queue, history, worker>>
          /\ up' = up \/ up' = Append(up, s)
      BY <1>7 DEF Submit, SendText, agentVars
    <2>2. ToSet(Append(up, s)) = ToSet(up) \union {s}
      BY <1>1, ToSetMoves
    <2> QED BY <1>3, <2>1, <2>2
  <1>8. CASE HandleText
    <2>1. /\ up # <<>> /\ up' = Tail(up) /\ asked' = asked /\ worker' = worker
          /\ Enqueue(Head(up)) \/ UNCHANGED <<queue, history>>
      BY <1>8 DEF HandleText, AgentKeeps
    <2>2. CASE Enqueue(Head(up))
      <3>1. Head(up) \in All /\ asked' = asked \union {Head(up)}
        BY <2>1, HandledIs DEF All
      <3>2. ToSet(up') \subseteq ToSet(up) \ {Head(up)}
        BY <2>1, HandledIs
      <3> QED BY <2>1, <2>2, <3>1, <3>2, HandledIs, SaidEnqueue
    <2>3. CASE UNCHANGED <<queue, history>>
      BY <1>3, <2>1, <2>3, HandledIs
    <2> QED BY <2>1, <2>2, <2>3
  <1>9. ASSUME NEW s \in Others, OtherAsks(s)
        PROVE  Said'
    <2>1. /\ s \notin asked /\ asked' = asked \union {s} /\ up' = up
          /\ worker' = worker /\ Enqueue(s) /\ s \in All
      BY <1>9 DEF OtherAsks, All
    <2>2. s \notin ToSet(up) /\ ~Has(history, Question(s)) /\ s \notin ToSet(queue)
      <3>1. ToSet(up) \subseteq asked
        BY DEF Asking, SubmittedOnce, ToSet
      <3> QED BY <2>1, <3>1 DEF Said
    <2>3. ToSet(up') \subseteq ToSet(up) \ {s}
      BY <2>1, <2>2
    <2> QED BY <2>1, <2>2, <2>3, SaidEnqueue
  <1>10. CASE Take
    <2> PICK h : h = Head(queue)
      OBVIOUS
    <2>1. /\ UNCHANGED <<asked, up, history>> /\ queue' = Tail(queue)
          /\ queue # <<>> /\ worker'.of = h
      BY <1>10 DEF Take, AgentKeeps, Resting
    <2>2. /\ ToSet(queue') \subseteq ToSet(queue) /\ IsInjective(queue')
      BY <1>1, <2>1, ToSetMoves DEF Said
    <2>3. h \in All /\ Untaken(h) /\ ~Untaken(h)'
      BY <1>10, TakenIs
    <2>4. \A r \in All : Untaken(r)' => ~Answered(history', r) /\ worker'.of # r
      BY <1>2, <2>1, <2>3 DEF Said
    <2>5. ~Answered(history', worker'.of)
      BY <2>1, <2>3 DEF Said
    <2>6. \A r \in All : r \notin asked' \/ r \in ToSet(up') =>
              ~Has(history', Question(r)) /\ r \notin ToSet(queue')
      BY <2>1, <2>2 DEF Said
    <2>7. /\ \A i, j \in DOMAIN history' : SameId(history'[i], history'[j]) => i = j
          /\ \A i \in DOMAIN history' : WellSaid(history'[i])
          /\ ToSet(queue') \subseteq asked'
      BY <2>1, <2>2 DEF Said
    <2> QED BY <2>2, <2>4, <2>5, <2>6, <2>7 DEF Said
  <1>11. CASE Complete
    <2> DEFINE a == Answer(worker.of, Parts(worker.sent))
    <2>1. /\ Working /\ worker.sent > 0 /\ history' = Append(history, a)
          /\ UNCHANGED <<asked, up, queue>>
          /\ worker'.of = worker.of /\ worker'.step = "syncing"
      <3>1. worker \in [of : All \union {None}, sent : Nat, tool : Calls,
                        step : {"idle", "working", "syncing"}]
        BY DEF TypeOK, AgentType
      <3> QED BY <1>11, <3>1 DEF Complete, AgentKeeps
    <2>2. \A y : Has(history', y) <=> Has(history, y) \/ SameId(a, y)
      BY <1>1, <2>1, HasMoves
    <2>3. /\ \A r : SameId(a, Answer(r, <<>>)) => r = worker.of
          /\ \A r : ~SameId(a, Question(r))
          /\ \A y : SameId(y, a) <=> SameId(y, Answer(worker.of, <<>>))
          /\ \A y, z : SameId(y, z) <=> SameId(z, y)
      BY DEF SameId, Answer, Question
    <2>4. \A i \in DOMAIN history : ~SameId(history[i], a) /\ ~SameId(a, history[i])
      BY <2>1, <2>3 DEF Said, Answered, Has
    <2>5. \A i \in DOMAIN history' :
              \/ i \in DOMAIN history /\ history'[i] = history[i]
              \/ i = Len(history) + 1 /\ history'[i] = a
      BY <1>1, <2>1, AppendAt
    <2>6. WellSaid(a)
      <3>1. Len(Parts(worker.sent)) = worker.sent /\ Parts(worker.sent) # <<>>
        <4>1. Len(Parts(worker.sent)) = worker.sent /\ Len(<<>>) = 0
          BY <1>1, PartsAre
        <4> QED BY <1>1, <2>1, <4>1
      <3> QED BY <3>1 DEF WellSaid, Answer
    <2> HIDE DEF a
    <2>7. \A i, j \in DOMAIN history' : SameId(history'[i], history'[j]) => i = j
      BY <2>4, <2>5 DEF Said
    <2>8. \A i \in DOMAIN history' : WellSaid(history'[i])
      BY <2>5, <2>6 DEF Said
    <2>9. \A r \in All : Untaken(r)' => ~Answered(history', r) /\ worker'.of # r
      BY <1>2, <2>1, <2>2, <2>3 DEF Said, Answered
    <2>10. \A r \in All : r \notin asked' \/ r \in ToSet(up') =>
               ~Has(history', Question(r)) /\ r \notin ToSet(queue')
      BY <2>1, <2>2, <2>3 DEF Said
    <2>11. /\ ToSet(queue') \subseteq asked' /\ IsInjective(queue') /\ ~Working'
      BY <2>1 DEF Said, Working
    <2> QED BY <2>7, <2>8, <2>9, <2>10, <2>11 DEF Said
  <1>12. CASE RestartAgent
    <2>1. /\ up' = <<>> /\ queue' = <<>> /\ history' = <<>> /\ worker' = Resting
      BY <1>12 DEF RestartAgent
    <2>2. /\ ToSet(up') = {} /\ ToSet(queue') = {} /\ IsInjective(queue')
          /\ DOMAIN history' = {} /\ \A y : ~Has(history', y)
      BY <2>1 DEF ToSet, IsInjective, Has
    <2>3. \A r \in All : worker'.of # r
      BY <1>1, <2>1 DEF Resting
    <2>4. ~Working'
      BY <2>1 DEF Working, Resting
    <2> QED BY <2>2, <2>3, <2>4 DEF Said, Answered
  <1> QED BY <1>4, <1>5, <1>6, <1>7, <1>8, <1>9, <1>10, <1>11, <1>12
          DEF Next, Page, Agent

LEMMA SaidInit ==
    ASSUME Init
    PROVE  Said
  <1>1. /\ ToSet(<<>>) = {} /\ IsInjective(<<>>) /\ DOMAIN history = {}
        /\ up = <<>> /\ queue = <<>> /\ worker = Resting
    BY DEF Init, ToSet, IsInjective
  <1>2. None \notin All
    BY AgentAssumption DEF All
  <1>3. (\A r \in All : worker.of # r) /\ ~Working
    BY <1>1, <1>2 DEF Resting, Working
  <1>4. \A y : ~Has(history, y)
    BY <1>1 DEF Has
  <1> QED BY <1>1, <1>3, <1>4 DEF Said, Answered

-----------------------------------------------------------------------------
(* A page and the agent it follows                                         *)

(* Nothing was said in answer to r on this connection.                     *)
Fresh(draft, q, r) ==
    /\ draft = NoDraft
    /\ \A kind \in {"started", "delta", "completed", "failed"} : ~Says(q, kind, r)

(* What the page knows of the answer to r and what is on its way to it is  *)
(* what the agent has said of it.                                          *)
Followed(r, shown, draft, q) ==
    /\ Untaken(r) => Fresh(draft, q, r)
    /\ worker.of = r /\ Working =>
           Flows(draft, q, r, worker.sent) /\ ~Says(q, "completed", r)
    /\ \A j \in DOMAIN history : SameId(Answer(r, <<>>), history[j]) =>
           \/ Answered(shown, r)
           \/ Says(q, "completed", r) /\ Flows(draft, q, r, Len(history[j].parts))

Following ==
    sock = "open" =>
        /\ Ordered(Base, down, history, midway)
        /\ \A r \in All \ midway : Followed(r, Base, BaseDraft(r), down)

(* An agent's step says nothing new to the hello on its way.               *)
LEMMA AgentSpares ==
    ASSUME TypeOK, Asking, Agent, ~Accept
    PROVE  /\ HasHello(down') <=> HasHello(down)
           /\ Base' = Base /\ \A r : BaseDraft(r)' = BaseDraft(r)
           /\ UNCHANGED <<sock, store, midway>>
  <1>1. down \in Seq(Messages) /\ HelloFirst(down) /\ up \in Seq(Requests)
    BY DEF TypeOK, PageType, AgentType, Asking, Connected
  <1>2. ASSUME NEW q \in Seq(Messages), HelloFirst(q), NEW m \in Messages,
               m.kind # "hello"
        PROVE  /\ Append(q, m) \in Seq(Messages) /\ HelloFirst(Append(q, m))
               /\ HasHello(Append(q, m)) <=> HasHello(q)
               /\ HasHello(q) => Append(q, m)[1] = q[1]
    BY <1>2, HelloMoves
  <1>3. \A m \in Plain : m \in Messages /\ m.kind # "hello"
    BY DEF Plain
  <1>4. /\ HasHello(down') <=> HasHello(down)
        /\ HasHello(down) => down'[1] = down[1]
    <2>1. CASE \E m \in Plain : down' = Append(down, m)
      BY <1>1, <1>2, <1>3, <2>1
    <2>2. ASSUME NEW m \in Plain, NEW n \in Messages, n.kind # "hello",
                 down' = Append(Append(down, m), n)
          PROVE  /\ HasHello(down') <=> HasHello(down)
                 /\ HasHello(down) => down'[1] = down[1]
      <3> DEFINE o == Append(down, m)
      <3>1. /\ o \in Seq(Messages) /\ HelloFirst(o)
            /\ HasHello(o) <=> HasHello(down)
            /\ HasHello(down) => o[1] = down[1]
        BY <1>1, <1>2, <1>3
      <3>2. down' = Append(o, n)
        BY <2>2
      <3> HIDE DEF o
      <3> QED BY <1>2, <2>2, <3>1, <3>2
    <2>3. HandleText => /\ Asks(Head(up)) \in Plain
                        /\ [kind |-> "accepted", of |-> Head(up)] \in Messages
      <3>1. HandleText => Head(up) \in All
        BY <1>1, SeqFacts DEF HandleText, All
      <3> QED BY <3>1, MessageTypes
    <2>4. CASE HandleText /\ down' = Append(Append(down, Asks(Head(up))),
                                            [kind |-> "accepted", of |-> Head(up)])
      <3> DEFINE n == [kind |-> "accepted", of |-> Head(up)]
      <3>1. n.kind # "hello" /\ n \in Messages /\ Asks(Head(up)) \in Plain
        BY <2>3, <2>4
      <3>2. down' = Append(Append(down, Asks(Head(up))), n)
        BY <2>4
      <3> HIDE DEF n, Asks
      <3> QED BY <2>2, <3>1, <3>2
    <2> QED BY <1>3, <2>1, <2>2, <2>4, AgentOffers
  <1>5. UNCHANGED <<sock, store, midway>>
    BY DEF Agent, HandleText, OtherAsks, Take, SendDelta, StartTool, EndTool,
       Complete, EndTurn, Fail, AgentKeeps, pageVars
  <1> QED BY <1>4, <1>5 DEF Base, BaseDraft

LEMMA OnlineNext ==
    ASSUME TypeOK, Asking, Online, [Next]_vars
    PROVE  Online'
  <1>1. /\ store \in Stores /\ down \in Seq(Messages) /\ HelloFirst(down)
        /\ timer => sock = "none"
    BY DEF TypeOK, PageType, Asking, Connected
  <1>2. CASE OpenSocket \/ OpenFails \/ Closed \/ Remount
    BY <1>1, <1>2 DEF OpenSocket, OpenFails, Closed, Remount, Online, Stores
  <1>3. CASE Receive
    <2>1. /\ sock' = sock /\ sock \in {"open", "dead"} /\ down # <<>>
          /\ store' = Reduce(store, Head(down)) /\ down' = Tail(down)
          /\ Head(down) = down[1] /\ down[1] \in Messages
      BY <1>1, <1>3, SeqFacts DEF Receive
    <2>2. ~HasHello(down')
      BY <1>1, <2>1, HelloMoves
    <2>3. CASE down[1].kind = "hello"
      <3>1. store'.connection = "online"
        BY <2>1, <2>3 DEF Reduce, Hello
      <3> QED BY <2>1, <2>2, <3>1 DEF Online
    <2>4. CASE down[1].kind # "hello"
      <3>1. store'.connection = store.connection
        BY <1>1, <2>1, <2>4, ReduceIs
      <3> QED BY <2>1, <2>2, <2>4, <3>1 DEF Online, HasHello
    <2> QED BY <2>3, <2>4
  <1>4. CASE Accept
    <2>1. HasHello(down') /\ sock = "opening" /\ sock' = "open" /\ store' = store
      BY <1>4 DEF Accept, HasHello
    <2> QED BY <2>1 DEF Online
  <1>5. CASE Agent /\ ~Accept
    BY <1>5, AgentSpares DEF Online
  <1>6. CASE \/ LeaveOverview \/ (\E r \in Requests : Submit(r))
             \/ UNCHANGED vars
    BY <1>6 DEF LeaveOverview, Submit, Online, vars, pageVars
  <1>7. CASE Lose \/ RestartAgent
    BY <1>7 DEF Lose, RestartAgent, Online
  <1> QED BY <1>2, <1>3, <1>4, <1>5, <1>6, <1>7 DEF Next, Page

(* A connection begins: the history comes as a whole, and all that is told *)
(* from here on is on it.                                                  *)
LEMMA FollowingAccept ==
    ASSUME TypeOK, Said, Accept
    PROVE  Following'
  <1> PICK h : h = [kind |-> "hello", messages |-> history]
    OBVIOUS
  <1> PICK q : q = <<h>>
    OBVIOUS
  <1>1. /\ down' = q /\ sock' = "open"
        /\ UNCHANGED <<worker, queue, history, up, asked>>
        /\ midway' = IF worker.sent > 0 THEN {worker.of} ELSE {}
        /\ worker.sent \in Nat
    BY DEF Accept, Keep, agentVars, TypeOK, AgentType
  <1>2. h.kind = "hello" /\ h.messages = history
    OBVIOUS
  <1>3. DOMAIN q = {1} /\ q[1] = h /\ HasHello(q)
    BY <1>2 DEF HasHello
  <1>4. Base' = history /\ \A r : BaseDraft(r)' = NoDraft
    BY <1>1, <1>2, <1>3 DEF Base, BaseDraft
  <1>5. \A kind, r : kind # "hello" => ~Says(q, kind, r)
    BY <1>2, <1>3 DEF Says, Is
  <1>6. \A k \in DOMAIN q : \A x : ~Names(q[k], x)
    BY <1>2, <1>3 DEF Names
  <1>7. Ordered(history, q, history, midway')
    <2>1. \A i, j \in DOMAIN history : SameId(history[i], history[j]) <=> i = j
      BY DEF Said, SameId
    <2>2. /\ \A i \in DOMAIN history : \E j \in DOMAIN history :
                 SameId(history[i], history[j])
          /\ \A i \in DOMAIN history, j \in DOMAIN history :
                 SameId(history[i], history[j]) => history[i] = history[j]
          /\ \A i, k \in DOMAIN history, j, l \in DOMAIN history :
                 /\ i < k /\ SameId(history[i], history[j])
                 /\ SameId(history[k], history[l])
                 => j < l
      BY <2>1
    <2>3. \A k \in DOMAIN q : q[k].kind \notin {"message", "completed"}
      BY <1>2, <1>3
    <2> QED BY <1>6, <2>2, <2>3 DEF Ordered
  <1>8. ASSUME NEW r \in All \ midway'
        PROVE  Followed(r, history, NoDraft, q)'
    <2>1. Fresh(NoDraft, q, r)
      BY <1>5 DEF Fresh
    <2>2. worker.of = r => worker.sent = 0
      BY <1>1, <1>8
    <2>3. Flows(NoDraft, q, r, 0)
      <3>1. \A k \in DOMAIN q : /\ ~Is(q[k], "delta", r) /\ ~Is(q[k], "failed", r)
                                /\ ~Is(q[k], "completed", r)
        BY <1>5 DEF Says
      <3>2. NoDraft.parts = Parts(Len(NoDraft.parts)) /\ Len(NoDraft.parts) = 0
            /\ NoDraft.status # "interrupted"
        BY PartsAre DEF NoDraft
      <3> QED BY <3>1, <3>2 DEF Flows, Streams
    <2>4. \A j \in DOMAIN history : SameId(Answer(r, <<>>), history[j]) =>
              Answered(history, r)
      BY DEF Answered, Has, SameId
    <2>5. (worker.of = r /\ Working =>
               Flows(NoDraft, q, r, worker.sent) /\ ~Says(q, "completed", r))'
      BY <1>1, <1>5, <2>2, <2>3 DEF Working
    <2> QED BY <1>1, <2>1, <2>4, <2>5 DEF Followed
  <1> QED BY <1>1, <1>4, <1>7, <1>8 DEF Following

(* What each kind of message changes of the page's texts.                  *)
LEMMA ReduceTexts ==
    ASSUME NEW s \in Stores, NEW m \in Messages
    PROVE  LET t == Reduce(s, m) IN
           /\ m.kind = "hello" =>
                  t.messages = m.messages /\ \A r \in All : t.drafts[r] = NoDraft
           /\ m.kind = "message" =>
                  /\ t.messages = AppendMessage(s.messages, m.message)
                  /\ t.drafts = s.drafts
           /\ m.kind \in {"accepted", "error", "tool"} =>
                  t.messages = s.messages /\ t.drafts = s.drafts
           /\ m.kind \in {"started", "delta", "failed"} =>
                  t.messages = s.messages
           /\ m.kind \in {"started", "delta", "failed", "completed"} =>
                  \A r \in All : r # m.of => t.drafts[r] = s.drafts[r]
           /\ m.kind \in {"started", "delta"} =>
                  \/ Answered(s.messages, m.of)
                  \/ s.drafts[m.of].status = "interrupted"
                  \/ /\ t.drafts[m.of].status # "interrupted"
                     /\ t.drafts[m.of].parts =
                            IF m.kind = "delta"
                              THEN Append(s.drafts[m.of].parts, m.part)
                              ELSE s.drafts[m.of].parts
           /\ m.kind = "completed" =>
                  t.messages = IF s.drafts[m.of].parts = <<>> THEN s.messages
                               ELSE AppendMessage(s.messages,
                                      Answer(m.of, s.drafts[m.of].parts))
  <1> DEFINE t == Reduce(s, m)
  <1>1. /\ s.messages \in Seq(Texts) /\ s.drafts \in [All -> Drafts]
        /\ DOMAIN s = {"connection", "messages", "drafts", "tools"}
    BY DEF Stores
  <1>2. CASE m.kind = "hello"
    BY <1>2 DEF Reduce, Hello
  <1>3. CASE m.kind = "message"
    <2>1. t = [s EXCEPT !.messages = AppendMessage(s.messages, m.message)]
      BY <1>3 DEF Reduce, Message
    <2> HIDE DEF t
    <2>2. t.messages = AppendMessage(s.messages, m.message) /\ t.drafts = s.drafts
      BY <1>1, <2>1
    <2> QED BY <1>3, <2>2 DEF t
  <1>4. CASE m.kind \in {"accepted", "error"}
    BY <1>4 DEF Reduce
  <1>5. CASE m.kind = "tool" /\ m.of \in Tooled
    <2>1. t = [s EXCEPT !.tools[m.of] = m.status]
      BY <1>5 DEF Reduce, UpsertTool
    <2> HIDE DEF t
    <2>2. t.messages = s.messages /\ t.drafts = s.drafts
      BY <1>1, <2>1
    <2> QED BY <1>5, <2>2 DEF t
  <1>6. CASE m.kind = "started" /\ m.of \in All
    <2>1. t = IF Answered(s.messages, m.of) \/ s.drafts[m.of] # NoDraft THEN s
              ELSE [s EXCEPT !.drafts[m.of].status = "streaming"]
      BY <1>6 DEF Reduce, Started
    <2> HIDE DEF t
    <2>2. /\ t.messages = s.messages
          /\ \A r \in All : r # m.of => t.drafts[r] = s.drafts[r]
      BY <1>1, <1>6, <2>1
    <2>3. ASSUME ~Answered(s.messages, m.of),
                 s.drafts[m.of].status # "interrupted"
          PROVE  /\ t.drafts[m.of].status # "interrupted"
                 /\ t.drafts[m.of].parts = s.drafts[m.of].parts
      <3>1. CASE s.drafts[m.of] # NoDraft
        BY <2>1, <2>3, <3>1
      <3>2. CASE s.drafts[m.of] = NoDraft
        <4>1. t = [s EXCEPT !.drafts[m.of].status = "streaming"]
          BY <2>1, <2>3, <3>2
        <4>2. s.drafts[m.of] \in Drafts
          BY <1>1, <1>6
        <4>3. t.drafts[m.of] = [s.drafts[m.of] EXCEPT !.status = "streaming"]
          BY <1>1, <1>6, <4>1
        <4> QED BY <4>2, <4>3 DEF Drafts
      <3> QED BY <3>1, <3>2
    <2> QED BY <1>6, <2>2, <2>3 DEF t
  <1>7. CASE m.kind = "failed" /\ m.of \in All
    <2>1. t = [s EXCEPT !.drafts[m.of].status = "interrupted"]
      BY <1>7 DEF Reduce, Failed
    <2> HIDE DEF t
    <2>2. /\ t.messages = s.messages
          /\ \A r \in All : r # m.of => t.drafts[r] = s.drafts[r]
      BY <1>1, <1>7, <2>1
    <2> QED BY <1>7, <2>2 DEF t
  <1>8. CASE m.kind = "delta" /\ m.of \in All
    <2> DEFINE d == [status |-> "streaming",
                     parts |-> Append(s.drafts[m.of].parts, m.part)]
    <2>1. t = IF \/ Answered(s.messages, m.of)
                 \/ s.drafts[m.of].status = "interrupted" THEN s
              ELSE [s EXCEPT !.drafts[m.of] = d]
      BY <1>8 DEF Reduce, Delta
    <2>2. d.status # "interrupted"
          /\ d.parts = Append(s.drafts[m.of].parts, m.part)
      OBVIOUS
    <2> HIDE DEF t, d
    <2>3. /\ t.messages = s.messages
          /\ \A r \in All : r # m.of => t.drafts[r] = s.drafts[r]
      BY <1>1, <1>8, <2>1
    <2>4. \/ Answered(s.messages, m.of)
          \/ s.drafts[m.of].status = "interrupted"
          \/ t.drafts[m.of] = d
      BY <1>1, <1>8, <2>1
    <2> QED BY <1>8, <2>2, <2>3, <2>4 DEF t
  <1>9. CASE m.kind = "completed" /\ m.of \in All
    <2> DEFINE a == AppendMessage(s.messages, Answer(m.of, s.drafts[m.of].parts))
    <2>1. t = IF s.drafts[m.of] = NoDraft THEN s
              ELSE [s EXCEPT !.messages = IF s.drafts[m.of].parts = <<>>
                                            THEN s.messages ELSE a,
                             !.drafts[m.of] = NoDraft]
      BY <1>9 DEF Reduce, Completed
    <2>2. NoDraft.parts = <<>>
      BY DEF NoDraft
    <2> HIDE DEF t, a
    <2>3. t.messages = IF s.drafts[m.of].parts = <<>> THEN s.messages ELSE a
      BY <1>1, <2>1, <2>2
    <2>4. \A r \in All : r # m.of => t.drafts[r] = s.drafts[r]
      BY <1>1, <1>9, <2>1
    <2> QED BY <1>9, <2>3, <2>4 DEF t, a
  <1> QED BY <1>2, <1>3, <1>4, <1>5, <1>6, <1>7, <1>8, <1>9, MessageCases

LEMMA ShownIsSaid ==
    ASSUME Ordered(Base, down, history, midway), NEW r, Answered(Base, r)
    PROVE  Answered(history, r)
  BY DEF Ordered, Answered, Has, SameId

(* Who is asking, or is being answered, has no answer yet.                 *)
LEMMA NotYetAnswered ==
    ASSUME Said, Following, sock = "open", NEW r \in All,
           \/ worker.of = r /\ Working
           \/ Untaken(r)
    PROVE  ~Answered(Base, r)
  BY ShownIsSaid DEF Said, Following

(* Texts in their order, when the page takes a message.                    *)
LEMMA OrderedReceive ==
    ASSUME TypeOK, Said, Following, sock = "open", Receive, ~HasHello(down)
    PROVE  Ordered(store'.messages, down', history, midway)
  <1> DEFINE m == down[1]
             b == store.messages
  <1>1. /\ down \in Seq(Messages) /\ store \in Stores /\ history \in Seq(Texts)
        /\ b \in Seq(Texts) /\ store.drafts \in [All -> Drafts]
    BY DEF TypeOK, PageType, AgentType, Stores
  <1>2. /\ down # <<>> /\ Head(down) = m /\ m \in Messages /\ down' = Tail(down)
        /\ store' = Reduce(store, m)
    BY <1>1, SeqFacts DEF Receive
  <1>3. Base = b /\ \A r : BaseDraft(r) = store.drafts[r]
    BY DEF Base, BaseDraft
  <1>4. Ordered(b, down, history, midway)
    BY <1>3 DEF Following
  <1>5. m.kind # "hello"
    BY <1>2 DEF HasHello
  <1>6. Ordered(b, down', history, midway)
    BY <1>1, <1>2, <1>4, OrderedMoves
  <1>7. 1 \in DOMAIN down
    BY <1>1, <1>2
  <1>8. ASSUME NEW y \in Texts, m.kind \in {"message", "completed"},
               store'.messages = AppendMessage(b, y),
               \A x : Names(m, x) <=> SameId(y, x),
               \A j \in DOMAIN history : SameId(y, history[j]) /\ ~Has(b, y) =>
                   y = history[j] \/ history[j].id \in midway
        PROVE  Ordered(store'.messages, down', history, midway)
    <2>1. CASE Has(b, y)
      BY <1>6, <1>8, <2>1 DEF AppendMessage
    <2>2. CASE ~Has(b, y)
      <3>1. store'.messages = Append(b, y)
        BY <1>8, <2>2 DEF AppendMessage
      <3>2. Ordered(Append(b, y), Tail(down), history, midway)
        <4> HIDE DEF b
        <4> QED BY <1>1, <1>2, <1>4, <1>8, <2>2, OrderedShown
      <3> QED BY <1>2, <3>1, <3>2
    <2> QED BY <2>1, <2>2
  <1>9. CASE m.kind = "message"
    <2>1. m.message \in Texts
      BY <1>2, <1>9, MessageCases
    <2>2. store'.messages = AppendMessage(b, m.message)
      BY <1>1, <1>2, <1>9, ReduceTexts
    <2>3. \A x : Names(m, x) <=> SameId(m.message, x)
      BY <1>9 DEF Names
    <2>4. \A j \in DOMAIN history : SameId(m.message, history[j]) =>
              m.message = history[j]
      BY <1>4, <1>7, <1>9, <2>3 DEF Ordered
    <2> QED BY <1>8, <1>9, <2>1, <2>2, <2>3, <2>4
  <1>10. CASE m.kind = "completed"
    <2> DEFINE r == m.of
               d == store.drafts[r]
               y == Answer(r, d.parts)
    <2>1. r \in All /\ d \in Drafts
      BY <1>1, <1>2, <1>10, MessageCases
    <2>2. y \in Texts
      BY <2>1, MessageTypes DEF Drafts
    <2>3. store'.messages = IF d.parts = <<>> THEN b ELSE AppendMessage(b, y)
      BY <1>1, <1>2, <1>10, ReduceTexts
    <2>4. \A x : Names(m, x) <=> SameId(y, x)
      BY <1>10 DEF Names, SameId, Answer
    <2>5. ASSUME NEW j \in DOMAIN history, SameId(y, history[j]), ~Has(b, y),
                 r \notin midway
          PROVE  y = history[j]
      <3>1. SameId(Answer(r, <<>>), history[j]) /\ history[j].id = r
            /\ history[j].role = "agent"
        BY <2>5 DEF SameId, Answer
      <3>2. ~Answered(b, r)
        BY <2>5 DEF Answered, Has, SameId, Answer
      <3>3. Flows(d, down, r, Len(history[j].parts))
        BY <1>3, <2>1, <2>5, <3>1, <3>2 DEF Following, Followed
      <3>4. Is(m, "completed", r) /\ Len(history[j].parts) \in Nat
        BY <1>1, <1>10 DEF Is, Texts
      <3>5. d.parts = Parts(Len(history[j].parts))
        <4> HIDE DEF d
        <4> QED BY <1>1, <1>2, <2>1, <3>3, <3>4, FlowsLess
      <3>6. history[j] = Answer(r, Parts(Len(history[j].parts)))
        BY <3>1 DEF Said, WellSaid
      <3> QED BY <3>5, <3>6
    <2>6. \A j \in DOMAIN history : SameId(y, history[j]) => history[j].id = r
      BY DEF SameId, Answer
    <2>7. CASE d.parts = <<>>
      BY <1>6, <2>3, <2>7
    <2>8. CASE d.parts # <<>>
      <3>1. store'.messages = AppendMessage(b, y)
        BY <2>3, <2>8
      <3> HIDE DEF y
      <3> QED BY <1>8, <1>10, <2>2, <2>4, <2>5, <2>6, <3>1
    <2> QED BY <2>7, <2>8
  <1>11. CASE m.kind \in {"accepted", "error", "tool", "started", "delta", "failed"}
    <2>1. store'.messages = b
      BY <1>1, <1>2, <1>11, ReduceTexts
    <2> QED BY <1>6, <2>1
  <1> QED BY <1>2, <1>5, <1>9, <1>10, <1>11, MessageCases

(* An answer on its way, when the page takes a message.                    *)
LEMMA FollowedReceive ==
    ASSUME TypeOK, Said, Following, sock = "open", Receive, ~HasHello(down),
           NEW r \in All \ midway, NEW t, t = store'.messages,
           NEW e, e = store'.drafts[r], NEW p, p = down'
    PROVE  Followed(r, t, e, p)'
  <1> DEFINE m == down[1]
             b == store.messages
             d == store.drafts[r]
  <1>1. /\ down \in Seq(Messages) /\ store \in Stores /\ history \in Seq(Texts)
        /\ b \in Seq(Texts) /\ store.drafts \in [All -> Drafts] /\ d \in Drafts
        /\ worker.sent \in Nat
    BY DEF TypeOK, PageType, AgentType, Stores
  <1>2. /\ down # <<>> /\ Head(down) = m /\ m \in Messages /\ p = Tail(down)
        /\ store' = Reduce(store, m)
        /\ UNCHANGED <<worker, history, queue, asked, up>>
    BY <1>1, SeqFacts DEF Receive, Keep, agentVars
  <1>3. Base = b /\ \A s : BaseDraft(s) = store.drafts[s]
    BY DEF Base, BaseDraft
  <1>4. Followed(r, b, d, down)
    BY <1>3 DEF Following
  <1>5. m.kind # "hello" /\ 1 \in DOMAIN down
    BY <1>1, <1>2 DEF HasHello
  <1>6. Answered(b, r) => Answered(t, r)
    <2>1. \A x : Has(store.messages, x) => Has(store'.messages, x)
      BY <1>1, <1>2, <1>5, ReduceIs
    <2> QED BY <1>2, <2>1 DEF Answered
  <1>7. e \in Drafts
    <2>1. store' \in Stores
      BY <1>1, <1>2, ReduceIs
    <2> QED BY <2>1 DEF Stores
  <1>8. \A kind : /\ Says(p, kind, r) => Says(down, kind, r)
                  /\ ~Is(m, kind, r) /\ Says(down, kind, r) => Says(p, kind, r)
    BY <1>1, <1>2, SaysMoves
  <1>9. \A j \in DOMAIN history : Len(history[j].parts) \in Nat
    BY <1>1 DEF Texts
  <1>10. SUFFICES /\ Untaken(r) => Fresh(e, p, r)
                  /\ worker.of = r /\ Working =>
                         /\ Flows(e, p, r, worker.sent)
                         /\ ~Says(p, "completed", r)
                  /\ \A j \in DOMAIN history : SameId(Answer(r, <<>>), history[j]) =>
                         \/ Answered(t, r)
                         \/ /\ Says(p, "completed", r)
                            /\ Flows(e, p, r, Len(history[j].parts))
    BY <1>2 DEF Followed, Untaken, Working
  <1>11. CASE ~About(m, r)
    <2>1. e = d
      <3>1. CASE m.kind \in {"message", "accepted", "error", "tool"}
        BY <1>1, <1>2, <3>1, ReduceTexts
      <3>2. CASE m.kind \in {"started", "delta", "completed", "failed"}
        <4>1. m.of # r
          BY <1>11, <3>2 DEF About, Is
        <4> QED BY <1>1, <1>2, <3>2, <4>1, ReduceTexts
      <3> QED BY <1>2, <1>5, <3>1, <3>2, MessageCases
    <2>2. \A n \in Nat : Flows(d, down, r, n) => Flows(d, p, r, n)
      <3>1. \A n \in Nat : Flows(d, down, r, n) => d.status # "interrupted"
        BY DEF Flows
      <3> HIDE DEF d
      <3> QED BY <1>1, <1>2, <1>11, <3>1, FlowsLess
    <2>3. ~Is(m, "completed", r)
      BY <1>11 DEF About
    <2>4. Untaken(r) => Fresh(e, p, r)
      BY <1>4, <1>8, <2>1 DEF Followed, Fresh
    <2> QED BY <1>1, <1>4, <1>6, <1>8, <1>9, <2>1, <2>2, <2>3, <2>4 DEF Followed
  <1>12. ASSUME About(m, r)
         PROVE  ~Untaken(r)
    BY <1>4, <1>5, <1>12 DEF Followed, Fresh, About, Says
  <1>13. ASSUME NEW n \in Nat, Flows(d, down, r, n), ~Answered(b, r),
                About(m, r), ~Is(m, "completed", r)
         PROVE  Flows(e, p, r, n)
    <2>1. ~Is(m, "failed", r)
      <3> HIDE DEF d
      <3> QED BY <1>1, <1>2, <1>13, FlowsLess
    <2>2. m.kind \in {"started", "delta"} /\ m.of = r
      BY <1>13, <2>1 DEF About, Is
    <2>3. d.status # "interrupted"
      BY <1>13 DEF Flows
    <2>4. /\ e.status # "interrupted"
          /\ e.parts = IF m.kind = "delta" THEN Append(d.parts, m.part) ELSE d.parts
      BY <1>1, <1>2, <1>13, <2>2, <2>3, ReduceTexts
    <2> HIDE DEF d
    <2>5. CASE m.kind = "started"
      <3>1. Is(m, "started", r) /\ e.parts = d.parts
        BY <2>2, <2>4, <2>5 DEF Is
      <3> QED BY <1>1, <1>2, <1>7, <1>13, <2>4, <3>1, FlowsLess
    <2>6. CASE m.kind = "delta"
      <3>1. Is(m, "delta", r) /\ e.parts = Append(d.parts, m.part)
        BY <2>2, <2>4, <2>6 DEF Is
      <3>2. \A x \in Drafts :
                x.parts = Append(d.parts, down[1].part)
                /\ x.status # "interrupted" => Flows(x, Tail(down), r, n)
        BY <1>1, <1>2, <1>13, <3>1, FlowsLess
      <3> QED BY <1>2, <1>7, <2>4, <3>1, <3>2
    <2> QED BY <2>2, <2>5, <2>6
  <1>14. CASE About(m, r) /\ ~Is(m, "completed", r)
    <2>1. ASSUME worker.of = r, Working
          PROVE  Flows(e, p, r, worker.sent) /\ ~Says(p, "completed", r)
      <3>1. ~Answered(b, r)
        BY <1>3, <2>1, NotYetAnswered
      <3>2. Flows(d, down, r, worker.sent) /\ ~Says(down, "completed", r)
        BY <1>4, <2>1 DEF Followed
      <3> QED BY <1>1, <1>8, <1>13, <1>14, <3>1, <3>2
    <2>2. ASSUME NEW j \in DOMAIN history, SameId(Answer(r, <<>>), history[j]),
                 ~Answered(t, r)
          PROVE  /\ Says(p, "completed", r)
                 /\ Flows(e, p, r, Len(history[j].parts))
      <3>1. ~Answered(b, r)
        BY <1>6, <2>2
      <3>2. /\ Says(down, "completed", r)
            /\ Flows(d, down, r, Len(history[j].parts))
        BY <1>4, <2>2, <3>1 DEF Followed
      <3> QED BY <1>8, <1>9, <1>13, <1>14, <3>1, <3>2
    <2> QED BY <1>12, <1>14, <2>1, <2>2
  <1>15. CASE Is(m, "completed", r)
    <2>1. About(m, r) /\ Says(down, "completed", r) /\ m.kind = "completed"
          /\ m.of = r
      BY <1>5, <1>15 DEF About, Says, Is
    <2>2. ~(worker.of = r /\ Working)
      BY <1>4, <2>1 DEF Followed
    <2>3. ASSUME NEW j \in DOMAIN history, SameId(Answer(r, <<>>), history[j]),
                 ~Answered(b, r)
          PROVE  Answered(t, r)
      <3>1. Flows(d, down, r, Len(history[j].parts))
        BY <1>4, <2>3 DEF Followed
      <3>2. d.parts = Parts(Len(history[j].parts))
        <4> HIDE DEF d
        <4> QED BY <1>1, <1>2, <1>9, <1>15, <3>1, FlowsLess
      <3>3. history[j].role = "agent"
            /\ history[j] = Answer(history[j].id, Parts(Len(history[j].parts)))
            /\ history[j].parts # <<>>
        BY <2>3 DEF SameId, Answer, Said, WellSaid
      <3>4. d.parts # <<>>
        BY <3>2, <3>3 DEF Answer
      <3>5. t = AppendMessage(b, Answer(r, d.parts))
        BY <1>1, <1>2, <2>1, <3>4, ReduceTexts
      <3>6. Has(t, Answer(r, d.parts))
        <4>1. Answer(r, d.parts) \in Texts
          BY <1>1, MessageTypes DEF Drafts
        <4>2. \A y \in Texts : Has(AppendMessage(b, y), y)
          BY <1>1, AppendMessageIs
        <4> QED BY <3>5, <4>1, <4>2
      <3> QED BY <3>6 DEF Answered, Has, SameId, Answer
    <2> QED BY <1>6, <1>12, <2>1, <2>2, <2>3
  <1> QED BY <1>11, <1>14, <1>15

LEMMA FollowingReceive ==
    ASSUME TypeOK, Asking, Said, Following, Receive
    PROVE  Following'
  <1> SUFFICES ASSUME sock' = "open"
               PROVE  /\ Ordered(Base, down, history, midway)'
                      /\ \A r \in All \ midway' :
                             Followed(r, Base, BaseDraft(r), down)'
    BY DEF Following
  <1>1. /\ down \in Seq(Messages) /\ store \in Stores /\ history \in Seq(Texts)
        /\ HelloFirst(down) /\ worker.sent \in Nat
        /\ \A j \in DOMAIN history : Len(history[j].parts) \in Nat
    BY DEF TypeOK, PageType, AgentType, Asking, Connected, Texts
  <1>2. /\ sock = "open" /\ down # <<>> /\ down[1] \in Messages
        /\ Head(down) = down[1] /\ down' = Tail(down) /\ midway' = midway
        /\ store' = Reduce(store, down[1])
        /\ UNCHANGED <<worker, history, queue, asked, up>>
    BY <1>1, SeqFacts DEF Receive, Keep, agentVars
  <1>3. ~HasHello(down')
    BY <1>1, <1>2, HelloMoves
  <1>4. Base' = store'.messages /\ \A r : BaseDraft(r)' = store'.drafts[r]
    BY <1>3 DEF Base, BaseDraft
  <1>5. CASE ~HasHello(down)
    <2>1. Ordered(store'.messages, down', history, midway)
      BY <1>2, <1>5, OrderedReceive
    <2>2. ASSUME NEW r \in All \ midway
          PROVE  Followed(r, Base, BaseDraft(r), down)'
      <3> PICK t, e, p : t = store'.messages /\ e = store'.drafts[r] /\ p = down'
        OBVIOUS
      <3>1. Followed(r, t, e, p)'
        BY <1>2, <1>5, FollowedReceive
      <3>2. Base' = t /\ BaseDraft(r)' = e
        BY <1>4
      <3> QED BY <3>1, <3>2 DEF Followed
    <2> QED BY <1>2, <1>4, <2>1, <2>2
  <1>6. CASE HasHello(down)
    <2>1. /\ Base = down[1].messages /\ down[1].kind = "hello"
          /\ \A r : BaseDraft(r) = NoDraft /\ ~About(down[1], r)
      BY <1>6 DEF HasHello, Base, BaseDraft, About, Is
    <2>2. store'.messages = Base /\ \A r \in All : store'.drafts[r] = NoDraft
      BY <1>1, <1>2, <2>1, ReduceTexts
    <2>3. Base \in Seq(Texts)
      BY <1>2, <2>1, MessageCases
    <2>4. Ordered(Base, down', history, midway)
      BY <1>1, <1>2, <2>3, OrderedMoves DEF Following
    <2>5. ASSUME NEW r \in All \ midway
          PROVE  Followed(r, Base, BaseDraft(r), down)'
      <3>1. Followed(r, Base, NoDraft, down)
        BY <1>2, <2>1, <2>5 DEF Following
      <3>2. NoDraft \in Drafts /\ NoDraft.status # "interrupted"
        <4>1. <<>> \in Seq(Nat)
          OBVIOUS
        <4> QED BY <4>1 DEF NoDraft, Drafts
      <3>3. \A kind : /\ Says(down', kind, r) => Says(down, kind, r)
                      /\ kind # "hello" /\ Says(down, kind, r) =>
                             Says(down', kind, r)
        <4>1. \A kind : kind # "hello" => ~Is(down[1], kind, r)
          BY <2>1 DEF Is
        <4> QED BY <1>1, <1>2, <4>1, SaysMoves
      <3>4. \A n \in Nat : Flows(NoDraft, down, r, n) => Flows(NoDraft, down', r, n)
        BY <1>1, <1>2, <2>1, <3>2, FlowsLess
      <3>5. Base' = Base /\ BaseDraft(r)' = NoDraft
        BY <1>4, <2>2
      <3>6. Untaken(r)' = Untaken(r) /\ Working' = Working
        BY <1>2 DEF Untaken, Working
      <3>7. Untaken(r) => Fresh(NoDraft, down', r)
        BY <3>1, <3>3 DEF Followed, Fresh
      <3>8. worker.of = r /\ Working =>
                /\ Flows(NoDraft, down', r, worker.sent)
                /\ ~Says(down', "completed", r)
        BY <1>1, <3>1, <3>3, <3>4 DEF Followed
      <3>9. \A j \in DOMAIN history : SameId(Answer(r, <<>>), history[j]) =>
                \/ Answered(Base, r)
                \/ /\ Says(down', "completed", r)
                   /\ Flows(NoDraft, down', r, Len(history[j].parts))
        BY <1>1, <3>1, <3>3, <3>4 DEF Followed
      <3> QED BY <1>2, <3>5, <3>6, <3>7, <3>8, <3>9 DEF Followed
    <2> QED BY <1>2, <1>4, <2>2, <2>4, <2>5
  <1> QED BY <1>5, <1>6

(* What comes after q in p tells nothing of the answer to r.               *)
Continues(p, q, r) ==
    /\ \A kind \in {"started", "delta", "completed", "failed"} :
           Says(p, kind, r) <=> Says(q, kind, r)
    /\ \A draft \in Drafts, n \in Nat :
           Flows(draft, q, r, n) => Flows(draft, p, r, n)

LEMMA ContinuesMore ==
    ASSUME NEW q \in Seq(Messages), NEW r
    PROVE  /\ Continues(q, q, r)
           /\ \A m : ~About(m, r) => Continues(Append(q, m), q, r)
           /\ \A o, p : Continues(p, o, r) /\ Continues(o, q, r) =>
                            Continues(p, q, r)
  <1>1. ASSUME NEW m, ~About(m, r)
        PROVE  Continues(Append(q, m), q, r)
    <2>1. \A kind \in {"started", "delta", "completed", "failed"} :
              Says(Append(q, m), kind, r) <=> Says(q, kind, r)
      BY <1>1, SaysMoves DEF About
    <2>2. \A draft \in Drafts, n \in Nat :
              Flows(draft, q, r, n) => Flows(draft, Append(q, m), r, n)
      BY <1>1, FlowsMore
    <2> QED BY <2>1, <2>2 DEF Continues
  <1> QED BY <1>1 DEF Continues

LEMMA FollowedLater ==
    ASSUME TypeOK, NEW r \in All, NEW shown, NEW draft \in Drafts, NEW q, NEW p,
           Followed(r, shown, draft, q), Continues(p, q, r),
           Untaken(r)' => Untaken(r),
           worker'.of = r /\ Working' =>
               worker.of = r /\ Working /\ worker'.sent = worker.sent,
           \A j \in DOMAIN history' : SameId(Answer(r, <<>>), history'[j]) =>
               j \in DOMAIN history /\ history'[j] = history[j]
    PROVE  Followed(r, shown, draft, p)'
  <1>1. worker.sent \in Nat /\ \A j \in DOMAIN history : Len(history[j].parts) \in Nat
    BY DEF TypeOK, AgentType, Texts
  <1>2. Untaken(r)' => Fresh(draft, p, r)
    BY DEF Followed, Fresh, Continues
  <1>3. worker'.of = r /\ Working' =>
            Flows(draft, p, r, worker'.sent) /\ ~Says(p, "completed", r)
    BY <1>1 DEF Followed, Continues
  <1>4. \A j \in DOMAIN history' : SameId(Answer(r, <<>>), history'[j]) =>
            \/ Answered(shown, r)
            \/ /\ Says(p, "completed", r)
               /\ Flows(draft, p, r, Len(history'[j].parts))
    BY <1>1 DEF Followed, Continues
  <1> QED BY <1>2, <1>3, <1>4 DEF Followed

(* A question is told, and then accepted or not.                           *)
LEMMA FollowingEnqueue ==
    ASSUME TypeOK, Asking, Said, [Next]_vars, sock = "open",
           NEW b \in Seq(Texts), NEW q \in Seq(Messages), NEW p,
           NEW s \in All, Enqueue(s), UNCHANGED worker,
           ~Has(history, Question(s)),
           NEW o, o = Append(q, Asks(s)),
           \/ p = o
           \/ p = Append(o, [kind |-> "accepted", of |-> s]),
           Ordered(b, q, history, midway)
    PROVE  /\ Ordered(b, p, history', midway)
           /\ \A r \in All, d \in Drafts : Followed(r, b, d, q) =>
                                               Followed(r, b, d, p)'
  <1> DEFINE n == [kind |-> "accepted", of |-> s]
  <1>1. /\ history \in Seq(Texts) /\ history' = Append(history, Question(s))
        /\ Question(s) \in Texts /\ Asks(s) \in Messages /\ n \in Messages
    BY MessageTypes DEF TypeOK, AgentType, Enqueue, Plain
  <1>2. history' \in Seq(Texts) /\ o \in Seq(Messages)
    BY <1>1
  <1>3. Ordered(b, o, history', midway)
    <2>1. /\ Names(Asks(s), Question(s)) /\ Asks(s).message = Question(s)
          /\ Question(s).role = "user"
      BY DEF Names, Asks, Question, SameId
    <2> HIDE DEF Asks, Question
    <2> QED BY <1>1, <2>1, OrderedSaid
  <1>4. Ordered(b, p, history', midway)
    <2>1. n.kind \notin {"message", "completed"}
      OBVIOUS
    <2> HIDE DEF n
    <2>2. Ordered(b, Append(o, n), history', midway)
      BY <1>2, <1>3, <2>1, OrderedMoves
    <2> QED BY <1>3, <2>2 DEF n
  <1>5. ASSUME NEW r \in All, NEW d \in Drafts, Followed(r, b, d, q)
        PROVE  Followed(r, b, d, p)'
    <2>1. ~About(Asks(s), r) /\ ~About(n, r)
      BY DEF About, Is, Asks
    <2> HIDE DEF n, Asks
    <2>2. Continues(o, q, r) /\ Continues(Append(o, n), o, r)
      BY <1>2, <2>1, ContinuesMore
    <2>3. Continues(p, q, r)
      BY <2>2, ContinuesMore DEF n
    <2>4. Untaken(r)' => Untaken(r)
      BY UntakenLess
    <2>5. \A j \in DOMAIN history' : SameId(Answer(r, <<>>), history'[j]) =>
              j \in DOMAIN history /\ history'[j] = history[j]
      <3>1. ~SameId(Answer(r, <<>>), Question(s))
        BY DEF SameId, Answer, Question
      <3>2. \A j \in DOMAIN history' :
                \/ j \in DOMAIN history /\ history'[j] = history[j]
                \/ history'[j] = Question(s)
        BY <1>1, AppendAt
      <3> QED BY <3>1, <3>2
    <2> QED BY <1>5, <2>3, <2>4, <2>5, FollowedLater DEF Working
  <1> QED BY <1>4, <1>5

(* An agent's step leaves what is followed as followed.                    *)
Carries(b, q, p) ==
    Ordered(b, q, history, midway) =>
        /\ Ordered(b, p, history', midway)
        /\ \A r \in All, d \in Drafts : Followed(r, b, d, q) =>
                                            Followed(r, b, d, p)'

LEMMA NotAnswered ==
    ASSUME NEW messages, NEW r, ~Answered(messages, r)
    PROVE  \A j \in DOMAIN messages : ~SameId(Answer(r, <<>>), messages[j])
  BY DEF Answered, Has, SameId

(* The first words in answer to h.                                         *)
LEMMA FollowingTake ==
    ASSUME TypeOK, Asking, Said, Take, sock = "open",
           NEW b \in Seq(Texts), NEW q \in Seq(Messages), q = down,
           NEW p, p = down'
    PROVE  Carries(b, q, p)
  <1> PICK h : h = Head(queue)
    OBVIOUS
  <1> PICK m : m = [kind |-> "started", of |-> h]
    OBVIOUS
  <1>1. /\ h \in All /\ Untaken(h) /\ ~Untaken(h)'
        /\ \A r : Untaken(r)' => Untaken(r)
    BY TakenIs
  <1>2. m.kind = "started" /\ m.of = h /\ m \in Messages
    BY <1>1, MessageTypes DEF Plain
  <1>3. /\ p = Append(q, m) /\ history' = history
        /\ worker'.of = h /\ worker'.sent = 0
    BY DEF Take, Offer, AgentKeeps, Resting
  <1>4. ASSUME Ordered(b, q, history, midway)
        PROVE  Ordered(b, p, history', midway)
    <2>1. history \in Seq(Texts)
      BY DEF TypeOK, AgentType
    <2> QED BY <1>2, <1>3, <1>4, <2>1, OrderedMoves
  <1>5. ASSUME NEW r \in All, NEW d \in Drafts, Followed(r, b, d, q)
        PROVE  Followed(r, b, d, p)'
    <2>1. CASE r # h
      <3>1. ~About(m, r)
        BY <1>2, <2>1 DEF About, Is
      <3>2. Continues(p, q, r)
        <4>1. Continues(Append(q, m), q, r)
          BY <3>1, ContinuesMore
        <4> QED BY <1>3, <4>1
      <3> QED BY <1>1, <1>3, <1>5, <2>1, <3>2, FollowedLater
    <2>2. CASE r = h
      <3>1. Fresh(d, q, h) /\ ~Answered(history, h)
        BY <1>1, <1>5, <2>2 DEF Followed, Said
      <3>2. /\ d.parts = <<>> /\ Len(d.parts) = 0 /\ d.status = "none"
            /\ Parts(0) = <<>>
        BY <3>1, PartsAre DEF Fresh, NoDraft
      <3>3. \A k \in DOMAIN q, kind \in {"started", "delta", "completed", "failed"} :
                ~Is(q[k], kind, h)
        BY <3>1 DEF Fresh, Says
      <3>4. Flows(d, q, h, 0)
        <4>1. \A x \in 0 + 1 .. 0 : FALSE
          OBVIOUS
        <4> QED BY <3>2, <3>3, <4>1 DEF Flows, Streams
      <3>5. Is(m, "started", h) /\ ~Is(m, "completed", h)
        BY <1>2 DEF Is
      <3>6. Flows(d, p, h, 0)
        BY <1>3, <3>4, <3>5, FlowsMore
      <3>7. ~Says(p, "completed", h)
        BY <1>3, <3>1, <3>5, SaysMoves DEF Fresh
      <3> QED BY <1>1, <1>3, <2>2, <3>1, <3>6, <3>7, NotAnswered DEF Followed
    <2> QED BY <2>1, <2>2
  <1> QED BY <1>4, <1>5 DEF Carries

(* More of the text.                                                       *)
LEMMA FollowingDelta ==
    ASSUME TypeOK, Asking, Said, SendDelta, sock = "open",
           NEW b \in Seq(Texts), NEW q \in Seq(Messages), q = down,
           NEW p, p = down'
    PROVE  Carries(b, q, p)
  <1> PICK h, n : h = worker.of /\ n = worker.sent
    OBVIOUS
  <1> PICK m : m = [kind |-> "delta", of |-> h, part |-> n + 1]
    OBVIOUS
  <1>1. /\ Working /\ h \in All /\ n \in Nat
        /\ worker \in [of : All \union {None}, sent : Nat, tool : Calls,
                       step : {"idle", "working", "syncing"}]
    BY DEF TypeOK, AgentType, SendDelta, Working
  <1>2. m.kind = "delta" /\ m.of = h /\ m.part = n + 1 /\ m \in Messages
    BY <1>1, MessageTypes DEF Plain
  <1>3. /\ p = Append(q, m) /\ history' = history
        /\ worker'.of = h /\ worker'.sent = n + 1
        /\ UNCHANGED <<asked, up, queue>>
    BY <1>1 DEF SendDelta, Offer, AgentKeeps
  <1>4. ASSUME Ordered(b, q, history, midway)
        PROVE  Ordered(b, p, history', midway)
    <2>1. history \in Seq(Texts)
      BY DEF TypeOK, AgentType
    <2> QED BY <1>2, <1>3, <1>4, <2>1, OrderedMoves
  <1>5. \A r : Untaken(r)' <=> Untaken(r)
    BY <1>3 DEF Untaken
  <1>6. ASSUME NEW r \in All, NEW d \in Drafts, Followed(r, b, d, q)
        PROVE  Followed(r, b, d, p)'
    <2>1. CASE r # h
      <3>1. ~About(m, r)
        BY <1>2, <2>1 DEF About, Is
      <3>2. Continues(p, q, r)
        <4>1. Continues(Append(q, m), q, r)
          BY <3>1, ContinuesMore
        <4> QED BY <1>3, <4>1
      <3> QED BY <1>3, <1>5, <1>6, <2>1, <3>2, FollowedLater
    <2>2. CASE r = h
      <3>1. /\ Flows(d, q, h, n) /\ ~Says(q, "completed", h)
            /\ ~Answered(history, h) /\ ~Untaken(h)
        BY <1>1, <1>6, <2>2 DEF Followed, Said
      <3>2. Is(m, "delta", h) /\ ~Is(m, "completed", h)
        BY <1>2 DEF Is
      <3>3. Flows(d, p, h, n + 1)
        BY <1>1, <1>2, <1>3, <3>1, <3>2, FlowsMore
      <3>4. ~Says(p, "completed", h)
        BY <1>3, <3>1, <3>2, SaysMoves
      <3> QED BY <1>3, <1>5, <2>2, <3>1, <3>3, <3>4, NotAnswered DEF Followed
    <2> QED BY <2>1, <2>2
  <1> QED BY <1>4, <1>6 DEF Carries

(* Nothing of a text: the tool, and the end of a turn.                     *)
LEMMA FollowingTool ==
    ASSUME TypeOK, Asking, Said, StartTool \/ EndTool \/ EndTurn, sock = "open",
           NEW b \in Seq(Texts), NEW q \in Seq(Messages), q = down,
           NEW p, p = down'
    PROVE  Carries(b, q, p)
  <1>1. /\ history \in Seq(Texts)
        /\ worker \in [of : All \union {None}, sent : Nat, tool : Calls,
                       step : {"idle", "working", "syncing"}]
    BY DEF TypeOK, AgentType
  <1>2. PICK m : m.kind = "tool" /\ p \in {q, Append(q, m)}
    <2>1. StartTool => p = Append(q, [kind |-> "tool", of |-> worker.of,
                                      status |-> "running"])
      BY DEF StartTool, Offer
    <2>2. EndTool => \E end \in {"completed", "failed"} :
              p = Append(q, [kind |-> "tool", of |-> worker.of, status |-> end])
      BY DEF EndTool, Offer
    <2>3. \A end : [kind |-> "tool", of |-> worker.of, status |-> end].kind = "tool"
      OBVIOUS
    <2>4. EndTurn => p = q
      BY DEF EndTurn
    <2> QED BY <2>1, <2>2, <2>3, <2>4
  <1>3. /\ UNCHANGED <<history, asked, up, queue>>
        /\ \A r : worker'.of = r /\ Working' =>
                      worker.of = r /\ Working /\ worker'.sent = worker.sent
    BY <1>1 DEF StartTool, EndTool, EndTurn, AgentKeeps, Working, Resting
  <1>4. ASSUME Ordered(b, q, history, midway)
        PROVE  Ordered(b, p, history', midway)
    BY <1>1, <1>2, <1>3, <1>4, OrderedMoves
  <1>5. ASSUME NEW r \in All, NEW d \in Drafts, Followed(r, b, d, q)
        PROVE  Followed(r, b, d, p)'
    <2>1. ~About(m, r)
      BY <1>2 DEF About, Is
    <2>2. Continues(p, q, r)
      BY <1>2, <2>1, ContinuesMore
    <2>3. Untaken(r)' => Untaken(r)
      BY <1>3 DEF Untaken
    <2> QED BY <1>3, <1>5, <2>2, <2>3, FollowedLater
  <1> QED BY <1>4, <1>5 DEF Carries

(* The whole text is in the history, and its end on its way.               *)
LEMMA FollowingComplete ==
    ASSUME TypeOK, Asking, Said, Complete, sock = "open",
           NEW b \in Seq(Texts), NEW q \in Seq(Messages), q = down,
           NEW p, p = down'
    PROVE  Carries(b, q, p)
  <1> PICK h, n : h = worker.of /\ n = worker.sent
    OBVIOUS
  <1> PICK m : m = [kind |-> "completed", of |-> h]
    OBVIOUS
  <1> PICK a : a = Answer(h, Parts(n))
    OBVIOUS
  <1>1. /\ Working /\ h \in All /\ n \in Nat /\ history \in Seq(Texts)
        /\ worker \in [of : All \union {None}, sent : Nat, tool : Calls,
                       step : {"idle", "working", "syncing"}]
    BY DEF TypeOK, AgentType, Complete, Working
  <1>2. /\ m.kind = "completed" /\ m.of = h /\ m \in Messages
        /\ a \in Texts /\ a.parts = Parts(n) /\ Len(a.parts) = n
        /\ Names(m, a) /\ \A r : SameId(Answer(r, <<>>), a) <=> r = h
    <2>1. m \in Messages /\ a \in Texts
      BY <1>1, PartsType, MessageTypes DEF Plain
    <2>2. a.parts = Parts(n) /\ Len(Parts(n)) = n
      BY <1>1, PartsAre DEF Answer
    <2>3. Names(m, a) /\ \A r : SameId(Answer(r, <<>>), a) <=> r = h
      BY DEF Names, SameId, Answer
    <2> QED BY <2>1, <2>2, <2>3
  <1>3. /\ p = Append(q, m) /\ history' = Append(history, a)
        /\ worker'.of = h /\ worker'.step = "syncing"
        /\ UNCHANGED <<asked, up, queue>>
    BY <1>1 DEF Complete, Offer, AgentKeeps
  <1>4. ~Has(history, a)
    <2>1. ~Answered(history, h)
      BY <1>1 DEF Said
    <2> QED BY <2>1 DEF Answered, Has, SameId, Answer
  <1>5. ASSUME Ordered(b, q, history, midway)
        PROVE  Ordered(b, p, history', midway)
    BY <1>1, <1>2, <1>3, <1>4, <1>5, OrderedSaid
  <1>6. \A r : Untaken(r)' <=> Untaken(r)
    BY <1>3 DEF Untaken
  <1>7. \A j \in DOMAIN history' : \/ j \in DOMAIN history
                                      /\ history'[j] = history[j]
                                   \/ history'[j] = a
    BY <1>1, <1>3, AppendAt
  <1>8. ASSUME NEW r \in All, NEW d \in Drafts, Followed(r, b, d, q)
        PROVE  Followed(r, b, d, p)'
    <2>1. CASE r # h
      <3>1. ~About(m, r)
        BY <1>2, <2>1 DEF About, Is
      <3>2. Continues(p, q, r)
        <4>1. Continues(Append(q, m), q, r)
          BY <3>1, ContinuesMore
        <4> QED BY <1>3, <4>1
      <3>3. \A j \in DOMAIN history' : SameId(Answer(r, <<>>), history'[j]) =>
                j \in DOMAIN history /\ history'[j] = history[j]
        BY <1>2, <1>7, <2>1
      <3> QED BY <1>3, <1>6, <1>8, <2>1, <3>2, <3>3, FollowedLater
    <2>2. CASE r = h
      <3>1. /\ Flows(d, q, h, n) /\ ~Answered(history, h) /\ ~Untaken(h)
        BY <1>1, <1>8, <2>2 DEF Followed, Said
      <3>2. Is(m, "completed", h)
        BY <1>2 DEF Is
      <3>3. Flows(d, p, h, n) /\ Says(p, "completed", h)
        <4>1. Flows(d, Append(q, m), h, n)
          BY <1>1, <3>1, <3>2, FlowsMore
        <4>2. Says(Append(q, m), "completed", h)
          BY <3>2, SaysMoves
        <4> QED BY <1>3, <4>1, <4>2
      <3>4. ~Working'
        BY <1>3 DEF Working
      <3>5. \A j \in DOMAIN history' : SameId(Answer(h, <<>>), history'[j]) =>
                Len(history'[j].parts) = n
        BY <1>2, <1>7, <3>1, NotAnswered
      <3> QED BY <1>6, <2>2, <3>1, <3>3, <3>4, <3>5 DEF Followed
    <2> QED BY <2>1, <2>2
  <1> QED BY <1>5, <1>8 DEF Carries

(* A response that fails ends the draft, unless it had been completed.     *)
LEMMA FollowingFail ==
    ASSUME TypeOK, Asking, Said, Fail, sock = "open",
           NEW b \in Seq(Texts), NEW q \in Seq(Messages), q = down,
           NEW p, p = down'
    PROVE  Carries(b, q, p)
  <1> PICK h : h = worker.of
    OBVIOUS
  <1> PICK m, e : m = [kind |-> "failed", of |-> h]
                  /\ e = [kind |-> "error", of |-> h]
    OBVIOUS
  <1> PICK o : o = Append(q, m)
    OBVIOUS
  <1>1. h \in All /\ history \in Seq(Texts)
    BY DEF TypeOK, AgentType, Fail, Working
  <1>2. /\ m.kind = "failed" /\ m.of = h /\ m \in Messages
        /\ e.kind = "error" /\ e \in Messages /\ o \in Seq(Messages)
    <2>1. m \in Messages /\ e \in Messages
      BY <1>1, MessageTypes DEF Plain
    <2> QED BY <2>1
  <1>3. /\ p = Append(o, e) /\ worker' = Resting
        /\ UNCHANGED <<history, asked, up, queue>>
    BY DEF Fail, Offer, AgentKeeps
  <1>4. ASSUME Ordered(b, q, history, midway)
        PROVE  Ordered(b, p, history', midway)
    <2>1. Ordered(b, o, history, midway)
      BY <1>1, <1>2, <1>4, OrderedMoves
    <2> QED BY <1>1, <1>2, <1>3, <2>1, OrderedMoves
  <1>5. ~Working' /\ \A r : Untaken(r)' <=> Untaken(r)
    BY <1>3 DEF Untaken, Working, Resting
  <1>6. \A r : ~About(e, r) /\ (r # h => ~About(m, r))
    BY <1>2 DEF About, Is
  <1>7. \A r : Continues(p, o, r)
    <2>1. o \in Seq(Messages) /\ \A r : ~About(e, r)
      BY <1>2, <1>6
    <2>2. \A x \in Seq(Messages) : \A y, r :
              ~About(y, r) => Continues(Append(x, y), x, r)
      BY ContinuesMore
    <2>3. \A r : Continues(Append(o, e), o, r)
      BY <2>1, <2>2
    <2> QED BY <1>3, <2>3
  <1>8. ASSUME NEW r \in All, NEW d \in Drafts, Followed(r, b, d, q)
        PROVE  Followed(r, b, d, p)'
    <2>1. CASE r # h
      <3>1. Continues(o, q, r)
        BY <1>6, <2>1, ContinuesMore
      <3>2. Continues(p, q, r)
        BY <1>7, <3>1, ContinuesMore
      <3> QED BY <1>3, <1>5, <1>8, <3>2, FollowedLater
    <2>2. CASE r = h
      <3>1. ~Untaken(h)
        BY <1>1 DEF Said
      <3>2. ASSUME NEW j \in DOMAIN history, SameId(Answer(h, <<>>), history[j]),
                   ~Answered(b, h)
            PROVE  /\ Says(p, "completed", h)
                   /\ Flows(d, p, h, Len(history[j].parts))
        <4>1. Says(q, "completed", h) /\ Flows(d, q, h, Len(history[j].parts))
          BY <1>8, <2>2, <3>2 DEF Followed
        <4>2. Len(history[j].parts) \in Nat
          BY <1>1 DEF Texts
        <4>3. Is(m, "failed", h)
          BY <1>2 DEF Is
        <4>4. Says(o, "completed", h) /\ Flows(d, o, h, Len(history[j].parts))
          BY <4>1, <4>2, <4>3, FlowsMore, SaysMoves
        <4> QED BY <1>7, <4>2, <4>4 DEF Continues
      <3> QED BY <1>3, <1>5, <2>2, <3>1, <3>2 DEF Followed
    <2> QED BY <2>1, <2>2
  <1> QED BY <1>4, <1>8 DEF Carries

(* A question comes to the agent.                                          *)
LEMMA FollowingQuestion ==
    ASSUME TypeOK, Asking, Said, HandleText \/ \E s \in Others : OtherAsks(s),
           sock = "open",
           NEW b \in Seq(Texts), NEW q \in Seq(Messages), q = down,
           NEW p, p = down'
    PROVE  Carries(b, q, p)
  <1>1. [Next]_vars
    BY DEF Next, Agent
  <1>2. ASSUME NEW s \in All, Enqueue(s), UNCHANGED worker,
               ~Has(history, Question(s)),
               \/ p = Append(q, Asks(s))
               \/ p = Append(Append(q, Asks(s)), [kind |-> "accepted", of |-> s])
        PROVE  Carries(b, q, p)
    <2> PICK o : o = Append(q, Asks(s))
      OBVIOUS
    <2>1. p = o \/ p = Append(o, [kind |-> "accepted", of |-> s])
      BY <1>2
    <2>2. ASSUME Ordered(b, q, history, midway)
          PROVE  /\ Ordered(b, p, history', midway)
                 /\ \A r \in All, d \in Drafts : Followed(r, b, d, q) =>
                                                     Followed(r, b, d, p)'
      BY <1>1, <1>2, <2>1, <2>2, FollowingEnqueue
    <2> QED BY <2>2 DEF Carries
  <1>3. ASSUME NEW s \in Others, OtherAsks(s)
        PROVE  Carries(b, q, p)
    <2>1. /\ s \in All /\ Enqueue(s) /\ worker' = worker /\ s \notin asked
          /\ p = Append(q, Asks(s))
      BY <1>3 DEF OtherAsks, Offer, All
    <2>2. ~Has(history, Question(s))
      BY <2>1 DEF Said
    <2> QED BY <1>2, <2>1, <2>2
  <1>4. CASE HandleText /\ HasRoom
    <2> PICK s : s = Head(up)
      OBVIOUS
    <2>1. s \in All /\ ~Has(history, Question(s))
      BY <1>4, HandledIs DEF HandleText, All
    <2>2. /\ Enqueue(s) /\ worker' = worker
          /\ p = Append(Append(q, Asks(s)), [kind |-> "accepted", of |-> s])
      <3>1. /\ Enqueue(s) /\ worker' = worker
            /\ p = q \o <<Asks(s), [kind |-> "accepted", of |-> s]>>
        BY <1>4 DEF HandleText, Offer
      <3>2. \A x, y : q \o <<x, y>> = Append(Append(q, x), y)
        OBVIOUS
      <3> QED BY <3>1, <3>2
    <2> QED BY <1>2, <2>1, <2>2
  <1>5. CASE HandleText /\ ~HasRoom
    <2> PICK m : m = [kind |-> "error", of |-> Head(up)]
      OBVIOUS
    <2>1. /\ history \in Seq(Texts) /\ m.kind = "error" /\ p = Append(q, m)
          /\ UNCHANGED <<history, worker>>
      BY <1>5 DEF HandleText, Offer, TypeOK, AgentType
    <2>2. ASSUME Ordered(b, q, history, midway)
          PROVE  Ordered(b, p, history', midway)
      BY <2>1, <2>2, OrderedMoves
    <2>3. ASSUME NEW r \in All, NEW d \in Drafts, Followed(r, b, d, q)
          PROVE  Followed(r, b, d, p)'
      <3>1. ~About(m, r)
        BY <2>1 DEF About, Is
      <3>2. Continues(p, q, r)
        <4>1. Continues(Append(q, m), q, r)
          BY <3>1, ContinuesMore
        <4> QED BY <2>1, <4>1
      <3>3. Untaken(r)' => Untaken(r)
        BY <1>1, UntakenLess
      <3> QED BY <2>1, <2>3, <3>2, <3>3, FollowedLater DEF Working
    <2> QED BY <2>2, <2>3 DEF Carries
  <1> QED BY <1>3, <1>4, <1>5

LEMMA FollowingAgent ==
    ASSUME TypeOK, Asking, Said, Following, Agent, ~Accept
    PROVE  Following'
  <1> SUFFICES ASSUME sock' = "open"
               PROVE  /\ Ordered(Base, down, history, midway)'
                      /\ \A r \in All \ midway' :
                             Followed(r, Base, BaseDraft(r), down)'
    BY DEF Following
  <1> PICK b, q, p : b = Base /\ q = down /\ p = down'
    OBVIOUS
  <1>1. /\ sock = "open" /\ Base' = b /\ midway' = midway
        /\ \A r : BaseDraft(r)' = BaseDraft(r)
    BY AgentSpares
  <1>2. q \in Seq(Messages) /\ store \in Stores
    BY DEF TypeOK, PageType
  <1>3. b \in Seq(Texts)
    <2>1. HasHello(q) => q[1] \in Messages
      BY <1>2, SeqFacts DEF HasHello
    <2> QED BY <1>2, <2>1, MessageCases DEF Base, HasHello, Stores
  <1>4. \A r \in All : BaseDraft(r) \in Drafts
    <2>1. NoDraft \in Drafts
      <3>1. <<>> \in Seq(Nat)
        OBVIOUS
      <3> QED BY <3>1 DEF NoDraft, Drafts
    <2> QED BY <1>2, <2>1 DEF BaseDraft, Stores
  <1>5. Carries(b, q, p)
    BY <1>1, <1>2, <1>3, FollowingTake, FollowingDelta, FollowingTool,
       FollowingComplete, FollowingFail, FollowingQuestion DEF Agent
  <1>6. Ordered(b, q, history, midway)
    BY <1>1 DEF Following
  <1>7. Ordered(Base, down, history, midway)'
    BY <1>1, <1>5, <1>6 DEF Carries
  <1>8. ASSUME NEW r \in All \ midway'
        PROVE  Followed(r, Base, BaseDraft(r), down)'
    <2> PICK d : d = BaseDraft(r)
      OBVIOUS
    <2>1. d \in Drafts /\ Followed(r, b, d, q)
      BY <1>1, <1>4, <1>8 DEF Following
    <2>2. Followed(r, b, d, p)'
      BY <1>5, <1>6, <2>1 DEF Carries
    <2>3. BaseDraft(r)' = d
      BY <1>1
    <2> QED BY <1>1, <2>2, <2>3 DEF Followed
  <1> QED BY <1>7, <1>8

LEMMA FollowingNext ==
    ASSUME TypeOK, Asking, Said, Following, [Next]_vars
    PROVE  Following'
  <1>1. CASE OpenSocket \/ OpenFails \/ Closed \/ Remount \/ Lose \/ RestartAgent
    <2>1. sock' # "open"
      BY <1>1 DEF OpenSocket, OpenFails, Closed, Remount, Lose, RestartAgent,
         Asking, Connected
    <2> QED BY <2>1 DEF Following
  <1>2. CASE LeaveOverview \/ (\E s \in Requests : Submit(s)) \/ UNCHANGED vars
    <2>1. UNCHANGED <<sock, store, down, midway, history, worker>>
      BY <1>2 DEF LeaveOverview, Submit, Keep, vars, pageVars, agentVars
    <2>2. \A r \in All : Untaken(r)' => Untaken(r)
      BY UntakenLess
    <2>3. Base' = Base /\ \A r : BaseDraft(r)' = BaseDraft(r)
      BY <2>1 DEF Base, BaseDraft
    <2>4. ASSUME NEW r \in All, NEW b, NEW d, NEW q, Followed(r, b, d, q)
          PROVE  Followed(r, b, d, q)'
      BY <2>1, <2>2, <2>4 DEF Followed, Working
    <2>5. ASSUME sock' = "open"
          PROVE  /\ Ordered(Base, down, history, midway)'
                 /\ \A r \in All \ midway' :
                        Followed(r, Base, BaseDraft(r), down)'
      <3>1. Ordered(Base, down, history, midway)'
        BY <2>1, <2>3, <2>5 DEF Following
      <3>2. ASSUME NEW r \in All \ midway'
            PROVE  Followed(r, Base, BaseDraft(r), down)'
        <4> PICK b, d, q : b = Base /\ d = BaseDraft(r) /\ q = down
          OBVIOUS
        <4>1. Followed(r, b, d, q)
          BY <2>1, <2>5, <3>2 DEF Following
        <4>2. Followed(r, b, d, q)'
          BY <2>4, <4>1
        <4>3. Base' = b /\ BaseDraft(r)' = d /\ down' = q
          BY <2>1, <2>3
        <4> QED BY <4>2, <4>3 DEF Followed
      <3> QED BY <3>1, <3>2
    <2> QED BY <2>5 DEF Following
  <1>3. CASE Receive
    BY <1>3, FollowingReceive
  <1>4. CASE Accept
    BY <1>4, FollowingAccept
  <1>5. CASE Agent /\ ~Accept
    BY <1>5, FollowingAgent
  <1> QED BY <1>1, <1>2, <1>3, <1>4, <1>5 DEF Next, Page

LEMMA SpokenTruth ==
    ASSUME TypeOK, Said, Online, Following
    PROVE  ConversationIsTrue
  <1> DEFINE shown == store.messages
  <1> SUFFICES ASSUME store.connection = "online", sock = "open"
               PROVE  /\ IsInjective(Ids(shown))
                      /\ \A i \in DOMAIN shown : \E j \in DOMAIN history :
                           /\ SameId(shown[i], history[j])
                           /\ shown[i] = history[j] \/ history[j].id \in midway
                           /\ \A k \in 1 .. i - 1 : \E l \in 1 .. j - 1 :
                                SameId(shown[k], history[l])
                      /\ \A r \in All \ midway :
                           ShownDraft(r).status = "interrupted" =>
                               ~Answered(history, r)
    BY DEF ConversationIsTrue
  <1>1. /\ Base = shown /\ \A r : BaseDraft(r) = store.drafts[r]
        /\ shown \in Seq(Texts) /\ history \in Seq(Texts)
    BY DEF Online, Base, BaseDraft, TypeOK, PageType, AgentType, Stores
  <1>2. Ordered(shown, down, history, midway)
    BY <1>1 DEF Following
  <1>3. \A r \in All \ midway : Followed(r, shown, store.drafts[r], down)
    BY <1>1 DEF Following
  <1> HIDE DEF shown
  <1>4. /\ \A i \in DOMAIN shown : \E j \in DOMAIN history :
                                       SameId(shown[i], history[j])
        /\ \A i \in DOMAIN shown, j \in DOMAIN history :
               SameId(shown[i], history[j]) =>
                   shown[i] = history[j] \/ history[j].id \in midway
        /\ \A i, k \in DOMAIN shown, j, l \in DOMAIN history :
               i < k /\ SameId(shown[i], history[j]) /\ SameId(shown[k], history[l])
                   => j < l
    BY <1>2 DEF Ordered
  <1>5. /\ \A i, k \in DOMAIN shown : i < k \/ k < i \/ i = k
        /\ \A j \in DOMAIN history : ~(j < j)
        /\ \A i \in DOMAIN shown : \A k \in 1 .. i - 1 : k \in DOMAIN shown /\ k < i
        /\ \A j, l \in DOMAIN history : l < j => l \in 1 .. j - 1
    BY <1>1
  <1>6. IsInjective(Ids(shown))
    <2>1. ASSUME NEW i \in DOMAIN shown, NEW k \in DOMAIN shown,
                 SameId(shown[i], shown[k])
          PROVE  i = k
      <3>1. PICK j \in DOMAIN history : SameId(shown[i], history[j])
        BY <1>4
      <3>2. SameId(shown[k], history[j])
        BY <2>1, <3>1 DEF SameId
      <3> QED BY <1>4, <1>5, <3>1, <3>2
    <2>2. /\ DOMAIN Ids(shown) = DOMAIN shown
          /\ \A i, k \in DOMAIN shown :
                 Ids(shown)[i] = Ids(shown)[k] => SameId(shown[i], shown[k])
      BY DEF Ids, SameId
    <2> QED BY <2>1, <2>2 DEF IsInjective
  <1>7. ASSUME NEW i \in DOMAIN shown
        PROVE  \E j \in DOMAIN history :
                 /\ SameId(shown[i], history[j])
                 /\ shown[i] = history[j] \/ history[j].id \in midway
                 /\ \A k \in 1 .. i - 1 : \E l \in 1 .. j - 1 :
                      SameId(shown[k], history[l])
    <2>1. PICK j \in DOMAIN history : SameId(shown[i], history[j])
      BY <1>4
    <2>2. ASSUME NEW k \in 1 .. i - 1
          PROVE  \E l \in 1 .. j - 1 : SameId(shown[k], history[l])
      <3>1. k \in DOMAIN shown /\ k < i
        BY <1>5
      <3>2. PICK l \in DOMAIN history : SameId(shown[k], history[l])
        BY <1>4, <3>1
      <3>3. l < j
        BY <1>4, <2>1, <3>1, <3>2
      <3> QED BY <1>5, <3>2, <3>3
    <2> QED BY <1>4, <2>1, <2>2
  <1>8. ASSUME NEW r \in All \ midway, ShownDraft(r).status = "interrupted",
               Answered(history, r)
        PROVE  FALSE
    <2>1. NoDraft.status # "interrupted"
      BY DEF NoDraft
    <2>2. ~Answered(shown, r) /\ store.drafts[r].status = "interrupted"
      BY <1>8, <2>1 DEF ShownDraft, shown
    <2>3. \E j \in DOMAIN history : SameId(Answer(r, <<>>), history[j])
      BY <1>8, NotAnswered DEF Answered, Has, SameId
    <2> QED BY <1>3, <2>2, <2>3 DEF Followed, Flows
  <1> QED BY <1>6, <1>7, <1>8

(* What a connected page shows as said was said: the texts of the agent's  *)
(* history, in that order, none twice and, unless the connection began in  *)
(* the middle of one, whole; and a response it shows as interrupted has no *)
(* answer.  For any submissions of any pages, any queue and any number of  *)
(* connections lost and agents restarted.                                  *)
THEOREM ConversationIsKept == Spec => []ConversationIsTrue
  <1> DEFINE I == TypeOK /\ Asking /\ Said /\ Online /\ Following
  <1>1. Init => I
    <2>1. Init => Online /\ Following
      BY DEF Init, Online, Following
    <2> QED BY <2>1, TypeInit, AskingInit, SaidInit
  <1>2. I /\ [Next]_vars => I'
    <2>1. ASSUME TypeOK, Asking, Said, Online, Following, [Next]_vars
          PROVE  TypeOK' /\ Asking' /\ Said' /\ Online' /\ Following'
      BY <2>1, TypeNext, AskingNext, SaidNext, OnlineNext, FollowingNext
    <2> QED BY <2>1
  <1>3. I => ConversationIsTrue
    BY SpokenTruth
  <1> HIDE DEF I
  <1> QED BY <1>1, <1>2, <1>3, PTL DEF Spec
-----------------------------------------------------------------------------
(***************************************************************************)
(* No tool outlives its answer                                             *)
(***************************************************************************)
(* The part of ResponsesEnd that is not liveness: no tool of an answer     *)
(* that is shown is shown as running.                                      *)
NoToolOutlives ==
    \A r \in Tooled : Answered(store.messages, r) => store.tools[r] # "running"

(* What the page may hear of the tool of r.                                *)
Runs(m, r) == Is(m, "tool", r) /\ m.status = "running"
Ends(m, r) == Is(m, "tool", r) /\ m.status # "running"
Quiet(q, r) == \A k \in DOMAIN q : ~Runs(q[k], r)

(* Whoever reads the first n messages shows no tool of r as running: t is  *)
(* what is shown before.                                                   *)
Over(q, r, t, n) ==
    /\ \A k \in DOMAIN q : k <= n /\ Runs(q[k], r) =>
           \E j \in DOMAIN q : k < j /\ j <= n /\ Ends(q[j], r)
    /\ t = "running" =>
           \E j \in DOMAIN q : j <= n /\ (Ends(q[j], r) \/ q[j].kind = "hello")

(* When r is completed its tool is over, and stays so.                     *)
OverBefore(q, r, t) ==
    \A i \in DOMAIN q : Is(q[i], "completed", r) =>
        Over(q, r, t, i) /\ \A k \in DOMAIN q : Runs(q[k], r) => k < i

(* What is on its way of the tool of r fits the texts that will be shown   *)
(* and what the agent has done of it.                                      *)
Called(r, shown, t, q) ==
    /\ Answered(shown, r) => Quiet(q, r)
    /\ OverBefore(q, r, t)
    /\ Untaken(r) \/ (worker.of = r /\ worker.tool = "none") =>
           Quiet(q, r) /\ t # "running"
    /\ sock = "open" /\ worker.of = r /\ worker.tool \in {"completed", "failed"} =>
           Over(q, r, t, Len(q))

Calling ==
    /\ NoToolOutlives
    /\ \A k \in DOMAIN down :
           down[k].kind = "message" => down[k].message.role = "user"
    /\ \A r \in Tooled : Called(r, Base, store.tools[r], down)

(* One more message.                                                       *)
LEMMA CallsMore ==
    ASSUME NEW q \in Seq(Messages), NEW m, NEW r, NEW t
    PROVE  /\ ~Runs(m, r) /\ Quiet(q, r) => Quiet(Append(q, m), r)
           /\ ~Runs(m, r) /\ Over(q, r, t, Len(q)) =>
                  Over(Append(q, m), r, t, Len(Append(q, m)))
           /\ Ends(m, r) => Over(Append(q, m), r, t, Len(Append(q, m)))
           /\ OverBefore(q, r, t) /\ ~Runs(m, r) /\ ~Is(m, "completed", r) =>
                  OverBefore(Append(q, m), r, t)
           /\ OverBefore(q, r, t) /\ ~Runs(m, r) /\ Over(q, r, t, Len(q)) =>
                  OverBefore(Append(q, m), r, t)
           /\ Runs(m, r) /\ ~Says(q, "completed", r) =>
                  OverBefore(Append(q, m), r, t)
  <1> DEFINE p == Append(q, m)
             n == Len(q) + 1
  <1>1. /\ \A i \in DOMAIN p : \/ i \in DOMAIN q /\ p[i] = q[i]
                               \/ i = n /\ p[i] = m
        /\ \A i \in DOMAIN q : /\ i \in DOMAIN p /\ i \in Int
                               /\ p[i] = q[i] /\ i < n /\ i <= Len(q)
        /\ n \in DOMAIN p /\ p[n] = m /\ Len(q) \in Nat /\ n \in Nat
        /\ Len(q) <= n /\ Len(p) = n
    OBVIOUS
  <1> HIDE DEF p, n
  <1>2. ~Runs(m, r) /\ Quiet(q, r) => Quiet(p, r)
    BY <1>1 DEF Quiet
  <1>3. ASSUME ~Runs(m, r), Over(q, r, t, Len(q))
        PROVE  Over(p, r, t, n)
    <2>1. ASSUME NEW i \in DOMAIN p, Runs(p[i], r)
          PROVE  \E j \in DOMAIN p : i < j /\ j <= n /\ Ends(p[j], r)
      <3>1. i \in DOMAIN q /\ Runs(q[i], r) /\ i <= Len(q)
        BY <1>1, <1>3, <2>1
      <3>2. PICK j \in DOMAIN q : i < j /\ j <= Len(q) /\ Ends(q[j], r)
        BY <1>3, <3>1 DEF Over
      <3> QED BY <1>1, <3>2
    <2>2. ASSUME t = "running"
          PROVE  \E j \in DOMAIN p : j <= n /\ (Ends(p[j], r) \/ p[j].kind = "hello")
      <3>1. PICK j \in DOMAIN q :
              j <= Len(q) /\ (Ends(q[j], r) \/ q[j].kind = "hello")
        BY <1>3, <2>2 DEF Over
      <3> QED BY <1>1, <3>1
    <2> QED BY <2>1, <2>2 DEF Over
  <1>4. ASSUME Ends(m, r)
        PROVE  Over(p, r, t, n)
    <2>1. ~Runs(m, r)
      BY <1>4 DEF Runs, Ends
    <2> QED BY <1>1, <1>4, <2>1 DEF Over
  <1>5. ASSUME NEW i \in DOMAIN q, Over(q, r, t, i)
        PROVE  Over(p, r, t, i)
    <2>1. ASSUME NEW k \in DOMAIN p, k <= i, Runs(p[k], r)
          PROVE  \E j \in DOMAIN p : k < j /\ j <= i /\ Ends(p[j], r)
      <3>1. k \in DOMAIN q /\ Runs(q[k], r)
        BY <1>1, <2>1
      <3>2. PICK j \in DOMAIN q : k < j /\ j <= i /\ Ends(q[j], r)
        BY <1>5, <2>1, <3>1 DEF Over
      <3> QED BY <1>1, <3>2
    <2>2. ASSUME t = "running"
          PROVE  \E j \in DOMAIN p : j <= i /\ (Ends(p[j], r) \/ p[j].kind = "hello")
      <3>1. PICK j \in DOMAIN q : j <= i /\ (Ends(q[j], r) \/ q[j].kind = "hello")
        BY <1>5, <2>2 DEF Over
      <3> QED BY <1>1, <3>1
    <2> QED BY <2>1, <2>2 DEF Over
  <1>6. ASSUME OverBefore(q, r, t), ~Runs(m, r),
               NEW i \in DOMAIN q, Is(q[i], "completed", r)
        PROVE  Over(p, r, t, i) /\ \A k \in DOMAIN p : Runs(p[k], r) => k < i
    <2>1. Over(q, r, t, i) /\ \A k \in DOMAIN q : Runs(q[k], r) => k < i
      BY <1>6 DEF OverBefore
    <2>2. Over(p, r, t, i)
      BY <1>5, <2>1
    <2> QED BY <1>1, <1>6, <2>1, <2>2
  <1>7. OverBefore(q, r, t) /\ ~Runs(m, r) /\ ~Is(m, "completed", r) =>
            OverBefore(p, r, t)
    <2> SUFFICES ASSUME OverBefore(q, r, t), ~Runs(m, r), ~Is(m, "completed", r)
                 PROVE  OverBefore(p, r, t)
      OBVIOUS
    <2>1. \A i \in DOMAIN p : Is(p[i], "completed", r) =>
              i \in DOMAIN q /\ Is(q[i], "completed", r)
      BY <1>1
    <2> QED BY <1>6, <2>1 DEF OverBefore
  <1>8. OverBefore(q, r, t) /\ ~Runs(m, r) /\ Over(q, r, t, Len(q)) =>
            OverBefore(p, r, t)
    <2> SUFFICES ASSUME OverBefore(q, r, t), ~Runs(m, r), Over(q, r, t, Len(q)),
                        NEW i \in DOMAIN p, Is(p[i], "completed", r)
                 PROVE  /\ Over(p, r, t, i)
                        /\ \A k \in DOMAIN p : Runs(p[k], r) => k < i
      BY DEF OverBefore
    <2>1. CASE i \in DOMAIN q
      BY <1>1, <1>6, <2>1
    <2>2. CASE i = n
      BY <1>1, <1>3, <2>2
    <2> QED BY <1>1, <2>1, <2>2
  <1>9. Runs(m, r) /\ ~Says(q, "completed", r) => OverBefore(p, r, t)
    <2> SUFFICES ASSUME Runs(m, r), ~Says(q, "completed", r),
                        NEW i \in DOMAIN p, Is(p[i], "completed", r)
                 PROVE  FALSE
      BY DEF OverBefore
    <2>1. i \in DOMAIN q /\ Is(q[i], "completed", r)
      BY <1>1 DEF Runs, Is
    <2> QED BY <2>1 DEF Says
  <1> QED BY <1>1, <1>2, <1>3, <1>4, <1>7, <1>8, <1>9 DEF p

(* What is left of a connection that breaks.                               *)
LEMMA CallsCut ==
    ASSUME NEW q \in Seq(Messages), NEW p \in LessOf(q), NEW r, NEW t
    PROVE  /\ Quiet(q, r) => Quiet(p, r)
           /\ OverBefore(q, r, t) => OverBefore(p, r, t)
           /\ p # <<>> => p[1] = q[1] /\ q # <<>>
           /\ \A i \in DOMAIN p : i \in DOMAIN q /\ p[i] = q[i]
  <1>1. PICK n \in 0 .. Len(q) :
          /\ \A i \in DOMAIN p : /\ i \in DOMAIN q /\ i \in Int
                                 /\ p[i] = q[i] /\ i <= n
          /\ \A i \in DOMAIN q : i \in Int /\ (i <= n => i \in DOMAIN p)
          /\ p # <<>> => p[1] = q[1] /\ q # <<>>
    <2>1. CASE p = q
      <3>1. Len(q) \in 0 .. Len(q) /\ \A i \in DOMAIN q : i \in Int /\ i <= Len(q)
        OBVIOUS
      <3> QED BY <2>1, <3>1
    <2>2. CASE p = <<>>
      <3>1. 0 \in 0 .. Len(q) /\ \A i \in DOMAIN q : i \in Int /\ ~(i <= 0)
        OBVIOUS
      <3> QED BY <2>2, <3>1
    <2>3. ASSUME NEW n \in 0 .. Len(q), p = SubSeq(q, 1, n)
          PROVE  /\ \A i \in DOMAIN p : /\ i \in DOMAIN q /\ i \in Int
                                        /\ p[i] = q[i] /\ i <= n
                 /\ \A i \in DOMAIN q : i \in Int /\ (i <= n => i \in DOMAIN p)
                 /\ p # <<>> => p[1] = q[1] /\ q # <<>>
      BY <2>3
    <2> QED BY <2>1, <2>2, <2>3 DEF LessOf
  <1>2. Quiet(q, r) => Quiet(p, r)
    BY <1>1 DEF Quiet
  <1>3. ASSUME OverBefore(q, r, t), NEW i \in DOMAIN p, Is(p[i], "completed", r)
        PROVE  Over(p, r, t, i) /\ \A k \in DOMAIN p : Runs(p[k], r) => k < i
    <2>1. i \in DOMAIN q /\ Is(q[i], "completed", r) /\ i <= n
      BY <1>1, <1>3
    <2>2. Over(q, r, t, i) /\ \A k \in DOMAIN q : Runs(q[k], r) => k < i
      BY <1>3, <2>1 DEF OverBefore
    <2>3. \A j \in DOMAIN q : j <= i => j \in DOMAIN p /\ p[j] = q[j]
      BY <1>1, <2>1
    <2>4. ASSUME NEW k \in DOMAIN p, k <= i, Runs(p[k], r)
          PROVE  \E j \in DOMAIN p : k < j /\ j <= i /\ Ends(p[j], r)
      <3>1. k \in DOMAIN q /\ Runs(q[k], r)
        BY <1>1, <2>4
      <3>2. PICK j \in DOMAIN q : k < j /\ j <= i /\ Ends(q[j], r)
        BY <2>2, <2>4, <3>1 DEF Over
      <3> QED BY <2>3, <3>2
    <2>5. ASSUME t = "running"
          PROVE  \E j \in DOMAIN p : j <= i /\ (Ends(p[j], r) \/ p[j].kind = "hello")
      <3>1. PICK j \in DOMAIN q : j <= i /\ (Ends(q[j], r) \/ q[j].kind = "hello")
        BY <2>2, <2>5 DEF Over
      <3> QED BY <2>3, <3>1
    <2> QED BY <1>1, <2>2, <2>4, <2>5 DEF Over
  <1> QED BY <1>1, <1>2, <1>3 DEF OverBefore

(* The first message is read: t is what is shown before it, u after.       *)
LEMMA CallsTaken ==
    ASSUME NEW q \in Seq(Messages), q # <<>>, HelloFirst(q), NEW r, NEW t, NEW u,
           u = "running" => \/ Runs(q[1], r)
                            \/ /\ t = "running" /\ ~Ends(q[1], r)
                               /\ q[1].kind # "hello"
    PROVE  /\ Quiet(q, r) => Quiet(Tail(q), r)
           /\ OverBefore(q, r, t) => OverBefore(Tail(q), r, u)
           /\ Over(q, r, t, Len(q)) => Over(Tail(q), r, u, Len(Tail(q)))
  <1> DEFINE p == Tail(q)
  <1>1. /\ \A i \in DOMAIN p : /\ i + 1 \in DOMAIN q /\ i \in Int
                               /\ p[i] = q[i + 1] /\ 1 < i + 1
        /\ \A i \in DOMAIN q : /\ i \in Int
                               /\ \/ i = 1
                                  \/ /\ i - 1 \in DOMAIN p /\ 1 < i
                                     /\ p[i - 1] = q[i]
        /\ 1 \in DOMAIN q /\ Len(p) \in Nat /\ Len(q) = Len(p) + 1
    BY TailAt
  <1> HIDE DEF p
  <1>2. Quiet(q, r) => Quiet(p, r)
    BY <1>1 DEF Quiet
  <1>3. ASSUME NEW n \in Nat, Over(q, r, t, n + 1)
        PROVE  Over(p, r, u, n)
    <2>1. ASSUME NEW k \in DOMAIN p, k <= n, Runs(p[k], r)
          PROVE  \E j \in DOMAIN p : k < j /\ j <= n /\ Ends(p[j], r)
      <3>1. k + 1 \in DOMAIN q /\ Runs(q[k + 1], r) /\ k + 1 <= n + 1 /\ k \in Int
            /\ 1 < k + 1
        BY <1>1, <2>1
      <3>2. PICK j \in DOMAIN q : k + 1 < j /\ j <= n + 1 /\ Ends(q[j], r)
        BY <1>3, <3>1 DEF Over
      <3>3. /\ j - 1 \in DOMAIN p /\ p[j - 1] = q[j] /\ j \in Int
            /\ k < j - 1 /\ j - 1 <= n
        BY <1>1, <3>1, <3>2
      <3> QED BY <3>2, <3>3
    <2>2. ASSUME u = "running"
          PROVE  \E j \in DOMAIN p : j <= n /\ (Ends(p[j], r) \/ p[j].kind = "hello")
      <3>1. PICK j \in DOMAIN q : /\ j <= n + 1 /\ j # 1
                                  /\ Ends(q[j], r) \/ q[j].kind = "hello"
        <4>1. CASE Runs(q[1], r)
          <5>1. PICK j \in DOMAIN q : 1 < j /\ j <= n + 1 /\ Ends(q[j], r)
            <6>1. 1 <= n + 1
              OBVIOUS
            <6> QED BY <1>1, <1>3, <4>1, <6>1 DEF Over
          <5>2. j # 1
            BY <1>1, <5>1
          <5> QED BY <5>1, <5>2
        <4>2. CASE t = "running" /\ ~Ends(q[1], r) /\ q[1].kind # "hello"
          BY <1>3, <4>2 DEF Over
        <4> QED BY <2>2, <4>1, <4>2
      <3>2. /\ j - 1 \in DOMAIN p /\ p[j - 1] = q[j] /\ j \in Int /\ j - 1 <= n
        BY <1>1, <3>1
      <3> QED BY <3>1, <3>2
    <2> QED BY <2>1, <2>2 DEF Over
  <1>4. ASSUME OverBefore(q, r, t), NEW i \in DOMAIN p, Is(p[i], "completed", r)
        PROVE  Over(p, r, u, i) /\ \A k \in DOMAIN p : Runs(p[k], r) => k < i
    <2>1. i + 1 \in DOMAIN q /\ Is(q[i + 1], "completed", r) /\ i \in Nat /\ 0 < i
      BY <1>1, <1>4
    <2>2. /\ Over(q, r, t, i + 1)
          /\ \A k \in DOMAIN q : Runs(q[k], r) => k < i + 1
      BY <1>4, <2>1 DEF OverBefore
    <2>3. Over(p, r, u, i)
      BY <1>3, <2>1, <2>2
    <2>4. ASSUME NEW k \in DOMAIN p, Runs(p[k], r)
          PROVE  k < i
      <3>1. k + 1 \in DOMAIN q /\ Runs(q[k + 1], r) /\ k \in Int
        BY <1>1, <2>4
      <3>2. k + 1 < i + 1
        BY <2>2, <3>1
      <3> QED BY <2>1, <3>1, <3>2
    <2> QED BY <2>3, <2>4
  <1>5. Over(q, r, t, Len(q)) => Over(p, r, u, Len(p))
    BY <1>1, <1>3
  <1> QED BY <1>2, <1>4, <1>5 DEF OverBefore, p

(* A step that only ends, or looks for, a connection.                      *)
LEMMA CallingQuiet ==
    ASSUME TypeOK, Calling, down' \in LessOf(down),
           store'.messages = store.messages, store'.tools = store.tools,
           worker' = worker \/ worker'.of = None,
           sock' = "open" => sock = "open" /\ down' = down,
           \A r \in All : Untaken(r)' => Untaken(r)
    PROVE  Calling'
  <1>1. /\ down \in Seq(Messages) /\ Tooled \subseteq All /\ None \notin All
    BY AgentAssumption DEF TypeOK, PageType, All
  <1>2. NoToolOutlives'
    BY DEF Calling, NoToolOutlives
  <1>3. \A k \in DOMAIN down' :
            down'[k].kind = "message" => down'[k].message.role = "user"
    BY <1>1, CallsCut DEF Calling
  <1>4. ASSUME NEW r \in Tooled
        PROVE  Called(r, Base, store.tools[r], down)'
    <2> PICK q, p, t, b : q = down /\ p = down' /\ t = store.tools[r] /\ b = Base'
      OBVIOUS
    <2>1. /\ Called(r, Base, t, q) /\ store'.tools[r] = t
          /\ p \in LessOf(q) /\ q \in Seq(Messages) /\ r \in All
      BY <1>1 DEF Calling
    <2>2. /\ Quiet(q, r) => Quiet(p, r)
          /\ OverBefore(q, r, t) => OverBefore(p, r, t)
          /\ p # <<>> => p[1] = q[1] /\ q # <<>>
      BY <2>1, CallsCut
    <2>3. Answered(Base', r) => Quiet(p, r)
      <3>1. CASE p = <<>>
        BY <3>1 DEF Quiet
      <3>2. CASE p # <<>>
        <4>1. Base' = Base
          BY <2>2, <3>2 DEF Base, HasHello
        <4> QED BY <2>1, <2>2, <4>1 DEF Called
      <3> QED BY <3>1, <3>2
    <2>4. Untaken(r)' \/ (worker'.of = r /\ worker'.tool = "none") =>
              Quiet(p, r) /\ t # "running"
      BY <1>1, <2>1, <2>2 DEF Called
    <2>5. sock' = "open" /\ worker'.of = r /\ worker'.tool \in {"completed", "failed"}
              => Over(p, r, t, Len(p))
      BY <1>1, <2>1 DEF Called
    <2>6. Called(r, b, t, p)'
      BY <2>1, <2>2, <2>3, <2>4, <2>5 DEF Called
    <2> QED BY <2>1, <2>6 DEF Called
  <1> QED BY <1>2, <1>3, <1>4 DEF Calling

LEMMA CallingPage ==
    ASSUME TypeOK, Asking, Said, Calling, [Next]_vars, ~Receive, ~Agent
    PROVE  Calling'
  <1>1. down \in Seq(Messages)
    BY DEF TypeOK, PageType
  <1>2. \A r \in All : Untaken(r)' => Untaken(r)
    BY UntakenLess
  <1>3. down \in LessOf(down) /\ <<>> \in LessOf(down)
    BY DEF LessOf
  <1>4. CASE OpenSocket \/ OpenFails \/ Closed
    <2>1. /\ UNCHANGED <<down, worker>> /\ sock' # "open"
          /\ store'.messages = store.messages /\ store'.tools = store.tools
      BY <1>4 DEF OpenSocket, OpenFails, Closed, Keep, agentVars, Asking, Connected,
         TypeOK, PageType, Stores
    <2> QED BY <1>2, <1>3, <2>1, CallingQuiet
  <1>5. CASE Remount
    <2>1. /\ down' \in {down, <<>>} /\ worker' = worker /\ sock' # "open"
          /\ store'.messages = store.messages /\ store'.tools = store.tools
      BY <1>5 DEF Remount, RetireSocket, Keep, agentVars, TypeOK, PageType, Stores
    <2> QED BY <1>2, <1>3, <2>1, CallingQuiet
  <1>6. CASE LeaveOverview \/ (\E r \in Requests : Submit(r)) \/ UNCHANGED vars
    <2>1. UNCHANGED <<down, worker, sock, store>>
      BY <1>6 DEF LeaveOverview, Submit, Keep, vars, pageVars, agentVars
    <2> QED BY <1>2, <1>3, <2>1, CallingQuiet
  <1>7. CASE Lose
    <2>1. /\ worker' = worker /\ store' = store /\ sock' # "open"
          /\ \E n \in 0 .. Len(down) : down' = SubSeq(down, 1, n)
      BY <1>7 DEF Lose, Keep, agentVars
    <2>2. down' \in LessOf(down)
      BY <2>1 DEF LessOf
    <2> QED BY <1>2, <2>1, <2>2, CallingQuiet
  <1>8. CASE RestartAgent
    <2>1. worker'.of = None /\ store' = store /\ sock' # "open" /\ down' = <<>>
      BY <1>8 DEF RestartAgent, Resting
    <2> QED BY <1>2, <1>3, <2>1, CallingQuiet
  <1> QED BY <1>4, <1>5, <1>6, <1>7, <1>8 DEF Next, Page

(* What the reducer makes of tools and answers.                            *)
LEMMA ReduceCalls ==
    ASSUME NEW s \in Stores, NEW m \in Messages, NEW r \in Tooled,
           m.kind = "message" => m.message.role = "user"
    PROVE  LET t == Reduce(s, m) IN
           /\ m.kind = "hello" => t.tools[r] = "none"
           /\ Is(m, "tool", r) => t.tools[r] = m.status
           /\ m.kind # "hello" /\ ~Is(m, "tool", r) => t.tools[r] = s.tools[r]
           /\ m.kind # "hello" /\ Answered(t.messages, r) =>
                  Answered(s.messages, r) \/ Is(m, "completed", r)
  <1> DEFINE t == Reduce(s, m)
  <1>1. /\ s.messages \in Seq(Texts) /\ s.drafts \in [All -> Drafts]
        /\ s.tools \in [Tooled -> Calls] /\ DOMAIN s.tools = Tooled
    BY DEF Stores
  <1>2. CASE m.kind = "hello"
    <2>1. t.tools = [x \in Tooled |-> "none"]
      BY <1>2 DEF Reduce, Hello
    <2> HIDE DEF t
    <2> QED BY <1>2, <2>1 DEF Is, t
  <1>3. CASE m.kind = "message" /\ m.message \in Texts
    <2>1. t = [s EXCEPT !.messages = AppendMessage(@, m.message)]
      BY <1>3 DEF Reduce, Message
    <2>2. t.tools = s.tools /\ t.messages = AppendMessage(s.messages, m.message)
      BY <2>1 DEF Stores
    <2>3. Answered(AppendMessage(s.messages, m.message), r) => Answered(s.messages, r)
      <3>1. ~SameId(m.message, Answer(r, <<>>))
        BY <1>3 DEF SameId, Answer
      <3> QED BY <1>1, <3>1, HasMoves DEF AppendMessage, Answered
    <2> HIDE DEF t
    <2> QED BY <1>3, <2>2, <2>3 DEF Is, t
  <1>4. CASE m.kind \in {"accepted", "error"}
    BY <1>4 DEF Reduce, Is
  <1>5. CASE m.kind = "tool" /\ m.of \in Tooled /\ m.status \in Calls
    <2>1. t = [s EXCEPT !.tools[m.of] = m.status]
      BY <1>5 DEF Reduce, UpsertTool
    <2> HIDE DEF t
    <2>2. t.messages = s.messages /\ t.tools = [s.tools EXCEPT ![m.of] = m.status]
      BY <2>1 DEF Stores
    <2> QED BY <1>1, <1>5, <2>2 DEF Is, t
  <1>6. CASE m.kind \in {"started", "failed", "delta"}
    <2>1. t.messages = s.messages /\ t.tools = s.tools
      BY <1>6 DEF Reduce, Started, Failed, Delta, Stores
    <2> HIDE DEF t
    <2> QED BY <1>6, <2>1 DEF Is, t
  <1>7. CASE m.kind = "completed" /\ m.of \in All
    <2> DEFINE a == Answer(m.of, s.drafts[m.of].parts)
    <2>1. /\ t.tools = s.tools
          /\ t.messages = s.messages \/ t.messages = AppendMessage(s.messages, a)
      BY <1>7 DEF Reduce, Completed, Stores
    <2>2. m.of # r => (Answered(AppendMessage(s.messages, a), r)
                                => Answered(s.messages, r))
      <3>1. m.of # r => ~SameId(a, Answer(r, <<>>))
        BY DEF SameId, Answer
      <3> HIDE DEF a
      <3> QED BY <1>1, <3>1, HasMoves DEF AppendMessage, Answered
    <2> HIDE DEF t, a
    <2> QED BY <1>7, <2>1, <2>2 DEF Is, t
  <1> QED BY <1>2, <1>3, <1>4, <1>5, <1>6, <1>7, MessageCases

LEMMA CallingReceive ==
    ASSUME TypeOK, Asking, Said, Calling, [Next]_vars, Receive
    PROVE  Calling'
  <1> PICK q, p, m : q = down /\ p = down' /\ m = down[1]
    OBVIOUS
  <1>1. /\ q \in Seq(Messages) /\ HelloFirst(q) /\ store \in Stores
        /\ Tooled \subseteq All
    BY AgentAssumption DEF TypeOK, PageType, Asking, Connected, All
  <1>2. /\ q # <<>> /\ p = Tail(q) /\ store' = Reduce(store, m) /\ m \in Messages
        /\ UNCHANGED <<sock, worker>> /\ 1 \in DOMAIN q /\ m = q[1]
        /\ \A i \in DOMAIN p : i + 1 \in DOMAIN q /\ p[i] = q[i + 1]
    BY <1>1, SeqFacts, TailAt DEF Receive, Keep, agentVars
  <1>3. \A r \in All : Untaken(r)' => Untaken(r)
    BY UntakenLess
  <1>4. m.kind = "message" => m.message.role = "user"
    BY <1>2 DEF Calling
  <1>5. \A k \in DOMAIN p : p[k].kind = "message" => p[k].message.role = "user"
    BY <1>2 DEF Calling
  <1>6. Base' = store'.messages /\ (m.kind = "hello" => Base = store'.messages)
        /\ (m.kind # "hello" => Base = store.messages)
    <2>1. ~HasHello(p)
      BY <1>1, <1>2, HelloMoves
    <2>2. m.kind = "hello" => store'.messages = m.messages
      BY <1>1, <1>2, ReduceIs
    <2> QED BY <1>2, <2>1, <2>2 DEF Base, HasHello
  <1>7. ASSUME NEW r \in Tooled
        PROVE  /\ Answered(store'.messages, r) => store'.tools[r] # "running"
               /\ Called(r, Base, store.tools[r], down)'
    <2> PICK t, u, b : t = store.tools[r] /\ u = store'.tools[r] /\ b = Base'
      OBVIOUS
    <2>1. /\ m.kind = "hello" => u = "none"
          /\ Is(m, "tool", r) => u = m.status
          /\ m.kind # "hello" /\ ~Is(m, "tool", r) => u = t
          /\ m.kind # "hello" /\ Answered(store'.messages, r) =>
                 Answered(store.messages, r) \/ Is(m, "completed", r)
      BY <1>1, <1>2, <1>4, ReduceCalls
    <2>2. Called(r, Base, t, q) /\ (Answered(store.messages, r) => t # "running")
      BY DEF Calling, NoToolOutlives
    <2>3. u = "running" => \/ Runs(q[1], r)
                           \/ /\ t = "running" /\ ~Ends(q[1], r)
                              /\ q[1].kind # "hello"
      BY <1>2, <2>1 DEF Runs, Ends
    <2>4. /\ Quiet(q, r) => Quiet(p, r)
          /\ OverBefore(q, r, t) => OverBefore(p, r, u)
          /\ Over(q, r, t, Len(q)) => Over(p, r, u, Len(p))
      BY <1>1, <1>2, <2>3, CallsTaken
    <2>5. Is(m, "completed", r) => t # "running" /\ Quiet(p, r)
      <3> SUFFICES ASSUME Is(q[1], "completed", r)
                   PROVE  t # "running" /\ Quiet(p, r)
        BY <1>2
      <3>1. Over(q, r, t, 1) /\ \A k \in DOMAIN q : Runs(q[k], r) => k < 1
        BY <1>2, <2>2 DEF Called, OverBefore
      <3>2. \A k \in DOMAIN q : ~(k < 1) /\ (k <= 1 => k = 1)
        BY <1>1
      <3>3. t # "running"
        BY <1>2, <3>1, <3>2 DEF Over, Ends, Is
      <3> QED BY <2>4, <3>1, <3>2, <3>3 DEF Quiet
    <2>6. Quiet(q, r) => ~Runs(m, r)
      BY <1>2 DEF Quiet
    <2>7. Answered(store'.messages, r) => u # "running" /\ Quiet(p, r)
      <3>1. CASE m.kind = "hello"
        BY <1>6, <2>1, <2>2, <2>4, <3>1 DEF Called
      <3>2. CASE m.kind # "hello" /\ Answered(store.messages, r)
        <4>1. Quiet(q, r) /\ t # "running"
          BY <1>6, <2>2, <3>2 DEF Called
        <4> QED BY <1>2, <2>3, <2>4, <2>6, <4>1
      <3>3. CASE m.kind # "hello" /\ Is(m, "completed", r)
        <4>1. ~Runs(m, r)
          BY <3>3 DEF Runs, Is
        <4> QED BY <1>2, <2>3, <2>5, <3>3, <4>1
      <3> QED BY <2>1, <3>1, <3>2, <3>3
    <2>8. Untaken(r)' \/ (worker'.of = r /\ worker'.tool = "none") =>
              Quiet(p, r) /\ u # "running"
      BY <1>1, <1>2, <1>3, <2>2, <2>3, <2>4, <2>6 DEF Called
    <2>9. sock' = "open" /\ worker'.of = r /\ worker'.tool \in {"completed", "failed"}
              => Over(p, r, u, Len(p))
      BY <1>2, <2>2, <2>4 DEF Called
    <2>10. OverBefore(p, r, u)
      BY <2>2, <2>4 DEF Called
    <2>11. Called(r, b, u, p)'
      BY <1>6, <2>7, <2>8, <2>9, <2>10 DEF Called
    <2> QED BY <2>7, <2>11 DEF Called
  <1> QED BY <1>5, <1>7 DEF Calling, NoToolOutlives

LEMMA CallingAccept ==
    ASSUME TypeOK, Calling, [Next]_vars, Accept
    PROVE  Calling'
  <1> PICK h : h = [kind |-> "hello", messages |-> history]
    OBVIOUS
  <1>1. /\ down' = <<h>> /\ h.kind = "hello" /\ UNCHANGED <<store, worker>>
        /\ UNCHANGED <<asked, up, queue>>
    BY DEF Accept, Keep, agentVars
  <1>2. \A k \in DOMAIN down' : k = 1 /\ down'[k] = h
    BY <1>1
  <1>3. 1 \in DOMAIN down' /\ Len(down') = 1
    BY <1>1
  <1>4. ASSUME NEW r \in Tooled
        PROVE  Called(r, Base, store.tools[r], down)'
    <2> PICK p, t, b : p = down' /\ t = store.tools[r] /\ b = Base'
      OBVIOUS
    <2>1. Quiet(p, r) /\ OverBefore(p, r, t)
      BY <1>1, <1>2 DEF Quiet, OverBefore, Runs, Is
    <2>2. Over(p, r, t, Len(p))
      BY <1>1, <1>2, <1>3 DEF Over, Runs, Is
    <2>3. Untaken(r)' = Untaken(r) /\ Called(r, Base, t, down)
      BY <1>1 DEF Untaken, Calling
    <2>4. Called(r, b, t, p)'
      BY <1>1, <2>1, <2>2, <2>3 DEF Called
    <2> QED BY <1>1, <2>4 DEF Called
  <1> QED BY <1>1, <1>2, <1>4 DEF Calling, NoToolOutlives

(* Messages that say nothing of tools, and end no answer.                  *)
Silent(m) ==
    /\ m \in Messages /\ m.kind \notin {"hello", "tool", "completed"}
    /\ m.kind = "message" => m.message.role = "user"

Silently(q, p) ==
    \/ p = q
    \/ \E m : Silent(m) /\ p = Append(q, m)
    \/ \E m, n : Silent(m) /\ Silent(n) /\ p = Append(Append(q, m), n)

LEMMA SilentCalls ==
    ASSUME NEW q \in Seq(Messages), NEW p, Silently(q, p), NEW r, NEW t
    PROVE  /\ Quiet(q, r) => Quiet(p, r)
           /\ OverBefore(q, r, t) => OverBefore(p, r, t)
           /\ Over(q, r, t, Len(q)) => Over(p, r, t, Len(p))
  <1>1. ASSUME NEW m, Silent(m)
        PROVE  ~Runs(m, r) /\ ~Is(m, "completed", r) /\ m \in Messages
    BY <1>1 DEF Silent, Runs, Is
  <1>2. ASSUME NEW o \in Seq(Messages), NEW m, Silent(m)
        PROVE  /\ Quiet(o, r) => Quiet(Append(o, m), r)
               /\ OverBefore(o, r, t) => OverBefore(Append(o, m), r, t)
               /\ Over(o, r, t, Len(o)) =>
                      Over(Append(o, m), r, t, Len(Append(o, m)))
    BY <1>1, <1>2, CallsMore
  <1>3. ASSUME NEW m, NEW n, Silent(m), Silent(n), p = Append(Append(q, m), n)
        PROVE  /\ Quiet(q, r) => Quiet(p, r)
               /\ OverBefore(q, r, t) => OverBefore(p, r, t)
               /\ Over(q, r, t, Len(q)) => Over(p, r, t, Len(p))
    <2> PICK o : o = Append(q, m)
      OBVIOUS
    <2>1. o \in Seq(Messages)
      BY <1>1, <1>3
    <2> QED BY <1>2, <1>3, <2>1
  <1> QED BY <1>2, <1>3 DEF Silently

LEMMA SilentUsers ==
    ASSUME NEW q \in Seq(Messages), NEW p, Silently(q, p) \/
               \E m : m.kind # "message" /\ p = Append(q, m),
           \A k \in DOMAIN q : q[k].kind = "message" => q[k].message.role = "user"
    PROVE  \A k \in DOMAIN p : p[k].kind = "message" => p[k].message.role = "user"
  <1> DEFINE users(o) ==
               \A k \in DOMAIN o : o[k].kind = "message" => o[k].message.role = "user"
  <1>1. ASSUME NEW o \in Seq(Messages), users(o), NEW m,
               m.kind = "message" => m.message.role = "user"
        PROVE  users(Append(o, m))
    BY <1>1, AppendAt
  <1>2. ASSUME NEW m, NEW n, Silent(m), Silent(n), p = Append(Append(q, m), n)
        PROVE  users(p)
    <2> PICK o : o = Append(q, m)
      OBVIOUS
    <2>1. o \in Seq(Messages)
      BY <1>2 DEF Silent
    <2>2. users(o)
      BY <1>1, <1>2 DEF Silent
    <2> QED BY <1>1, <1>2, <2>1, <2>2 DEF Silent
  <1> QED BY <1>1, <1>2 DEF Silently, Silent

(* What the agent does but for tools and completing an answer.             *)
LEMMA SilentOffers ==
    ASSUME TypeOK,
           \/ HandleText \/ Take \/ SendDelta \/ EndTurn \/ Fail
           \/ \E r \in Others : OtherAsks(r)
    PROVE  Silently(down, down')
  <1>1. /\ up \in Seq(Requests) /\ queue \in Seq(All)
        /\ worker.step # "idle" => worker.of \in All
        /\ worker.sent \in Nat /\ Requests \subseteq All /\ Others \subseteq All
    BY DEF TypeOK, AgentType, All
  <1>2. ASSUME NEW m, Silent(m), Offer(<<m>>)
        PROVE  Silently(down, down')
    BY <1>2, OfferOne DEF Silent, Silently
  <1>3. ASSUME NEW m, NEW n, Silent(m), Silent(n), Offer(<<m, n>>)
        PROVE  Silently(down, down')
    BY <1>3, OfferTwo DEF Silent, Silently
  <1>4. \A r \in All :
          /\ Silent(Asks(r)) /\ Silent([kind |-> "accepted", of |-> r])
          /\ Silent([kind |-> "error", of |-> r])
          /\ Silent([kind |-> "started", of |-> r])
          /\ Silent([kind |-> "failed", of |-> r])
          /\ \A n \in Nat : Silent([kind |-> "delta", of |-> r, part |-> n])
    BY MessageTypes DEF Silent, Asks, Question, Plain
  <1>5. CASE HandleText
    <2>1. Head(up) \in All
      BY <1>1, <1>5, SeqFacts DEF HandleText
    <2>2. \/ Offer(<<Asks(Head(up)), [kind |-> "accepted", of |-> Head(up)]>>)
          \/ Offer(<<[kind |-> "error", of |-> Head(up)]>>)
      BY <1>5 DEF HandleText
    <2> HIDE DEF Asks
    <2> QED BY <1>2, <1>3, <1>4, <2>1, <2>2
  <1>6. CASE \E r \in Others : OtherAsks(r)
    <2>1. PICK r \in Others : Offer(<<Asks(r)>>)
      BY <1>6 DEF OtherAsks
    <2> QED BY <1>1, <1>2, <1>4, <2>1
  <1>7. CASE Take
    <2>1. Head(queue) \in All
      BY <1>1, <1>7, SeqFacts DEF Take
    <2>2. Offer(<<[kind |-> "started", of |-> Head(queue)]>>)
      BY <1>7 DEF Take
    <2> QED BY <1>2, <1>4, <2>1, <2>2
  <1>8. CASE SendDelta
    <2>1. /\ Offer(<<[kind |-> "delta", of |-> worker.of,
                      part |-> worker.sent + 1]>>)
          /\ worker.of \in All /\ worker.sent + 1 \in Nat
      BY <1>1, <1>8 DEF SendDelta, Working
    <2> QED BY <1>2, <1>4, <2>1
  <1>9. CASE EndTurn
    BY <1>9 DEF EndTurn, Silently
  <1>10. CASE Fail
    <2>1. /\ worker.of \in All
          /\ Offer(<<[kind |-> "failed", of |-> worker.of],
                     [kind |-> "error", of |-> worker.of]>>)
      BY <1>1, <1>10 DEF Fail, Working
    <2> QED BY <1>3, <1>4, <2>1
  <1> QED BY <1>5, <1>6, <1>7, <1>8, <1>9, <1>10

(* What holds of the tool of one answer holds after a step that says       *)
(* nothing of tools.                                                       *)
LEMMA CallingSilent ==
    ASSUME TypeOK, Asking, Said, Calling, [Next]_vars,
           \/ HandleText \/ Take \/ SendDelta \/ EndTurn \/ Fail
           \/ \E r \in Others : OtherAsks(r)
    PROVE  Calling'
  <1>1. /\ down \in Seq(Messages) /\ Tooled \subseteq All /\ None \notin All
        /\ queue \in Seq(All)
    BY AgentAssumption DEF TypeOK, PageType, AgentType, All
  <1>2. Silently(down, down')
    BY SilentOffers
  <1>3. Base' = Base /\ UNCHANGED <<sock, store>>
    <2>1. Agent /\ ~Accept
      <3>1. ~Accept
        BY DEF Accept, HandleText, Take, SendDelta, EndTurn, Fail, OtherAsks,
           AgentKeeps, pageVars
      <3> QED BY <3>1 DEF Agent
    <2> QED BY <2>1, AgentSpares
  <1>4. \A r \in All : Untaken(r)' => Untaken(r)
    BY UntakenLess
  <1>5. \/ worker'.of = worker.of /\ worker'.tool = worker.tool
        \/ worker'.of = None
        \/ worker'.tool = "none" /\ worker'.of \in All /\ Untaken(worker'.of)
    <2>1. CASE HandleText \/ \E r \in Others : OtherAsks(r)
      BY <2>1 DEF HandleText, OtherAsks
    <2>2. CASE Take
      <3>1. worker'.of = Head(queue) /\ worker'.tool = "none"
        BY <2>2 DEF Take, Resting
      <3> QED BY <2>2, <3>1, TakenIs
    <2>3. CASE SendDelta
      BY <2>3 DEF SendDelta, TypeOK, AgentType
    <2>4. CASE EndTurn \/ Fail
      BY <2>4 DEF EndTurn, Fail, Resting
    <2> QED BY <2>1, <2>2, <2>3, <2>4
  <1>6. ASSUME NEW r \in Tooled
        PROVE  Called(r, Base, store.tools[r], down)'
    <2> PICK q, p, t, b : q = down /\ p = down' /\ t = store.tools[r] /\ b = Base
      OBVIOUS
    <2>1. Called(r, b, t, q) /\ r \in All
      BY <1>1 DEF Calling
    <2>2. /\ Quiet(q, r) => Quiet(p, r)
          /\ OverBefore(q, r, t) => OverBefore(p, r, t)
          /\ Over(q, r, t, Len(q)) => Over(p, r, t, Len(p))
      BY <1>1, <1>2, SilentCalls
    <2>3. Untaken(r)' \/ (worker'.of = r /\ worker'.tool = "none") =>
              Quiet(p, r) /\ t # "running"
      BY <1>1, <1>4, <1>5, <2>1, <2>2 DEF Called
    <2>4. sock' = "open" /\ worker'.of = r /\ worker'.tool \in {"completed", "failed"}
              => Over(p, r, t, Len(p))
      BY <1>1, <1>3, <1>5, <2>1, <2>2 DEF Called
    <2>5. Called(r, b, t, p)'
      BY <2>1, <2>2, <2>3, <2>4 DEF Called
    <2> QED BY <1>3, <2>5 DEF Called
  <1>7. \A k \in DOMAIN down' :
            down'[k].kind = "message" => down'[k].message.role = "user"
    BY <1>1, <1>2, SilentUsers DEF Calling
  <1> QED BY <1>3, <1>6, <1>7 DEF Calling, NoToolOutlives

(* The tool starts, before any answer; it ends; the answer is complete.    *)
LEMMA CallingTool ==
    ASSUME TypeOK, Asking, Said, Following, Calling, [Next]_vars,
           StartTool \/ EndTool \/ Complete
    PROVE  Calling'
  <1>1. /\ down \in Seq(Messages) /\ Tooled \subseteq All /\ None \notin All
    BY AgentAssumption DEF TypeOK, PageType, All
  <1>2. Base' = Base /\ UNCHANGED <<sock, store>>
    <2>1. Agent /\ ~Accept
      <3>1. ~Accept
        BY DEF Accept, StartTool, EndTool, Complete, AgentKeeps, pageVars
      <3> QED BY <3>1 DEF Agent
    <2> QED BY <2>1, AgentSpares
  <1>3. \A r \in All : Untaken(r)' => Untaken(r)
    BY UntakenLess
  <1>4. PICK w, m :
          /\ w = worker.of /\ worker'.of = w /\ w \in All
          /\ \/ sock # "open" /\ down' = down
             \/ sock = "open" /\ down' = Append(down, m)
          /\ m.kind # "message"
          /\ \/ /\ Runs(m, w) /\ Working /\ worker.tool = "none"
                /\ worker'.tool = "running"
             \/ Ends(m, w) /\ worker.tool = "running" /\ worker'.tool # "none"
             \/ /\ Is(m, "completed", w) /\ worker'.tool = worker.tool
                /\ worker.tool \in {"none", "completed"}
    <2>1. /\ worker.step # "idle" => worker.of \in All
          /\ worker.tool # "none" => worker.of \in Tooled
          /\ worker \in [of : All \union {None}, sent : Nat, tool : Calls,
                         step : {"idle", "working", "syncing"}]
      BY DEF TypeOK, AgentType
    <2>2. CASE StartTool
      <3> DEFINE m == [kind |-> "tool", of |-> worker.of, status |-> "running"]
      <3>1. m.kind = "tool" /\ m.of = worker.of /\ m.status = "running"
        OBVIOUS
      <3>2. Offer(<<m>>) /\ Working /\ worker.tool = "none" /\ worker.of \in All
            /\ worker' = [worker EXCEPT !.tool = "running"]
        BY <2>1, <2>2 DEF StartTool, Working
      <3> HIDE DEF m
      <3>3. \/ sock # "open" /\ down' = down
            \/ sock = "open" /\ down' = Append(down, m)
        BY <1>1, <3>2 DEF Offer
      <3> QED BY <2>1, <3>1, <3>2, <3>3 DEF Runs, Is
    <2>3. CASE EndTool
      <3>1. PICK end \in {"completed", "failed"} :
              /\ worker' = [worker EXCEPT !.tool = end]
              /\ Offer(<<[kind |-> "tool", of |-> worker.of, status |-> end]>>)
        BY <2>3 DEF EndTool
      <3> DEFINE m == [kind |-> "tool", of |-> worker.of, status |-> end]
      <3>2. m.kind = "tool" /\ m.of = worker.of /\ m.status = end
        OBVIOUS
      <3>3. Offer(<<m>>) /\ worker.tool = "running" /\ worker.of \in All
        BY <1>1, <2>1, <2>3, <3>1 DEF EndTool
      <3> HIDE DEF m
      <3>4. \/ sock # "open" /\ down' = down
            \/ sock = "open" /\ down' = Append(down, m)
        BY <1>1, <3>3 DEF Offer
      <3> QED BY <2>1, <3>1, <3>2, <3>3, <3>4 DEF Ends, Is
    <2>4. CASE Complete
      <3> DEFINE m == [kind |-> "completed", of |-> worker.of]
      <3>1. m.kind = "completed" /\ m.of = worker.of
        OBVIOUS
      <3>2. Offer(<<m>>) /\ worker.tool \in {"none", "completed"}
            /\ worker.of \in All /\ worker' = [worker EXCEPT !.step = "syncing"]
        BY <2>1, <2>4 DEF Complete, Working
      <3> HIDE DEF m
      <3>3. \/ sock # "open" /\ down' = down
            \/ sock = "open" /\ down' = Append(down, m)
        BY <1>1, <3>2 DEF Offer
      <3> QED BY <2>1, <3>1, <3>2, <3>3 DEF Is
    <2> QED BY <2>2, <2>3, <2>4
  <1>5. ASSUME NEW r \in Tooled
        PROVE  Called(r, Base, store.tools[r], down)'
    <2> PICK q, p, t, b : q = down /\ p = down' /\ t = store.tools[r] /\ b = Base
      OBVIOUS
    <2>1. Called(r, b, t, q) /\ r \in All
      BY <1>1 DEF Calling
    <2>2. ~(Untaken(r)' /\ r = w)
      BY <1>3, <1>4, <2>1 DEF Said
    <2>3. CASE sock # "open"
      <3>1. Called(r, b, t, p)'
        BY <1>2, <1>3, <1>4, <2>1, <2>2, <2>3 DEF Called
      <3> QED BY <1>2, <3>1 DEF Called
    <2>4. CASE sock = "open" /\ p = Append(q, m)
      <3>1. /\ ~Runs(m, r) /\ Quiet(q, r) => Quiet(p, r)
            /\ ~Runs(m, r) /\ Over(q, r, t, Len(q)) => Over(p, r, t, Len(p))
            /\ Ends(m, r) => Over(p, r, t, Len(p))
            /\ OverBefore(q, r, t) /\ ~Runs(m, r) /\ ~Is(m, "completed", r) =>
                   OverBefore(p, r, t)
            /\ OverBefore(q, r, t) /\ ~Runs(m, r) /\ Over(q, r, t, Len(q)) =>
                   OverBefore(p, r, t)
            /\ Runs(m, r) /\ ~Says(q, "completed", r) => OverBefore(p, r, t)
        BY <1>1, <2>4, CallsMore
      <3>2. /\ Runs(m, r) => r = w /\ ~Ends(m, r) /\ ~Is(m, "completed", w)
            /\ Ends(m, r) => r = w /\ ~Is(m, "completed", w)
            /\ Is(m, "completed", r) => r = w
        BY <1>4 DEF Runs, Ends, Is
      <3>3. CASE r # w
        <4>1. ~Runs(m, r) /\ ~Is(m, "completed", r)
          BY <3>2, <3>3
        <4>2. Called(r, b, t, p)'
          BY <1>2, <1>3, <1>4, <2>1, <2>4, <3>1, <3>3, <4>1 DEF Called
        <4> QED BY <1>2, <4>2 DEF Called
      <3>4. CASE r = w /\ Runs(m, w)
        <4>1. Working /\ worker.tool = "none" /\ worker'.tool = "running"
          BY <1>4, <3>2, <3>4 DEF Runs, Ends, Is
        <4>2. ~Answered(history, w) /\ ~Answered(b, r)
          BY <1>4, <2>1, <2>4, <3>4, <4>1, NotYetAnswered DEF Said
        <4>3. ~Says(q, "completed", r)
          <5>1. Ordered(b, q, history, midway)
            BY <2>4 DEF Following
          <5>2. ASSUME NEW k \in DOMAIN q, Is(q[k], "completed", r)
                PROVE  FALSE
            <6>1. PICK j \in DOMAIN history : Names(q[k], history[j])
              BY <5>1, <5>2 DEF Ordered, Is
            <6>2. SameId(history[j], Answer(r, <<>>))
              BY <5>2, <6>1 DEF Names, Is, SameId, Answer
            <6> QED BY <3>4, <4>2, <6>2 DEF Answered, Has
          <5> QED BY <5>2 DEF Says
        <4>4. OverBefore(p, r, t)
          BY <3>1, <3>4, <4>3
        <4>5. Called(r, b, t, p)'
          BY <1>4, <2>2, <3>4, <4>1, <4>2, <4>4 DEF Called
        <4> QED BY <1>2, <4>5 DEF Called
      <3>5. CASE r = w /\ Ends(m, w)
        <4>1. worker.tool = "running" /\ worker'.tool # "none" /\ ~Runs(m, w)
              /\ ~Is(m, "completed", w)
          BY <1>4, <3>2, <3>5 DEF Runs, Ends, Is
        <4>2. Called(r, b, t, p)'
          BY <1>4, <2>1, <2>2, <3>1, <3>5, <4>1 DEF Called
        <4> QED BY <1>2, <4>2 DEF Called
      <3>6. CASE r = w /\ Is(m, "completed", w)
        <4>1. ~Runs(m, r) /\ worker'.tool = worker.tool
              /\ worker.tool \in {"none", "completed"}
          BY <1>4, <3>2, <3>6 DEF Runs, Ends, Is
        <4>2. Over(q, r, t, Len(q))
          <5>1. Quiet(q, r) /\ t # "running" => Over(q, r, t, Len(q))
            BY DEF Quiet, Over
          <5> QED BY <1>4, <2>1, <2>4, <3>6, <4>1, <5>1 DEF Called
        <4>3. Called(r, b, t, p)'
          BY <1>4, <2>1, <2>2, <3>1, <3>6, <4>1, <4>2 DEF Called
        <4> QED BY <1>2, <4>3 DEF Called
      <3> QED BY <1>4, <3>3, <3>4, <3>5, <3>6
    <2> QED BY <1>4, <2>3, <2>4
  <1>6. \A k \in DOMAIN down' :
            down'[k].kind = "message" => down'[k].message.role = "user"
    BY <1>1, <1>4, SilentUsers DEF Calling
  <1> QED BY <1>2, <1>5, <1>6 DEF Calling, NoToolOutlives

(* Whatever connections are lost, agents restart and pages remount, no     *)
(* tool is shown as running beside the answer it was called for: the page  *)
(* hears of its end before the answer is complete, or a hello has reset    *)
(* it.                                                                     *)
THEOREM ToolsEndFirst == Spec => []NoToolOutlives
  <1> DEFINE I == TypeOK /\ Asking /\ Said /\ Online /\ Following /\ Calling
  <1>1. Init => I
    <2>1. Init => Online /\ Following
      BY DEF Init, Online, Following
    <2>2. Init => Calling
      <3> SUFFICES ASSUME Init
                   PROVE  Calling
        OBVIOUS
      <3>1. /\ store.messages = <<>> /\ store.tools = [r \in Tooled |-> "none"]
            /\ down = <<>> /\ worker.of = None /\ sock = "none"
        BY DEF Init, Resting
      <3> QED BY <3>1 DEF Calling, NoToolOutlives, Called, Quiet, OverBefore
    <2> QED BY <2>1, <2>2, TypeInit, AskingInit, SaidInit
  <1>2. I /\ [Next]_vars => I'
    <2>1. ASSUME TypeOK, Asking, Said, Online, Following, Calling, [Next]_vars
          PROVE  /\ TypeOK' /\ Asking' /\ Said' /\ Online' /\ Following'
                 /\ Calling'
      <3>1. Calling'
        BY <2>1, CallingPage, CallingReceive, CallingAccept, CallingSilent,
           CallingTool DEF Agent
      <3> QED BY <2>1, <3>1, TypeNext, AskingNext, SaidNext, OnlineNext,
              FollowingNext
    <2> QED BY <2>1
  <1>3. I => NoToolOutlives
    BY DEF Calling
  <1> HIDE DEF I
  <1> QED BY <1>1, <1>2, <1>3, PTL DEF Spec
=============================================================================
