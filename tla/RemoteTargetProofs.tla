------------------------- MODULE RemoteTargetProofs --------------------------
(***************************************************************************)
(* Proofs about RemoteTarget: its types, that a stale snapshot is never    *)
(* left without a resynchronisation task, that what the router is told of  *)
(* a command is true, that a snapshot reported as ready misses nothing the *)
(* device has said, and that a closed target is cut off and stays at rest. *)
(***************************************************************************)
EXTENDS RemoteTarget, TLAPS

USE RemoteAssumption

(* A bound that is spent is still a bound.                                 *)
LEMMA SpendType ==
    ASSUME TypeOK, NEW what \in Bounded, Spend(what)
    PROVE  budget' \in [Bounded -> Nat]
BY DEF TypeOK, Spend

(* A prefix of the wire, and the wire less its head, hold messages.        *)
LEMMA WireParts ==
    ASSUME NEW w \in Seq(Messages)
    PROVE  /\ \A n \in 0 .. Len(w) : SubSeq(w, 1, n) \in Seq(Messages)
           /\ w # <<>> => /\ Tail(w) \in Seq(Messages) /\ Head(w) \in Messages
OBVIOUS

(* Replacing a member of a sequence keeps its type.                        *)
LEMMA Replaced ==
    ASSUME NEW S, NEW q \in Seq(S), NEW a, NEW b \in S
    PROVE  [i \in DOMAIN q |-> IF q[i] = a THEN b ELSE q[i]] \in Seq(S)
OBVIOUS

(* TypeOK depends on the variables alone.                                  *)
LEMMA TypeStutter ==
    ASSUME TypeOK, UNCHANGED vars
    PROVE  TypeOK'
BY DEF TypeOK, vars, network, image, retry, target, told

LEMMA TypeInit == Init => TypeOK
<1> SUFFICES ASSUME Init PROVE TypeOK
  OBVIOUS
<1>1. device \in States /\ cache \in States
  BY DEF Init, States
<1>2. inbox \in Seq(Requests) /\ wire \in Seq(Messages)
  BY DEF Init
<1>3. request \in [Tasks -> Standings]
  BY DEF Init, Standings
<1>4. budget \in [Bounded -> Nat]
  BY DEF Init, Bounded, RemoteAssumption
<1> QED BY <1>1, <1>2, <1>3, <1>4 DEF Init, TypeOK

LEMMA Next1Type ==
    ASSUME NEW s \in States
    PROVE  Next1(s) \in States
<1>1. s.revision + 1 \in Nat
  BY DEF States
<1> QED BY <1>1 DEF Next1, States

LEMMA TypeDevice ==
    ASSUME TypeOK, Change \/ Drop \/ Restart \/ Serve
    PROVE  TypeOK'
<1> USE DEF network, image, retry, target, told
<1>1. CASE Change
  <2>1. device' \in States
    BY <1>1, Next1Type DEF TypeOK, Change
  <2>2. State(device') \in Messages
    BY <2>1 DEF State, Messages
  <2>3. wire' \in Seq(Messages)
    BY <1>1, <2>2 DEF TypeOK, Change
  <2>4. budget' \in [Bounded -> Nat]
    BY <1>1, SpendType DEF Change, Bounded
  <2> QED BY <1>1, <2>1, <2>3, <2>4 DEF TypeOK, Change
<1>2. CASE Serve
  <2>1. device' \in States
    BY <1>2, Next1Type DEF TypeOK, Serve
  <2>2. Head(inbox) \in Requests /\ Tail(inbox) \in Seq(Requests)
    BY <1>2 DEF TypeOK, Serve
  <2>3. State(device') \in Messages /\ Accepted(Head(inbox)) \in Messages
    BY <2>1, <2>2 DEF State, Accepted, Messages
  <2>4. wire' \in Seq(Messages)
    BY <1>2, <2>3 DEF TypeOK, Serve
  <2> QED BY <1>2, <2>1, <2>2, <2>4 DEF TypeOK, Serve
<1>3. CASE Drop \/ Restart
  <2>1. wire' \in Seq(Messages)
    BY <1>3, WireParts DEF TypeOK, Drop, Restart, Cut
  <2>2. device' \in States
    BY <1>3 DEF TypeOK, Drop, Restart, States
  <2>3. budget' \in [Bounded -> Nat]
    BY <1>3, SpendType DEF Drop, Restart, Bounded
  <2>4. inbox' \in Seq(Requests)
    <3>1. inbox' = <<>>
      BY <1>3 DEF Drop, Restart, Cut
    <3> QED BY <3>1
  <2> QED BY <1>3, <2>1, <2>2, <2>3, <2>4 DEF TypeOK, Drop, Restart, Cut
<1> QED BY <1>1, <1>2, <1>3

LEMMA TypeClient ==
    ASSUME TypeOK,
           Connect \/ Disconnect \/ ReceiveAccepted
             \/ \E t \in Tasks : Request(t) \/ RequestTimeout(t)
    PROVE  TypeOK'
<1> USE DEF network, image, retry, target, told
<1>1. CASE Connect
  <2>1. inbox' \in Seq(Requests) /\ wire' \in Seq(Messages)
    <3>1. inbox' = <<>> /\ wire' = <<>>
      BY <1>1 DEF Connect
    <3> QED BY <3>1
  <2>2. link' = "up" /\ heard' = FALSE
        /\ UNCHANGED <<device, request, executed, outcome, budget>>
    BY <1>1 DEF Connect
  <2>3. UNCHANGED <<phase, known, cache, stale, floor, resync, resyncReady>>
    BY <1>1 DEF Connect
  <2>4. /\ device' \in States /\ request' \in [Tasks -> Standings]
        /\ link' \in {"down", "up", "broken"}
        /\ heard' \in BOOLEAN /\ executed' \in BOOLEAN
        /\ outcome' \in {"none"} \union Ended
        /\ budget' \in [Bounded -> Nat]
    BY <2>2 DEF TypeOK
  <2> QED BY <2>1, <2>3, <2>4 DEF TypeOK
<1>2. CASE Disconnect
  <2>1. request' \in [Tasks -> Standings]
    <3>1. PICK late \in SUBSET Tasks :
             request' = [t \in Tasks |->
                           IF request[t] = "pending" THEN "unknown"
                           ELSE IF t \in late THEN "connection_error"
                           ELSE request[t]]
      BY <1>2 DEF Disconnect, FailPending
    <3> QED BY <3>1 DEF TypeOK, Standings, Ended, Failures
  <2>2. link' = "down"
        /\ UNCHANGED <<device, inbox, wire, executed, outcome, heard, budget>>
    BY <1>2 DEF Disconnect
  <2>3. UNCHANGED <<phase, known, cache, stale, floor, resync, resyncReady>>
    BY <1>2 DEF Disconnect
  <2> QED BY <2>1, <2>2, <2>3 DEF TypeOK
<1>3. CASE ReceiveAccepted
  <2>1. wire' \in Seq(Messages)
    BY <1>3, WireParts DEF TypeOK, ReceiveAccepted
  <2> QED BY <1>3, <2>1 DEF TypeOK, ReceiveAccepted, Standings, Ended
<1>4. ASSUME NEW t \in Tasks, Send(t)
      PROVE  TypeOK'
  <2>1. inbox' \in Seq(Requests)
    <3>1. t \in Requests
      BY <1>4 DEF Requests
    <3>2. inbox' = inbox \/ inbox' = Append(inbox, t)
      BY <1>4 DEF Send
    <3>3. inbox \in Seq(Requests)
      BY DEF TypeOK
    <3> QED BY ONLY <3>1, <3>2, <3>3
  <2>2. request' \in [Tasks -> Standings]
    BY <1>4 DEF TypeOK, Send, Standings, Ended, Failures
  <2> QED BY <1>4, <2>1, <2>2 DEF TypeOK, Send
<1>5. ASSUME NEW t \in Tasks, ConnectTimeout(t)
      PROVE  TypeOK'
  BY <1>5 DEF TypeOK, ConnectTimeout, Standings, Ended, Failures
<1>6. ASSUME NEW t \in Tasks, RequestTimeout(t)
      PROVE  TypeOK'
  <2>1. budget' \in [Bounded -> Nat]
    BY <1>6, SpendType DEF RequestTimeout, Bounded
  <2>2. inbox' \in Seq(Requests)
    <3>1. Nobody \in Requests
      BY DEF Requests
    <3>2. inbox' = [i \in DOMAIN inbox |->
                      IF inbox[i] = t THEN Nobody ELSE inbox[i]]
      BY <1>6 DEF RequestTimeout, Forget
    <3>3. inbox \in Seq(Requests)
      BY DEF TypeOK
    <3> QED BY ONLY <3>1, <3>2, <3>3, Replaced
  <2>3. wire' \in Seq(Messages)
    <3>1. Accepted(Nobody) \in Messages
      BY DEF Accepted, Messages, Requests
    <3>2. wire' = [i \in DOMAIN wire |->
                     IF wire[i] = Accepted(t) THEN Accepted(Nobody) ELSE wire[i]]
      BY <1>6 DEF RequestTimeout, Forget
    <3>3. wire \in Seq(Messages)
      BY DEF TypeOK
    <3> QED BY ONLY <3>1, <3>2, <3>3, Replaced
  <2> QED BY <1>6, <2>1, <2>2, <2>3 DEF TypeOK, RequestTimeout, Standings, Ended, Failures
<1> QED BY <1>1, <1>2, <1>3, <1>4, <1>5, <1>6 DEF Request

LEMMA TypeReceive ==
    ASSUME TypeOK, ReceiveState
    PROVE  TypeOK'
<1> USE DEF network, image, retry, target, told
<1>1. wire' \in Seq(Messages)
  BY WireParts DEF TypeOK, ReceiveState
<1>2. Head(wire).state \in States
  <2>1. Head(wire) \in Messages /\ Head(wire).what = "state"
    BY WireParts DEF TypeOK, ReceiveState
  <2> QED BY <2>1 DEF Messages
<1>3. /\ known' \in BOOLEAN /\ cache' \in States /\ stale' \in BOOLEAN
      /\ floor' \in Nat \union {None} /\ (floor' # None => stale')
      /\ resyncReady' \in BOOLEAN
      /\ resync' \in {"none", "begin", "asking", "listening", "resting"}
  BY <1>2 DEF TypeOK, ReceiveState, FirstState, Repair, Advance, Adopt,
              EnsureResync, States
<1>4. phase' = phase
  BY DEF ReceiveState
<1> QED BY <1>1, <1>3, <1>4 DEF TypeOK, ReceiveState

LEMMA TypeTarget ==
    ASSUME TypeOK,
           Start \/ Starting \/ StartTimeout \/ Command \/ CommandEnds
             \/ Resync \/ BeginClose \/ Close
    PROVE  TypeOK'
<1> USE DEF network, image, retry, target, told, Standings, Ended, Failures
<1>1. CASE Start \/ Starting
  BY <1>1 DEF TypeOK, Start, Starting, StartAnswered, Started, Tasks
<1>2. CASE StartTimeout
  BY <1>2, SpendType DEF TypeOK, StartTimeout, Bounded
<1>3. CASE Command
  BY <1>3, SpendType DEF TypeOK, Command, Bounded, Tasks
<1>4. CASE CommandEnds
  <2>1. request' \in [Tasks -> Standings]
        /\ outcome' \in {"none"} \union Ended
    BY <1>4 DEF TypeOK, CommandEnds, Tasks
  <2>2. /\ stale' \in BOOLEAN /\ resyncReady' \in BOOLEAN
        /\ floor' \in Nat \union {None} /\ (floor' # None => stale')
        /\ resync' \in {"none", "begin", "asking", "listening", "resting"}
    BY <1>4 DEF TypeOK, CommandEnds, EnsureResync
  <2> QED BY <1>4, <2>1, <2>2 DEF TypeOK, CommandEnds
<1>5. CASE Resync
  <2>1. CASE ResyncBegins
    <3>1. request' \in [Tasks -> Standings]
      BY <2>1 DEF TypeOK, ResyncBegins, Tasks
    <3>2. resync' \in {"none", "asking"} /\ resyncReady' \in BOOLEAN
      BY <2>1 DEF TypeOK, ResyncBegins
    <3> QED BY <2>1, <3>1, <3>2 DEF TypeOK, ResyncBegins, ResyncOnly
  <2>2. CASE ResyncAnswered
    BY <2>2 DEF TypeOK, ResyncAnswered, ResyncOnly, Unless, Tasks
  <2>3. CASE ResyncListened
    BY <2>3, SpendType DEF TypeOK, ResyncListened, ResyncOnly, Unless, Bounded
  <2>4. CASE ResyncRested
    BY <2>4 DEF TypeOK, ResyncRested, ResyncOnly
  <2> QED BY <1>5, <2>1, <2>2, <2>3, <2>4 DEF Resync
<1>6. CASE BeginClose \/ Close
  <2>1. CASE BeginClose
    BY <2>1 DEF TypeOK, BeginClose
  <2>2. CASE CancelTasks
    <3>1. request' \in [Tasks -> Standings]
      BY <2>2 DEF TypeOK, CancelTasks, Tasks
    <3> QED BY <2>2, <3>1 DEF TypeOK, CancelTasks
  <2>3. CASE CloseClient
    <3>1. inbox' \in Seq(Requests) /\ wire' \in Seq(Messages)
      BY <2>3 DEF CloseClient
    <3>2. request' \in [Tasks -> Standings]
      BY <2>3 DEF TypeOK, CloseClient, FailPending
    <3> QED BY <2>3, <3>1, <3>2 DEF TypeOK, CloseClient
  <2> QED BY <1>6, <2>1, <2>2, <2>3 DEF Close
<1> QED BY <1>1, <1>2, <1>3, <1>4, <1>5, <1>6

(* Every variable keeps its type, and a recovery floor outlives no gap.    *)
THEOREM TypeCorrect == Spec => []TypeOK
<1>1. TypeOK /\ [Next]_vars => TypeOK'
  BY TypeStutter, TypeDevice, TypeClient, TypeReceive, TypeTarget
  DEF Next, Network
<1> QED BY TypeInit, <1>1, PTL DEF Spec

-----------------------------------------------------------------------------
(* A stale snapshot of an open target is being repaired.  From start on,   *)
(* and before the target is open, this holds of every snapshot it has; and *)
(* an open target has one.                                                 *)
Watched ==
    /\ known /\ stale /\ ~Closed => resync # "none"
    /\ phase = "open" => known

LEMMA WatchedInit == Init => Watched
BY DEF Init, Watched

LEMMA WatchedStep ==
    ASSUME TypeOK, Watched, [Next]_vars
    PROVE  Watched'
<1> USE DEF Watched, Closed, network, image, retry, target, told
<1>1. CASE UNCHANGED vars
  BY <1>1 DEF vars
<1>2. CASE Change \/ Drop \/ Restart \/ Serve
  BY <1>2 DEF Change, Drop, Restart, Serve, Cut
<1>3. CASE Connect \/ Disconnect \/ ReceiveAccepted
  BY <1>3 DEF Connect, Disconnect, ReceiveAccepted
<1>4. ASSUME NEW t \in Tasks, Request(t) \/ RequestTimeout(t)
      PROVE  Watched'
  BY <1>4 DEF Request, Send, ConnectTimeout, RequestTimeout
<1>5. CASE ReceiveState
  BY <1>5 DEF ReceiveState, FirstState, Repair, Advance, Adopt, EnsureResync
<1>6. CASE Start \/ Starting \/ StartTimeout
  BY <1>6 DEF Start, Starting, StartAnswered, Started, StartTimeout
<1>7. CASE Command \/ CommandEnds
  BY <1>7 DEF Command, CommandEnds, EnsureResync
<1>8. CASE Resync
  BY <1>8 DEF Resync, ResyncBegins, ResyncAnswered, ResyncListened, ResyncRested,
              ResyncOnly, Unless
<1>9. CASE BeginClose \/ Close
  BY <1>9 DEF BeginClose, Close, CancelTasks, CloseClient
<1> QED BY <1>1, <1>2, <1>3, <1>4, <1>5, <1>6, <1>7, <1>8, <1>9 DEF Next, Network

(* No step leaves a stale snapshot of an open target to itself, for any    *)
(* number of losses, restarts and timeouts.                                *)
THEOREM StaleAlwaysWatched == Spec => []StaleIsWatched
<1>1. Watched => StaleIsWatched
  BY DEF Watched, StaleIsWatched, Closed
<1> QED BY TypeInit, WatchedInit, WatchedStep, TypeCorrect, <1>1, PTL DEF Spec

-----------------------------------------------------------------------------
(* A command is on its way to the device, or its answer is on its way      *)
(* back, or neither; each of them once, and for a request that waits.      *)

Has(q, x) == \E i \in DOMAIN q : q[i] = x
Once(q, x) == \A i, j \in DOMAIN q : q[i] = x /\ q[j] = x => i = j

Underway ==
    /\ link # "up" => inbox = <<>>
    /\ link = "down" => wire = <<>>
    /\ Once(inbox, "command") /\ Once(wire, Accepted("command"))
    /\ Has(inbox, "command") =>
           request["command"] = "pending" /\ ~executed
    /\ Has(wire, Accepted("command")) =>
           request["command"] = "pending" /\ executed

Fates ==
    /\ request["command"] = "answered" => executed
    /\ request["command"] \in {"connecting", "disconnected", "connection_error"}
         => ~executed
    /\ request["command"] # "none" => outcome = "none"

Truthful == Underway /\ Fates /\ OutcomeIsTrue

(* What the steps of a sequence do to the members it has.                  *)
LEMMA HasAppended ==
    ASSUME NEW S, NEW q \in Seq(S), NEW x \in S, NEW y
    PROVE  /\ Has(Append(q, x), y) <=> Has(q, y) \/ x = y
           /\ Once(q, y) /\ (x = y => ~Has(q, y)) => Once(Append(q, x), y)
  <1> DEFINE r == Append(q, x)
             n == Len(q) + 1
  <1>1. /\ DOMAIN r = DOMAIN q \union {n} /\ n \notin DOMAIN q /\ r[n] = x
        /\ \A i \in DOMAIN q : r[i] = q[i]
    OBVIOUS
  <1> HIDE DEF r, n
  <1>2. Has(r, y) <=> Has(q, y) \/ x = y
    BY <1>1 DEF Has
  <1>3. Once(q, y) /\ (x = y => ~Has(q, y)) => Once(r, y)
    BY <1>1 DEF Has, Once
  <1> QED BY <1>2, <1>3 DEF r

LEMMA HasTail ==
    ASSUME NEW S, NEW q \in Seq(S), q # <<>>, NEW y, Once(q, y)
    PROVE  /\ Has(q, y) <=> Head(q) = y \/ Has(Tail(q), y)
           /\ Once(Tail(q), y)
           /\ Head(q) = y => ~Has(Tail(q), y)
  <1>1. \A i \in DOMAIN Tail(q) : i + 1 \in DOMAIN q /\ Tail(q)[i] = q[i + 1]
    OBVIOUS
  <1>2. \A i \in DOMAIN q : i # 1 => i - 1 \in DOMAIN Tail(q)
                                     /\ Tail(q)[i - 1] = q[i]
    OBVIOUS
  <1>3. 1 \in DOMAIN q /\ Head(q) = q[1] /\ DOMAIN q \subseteq Nat
        /\ DOMAIN Tail(q) \subseteq Nat /\ 0 \notin DOMAIN Tail(q)
    OBVIOUS
  <1> HIDE DEF Has
  <1>4. Once(Tail(q), y)
    BY <1>1, <1>3 DEF Once
  <1>5. Head(q) = y => ~Has(Tail(q), y)
    BY <1>1, <1>3 DEF Once, Has
  <1>6. Has(q, y) => Head(q) = y \/ Has(Tail(q), y)
    BY <1>2, <1>3 DEF Has
  <1>7. Head(q) = y \/ Has(Tail(q), y) => Has(q, y)
    BY <1>1, <1>3 DEF Has
  <1> QED BY <1>4, <1>5, <1>6, <1>7

LEMMA HasPrefix ==
    ASSUME NEW S, NEW q \in Seq(S), NEW n \in 0 .. Len(q), NEW y
    PROVE  /\ Has(SubSeq(q, 1, n), y) => Has(q, y)
           /\ Once(q, y) => Once(SubSeq(q, 1, n), y)
  <1>1. \A i \in DOMAIN SubSeq(q, 1, n) :
            i \in DOMAIN q /\ SubSeq(q, 1, n)[i] = q[i]
    OBVIOUS
  <1> QED BY <1>1 DEF Has, Once

(* Every x has been replaced by z, and nothing else has changed.           *)
LEMMA HasReplaced ==
    ASSUME NEW q, NEW x, NEW y, NEW z, y # z,
           NEW r, r = [i \in DOMAIN q |-> IF q[i] = x THEN z ELSE q[i]]
    PROVE  /\ x = y => ~Has(r, y)
           /\ x # y => (Has(r, y) <=> Has(q, y))
           /\ Once(q, y) => Once(r, y)
  BY DEF Has, Once

LEMMA HasNothing == \A y : ~Has(<<>>, y) /\ Once(<<>>, y)
  BY DEF Has, Once

LEMMA MessagesDiffer ==
    /\ \A t : Accepted(t) = Accepted("command") <=> t = "command"
    /\ \A s : State(s) # Accepted("command")
    /\ Nobody # "command"
    /\ \A m : m.what = "state" => m # Accepted("command")
  BY DEF Accepted, State, Nobody

LEMMA TruthfulDevice ==
    ASSUME TypeOK, Truthful, Change \/ Drop \/ Restart \/ Serve
    PROVE  Truthful'
  <1> DEFINE asked == Accepted("command")
  <1>0. inbox \in Seq(Requests) /\ wire \in Seq(Messages) /\ device \in States
    BY DEF TypeOK
  <1>1. CASE Change
    <2>1. /\ UNCHANGED <<link, inbox, request, executed, outcome>>
          /\ wire' = IF link = "up" THEN Append(wire, State(device')) ELSE wire
          /\ device' = Next1(device)
      BY <1>1 DEF Change, told
    <2>2. State(device') \in Messages
      BY <1>0, <2>1, Next1Type DEF State, Messages
    <2>3. Has(wire', asked) <=> Has(wire, asked)
      BY <1>0, <2>1, <2>2, HasAppended, MessagesDiffer
    <2>4. Once(wire', asked)
      BY <1>0, <2>1, <2>2, HasAppended, MessagesDiffer DEF Truthful, Underway
    <2>5. link' = "down" => wire' = <<>>
      BY <2>1 DEF Truthful, Underway
    <2> HIDE DEF asked
    <2> QED BY <2>1, <2>3, <2>4, <2>5
            DEF Truthful, Underway, Fates, OutcomeIsTrue, asked
  <1>2. CASE Serve
    <2> DEFINE t == Head(inbox)
               half == Append(wire, Accepted(t))
    <2>1. /\ UNCHANGED <<link, request, outcome>> /\ link = "up"
          /\ inbox # <<>> /\ inbox' = Tail(inbox)
          /\ wire' = wire \o <<Accepted(t), State(device')>>
          /\ executed' = (executed \/ t = "command")
          /\ device' = Next1(device)
      BY <1>2 DEF Serve
    <2>2. t \in Requests
      BY <1>0, <2>1
    <2>3. State(device') \in Messages /\ Accepted(t) \in Messages
      BY <1>0, <2>1, <2>2, Next1Type DEF State, Accepted, Messages
    <2>4. half \in Seq(Messages) /\ wire' = Append(half, State(device'))
      BY <1>0, <2>1, <2>3
    <2>5. /\ Has(half, asked) <=> Has(wire, asked) \/ t = "command"
          /\ (t = "command" => ~Has(wire, asked)) => Once(half, asked)
      BY <1>0, <2>3, HasAppended, MessagesDiffer DEF Truthful, Underway
    <2>6. /\ Has(wire', asked) <=> Has(half, asked)
          /\ Once(half, asked) => Once(wire', asked)
      <3>1. State(device') # asked
        BY MessagesDiffer
      <3> HIDE DEF asked, t, half
      <3> QED BY <2>3, <2>4, <3>1, HasAppended
    <2>7. /\ Has(inbox, "command") <=> t = "command" \/ Has(inbox', "command")
          /\ Once(inbox', "command")
          /\ t = "command" => ~Has(inbox', "command")
      BY <1>0, <2>1, HasTail DEF Truthful, Underway
    <2> HIDE DEF asked, t, half
    <2>8. Underway'
      BY <2>1, <2>5, <2>6, <2>7 DEF Truthful, Underway, asked
    <2>9. Fates' /\ OutcomeIsTrue'
      BY <2>1, <2>7 DEF Truthful, Underway, Fates, OutcomeIsTrue
    <2> QED BY <2>8, <2>9 DEF Truthful
  <1>3. CASE Drop \/ Restart
    <2>1. /\ UNCHANGED <<request, executed, outcome>>
          /\ link' = "broken" /\ inbox' = <<>>
          /\ \E n \in 0 .. Len(wire) : wire' = SubSeq(wire, 1, n)
      BY <1>3 DEF Drop, Restart, Cut, told
    <2>2. /\ Has(wire', asked) => Has(wire, asked)
          /\ Once(wire', asked)
      BY <1>0, <2>1, HasPrefix DEF Truthful, Underway
    <2>3. ~Has(inbox', "command") /\ Once(inbox', "command")
      BY <2>1, HasNothing
    <2> HIDE DEF asked
    <2> QED BY <2>1, <2>2, <2>3
            DEF Truthful, Underway, Fates, OutcomeIsTrue, asked
  <1> QED BY <1>1, <1>2, <1>3

LEMMA TruthfulClient ==
    ASSUME TypeOK, Truthful,
           Connect \/ Disconnect \/ ReceiveAccepted \/ ReceiveState
    PROVE  Truthful'
  <1> DEFINE asked == Accepted("command")
  <1>0. /\ inbox \in Seq(Requests) /\ wire \in Seq(Messages)
        /\ "command" \in Tasks /\ request \in [Tasks -> Standings]
    BY DEF TypeOK, Tasks
  <1>1. CASE Connect
    <2>1. /\ UNCHANGED <<request, executed, outcome>>
          /\ link' = "up" /\ inbox' = <<>> /\ wire' = <<>>
      BY <1>1 DEF Connect
    <2> QED BY <2>1, HasNothing DEF Truthful, Underway, Fates, OutcomeIsTrue
  <1>2. CASE Disconnect
    <2>1. /\ UNCHANGED <<inbox, wire, executed, outcome>>
          /\ link' = "down" /\ link = "broken" /\ wire = <<>>
          /\ FailPending("unknown")
      BY <1>2 DEF Disconnect, target, told
    <2>2. \/ request'["command"] = request["command"]
             /\ request["command"] # "pending"
          \/ request'["command"] = "unknown" /\ request["command"] = "pending"
          \/ request'["command"] = "connection_error"
             /\ request["command"] = "connecting"
      BY <1>0, <2>1 DEF FailPending
    <2>3. inbox = <<>> /\ wire = <<>>
      BY <2>1 DEF Truthful, Underway
    <2> QED BY <2>1, <2>2, <2>3, HasNothing
            DEF Truthful, Underway, Fates, OutcomeIsTrue
  <1>3. CASE ReceiveAccepted
    <2>1. /\ UNCHANGED <<link, inbox, executed, outcome>>
          /\ wire # <<>> /\ wire' = Tail(wire)
          /\ request' = [t \in Tasks |->
                           IF Head(wire) = Accepted(t) /\ request[t] = "pending"
                             THEN "answered" ELSE request[t]]
      BY <1>3 DEF ReceiveAccepted, target, told
    <2>2. /\ Has(wire, asked) <=> Head(wire) = asked \/ Has(wire', asked)
          /\ Once(wire', asked)
          /\ Head(wire) = asked => ~Has(wire', asked)
      BY <1>0, <2>1, HasTail DEF Truthful, Underway
    <2>3. request'["command"] = IF Head(wire) = asked
                                     /\ request["command"] = "pending"
                                  THEN "answered" ELSE request["command"]
      BY <1>0, <2>1
    <2>4. Head(wire) = asked => request["command"] = "pending" /\ executed
                                /\ ~Has(inbox, "command")
      BY <2>2 DEF Truthful, Underway
    <2>5. link' = "down" => wire' = <<>>
      BY <2>1 DEF Truthful, Underway
    <2> HIDE DEF asked
    <2>6. Underway'
      BY <2>1, <2>2, <2>3, <2>4, <2>5 DEF Truthful, Underway, asked
    <2>7. Fates' /\ OutcomeIsTrue'
      BY <2>1, <2>3, <2>4 DEF Truthful, Fates, OutcomeIsTrue
    <2> QED BY <2>6, <2>7 DEF Truthful
  <1>4. CASE ReceiveState
    <2>1. /\ UNCHANGED <<link, inbox, request, executed, outcome>>
          /\ wire # <<>> /\ wire' = Tail(wire)
      BY <1>4 DEF ReceiveState
    <2>2. /\ Has(wire', asked) => Has(wire, asked)
          /\ Once(wire', asked)
      BY <1>0, <2>1, HasTail DEF Truthful, Underway
    <2>3. link' = "down" => wire' = <<>>
      BY <2>1 DEF Truthful, Underway
    <2> HIDE DEF asked
    <2> QED BY <2>1, <2>2, <2>3
            DEF Truthful, Underway, Fates, OutcomeIsTrue, asked
  <1> QED BY <1>1, <1>2, <1>3, <1>4

LEMMA TruthfulRequest ==
    ASSUME TypeOK, Truthful, NEW t \in Tasks, Request(t) \/ RequestTimeout(t)
    PROVE  Truthful'
  <1> DEFINE asked == Accepted("command")
  <1>0. /\ inbox \in Seq(Requests) /\ wire \in Seq(Messages)
        /\ "command" \in Tasks /\ request \in [Tasks -> Standings]
        /\ t \in Requests
    BY DEF TypeOK, Tasks, Requests
  <1>1. CASE Send(t)
    <2>1. /\ UNCHANGED <<link, wire, executed, outcome>>
          /\ request[t] = "connecting" /\ link # "down"
          /\ \/ /\ request' = [request EXCEPT ![t] = "pending"]
                /\ inbox' = IF link = "up" THEN Append(inbox, t) ELSE inbox
             \/ /\ link = "broken" /\ inbox' = inbox
                /\ request' = [request EXCEPT ![t] = "connection_error"]
      BY <1>1 DEF Send, told
    <2>2. t = "command" => ~Has(inbox, "command") /\ ~Has(wire, asked)
                           /\ ~executed
      BY <2>1 DEF Truthful, Underway, Fates
    <2>3. /\ Has(Append(inbox, t), "command")
               <=> Has(inbox, "command") \/ t = "command"
          /\ Once(Append(inbox, t), "command")
      BY <1>0, <2>2, HasAppended DEF Truthful, Underway
    <2>4. t # "command" => request'["command"] = request["command"]
      BY <1>0, <2>1
    <2>5. t = "command" => request'["command"] \in {"pending", "connection_error"}
      BY <1>0, <2>1
    <2>6. Has(inbox', "command") /\ t = "command" =>
              request'["command"] = "pending"
      BY <1>0, <2>1, <2>2
    <2>7. Once(inbox', "command")
      BY <2>1, <2>3 DEF Truthful, Underway
    <2>8. Has(inbox', "command") => Has(inbox, "command") \/ t = "command"
      BY <2>1, <2>3
    <2>9. link' # "up" => inbox' = <<>>
      BY <2>1 DEF Truthful, Underway
    <2> HIDE DEF asked
    <2>10. Underway'
      BY <2>1, <2>2, <2>4, <2>6, <2>7, <2>8, <2>9
         DEF Truthful, Underway, asked
    <2>11. Fates' /\ OutcomeIsTrue'
      BY <2>1, <2>2, <2>4, <2>5 DEF Truthful, Fates, OutcomeIsTrue
    <2> QED BY <2>10, <2>11 DEF Truthful
  <1>2. CASE ConnectTimeout(t)
    <2>1. /\ UNCHANGED <<link, inbox, wire, executed, outcome>>
          /\ request[t] = "connecting"
          /\ request' = [request EXCEPT ![t] = "disconnected"]
      BY <1>2 DEF ConnectTimeout, network, told
    <2>2. \/ t # "command" /\ request'["command"] = request["command"]
          \/ /\ t = "command" /\ request["command"] = "connecting"
             /\ request'["command"] = "disconnected"
      BY <1>0, <2>1
    <2> QED BY <2>1, <2>2 DEF Truthful, Underway, Fates, OutcomeIsTrue
  <1>3. CASE RequestTimeout(t)
    <2>1. /\ UNCHANGED <<link, executed, outcome>>
          /\ request[t] = "pending"
          /\ request' = [request EXCEPT ![t] = "timeout"]
          /\ inbox' = [i \in DOMAIN inbox |->
                         IF inbox[i] = t THEN Nobody ELSE inbox[i]]
          /\ wire' = [i \in DOMAIN wire |-> IF wire[i] = Accepted(t)
                                              THEN Accepted(Nobody) ELSE wire[i]]
      BY <1>3 DEF RequestTimeout, Forget, told
    <2>2. /\ t = "command" => ~Has(inbox', "command")
          /\ Has(inbox', "command") => Has(inbox, "command")
          /\ Once(inbox', "command")
      <3>1. Once(inbox, "command") /\ Nobody # "command"
        BY MessagesDiffer DEF Truthful, Underway
      <3>2. /\ t = "command" => ~Has(inbox', "command")
            /\ t # "command" => (Has(inbox', "command") <=> Has(inbox, "command"))
            /\ Once(inbox, "command") => Once(inbox', "command")
        BY <2>1, <3>1 DEF Has, Once
      <3> QED BY <3>1, <3>2
    <2>3. /\ t = "command" => ~Has(wire', asked)
          /\ Has(wire', asked) => Has(wire, asked)
          /\ Once(wire', asked)
      <3>1. Once(wire, asked) /\ Accepted(Nobody) # asked
        BY MessagesDiffer DEF Truthful, Underway
      <3>2. t = "command" <=> Accepted(t) = asked
        BY MessagesDiffer
      <3> HIDE DEF asked
      <3> QED BY <2>1, <3>1, <3>2, HasReplaced
    <2>4. /\ link' # "up" => inbox' = <<>>
          /\ link' = "down" => wire' = <<>>
      BY <2>1 DEF Truthful, Underway
    <2>5. \/ t # "command" /\ request'["command"] = request["command"]
          \/ t = "command" /\ request'["command"] = "timeout"
             /\ request["command"] = "pending"
      BY <1>0, <2>1
    <2> HIDE DEF asked
    <2>6. Underway'
      BY <2>1, <2>2, <2>3, <2>4, <2>5 DEF Truthful, Underway, asked
    <2>7. Fates' /\ OutcomeIsTrue'
      BY <2>1, <2>5 DEF Truthful, Fates, OutcomeIsTrue
    <2> QED BY <2>6, <2>7 DEF Truthful
  <1> QED BY <1>1, <1>2, <1>3 DEF Request

LEMMA TruthfulTarget ==
    ASSUME TypeOK, Truthful,
           Start \/ Starting \/ StartTimeout \/ Command \/ CommandEnds
             \/ Resync \/ BeginClose \/ Close
    PROVE  Truthful'
  <1>0. "command" \in Tasks /\ request \in [Tasks -> Standings]
    BY DEF TypeOK, Tasks
  <1>1. CASE Command
    <2>1. /\ UNCHANGED <<link, inbox, wire>> /\ request["command"] = "none"
          /\ request'["command"] = "connecting"
          /\ executed' = FALSE /\ outcome' = "none"
      BY <1>0, <1>1 DEF Command, network
    <2> QED BY <2>1 DEF Truthful, Underway, Fates, OutcomeIsTrue
  <1>2. CASE CommandEnds
    <2>1. /\ UNCHANGED <<link, inbox, wire, executed>>
          /\ request["command"] \in Ended /\ request'["command"] = "none"
          /\ outcome' = request["command"]
      BY <1>0, <1>2 DEF CommandEnds, network
    <2>2. request["command"] # "pending"
      BY <2>1 DEF Ended, Failures
    <2> QED BY <2>1, <2>2 DEF Truthful, Underway, Fates, OutcomeIsTrue
  <1>3. CASE CloseClient
    <2>1. /\ UNCHANGED <<executed, outcome>> /\ FailPending("closed")
          /\ link' = "down" /\ inbox' = <<>> /\ wire' = <<>>
      BY <1>3 DEF CloseClient, told
    <2>2. \/ request'["command"] = request["command"]
          \/ request'["command"] = "closed" /\ request["command"] = "pending"
          \/ request'["command"] = "connection_error"
             /\ request["command"] = "connecting"
      BY <1>0, <2>1 DEF FailPending
    <2> QED BY <2>1, <2>2, HasNothing
            DEF Truthful, Underway, Fates, OutcomeIsTrue
  <1>4. ASSUME UNCHANGED <<link, inbox, wire, executed, outcome>>,
               request'["command"] = request["command"]
        PROVE  Truthful'
    BY <1>4 DEF Truthful, Underway, Fates, OutcomeIsTrue
  <1>5. CASE Start \/ Starting \/ StartTimeout
    BY <1>0, <1>4, <1>5 DEF Start, Starting, StartAnswered, Started,
                            StartTimeout, network, told
  <1>6. CASE Resync
    BY <1>0, <1>4, <1>6
       DEF Resync, ResyncBegins, ResyncAnswered, ResyncListened, ResyncRested,
           ResyncOnly, network, told
  <1>7. CASE BeginClose \/ CancelTasks
    BY <1>0, <1>4, <1>7 DEF BeginClose, CancelTasks, network, told
  <1> QED BY <1>1, <1>2, <1>3, <1>5, <1>6, <1>7 DEF Close

LEMMA TruthfulStep ==
    ASSUME TypeOK, Truthful, [Next]_vars PROVE Truthful'
  <1>1. CASE UNCHANGED vars
    BY <1>1 DEF vars, network, told, Truthful, Underway, Fates, OutcomeIsTrue
  <1> QED BY <1>1, TruthfulDevice, TruthfulClient, TruthfulRequest,
             TruthfulTarget DEF Next, Network

(* What the router is told of a command is true, whatever was lost and     *)
(* whoever gave up: an answered one was executed, one that is said not to  *)
(* have been sent was not.                                                 *)
THEOREM OutcomesAreTrue == Spec => []OutcomeIsTrue
  <1>1. Init => Truthful
    BY HasNothing DEF Init, Truthful, Underway, Fates, OutcomeIsTrue, Tasks
  <1>2. TypeOK /\ Truthful /\ [Next]_vars => Truthful'
    BY TruthfulStep
  <1>3. Truthful => OutcomeIsTrue
    BY DEF Truthful
  <1> QED BY <1>1, <1>2, <1>3, TypeCorrect, PTL DEF Spec

-----------------------------------------------------------------------------
(* While the connection is up, what is still to be received ends with the  *)
(* device's own state and leaves out none before it; and a snapshot that   *)
(* is not stale is the one just before.                                    *)

Before(s, t) ==
    s.boot < t.boot \/ (s.boot = t.boot /\ s.revision <= t.revision)

IsState(m) == m.what = "state"
OnAir(w, d, n) ==
    \E i \in DOMAIN w : w[i] = State([boot |-> d.boot, revision |-> n])

(* The states of w, sent since d.boot began, in order up to d.             *)
InOrder(w, d) ==
    /\ \A i \in DOMAIN w :
         IsState(w[i]) => /\ w[i].state.boot = d.boot
                          /\ w[i].state.revision <= d.revision
    /\ \A i, j \in DOMAIN w :
         i < j /\ IsState(w[i]) /\ IsState(w[j])
           => w[i].state.revision < w[j].state.revision

Complete(w, d) ==
    \A i \in DOMAIN w :
      IsState(w[i]) => \A n \in w[i].state.revision .. d.revision : OnAir(w, d, n)

Ahead(w, c) ==
    \A i \in DOMAIN w : IsState(w[i]) => c.revision < w[i].state.revision

Joined(w, c, d) == \A n \in c.revision + 1 .. d.revision : OnAir(w, d, n)

Past ==
    /\ Before(cache, device)
    /\ \A i \in DOMAIN wire :
         IsState(wire[i]) => Before(wire[i].state, device)

Stream ==
    link = "up" =>
      /\ InOrder(wire, device) /\ Complete(wire, device)
      /\ (cache.boot = device.boot => Ahead(wire, cache))
      /\ heard /\ known /\ ~stale /\ ~Closed /\ cache.boot = device.boot
           => Joined(wire, cache, device)

Kept == Past /\ Stream

LEMMA StateMessage ==
    /\ \A s : IsState(State(s)) /\ State(s).state = s
    /\ \A t : ~IsState(Accepted(t))
    /\ \A m \in Messages : IsState(m) => m.state \in States /\ m = State(m.state)
  BY DEF IsState, State, Accepted, Messages

LEMMA AppendParts ==
    ASSUME NEW w \in Seq(Messages), NEW m \in Messages
    PROVE  /\ Append(w, m) \in Seq(Messages)
           /\ DOMAIN Append(w, m) = DOMAIN w \union {Len(w) + 1}
           /\ Len(w) + 1 \notin DOMAIN w
           /\ Append(w, m)[Len(w) + 1] = m
           /\ \A i \in DOMAIN w : /\ i \in Nat /\ i < Len(w) + 1
                                  /\ Append(w, m)[i] = w[i]
  OBVIOUS

LEMMA TailParts ==
    ASSUME NEW w \in Seq(Messages), w # <<>>
    PROVE  /\ Tail(w) \in Seq(Messages) /\ Head(w) \in Messages
           /\ 1 \in DOMAIN w /\ Head(w) = w[1]
           /\ \A i \in DOMAIN Tail(w) :
                /\ i \in Nat /\ i >= 1
                /\ i + 1 \in DOMAIN w /\ Tail(w)[i] = w[i + 1]
           /\ \A i \in DOMAIN w : i # 1 => /\ i \in Nat /\ i - 1 \in DOMAIN Tail(w)
                                           /\ Tail(w)[i - 1] = w[i]
  OBVIOUS

(* The device answers, or sends something that is no state.                *)
LEMMA OtherAppended ==
    ASSUME NEW w \in Seq(Messages), NEW m \in Messages, ~IsState(m),
           NEW d \in States, NEW c \in States
    PROVE  /\ InOrder(w, d) => InOrder(Append(w, m), d)
           /\ Complete(w, d) => Complete(Append(w, m), d)
           /\ Ahead(w, c) => Ahead(Append(w, m), c)
           /\ Joined(w, c, d) => Joined(Append(w, m), c, d)
  <1> DEFINE v == Append(w, m)
             k == Len(w) + 1
  <1>1. /\ DOMAIN v = DOMAIN w \union {k} /\ ~IsState(v[k])
        /\ \A i \in DOMAIN w : v[i] = w[i]
    BY AppendParts
  <1> HIDE DEF v, k
  <1>2. \A n : OnAir(w, d, n) => OnAir(v, d, n)
    BY <1>1 DEF OnAir
  <1>3. InOrder(w, d) => InOrder(v, d)
    BY <1>1 DEF InOrder
  <1>4. Complete(w, d) => Complete(v, d)
    BY <1>1, <1>2 DEF Complete
  <1>5. Ahead(w, c) => Ahead(v, c)
    BY <1>1 DEF Ahead
  <1>6. Joined(w, c, d) => Joined(v, c, d)
    BY <1>2 DEF Joined
  <1> QED BY <1>3, <1>4, <1>5, <1>6 DEF v

(* The device sends the state it changes to.                               *)
LEMMA NextAppended ==
    ASSUME NEW w \in Seq(Messages), NEW d \in States, NEW c \in States,
           InOrder(w, d), Complete(w, d)
    PROVE  LET v == Append(w, State(Next1(d)))
           IN  /\ InOrder(v, Next1(d)) /\ Complete(v, Next1(d))
               /\ Ahead(w, c) /\ c.revision <= d.revision => Ahead(v, c)
               /\ Joined(w, c, d) => Joined(v, c, Next1(d))
  <1> DEFINE e == Next1(d)
             m == State(e)
             v == Append(w, m)
             k == Len(w) + 1
  <1>1. /\ d.boot \in Nat /\ d.revision \in Nat /\ c.revision \in Nat
        /\ e.boot = d.boot /\ e.revision = d.revision + 1
        /\ e \in States /\ e = [boot |-> e.boot, revision |-> e.revision]
    <2>1. d.boot \in Nat /\ d.revision \in Nat /\ c.revision \in Nat
          /\ e.boot = d.boot /\ e.revision = d.revision + 1
      BY DEF States, Next1
    <2>2. e \in States
      BY Next1Type
    <2>3. \A s \in States : s = [boot |-> s.boot, revision |-> s.revision]
      BY DEF States
    <2> HIDE DEF e
    <2> QED BY <2>1, <2>2, <2>3
  <1>2. m \in Messages /\ IsState(m) /\ m.state = e
    BY <1>1, StateMessage DEF Messages, State
  <1> HIDE DEF e
  <1>3. /\ DOMAIN v = DOMAIN w \union {k} /\ v[k] = m
        /\ \A i \in DOMAIN w : v[i] = w[i] /\ i < k /\ i \in Nat
        /\ k \in Nat /\ k \notin DOMAIN w
    BY <1>2, AppendParts
  <1>4. \A i \in DOMAIN w : IsState(w[i]) => w[i].state \in States
    BY StateMessage
  <1> HIDE DEF v, k
  <1>5. \A n : OnAir(w, d, n) => OnAir(v, e, n)
    BY <1>1, <1>3 DEF OnAir
  <1>6. OnAir(v, e, e.revision)
    BY <1>1, <1>3 DEF OnAir
  <1> HIDE DEF m
  <1>7. InOrder(v, e)
    <2>1. ASSUME NEW i \in DOMAIN v, IsState(v[i])
          PROVE  v[i].state.boot = e.boot /\ v[i].state.revision <= e.revision
      <3>1. CASE i = k
        BY <1>1, <1>2, <1>3, <3>1 DEF States
      <3>2. CASE i \in DOMAIN w
        BY <1>1, <1>3, <1>4, <2>1, <3>2 DEF InOrder, States
      <3> QED BY <1>3, <3>1, <3>2
    <2>2. ASSUME NEW i \in DOMAIN v, NEW j \in DOMAIN v, i < j,
                 IsState(v[i]), IsState(v[j])
          PROVE  v[i].state.revision < v[j].state.revision
      <3>1. i \in DOMAIN w
        BY <1>3, <2>2
      <3>2. CASE j = k
        BY <1>1, <1>2, <1>3, <1>4, <2>2, <3>1, <3>2 DEF InOrder, States
      <3>3. CASE j \in DOMAIN w
        BY <1>3, <2>2, <3>1, <3>3 DEF InOrder
      <3> QED BY <1>3, <3>2, <3>3
    <2> QED BY <2>1, <2>2 DEF InOrder
  <1>8. Complete(v, e)
    <2>1. ASSUME NEW i \in DOMAIN v, IsState(v[i]),
                 NEW n \in v[i].state.revision .. e.revision
          PROVE  OnAir(v, e, n)
      <3>1. CASE n = e.revision
        BY <1>6, <3>1
      <3>2. CASE n # e.revision
        <4>1. i \in DOMAIN w
          BY <1>1, <1>2, <1>3, <3>2
        <4>2. w[i].state.revision \in Nat
          BY <1>3, <1>4, <2>1, <4>1 DEF States
        <4>3. n \in w[i].state.revision .. d.revision
          <5>1. v[i] = w[i] /\ e.revision = d.revision + 1 /\ d.revision \in Nat
            BY <1>1, <1>3, <4>1
          <5> QED BY <3>2, <4>2, <5>1
        <4> QED BY <1>3, <1>5, <2>1, <4>1, <4>3 DEF Complete
      <3> QED BY <3>1, <3>2
    <2> QED BY <2>1 DEF Complete
  <1>9. Ahead(w, c) /\ c.revision <= d.revision => Ahead(v, c)
    BY <1>1, <1>2, <1>3 DEF Ahead
  <1>10. Joined(w, c, d) => Joined(v, c, e)
    BY <1>1, <1>5, <1>6 DEF Joined
  <1> QED BY <1>7, <1>8, <1>9, <1>10 DEF v, m, e

(* One message is received: what was behind it is still in order.          *)
LEMMA TailInOrder ==
    ASSUME NEW w \in Seq(Messages), w # <<>>, NEW d \in States,
           NEW c \in States, InOrder(w, d), Complete(w, d)
    PROVE  LET v == Tail(w)
               s == Head(w).state
           IN  /\ InOrder(v, d) /\ Complete(v, d)
               /\ Ahead(w, c) => Ahead(v, c)
               /\ ~IsState(Head(w)) /\ Joined(w, c, d) => Joined(v, c, d)
               /\ IsState(Head(w)) => Ahead(v, s) /\ Joined(v, s, d)
  <1> DEFINE v == Tail(w)
             s == Head(w).state
  <1>1. /\ v \in Seq(Messages) /\ Head(w) \in Messages
        /\ 1 \in DOMAIN w /\ Head(w) = w[1]
        /\ \A i \in DOMAIN v : /\ i \in Nat /\ i >= 1
                               /\ i + 1 \in DOMAIN w /\ v[i] = w[i + 1]
        /\ \A i \in DOMAIN w : i # 1 => /\ i - 1 \in DOMAIN v
                                        /\ v[i - 1] = w[i]
    BY TailParts
  <1>2. /\ \A i \in DOMAIN w : IsState(w[i]) => w[i].state \in States
        /\ IsState(Head(w)) => s \in States
    BY <1>1, StateMessage
  <1> HIDE DEF v, s
  <1>3. InOrder(v, d) /\ (Ahead(w, c) => Ahead(v, c))
    BY <1>1 DEF InOrder, Ahead
  <1>4. ASSUME NEW n, OnAir(w, d, n),
               ~IsState(Head(w)) \/ (IsState(Head(w)) /\ s.revision # n)
        PROVE  OnAir(v, d, n)
    <2>1. PICK i \in DOMAIN w : w[i] = State([boot |-> d.boot, revision |-> n])
      BY <1>4 DEF OnAir
    <2>2. IsState(w[i]) /\ w[i].state.revision = n
      BY <2>1, StateMessage
    <2>3. i # 1
      BY <1>1, <1>4, <2>2 DEF s
    <2> QED BY <1>1, <2>1, <2>3 DEF OnAir
  <1>5. IsState(Head(w)) => Ahead(v, s)
    BY <1>1, <1>2 DEF InOrder, Ahead, s
  <1>6. Complete(v, d)
    <2>1. ASSUME NEW i \in DOMAIN v, IsState(v[i]),
                 NEW n \in v[i].state.revision .. d.revision
          PROVE  OnAir(v, d, n)
      <3>1. OnAir(w, d, n)
        BY <1>1, <2>1 DEF Complete
      <3>2. IsState(Head(w)) => s.revision < v[i].state.revision
        BY <1>5, <2>1 DEF Ahead
      <3>3. v[i].state.revision \in Nat /\ (IsState(Head(w)) => s.revision \in Nat)
        BY <1>1, <1>2, <2>1 DEF States
      <3>4. n >= v[i].state.revision /\ n \in Int
        BY <3>3
      <3> QED BY <1>4, <3>1, <3>2, <3>3, <3>4
    <2> QED BY <2>1 DEF Complete
  <1>7. ~IsState(Head(w)) /\ Joined(w, c, d) => Joined(v, c, d)
    BY <1>4 DEF Joined
  <1>8. ASSUME IsState(Head(w)) PROVE Joined(v, s, d)
    <2>1. s \in States /\ d.revision \in Nat /\ s.revision \in Nat
      BY <1>2, <1>8 DEF States
    <2>2. ASSUME NEW n \in s.revision + 1 .. d.revision PROVE OnAir(v, d, n)
      <3>1. n \in s.revision .. d.revision /\ n # s.revision
        BY <2>1
      <3>2. OnAir(w, d, n)
        BY <1>1, <1>8, <3>1 DEF Complete, s
      <3> QED BY <1>4, <1>8, <3>1, <3>2
    <2> QED BY <2>2 DEF Joined
  <1> QED BY <1>3, <1>5, <1>6, <1>7, <1>8 DEF v, s

LEMMA BeforeNext ==
    ASSUME NEW d \in States, NEW s \in States, Before(s, d)
    PROVE  Before(s, Next1(d))
  BY DEF Before, States, Next1

(* Steps that neither move the device or the wire nor touch the snapshot,  *)
(* unless they make it stale or close the target.                          *)
LEMMA KeptQuiet ==
    ASSUME Kept, UNCHANGED <<device, link, wire, cache>>,
           heard' /\ known' /\ ~stale' /\ ~Closed'
             => heard /\ known /\ ~stale /\ ~Closed
    PROVE  Kept'
  BY DEF Kept, Past, Stream

(* Steps after which there is no connection, or nothing in it.             *)
LEMMA KeptBroken ==
    ASSUME Kept, UNCHANGED <<device, cache>>, wire' = <<>>,
           link' = "up" => ~heard'
    PROVE  Kept'
  BY DEF Kept, Past, Stream, InOrder, Complete, Ahead

LEMMA KeptDevice ==
    ASSUME TypeOK, Kept, Change \/ Serve
    PROVE  Kept'
  <1>0. /\ wire \in Seq(Messages) /\ device \in States /\ cache \in States
        /\ cache.revision \in Nat /\ device.revision \in Nat
        /\ Before(cache, device) /\ Before(cache, Next1(device))
        /\ Next1(device).boot = device.boot /\ State(Next1(device)) \in Messages
    <2>1. wire \in Seq(Messages) /\ device \in States /\ cache \in States
      BY DEF TypeOK
    <2>2. State(Next1(device)) \in Messages
      BY <2>1, Next1Type DEF State, Messages
    <2>3. Next1(device).boot = device.boot
      BY <2>1 DEF States, Next1
    <2> QED BY <2>1, <2>2, <2>3, BeforeNext DEF Kept, Past, States
  <1>1. /\ device' = Next1(device)
        /\ UNCHANGED <<link, heard, known, stale, phase, cache>>
    BY DEF Change, Serve, target, image, told
  <1>2. CASE link # "up"
    <2>1. wire' = wire
      BY <1>2 DEF Change, Serve
    <2>2. \A i \in DOMAIN wire : IsState(wire[i]) => wire[i].state \in States
      BY <1>0, StateMessage
    <2> QED BY <1>0, <1>1, <1>2, <2>1, <2>2, BeforeNext DEF Kept, Past, Stream
  <1>3. CASE link = "up"
    <2>1. PICK half \in Seq(Messages) :
            /\ InOrder(half, device) /\ Complete(half, device)
            /\ Ahead(wire, cache) => Ahead(half, cache)
            /\ Joined(wire, cache, device) => Joined(half, cache, device)
            /\ wire' = Append(half, State(Next1(device)))
      <3>1. InOrder(wire, device) /\ Complete(wire, device)
        BY <1>3 DEF Kept, Stream
      <3>2. CASE Change
        BY <1>0, <1>1, <1>3, <3>1, <3>2 DEF Change
      <3>3. CASE Serve
        <4> DEFINE m == Accepted(Head(inbox))
        <4>1. wire' = wire \o <<m, State(Next1(device))>> /\ inbox # <<>>
          BY <1>1, <3>3 DEF Serve
        <4>2. m \in Messages /\ ~IsState(m)
          <5>1. Head(inbox) \in Requests
            BY <4>1 DEF TypeOK
          <5> QED BY <5>1, StateMessage DEF Accepted, Messages
        <4> HIDE DEF m
        <4>3. /\ Append(wire, m) \in Seq(Messages)
              /\ wire' = Append(Append(wire, m), State(Next1(device)))
          BY <1>0, <4>1, <4>2
        <4> QED BY <1>0, <3>1, <4>2, <4>3, OtherAppended
      <3> QED BY <3>2, <3>3
    <2>2. /\ InOrder(wire', device') /\ Complete(wire', device')
          /\ Ahead(half, cache) /\ cache.revision <= device.revision
               => Ahead(wire', cache)
          /\ Joined(half, cache, device) => Joined(wire', cache, device')
      BY <1>0, <1>1, <2>1, NextAppended
    <2>3. device'.boot = device.boot /\ Before(cache', device')
      BY <1>0, <1>1
    <2>4. \A i \in DOMAIN wire' :
              IsState(wire'[i]) => Before(wire'[i].state, device')
      BY <2>2 DEF InOrder, Before
    <2>5. cache'.boot = device'.boot => Ahead(wire', cache')
      BY <1>0, <1>1, <1>3, <2>1, <2>2, <2>3 DEF Kept, Stream, Before, States
    <2>6. heard' /\ known' /\ ~stale' /\ ~Closed' /\ cache'.boot = device'.boot
            => Joined(wire', cache', device')
      BY <1>1, <1>3, <2>1, <2>2, <2>3 DEF Kept, Stream, Closed
    <2> QED BY <2>2, <2>3, <2>4, <2>5, <2>6 DEF Kept, Past, Stream
  <1> QED BY <1>2, <1>3

LEMMA KeptCut ==
    ASSUME TypeOK, Kept, Drop \/ Restart
    PROVE  Kept'
  <1>1. /\ link' = "broken" /\ cache' = cache
        /\ \E n \in 0 .. Len(wire) : wire' = SubSeq(wire, 1, n)
        /\ device' = device \/ device' = [boot |-> device.boot + 1, revision |-> 0]
    BY DEF Drop, Restart, Cut, target, image
  <1>2. \A s \in States : Before(s, device) => Before(s, device')
    BY <1>1 DEF Before, States, TypeOK
  <1>3. \A i \in DOMAIN wire' : i \in DOMAIN wire /\ wire'[i] = wire[i]
    BY <1>1 DEF TypeOK
  <1>4. \A i \in DOMAIN wire : IsState(wire[i]) => wire[i].state \in States
    BY StateMessage DEF TypeOK
  <1>5. Past'
    BY <1>1, <1>2, <1>3, <1>4 DEF Kept, Past, TypeOK
  <1> QED BY <1>1, <1>5 DEF Kept, Stream

LEMMA KeptForget ==
    ASSUME TypeOK, Kept, NEW t \in Tasks, RequestTimeout(t)
    PROVE  Kept'
  <1>1. /\ UNCHANGED <<device, link, cache, heard, known, stale, phase>>
        /\ wire' = [i \in DOMAIN wire |-> IF wire[i] = Accepted(t)
                                            THEN Accepted(Nobody) ELSE wire[i]]
    BY DEF RequestTimeout, Forget, target, image, told
  <1>2. DOMAIN wire' = DOMAIN wire
    BY <1>1
  <1>3. \A i \in DOMAIN wire : /\ IsState(wire[i]) <=> IsState(wire'[i])
                               /\ IsState(wire[i]) => wire'[i] = wire[i]
    BY <1>1, StateMessage
  <1>4. \A s : \A i \in DOMAIN wire : wire[i] = State(s) => wire'[i] = State(s)
    BY <1>1, <1>3, StateMessage
  <1>5. \A n : OnAir(wire, device, n) => OnAir(wire', device, n)
    BY <1>2, <1>4 DEF OnAir
  <1>6. Past'
    BY <1>1, <1>2, <1>3 DEF Kept, Past
  <1>7. CASE link = "up"
    <2>1. InOrder(wire', device)
      BY <1>2, <1>3, <1>7 DEF Kept, Stream, InOrder
    <2>2. Complete(wire', device)
      BY <1>2, <1>3, <1>5, <1>7 DEF Kept, Stream, Complete
    <2>3. Ahead(wire, cache) => Ahead(wire', cache)
      BY <1>2, <1>3 DEF Ahead
    <2>4. Joined(wire, cache, device) => Joined(wire', cache, device)
      BY <1>5 DEF Joined
    <2> QED BY <1>1, <1>6, <1>7, <2>1, <2>2, <2>3, <2>4 DEF Kept, Stream, Closed
  <1> QED BY <1>1, <1>6, <1>7 DEF Kept, Stream

LEMMA KeptAccepted ==
    ASSUME TypeOK, Kept, ReceiveAccepted
    PROVE  Kept'
  <1>1. /\ wire # <<>> /\ ~IsState(Head(wire)) /\ wire' = Tail(wire)
        /\ UNCHANGED <<device, link, cache, heard, known, stale, phase>>
    BY DEF ReceiveAccepted, IsState, target, image, told
  <1>2. wire \in Seq(Messages) /\ device \in States /\ cache \in States
    BY DEF TypeOK
  <1>3. Past'
    BY <1>1, <1>2, TailParts DEF Kept, Past
  <1>4. CASE link = "up"
    BY <1>1, <1>2, <1>3, <1>4, TailInOrder DEF Kept, Stream, Closed
  <1> QED BY <1>1, <1>3, <1>4 DEF Kept, Stream

(* A state is received: it is adopted, or the snapshot is stale after it,  *)
(* or it was older than the snapshot, which within one boot it never is.   *)
LEMMA KeptState ==
    ASSUME TypeOK, Kept, ReceiveState
    PROVE  Kept'
  <1> DEFINE s == Head(wire).state
  <1>1. /\ wire # <<>> /\ IsState(Head(wire)) /\ wire' = Tail(wire)
        /\ UNCHANGED <<device, link, phase>>
    BY DEF ReceiveState, IsState, target
  <1>2. wire \in Seq(Messages) /\ device \in States /\ cache \in States
    BY DEF TypeOK
  <1>3. /\ s \in States /\ Before(s, device)
        /\ \A i \in DOMAIN wire' : IsState(wire'[i]) => Before(wire'[i].state, device)
    BY <1>1, <1>2, TailParts, StateMessage DEF Kept, Past
  <1>4. \/ cache' = s
        \/ cache' = cache /\ stale'
        \/ cache' = cache /\ Closed'
        \/ cache' = cache /\ s.revision <= cache.revision
    BY <1>1 DEF ReceiveState, FirstState, Repair, Advance, Adopt, Closed, target,
                image
  <1>5. Past'
    BY <1>1, <1>3, <1>4 DEF Kept, Past
  <1>6. CASE link = "up"
    <2>1. /\ InOrder(wire', device) /\ Complete(wire', device)
          /\ Ahead(wire, cache) => Ahead(wire', cache)
          /\ Ahead(wire', s) /\ Joined(wire', s, device)
      BY <1>1, <1>2, <1>6, TailInOrder DEF Kept, Stream
    <2>2. cache.boot = device.boot => cache.revision < s.revision
      BY <1>1, <1>2, <1>6, TailParts DEF Kept, Stream, Ahead
    <2>3. cache.revision \in Nat /\ s.revision \in Nat
      BY <1>2, <1>3 DEF States
    <2> HIDE DEF s
    <2>4. cache'.boot = device.boot => Ahead(wire', cache')
      BY <1>4, <1>6, <2>1 DEF Kept, Stream
    <2>5. ~stale' /\ ~Closed' /\ cache'.boot = device.boot
            => Joined(wire', cache', device)
      BY <1>4, <2>1, <2>2, <2>3
    <2> QED BY <1>1, <1>5, <2>1, <2>4, <2>5 DEF Kept, Stream
  <1> QED BY <1>1, <1>5, <1>6 DEF Kept, Stream

LEMMA KeptTarget ==
    ASSUME Kept,
           Start \/ Starting \/ StartTimeout \/ Command \/ CommandEnds
             \/ Resync \/ BeginClose \/ CancelTasks
    PROVE  Kept'
  <1> USE DEF network, image, told, target, Closed
  <1>1. CASE Start \/ Starting \/ StartTimeout
    <2>1. UNCHANGED <<device, link, wire, cache, heard, known, stale>>
      BY <1>1 DEF Start, Starting, StartAnswered, Started, StartTimeout
    <2>2. ~Closed' => ~Closed
      BY <1>1 DEF Start, Starting, StartAnswered, Started, StartTimeout
    <2> QED BY <2>1, <2>2, KeptQuiet
  <1>2. CASE Command \/ CommandEnds
    <2>1. UNCHANGED <<device, link, wire, cache, heard, known, phase>>
      BY <1>2 DEF Command, CommandEnds
    <2>2. ~stale' => ~stale
      BY <1>2 DEF Command, CommandEnds
    <2> QED BY <2>1, <2>2, KeptQuiet
  <1>3. CASE Resync
    <2>1. UNCHANGED <<device, link, wire, cache, heard, known, phase, stale>>
      BY <1>3 DEF Resync, ResyncBegins, ResyncAnswered, ResyncListened,
                  ResyncRested, ResyncOnly
    <2> QED BY <2>1, KeptQuiet
  <1>4. CASE BeginClose \/ CancelTasks
    <2>1. UNCHANGED <<device, link, wire, cache, heard, known, stale>> /\ Closed'
      BY <1>4 DEF BeginClose, CancelTasks
    <2> QED BY <2>1, KeptQuiet
  <1> QED BY <1>1, <1>2, <1>3, <1>4

LEMMA KeptStep ==
    ASSUME TypeOK, Kept, [Next]_vars PROVE Kept'
  <1>1. CASE UNCHANGED vars
    BY <1>1, KeptQuiet DEF vars, network, image, told, target, Closed
  <1>2. CASE Connect
    BY <1>2, KeptBroken DEF Connect, target, image
  <1>3. CASE Disconnect
    <2>1. wire' = <<>> /\ link' = "down" /\ UNCHANGED <<device, cache>>
      BY <1>3 DEF Disconnect, target, image
    <2> QED BY <2>1, KeptBroken
  <1>4. CASE CloseClient
    <2>1. wire' = <<>> /\ link' = "down" /\ UNCHANGED <<device, cache>>
      BY <1>4 DEF CloseClient, image
    <2> QED BY <2>1, KeptBroken
  <1>5. ASSUME NEW t \in Tasks, Request(t) PROVE Kept'
    <2>1. UNCHANGED <<device, link, wire, cache, heard, known, stale, phase>>
      BY <1>5 DEF Request, Send, ConnectTimeout, network, target, image, told
    <2> QED BY <2>1, KeptQuiet DEF Closed
  <1> QED BY <1>1, <1>2, <1>3, <1>4, <1>5, KeptDevice, KeptCut, KeptForget,
             KeptAccepted, KeptState, KeptTarget DEF Next, Network, Close

(* A snapshot reported as ready, once the device has been heard on this    *)
(* connection and all it said was received, is the device's own state:     *)
(* no gap is overlooked, whatever was lost, repaired or restarted.         *)
THEOREM WhatIsHeardIsKept == Spec => []HeardIsKept
  <1>1. Init => Kept
    BY DEF Init, Kept, Past, Stream, Before
  <1>2. TypeOK /\ Kept /\ [Next]_vars => Kept'
    BY KeptStep
  <1>3. TypeOK /\ Watched /\ Kept => HeardIsKept
    <2> SUFFICES ASSUME TypeOK, Watched, Kept, phase = "open", ~stale,
                        link = "up", heard, wire = <<>>,
                        cache.boot = device.boot
                 PROVE  cache = device
      BY DEF HeardIsKept, Reported, Closed
    <2>1. Joined(<<>>, cache, device)
      BY DEF Watched, Kept, Stream, Closed
    <2>2. \A n : ~OnAir(<<>>, device, n)
      BY DEF OnAir
    <2>3. /\ cache.revision \in Nat /\ device.revision \in Nat
          /\ cache.revision <= device.revision
      BY DEF TypeOK, States, Kept, Past, Before
    <2>4. ~(cache.revision < device.revision)
      BY <2>1, <2>2, <2>3 DEF Joined
    <2>5. cache.revision = device.revision
      BY <2>3, <2>4
    <2> QED BY <2>5 DEF TypeOK, States
  <1> QED BY <1>1, <1>2, <1>3, TypeCorrect, WatchedInit, WatchedStep, PTL DEF Spec

-----------------------------------------------------------------------------
(* A closed target has no connection and makes none: nothing is on its way *)
(* to it or from it, and no request of it waits for an answer.             *)
ClosedIsCut ==
    phase = "closed" =>
        /\ link = "down" /\ inbox = <<>> /\ wire = <<>>
        /\ \A t \in Tasks : request[t] # "pending"

LEMMA CutStep ==
    ASSUME TypeOK, ClosedIsCut, [Next]_vars
    PROVE  ClosedIsCut'
  <1> USE DEF ClosedIsCut, network, image, retry, target, told
  <1>1. CASE UNCHANGED vars
    BY <1>1 DEF vars
  <1>2. CASE Change \/ Drop \/ Restart \/ Serve
    BY <1>2 DEF Change, Drop, Restart, Serve, Cut
  <1>3. CASE Connect \/ Disconnect \/ ReceiveAccepted
    BY <1>3 DEF Connect, Disconnect, ReceiveAccepted
  <1>4. ASSUME NEW t \in Tasks, Request(t) \/ RequestTimeout(t)
        PROVE  ClosedIsCut'
    BY <1>4 DEF Request, Send, ConnectTimeout, RequestTimeout, TypeOK
  <1>5. CASE ReceiveState
    BY <1>5 DEF ReceiveState
  <1>6. CASE Start \/ Starting \/ StartTimeout
    BY <1>6 DEF Start, Starting, StartAnswered, Started, StartTimeout
  <1>7. CASE Command \/ CommandEnds
    BY <1>7 DEF Command, CommandEnds, TypeOK, Ended, Failures
  <1>8. CASE Resync
    BY <1>8 DEF Resync, ResyncBegins, ResyncAnswered, ResyncListened, ResyncRested,
                ResyncOnly, Closed, TypeOK
  <1>9. CASE BeginClose \/ CancelTasks
    BY <1>9 DEF BeginClose, CancelTasks
  <1>10. CASE CloseClient
    <2>1. /\ link' = "down" /\ inbox' = <<>> /\ wire' = <<>>
          /\ \E late \in SUBSET {t \in Tasks : request[t] = "connecting"} :
               request' = [t \in Tasks |->
                             IF request[t] = "pending" THEN "closed"
                             ELSE IF t \in late THEN "connection_error"
                             ELSE request[t]]
      BY <1>10 DEF CloseClient, FailPending
    <2> QED BY <2>1
  <1> QED BY <1>1, <1>2, <1>3, <1>4, <1>5, <1>6, <1>7, <1>8, <1>9, <1>10
          DEF Next, Network, Close

(* Whenever the target is closed, whatever its tasks were waiting for, it  *)
(* is cut off: DeviceClient.close fails every request that waits, and      *)
(* neither the client nor a task that was about to ask connects again.     *)
THEOREM ClosedTargetsAreCut == Spec => []ClosedIsCut
  <1>1. Init => ClosedIsCut
    BY DEF Init, ClosedIsCut
  <1> QED BY <1>1, TypeCorrect, CutStep, PTL DEF Spec

(* A closed target that has come to rest stays at rest: no late message,   *)
(* timeout or task moves it again.  That every closed target comes to rest *)
(* is the other half of CloseIsFinal, which is TLC's.                      *)
THEOREM RestIsFinal == Spec => [](AtRest => []AtRest)
  <1>1. TypeOK /\ AtRest /\ [Next]_vars => AtRest'
    <2> SUFFICES ASSUME TypeOK, AtRest, [Next]_vars
                 PROVE  AtRest'
      OBVIOUS
    <2> USE DEF AtRest, network, image, retry, target, told
    <2>1. CASE UNCHANGED vars
      BY <2>1 DEF vars
    <2>2. CASE Change \/ Drop \/ Restart \/ Serve
      BY <2>2 DEF Change, Drop, Restart, Serve
    <2>3. CASE Connect \/ Disconnect \/ ReceiveAccepted
      BY <2>3 DEF Connect, Disconnect, ReceiveAccepted
    <2>4. ASSUME NEW t \in Tasks, Request(t) \/ RequestTimeout(t)
          PROVE  FALSE
      BY <2>4 DEF Request, Send, ConnectTimeout, RequestTimeout
    <2>5. CASE ReceiveState
      BY <2>5 DEF ReceiveState, Closed
    <2>6. CASE Start \/ Starting \/ StartTimeout \/ Command
      BY <2>6 DEF Start, Starting, StartAnswered, Started, StartTimeout, Command
    <2>7. CASE CommandEnds \/ Resync
      BY <2>7 DEF CommandEnds, Resync, ResyncBegins, ResyncAnswered, ResyncListened,
                  ResyncRested, Tasks, Ended, Failures
    <2>8. CASE BeginClose \/ Close
      BY <2>8 DEF BeginClose, Close, CancelTasks, CloseClient, Closed
    <2> QED BY <2>1, <2>2, <2>3, <2>4, <2>5, <2>6, <2>7, <2>8 DEF Next, Network
  <1> QED BY <1>1, TypeCorrect, PTL DEF Spec
=============================================================================
