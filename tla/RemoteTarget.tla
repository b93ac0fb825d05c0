---------------------------- MODULE RemoteTarget -----------------------------
(***************************************************************************)
(* RemoteTarget (lefly_simulator/target.py) over a DeviceClient            *)
(* (lefly_sdk/client.py): the cached snapshot of a remote device, how it   *)
(* becomes stale, and the task that has it repaired, over a connection     *)
(* that may be lost at any time and a device that may restart.             *)
(*                                                                         *)
(* Three tasks make requests: start, a command passed on by the router,    *)
(* and the resynchronisation.  A request fails in the client and is heard  *)
(* of by its task in a later step.  A device answers a request with        *)
(* command.accepted and a state of the next revision, as the simulator's   *)
(* engine does; only the position of a state in time matters here: the     *)
(* boot it belongs to and its revision.                                    *)
(***************************************************************************)
EXTENDS Integers, Sequences

CONSTANTS
    MaxChanges,   \* bound: states the device publishes by itself
    MaxDrops,     \* bound: connections lost
    MaxRestarts,  \* bound: restarts of the device
    MaxCommands,  \* bound: commands of the router
    MaxTimeouts,  \* bound: timeouts of requests that are still in flight
    MayClose      \* whether close() is called at all

ASSUME RemoteAssumption ==
    /\ MaxChanges \in Nat /\ MaxDrops \in Nat /\ MaxRestarts \in Nat
    /\ MaxCommands \in Nat /\ MaxTimeouts \in Nat
    /\ MayClose \in BOOLEAN

VARIABLES
    device,       \* the device's current state, in time
    link,         \* down, up, or broken: lost, and not yet noticed
    inbox,        \* requests on their way to the device
    wire,         \* messages on their way to the client
    request,      \* DeviceClient.request of each task
    phase,        \* of the target: new ... open, closing ... closed
    known,        \* _snapshot_ready.is_set()
    cache,        \* _latest_snapshot
    stale,        \* _snapshot_stale
    floor,        \* _recovery_floor, or None
    resync,       \* where the resynchronisation task stands
    resyncReady,  \* _resync_ready.is_set()
    heard,        \* a state has been received since the client connected
    executed,     \* the device has executed the last command
    outcome,      \* what the router was told of it
    budget        \* what the bounds still allow

network == <<device, link, inbox, wire>>
image == <<known, cache, stale, floor>>
retry == <<resync, resyncReady>>
target == <<phase, image, retry>>
told == <<heard, executed, outcome>>
vars == <<network, request, target, told, budget>>

Tasks == {"start", "command", "resync"}
Nobody == "nobody"
None == -1

States == [boot : Nat, revision : Nat]
Failures == {"disconnected", "unknown", "timeout", "connection_error", "closed"}
Ended == {"answered"} \union Failures
Bounded == {"changes", "drops", "restarts", "commands", "timeouts"}

Standings == {"none", "connecting", "pending"} \union Ended
Requests == Tasks \union {Nobody}
Messages == [what : {"accepted"}, task : Requests]
              \union [what : {"state"}, state : States]

Accepted(task) == [what |-> "accepted", task |-> task]
State(s) == [what |-> "state", state |-> s]

Closed == phase \in {"closing", "detached", "closed"}

Init ==
    /\ device = [boot |-> 0, revision |-> 0]
    /\ link = "down" /\ inbox = <<>> /\ wire = <<>>
    /\ request = [t \in Tasks |-> "none"]
    /\ phase = "new" /\ known = FALSE
    /\ cache = [boot |-> 0, revision |-> 0]
    /\ stale = TRUE /\ floor = None
    /\ resync = "none" /\ resyncReady = FALSE
    /\ heard = FALSE /\ executed = FALSE /\ outcome = "none"
    /\ budget = [b \in Bounded |->
                   CASE b = "changes"  -> MaxChanges
                     [] b = "drops"    -> MaxDrops
                     [] b = "restarts" -> MaxRestarts
                     [] b = "commands" -> MaxCommands
                     [] b = "timeouts" -> MaxTimeouts]

Spend(what) ==
    /\ budget[what] > 0
    /\ budget' = [budget EXCEPT ![what] = @ - 1]

-----------------------------------------------------------------------------
(* The device and the network                                              *)

Next1(s) == [s EXCEPT !.revision = @ + 1]

(* The device changes by itself; it tells whoever is connected.            *)
Change ==
    /\ Spend("changes")
    /\ device' = Next1(device)
    /\ wire' = IF link = "up" THEN Append(wire, State(device')) ELSE wire
    /\ UNCHANGED <<link, inbox, request, target, told>>

Serve ==
    /\ link = "up" /\ inbox # <<>>
    /\ device' = Next1(device)
    /\ wire' = wire \o <<Accepted(Head(inbox)), State(device')>>
    /\ inbox' = Tail(inbox)
    /\ executed' = (executed \/ Head(inbox) = "command")
    /\ UNCHANGED <<link, request, target, heard, outcome, budget>>

(* What was sent last is lost, in both directions.                         *)
Cut ==
    /\ link' = "broken"
    /\ inbox' = <<>>
    /\ \E n \in 0 .. Len(wire) : wire' = SubSeq(wire, 1, n)
    /\ UNCHANGED <<request, target, told>>

Drop == link = "up" /\ Spend("drops") /\ Cut /\ UNCHANGED device

(* A restarted device counts its revisions from zero.                      *)
Restart ==
    /\ link = "up" /\ Spend("restarts") /\ Cut
    /\ device' = [boot |-> device.boot + 1, revision |-> 0]

-----------------------------------------------------------------------------
(* DeviceClient                                                            *)

(* _run connects; whoever was to be told of the last disconnection has     *)
(* been, for the client waits reconnect_delay.                             *)
Connect ==
    /\ link = "down" /\ phase \notin {"new", "closed"}
    /\ \A t \in Tasks : request[t] \notin {"unknown", "connection_error"}
    /\ link' = "up" /\ inbox' = <<>> /\ wire' = <<>>
    /\ heard' = FALSE
    /\ UNCHANGED <<device, request, target, executed, outcome, budget>>

(* request, once connected: on a broken connection the message vanishes or *)
(* the transport raises ConnectionError, which nobody translates.          *)
Send(t) ==
    /\ request[t] = "connecting" /\ link # "down"
    /\ \/ /\ request' = [request EXCEPT ![t] = "pending"]
          /\ inbox' = IF link = "up" THEN Append(inbox, t) ELSE inbox
       \/ /\ link = "broken"
          /\ request' = [request EXCEPT ![t] = "connection_error"]
          /\ UNCHANGED inbox
    /\ UNCHANGED <<device, link, wire, target, told, budget>>

ConnectTimeout(t) ==
    /\ request[t] = "connecting" /\ link = "down"
    /\ request' = [request EXCEPT ![t] = "disconnected"]
    /\ UNCHANGED <<network, target, told, budget>>

(* An answer to a request given up is nobody's: message ids are unique.    *)
Forget(t) ==
    /\ inbox' = [i \in DOMAIN inbox |-> IF inbox[i] = t THEN Nobody ELSE inbox[i]]
    /\ wire' = [i \in DOMAIN wire |->
                  IF wire[i] = Accepted(t) THEN Accepted(Nobody) ELSE wire[i]]

RequestTimeout(t) ==
    /\ request[t] = "pending" /\ Spend("timeouts")
    /\ request' = [request EXCEPT ![t] = "timeout"]
    /\ Forget(t)
    /\ UNCHANGED <<device, link, target, told>>

(* Mutant: the callers of pending requests are forgotten.                  *)
FailNobody(failure) == UNCHANGED request

(* There is no transport any more: every pending request fails, and a task *)
(* that waited for a connection, and had not resumed while there was one,  *)
(* finds none.                                                             *)
FailPending(failure) ==
    \E late \in SUBSET {t \in Tasks : request[t] = "connecting"} :
      request' = [t \in Tasks |->
                    IF request[t] = "pending" THEN failure
                    ELSE IF t \in late THEN "connection_error"
                    ELSE request[t]]

(* Mutant: a lost connection is reported as if nothing had been sent.      *)
DisconnectUnsent ==
    /\ link = "broken" /\ wire = <<>>
    /\ link' = "down"
    /\ FailPending("disconnected")
    /\ UNCHANGED <<device, inbox, wire, target, told, budget>>

(* _run notices that the connection is lost.                               *)
Disconnect ==
    /\ link = "broken" /\ wire = <<>>
    /\ link' = "down"
    /\ FailPending("unknown")
    /\ UNCHANGED <<device, inbox, wire, target, told, budget>>

ReceiveAccepted ==
    /\ wire # <<>> /\ Head(wire).what = "accepted"
    /\ wire' = Tail(wire)
    /\ request' = [t \in Tasks |->
                     IF Head(wire) = Accepted(t) /\ request[t] = "pending"
                       THEN "answered" ELSE request[t]]
    /\ UNCHANGED <<device, link, inbox, target, told, budget>>

-----------------------------------------------------------------------------
(* RemoteTarget._on_event, for a valid state                               *)

(* Mutant: the snapshot becomes stale and nobody is asked to repair it.    *)
EnsureNothing == UNCHANGED resync

EnsureResync ==
    resync' = IF ~Closed /\ resync = "none" THEN "begin" ELSE resync

(* Mutant: a floor outlives the gap it was raised for.                     *)
AdoptUnderFloor(s) ==
    /\ cache' = s /\ stale' = FALSE /\ UNCHANGED floor

Adopt(s) ==
    /\ cache' = s /\ stale' = FALSE /\ floor' = None

(* The first state the target hears.                                       *)
FirstState(s) ==
    /\ ~known /\ known' = TRUE
    /\ Adopt(s)
    /\ UNCHANGED retry

(* A stale snapshot is replaced by any state not below the floor.          *)
Repair(s) ==
    /\ known /\ stale
    /\ IF floor # None /\ s.revision < floor
         THEN /\ EnsureResync
              /\ UNCHANGED <<cache, stale, floor, resyncReady>>
         ELSE /\ Adopt(s)
              /\ resyncReady' = TRUE
              /\ UNCHANGED resync
    /\ UNCHANGED known

(* Mutant: a gap is overlooked.                                            *)
AdvanceAcrossGaps(s) ==
    /\ known /\ ~stale
    /\ \/ s.revision = cache.revision + 1 /\ Adopt(s) /\ UNCHANGED known
       \/ s.revision # cache.revision + 1 /\ UNCHANGED image
    /\ UNCHANGED retry

(* A fresh one only by its successor; a gap makes it stale.                *)
Advance(s) ==
    /\ known /\ ~stale
    /\ \/ s.revision <= cache.revision /\ UNCHANGED <<cache, stale, floor, retry>>
       \/ /\ s.revision > cache.revision + 1
          /\ stale' = TRUE /\ floor' = s.revision /\ resyncReady' = FALSE
          /\ EnsureResync
          /\ UNCHANGED cache
       \/ s.revision = cache.revision + 1 /\ Adopt(s) /\ UNCHANGED retry
    /\ UNCHANGED known

ReceiveState ==
    /\ wire # <<>> /\ Head(wire).what = "state"
    /\ wire' = Tail(wire)
    /\ heard' = TRUE
    /\ IF Closed
         THEN UNCHANGED target
         ELSE /\ \/ FirstState(Head(wire).state)
                 \/ Repair(Head(wire).state)
                 \/ Advance(Head(wire).state)
              /\ UNCHANGED phase
    /\ UNCHANGED <<device, link, inbox, request, executed, outcome, budget>>

-----------------------------------------------------------------------------
(* start                                                                   *)

Start ==
    /\ phase = "new"
    /\ phase' = "starting"
    /\ request' = [request EXCEPT !["start"] = "connecting"]
    /\ UNCHANGED <<network, image, retry, told, budget>>

(* Answered, it waits for the first state; failed, the target is closed.   *)
StartAnswered ==
    /\ phase = "starting" /\ request["start"] \in Ended
    /\ phase' = IF request["start"] = "answered" THEN "listening" ELSE "detached"
    /\ request' = [request EXCEPT !["start"] = "none"]
    /\ UNCHANGED <<network, image, retry, told, budget>>

Started ==
    /\ phase = "listening" /\ known
    /\ phase' = "open"
    /\ UNCHANGED <<network, request, image, retry, told, budget>>

(* The state has not come in time.                                         *)
StartTimeout ==
    /\ phase = "listening" /\ Spend("timeouts")
    /\ phase' = "detached"
    /\ UNCHANGED <<network, request, image, retry, told>>

-----------------------------------------------------------------------------
(* command                                                                 *)

Command ==
    /\ phase = "open" /\ request["command"] = "none" /\ Spend("commands")
    /\ request' = [request EXCEPT !["command"] = "connecting"]
    /\ executed' = FALSE /\ outcome' = "none"
    /\ UNCHANGED <<network, target, heard>>

(* A DeviceDisconnectedError (CommandOutcomeUnknownError is one) makes the *)
(* snapshot stale; no other outcome does.                                  *)
CommandEnds ==
    /\ request["command"] \in Ended
    /\ request' = [request EXCEPT !["command"] = "none"]
    /\ outcome' = request["command"]
    /\ IF request["command"] \in {"disconnected", "unknown"}
         THEN /\ stale' = TRUE /\ floor' = None /\ resyncReady' = FALSE
              /\ EnsureResync
         ELSE UNCHANGED <<stale, floor, resyncReady, resync>>
    /\ UNCHANGED <<network, phase, known, cache, heard, executed, budget>>

-----------------------------------------------------------------------------
(* _resync_state                                                           *)

ResyncOnly == UNCHANGED <<network, phase, image, told>>

ResyncBegins ==
    /\ resync = "begin"
    /\ IF stale /\ ~Closed
         THEN /\ resync' = "asking" /\ resyncReady' = FALSE
              /\ request' = [request EXCEPT !["resync"] = "connecting"]
         ELSE resync' = "none" /\ UNCHANGED <<resyncReady, request>>
    /\ ResyncOnly /\ UNCHANGED budget

(* Mutant: one attempt, and no retry.                                      *)
UnlessFailed(next) == "none"

(* The task is done once the snapshot is not stale.                        *)
Unless(next) == IF stale /\ ~Closed THEN next ELSE "none"

ResyncAnswered ==
    /\ resync = "asking" /\ request["resync"] \in Ended
    /\ request' = [request EXCEPT !["resync"] = "none"]
    /\ resync' = IF request["resync"] = "answered"
                   THEN IF stale THEN "listening" ELSE "none"
                   ELSE Unless("resting")
    /\ ResyncOnly /\ UNCHANGED <<resyncReady, budget>>

(* A timeout that comes while a state may be on its way is a bounded one.  *)
ResyncListened ==
    /\ resync = "listening"
    /\ \/ resyncReady /\ UNCHANGED budget
       \/ wire = <<>> /\ inbox = <<>> /\ UNCHANGED budget
       \/ Spend("timeouts")
    /\ resync' = Unless("resting")
    /\ ResyncOnly /\ UNCHANGED <<request, resyncReady>>

(* The delay ends, or a state ends it early; either way round the loop.    *)
ResyncRested ==
    /\ resync = "resting"
    /\ resync' = IF resyncReady /\ ~stale THEN "none" ELSE "begin"
    /\ ResyncOnly /\ UNCHANGED <<request, resyncReady, budget>>

-----------------------------------------------------------------------------
(* close                                                                   *)

(* After a start that failed there is nothing left to close.               *)
BeginClose ==
    /\ MayClose /\ ~Closed
    /\ phase' = "closing"
    /\ UNCHANGED <<network, request, image, retry, told, budget>>

(* _close_core cancels start and the resynchronisation and detaches.       *)
CancelTasks ==
    /\ phase = "closing"
    /\ phase' = "detached"
    /\ resync' = "none"
    /\ request' = [request EXCEPT !["start"] = "none", !["resync"] = "none"]
    /\ UNCHANGED <<network, image, resyncReady, told, budget>>

(* DeviceClient.close                                                      *)
CloseClient ==
    /\ phase = "detached"
    /\ phase' = "closed"
    /\ link' = "down" /\ inbox' = <<>> /\ wire' = <<>>
    /\ FailPending("closed")
    /\ UNCHANGED <<device, image, retry, told, budget>>

-----------------------------------------------------------------------------
Network == Serve \/ Connect \/ Disconnect \/ ReceiveAccepted \/ ReceiveState
Request(t) == Send(t) \/ ConnectTimeout(t)
Starting == StartAnswered \/ Started
Resync == ResyncBegins \/ ResyncAnswered \/ ResyncListened \/ ResyncRested
Close == CancelTasks \/ CloseClient

Next ==
    \/ Change \/ Drop \/ Restart
    \/ Network
    \/ \E t \in Tasks : Request(t) \/ RequestTimeout(t)
    \/ Start \/ Starting \/ StartTimeout
    \/ Command \/ CommandEnds
    \/ Resync
    \/ BeginClose \/ Close

Spec == Init /\ [][Next]_vars

(* The device can be reached again and answers; tasks that can go on do.   *)
FairSpec ==
    /\ Spec
    /\ WF_vars(Network) /\ WF_vars(Starting) /\ WF_vars(Resync)
    /\ WF_vars(CommandEnds) /\ WF_vars(Close)
    /\ \A t \in Tasks : WF_vars(Request(t))

-----------------------------------------------------------------------------
(* Every variable keeps its type, and a recovery floor outlives no gap.    *)
TypeOK ==
    /\ device \in States
    /\ link \in {"down", "up", "broken"}
    /\ inbox \in Seq(Requests)
    /\ wire \in Seq(Messages)
    /\ request \in [Tasks -> Standings]
    /\ phase \in {"new", "starting", "listening", "open",
                  "closing", "detached", "closed"}
    /\ known \in BOOLEAN
    /\ cache \in States
    /\ stale \in BOOLEAN
    /\ floor \in Nat \union {None} /\ (floor # None => stale)
    /\ resync \in {"none", "begin", "asking", "listening", "resting"}
    /\ resyncReady \in BOOLEAN
    /\ heard \in BOOLEAN /\ executed \in BOOLEAN
    /\ outcome \in {"none"} \union Ended
    /\ budget \in [Bounded -> Nat]

(* RemoteTarget.snapshot: the connection it reports.                       *)
Reported == IF Closed \/ link = "down" THEN "offline"
            ELSE IF stale THEN "degraded" ELSE "ready"

(* A stale snapshot of an open target always has a resynchronisation task  *)
(* at work on it: _ensure_resync is never skipped because of a task that   *)
(* was about to end.                                                       *)
StaleIsWatched == phase = "open" /\ stale => resync # "none"

(* Once the device has been heard on this connection, and all it said has  *)
(* been received, a snapshot reported as ready is the device's own.  Its   *)
(* revision is compared within one boot of the device only: see README.    *)
HeardIsKept ==
    (phase = "open" /\ Reported = "ready" /\ link = "up" /\ heard
       /\ wire = <<>> /\ cache.boot = device.boot)
    => cache = device

(* What the router is told of a command is true: of one that was answered, *)
(* that it was executed, and of one that could not be sent, that it was    *)
(* not.  About the others nothing is claimed.                              *)
OutcomeIsTrue ==
    /\ outcome = "answered" => executed
    /\ outcome \in {"disconnected", "connection_error"} => ~executed

(* A stale snapshot is repaired in the end, whatever was lost meanwhile.   *)
StaleIsRepaired == (phase = "open" /\ stale) ~> (~stale \/ Closed)

(* Nobody waits for an answer, nothing is retried, and nothing connects.   *)
AtRest ==
    /\ phase = "closed" /\ link = "down" /\ resync = "none"
    /\ \A t \in Tasks : request[t] = "none"

(* Once the target begins to close everything comes to rest, for good.     *)
CloseIsFinal == Closed ~> []AtRest

=============================================================================
