----------------------------- MODULE ConsolePage -----------------------------
(***************************************************************************)
(* One browser page of the LeFly console: ConsoleSocket (packages/         *)
(* lefly-console-web/src/api/consoleSocket.ts) and App (src/app/App.tsx)   *)
(* around the store of ConsoleStore, and the gateway it talks to.          *)
(*                                                                         *)
(* The socket keeps an epoch and a revision of its own, to find gaps, and  *)
(* the store another pair, to refuse what is old.  A connection that is    *)
(* retired (a gap, connect, close) is closed by the page, and the browser  *)
(* may still have messages of it to deliver; one that is lost delivers     *)
(* nothing more.  React renders, and runs the effects of, a dispatched     *)
(* action before the next message or click.                                *)
(***************************************************************************)
EXTENDS ConsoleStore, SequencesExt

CONSTANTS
    Rests,         \* the motion commands that are a device.rest
    MaxRevision,   \* bound: revisions of a target
    MaxEpoch,      \* bound: target selections
    MaxFaults,     \* bound: losses, gaps, restarts, reloads, takeovers, and
                   \* rests and shutdowns of the device
    MaxInFlight,   \* bound: messages on their way when another one is caused
    RemoteEpochs,  \* selections of a remote device, not of the simulator
    MayReset       \* whether a device may restart and count from zero again

ASSUME PageAssumption ==
    /\ Rests \subseteq Motions
    /\ MaxRevision \in Nat \ {0}
    /\ MaxEpoch \in Nat \ {0}
    /\ MaxFaults \in Nat
    /\ MaxInFlight \in Nat \ {0}
    /\ RemoteEpochs \subseteq 1 .. MaxEpoch
    /\ MayReset \in BOOLEAN

VARIABLES
    mounted,   \* the effect of App that connects is mounted: not stopped
    sock,      \* socket: "none", "opening" (readyState CONNECTING), "open"
    timer,     \* reconnectTimer is set
    observed,  \* observedEpoch and observedRevision
    store,     \* the page's store
    renew,     \* the timer of App that renews the lease is set
    asked,     \* pendingRemoteMove: the move the dialog asks about, its epoch
    up,        \* messages on their way to the gateway
    down,      \* messages on their way to the page
    late,      \* a message of the last retired socket, still with the browser
    routed,    \* events the router forwards, and the hub has not sent yet
    lease,     \* the gateway's lease: "mine", "other" or "free"
    device,    \* the router's epoch and state; missed: revisions it has not
               \* heard and cannot take from the target yet; rest: the
               \* device.rest of another client; off: it has shut down
    job,       \* what became of each command at the device, and whether the
               \* request for it failed although it was accepted: unheard
    faults     \* faults that happened

pageVars == <<mounted, sock, timer, observed, store, renew, asked>>
wireVars == <<up, down, late>>
serverVars == <<routed, lease, device, job>>
vars == <<pageVars, wireVars, serverVars, faults>>

NoObservation == [epoch |-> 0, rev |-> -1]
NoMove == [of |-> {}, epoch |-> 0]

FirstDevice == [epoch |-> 1, rev |-> 0, busy |-> FALSE, missed |-> 0,
                rest |-> "none", off |-> FALSE]

IsRemote(epoch) == epoch \in RemoteEpochs

Init ==
    /\ mounted = FALSE /\ sock = "none" /\ timer = FALSE
    /\ observed = NoObservation
    /\ store = InitialStore
    /\ renew = FALSE /\ asked = NoMove
    /\ up = <<>> /\ down = <<>> /\ late = <<>>
    /\ routed = <<>> /\ lease \in {"free", "other"}
    /\ device = FirstDevice
    /\ job = [c \in Commands |-> [at |-> "new", unheard |-> FALSE]]
    /\ faults = 0

DeviceState == [rev |-> device.rev, busy |-> device.busy]

Fault == faults < MaxFaults /\ faults' = faults + 1

Quiet == Len(up) + Len(routed) + Len(down) < MaxInFlight

-----------------------------------------------------------------------------
(* App: what follows from a new store                                      *)

(* Mutant: the renewal is armed only when control is gained.               *)
RenewArmedOnce(s, newLease) ==
    IF s.role = "controller" THEN renew \/ (newLease /\ store.role = "readonly")
    ELSE FALSE

(* The effect on state.lease: a lease object that is new, even with the    *)
(* same role, clears the timer and sets another.                           *)
RenewArmed(s, newLease) ==
    IF s.role = "controller" THEN renew \/ newLease ELSE FALSE

(* The page shows s; the effect on the target clears the dialog.           *)
Show(s, newLease) ==
    /\ store' = s
    /\ renew' = RenewArmed(s, newLease)
    /\ asked' = IF s.epoch # store.epoch THEN NoMove ELSE asked

-----------------------------------------------------------------------------
(* ConsoleSocket: connections                                              *)

(* scheduleReconnect: one timer at a time, none once stopped.              *)
ScheduleReconnect == timer' = mounted

(* The gateway ends the session of a connection that is gone: its lease is *)
(* free, or taken by another page before that is seen.                     *)
SessionEnds ==
    /\ up' = <<>> /\ down' = <<>>
    /\ lease' \in IF lease = "mine" THEN {"free", "other"} ELSE {lease}

(* The effect of App is mounted: connect opens a socket.  (StrictMode has  *)
(* it close that one at once and connect again.)                           *)
Mount ==
    /\ ~mounted
    /\ mounted' = TRUE
    /\ sock' = "opening"
    /\ Show(Connecting(store), FALSE)
    /\ UNCHANGED <<timer, observed, wireVars, serverVars, faults>>

(* The page is loaded again, and knows nothing of what it was.             *)
Reload ==
    /\ mounted /\ Fault
    /\ mounted' = FALSE /\ sock' = "none" /\ timer' = FALSE
    /\ observed' = NoObservation
    /\ store' = InitialStore /\ renew' = FALSE /\ asked' = NoMove
    /\ late' = <<>> /\ SessionEnds
    /\ UNCHANGED <<routed, device, job>>

(* The reconnect timer: openSocket.                                        *)
OpenSocket ==
    /\ timer /\ mounted /\ sock = "none"
    /\ timer' = FALSE
    /\ sock' = "opening"
    /\ Show(Connecting(store), FALSE)
    /\ UNCHANGED <<mounted, observed, wireVars, serverVars, faults>>

(* ... whose factory throws, any number of times.                          *)
OpenFails ==
    /\ timer /\ mounted /\ sock = "none"
    /\ ScheduleReconnect
    /\ Show(Connecting(store), FALSE)
    /\ UNCHANGED <<mounted, sock, observed, wireVars, serverVars, faults>>

(* Mutant: the observation outlives the connection, and the page is told   *)
(* nothing.                                                                *)
SocketLostQuietly ==
    /\ sock # "none" /\ Fault
    /\ sock' = "none"
    /\ ScheduleReconnect
    /\ SessionEnds
    /\ UNCHANGED <<mounted, late, routed, device, job, observed, store,
                   renew, asked>>

(* onclose of the current socket: it could not be opened, or was lost with *)
(* everything on it.                                                       *)
SocketLost ==
    /\ sock # "none" /\ Fault
    /\ sock' = "none"
    /\ observed' = NoObservation
    /\ Show(ClosedConnection(store), TRUE)
    /\ ScheduleReconnect
    /\ SessionEnds
    /\ UNCHANGED <<mounted, late, routed, device, job>>

-----------------------------------------------------------------------------
(* ConsoleSocket: messages                                                 *)

(* Mutant: an event of an earlier revision takes the observation back.     *)
ObservedAfterAny(m) ==
    CASE m.kind = "hello" -> [epoch |-> m.epoch, rev |-> m.state.rev]
      [] m.kind = "state" -> [epoch |-> m.epoch, rev |-> m.state.rev]
      [] m.kind = "event" /\ m.type = "state" /\ m.epoch = observed.epoch ->
           [observed EXCEPT !.rev = m.state.rev]
      [] OTHER -> observed

(* observeRevision, when it finds no gap.                                  *)
ObservedAfter(m) ==
    CASE m.kind = "hello" -> [epoch |-> m.epoch, rev |-> m.state.rev]
      [] m.kind = "state" /\ (\/ observed = NoObservation
                              \/ m.epoch > observed.epoch
                              \/ /\ m.epoch = observed.epoch
                                 /\ m.state.rev >= observed.rev) ->
           [epoch |-> m.epoch, rev |-> m.state.rev]
      [] /\ m.kind = "event" /\ m.type = "state"
         /\ m.epoch = observed.epoch /\ m.state.rev = observed.rev + 1 ->
           [observed EXCEPT !.rev = m.state.rev]
      [] OTHER -> observed

(* observeRevision returns true.                                           *)
IsGap(m) ==
    /\ m.kind = "event" /\ m.type = "state"
    /\ m.epoch = observed.epoch /\ observed.rev >= 0
    /\ m.state.rev > observed.rev + 1

(* A lease object of its own comes with these.                             *)
BringsLease(m) ==
    m.kind \in {"hello", "control"} \/ (m.kind = "error" /\ m.losesControl)

(* Mutant: a gap is shown, but the connection is kept.                     *)
ReceiveKeeping ==
    /\ sock = "open" /\ down # <<>>
    /\ LET m == Head(down) IN
         /\ Show(Reduce(store, m), BringsLease(m))
         /\ down' = Tail(down)
         /\ observed' = ObservedAfter(m)
    /\ UNCHANGED <<sock, timer, up, late, mounted, serverVars, faults>>

(* handleMessage: the store first, then the observation; after a gap the   *)
(* socket is retired, without a word to the store, and another is opened   *)
(* later.                                                                  *)
Receive ==
    /\ sock = "open" /\ down # <<>>
    /\ LET m == Head(down) IN
         /\ Show(Reduce(store, m), BringsLease(m))
         /\ IF IsGap(m)
              THEN /\ sock' = "none"
                   /\ observed' = NoObservation
                   /\ late' = SubSeq(down, 2, IF Len(down) > 1 THEN 2 ELSE 1)
                   /\ SessionEnds
                   /\ ScheduleReconnect
              ELSE /\ down' = Tail(down)
                   /\ observed' = ObservedAfter(m)
                   /\ UNCHANGED <<sock, timer, up, late, lease>>
    /\ UNCHANGED <<mounted, routed, device, job, faults>>

(* Mutant: the handlers of a retired socket are left in place, and ask     *)
(* nothing.                                                                *)
ReceiveLateUnguarded ==
    /\ late # <<>>
    /\ late' = Tail(late)
    /\ Show(Reduce(store, Head(late)), BringsLease(Head(late)))
    /\ UNCHANGED <<mounted, sock, timer, observed, up, down, serverVars,
                   faults>>

(* The browser delivers a message of the retired socket: detach has taken  *)
(* its handlers away, and isCurrent would refuse it.                       *)
ReceiveLate ==
    /\ late # <<>>
    /\ late' = Tail(late)
    /\ UNCHANGED <<pageVars, up, down, serverVars, faults>>

-----------------------------------------------------------------------------
(* App and ConsoleSocket.send: what the user does                          *)

Send(m) == sock = "open" /\ up' = Append(up, m)

Sending == UNCHANGED <<mounted, sock, timer, observed, down, late,
                       routed, lease, device, faults>>

(* sendCommand: the command names the epoch the page shows.                *)
SendCommand(c) ==
    /\ Enabled(store, c) /\ Quiet
    /\ Send([kind |-> "command", of |-> c, epoch |-> store.epoch])
    /\ store' = AddLocalCommand(store, c)
    /\ job' = [job EXCEPT ![c].at = "sent"]

(* A button: presets, lights, and absolute moves of the simulator.         *)
Click(c) ==
    /\ job[c].at = "new"
    /\ SendCommand(c)
    /\ Sending /\ UNCHANGED <<renew, asked>>

(* requestAbsoluteMove of a remote device asks first.                      *)
AskMove(c) ==
    /\ job[c].at = "new" /\ c \in Motions /\ IsRemote(store.epoch)
    /\ Enabled(store, c)
    /\ asked' = [of |-> {c}, epoch |-> store.epoch]
    /\ UNCHANGED <<mounted, sock, timer, observed, store, renew, wireVars,
                   serverVars, faults>>

(* The dialog's buttons; the answer is checked again when it is given.     *)
AnswerMove(confirmed) ==
    /\ asked # NoMove
    /\ asked' = NoMove
    /\ \E c \in asked.of :
         IF confirmed /\ asked.epoch = store.epoch /\ Enabled(store, c)
              /\ job[c].at = "new" /\ sock = "open"
           THEN SendCommand(c)
           ELSE UNCHANGED <<up, store, job>>
    /\ Sending /\ UNCHANGED renew

(* The button that takes control over, shown to read-only pages.           *)
ClickAcquire ==
    /\ store.role = "readonly" /\ Quiet
    /\ Send([kind |-> "acquire"])
    /\ Sending /\ UNCHANGED <<store, renew, asked, job>>

(* The target list, enabled by the lease and an idle motion alone.         *)
ClickSelect ==
    /\ store.role = "controller" /\ ~MotionIsBusy(store) /\ Quiet
    /\ Send([kind |-> "select"])
    /\ Sending /\ UNCHANGED <<store, renew, asked, job>>

(* The renewal timer: a message that cannot be sent is an entry in the     *)
(* error list, and nothing else.                                           *)
RenewFires ==
    /\ renew /\ mounted /\ Quiet
    /\ renew' = FALSE
    /\ IF sock = "open" THEN Send([kind |-> "renew"]) ELSE UNCHANGED up
    /\ Sending /\ UNCHANGED <<store, asked, job>>

-----------------------------------------------------------------------------
(* The gateway and the device                                              *)

Reply(ms) == down' = down \o ms

(* The gateway accepts the connection; the hello comes first, and a free   *)
(* lease with it.                                                          *)
Accept ==
    /\ sock = "opening"
    /\ sock' = "open"
    /\ lease' = IF lease = "free" THEN "mine" ELSE lease
    /\ Reply(<<HelloMessage(device.epoch, DeviceState,
                 IF lease' = "mine" THEN "controller" ELSE "readonly")>>)
    /\ UNCHANGED <<mounted, timer, observed, store, renew, asked, up, late,
                   routed, device, job, faults>>

(* The router's state becomes s, and the hub will tell every session why:  *)
(* what a session hears of it may be older than its hello.                 *)
PublishFrom(d, s, ms) ==
    /\ device' = [d EXCEPT !.rev = s.rev, !.busy = s.busy, !.missed = 0]
    /\ routed' = routed \o ms

Publish(s, ms) == PublishFrom(device, s, ms)

Broadcast ==
    /\ routed # <<>>
    /\ routed' = Tail(routed)
    /\ IF sock = "open" THEN Reply(<<Head(routed)>>) ELSE UNCHANGED down
    /\ UNCHANGED <<pageVars, up, late, lease, device, job, faults>>

NextState(busy) == [rev |-> device.rev + 1, busy |-> busy]

(* Motions accepted and not ended.  Those that wait, named as events name  *)
(* them, are cancelled in the order they came in, which is any here.       *)
Unfinished == {c \in Motions : job[c].at \in {"queued", "running"}}
Waiting == {{c} : c \in {d \in Motions : job[d].at = "queued"}}
Busy(but) == device.rest # "none" \/ Unfinished \ {but} # {}
Resting == device.rest # "none" \/ Unfinished \intersect Rests # {}

Cancelled(order) ==
    [i \in DOMAIN order |->
        EventMessage(device.epoch, "cancelled", order[i], NoState)]

(* Mutant: what is told to be cancelled still waits.                       *)
JobsWithoutNone(order) == job

(* What becomes of the commands when those of the order are cancelled.     *)
JobsWithout(order) ==
    [c \in Commands |-> IF \E i \in DOMAIN order : c \in order[i]
                          THEN [job[c] EXCEPT !.at = "cancelled"] ELSE job[c]]

(* _handle_console_message, console.command: no lease, another selection,  *)
(* no answer before anything was done, or refused by the device, which     *)
(* says so itself as well.                                                 *)
RefuseCommand(c, epoch) ==
    /\ job' = [job EXCEPT ![c].at = "refused"]
    /\ Reply(<<ErrorMessage({c}, lease # "mine")>>)
    /\ \/ UNCHANGED routed
       \/ /\ lease = "mine" /\ epoch = device.epoch /\ device.missed = 0
          /\ ~device.off
          /\ routed' = Append(routed,
                          EventMessage(device.epoch, "error", {c}, NoState))
    /\ UNCHANGED device

(* A remote device whose answer comes too late: the request has failed     *)
(* with an unknown outcome, what it asked for happens all the same.        *)
Answer(c, heard) ==
    IF heard THEN UNCHANGED down ELSE Reply(<<ErrorMessage({c}, FALSE)>>)

ApplyCommand(c, heard) ==
    /\ c \in Lights
    /\ job' = [job EXCEPT ![c] = [at |-> "done", unheard |-> ~heard]]
    /\ Publish(NextState(device.busy),
         <<EventMessage(device.epoch, "state", {c}, NextState(device.busy))>>)

(* A motion waits its turn; a rest puts itself in the place of all that    *)
(* wait.  Nothing is accepted while the device is being put to rest.       *)
QueueMotion(c, heard) ==
    /\ c \in Motions /\ ~Resting
    /\ \E order \in SetToSeqs(IF c \in Rests THEN Waiting ELSE {}) :
         /\ job' = [JobsWithout(order) EXCEPT
                       ![c] = [at |-> "queued", unheard |-> ~heard]]
         /\ Publish(NextState(TRUE),
              <<EventMessage(device.epoch, "state", {c}, NextState(TRUE))>>
              \o Cancelled(order))

HandleCommand ==
    /\ up # <<>> /\ Head(up).kind = "command"
    /\ up' = Tail(up)
    /\ LET c == Head(up).of IN
         \/ RefuseCommand(c, Head(up).epoch)
         \/ /\ lease = "mine" /\ Head(up).epoch = device.epoch
            /\ device.rev < MaxRevision /\ device.missed = 0 /\ ~device.off
            /\ \E heard \in BOOLEAN :
                 /\ heard \/ IsRemote(device.epoch)
                 /\ Answer(c, heard)
                 /\ ApplyCommand(c, heard) \/ QueueMotion(c, heard)
    /\ UNCHANGED <<pageVars, late, lease, faults>>

ServerKeeps == UNCHANGED <<pageVars, late, routed, job, faults>>

HandleRenew ==
    /\ up # <<>> /\ Head(up).kind = "renew"
    /\ up' = Tail(up)
    /\ Reply(IF lease = "mine" THEN <<ControlMessage("controller")>>
             ELSE <<ErrorMessage({}, TRUE)>>)
    /\ UNCHANGED <<lease, device>> /\ ServerKeeps

HandleAcquire ==
    /\ up # <<>> /\ Head(up).kind = "acquire"
    /\ up' = Tail(up)
    /\ lease' = "mine"
    /\ Reply(<<ControlMessage("controller")>>)
    /\ UNCHANGED device /\ ServerKeeps

(* select_target while nothing moves: the new target has revisions of its  *)
(* own.  What the old target still had to say is of an epoch that is over. *)
Select ==
    /\ ~device.busy /\ device.epoch < MaxEpoch
    /\ \E r \in {0, MaxRevision - 1} :
         /\ device' = [FirstDevice EXCEPT !.epoch = device.epoch + 1, !.rev = r]
         /\ IF sock = "open"
              THEN Reply(<<StateMessage(device'.epoch,
                                        [rev |-> r, busy |-> FALSE])>>)
              ELSE UNCHANGED down

(* The holder selects; a target that is selected already is told again.    *)
HandleSelect ==
    /\ up # <<>> /\ Head(up).kind = "select"
    /\ up' = Tail(up)
    /\ \/ lease = "mine" /\ Select
       \/ /\ lease = "mine"
          /\ Reply(<<StateMessage(device.epoch, DeviceState)>>)
          /\ UNCHANGED device
       \/ /\ lease # "mine" \/ device.busy
          /\ Reply(<<ErrorMessage({}, lease # "mine")>>)
          /\ UNCHANGED device
    /\ UNCHANGED lease /\ ServerKeeps

(* The page that holds the lease selects.                                  *)
OtherSelects ==
    /\ lease = "other" /\ Quiet /\ Select
    /\ UNCHANGED <<up, lease>> /\ ServerKeeps

DeviceKeeps == UNCHANGED <<pageVars, wireVars, lease>>

(* The device starts, and later ends, a motion: one at a time.             *)
Moving == device.rest = "running" \/ \E c \in Motions : job[c].at = "running"

StartMotion(c) ==
    /\ job[c].at = "queued" /\ ~Moving /\ device.missed = 0
    /\ job' = [job EXCEPT ![c].at = "running"]
    /\ Publish(NextState(TRUE),
         <<EventMessage(device.epoch, "state", {c}, NextState(TRUE))>>)
    /\ DeviceKeeps /\ UNCHANGED faults

(* A motion that is not a rest may also be cancelled: by the rest that     *)
(* waits, or by the interrupt that one has left behind.                    *)
FinishMotion(c) ==
    /\ job[c].at = "running" /\ device.missed = 0
    /\ \E end \in {"done", "failed", "cancelled"} :
         /\ c \in Rests => end # "cancelled"
         /\ job' = [job EXCEPT ![c].at = end]
         /\ Publish(NextState(Busy(c)),
              <<EventMessage(device.epoch, "state", {c}, NextState(Busy(c))),
                EventMessage(device.epoch,
                  IF end = "done" THEN "completed" ELSE end, {c}, NoState)>>)
    /\ DeviceKeeps /\ UNCHANGED faults

(* Another client's device.rest is accepted: what waits is cancelled, what *)
(* runs is interrupted, and the device goes to rest.                       *)
Rest ==
    /\ device.rev < MaxRevision /\ device.missed = 0 /\ Fault
    /\ ~device.off /\ ~Resting
    /\ \E order \in SetToSeqs(Waiting) :
         /\ job' = JobsWithout(order)
         /\ PublishFrom([device EXCEPT !.rest = "waiting"], NextState(TRUE),
              <<EventMessage(device.epoch, "state", {}, NextState(TRUE))>>
              \o Cancelled(order))
    /\ DeviceKeeps

StartRest ==
    /\ device.rest = "waiting" /\ ~Moving /\ device.missed = 0
    /\ PublishFrom([device EXCEPT !.rest = "running"], NextState(TRUE),
         <<EventMessage(device.epoch, "state", {}, NextState(TRUE))>>)
    /\ DeviceKeeps /\ UNCHANGED <<job, faults>>

FinishRest ==
    /\ device.rest = "running" /\ device.missed = 0
    /\ LET s == NextState(Unfinished # {}) IN
         PublishFrom([device EXCEPT !.rest = "none"], s,
                     <<EventMessage(device.epoch, "state", {}, s)>>)
    /\ DeviceKeeps /\ UNCHANGED <<job, faults>>

(* A change of the device's own.                                           *)
Change ==
    /\ device.rev < MaxRevision /\ device.missed = 0 /\ ~device.off /\ Quiet
    /\ Publish(NextState(device.busy),
         <<EventMessage(device.epoch, "state", {}, NextState(device.busy))>>)
    /\ DeviceKeeps /\ UNCHANGED <<job, faults>>

(* The router misses an event.  It takes the next state from the target if *)
(* the target has no newer one by then (catchesUp); else it forwards the   *)
(* event, and catches up with the one that follows.                        *)
Skip(catchesUp) ==
    /\ device.rev + 2 <= MaxRevision /\ device.missed = 0 /\ ~device.off
    /\ Fault
    /\ LET s == [rev |-> device.rev + 2, busy |-> device.busy]
           m == EventMessage(device.epoch, "state", {}, s) IN
         IF catchesUp THEN Publish(s, <<m>>)
         ELSE /\ device' = [device EXCEPT !.missed = 2]
              /\ routed' = Append(routed, m)
    /\ DeviceKeeps /\ UNCHANGED job

CatchUp ==
    /\ device.missed > 0
    /\ LET s == [rev |-> device.rev + device.missed + 1,
                 busy |-> device.busy] IN
         Publish(s, <<EventMessage(device.epoch, "state", {}, s)>>)
    /\ DeviceKeeps /\ UNCHANGED <<job, faults>>

(* A remote device is shut down in order: what has not ended is cancelled, *)
(* each with a state of its own, and no command is accepted any more.      *)
ShutDown ==
    /\ IsRemote(device.epoch) /\ device.missed = 0 /\ ~device.off /\ Fault
    /\ \E order \in SetToSeqs({{c} : c \in Unfinished} \union
                              (IF device.rest = "none" THEN {} ELSE {{}})) :
         LET state(i) == [rev |-> device.rev + i, busy |-> FALSE]
             told == [i \in 1 .. 2 * Len(order) |->
                        IF i % 2 = 0 THEN Cancelled(order)[i \div 2]
                        ELSE LET k == (i + 1) \div 2 IN
                             EventMessage(device.epoch, "state", order[k],
                                          state(k))]
         IN /\ job' = JobsWithout(order)
            /\ PublishFrom([device EXCEPT !.rest = "none", !.off = TRUE],
                           state(Len(order)), told)
    /\ DeviceKeeps

(* A remote device restarts, idle or after its shutdown, and counts from   *)
(* zero, which the router accepts of a target whose transport was stale.   *)
RestartDevice ==
    /\ MayReset /\ IsRemote(device.epoch) /\ device.rev > 0 /\ ~device.busy
    /\ IF device.off THEN UNCHANGED faults ELSE Fault
    /\ LET s == [rev |-> 0, busy |-> FALSE] IN
         PublishFrom([device EXCEPT !.off = FALSE], s,
                     <<EventMessage(device.epoch, "state", {}, s)>>)
    /\ DeviceKeeps /\ UNCHANGED job

(* The gateway process restarts: epochs and revisions begin again.         *)
RestartGateway ==
    /\ sock # "none" /\ Fault
    /\ sock' = "none"
    /\ observed' = NoObservation
    /\ Show(ClosedConnection(store), TRUE)
    /\ ScheduleReconnect
    /\ SessionEnds
    /\ routed' = <<>> /\ device' = FirstDevice
    /\ job' = [c \in Commands |->
                 IF c \in Unfinished THEN [job[c] EXCEPT !.at = "failed"]
                 ELSE job[c]]
    /\ UNCHANGED <<mounted, late>>

(* Another page takes control and this one is told; or the lease expires,  *)
(* and it is not; or the page that had the lease leaves.                   *)
TakeOver ==
    /\ lease = "mine" /\ Fault
    /\ lease' = "other"
    /\ Reply(<<ControlMessage("readonly")>>)
    /\ UNCHANGED <<pageVars, up, late, routed, device, job>>

Expire ==
    /\ lease = "mine" /\ Fault
    /\ lease' \in {"free", "other"}
    /\ UNCHANGED <<pageVars, wireVars, routed, device, job>>

OtherLeaves ==
    /\ lease = "other" /\ Fault
    /\ lease' = "free"
    /\ UNCHANGED <<pageVars, wireVars, routed, device, job>>

-----------------------------------------------------------------------------
Lifecycle ==
    Mount \/ Reload \/ OpenSocket \/ OpenFails \/ SocketLost

User ==
    \/ \E c \in Commands : Click(c)
    \/ \E c \in Motions : AskMove(c)
    \/ \E confirmed \in BOOLEAN : AnswerMove(confirmed)
    \/ ClickAcquire \/ ClickSelect

Gateway == HandleCommand \/ HandleRenew \/ HandleAcquire \/ HandleSelect

Device ==
    \/ CatchUp \/ StartRest \/ FinishRest
    \/ \E c \in Motions : StartMotion(c) \/ FinishMotion(c)

Others ==
    \/ Change \/ \E adopted \in BOOLEAN : Skip(adopted)
    \/ Rest \/ ShutDown \/ RestartDevice \/ RestartGateway
    \/ TakeOver \/ Expire \/ OtherLeaves \/ OtherSelects

Next ==
    \/ Lifecycle \/ Accept \/ Receive \/ ReceiveLate \/ User \/ RenewFires
    \/ Gateway \/ Broadcast \/ Device \/ Others

Spec == Init /\ [][Next]_vars

(* Timers fire, the network delivers what it does not lose, the gateway    *)
(* handles its messages and the device ends its motions.                   *)
FairSpec ==
    /\ Spec
    /\ WF_vars(OpenSocket) /\ WF_vars(Accept) /\ WF_vars(Receive)
    /\ WF_vars(Gateway) /\ WF_vars(Broadcast) /\ WF_vars(Device)
    /\ WF_vars(RenewFires)

-----------------------------------------------------------------------------
(* The socket and the store judge each message by a pair of their own:     *)
(* while a connection is observed the two pairs are the same, so a gap the *)
(* socket sees is one the store shows; and a page that shows "online" has  *)
(* a connection that said hello: neither a loss, a gap, a reload nor a     *)
(* message of a retired socket leaves it showing an old state as live.     *)
ObserverAgrees ==
    /\ observed # NoObservation =>
           observed = [epoch |-> store.epoch, rev |-> store.state.rev]
    /\ store.connection = "online" => sock = "open" /\ observed # NoObservation

(* A connected page that believes it has control keeps its lease alive: it *)
(* will renew it, or has asked to, or the answer is on its way.            *)
ControllerRenews ==
    store.role = "controller" /\ sock = "open" /\ observed # NoObservation =>
        \/ renew
        \/ \E i \in DOMAIN up : up[i].kind = "renew"
        \/ \E i \in DOMAIN down : BringsLease(down[i])

(* What the page says became of a command is what became of it at the      *)
(* device: it shows an end only of what was applied, completed or          *)
(* cancelled (it does not tell these two apart), and failure only of what  *)
(* failed or was refused, or was asked for in vain for want of an answer.  *)
ShownOutcomeIsTrue ==
    \A c \in Commands :
        /\ store.timeline[c] = "finished" => job[c].at \in {"done", "cancelled"}
        /\ store.timeline[c] = "failed" =>
               job[c].at \in {"refused", "failed"} \/ job[c].unheard

(* While the page follows a connection, what it shows never goes back.     *)
NotBefore(old, new) ==
    \/ new.epoch > old.epoch
    \/ new.epoch = old.epoch /\ new.state.rev >= old.state.rev

NeverGoesBack ==
    [][observed # NoObservation /\ observed' # NoObservation =>
           NotBefore(store, store')]_vars

(* A move that was confirmed for one selection is never sent to another:   *)
(* what is asked about always belongs to the target shown.                 *)
AskedIsShown == asked # NoMove => asked.epoch = store.epoch

(* When the faults are over the page ends up online and showing the state  *)
(* of the router, whatever was lost, skipped, restarted or taken over.     *)
ShowsDevice ==
    /\ store.connection = "online"
    /\ store.epoch = device.epoch /\ store.state = DeviceState

PageConverges == <>[](mounted => ShowsDevice)

(* A command that is on its way, or at the device, is settled at the page  *)
(* while the connection and the selection last, even one that was sent on  *)
(* an earlier connection.                                                  *)
InHand(c) ==
    \/ \E i \in DOMAIN up : up[i].kind = "command" /\ up[i].of = c
    \/ job[c].at \in {"queued", "running"}

CommandsSettle ==
    \A c \in Commands, e \in 1 .. MaxEpoch :
        store.pending[c] # "none" /\ InHand(c) /\ device.epoch = e ~>
            store.pending[c] = "none" \/ sock # "open" \/ device.epoch # e
=============================================================================
