---------------------------- MODULE ConsoleStore -----------------------------
(***************************************************************************)
(* The console page's store (packages/lefly-console-web/src/state/         *)
(* consoleStore.ts): the reducer, as operators from a store and a message  *)
(* to the next store, and the questions App and consoleUi ask of it.       *)
(*                                                                         *)
(* A device state is its revision and whether a motion runs or waits in    *)
(* it; a target is its epoch.  The histories of events and errors, the     *)
(* list of targets and what is only displayed are left out.                *)
(***************************************************************************)
EXTENDS Integers, FiniteSets

CONSTANTS
    Motions,   \* ids of the motion commands the page may send
    Lights     \* ids of its commands that are applied at once

ASSUME CommandsAssumption ==
    Motions \intersect Lights = {} /\ IsFiniteSet(Motions)

Commands == Motions \union Lights

(* deviceState: null before the first hello.                               *)
NoState == [rev |-> -1, busy |-> FALSE]

(* "open" stands for sent, accepted, started and progress: the events that *)
(* tell them apart change nothing else, and are left out.                  *)
Terminal == {"finished", "failed"}

InitialStore ==
    [connection |-> "offline", role |-> "readonly", epoch |-> 0,
     state |-> NoState, pending |-> [c \in Commands |-> "none"],
     timeline |-> [c \in Commands |-> "none"]]

-----------------------------------------------------------------------------
(* What the server sends (ConsoleIncoming).  An event carries the state    *)
(* only when its type is "state"; its command is its correlation_id.  A    *)
(* motion.finished is of the type of its status: "completed", "cancelled"  *)
(* or "failed"; "error" is a device.error.                                 *)
HelloMessage(epoch, state, role) ==
    [kind |-> "hello", epoch |-> epoch, state |-> state, role |-> role]
StateMessage(epoch, state) ==
    [kind |-> "state", epoch |-> epoch, state |-> state]
EventMessage(epoch, type, of, state) ==
    [kind |-> "event", epoch |-> epoch, type |-> type, of |-> of,
     state |-> state]
ErrorMessage(of, losesControl) ==
    [kind |-> "error", of |-> of, losesControl |-> losesControl]
ControlMessage(role) == [kind |-> "control", role |-> role]

-----------------------------------------------------------------------------
(* Mutant: a state event finishes a motion too.                            *)
CommandStatusEager(c, status, type) ==
    IF status \in Terminal THEN status
    ELSE CASE type = "state" -> "finished"
           [] type \in {"completed", "cancelled"} -> "finished"
           [] OTHER -> "failed"

(* commandStatus: what an event correlated with c makes of its record.  A  *)
(* motion that was cancelled is "finished" like one that was completed.    *)
CommandStatus(c, status, type) ==
    IF status \in Terminal THEN status
    ELSE CASE type = "state" -> IF c \in Motions THEN status ELSE "finished"
           [] type \in {"completed", "cancelled"} -> "finished"
           [] OTHER -> "failed"

(* correlateCommand: both lists of records are updated, and what has ended *)
(* leaves the pending one.                                                 *)
CorrelateCommand(s, type, of) ==
    LET update(records) ==
          [c \in Commands |-> IF c \in of /\ records[c] # "none"
                                THEN CommandStatus(c, records[c], type)
                                ELSE records[c]]
        updated == update(s.pending) IN
    [s EXCEPT !.pending = [c \in Commands |->
                             IF updated[c] \in Terminal THEN "none"
                             ELSE updated[c]],
              !.timeline = update(s.timeline)]

(* Mutant: only the pending record of the command is failed.               *)
FailCommandHalf(s, of) ==
    [s EXCEPT !.timeline = [c \in Commands |->
                              IF c \in of /\ s.timeline[c] # "none"
                                THEN "failed" ELSE s.timeline[c]]]

(* failCommand: an error of the request fails its record, whatever it was. *)
FailCommand(s, of) ==
    [s EXCEPT !.pending = [c \in Commands |->
                             IF c \in of THEN "none" ELSE s.pending[c]],
              !.timeline = [c \in Commands |->
                              IF c \in of /\ s.timeline[c] # "none"
                                THEN "failed" ELSE s.timeline[c]]]

(* addLocalCommand: the socket has sent c.                                 *)
AddLocalCommand(s, c) ==
    [s EXCEPT !.pending[c] = "open", !.timeline[c] = "open"]

-----------------------------------------------------------------------------
(* consoleReducer, "connecting" and "closed".                              *)
Connecting(s) == [s EXCEPT !.connection = "connecting"]

ClosedConnection(s) ==
    [s EXCEPT !.connection = IF s.state = NoState THEN "offline" ELSE "stale",
              !.role = "readonly"]

(* reduceIncoming, console.hello: whatever it says is adopted.             *)
ReduceHello(s, m) ==
    [s EXCEPT !.connection = "online", !.role = m.role, !.epoch = m.epoch,
              !.state = m.state]

(* reduceFullState ignores what is older than what is shown.               *)
StaleState(s, m) ==
    \/ m.epoch < s.epoch
    \/ m.epoch = s.epoch /\ s.state # NoState /\ m.state.rev <= s.state.rev

ReduceFullState(s, m) ==
    IF StaleState(s, m) THEN s
    ELSE [s EXCEPT !.connection = "online", !.epoch = m.epoch,
                   !.state = m.state]

(* revisionGap                                                             *)
RevisionGap(s) == [s EXCEPT !.connection = "stale"]

(* Mutant: an event of a state that is older than the hello is adopted.    *)
ReduceStateEventLast(s, m) ==
    IF s.state = NoState THEN s
    ELSE IF m.state.rev > s.state.rev + 1
    THEN CorrelateCommand(RevisionGap(s), m.type, m.of)
    ELSE CorrelateCommand([s EXCEPT !.connection = "online", !.state = m.state],
                          m.type, m.of)

(* reduceEvent, device.state_changed of the epoch shown.                   *)
ReduceStateEvent(s, m) ==
    IF s.state = NoState THEN s
    ELSE CASE m.state.rev <= s.state.rev -> CorrelateCommand(s, m.type, m.of)
           [] m.state.rev > s.state.rev + 1 ->
                CorrelateCommand(RevisionGap(s), m.type, m.of)
           [] OTHER -> CorrelateCommand(
                         [s EXCEPT !.connection = "online", !.state = m.state],
                         m.type, m.of)

ReduceEvent(s, m) ==
    IF m.epoch # s.epoch THEN s
    ELSE IF m.type = "state" THEN ReduceStateEvent(s, m)
    ELSE CorrelateCommand(s, m.type, m.of)

(* reduceIncoming, console.error.                                          *)
ReduceError(s, m) ==
    FailCommand(IF m.losesControl THEN [s EXCEPT !.role = "readonly"] ELSE s,
                m.of)

(* reduceIncoming                                                          *)
Reduce(s, m) ==
    CASE m.kind = "hello"   -> ReduceHello(s, m)
      [] m.kind = "state"   -> ReduceFullState(s, m)
      [] m.kind = "event"   -> ReduceEvent(s, m)
      [] m.kind = "error"   -> ReduceError(s, m)
      [] m.kind = "control" -> [s EXCEPT !.role = m.role]

-----------------------------------------------------------------------------
(* consoleUi.motionIsBusy                                                  *)
MotionIsBusy(s) ==
    s.state.busy \/ \E c \in Motions : s.pending[c] # "none"

(* App.controlUnavailableReason is null.                                   *)
ControlAvailable(s) ==
    s.state # NoState /\ s.connection = "online" /\ s.role = "controller"

(* App.disabledReason is null; every target has every command.             *)
Enabled(s, c) == ControlAvailable(s) /\ (c \in Motions => ~MotionIsBusy(s))
=============================================================================
