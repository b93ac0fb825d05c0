------------------------------- MODULE Overview -------------------------------
(***************************************************************************)
(* The joint sliders of the console page: Overview                         *)
(* (packages/lefly-console-web/src/features/overview/Overview.tsx) with    *)
(* the gateway App passes to it (app/App.tsx, app/consoleUi.tsx), and the  *)
(* joint editor of MotionPanel (features/motion/MotionPanel.tsx).          *)
(*                                                                         *)
(* With a simulator a slider previews its value, and its release sends a   *)
(* move, now or when the device is idle again; with a remote device a      *)
(* draft is collected, applied and confirmed.  The buttons of both         *)
(* workspaces play a preset, put the device to rest or turn it.  React     *)
(* runs the effects of a render some time after it: "due" says which have  *)
(* not run yet.                                                            *)
(*                                                                         *)
(* The device, its gateway and the other pages are as coarse as the page   *)
(* sees them: every state is a new revision, any motion may be refused,    *)
(* and a remote device may execute one that its gateway gave up waiting    *)
(* for.  The page's connection lasts: its loss is in ConsolePage.          *)
(***************************************************************************)
EXTENDS Integers, Sequences, SequencesExt, FiniteSetsExt

CONSTANTS
    Joints,      \* the joints
    Values,      \* positions inside the limits of every joint
    Home,        \* the position the device starts in
    None,        \* no value, no draft
    MaxEdits,    \* bound: changes of a slider
    MaxEpoch,    \* bound: selections of a target
    MaxEvents,   \* bound: what others do, and answers that come too late
    MayRefuse    \* whether a command may be refused, or a motion fail

ASSUME OverviewAssumption ==
    /\ Home \notin Values /\ None \notin Values \union {Home}
    /\ MaxEdits \in Nat /\ MaxEpoch \in Nat \ {0} /\ MaxEvents \in Nat
    /\ MayRefuse \in BOOLEAN

VARIABLES
    shown,      \* what the store shows: device state, lease, and what the
                \* list of targets says of the target
    moves,      \* motion commands of this page that are pending in the store
    local,      \* Overview's state and refs; None when it is not mounted
    panel,      \* MotionPanel's draft; None when it is not mounted
    dialog,     \* pendingRemoteMove, or None
    due,        \* effects of the last render that have not run
    up,         \* commands on their way to the gateway
    down,       \* messages on their way to the page
    device,     \* the selected device, and whether this page owns the lease
    edits,      \* changes of a slider so far
    events      \* things others did so far

pageVars == <<shown, moves, local, panel, dialog, due>>
vars == <<pageVars, up, down, device, edits, events>>

Kinds == {"simulator", "remote"}
Moves == {"absolute_move", "play", "rest"}
NoDraft == [j \in Joints |-> None]
AtHome == [j \in Joints |-> Home]

(* A draft remembers the selection it was made for, a release of a slider  *)
(* whether the page had control of the device: what the properties ask.    *)
NoPending == [joint |-> None, value |-> None, made |-> 0]

(* The state of Overview when it is mounted, and after its target changed. *)
Fresh == [open |-> FALSE, draft |-> NoDraft, made |-> 0, preview |-> NoDraft,
          pending |-> NoPending, commit |-> FALSE, held |-> TRUE,
          inFlight |-> FALSE]

(* What of a device a page is told.                                        *)
Seen(d) == [kind |-> d.kind, epoch |-> d.epoch, pos |-> d.pos,
            action |-> IF d.moving THEN Head(d.jobs).action ELSE "none",
            moving |-> d.moving, size |-> Len(d.jobs)]

FirstDevice(kind) == [kind |-> kind, epoch |-> 1, pos |-> AtHome,
                      moving |-> FALSE, jobs |-> <<>>, owner |-> TRUE]

Init ==
    /\ \E kind \in Kinds : device = FirstDevice(kind)
    /\ shown = [device |-> Seen(device), control |-> TRUE, listed |-> "nothing"]
    /\ moves = 0 /\ local = Fresh /\ panel = None
    /\ dialog = None /\ due = {}
    /\ up = <<>> /\ down = <<>> /\ edits = 0 /\ events = 0

(* App's target: the one of the list that has the id shown, or the one the *)
(* list calls active, of the kind "listed" then; without a list the kind   *)
(* of the target is neither.                                               *)
TargetIs(kind) ==
    IF shown.listed = "target" THEN shown.device.kind = kind
    ELSE shown.listed = kind
IsSimulator == TargetIs("simulator")
IsRemote == TargetIs("remote")
DeviceIdle == ~shown.device.moving /\ shown.device.size = 0

-----------------------------------------------------------------------------
(* The gateway: App and consoleUi                                          *)

(* Mutant: a command whose answer is outstanding does not make it busy.    *)
MotionIsBusyAtDevice == shown.device.moving \/ shown.device.size > 0

MotionIsBusy ==
    shown.device.moving \/ shown.device.size > 0 \/ moves > 0

(* disabledReason with motionStart                                         *)
MayMove == shown.control /\ ~MotionIsBusy

(* sendCommand, when nothing disables it; what was known when it was sent  *)
(* is for the properties.                                                  *)
SendCommand(action, joints, made, asked) ==
    /\ up' = Append(up, [action |-> action, joints |-> joints,
                         epoch |-> shown.device.epoch,
                         made |-> made, early |-> "target" \in due,
                         kind |-> shown.device.kind,
                         known |-> shown.listed = "target", asked |-> asked])
    /\ moves' = moves + 1
SendMove(joints, made, asked) ==
    SendCommand("absolute_move", joints, made, asked)
NothingSent == UNCHANGED <<up, moves>>

Event == events < MaxEvents /\ events' = events + 1

Single(j, v) == [NoDraft EXCEPT ![j] = v]

-----------------------------------------------------------------------------
(* Overview's callbacks                                                    *)

(* The slider: it does not ask whether the page has control.               *)
SliderEnabled ==
    /\ IsSimulator \/ IsRemote
    /\ IsRemote => DeviceIdle
    /\ IsSimulator =>
         \/ DeviceIdle \/ shown.device.action = "absolute_move"
         \/ local.inFlight

ChangeJointTarget(j, v) ==
    /\ local # None /\ local.open /\ SliderEnabled /\ edits < MaxEdits
    /\ edits' = edits + 1
    /\ IF IsRemote
         THEN local' = [local EXCEPT !.draft[j] = v,
                                     !.made = shown.device.epoch]
         ELSE local' = [local EXCEPT !.preview[j] = v,
                          !.pending = [joint |-> j, value |-> v,
                                       made |-> shown.device.epoch]]
    /\ UNCHANGED <<shown, moves, panel, dialog, due, up, down, device, events>>

(* Mutant: a move that could not be sent is forgotten with its commit.     *)
FlushForgetting(l) ==
    IF ~l.commit \/ l.pending = NoPending \/ l.inFlight \/ ~DeviceIdle
    THEN local' = l /\ NothingSent
    ELSE /\ local' = [l EXCEPT !.pending = NoPending, !.inFlight = MayMove]
         /\ IF MayMove THEN SendMove(Single(l.pending.joint, l.pending.value),
                                     l.pending.made, FALSE)
            ELSE NothingSent

(* flushSimulatorJoint from the state l                                    *)
FlushSimulatorJoint(l) ==
    IF ~l.commit \/ l.pending = NoPending \/ l.inFlight \/ ~DeviceIdle
       \/ ~MayMove
    THEN local' = l /\ NothingSent
    ELSE /\ local' = [l EXCEPT !.pending = NoPending, !.commit = FALSE,
                               !.inFlight = TRUE]
         /\ SendMove(Single(l.pending.joint, l.pending.value),
                     l.pending.made, FALSE)

(* The release of a slider, by pointer, key or blur.                       *)
CommitSimulatorJoint ==
    /\ local # None /\ IsSimulator /\ local.pending # NoPending
    /\ FlushSimulatorJoint([local EXCEPT !.commit = TRUE,
                                         !.held = shown.control])
    /\ UNCHANGED <<shown, panel, dialog, due, down, device, edits, events>>

ToggleJointEditor ==
    /\ local # None /\ local.open = FALSE
    /\ local' = [local EXCEPT !.open = TRUE]
    /\ UNCHANGED <<shown, moves, panel, dialog, due, up, down, device, edits,
                   events>>

(* Mutant: nothing is asked when the panel was made for the selection.     *)
RequestAbsoluteMoveOfPanel(joints, made) ==
    /\ MayMove /\ joints # NoDraft
    /\ IF IsRemote /\ local # None
         THEN /\ dialog' = [joints |-> joints, epoch |-> shown.device.epoch,
                            made |-> made]
              /\ NothingSent
         ELSE SendMove(joints, made, FALSE) /\ dialog' = dialog

(* requestAbsoluteMove: a remote device asks for confirmation first.       *)
RequestAbsoluteMove(joints, made) ==
    /\ MayMove /\ joints # NoDraft
    /\ IF IsRemote
         THEN /\ dialog' = [joints |-> joints, epoch |-> shown.device.epoch,
                            made |-> made]
              /\ NothingSent
         ELSE SendMove(joints, made, FALSE) /\ dialog' = dialog

ApplyRemoteJointDraft ==
    /\ local # None /\ IsRemote
    /\ RequestAbsoluteMove(local.draft, local.made)
    /\ local' = [local EXCEPT !.draft = NoDraft]
    /\ UNCHANGED <<shown, panel, due, down, device, edits, events>>

(* The button beside it that takes the changes back.                       *)
CancelRemoteJointDraft ==
    /\ local # None /\ IsRemote /\ local.draft # NoDraft
    /\ local' = [local EXCEPT !.draft = NoDraft]
    /\ UNCHANGED <<shown, moves, panel, dialog, due, up, down, device, edits,
                   events>>

(* The dialog: only for the selection it was opened for.                   *)
ConfirmRemoteMove ==
    /\ dialog # None /\ MayMove
    /\ dialog' = None
    /\ IF dialog.epoch = shown.device.epoch
         THEN SendMove(dialog.joints, dialog.made, TRUE) ELSE NothingSent
    /\ UNCHANGED <<shown, local, panel, due, down, device, edits, events>>

CancelRemoteMove ==
    /\ dialog # None
    /\ dialog' = None
    /\ UNCHANGED <<shown, moves, local, panel, due, up, down, device, edits,
                   events>>

(* MotionPanel: its draft starts from the telemetry.                       *)
ChangePanelDraft(j, v) ==
    /\ panel # None /\ edits < MaxEdits
    /\ edits' = edits + 1
    /\ panel' = [panel EXCEPT !.draft[j] = v]
    /\ UNCHANGED <<shown, moves, local, dialog, due, up, down, device, events>>

ApplyPanelDraft ==
    /\ panel # None
    /\ RequestAbsoluteMove(panel.draft, panel.made)
    /\ UNCHANGED <<shown, local, panel, due, down, device, edits, events>>

(* Its shortcuts turn the lamp.                                            *)
Turn(j, v) ==
    /\ panel # None
    /\ RequestAbsoluteMove(Single(j, v), shown.device.epoch)
    /\ UNCHANGED <<shown, local, panel, due, down, device, edits, events>>

(* The buttons of both workspaces that play a preset or start a rest.      *)
Play(action) ==
    /\ MayMove
    /\ SendCommand(action, AtHome, shown.device.epoch, FALSE)
    /\ UNCHANGED <<shown, local, panel, dialog, due, down, device, edits,
                   events>>

PanelOf(s) == [draft |-> s.pos, made |-> s.epoch]

(* A workspace is mounted when it is chosen, and forgets when it is left.  *)
SwitchWorkspace ==
    /\ IF local # None
         THEN local' = None /\ panel' = PanelOf(shown.device)
         ELSE local' = Fresh /\ panel' = None
    /\ UNCHANGED <<shown, moves, dialog, due, up, down, device, edits, events>>

AcquireControl ==
    /\ ~shown.control /\ ~device.owner /\ down = <<>>
    /\ device' = [device EXCEPT !.owner = TRUE]
    /\ down' = Append(down, [type |-> "control", owner |-> TRUE])
    /\ UNCHANGED <<pageVars, up, edits, events>>

-----------------------------------------------------------------------------
(* Effects                                                                 *)

(* Mutant: the draft outlives its target.                                  *)
ResetForTargetKeepingDraft(l) ==
    [Fresh EXCEPT !.draft = l.draft, !.made = l.made]

(* The effect on activeTargetId and targetEpoch.                           *)
ResetForTarget(l) == Fresh

DropSimulatorJoint(l) ==
    [l EXCEPT !.pending = NoPending, !.commit = FALSE, !.inFlight = FALSE,
              !.preview = NoDraft]

(* Mutant: the preview stays when its move has ended.                      *)
PreviewKept(l) == l.preview

PreviewAfter(l) == IF l.pending = NoPending THEN NoDraft ELSE l.preview

(* The effect on the device's motion, queue and revision.                  *)
FollowDevice(l) ==
    IF ~IsSimulator \/ shown.device.action \notin {"none", "absolute_move"}
    THEN local' = DropSimulatorJoint(l) /\ NothingSent
    ELSE IF ~DeviceIdle THEN local' = l /\ NothingSent
    ELSE IF l.commit /\ l.pending # NoPending
    THEN FlushSimulatorJoint([l EXCEPT !.inFlight = FALSE])
    ELSE /\ local' = [l EXCEPT !.inFlight = FALSE, !.preview = PreviewAfter(l)]
         /\ NothingSent

(* Children's effects first: Overview's in their order, then App's.        *)
RunEffects ==
    /\ due # {}
    /\ due' = {}
    /\ IF local = None THEN local' = None /\ NothingSent
       ELSE FollowDevice(IF "target" \in due THEN ResetForTarget(local)
                         ELSE local)
    /\ panel' = IF panel = None THEN None
                ELSE [panel EXCEPT !.draft = shown.device.pos]
    /\ dialog' = IF "target" \in due THEN None ELSE dialog
    /\ UNCHANGED <<shown, down, device, edits, events>>

(* consoleReducer, for a batch of messages: the last state and the last    *)
(* control are shown, and any end of a motion command takes it from        *)
(* pendingCommands.                                                        *)
LastOf(read, type) == SelectLastInSeq(read, LAMBDA m : m.type = type)

Reduced(read) ==
    LET state == LastOf(read, "state")
        control == LastOf(read, "control") IN
    [shown EXCEPT !.device = IF state = 0 THEN @ ELSE read[state].device,
                  !.control = IF control = 0 THEN @ ELSE read[control].owner]

Ends(read) == Quantify(DOMAIN read, LAMBDA i : read[i].type = "ended")

(* Messages change the store, and the page renders, with one message or    *)
(* with a batch of them; what is due of an earlier render has run by then. *)
(* MotionPanel is keyed by its target.                                     *)
Receive ==
    /\ due = {}
    /\ \E n \in 1 .. Len(down) :
         LET read == SubSeq(down, 1, n)
             moved == Reduced(read).device.epoch # shown.device.epoch
         IN /\ down' = SubSeq(down, n + 1, Len(down))
            /\ shown' = Reduced(read) /\ moves' = moves - Ends(read)
            /\ due' = (IF moved THEN {"target"} ELSE {}) \union
                      (IF LastOf(read, "state") # 0 THEN {"state"} ELSE {})
            /\ panel' = IF panel # None /\ moved
                          THEN PanelOf(Reduced(read).device) ELSE panel
    /\ UNCHANGED <<local, dialog, up, device, edits, events>>

(* The list of targets, asked for once when the page is loaded, arrives;   *)
(* or it never does, and the page is used without.  If the gateway was     *)
(* started anew with other targets in between, it may not name the target  *)
(* shown.                                                                  *)
TargetsLoaded ==
    /\ shown.listed = "nothing" /\ due = {}
    /\ \/ shown' = [shown EXCEPT !.listed = "target"] /\ events' = events
       \/ Event /\ \E kind \in Kinds : shown' = [shown EXCEPT !.listed = kind]
    /\ due' = {"list"}
    /\ UNCHANGED <<moves, local, panel, dialog, up, down, device, edits>>

-----------------------------------------------------------------------------
(* The gateway and the device                                              *)
StateOf(d) == [type |-> "state", device |-> Seen(d)]
Ended == [type |-> "ended"]

(* The device's queue: a motion waits its turn; a rest takes the place of  *)
(* all that wait, and nothing is accepted while it is to come.             *)
Resting == \E i \in DOMAIN device.jobs : device.jobs[i].action = "rest"
Running == IF device.moving THEN <<Head(device.jobs)>> ELSE <<>>
PageWaits ==
    \E i \in DOMAIN device.jobs :
        device.jobs[i].by = "page" /\ ~(device.moving /\ i = 1)

With(j) ==
    [device EXCEPT !.jobs = Append(IF j.action = "rest" THEN Running ELSE @, j)]

EndedIf(ended) == IF ended THEN <<Ended>> ELSE <<>>

Queue(j) ==
    /\ ~Resting
    /\ device' = With(j)
    /\ down' = down \o <<StateOf(With(j))>> \o
                 EndedIf(j.action = "rest" /\ PageWaits)

(* A remote device executes a command whose answer comes too late, or goes *)
(* down with its connection: the page is told that it failed, and hears of *)
(* the motion before that, or only when the device next tells its state.   *)
QueueUnheard(j) ==
    /\ MayRefuse /\ device.kind = "remote" /\ ~Resting
    /\ Event
    /\ device' = With(j)
    /\ \E told \in {<<>>, <<StateOf(With(j))>>} : down' = down \o told \o <<Ended>>

Job(c, by) == [by |-> by, action |-> c.action, joints |-> c.joints]

(* A command for another selection, or without the lease, is refused; any  *)
(* other may be.                                                           *)
HandleCommand ==
    /\ up # <<>>
    /\ up' = Tail(up)
    /\ LET c == Head(up)
           valid == c.epoch = device.epoch /\ device.owner
       IN \/ valid /\ Queue(Job(c, "page")) /\ events' = events
          \/ valid /\ QueueUnheard(Job(c, "unheard"))
          \/ /\ valid => MayRefuse \/ Resting
             /\ device' = device /\ down' = Append(down, Ended)
             /\ events' = events
    /\ UNCHANGED <<pageVars, edits>>

StartMotion ==
    /\ device.jobs # <<>> /\ ~device.moving
    /\ LET d == [device EXCEPT !.moving = TRUE] IN
         device' = d /\ down' = Append(down, StateOf(d))
    /\ UNCHANGED <<pageVars, up, edits, events>>

Reached(pos, joints) ==
    [j \in Joints |-> IF joints[j] = None THEN pos[j] ELSE joints[j]]

(* A motion ends where it was to, or fails on its way there, or a rest     *)
(* that waits interrupts it.                                               *)
FinishMotion ==
    /\ device.moving
    /\ \E pos \in {Reached(device.pos, Head(device.jobs).joints)} \union
                  (IF MayRefuse \/ (Resting /\ Head(device.jobs).action # "rest")
                     THEN {device.pos} ELSE {}) :
         LET d == [device EXCEPT !.moving = FALSE, !.jobs = Tail(@),
                                 !.pos = pos] IN
           /\ device' = d
           /\ down' = down \o <<StateOf(d)>> \o
                EndedIf(Head(device.jobs).by = "page")
    /\ UNCHANGED <<pageVars, up, edits, events>>

(* Another client moves the device, a light or a sensor changes, another   *)
(* page selects a target when the device is idle, or takes the lease.      *)
OthersMove(action) ==
    /\ Event
    /\ Queue([by |-> "other", action |-> action, joints |-> AtHome])
    /\ UNCHANGED <<pageVars, up, edits>>

Change ==
    /\ Event
    /\ down' = Append(down, StateOf(device))
    /\ UNCHANGED <<pageVars, up, device, edits>>

SelectTarget(kind) ==
    /\ Event
    /\ device.epoch < MaxEpoch /\ device.jobs = <<>>
    /\ LET d == [device EXCEPT !.kind = kind, !.epoch = @ + 1, !.pos = AtHome]
       IN device' = d /\ down' = Append(down, StateOf(d))
    /\ UNCHANGED <<pageVars, up, edits>>

TakeOver ==
    /\ Event
    /\ device.owner
    /\ device' = [device EXCEPT !.owner = FALSE]
    /\ down' = Append(down, [type |-> "control", owner |-> FALSE])
    /\ UNCHANGED <<pageVars, up, edits>>

-----------------------------------------------------------------------------
User ==
    \/ ToggleJointEditor \/ CommitSimulatorJoint \/ ApplyRemoteJointDraft
    \/ CancelRemoteJointDraft \/ ConfirmRemoteMove \/ CancelRemoteMove
    \/ ApplyPanelDraft \/ SwitchWorkspace \/ AcquireControl
    \/ \E j \in Joints, v \in Values :
         ChangeJointTarget(j, v) \/ ChangePanelDraft(j, v) \/ Turn(j, v)
    \/ \E action \in {"play", "rest"} : Play(action)

Others ==
    \/ Change \/ TakeOver
    \/ \E action \in Moves : OthersMove(action)
    \/ \E kind \in Kinds : SelectTarget(kind)

Next ==
    \/ User \/ RunEffects \/ Receive \/ TargetsLoaded
    \/ HandleCommand \/ StartMotion \/ FinishMotion \/ Others

Spec == Init /\ [][Next]_vars

(* React runs its effects, messages arrive, and motions come to their end. *)
FairSpec ==
    /\ Spec
    /\ WF_vars(RunEffects) /\ WF_vars(Receive)
    /\ WF_vars(HandleCommand) /\ WF_vars(StartMotion) /\ WF_vars(FinishMotion)

-----------------------------------------------------------------------------
(* The page waits for one motion of its own at most, and what it waits for *)
(* is on its way, at the device, or ended with nothing read of it: it      *)
(* forgets no motion and waits for none that is gone.  A motion it was     *)
(* told had failed is not counted: a remote device may execute it all the  *)
(* same, and the page send another meanwhile.                              *)
Awaited == {i \in DOMAIN device.jobs : device.jobs[i].by = "page"}

OneAtATime ==
    /\ moves \in {0, 1}
    /\ Len(up) + Cardinality(Awaited) + Ends(down) = moves

(* What was drafted for one target is never sent to another, except in the *)
(* moment between the render of the new target and its effects; and a      *)
(* remote device moves its joints only after the user was asked, on every  *)
(* way from a slider or a shortcut to a command, if the page knows what    *)
(* its target is: its list of targets may not name it, or never come.      *)
(* Presets and rests are never asked about.                                *)
SentAsMeant ==
    \A i \in DOMAIN up :
        /\ up[i].made = up[i].epoch \/ up[i].early
        /\ up[i].kind = "remote" /\ up[i].known
             /\ up[i].action = "absolute_move" => up[i].asked

(* Until it is sent, the last value released is kept: it is dropped only   *)
(* when the slider is moved on, the workspace or the target is left, or    *)
(* the device is shown in a motion of another kind.                        *)
ReleaseIsKept ==
    [][local # None /\ local' # None /\ local.commit /\ local.pending # NoPending
       /\ local'.pending = NoPending =>
           \/ /\ Len(up') = Len(up) + 1
              /\ Last(up').joints = Single(local.pending.joint,
                                          local.pending.value)
           \/ "target" \in due \/ ~IsSimulator
           \/ shown.device.action \in {"play", "rest"}]_vars

(* The preview gives way to the device's own position when nothing more is *)
(* asked of it, unless its last move was refused and nothing has been      *)
(* published since (only a state clears inFlight).                         *)
Answered == up = <<>> /\ down = <<>> /\ moves = 0

PreviewEnds ==
    local # None /\ local.preview # NoDraft ~>
        \/ local = None \/ local.preview = NoDraft
        \/ local.pending # NoPending \/ (Answered /\ local.inFlight)

(* A slider released in control does not wait for ever while nothing else  *)
(* of the page is under way: its move is sent or dropped, unless control   *)
(* is lost.                                                                *)
CommitsEnd ==
    []<>(\/ local = None \/ ~local.commit \/ ~local.held
         \/ ~shown.control \/ moves > 0)
=============================================================================
