-------------------------------- MODULE Scene --------------------------------
(***************************************************************************)
(* From a message on the wire to the drawn robot: what the page accepts    *)
(* (deviceProtocol.ts, protocol.ts, agent/agentProtocol.ts), and the 3D    *)
(* scene (packages/lefly-console-web/src/scene/LeFlyScene.tsx,             *)
(* createLeFlyModel.ts, modelRenderDiagnostics.ts) as Overview mounts it:  *)
(* one scene for each target and epoch, only while the workspace is open   *)
(* and the telemetry of every joint is known.                              *)
(*                                                                         *)
(* React runs the effects of a render some time after it ("due"); frames   *)
(* and resizes come in between.  In a development build every new scene is *)
(* opened, closed and opened again.  Any step of opening may fail, and any *)
(* release may throw.                                                      *)
(***************************************************************************)
EXTENDS Controls

CONSTANTS
    None,       \* no look, no scene
    MaxEpoch,   \* bound: selections of a target
    MaxFaults   \* bound: steps that fail and releases that throw

ASSUME SceneAssumption == MaxEpoch \in Nat /\ MaxFaults \in Nat

VARIABLES
    build,    \* whether React is in strict mode and the diagnostics are asked for
    page,     \* what the store and the open workspace ask to be drawn
    stirred,  \* whether that has come anew since it was last rendered
    shown,    \* the same, as last rendered
    due,      \* whether effects of that render have not run yet
    life,     \* the mounted scene and what it holds, or None
    leaked,   \* resources no scene will release
    refused,  \* whether one end refused what the other let out
    crashed,  \* whether an error has unmounted the page
    faults    \* failures so far

vars == <<build, page, stirred, shown, due, life, leaked, refused, crashed, faults>>

-----------------------------------------------------------------------------
(* What a message does: whether it is read, and the look it brings.        *)
(* completeJointTelemetry: no look while a joint's position is unknown.    *)
Look(state) ==
    IF Telemetry(state)
    THEN [joints |-> Positions(state),
          color |-> state["light"].obj["pixels"].arr[1].str,
          brightness |-> state["light"].obj["brightness"].num,
          strip |-> state["status_strip"].obj["color"].str,
          effect |-> state["status_strip"].obj["effect"].str]
    ELSE None

CarriedState(m) ==
    IF "state" \in DOMAIN m THEN m["state"].obj
    ELSE m["event"].obj["payload"].obj

IsStateMessage(m) ==
    \/ m["type"].str \in {"console.hello", "console.state"}
    \/ /\ m["type"] = Str("console.event")
       /\ m["event"].obj["type"] = Str("device.state_changed")

(* The looks brought by the messages the page accepts.                     *)
Accepted == {m \in FromGateway : ParseConsoleIncoming(m)}
Brought ==
    {Look(s) : s \in DrawnStates \intersect
                        {CarriedState(m) : m \in {x \in Accepted : IsStateMessage(x)}}}
Looks == {Look(s) : s \in DrawnStates}

(* Whether a message that one end lets out is refused at the other, known  *)
(* differences aside.                                                      *)
SomethingIsRefused ==
    \/ \E m \in FromGateway \ Accepted : ~KnownFromGateway(m)
    \/ \E m \in FromAgent : ~ParseAgentIncoming(m) /\ ~KnownFromAgent(m)
    \/ \E c \in FromPage :
         ~(PyCommand(c) /\ ParseDeviceCommand(c)) /\ ~KnownFromPage(c)
    \/ \E c \in FromComposer : ~PySubmission(c) /\ ~KnownFromComposer(c)
    \/ \E i \in Injections :
         (\A e \in SensorEvents(i) : ~ParseDeviceEvent(e)) /\ ~KnownInjection(i)

-----------------------------------------------------------------------------
(* Resources in the order they are acquired.                               *)
Order == <<"renderer", "canvas", "model", "ground", "material", "controls",
           "diagnostics", "listener", "resize", "frame">>
OnlyDiagnosed == {"diagnostics", "listener"}

Acquired(diagnosed, i) ==
    {Order[j] : j \in 1 .. i} \ (IF diagnosed THEN {} ELSE OnlyDiagnosed)

(* The first frame of a light that casts a shadow allocates its map.       *)
WithShadow(held) == held \union {"shadow"}
Resources == WithShadow(ToSet(Order))

(* cleanup: what it releases, in its order, and what must be there for it. *)
Attempts == <<"frame", "resize", "listener", "controls", "diagnostics",
              "model", "ground", "material", "renderer", "canvas">>
Needs(r) ==
    CASE r = "listener" -> {"controls", "listener"}
      [] r = "canvas" -> {"renderer", "canvas"}
      [] OTHER -> {r}

Attempted(held) == {r \in ToSet(Attempts) : Needs(r) \subseteq held}

(* Mutant: a release that throws abandons the cleanup.                     *)
FreedUntilThrow(held, throws) ==
    {Attempts[i] : i \in {j \in DOMAIN Attempts :
        Attempts[j] \in Attempted(held) /\ \A k \in 1 .. j : Attempts[k] \notin throws}}

(* Every release is an attempt of its own.                                 *)
Freed(held, throws) == Attempted(held) \ throws

(* The model releases what its dispose meets in the scene graph.           *)
Forgotten(freed) == IF "model" \in freed THEN Created \ Disposed ELSE {}

(* A cleanup in which none or one of the releases throws: what is left     *)
(* besides what threw, and the failures.                                   *)
Cleanups(held) ==
    {[lost |-> ((held \ Freed(held, t)) \ t) \union Forgotten(Freed(held, t)),
      cost |-> Cardinality(t)] : t \in {{}} \union {{r} : r \in Attempted(held)}}

(* The cleanups of a scene, by what it may hold.                           *)
Undrawn == {{}} \union {Acquired(d, Len(Order)) : d \in BOOLEAN}
Holdings == Undrawn \union {WithShadow(h) : h \in Undrawn}
CleanupOfScene == [h \in Holdings |-> Cleanups(h)]

(* A step of the mount fails: what was acquired so far is cleaned up.      *)
CleanupOfMount ==
    [d \in BOOLEAN |->
        UNION {Cleanups(Acquired(d, i)) : i \in 0 .. Len(Order) - 1}]

-----------------------------------------------------------------------------
(* Effects: s is what they have done so far.  A scene that is not ready    *)
(* shows a text instead and holds nothing.                                 *)
Dressed(lamp) ==
    SetStatusStrip(SetHeadLight(SetJointPositions(lamp, shown.look.joints),
                                shown.look.color, shown.look.brightness),
                   shown.look.strip, shown.look.effect)

NewScene ==
    [key |-> shown.key, ready |-> TRUE, ticking |-> TRUE, lamp |-> Dressed(NewLamp),
     note |-> IF build.diagnosed THEN shown.look.joints ELSE None,
     onto |-> "canvas", seen |-> None, held |-> Acquired(build.diagnosed, Len(Order))]
Unavailable ==
    [NewScene EXCEPT !.ready = FALSE, !.ticking = FALSE, !.lamp = None, !.note = None,
                     !.held = {}]

Ready == life # None /\ life.ready
Wanted(p) == p.tab /\ p.look # None

Now == [life |-> life, leaked |-> leaked, cost |-> 0]
After(s, c, l) == [life |-> l, leaked |-> s.leaked \union c.lost, cost |-> s.cost + c.cost]

Closed(s) ==
    IF s.life = None THEN {s}
    ELSE IF ~s.life.ready THEN {[s EXCEPT !.life = None]}
    ELSE {After(s, c, None) : c \in CleanupOfScene[s.life.held]}

Opened(s) ==
    {[s EXCEPT !.life = NewScene]}
    \union {After([s EXCEPT !.cost = @ + 1], c, Unavailable) :
              c \in CleanupOfMount[build.diagnosed]}

FirstMounts == UNION {Opened(s) : s \in Closed(Now)}
SecondMounts ==
    LET again == UNION {Closed(s) : s \in FirstMounts}
    IN UNION {Opened(s) : s \in again}

Mounts == IF build.strict THEN SecondMounts ELSE FirstMounts

(* The prop effects of a scene that stays; the mask is measured again.     *)
Drawn ==
    IF ~life.ready THEN {Now}
    ELSE {[Now EXCEPT !.life =
             [life EXCEPT !.lamp = Dressed(@),
                          !.note = IF build.diagnosed THEN shown.look.joints ELSE None]]}

(* Mutant: the scene is keyed by its target only.                          *)
StaysSameTarget == life # None /\ Wanted(shown)

Stays == life # None /\ Wanted(shown) /\ life.key = shown.key

AfterEffects ==
    IF Stays THEN Drawn ELSE IF Wanted(shown) THEN Mounts ELSE Closed(Now)

-----------------------------------------------------------------------------
Init ==
    /\ build \in [strict : BOOLEAN, diagnosed : BOOLEAN]
    /\ page = [tab |-> TRUE, key |-> 0, look |-> None]
    /\ stirred = FALSE /\ shown = page /\ due = FALSE /\ life = None
    /\ leaked = {} /\ refused = FALSE /\ crashed = FALSE /\ faults = 0

Asked(p) ==
    /\ page' = p /\ stirred' = TRUE
    /\ UNCHANGED <<build, shown, due, life, leaked, crashed, faults>>

(* A message arrives.  One that is refused is dropped, and nothing moves.  *)
Hear ==
    /\ ~crashed
    /\ refused' = (refused \/ SomethingIsRefused)
    /\ \E look \in Brought : Asked([page EXCEPT !.look = look])

SelectTarget ==
    /\ ~crashed /\ page.key < MaxEpoch
    /\ UNCHANGED refused
    /\ \E look \in Brought : Asked([page EXCEPT !.key = @ + 1, !.look = look])

(* A click is rendered before the next.                                    *)
OpenWorkspace ==
    /\ ~crashed /\ page.tab = shown.tab
    /\ UNCHANGED refused
    /\ Asked([page EXCEPT !.tab = ~@])

(* React runs the effects of one render before the next.                   *)
Render ==
    /\ ~crashed /\ ~due /\ stirred
    /\ stirred' = FALSE /\ shown' = page /\ due' = TRUE
    /\ UNCHANGED <<build, page, life, leaked, refused, crashed, faults>>

Flush ==
    /\ due
    /\ \E s \in AfterEffects :
         /\ faults + s.cost <= MaxFaults
         /\ life' = s.life /\ leaked' = s.leaked /\ faults' = faults + s.cost
    /\ due' = FALSE
    /\ UNCHANGED <<build, page, stirred, shown, refused, crashed>>

(* diagnostics.update throws in a prop effect, of a scene that stays or of *)
(* one just mounted, the first time or in strict mode the second: no error *)
(* boundary, so React unmounts the page.                                   *)
Measuring ==
    IF Stays THEN {Now} ELSE FirstMounts \union Mounts

Crash ==
    /\ due /\ Wanted(shown) /\ build.diagnosed
    /\ \E s \in Measuring :
         /\ s.life.ready
         /\ \E t \in Closed([s EXCEPT !.cost = @ + 1]) :
              /\ faults + t.cost <= MaxFaults
              /\ leaked' = t.leaked /\ faults' = faults + t.cost
    /\ life' = None /\ due' = FALSE /\ crashed' = TRUE
    /\ UNCHANGED <<build, page, stirred, shown, refused>>

-----------------------------------------------------------------------------
(* Frames and the diagnostics' mask                                        *)
(* Mutant: the renderer's target is put back only after a good reading.    *)
TargetAfterUnguarded(good) == IF good THEN "canvas" ELSE "mask"

(* update of the diagnostics draws the model alone into a mask.            *)
TargetAfter(good) == "canvas"

(* A mask is read, the model is out of sight, or a step throws.            *)
Measured(good) ==
    [life EXCEPT !.onto = TargetAfter(good),
                 !.note = IF good THEN life.lamp.pivots ELSE @]
OutOfSight == [life EXCEPT !.note = None]

Changed(l, fault) ==
    /\ life' = l /\ faults' = faults + fault
    /\ UNCHANGED <<build, page, stirred, shown, due, leaked, refused, crashed>>

(* A frame draws the whole scene where the renderer draws to.              *)
Painted(l) ==
    LET lamp == Update(l.lamp)
    IN [l EXCEPT !.lamp = lamp,
                 !.seen = IF l.onto = "canvas" THEN Picture(lamp) ELSE @,
                 !.held = WithShadow(@)]

Frame ==
    /\ Ready /\ life.ticking
    /\ \/ Changed(Painted(life), 0)
       \/ build.diagnosed /\ Changed(Painted(Measured(TRUE)), 0)
       \/ build.diagnosed /\ Changed(Painted(OutOfSight), 0)

(* The listener throws inside controls.update: no frame is asked for.      *)
FrameFails ==
    /\ Ready /\ life.ticking /\ build.diagnosed /\ faults < MaxFaults
    /\ Changed([Measured(FALSE) EXCEPT !.ticking = FALSE], 1)

Resize ==
    /\ Ready /\ build.diagnosed
    /\ \/ Changed(Measured(TRUE), 0)
       \/ Changed(OutOfSight, 0)
       \/ faults < MaxFaults /\ Changed(Measured(FALSE), 1)

Next ==
    \/ Hear \/ SelectTarget \/ OpenWorkspace
    \/ Render \/ Flush \/ Crash
    \/ Frame \/ FrameFails \/ Resize

Spec == Init /\ [][Next]_vars

(* React's scheduler runs what it was given, and a visible page is given   *)
(* frames.                                                                 *)
FairSpec ==
    Spec /\ WF_vars(Render) /\ WF_vars(Flush) /\ WF_vars(Frame)

-----------------------------------------------------------------------------
(* The types, taken from the looks that states bring.                      *)
Given == Looks \ {None}

Poses == {NewLamp.pivots} \union {look.joints : look \in Given}
Effects == {NewLamp.strip.effect} \union {look.effect : look \in Given}
Strips == {NewLamp.strip.emitted} \union {look.strip : look \in Given}
Clock == Unclocked .. LongSince
Lights ==
    [color : {NewLamp.light.color} \union {look.color : look \in Given},
     brightness : {NewLamp.light.brightness} \union {look.brightness : look \in Given}]

Lamps ==
    [pivots : Poses, light : Lights,
     strip : [emitted : Strips, surface : Strips \union {BLACK, "darkened"},
              effect : Effects, since : Clock]]

Seen ==
    [pivots : Poses, light : Lights, color : Strips,
     levels : {StatusStripLevels(e, t, 12) : e \in Effects, t \in Clock}]

Scenes ==
    [key : 0 .. MaxEpoch, ready : BOOLEAN, ticking : BOOLEAN,
     lamp : Lamps \union {None}, note : Poses \union {None},
     onto : {"canvas", "mask"}, seen : Seen \union {None}, held : Holdings]

ASSUME NoSceneAssumption == None \notin Scenes

Pages == [tab : BOOLEAN, key : 0 .. MaxEpoch, look : Looks \union {None}]

TypeOK ==
    /\ build \in [strict : BOOLEAN, diagnosed : BOOLEAN]
    /\ page \in Pages /\ shown \in Pages
    /\ life \in Scenes \union {None}
    /\ Ready => life.lamp \in Lamps
    /\ leaked \subseteq Resources \union Created
    /\ {stirred, due, refused, crashed} \subseteq BOOLEAN
    /\ faults \in 0 .. MaxFaults

Broken == crashed \/ (life # None /\ (~life.ready \/ ~life.ticking))

Shows(lamp, look) ==
    /\ lamp.pivots = look.joints
    /\ lamp.light = [color |-> look.color, brightness |-> look.brightness]
    /\ lamp.strip.emitted = look.strip /\ lamp.strip.effect = look.effect

(* The picture of a look when the strip's effect is over.                  *)
Final(look) ==
    [pivots |-> look.joints,
     light |-> [color |-> look.color, brightness |-> look.brightness],
     color |-> look.strip, levels |-> [i \in 0 .. 11 |-> 100]]

Pictures(seen, look) == [Final(look) EXCEPT !.levels = seen.levels] = seen

(* What the gateway and the agent let out is read by the page, and what    *)
(* the page's controls and its composer send by the gateway, the simulator *)
(* and the agent: the validators are written twice, in Python and in       *)
(* TypeScript.  Refused are, at most: extensions that are null, times in   *)
(* other digits than ASCII's, blank messages of errors, texts whose length *)
(* or blanks the two languages see differently, identifiers made without   *)
(* crypto.randomUUID, and sensor ids from 10^21 on.                        *)
BothEndsAgree == ~refused

(* Whatever step of opening fails and whatever release throws, of a scene  *)
(* that is gone only what threw is left, and the shadow map of its light,  *)
(* for which cleanup has no attempt: all else that a mount, a frame or a   *)
(* measurement acquires is in cleanup's list, with a condition that is met.*)
NothingLeaks == leaked \subseteq {"shadow"}

(* Once the effects have run, there is a scene exactly when one is wanted, *)
(* it is the one of the target shown, and its model and the measured mask  *)
(* are those of the state shown.                                           *)
SceneIsTrue ==
    ~due /\ ~crashed =>
        /\ (life # None) = Wanted(shown)
        /\ life # None => life.key = shown.key
        /\ Ready => /\ Shows(life.lamp, shown.look)
                    /\ life.note \in {None, shown.look.joints}

(* Once the states that come are all alike, that state is seen on the      *)
(* canvas and stays, also after diagnostics that failed, unless the scene  *)
(* is unavailable or its frames have ended.                                *)
DrawsNewest ==
    \A look \in Looks \ {None} :
        <>[](page.tab /\ page.look = look) =>
            <>[](Broken \/ (Ready /\ life.seen # None /\ Pictures(life.seen, look)))

(* Once no more states come, the strip's effect runs to its end and what   *)
(* is seen stays: with a state every moment a fade never ends.             *)
FadeEnds ==
    \A look \in Looks \ {None} :
        <>[](page.tab /\ page.look = look /\ ~stirred) =>
            <>[](Broken \/ (Ready /\ life.seen = Final(look)))
=============================================================================
