------------------------------- MODULE Controls ------------------------------
(***************************************************************************)
(* What the controls of the page send, given the state it shows:           *)
(* App.tsx, features/overview/Overview.tsx, features/motion,               *)
(* features/lighting and features/sensors (packages/lefly-console-web/src);*)
(* and what the simulator makes of an injected sensor (engine.py).         *)
(*                                                                         *)
(* The page is online and in control, and no command of its own is         *)
(* pending.                                                                *)
(***************************************************************************)
EXTENDS WireMessages

(* JavaScript writes a whole number without a fraction, and from 10^21 on  *)
(* with an exponent, which Python reads as a float.                        *)
Exponent == 2000000000          \* stands for 10^21
Number(h) == [num |-> h, dot |-> h % 2 # 0 \/ h >= Exponent]

HeadMatrixName == Str("head_matrix")

-----------------------------------------------------------------------------
(* App                                                                     *)
(* disabledReason: the capability, and for a motion that nothing moves.    *)
Supports(s, capability) ==
    LET commands == s["capabilities"].obj["commands"].obj IN
    /\ s["connection"] # Str("offline")
    /\ capability \in DOMAIN commands
    /\ commands[capability].obj["scope"] = Str("control")

MotionIsBusy(s) ==
    s["motion"].obj["state"] = Str("moving") \/ s["command_queue"].obj["size"].num > 0

SendCommand(s, capability, payload, motionStart) ==
    IF Supports(s, capability) /\ ~(motionStart /\ MotionIsBusy(s))
    THEN {With(Envelope(capability, payload), "device_id", s["device_id"])}
    ELSE {}

(* absoluteMoveDisabledReason: every joint is known, every target in range.*)
InRange(s, joints) ==
    LET known == s["motion"].obj["joints"].obj IN
    /\ DOMAIN joints # {} /\ DOMAIN joints \subseteq DOMAIN known
    /\ \A name \in DOMAIN joints :
         /\ known[name].obj["min"].num <= joints[name]
         /\ joints[name] <= known[name].obj["max"].num

MovePayload(joints, ms) ==
    [joints |-> Obj([name \in DOMAIN joints |-> Number(joints[name])]),
     duration_ms |-> Whole(ms)]

(* On a remote device the dialog asks first, and sends the same.           *)
RequestAbsoluteMove(s, joints) ==
    IF InRange(s, joints)
    THEN SendCommand(s, "motion.absolute_move", MovePayload(joints, 300), TRUE)
    ELSE {}

-----------------------------------------------------------------------------
(* Overview                                                                *)
Telemetry(s) == LEFLY_JOINT_NAMES \subseteq DOMAIN s["motion"].obj["joints"].obj
Positions(s) ==
    [name \in LEFLY_JOINT_NAMES |->
        s["motion"].obj["joints"].obj[name].obj["pos"].num]

(* The slider of a joint goes from its least to its greatest position.     *)
SliderValues(s, name) ==
    LET joint == s["motion"].obj["joints"].obj[name].obj
    IN {joint["min"].num, joint["max"].num}

(* One slider is moved.                                                    *)
SliderDrafts(s) ==
    UNION {{[x \in {name} |-> v] : v \in SliderValues(s, name)} :
             name \in LEFLY_JOINT_NAMES}

SendSimulatorJoint(s) ==
    IF ~Telemetry(s) THEN {}
    ELSE UNION {SendCommand(s, "motion.absolute_move", MovePayload(draft, 100), TRUE) :
                  draft \in SliderDrafts(s)}

ApplyRemoteJointDraft(s) ==
    IF ~Telemetry(s) THEN {}
    ELSE UNION {RequestAbsoluteMove(s, draft) : draft \in SliderDrafts(s)}

PlayPresets(s) ==
    UNION {SendCommand(s, "motion.play", [name |-> p.obj["name"]], TRUE) :
             p \in ToSet(s["capabilities"].obj["motion"].obj["presets"].arr)}

EnterStandby(s) == SendCommand(s, "device.rest", <<>>, TRUE)

Brightness(s, h) ==
    SendCommand(s, "light.brightness",
                [target |-> HeadMatrixName, brightness |-> Number(h)], FALSE)
Solid(s, color) ==
    SendCommand(s, "light.solid",
                [target |-> HeadMatrixName, color |-> color], FALSE)

QUICK_COLORS == {"#FFFFFF", "#F1A22E", "#20A8B5", "#2F9D68", "#F05D5E"}

QuickBrightness(s) == UNION {Brightness(s, h) : h \in 0 .. 2}
QuickColors(s) == UNION {Solid(s, Str(c)) : c \in QUICK_COLORS}
LightOff(s) == Brightness(s, 0)

(* A brightness between none and all stands for each one of them.          *)
HEAD_LIGHT_PRESETS ==
    {[color |-> Str("#FFFFFF"), brightness |-> 2]}
    \union {[color |-> Str(c), brightness |-> 1] : c \in {"#F1A22E", "#20A8B5", "#F6D7A8"}}
    \union {[color |-> Null, brightness |-> 0]}

ApplyHeadLightPreset(s, preset) ==
    IF preset.color = Null THEN Brightness(s, preset.brightness)
    ELSE LET colorSent == Solid(s, preset.color) IN
         IF colorSent = {} THEN {} ELSE colorSent \union Brightness(s, preset.brightness)

LightPresets(s) ==
    UNION {ApplyHeadLightPreset(s, p) : p \in {q \in HEAD_LIGHT_PRESETS :
              /\ Supports(s, "light.brightness")
              /\ q.color # Null => Supports(s, "light.solid")}}

-----------------------------------------------------------------------------
(* MotionPanel and LightingPanel                                           *)
Shortcuts(s) ==
    UNION {RequestAbsoluteMove(s, [base_yaw |-> v]) : v \in {120, 0, -120}}

(* The draft starts from the positions shown.                              *)
ApplyMotionDraft(s) ==
    IF ~Telemetry(s) THEN {}
    ELSE LET draft == Positions(s)
         IN RequestAbsoluteMove(s, draft)
            \union UNION {RequestAbsoluteMove(s, [draft EXCEPT !["base_yaw"] = v]) :
                            v \in SliderValues(s, "base_yaw")}

COLORS == {"#FFFFFF", "#FFD33D", "#F1A22E", "#F05D5E", "#2F9D68", "#20A8B5",
           "#438CFF"}

(* The drafts start from the first pixel and the brightness shown.         *)
ApplyLightDrafts(s) ==
    IF ~(Supports(s, "light.solid") /\ Supports(s, "light.brightness")) THEN {}
    ELSE LET reported == s["light"].obj
         IN (UNION {Solid(s, c) : c \in {Str(x) : x \in COLORS} \union {reported["pixels"].arr[1]}})
            \union UNION {Brightness(s, h) : h \in 0 .. 2 \union {reported["brightness"].num}}

FromControls(s) ==
    UNION {SendSimulatorJoint(s), ApplyRemoteJointDraft(s), PlayPresets(s),
           EnterStandby(s), QuickBrightness(s), QuickColors(s), LightOff(s),
           LightPresets(s), Shortcuts(s), ApplyMotionDraft(s), ApplyLightDrafts(s)}

(* defaultId: without crypto.randomUUID, an identifier of the page's own.  *)
Ids == {"id1", "cmd-1"}

FromPage ==
    {With(c, "id", Str(id)) :
        c \in UNION {FromControls(s) : s \in {t \in States : IsDeviceState(Obj(t))}},
        id \in Ids}

(* Neither side takes that identifier for a UUID.                          *)
KnownFromPage(c) == c["id"] = Str("cmd-1")

-----------------------------------------------------------------------------
(* SensorsPanel, and _validate_sensor of the simulator                     *)
TouchControls ==
    {[sensor_type |-> "touch", payload |-> [position |-> Str(p)]] :
        p \in {"left", "middle", "right"}}

(* A label is sent without its blanks, or not at all.                      *)
InjectId(type, id, label) ==
    [sensor_type |-> type,
     payload |-> IF Trim(label) = "" THEN [id |-> Number(id)]
                 ELSE [id |-> Number(id), label |-> Str(Trim(label))]]

Injections ==
    TouchControls \union
    {InjectId(type, id, label) : type \in {"gesture", "face"},
                                 id \in {0, 2, Exponent}, label \in Texts}

(* The field of the identifier has no greatest value.                      *)
KnownInjection(i) ==
    /\ i.sensor_type # "touch"
    /\ \/ i.payload["id"].num >= Exponent
       \/ "label" \in DOMAIN i.payload /\ Strip(i.payload["label"].str) = ""

TouchEvent(p) ==
    IF /\ DOMAIN p \subseteq {"position", "pressed"}
       /\ "position" \in DOMAIN p /\ PyEnum(p["position"], {"left", "middle", "right"})
       /\ "pressed" \in DOMAIN p => IsBool(p["pressed"])
    THEN {Envelope("sensor.touch",
            [position |-> p["position"],
             pressed |-> IF "pressed" \in DOMAIN p THEN p["pressed"] ELSE Bool(TRUE)])}
    ELSE {}

VisionType == [gesture |-> "sensor.vision.gesture", face |-> "sensor.vision.face"]

VisionEvent(type, p) ==
    LET Given(f) == IF f \in DOMAIN p THEN p[f] ELSE Null IN
    IF /\ DOMAIN p \subseteq {"id", "label", "confidence"}
       /\ "id" \in DOMAIN p /\ PyInteger(p["id"], 0)
       /\ \/ Given("label") = Null
          \/ IsStr(Given("label")) /\ Strip(Given("label").str) # ""
       /\ Given("confidence") = Null \/ PyNumberRange(Given("confidence"), 0, 1)
    THEN {Envelope(VisionType[type],
            [id |-> p["id"], label |-> Given("label"), confidence |-> Given("confidence")])}
    ELSE {}

(* The event an injection becomes, if it is accepted.                      *)
SensorEvents(i) ==
    IF i.sensor_type = "touch" THEN TouchEvent(i.payload)
    ELSE VisionEvent(i.sensor_type, i.payload)
=============================================================================
