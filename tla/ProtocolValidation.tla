-------------------------- MODULE ProtocolValidation --------------------------
(***************************************************************************)
(* What the Python side accepts of Protocol v1: lefly_protocol             *)
(* (packages/lefly-protocol/src/lefly_protocol/validation.py, messages.py, *)
(* catalog.py), which every target, the router and the gateway rely on.    *)
(*                                                                         *)
(* A JSON value is a record whose one field names its kind.  Numbers are   *)
(* counted in halves; "dot" tells 1.0 from 1, which Python keeps apart.    *)
(* A format (an identifier, a color, a time) is the set of its strings.    *)
(* "wide" is a time in digits that are not ASCII ones, "U+FEFF" and        *)
(* "U+001C" are texts of that one character.                               *)
(***************************************************************************)
EXTENDS Integers, Sequences, SequencesExt, FiniteSets

Str(s) == [str |-> s]
Whole(n) == [num |-> 2 * n, dot |-> FALSE]
Halves(h) == [num |-> h, dot |-> TRUE]
Bool(b) == [bool |-> b]
Null == [null |-> TRUE]
Obj(f) == [obj |-> f]
Arr(s) == [arr |-> s]

IsStr(v) == "str" \in DOMAIN v
IsNum(v) == "num" \in DOMAIN v
IsBool(v) == "bool" \in DOMAIN v
IsObj(v) == "obj" \in DOMAIN v
IsArr(v) == "arr" \in DOMAIN v

(* The strings of each format, in these instances.                         *)
Version == {"1"}
Uuid == {"id1"}
Timestamp == {"t1", "wide"}     \* Python's \d is any decimal digit
DeviceId == {"lefly"}
ActionId == {"nod", "rest", "relative_move", "absolute_move", "base_yaw",
             "base_pitch", "elbow_pitch", "wrist_roll", "wrist_pitch",
             "head_matrix", "preempted", "offline"}
Color == {"#000000", "#FFFFFF", "#F1A22E", "#20A8B5", "#2F9D68", "#F05D5E",
          "#F6D7A8", "#FFD33D", "#438CFF"}
Extension == {"lab.note"}

CommandTypes == {"motion.play", "motion.relative_move", "motion.absolute_move",
                 "light.solid", "light.paint", "light.brightness",
                 "status.set", "device.rest", "device.get_state"}
EventTypes == {"command.accepted", "sensor.touch", "sensor.vision.gesture",
               "sensor.vision.face", "motion.started", "motion.progress",
               "motion.finished", "device.state_changed", "device.error"}
MessageType == CommandTypes \union EventTypes \union {"robot.custom"}
StatusModes == {"starting", "resting", "active", "listening", "thinking",
                "speaking", "error"}
StatusEffects == {"fade", "breath", "solid", "marquee", "level_sweep", "blink"}
MotionTypes == {"motion.play", "motion.relative_move", "motion.absolute_move",
                "device.rest"}

-----------------------------------------------------------------------------
(* Fields                                                                  *)
PyMatch(v, format) == IsStr(v) /\ v.str \in format
PyText(v) == IsStr(v) /\ v.str # ""

(* str.strip: a separator counts as a blank, a byte order mark does not.   *)
Strip(s) ==
    CASE s = " hi " -> "hi" [] s \in {" ", "U+001C"} -> "" [] OTHER -> s

PyEnum(v, choices) == IsStr(v) /\ v.str \in choices
PyNumberRange(v, min, max) == IsNum(v) /\ 2 * min <= v.num /\ v.num <= 2 * max
PyInteger(v, min) == IsNum(v) /\ ~v.dot /\ 2 * min <= v.num
PyIntegerRange(v, min, max) == PyInteger(v, min) /\ v.num <= 2 * max

PyKeys(p, required, optional) ==
    required \subseteq DOMAIN p /\ DOMAIN p \subseteq required \union optional

(* A null is no extensions.                                                *)
PyExtensions(p) ==
    "extensions" \in DOMAIN p /\ p["extensions"] # Null =>
        IsObj(p["extensions"]) /\ DOMAIN p["extensions"].obj \subseteq Extension

PyFields(v, required) == IsObj(v) /\ PyKeys(v.obj, required, {})

PyUnique(s, Name(_)) ==
    \A i, j \in DOMAIN s : Name(s[i]) = Name(s[j]) => i = j

PyUniqueTexts(v, format) ==
    /\ IsArr(v)
    /\ \A i \in DOMAIN v.arr : PyMatch(v.arr[i], format)
    /\ PyUnique(v.arr, LAMBDA x : x)

PyJointNumbers(v) ==
    /\ IsObj(v)
    /\ \A name \in DOMAIN v.obj : name \in ActionId /\ IsNum(v.obj[name])

PyColors(v) ==
    IsArr(v) /\ v.arr # <<>> /\ \A i \in DOMAIN v.arr : PyMatch(v.arr[i], Color)

PyError(v) ==
    /\ PyFields(v, {"code", "message", "recoverable", "details"})
    /\ PyMatch(v.obj["code"], ActionId) /\ PyText(v.obj["message"])
    /\ IsBool(v.obj["recoverable"])
    /\ v.obj["details"] = Null \/ IsObj(v.obj["details"])

-----------------------------------------------------------------------------
(* A device state                                                          *)
PyPreset(v) ==
    /\ PyFields(v, {"name", "label"}) /\ PyMatch(v.obj["name"], ActionId)
    /\ v.obj["label"] = Null \/ PyText(v.obj["label"])

PyLight(v) ==
    /\ PyFields(v, {"target", "kind", "width", "height"})
    /\ PyMatch(v.obj["target"], ActionId) /\ PyEnum(v.obj["kind"], {"rgb_matrix"})
    /\ PyInteger(v.obj["width"], 1) /\ PyInteger(v.obj["height"], 1)

PyMotionCapability(v) ==
    /\ PyFields(v, {"joints", "presets"})
    /\ PyUniqueTexts(v.obj["joints"], ActionId)
    /\ IsArr(v.obj["presets"])
    /\ LET presets == v.obj["presets"].arr IN
         /\ \A i \in DOMAIN presets : PyPreset(presets[i])
         /\ PyUnique(presets, LAMBDA p : p.obj["name"])

PyCapabilities(v) ==
    /\ PyFields(v, {"commands", "events", "motion", "lights"})
    /\ IsObj(v.obj["commands"])
    /\ LET commands == v.obj["commands"].obj IN
         \A name \in DOMAIN commands :
            /\ name \in MessageType /\ PyFields(commands[name], {"scope"})
            /\ PyEnum(commands[name].obj["scope"], {"control", "system"})
    /\ PyUniqueTexts(v.obj["events"], MessageType)
    /\ PyMotionCapability(v.obj["motion"])
    /\ IsArr(v.obj["lights"])
    /\ \A i \in DOMAIN v.obj["lights"].arr : PyLight(v.obj["lights"].arr[i])

PyJoint(v) ==
    /\ PyFields(v, {"pos", "min", "max"})
    /\ \A f \in {"pos", "min", "max"} : IsNum(v.obj[f])
    /\ v.obj["min"].num <= v.obj["pos"].num
    /\ v.obj["pos"].num <= v.obj["max"].num

PyMotionState(v, names) ==
    /\ PyFields(v, {"state", "action", "joints"})
    /\ PyEnum(v.obj["state"], {"idle", "moving", "error"})
    /\ IF v.obj["state"].str = "moving" THEN PyMatch(v.obj["action"], ActionId)
       ELSE v.obj["action"] = Null
    /\ IsObj(v.obj["joints"]) /\ DOMAIN v.obj["joints"].obj = names
    /\ \A name \in names : PyJoint(v.obj["joints"].obj[name])

PyLightState(v, lights) ==
    /\ PyFields(v, {"brightness", "matrix", "pixels"})
    /\ PyNumberRange(v.obj["brightness"], 0, 1)
    /\ PyFields(v.obj["matrix"], {"width", "height"})
    /\ LET m == v.obj["matrix"].obj
           head == {i \in DOMAIN lights : lights[i].obj["target"] = Str("head_matrix")}
       IN /\ PyInteger(m["width"], 1) /\ PyInteger(m["height"], 1)
          /\ PyColors(v.obj["pixels"])
          /\ 4 * Len(v.obj["pixels"].arr) = m["width"].num * m["height"].num
          /\ Cardinality(head) = 1
          /\ \A i \in head : /\ lights[i].obj["width"] = m["width"]
                            /\ lights[i].obj["height"] = m["height"]

PyQueue(v) ==
    /\ PyFields(v, {"size", "capacity"})
    /\ PyInteger(v.obj["size"], 0) /\ PyInteger(v.obj["capacity"], 0)
    /\ v.obj["size"].num <= v.obj["capacity"].num

StateFields == {"device_id", "revision", "connection", "capabilities", "motion",
                "light", "status", "status_strip", "command_queue"}

(* validate_state                                                          *)
PyState(v, device) ==
    /\ IsObj(v) /\ PyKeys(v.obj, StateFields, {"extensions"})
    /\ PyMatch(v.obj["device_id"], DeviceId) /\ v.obj["device_id"] = device
    /\ PyInteger(v.obj["revision"], 0)
    /\ PyEnum(v.obj["connection"], {"connecting", "ready", "degraded", "offline"})
    /\ PyCapabilities(v.obj["capabilities"])
    /\ LET caps == v.obj["capabilities"].obj IN
         /\ PyMotionState(v.obj["motion"],
              {x.str : x \in ToSet(caps["motion"].obj["joints"].arr)})
         /\ PyLightState(v.obj["light"], caps["lights"].arr)
    /\ PyFields(v.obj["status"], {"mode"})
    /\ PyEnum(v.obj["status"].obj["mode"], StatusModes)
    /\ PyFields(v.obj["status_strip"], {"color", "effect"})
    /\ PyMatch(v.obj["status_strip"].obj["color"], Color)
    /\ PyEnum(v.obj["status_strip"].obj["effect"], StatusEffects)
    /\ PyQueue(v.obj["command_queue"])
    /\ PyExtensions(v.obj)

-----------------------------------------------------------------------------
(* Events and commands                                                     *)
PyStarted(p) ==
    /\ PyEnum(p["command_type"], MotionTypes)
    /\ PyMatch(p["action"], ActionId)
    /\ PyIntegerRange(p["duration_ms"], 1, 60000)
    /\ p["command_type"].str = "motion.relative_move" =>
         p["action"].str = "relative_move"
    /\ p["command_type"].str = "motion.absolute_move" =>
         p["action"].str = "absolute_move"
    /\ p["command_type"].str = "device.rest" => p["action"].str = "rest"

PyFinished(p) ==
    /\ PyMatch(p["action"], ActionId)
    /\ PyEnum(p["status"], {"completed", "cancelled", "failed"})
    /\ PyInteger(p["elapsed_ms"], 0) /\ PyJointNumbers(p["joints"])
    /\ CASE p["status"].str = "completed" ->
              p["reason"] = Null /\ p["error"] = Null
         [] p["status"].str = "cancelled" ->
              PyMatch(p["reason"], ActionId) /\ p["error"] = Null
         [] p["status"].str = "failed" ->
              p["reason"] = Null /\ PyError(p["error"])

PyVision(p) ==
    /\ PyInteger(p["id"], 0)
    /\ p["label"] = Null \/ PyText(p["label"])
    /\ p["confidence"] = Null \/ PyNumberRange(p["confidence"], 0, 1)

EventFields(type) ==
    CASE type = "command.accepted" -> {"command_type", "disposition"}
      [] type = "sensor.touch" -> {"position", "pressed"}
      [] type \in {"sensor.vision.gesture", "sensor.vision.face"} ->
           {"id", "label", "confidence"}
      [] type = "motion.started" -> {"command_type", "action", "duration_ms"}
      [] type = "motion.progress" -> {"action", "progress", "elapsed_ms", "joints"}
      [] type = "motion.finished" ->
           {"action", "status", "elapsed_ms", "joints", "reason", "error"}

PyEventPayload(type, p, device) ==
    CASE type = "device.state_changed" -> PyState(Obj(p), device)
      [] type = "device.error" -> PyError(Obj(p))
      [] OTHER ->
           /\ PyKeys(p, EventFields(type), {"extensions"})
           /\ CASE type = "command.accepted" ->
                     /\ PyEnum(p["command_type"], CommandTypes)
                     /\ PyEnum(p["disposition"], {"applied", "queued"})
                [] type = "sensor.touch" ->
                     /\ PyEnum(p["position"], {"left", "middle", "right"})
                     /\ IsBool(p["pressed"])
                [] type = "motion.started" -> PyStarted(p)
                [] type = "motion.progress" ->
                     /\ PyMatch(p["action"], ActionId)
                     /\ PyNumberRange(p["progress"], 0, 1)
                     /\ PyInteger(p["elapsed_ms"], 0)
                     /\ PyJointNumbers(p["joints"])
                [] type = "motion.finished" -> PyFinished(p)
                [] OTHER -> PyVision(p)

EnvelopeFields == {"version", "id", "type", "timestamp", "device_id", "payload"}
Correlated == {"command.accepted", "motion.started", "motion.progress",
               "motion.finished"}
Sensors == {"sensor.touch", "sensor.vision.gesture", "sensor.vision.face"}

(* from_dict: an absent correlation_id and a null one are the same.        *)
HasCorrelation(e) ==
    "correlation_id" \in DOMAIN e /\ e["correlation_id"] # Null

PyEnvelope(e) ==
    /\ PyKeys(e, EnvelopeFields, {"correlation_id"})
    /\ PyMatch(e["version"], Version) /\ PyMatch(e["id"], Uuid)
    /\ PyMatch(e["type"], MessageType) /\ PyMatch(e["timestamp"], Timestamp)
    /\ PyMatch(e["device_id"], DeviceId) /\ IsObj(e["payload"])
    /\ HasCorrelation(e) => PyMatch(e["correlation_id"], Uuid)

(* DeviceEvent.from_dict.  An unknown type is only an envelope.            *)
PyEvent(e) ==
    /\ PyEnvelope(e)
    /\ LET type == e["type"].str IN
         type \in EventTypes =>
            /\ type \in Correlated => HasCorrelation(e)
            /\ type \in Sensors => ~HasCorrelation(e)
            /\ PyEventPayload(type, e["payload"].obj, e["device_id"])
            /\ PyExtensions(e["payload"].obj)

(* to_dict, on its way to the next hop: a null correlation_id is left out. *)
Forwarded(e) ==
    [f \in DOMAIN e \ (IF HasCorrelation(e) THEN {} ELSE {"correlation_id"})
       |-> e[f]]

CommandFields(type) ==
    CASE type = "motion.play" -> {"name"}
      [] type \in {"motion.relative_move", "motion.absolute_move"} ->
           {"joints", "duration_ms"}
      [] type = "light.solid" -> {"target", "color"}
      [] type = "light.paint" -> {"target", "pixels"}
      [] type = "light.brightness" -> {"target", "brightness"}
      [] type = "status.set" -> {"mode"}
      [] type \in {"device.rest", "device.get_state"} -> {}

(* DeviceCommand.from_dict                                                 *)
PyCommand(c) ==
    /\ PyEnvelope(c) /\ ~HasCorrelation(c)
    /\ LET type == c["type"].str
           p == c["payload"].obj
       IN type \in CommandTypes =>
            /\ PyKeys(p, CommandFields(type), {"extensions"})
            /\ "name" \in DOMAIN p => PyMatch(p["name"], ActionId)
            /\ "joints" \in DOMAIN p =>
                 /\ PyJointNumbers(p["joints"]) /\ DOMAIN p["joints"].obj # {}
                 /\ PyIntegerRange(p["duration_ms"], 1, 60000)
            /\ "target" \in DOMAIN p => p["target"] = Str("head_matrix")
            /\ "color" \in DOMAIN p => PyMatch(p["color"], Color)
            /\ "pixels" \in DOMAIN p => PyColors(p["pixels"])
            /\ "brightness" \in DOMAIN p => PyNumberRange(p["brightness"], 0, 1)
            /\ "mode" \in DOMAIN p => PyEnum(p["mode"], StatusModes)
            /\ PyExtensions(p)
=============================================================================
