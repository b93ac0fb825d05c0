---------------------------- MODULE DeviceProtocol ----------------------------
(***************************************************************************)
(* What the console page accepts of Protocol v1: deviceProtocol.ts, and    *)
(* of the console's own messages: protocol.ts (packages/                   *)
(* lefly-console-web/src).  What it refuses it drops: no state is stored,  *)
(* no revision observed, no command settled.                               *)
(***************************************************************************)
EXTENDS ProtocolValidation

COMMAND_TYPES == {"motion.play", "motion.relative_move", "motion.absolute_move",
                  "light.solid", "light.paint", "light.brightness", "status.set",
                  "device.rest", "device.get_state"}
EVENT_TYPES == {"command.accepted", "sensor.touch", "sensor.vision.gesture",
                "sensor.vision.face", "motion.started", "motion.progress",
                "motion.finished", "device.state_changed", "device.error"}
STATUS_MODES == {"starting", "resting", "active", "listening", "thinking",
                 "speaking", "error"}
STATUS_EFFECTS == {"fade", "breath", "solid", "marquee", "level_sweep", "blink"}

(* The patterns, as the strings of these instances that match them.        *)
UUID == {"id1"}
TIMESTAMP == {"t1"}             \* \d is an ASCII digit, and the year a real one
DEVICE_ID == {"lefly"}
MESSAGE_TYPE == COMMAND_TYPES \union EVENT_TYPES \union {"robot.custom"}
ACTION_ID == {"nod", "rest", "relative_move", "absolute_move", "base_yaw",
              "base_pitch", "elbow_pitch", "wrist_roll", "wrist_pitch",
              "head_matrix", "preempted", "offline"}
COLOR == {"#000000", "#FFFFFF", "#F1A22E", "#20A8B5", "#2F9D68", "#F05D5E",
          "#F6D7A8", "#FFD33D", "#438CFF"}
EXTENSION == {"lab.note"}

Matches(v, pattern) == IsStr(v) /\ v.str \in pattern
OneOf(v, choices) == IsStr(v) /\ v.str \in choices
NonEmpty(v) == IsStr(v) /\ v.str # ""
Between(v, min, max) == IsNum(v) /\ 2 * min <= v.num /\ v.num <= 2 * max

(* JavaScript does not tell 1.0 from 1.                                    *)
Integer(v, min) == IsNum(v) /\ v.num % 2 = 0 /\ 2 * min <= v.num

IntegerIn(v, min, max) == Integer(v, min) /\ v.num <= 2 * max

Keys(p, required, optional) ==
    /\ \A k \in required : k \in DOMAIN p
    /\ \A k \in DOMAIN p : k \in required \/ k \in optional

Exactly(v, required) == IsObj(v) /\ Keys(v.obj, required, {})

(* Only an absent field is no extensions: a null is refused.               *)
ValidExtensions(p) ==
    "extensions" \in DOMAIN p =>
        IsObj(p["extensions"]) /\ DOMAIN p["extensions"].obj \subseteq EXTENSION

Colors(v) ==
    IsArr(v) /\ v.arr # <<>> /\ \A i \in DOMAIN v.arr : Matches(v.arr[i], COLOR)

JointNumbers(v, nonempty) ==
    /\ IsObj(v)
    /\ nonempty => DOMAIN v.obj # {}
    /\ \A name \in DOMAIN v.obj : name \in ACTION_ID /\ IsNum(v.obj[name])

UniqueMatches(s, pattern) ==
    (\A i \in DOMAIN s : Matches(s[i], pattern)) /\ Cardinality(ToSet(s)) = Len(s)

IsProtocolError(v) ==
    /\ Exactly(v, {"code", "message", "recoverable", "details"})
    /\ Matches(v.obj["code"], ACTION_ID) /\ NonEmpty(v.obj["message"])
    /\ IsBool(v.obj["recoverable"])
    /\ IsObj(v.obj["details"]) \/ v.obj["details"] = Null

-----------------------------------------------------------------------------
(* isDeviceState                                                           *)
IsPreset(v) ==
    /\ Exactly(v, {"name", "label"})
    /\ Matches(v.obj["name"], ACTION_ID)
    /\ v.obj["label"] # Null => NonEmpty(v.obj["label"])

IsLight(v) ==
    /\ Exactly(v, {"target", "kind", "width", "height"})
    /\ Matches(v.obj["target"], ACTION_ID) /\ v.obj["kind"] = Str("rgb_matrix")
    /\ Integer(v.obj["width"], 1) /\ Integer(v.obj["height"], 1)

IsCapabilities(v) ==
    /\ Exactly(v, {"commands", "events", "motion", "lights"})
    /\ IsObj(v.obj["commands"]) /\ IsArr(v.obj["events"]) /\ IsArr(v.obj["lights"])
    /\ Exactly(v.obj["motion"], {"joints", "presets"})
    /\ LET commands == v.obj["commands"].obj
           joints == v.obj["motion"].obj["joints"]
           presets == v.obj["motion"].obj["presets"]
       IN /\ IsArr(joints) /\ IsArr(presets)
          /\ \A name \in DOMAIN commands :
               /\ name \in MESSAGE_TYPE /\ Exactly(commands[name], {"scope"})
               /\ OneOf(commands[name].obj["scope"], {"control", "system"})
          /\ UniqueMatches(v.obj["events"].arr, MESSAGE_TYPE)
          /\ UniqueMatches(joints.arr, ACTION_ID)
          /\ \A i \in DOMAIN presets.arr : IsPreset(presets.arr[i])
          /\ Cardinality({p.obj["name"] : p \in ToSet(presets.arr)})
               = Len(presets.arr)
          /\ \A i \in DOMAIN v.obj["lights"].arr : IsLight(v.obj["lights"].arr[i])

IsMotionState(v, names) ==
    /\ Exactly(v, {"state", "action", "joints"})
    /\ OneOf(v.obj["state"], {"idle", "moving", "error"})
    /\ IsObj(v.obj["joints"])
    /\ IF v.obj["state"] = Str("moving") THEN Matches(v.obj["action"], ACTION_ID)
       ELSE v.obj["action"] = Null
    /\ LET joints == v.obj["joints"].obj IN
         /\ Cardinality(DOMAIN joints) = Len(names)
         /\ \A name \in DOMAIN joints :
              /\ Str(name) \in ToSet(names) /\ Exactly(joints[name], {"pos", "min", "max"})
              /\ \A f \in {"pos", "min", "max"} : IsNum(joints[name].obj[f])
              /\ joints[name].obj["min"].num <= joints[name].obj["pos"].num
              /\ joints[name].obj["pos"].num <= joints[name].obj["max"].num

IsLightState(v, lights) ==
    /\ Exactly(v, {"brightness", "matrix", "pixels"})
    /\ Between(v.obj["brightness"], 0, 1)
    /\ Exactly(v.obj["matrix"], {"width", "height"})
    /\ LET w == v.obj["matrix"].obj["width"]
           h == v.obj["matrix"].obj["height"]
           head == {l \in ToSet(lights) : l.obj["target"] = Str("head_matrix")}
       IN /\ Integer(w, 1) /\ Integer(h, 1) /\ Colors(v.obj["pixels"])
          /\ 4 * Len(v.obj["pixels"].arr) = w.num * h.num
          /\ Cardinality({i \in DOMAIN lights : lights[i] \in head}) = 1
          /\ \A l \in head : l.obj["width"].num = w.num /\ l.obj["height"].num = h.num

(* Mutant: a full queue is refused.                                        *)
IsQueueWithRoom(v) ==
    /\ Exactly(v, {"size", "capacity"})
    /\ Integer(v.obj["size"], 0) /\ Integer(v.obj["capacity"], 0)
    /\ v.obj["size"].num < v.obj["capacity"].num

IsQueue(v) ==
    /\ Exactly(v, {"size", "capacity"})
    /\ Integer(v.obj["size"], 0) /\ Integer(v.obj["capacity"], 0)
    /\ v.obj["size"].num <= v.obj["capacity"].num

IsDeviceState(v) ==
    /\ IsObj(v)
    /\ Keys(v.obj, {"device_id", "revision", "connection", "capabilities",
                    "motion", "light", "status", "status_strip",
                    "command_queue"}, {"extensions"})
    /\ Matches(v.obj["device_id"], DEVICE_ID) /\ Integer(v.obj["revision"], 0)
    /\ OneOf(v.obj["connection"], {"connecting", "ready", "degraded", "offline"})
    /\ IsCapabilities(v.obj["capabilities"])
    /\ LET caps == v.obj["capabilities"].obj IN
         /\ IsMotionState(v.obj["motion"], caps["motion"].obj["joints"].arr)
         /\ IsLightState(v.obj["light"], caps["lights"].arr)
    /\ Exactly(v.obj["status"], {"mode"})
    /\ OneOf(v.obj["status"].obj["mode"], STATUS_MODES)
    /\ Exactly(v.obj["status_strip"], {"color", "effect"})
    /\ Matches(v.obj["status_strip"].obj["color"], COLOR)
    /\ OneOf(v.obj["status_strip"].obj["effect"], STATUS_EFFECTS)
    /\ IsQueue(v.obj["command_queue"])
    /\ ValidExtensions(v.obj)

-----------------------------------------------------------------------------
(* parseDeviceEvent and parseDeviceCommand                                 *)
ValidEnvelope(e, optional) ==
    /\ Keys(e, {"version", "id", "type", "timestamp", "device_id", "payload"},
            optional)
    /\ e["version"] = Str("1") /\ Matches(e["id"], UUID)
    /\ Matches(e["type"], MESSAGE_TYPE) /\ Matches(e["timestamp"], TIMESTAMP)
    /\ Matches(e["device_id"], DEVICE_ID) /\ IsObj(e["payload"])
    /\ "correlation_id" \in DOMAIN e => Matches(e["correlation_id"], UUID)

ExpectedAction(type, action) ==
    CASE type = "motion.relative_move" -> action.str = "relative_move"
      [] type = "motion.absolute_move" -> action.str = "absolute_move"
      [] type = "device.rest" -> action.str = "rest"
      [] OTHER -> TRUE

IsMotionStarted(p) ==
    /\ Keys(p, {"command_type", "action", "duration_ms"}, {"extensions"})
    /\ OneOf(p["command_type"], {"motion.play", "motion.relative_move",
                                 "motion.absolute_move", "device.rest"})
    /\ Matches(p["action"], ACTION_ID) /\ IntegerIn(p["duration_ms"], 1, 60000)
    /\ ExpectedAction(p["command_type"].str, p["action"])

IsMotionFinished(p) ==
    /\ Keys(p, {"action", "status", "elapsed_ms", "joints", "reason", "error"},
            {"extensions"})
    /\ Matches(p["action"], ACTION_ID) /\ Integer(p["elapsed_ms"], 0)
    /\ JointNumbers(p["joints"], FALSE)
    /\ \/ p["status"] = Str("completed") /\ p["reason"] = Null /\ p["error"] = Null
       \/ /\ p["status"] = Str("cancelled")
          /\ Matches(p["reason"], ACTION_ID) /\ p["error"] = Null
       \/ /\ p["status"] = Str("failed")
          /\ p["reason"] = Null /\ IsProtocolError(p["error"])

IsSensor(type, p) ==
    IF type = "sensor.touch"
    THEN /\ Keys(p, {"position", "pressed"}, {"extensions"})
         /\ OneOf(p["position"], {"left", "middle", "right"})
         /\ IsBool(p["pressed"])
    ELSE /\ Keys(p, {"id", "label", "confidence"}, {"extensions"})
         /\ Integer(p["id"], 0)
         /\ p["label"] # Null => NonEmpty(p["label"])
         /\ p["confidence"] # Null => Between(p["confidence"], 0, 1)

ValidEventPayload(e) ==
    LET type == e["type"].str
        p == e["payload"].obj
    IN /\ type \in Correlated => "correlation_id" \in DOMAIN e
       /\ type \in Sensors => "correlation_id" \notin DOMAIN e
       /\ CASE type = "command.accepted" ->
                 /\ Keys(p, {"command_type", "disposition"}, {"extensions"})
                 /\ OneOf(p["command_type"], COMMAND_TYPES)
                 /\ OneOf(p["disposition"], {"applied", "queued"})
            [] type \in Sensors -> IsSensor(type, p)
            [] type = "motion.started" -> IsMotionStarted(p)
            [] type = "motion.progress" ->
                 /\ Keys(p, {"action", "progress", "elapsed_ms", "joints"},
                         {"extensions"})
                 /\ Matches(p["action"], ACTION_ID) /\ Between(p["progress"], 0, 1)
                 /\ Integer(p["elapsed_ms"], 0) /\ JointNumbers(p["joints"], FALSE)
            [] type = "motion.finished" -> IsMotionFinished(p)
            [] type = "device.state_changed" ->
                 /\ IsDeviceState(e["payload"])
                 /\ p["device_id"] = e["device_id"]
            [] type = "device.error" -> IsProtocolError(e["payload"])
       /\ ValidExtensions(p)

(* An event of an unknown type is kept as it is.                           *)
ParseDeviceEvent(e) ==
    /\ ValidEnvelope(e, {"correlation_id"})
    /\ e["type"].str \in EVENT_TYPES => ValidEventPayload(e)

ValidCommandPayload(type, p) ==
    /\ CASE type = "motion.play" ->
              Keys(p, {"name"}, {"extensions"}) /\ Matches(p["name"], ACTION_ID)
         [] type \in {"motion.relative_move", "motion.absolute_move"} ->
              /\ Keys(p, {"joints", "duration_ms"}, {"extensions"})
              /\ JointNumbers(p["joints"], TRUE)
              /\ IntegerIn(p["duration_ms"], 1, 60000)
         [] type = "light.solid" ->
              /\ Keys(p, {"target", "color"}, {"extensions"})
              /\ p["target"] = Str("head_matrix") /\ Matches(p["color"], COLOR)
         [] type = "light.paint" ->
              /\ Keys(p, {"target", "pixels"}, {"extensions"})
              /\ p["target"] = Str("head_matrix") /\ Colors(p["pixels"])
         [] type = "light.brightness" ->
              /\ Keys(p, {"target", "brightness"}, {"extensions"})
              /\ p["target"] = Str("head_matrix") /\ Between(p["brightness"], 0, 1)
         [] type = "status.set" ->
              Keys(p, {"mode"}, {"extensions"}) /\ OneOf(p["mode"], STATUS_MODES)
         [] OTHER -> Keys(p, {}, {"extensions"})
    /\ ValidExtensions(p)

ParseDeviceCommand(c) ==
    /\ ValidEnvelope(c, {})
    /\ c["type"].str \in COMMAND_TYPES =>
         ValidCommandPayload(c["type"].str, c["payload"].obj)

-----------------------------------------------------------------------------
(* parseConsoleIncoming: other fields of a console message are not read.   *)
(* trim: a byte order mark counts as a blank, a separator does not.        *)
Trim(s) ==
    CASE s = " hi " -> "hi" [] s \in {" ", "U+FEFF"} -> "" [] OTHER -> s

Filled(v) == IsStr(v) /\ Trim(v.str) # ""

IsTargetId(v) == v = Null \/ Filled(v)

IsLease(v) ==
    /\ IsObj(v) /\ "role" \in DOMAIN v.obj
    /\ \/ v.obj["role"] = Str("readonly")
       \/ /\ v.obj["role"] = Str("controller")
          /\ "expires_at" \in DOMAIN v.obj /\ IsNum(v.obj["expires_at"])

IsRouterError(v) ==
    /\ IsObj(v) /\ {"code", "message", "recoverable"} \subseteq DOMAIN v.obj
    /\ Filled(v.obj["code"]) /\ Filled(v.obj["message"])
    /\ IsBool(v.obj["recoverable"])

HasEpoch(m) == "target_epoch" \in DOMAIN m /\ Integer(m["target_epoch"], 0)

ParseConsoleIncoming(m) ==
    CASE m["type"] = Str("console.hello") ->
           /\ {"session_id", "lease", "target_id", "state"} \subseteq DOMAIN m
           /\ Filled(m["session_id"]) /\ IsLease(m["lease"])
           /\ IsTargetId(m["target_id"]) /\ HasEpoch(m)
           /\ IsDeviceState(m["state"])
      [] m["type"] = Str("console.state") ->
           /\ {"target_id", "state"} \subseteq DOMAIN m
           /\ IsTargetId(m["target_id"]) /\ HasEpoch(m)
           /\ IsDeviceState(m["state"])
      [] m["type"] = Str("console.event") ->
           /\ {"target_id", "event"} \subseteq DOMAIN m
           /\ Filled(m["target_id"]) /\ HasEpoch(m)
           /\ "error" \in DOMAIN m => IsRouterError(m["error"])
           /\ IsObj(m["event"]) /\ ParseDeviceEvent(m["event"].obj)
      [] m["type"] = Str("console.error") ->
           /\ IsRouterError(Obj(m))
           /\ "request_id" \in DOMAIN m => Filled(m["request_id"])
      [] m["type"] = Str("console.control") ->
           "lease" \in DOMAIN m /\ IsLease(m["lease"])
      [] OTHER -> FALSE
=============================================================================
