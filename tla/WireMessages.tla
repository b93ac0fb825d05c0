----------------------------- MODULE WireMessages -----------------------------
(***************************************************************************)
(* The messages that reach the console page.  A field of a good message is *)
(* left out, added, or given the value of another kind or just beyond its  *)
(* bound; what the Python side accepts of them is what the gateway and the *)
(* agent let out.  Where the two sides are known to differ, the message is *)
(* let out like any other and named at the end: KnownFromGateway,          *)
(* KnownFromAgent, KnownFromComposer.  A JSON value has no NaN here, and no*)
(* integer beyond a double's range.                                        *)
(***************************************************************************)
EXTENDS AgentProtocol, Lamp

With(p, f, v) == [x \in DOMAIN p \union {f} |-> IF x = f THEN v ELSE p[x]]
Without(p, f) == [x \in DOMAIN p \ {f} |-> p[x]]

Oddities == {Null, Str(""), Str("?"), Str("nod"), Bool(TRUE), Obj(<<>>), Arr(<<>>)}
            \union {Whole(n) : n \in {-1, 0, 1, 60000, 60001}}
            \union {Halves(h) : h \in {1, 2}}
Annotations == {Null, Bool(TRUE), Obj(<<>>), Obj([x \in Extension |-> Null]),
                Obj([notes |-> Null])}

Variants(p) ==
    {p, With(p, "unknown", Null)}
    \union {Without(p, f) : f \in DOMAIN p}
    \union {With(p, f, v) : f \in DOMAIN p, v \in Oddities}
    \union {With(p, "extensions", v) : v \in Annotations}

(* p with field f changed in every way its own fields can be.              *)
Nested(p, f) == {With(p, f, Obj(q)) : q \in Variants(p[f].obj)}

-----------------------------------------------------------------------------
(* Device states                                                           *)
Joint(pos) == Obj([pos |-> Halves(pos), min |-> Whole(-60), max |-> Whole(60)])
Pose(yaw, others) ==
    [name \in LEFLY_JOINT_NAMES |-> Joint(IF name = "base_yaw" THEN yaw ELSE others)]

Motion(state, action, joints) ==
    [state |-> Str(state), action |-> action, joints |-> Obj(joints)]

Matrix(width) == [width |-> Whole(width), height |-> Whole(1)]
Light(pixels, brightness) ==
    [brightness |-> Halves(brightness), matrix |-> Obj(Matrix(Len(pixels))),
     pixels |-> Arr(pixels)]
HeadMatrix(width) ==
    With(With(Matrix(width), "target", Str("head_matrix")), "kind", Str("rgb_matrix"))

Preset == [name |-> Str("nod"), label |-> Null]
Capabilities(joints, width) ==
    [commands |-> Obj([x \in CommandTypes |-> Obj([scope |-> Str("control")])]),
     events |-> Arr(<<Str("device.error")>>),
     motion |-> Obj([joints |-> Arr(joints), presets |-> Arr(<<Obj(Preset)>>)]),
     lights |-> Arr(<<Obj(HeadMatrix(width))>>)]

Black == Str("#000000")
Amber == Str("#F1A22E")
AllJoints == <<Str("base_yaw"), Str("base_pitch"), Str("elbow_pitch"),
               Str("wrist_roll"), Str("wrist_pitch")>>

State == [device_id |-> Str("lefly"), revision |-> Whole(0),
          connection |-> Str("ready"),
          capabilities |-> Obj(Capabilities(AllJoints, 1)),
          motion |-> Obj(Motion("idle", Null, Pose(0, 0))),
          light |-> Obj(Light(<<Black>>, 0)),
          status |-> Obj([mode |-> Str("active")]),
          status_strip |-> Obj([color |-> Black, effect |-> Str("solid")]),
          command_queue |-> Obj([size |-> Whole(0), capacity |-> Whole(2)])]

WithCapability(f, v) ==
    With(State, "capabilities", Obj(With(State["capabilities"].obj, f, v)))

(* A device with other joints, and one with another matrix.                *)
OtherJoints ==
    {With(With(State, "capabilities", Obj(Capabilities(named, 1))),
          "motion", Obj(Motion("idle", Null, joints))) :
        named \in {AllJoints, <<Str("base_yaw")>>,
                   <<Str("base_yaw"), Str("base_yaw")>>, <<>>},
        joints \in {Pose(0, 2), [base_yaw |-> Joint(0)], [base_yaw |-> Null], <<>>}}

OtherMatrix ==
    {With(With(State, "capabilities", Obj(Capabilities(AllJoints, width))),
          "light", Obj(Light(pixels, 1))) :
        width \in 0 .. 2, pixels \in {<<>>, <<Black>>, <<Amber, Black>>}}

OtherTexts ==
    {With(State, "connection", Str(c)) :
        c \in {"connecting", "degraded", "offline", "lost"}}
    \union {With(State, "status", Obj([mode |-> Str(x)])) : x \in StatusModes}
    \union {With(State, "status_strip", Obj([color |-> Amber, effect |-> Str(x)])) :
              x \in StatusEffects}
    \union {With(State, "motion", Obj(Motion(state, action, Pose(p, 0)))) :
              state \in {"idle", "moving", "error"}, action \in {Null, Str("nod")},
              p \in {-121, -120, 1, 120, 121}}

(* The states the scene draws: nothing known of a joint, everything at     *)
(* zero, everything else than that.                                        *)
Blind ==
    With(With(State, "capabilities", Obj(Capabilities(<<Str("base_yaw")>>, 1))),
         "motion", Obj(Motion("idle", Null, [base_yaw |-> Joint(0)])))
Bright ==
    With(With(With(State, "motion", Obj(Motion("idle", Null, Pose(1, 120)))),
              "light", Obj(Light(<<Amber>>, 2))),
         "status_strip", Obj([color |-> Amber, effect |-> Str("fade")]))
DrawnStates == {Blind, State, Bright}

StateVariants ==
    DrawnStates \union Variants(State) \union OtherJoints \union OtherMatrix \union OtherTexts
    \union (UNION {Nested(State, f) : f \in {"capabilities", "motion", "light",
                                   "status", "status_strip", "command_queue"}})
    \union {With(State, "light", Obj(q)) : q \in Nested(Light(<<Black>>, 2), "matrix")}
    \union {With(State, "motion", Obj(Motion("idle", Null, q))) :
              q \in Nested(Pose(1, 1), "base_yaw")}
    \union {WithCapability("lights", Arr(s)) :
              s \in {<<Obj(q)>> : q \in Variants(HeadMatrix(1))}
                    \union {<<>>, <<Obj(HeadMatrix(1)), Obj(HeadMatrix(1))>>}}
    \union {WithCapability("motion",
                Obj([joints |-> Arr(AllJoints), presets |-> Arr(s)])) :
              s \in {<<Obj(q)>> : q \in Variants(Preset)}
                    \union {<<>>, <<Obj(Preset), Obj(Preset)>>}}

States == {s \in StateVariants : PyState(Obj(s), Str("lefly"))}

-----------------------------------------------------------------------------
(* Device events                                                           *)
Error == [code |-> Str("offline"), message |-> Str("gone"),
          recoverable |-> Bool(TRUE), details |-> Null]
Started == [command_type |-> Str("motion.play"), action |-> Str("nod"),
            duration_ms |-> Whole(1)]
Progress == [action |-> Str("nod"), progress |-> Halves(1), elapsed_ms |-> Whole(0),
             joints |-> Obj([base_yaw |-> Halves(1)])]
Finished == [action |-> Str("nod"), status |-> Str("completed"),
             elapsed_ms |-> Whole(0), joints |-> Obj(<<>>),
             reason |-> Null, error |-> Null]
Vision == [id |-> Whole(0), label |-> Null, confidence |-> Halves(1)]

Payload(type) ==
    CASE type = "command.accepted" ->
           [command_type |-> Str("motion.play"), disposition |-> Str("queued")]
      [] type = "sensor.touch" -> [position |-> Str("left"), pressed |-> Bool(TRUE)]
      [] type \in {"sensor.vision.gesture", "sensor.vision.face"} -> Vision
      [] type = "motion.started" -> Started
      [] type = "motion.progress" -> Progress
      [] type = "motion.finished" -> Finished
      [] type = "device.state_changed" -> State
      [] OTHER -> Error

Envelope(type, payload) ==
    [version |-> Str("1"), id |-> Str("id1"), type |-> Str(type),
     timestamp |-> Str("t1"), device_id |-> Str("lefly"), payload |-> Obj(payload)]
Answering(e) == With(e, "correlation_id", Str("id1"))

OtherPayloads ==
    {Envelope("motion.started", With(With(Started, "command_type", Str(type)),
                                     "action", Str(action))) :
        type \in MotionTypes, action \in ActionId}
    \union {Envelope("motion.finished",
                [Finished EXCEPT !["status"] = Str(status), !["reason"] = reason,
                                 !["error"] = error]) :
              status \in {"completed", "cancelled", "failed"},
              reason \in {Null, Str("preempted")},
              error \in {Null} \union {Obj(q) : q \in Variants(Error)}}

EventVariants ==
    LET plain == OtherPayloads
                 \union UNION {{Envelope(type, p) : p \in Variants(Payload(type))} :
                                 type \in EventTypes}
    IN plain \union {Answering(e) : e \in plain}
       \union {With(e, "timestamp", Str("wide")) : e \in plain}
       \union Variants(Envelope("device.error", Error))
       \union Variants(Answering(Envelope("robot.custom", <<>>)))

Events == {Forwarded(e) : e \in {v \in EventVariants : PyEvent(v)}}

-----------------------------------------------------------------------------
(* What the gateway lets out: server.py and RouterEvent.to_dict.           *)
Lease == {Obj([role |-> Str("readonly")]),
          Obj([role |-> Str("controller"), expires_at |-> Halves(1)])}

(* The message of an error is a fixed text, or that of an exception or of  *)
(* another device's error, which may be empty or blank.                    *)
RouterError(text) == [code |-> Str("offline"), message |-> Str(text),
                      recoverable |-> Bool(FALSE)]
ErrorTexts == Padded \union {"", "gone", "faces4000"}
ErrorReplies(id) ==
    UNION {{RouterError(text), With(RouterError(text), "request_id", Str(id))} :
             text \in ErrorTexts}

Snapshot(state) ==
    [target_id |-> Str("sim"), target_epoch |-> Whole(0), state |-> Obj(state)]

Of(type, m) == With(m, "type", Str(type))

GatewaySends(states, events) ==
    {Of("console.hello", With(With(Snapshot(s), "session_id", Str("s1")), "lease", l)) :
        s \in states, l \in Lease}
    \union {Of("console.state", Snapshot(s)) : s \in states}
    \union {Of("console.event", [target_id |-> Str("sim"), target_epoch |-> Whole(0),
                                 event |-> Obj(e)]) : e \in events}
    \union {Of("console.event", [target_id |-> Str("sim"), target_epoch |-> Whole(1),
                                 event |-> Obj(Envelope("device.state_changed", State)),
                                 error |-> Obj(RouterError("gone"))])}
    \union {Of("console.control", [lease |-> l]) : l \in Lease}
    \union {Of("console.error", e) : e \in ErrorReplies("id1")}

FromGateway == GatewaySends(States, Events)

-----------------------------------------------------------------------------
(* What the agent lets out                                                 *)
Texts == DOMAIN Lengths \union Padded \union {"", "hi"}
AgentTexts == {Null, Bool(TRUE), Whole(0)} \union {Str(s) : s \in Texts}

(* ChatMessage.create takes the blanks off and refuses what is left empty. *)
Said == {Strip(text) : text \in Texts} \ {""}

Response(type) == [type |-> Str(type), request_id |-> Str("r1"), response_id |-> Str("r1")]
Tool(type) == With(With(Response(type), "tool_call_id", Str("c1")),
                   "tool_name", Str("web_search"))
Failed(m) == With(With(With(m, "code", Str("offline")), "message", Str("gone")),
                  "recoverable", Bool(TRUE))

LifecycleVariants ==
    LET good == {Response("agent.response.started"), Response("agent.response.completed"),
                 With(Response("agent.response.delta"), "text", Str("hi")),
                 Failed(Response("agent.response.failed")),
                 Tool("agent.tool.started"), Failed(Tool("agent.tool.failed")),
                 With(With(Tool("agent.tool.completed"), "disposition", Str("queued")),
                      "protocol_correlation_id", Str("id1"))}
    IN UNION {{m} \union {Without(m, f) : f \in DOMAIN m}
              \union {With(m, f, v) : f \in DOMAIN m \ {"type"}, v \in AgentTexts}
              : m \in good}

Lifecycle == {m \in {v \in LifecycleVariants : "type" \in DOMAIN v} : LifecycleEvent(m)}

FromAgent ==
    {With(m, "version", Str("1")) :
        m \in Lifecycle
              \union {Of("agent.hello",
                        [session_id |-> Str("s1"),
                         state |-> Obj(With(RuntimeState(phase, size, model),
                                            "messages", Arr(messages)))]) :
                        phase \in Phases, size \in 0 .. 2, model \in Models,
                        messages \in {<<>>} \union
                            {<<ChatMessage("user", "hi"), ChatMessage("agent", text)>> :
                               text \in Said}}
              \union {Of("agent.state", [state |-> Obj(RuntimeState(phase, size, model))]) :
                        phase \in Phases, size \in 0 .. 2, model \in Models}
              \union {Of("agent.message", [message |-> ChatMessage(role, text)]) :
                        role \in {"user", "agent", "system"}, text \in Said}
              \union {Of("agent.accepted", [request_id |-> Str("c128")])}
              \union {Of("agent.error", e) : e \in ErrorReplies("c128")}}

(* What the composer sends to the agent.                                   *)
FromComposer ==
    {CreateAgentSubmission(s) :
        s \in {x \in Texts : MaySubmit(x)}}

-----------------------------------------------------------------------------
(* Where the two sides are known to differ.                                *)
(* Python takes null for no extensions; the page does not.                 *)
NullExtensions(p) == "extensions" \in DOMAIN p /\ p["extensions"] = Null

(* Both sides count the same characters and take the same for blanks.      *)
CountsAlike(v) ==
    IsStr(v) => PyLen(v.str) = JsLen(v.str) /\ Strip(v.str) = Trim(v.str)

(* Errors are let out without a look at their message, and a text that     *)
(* only the page takes for blank is let out by the agent.                  *)
Blank(v) == Trim(v.str) = ""

KnownFromGateway(m) ==
    \/ "state" \in DOMAIN m /\ NullExtensions(m["state"].obj)
    \/ /\ "event" \in DOMAIN m
       /\ LET e == m["event"].obj IN
          e["timestamp"] = Str("wide") \/ NullExtensions(e["payload"].obj)
    \/ m["type"] = Str("console.error") /\ Blank(m["message"])

KnownFromAgent(m) ==
    CASE m["type"] = Str("agent.message") -> Blank(m["message"].obj["text"])
      [] m["type"] = Str("agent.hello") ->
           LET messages == m["state"].obj["messages"].arr IN
           \E i \in DOMAIN messages : Blank(messages[i].obj["text"])
      [] m["type"] = Str("agent.error") -> Blank(m["message"])
      [] OTHER -> \E f \in DOMAIN m : ~CountsAlike(m[f])

(* A text that only the agent takes for blank.                             *)
KnownFromComposer(c) == Strip(c["text"].str) = ""
=============================================================================
