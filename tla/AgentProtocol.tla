---------------------------- MODULE AgentProtocol ----------------------------
(***************************************************************************)
(* The messages of Agent Control: what the agent lets out                  *)
(* (packages/lefly-agent/src/lefly_agent/models.py, server.py, runtime.py) *)
(* and what the page accepts (packages/lefly-console-web/src/agent/        *)
(* agentProtocol.ts).                                                      *)
(*                                                                         *)
(* A long text stands for one of its length.  Python counts characters and *)
(* JavaScript UTF-16 units: a face counts once there and twice here.       *)
(***************************************************************************)
EXTENDS DeviceProtocol

Lengths == [c128 |-> 128, c129 |-> 129, c500 |-> 500, c501 |-> 501,
            c4000 |-> 4000, c4001 |-> 4001, faces128 |-> 128, faces4000 |-> 4000]
Faces == {"faces128", "faces4000"}
Padded == {" hi ", " ", "U+FEFF", "U+001C"}

PyLen(s) == IF s = "" THEN 0 ELSE IF s \in DOMAIN Lengths THEN Lengths[s] ELSE 1
JsLen(s) == IF s \in Faces THEN 2 * PyLen(s) ELSE PyLen(s)

ToolNames == {"play_motion", "set_head_light", "set_head_light_brightness",
              "enter_rest_state", "get_current_datetime", "get_weather",
              "web_search"}
Dispositions == {"applied", "queued"}

ResponseFields == {"type", "request_id", "response_id"}
ToolFields == ResponseFields \union {"tool_call_id", "tool_name"}
FailureFields == {"code", "message", "recoverable"}

-----------------------------------------------------------------------------
(* The agent: validate_lifecycle_event builds the event anew.              *)
Identifier(v, longest) ==
    IsStr(v) /\ v.str # "" /\ v.str = Strip(v.str) /\ PyLen(v.str) <= longest

Failure(e) ==
    /\ Identifier(e["code"], 128) /\ Identifier(e["message"], 500)
    /\ IsBool(e["recoverable"])

LifecycleEvent(e) ==
    LET Has(fields) == DOMAIN e = fields IN
    /\ ResponseFields \subseteq DOMAIN e
    /\ Identifier(e["request_id"], 128) /\ Identifier(e["response_id"], 128)
    /\ "tool_name" \in DOMAIN e =>
         /\ ToolFields \subseteq DOMAIN e
         /\ Identifier(e["tool_call_id"], 128) /\ OneOf(e["tool_name"], ToolNames)
    /\ CASE e["type"].str \in {"agent.response.started", "agent.response.completed"} ->
              Has(ResponseFields)
         [] e["type"].str = "agent.response.delta" ->
              /\ Has(ResponseFields \union {"text"})
              /\ NonEmpty(e["text"]) /\ PyLen(e["text"].str) <= 4000
         [] e["type"].str = "agent.response.failed" ->
              Has(ResponseFields \union FailureFields) /\ Failure(e)
         [] e["type"].str = "agent.tool.started" -> Has(ToolFields)
         [] e["type"].str = "agent.tool.completed" ->
              /\ ToolFields \subseteq DOMAIN e
              /\ DOMAIN e \subseteq
                   ToolFields \union {"protocol_correlation_id", "disposition"}
              /\ "protocol_correlation_id" \in DOMAIN e =>
                   Identifier(e["protocol_correlation_id"], 128)
              /\ "disposition" \in DOMAIN e => OneOf(e["disposition"], Dispositions)
         [] e["type"].str = "agent.tool.failed" ->
              Has(ToolFields \union FailureFields) /\ Failure(e)
         [] OTHER -> FALSE

(* ChatMessage.create, AgentRuntime._state, and the server's own messages. *)
ChatMessage(role, text) ==
    Obj([id |-> Str("m1"), role |-> Str(role), text |-> Str(text),
         timestamp |-> Str("t1")])

Model(name, status) == Obj([name |-> name, status |-> Str(status)])
Models ==
    {Model(Null, "disabled")} \union
    {Model(Str("gpt"), status) : status \in {"unverified", "available", "failed"}}

RuntimeState(phase, size, model) ==
    [phase |-> Str(phase), device_connected |-> Bool(TRUE), model |-> model,
     queue |-> Obj([size |-> Whole(size), capacity |-> Whole(2)])]

Phases == {"idle", "interpreting", "executing", "error"}

(* _parse_submission                                                       *)
PySubmission(m) ==
    /\ DOMAIN m = {"version", "id", "type", "timestamp", "text"}
    /\ m["version"] = Str("1") /\ m["type"] = Str("agent.submit_text")
    /\ Identifier(m["id"], 128)
    /\ IsStr(m["timestamp"]) /\ Strip(m["timestamp"].str) # ""
    /\ IsStr(m["text"]) /\ Strip(m["text"].str) # ""
    /\ PyLen(Strip(m["text"].str)) <= 500

-----------------------------------------------------------------------------
(* The page: parseAgentIncoming                                            *)
(* Mutant: one character less.                                             *)
CorrelationIdShort(v) ==
    IsStr(v) /\ v.str # "" /\ v.str = Trim(v.str) /\ JsLen(v.str) < 128

CorrelationId(v) ==
    IsStr(v) /\ v.str # "" /\ v.str = Trim(v.str) /\ JsLen(v.str) <= 128

ValidFailure(e) ==
    /\ {"code", "message", "recoverable"} \subseteq DOMAIN e
    /\ CorrelationId(e["code"])
    /\ Filled(e["message"]) /\ JsLen(e["message"].str) <= 500
    /\ IsBool(e["recoverable"])

ValidCorrelation(e) ==
    /\ {"request_id", "response_id"} \subseteq DOMAIN e
    /\ CorrelationId(e["request_id"]) /\ CorrelationId(e["response_id"])

ValidToolCorrelation(e) ==
    /\ ValidCorrelation(e) /\ {"tool_call_id", "tool_name"} \subseteq DOMAIN e
    /\ CorrelationId(e["tool_call_id"]) /\ OneOf(e["tool_name"], ToolNames)

IsCount(v) == IsNum(v) /\ v.num % 2 = 0 /\ v.num >= 0

ParseModelState(v) ==
    /\ IsObj(v) /\ DOMAIN v.obj = {"name", "status"}
    /\ IF v.obj["status"] = Str("disabled") THEN v.obj["name"] = Null
       ELSE /\ OneOf(v.obj["status"], {"unverified", "available", "failed"})
            /\ Filled(v.obj["name"]) /\ v.obj["name"].str = Trim(v.obj["name"].str)

ParseChatMessage(v) ==
    /\ IsObj(v) /\ DOMAIN v.obj = {"id", "role", "text", "timestamp"}
    /\ Filled(v.obj["id"]) /\ OneOf(v.obj["role"], {"user", "agent", "system"})
    /\ Filled(v.obj["text"]) /\ Filled(v.obj["timestamp"])

ParseRuntimeState(v, extra) ==
    /\ IsObj(v)
    /\ DOMAIN v.obj = {"phase", "device_connected", "queue", "model"} \union extra
    /\ OneOf(v.obj["phase"], {"idle", "interpreting", "executing", "error"})
    /\ IsBool(v.obj["device_connected"]) /\ ParseModelState(v.obj["model"])
    /\ Exactly(v.obj["queue"], {"size", "capacity"})
    /\ LET q == v.obj["queue"].obj IN
         /\ IsCount(q["size"]) /\ IsCount(q["capacity"])
         /\ q["capacity"].num > 0 /\ q["size"].num <= q["capacity"].num

ParseResponse(e) ==
    LET Only(fields) == DOMAIN e \subseteq ResponseFields \union {"version"} \union fields
    IN CASE e["type"].str \in {"agent.response.started", "agent.response.completed"} ->
              Only({}) /\ ValidCorrelation(e)
         [] e["type"].str = "agent.response.delta" ->
              /\ Only({"text"}) /\ ValidCorrelation(e)
              /\ "text" \in DOMAIN e /\ NonEmpty(e["text"])
              /\ JsLen(e["text"].str) <= 4000
         [] e["type"].str = "agent.response.failed" ->
              Only(FailureFields) /\ ValidCorrelation(e) /\ ValidFailure(e)
         [] OTHER -> FALSE

ParseTool(e) ==
    LET Only(fields) == DOMAIN e \subseteq ToolFields \union {"version"} \union fields
    IN CASE e["type"].str = "agent.tool.started" ->
              Only({}) /\ ValidToolCorrelation(e)
         [] e["type"].str = "agent.tool.completed" ->
              /\ Only({"protocol_correlation_id", "disposition"})
              /\ ValidToolCorrelation(e)
              /\ "protocol_correlation_id" \in DOMAIN e =>
                   CorrelationId(e["protocol_correlation_id"])
              /\ "disposition" \in DOMAIN e => OneOf(e["disposition"], Dispositions)
         [] e["type"].str = "agent.tool.failed" ->
              Only(FailureFields) /\ ValidToolCorrelation(e) /\ ValidFailure(e)
         [] OTHER -> FALSE

ParseAgentIncoming(m) ==
    /\ "version" \in DOMAIN m /\ m["version"] = Str("1")
    /\ LET Only(fields) == DOMAIN m = {"version", "type"} \union fields IN
       CASE m["type"].str = "agent.hello" ->
              /\ Only({"session_id", "state"}) /\ Filled(m["session_id"])
              /\ ParseRuntimeState(m["state"], {"messages"})
              /\ LET messages == m["state"].obj["messages"] IN
                   /\ IsArr(messages)
                   /\ \A i \in DOMAIN messages.arr : ParseChatMessage(messages.arr[i])
         [] m["type"].str = "agent.state" ->
              Only({"state"}) /\ ParseRuntimeState(m["state"], {})
         [] m["type"].str = "agent.message" ->
              Only({"message"}) /\ ParseChatMessage(m["message"])
         [] m["type"].str = "agent.accepted" ->
              Only({"request_id"}) /\ CorrelationId(m["request_id"])
         [] m["type"].str = "agent.error" ->
              /\ Only(FailureFields) \/ Only(FailureFields \union {"request_id"})
              /\ Filled(m["code"]) /\ Filled(m["message"]) /\ IsBool(m["recoverable"])
              /\ "request_id" \in DOMAIN m => CorrelationId(m["request_id"])
         [] OTHER -> ParseResponse(m) \/ ParseTool(m)

(* createAgentSubmission: refused at home, or sent without its blanks.     *)
MaySubmit(text) == Trim(text) # "" /\ JsLen(Trim(text)) <= 500

CreateAgentSubmission(text) ==
    [version |-> Str("1"), id |-> Str("r1"), type |-> Str("agent.submit_text"),
     timestamp |-> Str("t1"), text |-> Str(Trim(text))]
=============================================================================
