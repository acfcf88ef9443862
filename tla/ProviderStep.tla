------------------------------ MODULE ProviderStep ------------------------------
(***************************************************************************)
(* protocol.py: what a model answers becomes a step, a tool call of the    *)
(* frozen plan or the end with a result, or is rejected.  Everything an    *)
(* argument string can turn out to be is one of a few texts.               *)
(***************************************************************************)
EXTENDS ResultSchema

CONSTANTS
    Granted      \* the tools of the plan, among ToolTexts

ToolTexts == {"search", "publish", "Not An Id"}

(* json.loads with its hooks: an object the tool's input model takes or    *)
(* not; one with a repeated key; one with NaN or Infinity; another value;  *)
(* no JSON.                                                                *)
ArgumentTexts == {"object", "unfit object", "repeated", "constant", "array", "garbled"}

ASSUME StepAssumption == Granted \subseteq ToolTexts \ {"Not An Id"}

NoStep == [type |-> "none", tool |-> "", arguments |-> "", reason |-> Null, result |-> Null]

CallTool(tool, arguments) ==
    [NoStep EXCEPT !.type = "call_tool", !.tool = tool, !.arguments = arguments]
FinishStep(reason, result) ==
    [NoStep EXCEPT !.type = "finish", !.reason = reason, !.result = result]

-----------------------------------------------------------------------------
(* _decode_provider_step *)

Enveloped(value, type) ==
    /\ value.kind = "object" /\ DOMAIN value.fields = {"type", "call_tool", "finish"}
    /\ value.fields["type"] = Text(type)

(* Mutant: the other branch is not looked at. *)
SelectedAlone(value, name, other) == value.fields[name].kind = "object"

(* _selected_payload: this branch is given, the other is null. *)
Selected(value, name, other) ==
    value.fields[name].kind = "object" /\ value.fields[other] = Null

StrictObject(text) == text \in {"object", "unfit object"}

DecodesCall(value) ==
    /\ Selected(value, "call_tool", "finish")
    /\ LET payload == value.fields["call_tool"].fields
       IN  /\ DOMAIN payload = {"tool_id", "arguments"}
           /\ payload["tool_id"].kind = "string" /\ payload["arguments"].kind = "string"
           /\ StrictObject(payload["arguments"].text)

DecodesFinish(value) ==
    /\ Selected(value, "finish", "call_tool")
    /\ LET payload == value.fields["finish"].fields
       IN  /\ DOMAIN payload = {"reason", "result"}
           /\ payload["reason"].kind \in {"string", "null"}
           /\ payload["result"].kind = "object"

Decoded(value) ==
    LET call == value.fields["call_tool"].fields
        done == value.fields["finish"].fields
    IN  CASE Enveloped(value, "call_tool") /\ DecodesCall(value) ->
                CallTool(call["tool_id"].text, call["arguments"].text)
          [] Enveloped(value, "finish") /\ DecodesFinish(value) ->
                FinishStep(done["reason"], done["result"])
          [] OTHER -> NoStep

-----------------------------------------------------------------------------
(* validate_model_step and validate_tool_call *)

Blank == Text(" ")

ValidCall(step) == step.tool \in Granted /\ step.arguments = "object"

ValidFinish(doc, step) == step.reason # Blank /\ ResultFits(doc, step.result)

Valid(doc, step) ==
    \/ step.type = "call_tool" /\ ValidCall(step)
    \/ step.type = "finish" /\ ValidFinish(doc, step)

(* decode_agent_output holds the answer to the published schema, then      *)
(* validate_provider_step takes it: the step, or none (kernel.py:521-537). *)
StepOf(doc, value) ==
    IF WireAdmits(doc, value) /\ Valid(doc, Decoded(value)) THEN Decoded(value) ELSE NoStep
=============================================================================
