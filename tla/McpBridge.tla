----------------------------- MODULE McpBridge -----------------------------
(***************************************************************************)
(* An MCP bridge (agents/mcp_bridge.py): an agent that asks a server for   *)
(* its tools each time it connects to the coordinator, registers a         *)
(* capability for each, and calls a tool for each step it is sent.  An      *)
(* administrator may have it ask again at any time, also while it connects; *)
(* both callers change the same lists when their answer is there.           *)
(***************************************************************************)
EXTENDS Naturals

CONSTANTS
    BridgeTools,    \* tools the server may offer
    NoTool

ASSUME NoToolAssumption == NoTool \notin BridgeTools

VARIABLES
    offered,        \* the tools the server offers
    names,          \* _tool_names, ...
    headTool,       \* ... and the one that comes first
    caps,           \* _caps, by their tools
    registered,     \* the capabilities the coordinator has for the bridge
    promised,       \* those it has had, steps of plans may still be for
    bridge,         \* where run_forever is
    rediscovery,    \* where a rediscover request is
    replies,        \* what the server answered each of the two
    call            \* the last step: for which capability, and the tool called

lists == <<names, headTool, caps>>
bridgeVars == <<offered, lists, registered, promised, bridge, rediscovery,
                replies, call>>

Discoverers == {"start", "rediscover"}
NoReply == [state |-> "none", tools |-> {}]
Failure == [state |-> "failed", tools |-> {}]
NoCall == [step |-> NoTool]
Calls == {NoCall} \cup [step : BridgeTools, hint : BridgeTools \cup {NoTool},
                        tool : BridgeTools \cup {NoTool}]

BridgeTypeOK ==
    /\ {offered, names, caps, registered, promised} \subseteq SUBSET BridgeTools
    /\ headTool \in BridgeTools \cup {NoTool}
    /\ bridge \in {"down", "discovering", "connecting", "serving"}
    /\ rediscovery \in {"idle", "discovering"}
    /\ replies \in [Discoverers ->
          {NoReply, Failure} \cup [state : {"tools"}, tools : SUBSET BridgeTools]]
    /\ call \in Calls

BridgeInit ==
    /\ offered \in SUBSET BridgeTools
    /\ names = {} /\ headTool = NoTool /\ caps = {}
    /\ registered = {} /\ promised = {}
    /\ bridge = "down" /\ rediscovery = "idle"
    /\ replies = [d \in Discoverers |-> NoReply]
    /\ call = NoCall

-----------------------------------------------------------------------------
(* The server *)

ServerChanges(tools) ==
    /\ tools # offered
    /\ offered' = tools
    /\ UNCHANGED <<lists, registered, promised, bridge, rediscovery, replies, call>>

Discovering(d) == IF d = "start" THEN bridge = "discovering" ELSE rediscovery = "discovering"

\* get_tools is answered, or fails.
Reply(d, ok) ==
    /\ Discovering(d) /\ replies[d] = NoReply
    /\ replies' = [replies EXCEPT ![d] = 
          IF ok THEN [state |-> "tools", tools |-> offered] ELSE Failure]
    /\ UNCHANGED <<offered, lists, registered, promised, bridge, rediscovery, call>>

-----------------------------------------------------------------------------
(* The bridge *)

\* _discover_tools: names are appended, capabilities replaced; a failure clears
\* both.  The server lists its tools in any order.
DiscoverTools(reply) ==
    IF reply = Failure
    THEN names' = {} /\ headTool' = NoTool /\ caps' = {}
    ELSE /\ names' = names \cup reply.tools
         /\ caps' = reply.tools
         /\ IF names = {} /\ reply.tools # {}
            THEN headTool' \in reply.tools
            ELSE headTool' = headTool

Registers(tools) ==
    /\ registered' = tools
    /\ promised' = promised \cup tools

\* run_forever connects: to the server first, then to the coordinator.
StartBridge ==
    /\ bridge = "down"
    /\ bridge' = "discovering"
    /\ UNCHANGED <<offered, lists, registered, promised, rediscovery, replies, call>>

ToolsFound ==
    /\ bridge = "discovering" /\ replies["start"] # NoReply
    /\ DiscoverTools(replies["start"])
    /\ replies' = [replies EXCEPT !["start"] = NoReply]
    /\ bridge' = "connecting"
    /\ UNCHANGED <<offered, registered, promised, rediscovery, call>>

BridgeConnects ==
    /\ bridge = "connecting"
    /\ bridge' = "serving"
    /\ Registers(caps)
    /\ UNCHANGED <<offered, lists, rediscovery, replies, call>>

\* The connection to the coordinator is lost, or could not be made.
BridgeDrops ==
    /\ bridge \in {"connecting", "serving"}
    /\ bridge' = "down"
    /\ registered' = {}
    /\ UNCHANGED <<offered, lists, promised, rediscovery, replies, call>>

\* Stopped and started again, it is a new object that knows nothing.
ReplaceBridge ==
    /\ bridge' = "down" /\ rediscovery' = "idle"
    /\ names' = {} /\ headTool' = NoTool /\ caps' = {} /\ registered' = {}
    /\ replies' = [d \in Discoverers |-> NoReply]
    /\ UNCHANGED <<offered, promised, call>>

RequestRediscovery ==
    /\ rediscovery = "idle" /\ bridge # "down"
    /\ rediscovery' = "discovering"
    /\ UNCHANGED <<offered, lists, registered, promised, bridge, replies, call>>

\* A slip: the coordinator is not told.
RediscoverQuietly ==
    /\ rediscovery = "discovering" /\ replies["rediscover"] # NoReply
    /\ DiscoverTools(replies["rediscover"])
    /\ replies' = [replies EXCEPT !["rediscover"] = NoReply]
    /\ rediscovery' = "idle"
    /\ UNCHANGED <<offered, registered, promised, bridge, call>>

\* rediscover_tools registers anew, if there is a connection to do it on.
RediscoverTools ==
    /\ rediscovery = "discovering" /\ replies["rediscover"] # NoReply
    /\ DiscoverTools(replies["rediscover"])
    /\ replies' = [replies EXCEPT !["rediscover"] = NoReply]
    /\ rediscovery' = "idle"
    /\ IF bridge = "serving" THEN Registers(caps')
       ELSE UNCHANGED <<registered, promised>>
    /\ UNCHANGED <<offered, bridge, call>>

-----------------------------------------------------------------------------
(* Steps *)

\* _pick_tool, given the execution plan of the EXECUTE: intent text, context
\* and prior results.  The plan does not name a capability, so the first branch
\* is never taken; a hint comes from the requester's context.
PickTool(hint) == IF hint \in names THEN hint ELSE headTool

ExecuteStep(t, hint) ==
    /\ bridge = "serving" /\ t \in promised
    /\ call' = [step |-> t, hint |-> hint, tool |-> PickTool(hint)]
    /\ UNCHANGED <<offered, lists, registered, promised, bridge, rediscovery, replies>>

-----------------------------------------------------------------------------

BridgeNext ==
    \/ \E tools \in SUBSET BridgeTools : ServerChanges(tools)
    \/ \E d \in Discoverers, ok \in BOOLEAN : Reply(d, ok)
    \/ StartBridge \/ ToolsFound \/ BridgeConnects \/ BridgeDrops \/ ReplaceBridge
    \/ RequestRediscovery \/ RediscoverTools
    \/ \E t \in BridgeTools, hint \in BridgeTools \cup {NoTool} : ExecuteStep(t, hint)

BridgeSpec == BridgeInit /\ [][BridgeNext]_bridgeVars

-----------------------------------------------------------------------------
(* Properties *)

\* While the bridge serves and no administrator has it look again, the
\* coordinator has exactly the capabilities the bridge takes for its own, and
\* the bridge can name the tool of each, whichever of a reconnection and a
\* rediscovery was answered first, and for which of them the server failed.
RegisteredAsKnown ==
    bridge = "serving" /\ rediscovery = "idle" =>
        registered = caps /\ registered \subseteq names

\* "Routes execute_task calls to the appropriate MCP call_tool": unless the
\* requester's context names one, the tool called for a step is the one its
\* capability stands for.
RightTool ==
    call # NoCall /\ call.hint = NoTool => call.tool \in {call.step, NoTool}
=============================================================================
