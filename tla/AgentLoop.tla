------------------------------ MODULE AgentLoop ------------------------------
(***************************************************************************)
(* The reasoning loop of agents: requests to the model, its responses, the *)
(* tool calls in them, one after the other, the retries of an output that  *)
(* does not match the schema, and the bound on turns.  Agents of one       *)
(* interpreter share its table of tools, which define_tool, itself called  *)
(* by tools, writes; every agent has a registry of its own of the tools it *)
(* can invoke, and refreshes it from the table.                            *)
(*                                                                         *)
(* The model and the bodies of tools do anything.                          *)
(***************************************************************************)
EXTENDS Integers, Sequences

CONSTANTS
    Agents,
    Tools,          \* names of tools
    DefineTool,     \* the tool that calls define_tool
    Setups,         \* the agents' declarations and configurations
    MaxBlocks,      \* bound: tool calls in one response
    MaxChats        \* bound: chats of an agent

\* A tool without a description has no schema: it can be run, not offered.
ToolStates == {"none", "bare", "good"}

Setup == [agents : SUBSET Agents,                       \* those that are chatted with
          tools : [Agents -> SUBSET Tools],             \* agent { tools: [...] }
          decls : [Tools -> ToolStates],                \* what the program declares
          maxTurns : Nat, retries : Int, schema : BOOLEAN]

ASSUME AgentAssumption ==
    /\ DefineTool \in Tools
    /\ Setups \subseteq Setup
    /\ MaxBlocks \in Nat /\ MaxChats \in Nat

VARIABLES
    setup,      \* never changes
    decls,      \* interp.toolDecls
    registry,   \* per agent: the tools in its registry
    phase,      \* where runAgent and Run are
    messages,   \* of the request being built
    offered,    \* the tools of the last request
    results,    \* of the response being processed: what its tool calls returned
    minted,     \* the tools that response's calls have defined so far
    turns,      \* LastTurns
    retriesLeft,
    invalid,    \* outputs that did not match the schema
    chats

agentVars == <<setup, decls, registry, phase, messages, offered, results, minted,
               turns, retriesLeft, invalid, chats>>

Ended  == {"answered", "agent_error", "agent_output_invalid"}
Phases == {"idle", "ask", "wait", "tools", "crashed"} \cup Ended

\* A message: of the user, with the results of tool calls, or of the model.
Stops   == {"end_turn", "tool_use", "max_tokens"}
Result  == [tool : Tools, error : BOOLEAN]
Message == [role : {"user"}, results : Seq(Result)]
             \cup [role : {"assistant"}, uses : Seq(Tools), stop : Stops]

User(rs)        == [role |-> "user", results |-> rs]
Assistant(u, s) == [role |-> "assistant", uses |-> u, stop |-> s]

\* MaxTurns and RetryInvalidOutput, 0 meaning not given, and of retries a
\* negative number none.
MaxTurns == IF setup.maxTurns = 0 THEN 10 ELSE setup.maxTurns
Retries ==
    CASE setup.schema /\ setup.retries = 0 -> 2
      [] setup.retries < 0 -> 0
      [] OTHER -> setup.retries

AgentTypeOK ==
    /\ setup \in Setups
    /\ decls \in [Tools -> ToolStates]
    /\ registry \in [Agents -> SUBSET Tools]
    /\ \A a \in Agents : \A t \in registry[a] : decls[t] # "none"
    /\ phase \in [Agents -> Phases]
    /\ messages \in [Agents -> Seq(Message)]
    /\ offered \in [Agents -> SUBSET Tools] /\ minted \in [Agents -> SUBSET Tools]
    /\ results \in [Agents -> Seq(Result)]
    /\ turns \in [Agents -> 0..MaxTurns]
    /\ retriesLeft \in [Agents -> 0..Retries]
    /\ invalid \in [Agents -> 0..Retries + 1]
    /\ chats \in [Agents -> 0..MaxChats]

\* spawnAgentWithCrash registers the declared tools that have a schema then.
AgentInit ==
    /\ setup \in Setups
    /\ decls = setup.decls
    /\ registry = [a \in Agents |-> {t \in setup.tools[a] : setup.decls[t] = "good"}]
    /\ phase = [a \in Agents |-> "idle"]
    /\ messages = [a \in Agents |-> <<>>]
    /\ offered = [a \in Agents |-> {}] /\ minted = [a \in Agents |-> {}]
    /\ results = [a \in Agents |-> <<>>]
    /\ turns = [a \in Agents |-> 0]
    /\ retriesLeft = [a \in Agents |-> 0]
    /\ invalid = [a \in Agents |-> 0]
    /\ chats = [a \in Agents |-> 0]

Goes(a, to) == phase' = [phase EXCEPT ![a] = to]

Say(a, m) == messages' = [messages EXCEPT ![a] = Append(@, m)]

\* The hook RefreshTools: what it registers, given the table of tools.
Fresh(a, table) == registry[a] \cup {t \in Tools \ setup.tools[a] : table[t] = "good"}

Offers(table) == {t \in Tools : table[t] = "good"}

-----------------------------------------------------------------------------
\* chat(prompt): Run begins.
Chat(a) ==
    /\ a \in setup.agents /\ phase[a] \in {"idle"} \cup Ended
    /\ chats[a] < MaxChats
    /\ chats' = [chats EXCEPT ![a] = @ + 1]
    /\ Goes(a, "ask")
    /\ messages' = [messages EXCEPT ![a] = <<User(<<>>)>>]
    /\ turns' = [turns EXCEPT ![a] = 0]
    /\ retriesLeft' = [retriesLeft EXCEPT ![a] = Retries]
    /\ invalid' = [invalid EXCEPT ![a] = 0]
    /\ UNCHANGED <<setup, decls, registry, offered, results, minted>>

\* A turn: refresh, and send the request.
Request(a) ==
    /\ phase[a] = "ask" /\ turns[a] < MaxTurns
    /\ Goes(a, "wait")
    /\ registry' = [registry EXCEPT ![a] = Fresh(a, decls)]
    /\ offered' = [offered EXCEPT ![a] = Offers(decls)]
    /\ turns' = [turns EXCEPT ![a] = @ + 1]
    /\ UNCHANGED <<setup, decls, messages, results, minted, retriesLeft, invalid, chats>>

\* No turn is left.
Exceed(a) ==
    /\ phase[a] = "ask" /\ turns[a] = MaxTurns
    /\ Goes(a, "agent_error")
    /\ UNCHANGED <<setup, decls, registry, messages, offered, results, minted, turns,
                   retriesLeft, invalid, chats>>

\* Complete returns an error.
ModelFails(a) ==
    /\ phase[a] = "wait"
    /\ Goes(a, "agent_error")
    /\ UNCHANGED <<setup, decls, registry, messages, offered, results, minted, turns,
                   retriesLeft, invalid, chats>>

\* It answers, without a schema or as the schema demands.
ModelEnds(a) ==
    /\ phase[a] = "wait"
    /\ Goes(a, "answered")
    /\ Say(a, Assistant(<<>>, "end_turn"))
    /\ UNCHANGED <<setup, decls, registry, offered, results, minted, turns, retriesLeft,
                   invalid, chats>>

\* It does not answer as the schema demands, and is asked again, if it may.
ModelErrs(a) ==
    /\ phase[a] = "wait" /\ setup.schema
    /\ invalid' = [invalid EXCEPT ![a] = @ + 1]
    /\ IF retriesLeft[a] = 0
       THEN /\ Goes(a, "agent_output_invalid")
            /\ Say(a, Assistant(<<>>, "end_turn"))
            /\ UNCHANGED retriesLeft
       ELSE /\ Goes(a, "ask")
            /\ messages' = [messages EXCEPT ![a] =
                    @ \o <<Assistant(<<>>, "end_turn"), User(<<>>)>>]
            /\ retriesLeft' = [retriesLeft EXCEPT ![a] = @ - 1]
    /\ UNCHANGED <<setup, decls, registry, offered, results, minted, turns, chats>>

\* What ModelIsCut could be: asking again, the turn not counted.
ModelIsCutFree(a) ==
    /\ phase[a] = "wait"
    /\ Goes(a, "ask")
    /\ turns' = [turns EXCEPT ![a] = @ - 1]
    /\ UNCHANGED <<setup, decls, registry, messages, offered, results, minted, retriesLeft,
                   invalid, chats>>

Uses == UNION {[1..n -> Tools] : n \in 1..MaxBlocks}

\* It stops for another reason, and the loop goes on as if it had not: the calls
\* in such a response are said and never made, so that any will do.
ModelIsCut(a) ==
    /\ phase[a] = "wait"
    /\ Goes(a, "ask")
    /\ \E u \in {<<>>, <<DefineTool>>} : Say(a, Assistant(u, "max_tokens"))
    /\ UNCHANGED <<setup, decls, registry, offered, results, minted, turns, retriesLeft,
                   invalid, chats>>

\* It calls tools, offered or not.
ModelCalls(a) ==
    /\ phase[a] = "wait"
    /\ Goes(a, "tools")
    /\ \E u \in Uses : Say(a, Assistant(u, "tool_use"))
    /\ results' = [results EXCEPT ![a] = <<>>]
    /\ minted' = [minted EXCEPT ![a] = {}]
    /\ UNCHANGED <<setup, decls, registry, offered, turns, retriesLeft, invalid, chats>>

-----------------------------------------------------------------------------
(* processToolCalls. *)

Called(a) == messages[a][Len(messages[a])].uses

NextTool(a) == Called(a)[Len(results[a]) + 1]

HasNext(a) == phase[a] = "tools" /\ Len(results[a]) < Len(Called(a))

Returns(a, error) ==
    results' = [results EXCEPT ![a] = Append(@, [tool |-> NextTool(a), error |-> error])]

\* What ToolFails could be: leaving the failed call out of the results.
ToolFailsSilently(a) ==
    /\ HasNext(a)
    /\ IF Len(results[a]) + 1 < Len(Called(a))
       THEN results' = [results EXCEPT ![a] =
                Append(@, [tool |-> Called(a)[Len(@) + 2], error |-> FALSE])]
       ELSE UNCHANGED results
    /\ Goes(a, "ask")
    /\ Say(a, User(results'[a]))
    /\ UNCHANGED <<setup, decls, registry, offered, minted, turns, retriesLeft,
                   invalid, chats>>

\* The tool is unknown to the registry, or its arguments do not match.
ToolFails(a) ==
    /\ HasNext(a)
    /\ Returns(a, TRUE)
    /\ UNCHANGED <<setup, decls, registry, phase, messages, offered, minted, turns,
                   retriesLeft, invalid, chats>>

\* A tool runs, and then the registry is refreshed.
ToolRuns(a) ==
    /\ HasNext(a)
    /\ NextTool(a) \in registry[a] /\ NextTool(a) # DefineTool
    /\ Returns(a, FALSE)
    /\ registry' = [registry EXCEPT ![a] = Fresh(a, decls)]
    /\ UNCHANGED <<setup, decls, phase, messages, offered, minted, turns, retriesLeft,
                   invalid, chats>>

\* What ToolDefines could be: leaving the refresh to the next turn.
ToolDefinesLate(a) ==
    /\ HasNext(a)
    /\ NextTool(a) \in registry[a] /\ NextTool(a) = DefineTool
    /\ \E t \in Tools, s \in {"bare", "good"} :
         /\ decls' = [decls EXCEPT ![t] = s]
         /\ minted' = [minted EXCEPT ![a] = IF s = "good" THEN @ \cup {t} ELSE @ \ {t}]
    /\ Returns(a, FALSE)
    /\ UNCHANGED <<setup, registry, phase, messages, offered, turns, retriesLeft, invalid, chats>>

\* So does the tool that calls define_tool: it (re)declares a tool first.
ToolDefines(a) ==
    /\ HasNext(a)
    /\ NextTool(a) \in registry[a] /\ NextTool(a) = DefineTool
    /\ \E t \in Tools, s \in {"bare", "good"} :
         /\ decls' = [decls EXCEPT ![t] = s]
         /\ registry' = [registry EXCEPT ![a] = Fresh(a, [decls EXCEPT ![t] = s])]
         /\ minted' = [minted EXCEPT ![a] = IF s = "good" THEN @ \cup {t} ELSE @ \ {t}]
    /\ Returns(a, FALSE)
    /\ UNCHANGED <<setup, phase, messages, offered, turns, retriesLeft, invalid, chats>>

\* All were called: their results are the next message.
ToolsDone(a) ==
    /\ phase[a] = "tools" /\ ~HasNext(a)
    /\ Goes(a, "ask")
    /\ Say(a, User(results[a]))
    /\ UNCHANGED <<setup, decls, registry, offered, results, minted, turns, retriesLeft,
                   invalid, chats>>

\* A tool panics: the agent ends, and its chat waits for ChatTimeout.
ToolPanics(a) ==
    /\ HasNext(a)
    /\ NextTool(a) \in registry[a]
    /\ Goes(a, "crashed")
    /\ UNCHANGED <<setup, decls, registry, messages, offered, results, minted, turns,
                   retriesLeft, invalid, chats>>

-----------------------------------------------------------------------------
RunStep(a) ==
    \/ Request(a) \/ Exceed(a)
    \/ ModelFails(a) \/ ModelEnds(a) \/ ModelErrs(a) \/ ModelIsCut(a) \/ ModelCalls(a)
    \/ ToolFails(a) \/ ToolRuns(a) \/ ToolDefines(a) \/ ToolsDone(a) \/ ToolPanics(a)

AgentNext == \E a \in Agents : Chat(a) \/ RunStep(a)

AgentSpec == AgentInit /\ [][AgentNext]_agentVars

\* The steps of the loop itself are taken, sometime.  Nothing is assumed of the
\* model, whose clients have no timeout, nor of the bodies of tools.
LoopStep(a) ==
    \/ Request(a) \/ Exceed(a) \/ ToolsDone(a)
    \/ HasNext(a) /\ NextTool(a) \notin registry[a] /\ ToolFails(a)

AgentFairness == \A a \in Agents : WF_agentVars(LoopStep(a))

AgentFairSpec == AgentSpec /\ AgentFairness
-----------------------------------------------------------------------------
(* Properties. *)

\* In every request the calls of tools are answered by the message after them,
\* each by its own result, in order.
CallsAreAnswered ==
    \A a \in Agents : phase[a] = "wait" =>
        \A i \in 1..Len(messages[a]) :
            messages[a][i].role = "assistant" /\ messages[a][i].stop = "tool_use"
              => /\ i < Len(messages[a])
                 /\ messages[a][i + 1].role = "user"
                 /\ [k \in DOMAIN messages[a][i + 1].results |->
                        messages[a][i + 1].results[k].tool] = messages[a][i].uses

\* Declared for the agent, and without a description when it was spawned: the
\* registry does not get them then, nor from any refresh.
Late(a) == {t \in setup.tools[a] : setup.decls[t] # "good"}

\* What the model was told of, the tools of the request and those defined since
\* by the response it is in, the agent can call: all of it but its late tools.
\* Those it never can, though define_tool describes them, and so offers them.
OnlyLateToolsAreUnknown ==
    \A a \in Agents :
        /\ phase[a] = "wait"  => offered[a] \ registry[a] = offered[a] \cap Late(a)
        /\ phase[a] = "tools" => minted[a] \ registry[a] = minted[a] \cap Late(a)

InTool(a) == HasNext(a) /\ NextTool(a) \in registry[a]

\* A chat ends, if only for want of turns, or else it waits for a model that
\* never answers or for a tool that never returns: the loop itself never hangs.
ChatsEnd == \A a \in Agents :
    \/ phase[a] \in {"ask", "wait", "tools"} ~> phase[a] \in Ended \cup {"crashed"}
    \/ <>[](phase[a] = "wait")
    \/ <>[]InTool(a)
=============================================================================
