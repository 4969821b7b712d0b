----------------------------- MODULE MCAgentLoop -----------------------------
(* AgentLoop for agents that share a tool and a way to define more.          *)
EXTENDS AgentLoop, TLC

CONSTANTS D, T, N   \* the tool that defines, a declared one, a new one

Decls(t, d) == (D :> d @@ T :> t @@ N :> "none")

\* One agent with a schema, whose tools all fail; one that defines tools, also
\* one it was declared with; two that define tools for each other.
Strict(n, retries) ==
    [agents |-> {CHOOSE a \in Agents : TRUE}, tools |-> [a \in Agents |-> {}],
     decls |-> Decls("none", "none"), maxTurns |-> n, retries |-> retries, schema |-> TRUE]

Mint(agents, n, t) ==
    [agents |-> agents, tools |-> [a \in Agents |-> {D, T}],
     decls |-> Decls(t, "good"), maxTurns |-> n, retries |-> 0, schema |-> FALSE]

TestSetups ==
    {Strict(3, 1), Strict(4, 0), Strict(2, -1), Mint(Agents, 1, "good")}
      \cup {Mint({CHOOSE a \in Agents : TRUE}, 2, t) : t \in {"none", "bare", "good"}}
=============================================================================
