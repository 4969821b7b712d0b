---------------------------- MODULE MCInterpreter ----------------------------
(* What one interpreter does: the scopes of running code, the loading of     *)
(* modules, a run of a program, a call of a tool, a session of the MCP       *)
(* server.  They share nothing: a behaviour is one of one of them.           *)
EXTENDS MCDynamicScopes, ModuleLoader, MCRunCommand, ToolSchemas, MCPServer, TLC

VARIABLE part       \* which of them, never changes

\* Where the others stay.
ScopesRest  == setup = Script /\ Init
ModulesRest == stack = <<Loading("main", <<>>)>> /\ MlInit
RunRest     == program = Failing(Num) /\ RcInit
ToolRest    == parameter = [type |-> [is |-> "Int"], default |-> FALSE] /\ TsInit
ServerRest  == keyed = FALSE /\ McpInit

MCInit ==
    \/ part = "scopes"  /\ ModulesRest /\ RunRest /\ ToolRest /\ ServerRest /\ Init
    \/ part = "modules" /\ ScopesRest /\ RunRest /\ ToolRest /\ ServerRest /\ MlInit
    \/ part = "run"     /\ ScopesRest /\ ModulesRest /\ ToolRest /\ ServerRest /\ RcInit
    \/ part = "tool"    /\ ScopesRest /\ ModulesRest /\ RunRest /\ ServerRest /\ TsInit
    \/ part = "server"  /\ ScopesRest /\ ModulesRest /\ RunRest /\ ToolRest /\ McpInit

MCNext ==
    /\ UNCHANGED part
    /\ \/ part = "scopes"  /\ Next    /\ UNCHANGED <<mlVars, rcVars, tsVars, mcpVars>>
       \/ part = "modules" /\ MlNext  /\ UNCHANGED <<vars, rcVars, tsVars, mcpVars>>
       \/ part = "run"     /\ RcNext  /\ UNCHANGED <<vars, mlVars, tsVars, mcpVars>>
       \/ part = "tool"    /\ TsNext  /\ UNCHANGED <<vars, mlVars, rcVars, mcpVars>>
       \/ part = "server"  /\ McpNext /\ UNCHANGED <<vars, mlVars, rcVars, tsVars>>

MCSpec == MCInit /\ [][MCNext]_<<part, vars, mlVars, rcVars, tsVars, mcpVars>>
\* The state of all of them is well formed.
InterpreterTypeOK == TypeOK /\ MlTypeOK /\ McpTypeOK

-----------------------------------------------------------------------------
\* Modules a and b in one directory; "_f" is private, "max" a builtin.
TwoFiles == <<"a", "b">>
TestContents ==
    {[defines |-> {"f", "_f"}, exports |-> {}],
     [defines |-> {"f", "_f", "max"}, exports |-> {"f"}],
     [defines |-> {"_f", "T"}, exports |-> {"_f"}]}

\* Parameters of each type, two deep.
Scalar(n) == [is |-> n]
ListType(t) == [is |-> "list", of |-> t]
OptionType(t) == [is |-> "option", of |-> t]
Field(t, d) == [type |-> t, default |-> d]
ObjectType(t, d) == [is |-> "object", fields |-> [x |-> Field(t, d)]]
Plain == [is |-> "enum", variants |-> [A |-> <<>>, B |-> <<>>]]
Tagged(t, d) == [is |-> "enum", variants |-> [A |-> <<>>, B |-> [x |-> Field(t, d)]]]

Simple == {Scalar(n) : n \in DOMAIN Scalars \cup {"other"}} \cup {Plain}
Deeper(S) == {ListType(t) : t \in S} \cup {OptionType(t) : t \in S}
               \cup {ObjectType(t, d) : t \in S, d \in BOOLEAN}
               \cup {Tagged(t, d) : t \in S, d \in BOOLEAN}
SomeDeep == {ListType(Scalar("Int")), OptionType(Plain), Tagged(Scalar("Int"), FALSE),
             ObjectType(Scalar("Float"), TRUE)}
TestParameters ==
    {Field(t, d) : t \in Simple \cup Deeper(Simple) \cup Deeper(SomeDeep), d \in BOOLEAN}

\* What a model may send for them.
Json(k) == [is |-> k]
Text(s) == [is |-> "string", text |-> s]
Array(S) == {[is |-> "array", of |-> s] : s \in {<<>>} \cup {<<x>> : x \in S}}
JsonObject(fields) == [is |-> "object", fields |-> fields]
Fielded(K, X) == {JsonObject(<<>>)} \cup {JsonObject("kind" :> k) : k \in K}
                   \cup {JsonObject("x" :> x) : x \in X}
                   \cup {JsonObject("kind" :> k @@ "x" :> x) : k \in K, x \in X}
Names3 == {Text("A"), Text("B"), Text("z")}
Atoms == {Json("null"), Json("whole"), Json("fraction"), Json("boolean")} \cup Names3
Nested == Array(Atoms) \cup Fielded(Atoms, Atoms)
TestDocuments == Atoms \cup Nested \cup Array(Nested) \cup Fielded(Names3, Nested)

\* JSON Schema, as far as the schemas use it.
RECURSIVE Admit(_, _)
AdmitFields(s, j) ==
    /\ j.is = "object" /\ s.required \subseteq DOMAIN j.fields
    /\ s.kind # {} => /\ "kind" \in DOMAIN j.fields /\ j.fields["kind"].is = "string"
                      /\ j.fields["kind"].text \in s.kind
    /\ \A f \in DOMAIN s.properties \cap DOMAIN j.fields : Admit(s.properties[f], j.fields[f])
Admit(s, j) ==
    CASE s.type = "array" -> j.is = "array" /\ \A i \in DOMAIN j.of : Admit(s.items, j.of[i])
      [] s.type = "integer" -> j.is = "whole"
      [] s.type = "number" -> j.is \in {"whole", "fraction"}
      [] s.type \in {"string", "boolean"} -> j.is = s.type
      [] s.type = "object" -> AdmitFields(s, j)
      [] s.type = "enum" -> j.is = "string" /\ j.text \in s.names
      [] s.type = "anyOf" -> \E b \in s.branches : Admit(b, j)
=============================================================================
