------------------------------ MODULE MCPServer ------------------------------
(***************************************************************************)
(* The MCP server a program is built into: JSON-RPC messages, one a line,  *)
(* are handled one after the other, each answered on the output before the *)
(* next is read.  A client may send several before it reads.               *)
(*                                                                         *)
(* The client numbers its requests, and gives notifications no number, as  *)
(* JSON-RPC has it; what it asks for, and when, is up to it.               *)
(***************************************************************************)
EXTENDS Naturals, SequencesExt

CONSTANTS
    Described,      \* declared tools that have a description
    Bare,           \* declared tools that have none
    Resources,      \* the resources of the server
    MaxLines        \* bound: lines the client sends

ASSUME MCPAssumption == Described \cap Bare = {} /\ MaxLines \in Nat

VARIABLES
    keyed,          \* whether SetAPIKey was called, with Auth "api_key"
    input,          \* the lines not yet read
    sent,           \* how many there were
    initialized,
    output,         \* the responses written
    handled,        \* the lines read (history)
    serving         \* FALSE once the process has died, or the input failed

mcpVars == <<keyed, input, sent, initialized, output, handled, serving>>

Lists == {"tools/list", "resources/list"}
Uses == {"tools/call", "resources/read"}
Notices == {"notifications/initialized", "notifications/cancelled"}

\* What a call or read names; "" when it names nothing, "bad" when its params
\* are not what they should be.
Targeted == Described \cup Bare \cup Resources \cup {"unknown", "", "bad"}

\* A line with no number is a notification; one of no method is not JSON, or
\* not JSON-RPC 2.0.
Line ==
    [id : {0}, method : Notices \cup {"parse error", "blank", "too long"}]
      \cup [id : 1..MaxLines, method : {"initialize", "no version", "", "ping"} \cup Lists]
      \cup [id : 1..MaxLines, method : Uses, of : Targeted]

\* A response: of what is known of the request, whose number is 0 if it had none.
Answers == {"result", "tool error", "invalid request", "unknown method", "invalid params",
            "parse error"}
Reply == [id : 0..MaxLines, is : Answers, tools : SUBSET (Described \cup Bare)]

McpTypeOK ==
    /\ keyed \in BOOLEAN /\ initialized \in BOOLEAN /\ serving \in BOOLEAN
    /\ input \in Seq(Line) /\ handled \in Seq(Line)
    /\ sent = Len(handled) + Len(input)
    /\ output \in Seq(Reply) /\ Len(output) <= Len(handled)

McpInit ==
    /\ keyed \in BOOLEAN
    /\ input = <<>> /\ sent = 0 /\ initialized = FALSE
    /\ output = <<>> /\ handled = <<>> /\ serving = TRUE

SendLine ==
    /\ sent < MaxLines
    /\ sent' = sent + 1
    /\ \E l \in Line :
         /\ l.id \in {0, sent + 1}
         /\ input' = Append(input, l)
    /\ UNCHANGED <<keyed, initialized, output, handled, serving>>

\* The registry of the built program: its tools that have a schema.
Registry == Described

\* handleToolsCall and handleResourcesRead, once initialized: what each can come
\* to.  A tool may fail.
Used(l) ==
    IF l.of \in {"", "bad"} THEN {"invalid params"}
    ELSE IF l.method = "tools/call" THEN
        {"tool error"} \cup (IF l.of \in Registry THEN {"result"} ELSE {})
    ELSE IF l.of \in Resources THEN {"result"} ELSE {"invalid params"}

\* Asked too early, or without the key, which stdio has no way to send.
Refused(l) ==
    \/ keyed /\ l.method # "initialize" /\ l.method \notin Notices
    \/ ~initialized /\ l.method \in Lists \cup Uses

\* HandleRequest and the line it came on: what it can come to, and the responses.
Outcomes(l) ==
    IF l.method = "parse error" THEN {"parse error"}
    ELSE IF l.method \in {"", "no version"} \/ Refused(l) THEN {"invalid request"}
    ELSE IF l.method \in Uses THEN Used(l)
    ELSE IF l.method \in {"initialize"} \cup Lists THEN {"result"}
    ELSE {"unknown method"}

Listed(l, is) == IF l.method = "tools/list" /\ is = "result" THEN Registry ELSE {}

HandleRequest(l) == {[id |-> l.id, is |-> is, tools |-> Listed(l, is)] : is \in Outcomes(l)}

NextLine == Head(input)

ReadLine ==
    /\ serving /\ input # <<>>
    /\ input' = Tail(input)
    /\ handled' = Append(handled, NextLine)

\* A blank line, and the one notification that is known, have no answer.
Silent == {"blank", "notifications/initialized"}

Skip ==
    /\ ReadLine /\ NextLine.method \in Silent
    /\ UNCHANGED <<keyed, sent, initialized, output, serving>>

\* What Dispatch could be, were responses written by a goroutine per request.
ServeAnyOrder ==
    /\ ReadLine /\ NextLine.method \notin Silent \cup {"too long"}
    /\ initialized' = (initialized \/ NextLine.method = "initialize")
    /\ \E r \in HandleRequest(NextLine), i \in 1..Len(output) + 1 :
          output' = InsertAt(output, i, r)
    /\ UNCHANGED <<keyed, sent, serving>>

Dispatch ==
    /\ ReadLine /\ NextLine.method \notin Silent \cup {"too long"}
    /\ initialized' = (initialized \/ NextLine.method = "initialize")
    /\ \E r \in HandleRequest(NextLine) : output' = Append(output, r)
    /\ UNCHANGED <<keyed, sent, serving>>

\* A line over the scanner's buffer ends the loop, and a tool that panics the
\* process: nothing recovers it.
Die ==
    /\ ReadLine
    /\ \/ NextLine.method = "too long"
       \/ /\ NextLine.method = "tools/call" /\ ~Refused(NextLine)
          /\ NextLine.of \in Registry
    /\ serving' = FALSE
    /\ UNCHANGED <<keyed, sent, initialized, output>>

McpNext == SendLine \/ Skip \/ Dispatch \/ Die

McpSpec == McpInit /\ [][McpNext]_mcpVars
-----------------------------------------------------------------------------
(* Properties. *)

\* The requests read are answered each once, in the order they were sent, which
\* their numbers show, so that a client may send ahead; a process that died owes
\* one answer.
Ended == IF serving THEN Len(handled) ELSE Len(handled) - 1
Owed == {handled[i].id : i \in 1..Ended} \ {0}
AnsweredInOrder ==
    /\ {r.id : r \in ToSet(output)} \ {0} = Owed
    /\ \A i, j \in DOMAIN output :
          i < j /\ output[i].id # 0 /\ output[j].id # 0 => output[i].id < output[j].id

\* Nothing is listed, called or read before an initialize was handled, nor for
\* a client without the key.
HandshakeComesFirst ==
    \A i \in DOMAIN handled :
        \A r \in ToSet(output) :
            /\ handled[i].method \in Lists \cup Uses
            /\ r.id = handled[i].id /\ r.is \in {"result", "tool error"}
            => ~keyed /\ \E j \in 1..i - 1 : handled[j].method = "initialize"

\* What the server owes it answers, in order, and it gives nothing else away.
ServerKeepsProtocol == AnsweredInOrder /\ HandshakeComesFirst
=============================================================================
