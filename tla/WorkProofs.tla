------------------------------ MODULE WorkProofs ------------------------------
(***************************************************************************)
(* Theorems about AgentLoop and Pipeline, and about both in MCWork.        *)
(*                                                                         *)
(* For any number of agents, tools, turns and retries, and whatever the    *)
(* model and the tools do: the types, that calls are answered, and that    *)
(* what its model was told of an agent can call, except exactly the tools  *)
(* declared for it that had no description when it was spawned.  The       *)
(* inductive invariant speaks of one agent at a time (Fits): the agents    *)
(* share nothing but the table of tools, which only grows.                 *)
(*                                                                         *)
(* For any workers, declarations and items: the types, and that pipelines  *)
(* in workers lose, repeat and disorder nothing, whatever the transforms   *)
(* give and however the workers interleave.  An item is in one place: in   *)
(* the channel, in the hands of one worker, or among the results, sent or  *)
(* collected, unless it was dropped.                                       *)
(***************************************************************************)
EXTENDS MCWork, FiniteSetTheorems, TLAPS

-----------------------------------------------------------------------------
(* The agents.                                                             *)

Running(a) == phase[a] \in {"ask", "wait", "tools"}

Retrying(a) == Running(a) => invalid[a] + retriesLeft[a] <= Retries

\* The registry has had every described tool of the agent from the beginning,
\* and never has a late one.
Knows(a) ==
    /\ \A t \in setup.tools[a] : setup.decls[t] = "good" => t \in registry[a]
    /\ registry[a] \cap Late(a) = {}
    /\ phase[a] = "wait"  => offered[a] \subseteq registry[a] \cup Late(a)
    /\ phase[a] = "tools" => minted[a] \subseteq registry[a] \cup Late(a)

IsCall(m) == m.role = "assistant" /\ m.stop = "tool_use"

Answers(m, n) ==
    n.role = "user" /\ [k \in DOMAIN n.results |-> n.results[k].tool] = m.uses

\* Every call of the conversation is answered, but for the last one while its
\* tools run: the results are those of its first tools.
Talk(ph, ms, rs) ==
    /\ ms # <<>>
    /\ \A i \in 1..Len(ms) : IsCall(ms[i]) =>
          \/ i < Len(ms) /\ Answers(ms[i], ms[i + 1])
          \/ i = Len(ms) /\ ph = "tools"
    /\ ph = "tools" =>
          /\ IsCall(ms[Len(ms)]) /\ ms[Len(ms)].uses \in Seq(Tools)
          /\ Len(rs) <= Len(ms[Len(ms)].uses)
          /\ \A k \in 1..Len(rs) : rs[k].tool = ms[Len(ms)].uses[k]

Talks(a) == Running(a) => Talk(phase[a], messages[a], results[a])

Fits(a) == Retrying(a) /\ Knows(a) /\ Talks(a)

AgentInv == AgentTypeOK /\ \A a \in Agents : Fits(a)

USE AgentAssumption

-----------------------------------------------------------------------------
LEMMA SetupType ==
    ASSUME AgentTypeOK
    PROVE  /\ Retries \in Nat /\ MaxTurns \in Nat
           /\ setup.tools \in [Agents -> SUBSET Tools]
           /\ setup.decls \in [Tools -> ToolStates]
           /\ setup' = setup => Retries' = Retries /\ MaxTurns' = MaxTurns
                                /\ \A a \in Agents : Late(a)' = Late(a)
<1>1. setup \in Setup
  BY DEF AgentTypeOK
<1>2. /\ setup.maxTurns \in Nat /\ setup.retries \in Int
      /\ setup.tools \in [Agents -> SUBSET Tools]
      /\ setup.decls \in [Tools -> ToolStates]
  BY <1>1 DEF Setup
<1>3. Retries \in Nat /\ MaxTurns \in Nat
  BY <1>2 DEF Retries, MaxTurns
<1>4. setup' = setup => Retries' = Retries /\ MaxTurns' = MaxTurns
                        /\ \A a \in Agents : Late(a)' = Late(a)
  BY DEF Retries, MaxTurns, Late
<1>5. QED
  BY <1>2, <1>3, <1>4

\* Agent b is as it was.
Same(b) ==
    /\ phase'[b] = phase[b] /\ messages'[b] = messages[b] /\ results'[b] = results[b]
    /\ registry'[b] = registry[b] /\ offered'[b] = offered[b] /\ minted'[b] = minted[b]
    /\ retriesLeft'[b] = retriesLeft[b] /\ invalid'[b] = invalid[b]

\* A step of one agent is of no consequence to the others.
LEMMA OneSteps ==
    ASSUME AgentInv, NEW a \in Agents, setup' = setup, AgentTypeOK', Fits(a)',
           \A b \in Agents : b # a => Same(b)
    PROVE  AgentInv'
<1>1. ASSUME NEW b \in Agents, b # a PROVE Fits(b)'
  <2>1. Same(b) /\ Fits(b) /\ Retries' = Retries /\ Late(b)' = Late(b)
    BY <1>1, SetupType DEF AgentInv
  <2>2. Retrying(b)'
    BY <2>1 DEF Same, Fits, Retrying, Running
  <2>3. Knows(b)'
    BY <2>1 DEF Same, Fits, Knows
  <2>4. Talks(b)'
    BY <2>1 DEF Same, Fits, Talks, Running
  <2>5. QED
    BY <2>2, <2>3, <2>4 DEF Fits
<1>2. QED
  BY <1>1 DEF AgentInv

\* The messages of a conversation.
LEMMA MessageTypes ==
    /\ \A rs \in Seq(Result) : User(rs) \in Message /\ ~IsCall(User(rs))
    /\ \A s \in Stops \ {"tool_use"}, u \in Seq(Tools) :
          Assistant(u, s) \in Message /\ ~IsCall(Assistant(u, s))
    /\ \A u \in Seq(Tools) : /\ Assistant(u, "tool_use") \in Message
                             /\ IsCall(Assistant(u, "tool_use"))
                             /\ Assistant(u, "tool_use").uses = u
<1>1. \A rs \in Seq(Result) : User(rs) \in Message /\ ~IsCall(User(rs))
  BY DEF User, Message, IsCall
<1>2. \A s \in Stops \ {"tool_use"}, u \in Seq(Tools) :
          Assistant(u, s) \in Message /\ ~IsCall(Assistant(u, s))
  BY DEF Assistant, Message, IsCall, Stops
<1>3. \A u \in Seq(Tools) : /\ Assistant(u, "tool_use") \in Message
                            /\ IsCall(Assistant(u, "tool_use"))
                            /\ Assistant(u, "tool_use").uses = u
  BY DEF Assistant, Message, IsCall, Stops
<1>4. QED
  BY <1>1, <1>2, <1>3

\* A message that calls nothing, after a conversation without an open call.
LEMMA TalkGoesOn ==
    ASSUME NEW ph \in {"ask", "wait"}, NEW ph2 \in {"ask", "wait"},
           NEW ms \in Seq(Message), NEW rs, NEW rs2, NEW m \in Message,
           Talk(ph, ms, rs), ~IsCall(m)
    PROVE  Talk(ph2, Append(ms, m), rs2)
<1> DEFINE ms2 == Append(ms, m)
<1>1. /\ Len(ms) \in Nat /\ Len(ms2) = Len(ms) + 1 /\ ms2 # <<>>
      /\ \A i \in 1..Len(ms) : ms2[i] = ms[i]
      /\ ms2[Len(ms) + 1] = m
  OBVIOUS
<1>2. \A i \in 1..Len(ms) : IsCall(ms[i]) => i < Len(ms) /\ Answers(ms[i], ms[i + 1])
  BY DEF Talk
<1> HIDE DEF ms2
<1>3. ASSUME NEW i \in 1..Len(ms2), IsCall(ms2[i])
      PROVE  i < Len(ms2) /\ Answers(ms2[i], ms2[i + 1])
  <2>1. i \in 1..Len(ms) /\ ms2[i] = ms[i]
    BY <1>1, <1>3
  <2>2. i < Len(ms) /\ Answers(ms[i], ms[i + 1])
    BY <1>2, <1>3, <2>1
  <2>3. i + 1 \in 1..Len(ms)
    BY <1>1, <2>1, <2>2
  <2>4. QED
    BY <1>1, <2>1, <2>2, <2>3
<1>4. QED
  BY <1>1, <1>3 DEF Talk, ms2

\* The model calls tools.
LEMMA TalkCalls ==
    ASSUME NEW ms \in Seq(Message), NEW rs, NEW u \in Seq(Tools),
           Talk("wait", ms, rs)
    PROVE  Talk("tools", Append(ms, Assistant(u, "tool_use")), <<>>)
<1> DEFINE m == Assistant(u, "tool_use")
           ms2 == Append(ms, m)
<1>1. m \in Message /\ IsCall(m) /\ m.uses = u
  BY MessageTypes
<1> HIDE DEF m
<1>2. /\ Len(ms) \in Nat /\ Len(ms2) = Len(ms) + 1 /\ ms2 # <<>>
      /\ \A i \in 1..Len(ms) : ms2[i] = ms[i]
      /\ ms2[Len(ms) + 1] = m
  BY <1>1
<1>3. \A i \in 1..Len(ms) : IsCall(ms[i]) => i < Len(ms) /\ Answers(ms[i], ms[i + 1])
  BY DEF Talk
<1> HIDE DEF ms2
<1>4. ASSUME NEW i \in 1..Len(ms2), IsCall(ms2[i]), i # Len(ms2)
      PROVE  i < Len(ms2) /\ Answers(ms2[i], ms2[i + 1])
  <2>1. i \in 1..Len(ms) /\ ms2[i] = ms[i]
    BY <1>2, <1>4
  <2>2. i < Len(ms) /\ Answers(ms[i], ms[i + 1])
    BY <1>3, <1>4, <2>1
  <2>3. i + 1 \in 1..Len(ms)
    BY <1>2, <2>1, <2>2
  <2>4. QED
    BY <1>2, <2>1, <2>2, <2>3
<1>5. IsCall(ms2[Len(ms2)]) /\ ms2[Len(ms2)].uses = u
  BY <1>1, <1>2
<1>6. Len(<<>>) <= Len(u) /\ \A k \in 1..Len(<<>>) : <<>>[k].tool = u[k]
  OBVIOUS
<1>7. QED
  BY <1>2, <1>4, <1>5, <1>6 DEF Talk, ms2, m

\* A tool returns.
LEMMA TalkReturns ==
    ASSUME NEW ms \in Seq(Message), NEW rs \in Seq(Result), NEW e \in BOOLEAN,
           Talk("tools", ms, rs), Len(rs) < Len(ms[Len(ms)].uses), NEW r,
           r = [tool |-> ms[Len(ms)].uses[Len(rs) + 1], error |-> e]
    PROVE  r \in Result /\ Talk("tools", ms, Append(rs, r))
<1> DEFINE u == ms[Len(ms)].uses
           rs2 == Append(rs, r)
<1>1. u \in Seq(Tools) /\ IsCall(ms[Len(ms)]) /\ \A k \in 1..Len(rs) : rs[k].tool = u[k]
  BY DEF Talk
<1> HIDE DEF u
<1>2. u[Len(rs) + 1] \in Tools /\ Len(rs) + 1 <= Len(u)
  BY <1>1 DEF u
<1>3. r \in Result /\ r.tool = u[Len(rs) + 1]
  BY <1>2 DEF Result, u
<1>4. /\ Len(rs2) = Len(rs) + 1 /\ rs2[Len(rs) + 1] = r
      /\ \A k \in 1..Len(rs) : rs2[k] = rs[k]
  BY <1>3
<1> HIDE DEF rs2
<1>5. Len(rs2) <= Len(u) /\ \A k \in 1..Len(rs2) : rs2[k].tool = u[k]
  <2>1. Len(rs) \in Nat
    OBVIOUS
  <2>2. ASSUME NEW k \in 1..Len(rs2) PROVE k \in 1..Len(rs) \/ k = Len(rs) + 1
    BY <1>4, <2>1
  <2>3. ASSUME NEW k \in 1..Len(rs2) PROVE rs2[k].tool = u[k]
    BY <1>1, <1>3, <1>4, <2>2
  <2>4. Len(rs2) <= Len(u)
    BY <1>2, <1>4
  <2>5. QED
    BY <2>3, <2>4
<1>6. Talk("tools", ms, rs2)
  BY <1>1, <1>5 DEF Talk, u
<1>7. QED
  BY <1>3, <1>6 DEF rs2

\* All have: the results are said.
LEMMA TalkAnswers ==
    ASSUME NEW ms \in Seq(Message), NEW rs \in Seq(Result), NEW rs2,
           Talk("tools", ms, rs), ~(Len(rs) < Len(ms[Len(ms)].uses))
    PROVE  Talk("ask", Append(ms, User(rs)), rs2)
<1> DEFINE m == User(rs)
           ms2 == Append(ms, m)
           u == ms[Len(ms)].uses
<1>1. m \in Message /\ ~IsCall(m) /\ m.role = "user" /\ m.results = rs
  BY MessageTypes DEF User
<1>2. u \in Seq(Tools) /\ Len(rs) <= Len(u) /\ \A k \in 1..Len(rs) : rs[k].tool = u[k]
  BY DEF Talk
<1>3. /\ Len(ms) \in Nat /\ Len(ms) > 0
      /\ \A i \in 1..Len(ms) : IsCall(ms[i]) =>
            (i < Len(ms) /\ Answers(ms[i], ms[i + 1])) \/ i = Len(ms)
  BY DEF Talk
<1> HIDE DEF m
<1>4. /\ Len(ms2) = Len(ms) + 1 /\ ms2 # <<>>
      /\ \A i \in 1..Len(ms) : ms2[i] = ms[i]
      /\ ms2[Len(ms) + 1] = m
  BY <1>1
<1>5. Answers(ms[Len(ms)], m)
  <2>1. Len(rs) = Len(u) /\ DOMAIN rs = 1..Len(rs) /\ DOMAIN u = 1..Len(u)
    BY <1>2 DEF u
  <2>2. \A k \in DOMAIN rs : rs[k].tool = u[k]
    BY <1>2, <2>1
  <2>3. u = [k \in DOMAIN rs |-> u[k]]
    <3> HIDE DEF u
    <3>1. u = [k \in DOMAIN u |-> u[k]]
      BY <1>2
    <3>2. QED
      BY <2>1, <3>1
  <2>4. [k \in DOMAIN rs |-> rs[k].tool] = u
    BY <2>2, <2>3
  <2>5. QED
    BY <1>1, <2>4 DEF Answers
<1> HIDE DEF ms2, u
<1>6. ASSUME NEW i \in 1..Len(ms2), IsCall(ms2[i])
      PROVE  i < Len(ms2) /\ Answers(ms2[i], ms2[i + 1])
  <2>1. i \in 1..Len(ms) /\ ms2[i] = ms[i]
    BY <1>1, <1>3, <1>4, <1>6
  <2>2. CASE i = Len(ms)
    BY <1>3, <1>4, <1>5, <2>1, <2>2
  <2>3. CASE i # Len(ms)
    <3>1. i < Len(ms) /\ Answers(ms[i], ms[i + 1])
      BY <1>3, <1>6, <2>1, <2>3
    <3>2. i + 1 \in 1..Len(ms)
      BY <1>3, <2>1, <3>1
    <3>3. QED
      BY <1>3, <1>4, <2>1, <3>1, <3>2
  <2>4. QED
    BY <2>2, <2>3
<1>7. QED
  BY <1>4, <1>6 DEF Talk, ms2, m

\* What is known of the agent that steps.
LEMMA Known ==
    ASSUME AgentInv, NEW a \in Agents
    PROVE  /\ AgentTypeOK /\ Fits(a) /\ Retrying(a) /\ Knows(a) /\ Talks(a)
           /\ Retries \in Nat /\ MaxTurns \in Nat
           /\ messages[a] \in Seq(Message) /\ results[a] \in Seq(Result)
           /\ turns[a] \in 0..MaxTurns /\ retriesLeft[a] \in 0..Retries
           /\ invalid[a] \in 0..Retries + 1 /\ chats[a] \in 0..MaxChats
           /\ registry[a] \subseteq Tools /\ minted[a] \subseteq Tools
<1>1. AgentTypeOK /\ Fits(a)
  BY DEF AgentInv
<1>2. QED
  BY <1>1, SetupType DEF AgentTypeOK, Fits

-----------------------------------------------------------------------------
(* Every action keeps the invariant. *)

LEMMA InitInv == AgentInit => AgentInv
<1>1. SUFFICES ASSUME AgentInit PROVE AgentInv
  OBVIOUS
<1>2. /\ setup \in Setups /\ setup \in Setup
      /\ setup.tools \in [Agents -> SUBSET Tools] /\ setup.decls \in [Tools -> ToolStates]
      /\ setup.maxTurns \in Nat /\ setup.retries \in Int
  BY <1>1 DEF AgentInit, Setup
<1>3. Retries \in Nat /\ MaxTurns \in Nat
  BY <1>2 DEF Retries, MaxTurns
<1>4. AgentTypeOK
  <2>1. /\ decls \in [Tools -> ToolStates] /\ registry \in [Agents -> SUBSET Tools]
        /\ \A a \in Agents : \A t \in registry[a] : decls[t] # "none"
    BY <1>1, <1>2 DEF AgentInit
  <2>2. /\ phase \in [Agents -> Phases] /\ messages \in [Agents -> Seq(Message)]
        /\ results \in [Agents -> Seq(Result)]
    BY <1>1 DEF AgentInit, Phases
  <2>3. /\ offered \in [Agents -> SUBSET Tools] /\ minted \in [Agents -> SUBSET Tools]
        /\ turns \in [Agents -> 0..MaxTurns] /\ retriesLeft \in [Agents -> 0..Retries]
        /\ invalid \in [Agents -> 0..Retries + 1] /\ chats \in [Agents -> 0..MaxChats]
    BY <1>1, <1>3 DEF AgentInit
  <2>4. QED
    BY <1>2, <2>1, <2>2, <2>3 DEF AgentTypeOK
<1>5. \A a \in Agents : Fits(a)
  BY <1>1, <1>2 DEF AgentInit, Fits, Retrying, Knows, Late, Talks, Running
<1>6. QED
  BY <1>4, <1>5 DEF AgentInv

LEMMA ChatInv ==
    ASSUME AgentInv, NEW a \in Agents, Chat(a)
    PROVE  AgentInv'
<1>1. AgentTypeOK /\ Knows(a) /\ Retries \in Nat /\ MaxTurns \in Nat /\ chats[a] \in 0..MaxChats
  BY Known
<1>2. /\ chats[a] < MaxChats /\ chats' = [chats EXCEPT ![a] = @ + 1]
      /\ phase' = [phase EXCEPT ![a] = "ask"]
      /\ messages' = [messages EXCEPT ![a] = <<User(<<>>)>>]
      /\ turns' = [turns EXCEPT ![a] = 0]
      /\ retriesLeft' = [retriesLeft EXCEPT ![a] = Retries]
      /\ invalid' = [invalid EXCEPT ![a] = 0]
      /\ UNCHANGED <<setup, decls, registry, offered, results, minted>>
  BY DEF Chat, Goes
<1> DEFINE ms == <<User(<<>>)>>
<1>3. User(<<>>) \in Message /\ ~IsCall(User(<<>>))
  <2>1. <<>> \in Seq(Result)
    OBVIOUS
  <2>2. QED
    BY <2>1, MessageTypes
<1>4. /\ ms \in Seq(Message) /\ ms # <<>> /\ Len(ms) = 1 /\ ms[1] = User(<<>>)
  BY <1>3
<1>5. Talk("ask", ms, results[a])
  BY <1>3, <1>4 DEF Talk
<1> HIDE DEF ms
<1>6. chats[a] + 1 \in 0..MaxChats /\ Retries' = Retries /\ MaxTurns' = MaxTurns
      /\ Late(a)' = Late(a)
  BY <1>1, <1>2, SetupType
<1>7. AgentTypeOK'
  <2>1. phase' \in [Agents -> Phases] /\ messages' \in [Agents -> Seq(Message)]
    BY <1>1, <1>2, <1>4 DEF AgentTypeOK, Phases, ms
  <2>2. /\ turns' \in [Agents -> 0..MaxTurns] /\ retriesLeft' \in [Agents -> 0..Retries]
        /\ invalid' \in [Agents -> 0..Retries + 1] /\ chats' \in [Agents -> 0..MaxChats]
    BY <1>1, <1>2, <1>6 DEF AgentTypeOK
  <2>3. QED
    BY <1>1, <1>2, <1>6, <2>1, <2>2 DEF AgentTypeOK
<1>8. /\ phase'[a] = "ask" /\ messages'[a] = ms /\ retriesLeft'[a] = Retries
      /\ invalid'[a] = 0 /\ results'[a] = results[a] /\ registry'[a] = registry[a]
  BY <1>1, <1>2 DEF AgentTypeOK, ms
<1>9. Fits(a)'
  <2>1. Retrying(a)'
    BY <1>1, <1>6, <1>8 DEF Retrying
  <2>2. Knows(a)'
    BY <1>1, <1>2, <1>6, <1>8 DEF Knows
  <2>3. Talks(a)'
    BY <1>5, <1>8 DEF Talks
  <2>4. QED
    BY <2>1, <2>2, <2>3 DEF Fits
<1>10. \A b \in Agents : b # a => Same(b)
  BY <1>1, <1>2 DEF AgentTypeOK, Same
<1>11. QED
  BY <1>2, <1>7, <1>9, <1>10, OneSteps

LEMMA RequestInv ==
    ASSUME AgentInv, NEW a \in Agents, Request(a)
    PROVE  AgentInv'
<1>1. /\ AgentTypeOK /\ Fits(a) /\ Retrying(a) /\ Knows(a) /\ Talks(a)
      /\ Retries \in Nat /\ MaxTurns \in Nat /\ turns[a] \in 0..MaxTurns
  BY Known
<1>2. /\ phase[a] = "ask" /\ turns[a] < MaxTurns
      /\ phase' = [phase EXCEPT ![a] = "wait"]
      /\ registry' = [registry EXCEPT ![a] = Fresh(a, decls)]
      /\ offered' = [offered EXCEPT ![a] = Offers(decls)]
      /\ turns' = [turns EXCEPT ![a] = @ + 1]
      /\ UNCHANGED <<setup, decls, messages, results, minted, retriesLeft, invalid, chats>>
  BY DEF Request, Goes
<1>3. /\ turns[a] + 1 \in 0..MaxTurns /\ Retries' = Retries /\ MaxTurns' = MaxTurns
      /\ Late(a)' = Late(a)
  BY <1>1, <1>2, SetupType
<1>4. /\ Fresh(a, decls) \subseteq Tools /\ Offers(decls) \subseteq Tools
      /\ registry[a] \subseteq Fresh(a, decls)
      /\ \A t \in Fresh(a, decls) : decls[t] # "none"
  BY <1>1 DEF AgentTypeOK, Fresh, Offers
<1>5. AgentTypeOK'
  <2>1. phase' \in [Agents -> Phases]
    BY <1>1, <1>2 DEF AgentTypeOK, Phases
  <2>2. /\ registry' \in [Agents -> SUBSET Tools] /\ offered' \in [Agents -> SUBSET Tools]
        /\ \A b \in Agents : \A t \in registry'[b] : decls[t] # "none"
    BY <1>1, <1>2, <1>4 DEF AgentTypeOK
  <2>3. turns' \in [Agents -> 0..MaxTurns]
    BY <1>1, <1>2, <1>3 DEF AgentTypeOK
  <2>4. QED
    BY <1>1, <1>2, <1>3, <2>1, <2>2, <2>3 DEF AgentTypeOK
<1>6. /\ phase'[a] = "wait" /\ registry'[a] = Fresh(a, decls) /\ offered'[a] = Offers(decls)
  BY <1>1, <1>2 DEF AgentTypeOK
<1>7. /\ Offers(decls) \subseteq Fresh(a, decls) \cup Late(a)
      /\ Fresh(a, decls) \cap Late(a) = {}
  BY <1>1 DEF Offers, Fresh, Late, Knows
<1>8. Fits(a)'
  <2>1. Retrying(a)'
    BY <1>1, <1>2, <1>3 DEF Retrying, Running
  <2>2. Knows(a)'
    BY <1>1, <1>2, <1>3, <1>4, <1>6, <1>7 DEF Knows
  <2>3. Talks(a)'
    BY <1>1, <1>2, <1>6 DEF Talks, Talk, Running
  <2>4. QED
    BY <2>1, <2>2, <2>3 DEF Fits
<1>9. \A b \in Agents : b # a => Same(b)
  BY <1>1, <1>2 DEF AgentTypeOK, Same
<1>10. QED
  BY <1>2, <1>5, <1>8, <1>9, OneSteps

\* The chat ends, or the agent, with or without a last message.
LEMMA EndsInv ==
    ASSUME AgentInv, NEW a \in Agents,
           Exceed(a) \/ ModelFails(a) \/ ModelEnds(a) \/ ToolPanics(a)
    PROVE  AgentInv'
<1>1. /\ AgentTypeOK /\ Fits(a) /\ Knows(a) /\ messages[a] \in Seq(Message)
      /\ Late(a)' = Late(a)
  <2>1. setup' = setup
    BY DEF Exceed, ModelFails, ModelEnds, ToolPanics
  <2>2. QED
    BY <2>1, Known, SetupType
<1>2. PICK ph \in Ended \cup {"crashed"} : phase' = [phase EXCEPT ![a] = ph]
  BY DEF Exceed, ModelFails, ModelEnds, ToolPanics, Goes, Ended
<1>3. /\ UNCHANGED <<setup, decls, registry, offered, results, minted, turns, retriesLeft,
                     invalid, chats>>
  BY DEF Exceed, ModelFails, ModelEnds, ToolPanics
<1>4. messages' \in [Agents -> Seq(Message)] /\ \A b \in Agents : b # a => messages'[b] = messages[b]
  <2>1. CASE UNCHANGED messages
    BY <1>1, <2>1 DEF AgentTypeOK
  <2>2. CASE ModelEnds(a)
    <3>1. Assistant(<<>>, "end_turn") \in Message
      <4>1. <<>> \in Seq(Tools) /\ "end_turn" \in Stops \ {"tool_use"}
        BY DEF Stops
      <4>2. QED
        BY <4>1, MessageTypes
    <3>2. messages' = [messages EXCEPT ![a] = Append(messages[a], Assistant(<<>>, "end_turn"))]
      BY <2>2 DEF ModelEnds, Say
    <3>3. Append(messages[a], Assistant(<<>>, "end_turn")) \in Seq(Message)
      BY <1>1, <3>1
    <3>4. QED
      BY <1>1, <3>2, <3>3 DEF AgentTypeOK
  <2>3. QED
    BY <2>1, <2>2 DEF Exceed, ModelFails, ToolPanics
<1>5. AgentTypeOK'
  <2>1. phase' \in [Agents -> Phases]
    BY <1>1, <1>2 DEF AgentTypeOK, Phases
  <2>2. QED
    BY <1>1, <1>3, <1>4, <2>1, SetupType DEF AgentTypeOK
<1>6. phase'[a] = ph /\ ~Running(a)' /\ phase'[a] \notin {"wait", "tools"}
  BY <1>1, <1>2 DEF AgentTypeOK, Running, Ended
<1>7. Fits(a)'
  BY <1>1, <1>3, <1>6 DEF Fits, Retrying, Knows, Talks
<1>8. \A b \in Agents : b # a => Same(b)
  BY <1>1, <1>2, <1>3, <1>4 DEF AgentTypeOK, Same
<1>9. QED
  BY <1>3, <1>5, <1>7, <1>8, OneSteps

\* The model is asked again: after an output that is not what the schema
\* demands, after one that was cut, after the results of the tools.
LEMMA AskInv ==
    ASSUME AgentInv, NEW a \in Agents, NEW ms \in Seq(Message), Running(a),
           NEW left \in 0..Retries, NEW n \in 0..Retries + 1, n + left <= Retries,
           phase' = [phase EXCEPT ![a] = "ask"],
           messages' = [messages EXCEPT ![a] = ms], Talk("ask", ms, results[a]),
           retriesLeft' = [retriesLeft EXCEPT ![a] = left],
           invalid' = [invalid EXCEPT ![a] = n],
           UNCHANGED <<setup, decls, registry, offered, results, minted, turns, chats>>
    PROVE  AgentInv'
<1>1. AgentTypeOK /\ Knows(a)
  BY Known
<1>2. Retries' = Retries /\ MaxTurns' = MaxTurns /\ Late(a)' = Late(a)
  BY <1>1, SetupType
<1>3. AgentTypeOK'
  <2>1. phase' \in [Agents -> Phases] /\ messages' \in [Agents -> Seq(Message)]
    BY <1>1 DEF AgentTypeOK, Phases
  <2>2. retriesLeft' \in [Agents -> 0..Retries] /\ invalid' \in [Agents -> 0..Retries + 1]
    BY <1>1 DEF AgentTypeOK
  <2>3. QED
    BY <1>1, <1>2, <2>1, <2>2 DEF AgentTypeOK
<1>4. /\ phase'[a] = "ask" /\ messages'[a] = ms /\ retriesLeft'[a] = left /\ invalid'[a] = n
  BY <1>1 DEF AgentTypeOK
<1>5. Fits(a)'
  <2>1. Retrying(a)'
    BY <1>2, <1>4 DEF Retrying
  <2>2. Knows(a)'
    BY <1>1, <1>2, <1>4 DEF Knows
  <2>3. Talks(a)'
    BY <1>4 DEF Talks
  <2>4. QED
    BY <2>1, <2>2, <2>3 DEF Fits
<1>6. \A b \in Agents : b # a => Same(b)
  BY <1>1 DEF AgentTypeOK, Same
<1>7. QED
  BY <1>3, <1>5, <1>6, OneSteps

LEMMA ModelErrsInv ==
    ASSUME AgentInv, NEW a \in Agents, ModelErrs(a)
    PROVE  AgentInv'
<1> DEFINE m == Assistant(<<>>, "end_turn")
           u == User(<<>>)
<1>1. /\ AgentTypeOK /\ Fits(a) /\ Retrying(a) /\ Knows(a) /\ Talks(a)
      /\ Retries \in Nat /\ messages[a] \in Seq(Message)
      /\ retriesLeft[a] \in 0..Retries /\ invalid[a] \in 0..Retries + 1
  BY Known
<1>2. phase[a] = "wait" /\ invalid' = [invalid EXCEPT ![a] = @ + 1]
      /\ UNCHANGED <<setup, decls, registry, offered, results, minted, turns, chats>>
  BY DEF ModelErrs
<1>3. Running(a) /\ invalid[a] + retriesLeft[a] <= Retries /\ Talk("wait", messages[a], results[a])
  BY <1>1, <1>2 DEF Running, Retrying, Talks
<1>4. m \in Message /\ ~IsCall(m) /\ u \in Message /\ ~IsCall(u)
  <2>1. <<>> \in Seq(Result) /\ <<>> \in Seq(Tools) /\ "end_turn" \in Stops \ {"tool_use"}
    BY DEF Stops
  <2>2. QED
    BY <2>1, MessageTypes
<1> HIDE DEF m, u
<1>5. CASE retriesLeft[a] = 0
  <2>1. /\ phase' = [phase EXCEPT ![a] = "agent_output_invalid"]
        /\ messages' = [messages EXCEPT ![a] = Append(messages[a], m)]
        /\ retriesLeft' = retriesLeft
    BY <1>5 DEF ModelErrs, Goes, Say, m
  <2>2. Append(messages[a], m) \in Seq(Message) /\ invalid[a] + 1 \in 0..Retries + 1
    BY <1>1, <1>3, <1>4, <1>5
  <2>3. /\ phase' \in [Agents -> Phases] /\ messages' \in [Agents -> Seq(Message)]
        /\ invalid' \in [Agents -> 0..Retries + 1]
    BY <1>1, <1>2, <2>1, <2>2 DEF AgentTypeOK, Phases, Ended
  <2>4. AgentTypeOK'
    BY <1>1, <1>2, <2>1, <2>3, SetupType DEF AgentTypeOK
  <2>5. ~Running(a)' /\ phase'[a] \notin {"wait", "tools"}
    BY <1>1, <2>1 DEF AgentTypeOK, Running
  <2>6. Fits(a)'
    <3>1. Late(a)' = Late(a)
      BY <1>1, <1>2, SetupType
    <3>2. QED
      BY <1>1, <1>2, <2>5, <3>1 DEF Fits, Retrying, Knows, Talks
  <2>7. \A b \in Agents : b # a => Same(b)
    BY <1>1, <1>2, <2>1 DEF AgentTypeOK, Same
  <2>8. QED
    BY <1>2, <2>4, <2>6, <2>7, OneSteps
<1>6. CASE retriesLeft[a] # 0
  <2> DEFINE ms == Append(Append(messages[a], m), u)
  <2>1. /\ phase' = [phase EXCEPT ![a] = "ask"]
        /\ messages' = [messages EXCEPT ![a] = @ \o <<m, u>>]
        /\ retriesLeft' = [retriesLeft EXCEPT ![a] = @ - 1]
    BY <1>6 DEF ModelErrs, Goes, m, u
  <2>2. Append(messages[a], m) \in Seq(Message)
        /\ Talk("ask", Append(messages[a], m), results[a])
    BY <1>1, <1>3, <1>4, TalkGoesOn
  <2>3. ms \in Seq(Message) /\ Talk("ask", ms, results[a])
    <3> DEFINE ms1 == Append(messages[a], m)
    <3>1. ms1 \in Seq(Message) /\ Talk("ask", ms1, results[a])
      BY <2>2
    <3> HIDE DEF ms1
    <3>2. Append(ms1, u) \in Seq(Message)
      BY <1>4, <3>1
    <3>3. Talk("ask", Append(ms1, u), results[a])
      BY <1>4, <3>1, TalkGoesOn
    <3>4. QED
      BY <3>2, <3>3 DEF ms1
  <2>4. messages[a] \o <<m, u>> = ms
    BY <1>1, <1>4
  <2>5. /\ retriesLeft[a] - 1 \in 0..Retries /\ invalid[a] + 1 \in 0..Retries + 1
        /\ (invalid[a] + 1) + (retriesLeft[a] - 1) <= Retries
    BY <1>1, <1>3, <1>6
  <2>6. messages' = [messages EXCEPT ![a] = ms]
    BY <2>1, <2>4
  <2> HIDE DEF ms
  <2>7. QED
    BY <1>2, <1>3, <2>1, <2>3, <2>5, <2>6, AskInv
<1>7. QED
  BY <1>5, <1>6

LEMMA ModelIsCutInv ==
    ASSUME AgentInv, NEW a \in Agents, ModelIsCut(a)
    PROVE  AgentInv'
<1>1. /\ AgentTypeOK /\ Retrying(a) /\ Talks(a) /\ Retries \in Nat
      /\ messages[a] \in Seq(Message)
      /\ retriesLeft[a] \in 0..Retries /\ invalid[a] \in 0..Retries + 1
  BY Known
<1>2. PICK c \in {<<>>, <<DefineTool>>} : Say(a, Assistant(c, "max_tokens"))
  BY DEF ModelIsCut
<1> DEFINE m == Assistant(c, "max_tokens")
           ms == Append(messages[a], m)
<1>3. /\ phase[a] = "wait" /\ phase' = [phase EXCEPT ![a] = "ask"]
      /\ messages' = [messages EXCEPT ![a] = ms]
      /\ UNCHANGED <<setup, decls, registry, offered, results, minted, turns, retriesLeft,
                     invalid, chats>>
  BY <1>2 DEF ModelIsCut, Goes, Say
<1>4. Running(a) /\ invalid[a] + retriesLeft[a] <= Retries /\ Talk("wait", messages[a], results[a])
  BY <1>1, <1>3 DEF Running, Retrying, Talks
<1>5. m \in Message /\ ~IsCall(m)
  <2>1. <<>> \in Seq(Tools) /\ <<DefineTool>> \in Seq(Tools)
    OBVIOUS
  <2>2. c \in Seq(Tools) /\ "max_tokens" \in Stops \ {"tool_use"}
    BY <1>2, <2>1 DEF Stops
  <2>3. QED
    BY <2>2, MessageTypes
<1> HIDE DEF m
<1>6. ms \in Seq(Message) /\ Talk("ask", ms, results[a])
  BY <1>1, <1>4, <1>5, TalkGoesOn
<1>7. /\ retriesLeft' = [retriesLeft EXCEPT ![a] = retriesLeft[a]]
      /\ invalid' = [invalid EXCEPT ![a] = invalid[a]]
  BY <1>1, <1>3 DEF AgentTypeOK
<1> HIDE DEF ms
<1>8. QED
  BY <1>1, <1>3, <1>4, <1>6, <1>7, AskInv

LEMMA ToolsDoneInv ==
    ASSUME AgentInv, NEW a \in Agents, ToolsDone(a)
    PROVE  AgentInv'
<1> DEFINE ms == Append(messages[a], User(results[a]))
<1>1. /\ AgentTypeOK /\ Retrying(a) /\ Talks(a) /\ Retries \in Nat
      /\ messages[a] \in Seq(Message) /\ results[a] \in Seq(Result)
      /\ retriesLeft[a] \in 0..Retries /\ invalid[a] \in 0..Retries + 1
  BY Known
<1>2. /\ phase[a] = "tools" /\ ~(Len(results[a]) < Len(Called(a)))
      /\ phase' = [phase EXCEPT ![a] = "ask"]
      /\ messages' = [messages EXCEPT ![a] = ms]
      /\ UNCHANGED <<setup, decls, registry, offered, results, minted, turns, retriesLeft,
                     invalid, chats>>
  BY DEF ToolsDone, HasNext, Goes, Say
<1>3. /\ Running(a) /\ invalid[a] + retriesLeft[a] <= Retries
      /\ Talk("tools", messages[a], results[a])
  BY <1>1, <1>2 DEF Running, Retrying, Talks
<1>4. Talk("ask", ms, results[a])
  BY <1>1, <1>2, <1>3, TalkAnswers DEF Called
<1>5. ms \in Seq(Message)
  <2>1. User(results[a]) \in Message
    BY <1>1, MessageTypes
  <2>2. QED
    BY <1>1, <2>1
<1>6. /\ retriesLeft' = [retriesLeft EXCEPT ![a] = retriesLeft[a]]
      /\ invalid' = [invalid EXCEPT ![a] = invalid[a]]
  BY <1>1, <1>2 DEF AgentTypeOK
<1> HIDE DEF ms
<1>7. QED
  BY <1>1, <1>2, <1>3, <1>4, <1>5, <1>6, AskInv

LEMMA ModelCallsInv ==
    ASSUME AgentInv, NEW a \in Agents, ModelCalls(a)
    PROVE  AgentInv'
<1>1. /\ AgentTypeOK /\ Fits(a) /\ Retrying(a) /\ Knows(a) /\ Talks(a)
      /\ Retries \in Nat /\ messages[a] \in Seq(Message)
  BY Known
<1>2. PICK u \in Uses : Say(a, Assistant(u, "tool_use"))
  BY DEF ModelCalls
<1> DEFINE ms == Append(messages[a], Assistant(u, "tool_use"))
<1>3. u \in Seq(Tools)
  BY <1>2 DEF Uses
<1>4. /\ phase[a] = "wait" /\ phase' = [phase EXCEPT ![a] = "tools"]
      /\ messages' = [messages EXCEPT ![a] = ms]
      /\ results' = [results EXCEPT ![a] = <<>>] /\ minted' = [minted EXCEPT ![a] = {}]
      /\ UNCHANGED <<setup, decls, registry, offered, turns, retriesLeft, invalid, chats>>
  BY <1>2 DEF ModelCalls, Goes, Say
<1>5. Talk("tools", ms, <<>>)
  <2>1. Talk("wait", messages[a], results[a])
    BY <1>1, <1>4 DEF Talks, Running
  <2>2. QED
    BY <1>1, <1>3, <2>1, TalkCalls
<1>6. ms \in Seq(Message) /\ <<>> \in Seq(Result)
  <2>1. Assistant(u, "tool_use") \in Message
    BY <1>3, MessageTypes
  <2>2. QED
    BY <1>1, <2>1
<1> HIDE DEF ms
<1>7. Retries' = Retries /\ MaxTurns' = MaxTurns /\ Late(a)' = Late(a)
  BY <1>1, <1>4, SetupType
<1>8. AgentTypeOK'
  <2>1. phase' \in [Agents -> Phases] /\ messages' \in [Agents -> Seq(Message)]
    BY <1>1, <1>4, <1>6 DEF AgentTypeOK, Phases
  <2>2. results' \in [Agents -> Seq(Result)] /\ minted' \in [Agents -> SUBSET Tools]
    BY <1>1, <1>4, <1>6 DEF AgentTypeOK
  <2>3. QED
    BY <1>1, <1>4, <1>7, <2>1, <2>2 DEF AgentTypeOK
<1>9. phase'[a] = "tools" /\ messages'[a] = ms /\ results'[a] = <<>> /\ minted'[a] = {}
  BY <1>1, <1>4 DEF AgentTypeOK
<1>10. Fits(a)'
  <2>1. Retrying(a)'
    BY <1>1, <1>4, <1>7 DEF Retrying, Running
  <2>2. Knows(a)'
    BY <1>1, <1>4, <1>7, <1>9 DEF Knows
  <2>3. Talks(a)'
    BY <1>5, <1>9 DEF Talks
  <2>4. QED
    BY <2>1, <2>2, <2>3 DEF Fits
<1>11. \A b \in Agents : b # a => Same(b)
  BY <1>1, <1>4 DEF AgentTypeOK, Same
<1>12. QED
  BY <1>4, <1>8, <1>10, <1>11, OneSteps

\* A call of a tool returns; the registry and the table can only have grown.
LEMMA ToolInv ==
    ASSUME AgentInv, NEW a \in Agents, ToolFails(a) \/ ToolRuns(a) \/ ToolDefines(a)
    PROVE  AgentInv'
<1>1. /\ AgentTypeOK /\ Fits(a) /\ Retrying(a) /\ Knows(a) /\ Talks(a)
      /\ Retries \in Nat /\ messages[a] \in Seq(Message) /\ results[a] \in Seq(Result)
      /\ registry[a] \subseteq Tools /\ minted[a] \subseteq Tools
      /\ decls \in [Tools -> ToolStates] /\ \A t \in registry[a] : decls[t] # "none"
  <2>1. AgentTypeOK
    BY Known
  <2>2. decls \in [Tools -> ToolStates] /\ \A t \in registry[a] : decls[t] # "none"
    BY <2>1 DEF AgentTypeOK
  <2>3. QED
    BY <2>2, Known
<1>2. /\ phase[a] = "tools" /\ Len(results[a]) < Len(Called(a))
      /\ UNCHANGED <<setup, phase, messages, offered, turns, retriesLeft, invalid, chats>>
  BY DEF ToolFails, ToolRuns, ToolDefines, HasNext
<1>3. PICK e \in BOOLEAN : Returns(a, e)
  BY DEF ToolFails, ToolRuns, ToolDefines
<1> DEFINE r == [tool |-> NextTool(a), error |-> e]
           rs == Append(results[a], r)
<1>4. rs \in Seq(Result) /\ Talk("tools", messages[a], rs)
  <2>1. Talk("tools", messages[a], results[a])
    BY <1>1, <1>2 DEF Talks, Running
  <2>2. r = [tool |-> messages[a][Len(messages[a])].uses[Len(results[a]) + 1], error |-> e]
    BY DEF NextTool, Called
  <2>3. Len(results[a]) < Len(messages[a][Len(messages[a])].uses)
    BY <1>2 DEF Called
  <2> HIDE DEF r
  <2>4. r \in Result /\ Talk("tools", messages[a], rs)
    BY <1>1, <2>1, <2>2, <2>3, TalkReturns
  <2>5. QED
    BY <1>1, <2>4
<1>5. results' = [results EXCEPT ![a] = rs]
  BY <1>3 DEF Returns
<1> HIDE DEF r, rs
<1>6. PICK reg \in SUBSET Tools, mi \in SUBSET Tools :
        /\ registry' = [registry EXCEPT ![a] = reg] /\ minted' = [minted EXCEPT ![a] = mi]
        /\ registry[a] \subseteq reg /\ \A t \in reg : decls'[t] # "none"
        /\ reg \cap Late(a) = {}
        /\ mi \subseteq minted[a] \cup reg \cup Late(a)
        /\ decls' \in [Tools -> ToolStates] /\ \A t \in Tools : decls[t] # "none" => decls'[t] # "none"
  <2>1. CASE ToolFails(a)
    <3>1. /\ registry' = [registry EXCEPT ![a] = registry[a]]
          /\ minted' = [minted EXCEPT ![a] = minted[a]] /\ decls' = decls
      BY <1>1, <2>1 DEF ToolFails, AgentTypeOK
    <3>2. QED
      BY <1>1, <3>1 DEF Knows
  <2>2. CASE ToolRuns(a)
    <3>1. /\ registry' = [registry EXCEPT ![a] = Fresh(a, decls)]
          /\ minted' = [minted EXCEPT ![a] = minted[a]] /\ decls' = decls
      BY <1>1, <2>2 DEF ToolRuns, AgentTypeOK
    <3>2. /\ Fresh(a, decls) \subseteq Tools /\ registry[a] \subseteq Fresh(a, decls)
          /\ \A t \in Fresh(a, decls) : decls[t] # "none"
          /\ Fresh(a, decls) \cap Late(a) = {}
      BY <1>1 DEF Fresh, Late, Knows
    <3>3. QED
      BY <1>1, <3>1, <3>2
  <2>3. CASE ToolDefines(a)
    <3>1. PICK t \in Tools, s \in {"bare", "good"} :
            /\ decls' = [decls EXCEPT ![t] = s]
            /\ registry' = [registry EXCEPT ![a] = Fresh(a, decls')]
            /\ minted' = [minted EXCEPT ![a] = IF s = "good" THEN @ \cup {t} ELSE @ \ {t}]
      BY <2>3 DEF ToolDefines
    <3> DEFINE mi == IF s = "good" THEN minted[a] \cup {t} ELSE minted[a] \ {t}
    <3>2. /\ decls' \in [Tools -> ToolStates] /\ decls'[t] = s
          /\ \A k \in Tools : k # t => decls'[k] = decls[k]
      BY <1>1, <3>1 DEF ToolStates
    <3>3. /\ Fresh(a, decls') \subseteq Tools /\ registry[a] \subseteq Fresh(a, decls')
          /\ \A k \in Fresh(a, decls') : decls'[k] # "none"
          /\ Fresh(a, decls') \cap Late(a) = {}
      BY <1>1, <3>1, <3>2 DEF Fresh, Late, Knows
    <3>4. mi \subseteq Tools /\ minted' = [minted EXCEPT ![a] = mi]
      BY <1>1, <3>1
    <3>5. s = "good" => t \in Fresh(a, decls') \cup Late(a)
      BY <1>1, <3>2 DEF Fresh, Late, Knows
    <3>6. mi \subseteq minted[a] \cup Fresh(a, decls') \cup Late(a)
      BY <3>5
    <3> HIDE DEF mi
    <3>7. QED
      BY <3>1, <3>2, <3>3, <3>4, <3>6
  <2>4. QED
    BY <2>1, <2>2, <2>3
<1>7. Retries' = Retries /\ MaxTurns' = MaxTurns /\ Late(a)' = Late(a)
  BY <1>1, <1>2, SetupType
<1>8. AgentTypeOK'
  <2>1. results' \in [Agents -> Seq(Result)] /\ minted' \in [Agents -> SUBSET Tools]
    BY <1>1, <1>4, <1>5, <1>6 DEF AgentTypeOK
  <2>2. /\ registry' \in [Agents -> SUBSET Tools]
        /\ \A b \in Agents : \A t \in registry'[b] : decls'[t] # "none"
    BY <1>1, <1>6 DEF AgentTypeOK
  <2>3. QED
    BY <1>1, <1>2, <1>6, <1>7, <2>1, <2>2 DEF AgentTypeOK
<1>9. results'[a] = rs /\ registry'[a] = reg /\ minted'[a] = mi
  BY <1>1, <1>5, <1>6 DEF AgentTypeOK
<1>10. Fits(a)'
  <2>1. Retrying(a)'
    BY <1>1, <1>2, <1>7 DEF Retrying, Running
  <2>2. Knows(a)'
    BY <1>1, <1>2, <1>6, <1>7, <1>9 DEF Knows
  <2>3. Talks(a)'
    BY <1>2, <1>4, <1>9 DEF Talks
  <2>4. QED
    BY <2>1, <2>2, <2>3 DEF Fits
<1>11. \A b \in Agents : b # a => Same(b)
  BY <1>1, <1>2, <1>5, <1>6 DEF AgentTypeOK, Same
<1>12. QED
  BY <1>2, <1>8, <1>10, <1>11, OneSteps

LEMMA StutterInv == AgentInv /\ UNCHANGED agentVars => AgentInv'
<1>1. SUFFICES ASSUME AgentInv, UNCHANGED agentVars PROVE AgentInv'
  OBVIOUS
<1>2. Retries' = Retries /\ MaxTurns' = MaxTurns
  BY <1>1 DEF agentVars, Retries, MaxTurns
<1>3. AgentTypeOK'
  BY <1>1, <1>2 DEF AgentInv, AgentTypeOK, agentVars
<1>4. ASSUME NEW a \in Agents PROVE Fits(a)'
  BY <1>1, <1>2 DEF AgentInv, agentVars, Fits, Retrying, Knows, Talks, Running, Late
<1>5. QED
  BY <1>3, <1>4 DEF AgentInv

LEMMA NextInv == AgentInv /\ [AgentNext]_agentVars => AgentInv'
<1>1. SUFFICES ASSUME AgentInv, NEW a \in Agents, Chat(a) \/ RunStep(a) PROVE AgentInv'
  BY StutterInv DEF AgentNext
<1>2. CASE Chat(a)
  BY <1>1, <1>2, ChatInv
<1>3. CASE Request(a)
  BY <1>1, <1>3, RequestInv
<1>4. CASE Exceed(a) \/ ModelFails(a) \/ ModelEnds(a) \/ ToolPanics(a)
  BY <1>1, <1>4, EndsInv
<1>5. CASE ModelErrs(a) \/ ModelIsCut(a) \/ ModelCalls(a)
  BY <1>1, <1>5, ModelErrsInv, ModelIsCutInv, ModelCallsInv
<1>6. CASE ToolFails(a) \/ ToolRuns(a) \/ ToolDefines(a)
  BY <1>1, <1>6, ToolInv
<1>7. CASE ToolsDone(a)
  BY <1>1, <1>7, ToolsDoneInv
<1>8. QED
  BY <1>1, <1>2, <1>3, <1>4, <1>5, <1>6, <1>7 DEF RunStep

LEMMA Invariance == AgentSpec => []AgentInv
  BY InitInv, NextInv, PTL DEF AgentSpec

-----------------------------------------------------------------------------
\* Every reachable state is well typed; turns, retries and outputs that did
\* not match stay within what the agent is configured for.
THEOREM AgentTypeCorrect == AgentSpec => []AgentTypeOK
<1>1. AgentInv => AgentTypeOK
  BY DEF AgentInv
<1>2. QED
  BY <1>1, Invariance, PTL

\* In every request the calls of tools are answered, each by its own result and
\* in order, whatever failed among them.
THEOREM EveryCallIsAnswered == AgentSpec => []CallsAreAnswered
<1>1. ASSUME AgentInv PROVE CallsAreAnswered
  <2>1. SUFFICES ASSUME NEW a \in Agents, phase[a] = "wait", NEW i \in 1..Len(messages[a]),
                        IsCall(messages[a][i])
                 PROVE  i < Len(messages[a]) /\ Answers(messages[a][i], messages[a][i + 1])
    BY DEF CallsAreAnswered, IsCall, Answers
  <2>2. Talk("wait", messages[a], results[a])
    BY <1>1, <2>1 DEF AgentInv, Fits, Talks, Running
  <2>3. QED
    BY <2>1, <2>2 DEF Talk
<1>2. QED
  BY <1>1, Invariance, PTL

\* What its model was told of an agent can call, whichever agents define tools
\* meanwhile, but for the tools it was declared with before they were described:
\* these it cannot, ever.
THEOREM KnownButLate == AgentSpec => []OnlyLateToolsAreUnknown
<1>1. AgentInv => OnlyLateToolsAreUnknown
  BY DEF AgentInv, Fits, Knows, OnlyLateToolsAreUnknown
<1>2. QED
  BY <1>1, Invariance, PTL

-----------------------------------------------------------------------------
(* The pipelines.                                                          *)

\* What the proofs see of a value, and of what a worker is at.
Num(v)     == v.item
Carried(w) == Num(crew[w].value)
Hand       == {Idle, Gone} \cup {Busy(n, v) : n \in 1..Transforms + 1, v \in Value}

\* How many items were taken, and what the workers sent of them.
Read == Len(shown) - Len(inCh)
Gathered == items \o outCh

\* The channel has the items not yet taken, in order.
Waiting ==
    /\ Len(inCh) \in 0..Len(shown)
    /\ \A k \in DOMAIN inCh : Num(inCh[k]) = Read + k

\* Every worker has an item of its own, and knows what the transforms gave.
Apart ==
    /\ \A w \in Crew : Holding(w) =>
          Carried(w) \in 1..Read /\ (crew[w].at > 1 => crew[w].value = Final(Carried(w)))
    /\ \A w, x \in Crew : Holding(w) /\ Holding(x) /\ Carried(w) = Carried(x) => w = x

\* What was sent is what is kept of items that nobody has, each once; and an
\* item that was taken was dropped, is being worked on, or was sent.
Once(g) ==
    /\ \A j \in DOMAIN g : Num(g[j]) \in 1..Read /\ Kept(Final(Num(g[j]))) = <<g[j]>>
    /\ \A j, k \in DOMAIN g : Num(g[j]) = Num(g[k]) => j = k
    /\ \A w \in Crew : Holding(w) => \A j \in DOMAIN g : Num(g[j]) # Carried(w)
Done(g, i) ==
    \/ Kept(Final(i)) = <<>>
    \/ \E w \in Crew : Holding(w) /\ Carried(w) = i
    \/ \E j \in DOMAIN g : Num(g[j]) = i
AllDone(g) == \A i \in 1..Read : Done(g, i)

\* Workers leave for good, the channel of results is closed after the last.
Closing ==
    /\ outClosed => \A w \in Crew : crew[w] = Gone
    /\ (\E w \in Crew : crew[w] = Gone) => inCh = <<>>

Declared ==
    /\ stages \in Declarations
    /\ \E n \in 0..MaxItems : shown \in [1..n -> 1..n]

Agreed == ToSet(items) = Results /\ IsInjective(items) /\ Sorted(items)

Working == Waiting /\ Apart /\ Once(Gathered) /\ AllDone(Gathered)

PlInv ==
    /\ PlTypeOK /\ Declared /\ Closing
    /\ progress = "stages" => ~Partitioned /\ inCh = <<>> /\ outCh = <<>>
    /\ progress = "workers" => Partitioned /\ Working
    /\ progress \in {"sink", "done"} /\ Partitioned => Agreed

-----------------------------------------------------------------------------
(* Values, hands and channels.                                              *)

LEMMA HandIs ==
    /\ \A n, v : Busy(n, v).is = "busy" /\ Busy(n, v).at = n /\ Busy(n, v).value = v
    /\ Idle.is # "busy" /\ Gone.is # "busy" /\ Idle # Gone
  BY DEF Busy, Idle, Gone

LEMMA HeldIs ==
    ASSUME NEW c \in Hand, c.is = "busy"
    PROVE  /\ c.at \in 1..Transforms + 1 /\ c.value \in Value
           /\ c = Busy(c.at, c.value) /\ c # Idle /\ c # Gone
<1>1. PICK n \in 1..Transforms + 1, v \in Value : c = Busy(n, v)
  BY HandIs DEF Hand
<1>2. c.at = n /\ c.value = v
  BY <1>1, HandIs
<1>3. QED
  BY <1>1, <1>2, HandIs

LEMMA ValueIs ==
    ASSUME NEW v \in Value
    PROVE  /\ Num(v) \in Items /\ v.kind \in ValueKinds
           /\ Plain(v) \in Value /\ Num(Plain(v)) = Num(v)
           /\ \A k \in ValueKinds : [v EXCEPT !.kind = k] \in Value
                                    /\ Num([v EXCEPT !.kind = k]) = Num(v)
                                    /\ [v EXCEPT !.kind = k] = [item |-> Num(v), kind |-> k]
<1>1. v.item \in Items
  BY DEF Value
<1>2. v.kind \in ValueKinds
  BY DEF Value
<1>3. v = [item |-> v.item, kind |-> v.kind]
  BY DEF Value
<1>4. ASSUME NEW k \in ValueKinds
      PROVE  /\ [v EXCEPT !.kind = k] = [item |-> v.item, kind |-> k]
             /\ [item |-> v.item, kind |-> k] \in Value
  <2>1. [v EXCEPT !.kind = k] = [item |-> v.item, kind |-> k]
    BY <1>3
  <2>2. [item |-> v.item, kind |-> k] \in Value
    BY <1>1 DEF Value
  <2>3. QED
    BY <2>1, <2>2
<1>5. \A k : [item |-> v.item, kind |-> k].item = v.item
  OBVIOUS
<1>6. "plain" \in ValueKinds
  BY DEF ValueKinds
<1>7. QED
  BY <1>1, <1>2, <1>4, <1>5, <1>6, Zenon DEF Num, Plain

\* A value is kept, perhaps unwrapped, or not.
LEMMA KeptIs ==
    ASSUME NEW v \in Value
    PROVE  /\ \/ Kept(v) = <<>>
              \/ \E u \in Value : Kept(v) = <<u>> /\ Num(u) = Num(v)
           /\ \/ KeptOnError(v) = <<>>
              \/ \E u \in Value : KeptOnError(v) = <<u>>
<1>1. Plain(v) \in Value /\ Num(Plain(v)) = Num(v)
  BY ValueIs
<1>2. Kept(v) \in {<<>>, <<Plain(v)>>, <<v>>}
  BY DEF Kept
<1>3. KeptOnError(v) \in {<<>>, <<Plain(v)>>, <<v>>}
  BY DEF KeptOnError
<1>4. QED
  BY <1>1, <1>2, <1>3, Zenon

LEMMA TransformsAre == ASSUME stages \in Declarations PROVE Transforms \in Nat
<1>1. stages \in Seq(Stage)
  BY PipelineAssumption
<1>2. IsFiniteSet(1..Len(stages)) /\ DOMAIN stages = 1..Len(stages)
  BY <1>1, FS_Interval
<1>3. \A S \in SUBSET DOMAIN stages : Cardinality(S) \in Nat
  BY <1>2, FS_Subset, FS_CardinalityType
<1>4. {s \in DOMAIN stages : stages[s] = "transform"} \in SUBSET DOMAIN stages
  OBVIOUS
<1>5. Cardinality({s \in DOMAIN stages : stages[s] = "transform"}) \in Nat
  BY <1>3, <1>4, Zenon
<1>6. QED
  BY <1>5 DEF Transforms, Count

\* A sequence of distinct items of the first n has at most n.
LEMMA AtMostTaken ==
    ASSUME NEW g \in Seq(Value), NEW n \in Nat, \A j \in DOMAIN g : Num(g[j]) \in 1..n,
           \A j, k \in DOMAIN g : Num(g[j]) = Num(g[k]) => j = k
    PROVE  Len(g) <= n
<1> DEFINE f == [j \in 1..Len(g) |-> Num(g[j])]
<1>1. DOMAIN g = 1..Len(g) /\ Len(g) \in Nat
  OBVIOUS
<1>2. f \in Injection(1..Len(g), 1..n)
  BY <1>1 DEF Injection, IsInjective
<1>3. \A m \in Nat : IsFiniteSet(1..m) /\ Cardinality(1..m) = m
  <2> TAKE m \in Nat
  <2>1. m \in Int /\ 1 \in Int
    OBVIOUS
  <2>2. IsFiniteSet(1..m) /\ Cardinality(1..m) = IF 1 > m THEN 0 ELSE m - 1 + 1
    BY <2>1, FS_Interval, Zenon
  <2>3. (IF 1 > m THEN 0 ELSE m - 1 + 1) = m
    OBVIOUS
  <2>4. QED
    BY <2>2, <2>3
<1>4. Cardinality(1..Len(g)) <= Cardinality(1..n)
  BY <1>2, <1>3, FS_Injection
<1>5. QED
  BY <1>1, <1>3, <1>4

\* Collecting moves the first of the one to the end of the other.
LEMMA CollectMoves ==
    ASSUME NEW S, NEW s \in Seq(S), NEW t \in Seq(S), t # <<>>
    PROVE  Append(s, Head(t)) \o Tail(t) = s \o t
  OBVIOUS

LEMMA SendAppends ==
    ASSUME NEW S, NEW s \in Seq(S), NEW t \in Seq(S), NEW x \in S
    PROVE  s \o (t \o <<x>>) = Append(s \o t, x)
  OBVIOUS

\* An injection of a range into itself reaches all of it.
LEMMA Permutes ==
    ASSUME NEW n \in Nat, NEW p \in [1..n -> 1..n], IsInjective(p), NEW i \in 1..n
    PROVE  \E j \in 1..n : p[j] = i
<1>1. p \in Injection(1..n, 1..n)
  BY DEF Injection
<1>2. IsFiniteSet(1..n)
  BY FS_Interval
<1>3. p \in Surjection(1..n, 1..n)
  BY <1>1, <1>2, FS_Injection
<1>4. QED
  BY <1>3 DEF Surjection
-----------------------------------------------------------------------------
(* The steps of the workers.                                                *)

\* What the proofs need of a state with workers.
LEMMA AtWork ==
    ASSUME PlInv
    PROVE  /\ Transforms \in Nat /\ Len(shown) \in 0..MaxItems /\ DOMAIN shown = 1..Len(shown)
           /\ \A i \in DOMAIN shown : Final(i) \in Value /\ Num(Final(i)) = i
           /\ \A w \in Crew : crew[w] \in Hand
           /\ \A w \in Crew : Holding(w) => /\ crew[w].at \in 1..Transforms + 1
                                            /\ crew[w].value \in Value
                                            /\ crew[w] # Idle /\ crew[w] # Gone
           /\ \A w \in Crew : crew[w] \in {Idle, Gone} => ~Holding(w)
           /\ progress = "workers" => Transforms > 0 /\ Working
<1>1. stages \in Declarations
  BY DEF PlInv, Declared
<1>2. Transforms \in Nat
  BY <1>1, TransformsAre
<1>3. PICK n \in 0..MaxItems : shown \in [1..n -> 1..n]
  BY DEF PlInv, Declared
<1>4. Len(shown) \in 0..MaxItems /\ DOMAIN shown = 1..Len(shown)
  <2>1. n \in Nat /\ shown \in Seq(1..n)
    BY <1>3, PipelineAssumption
  <2>2. Len(shown) = n
    BY <1>3, <2>1
  <2>3. QED
    BY <1>3, <2>2
<1>5. ASSUME NEW i \in DOMAIN shown PROVE Final(i) \in Value /\ Num(Final(i)) = i
  <2>1. gave[i] \in ValueKinds
    BY DEF PlInv, PlTypeOK
  <2>2. i \in Items
    <3>1. Len(shown) \in Nat /\ Len(shown) <= MaxItems /\ MaxItems \in Nat
      BY <1>4, PipelineAssumption
    <3>2. i \in 1..Len(shown)
      BY <1>4
    <3>3. QED
      BY <3>1, <3>2 DEF Items
  <2>3. [item |-> i, kind |-> gave[i]].item = i
    OBVIOUS
  <2>4. QED
    BY <2>1, <2>2, <2>3 DEF Final, Value, Num
<1>6. \A w \in Crew : crew[w] \in Hand
  BY DEF PlInv, PlTypeOK, Hand
<1>7. \A w \in Crew : Holding(w) => /\ crew[w].at \in 1..Transforms + 1
                                    /\ crew[w].value \in Value
                                    /\ crew[w] # Idle /\ crew[w] # Gone
  BY <1>6, HeldIs, Zenon DEF Holding
<1>8. \A w \in Crew : crew[w] \in {Idle, Gone} => ~Holding(w)
  BY HandIs, Zenon DEF Holding
<1>9. progress = "workers" => Transforms > 0 /\ Working
  BY Zenon DEF PlInv, Partitioned
<1>10. QED
  BY <1>2, <1>4, <1>5, <1>6, <1>7, <1>8, <1>9

\* One worker's hand changes: what the others have stays what it was.
Moves(w, c) ==
    /\ progress = "workers" /\ UNCHANGED <<stages, shown, progress, todo, at, outClosed>>
    /\ w \in Crew /\ crew[w] # Gone /\ c \in Hand /\ crew' = [crew EXCEPT ![w] = c]

LEMMA MovesIs ==
    ASSUME PlInv, NEW w, NEW c, Moves(w, c)
    PROVE  /\ crew'[w] = c /\ \A x \in Crew : x # w => crew'[x] = crew[x]
           /\ crew' \in [Crew -> Hand] /\ Transforms' = Transforms /\ Partitioned' = Partitioned
           /\ Partitioned /\ outClosed = FALSE /\ outClosed' = FALSE /\ Declared'
           /\ \A v : Kept(v)' = Kept(v)
<1>1. crew \in [Crew -> Hand]
  BY DEF PlInv, PlTypeOK, Hand
<1>2. Transforms' = Transforms /\ Partitioned' = Partitioned
  BY DEF Moves, Transforms, Partitioned, Count
<1>3. Partitioned /\ outClosed = FALSE
  <2>1. outClosed => crew[w] = Gone
    BY Zenon DEF PlInv, Closing, Moves
  <2>2. outClosed \in BOOLEAN
    BY DEF PlInv, PlTypeOK
  <2>3. Partitioned
    BY Zenon DEF PlInv, Moves
  <2>4. QED
    BY <2>1, <2>2, <2>3 DEF Moves
<1>4. Declared'
  BY DEF Moves, PlInv, Declared
<1>5. QED
  BY <1>1, <1>2, <1>3, <1>4 DEF Moves

\* The rest of the invariant when a hand changes and the work is as it should be.
LEMMA MoveKeeps ==
    ASSUME PlInv, NEW w, NEW c, Moves(w, c), Working',
           inCh' \in Seq(Value), items' \in Seq(Value), outCh' \in Seq(Value),
           gave' \in [DOMAIN shown -> ValueKinds],
           c = Gone => inCh = <<>>, inCh = <<>> => inCh' = <<>>
    PROVE  PlInv'
<1>1. /\ crew'[w] = c /\ \A x \in Crew : x # w => crew'[x] = crew[x]
      /\ crew' \in [Crew -> Hand] /\ Transforms' = Transforms /\ Partitioned' = Partitioned
      /\ Partitioned /\ outClosed = FALSE /\ outClosed' = FALSE /\ Declared'
  BY MovesIs
<1>2. /\ UNCHANGED <<stages, shown, progress, todo, at, outClosed>> /\ progress = "workers"
  BY DEF Moves
<1>3. Closing'
  <2>1. ASSUME NEW x \in Crew, crew'[x] = Gone PROVE inCh = <<>>
    <3>1. CASE x = w
      BY <1>1, <2>1, <3>1
    <3>2. CASE x # w
      <4>1. crew[x] = Gone
        BY <1>1, <2>1, <3>2
      <4>2. QED
        BY <4>1 DEF PlInv, Closing
    <3>3. QED
      BY <3>1, <3>2
  <2>2. QED
    BY <1>1, <2>1 DEF Closing
<1>4. Len(inCh') + Len(outCh') <= Len(shown')
  <2>1. PICK is, os, n : is = items' /\ os = outCh' /\ n = Len(inCh')
    OBVIOUS
  <2>2. PICK m : m = Len(shown)
    OBVIOUS
  <2>3. n \in 0..m /\ m \in Nat
    <3>1. m \in Nat
      BY <2>2, AtWork
    <3>2. QED
      BY <1>2, <2>1, <2>2, <3>1 DEF Working, Waiting
  <2>4. PICK g : g = is \o os
    OBVIOUS
  <2>5. /\ \A j \in DOMAIN g : Num(g[j]) \in 1..m - n
        /\ \A j, k \in DOMAIN g : Num(g[j]) = Num(g[k]) => j = k
    BY <1>2, <2>1, <2>2, <2>4 DEF Working, Once, Gathered, Read
  <2>6. is \in Seq(Value) /\ os \in Seq(Value) /\ g \in Seq(Value) /\ Len(g) = Len(is) + Len(os)
    BY <2>1, <2>4
  <2>7. m - n \in Nat
    BY <2>3
  <2>8. Len(g) <= m - n
    BY <2>5, <2>6, <2>7, AtMostTaken
  <2>9. Len(os) <= m - n
    BY <2>6, <2>7, <2>8
  <2>10. n + Len(os) <= m
    BY <2>3, <2>6, <2>9
  <2>11. QED
    BY <1>2, <2>1, <2>2, <2>10
<1>5. PlTypeOK'
  BY <1>1, <1>2, <1>4 DEF PlInv, PlTypeOK, Hand
<1>6. QED
  BY <1>1, <1>2, <1>3, <1>5 DEF PlInv

LEMMA TakeKeeps == ASSUME PlInv, NEW w \in Crew, Take(w) PROVE PlInv'
<1>1. /\ progress = "workers" /\ crew[w] = Idle /\ inCh # <<>> /\ inCh \in Seq(Value)
      /\ items \in Seq(Value) /\ outCh \in Seq(Value) /\ gave \in [DOMAIN shown -> ValueKinds]
  BY DEF Take, PlInv, PlTypeOK
<1>2. UNCHANGED <<stages, shown, progress, items, todo, at, outCh, outClosed, gave>>
  BY DEF Take
<1>3. PICK v : v = Head(inCh)
  OBVIOUS
<1>4. PICK r : r = Read
  OBVIOUS
<1>5. Transforms \in Nat /\ Working /\ ~Holding(w) /\ Len(shown) \in Nat
  BY <1>1, AtWork
<1>6. /\ Len(inCh) \in 0..Len(shown) /\ r = Len(shown) - Len(inCh)
      /\ \A k \in DOMAIN inCh : Num(inCh[k]) = r + k
  BY <1>4, <1>5 DEF Working, Waiting, Read
<1>7. /\ v \in Value /\ v = inCh[1] /\ inCh' \in Seq(Value) /\ Len(inCh) = Len(inCh') + 1
      /\ Len(inCh') \in Nat
      /\ DOMAIN inCh' = 1..Len(inCh') /\ \A k \in DOMAIN inCh' : inCh'[k] = inCh[k + 1]
      /\ DOMAIN inCh = 1..Len(inCh)
  BY <1>1, <1>3 DEF Take
<1>8. r \in Nat /\ Read' = r + 1 /\ Num(v) = r + 1
  <2>1. 1 \in DOMAIN inCh /\ Len(inCh) \in Nat
    BY <1>7
  <2>2. Num(v) = r + 1
    <3>1. Num(inCh[1]) = r + 1
      BY <1>6, <2>1
    <3>2. QED
      BY <1>7, <3>1
  <2>3. r \in Nat
    BY <1>5, <1>6
  <2>4. Read' = Len(shown) - Len(inCh')
    BY <1>2 DEF Read
  <2>5. Len(shown) \in Nat /\ r = Len(shown) - Len(inCh) /\ Len(inCh) = Len(inCh') + 1
    BY <1>5, <1>6, <1>7
  <2>6. Read' = r + 1
    BY <1>7, <2>4, <2>5
  <2>7. QED
    BY <2>2, <2>3, <2>6
<1>9. Moves(w, Busy(1, v))
  <2>1. Busy(1, v) \in Hand
    BY <1>5, <1>7 DEF Hand
  <2>2. QED
    BY <1>1, <1>2, <1>3, <2>1, HandIs DEF Moves, Take
<1>10. /\ crew'[w] = Busy(1, v) /\ \A x \in Crew : x # w => crew'[x] = crew[x]
       /\ \A u : Kept(u)' = Kept(u)
  BY <1>9, MovesIs
<1>11. Holding(w)' /\ Carried(w)' = r + 1 /\ crew'[w].at = 1
  BY <1>8, <1>10, HandIs DEF Holding, Carried
<1>12. \A x \in Crew : x # w => (Holding(x)' <=> Holding(x)) /\ Carried(x)' = Carried(x)
  BY <1>10 DEF Holding, Carried
<1>13. \A i : Final(i)' = Final(i)
  BY <1>2 DEF Final
<1>14. \A i \in 1..r : i \in 1..r + 1 /\ i # r + 1
  BY <1>8
<1>15. \A x \in Crew : Holding(x) =>
          /\ Carried(x) \in 1..r
          /\ crew[x].at > 1 => crew[x].value = Final(Carried(x))
  BY <1>4, <1>5 DEF Working, Apart
<1>16. Waiting'
  <2>1. Len(inCh') \in 0..Len(shown')
    BY <1>2, <1>5, <1>6, <1>7
  <2>2. ASSUME NEW k \in DOMAIN inCh' PROVE Num(inCh'[k]) = r + 1 + k
    <3>1. k \in Nat /\ k + 1 \in DOMAIN inCh /\ inCh'[k] = inCh[k + 1]
      BY <1>7
    <3>2. Num(inCh[k + 1]) = r + (k + 1)
      BY <1>6, <3>1
    <3>3. QED
      BY <1>8, <3>1, <3>2
  <2>3. QED
    BY <1>8, <2>1, <2>2 DEF Waiting
<1>17. Apart'
  <2>1. ASSUME NEW x \in Crew, Holding(x)'
        PROVE  /\ Carried(x)' \in 1..r + 1
               /\ crew'[x].at > 1 => crew'[x].value = Final(Carried(x)')
    <3>1. CASE x = w
      BY <1>8, <1>11, <3>1
    <3>2. CASE x # w
      BY <1>10, <1>12, <1>14, <1>15, <2>1, <3>2
    <3>3. QED
      BY <3>1, <3>2
  <2>2. ASSUME NEW x \in Crew, NEW y \in Crew, Holding(x)', Holding(y)', Carried(x)' = Carried(y)'
        PROVE  x = y
    <3>1. \A z \in Crew : z # w /\ Holding(z)' => Carried(z)' # r + 1
      BY <1>12, <1>14, <1>15
    <3>2. CASE x = w \/ y = w
      BY <1>11, <2>2, <3>1, <3>2
    <3>3. CASE x # w /\ y # w
      BY <1>5, <1>12, <2>2, <3>3 DEF Working, Apart
    <3>4. QED
      BY <3>2, <3>3
  <2>3. QED
    BY <1>8, <1>13, <2>1, <2>2 DEF Apart
<1>18. PICK g : g = Gathered
  OBVIOUS
<1>19. Gathered' = g
  BY <1>2, <1>18 DEF Gathered
<1>20. Once(g) /\ AllDone(g)
  BY <1>5, <1>18 DEF Working
<1>21. Once(g)'
  <2>1. \A j \in DOMAIN g : Num(g[j]) \in 1..r /\ Kept(Final(Num(g[j]))) = <<g[j]>>
    BY <1>4, <1>20 DEF Once
  <2>2. \A j \in DOMAIN g : Num(g[j]) \in 1..r + 1 /\ Kept(Final(Num(g[j])))' = <<g[j]>>
    BY <1>2, <1>14, <2>1 DEF Final, Kept
  <2>3. \A x \in Crew : Holding(x)' => \A j \in DOMAIN g : Num(g[j]) # Carried(x)'
    BY <1>11, <1>12, <1>14, <1>20, <2>1 DEF Once
  <2>4. QED
    BY <1>8, <1>20, <2>2, <2>3 DEF Once
<1>22. AllDone(g)'
  <2> SUFFICES ASSUME NEW i \in 1..r + 1 PROVE Done(g, i)'
    BY <1>8 DEF AllDone
  <2>1. CASE i = r + 1
    BY <1>11, <2>1 DEF Done
  <2>2. CASE i # r + 1
    <3>1. i \in 1..r
      BY <1>8, <2>2
    <3>2. Done(g, i)
      BY <1>4, <1>20, <3>1 DEF AllDone
    <3>3. Kept(Final(i))' = Kept(Final(i))
      BY <1>2 DEF Final, Kept
    <3>4. QED
      BY <1>5, <1>12, <3>2, <3>3 DEF Done
  <2>3. QED
    BY <2>1, <2>2
<1>23. Working'
  BY <1>16, <1>17, <1>19, <1>21, <1>22 DEF Working
<1>24. QED
  BY <1>1, <1>2, <1>7, <1>9, <1>23, MoveKeeps, HandIs

\* A transform that panics ends it all.
LEMMA PanicKeeps == ASSUME PlInv, NEW v, TransformPanics(v) PROVE PlInv'
<1>1. /\ progress' \in {"killed", "error"}
      /\ UNCHANGED <<stages, shown, items, todo, at, inCh, outCh, outClosed, crew, gave>>
  BY DEF TransformPanics
<1>2. Transforms' = Transforms /\ Partitioned' = Partitioned
  BY <1>1 DEF Transforms, Partitioned, Count
<1>3. Declared' /\ Closing'
  BY <1>1 DEF PlInv, Declared, Closing
<1>4. PlTypeOK'
  BY <1>1, <1>2 DEF PlInv, PlTypeOK
<1>5. progress' # "stages" /\ progress' # "workers" /\ progress' \notin {"sink", "done"}
  BY <1>1
<1>6. QED
  BY <1>3, <1>4, <1>5 DEF PlInv

LEMMA TransformKeeps == ASSUME PlInv, NEW w \in Crew, Transform(w) PROVE PlInv'
<1>1. /\ progress = "workers" /\ Holding(w) /\ crew[w].at <= Transforms /\ inCh \in Seq(Value)
      /\ items \in Seq(Value) /\ outCh \in Seq(Value) /\ gave \in [DOMAIN shown -> ValueKinds]
  BY DEF Transform, PlInv, PlTypeOK
<1>2. PICK v : v = crew[w].value
  OBVIOUS
<1>3. CASE TransformPanics(v)
  BY <1>3, PanicKeeps
<1>4. CASE \E k \in ValueKinds :
              /\ CallTransform(v, k)
              /\ crew' = [crew EXCEPT ![w] = Busy(@.at + 1, [v EXCEPT !.kind = k])]
              /\ UNCHANGED <<stages, shown, progress, items, todo, at, inCh, outCh, outClosed>>
  <2>1. PICK k \in ValueKinds :
              /\ gave' = [gave EXCEPT ![v.item] = k]
              /\ crew' = [crew EXCEPT ![w] = Busy(crew[w].at + 1, [v EXCEPT !.kind = k])]
              /\ UNCHANGED <<stages, shown, progress, items, todo, at, inCh, outCh, outClosed>>
    BY <1>4 DEF CallTransform
  <2>2. PICK u, n, r : u = [v EXCEPT !.kind = k] /\ n = crew[w].at /\ r = Read
    OBVIOUS
  <2>3. /\ Transforms \in Nat /\ Working /\ n \in 1..Transforms + 1 /\ v \in Value
        /\ crew[w] # Gone /\ Len(shown) \in Nat /\ DOMAIN shown = 1..Len(shown)
    BY <1>1, <1>2, <2>2, AtWork
  <2>4. PICK i : i = Num(v)
    OBVIOUS
  <2>5. u \in Value /\ Num(u) = i /\ u = [item |-> i, kind |-> k]
    BY <2>2, <2>3, <2>4, ValueIs
  <2>6. /\ Carried(w) = i
        /\ \A x \in Crew : Holding(x) =>
              /\ Carried(x) \in 1..r
              /\ crew[x].at > 1 => crew[x].value = Final(Carried(x))
        /\ \A x, y \in Crew : Holding(x) /\ Holding(y) /\ Carried(x) = Carried(y) => x = y
        /\ Len(inCh) \in 0..Len(shown)
    BY <1>2, <2>2, <2>3, <2>4 DEF Carried, Working, Apart, Waiting
  <2>7. r \in Nat /\ r <= Len(shown) /\ Read' = r /\ r = Len(shown) - Len(inCh)
    BY <2>1, <2>2, <2>3, <2>6 DEF Read
  <2>8. i \in 1..r /\ i \in DOMAIN shown
    BY <1>1, <2>3, <2>6, <2>7
  <2>9. n + 1 \in 1..Transforms + 1 /\ n + 1 > 1
    BY <1>1, <2>2, <2>3
  <2>10. Moves(w, Busy(n + 1, u))
    <3>1. Busy(n + 1, u) \in Hand
      BY <2>5, <2>9 DEF Hand
    <3>2. QED
      BY <1>1, <2>1, <2>2, <2>3, <3>1 DEF Moves
  <2>11. /\ crew'[w] = Busy(n + 1, u) /\ \A x \in Crew : x # w => crew'[x] = crew[x]
    BY <2>10, MovesIs
  <2>12. Holding(w)' /\ Carried(w)' = i /\ crew'[w].value = u
    BY <2>5, <2>11, HandIs DEF Holding, Carried
  <2>13. \A x \in Crew : (Holding(x)' <=> Holding(x)) /\ Carried(x)' = Carried(x)
    BY <1>1, <2>6, <2>11, <2>12 DEF Holding, Carried
  <2>14. /\ gave' \in [DOMAIN shown -> ValueKinds] /\ gave'[i] = k
         /\ \A j \in DOMAIN shown : j # i => gave'[j] = gave[j]
    BY <1>1, <2>1, <2>4, <2>8 DEF Num
  <2>15. /\ Final(i)' = u
         /\ \A j \in 1..r : j \in DOMAIN shown /\ (j # i => Final(j)' = Final(j))
    <3>1. \A j \in 1..r : j \in 1..Len(shown)
      BY <2>3, <2>7
    <3>2. QED
      BY <2>3, <2>5, <2>14, <3>1 DEF Final
  <2>16. Waiting'
    BY <2>1, <2>3, <2>7 DEF Working, Waiting, Read
  <2>17. Apart'
    <3>1. ASSUME NEW x \in Crew, Holding(x)'
          PROVE  /\ Carried(x)' \in 1..r
                 /\ crew'[x].at > 1 => crew'[x].value = Final(Carried(x))'
      <4>1. CASE x = w
        BY <2>8, <2>12, <2>15, <4>1
      <4>2. CASE x # w
        <5>1. Carried(x) \in 1..r /\ Carried(x) # i /\ crew'[x] = crew[x] /\ Carried(x)' = Carried(x)
          BY <1>1, <2>6, <2>11, <2>13, <3>1, <4>2
        <5>2. PICK j : j = Carried(x)
          OBVIOUS
        <5>3. Final(j)' = Final(j)
          BY <2>15, <5>1, <5>2
        <5>4. crew[x].at > 1 => crew[x].value = Final(j)
          BY <2>6, <2>13, <3>1, <5>2
        <5>5. Final(Carried(x))' = Final(j)'
          BY <5>1, <5>2 DEF Final
        <5>6. QED
          BY <5>1, <5>3, <5>4, <5>5
      <4>3. QED
        BY <4>1, <4>2
    <3>2. QED
      BY <2>6, <2>7, <2>13, <3>1 DEF Apart
  <2>18. PICK g : g = Gathered
    OBVIOUS
  <2>19. Gathered' = g /\ Once(g) /\ AllDone(g)
    BY <2>1, <2>3, <2>18 DEF Gathered, Working
  <2>20. Once(g)'
    <3>1. ASSUME NEW j \in DOMAIN g PROVE Num(g[j]) \in 1..r /\ Kept(Final(Num(g[j])))' = <<g[j]>>
      <4>1. Num(g[j]) \in 1..r /\ Num(g[j]) # i /\ Kept(Final(Num(g[j]))) = <<g[j]>>
        BY <1>1, <2>2, <2>6, <2>19 DEF Once
      <4>2. Final(Num(g[j]))' = Final(Num(g[j]))
        BY <2>15, <4>1
      <4>3. QED
        BY <4>1, <4>2 DEF Kept
    <3>2. QED
      BY <2>7, <2>13, <2>19, <3>1 DEF Once
  <2>21. AllDone(g)'
    <3> SUFFICES ASSUME NEW j \in 1..r PROVE Done(g, j)'
      BY <2>7 DEF AllDone
    <3>1. CASE j = i
      BY <2>12, <3>1 DEF Done
    <3>2. CASE j # i
      <4>1. Done(g, j)
        BY <2>2, <2>19 DEF AllDone
      <4>2. Kept(Final(j))' = Kept(Final(j))
        <5>1. Final(j)' = Final(j)
          BY <2>15, <3>2
        <5>2. QED
          BY <5>1 DEF Kept
      <4>3. QED
        BY <2>13, <4>1, <4>2 DEF Done
    <3>3. QED
      BY <3>1, <3>2
  <2>22. Working'
    BY <2>16, <2>17, <2>19, <2>20, <2>21 DEF Working
  <2>23. Busy(n + 1, u) # Gone
    BY HandIs
  <2>24. QED
    BY <1>1, <2>1, <2>10, <2>14, <2>22, <2>23, MoveKeeps
<1>5. QED
  BY <1>2, <1>3, <1>4 DEF Transform

\* What hands that are emptied leave as it was.
LEMMA Emptied ==
    ASSUME PlInv, NEW w, NEW c, Moves(w, c), c \in {Idle, Gone}, UNCHANGED <<inCh, gave>>
    PROVE  /\ Waiting' /\ Apart' /\ Read' = Read /\ ~Holding(w)'
           /\ \A x \in Crew : x # w => (Holding(x)' <=> Holding(x)) /\ Carried(x)' = Carried(x)
           /\ \A i : Kept(Final(i))' = Kept(Final(i))
<1>1. /\ crew'[w] = c /\ \A x \in Crew : x # w => crew'[x] = crew[x]
      /\ UNCHANGED <<stages, shown, progress, todo, at, outClosed>> /\ progress = "workers"
  BY MovesIs DEF Moves
<1>2. Waiting /\ Apart
  BY <1>1, AtWork DEF Working
<1>3. ~Holding(w)'
  BY <1>1, HandIs DEF Holding
<1>4. \A x \in Crew : x # w => (Holding(x)' <=> Holding(x)) /\ Carried(x)' = Carried(x)
  BY <1>1 DEF Holding, Carried
<1>5. Read' = Read
  BY <1>1 DEF Read
<1>6. \A i : Final(i)' = Final(i)
  BY DEF Final
<1>7. \A i : Kept(Final(i))' = Kept(Final(i))
  BY <1>6 DEF Kept
<1>8. Waiting'
  BY <1>1, <1>2, <1>5 DEF Waiting
<1>9. Apart'
  <2>1. ASSUME NEW x \in Crew, Holding(x)'
        PROVE  /\ x # w /\ Carried(x)' \in 1..Read
               /\ crew'[x].at > 1 => crew'[x].value = Final(Carried(x))'
    <3>1. x # w /\ Holding(x) /\ Carried(x)' = Carried(x) /\ crew'[x] = crew[x]
      BY <1>1, <1>3, <1>4, <2>1
    <3>2. Final(Carried(x))' = Final(Carried(x))
      BY <3>1 DEF Final
    <3>3. QED
      BY <1>2, <3>1, <3>2 DEF Apart
  <2>2. ASSUME NEW x \in Crew, NEW y \in Crew, Holding(x)', Holding(y)', Carried(x)' = Carried(y)'
        PROVE  x = y
    BY <1>2, <1>4, <2>1, <2>2 DEF Apart
  <2>3. QED
    BY <1>5, <2>1, <2>2 DEF Apart
<1>10. QED
  BY <1>3, <1>4, <1>5, <1>7, <1>8, <1>9

\* A worker that has an item done with its transforms has what they gave for it.
LEMMA Finished ==
    ASSUME PlInv, progress = "workers", NEW w \in Crew, Holding(w), crew[w].at > Transforms
    PROVE  /\ crew[w].value = Final(Carried(w)) /\ crew[w].value \in Value
           /\ Carried(w) \in 1..Read
<1>1. Transforms \in Nat /\ Transforms > 0 /\ crew[w].at \in 1..Transforms + 1 /\ Working /\ crew[w].value \in Value
  BY AtWork
<1>2. crew[w].at > 1
  BY <1>1
<1>3. QED
  BY <1>1, <1>2 DEF Working, Apart

LEMMA DropNilKeeps == ASSUME PlInv, NEW w \in Crew, DropNil(w) PROVE PlInv'
<1>1. /\ progress = "workers" /\ Holding(w) /\ crew[w].at > Transforms /\ inCh \in Seq(Value)
      /\ items \in Seq(Value) /\ outCh \in Seq(Value) /\ gave \in [DOMAIN shown -> ValueKinds]
      /\ crew' = [crew EXCEPT ![w] = Idle] /\ Kept(crew[w].value) = <<>>
      /\ UNCHANGED <<stages, shown, progress, items, todo, at, inCh, outCh, outClosed, gave>>
  BY DEF DropNil, PlInv, PlTypeOK
<1>2. Working /\ crew[w] # Gone
  BY <1>1, AtWork
<1>3. Moves(w, Idle)
  BY <1>1, <1>2 DEF Moves, Hand
<1>4. /\ Waiting' /\ Apart' /\ Read' = Read /\ ~Holding(w)'
      /\ \A x \in Crew : x # w => (Holding(x)' <=> Holding(x)) /\ Carried(x)' = Carried(x)
      /\ \A i : Kept(Final(i))' = Kept(Final(i))
  BY <1>1, <1>3, Emptied
<1>5. PICK g : g = Gathered
  OBVIOUS
<1>6. Gathered' = g /\ Once(g) /\ AllDone(g)
  BY <1>1, <1>2, <1>5 DEF Gathered, Working
<1>7. Once(g)'
  <2>1. \A j \in DOMAIN g : Kept(Final(Num(g[j])))' = <<g[j]>>
    BY <1>4, <1>6 DEF Once
  <2>2. QED
    BY <1>4, <1>6, <2>1 DEF Once
<1>8. AllDone(g)'
  <2> SUFFICES ASSUME NEW i \in 1..Read PROVE Done(g, i)'
    BY <1>4 DEF AllDone
  <2>1. Done(g, i)
    BY <1>6 DEF AllDone
  <2>2. CASE Carried(w) = i
    <3>1. Kept(Final(i)) = <<>>
      BY <1>1, <2>2, Finished
    <3>2. QED
      BY <1>4, <3>1 DEF Done
  <2>3. CASE Carried(w) # i
    BY <1>4, <2>1, <2>3 DEF Done
  <2>4. QED
    BY <2>2, <2>3
<1>9. Working'
  BY <1>4, <1>6, <1>7, <1>8 DEF Working
<1>10. QED
  BY <1>1, <1>3, <1>9, HandIs, MoveKeeps

LEMMA LeaveKeeps == ASSUME PlInv, NEW w \in Crew, Leave(w) PROVE PlInv'
<1>1. /\ progress = "workers" /\ crew[w] = Idle /\ inCh = <<>> /\ inCh \in Seq(Value)
      /\ items \in Seq(Value) /\ outCh \in Seq(Value) /\ gave \in [DOMAIN shown -> ValueKinds]
      /\ crew' = [crew EXCEPT ![w] = Gone]
      /\ UNCHANGED <<stages, shown, progress, items, todo, at, inCh, outCh, outClosed, gave>>
  BY DEF Leave, PlInv, PlTypeOK
<1>2. Working /\ crew[w] # Gone /\ ~Holding(w)
  BY <1>1, AtWork, HandIs
<1>3. Moves(w, Gone)
  BY <1>1, <1>2 DEF Moves, Hand
<1>4. /\ Waiting' /\ Apart' /\ Read' = Read /\ ~Holding(w)'
      /\ \A x \in Crew : x # w => (Holding(x)' <=> Holding(x)) /\ Carried(x)' = Carried(x)
      /\ \A i : Kept(Final(i))' = Kept(Final(i))
  BY <1>1, <1>3, Emptied
<1>5. PICK g : g = Gathered
  OBVIOUS
<1>6. Gathered' = g /\ Once(g) /\ AllDone(g)
  BY <1>1, <1>2, <1>5 DEF Gathered, Working
<1>7. Once(g)'
  <2>1. \A j \in DOMAIN g : Kept(Final(Num(g[j])))' = <<g[j]>>
    BY <1>4, <1>6 DEF Once
  <2>2. QED
    BY <1>4, <1>6, <2>1 DEF Once
<1>8. AllDone(g)'
  <2> SUFFICES ASSUME NEW i \in 1..Read PROVE Done(g, i)'
    BY <1>4 DEF AllDone
  <2>1. Done(g, i)
    BY <1>6 DEF AllDone
  <2>2. QED
    BY <1>2, <1>4, <2>1 DEF Done
<1>9. Working'
  BY <1>4, <1>6, <1>7, <1>8 DEF Working
<1>10. QED
  BY <1>1, <1>3, <1>9, MoveKeeps

LEMMA SendKeeps == ASSUME PlInv, NEW w \in Crew, Send(w) PROVE PlInv'
<1>1. /\ progress = "workers" /\ Holding(w) /\ crew[w].at > Transforms /\ inCh \in Seq(Value)
      /\ items \in Seq(Value) /\ outCh \in Seq(Value) /\ gave \in [DOMAIN shown -> ValueKinds]
      /\ crew' = [crew EXCEPT ![w] = Idle] /\ Kept(crew[w].value) # <<>>
      /\ outCh' = outCh \o Kept(crew[w].value)
      /\ UNCHANGED <<stages, shown, progress, items, todo, at, inCh, outClosed, gave>>
  BY DEF Send, PlInv, PlTypeOK
<1>2. Working /\ crew[w] # Gone
  BY <1>1, AtWork
<1>3. Moves(w, Idle)
  BY <1>1, <1>2 DEF Moves, Hand
<1>4. /\ Waiting' /\ Apart' /\ Read' = Read /\ ~Holding(w)'
      /\ \A x \in Crew : x # w => (Holding(x)' <=> Holding(x)) /\ Carried(x)' = Carried(x)
      /\ \A i : Kept(Final(i))' = Kept(Final(i))
  BY <1>1, <1>3, Emptied
<1>5. PICK i, v : i = Carried(w) /\ v = crew[w].value
  OBVIOUS
<1>6. v = Final(i) /\ v \in Value /\ i \in 1..Read
  BY <1>1, <1>5, Finished
<1>7. Num(v) = i
  BY <1>5 DEF Carried
<1>8. PICK u \in Value : Kept(v) = <<u>> /\ Num(u) = i
  BY <1>1, <1>5, <1>6, <1>7, KeptIs
<1>9. PICK g : g = Gathered
  OBVIOUS
<1>10. Once(g) /\ AllDone(g) /\ g \in Seq(Value)
  BY <1>1, <1>2, <1>9 DEF Gathered, Working
<1>11. outCh' \in Seq(Value) /\ Gathered' = Append(g, u)
  <2>1. outCh' = outCh \o <<u>>
    BY <1>1, <1>5, <1>8
  <2>2. outCh \o <<u>> \in Seq(Value)
    BY <1>1
  <2>3. items \o (outCh \o <<u>>) = Append(items \o outCh, u)
    BY <1>1, SendAppends
  <2>4. QED
    BY <1>1, <1>9, <2>1, <2>2, <2>3 DEF Gathered
<1>12. PICK h, m : h = Append(g, u) /\ m = Len(g)
  OBVIOUS
<1>13. /\ m \in Nat /\ DOMAIN g = 1..m /\ DOMAIN h = 1..m + 1 /\ h[m + 1] = u
       /\ \A j \in 1..m : h[j] = g[j]
       /\ \A j \in 1..m + 1 : j \in 1..m \/ j = m + 1
       /\ m + 1 \in 1..m + 1 /\ \A j \in 1..m : j \in 1..m + 1
  BY <1>8, <1>10, <1>12
<1>14. Once(h)'
  <2>1. \A j \in 1..m : Num(g[j]) \in 1..Read /\ Num(g[j]) # i /\ Kept(Final(Num(g[j]))) = <<g[j]>>
    BY <1>1, <1>5, <1>10, <1>13 DEF Once
  <2>2. \A j \in 1..m + 1 : Num(h[j]) \in 1..Read /\ Kept(Final(Num(h[j])))' = <<h[j]>>
    <3>1. Kept(Final(i))' = <<u>>
      BY <1>4, <1>6, <1>8
    <3>2. QED
      BY <1>4, <1>6, <1>8, <1>13, <2>1, <3>1
  <2>3. \A j, k \in 1..m + 1 : Num(h[j]) = Num(h[k]) => j = k
    <3>1. \A j, k \in 1..m : Num(g[j]) = Num(g[k]) => j = k
      BY <1>10, <1>13 DEF Once
    <3>2. QED
      BY <1>8, <1>13, <2>1, <3>1
  <2>4. ASSUME NEW x \in Crew, Holding(x)', NEW j \in 1..m + 1 PROVE Num(h[j]) # Carried(x)'
    <3>1. x # w /\ Holding(x) /\ Carried(x)' = Carried(x)
      BY <1>4, <2>4
    <3>2. Carried(x) # i
      BY <1>1, <1>2, <1>5, <3>1 DEF Working, Apart
    <3>3. \A k \in 1..m : Num(g[k]) # Carried(x)
      BY <1>10, <1>13, <3>1 DEF Once
    <3>4. QED
      BY <1>8, <1>13, <3>1, <3>2, <3>3
  <2>5. QED
    BY <1>4, <1>13, <2>2, <2>3, <2>4 DEF Once
<1>15. AllDone(h)'
  <2> SUFFICES ASSUME NEW k \in 1..Read PROVE Done(h, k)'
    BY <1>4 DEF AllDone
  <2>1. Done(g, k)
    BY <1>10 DEF AllDone
  <2>2. CASE k = i
    BY <1>8, <1>13, <2>2 DEF Done
  <2>3. CASE k # i
    BY <1>4, <1>5, <1>13, <2>1, <2>3 DEF Done
  <2>4. QED
    BY <2>2, <2>3
<1>16. Working'
  BY <1>4, <1>11, <1>12, <1>14, <1>15 DEF Working
<1>17. QED
  BY <1>1, <1>3, <1>11, <1>16, HandIs, MoveKeeps

-----------------------------------------------------------------------------
(* The steps of the collector, of one goroutine, and of the sink.           *)

LEMMA CloseKeeps == ASSUME PlInv, Close PROVE PlInv'
<1>1. /\ progress = "workers" /\ \A w \in Crew : crew[w] = Gone
      /\ outClosed' = TRUE
      /\ UNCHANGED <<stages, shown, progress, items, todo, at, inCh, outCh, crew, gave>>
  BY DEF Close
<1>2. Transforms' = Transforms /\ Partitioned' = Partitioned
  BY <1>1 DEF Transforms, Partitioned, Count
<1>3. PlTypeOK' /\ Declared' /\ Closing'
  <2>1. Declared' /\ Closing'
    BY <1>1, <1>2 DEF PlInv, Declared, Closing
  <2>2. PlTypeOK'
    BY <1>1, <1>2 DEF PlInv, PlTypeOK
  <2>3. QED
    BY <2>1, <2>2
<1>4. PICK g : g = Gathered
  OBVIOUS
<1>5. Gathered' = g /\ Waiting /\ Apart /\ Once(g) /\ AllDone(g) /\ Partitioned
  BY <1>1, <1>4 DEF Gathered, PlInv, Working
<1>6. Waiting' /\ Apart' /\ Once(g)' /\ AllDone(g)'
  BY <1>1, <1>5 DEF Waiting, Apart, Once, AllDone, Done, Read, Holding, Carried, Final, Kept
<1>7. QED
  BY <1>1, <1>2, <1>3, <1>5, <1>6 DEF PlInv, Working

LEMMA CollectKeeps == ASSUME PlInv, Collect PROVE PlInv'
<1>1. /\ progress = "workers" /\ outCh # <<>>
      /\ items' = Append(items, Head(outCh)) /\ outCh' = Tail(outCh)
      /\ UNCHANGED <<stages, shown, progress, todo, at, inCh, outClosed, crew, gave>>
      /\ items \in Seq(Value) /\ outCh \in Seq(Value) /\ inCh \in Seq(Value)
      /\ Len(inCh) + Len(outCh) <= Len(shown)
  BY DEF Collect, PlInv, PlTypeOK
<1>2. Transforms' = Transforms /\ Partitioned' = Partitioned
  BY <1>1 DEF Transforms, Partitioned, Count
<1>3. items' \in Seq(Value) /\ outCh' \in Seq(Value) /\ Len(outCh) = Len(outCh') + 1
  BY <1>1
<1>4. Len(inCh) + Len(outCh') <= Len(shown)
  <2>1. Len(shown) \in Nat /\ Len(inCh) \in Nat /\ Len(outCh') \in Nat
    BY <1>1, <1>3, AtWork
  <2>2. QED
    BY <1>1, <1>3, <2>1
<1>5. PlTypeOK' /\ Declared' /\ Closing'
  <2>1. Declared' /\ Closing'
    BY <1>1, <1>2, <1>3, <1>4 DEF PlInv, Declared, Closing
  <2>2. PlTypeOK'
    BY <1>1, <1>2, <1>3, <1>4 DEF PlInv, PlTypeOK
  <2>3. QED
    BY <2>1, <2>2
<1>6. PICK g : g = Gathered
  OBVIOUS
<1>7. Waiting /\ Apart /\ Once(g) /\ AllDone(g) /\ Partitioned
  BY <1>1, <1>6 DEF PlInv, Working
<1>8. Gathered' = g
  <2>1. Append(items, Head(outCh)) \o Tail(outCh) = items \o outCh
    BY <1>1, CollectMoves
  <2>2. QED
    BY <1>1, <1>6, <2>1 DEF Gathered
<1>9. Waiting' /\ Apart' /\ Once(g)' /\ AllDone(g)'
  BY <1>1, <1>7 DEF Waiting, Apart, Once, AllDone, Done, Read, Holding, Carried, Final, Kept
<1>10. QED
  BY <1>1, <1>2, <1>5, <1>7, <1>8, <1>9 DEF PlInv, Working

\* What the workers sent, when all have left, is the results.
LEMMA SentAreResults ==
    ASSUME PlInv, progress = "workers", outClosed, outCh = <<>>
    PROVE  /\ ToSet(items) = Results
           /\ \A j, k \in DOMAIN items : Num(items[j]) = Num(items[k]) => j = k
<1>1. \A w \in Crew : crew[w] = Gone /\ ~Holding(w)
  BY AtWork DEF PlInv, Closing
<1>2. inCh = <<>>
  BY <1>1, PipelineAssumption DEF PlInv, Closing
<1>3. /\ Len(shown) \in Nat /\ DOMAIN shown = 1..Len(shown) /\ items \in Seq(Value)
      /\ Once(Gathered) /\ AllDone(Gathered)
  BY AtWork DEF PlInv, PlTypeOK, Working
<1>4. Gathered = items
  BY <1>3 DEF Gathered
<1>5. Read = Len(shown)
  BY <1>2, <1>3 DEF Read
<1>6. /\ \A j \in DOMAIN items : Num(items[j]) \in DOMAIN shown /\ Kept(Final(Num(items[j]))) = <<items[j]>>
      /\ \A j, k \in DOMAIN items : Num(items[j]) = Num(items[k]) => j = k
  BY <1>3, <1>4, <1>5 DEF Once
<1>7. \A i \in DOMAIN shown : Kept(Final(i)) = <<>> \/ \E j \in DOMAIN items : Num(items[j]) = i
  BY <1>1, <1>3, <1>4, <1>5 DEF AllDone, Done
<1>8. \A x : ToSet(<<x>>) = {x}
  BY DEF ToSet
<1>9. ToSet(<<>>) = {}
  BY DEF ToSet
<1>10. ASSUME NEW x \in ToSet(items) PROVE x \in Results
  <2>1. PICK j \in DOMAIN items : x = items[j]
    BY <1>10 DEF ToSet
  <2>2. x \in ToSet(Kept(Final(Num(items[j])))) /\ Num(items[j]) \in DOMAIN shown
    BY <1>6, <1>8, <2>1
  <2>3. QED
    BY <2>2 DEF Results
<1>11. ASSUME NEW x \in Results PROVE x \in ToSet(items)
  <2>1. PICK i \in DOMAIN shown : x \in ToSet(Kept(Final(i)))
    BY <1>11 DEF Results
  <2>2. PICK j \in DOMAIN items : Num(items[j]) = i
    BY <1>7, <1>9, <2>1
  <2>3. x = items[j]
    BY <1>6, <1>8, <2>1, <2>2
  <2>4. QED
    BY <2>3 DEF ToSet
<1>12. QED
  BY <1>6, <1>10, <1>11

LEMMA SortKeeps == ASSUME PlInv, Sort PROVE PlInv'
<1>1. /\ progress = "workers" /\ outClosed /\ outCh = <<>> /\ progress' = "sink"
      /\ UNCHANGED <<stages, shown, todo, at, inCh, outCh, outClosed, crew, gave>>
      /\ items \in Seq(Value)
  BY DEF Sort, PlInv, PlTypeOK
<1>2. PICK p \in [DOMAIN items -> DOMAIN items] :
         /\ IsInjective(p) /\ items' = [i \in DOMAIN items |-> items[p[i]]] /\ Sorted(items')
  BY DEF Sort
<1>3. PICK n : n = Len(items)
  OBVIOUS
<1>4. n \in Nat /\ DOMAIN items = 1..n /\ p \in [1..n -> 1..n]
  BY <1>1, <1>2, <1>3
<1>5. \A j \in 1..n : items[j] \in Value
  BY <1>1, <1>4
<1>6. DOMAIN items' = 1..n /\ \A i \in 1..n : items'[i] = items[p[i]] /\ p[i] \in 1..n
  BY <1>2, <1>4
<1>7. items' \in Seq(Value)
  <2>1. items' = [i \in 1..n |-> items[p[i]]]
    BY <1>2, <1>4
  <2>2. QED
    BY <1>4, <1>5, <1>6, <2>1
<1>8. /\ ToSet(items) = Results
      /\ \A j, k \in 1..n : Num(items[j]) = Num(items[k]) => j = k
  BY <1>1, <1>4, SentAreResults
<1>9. ToSet(items') = ToSet(items)
  <2>1. ASSUME NEW x \in ToSet(items) PROVE x \in ToSet(items')
    <3>1. PICK i \in 1..n : x = items[i]
      BY <1>4, <2>1 DEF ToSet
    <3>2. PICK j \in 1..n : p[j] = i
      BY <1>2, <1>4, Permutes
    <3>3. items'[j] = x /\ j \in DOMAIN items'
      BY <1>6, <3>1, <3>2
    <3>4. QED
      BY <3>3 DEF ToSet
  <2>2. ASSUME NEW x \in ToSet(items') PROVE x \in ToSet(items)
    BY <1>4, <1>6, <2>2 DEF ToSet
  <2>3. QED
    BY <2>1, <2>2
<1>10. IsInjective(items')
  <2>1. \A a, b \in 1..n : p[a] = p[b] => a = b
    BY <1>2, <1>4 DEF IsInjective
  <2>2. \A a, b \in 1..n : items'[a] = items'[b] => a = b
    BY <1>6, <1>8, <2>1
  <2>3. QED
    BY <1>6, <2>2 DEF IsInjective
<1>11. Results' = Results
  BY <1>1 DEF Results, Final, Kept
<1>12. Agreed'
  <2>1. Sorted(items)'
    BY <1>1, <1>2 DEF Sorted
  <2>2. QED
    BY <1>8, <1>9, <1>10, <1>11, <2>1 DEF Agreed
<1>13. Transforms' = Transforms /\ Partitioned' = Partitioned
  BY <1>1 DEF Transforms, Partitioned, Count
<1>14. PlTypeOK' /\ Declared' /\ Closing'
  <2>1. Declared' /\ Closing'
    BY <1>1, <1>7, <1>13 DEF PlInv, Declared, Closing
  <2>2. PlTypeOK'
    BY <1>1, <1>7, <1>13 DEF PlInv, PlTypeOK
  <2>3. QED
    BY <2>1, <2>2
<1>15. QED
  BY <1>1, <1>12, <1>14 DEF PlInv

LEMMA SinkKeeps == ASSUME PlInv, Sink PROVE PlInv'
<1>1. /\ progress = "sink" /\ progress' \in {"done", "error"}
      /\ UNCHANGED <<stages, shown, items, todo, at, inCh, outCh, outClosed, crew, gave>>
  BY DEF Sink
<1>2. Transforms' = Transforms /\ Partitioned' = Partitioned
  BY <1>1 DEF Transforms, Partitioned, Count
<1>3. PlTypeOK' /\ Declared' /\ Closing'
  <2>1. Declared' /\ Closing'
    BY <1>1, <1>2 DEF PlInv, Declared, Closing
  <2>2. PlTypeOK'
    BY <1>1, <1>2 DEF PlInv, PlTypeOK
  <2>3. QED
    BY <2>1, <2>2
<1>4. Partitioned => Agreed
  BY <1>1 DEF PlInv
<1>5. Agreed' <=> Agreed
  BY <1>1 DEF Agreed, Results, Final, Kept, Sorted
<1>6. QED
  BY <1>1, <1>2, <1>3, <1>4, <1>5 DEF PlInv

LEMMA ApplyKeeps == ASSUME PlInv, Apply PROVE PlInv'
<1>1. /\ progress = "stages" /\ todo # <<>> /\ todo \in Seq(Value) /\ items \in Seq(Value)
      /\ gave \in [DOMAIN shown -> ValueKinds]
  BY DEF Apply, PlInv, PlTypeOK
<1>2. PICK v : v = Head(todo)
  OBVIOUS
<1>3. v \in Value
  BY <1>1, <1>2
<1>4. CASE TransformPanics(v)
  BY <1>4, PanicKeeps
<1>5. CASE \E k \in ValueKinds :
            LET new == [v EXCEPT !.kind = k] IN
            /\ CallTransform(v, k)
            /\ items' = items \o (IF OnError THEN KeptOnError(new) ELSE Kept(new))
            /\ todo' = Tail(todo)
            /\ UNCHANGED <<stages, shown, progress, at, inCh, outCh, outClosed, crew>>
  <2>1. PICK k, new :
            /\ k \in ValueKinds
            /\ new = [v EXCEPT !.kind = k]
            /\ gave' = [gave EXCEPT ![v.item] = k]
            /\ items' = items \o (IF OnError THEN KeptOnError(new) ELSE Kept(new))
            /\ todo' = Tail(todo)
            /\ UNCHANGED <<stages, shown, progress, at, inCh, outCh, outClosed, crew>>
    BY <1>5 DEF CallTransform
  <2>2. new \in Value
    BY <1>3, <2>1, ValueIs
  <2>3. KeptOnError(new) \in Seq(Value) /\ Kept(new) \in Seq(Value)
    <3>1. <<>> \in Seq(Value) /\ \A u \in Value : <<u>> \in Seq(Value)
      OBVIOUS
    <3>2. QED
      BY <2>2, <3>1, KeptIs, Zenon
  <2>4. items' \in Seq(Value) /\ todo' \in Seq(Value)
    <3>1. PICK kept \in Seq(Value) : items' = items \o kept
      BY <2>1, <2>3, Zenon
    <3>2. items' \in Seq(Value)
      BY <1>1, <3>1
    <3>3. todo' = Tail(todo)
      BY <2>1, Zenon
    <3>4. QED
      BY <1>1, <3>2, <3>3
  <2>5. gave' \in [DOMAIN shown' -> ValueKinds]
    BY <1>1, <2>1
  <2>6. Transforms' = Transforms /\ Partitioned' = Partitioned
    BY <2>1 DEF Transforms, Partitioned, Count
  <2>7. PlTypeOK' /\ Declared' /\ Closing'
    <3>1. Declared' /\ Closing'
      BY <2>1, <2>4, <2>5, <2>6 DEF PlInv, Declared, Closing
    <3>2. PlTypeOK'
      BY <2>1, <2>4, <2>5, <2>6 DEF PlInv, PlTypeOK
    <3>3. QED
      BY <3>1, <3>2
  <2>8. QED
    BY <1>1, <2>1, <2>6, <2>7 DEF PlInv
<1>6. QED
  BY <1>2, <1>4, <1>5 DEF Apply

LEMMA StagesKeep == ASSUME PlInv, NextStage \/ LastStage PROVE PlInv'
<1>1. /\ progress = "stages" /\ todo \in Seq(Value) /\ items \in Seq(Value) /\ Transforms \in Nat
      /\ at \in 1..Transforms + 1
  BY AtWork DEF PlInv, PlTypeOK, NextStage, LastStage
<1>2. /\ UNCHANGED <<stages, shown, inCh, outCh, outClosed, crew, gave>>
      /\ items' \in {todo, <<>>} /\ todo' \in {items, <<>>}
      /\ progress' \in {"stages", "sink"} /\ at' \in 1..Transforms + 1
  <2>1. CASE NextStage
    <3>1. at <= Transforms /\ at' = at + 1
      BY <2>1 DEF NextStage
    <3>2. at' \in 1..Transforms + 1
      BY <1>1, <3>1
    <3>3. QED
      BY <2>1, <3>2 DEF NextStage
  <2>2. CASE LastStage
    BY <1>1, <2>2 DEF LastStage
  <2>3. QED
    BY <2>1, <2>2
<1>3. Transforms' = Transforms /\ Partitioned' = Partitioned
  BY <1>2 DEF Transforms, Partitioned, Count
<1>4. items' \in Seq(Value) /\ todo' \in Seq(Value)
  <2>1. <<>> \in Seq(Value)
    OBVIOUS
  <2>2. QED
    BY <1>1, <1>2, <2>1, Zenon
<1>5. PlTypeOK' /\ Declared' /\ Closing'
  <2>1. Declared' /\ Closing'
    BY <1>2, <1>3, <1>4 DEF PlInv, Declared, Closing
  <2>2. PlTypeOK'
    BY <1>2, <1>3, <1>4 DEF PlInv, PlTypeOK
  <2>3. QED
    BY <2>1, <2>2
<1>6. ~Partitioned /\ inCh = <<>> /\ outCh = <<>>
  BY <1>1 DEF PlInv
<1>7. QED
  BY <1>2, <1>3, <1>5, <1>6 DEF PlInv

LEMMA PlBegins == ASSUME PlInit PROVE PlInv
<1>1. /\ stages \in Declarations /\ at = 1 /\ outCh = <<>> /\ outClosed = FALSE
      /\ crew = [w \in Crew |-> Idle] /\ gave = [i \in DOMAIN shown |-> "plain"]
      /\ items = <<>>
  BY DEF PlInit
<1>2. PICK n \in 0..MaxItems : shown \in [1..n -> 1..n]
  BY DEF PlInit
<1>3. PICK source : source = [i \in DOMAIN shown |-> [item |-> i, kind |-> "plain"]]
  OBVIOUS
<1>4. \/ /\ Partitioned /\ progress = "workers" /\ inCh = source /\ todo = <<>>
      \/ /\ ~Partitioned /\ progress = "stages" /\ inCh = <<>> /\ todo = source
  BY <1>3 DEF PlInit
<1>5. Declared /\ Closing
  <2>1. Closing
    BY <1>1, HandIs DEF Closing
  <2>2. QED
    BY <1>1, <1>2, <2>1 DEF Declared
<1>6. n \in Nat /\ n <= MaxItems /\ Len(shown) = n /\ DOMAIN shown = 1..n
  <2>1. n \in Nat /\ n <= MaxItems /\ shown \in Seq(1..n)
    BY <1>2, PipelineAssumption
  <2>2. QED
    BY <1>2, <2>1
<1>7. Transforms \in Nat
  BY <1>1, TransformsAre
<1>8. \A i \in 1..n : source[i] \in Value /\ Num(source[i]) = i
  <2> TAKE i \in 1..n
  <2>1. source[i] = [item |-> i, kind |-> "plain"]
    BY <1>3, <1>6
  <2>2. i \in Items
    BY <1>6, PipelineAssumption DEF Items
  <2>3. [item |-> i, kind |-> "plain"] \in Value
    BY <2>2 DEF Value, ValueKinds
  <2>4. [item |-> i, kind |-> "plain"].item = i
    OBVIOUS
  <2>5. QED
    BY <2>1, <2>3, <2>4 DEF Num
<1>9. source \in Seq(Value) /\ Len(source) = n /\ DOMAIN source = 1..n
  <2>1. DOMAIN source = 1..n /\ source = [i \in 1..n |-> source[i]]
    BY <1>3, <1>6
  <2>2. source \in [1..n -> Value]
    BY <1>8, <2>1
  <2>3. QED
    BY <1>6, <2>1, <2>2
<1>10. Len(inCh) + Len(outCh) <= Len(shown)
  <2>1. Len(outCh) = 0 /\ Len(inCh) \in {0, n}
    BY <1>1, <1>4, <1>9
  <2>2. QED
    BY <1>6, <2>1
<1>11. PlTypeOK
  <2>1. at \in 1..Transforms + 1
    BY <1>1, <1>7
  <2>2. gave \in [DOMAIN shown -> ValueKinds]
    BY <1>1 DEF ValueKinds
  <2>3. /\ items \in Seq(Value) /\ todo \in Seq(Value) /\ inCh \in Seq(Value)
        /\ outCh \in Seq(Value)
    <3>1. <<>> \in Seq(Value)
      OBVIOUS
    <3>2. QED
      BY <1>1, <1>4, <1>9, <3>1, Zenon
  <2>4. crew \in [Crew -> {Idle, Gone} \cup {Busy(k, v) : k \in 1..Transforms + 1, v \in Value}]
    BY <1>1
  <2>5. progress \in {"stages", "workers", "sink", "done", "error", "killed"}
    BY <1>4
  <2>6. outClosed \in BOOLEAN
    BY <1>1
  <2>7. crew \in [Crew -> Hand]
    BY <2>4 DEF Hand
  <2>8. QED
    BY <1>10, <2>1, <2>2, <2>3, <2>5, <2>6, <2>7 DEF PlTypeOK, Hand
<1>12. progress = "workers" => Working
  <2> SUFFICES ASSUME inCh = source PROVE Working
    BY <1>4
  <2>1. Read = 0 /\ Waiting
    <3>1. Read = 0
      BY <1>6, <1>9 DEF Read
    <3>2. QED
      BY <1>6, <1>8, <1>9, <3>1 DEF Waiting
  <2>2. \A w \in Crew : ~Holding(w)
    BY <1>1, HandIs DEF Holding
  <2>3. DOMAIN Gathered = {}
    BY <1>1 DEF Gathered
  <2>4. QED
    BY <2>1, <2>2, <2>3 DEF Working, Apart, Once, AllDone
<1>13. QED
  BY <1>1, <1>4, <1>5, <1>11, <1>12 DEF PlInv

\* A step of the pipeline, or none.
LEMMA PlSteps == PlInv /\ [PlNext]_plVars => PlInv'
<1> SUFFICES ASSUME PlInv, [PlNext]_plVars PROVE PlInv'
  OBVIOUS
<1>1. CASE Apply
  BY <1>1, ApplyKeeps
<1>2. CASE NextStage \/ LastStage
  BY <1>2, StagesKeep
<1>3. ASSUME NEW w \in Crew, Take(w) \/ Transform(w) \/ DropNil(w) \/ Send(w) \/ Leave(w)
      PROVE  PlInv'
  BY <1>3, TakeKeeps, TransformKeeps, DropNilKeeps, SendKeeps, LeaveKeeps
<1>4. CASE Close \/ Collect \/ Sort \/ Sink
  BY <1>4, CloseKeeps, CollectKeeps, SortKeeps, SinkKeeps
<1>5. CASE UNCHANGED plVars
  <2>1. UNCHANGED <<stages, shown, progress, items, todo, at, inCh, outCh, outClosed, crew, gave>>
    BY <1>5 DEF plVars
  <2>2. Transforms' = Transforms /\ Partitioned' = Partitioned
    BY <2>1 DEF Transforms, Partitioned, Count
  <2>3. PlTypeOK' /\ Declared' /\ Closing'
    <3>1. Declared' /\ Closing'
      BY <2>1, <2>2 DEF PlInv, Declared, Closing
    <3>2. PlTypeOK'
      BY <2>1, <2>2 DEF PlInv, PlTypeOK
    <3>3. QED
      BY <3>1, <3>2
  <2>4. PICK g : g = Gathered
    OBVIOUS
  <2>5. Gathered' = g
    BY <2>1, <2>4 DEF Gathered
  <2>6. (Waiting' <=> Waiting) /\ (Apart' <=> Apart) /\ (Once(g)' <=> Once(g)) /\ (AllDone(g)' <=> AllDone(g))
    BY <2>1 DEF Waiting, Apart, Once, AllDone, Done, Read, Holding, Carried, Final, Kept
  <2>7. Agreed' <=> Agreed
    BY <2>1 DEF Agreed, Results, Final, Kept, Sorted
  <2>8. QED
    BY <2>1, <2>2, <2>3, <2>4, <2>5, <2>6, <2>7 DEF PlInv, Working
<1>6. QED
  BY <1>1, <1>2, <1>3, <1>4, <1>5 DEF PlNext

\* The invariant of the pipeline.
LEMMA PlAlways == PlSpec => []PlInv
<1>1. PlInit => PlInv
  BY PlBegins
<1>2. QED
  BY <1>1, PlSteps, PTL DEF PlSpec

-----------------------------------------------------------------------------
\* A pipeline is well typed, whatever its stages, items and workers; its two
\* channels together never hold more than the items there are.
THEOREM PipelineTypeCorrect == PlSpec => []PlTypeOK
<1>1. PlInv => PlTypeOK
  BY DEF PlInv
<1>2. QED
  BY <1>1, PlAlways, PTL

\* Workers give each item's result once, sorted, and no channel of theirs is
\* closed too early, in evalPartitionedPipeline for any number of them.
THEOREM NothingIsLostInWorkers == PlSpec => []WorkersLoseNothing
<1>1. PlInv => WorkersLoseNothing
  <2> SUFFICES ASSUME PlInv PROVE ResultsOnce /\ ClosedIsQuiet
    BY DEF WorkersLoseNothing
  <2>1. ResultsOnce
    BY DEF PlInv, ResultsOnce, Agreed
  <2>2. ClosedIsQuiet
    <3> SUFFICES ASSUME outClosed PROVE inCh = <<>> /\ \A w \in Crew : ~Holding(w)
      BY DEF ClosedIsQuiet
    <3>1. \A w \in Crew : crew[w] = Gone /\ ~Holding(w)
      BY AtWork DEF PlInv, Closing
    <3>2. QED
      BY <3>1, PipelineAssumption DEF PlInv, Closing
  <2>3. QED
    BY <2>1, <2>2
<1>2. QED
  BY <1>1, PlAlways, PTL

-----------------------------------------------------------------------------
(* Both, each at rest while the other works.                               *)

LEMMA RestingPipeline == PipelineRest => PlTypeOK
<1> SUFFICES ASSUME PipelineRest PROVE PlTypeOK
  OBVIOUS
<1>1. Transforms = 0
  BY FS_EmptySet DEF PipelineRest, Transforms, Count
<1>2. DOMAIN gave = {} /\ DOMAIN shown = {} /\ Len(shown) = 0
  BY DEF PipelineRest
<1>3. gave \in [DOMAIN shown -> ValueKinds]
  BY DEF PipelineRest
<1>4. crew \in [Crew -> {Idle, Gone}]
  BY DEF PipelineRest
<1>5. at \in 1..Transforms + 1
  BY <1>1 DEF PipelineRest
<1>6. Len(inCh) + Len(outCh) <= Len(shown)
  BY <1>2 DEF PipelineRest
<1>7. items \in Seq(Value) /\ todo \in Seq(Value) /\ inCh \in Seq(Value) /\ outCh \in Seq(Value)
  BY DEF PipelineRest
<1>8. /\ progress \in {"stages", "workers", "sink", "done", "error", "killed"}
      /\ outClosed \in BOOLEAN
  BY DEF PipelineRest
<1>9. crew \in [Crew -> Hand]
  <2>1. {Idle, Gone} \subseteq Hand
    BY DEF Hand
  <2>2. QED
    BY <1>4, <2>1
<1>10. QED
  BY <1>3, <1>5, <1>6, <1>7, <1>8, <1>9 DEF PlTypeOK, Hand

\* What is so of agents alone and of pipelines alone is so of both together, and
\* the state of each is well formed at all times, at rest and at work.
THEOREM WorkTypeCorrect == MCSpec => []WorkTypeOK
<1> DEFINE Inv == AgentInv /\ (PlInv \/ (part = "agents" /\ PipelineRest))
<1>1. MCInit => Inv
  BY InitInv, PlBegins DEF MCInit, AgentsRest
<1>2. Inv /\ [MCNext]_<<part, agentVars, plVars>> => Inv'
  <2> SUFFICES ASSUME Inv, [MCNext]_<<part, agentVars, plVars>> PROVE Inv'
    OBVIOUS
  <2>1. part' = part /\ [AgentNext]_agentVars /\ [PlNext]_plVars
    BY DEF MCNext
  <2>2. AgentInv'
    BY <2>1, NextInv
  <2>3. CASE PlInv
    BY <2>1, <2>2, <2>3, PlSteps
  <2>4. CASE part = "agents" /\ PipelineRest
    <3>1. UNCHANGED plVars
      BY <2>4 DEF MCNext
    <3>2. PipelineRest'
      BY <2>4, <3>1 DEF PipelineRest, plVars
    <3>3. QED
      BY <2>1, <2>2, <2>4, <3>2
  <2>5. QED
    BY <2>3, <2>4
<1>3. Inv => WorkTypeOK
  BY RestingPipeline DEF AgentInv, PlInv, WorkTypeOK
<1>4. QED
  BY <1>1, <1>2, <1>3, PTL DEF MCSpec
=============================================================================
