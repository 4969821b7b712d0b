------------------------------- MODULE MCWork --------------------------------
(* What works through a list: an agent through its turns and calls of tools, *)
(* a pipeline through its items.  They share nothing: a behaviour is one of  *)
(* the one or of the other.                                                  *)
EXTENDS MCAgentLoop, Pipeline

VARIABLE part       \* which of them, never changes

\* Each kind of stage with one transform and with two, and pipelines of none.
TestPipelines ==
    {<<>>, <<"sink">>, <<"partition", "on_error">>,
     <<"transform">>, <<"transform", "transform", "sink">>,
     <<"transform", "on_error">>, <<"on_error", "transform", "transform">>,
     <<"partition", "transform">>, <<"transform", "partition", "sink">>,
     <<"transform", "partition", "transform">>, <<"transform", "on_error", "partition">>}

\* Where the other stays: fairness asks nothing of it there.
AgentsRest == setup = Strict(3, 1) /\ AgentInit
PipelineRest ==
    /\ stages = <<>> /\ shown = <<>> /\ progress = "done"
    /\ items = <<>> /\ todo = <<>> /\ at = 1
    /\ inCh = <<>> /\ outCh = <<>> /\ outClosed = FALSE
    /\ crew = [w \in Crew |-> Idle] /\ gave = <<>>

MCInit ==
    \/ part = "agents"   /\ PipelineRest /\ AgentInit
    \/ part = "pipeline" /\ AgentsRest /\ PlInit

MCNext ==
    /\ UNCHANGED part
    /\ \/ part = "agents"   /\ AgentNext /\ UNCHANGED plVars
       \/ part = "pipeline" /\ PlNext    /\ UNCHANGED agentVars

MCSpec ==
    /\ MCInit /\ [][MCNext]_<<part, agentVars, plVars>>
    /\ AgentFairness /\ PlFairness

\* The state of both is well formed.
WorkTypeOK == AgentTypeOK /\ PlTypeOK
=============================================================================
