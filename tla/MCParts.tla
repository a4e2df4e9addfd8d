------------------------------ MODULE MCParts ------------------------------
(***************************************************************************)
(* The components that share no state, JobQueue, MetadataFetch and         *)
(* ToolRun, on small instances: a behaviour is that of the queue and its   *)
(* workers, or of one request for metadata, or of calls of the tools.      *)
(*                                                                         *)
(* The queue has room for three of four jobs of three sessions in two      *)
(* priority tiers (5 for an ordinary conversion, 50 for one with a premium *)
(* key).  Session s1 owns an early job of the lower tier and a late one of *)
(* the higher tier.                                                        *)
(***************************************************************************)
EXTENDS JobQueue, MetadataFetch, ToolRun, TLC

CONSTANTS j1, j2, j3, j4, s1, s2, s3

MCJobs == {j1, j2, j3, j4}
MCPrio == j1 :> 5 @@ j2 :> 5 @@ j3 :> 50 @@ j4 :> 5
MCStamp == j1 :> 1 @@ j2 :> 2 @@ j3 :> 3 @@ j4 :> 4
MCSessions == {s1, s2, s3}
MCSessionOf == j1 :> s1 @@ j2 :> s2 @@ j3 :> s1 @@ j4 :> s3

VARIABLE part

parts == <<part, vars, fetchVars, toolVars>>

\* No worker of the queue is there to do anything.
QueueIdle == /\ pq = {} /\ stopped = FALSE
             /\ pc = [w \in Workers |-> "exited"]
             /\ job = [w \in Workers |-> NoJob]

MCInit == \/ part = "queue" /\ Init /\ FetchInit /\ FetchIdle /\ ToolInit /\ ToolsIdle
          \/ part = "fetch" /\ QueueIdle /\ FetchInit /\ ~FetchIdle /\ ToolInit /\ ToolsIdle
          \/ part = "tools" /\ QueueIdle /\ FetchInit /\ FetchIdle /\ ToolInit /\ ~ToolsIdle

MCNext == \/ part = "queue" /\ Next /\ UNCHANGED <<part, fetchVars, toolVars>>
          \/ part = "fetch" /\ FetchNext /\ UNCHANGED <<part, vars, toolVars>>
          \/ part = "tools" /\ ToolNext /\ UNCHANGED <<part, vars, fetchVars>>

MCSpec == MCInit /\ [][MCNext]_parts /\ Fairness /\ FetchFairness /\ ToolFairness
=============================================================================
