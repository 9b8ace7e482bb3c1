--------------------------- MODULE MCCoordinators ---------------------------
(***************************************************************************)
(* Three instances in one run: the shard controller as a service, with a   *)
(* few calls on two clerks; the assignment of shards on its own, over all  *)
(* sequences of Joins, Leaves and Moves; and a MapReduce job.              *)
(***************************************************************************)
EXTENDS ShardCtrler, Assignment, MapReduce, TLC

CONSTANTS s1, c1, c2

VARIABLE instance    \* which one runs

JoinAndQuery ==
    c1 :> <<[Type |-> "Join", Gids |-> {1, 2}]>> @@ c2 :> <<[Type |-> "Query", Num |-> -1]>>

MCInit ==
    /\ Init /\ AssignmentInit /\ JobInit
    /\ instance \in {"controller", "assignment", "job"}

\* The replicas are alike, so the first to lead may be called s1.
FirstLeader == \A s \in Server \ {s1} : leads'[s] # 1

MCNext ==
    \/ /\ instance = "controller" /\ Next /\ FirstLeader
       /\ UNCHANGED <<config, jobVars, instance>>
    \/ instance = "assignment" /\ AssignmentNext /\ UNCHANGED <<vars, jobVars, instance>>
    \/ instance = "job" /\ JobNext /\ UNCHANGED <<vars, config, instance>>

\* Only the job promises something that must happen; without fairness to it, the other two
\* instances have safety properties only.
MCSpec == MCInit /\ [][MCNext]_<<vars, config, jobVars, instance>> /\ JobFairness
=============================================================================
