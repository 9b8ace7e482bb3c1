------------------------------- MODULE MCRaft -------------------------------
(***************************************************************************)
(* Small instances of Raft for TLC, several in one run: the one that a     *)
(* behaviour belongs to is chosen at its start.                            *)
(***************************************************************************)
EXTENDS Raft, TLC

CONSTANTS Instances,   \* their bounds, as records; campaigning is per term
          s1, s2, s3

VARIABLE bounds        \* the instance of this behaviour

\* The RequestVotes of an election are sent while it lasts.
PromptVotes ==
    \A i \in Server :
        asking[i] # {} => state[i] = Candidate /\ \A a \in asking[i] : a[2] = currentTerm[i]

InBounds ==
    /\ Cardinality(rpcs) <= bounds.rpcs
    /\ \A i \in Server : currentTerm[i] <= bounds.terms
    /\ \A i \in Server : state[i] = Candidate => i \in bounds.campaigning[currentTerm[i]]
    /\ ~ bounds.late => PromptVotes

MCInit == Init /\ bounds \in Instances

MCNext ==
    /\ Next
    /\ UNCHANGED bounds
    /\ InBounds'
    /\ \A i \in Server \ bounds.crashing : ~ Restart(i)

MCSpec == MCInit /\ [][MCNext]_<<vars, bounds>>

\* Two terms, the first of one server and the second contested, RequestVotes sent at any time.
CrashInstances ==
    {[terms |-> 2, rpcs |-> 2, campaigning |-> <<{s1}, {s1, s2}>>, crashing |-> Server, late |-> TRUE]}

\* Two terms of different servers with one message in flight, and one term with two.
LogInstances ==
    {[terms |-> 2, rpcs |-> 1, campaigning |-> <<{s1}, {s2}>>, crashing |-> {s3}, late |-> FALSE],
     [terms |-> 1, rpcs |-> 2, campaigning |-> <<{s1}>>, crashing |-> {}, late |-> FALSE]}

\* Four terms without crashes, the third of a leader that returns, and three in which every
\* server may crash.
TermInstances ==
    LET rivals == {s1, s2}
    IN  {[terms |-> 4, rpcs |-> 1, campaigning |-> <<{s1}, {s2}, {s1}, rivals>>,
          crashing |-> {}, late |-> FALSE],
         [terms |-> 3, rpcs |-> 1, campaigning |-> <<{s1}, {s2}, rivals>>,
          crashing |-> Server, late |-> FALSE]}

\* The followers of the second of LogInstances; the first has no symmetry.
FollowerSymmetry == Permutations({s2, s3})
=============================================================================
