----------------------------- MODULE RaftHistory ----------------------------
(***************************************************************************)
(* Raft with a history variable, to show that it implements ReplicatedLog. *)
(***************************************************************************)
EXTENDS Raft

VARIABLE decided       \* the longest sequence that a server has ever committed

Longest(S) == CHOOSE s \in S : \A t \in S : Len(s) >= Len(t)

RecordDecided ==
    decided' = IF \A i \in Server : commitIndex'[i] <= Len(decided) THEN decided
               ELSE Longest({Committed(i)' : i \in Server})

HistorySpec == Init /\ decided = <<>> /\ [][Next /\ RecordDecided]_<<vars, decided>>

Log == INSTANCE ReplicatedLog WITH committed <- [i \in Server |-> Committed(i)]

\* Raft implements one growing log: what any server has committed stays decided, and every
\* server's commits follow it, through elections, truncations and crashes that make a
\* server forget its commitIndex.
OneLog == Log!Spec
=============================================================================
