---------------------------- MODULE ReplicatedLog ----------------------------
(***************************************************************************)
(* What Raft promises the services above it: one sequence of entries that  *)
(* only grows, of which every replica has committed a prefix.  A restart   *)
(* makes a replica forget how far it had come, never what was decided.     *)
(***************************************************************************)
EXTENDS Integers, Sequences

CONSTANT Server

VARIABLES decided,     \* every entry committed so far, by any replica
          committed    \* per replica: the entries it knows to be committed

vars == <<decided, committed>>

Init == decided = <<>> /\ committed = [s \in Server |-> <<>>]

\* s is the first to commit the entries that extend decided.
Decide(s) ==
    /\ Len(decided) < Len(decided') /\ SubSeq(decided', 1, Len(decided)) = decided
    /\ committed' = [committed EXCEPT ![s] = decided']

\* s learns of entries that were decided before.
Learn(s) ==
    /\ \E n \in Len(committed[s])..Len(decided) :
          committed' = [committed EXCEPT ![s] = SubSeq(decided, 1, n)]
    /\ UNCHANGED decided

\* s restarts: it knows what its snapshot covers.
Forget(s) ==
    /\ \E n \in 0..Len(committed[s]) :
          committed' = [committed EXCEPT ![s] = SubSeq(decided, 1, n)]
    /\ UNCHANGED decided

Next == \E s \in Server : Decide(s) \/ Learn(s) \/ Forget(s)

Spec == Init /\ [][Next]_vars
=============================================================================
