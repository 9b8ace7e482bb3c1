----------------------------- MODULE MCShardKV ------------------------------
(***************************************************************************)
(* Instances of ShardKV for TLC, with one shard.  It goes from one group   *)
(* to another and back, the shortest history in which a group gains a      *)
(* shard that it has had before; or the only group leaves and another      *)
(* joins, so that in between it has none.                                  *)
(***************************************************************************)
EXTENDS ShardKV, TLC

CONSTANTS g1, g2, c1, c2

Owned(owner) == [n \in 0..3 |-> "a" :> IF n = 0 THEN NoGroup ELSE owner[n]]

ThereAndBack == Owned(<<g1, g2, g1>>)
LeaveAndJoin == Owned(<<g1, NoGroup, g2>>)

ReadAndWrite == c1 :> <<[Op |-> "Append", Key |-> "a"]>> @@ c2 :> <<[Op |-> "Get", Key |-> "a"]>>

\* No clerk calls: the groups on their own.
NoCalls == [c \in Client |-> <<>>]
=============================================================================
