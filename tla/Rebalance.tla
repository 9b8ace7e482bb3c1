----------------------------- MODULE Rebalance ------------------------------
(***************************************************************************)
(* How the shard controller assigns shards to groups: computeTargets,      *)
(* applyJoin, applyLeave and applyMove of shardctrler/server.go, each as   *)
(* the configuration that follows another.                                 *)
(*                                                                         *)
(* A configuration is its Shards and the set of the gids of its Groups.    *)
(* The addresses of the servers have no influence on the assignment.  The  *)
(* loops of the code visit shards and gids in ascending order; here a      *)
(* shard's turn is its rank.                                               *)
(***************************************************************************)
EXTENDS Integers, FiniteSets, FiniteSetsExt

CONSTANTS NShards,
          Gid        \* the gids of groups that may join

ASSUME RebalanceAssumption ==
    NShards \in Nat \ {0} /\ Gid \subseteq Nat \ {0} /\ IsFiniteSet(Gid)

Shard == 0..(NShards - 1)

\* No groups, all shards assigned to the invalid group 0.
Unassigned == [s \in Shard |-> 0]
FirstConfig == [Shards |-> Unassigned, Groups |-> {}]

Rank(x, S) == Cardinality({y \in S : y < x})
Count(assigned, gid) == Cardinality({s \in Shard : assigned[s] = gid})

\* The number of shards that gid should have.
computeTargets(gids, gid) ==
    LET q == NShards \div Cardinality(gids)
        r == NShards % Cardinality(gids)
    IN  IF Rank(gid, gids) < r THEN q + 1 ELSE q

\* The loop that hands donors out, in order, to the groups that need shards, in order: a
\* group has as many slots as it needs shards.
Give(assigned, donors, recipients, need) ==
    LET slots == {x \in recipients \X Shard : x[2] < need[x[1]]}
        before(x) == {y \in slots : y[1] < x[1] \/ (y[1] = x[1] /\ y[2] < x[2])}
        slot(s) == CHOOSE x \in slots : Cardinality(before(x)) = Rank(s, donors)
    IN  [s \in Shard |->
            IF s \in donors /\ Rank(s, donors) < Cardinality(slots)
            THEN slot(s)[1] ELSE assigned[s]]

\* Variant: the count of a group does not fall with each of its shards that is set aside.
JoinDonorsAll(assigned, gids) ==
    {s \in Shard : assigned[s] = 0
                   \/ (assigned[s] \in gids
                       /\ Count(assigned, assigned[s]) > computeTargets(gids, assigned[s]))}

\* The shards that a Join may move: those without a group and those above their group's
\* target, lowest first.
JoinDonors(assigned, gids) ==
    LET over(gid) == Count(assigned, gid) - computeTargets(gids, gid)
        mine(s) == {x \in Shard : assigned[x] = assigned[s]}
    IN  {s \in Shard : assigned[s] = 0
                       \/ (assigned[s] \in gids /\ Rank(s, mine(s)) < over(assigned[s]))}

\* Only the groups of the request receive shards, also when some of them were there before.
applyJoin(prev, servers) ==
    LET gids == prev.Groups \union servers
        target(gid) == computeTargets(gids, gid)
        need == [gid \in servers |->
                    target(gid) - Min({Count(prev.Shards, gid), target(gid)})]
    IN  [Groups |-> gids,
         Shards |-> IF gids = {} THEN Unassigned
                    ELSE Give(prev.Shards, JoinDonors(prev.Shards, gids), servers, need)]

\* Variant: the targets are those of the groups before the Leave.
applyLeaveOldTargets(prev, gids) ==
    LET remain == prev.Groups \ gids
        need == [gid \in remain |->
                    computeTargets(prev.Groups, gid) - Count(prev.Shards, gid)]
    IN  [Groups |-> remain,
         Shards |-> IF remain = {} THEN Unassigned
                    ELSE Give(prev.Shards, {s \in Shard : prev.Shards[s] \in gids}, remain, need)]

\* Variant: every shard is assigned anew.
applyLeaveAnew(prev, gids) ==
    LET remain == prev.Groups \ gids
        need == [gid \in remain |-> computeTargets(remain, gid)]
    IN  [Groups |-> remain,
         Shards |-> IF remain = {} THEN Unassigned ELSE Give(prev.Shards, Shard, remain, need)]

\* Only the shards of the leaving groups move, to the remaining ones below their target.
applyLeave(prev, gids) ==
    LET remain == prev.Groups \ gids
        need == [gid \in remain |-> computeTargets(remain, gid) - Count(prev.Shards, gid)]
    IN  [Groups |-> remain,
         Shards |-> IF remain = {} THEN Unassigned
                    ELSE Give(prev.Shards, {s \in Shard : prev.Shards[s] \in gids}, remain, need)]

applyMove(prev, shard, gid) == [prev EXCEPT !.Shards[shard] = gid]
=============================================================================
