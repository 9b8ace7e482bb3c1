----------------------------- MODULE Assignment -----------------------------
(***************************************************************************)
(* The configurations that follow each other when Joins, Leaves and Moves  *)
(* are applied in any order, and what the assignment of shards owes them.  *)
(***************************************************************************)
EXTENDS Rebalance

VARIABLE config

AssignmentInit == config = FirstConfig

\* A gid may join again, with other servers, and one that has not joined may leave.
Join == \E servers \in SUBSET Gid : config' = applyJoin(config, servers)
Leave == \E gids \in SUBSET Gid : config' = applyLeave(config, gids)
\* A Move to a group of the configuration; the code does not check that it is one.
Move == \E shard \in Shard, gid \in config.Groups : config' = applyMove(config, shard, gid)

AssignmentNext == Join \/ Leave \/ Move

AssignmentSpec == AssignmentInit /\ [][AssignmentNext]_config
-----------------------------------------------------------------------------
(* Properties. *)

\* No shard is left with a group that is gone, or with none while there is a group: what the
\* remaining groups need always covers the donors of applyLeave, and what the new ones need
\* covers the shards without a group in applyJoin.
OwnersExist ==
    \A s \in Shard :
        IF config.Groups = {} THEN config.Shards[s] = 0 ELSE config.Shards[s] \in config.Groups

\* The most shards that a group has above another.
Spread(c) ==
    LET counts == {Count(c.Shards, gid) : gid \in c.Groups}
    IN  IF c.Groups = {} THEN 0 ELSE Max(counts) - Min(counts)

\* A Join or Leave that finds the groups balanced leaves them balanced, although only the new
\* groups receive shards from applyJoin and only the remaining ones from applyLeave; after
\* Moves it leaves them no more uneven than it found them.
NeverMoreUneven ==
    [][config'.Groups # config.Groups => Spread(config') <= Max({1, Spread(config)})]_config

\* "The new configuration should divide the shards as evenly as possible" (lab/lab 4.md:83 of
\* Join, :85 of Leave): however Moves have left them, and "Join and Leave re-balance" (:87).
Rebalances == [][config'.Groups # config.Groups => Spread(config') <= 1]_config

\* The fewest shards that must move until gids are balanced: over every choice of the groups
\* that have one more than the others, what the groups gain.
FewestMoves(assigned, gids) ==
    LET q == NShards \div Cardinality(gids)
        r == NShards % Cardinality(gids)
        gains(more) == LET gain(gid) == Max({0, q + (IF gid \in more THEN 1 ELSE 0)
                                                 - Count(assigned, gid)})
                       IN  MapThenSumSet(gain, gids)
    IN  Min({gains(more) : more \in kSubset(r, gids)})

\* A Leave from a balanced configuration moves as few shards as balance allows.
LeaveIsMinimal ==
    [][LET remain == config'.Groups
       IN  Spread(config) <= 1 /\ remain # {} /\ remain \subseteq config.Groups
           /\ remain # config.Groups
              => Cardinality({s \in Shard : config'.Shards[s] # config.Shards[s]})
                     = FewestMoves(config.Shards, remain)]_config
=============================================================================
