---------------------------- MODULE ShardKVProofs ----------------------------
(***************************************************************************)
(* That a shard is served by one group at most, for any groups, shards,    *)
(* configurations and clerks.                                              *)
(*                                                                         *)
(* The argument: a group that serves a shard in configuration j, or that   *)
(* is past j, shows that every earlier owner of the shard has gone past    *)
(* the configuration in which it had it.  A group gains this when it       *)
(* inserts the shard, from the group that handed it out, which had reached *)
(* j itself.                                                               *)
(***************************************************************************)
EXTENDS ShardKV, TLAPS

-----------------------------------------------------------------------------
(* Types. *)

Request == [ClientId : Client, CommandId : Nat, Op : {"Get", "Put", "Append"}, Key : Shard]
ShardData == [KV : Seq(Request), Status : {Serving, Pulling, BePulling, GCing}]
Machine == [Num : 0..MaxConfig, stateMachines : [Shard -> ShardData],
            lastOperations : [Client -> Int]]
InsertInfo == [ConfigNum : 0..MaxConfig,
               Shards : UNION {[S -> Seq(Request)] : S \in SUBSET Shard},
               LastOperations : [Client -> Int]]
DeleteInfo == [ConfigNum : 0..MaxConfig, ShardIDs : SUBSET Shard]
PullArgs == [from : Group, ConfigNum : 0..MaxConfig, ShardIDs : SUBSET Shard]

\* What the groups and the clerks hold, send and start.
Types ==
    /\ newest \in 0..MaxConfig
    /\ machine \in [Group -> Machine]
    /\ requests \subseteq [to : Group, rpc : {"Command"}, args : Request]
            \union [to : Group, rpc : {"GetShardsData", "DeleteShardsData"}, args : PullArgs]
    /\ started \subseteq [to : Group, Op : {"Operation"}, Data : Request]
            \union [to : Group, Op : {"Configuration"}, Data : 1..MaxConfig]
            \union [to : Group, Op : {"InsertShards"}, Data : InsertInfo]
            \union [to : Group, Op : {"DeleteShards"}, Data : DeleteInfo]
    /\ commandId \in [Client -> Nat]
    /\ config \in [Client -> 0..MaxConfig]
    /\ pending \in [Client -> Request \union {Nothing}]

-----------------------------------------------------------------------------
(* The invariant. *)

\* Whoever had shard s before configuration j has gone past the configuration in which it
\* had it.
Released(s, j) ==
    \A i \in 0..(j - 1) : Config[i][s] \in Group => machine[Config[i][s]].Num > i

\* Group h, to which configuration j gives s, has s in j, or is past j.
Settled(h, s, j) ==
    \/ machine[h].Num > j
    \/ machine[h].Num = j /\ machine[h].stateMachines[s].Status # Pulling

\* A group has a shard only after all of its earlier owners have let go of it.
HandedOver ==
    \A s \in Shard : \A j \in 0..MaxConfig :
        Config[j][s] \in Group /\ Settled(Config[j][s], s, j) => Released(s, j)

\* A Configuration command finds its group where it was when the command was started, with
\* every shard settled, or is too late.
ReadyToMove ==
    \A c \in started : c.Op = "Configuration" =>
        \/ c.Data <= machine[c.to].Num
        \/ /\ c.Data = machine[c.to].Num + 1
           /\ \A s \in Shard : machine[c.to].stateMachines[s].Status = Serving

\* Shards are asked for at the group that has them in the configuration before.
AskedAtOwner ==
    \A q \in requests : q.rpc = "GetShardsData" =>
        /\ q.args.ConfigNum > 0
        /\ \A s \in q.args.ShardIDs : Config[q.args.ConfigNum - 1][s] = q.to

\* A shard that is on its way has been let go of.
InsertsReleased ==
    \A c \in started : c.Op = "InsertShards" =>
        \A s \in DOMAIN c.Data.Shards : Released(s, c.Data.ConfigNum)

MigrationInv == Types /\ HandedOver /\ ReadyToMove /\ AskedAtOwner /\ InsertsReleased

\* A shard that some configuration assigns to a group is assigned to one in every later
\* configuration: the controller is not left without groups once it had some.
NeverUnassigned ==
    \A s \in Shard : \A i, j \in 0..MaxConfig :
        i < j /\ Config[i][s] \in Group => Config[j][s] \in Group

-----------------------------------------------------------------------------
(* What a decided command does to a group's state. *)

\* An operation leaves the configuration and the statuses alone.
LEMMA OperationKeeps ==
    ASSUME NEW g \in Group, NEW m \in Machine, NEW r \in Request
    PROVE  /\ applyOperation(g, m, r) \in Machine
           /\ applyOperation(g, m, r).Num = m.Num
           /\ \A s \in Shard : applyOperation(g, m, r).stateMachines[s].Status
                                   = m.stateMachines[s].Status
  <1> DEFINE kv == Written(m.stateMachines[r.Key].KV, r)
             n == [m EXCEPT !.stateMachines[r.Key].KV = kv,
                            !.lastOperations[r.ClientId] = r.CommandId]
  <1>1. m.stateMachines[r.Key].KV \in Seq(Request)
    BY Zenon DEF Machine, ShardData, Request
  <1>2. kv \in Seq(Request)
    <2>1. r.Op \in {"Get", "Put", "Append"}
      BY Zenon DEF Request
    <2>2. <<r>> \in Seq(Request) /\ Append(m.stateMachines[r.Key].KV, r) \in Seq(Request)
      BY <1>1, SMTT(30)
    <2> QED BY <1>1, <2>1, <2>2, Zenon DEF Written
  <1> HIDE DEF kv
  <1>3. /\ n \in Machine /\ n.Num = m.Num
        /\ \A s \in Shard : n.stateMachines[s].Status = m.stateMachines[s].Status
    <2>1. r.Key \in Shard /\ r.ClientId \in Client /\ r.CommandId \in Int
      BY SMTT(30) DEF Request
    <2> DEFINE shards == [m.stateMachines EXCEPT ![r.Key].KV = kv]
               table == [m.lastOperations EXCEPT ![r.ClientId] = r.CommandId]
    <2>2. n = [m EXCEPT !.stateMachines = shards, !.lastOperations = table]
      BY Zenon DEF Machine
    <2>3. m.stateMachines \in [Shard -> ShardData] /\ m.lastOperations \in [Client -> Int]
          /\ m.Num \in 0..MaxConfig
      BY Zenon DEF Machine
    <2>4. shards \in [Shard -> ShardData] /\ table \in [Client -> Int]
      BY <1>2, <2>1, <2>3, Zenon DEF ShardData
    <2>5. \A s \in Shard : shards[s].Status = m.stateMachines[s].Status
      BY <2>1, <2>3, Zenon DEF ShardData
    <2> HIDE DEF n, shards, table
    <2>6. n \in Machine /\ n.Num = m.Num /\ n.stateMachines = shards
      BY <2>2, <2>4, Zenon DEF Machine
    <2> QED BY <2>5, <2>6, Zenon
  <1>4. applyOperation(g, m, r) = n \/ applyOperation(g, m, r) = m
    BY Zenon DEF applyOperation, kv
  <1> QED BY <1>3, <1>4, Zenon

\* The next configuration: a shard that comes from another group has to be pulled.
LEMMA ConfigurationMoves ==
    ASSUME NEW g \in Group, NEW m \in Machine, NEW num \in 1..MaxConfig, num = m.Num + 1
    PROVE  LET n == applyConfiguration(g, m, num)
           IN  /\ n \in Machine /\ n.Num = num
               /\ \A s \in Shard :
                     /\ (Config[num][s] = g /\ Config[m.Num][s] = g) =>
                            n.stateMachines[s].Status = m.stateMachines[s].Status
                     /\ (Config[num][s] = g /\ Config[m.Num][s] \notin {g, NoGroup}) =>
                            n.stateMachines[s].Status = Pulling
  <1> DEFINE n == applyConfiguration(g, m, num)
             New(s) == LET before == Config[m.Num][s]
                           after == Config[num][s]
                       IN  CASE after = g /\ before # g -> Gained(m.stateMachines[s], before)
                             [] before = g /\ after # g -> Given(m.stateMachines[s], after)
                             [] OTHER -> m.stateMachines[s]
  <1>1. n = [m EXCEPT !.Num = num, !.stateMachines = [s \in Shard |-> New(s)]]
    BY Zenon DEF applyConfiguration
  <1>2. ASSUME NEW s \in Shard
        PROVE  /\ New(s) \in ShardData
               /\ (Config[num][s] = g /\ Config[m.Num][s] = g) => New(s) = m.stateMachines[s]
               /\ (Config[num][s] = g /\ Config[m.Num][s] \notin {g, NoGroup}) =>
                      New(s).Status = Pulling
    <2>1. m.stateMachines[s] \in ShardData
      BY Zenon DEF Machine
    <2>2. /\ \A x : Gained(m.stateMachines[s], x) \in ShardData
          /\ \A x : Given(m.stateMachines[s], x) \in ShardData
          /\ \A x : x # NoGroup => Gained(m.stateMachines[s], x).Status = Pulling
      BY <2>1, SMTT(30) DEF Gained, Given, NewShard, ShardData, Serving, Pulling, BePulling, GCing
    <2>3. New(s) \in {Gained(m.stateMachines[s], Config[m.Num][s]),
                      Given(m.stateMachines[s], Config[num][s]), m.stateMachines[s]}
      BY Zenon
    <2>4. Config[num][s] = g /\ Config[m.Num][s] # g =>
              New(s) = Gained(m.stateMachines[s], Config[m.Num][s])
      BY Zenon
    <2>5. Config[num][s] = g /\ Config[m.Num][s] = g => New(s) = m.stateMachines[s]
      BY Zenon
    <2> HIDE DEF New
    <2> QED BY <2>1, <2>2, <2>3, <2>4, <2>5, Zenon
  <1> HIDE DEF New
  <1>3. n \in Machine /\ n.Num = num /\ \A s \in Shard : n.stateMachines[s] = New(s)
    <2> DEFINE shards == [s \in Shard |-> New(s)]
    <2>1. shards \in [Shard -> ShardData] /\ num \in 0..MaxConfig
      BY <1>2, ShardAssumption, SMTT(30)
    <2>2. \A s \in Shard : shards[s] = New(s)
      BY Zenon
    <2>3. n = [m EXCEPT !.Num = num, !.stateMachines = shards]
      BY <1>1, Zenon
    <2> HIDE DEF n, shards
    <2> QED BY <2>1, <2>2, <2>3, Zenon DEF Machine
  <1> QED BY <1>2, <1>3, Zenon

\* An insertion settles pulled shards, and no others.
LEMMA InsertSettles ==
    ASSUME NEW m \in Machine, NEW info \in InsertInfo
    PROVE  LET n == applyInsertShards(m, info)
           IN  /\ n \in Machine /\ n.Num = m.Num
               /\ \A s \in Shard :
                     /\ m.stateMachines[s].Status = Serving =>
                            n.stateMachines[s].Status = Serving
                     /\ (m.stateMachines[s].Status = Pulling
                         /\ ~(info.ConfigNum = m.Num /\ s \in DOMAIN info.Shards)) =>
                            n.stateMachines[s].Status = Pulling
  <1> DEFINE n == applyInsertShards(m, info)
             New(s) == IF s \in DOMAIN info.Shards /\ m.stateMachines[s].Status = Pulling
                       THEN [KV |-> info.Shards[s], Status |-> GCing] ELSE m.stateMachines[s]
             table == Merged(m.lastOperations, info.LastOperations)
  <1>1. CASE info.ConfigNum # m.Num
    BY <1>1, Zenon DEF applyInsertShards
  <1>2. CASE info.ConfigNum = m.Num
    <2>1. n = [m EXCEPT !.stateMachines = [s \in Shard |-> New(s)], !.lastOperations = table]
      BY <1>2, Zenon DEF applyInsertShards
    <2>2. table \in [Client -> Int]
      BY Zenon DEF Merged, Machine, InsertInfo
    <2>3. \A s \in DOMAIN info.Shards : info.Shards[s] \in Seq(Request)
      BY Zenon DEF InsertInfo
    <2>4. ASSUME NEW s \in Shard PROVE New(s) \in ShardData
      BY <2>3, Zenon DEF Machine, ShardData
    <2>5. ASSUME NEW s \in Shard
          PROVE  /\ m.stateMachines[s].Status = Serving => New(s).Status = Serving
                 /\ s \notin DOMAIN info.Shards => New(s) = m.stateMachines[s]
      BY Zenon DEF Serving, Pulling
    <2> HIDE DEF New, table
    <2>6. n \in Machine /\ n.Num = m.Num /\ \A s \in Shard : n.stateMachines[s] = New(s)
      BY <2>1, <2>2, <2>4, Zenon DEF Machine
    <2> HIDE DEF n
    <2>7. \A s \in Shard :
                     /\ m.stateMachines[s].Status = Serving =>
                            n.stateMachines[s].Status = Serving
                     /\ (m.stateMachines[s].Status = Pulling
                         /\ ~(info.ConfigNum = m.Num /\ s \in DOMAIN info.Shards)) =>
                            n.stateMachines[s].Status = Pulling
      BY <1>2, <2>5, <2>6, Zenon
    <2> QED BY <2>6, <2>7, Zenon DEF n
  <1> QED BY <1>1, <1>2, Zenon

\* A deletion ends what was given or gained; it settles nothing that has to be pulled.
LEMMA DeleteKeeps ==
    ASSUME NEW m \in Machine, NEW info \in DeleteInfo
    PROVE  LET n == applyDeleteShards(m, info)
           IN  /\ n \in Machine /\ n.Num = m.Num
               /\ \A s \in Shard :
                     /\ m.stateMachines[s].Status = Serving =>
                            n.stateMachines[s].Status = Serving
                     /\ m.stateMachines[s].Status = Pulling =>
                            n.stateMachines[s].Status = Pulling
  <1> DEFINE n == applyDeleteShards(m, info)
             New(s) == CASE s \in info.ShardIDs /\ m.stateMachines[s].Status = GCing ->
                              [m.stateMachines[s] EXCEPT !.Status = Serving]
                         [] s \in info.ShardIDs /\ m.stateMachines[s].Status = BePulling ->
                              NewShard
                         [] OTHER -> m.stateMachines[s]
  <1>1. CASE info.ConfigNum # m.Num
    BY <1>1, Zenon DEF applyDeleteShards
  <1>2. CASE info.ConfigNum = m.Num
    <2>1. n = [m EXCEPT !.stateMachines = [s \in Shard |-> New(s)]]
      BY <1>2, Zenon DEF applyDeleteShards
    <2>2. ASSUME NEW s \in Shard
          PROVE  /\ New(s) \in ShardData
                 /\ m.stateMachines[s].Status = Serving => New(s).Status = Serving
                 /\ m.stateMachines[s].Status = Pulling => New(s).Status = Pulling
      <3>1. m.stateMachines[s] \in ShardData
        BY Zenon DEF Machine
      <3> QED
        BY <3>1, SMTT(30) DEF ShardData, NewShard, Serving, Pulling, BePulling, GCing
    <2> HIDE DEF New
    <2>3. n \in Machine /\ n.Num = m.Num /\ \A s \in Shard : n.stateMachines[s] = New(s)
      BY <2>1, <2>2, Zenon DEF Machine
    <2> QED BY <2>2, <2>3, Zenon
  <1> QED BY <1>1, <1>2, Zenon

-----------------------------------------------------------------------------
(* The steps that leave the groups' states alone. *)

\* Everything starts in configuration 0, which assigns no shard.
LEMMA InitMigration == Init => MigrationInv
  <1> SUFFICES ASSUME Init PROVE MigrationInv
    BY Zenon
  <1>1. NoState \in Machine /\ NoState.Num = 0
    BY ShardAssumption, SMTT(30) DEF NoState, NewShard, Machine, ShardData, Serving
  <1>2. Types
    BY <1>1, ShardAssumption, SMTT(30) DEF Init, Types
  <1>3. HandedOver
    <2> SUFFICES ASSUME NEW s \in Shard, NEW j \in 0..MaxConfig, Config[j][s] \in Group,
                        Settled(Config[j][s], s, j)
                 PROVE  FALSE
      BY Zenon DEF HandedOver
    <2>1. machine[Config[j][s]].Num = 0
      BY <1>1, Zenon DEF Init
    <2>2. j = 0
      BY <2>1, SMTT(30) DEF Settled
    <2> QED BY <2>2, ShardAssumption, Zenon
  <1> QED BY <1>2, <1>3, Zenon DEF Init, MigrationInv, ReadyToMove, AskedAtOwner, InsertsReleased

\* What a new command or request must satisfy when it is started or sent.
Startable(c) ==
    /\ c.Op = "Configuration" =>
           /\ c.Data = machine[c.to].Num + 1
           /\ \A s \in Shard : machine[c.to].stateMachines[s].Status = Serving
    /\ c.Op = "InsertShards" => \A s \in DOMAIN c.Data.Shards : Released(s, c.Data.ConfigNum)

Sendable(q) ==
    q.rpc = "GetShardsData" =>
        /\ q.args.ConfigNum > 0
        /\ \A s \in q.args.ShardIDs : Config[q.args.ConfigNum - 1][s] = q.to

\* A step that starts such commands and sends such requests keeps the invariant.
LEMMA QuietStep ==
    ASSUME MigrationInv, Types', UNCHANGED machine,
           \A c \in started' : c \in started \/ Startable(c),
           \A q \in requests' : q \in requests \/ Sendable(q)
    PROVE  MigrationInv'
  <1>1. \A s, j : Released(s, j)' <=> Released(s, j)
    BY Zenon DEF Released
  <1>2. HandedOver'
    BY <1>1, Zenon DEF MigrationInv, HandedOver, Settled
  <1>3. ReadyToMove'
    BY Zenon DEF MigrationInv, ReadyToMove, Startable
  <1>4. AskedAtOwner'
    BY Zenon DEF MigrationInv, AskedAtOwner, Sendable
  <1>5. InsertsReleased'
    BY <1>1, Zenon DEF MigrationInv, InsertsReleased, Startable
  <1> QED BY <1>2, <1>3, <1>4, <1>5, Zenon DEF MigrationInv

\* The steps of the clerks.
LEMMA ClerkSteps ==
    ASSUME MigrationInv, NEW c \in Client,
           \/ Invoke(c) \/ Call(c) \/ Query(c)
           \/ \E value \in replies[c] : Return(c, value)
    PROVE  MigrationInv'
  <1> USE DEF MigrationInv
  <1>1. CASE Invoke(c)
    <2>1. Script[c][commandId[c] + 1] \in [Op : {"Get", "Put", "Append"}, Key : Shard]
      <3>1. commandId[c] + 1 \in 1..Len(Script[c])
        BY <1>1, ShardAssumption, SMTT(30) DEF Invoke, Types
      <3> DEFINE Calls == [Op : {"Get", "Put", "Append"}, Key : Shard]
      <3>2. Script[c] \in Seq(Calls)
        BY ShardAssumption, Zenon
      <3> HIDE DEF Calls
      <3>3. Script[c][commandId[c] + 1] \in Calls
        BY <3>1, <3>2, SMTT(30)
      <3> QED BY <3>3, Zenon DEF Calls
    <2>2. commandId[c] \in Nat
      BY Zenon DEF Types
    <2>3. pending' \in [Client -> Request \union {Nothing}]
      BY <1>1, <2>1, <2>2, Zenon DEF Invoke, Types, Request
    <2>4. Types'
      BY <1>1, <2>3, Zenon DEF Invoke, Types, groupVars
    <2> QED BY <1>1, <2>4, QuietStep, Zenon DEF Invoke, groupVars
  <1>2. CASE Call(c)
    <2> DEFINE gid == Config[config[c]][pending[c].Key]
               q == [to |-> gid, rpc |-> "Command", args |-> pending[c]]
    <2>1. pending[c] \in Request /\ config[c] \in 0..MaxConfig
      BY <1>2, Zenon DEF Call, Types
    <2>2. gid \in Group
      <3>1. pending[c].Key \in Shard
        BY <2>1, Zenon DEF Request
      <3> QED BY <1>2, <2>1, <3>1, ShardAssumption, SMTT(30) DEF Call
    <2>3. requests' = requests \union {q}
      BY <1>2, Zenon DEF Call
    <2>4. q \in [to : Group, rpc : {"Command"}, args : Request]
      BY <2>1, <2>2, Zenon
    <2> HIDE DEF q, gid
    <2>5. Types'
      BY <1>2, <2>3, <2>4, Zenon DEF Call, Types, clerkVars
    <2>6. Sendable(q)
      BY <2>4, Zenon DEF Sendable
    <2> QED BY <1>2, <2>3, <2>5, <2>6, QuietStep, Zenon DEF Call
  <1>3. CASE Query(c)
    <2>1. Types'
      BY <1>3, Zenon DEF Query, Types, groupVars
    <2> QED BY <1>3, <2>1, QuietStep, Zenon DEF Query, groupVars
  <1>4. ASSUME NEW value \in replies[c], Return(c, value) PROVE MigrationInv'
    <2>1. commandId' \in [Client -> Nat] /\ pending' \in [Client -> Request \union {Nothing}]
      BY <1>4, SMTT(30) DEF Return, Types
    <2>2. Types'
      BY <1>4, <2>1, Zenon DEF Return, Types, groupVars
    <2> QED BY <1>4, <2>2, QuietStep, Zenon DEF Return, groupVars
  <1> QED BY <1>1, <1>2, <1>3, <1>4, Zenon

\* The requests of a monitor go to groups that the configuration before names.
LEMMA MonitorRequests ==
    ASSUME MigrationInv, NEW g \in Group, NEW status,
           NEW rpc \in {"GetShardsData", "DeleteShardsData"},
           NEW q \in ByPreviousOwner(g, status, rpc)
    PROVE  /\ q \in [to : Group, rpc : {"GetShardsData", "DeleteShardsData"}, args : PullArgs]
           /\ Sendable(q)
  <1> DEFINE m == machine[g]
             shardIDs(h) == {s \in Shard : m.stateMachines[s].Status = status /\ Last(m)[s] = h}
  <1>1. PICK h \in Group :
             /\ shardIDs(h) # {}
             /\ q = [to |-> h, rpc |-> rpc,
                     args |-> [from |-> g, ConfigNum |-> m.Num, ShardIDs |-> shardIDs(h)]]
    BY Zenon DEF ByPreviousOwner
  <1>2. m.Num \in 0..MaxConfig
    BY Zenon DEF MigrationInv, Types, Machine
  <1>3. m.Num > 0
    <2> SUFFICES ASSUME m.Num = 0 PROVE FALSE
      BY <1>2, SMTT(30)
    <2>1. PICK s \in Shard : Last(m)[s] = h
      BY <1>1, Zenon
    <2> QED BY <1>1, <2>1, ShardAssumption, Zenon DEF Last
  <1>4. \A s \in shardIDs(h) : Config[m.Num - 1][s] = h
    BY <1>2, <1>3, SMTT(30) DEF Last
  <1>5. shardIDs(h) \in SUBSET Shard
    BY Zenon
  <1> HIDE DEF shardIDs, m
  <1> QED BY <1>1, <1>2, <1>3, <1>4, <1>5, Zenon DEF PullArgs, Sendable

\* The monitors' steps.
LEMMA MonitorSteps ==
    ASSUME MigrationInv, NEW g \in Group,
           configureAction(g) \/ migrationAction(g) \/ gcAction(g)
    PROVE  MigrationInv'
  <1> USE DEF MigrationInv
  <1>1. CASE configureAction(g)
    <2> DEFINE c == Execute(g, "Configuration", machine[g].Num + 1)
    <2>1. machine[g].Num + 1 \in 1..MaxConfig
      BY <1>1, ShardAssumption, SMTT(30) DEF configureAction, Types, Machine
    <2>2. c \in [to : Group, Op : {"Configuration"}, Data : 1..MaxConfig]
      BY <2>1, Zenon DEF Execute
    <2>3. c.to = g /\ c.Op = "Configuration" /\ c.Data = machine[g].Num + 1
      BY Zenon DEF Execute
    <2>4. started' = started \union {c}
      BY <1>1, Zenon DEF configureAction
    <2> HIDE DEF c
    <2>5. Types'
      BY <1>1, <2>2, <2>4, Zenon DEF configureAction, Types, clerkVars
    <2>6. Startable(c)
      BY <1>1, <2>3, Zenon DEF Startable, configureAction
    <2> QED BY <1>1, <2>4, <2>5, <2>6, QuietStep, Zenon DEF configureAction
  <1>2. CASE migrationAction(g)
    <2>1. requests' = requests \union ByPreviousOwner(g, Pulling, "GetShardsData")
      BY <1>2, Zenon DEF migrationAction
    <2>2. \A q \in ByPreviousOwner(g, Pulling, "GetShardsData") :
              /\ q \in [to : Group, rpc : {"GetShardsData", "DeleteShardsData"}, args : PullArgs]
              /\ Sendable(q)
      BY MonitorRequests, Zenon
    <2>3. Types'
      BY <1>2, <2>1, <2>2, Zenon DEF migrationAction, Types, clerkVars
    <2> QED BY <1>2, <2>1, <2>2, <2>3, QuietStep, Zenon DEF migrationAction
  <1>3. CASE gcAction(g)
    <2>1. requests' = requests \union ByPreviousOwner(g, GCing, "DeleteShardsData")
      BY <1>3, Zenon DEF gcAction
    <2>2. \A q \in ByPreviousOwner(g, GCing, "DeleteShardsData") :
              /\ q \in [to : Group, rpc : {"GetShardsData", "DeleteShardsData"}, args : PullArgs]
              /\ Sendable(q)
      BY MonitorRequests, Zenon
    <2>3. Types'
      BY <1>3, <2>1, <2>2, Zenon DEF gcAction, Types, clerkVars
    <2> QED BY <1>3, <2>1, <2>2, <2>3, QuietStep, Zenon DEF gcAction
  <1> QED BY <1>1, <1>2, <1>3, Zenon

\* The handlers' steps.  The group that hands shards out has reached the configuration it is
\* asked about, so it has gone past the one in which it had them.
LEMMA HandlerSteps ==
    ASSUME MigrationInv, NEW q \in requests, Handle(q)
    PROVE  MigrationInv'
  <1> USE DEF MigrationInv
  <1>1. CASE Command(q)
    <2>1. q \in [to : Group, rpc : {"Command"}, args : Request]
      BY <1>1, Zenon DEF Command, Types
    <2> DEFINE c == Execute(q.to, "Operation", q.args)
    <2>2. c \in [to : Group, Op : {"Operation"}, Data : Request]
      BY <2>1, Zenon DEF Execute
    <2>3. started' = started \/ started' = started \union {c}
      BY <1>1, Zenon DEF Command
    <2> HIDE DEF c
    <2>4. Types'
      BY <1>1, <2>2, <2>3, Zenon DEF Command, Types
    <2>5. Startable(c)
      BY <2>2, Zenon DEF Startable
    <2> QED BY <1>1, <2>3, <2>4, <2>5, QuietStep, Zenon DEF Command
  <1>2. CASE GetShardsData(q)
    <2> DEFINE p == q.to
               m == machine[p]
               given == {s \in q.args.ShardIDs :
                            m.stateMachines[s].Status \in {BePulling, GCing}}
               shards == [s \in given |-> m.stateMachines[s].KV]
               info == [ConfigNum |-> q.args.ConfigNum, Shards |-> shards,
                        LastOperations |-> m.lastOperations]
               c == Execute(q.args.from, "InsertShards", info)
    <2>1. p \in Group /\ q.args \in PullArgs /\ q.rpc = "GetShardsData"
      BY <1>2, Zenon DEF GetShardsData, Types
    <2>2. m \in Machine /\ m.Num = q.args.ConfigNum
      BY <1>2, <2>1, Zenon DEF GetShardsData, HandsOut, Types
    <2>3. started' = started \union {c}
      BY <1>2, Zenon DEF GetShardsData
    <2>4. given \in SUBSET Shard /\ \A s \in given : m.stateMachines[s].KV \in Seq(Request)
      BY <2>1, <2>2, Zenon DEF PullArgs, Machine, ShardData
    <2>5. shards \in [given -> Seq(Request)]
      BY <2>4, Zenon
    <2>6. info \in InsertInfo
      BY <2>1, <2>2, <2>4, <2>5, Zenon DEF InsertInfo, PullArgs, Machine
    <2>7. c \in [to : Group, Op : {"InsertShards"}, Data : InsertInfo]
      BY <2>1, <2>6, Zenon DEF Execute, PullArgs
    <2>8. Types'
      BY <1>2, <2>3, <2>7, Zenon DEF GetShardsData, Types, clerkVars
    <2>9. ASSUME NEW s \in given PROVE Released(s, q.args.ConfigNum)
      <3>1. /\ s \in Shard /\ q.args.ConfigNum \in 1..MaxConfig
            /\ Config[q.args.ConfigNum - 1][s] = p
        BY <2>1, <2>4, SMTT(30) DEF AskedAtOwner, PullArgs
      <3>2. q.args.ConfigNum - 1 \in 0..MaxConfig
        BY <3>1, ShardAssumption, SMTT(30)
      <3>3. Released(s, q.args.ConfigNum - 1)
        BY <2>1, <2>2, <3>1, <3>2, SMTT(30) DEF HandedOver, Settled
      <3> QED BY <2>1, <2>2, <3>1, <3>3, SMTT(30) DEF Released
    <2>10. Startable(c)
      BY <2>9, Zenon DEF Startable, Execute
    <2> HIDE DEF c
    <2> QED BY <1>2, <2>3, <2>8, <2>10, QuietStep, Zenon DEF GetShardsData
  <1>3. CASE DeleteShardsData(q)
    <2> DEFINE info == [ConfigNum |-> q.args.ConfigNum, ShardIDs |-> q.args.ShardIDs]
               here == Execute(q.to, "DeleteShards", info)
               there == Execute(q.args.from, "DeleteShards", info)
    <2>1. q.to \in Group /\ q.args \in PullArgs
      BY <1>3, Zenon DEF DeleteShardsData, Types
    <2>2. /\ here \in [to : Group, Op : {"DeleteShards"}, Data : DeleteInfo]
          /\ there \in [to : Group, Op : {"DeleteShards"}, Data : DeleteInfo]
      BY <2>1, Zenon DEF Execute, PullArgs, DeleteInfo
    <2>3. started' \subseteq started \union {here, there}
      BY <1>3, Zenon DEF DeleteShardsData
    <2> HIDE DEF here, there
    <2>4. Types'
      BY <1>3, <2>2, <2>3, Zenon DEF DeleteShardsData, Types, clerkVars
    <2>5. Startable(here) /\ Startable(there)
      BY <2>2, Zenon DEF Startable
    <2> QED BY <1>3, <2>3, <2>4, <2>5, QuietStep, Zenon DEF DeleteShardsData
  <1> QED BY <1>1, <1>2, <1>3, Zenon DEF Handle

-----------------------------------------------------------------------------
(* A decided command. *)

\* A group only moves on, so what has been let go of stays so.
LEMMA ReleasedStays ==
    ASSUME Types, Types', \A g \in Group : machine[g].Num <= machine'[g].Num,
           NEW s \in Shard, NEW j \in Int, Released(s, j)
    PROVE  Released(s, j)'
  <1> SUFFICES ASSUME NEW i \in 0..(j - 1), Config[i][s] \in Group
               PROVE  machine'[Config[i][s]].Num > i
    BY Zenon DEF Released
  <1>1. machine[Config[i][s]].Num > i
    BY Zenon DEF Released
  <1> QED BY <1>1, SMTT(30) DEF Types, Machine

\* A command other than Configuration leaves its group in its configuration.  Only the
\* shards of an InsertShards command of that configuration stop being pulled.
LEMMA SettlingSteps ==
    ASSUME MigrationInv, NEW c \in started, NEW m \in Machine,
           machine' = [machine EXCEPT ![c.to] = m],
           m.Num = machine[c.to].Num,
           \A s \in Shard : machine[c.to].stateMachines[s].Status = Serving =>
                                m.stateMachines[s].Status = Serving,
           \A s \in Shard :
               machine[c.to].stateMachines[s].Status = Pulling =>
                   \/ m.stateMachines[s].Status = Pulling
                   \/ Released(s, m.Num),
           UNCHANGED <<newest, requests, started, commandId, config, pending>>
    PROVE  MigrationInv'
  <1>1. c.to \in Group /\ machine \in [Group -> Machine]
    BY Zenon DEF MigrationInv, Types
  <1>2. Types'
    BY <1>1, Zenon DEF MigrationInv, Types
  <1>3. \A g \in Group : /\ machine'[g].Num = machine[g].Num
                         /\ g # c.to => machine'[g] = machine[g]
                         /\ machine'[c.to] = m
    BY <1>1, Zenon
  <1>4. \A g \in Group : machine[g].Num \in Int
    BY <1>1, SMTT(30) DEF Machine
  <1>5. \A g \in Group : machine[g].Num <= machine'[g].Num
    BY <1>3, <1>4, SMTT(30)
  <1>6. \A s \in Shard : \A j \in Int : Released(s, j) => Released(s, j)'
    BY <1>2, <1>5, ReleasedStays, Zenon DEF MigrationInv
  <1>7. HandedOver'
    <2> SUFFICES ASSUME NEW s \in Shard, NEW j \in 0..MaxConfig, Config[j][s] \in Group,
                        Settled(Config[j][s], s, j)'
                 PROVE  Released(s, j)'
      BY Zenon DEF HandedOver
    <2>1. CASE Settled(Config[j][s], s, j)
      BY <1>6, <2>1, SMTT(30) DEF MigrationInv, HandedOver
    <2>2. CASE ~ Settled(Config[j][s], s, j)
      <3>1. Config[j][s] = c.to /\ m.Num = j
        BY <1>1, <1>3, <1>4, <2>2, Zenon DEF Settled
      <3>2. /\ machine[c.to].stateMachines[s].Status = Pulling
            /\ m.stateMachines[s].Status # Pulling
        BY <1>1, <1>3, <2>2, <3>1, Zenon DEF Settled
      <3> QED BY <1>6, <3>1, <3>2, SMTT(30)
    <2> QED BY <2>1, <2>2, Zenon
  <1>8. ReadyToMove'
    <2> SUFFICES ASSUME NEW d \in started, d.Op = "Configuration"
                 PROVE  \/ d.Data <= machine'[d.to].Num
                        \/ /\ d.Data = machine'[d.to].Num + 1
                           /\ \A s \in Shard : machine'[d.to].stateMachines[s].Status = Serving
      BY Zenon DEF ReadyToMove
    <2>1. d.to \in Group
      BY Zenon DEF MigrationInv, Types
    <2>2. \A s \in Shard : machine[d.to].stateMachines[s].Status = Serving =>
                               machine'[d.to].stateMachines[s].Status = Serving
      BY <1>3, <2>1, SMTT(30)
    <2> QED BY <1>3, <2>1, <2>2, Zenon DEF MigrationInv, ReadyToMove
  <1>9. AskedAtOwner'
    BY Zenon DEF MigrationInv, AskedAtOwner
  <1>10. InsertsReleased'
    <2> SUFFICES ASSUME NEW d \in started, d.Op = "InsertShards",
                        NEW s \in DOMAIN d.Data.Shards
                 PROVE  Released(s, d.Data.ConfigNum)'
      BY Zenon DEF InsertsReleased
    <2>1. d.Data \in InsertInfo
      BY Zenon DEF MigrationInv, Types
    <2>2. s \in Shard /\ d.Data.ConfigNum \in Int
      BY <2>1, SMTT(30) DEF InsertInfo
    <2> QED BY <1>6, <2>2, Zenon DEF MigrationInv, InsertsReleased
  <1> QED BY <1>2, <1>7, <1>8, <1>9, <1>10, Zenon DEF MigrationInv

\* The next configuration.  A shard that its group keeps is settled already; one that it gains
\* has to be pulled, unless nobody had it.
LEMMA ConfigurationStep ==
    ASSUME MigrationInv, NeverUnassigned, NEW c \in started, c.Op = "Configuration",
           machine' = [machine EXCEPT ![c.to] = applyConfiguration(c.to, @, c.Data)],
           UNCHANGED <<newest, requests, started, commandId, config, pending>>
    PROVE  MigrationInv'
  <1> DEFINE g == c.to
             m == machine[g]
             n == applyConfiguration(g, m, c.Data)
  <1>1. g \in Group /\ machine \in [Group -> Machine] /\ c.Data \in 1..MaxConfig
    BY Zenon DEF MigrationInv, Types
  <1>2. m \in Machine /\ m.Num \in 0..MaxConfig
    BY <1>1, Zenon DEF Machine
  <1>3. CASE c.Data # m.Num + 1
    <2>1. machine' = machine
      BY <1>1, <1>3, Zenon DEF applyConfiguration
    <2>2. Types'
      BY <2>1, Zenon DEF MigrationInv, Types
    <2> QED BY <2>1, <2>2, QuietStep, Zenon
  <1>4. CASE c.Data = m.Num + 1
    <2>1. \A s \in Shard : m.stateMachines[s].Status = Serving
      BY <1>2, <1>4, SMTT(30) DEF MigrationInv, ReadyToMove
    <2>2. /\ n \in Machine /\ n.Num = m.Num + 1
          /\ \A s \in Shard :
                /\ (Config[m.Num + 1][s] = g /\ Config[m.Num][s] = g) =>
                       n.stateMachines[s].Status = Serving
                /\ (Config[m.Num + 1][s] = g /\ Config[m.Num][s] \notin {g, NoGroup}) =>
                       n.stateMachines[s].Status = Pulling
      BY <1>1, <1>2, <1>4, <2>1, ConfigurationMoves, SMTT(30)
    <2> HIDE DEF n
    <2>3. machine' = [machine EXCEPT ![g] = n]
      BY Zenon DEF n
    <2>4. Types'
      BY <1>1, <2>2, <2>3, Zenon DEF MigrationInv, Types
    <2>5. machine'[g] = n /\ \A h \in Group : h # g => machine'[h] = machine[h]
      BY <1>1, <2>3, Zenon
    <2>6. \A h \in Group : machine[h].Num \in Int /\ machine[h].Num <= machine'[h].Num
      BY <1>1, <1>2, <2>2, <2>5, SMTT(30) DEF Machine
    <2>7. \A s \in Shard : \A j \in Int : Released(s, j) => Released(s, j)'
      BY <2>4, <2>6, ReleasedStays, Zenon DEF MigrationInv
    <2>8. HandedOver'
      <3> SUFFICES ASSUME NEW s \in Shard, NEW j \in 0..MaxConfig, Config[j][s] \in Group,
                          Settled(Config[j][s], s, j)'
                   PROVE  Released(s, j)'
        BY Zenon DEF HandedOver
      <3>1. CASE Settled(Config[j][s], s, j)
        BY <2>7, <3>1, SMTT(30) DEF MigrationInv, HandedOver
      <3>2. CASE ~ Settled(Config[j][s], s, j)
        <4>1. Config[j][s] = g
          BY <2>5, <3>2, Zenon DEF Settled
        <4>2. j = m.Num + 1 /\ n.stateMachines[s].Status # Pulling
          <5>1. m.Num <= j
            BY <1>2, <3>2, <4>1, SMTT(30) DEF Settled
          <5>2. m.Num # j
            BY <2>1, <3>2, <4>1, Zenon DEF Settled, Serving, Pulling
          <5>3. n.Num > j \/ (n.Num = j /\ n.stateMachines[s].Status # Pulling)
            BY <2>5, <4>1, Zenon DEF Settled
          <5> QED BY <1>2, <2>2, <5>1, <5>2, <5>3, SMTT(30)
        <4>3. Config[m.Num][s] \in {g, NoGroup}
          BY <2>2, <4>1, <4>2, Zenon
        <4>4. CASE Config[m.Num][s] = g
          <5>1. Settled(g, s, m.Num)
            BY <2>1, Zenon DEF Settled, Serving, Pulling
          <5>2. PICK k \in 0..MaxConfig : k = m.Num
            BY <1>2, Zenon
          <5>3. Released(s, k)
            <6>1. Config[k][s] = g /\ Settled(g, s, k)
              BY <4>4, <5>1, <5>2, Zenon
            <6>2. HandedOver
              BY Zenon DEF MigrationInv
            <6> QED BY <1>1, <5>2, <6>1, <6>2, Zenon DEF HandedOver
          <5>4. Released(s, k)'
            BY <2>7, <5>3, SMTT(30)
          <5>5. j = k + 1 /\ Config[k][s] = g /\ machine'[g].Num = j /\ k \in Int
            BY <1>2, <2>2, <2>5, <4>2, <4>4, <5>2, SMTT(30)
          <5> SUFFICES ASSUME NEW i \in 0..(j - 1), Config[i][s] \in Group
                       PROVE  machine'[Config[i][s]].Num > i
            BY Zenon DEF Released
          <5>6. CASE i = k
            <6>1. Config[i][s] = g /\ machine'[g].Num = j
              BY <5>5, <5>6, Zenon
            <6>2. j > i
              BY <5>5, <5>6, SMTT(30)
            <6> QED BY <6>1, <6>2, Zenon
          <5>7. CASE i # k
            <6>1. i \in 0..(k - 1)
              BY <5>5, <5>7, SMTT(30)
            <6> QED BY <5>4, <6>1, Zenon DEF Released
          <5> QED BY <5>6, <5>7, Zenon
        <4>5. CASE Config[m.Num][s] = NoGroup
          <5>1. \A i \in 0..m.Num : Config[i][s] \notin Group
            BY <1>2, <4>5, ShardAssumption, SMTT(30) DEF NeverUnassigned
          <5> QED BY <1>2, <4>2, <5>1, SMTT(30) DEF Released
        <4> QED BY <4>3, <4>4, <4>5, Zenon
      <3> QED BY <3>1, <3>2, Zenon
    <2>9. ReadyToMove'
      <3> SUFFICES ASSUME NEW d \in started, d.Op = "Configuration"
                   PROVE  \/ d.Data <= machine'[d.to].Num
                          \/ /\ d.Data = machine'[d.to].Num + 1
                             /\ \A s \in Shard :
                                    machine'[d.to].stateMachines[s].Status = Serving
        BY Zenon DEF ReadyToMove
      <3>1. d.to \in Group /\ d.Data \in Int
        BY SMTT(30) DEF MigrationInv, Types
      <3>2. CASE d.to = g
        BY <1>2, <2>2, <2>5, <3>1, <3>2, SMTT(30) DEF MigrationInv, ReadyToMove
      <3>3. CASE d.to # g
        BY <2>5, <3>1, <3>3, Zenon DEF MigrationInv, ReadyToMove
      <3> QED BY <3>2, <3>3, Zenon
    <2>10. AskedAtOwner'
      BY Zenon DEF MigrationInv, AskedAtOwner
    <2>11. InsertsReleased'
      <3> SUFFICES ASSUME NEW d \in started, d.Op = "InsertShards",
                          NEW s \in DOMAIN d.Data.Shards
                   PROVE  Released(s, d.Data.ConfigNum)'
        BY Zenon DEF InsertsReleased
      <3>1. d.Data \in InsertInfo
        BY Zenon DEF MigrationInv, Types
      <3>2. s \in Shard /\ d.Data.ConfigNum \in Int
        BY <3>1, SMTT(30) DEF InsertInfo
      <3> QED BY <2>7, <3>2, Zenon DEF MigrationInv, InsertsReleased
    <2> QED BY <2>4, <2>8, <2>9, <2>10, <2>11, Zenon DEF MigrationInv
  <1> QED BY <1>3, <1>4, Zenon

\* Every command that is decided keeps the invariant.
LEMMA ApplySteps ==
    ASSUME MigrationInv, NeverUnassigned, NEW c \in started, Apply(c)
    PROVE  MigrationInv'
  <1> DEFINE g == c.to
             m == machine[g]
  <1>1. g \in Group /\ machine \in [Group -> Machine] /\ m \in Machine
    BY Zenon DEF MigrationInv, Types
  <1>2. machine' = [machine EXCEPT ![g] = Applied(g, m, c)]
    BY Zenon DEF Apply
  <1>3. UNCHANGED <<newest, requests, started, commandId, config, pending>>
    BY Zenon DEF Apply
  <1>4. \/ c.Op = "Operation" /\ c.Data \in Request
        \/ c.Op = "Configuration"
        \/ c.Op = "InsertShards" /\ c.Data \in InsertInfo
        \/ c.Op = "DeleteShards" /\ c.Data \in DeleteInfo
    BY Zenon DEF MigrationInv, Types
  <1>5. CASE c.Op = "Operation" /\ c.Data \in Request
    <2> DEFINE n == applyOperation(g, m, c.Data)
    <2>1. Applied(g, m, c) = n
      BY <1>5, Zenon DEF Applied
    <2>2. /\ n \in Machine /\ n.Num = m.Num
          /\ \A s \in Shard : n.stateMachines[s].Status = m.stateMachines[s].Status
      BY <1>1, <1>5, OperationKeeps, Zenon
    <2> HIDE DEF n
    <2> QED BY <1>2, <1>3, <2>1, <2>2, SettlingSteps, Zenon
  <1>6. CASE c.Op = "Configuration"
    <2>1. Applied(g, m, c) = applyConfiguration(g, m, c.Data)
      BY <1>6, Zenon DEF Applied
    <2> QED BY <1>2, <1>3, <1>6, <2>1, ConfigurationStep, Zenon
  <1>7. CASE c.Op = "InsertShards" /\ c.Data \in InsertInfo
    <2> DEFINE n == applyInsertShards(m, c.Data)
    <2>1. Applied(g, m, c) = n
      BY <1>7, Zenon DEF Applied
    <2>2. /\ n \in Machine /\ n.Num = m.Num
          /\ \A s \in Shard :
                /\ m.stateMachines[s].Status = Serving => n.stateMachines[s].Status = Serving
                /\ (m.stateMachines[s].Status = Pulling
                    /\ ~(c.Data.ConfigNum = m.Num /\ s \in DOMAIN c.Data.Shards)) =>
                       n.stateMachines[s].Status = Pulling
      BY <1>1, <1>7, InsertSettles, Zenon
    <2> HIDE DEF n
    <2>3. \A s \in DOMAIN c.Data.Shards : Released(s, c.Data.ConfigNum)
      BY <1>7, Zenon DEF MigrationInv, InsertsReleased
    <2>4. \A s \in Shard : m.stateMachines[s].Status = Pulling =>
              n.stateMachines[s].Status = Pulling \/ Released(s, n.Num)
      BY <2>2, <2>3, Zenon
    <2> QED BY <1>2, <1>3, <2>1, <2>2, <2>4, SettlingSteps, Zenon
  <1>8. CASE c.Op = "DeleteShards" /\ c.Data \in DeleteInfo
    <2> DEFINE n == applyDeleteShards(m, c.Data)
    <2>1. Applied(g, m, c) = n
      BY <1>8, Zenon DEF Applied
    <2>2. /\ n \in Machine /\ n.Num = m.Num
          /\ \A s \in Shard :
                /\ m.stateMachines[s].Status = Serving => n.stateMachines[s].Status = Serving
                /\ m.stateMachines[s].Status = Pulling => n.stateMachines[s].Status = Pulling
      BY <1>1, <1>8, DeleteKeeps, Zenon
    <2> HIDE DEF n
    <2> QED BY <1>2, <1>3, <2>1, <2>2, SettlingSteps, Zenon
  <1> QED BY <1>4, <1>5, <1>6, <1>7, <1>8, Zenon

-----------------------------------------------------------------------------
(* Every step keeps the invariant, and the invariant leaves one group to serve a shard. *)

\* Every step, lost commands included, keeps the invariant.
LEMMA NextMigration ==
    ASSUME NeverUnassigned, MigrationInv, [LossyNext]_vars
    PROVE  MigrationInv'
  <1>1. ASSUME NEW c \in started, Lose(c) PROVE MigrationInv'
    <2>1. Types'
      BY <1>1, Zenon DEF Lose, MigrationInv, Types, clerkVars
    <2> QED BY <1>1, <2>1, QuietStep, Zenon DEF Lose
  <1>2. CASE UNCHANGED vars
    <2>1. Types'
      BY <1>2, Zenon DEF vars, groupVars, clerkVars, MigrationInv, Types
    <2> QED BY <1>2, <2>1, QuietStep, Zenon DEF vars, groupVars
  <1>3. CASE Reconfigure
    <2>1. newest' \in 0..MaxConfig
      BY <1>3, ShardAssumption, SMTT(30) DEF Reconfigure, MigrationInv, Types
    <2>2. Types'
      BY <1>3, <2>1, Zenon DEF Reconfigure, MigrationInv, Types, groupVars, clerkVars
    <2> QED BY <1>3, <2>2, QuietStep, Zenon DEF Reconfigure, groupVars
  <1> QED
    BY <1>1, <1>2, <1>3, ClerkSteps, MonitorSteps, HandlerSteps, ApplySteps, Zenon
      DEF LossyNext, Next

\* When two groups serve a shard, the one in the earlier configuration has not let go of it.
LEMMA OneAtATime == MigrationInv => OneServes
  <1> SUFFICES ASSUME MigrationInv, NEW g \in Group, NEW h \in Group, NEW s \in Shard,
                      canServe(g, machine[g], s), canServe(h, machine[h], s), g # h
               PROVE  FALSE
    BY Zenon DEF OneServes
  <1>1. /\ machine[g].Num \in 0..MaxConfig /\ Config[machine[g].Num][s] = g
        /\ machine[h].Num \in 0..MaxConfig /\ Config[machine[h].Num][s] = h
    BY Zenon DEF MigrationInv, Types, Machine, canServe, Current
  <1>2. Settled(g, s, machine[g].Num) /\ Settled(h, s, machine[h].Num)
    BY Zenon DEF canServe, Settled, Serving, GCing, Pulling
  <1>3. Released(s, machine[g].Num) /\ Released(s, machine[h].Num)
    BY <1>1, <1>2, Zenon DEF MigrationInv, HandedOver
  <1>4. machine[g].Num # machine[h].Num
    BY <1>1, Zenon
  <1>5. CASE machine[g].Num < machine[h].Num
    BY <1>1, <1>3, <1>5, SMTT(30) DEF Released
  <1>6. CASE machine[h].Num < machine[g].Num
    BY <1>1, <1>3, <1>6, SMTT(30) DEF Released
  <1> QED BY <1>1, <1>4, <1>5, <1>6, SMTT(30)

\* "At most one replica group is serving requests for each shard at any one time" (lab/lab
\* 4.md:15): canServe holds in one group at most, for any groups, shards and configurations
\* that leave no shard without a group once it had one, whatever is retried, late, repeated
\* or lost between monitors, handlers and appliers.
THEOREM OneGroupServes == NeverUnassigned => (Spec => []OneServes)
  <1> SUFFICES ASSUME NeverUnassigned PROVE Spec => []OneServes
    BY Zenon
  <1>1. MigrationInv /\ [Next]_vars => MigrationInv'
    BY NextMigration, Zenon DEF LossyNext
  <1> QED BY <1>1, InitMigration, OneAtATime, PTL DEF Spec

\* The same when leaders lose what was started on them (LossySpec without its fairness).
THEOREM OneGroupServesLossy ==
    NeverUnassigned => (Init /\ [][LossyNext]_vars => []OneServes)
  <1> SUFFICES ASSUME NeverUnassigned PROVE Init /\ [][LossyNext]_vars => []OneServes
    BY Zenon
  <1>1. MigrationInv /\ [LossyNext]_vars => MigrationInv'
    BY NextMigration, Zenon
  <1> QED BY <1>1, InitMigration, OneAtATime, PTL
=============================================================================
