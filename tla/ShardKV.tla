------------------------------- MODULE ShardKV -------------------------------
(***************************************************************************)
(* The sharded key/value service of src/code/src/shardkv: replica groups   *)
(* that follow the shard controller's configurations one by one, pull the  *)
(* shards they gain, have the previous owner delete them, and serve clerks *)
(* in the meantime.                                                        *)
(*                                                                         *)
(* A group is one replicated state machine: its leader starts commands and *)
(* Raft decides them (KVRaft models the replicas).  What a goroutine reads *)
(* of the state it may act on at any later time: a request once sent may   *)
(* arrive, and a command once started be decided, any number of times and  *)
(* in any order, which covers slow RPCs, retries, leaders that lag behind  *)
(* and leaders that change.  One key per shard is modelled; its value is   *)
(* the sequence of the requests that wrote it.                             *)
(***************************************************************************)
EXTENDS Integers, Sequences, FiniteSets

CONSTANTS Group,
          NoGroup,    \* gid 0: the shard is not assigned
          Shard, Client, Nothing,
          Config,     \* the configurations, 0 the controller's first
          Script,     \* per clerk: the calls made on it
          MaxLost     \* bound on started commands that no leader gets decided

MaxConfig == Cardinality(DOMAIN Config) - 1

ASSUME ShardAssumption ==
    /\ NoGroup \notin Group
    /\ MaxConfig \in Nat
    /\ Config \in [0..MaxConfig -> [Shard -> Group \union {NoGroup}]]
    /\ Config[0] = [s \in Shard |-> NoGroup]
    /\ Script \in [Client -> Seq([Op : {"Get", "Put", "Append"}, Key : Shard])]
    /\ MaxLost \in Nat

VARIABLES newest,     \* the controller's latest configuration
          machine,    \* per group: currentConfig's number, stateMachines, lastOperations
          requests,   \* the RPCs sent
          started,    \* the commands given to a group's leader
          lost,       \* how many commands were lost
          commandId,  \* per clerk
          config,     \* per clerk: the configuration it goes by
          pending,    \* per clerk: the request it is calling for, or Nothing
          replies,    \* per clerk: the values its pending request was answered with
          returned    \* per clerk: the value of its last completed call

groupVars == <<machine, requests, started, lost>>
clerkVars == <<commandId, config, pending, replies, returned>>
vars == <<newest, groupVars, clerkVars>>

Serving == "Serving"
Pulling == "Pulling"
BePulling == "BePulling"
GCing == "GCing"
-----------------------------------------------------------------------------
(* The state machine of a group. *)

NewShard == [KV |-> <<>>, Status |-> Serving]

NoState == [Num |-> 0,
            stateMachines |-> [s \in Shard |-> NewShard],
            lastOperations |-> [c \in Client |-> -1]]

\* currentConfig and lastConfig of a state.
Current(m) == Config[m.Num]
Last(m) == IF m.Num = 0 THEN Config[0] ELSE Config[m.Num - 1]

isDuplicateRequest(m, r) == r.CommandId <= m.lastOperations[r.ClientId]

canServe(g, m, s) == Current(m)[s] = g /\ m.stateMachines[s].Status \in {Serving, GCing}

\* Put, Append and Get of one shard.
Written(kv, r) ==
    CASE r.Op = "Put" -> <<r>>
      [] r.Op = "Append" -> Append(kv, r)
      [] r.Op = "Get" -> kv

Value(kv, r) == IF r.Op = "Get" THEN kv ELSE Nothing

applyOperation(g, m, r) ==
    IF canServe(g, m, r.Key) /\ r.Op # "Get" /\ ~ isDuplicateRequest(m, r)
    THEN [m EXCEPT !.stateMachines[r.Key].KV = Written(@, r),
                   !.lastOperations[r.ClientId] = r.CommandId]
    ELSE m

\* Variant: a shard that comes from another group is served at once.
GainedServing(shard, previous) == [shard EXCEPT !.Status = Serving]

\* What a gained shard starts as.
Gained(shard, previous) ==
    [shard EXCEPT !.Status = IF previous = NoGroup THEN Serving ELSE Pulling]

\* What a shard becomes that moves away.
Given(shard, next) ==
    IF next = NoGroup THEN NewShard ELSE [shard EXCEPT !.Status = BePulling]

applyConfiguration(g, m, num) ==
    IF num # m.Num + 1 THEN m
    ELSE [m EXCEPT
            !.Num = num,
            !.stateMachines = [s \in Shard |->
                LET before == Config[m.Num][s]
                    after == Config[num][s]
                IN  CASE after = g /\ before # g -> Gained(@[s], before)
                      [] before = g /\ after # g -> Given(@[s], after)
                      [] OTHER -> @[s]]]

\* The duplicate tables of two groups: a client's newer entry wins.
Merged(a, b) == [c \in Client |-> IF a[c] < b[c] THEN b[c] ELSE a[c]]

\* Variant: the duplicate table stays behind.
applyInsertShardsOnly(m, info) ==
    IF info.ConfigNum # m.Num THEN m
    ELSE [m EXCEPT !.stateMachines = [s \in Shard |->
             IF s \in DOMAIN info.Shards /\ @[s].Status = Pulling
             THEN [KV |-> info.Shards[s], Status |-> GCing] ELSE @[s]]]

applyInsertShards(m, info) ==
    IF info.ConfigNum # m.Num THEN m
    ELSE [m EXCEPT
            !.stateMachines = [s \in Shard |->
                IF s \in DOMAIN info.Shards /\ @[s].Status = Pulling
                THEN [KV |-> info.Shards[s], Status |-> GCing] ELSE @[s]],
            !.lastOperations = Merged(@, info.LastOperations)]

applyDeleteShards(m, info) ==
    IF info.ConfigNum # m.Num THEN m
    ELSE [m EXCEPT !.stateMachines = [s \in Shard |->
             CASE s \in info.ShardIDs /\ @[s].Status = GCing ->
                    [@[s] EXCEPT !.Status = Serving]
               [] s \in info.ShardIDs /\ @[s].Status = BePulling -> NewShard
               [] OTHER -> @[s]]]

\* The switch of applier().
Applied(g, m, command) ==
    CASE command.Op = "Operation" -> applyOperation(g, m, command.Data)
      [] command.Op = "Configuration" -> applyConfiguration(g, m, command.Data)
      [] command.Op = "InsertShards" -> applyInsertShards(m, command.Data)
      [] command.Op = "DeleteShards" -> applyDeleteShards(m, command.Data)
-----------------------------------------------------------------------------
(* Clerks. *)

\* Get, Put or Append is called on a clerk.
Invoke(c) ==
    /\ pending[c] = Nothing
    /\ commandId[c] < Len(Script[c])
    /\ LET todo == Script[c][commandId[c] + 1]
       IN  pending' = [pending EXCEPT ![c] = [ClientId |-> c, CommandId |-> commandId[c],
                                              Op |-> todo.Op, Key |-> todo.Key]]
    /\ UNCHANGED <<newest, groupVars, commandId, config, replies, returned>>

\* One pass of the loop over the servers of the group that has the key's shard.
Call(c) ==
    /\ pending[c] # Nothing
    /\ LET gid == Config[config[c]][pending[c].Key]
       IN  /\ gid # NoGroup
           /\ requests' = requests \union {[to |-> gid, rpc |-> "Command", args |-> pending[c]]}
    /\ UNCHANGED <<newest, machine, started, lost, clerkVars>>

\* The pass had no success: ck.sm.Query(-1).
Query(c) ==
    /\ pending[c] # Nothing
    /\ config' = [config EXCEPT ![c] = newest]
    /\ UNCHANGED <<newest, groupVars, commandId, pending, replies, returned>>

\* A reply with OK or ErrNoKey.
Return(c, value) ==
    /\ value \in replies[c]
    /\ pending' = [pending EXCEPT ![c] = Nothing]
    /\ replies' = [replies EXCEPT ![c] = {}]
    /\ returned' = [returned EXCEPT ![c] = value]
    /\ commandId' = [commandId EXCEPT ![c] = @ + 1]
    /\ UNCHANGED <<newest, groupVars, config>>

\* A group answers request r; nobody waits for the answer to an earlier request.
Answered(r, value) ==
    IF pending[r.ClientId] = r
    THEN [replies EXCEPT ![r.ClientId] = @ \union {value}]
    ELSE replies
-----------------------------------------------------------------------------
(* A group: RPC handlers, monitors, applier. *)

\* Execute(): the command is handed to the leader, which may or may not get it decided.
Execute(g, op, data) == [to |-> g, Op |-> op, Data |-> data]

\* ShardKV.Command
Command(q) ==
    LET g == q.to
        r == q.args
    IN  /\ q.rpc = "Command"
        /\ \/ /\ r.Op # "Get" /\ isDuplicateRequest(machine[g], r)
              /\ replies' = Answered(r, Nothing)
              /\ UNCHANGED started
           \/ /\ r.Op = "Get" \/ ~ isDuplicateRequest(machine[g], r)
              /\ canServe(g, machine[g], r.Key)
              /\ started' = started \union {Execute(g, "Operation", r)}
              /\ UNCHANGED replies
        /\ UNCHANGED <<newest, machine, requests, lost, commandId, config, pending, returned>>

\* configureAction(): on to the next configuration once every shard is settled.
configureAction(g) ==
    /\ \A s \in Shard : machine[g].stateMachines[s].Status = Serving
    /\ machine[g].Num + 1 <= newest
    /\ started' = started \union {Execute(g, "Configuration", machine[g].Num + 1)}
    /\ UNCHANGED <<newest, machine, requests, lost, clerkVars>>

\* The shards of a status, by previous owner: the requests of one round.
ByPreviousOwner(g, status, rpc) ==
    LET m == machine[g]
        shardIDs(h) == {s \in Shard : m.stateMachines[s].Status = status /\ Last(m)[s] = h}
    IN  {[to |-> h, rpc |-> rpc,
          args |-> [from |-> g, ConfigNum |-> m.Num, ShardIDs |-> shardIDs(h)]] :
         h \in {h \in Group : shardIDs(h) # {}}}

migrationAction(g) ==
    /\ requests' = requests \union ByPreviousOwner(g, Pulling, "GetShardsData")
    /\ UNCHANGED <<newest, machine, started, lost, clerkVars>>

gcAction(g) ==
    /\ requests' = requests \union ByPreviousOwner(g, GCing, "DeleteShardsData")
    /\ UNCHANGED <<newest, machine, started, lost, clerkVars>>

\* Variant: only the shards of configurations that are over are handed out.
HandsOutLate(m, args) == args.ConfigNum < m.Num

HandsOut(m, args) == args.ConfigNum = m.Num

\* GetShardsData, and the reply's InsertShards command at the group that asked.
GetShardsData(q) ==
    LET m == machine[q.to]
        given == {s \in q.args.ShardIDs : m.stateMachines[s].Status \in {BePulling, GCing}}
        info == [ConfigNum |-> q.args.ConfigNum,
                 Shards |-> [s \in given |-> m.stateMachines[s].KV],
                 LastOperations |-> m.lastOperations]
    IN  /\ q.rpc = "GetShardsData"
        /\ HandsOut(m, q.args)
        /\ started' = started \union {Execute(q.args.from, "InsertShards", info)}
        /\ UNCHANGED <<newest, machine, requests, lost, clerkVars>>

\* DeleteShardsData, and the reply's DeleteShards command at the group that asked.  The
\* handler's own Execute may fail (no leader, no majority within 500 ms, another leader's
\* term): it answers OK all the same.
DeleteShardsData(q) ==
    LET num == machine[q.to].Num
        info == [ConfigNum |-> q.args.ConfigNum, ShardIDs |-> q.args.ShardIDs]
    IN  /\ q.rpc = "DeleteShardsData"
        /\ q.args.ConfigNum <= num
        /\ started' = started \union {Execute(q.args.from, "DeleteShards", info)}
                              \union (IF q.args.ConfigNum = num
                                      THEN {Execute(q.to, "DeleteShards", info)} ELSE {})
        /\ UNCHANGED <<newest, machine, requests, lost, clerkVars>>

\* A decided command comes out of applyCh and the handler that waits for it, if any, is
\* told.  A clerk takes ErrWrongGroup for a reason to ask again.
Apply(command) ==
    LET g == command.to
        r == command.Data
    IN  /\ machine' = [machine EXCEPT ![g] = Applied(g, @, command)]
        /\ replies' = IF command.Op = "Operation" /\ canServe(g, machine[g], r.Key)
                      THEN Answered(r, Value(machine[g].stateMachines[r.Key].KV, r))
                      ELSE replies
        /\ UNCHANGED <<newest, requests, started, lost, commandId, config, pending, returned>>

\* The leader that a command was started on loses its leadership before the command is
\* replicated.
Lose(command) ==
    /\ lost < MaxLost
    /\ lost' = lost + 1
    /\ started' = started \ {command}
    /\ UNCHANGED <<newest, machine, requests, clerkVars>>

\* The controller has a new configuration.
Reconfigure ==
    /\ newest < MaxConfig
    /\ newest' = newest + 1
    /\ UNCHANGED <<groupVars, clerkVars>>

Init ==
    /\ newest = 0
    /\ machine = [g \in Group |-> NoState]
    /\ requests = {} /\ started = {} /\ lost = 0
    /\ commandId = [c \in Client |-> 0]
    /\ config = [c \in Client |-> 0]
    /\ pending = [c \in Client |-> Nothing]
    /\ replies = [c \in Client |-> {}]
    /\ returned = [c \in Client |-> Nothing]

Handle(q) == Command(q) \/ GetShardsData(q) \/ DeleteShardsData(q)

Next ==
    \/ \E c \in Client : Invoke(c) \/ Call(c) \/ Query(c)
    \/ \E c \in Client : \E value \in replies[c] : Return(c, value)
    \/ \E g \in Group : configureAction(g) \/ migrationAction(g) \/ gcAction(g)
    \/ \E q \in requests : Handle(q)
    \/ \E command \in started : Apply(command)
    \/ Reconfigure

\* A leader may also lose what was started on it.
LossyNext == Next \/ \E command \in started : Lose(command)

\* A request of one of the monitors that the monitor is still repeating.
Repeated(q) ==
    \/ q \in ByPreviousOwner(q.args.from, Pulling, "GetShardsData")
    \/ q \in ByPreviousOwner(q.args.from, GCing, "DeleteShardsData")

\* A step of the groups: of a monitor, of a handler for what a monitor still repeats, or of
\* an applier.
GroupStep ==
    \/ \E g \in Group : configureAction(g) \/ migrationAction(g) \/ gcAction(g)
    \/ \E q \in requests : q.rpc = "GetShardsData" /\ Repeated(q) /\ GetShardsData(q)
    \/ \E q \in requests : q.rpc = "DeleteShardsData" /\ Repeated(q) /\ DeleteShardsData(q)
    \/ \E command \in started : Apply(command)

Spec == Init /\ [][Next]_vars

\* The groups do not stop while one of them has a step to take: the monitors run for ever,
\* what they repeat gets through in the end, and Raft decides what it has not lost.
FairSpec == Spec /\ WF_vars(GroupStep)
LossySpec == Init /\ [][LossyNext]_vars /\ WF_vars(GroupStep)
-----------------------------------------------------------------------------
(* Properties. *)

\* A shard is served by one group at most.
OneServes ==
    \A g, h \in Group : \A s \in Shard :
        canServe(g, machine[g], s) /\ canServe(h, machine[h], s) => g = h

\* The data of a shard: that of the group that serves it, or else of the last one that has
\* stopped to.
Content(s) ==
    LET serving == {g \in Group : canServe(g, machine[g], s)}
        giving == {g \in Group : machine[g].stateMachines[s].Status = BePulling}
        last == CHOOSE g \in giving : \A h \in giving : machine[h].Num <= machine[g].Num
    IN  CASE serving # {} -> machine[CHOOSE g \in serving : TRUE].stateMachines[s].KV
          [] serving = {} /\ giving # {} -> machine[last].stateMachines[s].KV
          [] OTHER -> <<>>

Store ==
    INSTANCE AtomicService WITH
        Request <- UNION {{[ClientId |-> c, CommandId |-> n - 1,
                            Op |-> Script[c][n].Op, Key |-> Script[c][n].Key] :
                           n \in 1..Len(Script[c])} : c \in Client},
        Initially <- [s \in Shard |-> <<>>],
        IsRead <- LAMBDA r : r.Op = "Get",
        After <- LAMBDA kv, r : [kv EXCEPT ![r.Key] = Written(@, r)],
        Answer <- LAMBDA kv, r : Value(kv[r.Key], r),
        state <- [s \in Shard |-> Content(s)],
        call <- pending,
        done <- [c \in Client |-> replies[c] # {}],
        seen <- replies

\* The groups together implement one atomic store: no shard that moves loses an update or
\* takes one twice, whatever is retried, late or repeated, and a Get returns what was
\* there between its call and its return.
Linearizable == Store!Spec

\* The groups catch up with the controller: whatever configuration is the newest, every
\* group reaches it.
Reconfigures == []<>(\A g \in Group : machine[g].Num = newest)
=============================================================================
