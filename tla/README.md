# TLA+ verification of the distributed-systems labs

This directory specifies the Go programs under `src/code/src` in TLA+, checks the
specifications on small instances with TLC, and proves the most important facts for every
instance with TLAPS. File and line references are to the repository.

## 1. The system

| Part | Source | Modules |
|---|---|---|
| Raft peer: elections, log replication, commitment, persistence, log compaction | `raft/raft.go`, `raft/persister.go` | `Raft`, `RaftHistory`, `ReplicatedLog` |
| Raft apply pipeline: delivery of committed entries and snapshots on `applyCh` | `raft/raft.go` 667-702, 803-866, 960-1046; the applier of `kvraft/server.go` | `RaftApply` |
| RPC network, and the harness that stops and starts servers | `labrpc/labrpc.go`, `kvraft/config.go` | `LabRpc`; as messages in `Raft` |
| Key/value service and its clerk | `kvraft/` | `KVRaft` over `RaftGroup`, `AtomicService` |
| Shard controller: rebalancing | `shardctrler/server.go` 303-477 | `Rebalance`, `Assignment` |
| Shard controller: replicated service and clerk | `shardctrler/` | `ShardCtrler` over `RaftGroup`, `AtomicService` |
| Sharded key/value service: reconfiguration, migration, garbage collection | `shardkv/` | `ShardKV`, `AtomicService` |
| MapReduce coordinator and worker | `mr/` | `MapReduce` |
| Linearizability checker of the tests | `porcupine/`, `models/kv.go` | `Porcupine` |

How they fit together. A **Raft** peer is one Go object under one lock (`rf.mu`). Its
goroutines are the ticker, one goroutine per election and peer, one `replicateToPeer` per
broadcast and peer, and the RPC handlers. Each takes the lock, reads and writes the state,
saves it through the `Persister` where it changed, and releases the lock around RPCs and
around sends on `applyCh`. The **services** (key/value, shard controller, sharded key/value)
hand commands to `Start`, read committed commands from `applyCh`, and wake the RPC handler
that waits at the command's index. They ask Raft to compact with `Snapshot` and switch to a
received snapshot with `CondInstallSnapshot`. Everything talks through **labrpc**, which
may lose, delay and reorder calls and which a test harness uses to cut off and restart
servers. **MapReduce** is separate: one coordinator, workers that poll it over `net/rpc`. The tests
of the services hand the calls they made to **porcupine**, which searches for a linearization.

## 2. How the modules fit together

```
 ShardKV      KVRaft    ShardCtrler      implement  AtomicService   (Linearizable, OneHistory)
    |            \         /    \
    | (each group  RaftGroup    Rebalance <- Assignment
    |  one state      |
    |  machine)  ReplicatedLog              implemented by Raft      (OneLog)
    |                 |
    +--------------  Raft  --- RaftApply   between Raft and the services, on one peer
                      |
                    LabRpc                  below everything
```

The layers are cut where the code has an interface, and each cut is stated:

- `ReplicatedLog` is what a group promises: one sequence that grows, of which every replica
  has committed a prefix. Run `terms` shows that `Raft` implements it on a small instance, theorem
  `RaftIsOneLog` for every instance.
- `RaftGroup` is Raft as `Start`, `GetState` and `applyCh` show it to a service: replicas that
  lead, entries that are lost with a leadership, old leaders that do not know it yet, and the decided
  sequence. Its decided part is `ReplicatedLog`; how logs and leaderships move is modelled from
  the same lines of `raft.go` as `Raft`. It delivers in order. `RaftApply` shows when the code does
  that, and the run `apply_goingback` when it does not.
- `AtomicService` is what a service promises its clerks: one copy, each call carried out at
  one moment between call and return, updates once. `KVRaft`, `ShardCtrler` and `ShardKV` each
  instantiate it with a refinement mapping.

Proofs are in modules of their own, which extend the specifications: `RaftLogSteps`, `RaftLogActions`,
`RaftProofs` and `RaftLogProofs` (with their invariants in `RaftInvariants`), `ComponentProofs` for
`RaftApply`, `LabRpc` and `MapReduce`, and `KVRaftProofs`, `ShardCtrlerProofs` and `ShardKVProofs`.
Section 11 says what they show. The cut at `ReplicatedLog` and the implementations of `AtomicService`
by `KVRaft` and `ShardCtrler` are proved; the other statements at cuts are model-checked.

`MC*` modules instantiate specifications for TLC. Where several instances ask the same question, or
lie on the same layer, one run has them all, and a variable that is chosen at the start says
which of them a behaviour belongs to.

## 3. `Raft`

### State

Per server: `state`, `currentTerm`, `votedFor`, `commitIndex`, `nextIndex`, `matchIndex` as
in `struct Raft`. The Go slice `logs` starts with a placeholder for the last entry of the
snapshot; here `logs` holds the entries above it and the placeholder is the pair
`lastIncludedIndex`, `lastIncludedTerm`. `persister` is what `SaveRaftState` and
`SaveStateAndSnapshot` wrote last. The local variables of goroutines that survive a release
of the lock are `asking` (RequestVote goroutines that have not sent yet), `votes` (the count of
the current election, as the set of voters) and `handed` (snapshots sent on `applyCh` for which
`CondInstallSnapshot` has not been called). `rpcs` is the set of messages in flight.

A snapshot's bytes are modelled by what they stand for: the sequence of entries whose effect
they contain. `FullLog(i)` is a server's snapshot followed by its log.

### Actions

One action is one critical section. `Election`, `RequestVote`, `RequestVoteHandle`,
`RequestVoteReply`, `Start`, `ReplicateToPeer`, `AppendEntriesHandler`, `AppendEntriesReply`,
`InstallSnapshot`, `InstallSnapshotReply`, `CondInstallSnapshot` and `Snapshot` are the
methods of those names up to, or after, the RPC they make. `Restart` is a crash at any
moment between two sections followed by `Make` and `readPersist`. `Lose` is the network.
Details that matter and are kept:

- `Election` has no guard on the role. The ticker reads the role, releases the lock, and
  starts the goroutine.
- A RequestVote carries the term of its election but the log of the moment it is sent.
- A vote's reply carries the voter's term from before the vote raised it.
- `replicateToPeer` may be running several times for one peer, so requests are repeated
  (`ReplyRepeated`: handling a request need not use it up) and replies come late and out of order.
- The reply to InstallSnapshot updates `matchIndex` and `nextIndex` with the values of now,
  whether or not the server still leads.
- A heartbeat commits only if the local term at the candidate index is the leader's term
  at its commit index.

A reply that its caller ignores has the effect of a lost one and is covered by `Lose`. After
a restart a reply to the old process may reach the new one. The code has no such step (the old
goroutine is gone); it makes the model only more permissive.

### Bounds

`MaxTerm` and `MaxIndex` bound elections and appended commands, `MaxRpcs` the messages in
flight, `MaxAsked` the RequestVotes of an election that are not lost at once,
`Campaigning`, `Crashing` and `SnapshotIndexes` say who campaigns, who crashes and
where services compact. `MCRaft` has the instances, among them who may campaign in which term, and
whether RequestVotes may be sent after their election (`late`; only in the run `crash`). All runs have three servers, the smallest number with a
majority that is not everyone. Deadlock is not checked: at its bounds the model stops.

### Runs

| Run | Bounds | Shows |
|---|---|---|
| `crash` | 2 terms, 1 entry, 2 messages, all crash | `ElectionSafety`, `VotesAreKept`: with votes and requests of earlier elections still around, one leader per term, no vote taken back by a crash; `LeaderCompleteness`: whoever leads holds what anyone committed; `CommittedIsKept`: no step removes or replaces a committed entry; `TypeOK` |
| `terms` | 1 entry, 1 message; 4 terms without crashes, 3 terms in which all crash | `OneLog`: Raft implements `ReplicatedLog`. Four terms are what the scenario of the paper's Figure 8 takes |
| `logs` | 2 entries, compaction at 1; 2 terms with 1 message and a follower that crashes, 1 term with 2 messages | `AckedIsStored`, `SnapshotAligned`, `LogMatching` including compacted prefixes |

In `terms` and `logs` the first term is one server's and the second another's. In the last term of
`terms` both campaign, and of its four terms the third is the first server's again. In `crash` the first is one server's, and in the second that server and
a rival campaign: with votes of the first still around, that is where two leaders could come from.

`OneLog` needs a history variable, `decided` in `RaftHistory`: a server forgets its `commitIndex`
in a crash, and what was decided is then in no `commitIndex`. The mapping takes `committed` to
every server's log up to its `commitIndex`. That an entry counted in an old term may be
overwritten by a later leader would show as a step that extends `decided` by a sequence it is not a
prefix of.

`AckedIsStored` is what commitment rests on. `matchIndex` itself may go back: an AppendEntries
success beyond the snapshot that is processed before a late InstallSnapshot reply is undone by the
assignment at line 436. After such a reply it can also name entries that the follower has been
handed and has not installed. Both stay below the leader's `commitIndex`, so no entry is committed
on the strength of either.

### Fairness

None: all properties of `Raft` are safety properties. The code promises progress only with
timing (random election timeouts against network delay), which the model does not have.

## 4. `RaftApply`

One peer and the applier at the other end of its unbuffered `applyCh`. Committed entries are the
same on every server (`OneLog`) and the log reaches `commitIndex`, so an entry is its
index and the log does not appear. The cluster is two inputs: `Commit` (an AppendEntries or an
acknowledgement moved `commitIndex`; the call to `applyCommittedEntries` is part of it) and
`InstallSnapshot` (up to the send on the channel). `batch` is what `applyCommittedEntries` has
collected and not yet sent, `installing` the InstallSnapshot handlers waiting to send, `service`
the message the applier is working on. `db` and `snapshot` are the sets of entries whose effect the
service's state and the persisted snapshot hold; re-applying an entry changes nothing because the
duplicate table filters it. `Restart` is a crash at any moment, then `Make`, `readPersist` and
`restoreSnapshot`.

`Handler` is the set of InstallSnapshot handlers that may run at a time: the leader repeats the request
on every broadcast. A snapshot may come late, when its index is already committed or applied here: in the
second instance of run `logs` a follower with `commitIndex` 2 is handed a snapshot of index 1.

| Run | Bounds | Shows |
|---|---|---|
| `foundation`, first instance | 4 entries, two handlers, steps that respect `NoGoingBack` | `ServiceIsPrefix`: nothing is skipped, in the service or in its snapshot; `AppliedInBounds`; `TypeOK` |
| `apply_goingback` | 3 entries, two handlers | `NoGoingBack` is violated |

*Going back.* `CondInstallSnapshot` refuses a snapshot only if it is not newer than the last
installed one. One that is older than what was applied replaces the service's state, and the
entries in between are not delivered again because `lastApplied` stays. Two entries are enough for
this; a third is room for one more that is delivered later.

This is the only way to lose an entry. `ServiceIsPrefix` says that the service's state and the
stored snapshot have no gap and hold, or are being given (`InHand`), everything that `lastApplied`
counts as applied. Going back breaks it; the run takes every other step, and so does the theorem, whose
statement is `Spec /\ NoGoingBack => []ServiceIsPrefix` (section 11). `AppliedInBounds` holds without
the condition. The fourth entry of `foundation` adds a second batch after a snapshot.

`ServiceIsPrefix` does not say that the service's state ends at or below `commitIndex`, because after a
restart it need not. A batch that a snapshot cut short is sent again (line 855); if the service compacts at
one of the entries it gets for the second time, the snapshot is labelled with that index and holds
later entries too, and after a crash `commitIndex` starts from the label. Those entries are committed
all the same, since only committed ones are sent (`batch.last <= commitIndex` in `AppliedInBounds`).

Two further behaviours of these lines are part of the model. `snapshotInFlight` is a flag: the first of
two InstallSnapshot handlers to finish clears it for both (line 700), and a batch may begin while
the second snapshot waits; no entry is lost by that alone. And what is committed while a
snapshot is in flight waits for a further commit, since nothing calls `applyCommittedEntries` when
the snapshot has been sent (line 809).

## 5. `LabRpc`

One server name and the ends connected to it. A call goes through `Send` (the one goroutine
that reads `endCh` takes it, or the network has been cleaned up), `Process` (one reading of the
network's state decides between no server, a dropped request and dispatch), `Wait` (the loop with the
100 ms poll), `Check` (the second look at the server, and the dropped reply) and `Return`. The
handler is a goroutine of its own (`Dispatch`). It belongs to the server that was up when it was
dispatched, may end after that server was deleted, and writes to that server's Persister. The
harness enables and disables ends, makes the network unreliable, and stops and starts the server
as `kvraft/config.go` does: `DeleteServer`, then a copy of the Persister, then a new server with
a further copy.

The second instance of run `foundation` has two calls, a restart and a further shutdown (four Persisters):

- `RepliedIsPersisted`: what a call that succeeded wrote is in the Persister that the next server
  starts from. Both the order of `ShutdownServer` and the comparison of *server objects*, not
  names, in the second `isServerDead` are needed.
- `CallsReturn`: a call is pending for ever only while its handler runs on the server that is up.
  Fairness is weak fairness of each call's goroutine; nothing is assumed of handlers, which may
  hang, or of the harness.

A second call through an end would share nothing but the `enabled` flag with the first, so one
call per end is enough; the second shutdown makes a handler that is two servers late.

## 6. `KVRaft`

Clerks, the handlers of Get and PutAppend, the applier, and what connects them: a notification
channel per index, created by whoever comes first and removed by whoever leaves first
(`notify`, with the creator's number, so that an old channel and a new one at an index are told apart;
`buffer` is what sits in channels), and the cached results. One key is enough, because the store
treats keys independently. Its value is the sequence of the requests that wrote it, so a
request that counts twice shows. A snapshot holds the store and the duplicate table. Channels, caches and
handlers die in a crash.

| Run | Bounds | Shows |
|---|---|---|
| `kvraft` | an Append and a Get, 2 replicas, 2 terms, 2 entries, snapshots at 1, 1 crash | `ReplicasAgree`: applied, restored or installed, a replica's state is the one the decided commands lead to; `Linearizable` |
| `kvraft_wait` | two Appends, 3 terms, no crash | `NoLostNotification` is violated |

Two clerks that call once each put up to two entries into the log by retrying; that is what fills
two indexes with the same request, and what a restart from a snapshot at index 1 must filter.
Reads are mapped to every position of the Get in the decided log up to its return, since a
retried Get may be decided more than once and returns the value of one of them.

*The lost notification.* A server leads, loses the leadership and its entry, and leads again with
another request at the same index. The handler of the first leadership, when it returns, removes the
channel (and the cached result) that the second waits on (`removeNotifyCh`, line 269). The second
then waits for as long as its leadership lasts. Three terms are the least for that.

Fairness: none. The code's progress rests on elections that settle.

## 7. `Rebalance`, `Assignment` and `ShardCtrler`

`Rebalance` has `applyJoin`, `applyLeave` and `applyMove` as operators on a configuration; `Assignment`
applies them in any order. The state is the last configuration: `shards` and the set `groups` of its gids. Its number and
the servers' addresses do not influence the assignment. The loops of `applyJoin` and
`applyLeave` set shards aside in ascending order and hand them out to gids in ascending
order. Here that is a matter of rank: a shard is set aside if fewer of its group's shards come before
it than the group has too many (`JoinDonors`), and goes to the group in whose turn its rank among
the donors falls (`Give`). `Join` and `Leave` take any set of gids, also ones that are there already or
are not; `Move` goes to a group of the configuration, as the tests use it, although the code does not check.

`ShardCtrler` is the service around them: clerks, handlers that wait up to 500 ms for their index,
the applier with its duplicate table, and restarts, which replay the whole log because there are
no snapshots. A channel is made when it is first asked for, buffers one result, and is never
removed, so it appears as what it buffers. `replayed` is a history variable: the states that
the decided commands lead to, which the refinement mapping reads.

| Run | Bounds | Shows |
|---|---|---|
| `coordinators`, first instance | a Join of two groups and a Query, 2 replicas, 2 terms, 2 log entries, 1 crash | `OneHistory`: retries after a timeout or under another leader add one configuration, and a Query returns a configuration of its own time |
| `coordinators`, second instance | 4 shards, 5 gids, any sequence of Joins, Leaves and Moves | `OwnersExist`, `NeverMoreUneven`, `LeaveIsMinimal` |
| `rebalance_uneven` | 4 shards, 3 gids | `Rebalances` is violated |

The configuration's number is not part of `Assignment`'s state, so it covers histories of every
length. Four shards (the code has ten) and up to five groups give every relation of the two:
targets with and without a remainder, and targets of zero. Two log entries are the least in
which a retry and another client's request meet at one index. The replicas are alike, and the first
to lead is always `s1`.

*Uneven after a Move.* `lab 4.md` asks that every Join and Leave "divide the shards as evenly as
possible" (lines 83 and 85) and says that they undo a Move, "since Join and Leave
re-balance" (line 87). The code gives shards to the groups that a Join names only (line 394), and takes
them from the groups that leave only (line 447). After a Move the run ends with a Leave that leaves one group
with three shards and the other with one. `NeverMoreUneven` is what does hold: from balance a Join or
Leave leads to balance, and otherwise it makes the spread no worse.

`LeaveIsMinimal` compares the number of shards that move with `FewestMoves`, the least over all
balanced assignments. A Join is not always minimal: `computeTargets` gives the larger shares to the
lowest gids (line 335), so a new group with a low gid takes one shard that an old group could have
kept, although line 83 also asks that a Join "move as few shards as possible".

## 8. `ShardKV`

Each group is one replicated state machine, and the module is about what happens *between*
groups. The three monitors (`configureAction`, `migrationAction`, `gcAction`) read the state of
their group and send requests or start commands; what they read may be old by the time it has
its effect. That is why `requests` and `started` only grow: a request may arrive, and a command be
decided, at any later time, any number of times, in any order. This covers slow RPCs, retries,
and leaders that change or lag. A lagging leader that answers `GetShardsData` from an earlier state
needs no step of its own: within one configuration number the shards to be handed over are frozen.
`Lose` removes a command that its leader could not get decided.

| Run | Bounds | Shows |
|---|---|---|
| `shardkv` | 2 groups, 1 shard that goes there and back, an Append and a Get | `OneServes`; `Linearizable`: the groups together implement `AtomicService`; with fairness, `Reconfigures`: every group reaches the newest configuration |
| `shardkv_lost` | the same configurations, no calls, 1 lost command | `Reconfigures` is violated |
| `shardkv_unassigned` | 1 shard that goes from one group to gid 0 and then to the other, no calls | `OneServes` is violated |

There and back is the shortest history in which a group gains a shard it has had before, so
that data, deletions and retries of the first move can meet the second. The mapping takes a
shard's content from the group that serves it, or else from the one that is handing it over.

*The lost delete.* `DeleteShardsData` answers OK whether or not its own `Execute` succeeded (lines
482-483). If the command was lost, the group that asked stops asking, the shards of the previous owner
stay `BePulling`, and that group takes no further configuration (line 325).

*A shard without a group.* When all groups leave, the controller gives the shards to gid 0; when another
group joins it gets them from there, and `applyConfiguration` lets it serve them at once (line 352).
A group that has not heard of the two configurations in between serves them as well, although
"at most one replica group is serving requests for each shard at any one time" (`lab 4.md`, line 15). Its
data is dropped when it does hear (lines 359-363). Run `shardkv` and the theorem have configurations
in which a shard that once had a group always has one.

Fairness is `WF_vars(GroupStep)`: the groups do not stop while one of them has something to do
that is not a repetition without effect. The monitors run for ever, so what they repeat gets
through in the end. Nothing is assumed of clerks or of the controller.

## 9. `MapReduce`

The coordinator is a set of goroutines around two kinds of unbuffered channels. The module counts
them per task: `sending` (blocked on `taskCh`), `tracing` (in `traceTask`), `reporting` (blocked
on the task's `traceCh` with a report; a tracer that has counted its task stays there too, which is
why `TraceFinished` leaves the count alone). `handler` is a worker's call inside `getTask`, under
the lock or in the `select`; it outlives a worker that dies. Workers rename the intermediate files
of a map task one by one and may die in between. `Done` is the end of the coordinator process,
after which every call fails and workers end with `log.Fatal` (`CallFails`). A file is the fact
that it exists: map and reduce functions are deterministic, and a rename is atomic.

| Run | Bounds | Shows |
|---|---|---|
| `coordinators`, third instance | 2 map and 2 reduce tasks, 3 workers of which 2 may die, 1 premature timeout | `CountedOnce`, `InputsReady`, `DoneMeansOutputs`, `JobTypeOK`; with fairness, `JobEnds` |

`MaxTimeouts` bounds the timeouts of tasks that someone still works on or has reported;
a lost task may always time out. One premature timeout with three workers gives a task that is done
twice and reported twice while a third worker asks for the next phase. The system may stop
(everyone gone), so deadlock is not checked.

Fairness: goroutines and workers that can go on do, timers fire (`WF` of `TraceTimeout`), and a
call that comes back to the `select` again and again while tasks are queued is handed one (`SF` of
`HandOut`; Go chooses at random among ready cases). Nothing is assumed of crashes, except that one
worker does not.

## 10. `Porcupine`

The checker that the services' tests rely on. `checkSingle` is one goroutine per partition, one
action per iteration of its loop: lift an operation and its return out of the list, or backtrack.
Bitsets and the cache are sets. `checkParallel` collects results (`ReceiveResult`), may time out
(`Timeout`, which sets `kill`), and after a failure or a timeout waits for the rest if it is to
report partial linearizations (`Drain`). Histories come in as operations or as events; the latter are
renumbered (`renumber`).

The third instance of run `foundation` has all histories of three operations, puts and appends of one value and gets, on one key or
two (on two, a get returns the value once at most: a key then has at most one write to read), with every
interleaving of calls and returns, both input forms, verbose or not, and a timeout at any moment:

- `VerdictIsRight`: the verdict against the definition of linearizability, by all permutations;
- `LongestIsLongest`: what `longest` reports for an operation, against all partial linearizations;
- `Terminates`, under weak fairness of the goroutines and without a timeout.

Three operations are the least in which the search goes wrong, comes back and succeeds. Times
are distinct, as the code assumes: `sort.Sort` is not stable, so the order of a call and a return at
the same instant is open. An empty history without a timeout is left out; `checkParallel` then has
nothing to receive.

## 11. Proofs

TLAPS checks what follows for every value of the constants: any finite set of servers, any
commands, calls and configurations, any bounds. The assumptions are those of the specifications
(`ServerAssumption`, `BoundAssumption`, `ApplyAssumption`, ...: finite sets, bounds that are
numbers, `Nothing` and `Nil` that are not a request or a server), which TLC evaluates in the runs. Two
further conditions are hypotheses of theorems and named there: `NoGoingBack` and `NeverUnassigned`. The
code ensures neither, as runs `apply_goingback` and `shardkv_unassigned` show.

| Theorem | Statement | Module |
|---|---|---|
| `TypeCorrectness` | `Spec => []TypeOK` of `Raft` | `RaftProofs` |
| `ElectionIsSafe` | `Spec => []ElectionSafety` | `RaftProofs` |
| `VotesKept` | `Spec => VotesAreKept` | `RaftProofs` |
| `LogsMatch` | `Spec => []LogMatching` | `RaftLogProofs` |
| `LeadersAreComplete` | `Spec => []LeaderCompleteness` | `RaftLogProofs` |
| `SnapshotsAreAligned` | `Spec => []SnapshotAligned` | `RaftLogProofs` |
| `AcksAreStored` | `Spec => []AckedIsStored` | `RaftLogProofs` |
| `CommitsAreKept` | `Spec => CommittedIsKept` | `RaftLogProofs` |
| `RaftIsOneLog` | `HistorySpec => OneLog`: Raft implements `ReplicatedLog` | `RaftLogProofs` |
| `AppliedStaysInBounds`, `ApplyTypes` | `Spec => []AppliedInBounds`, `[]TypeOK` of `RaftApply` | `ComponentProofs` |
| `ServiceStaysPrefix` | `Spec /\ NoGoingBack => []ServiceIsPrefix` | `ComponentProofs` |
| `RepliesArePersisted` | `NetworkSpec => []RepliedIsPersisted` | `ComponentProofs` |
| `JobTypes`, `TasksAreCountedOnce`, `ReducersFindInputs`, `DoneHasOutputs` | `JobSpec => []` each of `JobTypeOK`, `CountedOnce`, `InputsReady`, `DoneMeansOutputs` | `ComponentProofs` |
| `ReplicasStayEqual` | `Spec => []ReplicasAgree` of `KVRaft` | `KVRaftProofs` |
| `ServiceIsLinearizable` | `Spec => Linearizable`: `KVRaft` implements `AtomicService` | `KVRaftProofs` |
| `ControllerIsOneHistory` | `Spec => OneHistory`: `ShardCtrler` implements `AtomicService` | `ShardCtrlerProofs` |
| `OneGroupServes`, `OneGroupServesLossy` | `NeverUnassigned => (... => []OneServes)`, without and with lost commands | `ShardKVProofs` |

### Storage and elections

`TypeOK` is not inductive: `Restart` reads the persister, and `Snapshot` cuts the sequence of entries
that the server accounts for. `StorageInv` adds that stable storage equals memory between
critical sections (`DurableState`) and that a snapshot, stored, in flight or handed to the service,
has as many entries as its index says (`SnapshotLength`). Most actions follow one pattern,
`SavedStep`: the section changes the persistent fields of at most one server, and calls `persist` if
it did.

A *ballot* is a vote that has left its voter: a granted reply in flight, or a vote counted by a
candidacy or leadership that is still on. `ElectionInv` adds to `StorageInv` that a voter remembers
its ballots of its current term (`BallotVoted`), that it cast at most one per term
(`BallotUnique`), and that a leader has the ballots of a majority (`LeaderQuorum`). Each action is
shown to cast only ballots it may (`Fresh`), to keep terms and votes (`VoteStep`), and to make a
leader only with a majority (`QuorumStep`). `DurableState` is what makes `Restart` keep votes.

### The replicated log

Whether an entry is committed does not show in a state of the model: messages that acknowledged it
are gone, servers have restarted, and logs have moved on to later terms. The invariant
`LogSafetyInv` says that a *history* exists that `Explains` the state. A history records who led each term,
the log that leader ended up with, and up to where each server ever held that log during that
term. It is a bound variable, not a variable of the specification, so nothing is added to the
model; each step is shown to lead to a state that a continuation of the history explains
(`Continues`: leaders stay, their logs grow, a server holds more only of its present term).

From a history one reads what the code cannot say. Entry `n` of the leader of term `c` is
`Chosen` if a majority held it, and `Blocked` if a majority has left term `c` without it. The
heart of the invariant is `Safe`: a log has the entry or the entry is blocked. It holds of every
later leader's log (`SuccessionInv`), of the log of every server that ever held the entry (`LogOf`), of a candidate
for what its voters held (`BallotOf`), and of a candidate for what its request claims
(`RequestOf`). The last is where the code is delicate: a RequestVote carries the term of its election
and the log of the moment it is sent, which need not be the log the candidate had when it
became one. `MessageOf` says what each message in flight may claim; `MatchOf` what
`matchIndex` is worth: it is at most `commitIndex`, or the follower held that much. This is as much as the
reply to InstallSnapshot, which assigns `matchIndex` without comparing, leaves true.

`RaftLogSteps` has the facts about histories and the steps of elections, `RaftLogActions` the steps
that replicate, commit and compact, `RaftLogProofs` the conclusions. No entry is both chosen and
blocked, since two majorities meet; so two chosen entries lie on one log, a leader has all that was chosen
before, and truncation never reaches a committed entry. `RaftIsOneLog` uses the same invariant
for a step of the code and the step of `decided` that goes with it: the longest commit of all
servers after the step extends what was decided.

### Delivery, replies, jobs

`ApplyInv` is `AppliedInBounds` with the types, and that a command being applied has an
index above zero. `DeliveryInv`, for the prefix property, relates what has been sent to what will have taken
effect once the applier is done with the message in hand (`effective`): nothing is marked as applied, or
passed by the batch, before that. A step that hands a message over moves `effective` with it; a batch that
starts again does so right after `lastApplied`, or after the snapshot, and leaves no gap. The one
step that can lower `effective` below what was counted is a switch to an older snapshot, which
`NoGoingBack` excludes.

`ReplyInv` adds to `RepliedIsPersisted` that a handler that has ended wrote to the Persister of the
server it was dispatched to; that this is still the current one is what the second look at the
server makes sure of. `JobInv` locates the one place where
each task of the phase is until it is counted, and says that a counted task's files are there.

### Services

`KVInv` says that a replica's state is the one that the first `lastApplied` decided commands lead to
(`Replayed`), snapshots too; that what a channel or a cached result holds is the outcome of the
command at its index; and that the duplicate table after the whole decided log says exactly which
updates are in it (`TableIsExact`). So an update takes effect where it stands first, and the step of
`AtomicService` is the step of Raft that decides it. A handler's result is then the outcome of a
position the refinement mapping knows. `CtrlInv` is the same for the controller, with timeouts instead of
snapshots; what Join, Leave and Move compute plays no part in it. Both rest on `RaftGroup`, which
delivers in order: for snapshots that is the guard of `KVRaft`'s `InstallSnapshot`, which `CondInstallSnapshot`
does not ensure (section 4).

`MigrationInv` is about a history of ownership that no group knows: a group that has a shard in configuration
`j` shows that each earlier owner of it is past the configuration in which it was the owner
(`HandedOver`). A group learns it from the group that handed out the data, which had reached `j`
itself; requests and commands carry it while they are under way (`AskedAtOwner`,
`InsertsReleased`, `ReadyToMove`). `NeverUnassigned` says that a shard that once had a group has one in every
later configuration. Without it a shard comes from gid 0 and nobody is asked for
it, while an owner from before may be behind and still serve it.

### Reading the proofs

There is a lemma per action and invariant. Leaves name the prover that closes them, since the default
time of the SMT backend is short in modules with many lemmas: `Zenon`, or `SMTT(30)`. For the
same reason the prefix order is written out (`BeginsWith` in `RaftGroup`, `SubSeq` in `ReplicatedLog`) instead of
taken from `SequencesExt`, and `Raft`'s proofs have the facts they need about sequences as
lemmas.

### What is only model-checked, and why

- Liveness (`JobEnds`, `CallsReturn`, `Reconfigures`, `Terminates`): fairness and ENABLED are not
  supported by the provers.
- `OwnersExist`, `NeverMoreUneven` and `LeaveIsMinimal`: they compare cardinalities of sets built by
  rank, and sums of them over the gids, which needs induction over data.
- `Porcupine`: the search and its reference definition are recursive, and what they compute needs
  induction over data.
- `ShardKV` implements `AtomicService` (`Linearizable`): the duplicate table moves between groups with
  the shards. The proof would need an invariant on the tables of all groups and of all data in flight;
  `OneServes`, which it would rest on, is proved.
- The properties that the violation runs refute, of course: `NoGoingBack`, `NoLostNotification`,
  `Rebalances`, `Reconfigures` with a lost command, and `OneServes` with a shard that loses its group.

## 12. Size of the runs

Distinct states, and time with two workers: `crash` 676,217 (1.5 min), `terms` 566,011 (1.5 min),
`logs` 971,984 (2.5 min), `foundation` 1,097,416 (2.5 min), `coordinators` 310,452 (2.5 min), `kvraft` 674,524
(2 min), `shardkv` 187,315 (2.5 min, most of it liveness). The violation runs end within a minute.

Where deadlock is not checked, the system may stop: the bounds are reached, the clerks' scripts are at
their end, or the job is done.

## 13. Not modelled

- The replicas inside a `ShardKV` group: notification channels, snapshots and the empty entry a new
  leader starts. `KVRaft` has the first two for its own service; a group there is a state machine.
- The liveness of Raft: elections, and the meeting of `nextIndex` with snapshots on both sides.
  It depends on timing.
- `labrpc`: counters, encoding of arguments, unknown services (the process ends). `labgob` wraps
  `encoding/gob`; encoding is taken to be lossless.
- `porcupine/visualization.go`: writes a result into a page, no state. `bitset.go` and the hash map
  of the cache are sets in the model.
- `mrapps`, `main`: pure functions on files and program entry points.
- `condvar`: lecture examples of one pattern, used by no other part.
- Test harnesses, except for the stopping and starting of servers in `LabRpc`.
- Time: timers fire at any moment.
