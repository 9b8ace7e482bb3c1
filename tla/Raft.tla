-------------------------------- MODULE Raft --------------------------------
(***************************************************************************)
(* The Raft peer of src/code/src/raft: leader election, log replication,   *)
(* commitment, persistence across crashes, and log compaction.             *)
(*                                                                         *)
(* One action is one critical section of rf.mu.  A goroutine that releases *)
(* the lock around an RPC is two actions: one that sends (reading the      *)
(* state it needs) and one that handles the reply.  The messages in flight *)
(* are a set: they are delivered in any order, at any time, or lost.       *)
(*                                                                         *)
(* The apply pipeline (lastApplied, applying, snapshotInFlight and applyCh)*)
(* is the module RaftApply: nothing here reads it.                         *)
(***************************************************************************)
EXTENDS Integers, FiniteSets, Sequences

CONSTANTS Server,          \* the peers
          Command,         \* the commands clients submit
          Nil,             \* votedFor = -1
          MaxTerm,         \* bound on terms: no election is started above it
          MaxIndex,        \* bound on log indexes: no command is appended above it
          MaxRpcs,         \* bound on the messages in flight
          MaxAsked,        \* bound on the peers an election's RequestVotes reach
          SnapshotIndexes, \* indexes at which a service takes a snapshot
          Campaigning,     \* the peers whose election timer may fire
          Crashing         \* the peers that may crash and restart

ASSUME ServerAssumption == IsFiniteSet(Server) /\ Nil \notin Server
ASSUME BoundAssumption == /\ MaxTerm \in Nat /\ MaxIndex \in Nat /\ MaxRpcs \in Nat
                          /\ MaxAsked \in Nat
                          /\ SnapshotIndexes \subseteq Nat
                          /\ Campaigning \subseteq Server /\ Crashing \subseteq Server

VARIABLES state, currentTerm, votedFor,
          logs,               \* the entries above the snapshot; the code's logs[0]
                              \* placeholder is the pair of variables that follows
          lastIncludedIndex, lastIncludedTerm,
          commitIndex, nextIndex, matchIndex,
          asking,             \* RequestVote goroutines that have not sent yet
          votes,              \* voters counted by the current election
          handed,             \* snapshots handed to the service on applyCh
          persister,          \* stable storage: raft state and snapshot
          rpcs                \* RPC messages in flight

serverVars == <<state, currentTerm, votedFor>>
logVars == <<logs, lastIncludedIndex, lastIncludedTerm>>
leaderVars == <<nextIndex, matchIndex>>
vars == <<serverVars, logVars, commitIndex, leaderVars, asking, votes, handed, persister, rpcs>>

Follower == "Follower"
Candidate == "Candidate"
Leader == "Leader"
-----------------------------------------------------------------------------
(* Log arithmetic: global indexes over a log whose prefix is a snapshot.   *)

lastIndex(i) == lastIncludedIndex[i] + Len(logs[i])

\* -1 for an index the log does not hold.
termAt(i, index) ==
    IF index = lastIncludedIndex[i] THEN lastIncludedTerm[i]
    ELSE IF index - lastIncludedIndex[i] \in 1..Len(logs[i])
         THEN logs[i][index - lastIncludedIndex[i]].Term
         ELSE -1

\* The entries of i above index.
EntriesAfter(i, index) ==
    SubSeq(logs[i], index - lastIncludedIndex[i] + 1, Len(logs[i]))

\* More than half of the peers.
Majority(S) == Cardinality(S) > Cardinality(Server) \div 2

Larger(a, b) == IF a > b THEN a ELSE b
Smaller(a, b) == IF a < b THEN a ELSE b
-----------------------------------------------------------------------------
(* Stable storage. *)

\* Variant: the vote is not part of the saved state.
persistWithoutVote(i) ==
    persister' = [persister EXCEPT ![i] =
        [@ EXCEPT !.currentTerm = currentTerm'[i], !.lastIncludedIndex = lastIncludedIndex'[i],
                  !.lastIncludedTerm = lastIncludedTerm'[i], !.logs = logs'[i]]]

\* persist(): the raft state is written, the snapshot stays.
persist(i) ==
    persister' = [persister EXCEPT ![i] =
        [currentTerm |-> currentTerm'[i], votedFor |-> votedFor'[i],
         lastIncludedIndex |-> lastIncludedIndex'[i],
         lastIncludedTerm |-> lastIncludedTerm'[i],
         logs |-> logs'[i], snapshot |-> @.snapshot]]

\* SaveStateAndSnapshot(): both are written atomically.
persistWithSnapshot(i, snapshot) ==
    persister' = [persister EXCEPT ![i] =
        [currentTerm |-> currentTerm'[i], votedFor |-> votedFor'[i],
         lastIncludedIndex |-> lastIncludedIndex'[i],
         lastIncludedTerm |-> lastIncludedTerm'[i],
         logs |-> logs'[i], snapshot |-> snapshot]]

\* Call(): a request enters the network.
Send(m) == Cardinality(rpcs) < MaxRpcs /\ rpcs' = rpcs \union {m}

\* The handler of request m returns: its reply enters the network.
Reply(m, reply) == rpcs' = (rpcs \ {m}) \union {reply}

\* As Reply, for the requests that every heartbeat repeats while nothing changes:
\* an identical one may still be in flight.
ReplyRepeated(m, reply) ==
    \/ Reply(m, reply)
    \/ Cardinality(rpcs) < MaxRpcs /\ rpcs' = rpcs \union {reply}

\* Call() returns to the caller of the RPC that m answers.
Receive(m) == rpcs' = rpcs \ {m}

\* The network loses a request or a reply: Call() returns false, and the caller gives
\* up (RequestVote) or sleeps and sends again (replicateToPeer).  A reply that its
\* caller ignores (a refused vote, an answer to an earlier term) has the same effect.
Lose(m) ==
    /\ Receive(m)
    /\ UNCHANGED <<serverVars, logVars, commitIndex, leaderVars, asking, votes, handed, persister>>

\* A reply with a higher term: back to Follower, no vote in the new term.
StepDown(i, term) ==
    /\ currentTerm' = [currentTerm EXCEPT ![i] = term]
    /\ state' = [state EXCEPT ![i] = Follower]
    /\ votedFor' = [votedFor EXCEPT ![i] = Nil]
    /\ UNCHANGED <<logVars, commitIndex, leaderVars, asking, votes, handed>>
    /\ persist(i)
-----------------------------------------------------------------------------
Init ==
    /\ state = [i \in Server |-> Follower]
    /\ currentTerm = [i \in Server |-> 0]
    /\ votedFor = [i \in Server |-> Nil]
    /\ logs = [i \in Server |-> <<>>]
    /\ lastIncludedIndex = [i \in Server |-> 0]
    /\ lastIncludedTerm = [i \in Server |-> 0]
    /\ commitIndex = [i \in Server |-> 0]
    /\ nextIndex = [i \in Server |-> [j \in Server |-> 0]]
    /\ matchIndex = [i \in Server |-> [j \in Server |-> 0]]
    /\ asking = [i \in Server |-> {}]
    /\ votes = [i \in Server |-> {}]
    /\ handed = [i \in Server |-> {}]
    /\ persister = [i \in Server |->
           [currentTerm |-> 0, votedFor |-> Nil, lastIncludedIndex |-> 0,
            lastIncludedTerm |-> 0, logs |-> <<>>, snapshot |-> <<>>]]
    /\ rpcs = {}

-----------------------------------------------------------------------------
(* Election. *)

\* The ticker reads the state, releases the lock and then starts the goroutine:
\* Election itself has no guard, and may run in any state.  Of its goroutines only
\* those are kept whose request will be sent: a lost request has no other effect.
Election(i, asked) ==
    /\ currentTerm[i] < MaxTerm
    /\ Cardinality(asked) <= MaxAsked
    /\ state' = [state EXCEPT ![i] = Candidate]
    /\ currentTerm' = [currentTerm EXCEPT ![i] = @ + 1]
    /\ votedFor' = [votedFor EXCEPT ![i] = i]
    /\ votes' = [votes EXCEPT ![i] = {i}]
    /\ asking' = [asking EXCEPT ![i] = @ \union (asked \X {currentTerm[i] + 1})]
    /\ UNCHANGED <<logVars, commitIndex, leaderVars, handed, rpcs>>
    /\ persist(i)

\* The log is read when the request is sent, the term when the election started.
RequestVote(i, j, term) ==
    /\ <<j, term>> \in asking[i]
    /\ asking' = [asking EXCEPT ![i] = @ \ {<<j, term>>}]
    /\ Send([type |-> "RequestVote", from |-> i, to |-> j, Term |-> term,
             LastLogIndex |-> lastIndex(i), LastLogTerm |-> termAt(i, lastIndex(i))])
    /\ UNCHANGED <<serverVars, logVars, commitIndex, leaderVars, votes, handed, persister>>

\* Variant: any candidate's log will do.
UpToDateAlways(i, m) == TRUE

\* The candidate's log is at least as up to date as i's.
UpToDate(i, m) ==
    \/ m.LastLogTerm > termAt(i, lastIndex(i))
    \/ m.LastLogTerm = termAt(i, lastIndex(i)) /\ m.LastLogIndex >= lastIndex(i)

RequestVoteHandle(m) ==
    LET i == m.to
        higher == m.Term > currentTerm[i]
        grant == /\ m.Term >= currentTerm[i]
                 /\ higher \/ votedFor[i] \in {Nil, m.from}
                 /\ UpToDate(i, m)
    IN  /\ m.type = "RequestVote"
        /\ currentTerm' = [currentTerm EXCEPT ![i] = Larger(m.Term, @)]
        /\ state' = [state EXCEPT ![i] = IF higher THEN Follower ELSE @]
        /\ votedFor' = [votedFor EXCEPT ![i] =
                            IF grant THEN m.from ELSE IF higher THEN Nil ELSE @]
        /\ Reply(m, [type |-> "RequestVoteReply", from |-> i, to |-> m.from,
                     term |-> m.Term, Term |-> currentTerm[i], VoteGranted |-> grant])
        /\ UNCHANGED <<logVars, commitIndex, leaderVars, asking, votes, handed>>
        /\ IF higher \/ grant THEN persist(i) ELSE UNCHANGED persister

BecomeLeader(i) ==
    /\ state' = [state EXCEPT ![i] = Leader]
    /\ nextIndex' = [nextIndex EXCEPT ![i] = [j \in Server |-> lastIndex(i) + 1]]
    /\ matchIndex' = [matchIndex EXCEPT ![i] =
           [j \in Server |-> IF j = i THEN lastIndex(i) ELSE lastIncludedIndex[i]]]

\* Variant: the term of the election that the vote answers is not compared.
CountsAnyTerm(i, m) == m.VoteGranted /\ state[i] = Candidate

\* The vote is for the candidacy that i is in.
Counts(i, m) == m.VoteGranted /\ state[i] = Candidate /\ m.term = currentTerm[i]

\* The tail of RequestVote and the vote count of Election's goroutine.  The lock
\* is released between the two, but the count checks state and term again, and a
\* candidate that left its term's candidacy never comes back to it.
RequestVoteReply(m) ==
    LET i == m.to
        counted == votes[i] \union {m.from}
    IN  /\ m.type = "RequestVoteReply"
        /\ Receive(m)
        /\ \/ /\ m.Term > currentTerm[i]
              /\ StepDown(i, m.Term)
           \/ /\ m.Term <= currentTerm[i]
              /\ Counts(i, m)
              /\ votes' = [votes EXCEPT ![i] = counted]
              /\ IF Majority(counted) THEN BecomeLeader(i)
                                      ELSE UNCHANGED <<state, leaderVars>>
              /\ UNCHANGED <<currentTerm, votedFor, logVars, commitIndex, asking,
                             handed, persister>>
-----------------------------------------------------------------------------
(* Replication. *)

Start(i, c) ==
    /\ state[i] = Leader
    /\ lastIndex(i) < MaxIndex
    /\ logs' = [logs EXCEPT ![i] = Append(@, [Command |-> c, Term |-> currentTerm[i]])]
    /\ UNCHANGED <<serverVars, lastIncludedIndex, lastIncludedTerm, commitIndex,
                   leaderVars, asking, votes, handed, rpcs>>
    /\ persist(i)

\* One turn of replicateToPeer's loop up to the RPC.  Every heartbeat, Start and
\* election win spawns such a goroutine, so a leader may always be about to send.
ReplicateToPeer(i, j) ==
    /\ i # j
    /\ state[i] = Leader
    /\ IF nextIndex[i][j] <= lastIncludedIndex[i]
       THEN Send([type |-> "InstallSnapshot", from |-> i, to |-> j,
                  Term |-> currentTerm[i],
                  LastIncludedIndex |-> lastIncludedIndex[i],
                  LastIncludedTerm |-> lastIncludedTerm[i],
                  Data |-> persister[i].snapshot])
       ELSE Send([type |-> "AppendEntries", from |-> i, to |-> j,
                  Term |-> currentTerm[i],
                  PrevLogIndex |-> nextIndex[i][j] - 1,
                  PrevLogTerm |-> termAt(i, nextIndex[i][j] - 1),
                  Entries |-> EntriesAfter(i, nextIndex[i][j] - 1),
                  LeaderCommitIndex |-> commitIndex[i],
                  LeaderCommitTerm |-> termAt(i, commitIndex[i])])
    /\ UNCHANGED <<serverVars, logVars, commitIndex, leaderVars, asking, votes,
                   handed, persister>>

\* Variant: the term of the previous entry is not compared.
PrevPresent(i, m) == m.PrevLogIndex \in lastIncludedIndex[i]..lastIndex(i)

\* The consistency check: i holds the entry that precedes the new ones.
PrevMatches(i, m) ==
    /\ m.PrevLogIndex \in lastIncludedIndex[i]..lastIndex(i)
    /\ m.PrevLogTerm = termAt(i, m.PrevLogIndex)

\* Variant: the local log is cut after PrevLogIndex whatever it holds.
OverwriteEntries(i, m) ==
    SubSeq(logs[i], 1, m.PrevLogIndex - lastIncludedIndex[i]) \o m.Entries

\* The log after the loop over the entries: from the first entry that is missing
\* or has another term on, the leader's entries replace what was there.
MergeEntries(i, m) ==
    LET fresh == {k \in 1..Len(m.Entries) :
                    termAt(i, m.PrevLogIndex + k) # m.Entries[k].Term}
        first == CHOOSE k \in fresh : \A l \in fresh : k <= l
    IN  IF fresh = {} THEN logs[i]
        ELSE SubSeq(logs[i], 1, m.PrevLogIndex + first - 1 - lastIncludedIndex[i])
               \o SubSeq(m.Entries, first, Len(m.Entries))

\* A heartbeat commits only where the local term is the leader's commit term.
CommitAfter(i, m) ==
    LET candidate == Smaller(m.LeaderCommitIndex, m.PrevLogIndex + Len(m.Entries))
    IN  IF /\ candidate > commitIndex[i]
           /\ m.Entries = <<>> => termAt(i, candidate) = m.LeaderCommitTerm
        THEN candidate ELSE commitIndex[i]

AppendEntriesReplyTo(m, success) ==
    ReplyRepeated(m, [type |-> "AppendEntriesReply", from |-> m.to, to |-> m.from,
                      term |-> m.Term, Matched |-> m.PrevLogIndex + Len(m.Entries),
                      Term |-> currentTerm[m.to], Success |-> success])

AppendEntriesHandler(m) ==
    LET i == m.to
        matches == m.Term >= currentTerm[i] /\ PrevMatches(i, m)
    IN  /\ m.type = "AppendEntries"
        /\ currentTerm' = [currentTerm EXCEPT ![i] = Larger(m.Term, @)]
        /\ votedFor' = [votedFor EXCEPT ![i] = IF m.Term > currentTerm[i] THEN Nil ELSE @]
        /\ state' = [state EXCEPT ![i] = IF m.Term >= currentTerm[i] THEN Follower ELSE @]
        /\ logs' = [logs EXCEPT ![i] = IF matches THEN MergeEntries(i, m) ELSE @]
        /\ commitIndex' = [commitIndex EXCEPT ![i] = IF matches THEN CommitAfter(i, m) ELSE @]
        /\ AppendEntriesReplyTo(m, matches)
        /\ UNCHANGED <<lastIncludedIndex, lastIncludedTerm, leaderVars, asking, votes, handed>>
        /\ IF m.Term > currentTerm[i] \/ logs' # logs THEN persist(i) ELSE UNCHANGED persister

\* Variant: entries of earlier terms are committed by counting replicas.
CommittableAnyTerm(i, acks) ==
    {n \in (commitIndex[i] + 1)..lastIndex(i) :
        Majority({i} \union {j \in Server : acks[j] >= n})}

\* advanceCommitIndexLocked(), with the matchIndex row acks that it reads.
Committable(i, acks) ==
    {n \in (commitIndex[i] + 1)..lastIndex(i) :
        /\ termAt(i, n) = currentTerm[i]
        /\ Majority({i} \union {j \in Server : acks[j] >= n})}

AdvanceCommitIndex(i, acks) ==
    LET ready == Committable(i, acks)
    IN  IF ready = {} THEN commitIndex[i]
        ELSE CHOOSE n \in ready : \A k \in ready : n >= k

\* Variant: no lower bound.
BackoffUnbounded(i, next) == next - 1

\* After a refused AppendEntries: one step back, down to the snapshot.
Backoff(i, next) == IF next > lastIncludedIndex[i] THEN next - 1 ELSE next

\* A reply to an AppendEntries of this leadership; replies to an earlier one are dropped.
AppendEntriesReply(m) ==
    LET i == m.to
        j == m.from
        acks == [matchIndex[i] EXCEPT ![j] = Larger(@, m.Matched)]
    IN  /\ m.type = "AppendEntriesReply"
        /\ Receive(m)
        /\ \/ /\ m.Term > currentTerm[i]
              /\ StepDown(i, m.Term)
           \/ /\ m.Term <= currentTerm[i]
              /\ state[i] = Leader /\ m.term = currentTerm[i]
              /\ IF m.Success
                 THEN /\ matchIndex' = [matchIndex EXCEPT ![i] = acks]
                      /\ nextIndex' = [nextIndex EXCEPT ![i][j] = Larger(@, m.Matched + 1)]
                      /\ commitIndex' = [commitIndex EXCEPT ![i] = AdvanceCommitIndex(i, acks)]
                 ELSE /\ nextIndex' = [nextIndex EXCEPT ![i][j] = Backoff(i, @)]
                      /\ UNCHANGED <<matchIndex, commitIndex>>
              /\ UNCHANGED <<serverVars, logVars, asking, votes, handed, persister>>
-----------------------------------------------------------------------------
(* Log compaction. *)

\* The handler answers once the service has taken the snapshot from applyCh; the
\* reply may be delivered at any time after the hand-over here.
InstallSnapshot(m) ==
    LET i == m.to
        higher == m.Term > currentTerm[i]
    IN  /\ m.type = "InstallSnapshot"
        /\ currentTerm' = [currentTerm EXCEPT ![i] = Larger(m.Term, @)]
        /\ votedFor' = [votedFor EXCEPT ![i] = IF higher THEN Nil ELSE @]
        /\ state' = [state EXCEPT ![i] = IF higher THEN Follower ELSE @]
        /\ handed' = [handed EXCEPT ![i] =
               IF m.Term >= currentTerm[i] /\ m.LastIncludedIndex > lastIncludedIndex[i]
               THEN @ \union {[SnapshotIndex |-> m.LastIncludedIndex,
                               SnapshotTerm |-> m.LastIncludedTerm, Snapshot |-> m.Data]}
               ELSE @]
        /\ ReplyRepeated(m, [type |-> "InstallSnapshotReply", from |-> i, to |-> m.from,
                             Term |-> currentTerm[i]])
        /\ UNCHANGED <<logVars, commitIndex, leaderVars, asking, votes>>
        /\ IF higher THEN persist(i) ELSE UNCHANGED persister

\* Variant: the follower is taken to hold the leader's whole log.
AckedBySnapshotAll(i) == lastIndex(i)

\* What the reply to an InstallSnapshot is taken to acknowledge.
AckedBySnapshot(i) == lastIncludedIndex[i]

\* No check that the server still leads, or that the snapshot sent is still the one
\* lastIncludedIndex names.
InstallSnapshotReply(m) ==
    LET i == m.to
    IN  /\ m.type = "InstallSnapshotReply"
        /\ Receive(m)
        /\ \/ /\ m.Term > currentTerm[i]
              /\ StepDown(i, m.Term)
           \/ /\ m.Term <= currentTerm[i]
              /\ matchIndex' = [matchIndex EXCEPT ![i][m.from] = AckedBySnapshot(i)]
              /\ nextIndex' = [nextIndex EXCEPT ![i][m.from] = AckedBySnapshot(i) + 1]
              /\ UNCHANGED <<serverVars, logVars, commitIndex, asking, votes, handed,
                             persister>>

\* The snapshot (index, term, data) replaces the prefix of i's log it covers.
Compact(i, index, term, kept, snapshot) ==
    /\ logs' = [logs EXCEPT ![i] = kept]
    /\ lastIncludedIndex' = [lastIncludedIndex EXCEPT ![i] = index]
    /\ lastIncludedTerm' = [lastIncludedTerm EXCEPT ![i] = term]
    /\ commitIndex' = [commitIndex EXCEPT ![i] = Larger(index, @)]
    /\ UNCHANGED serverVars
    /\ persistWithSnapshot(i, snapshot)

\* Variant: nothing above the snapshot is kept.
KeptNothing(i, index, term) == <<>>

\* The entries above a received snapshot that stay: all, if the local entry at its index
\* is the one it ends with.
KeptAfter(i, index, term) ==
    IF termAt(i, index) = term THEN EntriesAfter(i, index) ELSE <<>>

\* The service takes a snapshot off applyCh and asks to switch to it.
CondInstallSnapshot(i, s) ==
    /\ s \in handed[i]
    /\ handed' = [handed EXCEPT ![i] = @ \ {s}]
    /\ IF s.SnapshotIndex <= lastIncludedIndex[i]
       THEN UNCHANGED <<serverVars, logVars, commitIndex, persister>>
       ELSE Compact(i, s.SnapshotIndex, s.SnapshotTerm,
                    KeptAfter(i, s.SnapshotIndex, s.SnapshotTerm), s.Snapshot)
    /\ UNCHANGED <<leaderVars, asking, votes, rpcs>>

\* Every entry that i's log and snapshot account for.
FullLog(i) == persister[i].snapshot \o logs[i]

\* The service has applied the log up to index; its state is that prefix.
Snapshot(i, index) ==
    /\ index > lastIncludedIndex[i] /\ index <= commitIndex[i]
    /\ index <= lastIndex(i)
    /\ Compact(i, index, termAt(i, index), EntriesAfter(i, index), SubSeq(FullLog(i), 1, index))
    /\ UNCHANGED <<leaderVars, asking, votes, handed, rpcs>>
-----------------------------------------------------------------------------
\* The process dies and Make() runs again: only the persister survives.  A reply to the
\* old process that is still in flight is one more late reply to the new one.
Restart(i) ==
    /\ state' = [state EXCEPT ![i] = Follower]
    /\ currentTerm' = [currentTerm EXCEPT ![i] = persister[i].currentTerm]
    /\ votedFor' = [votedFor EXCEPT ![i] = persister[i].votedFor]
    /\ logs' = [logs EXCEPT ![i] = persister[i].logs]
    /\ lastIncludedIndex' = [lastIncludedIndex EXCEPT ![i] = persister[i].lastIncludedIndex]
    /\ lastIncludedTerm' = [lastIncludedTerm EXCEPT ![i] = persister[i].lastIncludedTerm]
    /\ commitIndex' = [commitIndex EXCEPT ![i] = persister[i].lastIncludedIndex]
    /\ nextIndex' = [nextIndex EXCEPT ![i] = [j \in Server |-> 0]]
    /\ matchIndex' = [matchIndex EXCEPT ![i] = [j \in Server |-> 0]]
    /\ asking' = [asking EXCEPT ![i] = {}]
    /\ votes' = [votes EXCEPT ![i] = {}]
    /\ handed' = [handed EXCEPT ![i] = {}]
    /\ UNCHANGED <<persister, rpcs>>

Next ==
    \/ \E i \in Campaigning : \E asked \in SUBSET (Server \ {i}) : Election(i, asked)
    \/ \E i, j \in Server : \E term \in 1..MaxTerm : RequestVote(i, j, term)
    \/ \E m \in rpcs : RequestVoteHandle(m)
    \/ \E m \in rpcs : RequestVoteReply(m)
    \/ \E i \in Server : \E c \in Command : Start(i, c)
    \/ \E i, j \in Server : ReplicateToPeer(i, j)
    \/ \E m \in rpcs : AppendEntriesHandler(m)
    \/ \E m \in rpcs : AppendEntriesReply(m)
    \/ \E m \in rpcs : InstallSnapshot(m)
    \/ \E m \in rpcs : InstallSnapshotReply(m)
    \/ \E i \in Server : \E s \in handed[i] : CondInstallSnapshot(i, s)
    \/ \E i \in Server : \E index \in SnapshotIndexes : Snapshot(i, index)
    \/ \E i \in Crashing : Restart(i)
    \/ \E m \in rpcs : Lose(m)

Spec == Init /\ [][Next]_vars
-----------------------------------------------------------------------------
(* Properties. *)

Entry == [Command : Command, Term : Nat]
Saved == [currentTerm : Nat, votedFor : Server \union {Nil}, lastIncludedIndex : Nat,
          lastIncludedTerm : Nat, logs : Seq(Entry), snapshot : Seq(Entry)]
Handed == [SnapshotIndex : Nat, SnapshotTerm : Nat, Snapshot : Seq(Entry)]
Message ==
    [type : {"RequestVote"}, from : Server, to : Server, Term : Nat,
     LastLogIndex : Nat, LastLogTerm : Nat \union {-1}]
    \union
    [type : {"RequestVoteReply"}, from : Server, to : Server, term : Nat, Term : Nat,
     VoteGranted : BOOLEAN]
    \union
    [type : {"AppendEntries"}, from : Server, to : Server, Term : Nat, PrevLogIndex : Nat,
     PrevLogTerm : Nat \union {-1}, Entries : Seq(Entry), LeaderCommitIndex : Nat,
     LeaderCommitTerm : Nat \union {-1}]
    \union
    [type : {"AppendEntriesReply"}, from : Server, to : Server, term : Nat,
     Matched : Nat, Term : Nat, Success : BOOLEAN]
    \union
    [type : {"InstallSnapshot"}, from : Server, to : Server, Term : Nat,
     LastIncludedIndex : Nat, LastIncludedTerm : Nat, Data : Seq(Entry)]
    \union
    [type : {"InstallSnapshotReply"}, from : Server, to : Server, Term : Nat]

\* The types of the fields of struct Raft and of the RPC arguments.
TypeOK ==
    /\ state \in [Server -> {Follower, Candidate, Leader}]
    /\ currentTerm \in [Server -> Nat]
    /\ votedFor \in [Server -> Server \union {Nil}]
    /\ logs \in [Server -> Seq(Entry)]
    /\ lastIncludedIndex \in [Server -> Nat]
    /\ lastIncludedTerm \in [Server -> Nat]
    /\ commitIndex \in [Server -> Nat]
    /\ nextIndex \in [Server -> [Server -> Nat]]
    /\ matchIndex \in [Server -> [Server -> Nat]]
    /\ asking \in [Server -> SUBSET (Server \X Nat)]
    /\ votes \in [Server -> SUBSET Server]
    /\ handed \in [Server -> SUBSET Handed]
    /\ persister \in [Server -> Saved]
    /\ rpcs \subseteq Message

\* At most one server leads in a term, whatever is lost, delayed or crashes:
\* a vote is persisted before it is answered and counted only in its own term.
ElectionSafety ==
    \A i, j \in Server :
        state[i] = Leader /\ state[j] = Leader /\ currentTerm[i] = currentTerm[j] => i = j

\* Two logs that agree on the term of an index agree on every entry up to it,
\* compacted entries included.
LogMatching ==
    \A i, j \in Server :
        \A n \in 1..Smaller(Len(FullLog(i)), Len(FullLog(j))) :
            FullLog(i)[n].Term = FullLog(j)[n].Term =>
                SubSeq(FullLog(i), 1, n) = SubSeq(FullLog(j), 1, n)

\* The entries i has committed.
Committed(i) == SubSeq(FullLog(i), 1, Smaller(commitIndex[i], Len(FullLog(i))))

\* s agrees with t where both have an entry.
Agree(s, t) == \A n \in 1..Smaller(Len(s), Len(t)) : s[n] = t[n]

\* A leader holds everything committed by servers that are not ahead of its term.
LeaderCompleteness ==
    \A i, j \in Server :
        state[i] = Leader /\ currentTerm[j] <= currentTerm[i] =>
            /\ commitIndex[j] <= lastIndex(i)
            /\ Agree(Committed(j), FullLog(i))

\* The index arithmetic never leaves the log: the snapshot covers exactly the entries
\* below the log, ends with the recorded term, and everything committed is held.
SnapshotAligned ==
    \A i \in Server :
        /\ Len(persister[i].snapshot) = lastIncludedIndex[i]
        /\ lastIncludedIndex[i] > 0 =>
              persister[i].snapshot[lastIncludedIndex[i]].Term = lastIncludedTerm[i]
        /\ lastIncludedIndex[i] <= commitIndex[i]
        /\ commitIndex[i] <= lastIndex(i)

\* An acknowledgement that can still commit something is true: the follower, while it
\* is in the leader's term, holds the leader's log up to matchIndex.  (A snapshot
\* acknowledged but not yet installed is always below the leader's commitIndex.)
AckedIsStored ==
    \A i, j \in Server :
        /\ state[i] = Leader /\ currentTerm[j] = currentTerm[i]
        /\ matchIndex[i][j] > commitIndex[i]
        => /\ matchIndex[i][j] <= lastIndex(j)
           /\ Agree(SubSeq(FullLog(j), 1, matchIndex[i][j]), FullLog(i))

\* A term never goes back and a vote given in a term is never changed, crashes included.
VotesAreKept ==
    [][\A i \in Server :
          /\ currentTerm'[i] >= currentTerm[i]
          /\ currentTerm'[i] = currentTerm[i] /\ votedFor[i] # Nil
                => votedFor'[i] = votedFor[i]]_vars

\* AppendEntriesHandler truncates on any conflict, without the guard its comment asks
\* for: still no step removes or replaces an entry that its server had committed.
CommittedIsKept ==
    [][\A i \in Server :
          /\ commitIndex[i] <= Len(FullLog(i)')
          /\ Agree(Committed(i), FullLog(i)')]_<<logs, lastIncludedIndex>>
=============================================================================
