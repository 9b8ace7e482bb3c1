----------------------------- MODULE RaftProofs -----------------------------
(***************************************************************************)
(* Type correctness, election safety and durable votes of Raft, for any    *)
(* number of servers, terms, entries and messages.  Proved by the          *)
(* inductive invariants StorageInv (the types, and what each server has    *)
(* stored) and ElectionInv (what ballots, counted votes, roles and         *)
(* messages say of who may win a term) of RaftInvariants.                  *)
(***************************************************************************)
EXTENDS RaftLogSteps, FiniteSetTheorems

(* What the proofs take from the libraries. *)

\* A non-empty set of naturals has a least element.
LEMMA LeastNatural == WellOrdered
<1> SUFFICES ASSUME NEW S \in SUBSET Nat, S # {} PROVE \E n \in S : \A k \in S : n <= k
  BY Zenon DEF WellOrdered
<1> DEFINE R == OpToRel(<, Nat)
<1>1. IsWellFoundedOn(R, Nat)
  BY NatLessThanWellFounded, Zenon
<1>2. \A k, n \in Nat : k < n => <<k, n>> \in R
  BY Zenon DEF OpToRel
<1> HIDE DEF R
<1>3. PICK n \in S : \A k \in S : ~ (<<k, n>> \in R)
  BY <1>1, WFMin, Zenon
<1>4. ASSUME NEW k \in S PROVE n <= k
  <2>1. k \in Nat /\ n \in Nat
    BY Zenon
  <2>2. ~ (<<k, n>> \in R)
    BY <1>3, Zenon
  <2>3. ~ (k < n)
    BY <1>2, <2>1, <2>2, Zenon
  <2> QED BY <2>1, <2>3, SMTT(30)
<1> QED BY <1>4, Zenon

\* Majorities of a finite set of servers meet and grow.
LEMMA Grounded == Grounds
<1>1. \A Q \in SUBSET Server : Cardinality(Q) \in Nat /\ IsFiniteSet(Q)
  BY ServerAssumption, FS_Subset, FS_CardinalityType, Zenon
<1>2. IsFiniteSet(Server) /\ Cardinality(Server) \in Nat
  BY ServerAssumption, FS_CardinalityType, Zenon
<1>3. ASSUME NEW Q \in SUBSET Server, NEW R \in SUBSET Server, Majority(Q), Majority(R)
      PROVE  \E v \in Server : v \in Q /\ v \in R
  <2>1. Cardinality(Q) + Cardinality(R) > Cardinality(Server)
    BY <1>1, <1>2, <1>3, SMTT(30) DEF Majority
  <2>2. Q \intersect R # {}
    BY <1>2, <2>1, FS_MajoritiesIntersect, Zenon
  <2> QED BY <2>2, Zenon
<1>4. ASSUME NEW Q \in SUBSET Server, NEW R \in SUBSET Server, Majority(Q), Q \subseteq R
      PROVE  Majority(R)
  <2>1. Cardinality(Q) <= Cardinality(R)
    BY <1>1, <1>4, FS_Subset, Zenon
  <2> QED BY <1>1, <1>2, <1>4, <2>1, SMTT(30) DEF Majority
<1> QED BY <1>3, <1>4, LeastNatural, Zenon DEF Grounds

\* AppendEntriesHandler's loop leaves a well-formed log: where the consistency check
\* passed, truncation never reaches below the snapshot.
LEMMA MergeEntriesType ==
    ASSUME TypeOK, NEW i \in Server, NEW m \in AppendEntriesMessage,
           m.PrevLogIndex >= lastIncludedIndex[i], m.PrevLogIndex <= lastIndex(i)
    PROVE  MergeEntries(i, m) \in Seq(Entry)
<1> DEFINE fresh == {k \in 1..Len(m.Entries) :
                       termAt(i, m.PrevLogIndex + k) # m.Entries[k].Term}
           first == CHOOSE k \in fresh : \A l \in fresh : k <= l
           head == SubSeq(logs[i], 1, m.PrevLogIndex + first - 1 - lastIncludedIndex[i])
           tail == SubSeq(m.Entries, first, Len(m.Entries))
<1>1. /\ logs[i] \in Seq(Entry) /\ Len(logs[i]) \in Nat
      /\ m.Entries \in Seq(Entry) /\ Len(m.Entries) \in Nat
      /\ lastIncludedIndex[i] \in Nat /\ m.PrevLogIndex \in Nat
  BY LenProperties, Zenon DEF TypeOK, AppendEntriesMessage
<1>2. CASE fresh = {}
  BY <1>1, <1>2, Zenon DEF MergeEntries
<1>3. CASE fresh # {}
  <2>1. fresh \subseteq Nat
    BY SMTT(30)
  <2>2. \E k \in fresh : \A l \in fresh : k <= l
    BY <1>3, <2>1, LeastNatural, Zenon DEF WellOrdered
  <2>3. first \in fresh /\ \A l \in fresh : first <= l
    BY <2>2, Zenon
  <2>4. first \in 1..Len(m.Entries)
    BY <2>3, Zenon
  <2> HIDE DEF first, fresh
  \* Everything before the first difference is in the local log.
  <2>5. m.PrevLogIndex + first - 1 <= lastIndex(i)
    <3>1. CASE first = 1
      BY <1>1, <3>1, LastIndexType, SMTT(30)
    <3>2. CASE first # 1
      <4>1. first - 1 \in 1..Len(m.Entries) /\ ~ (first <= first - 1)
        BY <3>2, <2>4, <1>1, SMTT(30)
      <4>2. first - 1 \notin fresh
        BY <4>1, <2>3, Zenon
      <4>3. termAt(i, m.PrevLogIndex + (first - 1)) = m.Entries[first - 1].Term
        BY <4>1, <4>2, Zenon DEF fresh
      <4>4. m.Entries[first - 1].Term \in Nat
        <5>1. m.Entries[first - 1] \in Entry
          BY <4>1, <1>1, ElementOfSeq, Zenon
        <5> QED BY <5>1, Zenon DEF Entry
      <4>5. termAt(i, m.PrevLogIndex + (first - 1)) # -1
        BY <4>3, <4>4, SMTT(30)
      <4> QED BY <4>5, <4>1, <1>1, SMTT(30) DEF termAt, lastIndex
    <3> QED BY <3>1, <3>2, Zenon
  <2>6. head \in Seq(Entry)
    <3>1. \A k \in 1..(m.PrevLogIndex + first - 1 - lastIncludedIndex[i]) : logs[i][k] \in Entry
      BY <1>1, <2>4, <2>5, ElementOfSeq, SMTT(30) DEF lastIndex
    <3> QED BY <3>1, <1>1, <2>4, SubSeqProperties, SMTT(30)
  <2>7. tail \in Seq(Entry)
    <3>1. \A k \in first..Len(m.Entries) : m.Entries[k] \in Entry
      BY <1>1, <2>4, ElementOfSeq, SMTT(30)
    <3> QED BY <3>1, <1>1, <2>4, SubSeqProperties, SMTT(30)
  <2>8. MergeEntries(i, m) = head \o tail
    BY <1>3, Zenon DEF MergeEntries, first, fresh
  <2> HIDE DEF head, tail
  <2> QED BY <2>6, <2>7, <2>8, ConcatProperties, Zenon
<1> QED BY <1>2, <1>3, Zenon

\* advanceCommitIndexLocked() finds a greatest committable index or leaves commitIndex.
LEMMA AdvanceCommitIndexType ==
    ASSUME TypeOK, NEW i \in Server, NEW acks \in [Server -> Nat]
    PROVE  AdvanceCommitIndex(i, acks) \in Nat
<1> DEFINE ready == Committable(i, acks)
<1>1. commitIndex[i] \in Nat /\ lastIndex(i) \in Nat
  BY LastIndexType, Zenon DEF TypeOK
<1>2. ready \subseteq 0..lastIndex(i)
  BY <1>1, SMTT(30) DEF Committable
<1>3. CASE ready = {}
  BY <1>1, <1>3, Zenon DEF AdvanceCommitIndex
<1>4. CASE ready # {}
  <2>1. \E n \in ready : \A k \in ready : n >= k
    BY <1>1, <1>2, <1>4, LeastNatural, GreatestNatural, Zenon
  <2>2. AdvanceCommitIndex(i, acks) \in ready
    BY <2>1, <1>4, Zenon DEF AdvanceCommitIndex
  <2> QED BY <2>2, <1>2, <1>1, SMTT(30)
<1> QED BY <1>3, <1>4, Zenon

-----------------------------------------------------------------------------
(* Type correctness. *)

\* What persist() and SaveStateAndSnapshot() write has the type of saved state.
LEMMA PersistType ==
    ASSUME TypeOK, NEW i \in Server, currentTerm'[i] \in Nat,
           votedFor'[i] \in Server \union {Nil}, logs'[i] \in Seq(Entry),
           lastIncludedIndex'[i] \in Nat, lastIncludedTerm'[i] \in Nat
    PROVE  /\ persist(i) => persister' \in [Server -> Saved]
           /\ \A snapshot \in Seq(Entry) :
                 persistWithSnapshot(i, snapshot) => persister' \in [Server -> Saved]
<1>1. persister \in [Server -> Saved] /\ persister[i].snapshot \in Seq(Entry)
  BY Zenon DEF TypeOK, Saved
<1> DEFINE saved(snapshot) ==
         [currentTerm |-> currentTerm'[i], votedFor |-> votedFor'[i],
          lastIncludedIndex |-> lastIncludedIndex'[i],
          lastIncludedTerm |-> lastIncludedTerm'[i],
          logs |-> logs'[i], snapshot |-> snapshot]
<1>2. \A snapshot \in Seq(Entry) : saved(snapshot) \in Saved
  BY Zenon DEF Saved
<1>3. persist(i) => persister' = [persister EXCEPT ![i] = saved(persister[i].snapshot)]
  BY Zenon DEF persist
<1>4. \A snapshot : persistWithSnapshot(i, snapshot) =>
          persister' = [persister EXCEPT ![i] = saved(snapshot)]
  BY Zenon DEF persistWithSnapshot
<1> HIDE DEF saved
<1>5. persist(i) => persister' \in [Server -> Saved]
  BY <1>1, <1>2, <1>3, Zenon
<1>6. \A snapshot \in Seq(Entry) :
          persistWithSnapshot(i, snapshot) => persister' \in [Server -> Saved]
  BY <1>1, <1>2, <1>4, Zenon
<1> QED BY <1>5, <1>6, Zenon

\* Falling back to Follower on a reply with a higher term keeps the types.
LEMMA StepDownType ==
    ASSUME TypeOK, NEW i \in Server, NEW term \in Nat, StepDown(i, term), rpcs' \subseteq rpcs
    PROVE  TypeOK'
<1>1. /\ currentTerm' \in [Server -> Nat] /\ votedFor' \in [Server -> Server \union {Nil}]
      /\ state' \in [Server -> {Follower, Candidate, Leader}]
      /\ UNCHANGED <<logs, lastIncludedIndex, lastIncludedTerm, commitIndex, nextIndex,
                     matchIndex, asking, votes, handed>>
  BY Zenon DEF TypeOK, StepDown, logVars, leaderVars
<1>2. persister' \in [Server -> Saved]
  BY <1>1, PersistType, Zenon DEF TypeOK, StepDown
<1>3. rpcs' \subseteq Message
  BY Zenon DEF TypeOK
<1> QED BY <1>1, <1>2, <1>3, Zenon DEF TypeOK

\* Make() on an empty persister yields a well-typed state.
LEMMA InitType == Init => TypeOK
<1> SUFFICES ASSUME Init PROVE TypeOK
  BY Zenon
<1>1. <<>> \in Seq(Entry)
  BY EmptySeq, Zenon
<1>2. persister \in [Server -> Saved]
  BY <1>1, Zenon DEF Init, Saved
<1> QED BY <1>1, <1>2, Zenon DEF Init, TypeOK, Follower

\* A handler adds its reply to the network and may take out its request.
LEMMA NetworkType ==
    ASSUME TypeOK, NEW m, NEW reply
    PROVE  /\ Receive(m) => rpcs' \subseteq Message /\ rpcs' \subseteq rpcs
           /\ reply \in Message =>
                 /\ Send(reply) => rpcs' \subseteq Message
                 /\ Reply(m, reply) => rpcs' \subseteq Message
                 /\ ReplyRepeated(m, reply) => rpcs' \subseteq Message
BY Zenon DEF TypeOK, Receive, Send, Reply, ReplyRepeated

\* An election timeout keeps the types.
LEMMA ElectionType ==
    ASSUME TypeOK, NEW i \in Server, NEW asked \in SUBSET (Server \ {i}), Election(i, asked)
    PROVE  TypeOK'
<1>1. UNCHANGED <<logs, lastIncludedIndex, lastIncludedTerm, commitIndex, nextIndex,
                  matchIndex, handed, rpcs>>
  BY Zenon DEF Election, logVars, leaderVars
<1>2. /\ currentTerm' \in [Server -> Nat] /\ votedFor' \in [Server -> Server \union {Nil}]
      /\ state' \in [Server -> {Follower, Candidate, Leader}]
      /\ votes' \in [Server -> SUBSET Server]
  BY SMTT(30) DEF TypeOK, Election
<1>3. asking' \in [Server -> SUBSET (Server \X Nat)]
  <2> DEFINE new == asking[i] \union (asked \X {currentTerm[i] + 1})
  <2>1. currentTerm[i] + 1 \in Nat /\ asked \subseteq Server
    BY SMTT(30) DEF TypeOK
  <2>2. asked \X {currentTerm[i] + 1} \subseteq Server \X Nat
    BY <2>1, Zenon
  <2>3. asking \in [Server -> SUBSET (Server \X Nat)] /\ asking[i] \in SUBSET (Server \X Nat)
    BY Zenon DEF TypeOK
  <2>4. new \in SUBSET (Server \X Nat)
    BY <2>2, <2>3, Zenon
  <2>5. asking' = [asking EXCEPT ![i] = new]
    BY Zenon DEF Election
  <2> HIDE DEF new
  <2> QED BY <2>3, <2>4, <2>5, Zenon
<1>4. persister' \in [Server -> Saved]
  BY <1>1, <1>2, PersistType, Zenon DEF TypeOK, Election
<1> QED BY <1>1, <1>2, <1>3, <1>4, Zenon DEF TypeOK

\* Sending a RequestVote keeps the types.
LEMMA RequestVoteType ==
    ASSUME TypeOK, NEW i \in Server, NEW j \in Server, NEW term \in Nat, RequestVote(i, j, term)
    PROVE  TypeOK'
<1> DEFINE m == [type |-> "RequestVote", from |-> i, to |-> j, Term |-> term,
                 LastLogIndex |-> lastIndex(i), LastLogTerm |-> termAt(i, lastIndex(i))]
<1>1. m \in Message
  <2>1. lastIndex(i) \in Nat /\ termAt(i, lastIndex(i)) \in Nat \union {-1}
    BY LastIndexType, TermAtType, SMTT(30)
  <2> QED BY <2>1, Zenon DEF Message
<1>2. rpcs' \subseteq Message
  <2>1. Send(m)
    BY Zenon DEF RequestVote
  <2> QED BY <1>1, <2>1, NetworkType, Zenon
<1>3. asking' \in [Server -> SUBSET (Server \X Nat)]
  BY Zenon DEF TypeOK, RequestVote
<1> QED BY <1>2, <1>3, Zenon DEF TypeOK, RequestVote, serverVars, logVars, leaderVars

\* Handling a RequestVote keeps the types.
LEMMA RequestVoteHandleType ==
    ASSUME TypeOK, NEW m \in rpcs, RequestVoteHandle(m)
    PROVE  TypeOK'
<1> DEFINE i == m.to
<1>1. m \in Message /\ i \in Server /\ m.from \in Server /\ m.Term \in Nat
  BY MessageFields, Zenon DEF TypeOK
<1>2. UNCHANGED <<logs, lastIncludedIndex, lastIncludedTerm, commitIndex, nextIndex,
                  matchIndex, asking, votes, handed>>
  BY Zenon DEF RequestVoteHandle, logVars, leaderVars
<1>3. /\ currentTerm' \in [Server -> Nat] /\ votedFor' \in [Server -> Server \union {Nil}]
      /\ state' \in [Server -> {Follower, Candidate, Leader}]
  BY <1>1, Zenon DEF TypeOK, RequestVoteHandle, Larger
<1>4. persister' \in [Server -> Saved]
  BY <1>1, <1>2, <1>3, PersistType, Zenon DEF TypeOK, RequestVoteHandle
<1>5. rpcs' \subseteq Message
  <2>1. PICK g \in BOOLEAN :
            Reply(m, [type |-> "RequestVoteReply", from |-> i, to |-> m.from,
                      term |-> m.Term, Term |-> currentTerm[i], VoteGranted |-> g])
    BY Zenon DEF RequestVoteHandle
  <2>2. [type |-> "RequestVoteReply", from |-> i, to |-> m.from,
         term |-> m.Term, Term |-> currentTerm[i], VoteGranted |-> g] \in Message
    BY <1>1, Zenon DEF Message, TypeOK
  <2> QED BY <2>1, <2>2, NetworkType, Zenon
<1> QED BY <1>2, <1>3, <1>4, <1>5, Zenon DEF TypeOK

\* Counting a vote, and winning by it, keeps the types.
LEMMA RequestVoteReplyType ==
    ASSUME TypeOK, NEW m \in rpcs, RequestVoteReply(m)
    PROVE  TypeOK'
<1> DEFINE i == m.to
<1>1. m \in Message /\ i \in Server /\ m.from \in Server /\ m.Term \in Nat
  BY MessageFields, Zenon DEF TypeOK
<1>2. rpcs' \subseteq Message /\ rpcs' \subseteq rpcs
  BY NetworkType, Zenon DEF RequestVoteReply
<1>3. CASE StepDown(i, m.Term)
  BY <1>1, <1>2, <1>3, StepDownType, Zenon
<1>4. CASE ~ StepDown(i, m.Term)
  <2>1. /\ votes' = [votes EXCEPT ![i] = votes[i] \union {m.from}]
        /\ BecomeLeader(i) \/ UNCHANGED <<state, nextIndex, matchIndex>>
        /\ UNCHANGED <<currentTerm, votedFor, logs, lastIncludedIndex, lastIncludedTerm,
                       commitIndex, asking, handed, persister>>
    BY <1>4, Zenon DEF RequestVoteReply, logVars, leaderVars
  <2>2. votes' \in [Server -> SUBSET Server]
    BY <1>1, <2>1, Zenon DEF TypeOK
  <2>3. /\ state' \in [Server -> {Follower, Candidate, Leader}]
        /\ nextIndex' \in [Server -> [Server -> Nat]]
        /\ matchIndex' \in [Server -> [Server -> Nat]]
    <3>1. CASE BecomeLeader(i)
      <4>1. lastIndex(i) \in Nat /\ lastIncludedIndex[i] \in Nat
        BY <1>1, LastIndexType, Zenon DEF TypeOK
      <4>2. state' \in [Server -> {Follower, Candidate, Leader}]
        BY <1>1, <3>1, Zenon DEF TypeOK, BecomeLeader
      <4>3. [j \in Server |-> lastIndex(i) + 1] \in [Server -> Nat]
        BY <4>1, SMTT(30)
      <4>4. [j \in Server |-> IF j = i THEN lastIndex(i) ELSE lastIncludedIndex[i]]
               \in [Server -> Nat]
        BY <4>1, Zenon
      <4> QED BY <4>2, <4>3, <4>4, <3>1, Zenon DEF TypeOK, BecomeLeader
    <3>2. CASE UNCHANGED <<state, nextIndex, matchIndex>>
      BY <3>2, Zenon DEF TypeOK
    <3> QED BY <2>1, <3>1, <3>2, Zenon
  <2> QED BY <1>2, <2>1, <2>2, <2>3, Zenon DEF TypeOK
<1> QED BY <1>3, <1>4, Zenon

\* Appending a client's command keeps the types.
LEMMA StartType ==
    ASSUME TypeOK, NEW i \in Server, NEW c \in Command, Start(i, c)
    PROVE  TypeOK'
<1>1. /\ logs' = [logs EXCEPT ![i] = Append(logs[i], [Command |-> c, Term |-> currentTerm[i]])]
      /\ UNCHANGED <<state, currentTerm, votedFor, lastIncludedIndex, lastIncludedTerm,
                     commitIndex, nextIndex, matchIndex, asking, votes, handed, rpcs>>
  BY Zenon DEF Start, serverVars, leaderVars
<1>2. logs' \in [Server -> Seq(Entry)]
  <2>1. [Command |-> c, Term |-> currentTerm[i]] \in Entry
    BY Zenon DEF Entry, TypeOK, Start
  <2>2. Append(logs[i], [Command |-> c, Term |-> currentTerm[i]]) \in Seq(Entry)
    BY <2>1, AppendProperties, Zenon DEF TypeOK
  <2> QED BY <1>1, <2>2, Zenon DEF TypeOK
<1>3. persister' \in [Server -> Saved]
  BY <1>1, <1>2, PersistType, Zenon DEF TypeOK, Start
<1> QED BY <1>1, <1>2, <1>3, Zenon DEF TypeOK

\* A turn of replicateToPeer keeps the types: PrevLogIndex is never negative, and the
\* entries sent start above the snapshot.
LEMMA ReplicateToPeerType ==
    ASSUME TypeOK, NEW i \in Server, NEW j \in Server, ReplicateToPeer(i, j)
    PROVE  TypeOK'
<1> DEFINE next == nextIndex[i][j]
           snap == [type |-> "InstallSnapshot", from |-> i, to |-> j,
                    Term |-> currentTerm[i],
                    LastIncludedIndex |-> lastIncludedIndex[i],
                    LastIncludedTerm |-> lastIncludedTerm[i],
                    Data |-> persister[i].snapshot]
           append == [type |-> "AppendEntries", from |-> i, to |-> j,
                      Term |-> currentTerm[i],
                      PrevLogIndex |-> next - 1,
                      PrevLogTerm |-> termAt(i, next - 1),
                      Entries |-> EntriesAfter(i, next - 1),
                      LeaderCommitIndex |-> commitIndex[i],
                      LeaderCommitTerm |-> termAt(i, commitIndex[i])]
<1>1. next \in Nat /\ lastIncludedIndex[i] \in Nat /\ commitIndex[i] \in Nat
  BY Zenon DEF TypeOK
<1>2. snap \in Message
  BY Zenon DEF TypeOK, Message, Saved
<1>3. next > lastIncludedIndex[i] => append \in Message
  <2> SUFFICES ASSUME next > lastIncludedIndex[i] PROVE append \in Message
    BY Zenon
  <2>1. next - 1 \in Nat /\ next - 1 >= lastIncludedIndex[i]
    BY <1>1, SMTT(30)
  <2>2. termAt(i, next - 1) \in Nat \union {-1} /\ termAt(i, commitIndex[i]) \in Nat \union {-1}
    BY <1>1, <2>1, TermAtType, SMTT(30)
  <2>3. EntriesAfter(i, next - 1) \in Seq(Entry)
    BY <2>1, EntriesAfterType, SMTT(30)
  <2> QED BY <1>1, <2>1, <2>2, <2>3, Zenon DEF Message, TypeOK
<1>4. Send(snap) \/ (next > lastIncludedIndex[i] /\ Send(append))
  BY <1>1, SMTT(30) DEF ReplicateToPeer
<1> HIDE DEF snap, append
<1>5. rpcs' \subseteq Message
  BY <1>2, <1>3, <1>4, NetworkType, Zenon
<1> QED BY <1>5, Zenon DEF TypeOK, ReplicateToPeer, serverVars, logVars, leaderVars

\* Handling an AppendEntries keeps the types.
LEMMA AppendEntriesHandlerType ==
    ASSUME TypeOK, NEW m \in rpcs, AppendEntriesHandler(m)
    PROVE  TypeOK'
<1> DEFINE i == m.to
           matches == m.Term >= currentTerm[i] /\ PrevMatches(i, m)
           reply == [type |-> "AppendEntriesReply", from |-> m.to, to |-> m.from,
                     term |-> m.Term, Matched |-> m.PrevLogIndex + Len(m.Entries),
                     Term |-> currentTerm[m.to], Success |-> matches]
<1>1. m \in AppendEntriesMessage /\ i \in Server /\ m.from \in Server /\ m.Term \in Nat
  BY MessageFields, Zenon DEF TypeOK, AppendEntriesHandler
<1>2. UNCHANGED <<lastIncludedIndex, lastIncludedTerm, nextIndex, matchIndex, asking, votes,
                  handed>>
  BY Zenon DEF AppendEntriesHandler, leaderVars
<1>3. /\ currentTerm' \in [Server -> Nat] /\ votedFor' \in [Server -> Server \union {Nil}]
      /\ state' \in [Server -> {Follower, Candidate, Leader}]
  BY <1>1, Zenon DEF TypeOK, AppendEntriesHandler, Larger
<1>4. logs' \in [Server -> Seq(Entry)]
  <2>1. matches => MergeEntries(i, m) \in Seq(Entry)
    <3>1. m.PrevLogIndex \in Nat /\ lastIncludedIndex[i] \in Nat /\ lastIndex(i) \in Nat
      BY <1>1, LastIndexType, Zenon DEF AppendEntriesMessage, TypeOK
    <3> QED BY <1>1, <3>1, MergeEntriesType, SMTT(30) DEF PrevMatches
  <2>2. logs' = [logs EXCEPT ![i] = IF matches THEN MergeEntries(i, m) ELSE logs[i]]
    BY Zenon DEF AppendEntriesHandler
  <2> QED BY <2>1, <2>2, <1>1, Zenon DEF TypeOK
<1>5. commitIndex' \in [Server -> Nat]
  <2>1. commitIndex' =
            [commitIndex EXCEPT ![i] = IF matches THEN CommitAfter(i, m) ELSE commitIndex[i]]
    BY Zenon DEF AppendEntriesHandler
  <2> QED BY <1>1, <2>1, CommitAfterType, Zenon DEF TypeOK
<1>6. persister' \in [Server -> Saved]
  BY <1>1, <1>2, <1>3, <1>4, PersistType, Zenon DEF TypeOK, AppendEntriesHandler
<1>7. rpcs' \subseteq Message
  <2>1. reply \in Message
    <3>1. m.PrevLogIndex + Len(m.Entries) \in Nat /\ matches \in BOOLEAN
      BY <1>1, LenProperties, SMTT(30) DEF AppendEntriesMessage, PrevMatches
    <3> QED BY <1>1, <3>1, Zenon DEF Message, TypeOK
  <2>2. ReplyRepeated(m, reply)
    BY Zenon DEF AppendEntriesHandler, AppendEntriesReplyTo
  <2> QED BY <2>1, <2>2, NetworkType, Zenon
<1> QED BY <1>2, <1>3, <1>4, <1>5, <1>6, <1>7, Zenon DEF TypeOK

\* Updating one entry of a leader's nextIndex or matchIndex table.
LEMMA TableType ==
    ASSUME NEW f \in [Server -> [Server -> Nat]], NEW i \in Server, NEW j \in Server, NEW x \in Nat
    PROVE  /\ f[i] \in [Server -> Nat] /\ f[i][j] \in Nat
           /\ [f EXCEPT ![i][j] = x] \in [Server -> [Server -> Nat]]
<1>1. f[i] \in [Server -> Nat]
  BY Zenon
<1>2. f[i][j] \in Nat
  BY <1>1, Zenon
<1>3. [f[i] EXCEPT ![j] = x] \in [Server -> Nat]
  BY <1>1, Zenon
<1>4. [f EXCEPT ![i] = [f[i] EXCEPT ![j] = x]] \in [Server -> [Server -> Nat]]
  BY <1>3, Zenon
<1> QED BY <1>1, <1>2, <1>4, Zenon

\* A success or a refusal keeps the types: nextIndex is not decremented below zero.
LEMMA AppendEntriesReplyType ==
    ASSUME TypeOK, NEW m \in rpcs, AppendEntriesReply(m)
    PROVE  TypeOK'
<1> DEFINE i == m.to
           j == m.from
           acks == [matchIndex[i] EXCEPT ![j] = Larger(matchIndex[i][j], m.Matched)]
<1>1. m \in Message /\ i \in Server /\ j \in Server /\ m.Term \in Nat /\ m.Matched \in Nat
  BY MessageFields, Zenon DEF TypeOK, AppendEntriesReply
<1>2. rpcs' \subseteq Message /\ rpcs' \subseteq rpcs
  BY NetworkType, Zenon DEF AppendEntriesReply
<1>3. CASE StepDown(i, m.Term)
  BY <1>1, <1>2, <1>3, StepDownType, Zenon
<1>4. CASE ~ StepDown(i, m.Term)
  <2>1. UNCHANGED <<state, currentTerm, votedFor, logs, lastIncludedIndex, lastIncludedTerm,
                    asking, votes, handed, persister>>
    BY <1>4, Zenon DEF AppendEntriesReply, serverVars, logVars
  <2>2. acks \in [Server -> Nat]
    <3>1. matchIndex[i] \in [Server -> Nat] /\ matchIndex[i][j] \in Nat
      BY <1>1, TableType, Zenon DEF TypeOK
    <3>2. Larger(matchIndex[i][j], m.Matched) \in Nat
      BY <1>1, <3>1, Zenon DEF Larger
    <3> QED BY <1>1, <3>1, <3>2, Zenon
  <2>3. CASE m.Success
    <3>1. /\ matchIndex' = [matchIndex EXCEPT ![i] = acks]
          /\ nextIndex' = [nextIndex EXCEPT ![i][j] = Larger(nextIndex[i][j], m.Matched + 1)]
          /\ commitIndex' = [commitIndex EXCEPT ![i] = AdvanceCommitIndex(i, acks)]
      BY <1>4, <2>3, Zenon DEF AppendEntriesReply
    <3> HIDE DEF acks
    <3>2. matchIndex' \in [Server -> [Server -> Nat]]
      BY <1>1, <2>2, <3>1, Zenon DEF TypeOK
    <3>3. nextIndex' \in [Server -> [Server -> Nat]]
      <4>1. nextIndex \in [Server -> [Server -> Nat]]
        BY Zenon DEF TypeOK
      <4>2. nextIndex[i][j] \in Nat
        BY <4>1, <1>1, TableType, Zenon
      <4>3. Larger(nextIndex[i][j], m.Matched + 1) \in Nat
        BY <1>1, <4>2, SMTT(30) DEF Larger
      <4> QED BY <1>1, <3>1, <4>1, <4>3, TableType, Zenon
    <3>4. commitIndex' \in [Server -> Nat]
      BY <1>1, <2>2, <3>1, AdvanceCommitIndexType, Zenon DEF TypeOK
    <3> QED BY <1>2, <2>1, <3>2, <3>3, <3>4, Zenon DEF TypeOK
  <2>4. CASE ~ m.Success
    <3>1. /\ nextIndex' = [nextIndex EXCEPT ![i][j] = Backoff(i, nextIndex[i][j])]
          /\ UNCHANGED <<matchIndex, commitIndex>>
      BY <1>4, <2>4, Zenon DEF AppendEntriesReply
    <3>2. nextIndex \in [Server -> [Server -> Nat]] /\ lastIncludedIndex[i] \in Nat
      BY <1>1, Zenon DEF TypeOK
    <3>3. nextIndex' \in [Server -> [Server -> Nat]]
      <4>1. nextIndex[i][j] \in Nat
        BY <3>2, <1>1, TableType, Zenon
      <4>2. Backoff(i, nextIndex[i][j]) \in Nat
        BY <3>2, <4>1, SMTT(30) DEF Backoff
      <4> QED BY <1>1, <3>1, <3>2, <4>2, TableType, Zenon
    <3> QED BY <1>2, <2>1, <3>1, <3>3, Zenon DEF TypeOK
  <2> QED BY <2>3, <2>4, Zenon
<1> QED BY <1>3, <1>4, Zenon

\* Handling an InstallSnapshot keeps the types.
LEMMA InstallSnapshotType ==
    ASSUME TypeOK, NEW m \in rpcs, InstallSnapshot(m)
    PROVE  TypeOK'
<1> DEFINE i == m.to
           s == [SnapshotIndex |-> m.LastIncludedIndex,
                 SnapshotTerm |-> m.LastIncludedTerm, Snapshot |-> m.Data]
           reply == [type |-> "InstallSnapshotReply", from |-> i, to |-> m.from,
                     Term |-> currentTerm[i]]
<1>1. /\ m \in Message /\ i \in Server /\ m.from \in Server /\ m.Term \in Nat
      /\ m.LastIncludedIndex \in Nat /\ m.LastIncludedTerm \in Nat /\ m.Data \in Seq(Entry)
  BY MessageFields, Zenon DEF TypeOK, InstallSnapshot
<1>2. UNCHANGED <<logs, lastIncludedIndex, lastIncludedTerm, commitIndex, nextIndex,
                  matchIndex, asking, votes>>
  BY Zenon DEF InstallSnapshot, logVars, leaderVars
<1>3. /\ currentTerm' \in [Server -> Nat] /\ votedFor' \in [Server -> Server \union {Nil}]
      /\ state' \in [Server -> {Follower, Candidate, Leader}]
  BY <1>1, Zenon DEF TypeOK, InstallSnapshot, Larger
<1>4. persister' \in [Server -> Saved]
  BY <1>1, <1>2, <1>3, PersistType, Zenon DEF TypeOK, InstallSnapshot
<1>5. handed' \in [Server -> SUBSET Handed]
  <2>1. s \in Handed
    BY <1>1, Zenon DEF Handed
  <2>2. \/ handed' = [handed EXCEPT ![i] = handed[i] \union {s}]
        \/ handed' = [handed EXCEPT ![i] = handed[i]]
    BY Zenon DEF InstallSnapshot
  <2>3. handed \in [Server -> SUBSET Handed]
    BY Zenon DEF TypeOK
  <2> HIDE DEF s
  <2>4. handed[i] \union {s} \in SUBSET Handed
    BY <1>1, <2>1, <2>3, Zenon
  <2> QED BY <1>1, <2>2, <2>3, <2>4, Zenon
<1>6. rpcs' \subseteq Message
  <2>1. reply \in Message
    BY <1>1, Zenon DEF Message, TypeOK
  <2>2. ReplyRepeated(m, reply)
    BY Zenon DEF InstallSnapshot
  <2> QED BY <2>1, <2>2, NetworkType, Zenon
<1> QED BY <1>2, <1>3, <1>4, <1>5, <1>6, Zenon DEF TypeOK

\* The bookkeeping after an InstallSnapshot keeps the types.
LEMMA InstallSnapshotReplyType ==
    ASSUME TypeOK, NEW m \in rpcs, InstallSnapshotReply(m)
    PROVE  TypeOK'
<1> DEFINE i == m.to
<1>1. m \in Message /\ i \in Server /\ m.from \in Server /\ m.Term \in Nat
  BY MessageFields, Zenon DEF TypeOK
<1>2. rpcs' \subseteq Message /\ rpcs' \subseteq rpcs
  BY NetworkType, Zenon DEF InstallSnapshotReply
<1>3. CASE StepDown(i, m.Term)
  BY <1>1, <1>2, <1>3, StepDownType, Zenon
<1>4. CASE ~ StepDown(i, m.Term)
  <2>1. UNCHANGED <<state, currentTerm, votedFor, logs, lastIncludedIndex, lastIncludedTerm,
                    commitIndex, asking, votes, handed, persister>>
    BY <1>4, Zenon DEF InstallSnapshotReply, serverVars, logVars
  <2>2. /\ matchIndex' = [matchIndex EXCEPT ![i][m.from] = AckedBySnapshot(i)]
        /\ nextIndex' = [nextIndex EXCEPT ![i][m.from] = AckedBySnapshot(i) + 1]
    BY <1>4, Zenon DEF InstallSnapshotReply
  <2>3. AckedBySnapshot(i) \in Nat
    BY <1>1, Zenon DEF AckedBySnapshot, TypeOK
  <2>4. matchIndex' \in [Server -> [Server -> Nat]] /\ nextIndex' \in [Server -> [Server -> Nat]]
    <3>1. nextIndex \in [Server -> [Server -> Nat]] /\ matchIndex \in [Server -> [Server -> Nat]]
      BY Zenon DEF TypeOK
    <3>2. AckedBySnapshot(i) + 1 \in Nat
      BY <2>3, SMTT(30)
    <3> HIDE DEF i
    <3> QED BY <1>1, <2>2, <2>3, <3>1, <3>2, TableType, Zenon
  <2> QED BY <1>2, <2>1, <2>4, Zenon DEF TypeOK
<1> QED BY <1>3, <1>4, Zenon

\* Replacing a prefix of the log by a snapshot keeps the types.
LEMMA CompactType ==
    ASSUME TypeOK, NEW i \in Server, NEW index \in Nat, NEW term \in Nat,
           NEW kept \in Seq(Entry), NEW snapshot \in Seq(Entry),
           Compact(i, index, term, kept, snapshot),
           UNCHANGED <<nextIndex, matchIndex, asking, votes, rpcs>>,
           handed' \in [Server -> SUBSET Handed]
    PROVE  TypeOK'
<1>1. /\ logs' = [logs EXCEPT ![i] = kept]
      /\ lastIncludedIndex' = [lastIncludedIndex EXCEPT ![i] = index]
      /\ lastIncludedTerm' = [lastIncludedTerm EXCEPT ![i] = term]
      /\ commitIndex' = [commitIndex EXCEPT ![i] = Larger(index, commitIndex[i])]
      /\ UNCHANGED <<state, currentTerm, votedFor>>
      /\ persistWithSnapshot(i, snapshot)
  BY Zenon DEF Compact, serverVars
<1>2. /\ logs' \in [Server -> Seq(Entry)] /\ lastIncludedIndex' \in [Server -> Nat]
      /\ lastIncludedTerm' \in [Server -> Nat] /\ commitIndex' \in [Server -> Nat]
  BY <1>1, Zenon DEF TypeOK, Larger
<1>3. persister' \in [Server -> Saved]
  <2>1. /\ currentTerm'[i] \in Nat /\ votedFor'[i] \in Server \union {Nil}
        /\ logs'[i] \in Seq(Entry)
        /\ lastIncludedIndex'[i] \in Nat /\ lastIncludedTerm'[i] \in Nat
    BY <1>1, <1>2, Zenon DEF TypeOK
  <2> QED BY <1>1, <2>1, PersistType, Zenon
<1> QED BY <1>1, <1>2, <1>3, Zenon DEF TypeOK

\* Switching to a received snapshot keeps the types.
LEMMA CondInstallSnapshotType ==
    ASSUME TypeOK, NEW i \in Server, NEW s \in handed[i], CondInstallSnapshot(i, s)
    PROVE  TypeOK'
<1> DEFINE kept == KeptAfter(i, s.SnapshotIndex, s.SnapshotTerm)
<1>1. /\ s.SnapshotIndex \in Nat /\ s.SnapshotTerm \in Nat /\ s.Snapshot \in Seq(Entry)
      /\ lastIncludedIndex[i] \in Nat
  BY SMTT(30) DEF TypeOK, Handed
<1>2. /\ UNCHANGED <<nextIndex, matchIndex, asking, votes, rpcs>>
      /\ handed' \in [Server -> SUBSET Handed]
  BY Zenon DEF TypeOK, CondInstallSnapshot, leaderVars
<1>3. CASE s.SnapshotIndex <= lastIncludedIndex[i]
  BY <1>2, <1>3, Zenon DEF TypeOK, CondInstallSnapshot, serverVars, logVars
<1>4. CASE ~ (s.SnapshotIndex <= lastIncludedIndex[i])
  <2>1. Compact(i, s.SnapshotIndex, s.SnapshotTerm, kept, s.Snapshot)
    BY <1>4, Zenon DEF CondInstallSnapshot
  <2>2. kept \in Seq(Entry)
    <3>1. EntriesAfter(i, s.SnapshotIndex) \in Seq(Entry)
      BY <1>1, <1>4, EntriesAfterType, SMTT(30)
    <3>2. <<>> \in Seq(Entry)
      BY EmptySeq, Zenon
    <3> QED BY <3>1, <3>2, Zenon DEF KeptAfter
  <2> QED BY <1>1, <1>2, <2>1, <2>2, CompactType, Zenon
<1> QED BY <1>3, <1>4, Zenon

\* Taking a snapshot keeps the types: the index is within the entries the server accounts for.
LEMMA SnapshotType ==
    ASSUME TypeOK, NEW i \in Server, NEW index \in Nat, Snapshot(i, index),
           Len(persister[i].snapshot) = lastIncludedIndex[i]
    PROVE  TypeOK'
<1>1. /\ lastIncludedIndex[i] \in Nat /\ lastIndex(i) \in Nat
      /\ index \in lastIncludedIndex[i]..lastIndex(i)
  <2>1. lastIncludedIndex[i] \in Nat /\ lastIndex(i) \in Nat
    BY LastIndexType, Zenon DEF TypeOK
  <2>2. index > lastIncludedIndex[i] /\ index <= lastIndex(i)
    BY Zenon DEF Snapshot
  <2> QED BY <2>1, <2>2, SMTT(30)
<1>2. termAt(i, index) \in Nat
  BY <1>1, TermAtType, SMTT(30)
<1>3. EntriesAfter(i, index) \in Seq(Entry)
  BY <1>1, EntriesAfterType, SMTT(30)
<1>4. FullLog(i) \in Seq(Entry)
  <2>1. persister[i].snapshot \in Seq(Entry) /\ logs[i] \in Seq(Entry)
    BY Zenon DEF TypeOK, Saved
  <2> QED BY <2>1, ConcatProperties, Zenon DEF FullLog
<1>5. SubSeq(FullLog(i), 1, index) \in Seq(Entry)
  <2>1. Len(FullLog(i)) = lastIndex(i)
    <3>1. persister[i].snapshot \in Seq(Entry) /\ logs[i] \in Seq(Entry)
      BY Zenon DEF TypeOK, Saved
    <3>2. Len(FullLog(i)) = Len(persister[i].snapshot) + Len(logs[i])
      BY <3>1, ConcatProperties, Zenon DEF FullLog
    <3> QED BY <3>2, Zenon DEF lastIndex
  <2>2. \A k \in 1..index : FullLog(i)[k] \in Entry
    BY <1>1, <1>4, <2>1, ElementOfSeq, SMTT(30)
  <2> DEFINE all == FullLog(i)
  <2>3. \A k \in 1..index : all[k] \in Entry
    BY <2>2, Zenon
  <2>4. 1 \in Int /\ index \in Int
    BY SMTT(30)
  <2> HIDE DEF all
  <2>5. SubSeq(all, 1, index) \in Seq(Entry)
    BY <2>3, <2>4, SubSeqProperties, Zenon
  <2> QED BY <2>5, Zenon DEF all
<1>6. /\ UNCHANGED <<nextIndex, matchIndex, asking, votes, rpcs>>
      /\ handed' \in [Server -> SUBSET Handed]
  BY Zenon DEF TypeOK, Snapshot, leaderVars
<1>7. Compact(i, index, termAt(i, index), EntriesAfter(i, index), SubSeq(FullLog(i), 1, index))
  BY Zenon DEF Snapshot
<1> QED BY <1>2, <1>3, <1>5, <1>6, <1>7, CompactType, Zenon

\* Reading back what was persisted keeps the types.
LEMMA RestartType ==
    ASSUME TypeOK, NEW i \in Server, Restart(i)
    PROVE  TypeOK'
<1>1. persister[i] \in Saved
  BY Zenon DEF TypeOK
<1>2. /\ persister[i].currentTerm \in Nat /\ persister[i].votedFor \in Server \union {Nil}
      /\ persister[i].lastIncludedIndex \in Nat /\ persister[i].lastIncludedTerm \in Nat
      /\ persister[i].logs \in Seq(Entry)
  BY <1>1, Zenon DEF Saved
<1>3. /\ currentTerm' \in [Server -> Nat] /\ votedFor' \in [Server -> Server \union {Nil}]
      /\ lastIncludedIndex' \in [Server -> Nat] /\ lastIncludedTerm' \in [Server -> Nat]
      /\ logs' \in [Server -> Seq(Entry)] /\ commitIndex' \in [Server -> Nat]
  BY <1>2, Zenon DEF TypeOK, Restart
<1>4. /\ state' \in [Server -> {Follower, Candidate, Leader}]
      /\ asking' \in [Server -> SUBSET (Server \X Nat)]
      /\ votes' \in [Server -> SUBSET Server] /\ handed' \in [Server -> SUBSET Handed]
  BY Zenon DEF TypeOK, Restart
<1>5. nextIndex' \in [Server -> [Server -> Nat]] /\ matchIndex' \in [Server -> [Server -> Nat]]
  <2>1. [j \in Server |-> 0] \in [Server -> Nat]
    BY Zenon
  <2> QED BY <2>1, Zenon DEF TypeOK, Restart
<1> QED BY <1>3, <1>4, <1>5, Zenon DEF TypeOK, Restart

\* Losing a message keeps the types.
LEMMA LoseType ==
    ASSUME TypeOK, NEW m \in rpcs, Lose(m)
    PROVE  TypeOK'
<1>1. rpcs' \subseteq Message
  BY NetworkType, Zenon DEF Lose
<1> QED BY <1>1, Zenon DEF TypeOK, Lose, serverVars, logVars, leaderVars

\* persist() after a change to one server re-establishes DurableState and keeps snapshots.
LEMMA PersistDurable ==
    ASSUME TypeOK, DurableState, NEW i \in Server,
           \A k \in Server : k # i => Same(k), persist(i)
    PROVE  DurableState' /\ \A k \in Server : persister'[k].snapshot = persister[k].snapshot
<1>1. persister \in [Server -> Saved]
  BY Zenon DEF TypeOK
<1>2. /\ persister'[i].currentTerm = currentTerm'[i] /\ persister'[i].votedFor = votedFor'[i]
      /\ persister'[i].lastIncludedIndex = lastIncludedIndex'[i]
      /\ persister'[i].lastIncludedTerm = lastIncludedTerm'[i]
      /\ persister'[i].logs = logs'[i] /\ persister'[i].snapshot = persister[i].snapshot
  BY <1>1, Zenon DEF persist
<1>3. \A k \in Server : k # i => persister'[k] = persister[k]
  BY <1>1, Zenon DEF persist
<1> QED BY <1>2, <1>3, SMTT(30) DEF DurableState, Same

\* SaveStateAndSnapshot() re-establishes DurableState with the new snapshot.
LEMMA PersistWithSnapshotDurable ==
    ASSUME TypeOK, DurableState, NEW i \in Server, NEW snapshot,
           \A k \in Server : k # i => Same(k), persistWithSnapshot(i, snapshot)
    PROVE  /\ DurableState' /\ persister'[i].snapshot = snapshot
           /\ \A k \in Server : k # i => persister'[k].snapshot = persister[k].snapshot
<1>1. persister \in [Server -> Saved]
  BY Zenon DEF TypeOK
<1>2. /\ persister'[i].currentTerm = currentTerm'[i] /\ persister'[i].votedFor = votedFor'[i]
      /\ persister'[i].lastIncludedIndex = lastIncludedIndex'[i]
      /\ persister'[i].lastIncludedTerm = lastIncludedTerm'[i]
      /\ persister'[i].logs = logs'[i] /\ persister'[i].snapshot = snapshot
  BY <1>1, Zenon DEF persistWithSnapshot
<1>3. \A k \in Server : k # i => persister'[k] = persister[k]
  BY <1>1, Zenon DEF persistWithSnapshot
<1> QED BY <1>2, <1>3, SMTT(30) DEF DurableState, Same

\* A section that changes no persistent field need not save.
LEMMA UnchangedDurable ==
    ASSUME DurableState, \A k \in Server : Same(k), UNCHANGED persister
    PROVE  DurableState' /\ \A k \in Server : persister'[k].snapshot = persister[k].snapshot
BY Zenon DEF DurableState, Same

\* A section that saves what it changed and leaves snapshots alone keeps StorageInv.
LEMMA SavedStepStorage ==
    ASSUME StorageInv, TypeOK', SavedStep, SnapshotsCarried'
    PROVE  StorageInv'
<1>1. CASE (\A k \in Server : Same(k)) /\ UNCHANGED persister
  <2>1. DurableState' /\ \A k \in Server : persister'[k].snapshot = persister[k].snapshot
    BY <1>1, UnchangedDurable, Zenon DEF StorageInv
  <2> QED BY <1>1, <2>1, Zenon DEF StorageInv, SnapshotLength, SnapshotsCarried, Same
<1>2. ASSUME NEW i \in Server, \A k \in Server : k # i => Same(k),
             UNCHANGED lastIncludedIndex, persist(i)
      PROVE  StorageInv'
  <2>1. DurableState' /\ \A k \in Server : persister'[k].snapshot = persister[k].snapshot
    BY <1>2, PersistDurable, Zenon DEF StorageInv
  <2> QED BY <1>2, <2>1, Zenon DEF StorageInv, SnapshotLength, SnapshotsCarried
<1> QED BY <1>1, <1>2, Zenon DEF SavedStep

\* StepDown() changes one server and saves it.
LEMMA StepDownSaved ==
    ASSUME TypeOK, NEW i \in Server, NEW term \in Nat, StepDown(i, term)
    PROVE  SavedStep
<1>1. \A k \in Server : k # i => Same(k)
  BY Zenon DEF TypeOK, StepDown, Same, logVars
<1> QED BY <1>1, Zenon DEF SavedStep, StepDown, logVars

\* An election saves the term and the vote it changed.
LEMMA ElectionStorage ==
    ASSUME StorageInv, NEW i \in Server, NEW asked \in SUBSET (Server \ {i}),
           Election(i, asked)
    PROVE  StorageInv'
<1>1. TypeOK'
  BY ElectionType, Zenon DEF StorageInv
<1>2. \A k \in Server : k # i => Same(k)
  BY Zenon DEF StorageInv, TypeOK, Election, Same, logVars
<1>3. SavedStep
  BY <1>2, Zenon DEF SavedStep, Election, logVars
<1>4. SnapshotsCarried'
  BY Zenon DEF Election, SnapshotsCarried, StorageInv, SnapshotLength
<1> QED BY <1>1, <1>3, <1>4, SavedStepStorage, Zenon

\* Sending a RequestVote changes nothing that is saved.
LEMMA RequestVoteStorage ==
    ASSUME StorageInv, NEW i \in Server, NEW j \in Server, NEW term \in Nat,
           RequestVote(i, j, term)
    PROVE  StorageInv'
<1>1. TypeOK'
  BY RequestVoteType, Zenon DEF StorageInv
<1>2. SavedStep
  BY Zenon DEF SavedStep, Same, RequestVote, serverVars, logVars
<1>3. SnapshotsCarried'
  BY SMTT(30) DEF RequestVote, Send, SnapshotsCarried, StorageInv, SnapshotLength
<1> QED BY <1>1, <1>2, <1>3, SavedStepStorage, Zenon

\* A vote or a new term is saved before the reply leaves.
LEMMA RequestVoteHandleStorage ==
    ASSUME StorageInv, NEW m \in rpcs, RequestVoteHandle(m)
    PROVE  StorageInv'
<1>1. TypeOK'
  BY RequestVoteHandleType, Zenon DEF StorageInv
<1>2. m.to \in Server /\ m.Term \in Nat /\ currentTerm[m.to] \in Nat
  BY MessageFields, Zenon DEF StorageInv, TypeOK
<1>3. \A k \in Server : k # m.to => Same(k)
  BY <1>2, Zenon DEF StorageInv, TypeOK, RequestVoteHandle, Same, logVars
<1>4. UNCHANGED lastIncludedIndex
  BY Zenon DEF RequestVoteHandle, logVars
<1>5. CASE persist(m.to)
  <2>1. SavedStep
    BY <1>2, <1>3, <1>4, <1>5, Zenon DEF SavedStep
  <2>2. SnapshotsCarried'
    BY SMTT(30) DEF RequestVoteHandle, Reply, SnapshotsCarried, StorageInv, SnapshotLength
  <2> QED BY <1>1, <2>1, <2>2, SavedStepStorage, Zenon
<1>6. CASE ~ persist(m.to)
  <2>1. UNCHANGED persister /\ ~ (m.Term > currentTerm[m.to])
    BY <1>6, Zenon DEF RequestVoteHandle
  <2>2. Same(m.to)
    BY <1>2, <1>6, <2>1, Zenon DEF StorageInv, TypeOK, RequestVoteHandle, Same, Larger, logVars
  <2>3. SavedStep
    BY <1>3, <2>1, <2>2, Zenon DEF SavedStep
  <2>4. SnapshotsCarried'
    BY SMTT(30) DEF RequestVoteHandle, Reply, SnapshotsCarried, StorageInv, SnapshotLength
  <2> QED BY <1>1, <2>3, <2>4, SavedStepStorage, Zenon
<1> QED BY <1>5, <1>6, Zenon

\* Counting a vote changes nothing that is saved; stepping down saves.
LEMMA RequestVoteReplyStorage ==
    ASSUME StorageInv, NEW m \in rpcs, RequestVoteReply(m)
    PROVE  StorageInv'
<1>1. TypeOK'
  BY RequestVoteReplyType, Zenon DEF StorageInv
<1>2. m.to \in Server /\ m.Term \in Nat
  BY MessageFields, Zenon DEF StorageInv, TypeOK
<1>3. SnapshotsCarried'
  BY Zenon DEF RequestVoteReply, StepDown, Receive, SnapshotsCarried, StorageInv, SnapshotLength
<1>4. SavedStep
  <2>1. CASE StepDown(m.to, m.Term)
    BY <1>2, <2>1, StepDownSaved, Zenon DEF StorageInv
  <2>2. CASE ~ StepDown(m.to, m.Term)
    BY <2>2, Zenon DEF RequestVoteReply, SavedStep, Same, logVars
  <2> QED BY <2>1, <2>2, Zenon
<1> QED BY <1>1, <1>3, <1>4, SavedStepStorage, Zenon

\* Start() saves the log it extended.
LEMMA StartStorage ==
    ASSUME StorageInv, NEW i \in Server, NEW c \in Command, Start(i, c)
    PROVE  StorageInv'
<1>1. TypeOK'
  BY StartType, Zenon DEF StorageInv
<1>2. \A k \in Server : k # i => Same(k)
  BY Zenon DEF StorageInv, TypeOK, Start, Same, serverVars
<1>3. SavedStep
  BY <1>2, Zenon DEF SavedStep, Start
<1>4. SnapshotsCarried'
  BY Zenon DEF Start, SnapshotsCarried, StorageInv, SnapshotLength
<1> QED BY <1>1, <1>3, <1>4, SavedStepStorage, Zenon

\* A snapshot in flight is the sender's stored one, with the sender's lastIncludedIndex.
LEMMA ReplicateToPeerStorage ==
    ASSUME StorageInv, NEW i \in Server, NEW j \in Server, ReplicateToPeer(i, j)
    PROVE  StorageInv'
<1>1. TypeOK'
  BY ReplicateToPeerType, Zenon DEF StorageInv
<1>2. SavedStep
  BY Zenon DEF SavedStep, Same, ReplicateToPeer, serverVars, logVars
<1>3. SnapshotsCarried'
  BY SMTT(30) DEF ReplicateToPeer, Send, SnapshotsCarried, StorageInv, SnapshotLength
<1> QED BY <1>1, <1>2, <1>3, SavedStepStorage, Zenon

\* A new term or a changed log is saved before the reply leaves.
LEMMA AppendEntriesHandlerStorage ==
    ASSUME StorageInv, NEW m \in rpcs, AppendEntriesHandler(m)
    PROVE  StorageInv'
<1>1. TypeOK'
  BY AppendEntriesHandlerType, Zenon DEF StorageInv
<1>2. m.to \in Server /\ m.Term \in Nat /\ currentTerm[m.to] \in Nat
  BY MessageFields, Zenon DEF StorageInv, TypeOK
<1>3. \A k \in Server : k # m.to => Same(k)
  BY <1>2, Zenon DEF StorageInv, TypeOK, AppendEntriesHandler, Same
<1>4. UNCHANGED lastIncludedIndex
  BY Zenon DEF AppendEntriesHandler
<1>5. SnapshotsCarried'
  BY SMTT(30)
    DEF AppendEntriesHandler, AppendEntriesReplyTo, ReplyRepeated, Reply, SnapshotsCarried,
         StorageInv, SnapshotLength
<1>6. CASE persist(m.to)
  <2>1. SavedStep
    BY <1>2, <1>3, <1>4, <1>6, Zenon DEF SavedStep
  <2> QED BY <1>1, <1>5, <2>1, SavedStepStorage, Zenon
<1>7. CASE ~ persist(m.to)
  <2>1. UNCHANGED persister /\ ~ (m.Term > currentTerm[m.to]) /\ logs' = logs
    BY <1>7, Zenon DEF AppendEntriesHandler
  <2>2. Same(m.to)
    BY <1>2, <2>1, Zenon DEF StorageInv, TypeOK, AppendEntriesHandler, Same, Larger
  <2>3. SavedStep
    BY <1>3, <2>1, <2>2, Zenon DEF SavedStep
  <2> QED BY <1>1, <1>5, <2>3, SavedStepStorage, Zenon
<1> QED BY <1>6, <1>7, Zenon

\* An acknowledgement changes nothing that is saved; stepping down saves.
LEMMA AppendEntriesReplyStorage ==
    ASSUME StorageInv, NEW m \in rpcs, AppendEntriesReply(m)
    PROVE  StorageInv'
<1>1. TypeOK'
  BY AppendEntriesReplyType, Zenon DEF StorageInv
<1>2. m.to \in Server /\ m.Term \in Nat
  BY MessageFields, Zenon DEF StorageInv, TypeOK
<1>3. SnapshotsCarried'
  BY Zenon DEF AppendEntriesReply, StepDown, Receive, SnapshotsCarried, StorageInv, SnapshotLength
<1>4. SavedStep
  <2>1. CASE StepDown(m.to, m.Term)
    BY <1>2, <2>1, StepDownSaved, Zenon DEF StorageInv
  <2>2. CASE ~ StepDown(m.to, m.Term)
    BY <2>2, Zenon DEF AppendEntriesReply, SavedStep, Same, serverVars, logVars
  <2> QED BY <2>1, <2>2, Zenon
<1> QED BY <1>1, <1>3, <1>4, SavedStepStorage, Zenon

\* The snapshot handed to the service is the one the leader sent; a new term is saved.
LEMMA InstallSnapshotStorage ==
    ASSUME StorageInv, NEW m \in rpcs, InstallSnapshot(m)
    PROVE  StorageInv'
<1>1. TypeOK'
  BY InstallSnapshotType, Zenon DEF StorageInv
<1>2. m.to \in Server /\ m.Term \in Nat /\ currentTerm[m.to] \in Nat
  BY MessageFields, Zenon DEF StorageInv, TypeOK
<1>3. \A k \in Server : k # m.to => Same(k)
  BY <1>2, Zenon DEF StorageInv, TypeOK, InstallSnapshot, Same, logVars
<1>4. UNCHANGED lastIncludedIndex
  BY Zenon DEF InstallSnapshot, logVars
<1>5. SnapshotsCarried'
  <2>1. \A r \in rpcs' : r.type = "InstallSnapshot" => Len(r.Data) = r.LastIncludedIndex
    BY SMTT(30)
      DEF InstallSnapshot, ReplyRepeated, Reply, StorageInv, SnapshotLength, SnapshotsCarried
  <2>2. Len(m.Data) = m.LastIncludedIndex
    BY Zenon DEF InstallSnapshot, StorageInv, SnapshotLength, SnapshotsCarried
  <2>3. \A k \in Server : \A s \in handed'[k] :
            \/ s \in handed[k]
            \/ s = [SnapshotIndex |-> m.LastIncludedIndex,
                    SnapshotTerm |-> m.LastIncludedTerm, Snapshot |-> m.Data]
    BY <1>2, Zenon DEF InstallSnapshot, StorageInv, TypeOK
  <2>4. \A k \in Server : \A s \in handed'[k] : Len(s.Snapshot) = s.SnapshotIndex
    BY <2>2, <2>3, SMTT(30) DEF StorageInv, SnapshotLength, SnapshotsCarried
  <2> QED BY <2>1, <2>4, Zenon DEF SnapshotsCarried
<1>6. CASE persist(m.to)
  <2>1. SavedStep
    BY <1>2, <1>3, <1>4, <1>6, Zenon DEF SavedStep
  <2> QED BY <1>1, <1>5, <2>1, SavedStepStorage, Zenon
<1>7. CASE ~ persist(m.to)
  <2>1. UNCHANGED persister /\ ~ (m.Term > currentTerm[m.to])
    BY <1>7, Zenon DEF InstallSnapshot
  <2>2. Same(m.to)
    BY <1>2, <2>1, Zenon DEF StorageInv, TypeOK, InstallSnapshot, Same, Larger, logVars
  <2>3. SavedStep
    BY <1>3, <2>1, <2>2, Zenon DEF SavedStep
  <2> QED BY <1>1, <1>5, <2>3, SavedStepStorage, Zenon
<1> QED BY <1>6, <1>7, Zenon

\* The bookkeeping changes nothing that is saved; stepping down saves.
LEMMA InstallSnapshotReplyStorage ==
    ASSUME StorageInv, NEW m \in rpcs, InstallSnapshotReply(m)
    PROVE  StorageInv'
<1>1. TypeOK'
  BY InstallSnapshotReplyType, Zenon DEF StorageInv
<1>2. m.to \in Server /\ m.Term \in Nat
  BY MessageFields, Zenon DEF StorageInv, TypeOK
<1>3. SnapshotsCarried'
  BY Zenon DEF InstallSnapshotReply, StepDown, Receive, SnapshotsCarried, StorageInv, SnapshotLength
<1>4. SavedStep
  <2>1. CASE StepDown(m.to, m.Term)
    BY <1>2, <2>1, StepDownSaved, Zenon DEF StorageInv
  <2>2. CASE ~ StepDown(m.to, m.Term)
    BY <2>2, Zenon DEF InstallSnapshotReply, SavedStep, Same, serverVars, logVars
  <2> QED BY <2>1, <2>2, Zenon
<1> QED BY <1>1, <1>3, <1>4, SavedStepStorage, Zenon

\* Log, boundary and snapshot are saved together, so they agree on stable storage.
LEMMA CompactStorage ==
    ASSUME StorageInv, TypeOK', NEW i \in Server, NEW index, NEW term, NEW kept, NEW snapshot,
           Compact(i, index, term, kept, snapshot), Len(snapshot) = index, SnapshotsCarried'
    PROVE  StorageInv'
<1>1. /\ logs' = [logs EXCEPT ![i] = kept]
      /\ lastIncludedIndex' = [lastIncludedIndex EXCEPT ![i] = index]
      /\ lastIncludedTerm' = [lastIncludedTerm EXCEPT ![i] = term]
      /\ UNCHANGED <<currentTerm, votedFor>>
      /\ persistWithSnapshot(i, snapshot)
  BY Zenon DEF Compact, serverVars
<1>2. \A k \in Server : k # i => Same(k)
  BY <1>1, Zenon DEF StorageInv, TypeOK, Same
<1>3. /\ DurableState' /\ persister'[i].snapshot = snapshot
      /\ \A k \in Server : k # i => persister'[k].snapshot = persister[k].snapshot
  BY <1>1, <1>2, PersistWithSnapshotDurable, Zenon DEF StorageInv
<1>4. lastIncludedIndex'[i] = index
  BY <1>1, Zenon DEF StorageInv, TypeOK
<1>5. \A k \in Server : Len(persister'[k].snapshot) = lastIncludedIndex'[k]
  BY <1>2, <1>3, <1>4, Zenon DEF StorageInv, SnapshotLength, Same
<1> QED BY <1>3, <1>5, Zenon DEF StorageInv, SnapshotLength

\* Switching to a received snapshot, or ignoring an old one, keeps StorageInv.
LEMMA CondInstallSnapshotStorage ==
    ASSUME StorageInv, NEW i \in Server, NEW s \in handed[i], CondInstallSnapshot(i, s)
    PROVE  StorageInv'
<1>1. TypeOK'
  BY CondInstallSnapshotType, Zenon DEF StorageInv
<1>2. SnapshotsCarried'
  <2>1. handed' = [handed EXCEPT ![i] = @ \ {s}] /\ rpcs' = rpcs
    BY Zenon DEF CondInstallSnapshot
  <2>2. \A k \in Server : handed'[k] \subseteq handed[k]
    BY <2>1, Zenon DEF StorageInv, TypeOK
  <2> QED BY <2>1, <2>2, Zenon DEF StorageInv, SnapshotLength, SnapshotsCarried
<1>3. CASE s.SnapshotIndex <= lastIncludedIndex[i]
  <2>1. SavedStep
    BY <1>3, Zenon DEF CondInstallSnapshot, SavedStep, Same, serverVars, logVars
  <2> QED BY <1>1, <1>2, <2>1, SavedStepStorage, Zenon
<1>4. CASE ~ (s.SnapshotIndex <= lastIncludedIndex[i])
  <2>1. Len(s.Snapshot) = s.SnapshotIndex
    BY Zenon DEF StorageInv, SnapshotLength, SnapshotsCarried
  <2>2. Compact(i, s.SnapshotIndex, s.SnapshotTerm,
                KeptAfter(i, s.SnapshotIndex, s.SnapshotTerm), s.Snapshot)
    BY <1>4, Zenon DEF CondInstallSnapshot
  <2> QED BY <1>1, <1>2, <2>1, <2>2, CompactStorage, Zenon
<1> QED BY <1>3, <1>4, Zenon

\* Taking a snapshot keeps StorageInv: it covers exactly the entries up to its index.
LEMMA SnapshotStorage ==
    ASSUME StorageInv, NEW i \in Server, NEW index \in Nat, Snapshot(i, index)
    PROVE  StorageInv'
<1>1. Len(persister[i].snapshot) = lastIncludedIndex[i]
  BY Zenon DEF StorageInv, SnapshotLength
<1>2. TypeOK'
  BY <1>1, SnapshotType, Zenon DEF StorageInv
<1>3. SnapshotsCarried'
  BY Zenon DEF Snapshot, StorageInv, SnapshotLength, SnapshotsCarried
<1>4. persister[i].snapshot \in Seq(Entry) /\ logs[i] \in Seq(Entry)
  BY Zenon DEF StorageInv, TypeOK, Saved
<1>5. FullLog(i) \in Seq(Entry) /\ Len(FullLog(i)) = lastIndex(i)
  <2>1. /\ FullLog(i) \in Seq(Entry)
        /\ Len(FullLog(i)) = Len(persister[i].snapshot) + Len(logs[i])
    BY <1>4, ConcatProperties, Zenon DEF FullLog
  <2> QED BY <1>1, <2>1, Zenon DEF lastIndex
<1>6. Len(SubSeq(FullLog(i), 1, index)) = index
  <2>1. index <= Len(FullLog(i))
    BY <1>5, Zenon DEF Snapshot
  <2>2. \A k \in 1..index : FullLog(i)[k] \in Entry
    <3>1. Len(FullLog(i)) \in Nat
      BY <1>5, LenProperties, Zenon
    <3> QED BY <1>5, <2>1, <3>1, ElementOfSeq, SMTT(30)
  <2> QED BY <2>2, SubSeqProperties, SMTT(30)
<1>7. Compact(i, index, termAt(i, index), EntriesAfter(i, index), SubSeq(FullLog(i), 1, index))
  BY Zenon DEF Snapshot
<1> QED BY <1>2, <1>3, <1>6, <1>7, CompactStorage, Zenon

\* A crash loses nothing that counts: what is read back is what memory held.
LEMMA RestartStorage ==
    ASSUME StorageInv, NEW i \in Server, Restart(i)
    PROVE  StorageInv'
<1>1. TypeOK'
  BY RestartType, Zenon DEF StorageInv
<1>2. \A k \in Server : Same(k)
  BY Zenon DEF StorageInv, TypeOK, DurableState, Restart, Same
<1>3. SavedStep
  BY <1>2, Zenon DEF SavedStep, Restart
<1>4. SnapshotsCarried'
  BY Zenon DEF StorageInv, TypeOK, SnapshotLength, SnapshotsCarried, Restart
<1> QED BY <1>1, <1>3, <1>4, SavedStepStorage, Zenon

\* Losing a message touches no server.
LEMMA LoseStorage ==
    ASSUME StorageInv, NEW m \in rpcs, Lose(m)
    PROVE  StorageInv'
<1>1. TypeOK'
  BY LoseType, Zenon DEF StorageInv
<1>2. SavedStep
  BY Zenon DEF Lose, SavedStep, Same, serverVars, logVars
<1>3. SnapshotsCarried'
  BY Zenon DEF Lose, Receive, StorageInv, SnapshotLength, SnapshotsCarried
<1> QED BY <1>1, <1>2, <1>3, SavedStepStorage, Zenon

\* Memory and stable storage agree when the peers start.
LEMMA InitStorage == Init => StorageInv
<1> SUFFICES ASSUME Init PROVE StorageInv
  BY Zenon
<1>1. TypeOK
  BY InitType, Zenon
<1>2. DurableState /\ SnapshotLength
  BY Zenon DEF Init, DurableState, SnapshotLength, SnapshotsCarried
<1> QED BY <1>1, <1>2, Zenon DEF StorageInv

\* StorageInv is inductive.
LEMMA NextStorage == StorageInv /\ [Next]_vars => StorageInv'
<1> SUFFICES ASSUME StorageInv, [Next]_vars PROVE StorageInv'
  BY Zenon
<1>1. ASSUME NEW i \in Campaigning, NEW asked \in SUBSET (Server \ {i}), Election(i, asked)
      PROVE  StorageInv'
  BY <1>1, ElectionStorage, BoundAssumption, Zenon
<1>2. ASSUME NEW i \in Server, NEW j \in Server, NEW term \in 1..MaxTerm, RequestVote(i, j, term)
      PROVE  StorageInv'
  <2>1. term \in Nat
    BY BoundAssumption, SMTT(30)
  <2> QED BY <1>2, <2>1, RequestVoteStorage, Zenon
<1>3. ASSUME NEW m \in rpcs, RequestVoteHandle(m) PROVE StorageInv'
  BY <1>3, RequestVoteHandleStorage, Zenon
<1>4. ASSUME NEW m \in rpcs, RequestVoteReply(m) PROVE StorageInv'
  BY <1>4, RequestVoteReplyStorage, Zenon
<1>5. ASSUME NEW i \in Server, NEW c \in Command, Start(i, c) PROVE StorageInv'
  BY <1>5, StartStorage, Zenon
<1>6. ASSUME NEW i \in Server, NEW j \in Server, ReplicateToPeer(i, j) PROVE StorageInv'
  BY <1>6, ReplicateToPeerStorage, Zenon
<1>7. ASSUME NEW m \in rpcs, AppendEntriesHandler(m) PROVE StorageInv'
  BY <1>7, AppendEntriesHandlerStorage, Zenon
<1>8. ASSUME NEW m \in rpcs, AppendEntriesReply(m) PROVE StorageInv'
  BY <1>8, AppendEntriesReplyStorage, Zenon
<1>9. ASSUME NEW m \in rpcs, InstallSnapshot(m) PROVE StorageInv'
  BY <1>9, InstallSnapshotStorage, Zenon
<1>10. ASSUME NEW m \in rpcs, InstallSnapshotReply(m) PROVE StorageInv'
  BY <1>10, InstallSnapshotReplyStorage, Zenon
<1>11. ASSUME NEW i \in Server, NEW s \in handed[i], CondInstallSnapshot(i, s)
       PROVE  StorageInv'
  BY <1>11, CondInstallSnapshotStorage, Zenon
<1>12. ASSUME NEW i \in Server, NEW index \in SnapshotIndexes, Snapshot(i, index)
       PROVE  StorageInv'
  BY <1>12, SnapshotStorage, BoundAssumption, Zenon
<1>13. ASSUME NEW i \in Crashing, Restart(i) PROVE StorageInv'
  BY <1>13, RestartStorage, BoundAssumption, Zenon
<1>14. ASSUME NEW m \in rpcs, Lose(m) PROVE StorageInv'
  BY <1>14, LoseStorage, Zenon
<1>15. CASE UNCHANGED vars
  BY <1>15, Zenon DEF vars, serverVars, logVars, leaderVars, StorageInv, TypeOK, DurableState,
               SnapshotLength, SnapshotsCarried
<1> QED BY <1>1, <1>2, <1>3, <1>4, <1>5, <1>6, <1>7, <1>8, <1>9, <1>10, <1>11, <1>12, <1>13,
           <1>14, <1>15, Zenon DEF Next

\* Whatever is lost, delayed or crashes, the fields of every peer keep their types: no
\* index goes negative, no log is cut below its snapshot.
THEOREM TypeCorrectness == Spec => []TypeOK
<1>1. Spec => []StorageInv
  BY InitStorage, NextStorage, PTL DEF Spec
<1>2. StorageInv => TypeOK
  BY Zenon DEF StorageInv
<1> QED BY <1>1, <1>2, PTL

\* A step that only casts fresh ballots and keeps terms and votes keeps the ballots' invariants.
LEMMA BallotsKept ==
    ASSUME TypeOK, TypeOK', BallotVoted, BallotUnique, BallotStep, VoteStep
    PROVE  BallotVoted' /\ BallotUnique'
<1>1. \A v \in Server : currentTerm[v] \in Nat /\ currentTerm'[v] \in Nat
  BY Zenon DEF TypeOK
<1>2. \A c \in Server : c # Nil
  BY ServerAssumption, Zenon
<1>3. ASSUME NEW v \in Server, NEW c \in Server, NEW t \in Nat, Ballot(v, t, c)'
      PROVE  Voted(v, t, c)'
  <2>1. CASE Ballot(v, t, c)
    <3>1. Voted(v, t, c)
      BY <2>1, Zenon DEF BallotVoted
    <3> QED BY <1>1, <1>2, <3>1, SMTT(30) DEF Voted, VoteStep
  <2>2. CASE Fresh(v, t, c)
    BY <2>2, Zenon DEF Fresh, Voted
  <2> QED BY <1>3, <2>1, <2>2, Zenon DEF BallotStep
<1>4. ASSUME NEW v \in Server, NEW c \in Server, NEW d \in Server, NEW t \in Nat,
             Ballot(v, t, c)', Ballot(v, t, d)'
      PROVE  c = d
  <2>1. /\ Ballot(v, t, c) \/ Fresh(v, t, c)
        /\ Ballot(v, t, d) \/ Fresh(v, t, d)
    BY <1>4, Zenon DEF BallotStep
  <2>2. CASE Ballot(v, t, c) /\ Ballot(v, t, d)
    BY <2>2, Zenon DEF BallotUnique
  <2>3. CASE Ballot(v, t, c) /\ Fresh(v, t, d)
    <3>1. Voted(v, t, c)
      BY <2>3, Zenon DEF BallotVoted
    <3> QED BY <1>1, <1>2, <2>3, <3>1, SMTT(30) DEF Voted, Fresh
  <2>4. CASE Fresh(v, t, c) /\ Ballot(v, t, d)
    <3>1. Voted(v, t, d)
      BY <2>4, Zenon DEF BallotVoted
    <3> QED BY <1>1, <1>2, <2>4, <3>1, SMTT(30) DEF Voted, Fresh
  <2>5. CASE Fresh(v, t, c) /\ Fresh(v, t, d)
    BY <2>5, Zenon DEF Fresh
  <2> QED BY <2>1, <2>2, <2>3, <2>4, <2>5, Zenon
<1> QED BY <1>3, <1>4, Zenon DEF BallotVoted, BallotUnique

\* A step without election activity casts no ballot and elects nobody.
LEMMA QuietStep ==
    ASSUME \A c \in Server : Quiet(c), NoNewVote
    PROVE  BallotStep /\ QuorumStep
<1>1. BallotStep
  BY Zenon DEF Quiet, NoNewVote, BallotStep, Ballot
<1>2. QuorumStep
  BY Zenon DEF Quiet, QuorumStep, Follower, Leader
<1> QED BY <1>1, <1>2, Zenon

\* What stays the same is kept.
LEMMA SameVotes ==
    ASSUME TypeOK, UNCHANGED <<currentTerm, votedFor>>
    PROVE  VoteStep
BY SMTT(30) DEF VoteStep, TypeOK

\* A reply with a higher term ends a candidacy or leadership and starts a term without a vote.
LEMMA StepDownVotes ==
    ASSUME TypeOK, NEW i \in Server, NEW term \in Nat, term > currentTerm[i], StepDown(i, term)
    PROVE  VoteStep /\ \A c \in Server : Quiet(c)
<1>1. /\ currentTerm' = [currentTerm EXCEPT ![i] = term]
      /\ state' = [state EXCEPT ![i] = Follower]
      /\ votedFor' = [votedFor EXCEPT ![i] = Nil]
      /\ votes' = votes
  BY Zenon DEF StepDown
<1>2. VoteStep
  <2>1. /\ \A k \in Server : currentTerm[k] \in Nat
        /\ currentTerm'[i] = term
        /\ \A k \in Server : k # i => currentTerm'[k] = currentTerm[k] /\ votedFor'[k] = votedFor[k]
    BY <1>1, Zenon DEF TypeOK
  <2> QED BY <2>1, SMTT(30) DEF VoteStep
<1>3. \A c \in Server : Quiet(c)
  BY <1>1, Zenon DEF TypeOK, Quiet
<1> QED BY <1>2, <1>3, Zenon

\* A candidate votes for itself in a term it was below.
LEMMA ElectionVotes ==
    ASSUME TypeOK, NEW i \in Server, NEW asked, Election(i, asked)
    PROVE  ElectionStep
<1>1. /\ currentTerm' = [currentTerm EXCEPT ![i] = currentTerm[i] + 1]
      /\ state' = [state EXCEPT ![i] = Candidate]
      /\ votedFor' = [votedFor EXCEPT ![i] = i]
      /\ votes' = [votes EXCEPT ![i] = {i}]
      /\ rpcs' = rpcs
  BY Zenon DEF Election
<1>2. /\ \A k \in Server : currentTerm[k] \in Nat
      /\ state'[i] = Candidate /\ currentTerm'[i] = currentTerm[i] + 1
      /\ votedFor'[i] = i /\ votes'[i] = {i}
      /\ \A k \in Server : k # i => /\ state'[k] = state[k] /\ currentTerm'[k] = currentTerm[k]
                                    /\ votedFor'[k] = votedFor[k] /\ votes'[k] = votes[k]
  BY <1>1, Zenon DEF TypeOK
<1>3. VoteStep
  BY <1>2, SMTT(30) DEF VoteStep
<1>4. QuorumStep
  BY <1>2, Zenon DEF QuorumStep, Candidate, Leader
<1>5. BallotStep
  <2> SUFFICES ASSUME NEW v \in Server, NEW c \in Server, NEW t \in Nat, Ballot(v, t, c)'
               PROVE  Ballot(v, t, c) \/ Fresh(v, t, c)
    BY Zenon DEF BallotStep
  <2>1. CASE \E m \in rpcs' : /\ m.type = "RequestVoteReply" /\ m.VoteGranted
                              /\ m.from = v /\ m.term = t /\ m.to = c
    BY <1>1, <2>1, Zenon DEF Ballot
  <2>2. CASE state'[c] # Follower /\ currentTerm'[c] = t /\ v \in votes'[c]
    <3>1. CASE c = i
      <4>1. v = i /\ t = currentTerm[i] + 1
        BY <1>2, <2>2, <3>1, Zenon
      <4>2. currentTerm[v] < t
        BY <1>2, <4>1, SMTT(30)
      <4> QED BY <1>2, <3>1, <4>1, <4>2, Zenon DEF Fresh
    <3>2. CASE c # i
      BY <1>2, <2>2, <3>2, Zenon DEF Ballot
    <3> QED BY <3>1, <3>2, Zenon
  <2> QED BY <2>1, <2>2, Zenon DEF Ballot
<1> QED BY <1>3, <1>4, <1>5, Zenon DEF ElectionStep

\* Asking for a vote casts none.
LEMMA RequestVoteVotes ==
    ASSUME TypeOK, NEW i \in Server, NEW j \in Server, NEW term, RequestVote(i, j, term)
    PROVE  ElectionStep
<1>1. UNCHANGED <<state, currentTerm, votedFor, votes>>
  BY Zenon DEF RequestVote, serverVars
<1>2. NoNewVote
  BY SMTT(30) DEF RequestVote, Send, NoNewVote
<1>3. \A c \in Server : Quiet(c)
  BY <1>1, Zenon DEF Quiet
<1> QED BY <1>1, <1>2, <1>3, QuietStep, SameVotes, Zenon DEF ElectionStep

\* A voter grants only where it may: in a new term, or with its vote of the term unused
\* or already given to the same candidate.
LEMMA RequestVoteHandleVotes ==
    ASSUME TypeOK, NEW m \in rpcs, RequestVoteHandle(m)
    PROVE  ElectionStep
<1> DEFINE i == m.to
           higher == m.Term > currentTerm[i]
           grant == /\ m.Term >= currentTerm[i]
                    /\ higher \/ votedFor[i] \in {Nil, m.from}
                    /\ UpToDate(i, m)
           reply == [type |-> "RequestVoteReply", from |-> i, to |-> m.from,
                     term |-> m.Term, Term |-> currentTerm[i], VoteGranted |-> grant]
<1>1. i \in Server /\ m.from \in Server /\ m.Term \in Nat
  BY MessageFields, Zenon DEF TypeOK
<1>2. /\ currentTerm' = [currentTerm EXCEPT ![i] = Larger(m.Term, currentTerm[i])]
      /\ state' = [state EXCEPT ![i] = IF higher THEN Follower ELSE state[i]]
      /\ votedFor' = [votedFor EXCEPT ![i] =
                          IF grant THEN m.from ELSE IF higher THEN Nil ELSE votedFor[i]]
      /\ votes' = votes /\ rpcs' \subseteq rpcs \union {reply}
  BY Zenon DEF RequestVoteHandle, Reply
<1>3. /\ \A k \in Server : currentTerm[k] \in Nat
      /\ currentTerm'[i] = Larger(m.Term, currentTerm[i])
      /\ state'[i] = IF higher THEN Follower ELSE state[i]
      /\ votedFor'[i] = IF grant THEN m.from ELSE IF higher THEN Nil ELSE votedFor[i]
      /\ \A k \in Server : k # i => /\ state'[k] = state[k] /\ currentTerm'[k] = currentTerm[k]
                                    /\ votedFor'[k] = votedFor[k]
  BY <1>1, <1>2, Zenon DEF TypeOK
<1>4. VoteStep
  <2>1. currentTerm'[i] >= currentTerm[i]
    BY <1>1, <1>3, SMTT(30) DEF Larger
  <2>2. ASSUME currentTerm'[i] = currentTerm[i], votedFor[i] # Nil
        PROVE  votedFor'[i] = votedFor[i]
    <3>1. ~ higher
      BY <1>1, <1>3, <2>2, SMTT(30) DEF Larger
    <3> QED BY <1>3, <2>2, <3>1, Zenon
  <2> QED BY <1>3, <2>1, <2>2, SMTT(30) DEF VoteStep
<1>5. \A c \in Server : Quiet(c)
  <2>1. Quiet(i)
    BY <1>1, <1>2, <1>3, Zenon DEF Quiet, Larger
  <2> QED BY <1>2, <1>3, <2>1, Zenon DEF Quiet
<1>6. QuorumStep
  BY <1>5, Zenon DEF Quiet, QuorumStep, Follower, Leader
<1>7. reply.VoteGranted => Fresh(reply.from, reply.term, reply.to)
  <2> SUFFICES ASSUME grant PROVE Fresh(i, m.Term, m.from)
    BY Zenon
  <2>1. currentTerm'[i] = m.Term /\ votedFor'[i] = m.from
    BY <1>1, <1>3, SMTT(30) DEF Larger
  <2>2. currentTerm[i] < m.Term \/ (currentTerm[i] = m.Term /\ votedFor[i] \in {Nil, m.from})
    BY <1>1, <1>3, SMTT(30)
  <2> QED BY <2>1, <2>2, Zenon DEF Fresh
<1>8. BallotStep
  <2> SUFFICES ASSUME NEW v \in Server, NEW c \in Server, NEW t \in Nat, Ballot(v, t, c)'
               PROVE  Ballot(v, t, c) \/ Fresh(v, t, c)
    BY Zenon DEF BallotStep
  <2> HIDE DEF reply
  <2>1. CASE \E r \in rpcs' : /\ r.type = "RequestVoteReply" /\ r.VoteGranted
                              /\ r.from = v /\ r.term = t /\ r.to = c
    BY <1>2, <1>7, <2>1, Zenon DEF Ballot
  <2>2. CASE state'[c] # Follower /\ currentTerm'[c] = t /\ v \in votes'[c]
    BY <1>5, <2>2, Zenon DEF Ballot, Quiet
  <2> QED BY <2>1, <2>2, Zenon DEF Ballot
<1> QED BY <1>4, <1>6, <1>8, Zenon DEF ElectionStep

\* A counted vote is a ballot cast before, for this candidacy; a win needs a majority.
LEMMA RequestVoteReplyVotes ==
    ASSUME TypeOK, NEW m \in rpcs, RequestVoteReply(m)
    PROVE  ElectionStep
<1> DEFINE i == m.to
           counted == votes[i] \union {m.from}
<1>1. i \in Server /\ m.from \in Server /\ m.Term \in Nat
  BY MessageFields, Zenon DEF TypeOK
<1>2. rpcs' \subseteq rpcs /\ m.type = "RequestVoteReply"
  BY Zenon DEF RequestVoteReply, Receive
<1>3. CASE m.Term > currentTerm[i] /\ StepDown(i, m.Term)
  <2>1. VoteStep /\ \A c \in Server : Quiet(c)
    BY <1>1, <1>3, StepDownVotes, Zenon
  <2>2. NoNewVote
    BY <1>2, Zenon DEF NoNewVote
  <2> QED BY <2>1, <2>2, QuietStep, Zenon DEF ElectionStep
<1>4. CASE ~ (m.Term > currentTerm[i] /\ StepDown(i, m.Term))
  <2>1. /\ m.VoteGranted /\ state[i] = Candidate /\ m.term = currentTerm[i]
        /\ votes' = [votes EXCEPT ![i] = counted]
        /\ (Majority(counted) /\ BecomeLeader(i)) \/ UNCHANGED state
        /\ UNCHANGED <<currentTerm, votedFor>>
    BY <1>4, Zenon DEF RequestVoteReply, Counts
  <2>2. /\ votes'[i] = counted
        /\ \A k \in Server : k # i => votes'[k] = votes[k] /\ state'[k] = state[k]
        /\ state'[i] = Leader => Majority(counted) \/ state[i] = Leader
    BY <1>1, <2>1, Zenon DEF TypeOK, BecomeLeader
  <2>3. VoteStep
    BY <2>1, SameVotes, Zenon
  <2>4. QuorumStep
    <3>1. state[i] # Leader
      BY <2>1, Zenon DEF Candidate, Leader
    <3> QED BY <2>2, <3>1, Zenon DEF QuorumStep
  <2>5. BallotStep
    <3> SUFFICES ASSUME NEW v \in Server, NEW c \in Server, NEW t \in Nat, Ballot(v, t, c)'
                 PROVE  Ballot(v, t, c)
      BY Zenon DEF BallotStep
    <3>1. CASE \E r \in rpcs' : /\ r.type = "RequestVoteReply" /\ r.VoteGranted
                                /\ r.from = v /\ r.term = t /\ r.to = c
      BY <1>2, <3>1, Zenon DEF Ballot
    <3>2. CASE state'[c] # Follower /\ currentTerm'[c] = t /\ v \in votes'[c]
      <4>1. CASE c # i
        BY <2>1, <2>2, <3>2, <4>1, Zenon DEF Ballot
      <4>2. CASE c = i
        <5>1. t = currentTerm[i] /\ (v \in votes[i] \/ v = m.from)
          BY <2>1, <2>2, <3>2, <4>2, Zenon
        <5>2. state[i] # Follower
          BY <2>1, Zenon DEF Candidate, Follower
        <5> QED BY <1>2, <2>1, <4>2, <5>1, <5>2, Zenon DEF Ballot
      <4> QED BY <4>1, <4>2, Zenon
    <3> QED BY <3>1, <3>2, Zenon DEF Ballot
  <2> QED BY <2>3, <2>4, <2>5, Zenon DEF ElectionStep
<1> QED BY <1>3, <1>4, Zenon

\* Start() casts no vote.
LEMMA StartVotes ==
    ASSUME TypeOK, NEW i \in Server, NEW c, Start(i, c)
    PROVE  ElectionStep
<1>1. UNCHANGED <<state, currentTerm, votedFor, votes, rpcs>>
  BY Zenon DEF Start, serverVars
<1>2. NoNewVote /\ \A k \in Server : Quiet(k)
  BY <1>1, Zenon DEF NoNewVote, Quiet
<1> QED BY <1>1, <1>2, QuietStep, SameVotes, Zenon DEF ElectionStep

\* Replication casts no vote.
LEMMA ReplicateToPeerVotes ==
    ASSUME TypeOK, NEW i \in Server, NEW j \in Server, ReplicateToPeer(i, j)
    PROVE  ElectionStep
<1>1. UNCHANGED <<state, currentTerm, votedFor, votes>>
  BY Zenon DEF ReplicateToPeer, serverVars
<1>2. NoNewVote
  BY SMTT(30) DEF ReplicateToPeer, Send, NoNewVote
<1>3. \A k \in Server : Quiet(k)
  BY <1>1, Zenon DEF Quiet
<1> QED BY <1>1, <1>2, <1>3, QuietStep, SameVotes, Zenon DEF ElectionStep

\* A request that may raise the term of its receiver, and then ends its vote and its
\* candidacy: AppendEntries and InstallSnapshot.
LEMMA RaisedTermVotes ==
    ASSUME TypeOK, NEW i \in Server, NEW term \in Nat,
           currentTerm' = [currentTerm EXCEPT ![i] = Larger(term, @)],
           votedFor' = [votedFor EXCEPT ![i] = IF term > currentTerm[i] THEN Nil ELSE @],
           \A k \in Server : k # i => state'[k] = state[k],
           state'[i] = Follower \/ (term <= currentTerm[i] /\ state'[i] = state[i]),
           UNCHANGED votes
    PROVE  VoteStep /\ \A c \in Server : Quiet(c)
<1>1. /\ \A k \in Server : currentTerm[k] \in Nat
      /\ currentTerm'[i] = Larger(term, currentTerm[i])
      /\ votedFor'[i] = IF term > currentTerm[i] THEN Nil ELSE votedFor[i]
      /\ \A k \in Server : k # i => /\ currentTerm'[k] = currentTerm[k]
                                    /\ votedFor'[k] = votedFor[k]
  BY Zenon DEF TypeOK
<1>2. VoteStep
  BY <1>1, SMTT(30) DEF VoteStep, Larger
<1>3. \A c \in Server : Quiet(c)
  BY <1>1, SMTT(30) DEF Quiet, Larger
<1> QED BY <1>2, <1>3, Zenon

\* An AppendEntries clears a vote only together with raising the term.
LEMMA AppendEntriesHandlerVotes ==
    ASSUME TypeOK, NEW m \in rpcs, AppendEntriesHandler(m)
    PROVE  ElectionStep
<1> DEFINE i == m.to
<1>1. i \in Server /\ m.Term \in Nat /\ currentTerm[i] \in Nat
  BY MessageFields, Zenon DEF TypeOK
<1>2. /\ currentTerm' = [currentTerm EXCEPT ![i] = Larger(m.Term, @)]
      /\ votedFor' = [votedFor EXCEPT ![i] = IF m.Term > currentTerm[i] THEN Nil ELSE @]
      /\ state' = [state EXCEPT ![i] = IF m.Term >= currentTerm[i] THEN Follower ELSE @]
      /\ UNCHANGED votes
  BY Zenon DEF AppendEntriesHandler
<1>3. /\ \A k \in Server : k # i => state'[k] = state[k]
      /\ state'[i] = Follower \/ (m.Term <= currentTerm[i] /\ state'[i] = state[i])
  BY <1>1, <1>2, SMTT(30) DEF TypeOK
<1>4. VoteStep /\ \A c \in Server : Quiet(c)
  BY <1>1, <1>2, <1>3, RaisedTermVotes, Zenon
<1>5. NoNewVote
  BY SMTT(30) DEF AppendEntriesHandler, AppendEntriesReplyTo, ReplyRepeated, Reply, NoNewVote
<1> QED BY <1>4, <1>5, QuietStep, Zenon DEF ElectionStep

\* An acknowledgement casts no vote.
LEMMA AppendEntriesReplyVotes ==
    ASSUME TypeOK, NEW m \in rpcs, AppendEntriesReply(m)
    PROVE  ElectionStep
<1>1. m.to \in Server /\ m.Term \in Nat
  BY MessageFields, Zenon DEF TypeOK
<1>2. NoNewVote
  BY Zenon DEF AppendEntriesReply, Receive, NoNewVote
<1>3. CASE m.Term > currentTerm[m.to] /\ StepDown(m.to, m.Term)
  BY <1>1, <1>2, <1>3, StepDownVotes, QuietStep, Zenon DEF ElectionStep
<1>4. CASE UNCHANGED <<state, currentTerm, votedFor, votes>>
  <2>1. \A k \in Server : Quiet(k)
    BY <1>4, Zenon DEF Quiet
  <2> QED BY <1>2, <1>4, <2>1, QuietStep, SameVotes, Zenon DEF ElectionStep
<1> QED BY <1>3, <1>4, Zenon DEF AppendEntriesReply, serverVars

\* An InstallSnapshot clears a vote only together with raising the term.
LEMMA InstallSnapshotVotes ==
    ASSUME TypeOK, NEW m \in rpcs, InstallSnapshot(m)
    PROVE  ElectionStep
<1> DEFINE i == m.to
<1>1. i \in Server /\ m.Term \in Nat /\ currentTerm[i] \in Nat
  BY MessageFields, Zenon DEF TypeOK
<1>2. /\ currentTerm' = [currentTerm EXCEPT ![i] = Larger(m.Term, @)]
      /\ votedFor' = [votedFor EXCEPT ![i] = IF m.Term > currentTerm[i] THEN Nil ELSE @]
      /\ state' = [state EXCEPT ![i] = IF m.Term > currentTerm[i] THEN Follower ELSE @]
      /\ UNCHANGED votes
  BY Zenon DEF InstallSnapshot
<1>3. /\ \A k \in Server : k # i => state'[k] = state[k]
      /\ state'[i] = Follower \/ (m.Term <= currentTerm[i] /\ state'[i] = state[i])
  BY <1>1, <1>2, SMTT(30) DEF TypeOK
<1>4. VoteStep /\ \A c \in Server : Quiet(c)
  BY <1>1, <1>2, <1>3, RaisedTermVotes, Zenon
<1>5. NoNewVote
  BY SMTT(30) DEF InstallSnapshot, ReplyRepeated, Reply, NoNewVote
<1> QED BY <1>4, <1>5, QuietStep, Zenon DEF ElectionStep

\* Its reply casts no vote.
LEMMA InstallSnapshotReplyVotes ==
    ASSUME TypeOK, NEW m \in rpcs, InstallSnapshotReply(m)
    PROVE  ElectionStep
<1>1. m.to \in Server /\ m.Term \in Nat
  BY MessageFields, Zenon DEF TypeOK
<1>2. NoNewVote
  BY Zenon DEF InstallSnapshotReply, Receive, NoNewVote
<1>3. CASE m.Term > currentTerm[m.to] /\ StepDown(m.to, m.Term)
  BY <1>1, <1>2, <1>3, StepDownVotes, QuietStep, Zenon DEF ElectionStep
<1>4. CASE UNCHANGED <<state, currentTerm, votedFor, votes>>
  <2>1. \A k \in Server : Quiet(k)
    BY <1>4, Zenon DEF Quiet
  <2> QED BY <1>2, <1>4, <2>1, QuietStep, SameVotes, Zenon DEF ElectionStep
<1> QED BY <1>3, <1>4, Zenon DEF InstallSnapshotReply, serverVars

\* Compaction, on the service's demand or of a received snapshot, leaves votes alone.
LEMMA CompactionVotes ==
    ASSUME TypeOK, NEW i \in Server,
           (\E s \in handed[i] : CondInstallSnapshot(i, s)) \/ (\E index : Snapshot(i, index))
    PROVE  ElectionStep
<1>1. UNCHANGED <<state, currentTerm, votedFor, votes, rpcs>>
  BY Zenon DEF CondInstallSnapshot, Snapshot, Compact, serverVars
<1>2. NoNewVote /\ \A k \in Server : Quiet(k)
  BY <1>1, Zenon DEF NoNewVote, Quiet
<1> QED BY <1>1, <1>2, QuietStep, SameVotes, Zenon DEF ElectionStep

\* A restart reads back the term and the vote that were saved: here DurableState is needed.
LEMMA RestartVotes ==
    ASSUME StorageInv, NEW i \in Server, Restart(i)
    PROVE  ElectionStep
<1>1. UNCHANGED <<currentTerm, votedFor>>
  BY Zenon DEF StorageInv, TypeOK, DurableState, Restart
<1>2. NoNewVote
  BY Zenon DEF Restart, NoNewVote
<1>3. \A k \in Server : Quiet(k)
  BY <1>1, Zenon DEF Restart, StorageInv, TypeOK, Quiet
<1> QED BY <1>1, <1>2, <1>3, QuietStep, SameVotes, Zenon DEF ElectionStep, StorageInv

\* A lost message casts no vote.
LEMMA LoseVotes ==
    ASSUME TypeOK, NEW m \in rpcs, Lose(m)
    PROVE  ElectionStep
<1>1. UNCHANGED <<state, currentTerm, votedFor, votes>> /\ rpcs' \subseteq rpcs
  BY Zenon DEF Lose, Receive, serverVars
<1>2. NoNewVote /\ \A k \in Server : Quiet(k)
  BY <1>1, Zenon DEF NoNewVote, Quiet
<1> QED BY <1>1, <1>2, QuietStep, SameVotes, Zenon DEF ElectionStep

\* Every step of Raft casts only ballots that it may, and keeps terms and votes.
LEMMA NextVotes ==
    ASSUME StorageInv, [Next]_vars
    PROVE  ElectionStep
<1>0. TypeOK
  BY Zenon DEF StorageInv
<1>1. ASSUME NEW i \in Campaigning, NEW asked, Election(i, asked) PROVE ElectionStep
  BY <1>0, <1>1, ElectionVotes, BoundAssumption, Zenon
<1>2. ASSUME NEW i \in Server, NEW j \in Server, NEW term, RequestVote(i, j, term)
      PROVE  ElectionStep
  BY <1>0, <1>2, RequestVoteVotes, Zenon
<1>3. ASSUME NEW m \in rpcs, RequestVoteHandle(m) PROVE ElectionStep
  BY <1>0, <1>3, RequestVoteHandleVotes, Zenon
<1>4. ASSUME NEW m \in rpcs, RequestVoteReply(m) PROVE ElectionStep
  BY <1>0, <1>4, RequestVoteReplyVotes, Zenon
<1>5. ASSUME NEW i \in Server, NEW c, Start(i, c) PROVE ElectionStep
  BY <1>0, <1>5, StartVotes, Zenon
<1>6. ASSUME NEW i \in Server, NEW j \in Server, ReplicateToPeer(i, j) PROVE ElectionStep
  BY <1>0, <1>6, ReplicateToPeerVotes, Zenon
<1>7. ASSUME NEW m \in rpcs, AppendEntriesHandler(m) PROVE ElectionStep
  BY <1>0, <1>7, AppendEntriesHandlerVotes, Zenon
<1>8. ASSUME NEW m \in rpcs, AppendEntriesReply(m) PROVE ElectionStep
  BY <1>0, <1>8, AppendEntriesReplyVotes, Zenon
<1>9. ASSUME NEW m \in rpcs, InstallSnapshot(m) PROVE ElectionStep
  BY <1>0, <1>9, InstallSnapshotVotes, Zenon
<1>10. ASSUME NEW m \in rpcs, InstallSnapshotReply(m) PROVE ElectionStep
  BY <1>0, <1>10, InstallSnapshotReplyVotes, Zenon
<1>11. ASSUME NEW i \in Server,
              (\E s \in handed[i] : CondInstallSnapshot(i, s)) \/ (\E index : Snapshot(i, index))
       PROVE  ElectionStep
  BY <1>0, <1>11, CompactionVotes, Zenon
<1>12. ASSUME NEW i \in Crashing, Restart(i) PROVE ElectionStep
  BY <1>12, RestartVotes, BoundAssumption, Zenon
<1>13. ASSUME NEW m \in rpcs, Lose(m) PROVE ElectionStep
  BY <1>0, <1>13, LoseVotes, Zenon
<1>14. CASE UNCHANGED vars
  <2>1. UNCHANGED <<state, currentTerm, votedFor, votes, rpcs>>
    BY <1>14, Zenon DEF vars, serverVars
  <2>2. NoNewVote /\ \A k \in Server : Quiet(k)
    BY <2>1, Zenon DEF NoNewVote, Quiet
  <2> QED BY <1>0, <2>1, <2>2, QuietStep, SameVotes, Zenon DEF ElectionStep
<1> QED BY <1>1, <1>2, <1>3, <1>4, <1>5, <1>6, <1>7, <1>8, <1>9, <1>10, <1>11, <1>12, <1>13,
           <1>14, Zenon DEF Next

-----------------------------------------------------------------------------

\* The invariant holds initially: no votes, no leaders.
LEMMA ElectionInvInit == Init => ElectionInv
<1> SUFFICES ASSUME Init PROVE ElectionInv
  BY Zenon
<1>1. rpcs = {} /\ \A i \in Server : state[i] = Follower
  BY Zenon DEF Init
<1>2. \A v, c \in Server : \A t \in Nat : ~ Ballot(v, t, c)
  BY <1>1, Zenon DEF Ballot
<1>3. LeaderQuorum
  BY <1>1, Zenon DEF LeaderQuorum, Follower, Leader
<1> QED BY <1>2, <1>3, InitStorage, Zenon DEF ElectionInv, BallotVoted, BallotUnique

\* Every step keeps the invariant.
LEMMA ElectionInvNext == ElectionInv /\ [Next]_vars => ElectionInv'
<1> SUFFICES ASSUME ElectionInv, [Next]_vars PROVE ElectionInv'
  BY Zenon
<1>1. StorageInv /\ StorageInv' /\ ElectionStep
  BY NextStorage, NextVotes, Zenon DEF ElectionInv
<1>2. TypeOK /\ TypeOK'
  BY <1>1, Zenon DEF StorageInv
<1>3. BallotVoted' /\ BallotUnique'
  BY <1>1, <1>2, BallotsKept, Zenon DEF ElectionInv, ElectionStep
<1>4. LeaderQuorum'
  BY <1>1, Zenon DEF ElectionInv, ElectionStep, QuorumStep, LeaderQuorum, Majority
<1> QED BY <1>1, <1>3, <1>4, Zenon DEF ElectionInv

\* Two leaders of one term share a voter, whose ballot of that term went to one server.
LEMMA OneLeader == ElectionInv => ElectionSafety
<1> SUFFICES ASSUME ElectionInv, NEW i \in Server, NEW j \in Server, state[i] = Leader,
                    state[j] = Leader, currentTerm[i] = currentTerm[j]
             PROVE  i = j
  BY Zenon DEF ElectionSafety
<1>1. /\ votes[i] \subseteq Server /\ votes[j] \subseteq Server /\ currentTerm[i] \in Nat
      /\ Majority(votes[i]) /\ Majority(votes[j])
  BY Zenon DEF ElectionInv, StorageInv, TypeOK, LeaderQuorum
<1>2. IsFiniteSet(Server)
  BY ServerAssumption, Zenon
<1>3. Cardinality(Server) \in Nat /\ Cardinality(votes[i]) \in Nat /\ Cardinality(votes[j]) \in Nat
  BY <1>1, <1>2, FS_Subset, FS_CardinalityType, Zenon
<1>4. Cardinality(votes[i]) + Cardinality(votes[j]) > Cardinality(Server)
  BY <1>1, <1>3, SMTT(30) DEF Majority
<1>5. votes[i] \intersect votes[j] # {}
  BY <1>1, <1>2, <1>4, FS_MajoritiesIntersect, Zenon
<1>6. PICK v \in Server : v \in votes[i] /\ v \in votes[j]
  BY <1>1, <1>5, Zenon
<1>7. Ballot(v, currentTerm[i], i) /\ Ballot(v, currentTerm[i], j)
  BY <1>6, Zenon DEF Ballot, Leader, Follower
<1> QED BY <1>1, <1>7, Zenon DEF ElectionInv, BallotUnique

\* At most one server leads in a term: for any number of servers, with any messages lost,
\* repeated or delayed and any crashes.
THEOREM ElectionIsSafe == Spec => []ElectionSafety
BY ElectionInvInit, ElectionInvNext, OneLeader, PTL DEF Spec

\* A server never lowers its term or changes a vote within one, restarts included.
THEOREM VotesKept == Spec => VotesAreKept
<1>1. Spec => []StorageInv
  BY InitStorage, NextStorage, PTL DEF Spec
<1>2. StorageInv /\ [Next]_vars => VoteStep
  BY NextVotes, Zenon DEF ElectionStep
<1>3. VoteStep => [\A i \in Server :
                     /\ currentTerm'[i] >= currentTerm[i]
                     /\ currentTerm'[i] = currentTerm[i] /\ votedFor[i] # Nil
                           => votedFor'[i] = votedFor[i]]_vars
  BY Zenon DEF VoteStep
<1> QED BY <1>1, <1>2, <1>3, PTL DEF Spec, VotesAreKept
=============================================================================
