--------------------------- MODULE RaftLogActions ---------------------------
(***************************************************************************)
(* The steps of Raft that replicate, commit and compact entries: each      *)
(* leads from a state that a history explains (RaftInvariants) to one that *)
(* a history explains.  RaftLogSteps has the steps of elections.           *)
(***************************************************************************)
EXTENDS RaftLogSteps

-----------------------------------------------------------------------------
(* What leaders send and commit, and what servers compact. *)

\* A stored snapshot is committed.
LEMMA StoredSnapshot ==
    ASSUME NEW h, h \in History, StorageInv, Explains(h), NEW i \in Server
    PROVE  SnapshotOf(h, currentTerm[i], persister[i].snapshot, lastIncludedTerm[i])
<1> DEFINE snapshot == persister[i].snapshot
           log == FullLog(i)
<1>1. LogOf(h, i) /\ CommitOf(h, i)
  BY Zenon DEF Explains
<1>2. /\ snapshot \in Seq(Entry) /\ Len(snapshot) = lastIncludedIndex[i]
      /\ currentTerm[i] \in Nat /\ commitIndex[i] \in Nat
  BY Zenon DEF StorageInv, TypeOK, Saved, SnapshotLength
<1>3. /\ log \in Seq(Entry) /\ Len(log) \in Nat /\ lastIncludedIndex[i] \in Nat
      /\ lastIncludedIndex[i] <= Len(log)
      /\ \A n \in 1..Len(log) :
            log[n] = IF n <= lastIncludedIndex[i] THEN snapshot[n]
                     ELSE logs[i][n - lastIncludedIndex[i]]
  BY FullLogType, Zenon
<1> HIDE DEF snapshot, log
<1>4. Holds(snapshot, log, Len(snapshot))
  BY <1>2, <1>3, SMTT(30) DEF Holds
<1>5. Lineage(h, snapshot)
  BY <1>1, <1>2, <1>3, <1>4, LineagePrefix, Zenon DEF LogOf, log
<1>6. CommittedBy(h, currentTerm[i], snapshot, Len(snapshot))
  BY <1>1, <1>2, <1>3, <1>4, CommittedPrefix, SMTT(30) DEF CommitOf, log
<1>7. lastIncludedTerm[i] = LastTerm(snapshot)
  BY <1>1, Zenon DEF CommitOf, snapshot
<1> QED BY <1>5, <1>6, <1>7, Zenon DEF SnapshotOf, snapshot

\* A leader sends pieces of its term's log, its committed snapshot, and what it committed.
LEMMA ReplicateToPeerExplained ==
    ASSUME NEW h, Explained(h), NEW i \in Server, NEW j \in Server, ReplicateToPeer(i, j)
    PROVE  Explains(h)'
<1>1. Step(h, h) /\ StorageInv /\ Explains(h) /\ h \in History
  BY SameHistory, Zenon DEF Explained, ElectionInv
<1>2. /\ UNCHANGED <<state, currentTerm, votedFor, logs, lastIncludedIndex, lastIncludedTerm>>
      /\ UNCHANGED <<commitIndex, matchIndex, votes, asking, handed, persister>>
      /\ state[i] = Leader
  BY Zenon DEF ReplicateToPeer, serverVars, logVars, leaderVars
<1>3. \A k \in Server : Steady(k) /\ FullLog(k)' = FullLog(k)
  BY <1>2, Zenon DEF Steady, FullLog
<1>4. \A k \in Server : CommitOf(h, k)' /\ MatchOf(h, k)'
  BY <1>1, <1>2, <1>3, CommitOfStep, MatchOfStep, Zenon
<1>5. NoNewBallot
  <2>1. NoNewVote
    BY SMTT(30) DEF ReplicateToPeer, Send, NoNewVote
  <2>2. \A k \in Server : Quiet(k)
    BY <1>2, Zenon DEF Quiet
  <2> QED BY <2>1, <2>2, QuietBallots, Zenon
<1>6. /\ currentTerm[i] \in Nat /\ lastIncludedIndex[i] \in Nat /\ nextIndex[i][j] \in Nat
      /\ commitIndex[i] \in Nat
  BY <1>1, Zenon DEF StorageInv, TypeOK
<1>7. CASE nextIndex[i][j] <= lastIncludedIndex[i]
  <2>1. PICK m : m = [type |-> "InstallSnapshot", from |-> i, to |-> j,
                      Term |-> currentTerm[i],
                      LastIncludedIndex |-> lastIncludedIndex[i],
                      LastIncludedTerm |-> lastIncludedTerm[i],
                      Data |-> persister[i].snapshot]
    BY Zenon
  <2>2. rpcs' = rpcs \union {m}
    BY <1>7, <2>1, Zenon DEF ReplicateToPeer, Send
  <2>3. SnapshotOf(h, m.Term, m.Data, m.LastIncludedTerm)
    BY <1>1, <2>1, StoredSnapshot, Zenon
  <2>4. MessageOf(h, m)'
    BY <2>1, <2>3, Zenon DEF MessageOf
  <2> QED BY <1>1, <1>2, <1>3, <1>4, <1>5, <2>2, <2>4, SteadyStep, Zenon
<1>8. CASE ~ (nextIndex[i][j] <= lastIncludedIndex[i])
  <2> DEFINE prev == nextIndex[i][j] - 1
             log == FullLog(i)
  <2>1. PICK m : m = [type |-> "AppendEntries", from |-> i, to |-> j,
                      Term |-> currentTerm[i],
                      PrevLogIndex |-> nextIndex[i][j] - 1,
                      PrevLogTerm |-> termAt(i, nextIndex[i][j] - 1),
                      Entries |-> EntriesAfter(i, nextIndex[i][j] - 1),
                      LeaderCommitIndex |-> commitIndex[i],
                      LeaderCommitTerm |-> termAt(i, commitIndex[i])]
    BY Zenon
  <2>2. rpcs' = rpcs \union {m}
    BY <1>8, <2>1, Zenon DEF ReplicateToPeer, Send
  <2>3. prev \in Nat /\ lastIncludedIndex[i] <= prev
    BY <1>6, <1>8, SMTT(30)
  <2>4. h.leader[currentTerm[i]] = i /\ h.log[currentTerm[i]] = log
    BY <1>1, <1>2, Zenon DEF Explains, RoleOf
  <2>5. Elected(h, currentTerm[i])
    BY <2>4, ServerAssumption, Zenon DEF Elected
  <2>6. CommittedBy(h, currentTerm[i], log, commitIndex[i])
    BY <1>1, Zenon DEF Explains, CommitOf
  <2>7. /\ m.Term = currentTerm[i] /\ m.PrevLogIndex = prev /\ m.PrevLogTerm = termAt(i, prev)
        /\ m.Entries = EntriesAfter(i, prev) /\ m.LeaderCommitIndex = commitIndex[i]
        /\ m.type = "AppendEntries"
    BY <2>1, Zenon
  <2> HIDE DEF prev
  <2>8. ASSUME m.PrevLogTerm # -1
        PROVE  /\ m.PrevLogIndex + Len(m.Entries) <= Len(log)
               /\ \A k \in 1..Len(m.Entries) : m.Entries[k] = log[m.PrevLogIndex + k]
               /\ m.PrevLogTerm = IF m.PrevLogIndex = 0 THEN 0 ELSE log[m.PrevLogIndex].Term
    <3>1. lastIncludedTerm[i] = LastTerm(persister[i].snapshot)
      BY <1>1, Zenon DEF Explains, CommitOf
    <3>2. Len(log) \in Nat
      BY <1>1, FullLogType, Zenon
    <3>3. prev <= Len(log)
      BY <1>1, <2>3, <2>7, <2>8, <3>1, <3>2, TermAtLog, SMTT(30)
    <3>4. termAt(i, prev) = IF prev = 0 THEN 0 ELSE log[prev].Term
      BY <1>1, <2>3, <3>1, <3>3, TermAtLog, Zenon
    <3>5. /\ Len(EntriesAfter(i, prev)) = Len(log) - prev
          /\ \A k \in 1..(Len(log) - prev) : EntriesAfter(i, prev)[k] = log[prev + k]
      BY <1>1, <2>3, <3>3, EntriesAfterLog, Zenon
    <3> QED BY <2>3, <2>7, <3>2, <3>3, <3>4, <3>5, SMTT(30)
  <2> HIDE DEF log
  <2>9. AppendOf(h, m)
    BY <2>4, <2>5, <2>6, <2>7, <2>8, Zenon DEF AppendOf
  <2>10. MessageOf(h, m)'
    BY <2>7, <2>9, Zenon DEF MessageOf
  <2> QED BY <1>1, <1>2, <1>3, <1>4, <1>5, <2>2, <2>10, SteadyStep, Zenon
<1> QED BY <1>7, <1>8, Zenon

\* An entry that the leader counts as replicated to a majority was held by one.
LEMMA AdvanceChosen ==
    ASSUME NEW h, h \in History, StorageInv, Explains(h), NEW i \in Server, state[i] = Leader,
           NEW acks \in [Server -> Nat],
           \A j \in Server : acks[j] <= commitIndex[i] \/ acks[j] <= h.held[j][currentTerm[i]]
    PROVE  LET n == AdvanceCommitIndex(i, acks)
           IN  /\ n \in Nat /\ n >= commitIndex[i]
               /\ CommittedBy(h, currentTerm[i], FullLog(i), n)
<1> DEFINE n == AdvanceCommitIndex(i, acks)
           t == currentTerm[i]
           ready == Committable(i, acks)
<1>1. t \in Nat /\ commitIndex[i] \in Nat /\ lastIncludedIndex[i] \in Nat /\ TypeOK
  BY Zenon DEF StorageInv, TypeOK
<1>2. CommitOf(h, i) /\ RoleOf(h, i)
  BY Zenon DEF Explains
<1>3. /\ h.log[t] = FullLog(i) /\ h.held[i][t] = Len(FullLog(i))
  BY <1>2, Zenon DEF RoleOf
<1>4. /\ FullLog(i) \in Seq(Entry) /\ Len(FullLog(i)) = lastIndex(i) /\ Len(FullLog(i)) \in Nat
  BY FullLogType, Zenon
<1>5. CASE ready = {}
  <2>1. n = commitIndex[i]
    BY <1>5, Zenon DEF AdvanceCommitIndex
  <2> QED BY <1>1, <1>2, <2>1, SMTT(30) DEF CommitOf
<1>6. CASE ready # {}
  <2>1. n \in ready
    <3>1. ready \subseteq 0..lastIndex(i)
      BY <1>1, <1>4, SMTT(30) DEF Committable
    <3>2. \E k \in ready : \A l \in ready : k >= l
      BY <1>4, <1>6, <3>1, Ordered, GreatestNatural, Zenon
    <3> QED BY <1>6, <3>2, Zenon DEF AdvanceCommitIndex
  <2>2. /\ n \in (commitIndex[i] + 1)..lastIndex(i) /\ termAt(i, n) = t
        /\ Majority({i} \union {j \in Server : acks[j] >= n})
    BY <2>1, Zenon DEF Committable
  <2> HIDE DEF n
  <2>3. n \in Nat /\ n > commitIndex[i] /\ n > 0 /\ n <= Len(FullLog(i))
    BY <1>1, <1>4, <2>2, SMTT(30)
  <2>4. FullLog(i)[n].Term = t
    <3>1. lastIncludedIndex[i] <= n /\ lastIncludedTerm[i] = LastTerm(persister[i].snapshot)
      BY <1>1, <1>2, <2>3, SMTT(30) DEF CommitOf
    <3> QED BY <2>2, <2>3, <3>1, TermAtLog, SMTT(30)
  <2>5. Own(h, t, n)
    BY <1>3, <1>4, <2>3, <2>4, SMTT(30) DEF Own
  <2>6. Majority({u \in Server : h.held[u][t] >= n})
    <3>1. \A u \in Server : h.held[u][t] \in Nat /\ acks[u] \in Nat
      BY <1>1, HistoryTypes, Zenon
    <3>2. {i} \union {j \in Server : acks[j] >= n} \subseteq {u \in Server : h.held[u][t] >= n}
      BY <1>1, <1>3, <2>3, <3>1, SMTT(30)
    <3> QED BY <2>2, <3>2, QuorumGrows, Zenon
  <2>7. Holds(FullLog(i), h.log[t], n)
    BY <1>3, <2>3, Zenon DEF Holds
  <2>8. CommittedBy(h, t, FullLog(i), n)
    <3>1. Chosen(h, t, n) /\ t \in 0..t /\ n <= n
      BY <1>1, <2>3, <2>5, <2>6, SMTT(30) DEF Chosen
    <3> QED BY <2>3, <2>7, <3>1, Zenon DEF CommittedBy
  <2> QED BY <1>1, <2>3, <2>8, SMTT(30) DEF n
<1> QED BY <1>5, <1>6, Zenon

\* A leader commits what a majority has acknowledged.
LEMMA AppendEntriesReplyExplained ==
    ASSUME NEW h, Explained(h), NEW m \in rpcs, AppendEntriesReply(m)
    PROVE  Explains(h)'
<1> DEFINE i == m.to
           j == m.from
           acks == [matchIndex[i] EXCEPT ![j] = Larger(@, m.Matched)]
<1>1. Step(h, h) /\ StorageInv /\ Explains(h) /\ h \in History /\ TypeOK
  BY SameHistory, Zenon DEF Explained, ElectionInv, StorageInv
<1>2. /\ i \in Server /\ j \in Server /\ m.type = "AppendEntriesReply" /\ m.Matched \in Nat
      /\ m.term \in Nat /\ rpcs' \subseteq rpcs
  BY <1>1, MessageFields, Zenon DEF AppendEntriesReply, TypeOK, Receive
<1>3. CASE StepDown(i, m.Term)
  BY <1>2, <1>3, StepDownExplained, Zenon
<1>4. CASE ~ StepDown(i, m.Term)
  <2>1. /\ state[i] = Leader /\ m.term = currentTerm[i]
        /\ UNCHANGED <<state, currentTerm, votedFor, logs, lastIncludedIndex, lastIncludedTerm>>
        /\ UNCHANGED <<asking, votes, handed, persister>>
    BY <1>4, Zenon DEF AppendEntriesReply, serverVars, logVars
  <2>2. NoNewBallot
    BY <1>2, <2>1, Zenon DEF NoNewBallot, Ballot
  <2>3. \A k \in Server : Steady(k) /\ FullLog(k)' = FullLog(k)
    BY <2>1, Zenon DEF Steady, FullLog
  <2>4. ASSUME \A k \in Server : CommitOf(h, k)' /\ MatchOf(h, k)'
        PROVE  Explains(h)'
    BY <1>1, <1>2, <2>1, <2>2, <2>3, <2>4, SteadyStep, Zenon
  <2>5. CASE m.Success
    <3>1. /\ matchIndex' = [matchIndex EXCEPT ![i] = acks]
          /\ commitIndex' = [commitIndex EXCEPT ![i] = AdvanceCommitIndex(i, acks)]
      BY <1>4, <2>5, Zenon DEF AppendEntriesReply
    <3>2. /\ matchIndex[i] \in [Server -> Nat] /\ matchIndex'[i] = acks
          /\ commitIndex'[i] = AdvanceCommitIndex(i, acks)
          /\ \A k \in Server : k # i => /\ matchIndex'[k] = matchIndex[k]
                                        /\ commitIndex'[k] = commitIndex[k]
      BY <1>1, <1>2, <3>1, Zenon DEF TypeOK
    <3>3. /\ acks \in [Server -> Nat]
          /\ \A k \in Server : acks[k] = matchIndex[i][k] \/ (k = j /\ acks[k] = m.Matched)
      BY <1>2, <3>2, Zenon DEF Larger
    <3>4. m.Matched <= h.held[j][currentTerm[i]]
      BY <1>1, <1>2, <2>1, <2>5, Zenon DEF Explains, MessageOf
    <3>5. \A k \in Server : acks[k] <= commitIndex[i] \/ acks[k] <= h.held[k][currentTerm[i]]
      BY <1>1, <1>2, <2>1, <3>3, <3>4, Zenon DEF Explains, MatchOf
    <3> HIDE DEF acks
    <3>6. /\ commitIndex'[i] \in Nat /\ commitIndex'[i] >= commitIndex[i]
          /\ CommittedBy(h, currentTerm[i], FullLog(i), commitIndex'[i])
      BY <1>1, <1>2, <2>1, <3>2, <3>3, <3>5, AdvanceChosen, SMTT(30)
    <3>7. ASSUME NEW k \in Server PROVE CommitOf(h, k)'
      <4>1. CASE k # i
        BY <1>1, <2>1, <2>3, <3>2, <4>1, CommitOfStep, Zenon
      <4>2. CASE k = i
        <5>1. CommittedBy(h, currentTerm'[i], FullLog(i)', commitIndex'[i])
          BY <1>2, <2>1, <2>3, <3>6, Zenon
        <5>2. /\ lastIncludedIndex[i] <= commitIndex[i]
              /\ lastIncludedTerm[i] = LastTerm(persister[i].snapshot)
          BY <1>1, <1>2, Zenon DEF Explains, CommitOf
        <5>3. lastIncludedIndex'[i] <= commitIndex'[i]
          <6>1. lastIncludedIndex[i] \in Nat /\ commitIndex[i] \in Nat
            BY <1>1, <1>2, Zenon DEF TypeOK
          <6> HIDE DEF i
          <6> QED BY <2>1, <3>6, <5>2, <6>1, SMTT(30)
        <5>4. lastIncludedTerm'[i] = LastTerm(persister'[i].snapshot) /\ handed'[i] = handed[i]
          BY <2>1, <5>2, Zenon
        <5> QED BY <1>1, <1>2, <4>2, <5>1, <5>3, <5>4, CommitOfChange, Zenon
      <4> QED BY <4>1, <4>2, Zenon
    <3>8. ASSUME NEW k \in Server PROVE MatchOf(h, k)'
      <4>1. CASE k # i
        BY <1>1, <2>1, <3>2, <4>1, MatchOfStep, Zenon
      <4>2. CASE k = i
        <5>1. \A l \in Server : acks[l] \in Nat /\ commitIndex[i] \in Nat
          BY <1>1, <1>2, <3>3, Zenon DEF TypeOK
        <5>2. \A l \in Server : acks[l] <= commitIndex'[i] \/ acks[l] <= h.held[l][currentTerm[i]]
          BY <3>5, <3>6, <5>1, SMTT(30)
        <5> QED BY <2>1, <3>2, <4>2, <5>2, Zenon DEF MatchOf
      <4> QED BY <4>1, <4>2, Zenon
    <3> QED BY <2>4, <3>7, <3>8, Zenon
  <2>6. CASE ~ m.Success
    <3>1. UNCHANGED <<matchIndex, commitIndex>>
      BY <1>4, <2>6, Zenon DEF AppendEntriesReply
    <3>2. \A k \in Server : CommitOf(h, k)' /\ MatchOf(h, k)'
      BY <1>1, <2>1, <2>3, <3>1, CommitOfStep, MatchOfStep, Zenon
    <3> QED BY <2>4, <3>2, Zenon
  <2> QED BY <2>5, <2>6, Zenon
<1> QED BY <1>3, <1>4, Zenon

\* A leader takes a snapshot it sent for acknowledged up to what it has committed.
LEMMA InstallSnapshotReplyExplained ==
    ASSUME NEW h, Explained(h), NEW m \in rpcs, InstallSnapshotReply(m)
    PROVE  Explains(h)'
<1> DEFINE i == m.to
<1>1. Step(h, h) /\ StorageInv /\ Explains(h) /\ h \in History /\ TypeOK
  BY SameHistory, Zenon DEF Explained, ElectionInv, StorageInv
<1>2. i \in Server /\ m.from \in Server /\ rpcs' \subseteq rpcs
  BY <1>1, MessageFields, Zenon DEF InstallSnapshotReply, TypeOK, Receive
<1>3. CASE StepDown(i, m.Term)
  BY <1>2, <1>3, StepDownExplained, Zenon
<1>4. CASE ~ StepDown(i, m.Term)
  <2>1. /\ UNCHANGED <<state, currentTerm, votedFor, logs, lastIncludedIndex, lastIncludedTerm>>
        /\ UNCHANGED <<commitIndex, asking, votes, handed, persister>>
        /\ matchIndex' = [matchIndex EXCEPT ![i][m.from] = lastIncludedIndex[i]]
    BY <1>4, Zenon DEF InstallSnapshotReply, AckedBySnapshot, serverVars, logVars
  <2>2. NoNewBallot
    BY <1>2, <2>1, Zenon DEF NoNewBallot, Ballot
  <2>3. \A k \in Server : Steady(k) /\ FullLog(k)' = FullLog(k)
    BY <2>1, Zenon DEF Steady, FullLog
  <2>4. \A k \in Server : CommitOf(h, k)'
    BY <1>1, <2>1, <2>3, CommitOfStep, Zenon
  <2>5. ASSUME NEW k \in Server PROVE MatchOf(h, k)'
    <3>1. CASE k # i
      <4>1. matchIndex'[k] = matchIndex[k]
        BY <1>1, <2>1, <3>1, Zenon DEF TypeOK
      <4> QED BY <1>1, <2>1, <4>1, MatchOfStep, Zenon
    <3>2. CASE k = i
      <4>1. \A l \in Server : matchIndex'[i][l] = IF l = m.from THEN lastIncludedIndex[i]
                                                  ELSE matchIndex[i][l]
        BY <1>1, <1>2, <2>1, Zenon DEF TypeOK
      <4>2. lastIncludedIndex[i] <= commitIndex[i] /\ MatchOf(h, i)
        BY <1>1, <1>2, Zenon DEF Explains, CommitOf
      <4> QED BY <2>1, <3>2, <4>1, <4>2, Zenon DEF MatchOf
    <3> QED BY <3>1, <3>2, Zenon
  <2> QED BY <1>1, <1>2, <2>1, <2>2, <2>3, <2>4, <2>5, SteadyStep, Zenon
<1> QED BY <1>3, <1>4, Zenon

\* A follower hands over a snapshot of a leader that is not behind its term.
LEMMA InstallSnapshotExplained ==
    ASSUME NEW h, Explained(h), NEW m \in rpcs, InstallSnapshot(m)
    PROVE  Explains(h)'
<1> DEFINE i == m.to
<1>1. Step(h, h) /\ StorageInv /\ Explains(h) /\ h \in History /\ TypeOK
  BY SameHistory, Zenon DEF Explained, ElectionInv, StorageInv
<1>2. /\ i \in Server /\ m.Term \in Nat /\ m.type = "InstallSnapshot" /\ currentTerm[i] \in Nat
      /\ state[i] \in {Follower, Candidate, Leader}
  BY <1>1, MessageFields, Zenon DEF InstallSnapshot, TypeOK
<1>3. PICK reply : reply = [type |-> "InstallSnapshotReply", from |-> i, to |-> m.from,
                            Term |-> currentTerm[i]]
  BY Zenon
<1>4. rpcs' \subseteq rpcs \union {reply}
  BY <1>3, Zenon DEF InstallSnapshot, ReplyRepeated, Reply
<1>5. MessageOf(h, reply)'
  BY <1>3, Zenon DEF MessageOf
<1>6. /\ UNCHANGED <<logs, lastIncludedIndex, lastIncludedTerm>>
      /\ UNCHANGED <<commitIndex, matchIndex, asking, votes>> /\ Saves
      /\ \A k \in Server \ {i} : /\ state'[k] = state[k] /\ currentTerm'[k] = currentTerm[k]
                                 /\ handed'[k] = handed[k]
      /\ currentTerm'[i] = Larger(m.Term, currentTerm[i])
      /\ state'[i] = IF m.Term > currentTerm[i] THEN Follower ELSE state[i]
  BY <1>1, <1>2, Zenon DEF InstallSnapshot, TypeOK, Saves, logVars, leaderVars
<1>7. state'[i] = Follower \/ (state'[i] = state[i] /\ currentTerm'[i] = currentTerm[i])
  BY <1>2, <1>6, Zenon DEF Larger
<1>8. \A k \in Server : Steady(k) /\ Quiet(k)
  BY <1>6, <1>7, Zenon DEF Steady, Quiet
<1>9. NoNewBallot
  <2>1. NoNewVote
    BY <1>3, <1>4, SMTT(30) DEF NoNewVote
  <2> QED BY <1>8, <2>1, QuietBallots, Zenon
<1>10. \A k \in Server : FullLog(k)' = FullLog(k) /\ persister'[k].snapshot = persister[k].snapshot
  BY <1>1, <1>6, LogStays, Zenon
<1>11. ASSUME NEW k \in Server PROVE CommitOf(h, k)'
  <2>1. CASE k # i
    BY <1>1, <1>6, <1>10, <2>1, CommitOfStep, Zenon
  <2>2. CASE k = i
    <3>1. CommitOf(h, i) /\ commitIndex[i] \in Nat
      BY <1>1, <1>2, Zenon DEF Explains, TypeOK
    <3>2. CommittedBy(h, currentTerm'[i], FullLog(i)', commitIndex'[i])
      BY <1>1, <1>2, <1>6, <1>10, <3>1, CommittedStep, SMTT(30)
    <3>3. /\ lastIncludedIndex'[i] <= commitIndex'[i]
          /\ lastIncludedTerm'[i] = LastTerm(persister'[i].snapshot)
      BY <1>2, <1>6, <1>10, <3>1, Zenon DEF CommitOf
    <3>4. ASSUME NEW s \in handed'[i], s \notin handed[i]
          PROVE  SnapshotOf(h, currentTerm'[i], s.Snapshot, s.SnapshotTerm)
      <4>1. /\ m.Term >= currentTerm[i]
            /\ s = [SnapshotIndex |-> m.LastIncludedIndex, SnapshotTerm |-> m.LastIncludedTerm,
                    Snapshot |-> m.Data]
        BY <1>1, <1>2, <3>4, Zenon DEF InstallSnapshot, TypeOK
      <4>2. currentTerm'[i] = m.Term
        BY <1>2, <1>6, <4>1, SMTT(30) DEF Larger
      <4>3. SnapshotOf(h, m.Term, m.Data, m.LastIncludedTerm)
        BY <1>1, <1>2, Zenon DEF Explains, MessageOf
      <4> QED BY <4>1, <4>2, <4>3, Zenon
    <3> QED BY <1>1, <1>2, <2>2, <3>2, <3>3, <3>4, CommitOfChange, Zenon
  <2> QED BY <2>1, <2>2, Zenon
<1>12. ASSUME NEW k \in Server PROVE MatchOf(h, k)'
  <2>1. state'[k] = Leader => state[k] = Leader /\ currentTerm'[k] = currentTerm[k]
    BY <1>8, Zenon DEF Steady, Follower, Leader
  <2> QED BY <1>1, <1>6, <2>1, MatchOfStep, Zenon
<1> QED BY <1>1, <1>4, <1>5, <1>6, <1>8, <1>9, <1>10, <1>11, <1>12, SteadyStep, Zenon

\* Compaction replaces a committed prefix of the log by itself.
LEMMA SnapshotExplained ==
    ASSUME NEW h, Explained(h), NEW i \in Server, NEW index \in Nat, Snapshot(i, index)
    PROVE  Explains(h)'
<1> DEFINE log == FullLog(i)
           data == SubSeq(log, 1, index)
           kept == EntriesAfter(i, index)
<1>1. Step(h, h) /\ StorageInv /\ Explains(h) /\ h \in History /\ TypeOK
  BY SameHistory, Zenon DEF Explained, ElectionInv, StorageInv
<1>2. /\ log \in Seq(Entry) /\ Len(log) = lastIndex(i) /\ Len(log) \in Nat
      /\ lastIncludedIndex[i] \in Nat /\ commitIndex[i] \in Nat
  BY <1>1, FullLogType, Zenon DEF TypeOK
<1>3. /\ index > lastIncludedIndex[i] /\ index <= commitIndex[i] /\ index <= Len(log)
  BY <1>2, Zenon DEF Snapshot
<1>4. /\ UNCHANGED <<state, currentTerm, votedFor, matchIndex, asking, votes, handed, rpcs>>
      /\ logs' = [logs EXCEPT ![i] = kept]
      /\ lastIncludedIndex' = [lastIncludedIndex EXCEPT ![i] = index]
      /\ lastIncludedTerm' = [lastIncludedTerm EXCEPT ![i] = termAt(i, index)]
      /\ commitIndex' = [commitIndex EXCEPT ![i] = Larger(index, @)]
      /\ persistWithSnapshot(i, data)
  BY Zenon DEF Snapshot, Compact, serverVars, leaderVars
<1>5. commitIndex' = commitIndex
  BY <1>1, <1>2, <1>3, <1>4, SMTT(30) DEF TypeOK, Larger
<1>6. /\ persister'[i].snapshot = data /\ logs'[i] = kept /\ lastIncludedIndex'[i] = index
      /\ lastIncludedTerm'[i] = termAt(i, index)
  BY <1>1, <1>4, Zenon DEF TypeOK, persistWithSnapshot
<1>7. ASSUME NEW k \in Server, k # i
      PROVE  /\ persister'[k] = persister[k] /\ logs'[k] = logs[k]
             /\ lastIncludedIndex'[k] = lastIncludedIndex[k]
             /\ lastIncludedTerm'[k] = lastIncludedTerm[k]
  BY <1>1, <1>4, <1>7, Zenon DEF TypeOK, persistWithSnapshot
<1>8. /\ data \in Seq(Entry) /\ Len(data) = index
      /\ \A n \in 1..index : data[n] = log[n]
  <2>1. \A n \in 1..index : log[n] \in Entry
    BY <1>2, <1>3, ElementOfSeq, SMTT(30)
  <2> HIDE DEF log
  <2> QED BY <1>2, <1>3, <2>1, SubSeqProperties, SMTT(30)
<1>9. /\ kept \in Seq(Entry) /\ Len(kept) = Len(log) - index
      /\ \A n \in 1..(Len(log) - index) : kept[n] = log[index + n]
  BY <1>1, <1>2, <1>3, EntriesAfterLog, SMTT(30)
<1>10. lastIncludedTerm[i] = LastTerm(persister[i].snapshot)
  BY <1>1, Zenon DEF Explains, CommitOf
<1>11. termAt(i, index) = IF index = 0 THEN 0 ELSE log[index].Term
  BY <1>1, <1>2, <1>3, <1>10, TermAtLog, SMTT(30)
<1>12. FullLog(i)' = data \o kept
  BY <1>6, Zenon DEF FullLog
<1> HIDE DEF log, data, kept
<1>13. data \o kept = log
  <2>1. /\ data \o kept \in Seq(Entry) /\ Len(data \o kept) = Len(data) + Len(kept)
        /\ \A n \in 1..(Len(data) + Len(kept)) :
              (data \o kept)[n] = IF n <= Len(data) THEN data[n] ELSE kept[n - Len(data)]
    BY <1>8, <1>9, ConcatProperties, Zenon
  <2>2. Len(data \o kept) = Len(log)
    BY <1>2, <1>3, <1>8, <1>9, <2>1, SMTT(30)
  <2>3. ASSUME NEW n \in 1..Len(log) PROVE (data \o kept)[n] = log[n]
    <3>1. CASE n <= index
      BY <1>2, <1>3, <1>8, <1>9, <2>1, <3>1, SMTT(30)
    <3>2. CASE ~ (n <= index)
      <4>1. n - index \in 1..(Len(log) - index) /\ index + (n - index) = n
        BY <1>2, <1>3, <3>2, SMTT(30)
      <4>2. n \in 1..(Len(data) + Len(kept)) /\ ~ (n <= Len(data))
        BY <1>2, <1>3, <1>8, <1>9, <3>2, SMTT(30)
      <4>3. (data \o kept)[n] = kept[n - Len(data)]
        BY <2>1, <4>2, Zenon
      <4> QED BY <1>8, <1>9, <4>1, <4>3, Zenon
    <3> QED BY <3>1, <3>2, Zenon
  <2> QED BY <1>2, <2>1, <2>2, <2>3, SeqEqual, Zenon
<1>14. \A k \in Server : FullLog(k)' = FullLog(k)
  BY <1>7, <1>12, <1>13, Zenon DEF FullLog, log
<1>15. \A k \in Server : Steady(k)
  BY <1>4, Zenon DEF Steady
<1>16. NoNewBallot
  BY <1>4, Zenon DEF NoNewBallot, Ballot
<1>17. ASSUME NEW k \in Server PROVE CommitOf(h, k)'
  <2>1. CASE k # i
    BY <1>1, <1>4, <1>5, <1>7, <1>14, <2>1, CommitOfStep, Zenon
  <2>2. CASE k = i
    <3>1. CommittedBy(h, currentTerm'[i], FullLog(i)', commitIndex'[i])
      BY <1>1, <1>2, <1>5, <1>14, CommittedStep, SMTT(30)
    <3>2. lastIncludedIndex'[i] <= commitIndex'[i]
      BY <1>3, <1>5, <1>6, Zenon
    <3>3. lastIncludedTerm'[i] = LastTerm(persister'[i].snapshot)
      BY <1>2, <1>3, <1>6, <1>8, <1>11, SMTT(30) DEF LastTerm
    <3> QED BY <1>1, <1>4, <2>2, <3>1, <3>2, <3>3, CommitOfChange, Zenon
  <2> QED BY <2>1, <2>2, Zenon
<1>18. \A k \in Server : MatchOf(h, k)'
  BY <1>1, <1>4, <1>5, MatchOfStep, Zenon
<1> QED BY <1>1, <1>4, <1>14, <1>15, <1>16, <1>17, <1>18, SteadyStep, Zenon

-----------------------------------------------------------------------------
(* A leader appends. *)

\* A step that changes the log of one server keeps a history, if that server's role and log,
\* what is committed and what is sent are explained by one with the same leaders.
LEMMA OneLogStep ==
    ASSUME NEW h, NEW g, Step(h, g), NEW i \in Server,
           \A t \in Nat : g.leader[t] = h.leader[t], TermInv(g)', NoNewBallot,
           \A k \in Server \ {i} :
               /\ Steady(k) /\ FullLog(k)' = FullLog(k)
               /\ \A c \in Nat : g.held[k][c] = h.held[k][c]
               /\ state[k] = Leader => g.log[currentTerm[k]] = h.log[currentTerm[k]],
           RoleOf(g, i)', LogOf(g, i)', CandidacyStep(h, g, i),
           \A k \in Server : /\ CommitOf(g, k)' /\ MatchOf(g, k)'
                             /\ asking'[k] \subseteq asking[k],
           \A m \in rpcs' : m \in rpcs \/ MessageOf(g, m)'
    PROVE  Explains(g)'
<1>1. g \in History /\ \A k \in Server : currentTerm[k] \in Nat
  BY StepTypes, Zenon DEF Step
<1>2. \A k \in Server : CandidacyStep(h, g, k)
  BY SteadyCandidacy, Zenon
<1>3. \A t \in Nat : Elected(g, t) => Elected(h, t)
  BY Zenon DEF Elected
<1>4. ElectorInv(g)'
  BY <1>3, ElectorStep, Zenon
<1>5. SuccessionInv(g)'
  BY <1>3, SuccessionStep, Zenon DEF SuccessionInv
<1>6. AskedTerms'
  BY AskedStep, Zenon
<1>7. ASSUME NEW k \in Server PROVE RoleOf(g, k)' /\ LogOf(g, k)'
  BY <1>1, RoleOfStep, LogOfStep, SMTT(30)
<1>8. \A v, k \in Server : BallotOf(g, v, k)'
  BY <1>2, OldBallots, Zenon
<1>9. \A m \in rpcs' : MessageOf(g, m)'
  BY <1>2, MessageOfStep, Zenon
<1> QED BY <1>1, <1>4, <1>5, <1>6, <1>7, <1>8, <1>9, Zenon DEF Explains

\* What a log has committed, a log that has that much of it has committed.
LEMMA CommittedCopy ==
    ASSUME NEW h, NEW g, Step(h, g), NEW t \in Nat, NEW u \in Nat, t <= u,
           NEW s \in Seq(Entry), NEW r \in Seq(Entry), NEW k \in Nat, CommittedBy(h, t, s, k),
           NEW n \in Nat, n <= k, Holds(r, s, n)
    PROVE  CommittedBy(g, u, r, n)
<1>1. h \in History /\ g \in History /\ Continues(h, g, currentTerm')
  BY Zenon DEF Step
<1> QED BY <1>1, CommittedKept, Zenon

\* A leader appends to its log.
LEMMA StartExplained ==
    ASSUME NEW h, Explained(h), NEW i \in Server, NEW c \in Command, Start(i, c)
    PROVE  StaysExplained(h)
<1>0. PICK t, log, new : /\ t = currentTerm[i] /\ log = FullLog(i)
                         /\ new = FullLog(i)'
  BY Zenon
<1>1. /\ StorageInv /\ StorageInv' /\ ElectionInv /\ ElectionStep /\ Explains(h)
      /\ h \in History /\ TypeOK
  BY Zenon DEF Explained, ElectionInv, StorageInv
<1>2. /\ UNCHANGED <<state, currentTerm, votedFor, lastIncludedIndex, lastIncludedTerm>>
      /\ UNCHANGED <<commitIndex, matchIndex, asking, votes, handed, rpcs>> /\ Saves
      /\ state[i] = Leader
      /\ logs' = [logs EXCEPT ![i] = Append(@, [Command |-> c, Term |-> t])]
  BY <1>0, Zenon DEF Start, serverVars, leaderVars, Saves
<1>3. ASSUME NEW k \in Server, k # i
      PROVE  FullLog(k)' = FullLog(k) /\ persister'[k].snapshot = persister[k].snapshot
  <2>1. logs'[k] = logs[k]
    BY <1>1, <1>2, <1>3, Zenon DEF TypeOK
  <2> QED BY <1>1, <1>2, <1>3, <2>1, LogStays, Zenon
<1>4. /\ t \in Nat /\ log \in Seq(Entry) /\ Len(log) \in Nat
      /\ new \in Seq(Entry) /\ Len(new) \in Nat
  <2>1. Step(h, h)
    BY SameHistory, Zenon
  <2> QED BY <1>0, <1>1, <2>1, StepTypes, FullLogType, SMTT(30) DEF TypeOK
<1>5. PICK e \in Entry : e = [Command |-> c, Term |-> t]
  BY <1>4, Zenon DEF Entry
<1>6. /\ Len(new) = Len(log) + 1 /\ \A n \in 1..Len(log) : new[n] = log[n]
      /\ new[Len(log) + 1] = e /\ persister'[i].snapshot = persister[i].snapshot
  <2>1. persister[i].snapshot \in Seq(Entry) /\ logs[i] \in Seq(Entry)
    BY <1>1, Zenon DEF TypeOK, Saved
  <2>3. persister'[i].snapshot = persister[i].snapshot
    BY <1>1, <1>2, SnapshotStays, Zenon
  <2>4. PICK s, r, q : /\ s \in Seq(Entry) /\ r \in Seq(Entry)
                       /\ s = persister[i].snapshot /\ r = logs[i] /\ q = Append(r, e)
    BY <2>1, Zenon
  <2>5. logs'[i] = q
    BY <1>1, <1>2, <1>5, <2>4, Zenon DEF TypeOK
  <2>6. new = s \o q /\ log = s \o r
    BY <1>0, <2>3, <2>4, <2>5, Zenon DEF FullLog
  <2>7. /\ q \in Seq(Entry) /\ Len(q) = Len(r) + 1 /\ q[Len(r) + 1] = e
        /\ \A n \in 1..Len(r) : q[n] = r[n]
    BY <2>4, SMTT(30)
  <2>8. /\ Len(new) = Len(s) + Len(q) /\ Len(log) = Len(s) + Len(r)
        /\ \A n \in 1..Len(s) + Len(q) : new[n] = IF n <= Len(s) THEN s[n] ELSE q[n - Len(s)]
        /\ \A n \in 1..Len(s) + Len(r) : log[n] = IF n <= Len(s) THEN s[n] ELSE r[n - Len(s)]
    BY <2>6, <2>7, ConcatProperties, SMTT(30)
  <2>9. Len(s) \in Nat /\ Len(r) \in Nat
    BY SMTT(30)
  <2>10. \A n \in 1..Len(log) : new[n] = log[n]
    <3> SUFFICES ASSUME NEW n \in 1..Len(log) PROVE new[n] = log[n]
      BY Zenon
    <3>1. CASE n <= Len(s)
      BY <2>7, <2>8, <2>9, <3>1, SMTT(30)
    <3>2. CASE ~ (n <= Len(s))
      <4>1. n - Len(s) \in 1..Len(r) /\ n \in 1..Len(s) + Len(q) /\ n \in 1..Len(s) + Len(r)
        BY <2>7, <2>8, <2>9, <3>2, SMTT(30)
      <4> QED BY <2>7, <2>8, <3>2, <4>1, Zenon
    <3> QED BY <3>1, <3>2, Zenon
  <2>11. new[Len(log) + 1] = e
    BY <2>7, <2>8, <2>9, SMTT(30)
  <2> QED BY <2>3, <2>7, <2>8, <2>9, <2>10, <2>11, SMTT(30)
<1>7. RoleOf(h, i) /\ LogOf(h, i) /\ CommitOf(h, i) /\ TermInv(h)
  BY <1>1, Zenon DEF Explains
<1>8. h.leader[t] = i /\ h.log[t] = log /\ h.held[i][t] = Len(log)
  BY <1>0, <1>2, <1>7, Zenon DEF RoleOf
<1>9. PICK g : g = Record(h, i, t, i, new, Len(new))
  BY Zenon
<1>10. Len(new) \in Nat /\ Len(new) >= Len(log) /\ Holds(new, log, Len(log))
  BY <1>4, <1>6, SMTT(30) DEF Holds
<1>11. /\ g \in History /\ g.leader[t] = i /\ g.log[t] = new /\ g.held[i][t] = Len(new)
       /\ \A d \in Nat \ {t} : g.leader[d] = h.leader[d] /\ g.log[d] = h.log[d]
       /\ \A u \in Server : \A d \in Nat : (u = i /\ d = t) \/ g.held[u][d] = h.held[u][d]
  <2>1. i \in Server \union {Nil} /\ h \in History
    BY <1>1, Zenon
  <2>2. g \in History /\ Recorded(h, g, i, t, i, new, Len(new))
    BY <1>4, <1>9, <1>10, <2>1, RecordType, Zenon
  <2> QED BY <2>2, Zenon DEF Recorded
<1>12. currentTerm' = currentTerm /\ currentTerm'[i] = t /\ state'[i] = Leader
  BY <1>0, <1>2, Zenon
<1>13. Continues(h, g, currentTerm')
  <2>1. i \in Server \union {Nil} /\ h \in History /\ currentTerm'[i] = t
    BY <1>1, <1>12, Zenon
  <2>2. Holds(new, h.log[t], Len(h.log[t])) /\ Len(new) >= h.held[i][t]
    BY <1>8, <1>10, Zenon
  <2> QED BY <1>4, <1>8, <1>9, <1>10, <2>1, <2>2, RecordContinues, Zenon
<1>14. Step(h, g)
  BY <1>1, <1>11, <1>13, Zenon DEF Step
<1>15. Elected(g, t)
  BY <1>11, ServerAssumption, Zenon DEF Elected
<1>16. Lineage(g, new) /\ UpTo(new, t)
  <2>1. Lineage(h, log) /\ UpTo(log, t)
    BY <1>0, <1>7, Zenon DEF LogOf
  <2>2. Lineage(g, log)
    BY <1>1, <1>4, <1>11, <1>13, <2>1, LineageKept, Zenon
  <2>3. ASSUME NEW n \in 1..Len(new)
        PROVE  /\ Elected(g, new[n].Term) /\ Holds(new, g.log[new[n].Term], n)
               /\ new[n].Term <= t
    <3>1. CASE n = Len(log) + 1
      <4>1. new[n].Term = t
        BY <1>5, <1>6, <3>1, SMTT(30)
      <4> QED BY <1>4, <1>10, <1>11, <1>15, <4>1, SMTT(30) DEF Holds
    <3>2. CASE n # Len(log) + 1
      <4>1. n \in 1..Len(log) /\ new[n] = log[n]
        BY <1>4, <1>6, <3>2, SMTT(30)
      <4>2. Elected(g, log[n].Term) /\ Holds(log, g.log[log[n].Term], n) /\ log[n].Term <= t
        BY <2>1, <2>2, <4>1, Zenon DEF Lineage, UpTo
      <4>3. \A k \in 1..n : new[k] = log[k]
        BY <1>4, <1>6, <4>1, SMTT(30)
      <4>4. Holds(new, g.log[log[n].Term], n)
        BY <1>4, <1>6, <4>1, <4>2, <4>3, SMTT(30) DEF Holds
      <4> QED BY <4>1, <4>2, <4>4, Zenon
    <3> QED BY <3>1, <3>2, Zenon
  <2> QED BY <2>3, Zenon DEF Lineage, UpTo
<1>17. TermInv(g)'
  <2>1. ASSUME NEW d \in Nat
        PROVE  \/ g.leader[d] = h.leader[d] /\ g.log[d] = h.log[d]
               \/ Elected(g, d) /\ Lineage(g, g.log[d]) /\ UpTo(g.log[d], d)
    BY <1>11, <1>15, <1>16, Zenon
  <2>2. ASSUME NEW d \in Nat, NEW u \in Server PROVE g.held[u][d] <= Len(g.log[d])
    <3>1. h.held[u][d] <= Len(h.log[d]) /\ h.held[u][d] \in Nat
      BY <1>1, <1>7, HistoryTypes, Zenon DEF TermInv
    <3>2. CASE d = t
      <4>1. g.held[u][t] = Len(new) \/ g.held[u][t] = h.held[u][t]
        BY <1>4, <1>11, Zenon
      <4> QED BY <1>4, <1>8, <1>10, <1>11, <3>1, <3>2, <4>1, SMTT(30)
    <3>3. CASE d # t
      BY <1>11, <3>1, <3>3, Zenon
    <3> QED BY <3>2, <3>3, Zenon
  <2> QED BY <1>14, <2>1, <2>2, TermStep, Zenon
<1>18. RoleOf(g, i)'
  BY <1>0, <1>11, <1>12, Zenon DEF RoleOf, Leader, Candidate
<1>19. ASSUME NEW d \in Nat, NEW n \in Nat, Safe(h, currentTerm, log, d, n)
       PROVE  Safe(g, currentTerm', new, d, n)
  <2>1. currentTerm \in [Server -> Nat] /\ \A u \in Server : currentTerm'[u] >= currentTerm[u]
    BY <1>1, <1>12, SMTT(30) DEF TypeOK
  <2>2. currentTerm' \in [Server -> Nat] /\ h \in History /\ g \in History
    BY <1>1, <1>11, <1>12, Zenon DEF TypeOK
  <2>3. Safe(g, currentTerm', log, d, n)
    BY <1>4, <1>13, <1>19, <2>1, <2>2, SafeKept, Zenon
  <2>4. ASSUME Holds(log, g.log[d], n) PROVE Holds(new, g.log[d], n)
    BY <1>4, <1>6, <1>10, <2>4, SMTT(30) DEF Holds
  <2> QED BY <2>3, <2>4, Zenon DEF Safe
<1>20. LogOf(g, i)'
  <2>1. ASSUME NEW d \in Nat, NEW n \in 1..g.held[i][d], Own(g, d, n)
        PROVE  Safe(g, currentTerm', new, d, n)
    <3>1. g.held[i][d] \in Nat
      <4>1. g \in History
        BY <1>11, Zenon
      <4> QED BY <4>1, HistoryTypes, Zenon
    <3>2. n \in Nat
      BY <3>1, SMTT(30)
    <3>3. CASE d = t
      <4>1. Holds(new, new, n)
        BY <1>10, <1>11, <3>3, SMTT(30) DEF Holds
      <4> QED BY <1>11, <3>3, <4>1, Zenon DEF Safe
    <3>4. CASE d # t
      <4>1. n \in 1..h.held[i][d] /\ Own(h, d, n)
        BY <1>11, <2>1, <3>4, Zenon DEF Own
      <4>2. Safe(h, currentTerm, log, d, n)
        BY <1>0, <1>7, <4>1, Zenon DEF LogOf
      <4> QED BY <1>19, <3>2, <4>2, Zenon
    <3> QED BY <3>3, <3>4, Zenon
  <2>2. Holds(new, g.log[t], g.held[i][t])
    BY <1>10, <1>11, SMTT(30) DEF Holds
  <2> QED BY <1>0, <1>12, <1>16, <2>1, <2>2, Zenon DEF LogOf
<1>21. CandidacyStep(h, g, i)
  BY <1>12, Zenon DEF CandidacyStep, Leader, Candidate
<1>22. ASSUME NEW k \in Server PROVE CommitOf(g, k)'
  <2>1. CASE k # i
    BY <1>2, <1>3, <1>14, <2>1, CommitOfStep, Zenon
  <2>2. CASE k = i
    <3>1. commitIndex[i] \in Nat
      BY <1>1, Zenon DEF TypeOK
    <3>2. CommittedBy(h, t, log, commitIndex[i])
      BY <1>0, <1>7, Zenon DEF CommitOf
    <3>3. CommittedBy(g, t, new, commitIndex[i])
      <4>1. CASE commitIndex[i] = 0
        BY <4>1, Zenon DEF CommittedBy
      <4>2. CASE commitIndex[i] # 0
        <5>1. commitIndex[i] <= Len(log)
          BY <3>2, <4>2, Zenon DEF CommittedBy, Holds
        <5>2. Holds(new, log, commitIndex[i])
          BY <1>4, <1>10, <3>1, <5>1, HoldsRules, Zenon
        <5> QED BY <1>4, <1>14, <3>1, <3>2, <5>2, CommittedCopy, SMTT(30)
      <4> QED BY <4>1, <4>2, Zenon
    <3>4. CommittedBy(g, currentTerm'[i], FullLog(i)', commitIndex'[i])
      BY <1>0, <1>2, <1>12, <3>3, Zenon
    <3>5. /\ lastIncludedIndex'[i] <= commitIndex'[i]
          /\ lastIncludedTerm'[i] = LastTerm(persister'[i].snapshot)
      BY <1>2, <1>6, <1>7, Zenon DEF CommitOf
    <3> QED BY <1>2, <1>14, <2>2, <3>4, <3>5, CommitOfChange, Zenon
  <2> QED BY <2>1, <2>2, Zenon
<1>23. \A k \in Server : MatchOf(g, k)'
  BY <1>2, <1>14, MatchOfStep, Zenon
<1>24. ASSUME NEW k \in Server, k # i
       PROVE  /\ Steady(k) /\ FullLog(k)' = FullLog(k)
              /\ \A d \in Nat : g.held[k][d] = h.held[k][d]
              /\ state[k] = Leader => g.log[currentTerm[k]] = h.log[currentTerm[k]]
  <2>1. Steady(k)
    BY <1>2, Zenon DEF Steady
  <2>2. \A d \in Nat : g.held[k][d] = h.held[k][d]
    BY <1>11, <1>24, Zenon
  <2>3. currentTerm[k] \in Nat /\ RoleOf(h, k)
    BY <1>1, Zenon DEF TypeOK, Explains
  <2>4. state[k] = Leader => currentTerm[k] # t
    BY <1>8, <1>24, <2>3, Zenon DEF RoleOf
  <2> QED BY <1>3, <1>11, <1>24, <2>1, <2>2, <2>3, <2>4, Zenon
<1>25. NoNewBallot
  BY <1>2, Zenon DEF NoNewBallot, Ballot
<1>26. \A d \in Nat : g.leader[d] = h.leader[d]
  BY <1>8, <1>11, Zenon
<1>27. \A k \in Server : asking'[k] \subseteq asking[k]
  BY <1>2, Zenon
<1>28. Explains(g)'
  BY <1>2, <1>14, <1>17, <1>18, <1>20, <1>21, <1>22, <1>23, <1>24, <1>25, <1>26, <1>27,
     OneLogStep, Zenon
<1> QED BY <1>11, <1>13, <1>28, Zenon DEF StaysExplained

-----------------------------------------------------------------------------
(* A follower takes over entries. *)

\* Comparing the terms at an index compares the logs up to it.
LEMMA TermMatches ==
    ASSUME NEW h \in History, StorageInv, NEW i \in Server,
           lastIncludedTerm[i] = LastTerm(persister[i].snapshot), Lineage(h, FullLog(i)),
           NEW t \in Seq(Entry), Lineage(h, t),
           NEW n \in Nat, lastIncludedIndex[i] <= n, n <= Len(t)
    PROVE  Holds(FullLog(i), t, n) <=> termAt(i, n) = IF n = 0 THEN 0 ELSE t[n].Term
<1>0. PICK s : s = FullLog(i)
  BY Zenon
<1>1. s \in Seq(Entry) /\ Len(s) \in Nat /\ Len(t) \in Nat
  BY <1>0, FullLogType, LenProperties, Zenon
<1>2. n # 0 => t[n].Term \in Nat
  BY <1>1, LogTypes, SMTT(30)
<1>3. /\ n <= Len(s) => termAt(i, n) = IF n = 0 THEN 0 ELSE s[n].Term
      /\ ~ (n <= Len(s)) => termAt(i, n) = -1
  BY <1>0, <1>1, TermAtLog, SMTT(30)
<1>4. ASSUME Holds(s, t, n) PROVE termAt(i, n) = IF n = 0 THEN 0 ELSE t[n].Term
  BY <1>1, <1>3, <1>4, SMTT(30) DEF Holds
<1>5. ASSUME termAt(i, n) = IF n = 0 THEN 0 ELSE t[n].Term PROVE Holds(s, t, n)
  <2>1. CASE n = 0
    BY <1>1, <2>1, SMTT(30) DEF Holds
  <2>2. CASE n # 0
    <3>1. n <= Len(s)
      BY <1>1, <1>2, <1>3, <1>5, <2>2, SMTT(30)
    <3>2. s[n].Term = t[n].Term
      BY <1>3, <1>5, <2>2, <3>1, Zenon
    <3>3. Lineage(h, s) /\ n > 0
      BY <1>0, <2>2, SMTT(30)
    <3> QED BY <1>1, <3>1, <3>2, <3>3, LineageMatch, Zenon
  <2> QED BY <2>1, <2>2, Zenon
<1> QED BY <1>0, <1>4, <1>5, Zenon

\* What is where in two logs put together.
Joins(x, s, r) ==
    /\ x \in Seq(Entry) /\ Len(x) = Len(s) + Len(r)
    /\ \A n \in 1..Len(s) + Len(r) : x[n] = IF n <= Len(s) THEN s[n] ELSE r[n - Len(s)]

\* Two logs put together.
LEMMA Joined ==
    ASSUME NEW s \in Seq(Entry), NEW r \in Seq(Entry), NEW x, x = s \o r
    PROVE  Joins(x, s, r)
BY ConcatProperties, Zenon DEF Joins

\* The first entries of a log.
IsCut(x, s, d) == x \in Seq(Entry) /\ Len(x) = d /\ \A n \in 1..d : x[n] = s[n]

\* A log has each of its beginnings.
LEMMA Cut ==
    ASSUME NEW s, NEW d \in Nat, \A n \in 1..d : s[n] \in Entry, NEW x, x = SubSeq(s, 1, d)
    PROVE  IsCut(x, s, d)
<1>1. /\ SubSeq(s, 1, d) \in Seq(Entry)
      /\ Len(SubSeq(s, 1, d)) = IF 1 <= d THEN d - 1 + 1 ELSE 0
      /\ \A n \in 1..d - 1 + 1 : SubSeq(s, 1, d)[n] = s[1 + n - 1]
  BY SubSeqProperties, SMTT(30)
<1> QED BY <1>1, SMTT(30) DEF IsCut

\* The end of a log from f on.
LEMMA CutFrom ==
    ASSUME NEW s, NEW f \in Int, NEW last \in Int, f <= last, \A n \in f..last : s[n] \in Entry
    PROVE  /\ SubSeq(s, f, last) \in Seq(Entry) /\ Len(SubSeq(s, f, last)) = last - f + 1
           /\ \A n \in 1..(last - f + 1) : SubSeq(s, f, last)[n] = s[f + n - 1]
<1>1. /\ SubSeq(s, f, last) \in Seq(Entry)
      /\ Len(SubSeq(s, f, last)) = IF f <= last THEN last - f + 1 ELSE 0
      /\ \A n \in 1..last - f + 1 : SubSeq(s, f, last)[n] = s[f + n - 1]
  BY SubSeqProperties, SMTT(30)
<1> QED BY <1>1, SMTT(30)

\* The loop over the entries leaves the log alone if it has them all, and else exactly as much
\* of the leader's log as the request reaches.
LEMMA MergeAdopts ==
    ASSUME NEW h \in History, StorageInv, NEW i \in Server, NEW m \in AppendEntriesMessage,
           lastIncludedTerm[i] = LastTerm(persister[i].snapshot), Lineage(h, FullLog(i)),
           PrevMatches(i, m), NEW t \in Seq(Entry), Lineage(h, t),
           m.PrevLogIndex + Len(m.Entries) <= Len(t),
           \A k \in 1..Len(m.Entries) : m.Entries[k] = t[m.PrevLogIndex + k],
           m.PrevLogTerm = IF m.PrevLogIndex = 0 THEN 0 ELSE t[m.PrevLogIndex].Term
    PROVE  Adopts(FullLog(i), persister[i].snapshot \o MergeEntries(i, m), t,
                  m.PrevLogIndex + Len(m.Entries))
<1> DEFINE fresh == {k \in 1..Len(m.Entries) :
                       termAt(i, m.PrevLogIndex + k) # m.Entries[k].Term}
           first == CHOOSE k \in fresh : \A l \in fresh : k <= l
<1>0. PICK s, snapshot, base, prev, entries, local :
          /\ s = FullLog(i) /\ snapshot = persister[i].snapshot /\ base = lastIncludedIndex[i]
          /\ prev = m.PrevLogIndex /\ entries = m.Entries /\ local = logs[i]
  BY Zenon
<1>1. /\ s \in Seq(Entry) /\ Len(s) \in Nat /\ base \in Nat /\ Len(s) = base + Len(local)
      /\ \A n \in 1..Len(s) : s[n] = IF n <= base THEN snapshot[n] ELSE local[n - base]
  BY <1>0, FullLogType, Zenon DEF lastIndex
<1>2. /\ local \in Seq(Entry) /\ snapshot \in Seq(Entry) /\ Len(snapshot) = base
      /\ Len(local) \in Nat
  BY <1>0, LenProperties, Zenon DEF StorageInv, TypeOK, Saved, SnapshotLength
<1>3. /\ prev \in Nat /\ entries \in Seq(Entry) /\ Len(entries) \in Nat /\ Len(t) \in Nat
      /\ prev + Len(entries) <= Len(t) /\ base <= prev
      /\ \A k \in 1..Len(entries) : entries[k] = t[prev + k]
  BY <1>0, <1>1, LenProperties, SMTT(30) DEF AppendEntriesMessage, PrevMatches
<1>4. ASSUME NEW n \in Nat, base <= n, n <= Len(t)
      PROVE  Holds(s, t, n) <=> termAt(i, n) = IF n = 0 THEN 0 ELSE t[n].Term
  BY <1>0, <1>4, TermMatches, Zenon
<1>5. Holds(s, t, prev)
  <2>1. termAt(i, prev) = IF prev = 0 THEN 0 ELSE t[prev].Term
    BY <1>0, Zenon DEF PrevMatches
  <2> QED BY <1>3, <1>4, <2>1, SMTT(30)
<1>6. ASSUME NEW k \in 1..Len(entries)
      PROVE  k \notin fresh <=> Holds(s, t, prev + k)
  <2>1. prev + k \in Nat /\ base <= prev + k /\ prev + k <= Len(t) /\ prev + k # 0
    BY <1>1, <1>3, SMTT(30)
  <2>2. k \notin fresh <=> termAt(i, prev + k) = t[prev + k].Term
    BY <1>0, <1>3, Zenon
  <2> QED BY <1>4, <2>1, <2>2, Zenon
<1>7. CASE fresh = {}
  <2>1. Holds(s, t, prev + Len(entries))
    <3>1. CASE Len(entries) = 0
      BY <1>3, <1>5, <3>1, SMTT(30)
    <3>2. CASE Len(entries) # 0
      <4>1. Len(entries) \in 1..Len(entries) /\ Len(entries) \notin fresh
        BY <1>3, <1>7, <3>2, SMTT(30)
      <4> QED BY <1>6, <4>1, Zenon
    <3> QED BY <3>1, <3>2, Zenon
  <2>2. snapshot \o MergeEntries(i, m) = s
    BY <1>0, <1>7, Zenon DEF MergeEntries, FullLog
  <2> QED BY <1>0, <1>3, <2>1, <2>2, Zenon DEF Adopts
<1>8. CASE fresh # {}
  <2>1. fresh \subseteq Nat
    BY SMTT(30)
  <2>2. \E k \in fresh : \A l \in fresh : k <= l
    BY <1>8, <2>1, Ordered, Zenon DEF WellOrdered
  <2>3. first \in fresh /\ \A l \in fresh : first <= l
    BY <2>2, Zenon
  <2>4. first \in 1..Len(entries)
    BY <1>0, <2>3, Zenon
  <2> HIDE DEF fresh
  <2>5. PICK f, d, head, tail, rest, r :
            /\ f = first /\ d = m.PrevLogIndex + first - 1 - lastIncludedIndex[i]
            /\ head = SubSeq(logs[i], 1, d)
            /\ tail = SubSeq(m.Entries, first, Len(m.Entries))
            /\ rest = MergeEntries(i, m) /\ r = persister[i].snapshot \o rest
    BY Zenon
  <2>6. /\ rest = head \o tail /\ r = snapshot \o rest
        /\ head = SubSeq(local, 1, d) /\ tail = SubSeq(entries, f, Len(entries))
    BY <1>0, <1>8, <2>5, Zenon DEF MergeEntries, fresh
  <2>7. /\ f \in 1..Len(entries) /\ f \in fresh /\ \A l \in fresh : f <= l
        /\ d = prev + f - 1 - base
    BY <1>0, <2>3, <2>4, <2>5, Zenon
  <2> HIDE DEF first
  <2>a. PICK len : len = Len(entries)
    BY Zenon
  <2>b. /\ prev \in Nat /\ base \in Nat /\ base <= prev /\ len \in Nat /\ f \in 1..len
        /\ d = prev + f - 1 - base
    BY <1>1, <1>3, <2>7, <2>a, Zenon
  <2>8. PICK b \in Nat : b = prev + f - 1
    BY ONLY <2>b, SMTT(30)
  <2>9. ~ Holds(s, t, b + 1) /\ b + 1 <= prev + Len(entries)
    <3>1. b + 1 = prev + f /\ b + 1 <= prev + len
      BY ONLY <2>b, <2>8, SMTT(30)
    <3> QED BY <1>6, <2>7, <2>a, <3>1, Zenon
  <2>10. Holds(s, t, b)
    <3>1. CASE f = 1
      <4>1. b = prev
        BY ONLY <2>b, <2>8, <3>1, SMTT(30)
      <4> QED BY <1>5, <4>1, Zenon
    <3>2. CASE f # 1
      <4>1. f - 1 \in 1..len /\ ~ (f <= f - 1) /\ prev + (f - 1) = b
        BY ONLY <2>b, <2>8, <3>2, SMTT(30)
      <4> QED BY <1>6, <2>7, <2>a, <4>1, Zenon
    <3> QED BY <3>1, <3>2, Zenon
  <2>11. d = b - base /\ d \in Int
    BY ONLY <2>b, <2>8, SMTT(30)
  <2>12. base <= b /\ b <= Len(s) /\ b <= Len(t)
    <3>1. base <= b
      BY ONLY <2>b, <2>8, SMTT(30)
    <3> QED BY <2>10, <3>1, Zenon DEF Holds
  <2>13. /\ head \in Seq(Entry) /\ Len(head) = b - base
         /\ \A n \in 1..(b - base) : head[n] = local[n]
    <3>1. b - base \in Nat /\ b - base <= Len(local)
      <4>1. PICK x : x = Len(local)
        BY Zenon
      <4>2. x \in Nat /\ base \in Nat /\ b \in Nat /\ base <= b /\ b <= base + x
        BY <1>1, <1>2, <2>12, <4>1, Zenon
      <4>3. b - base \in Nat /\ b - base <= x
        BY ONLY <4>2, SMTT(30)
      <4> QED BY <4>1, <4>3, Zenon
    <3>2. \A n \in 1..(b - base) : local[n] \in Entry
      BY <1>2, <3>1, ElementOfSeq, SMTT(30)
    <3>3. \A n \in 1..d : local[n] \in Entry
      BY <2>11, <3>2, Zenon
    <3>4. d \in Nat /\ head = SubSeq(local, 1, d)
      BY <2>6, <2>11, <3>1, Zenon
    <3>5. IsCut(head, local, d)
      BY <3>3, <3>4, Cut, ZenonT(30)
    <3> QED BY <2>11, <3>5, Zenon DEF IsCut
  <2>14. /\ tail \in Seq(Entry) /\ Len(tail) = Len(entries) - f + 1
         /\ \A n \in 1..(Len(entries) - f + 1) : tail[n] = entries[f + n - 1]
    <3>1. \A n \in f..Len(entries) : entries[n] \in Entry
      BY <1>3, <2>7, ElementOfSeq, SMTT(30)
    <3>2. f \in Int /\ Len(entries) \in Int /\ f <= Len(entries)
      <4>1. f \in Int /\ len \in Int /\ f <= len
        BY ONLY <2>b, SMTT(30)
      <4> QED BY <2>a, <4>1, Zenon
    <3> QED BY <2>6, <3>1, <3>2, CutFrom, Zenon
  <2>15. Joins(rest, head, tail)
    BY <2>6, <2>13, <2>14, Joined, Zenon
  <2>16. Joins(r, snapshot, rest)
    <3>1. rest \in Seq(Entry)
      BY <2>15, Zenon DEF Joins
    <3> QED BY <1>2, <2>6, <3>1, Joined, Zenon
  <2>17. /\ rest \in Seq(Entry) /\ Len(rest) = Len(head) + Len(tail)
         /\ \A n \in 1..Len(head) + Len(tail) :
               rest[n] = IF n <= Len(head) THEN head[n] ELSE tail[n - Len(head)]
    BY <2>15, Zenon DEF Joins
  <2>18. /\ r \in Seq(Entry) /\ Len(r) = base + Len(rest)
         /\ \A n \in 1..base + Len(rest) :
               r[n] = IF n <= base THEN snapshot[n] ELSE rest[n - base]
    BY <1>2, <2>16, Zenon DEF Joins
  <2>19. Len(r) = prev + Len(entries) /\ Len(rest) = prev + Len(entries) - base
    <3>0. PICK x, y : x = Len(rest) /\ y = Len(r)
      BY Zenon
    <3>1. x = b - base + (len - f + 1) /\ y = base + x
      BY <2>13, <2>14, <2>17, <2>18, <2>a, <3>0, Zenon
    <3>2. y = prev + len /\ x = prev + len - base
      BY ONLY <2>b, <2>8, <3>1, SMTT(30)
    <3> QED BY <2>a, <3>0, <3>2, Zenon
  <2>20. ASSUME NEW n \in 1..(prev + Len(entries)) PROVE r[n] = t[n]
    <3>1. CASE n <= b
      <4>1. n \in 1..Len(s) /\ s[n] = t[n]
        BY <2>10, <2>12, <3>1, SMTT(30) DEF Holds
      <4>2. r[n] = s[n]
        <5>1. CASE n <= base
          BY <1>1, <2>18, <2>19, <4>1, <5>1, Zenon
        <5>2. CASE ~ (n <= base)
          <6>1. n - base \in 1..(b - base) /\ n \in 1..base + Len(rest)
            BY <1>1, <2>12, <2>18, <2>19, <3>1, <5>2, SMTT(30)
          <6>2. rest[n - base] = head[n - base]
            <7>1. n - base \in 1..Len(head) + Len(tail) /\ n - base <= Len(head)
              <8>1. Len(head) = b - base /\ Len(tail) \in Nat
                BY <2>13, <2>14, LenProperties, Zenon
              <8> QED BY <1>1, <2>12, <6>1, <8>1, SMTT(30)
            <7> QED BY <2>17, <7>1, Zenon
          <6> QED BY <1>1, <2>13, <2>18, <4>1, <5>2, <6>1, <6>2, Zenon
        <5> QED BY <5>1, <5>2, Zenon
      <4> QED BY <4>1, <4>2, Zenon
    <3>2. CASE ~ (n <= b)
      <4>1. /\ ~ (n <= base) /\ n \in 1..base + Len(rest)
            /\ n - base \in 1..Len(head) + Len(tail) /\ ~ (n - base <= Len(head))
            /\ (n - base) - Len(head) = n - b
        <5>1. /\ Len(head) = b - base /\ Len(tail) = Len(entries) - f + 1
              /\ Len(rest) = prev + Len(entries) - base /\ f \in 1..Len(entries)
          BY <2>7, <2>13, <2>14, <2>19, Zenon
        <5>2. PICK x, y, z : x = Len(head) /\ y = Len(tail) /\ z = Len(rest)
          BY Zenon
        <5>3. /\ x = b - base /\ y = len - f + 1 /\ z = prev + len - base /\ base <= b
              /\ n \in 1..(prev + len) /\ ~ (n <= b)
          BY <2>12, <2>20, <2>a, <3>2, <5>1, <5>2, Zenon
        <5>4. /\ ~ (n <= base) /\ n \in 1..base + z /\ n - base \in 1..x + y
              /\ ~ (n - base <= x) /\ (n - base) - x = n - b
          BY ONLY <2>b, <2>8, <5>3, SMTT(30)
        <5> QED BY <5>2, <5>4, Zenon
      <4>2. r[n] = tail[n - b]
        BY <2>17, <2>18, <4>1, Zenon
      <4>3. n - b \in 1..(Len(entries) - f + 1) /\ f + (n - b) - 1 \in 1..Len(entries)
        <5>1. n \in 1..(prev + len) /\ ~ (n <= b)
          BY <2>20, <2>a, <3>2, Zenon
        <5>2. n - b \in 1..(len - f + 1) /\ f + (n - b) - 1 \in 1..len
          BY ONLY <2>b, <2>8, <5>1, SMTT(30)
        <5> QED BY <2>a, <5>2, Zenon
      <4>4. prev + (f + (n - b) - 1) = n
        <5>1. n \in 1..(prev + len)
          BY <2>20, <2>a, Zenon
        <5> QED BY ONLY <2>b, <2>8, <5>1, SMTT(30)
      <4> QED BY <1>3, <2>14, <4>2, <4>3, <4>4, Zenon
    <3> QED BY <3>1, <3>2, Zenon
  <2>21. Holds(r, t, prev + Len(entries))
    BY <1>3, <2>18, <2>19, <2>20, SMTT(30) DEF Holds
  <2>22. ~ Holds(s, t, prev + Len(entries))
    BY <1>1, <1>3, <2>9, SMTT(30) DEF Holds
  <2> QED BY <1>0, <1>3, <2>5, <2>19, <2>21, <2>22, Zenon DEF Adopts
<1> QED BY <1>7, <1>8, Zenon

\* In this step i takes over the first e entries of the log of the leader of t.
TakesOver(h, g, i, t, e) ==
    /\ Step(h, g) /\ i \in Server /\ t \in Nat /\ Elected(h, t) /\ e \in Nat
    /\ currentTerm[i] <= t /\ currentTerm'[i] = t
    /\ Adopts(FullLog(i), FullLog(i)', h.log[t], e)
    /\ \A d \in Nat : g.leader[d] = h.leader[d] /\ g.log[d] = h.log[d]
    /\ \A d \in Nat \ {t} : g.held[i][d] = h.held[i][d]
    /\ g.held[i][t] = e \/ g.held[i][t] = h.held[i][t]

\* A follower that took over up to the end of a request from its leader's log.
LEMMA TakenLog ==
    ASSUME NEW h, NEW g, NEW i, NEW t, NEW e, TakesOver(h, g, i, t, e)
    PROVE  LogOf(g, i)'
<1> /\ Step(h, g) /\ i \in Server /\ t \in Nat /\ Elected(h, t) /\ e \in Nat
    /\ currentTerm[i] <= t /\ currentTerm'[i] = t
    /\ Adopts(FullLog(i), FullLog(i)', h.log[t], e)
    /\ \A d \in Nat : g.leader[d] = h.leader[d] /\ g.log[d] = h.log[d]
    /\ \A d \in Nat \ {t} : g.held[i][d] = h.held[i][d]
    /\ g.held[i][t] = e \/ g.held[i][t] = h.held[i][t]
  BY Zenon DEF TakesOver
<1>0. PICK log, new, lead : log = FullLog(i) /\ new = FullLog(i)' /\ lead = h.log[t]
  BY Zenon
<1>1. /\ h \in History /\ g \in History /\ Continues(h, g, currentTerm') /\ Explains(h)
  BY Zenon DEF Step
<1>2. TermInv(h) /\ SuccessionInv(h) /\ LogOf(h, i)
  BY <1>1, Zenon DEF Explains
<1>3. /\ log \in Seq(Entry) /\ new \in Seq(Entry) /\ lead \in Seq(Entry)
      /\ Len(log) \in Nat /\ Len(new) \in Nat /\ Len(lead) \in Nat
  BY <1>0, <1>1, StepTypes, HistoryTypes, LenProperties, Zenon
<1>4. Adopts(log, new, lead, e)
  BY <1>0, Zenon
<1>5. Lineage(h, log) /\ UpTo(log, currentTerm[i]) /\ Lineage(h, lead) /\ UpTo(lead, t)
  BY <1>0, <1>2, Zenon DEF LogOf, TermInv
<1>6. currentTerm[i] \in Nat /\ \A d \in Nat : h.held[i][d] \in Nat /\ g.held[i][d] \in Nat
  BY <1>1, StepTypes, HistoryTypes, Zenon
<1>7. Lineage(g, new)
  <2>1. Lineage(h, new)
    <3>1. CASE new = log
      BY <1>5, <3>1, Zenon
    <3>2. CASE Holds(new, lead, Len(new))
      BY <1>1, <1>3, <1>5, <3>2, LineagePrefix, Zenon
    <3> QED BY <1>4, <3>1, <3>2, Zenon DEF Adopts
  <2> QED BY <1>1, <1>3, <2>1, LineageKept, Zenon
<1>8. UpTo(new, t)
  <2> SUFFICES ASSUME NEW n \in 1..Len(new) PROVE new[n].Term <= t
    BY Zenon DEF UpTo
  <2>1. new[n].Term \in Nat
    BY <1>3, LogTypes, Zenon
  <2>2. CASE new = log
    <3>1. new[n].Term <= currentTerm[i]
      BY <1>5, <2>2, Zenon DEF UpTo
    <3> QED BY <1>6, <2>1, <3>1, NatOrder, Zenon
  <2>3. CASE Holds(new, lead, Len(new))
    <3>1. n \in 1..Len(lead) /\ new[n] = lead[n]
      BY <1>3, <2>3, SMTT(30) DEF Holds
    <3> QED BY <1>5, <3>1, Zenon DEF UpTo
  <2> QED BY <1>4, <2>2, <2>3, Zenon DEF Adopts
<1>9. Holds(new, lead, g.held[i][t])
  <2>1. CASE g.held[i][t] = e
    BY <1>3, <1>4, <2>1, AdoptsHolds, ZenonT(30)
  <2>2. CASE g.held[i][t] = h.held[i][t]
    <3>1. CASE h.held[i][t] = 0
      BY <1>3, <2>2, <3>1, HoldsTrivially, Zenon
    <3>2. CASE h.held[i][t] # 0
      <4>1. t = currentTerm[i]
        <5>1. h.held[i][t] > 0
          BY <1>6, <3>2, NatOrder, Zenon
        <5>2. t <= currentTerm[i]
          BY <1>2, <5>1, Zenon DEF TermInv
        <5> QED BY <1>6, <5>2, NatOrder, Zenon
      <4>2. Holds(log, lead, h.held[i][t])
        BY <1>0, <1>2, <4>1, Zenon DEF LogOf
      <4> QED BY <1>3, <1>4, <1>6, <2>2, <4>2, AdoptsHolds, ZenonT(30)
    <3> QED BY <3>1, <3>2, Zenon
  <2> QED BY <2>1, <2>2, Zenon
<1>10. ASSUME NEW d \in Nat, NEW n \in 1..g.held[i][d], Own(g, d, n)
       PROVE  Safe(g, currentTerm', new, d, n)
  <2>1. n \in Nat /\ n > 0
    <3>1. n \in Nat /\ n # 0
      BY <1>6, InRange, Zenon
    <3> QED BY <3>1, NatOrder, Zenon
  <2>2. CASE d = t
    <3>1. n <= g.held[i][t] /\ g.held[i][t] \in Nat
      BY <1>6, <2>2, InRange, Zenon
    <3>2. Holds(new, lead, n)
      BY <1>3, <1>9, <2>1, <3>1, HoldsRules, Zenon
    <3> QED BY <1>0, <2>2, <3>2, Zenon DEF Safe
  <2>3. CASE d # t
    <3>1. n \in 1..h.held[i][d] /\ Own(h, d, n)
      BY <1>10, <2>3, ZenonT(30) DEF Own
    <3>2. d < t
      <4>1. h.held[i][d] > 0
        BY <1>6, <3>1, InRange, Zenon
      <4>2. d <= currentTerm[i]
        BY <1>2, <4>1, Zenon DEF TermInv
      <4>3. d <= t
        BY <1>6, <4>2, NatOrder, Zenon
      <4> QED BY <2>3, <4>3, NatOrder, Zenon
    <3>3. Safe(h, currentTerm, log, d, n)
      BY <1>0, <1>2, <3>1, Zenon DEF LogOf
    <3>4. Safe(h, currentTerm, lead, d, n)
      BY <1>0, <1>2, <2>1, <3>1, <3>2, Zenon DEF SuccessionInv
    <3>5. Safe(h, currentTerm, new, d, n)
      BY <1>1, <1>3, <1>4, <2>1, <3>3, <3>4, AdoptsSafe, Zenon
    <3>6. /\ currentTerm \in [Server -> Nat] /\ currentTerm' \in [Server -> Nat]
          /\ \A u \in Server : currentTerm'[u] >= currentTerm[u]
      BY StepTypes, Zenon
    <3> QED BY <1>1, <1>3, <2>1, <3>5, <3>6, SafeKept, Zenon
  <2> QED BY <2>2, <2>3, Zenon
<1>11. g.log[t] = lead
  BY <1>0, Zenon
<1> QED BY <1>0, <1>7, <1>8, <1>9, <1>10, <1>11, Zenon DEF LogOf

\* What it commits then is committed, and it forgets no commitment.
LEMMA TakenCommit ==
    ASSUME NEW h, NEW g, Step(h, g), NEW i \in Server, NEW t \in Nat, Elected(h, t),
           currentTerm[i] <= t, NEW e \in Nat, Adopts(FullLog(i), FullLog(i)', h.log[t], e),
           NEW n \in Nat,
           \/ n = commitIndex[i]
           \/ n <= e /\ \E k \in Nat : n <= k /\ CommittedBy(h, t, h.log[t], k)
    PROVE  CommittedBy(g, t, FullLog(i)', n)
<1>0. PICK log, new, lead : log = FullLog(i) /\ new = FullLog(i)' /\ lead = h.log[t]
  BY Zenon
<1>1. h \in History /\ SuccessionInv(h) /\ CommitOf(h, i)
  BY Zenon DEF Step, Explains
<1>2. /\ log \in Seq(Entry) /\ new \in Seq(Entry) /\ lead \in Seq(Entry)
      /\ currentTerm[i] \in Nat
  BY <1>0, <1>1, StepTypes, HistoryTypes, Zenon
<1>3. Adopts(log, new, lead, e)
  BY <1>0, Zenon
<1>4. CASE n = commitIndex[i]
  <2>1. CommittedBy(h, currentTerm[i], log, n)
    BY <1>0, <1>1, <1>4, Zenon DEF CommitOf
  <2>2. Holds(log, lead, n)
    BY <1>0, <1>1, <1>2, <2>1, CommittedHeld, Zenon
  <2>3. Holds(new, lead, n)
    BY <1>2, <1>3, <2>2, AdoptsHolds, Zenon
  <2>4. Holds(new, log, n)
    BY <1>2, <2>2, <2>3, HoldsRules, Zenon
  <2> QED BY <1>0, <1>2, <2>1, <2>4, CommittedCopy, SMTT(30)
<1>5. CASE n <= e /\ \E k \in Nat : n <= k /\ CommittedBy(h, t, h.log[t], k)
  <2>1. PICK k \in Nat : n <= k /\ CommittedBy(h, t, lead, k)
    BY <1>0, <1>5, Zenon
  <2>2. Holds(new, lead, e)
    BY <1>2, <1>3, AdoptsHolds, Zenon
  <2>3. Holds(new, lead, n)
    BY <1>2, <1>5, <2>2, HoldsRules, Zenon
  <2> QED BY <1>0, <1>2, <2>1, <2>3, CommittedCopy, SMTT(30)
<1> QED BY <1>4, <1>5, Zenon

\* A server holds more of a leader's log; the history is otherwise the same.
HoldsMore(h, g, i, t, e) ==
    /\ Step(h, g) /\ TermInv(g)' /\ e <= g.held[i][t]
    /\ g.held[i][t] = e \/ g.held[i][t] = h.held[i][t]
    /\ \A d \in Nat : g.leader[d] = h.leader[d] /\ g.log[d] = h.log[d]
    /\ \A u \in Server : \A d \in Nat : (u = i /\ d = t) \/ g.held[u][d] = h.held[u][d]

\* Such a history explains what the old one does.
LEMMA HeldMore ==
    ASSUME NEW h, Explained(h), NEW i \in Server, NEW t \in Nat, Elected(h, t),
           currentTerm'[i] = t, NEW e \in Nat, e <= Len(h.log[t])
    PROVE  \E g \in History : HoldsMore(h, g, i, t, e)
<1>1. h \in History /\ TermInv(h) /\ Step(h, h)
  BY SameHistory, Zenon DEF Explained, Explains
<1>2. PICK l, lead, n : l = h.leader[t] /\ lead = h.log[t] /\ n = Larger(e, h.held[i][t])
  BY Zenon
<1>3. /\ l \in Server \union {Nil} /\ lead \in Seq(Entry) /\ Len(lead) \in Nat
      /\ \A u \in Server : \A d \in Nat : h.held[u][d] \in Nat
  BY <1>1, <1>2, HistoryTypes, LenProperties, Zenon DEF History, HistoryRecord
<1>4. n \in Nat /\ n >= h.held[i][t] /\ e <= n /\ (n = e \/ n = h.held[i][t])
  BY <1>2, <1>3, LargerOf, Zenon
<1>5. PICK g : g = Record(h, i, t, l, lead, n)
  BY Zenon
<1>6. g \in History /\ Recorded(h, g, i, t, l, lead, n)
  BY <1>1, <1>3, <1>4, <1>5, RecordType, Zenon
<1>7. Continues(h, g, currentTerm')
  <2>1. Holds(lead, h.log[t], Len(h.log[t]))
    BY <1>2, <1>3, HoldsTrivially, Zenon
  <2>2. Elected(h, t) => l = h.leader[t]
    BY <1>2, Zenon
  <2> QED BY <1>1, <1>3, <1>4, <1>5, <2>1, <2>2, RecordContinues, ZenonT(30)
<1>8. Step(h, g)
  BY <1>1, <1>6, <1>7, Zenon DEF Step
<1>9. \A d \in Nat : g.leader[d] = h.leader[d] /\ g.log[d] = h.log[d]
  BY <1>2, <1>6, Zenon DEF Recorded
<1>10. /\ g.held[i][t] = n
       /\ \A u \in Server : \A d \in Nat : (u = i /\ d = t) \/ g.held[u][d] = h.held[u][d]
  BY <1>6, Zenon DEF Recorded
<1>11. ASSUME NEW d \in Nat, NEW u \in Server PROVE g.held[u][d] <= Len(g.log[d])
  <2>1. h.held[u][d] <= Len(h.log[d]) /\ g.log[d] = h.log[d]
    BY <1>1, <1>9, Zenon DEF TermInv
  <2>2. CASE u = i /\ d = t
    BY <1>4, <1>10, <2>1, <2>2, Zenon
  <2>3. CASE ~ (u = i /\ d = t)
    <3>1. g.held[u][d] = h.held[u][d]
      BY <1>10, <2>3, Zenon
    <3> QED BY <2>1, <3>1, Zenon
  <2> QED BY <2>2, <2>3, Zenon
<1>12. TermInv(g)'
  BY <1>8, <1>9, <1>11, TermStep, Zenon
<1> QED BY <1>4, <1>6, <1>8, <1>9, <1>10, <1>12, Zenon DEF HoldsMore

\* A request moves commitIndex no further than it reaches and its leader committed.
LEMMA CommitAfterBounds ==
    ASSUME NEW i, NEW m, commitIndex[i] \in Nat, m.LeaderCommitIndex \in Nat,
           m.PrevLogIndex + Len(m.Entries) \in Nat
    PROVE  /\ CommitAfter(i, m) \in Nat /\ CommitAfter(i, m) >= commitIndex[i]
           /\ \/ CommitAfter(i, m) = commitIndex[i]
              \/ /\ CommitAfter(i, m) <= m.PrevLogIndex + Len(m.Entries)
                 /\ CommitAfter(i, m) <= m.LeaderCommitIndex
<1>1. PICK end, commit, before, after :
          /\ end = m.PrevLogIndex + Len(m.Entries) /\ commit = m.LeaderCommitIndex
          /\ before = commitIndex[i] /\ after = CommitAfter(i, m)
  BY Zenon
<1>2. end \in Nat /\ commit \in Nat /\ before \in Nat
  BY <1>1, Zenon
<1>3. \/ after = before
      \/ after = Smaller(commit, end) /\ Smaller(commit, end) > before
  BY <1>1, Zenon DEF CommitAfter
<1>4. after \in Nat /\ after >= before /\ (after = before \/ (after <= end /\ after <= commit))
  BY ONLY <1>2, <1>3, SMTT(30) DEF Smaller
<1> QED BY <1>1, <1>4, Zenon

\* A follower checks a leader's request, takes over its entries and its commit index.
LEMMA AppendEntriesHandlerExplained ==
    ASSUME NEW h, Explained(h), NEW m \in rpcs, AppendEntriesHandler(m)
    PROVE  StaysExplained(h)
<1>0. PICK i, t, e, matches :
          /\ i = m.to /\ t = m.Term /\ e = m.PrevLogIndex + Len(m.Entries)
          /\ matches = (m.Term >= currentTerm[m.to] /\ PrevMatches(m.to, m))
  BY Zenon
<1>1. Step(h, h) /\ StorageInv /\ StorageInv' /\ Explains(h) /\ h \in History /\ TypeOK
  BY SameHistory, Zenon DEF Explained, ElectionInv, StorageInv
<1>2. /\ i \in Server /\ t \in Nat /\ m.type = "AppendEntries" /\ m \in AppendEntriesMessage
      /\ currentTerm[i] \in Nat /\ state[i] \in {Follower, Candidate, Leader}
      /\ commitIndex[i] \in Nat
  BY <1>0, <1>1, MessageFields, Zenon DEF AppendEntriesHandler, TypeOK
<1>3. /\ m.PrevLogIndex \in Nat /\ m.Entries \in Seq(Entry) /\ Len(m.Entries) \in Nat
      /\ e \in Nat /\ m.LeaderCommitIndex \in Nat
  <2>1. m.PrevLogIndex \in Nat /\ m.Entries \in Seq(Entry) /\ m.LeaderCommitIndex \in Nat
    BY <1>2, Zenon DEF AppendEntriesMessage
  <2> QED BY <1>0, <2>1, LenProperties, SMTT(30)
<1>4. PICK reply : reply = [type |-> "AppendEntriesReply", from |-> i, to |-> m.from,
                            term |-> t, Matched |-> e, Term |-> currentTerm[i],
                            Success |-> matches]
  BY Zenon
<1>5. rpcs' \subseteq rpcs \union {reply}
  BY <1>0, <1>4, Zenon DEF AppendEntriesHandler, AppendEntriesReplyTo, ReplyRepeated, Reply
<1>6. /\ UNCHANGED <<lastIncludedIndex, lastIncludedTerm, matchIndex, asking, votes, handed>>
      /\ Saves
      /\ \A k \in Server \ {i} :
            /\ state'[k] = state[k] /\ currentTerm'[k] = currentTerm[k] /\ logs'[k] = logs[k]
            /\ commitIndex'[k] = commitIndex[k]
      /\ currentTerm'[i] = Larger(t, currentTerm[i])
      /\ state'[i] = IF t >= currentTerm[i] THEN Follower ELSE state[i]
      /\ logs'[i] = IF matches THEN MergeEntries(i, m) ELSE logs[i]
      /\ commitIndex'[i] = IF matches THEN CommitAfter(i, m) ELSE commitIndex[i]
  BY <1>0, <1>1, <1>2, Zenon DEF AppendEntriesHandler, TypeOK, Saves, leaderVars
<1>7. state'[i] = Follower \/ (state'[i] = state[i] /\ currentTerm'[i] = currentTerm[i])
  <2>1. CASE t >= currentTerm[i]
    BY <1>6, <2>1, Zenon
  <2>2. CASE ~ (t >= currentTerm[i])
    <3>1. Larger(t, currentTerm[i]) = currentTerm[i]
      BY <1>2, <2>2, NatOrder, LargerOf, Zenon
    <3> QED BY <1>6, <2>2, <3>1, Zenon
  <2> QED BY <2>1, <2>2, Zenon
<1>8. \A k \in Server : Steady(k) /\ Quiet(k)
  BY <1>6, <1>7, Zenon DEF Steady, Quiet
<1>9. NoNewBallot
  <2>1. NoNewVote
    BY <1>4, <1>5, SMTT(30) DEF NoNewVote
  <2> QED BY <1>8, <2>1, QuietBallots, Zenon
<1>10. ASSUME NEW k \in Server, k # i \/ ~ matches
       PROVE  /\ FullLog(k)' = FullLog(k) /\ persister'[k].snapshot = persister[k].snapshot
              /\ commitIndex'[k] = commitIndex[k]
  <2>1. logs'[k] = logs[k] /\ commitIndex'[k] = commitIndex[k]
    BY <1>6, <1>10, Zenon
  <2> QED BY <1>1, <1>6, <1>10, <2>1, LogStays, Zenon
<1>11. ASSUME NEW g, Step(h, g), NEW k \in Server PROVE MatchOf(g, k)'
  <2>1. CASE matches /\ k = i
    <3>1. state'[i] # Leader
      BY <1>0, <1>2, <1>6, <2>1, Zenon DEF Follower, Leader
    <3> QED BY <1>11, <2>1, <3>1, MatchOfStep, Zenon
  <2>2. CASE ~ (matches /\ k = i)
    <3>1. state'[k] = Leader => state[k] = Leader /\ currentTerm'[k] = currentTerm[k]
      BY <1>8, Zenon DEF Steady, Follower, Leader
    <3>2. commitIndex'[k] = commitIndex[k]
      BY <1>10, <2>2, Zenon
    <3> QED BY <1>6, <1>11, <3>1, <3>2, MatchOfStep, Zenon
  <2> QED BY <2>1, <2>2, Zenon
<1>12. CASE ~ matches
  <2>1. \A k \in Server : FullLog(k)' = FullLog(k) /\ CommitOf(h, k)'
    BY <1>1, <1>6, <1>10, <1>12, CommitOfStep, Zenon
  <2>2. MessageOf(h, reply)'
    BY <1>4, <1>12, Zenon DEF MessageOf
  <2>3. Explains(h)'
    BY <1>1, <1>5, <1>6, <1>8, <1>9, <1>11, <2>1, <2>2, SteadyStep, Zenon
  <2> QED BY <2>3, StaysSame, Zenon
<1>13. CASE matches
  <2>1. t >= currentTerm[i] /\ PrevMatches(i, m)
    BY <1>0, <1>13, ZenonT(30)
  <2>2. currentTerm'[i] = t /\ state'[i] = Follower
    <3>1. Larger(t, currentTerm[i]) = t
      BY <1>2, <2>1, NatOrder, LargerOf, Zenon
    <3> QED BY <1>6, <2>1, <3>1, Zenon
  <2>3. /\ LogOf(h, i) /\ CommitOf(h, i) /\ TermInv(h) /\ AppendOf(h, m)
    BY <1>1, <1>2, Zenon DEF Explains, MessageOf
  <2>4. m.PrevLogTerm # -1
    <3>1. /\ Len(FullLog(i)) = lastIndex(i) /\ FullLog(i) \in Seq(Entry)
          /\ lastIncludedIndex[i] \in Nat /\ Len(FullLog(i)) \in Nat
      BY <1>1, <1>2, FullLogType, Zenon
    <3>2. /\ m.PrevLogIndex \in lastIncludedIndex[i]..Len(FullLog(i))
          /\ m.PrevLogTerm = termAt(i, m.PrevLogIndex)
      BY <2>1, <3>1, Zenon DEF PrevMatches
    <3>3. PICK p, base, len :
              p = m.PrevLogIndex /\ base = lastIncludedIndex[i] /\ len = Len(FullLog(i))
      BY Zenon
    <3>4. p \in Nat /\ base \in Nat /\ len \in Nat /\ p \in base..len
      BY <1>3, <3>1, <3>2, <3>3, Zenon
    <3>5. base <= p /\ p <= len /\ (p # 0 => p \in 1..len)
      BY ONLY <3>4, SMTT(30)
    <3>6. p # 0 => FullLog(i)[p].Term \in Nat
      BY <3>1, <3>3, <3>5, LogTypes, Zenon
    <3>7. m.PrevLogTerm = IF p = 0 THEN 0 ELSE FullLog(i)[p].Term
      BY <1>1, <1>2, <2>3, <3>2, <3>3, <3>4, <3>5, TermAtLog, Zenon DEF CommitOf
    <3> QED BY <3>6, <3>7, SMTT(30)
  <2>5. PICK lead : lead = h.log[t]
    BY Zenon
  <2>6. /\ Elected(h, t) /\ CommittedBy(h, t, lead, m.LeaderCommitIndex)
        /\ m.PrevLogIndex + Len(m.Entries) <= Len(lead)
        /\ \A k \in 1..Len(m.Entries) : m.Entries[k] = lead[m.PrevLogIndex + k]
        /\ m.PrevLogTerm = IF m.PrevLogIndex = 0 THEN 0 ELSE lead[m.PrevLogIndex].Term
    BY <1>0, <2>3, <2>4, <2>5, Zenon DEF AppendOf
  <2>7. Adopts(FullLog(i), FullLog(i)', h.log[t], e)
    <3>1. lead \in Seq(Entry) /\ Lineage(h, lead) /\ Lineage(h, FullLog(i))
      BY <1>1, <1>2, <2>3, <2>5, HistoryTypes, Zenon DEF TermInv, LogOf
    <3>2. Adopts(FullLog(i), persister[i].snapshot \o MergeEntries(i, m), lead,
                 m.PrevLogIndex + Len(m.Entries))
      BY <1>1, <1>2, <2>1, <2>3, <2>6, <3>1, MergeAdopts, Zenon DEF CommitOf
    <3>3. persister'[i].snapshot = persister[i].snapshot
      BY <1>1, <1>2, <1>6, SnapshotStays, Zenon
    <3>4. FullLog(i)' = persister[i].snapshot \o MergeEntries(i, m)
      BY <1>6, <1>13, <3>3, Zenon DEF FullLog
    <3> QED BY <1>0, <2>5, <3>2, <3>4, Zenon
  <2>8. e <= Len(h.log[t])
    BY <1>0, <2>5, <2>6, Zenon
  <2>9. PICK g \in History :
            /\ Step(h, g) /\ TermInv(g)' /\ e <= g.held[i][t]
            /\ g.held[i][t] = e \/ g.held[i][t] = h.held[i][t]
            /\ \A d \in Nat : g.leader[d] = h.leader[d] /\ g.log[d] = h.log[d]
            /\ \A u \in Server : \A d \in Nat : (u = i /\ d = t) \/ g.held[u][d] = h.held[u][d]
    <3>1. \E g \in History : HoldsMore(h, g, i, t, e)
      BY <1>2, <1>3, <2>2, <2>6, <2>8, HeldMore, Zenon
    <3> QED BY <3>1, Zenon DEF HoldsMore
  <2>10. LogOf(g, i)'
    <3>1. currentTerm[i] <= t
      BY <1>2, <2>1, NatOrder, Zenon
    <3>2. \A d \in Nat \ {t} : g.held[i][d] = h.held[i][d]
      BY <1>2, <2>9, Zenon
    <3>3. /\ Step(h, g) /\ Elected(h, t) /\ currentTerm'[i] = t
          /\ g.held[i][t] = e \/ g.held[i][t] = h.held[i][t]
      BY <2>2, <2>6, <2>9, Zenon
    <3>4. \A d \in Nat : g.leader[d] = h.leader[d] /\ g.log[d] = h.log[d]
      BY <2>9, Zenon
    <3>5. TakesOver(h, g, i, t, e)
      BY <1>2, <1>3, <2>7, <3>1, <3>2, <3>3, <3>4, Zenon DEF TakesOver
    <3> QED BY <3>5, TakenLog, Zenon
  <2>11. RoleOf(g, i)' /\ CandidacyStep(h, g, i)
    BY <2>2, Zenon DEF RoleOf, CandidacyStep, Follower, Candidate, Leader
  <2>12. ASSUME NEW k \in Server PROVE CommitOf(g, k)'
    <3>1. CASE k # i
      BY <1>6, <1>10, <2>9, <3>1, CommitOfStep, Zenon
    <3>2. CASE k = i
      <4>1. PICK n : n = commitIndex'[i]
        BY Zenon
      <4>2. /\ n \in Nat /\ n >= commitIndex[i]
            /\ n = commitIndex[i] \/ (n <= e /\ n <= m.LeaderCommitIndex)
        <5>1. n = CommitAfter(i, m)
          BY <1>6, <1>13, <4>1, Zenon
        <5> QED BY <1>0, <1>2, <1>3, <5>1, CommitAfterBounds, Zenon
      <4>3. CommittedBy(g, t, FullLog(i)', n)
        BY <1>2, <1>3, <2>1, <2>5, <2>6, <2>7, <2>9, <4>2, TakenCommit, Zenon
      <4>4. CommittedBy(g, currentTerm'[i], FullLog(i)', commitIndex'[i])
        BY <2>2, <4>1, <4>3, Zenon
      <4>5. persister'[i].snapshot = persister[i].snapshot
        BY <1>1, <1>2, <1>6, SnapshotStays, ZenonT(30)
      <4>6. /\ lastIncludedIndex'[i] <= commitIndex'[i]
            /\ lastIncludedTerm'[i] = LastTerm(persister'[i].snapshot)
        <5>1. /\ lastIncludedIndex[i] <= commitIndex[i] /\ lastIncludedIndex[i] \in Nat
              /\ lastIncludedTerm[i] = LastTerm(persister[i].snapshot)
          BY <1>1, <1>2, <2>3, Zenon DEF CommitOf, TypeOK
        <5>2. /\ lastIncludedIndex'[i] = lastIncludedIndex[i]
              /\ lastIncludedTerm'[i] = lastIncludedTerm[i]
          BY <1>6, Zenon
        <5>3. PICK base, before : base = lastIncludedIndex[i] /\ before = commitIndex[i]
          BY Zenon
        <5>4. base \in Nat /\ before \in Nat /\ n \in Nat /\ base <= before /\ n >= before
          BY <1>2, <4>2, <5>1, <5>3, Zenon
        <5>5. base <= n
          BY <5>4, NatOrder, Zenon
        <5> QED BY <4>1, <4>5, <5>1, <5>2, <5>3, <5>5, Zenon
      <4> QED BY <1>2, <1>6, <2>9, <3>2, <4>4, <4>6, CommitOfChange, Zenon
    <3> QED BY <3>1, <3>2, Zenon
  <2>13. MessageOf(g, reply)'
    BY <1>4, <2>9, Zenon DEF MessageOf
  <2>14. ASSUME NEW k \in Server, k # i
         PROVE  /\ Steady(k) /\ FullLog(k)' = FullLog(k)
                /\ \A d \in Nat : g.held[k][d] = h.held[k][d]
                /\ state[k] = Leader => g.log[currentTerm[k]] = h.log[currentTerm[k]]
    <3>1. currentTerm[k] \in Nat
      BY <1>1, Zenon DEF TypeOK
    <3> QED BY <1>8, <1>10, <2>9, <2>14, <3>1, Zenon
  <2>15. Explains(g)'
    <3>1. Step(h, g) /\ TermInv(g)' /\ \A d \in Nat : g.leader[d] = h.leader[d]
      BY <2>9, Zenon
    <3>2. \A r \in rpcs' : r \in rpcs \/ MessageOf(g, r)'
      BY <1>5, <2>13, Zenon
    <3>3. \A k \in Server : /\ CommitOf(g, k)' /\ MatchOf(g, k)'
                            /\ asking'[k] \subseteq asking[k]
      BY <1>6, <1>11, <2>12, <3>1, Zenon
    <3> QED BY <1>2, <1>9, <2>10, <2>11, <2>14, <3>1, <3>2, <3>3, OneLogStep, Zenon
  <2>16. Continues(h, g, currentTerm')
    BY <2>9, Zenon DEF Step
  <2> QED BY <2>9, <2>15, <2>16, Zenon DEF StaysExplained
<1> QED BY <1>12, <1>13, Zenon

-----------------------------------------------------------------------------
(* A follower switches to a snapshot. *)

\* It keeps its log if that has the snapshot's entries, and else has exactly those.
LEMMA InstallAdopts ==
    ASSUME NEW h \in History, StorageInv, NEW i \in Server,
           lastIncludedTerm[i] = LastTerm(persister[i].snapshot), Lineage(h, FullLog(i)),
           NEW data \in Seq(Entry), Lineage(h, data), Len(data) > lastIncludedIndex[i]
    PROVE  Adopts(FullLog(i), data \o KeptAfter(i, Len(data), LastTerm(data)), data, Len(data))
<1>0. PICK s, n, kept, r :
          /\ s = FullLog(i) /\ n = Len(data) /\ kept = KeptAfter(i, n, LastTerm(data))
          /\ r = data \o kept
  BY Zenon
<1>1. /\ s \in Seq(Entry) /\ Len(s) \in Nat /\ n \in Nat /\ lastIncludedIndex[i] \in Nat
      /\ n > lastIncludedIndex[i] /\ n # 0
  <2>1. s \in Seq(Entry) /\ Len(s) \in Nat /\ lastIncludedIndex[i] \in Nat
    BY <1>0, FullLogType, Zenon
  <2>2. n \in Nat /\ n > lastIncludedIndex[i]
    BY <1>0, LenProperties, Zenon
  <2> QED BY <2>1, <2>2, SMTT(30)
<1>2. Holds(s, data, n) <=> termAt(i, n) = LastTerm(data)
  <2>1. lastIncludedIndex[i] <= n /\ n <= Len(data)
    <3>1. n = Len(data)
      BY <1>0, Zenon
    <3> QED BY <1>1, <3>1, NatOrder, Zenon
  <2>2. Holds(FullLog(i), data, n) <=> termAt(i, n) = IF n = 0 THEN 0 ELSE data[n].Term
    BY <1>1, <2>1, TermMatches, Zenon
  <2>3. LastTerm(data) = IF n = 0 THEN 0 ELSE data[n].Term
    BY <1>0, Zenon DEF LastTerm
  <2> QED BY <1>0, <2>2, <2>3, Zenon
<1>a. n <= Len(data)
  <2>1. n = Len(data)
    BY <1>0, Zenon
  <2> QED BY <1>1, <2>1, NatOrder, Zenon
<1>3. CASE termAt(i, n) = LastTerm(data)
  <2>1. Holds(s, data, n) /\ kept = EntriesAfter(i, n) /\ n <= Len(s)
    BY <1>0, <1>2, <1>3, Zenon DEF KeptAfter, Holds
  <2>2. /\ kept \in Seq(Entry) /\ Len(kept) = Len(s) - n
        /\ \A k \in 1..(Len(s) - n) : kept[k] = s[n + k]
    <3>1. lastIncludedIndex[i] <= n /\ n <= Len(FullLog(i))
      BY <1>0, <1>1, <2>1, NatOrder, Zenon
    <3>2. /\ EntriesAfter(i, n) \in Seq(Entry)
          /\ Len(EntriesAfter(i, n)) = Len(FullLog(i)) - n
          /\ \A k \in 1..(Len(FullLog(i)) - n) : EntriesAfter(i, n)[k] = FullLog(i)[n + k]
      BY <1>1, <3>1, EntriesAfterLog, Zenon
    <3> QED BY <1>0, <2>1, <3>2, Zenon
  <2>3. Joins(r, data, kept)
    BY <1>0, <2>2, Joined, Zenon
  <2>4. r \in Seq(Entry) /\ Len(r) = Len(s)
    <3>1. PICK x, y, z : x = Len(s) /\ y = Len(kept) /\ z = Len(r)
      BY Zenon
    <3>2. r \in Seq(Entry) /\ x \in Nat /\ n \in Nat /\ y = x - n /\ z = n + y
      BY <1>0, <1>1, <2>2, <2>3, <3>1, Zenon DEF Joins
    <3>3. z = x
      BY ONLY <3>2, SMTT(30)
    <3> QED BY <3>1, <3>2, <3>3, Zenon
  <2>5. ASSUME NEW k \in 1..Len(s) PROVE r[k] = s[k]
    <3>1. k \in 1..Len(data) + Len(kept)
      <4>1. PICK x, y : x = Len(s) /\ y = Len(kept)
        BY Zenon
      <4>2. x \in Nat /\ n \in Nat /\ y = x - n /\ k \in 1..x
        BY <1>1, <2>2, <4>1, Zenon
      <4>3. k \in 1..n + y
        BY ONLY <4>2, SMTT(30)
      <4> QED BY <1>0, <4>1, <4>3, Zenon
    <3>2. r[k] = IF k <= n THEN data[k] ELSE kept[k - n]
      BY <1>0, <2>3, <3>1, Zenon DEF Joins
    <3>3. CASE k <= n
      <4>1. k \in 1..n
        BY <1>1, <3>3, InRange, Zenon
      <4> QED BY <2>1, <3>2, <3>3, <4>1, Zenon DEF Holds
    <3>4. CASE ~ (k <= n)
      <4>0. PICK x : x = Len(s)
        BY Zenon
      <4>a. x \in Nat /\ n \in Nat /\ k \in 1..x
        BY <1>1, <4>0, Zenon
      <4>b. k - n \in 1..(x - n) /\ n + (k - n) = k
        BY ONLY <3>4, <4>a, SMTT(30)
      <4>1. k - n \in 1..(Len(s) - n) /\ n + (k - n) = k
        BY <4>0, <4>b, Zenon
      <4> QED BY <2>2, <3>2, <3>4, <4>1, Zenon
    <3> QED BY <3>3, <3>4, Zenon
  <2>6. r = s
    BY <1>1, <2>4, <2>5, SeqEqual, ZenonT(30)
  <2> QED BY <1>0, <1>a, <2>1, <2>6, Zenon DEF Adopts
<1>4. CASE termAt(i, n) # LastTerm(data)
  <2>1. kept = <<>>
    BY <1>0, <1>4, Zenon DEF KeptAfter
  <2>2. r = data
    BY <1>0, <2>1, SMTT(30)
  <2>3. Holds(data, data, n)
    BY <1>0, HoldsTrivially, Zenon
  <2> QED BY <1>0, <1>2, <1>4, <1>a, <2>2, <2>3, Zenon DEF Adopts
<1> QED BY <1>3, <1>4, Zenon

\* What a server that switched to a committed snapshot has.
LEMMA InstalledLog ==
    ASSUME NEW h, Explained(h), NEW i \in Server, UNCHANGED <<state, currentTerm>>,
           NEW data \in Seq(Entry), Lineage(h, data),
           CommittedBy(h, currentTerm[i], data, Len(data)),
           Adopts(FullLog(i), FullLog(i)', data, Len(data))
    PROVE  /\ RoleOf(h, i)' /\ LogOf(h, i)' /\ CandidacyStep(h, h, i)
           /\ CommittedBy(h, currentTerm[i], FullLog(i)', Larger(Len(data), commitIndex[i]))
<1>0. PICK log, new, t, n : /\ log = FullLog(i) /\ new = FullLog(i)'
                            /\ t = currentTerm[i] /\ n = Len(data)
  BY Zenon
<1>1. Step(h, h) /\ Explains(h) /\ h \in History /\ TypeOK
  BY SameHistory, Zenon DEF Explained, ElectionInv, StorageInv
<1>2. /\ TermInv(h) /\ SuccessionInv(h) /\ LogOf(h, i) /\ RoleOf(h, i) /\ CommitOf(h, i)
  BY <1>1, Zenon DEF Explains
<1>3. /\ log \in Seq(Entry) /\ new \in Seq(Entry) /\ Len(log) \in Nat /\ Len(new) \in Nat
      /\ t \in Nat /\ n \in Nat /\ h.log[t] \in Seq(Entry) /\ Len(h.log[t]) \in Nat
      /\ h.held[i][t] \in Nat /\ commitIndex[i] \in Nat
  <2>1. t \in Nat /\ commitIndex[i] \in Nat
    BY <1>0, <1>1, Zenon DEF TypeOK
  <2> QED BY <1>0, <1>1, <2>1, StepTypes, HistoryTypes, LenProperties, Zenon
<1>4. Adopts(log, new, data, n) /\ CommittedBy(h, t, data, n)
  BY <1>0, Zenon
<1>5. /\ Lineage(h, log) /\ UpTo(log, t) /\ Holds(log, h.log[t], h.held[i][t])
  BY <1>0, <1>2, Zenon DEF LogOf
<1>6. Holds(new, data, n)
  BY <1>3, <1>4, AdoptsHolds, Zenon
<1>7. ASSUME Holds(log, data, n) PROVE new = log
  BY <1>4, <1>7, Zenon DEF Adopts
<1>8. Lineage(h, new)
  <2>1. CASE new = log
    BY <1>5, <2>1, Zenon
  <2>2. CASE Holds(new, data, Len(new))
    BY <1>1, <1>3, <2>2, LineagePrefix, Zenon
  <2> QED BY <1>4, <2>1, <2>2, Zenon DEF Adopts
<1>9. UpTo(new, t)
  <2>1. CASE new = log
    BY <1>5, <2>1, ZenonT(30)
  <2>2. CASE Holds(new, data, Len(new)) /\ Len(new) = n
    <3> SUFFICES ASSUME NEW k \in 1..Len(new) PROVE new[k].Term <= t
      BY Zenon DEF UpTo
    <3>1. n # 0
      BY <1>3, <2>2, InRange, NatOrder, Zenon
    <3>2. PICK c \in 0..t : Holds(data, h.log[c], n)
      BY <1>4, <3>1, Zenon DEF CommittedBy
    <3>3. c \in Nat /\ c <= t
      BY <1>3, InRange, Zenon
    <3>4. h.log[c] \in Seq(Entry) /\ UpTo(h.log[c], c)
      BY <1>1, <1>2, <3>3, HistoryTypes, ZenonT(30) DEF TermInv
    <3>5. k \in 1..Len(h.log[c]) /\ new[k] = h.log[c][k]
      <4>1. Len(h.log[c]) \in Nat /\ k \in 1..n
        BY <2>2, <3>4, LenProperties, Zenon
      <4>2. new[k] = data[k] /\ data[k] = h.log[c][k] /\ n <= Len(h.log[c])
        BY <2>2, <3>2, <4>1, Zenon DEF Holds
      <4>3. k \in Nat /\ k # 0 /\ k <= n
        BY <1>3, <4>1, InRange, Zenon
      <4>4. k <= Len(h.log[c])
        BY <1>3, <4>1, <4>2, <4>3, NatOrder, Zenon
      <4> QED BY <4>1, <4>2, <4>3, <4>4, InRange, Zenon
    <3>6. new[k].Term \in Nat
      BY <1>3, LogTypes, ZenonT(30)
    <3>7. new[k].Term <= c
      BY <3>4, <3>5, Zenon DEF UpTo
    <3>8. PICK x : x = new[k].Term
      BY Zenon
    <3>9. x \in Nat /\ c \in Nat /\ t \in Nat /\ x <= c /\ c <= t
      BY <1>3, <3>3, <3>6, <3>7, <3>8, Zenon
    <3>10. x <= t
      BY <3>9, NatOrder, Zenon
    <3> QED BY <3>8, <3>10, Zenon
  <2> QED BY <1>4, <2>1, <2>2, Zenon DEF Adopts
<1>10. ASSUME Elected(h, t) PROVE Holds(data, h.log[t], n)
  <2>1. t <= t
    BY <1>3, NatOrder, Zenon
  <2> QED BY <1>1, <1>2, <1>3, <1>4, <1>10, <2>1, CommittedHeld, Zenon
<1>11. Holds(new, h.log[t], h.held[i][t])
  <2>1. CASE h.held[i][t] = 0
    BY <1>3, <2>1, HoldsTrivially, Zenon
  <2>2. CASE h.held[i][t] # 0
    <3>1. h.held[i][t] <= Len(h.log[t]) /\ (~ Elected(h, t) => h.log[t] = <<>>)
      BY <1>2, <1>3, Zenon DEF TermInv
    <3>2. Len(h.log[t]) # 0
      BY <1>3, <2>2, <3>1, NatOrder, Zenon
    <3>3. Elected(h, t)
      BY <3>1, <3>2, EmptySeq, Zenon
    <3>4. Holds(h.log[t], data, n)
      BY <1>3, <1>10, <3>3, HoldsRules, Zenon
    <3>5. Adopts(log, new, h.log[t], n)
      BY <1>3, <1>4, <3>4, AdoptsEither, Zenon
    <3> QED BY <1>3, <1>5, <3>5, AdoptsHolds, Zenon
  <2> QED BY <2>1, <2>2, ZenonT(30)
<1>12. ASSUME NEW c \in Nat, NEW k \in Nat, Own(h, c, k), Safe(h, currentTerm, log, c, k)
       PROVE  Safe(h, currentTerm', new, c, k)
  <2>1. Safe(h, currentTerm, new, c, k)
    BY <1>0, <1>1, <1>2, <1>3, <1>4, <1>12, AdoptsCommitted, Zenon
  <2> QED BY <2>1, Zenon
<1>13. LogOf(h, i)'
  <2>1. ASSUME NEW c \in Nat, NEW k \in 1..h.held[i][c], Own(h, c, k)
        PROVE  Safe(h, currentTerm', new, c, k)
    <3>1. k \in Nat
      BY <1>1, HistoryTypes, InRange, Zenon
    <3>2. Safe(h, currentTerm, log, c, k)
      BY <1>0, <1>2, <2>1, Zenon DEF LogOf
    <3> QED BY <1>12, <2>1, <3>1, <3>2, ZenonT(30)
  <2>2. currentTerm'[i] = t
    BY <1>0, Zenon
  <2> QED BY <1>0, <1>8, <1>9, <1>11, <2>1, <2>2, Zenon DEF LogOf
<1>14. CandidacyStep(h, h, i)
  BY <1>0, <1>12, Zenon DEF CandidacyStep, SafeStep
<1>15. RoleOf(h, i)'
  <2>1. ASSUME state[i] = Leader PROVE new = log
    <3>1. h.leader[t] = i /\ h.log[t] = log
      BY <1>0, <1>2, <2>1, Zenon DEF RoleOf
    <3>2. Elected(h, t)
      BY <3>1, ServerAssumption, Zenon DEF Elected
    <3>3. Holds(data, log, n)
      BY <1>10, <3>1, <3>2, Zenon
    <3>4. Holds(log, data, n)
      BY <1>3, <3>3, HoldsRules, Zenon
    <3> QED BY <1>7, <3>4, Zenon
  <2> QED BY <1>0, <1>2, <2>1, Zenon DEF RoleOf
<1>16. CommittedBy(h, t, new, Larger(n, commitIndex[i]))
  <2>1. CommittedBy(h, t, log, commitIndex[i])
    BY <1>0, <1>2, Zenon DEF CommitOf
  <2>2. CASE commitIndex[i] <= n
    <3>1. CommittedBy(h, t, new, n)
      <4>1. n \in Nat /\ t \in Nat
        BY <1>3, Zenon
      <4>2. n <= n /\ t <= t
        BY <4>1, NatOrder, Zenon
      <4> QED BY <1>1, <1>3, <1>4, <1>6, <4>2, CommittedPrefix, Zenon
    <3>2. Larger(n, commitIndex[i]) = n
      BY <1>3, <2>2, LargerOf, Zenon
    <3> QED BY <3>1, <3>2, ZenonT(30)
  <2>3. CASE ~ (commitIndex[i] <= n)
    <3>1. n <= commitIndex[i] /\ Larger(n, commitIndex[i]) = commitIndex[i]
      BY <1>3, <2>3, LargerOf, NatOrder, Zenon
    <3>2. Holds(data, log, n)
      BY <1>1, <1>2, <1>3, <1>4, <2>1, <3>1, CommittedAgree, Zenon
    <3>3. Holds(log, data, n)
      BY <1>3, <3>2, HoldsRules, Zenon
    <3> QED BY <1>7, <2>1, <3>1, <3>3, Zenon
  <2> QED BY <2>2, <2>3, Zenon
<1> QED BY <1>0, <1>13, <1>14, <1>15, <1>16, Zenon

\* The service switches to a snapshot that was handed to it.
LEMMA CondInstallSnapshotExplained ==
    ASSUME NEW h, Explained(h), NEW i \in Server, NEW s \in handed[i], CondInstallSnapshot(i, s)
    PROVE  Explains(h)'
<1>1. Step(h, h) /\ StorageInv /\ Explains(h) /\ h \in History /\ TypeOK
  BY SameHistory, Zenon DEF Explained, ElectionInv, StorageInv
<1>2. /\ UNCHANGED <<matchIndex, asking, votes, rpcs>>
      /\ handed' = [handed EXCEPT ![i] = @ \ {s}]
  BY Zenon DEF CondInstallSnapshot, leaderVars
<1>3. \A k \in Server : handed'[k] \subseteq handed[k]
  BY <1>1, <1>2, Zenon DEF TypeOK
<1>4. CASE s.SnapshotIndex <= lastIncludedIndex[i]
  <2>1. UNCHANGED <<state, currentTerm, logs, lastIncludedIndex, lastIncludedTerm, commitIndex,
                    persister>>
    BY <1>4, Zenon DEF CondInstallSnapshot, serverVars, logVars
  <2>2. \A k \in Server : Steady(k) /\ FullLog(k)' = FullLog(k)
    BY <2>1, Zenon DEF Steady, FullLog
  <2>3. NoNewBallot
    BY <1>2, <2>1, Zenon DEF NoNewBallot, Ballot
  <2>4. \A k \in Server : CommitOf(h, k)' /\ MatchOf(h, k)'
    BY <1>1, <1>2, <1>3, <2>1, <2>2, CommitOfStep, MatchOfStep, Zenon
  <2> QED BY <1>1, <1>2, <2>2, <2>3, <2>4, SteadyStep, Zenon
<1>5. CASE ~ (s.SnapshotIndex <= lastIncludedIndex[i])
  <2>0. PICK data, n, term, kept :
            /\ data = s.Snapshot /\ n = s.SnapshotIndex /\ term = s.SnapshotTerm
            /\ kept = KeptAfter(i, s.SnapshotIndex, s.SnapshotTerm)
    BY Zenon
  <2>1. Compact(i, n, term, kept, data)
    BY <1>5, <2>0, Zenon DEF CondInstallSnapshot
  <2>2. /\ UNCHANGED <<state, currentTerm>>
        /\ logs' = [logs EXCEPT ![i] = kept]
        /\ lastIncludedIndex' = [lastIncludedIndex EXCEPT ![i] = n]
        /\ lastIncludedTerm' = [lastIncludedTerm EXCEPT ![i] = term]
        /\ commitIndex' = [commitIndex EXCEPT ![i] = Larger(n, commitIndex[i])]
        /\ persistWithSnapshot(i, data)
    BY <2>1, Zenon DEF Compact, serverVars
  <2>3. /\ logs'[i] = kept /\ lastIncludedIndex'[i] = n /\ lastIncludedTerm'[i] = term
        /\ commitIndex'[i] = Larger(n, commitIndex[i]) /\ persister'[i].snapshot = data
    BY <1>1, <2>2, Zenon DEF TypeOK, persistWithSnapshot
  <2>4. ASSUME NEW k \in Server, k # i
        PROVE  /\ logs'[k] = logs[k] /\ lastIncludedIndex'[k] = lastIncludedIndex[k]
               /\ lastIncludedTerm'[k] = lastIncludedTerm[k]
               /\ commitIndex'[k] = commitIndex[k] /\ persister'[k] = persister[k]
    BY <1>1, <2>2, <2>4, Zenon DEF TypeOK, persistWithSnapshot
  <2>5. \A k \in Server \ {i} : /\ FullLog(k)' = FullLog(k)
                                /\ persister'[k].snapshot = persister[k].snapshot
    BY <2>4, Zenon DEF FullLog
  <2>6. /\ n = Len(data) /\ data \in Seq(Entry) /\ n \in Nat /\ commitIndex[i] \in Nat
        /\ lastIncludedIndex[i] \in Nat
    <3>1. s \in Handed /\ commitIndex[i] \in Nat /\ lastIncludedIndex[i] \in Nat
      BY <1>1, Zenon DEF TypeOK
    <3>2. Len(s.Snapshot) = s.SnapshotIndex
      BY <1>1, Zenon DEF StorageInv, SnapshotLength, SnapshotsCarried
    <3> QED BY <2>0, <3>1, <3>2, Zenon DEF Handed
  <2>7. LogOf(h, i) /\ CommitOf(h, i) /\ TermInv(h) /\ MatchOf(h, i)
    BY <1>1, Zenon DEF Explains
  <2>8. /\ Lineage(h, data) /\ term = LastTerm(data)
        /\ CommittedBy(h, currentTerm[i], data, Len(data))
    BY <2>0, <2>7, Zenon DEF CommitOf, SnapshotOf
  <2>9. Adopts(FullLog(i), FullLog(i)', data, Len(data))
    <3>0. PICK x : x = lastIncludedIndex[i]
      BY Zenon
    <3>a. n \in Nat /\ x \in Nat /\ ~ (n <= x)
      BY <1>5, <2>0, <2>6, <3>0, Zenon
    <3>b. n > x
      BY <3>a, NatOrder, Zenon
    <3>1. /\ Lineage(h, FullLog(i)) /\ lastIncludedTerm[i] = LastTerm(persister[i].snapshot)
          /\ Len(data) > lastIncludedIndex[i]
      BY <2>6, <2>7, <3>0, <3>b, Zenon DEF LogOf, CommitOf
    <3>2. Adopts(FullLog(i), data \o KeptAfter(i, Len(data), LastTerm(data)), data, Len(data))
      BY <1>1, <2>6, <2>8, <3>1, InstallAdopts, Zenon
    <3>3. FullLog(i)' = data \o KeptAfter(i, Len(data), LastTerm(data))
      BY <2>0, <2>3, <2>6, <2>8, Zenon DEF FullLog
    <3> QED BY <3>2, <3>3, ZenonT(30)
  <2>10. /\ RoleOf(h, i)' /\ LogOf(h, i)' /\ CandidacyStep(h, h, i)
         /\ CommittedBy(h, currentTerm[i], FullLog(i)', Larger(Len(data), commitIndex[i]))
    BY <2>2, <2>6, <2>8, <2>9, InstalledLog, Zenon
  <2>11. commitIndex'[i] >= n /\ commitIndex'[i] >= commitIndex[i] /\ commitIndex'[i] \in Nat
    <3>1. PICK x : x = commitIndex[i]
      BY Zenon
    <3>2. n \in Nat /\ x \in Nat
      BY <2>6, <3>1, Zenon
    <3>3. Larger(n, x) >= n /\ Larger(n, x) >= x /\ Larger(n, x) \in Nat
      BY <3>2, LargerOf, Zenon
    <3> QED BY <2>3, <3>1, <3>3, Zenon
  <2>12. ASSUME NEW k \in Server PROVE CommitOf(h, k)' /\ MatchOf(h, k)'
    <3>1. CASE k # i
      BY <1>1, <1>2, <1>3, <2>2, <2>4, <2>5, <3>1, CommitOfStep, MatchOfStep, Zenon
    <3>2. CASE k = i
      <4>1. CommittedBy(h, currentTerm'[i], FullLog(i)', commitIndex'[i])
        BY <2>2, <2>3, <2>6, <2>10, Zenon
      <4>2. /\ lastIncludedIndex'[i] <= commitIndex'[i]
            /\ lastIncludedTerm'[i] = LastTerm(persister'[i].snapshot)
        BY <2>3, <2>6, <2>8, <2>11, Zenon
      <4>3. CommitOf(h, i)'
        BY <1>1, <1>3, <4>1, <4>2, CommitOfChange, ZenonT(30)
      <4>4. MatchOf(h, i)'
        <5>1. \A j \in Server : matchIndex[i][j] \in Nat
          BY <1>1, Zenon DEF TypeOK
        <5> SUFFICES ASSUME NEW j \in Server, state'[i] = Leader
                     PROVE  \/ matchIndex'[i][j] <= commitIndex'[i]
                            \/ matchIndex'[i][j] <= h.held[j][currentTerm'[i]]
          BY Zenon DEF MatchOf
        <5>2. \/ matchIndex[i][j] <= commitIndex[i]
              \/ matchIndex[i][j] <= h.held[j][currentTerm[i]]
          BY <2>2, <2>7, Zenon DEF MatchOf
        <5>3. PICK x, y, z : x = matchIndex[i][j] /\ y = commitIndex[i] /\ z = commitIndex'[i]
          BY Zenon
        <5>4. x \in Nat /\ y \in Nat /\ z \in Nat /\ z >= y
          BY <2>6, <2>11, <5>1, <5>3, Zenon
        <5>5. x <= y => x <= z
          BY <5>4, NatOrder, Zenon
        <5> QED BY <1>2, <2>2, <5>2, <5>3, <5>5, Zenon
      <4> QED BY <3>2, <4>3, <4>4, Zenon
    <3> QED BY <3>1, <3>2, Zenon
  <2>13. TermInv(h)'
    BY <1>1, <2>7, TermStep, Zenon DEF TermInv
  <2>14. NoNewBallot
    BY <1>2, <2>2, Zenon DEF NoNewBallot, Ballot
  <2>15. \A k \in Server : Steady(k)
    BY <2>2, Zenon DEF Steady
  <2> QED BY <1>1, <1>2, <2>5, <2>10, <2>12, <2>13, <2>14, <2>15, OneLogStep, Zenon
<1> QED BY <1>4, <1>5, Zenon
=============================================================================
