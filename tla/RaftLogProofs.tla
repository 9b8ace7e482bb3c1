--------------------------- MODULE RaftLogProofs ----------------------------
(***************************************************************************)
(* The safety of the replicated log: log matching, leader completeness,    *)
(* aligned snapshots, acknowledged entries that are stored, commitments    *)
(* that are kept, and that Raft implements ReplicatedLog.                  *)
(*                                                                         *)
(* Every reachable state has a history that explains it: who led each      *)
(* term, with which log, and up to where each server has taken that log    *)
(* over.  The properties follow from such a history; RaftInvariants says   *)
(* what it is.                                                             *)
(***************************************************************************)
EXTENDS RaftProofs, RaftLogActions, RaftHistory

-----------------------------------------------------------------------------
(* Every state has a history that explains it. *)

\* At the start nobody was elected.
LEMMA InitExplained ==
    ASSUME Init
    PROVE  \E h \in History : Explains(h)
<1>0. PICK h : h = [leader |-> [t \in Nat |-> Nil], log |-> [t \in Nat |-> <<>>],
                    held |-> [i \in Server |-> [t \in Nat |-> 0]]]
  BY Zenon
<1>1. <<>> \in Seq(Entry) /\ Len(<<>>) = 0
  BY EmptySeq, Zenon
<1>2. /\ h \in History /\ \A t \in Nat : h.leader[t] = Nil /\ h.log[t] = <<>>
      /\ \A i \in Server : \A t \in Nat : h.held[i][t] = 0
  <2>1. /\ [t \in Nat |-> Nil] \in [Nat -> Server \union {Nil}]
        /\ [t \in Nat |-> <<>>] \in [Nat -> Seq(Entry)]
        /\ [i \in Server |-> [t \in Nat |-> 0]] \in [Server -> [Nat -> Nat]]
    BY <1>1, Zenon
  <2> QED BY <1>0, <2>1, Grounded, Zenon DEF History, HistoryRecord
<1>3. \A i \in Server : /\ currentTerm[i] = 0 /\ FullLog(i) = <<>> /\ state[i] = Follower
                        /\ commitIndex[i] = 0 /\ lastIncludedIndex[i] = 0
                        /\ lastIncludedTerm[i] = 0 /\ persister[i].snapshot = <<>>
                        /\ handed[i] = {} /\ asking[i] = {}
  BY SMTT(30) DEF Init, FullLog
<1>4. rpcs = {}
  BY Zenon DEF Init
<1>5. TermInv(h)
  BY <1>1, <1>2, SMTT(30) DEF TermInv, Lineage, UpTo
<1>6. ElectorInv(h) /\ SuccessionInv(h)
  BY <1>2, Zenon DEF ElectorInv, SuccessionInv, Elected
<1>7. \A v, i \in Server : \A t \in Nat : ~ Ballot(v, t, i)
  BY <1>3, <1>4, Zenon DEF Ballot
<1>8. AskedTerms
  BY <1>3, <1>7, Zenon DEF AskedTerms
<1>9. ASSUME NEW i \in Server
      PROVE  /\ RoleOf(h, i) /\ LogOf(h, i) /\ CommitOf(h, i) /\ MatchOf(h, i)
             /\ \A v \in Server : BallotOf(h, v, i)
  <2>1. RoleOf(h, i) /\ MatchOf(h, i) /\ \A v \in Server : BallotOf(h, v, i)
    BY <1>3, Zenon DEF RoleOf, MatchOf, BallotOf, Follower, Candidate, Leader
  <2>2. LogOf(h, i)
    BY <1>1, <1>2, <1>3, SMTT(30) DEF LogOf, Lineage, UpTo, Holds
  <2>3. CommitOf(h, i)
    BY <1>1, <1>3, SMTT(30) DEF CommitOf, CommittedBy, LastTerm
  <2> QED BY <2>1, <2>2, <2>3, Zenon
<1> QED BY <1>2, <1>4, <1>5, <1>6, <1>8, <1>9, Zenon DEF Explains

\* Every step continues the history.
LEMMA NextExplained ==
    ASSUME [Next]_vars, NEW h, Explained(h)
    PROVE  StaysExplained(h)
<1>1. ASSUME NEW i \in Campaigning, NEW asked \in SUBSET (Server \ {i}), Election(i, asked)
      PROVE  StaysExplained(h)
  <2>1. i \in Server /\ asked \in SUBSET Server
    BY BoundAssumption, Zenon
  <2> QED BY <1>1, <2>1, ElectionExplained, StaysSame, Zenon
<1>2. ASSUME NEW i \in Server, NEW j \in Server, NEW term \in 1..MaxTerm, RequestVote(i, j, term)
      PROVE  StaysExplained(h)
  <2>1. term \in Nat
    BY BoundAssumption, SMTT(30)
  <2> QED BY <1>2, <2>1, RequestVoteExplained, StaysSame, Zenon
<1>3. ASSUME NEW m \in rpcs, RequestVoteHandle(m) PROVE StaysExplained(h)
  BY <1>3, RequestVoteHandleExplained, StaysSame, Zenon
<1>4. ASSUME NEW m \in rpcs, RequestVoteReply(m) PROVE StaysExplained(h)
  BY <1>4, RequestVoteReplyExplained, Zenon
<1>5. ASSUME NEW i \in Server, NEW c \in Command, Start(i, c) PROVE StaysExplained(h)
  BY <1>5, StartExplained, Zenon
<1>6. ASSUME NEW i \in Server, NEW j \in Server, ReplicateToPeer(i, j) PROVE StaysExplained(h)
  BY <1>6, ReplicateToPeerExplained, StaysSame, Zenon
<1>7. ASSUME NEW m \in rpcs, AppendEntriesHandler(m) PROVE StaysExplained(h)
  BY <1>7, AppendEntriesHandlerExplained, Zenon
<1>8. ASSUME NEW m \in rpcs, AppendEntriesReply(m) PROVE StaysExplained(h)
  BY <1>8, AppendEntriesReplyExplained, StaysSame, Zenon
<1>9. ASSUME NEW m \in rpcs, InstallSnapshot(m) PROVE StaysExplained(h)
  BY <1>9, InstallSnapshotExplained, StaysSame, Zenon
<1>10. ASSUME NEW m \in rpcs, InstallSnapshotReply(m) PROVE StaysExplained(h)
  BY <1>10, InstallSnapshotReplyExplained, StaysSame, Zenon
<1>11. ASSUME NEW i \in Server, NEW s \in handed[i], CondInstallSnapshot(i, s)
       PROVE  StaysExplained(h)
  BY <1>11, CondInstallSnapshotExplained, StaysSame, Zenon
<1>12. ASSUME NEW i \in Server, NEW index \in SnapshotIndexes, Snapshot(i, index)
       PROVE  StaysExplained(h)
  <2>1. index \in Nat
    BY BoundAssumption, Zenon
  <2> QED BY <1>12, <2>1, SnapshotExplained, StaysSame, Zenon
<1>13. ASSUME NEW i \in Crashing, Restart(i) PROVE StaysExplained(h)
  <2>1. i \in Server
    BY BoundAssumption, Zenon
  <2> QED BY <1>13, <2>1, RestartExplained, StaysSame, Zenon
<1>14. ASSUME NEW m \in rpcs, Lose(m) PROVE StaysExplained(h)
  BY <1>14, LoseExplained, StaysSame, Zenon
<1>15. CASE UNCHANGED vars
  BY <1>15, StutterExplained, StaysSame, Zenon
<1> QED BY <1>1, <1>2, <1>3, <1>4, <1>5, <1>6, <1>7, <1>8, <1>9, <1>10, <1>11, <1>12, <1>13,
           <1>14, <1>15, Zenon DEF Next

\* A history that explains a state before a step is continued by one that explains it after.
LEMMA StepExplained ==
    ASSUME ElectionInv, [Next]_vars, NEW h \in History, Explains(h)
    PROVE  /\ StorageInv' /\ ElectionInv' /\ Explained(h)
           /\ \E g \in History : Continues(h, g, currentTerm') /\ Explains(g)' /\ Step(h, g)
<1>1. StorageInv' /\ ElectionInv' /\ ElectionStep
  BY NextStorage, NextVotes, ElectionInvNext, Zenon DEF ElectionInv
<1>2. Explained(h)
  BY <1>1, Zenon DEF Explained
<1>3. PICK g \in History : Continues(h, g, currentTerm') /\ Explains(g)'
  BY <1>2, NextExplained, Zenon DEF StaysExplained
<1>4. Step(h, g)
  BY <1>1, <1>3, Zenon DEF Step
<1> QED BY <1>1, <1>2, <1>3, <1>4, Zenon

\* The logs have a history in every reachable state.
LEMMA LogSafety == Spec => []LogSafetyInv
<1>1. Init => LogSafetyInv
  BY InitExplained, ElectionInvInit, Zenon DEF LogSafetyInv
<1>2. LogSafetyInv /\ [Next]_vars => LogSafetyInv'
  <2> SUFFICES ASSUME LogSafetyInv, [Next]_vars PROVE LogSafetyInv'
    BY Zenon
  <2>1. PICK h \in History : Explains(h)
    BY Zenon DEF LogSafetyInv
  <2>2. ElectionInv' /\ \E g \in History : Explains(g)'
    BY <2>1, StepExplained, Zenon DEF LogSafetyInv
  <2> QED BY <2>2, Zenon DEF LogSafetyInv
<1> QED BY <1>1, <1>2, PTL DEF Spec

-----------------------------------------------------------------------------
(* What a history shows of the state. *)

\* What was committed by a leader's term or before is in its log.
LEMMA LeaderHasCommitted ==
    ASSUME LogSafetyInv, NEW i \in Server, NEW j \in Server, state[i] = Leader,
           currentTerm[j] <= currentTerm[i]
    PROVE  Holds(FullLog(j), FullLog(i), commitIndex[j])
<1>1. PICK h \in History : Explains(h)
  BY Zenon DEF LogSafetyInv
<1>2. /\ currentTerm[i] \in Nat /\ currentTerm[j] \in Nat /\ commitIndex[j] \in Nat
      /\ FullLog(j) \in Seq(Entry)
  BY FullLogType, Zenon DEF LogSafetyInv, ElectionInv, StorageInv, TypeOK
<1>3. /\ h.leader[currentTerm[i]] = i /\ h.log[currentTerm[i]] = FullLog(i)
      /\ CommittedBy(h, currentTerm[j], FullLog(j), commitIndex[j]) /\ SuccessionInv(h)
  BY <1>1, Zenon DEF Explains, RoleOf, CommitOf
<1>4. Elected(h, currentTerm[i])
  BY <1>3, ServerAssumption, Zenon DEF Elected
<1>5. Holds(FullLog(j), h.log[currentTerm[i]], commitIndex[j])
  BY <1>2, <1>3, <1>4, CommittedHeld, Zenon
<1> QED BY <1>3, <1>5, Zenon

\* A server has what it has committed, and what two servers have committed is the same.
LEMMA CommittedIsHeld ==
    ASSUME LogSafetyInv, NEW i \in Server
    PROVE  Holds(FullLog(i), FullLog(i), commitIndex[i])
<1>1. PICK h \in History : Explains(h)
  BY Zenon DEF LogSafetyInv
<1>2. /\ currentTerm[i] \in Nat /\ commitIndex[i] \in Nat /\ FullLog(i) \in Seq(Entry)
  BY FullLogType, Zenon DEF LogSafetyInv, ElectionInv, StorageInv, TypeOK
<1>3. /\ CommittedBy(h, currentTerm[i], FullLog(i), commitIndex[i])
      /\ TermInv(h) /\ SuccessionInv(h)
  BY <1>1, Zenon DEF Explains, CommitOf
<1> QED BY <1>2, <1>3, CommittedAgree, SMTT(30)

\* The first entries of a log that another has agree with it, as the runs compare them.
LEMMA HoldsAgree ==
    ASSUME NEW s \in Seq(Entry), NEW t \in Seq(Entry), NEW n \in Nat, Holds(s, t, n)
    PROVE  n <= Len(s) /\ Len(SubSeq(s, 1, n)) = n /\ Agree(SubSeq(s, 1, n), t)
<1>1. Len(s) \in Nat /\ Len(t) \in Nat /\ n <= Len(s) /\ n <= Len(t)
  BY LenProperties, Zenon DEF Holds
<1>2. PICK x : x = SubSeq(s, 1, n)
  BY Zenon
<1>3. \A k \in 1..n : s[k] \in Entry
  BY <1>1, ElementOfSeq, SMTT(30)
<1>4. IsCut(x, s, n)
  BY <1>2, <1>3, Cut, Zenon
<1>5. Len(x) = n /\ \A k \in 1..n : x[k] = s[k] /\ s[k] = t[k]
  BY <1>4, Zenon DEF IsCut, Holds
<1>6. Smaller(Len(x), Len(t)) = n
  BY <1>1, <1>5, SMTT(30) DEF Smaller
<1>7. Agree(x, t)
  BY <1>5, <1>6, Zenon DEF Agree
<1> QED BY <1>1, <1>2, <1>5, <1>7, Zenon

\* What i has committed is what its commit index says.
LEMMA CommittedCut ==
    ASSUME LogSafetyInv, NEW i \in Server
    PROVE  /\ FullLog(i) \in Seq(Entry) /\ commitIndex[i] \in Nat
           /\ commitIndex[i] <= Len(FullLog(i)) /\ Len(FullLog(i)) = lastIndex(i)
           /\ Committed(i) = SubSeq(FullLog(i), 1, commitIndex[i])
<1>1. /\ FullLog(i) \in Seq(Entry) /\ Len(FullLog(i)) \in Nat /\ Len(FullLog(i)) = lastIndex(i)
      /\ commitIndex[i] \in Nat
  BY FullLogType, Zenon DEF LogSafetyInv, ElectionInv, StorageInv, TypeOK
<1>2. commitIndex[i] <= Len(FullLog(i))
  BY CommittedIsHeld, Zenon DEF Holds
<1>3. Smaller(commitIndex[i], Len(FullLog(i))) = commitIndex[i]
  BY <1>1, <1>2, SMTT(30) DEF Smaller
<1> QED BY <1>1, <1>2, <1>3, Zenon DEF Committed

\* Log Matching: logs that have an entry of the same term at an index are the same up to it,
\* whatever was truncated, compacted or installed from a snapshot.
THEOREM LogsMatch == Spec => []LogMatching
<1>1. LogSafetyInv => LogMatching
  <2> SUFFICES ASSUME LogSafetyInv, NEW i \in Server, NEW j \in Server,
                      NEW n \in 1..Smaller(Len(FullLog(i)), Len(FullLog(j))),
                      FullLog(i)[n].Term = FullLog(j)[n].Term
               PROVE  SubSeq(FullLog(i), 1, n) = SubSeq(FullLog(j), 1, n)
    BY Zenon DEF LogMatching
  <2>1. PICK h \in History : Explains(h)
    BY Zenon DEF LogSafetyInv
  <2>2. PICK s \in Seq(Entry), t \in Seq(Entry) : s = FullLog(i) /\ t = FullLog(j)
    BY FullLogType, Zenon DEF LogSafetyInv, ElectionInv
  <2>3. n \in Nat /\ n > 0 /\ n <= Len(s) /\ n <= Len(t) /\ Len(s) \in Nat /\ Len(t) \in Nat
    BY <2>2, LenProperties, SMTT(30) DEF Smaller
  <2>4. Lineage(h, s) /\ Lineage(h, t) /\ s[n].Term = t[n].Term
    BY <2>1, <2>2, Zenon DEF Explains, LogOf
  <2>5. Holds(s, t, n)
    BY <2>3, <2>4, LineageMatch, Zenon
  <2>6. \A k \in 1..n : s[k] \in Entry /\ t[k] \in Entry /\ s[k] = t[k]
    BY <2>3, <2>5, ElementOfSeq, SMTT(30) DEF Holds
  <2>7. PICK x, y : x = SubSeq(s, 1, n) /\ y = SubSeq(t, 1, n)
    BY Zenon
  <2>8. IsCut(x, s, n) /\ IsCut(y, t, n)
    BY <2>3, <2>6, <2>7, Cut, Zenon
  <2>9. x \in Seq(Entry) /\ y \in Seq(Entry) /\ Len(x) = Len(y) /\ \A k \in 1..Len(x) : x[k] = y[k]
    BY <2>6, <2>8, Zenon DEF IsCut
  <2>10. x = y
    BY <2>9, SeqEqual, Zenon
  <2> QED BY <2>2, <2>7, <2>10, Zenon
<1> QED BY <1>1, LogSafety, PTL

\* Leader Completeness: a leader has every entry that a server of its term or below committed.
THEOREM LeadersAreComplete == Spec => []LeaderCompleteness
<1>1. LogSafetyInv => LeaderCompleteness
  <2> SUFFICES ASSUME LogSafetyInv, NEW i \in Server, NEW j \in Server, state[i] = Leader,
                      currentTerm[j] <= currentTerm[i]
               PROVE  commitIndex[j] <= lastIndex(i) /\ Agree(Committed(j), FullLog(i))
    BY Zenon DEF LeaderCompleteness
  <2>1. /\ FullLog(j) \in Seq(Entry) /\ commitIndex[j] \in Nat
        /\ Committed(j) = SubSeq(FullLog(j), 1, commitIndex[j])
        /\ FullLog(i) \in Seq(Entry) /\ Len(FullLog(i)) = lastIndex(i)
    BY CommittedCut, Zenon
  <2>2. Holds(FullLog(j), FullLog(i), commitIndex[j])
    BY LeaderHasCommitted, Zenon
  <2>3. Agree(SubSeq(FullLog(j), 1, commitIndex[j]), FullLog(i))
    BY <2>1, <2>2, HoldsAgree, Zenon
  <2> QED BY <2>1, <2>2, <2>3, Zenon DEF Holds
<1> QED BY <1>1, LogSafety, PTL

\* Snapshots end where the log begins, with the entry that was there, and below what is
\* committed; no commit index is past the end of its log.
THEOREM SnapshotsAreAligned == Spec => []SnapshotAligned
<1>1. LogSafetyInv => SnapshotAligned
  <2> SUFFICES ASSUME LogSafetyInv, NEW i \in Server
               PROVE  /\ Len(persister[i].snapshot) = lastIncludedIndex[i]
                      /\ lastIncludedIndex[i] > 0 =>
                            persister[i].snapshot[lastIncludedIndex[i]].Term = lastIncludedTerm[i]
                      /\ lastIncludedIndex[i] <= commitIndex[i]
                      /\ commitIndex[i] <= lastIndex(i)
    BY Zenon DEF SnapshotAligned
  <2>1. PICK h \in History : Explains(h)
    BY Zenon DEF LogSafetyInv
  <2>2. /\ lastIncludedIndex[i] <= commitIndex[i]
        /\ lastIncludedTerm[i] = LastTerm(persister[i].snapshot)
    BY <2>1, Zenon DEF Explains, CommitOf
  <2>3. Len(persister[i].snapshot) = lastIncludedIndex[i] /\ lastIncludedIndex[i] \in Nat
    BY Zenon DEF LogSafetyInv, ElectionInv, StorageInv, SnapshotLength, TypeOK
  <2>4. commitIndex[i] <= lastIndex(i)
    BY CommittedCut, Zenon
  <2> QED BY <2>2, <2>3, <2>4, SMTT(30) DEF LastTerm
<1> QED BY <1>1, LogSafety, PTL

\* An acknowledgement above the leader's commit index is true of a follower in its term.
THEOREM AcksAreStored == Spec => []AckedIsStored
<1>1. LogSafetyInv => AckedIsStored
  <2> SUFFICES ASSUME LogSafetyInv, NEW i \in Server, NEW j \in Server, state[i] = Leader,
                      currentTerm[j] = currentTerm[i], matchIndex[i][j] > commitIndex[i]
               PROVE  /\ matchIndex[i][j] <= lastIndex(j)
                      /\ Agree(SubSeq(FullLog(j), 1, matchIndex[i][j]), FullLog(i))
    BY Zenon DEF AckedIsStored
  <2>1. PICK h \in History : Explains(h)
    BY Zenon DEF LogSafetyInv
  <2>2. PICK t, n : t = currentTerm[i] /\ n = matchIndex[i][j]
    BY Zenon
  <2>3. t \in Nat /\ n \in Nat /\ commitIndex[i] \in Nat
    BY <2>2, Zenon DEF LogSafetyInv, ElectionInv, StorageInv, TypeOK
  <2>4. /\ FullLog(i) \in Seq(Entry) /\ FullLog(j) \in Seq(Entry)
        /\ Len(FullLog(j)) = lastIndex(j)
    BY CommittedCut, Zenon
  <2>5. h.log[t] = FullLog(i) /\ (n <= commitIndex[i] \/ n <= h.held[j][t])
    BY <2>1, <2>2, Zenon DEF Explains, RoleOf, MatchOf
  <2>6. n <= h.held[j][t] /\ h.held[j][t] \in Nat
    BY <2>2, <2>3, <2>5, HistoryTypes, SMTT(30)
  <2>7. Holds(FullLog(j), FullLog(i), h.held[j][t])
    BY <2>1, <2>2, <2>5, Zenon DEF Explains, LogOf
  <2>8. Holds(FullLog(j), FullLog(i), n)
    BY <2>3, <2>4, <2>6, <2>7, HoldsRules, Zenon
  <2>9. n <= Len(FullLog(j)) /\ Agree(SubSeq(FullLog(j), 1, n), FullLog(i))
    BY <2>3, <2>4, <2>8, HoldsAgree, Zenon
  <2> QED BY <2>2, <2>4, <2>9, Zenon
<1> QED BY <1>1, LogSafety, PTL

\* Two logs with committed prefixes agree on the shorter one.
AgreedBy(h) ==
    \A t, u \in Nat : \A s, r \in Seq(Entry) : \A n, k \in Nat :
        n <= k /\ CommittedBy(h, t, s, n) /\ CommittedBy(h, u, r, k) => Holds(s, r, n)

\* A history that explains the state makes them agree.
LEMMA ExplainsAgreed == \A h \in History : Explains(h) => AgreedBy(h)
BY CommittedAgree, Zenon DEF Explains, AgreedBy

\* Before and after a step.
LEMMA ExplainsAgreedNext == (\A h \in History : Explains(h) => AgreedBy(h))'
BY ExplainsAgreed, PTL

\* What was committed before a step, and what is after it, by one history.
CommittedAround(g) ==
    /\ g \in History /\ AgreedBy(g)
    /\ \A i \in Server :
          /\ currentTerm[i] \in Nat /\ currentTerm'[i] \in Nat
          /\ commitIndex[i] \in Nat /\ commitIndex'[i] \in Nat
          /\ FullLog(i) \in Seq(Entry) /\ FullLog(i)' \in Seq(Entry)
          /\ CommittedBy(g, currentTerm[i], FullLog(i), commitIndex[i])
          /\ CommittedBy(g, currentTerm'[i], FullLog(i)', commitIndex'[i])

\* The history that explains the state after a step is one.
LEMMA StepCommitted ==
    ASSUME NEW h, NEW g, Step(h, g), Explains(g)', StorageInv'
    PROVE  CommittedAround(g)
<1>1. h \in History /\ g \in History /\ Explains(h) /\ TypeOK /\ TypeOK'
  BY Zenon DEF Step, ElectionInv, StorageInv
<1>2. AgreedBy(g)
  <2>1. (\A x \in History : Explains(x) => AgreedBy(x))'
    BY ExplainsAgreedNext, Zenon
  <2>2. Explains(g)' => AgreedBy(g)'
    BY <1>1, <2>1, Zenon
  <2>3. AgreedBy(g)' <=> AgreedBy(g)
    BY Zenon DEF AgreedBy
  <2> QED BY <2>2, <2>3, Zenon
<1>3. ASSUME NEW i \in Server
      PROVE  /\ currentTerm[i] \in Nat /\ currentTerm'[i] \in Nat
             /\ commitIndex[i] \in Nat /\ commitIndex'[i] \in Nat
             /\ FullLog(i) \in Seq(Entry) /\ FullLog(i)' \in Seq(Entry)
  BY <1>1, StepTypes, Zenon DEF TypeOK
<1>4. ASSUME NEW i \in Server
      PROVE  /\ CommittedBy(g, currentTerm[i], FullLog(i), commitIndex[i])
             /\ CommittedBy(g, currentTerm'[i], FullLog(i)', commitIndex'[i])
  <2>1. CommittedBy(h, currentTerm[i], FullLog(i), commitIndex[i])
    BY <1>1, Zenon DEF Explains, CommitOf
  <2>2. CommittedBy(g, currentTerm'[i], FullLog(i)', commitIndex'[i])
    BY Zenon DEF Explains, CommitOf
  <2>3. PICK t, log, n : t = currentTerm[i] /\ log = FullLog(i) /\ n = commitIndex[i]
    BY Zenon
  <2>4. t \in Nat /\ log \in Seq(Entry) /\ n \in Nat /\ CommittedBy(h, t, log, n)
    BY <1>3, <2>1, <2>3, Zenon
  <2>5. Holds(log, log, n)
    BY <1>1, <2>4, CommittedAgree, SMTT(30) DEF Explains
  <2>6. CommittedBy(g, t, log, n)
    BY <2>4, <2>5, CommittedCopy, SMTT(30)
  <2> QED BY <2>2, <2>3, <2>6, Zenon
<1> QED BY <1>1, <1>2, <1>3, <1>4, Zenon DEF CommittedAround

\* No step removes or replaces an entry that its server had committed, though
\* AppendEntriesHandler truncates on any conflict.
THEOREM CommitsAreKept == Spec => CommittedIsKept
<1>1. LogSafetyInv /\ [Next]_vars =>
          \A i \in Server : commitIndex[i] <= Len(FullLog(i)') /\ Agree(Committed(i), FullLog(i)')
  <2> SUFFICES ASSUME LogSafetyInv, [Next]_vars, NEW i \in Server
               PROVE  commitIndex[i] <= Len(FullLog(i)') /\ Agree(Committed(i), FullLog(i)')
    BY Zenon
  <2>1. PICK h \in History : Explains(h)
    BY Zenon DEF LogSafetyInv
  <2>2. StorageInv' /\ \E g \in History : Explains(g)' /\ Step(h, g)
    BY <2>1, StepExplained, Zenon DEF LogSafetyInv
  <2>3. PICK g \in History : CommittedAround(g)
    BY <2>2, StepCommitted, Zenon
  <2>4. PICK log, new, n : log = FullLog(i) /\ new = FullLog(i)' /\ n = commitIndex[i]
    BY Zenon
  <2>5. /\ log \in Seq(Entry) /\ new \in Seq(Entry) /\ n \in Nat
        /\ Committed(i) = SubSeq(log, 1, n)
    BY <2>3, <2>4, CommittedCut, Zenon DEF CommittedAround
  <2>6. Holds(log, new, n)
    <3>1. CASE new = log
      BY <2>4, <3>1, CommittedIsHeld, Zenon
    <3>2. CASE new # log
      <4>1. commitIndex'[i] >= n
        BY <2>4, <3>2, NextCommits, Zenon
          DEF CommitStep, CommitsStay, CommitsOf, LogSafetyInv, ElectionInv
      <4>2. PICK t, u, k : t = currentTerm[i] /\ u = currentTerm'[i] /\ k = commitIndex'[i]
        BY Zenon
      <4>3. /\ t \in Nat /\ u \in Nat /\ k \in Nat /\ n <= k /\ AgreedBy(g)
            /\ CommittedBy(g, t, log, n) /\ CommittedBy(g, u, new, k)
        BY <2>3, <2>4, <4>1, <4>2, Zenon DEF CommittedAround
      <4> QED BY <2>5, <4>3, Zenon DEF AgreedBy
    <3> QED BY <3>1, <3>2, Zenon
  <2>7. Agree(SubSeq(log, 1, n), new)
    BY <2>5, <2>6, HoldsAgree, Zenon
  <2> QED BY <2>4, <2>5, <2>6, <2>7, Zenon DEF Holds
<1>2. LogSafetyInv /\ [Next]_vars =>
          [\A i \in Server : /\ commitIndex[i] <= Len(FullLog(i)')
                             /\ Agree(Committed(i), FullLog(i)')]_<<logs, lastIncludedIndex>>
  BY <1>1, Zenon
<1> QED BY <1>2, LogSafety, PTL DEF Spec, CommittedIsKept

-----------------------------------------------------------------------------
(* Raft implements ReplicatedLog. *)

\* What was decided is committed, and nobody has committed more.
DecidedBy(h) ==
    /\ decided \in Seq(Entry)
    /\ \E t \in Nat : CommittedBy(h, t, decided, Len(decided))
    /\ \A i \in Server : commitIndex[i] <= Len(decided)

DecidedInv == ElectionInv /\ \E h \in History : Explains(h) /\ DecidedBy(h)

\* Logs that agree so far have the same first entries.
LEMMA SameCut ==
    ASSUME NEW s \in Seq(Entry), NEW t \in Seq(Entry), NEW n \in Nat, Holds(s, t, n)
    PROVE  /\ SubSeq(s, 1, n) = SubSeq(t, 1, n) /\ IsCut(SubSeq(s, 1, n), s, n)
           /\ IsCut(SubSeq(s, 1, n), t, n)
<1>1. PICK x, y : x = SubSeq(s, 1, n) /\ y = SubSeq(t, 1, n)
  BY Zenon
<1>2. Len(s) \in Nat /\ Len(t) \in Nat /\ n <= Len(s) /\ n <= Len(t)
  BY LenProperties, Zenon DEF Holds
<1>3. \A k \in 1..n : s[k] \in Entry /\ t[k] \in Entry /\ s[k] = t[k]
  BY <1>2, ElementOfSeq, SMTT(30) DEF Holds
<1>4. IsCut(x, s, n) /\ IsCut(y, t, n)
  BY <1>1, <1>3, Cut, Zenon
<1>5. /\ x \in Seq(Entry) /\ y \in Seq(Entry) /\ Len(x) = Len(y)
      /\ \A k \in 1..Len(x) : x[k] = y[k]
  BY <1>3, <1>4, Zenon DEF IsCut
<1>6. x = y
  BY <1>5, SeqEqual, Zenon
<1> QED BY <1>1, <1>4, <1>6, Zenon

\* What the servers have committed, before and after a step, as beginnings of what was decided
\* or of the log they have then.
LEMMA DecidedAround ==
    ASSUME NEW g, CommittedAround(g), NEW d \in Seq(Entry), NEW t \in Nat,
           CommittedBy(g, t, d, Len(d)), \A i \in Server : commitIndex[i] <= Len(d),
           NEW i \in Server
    PROVE  /\ Committed(i) = SubSeq(d, 1, commitIndex[i])
           /\ commitIndex'[i] <= Len(d) => Committed(i)' = SubSeq(d, 1, commitIndex'[i])
           /\ ~ (commitIndex'[i] <= Len(d)) => d = SubSeq(Committed(i)', 1, Len(d))
           /\ Committed(i)' \in Seq(Entry) /\ Len(Committed(i)') = commitIndex'[i]
           /\ Len(Committed(i)) = commitIndex[i]
           /\ CommittedBy(g, currentTerm'[i], Committed(i)', commitIndex'[i])
<1>0. PICK log, new, n, k, u, v :
          /\ log = FullLog(i) /\ new = FullLog(i)' /\ n = commitIndex[i] /\ k = commitIndex'[i]
          /\ u = currentTerm[i] /\ v = currentTerm'[i]
  BY Zenon
<1>1. /\ g \in History /\ AgreedBy(g) /\ log \in Seq(Entry) /\ new \in Seq(Entry)
      /\ n \in Nat /\ k \in Nat /\ u \in Nat /\ v \in Nat
      /\ CommittedBy(g, u, log, n) /\ CommittedBy(g, v, new, k)
      /\ Len(d) \in Nat /\ Len(log) \in Nat /\ Len(new) \in Nat /\ n <= Len(d)
  BY <1>0, LenProperties, Zenon DEF CommittedAround
<1>2. Holds(log, log, n) /\ Holds(new, new, k) /\ Holds(log, d, n)
  BY <1>1, SMTT(30) DEF AgreedBy
<1>3. Committed(i) = SubSeq(log, 1, n) /\ Committed(i)' = SubSeq(new, 1, k)
  <2>1. Smaller(n, Len(log)) = n /\ Smaller(k, Len(new)) = k
    BY <1>1, <1>2, SMTT(30) DEF Holds, Smaller
  <2>2. Committed(i) = SubSeq(log, 1, n)
    BY <1>0, <2>1, Zenon DEF Committed
  <2>3. Committed(i)' = SubSeq(new, 1, k)
    BY <1>0, <2>1, Zenon DEF Committed
  <2> QED BY <2>2, <2>3, Zenon
<1>4. SubSeq(log, 1, n) = SubSeq(d, 1, n) /\ IsCut(SubSeq(log, 1, n), log, n)
  BY <1>1, <1>2, SameCut, Zenon
<1>5. IsCut(SubSeq(new, 1, k), new, k)
  BY <1>1, <1>2, SameCut, Zenon
<1>6. ASSUME k <= Len(d) PROVE SubSeq(new, 1, k) = SubSeq(d, 1, k)
  <2>1. Holds(new, d, k)
    BY <1>1, <1>6, Zenon DEF AgreedBy
  <2> QED BY <1>1, <2>1, SameCut, Zenon
<1>7. ASSUME ~ (k <= Len(d)) PROVE d = SubSeq(SubSeq(new, 1, k), 1, Len(d))
  <2>1. Len(d) <= k
    BY <1>1, <1>7, SMTT(30)
  <2>2. Holds(d, new, Len(d))
    BY <1>1, <2>1, Zenon DEF AgreedBy
  <2>3. PICK x : x = SubSeq(new, 1, k)
    BY Zenon
  <2>4. x \in Seq(Entry) /\ Len(x) = k /\ Holds(d, x, Len(d))
    BY <1>1, <1>5, <2>1, <2>2, <2>3, SMTT(30) DEF IsCut, Holds
  <2>5. SubSeq(d, 1, Len(d)) = SubSeq(x, 1, Len(d)) /\ IsCut(SubSeq(d, 1, Len(d)), d, Len(d))
    BY <1>1, <2>4, SameCut, Zenon
  <2>6. d = SubSeq(d, 1, Len(d))
    <3>1. PICK y : y = SubSeq(d, 1, Len(d))
      BY Zenon
    <3>2. y \in Seq(Entry) /\ Len(y) = Len(d) /\ \A m \in 1..Len(d) : d[m] = y[m]
      BY <2>5, <3>1, Zenon DEF IsCut
    <3>3. d = y
      BY <3>2, SeqEqual, Zenon
    <3> QED BY <3>1, <3>3, Zenon
  <2> QED BY <2>3, <2>5, <2>6, Zenon
<1>8. CommittedBy(g, v, SubSeq(new, 1, k), k)
  <2>1. PICK x : x = SubSeq(new, 1, k)
    BY Zenon
  <2>2. x \in Seq(Entry) /\ Holds(x, new, k)
    BY <1>1, <1>2, <1>5, <2>1, SMTT(30) DEF IsCut, Holds
  <2>3. CommittedBy(g, v, x, k)
    BY <1>1, <2>2, CommittedPrefix, SMTT(30)
  <2> QED BY <2>1, <2>3, Zenon
<1>9. SubSeq(new, 1, k) \in Seq(Entry) /\ Len(SubSeq(new, 1, k)) = k /\ Len(SubSeq(log, 1, n)) = n
  BY <1>4, <1>5, Zenon DEF IsCut
<1> QED BY <1>0, <1>3, <1>4, <1>6, <1>7, <1>8, <1>9, Zenon

\* A step that leaves every commit alone decides nothing.
LEMMA StayStutters ==
    ASSUME CommitsStay, RecordDecided, \A i \in Server : commitIndex[i] <= Len(decided)
    PROVE  UNCHANGED Log!vars
<1>1. decided' = decided
  BY Zenon DEF RecordDecided, CommitsStay
<1>2. ASSUME NEW i \in Server PROVE Committed(i)' = Committed(i)
  BY Zenon DEF Committed, CommitsStay
<1> QED BY <1>1, <1>2, Zenon DEF Log!vars

\* What one server has committed changes.
LEMMA OthersStay ==
    ASSUME NEW i \in Server, CommitsOf(i)
    PROVE  [k \in Server |-> Committed(k)]'
               = [[k \in Server |-> Committed(k)] EXCEPT ![i] = Committed(i)']
<1>1. ASSUME NEW k \in Server \ {i} PROVE Committed(k)' = Committed(k)
  <2>1. FullLog(k)' = FullLog(k) /\ commitIndex'[k] = commitIndex[k]
    BY Zenon DEF CommitsOf
  <2> QED BY <2>1, Zenon DEF Committed
<1> QED BY <1>1, Zenon

\* The server whose commits change in a step that decides more has committed the longest.
LEMMA DecidesLongest ==
    ASSUME NEW g, CommittedAround(g), decided \in Seq(Entry), NEW t \in Nat,
           CommittedBy(g, t, decided, Len(decided)),
           \A k \in Server : commitIndex[k] <= Len(decided),
           NEW i \in Server, CommitsOf(i), RecordDecided, ~ (commitIndex'[i] <= Len(decided))
    PROVE  decided' = Committed(i)'
<1>1. decided' = Longest({Committed(k)' : k \in Server})
  BY Zenon DEF RecordDecided
<1>2. ASSUME NEW k \in Server PROVE Len(Committed(k)') = commitIndex'[k]
  BY DecidedAround, Zenon
<1>3. Len(decided) \in Nat /\ commitIndex'[i] \in Nat
  BY LenProperties, Zenon DEF CommittedAround
<1>4. ASSUME NEW k \in Server \ {i}
      PROVE  commitIndex'[k] \in Nat /\ commitIndex'[k] < commitIndex'[i]
  BY <1>3, SMTT(30) DEF CommittedAround, CommitsOf
<1>5. PICK c : c = [k \in Server |-> Committed(k)']
  BY Zenon
<1>6. PICK n : n = [k \in Server |-> commitIndex'[k]]
  BY Zenon
<1>7. PICK S : S = {c[k] : k \in Server}
  BY Zenon
<1>8. /\ \A k \in Server : Len(c[k]) = n[k] /\ n[k] \in Nat
      /\ \A k \in Server \ {i} : n[k] < n[i]
  BY <1>2, <1>3, <1>4, <1>5, <1>6, Zenon
<1>9. \A s \in S : Len(c[i]) >= Len(s)
  BY <1>7, <1>8, SMTT(30)
<1>10. \A s \in S : (\A r \in S : Len(s) >= Len(r)) => s = c[i]
  BY <1>7, <1>8, SMTT(30)
<1>11. c[i] \in S
  BY <1>7, Zenon
<1>12. Longest(S) = c[i]
  BY <1>9, <1>10, <1>11, Zenon DEF Longest
<1>13. {Committed(k)' : k \in Server} = S
  BY <1>5, <1>7, Zenon
<1> QED BY <1>1, <1>5, <1>12, <1>13, Zenon

\* Every other step decides more, learns what was decided, or forgets some of it.
LEMMA CommitsMaps ==
    ASSUME NEW g, CommittedAround(g), decided \in Seq(Entry), NEW t \in Nat,
           CommittedBy(g, t, decided, Len(decided)),
           \A k \in Server : commitIndex[k] <= Len(decided),
           NEW i \in Server, CommitsOf(i), RecordDecided
    PROVE  Log!Next
<1>1. PICK c, d, new, n, k :
          /\ c = [x \in Server |-> Committed(x)] /\ d = decided /\ new = Committed(i)'
          /\ n = commitIndex[i] /\ k = commitIndex'[i]
  BY Zenon
<1>2. [x \in Server |-> Committed(x)]' = [c EXCEPT ![i] = new]
  BY <1>1, OthersStay, Zenon
<1>3. /\ c[i] = SubSeq(d, 1, n) /\ Len(c[i]) = n
      /\ k <= Len(d) => new = SubSeq(d, 1, k)
      /\ ~ (k <= Len(d)) => d = SubSeq(new, 1, Len(d))
      /\ Len(new) = k
  BY <1>1, DecidedAround, Zenon
<1>4. n \in Nat /\ k \in Nat /\ Len(d) \in Nat /\ n <= Len(d) /\ d \in Seq(Entry)
  BY <1>1, LenProperties, Zenon DEF CommittedAround
<1>5. CASE ~ (k <= Len(d))
  <2>1. decided' = new
    BY <1>1, <1>5, DecidesLongest, Zenon
  <2>2. Len(decided) < Len(decided') /\ SubSeq(decided', 1, Len(decided)) = decided
    BY <1>1, <1>3, <1>4, <1>5, <2>1, SMTT(30)
  <2>3. Log!Decide(i)
    BY <1>1, <1>2, <2>1, <2>2, Zenon DEF Log!Decide
  <2> QED BY <2>3, Zenon DEF Log!Next
<1>6. CASE k <= Len(d)
  <2>1. decided' = d
    <3>1. \A x \in Server : commitIndex'[x] <= Len(decided)
      BY <1>1, <1>6, Zenon DEF CommitsOf
    <3> QED BY <1>1, <3>1, Zenon DEF RecordDecided
  <2>2. new = SubSeq(d, 1, k) /\ k \in 0..Len(d)
    BY <1>3, <1>4, <1>6, SMTT(30)
  <2>4. CASE n <= k
    <3>1. k \in Len(c[i])..Len(d)
      BY <1>3, <1>4, <1>6, <2>4, SMTT(30)
    <3>2. Log!Learn(i)
      BY <1>1, <1>2, <2>1, <2>2, <3>1, Zenon DEF Log!Learn
    <3> QED BY <3>2, Zenon DEF Log!Next
  <2>5. CASE ~ (n <= k)
    <3>1. k \in 0..Len(c[i])
      BY <1>3, <1>4, <2>5, SMTT(30)
    <3>2. Log!Forget(i)
      BY <1>1, <1>2, <2>1, <2>2, <3>1, Zenon DEF Log!Forget
    <3> QED BY <3>2, Zenon DEF Log!Next
  <2> QED BY <2>4, <2>5, Zenon
<1> QED BY <1>5, <1>6, Zenon

\* One history explains what was decided before a step and the state after it.
LEMMA DecidedCarries ==
    ASSUME DecidedInv, [Next /\ RecordDecided]_<<vars, decided>>
    PROVE  /\ ElectionInv' /\ decided \in Seq(Entry)
           /\ \A i \in Server : commitIndex[i] <= Len(decided)
           /\ \E g \in History : \E t \in Nat :
                 /\ Explains(g)' /\ CommittedAround(g) /\ CommittedBy(g, t, decided, Len(decided))
<1>1. PICK h \in History : Explains(h) /\ DecidedBy(h)
  BY Zenon DEF DecidedInv
<1>2. [Next]_vars /\ ElectionInv
  BY Zenon DEF DecidedInv
<1>3. StorageInv' /\ ElectionInv'
  BY <1>1, <1>2, StepExplained, Zenon
<1>4. PICK g \in History : Explains(g)' /\ Step(h, g)
  BY <1>1, <1>2, StepExplained, Zenon
<1>5. CommittedAround(g)
  BY <1>3, <1>4, StepCommitted, Zenon
<1>6. PICK d, n : d = decided /\ n = Len(d)
  BY Zenon
<1>7. PICK t \in Nat : CommittedBy(h, t, d, n)
  BY <1>1, <1>6, Zenon DEF DecidedBy
<1>8. d \in Seq(Entry) /\ n \in Nat
  BY <1>1, <1>6, LenProperties, Zenon DEF DecidedBy
<1>9. Holds(d, d, n)
  BY <1>6, <1>8, SMTT(30) DEF Holds
<1>10. CommittedBy(g, t, d, n)
  BY <1>4, <1>7, <1>8, <1>9, CommittedCopy, SMTT(30)
<1> QED BY <1>1, <1>3, <1>4, <1>5, <1>6, <1>10, Zenon DEF DecidedBy

\* A step of Raft with its history is a step of the replicated log, or none.
LEMMA HistoryMaps ==
    ASSUME DecidedInv, [Next /\ RecordDecided]_<<vars, decided>>
    PROVE  [Log!Next]_(Log!vars)
<1>1. /\ decided \in Seq(Entry) /\ \A i \in Server : commitIndex[i] <= Len(decided)
      /\ \E g \in History : \E t \in Nat :
            /\ CommittedAround(g) /\ CommittedBy(g, t, decided, Len(decided))
  BY DecidedCarries, Zenon
<1>2. PICK g \in History : \E t \in Nat :
          CommittedAround(g) /\ CommittedBy(g, t, decided, Len(decided))
  BY <1>1, Zenon
<1>3. PICK t \in Nat : CommittedAround(g) /\ CommittedBy(g, t, decided, Len(decided))
  BY <1>2, Zenon
<1>4. CASE Next /\ RecordDecided
  <2>1. CommitStep
    BY <1>4, NextCommits, Zenon DEF DecidedInv, ElectionInv
  <2>2. CASE CommitsStay
    BY <1>1, <1>4, <2>2, StayStutters, Zenon
  <2>3. ASSUME NEW i \in Server, CommitsOf(i) PROVE Log!Next
    BY <1>1, <1>3, <1>4, <2>3, CommitsMaps, Zenon
  <2> QED BY <2>1, <2>2, <2>3, Zenon DEF CommitStep
<1>5. CASE UNCHANGED <<vars, decided>>
  <2>1. ASSUME NEW i \in Server PROVE Committed(i)' = Committed(i)
    <3>1. UNCHANGED <<persister, logs, commitIndex>>
      BY <1>5, Zenon DEF vars, logVars
    <3> QED BY <3>1, Zenon DEF Committed, FullLog
  <2> QED BY <1>5, <2>1, Zenon DEF Log!vars
<1> QED BY <1>4, <1>5, Zenon

\* What is decided after a step is committed too.
LEMMA DecidedNext ==
    ASSUME DecidedInv, [Next /\ RecordDecided]_<<vars, decided>>
    PROVE  DecidedInv'
<1>1. /\ ElectionInv' /\ decided \in Seq(Entry)
      /\ \A i \in Server : commitIndex[i] <= Len(decided)
      /\ \E g \in History : \E t \in Nat :
            /\ Explains(g)' /\ CommittedAround(g) /\ CommittedBy(g, t, decided, Len(decided))
  BY DecidedCarries, Zenon
<1>2. PICK g \in History : \E t \in Nat :
          Explains(g)' /\ CommittedAround(g) /\ CommittedBy(g, t, decided, Len(decided))
  BY <1>1, Zenon
<1>3. PICK t \in Nat :
          Explains(g)' /\ CommittedAround(g) /\ CommittedBy(g, t, decided, Len(decided))
  BY <1>2, Zenon
<1>4. ASSUME decided' = decided, \A i \in Server : commitIndex'[i] <= Len(decided)
      PROVE  DecidedBy(g)'
  BY <1>1, <1>3, <1>4, Zenon DEF DecidedBy
<1>5. ASSUME NEW i \in Server, CommitsOf(i), RecordDecided PROVE DecidedBy(g)'
  <2>1. CASE commitIndex'[i] <= Len(decided)
    <3>1. \A k \in Server : commitIndex'[k] <= Len(decided)
      BY <1>1, <1>5, <2>1, Zenon DEF CommitsOf
    <3> QED BY <1>4, <1>5, <3>1, Zenon DEF RecordDecided
  <2>2. CASE ~ (commitIndex'[i] <= Len(decided))
    <3>1. decided' = Committed(i)'
      BY <1>1, <1>3, <1>5, <2>2, DecidesLongest, Zenon
    <3>2. PICK d, n, u : d = decided' /\ n = commitIndex'[i] /\ u = currentTerm'[i]
      BY Zenon
    <3>3. d \in Seq(Entry) /\ Len(d) = n /\ CommittedBy(g, u, d, n)
      BY <1>1, <1>3, <3>1, <3>2, DecidedAround, Zenon
    <3>4. u \in Nat
      BY <1>3, <3>2, Zenon DEF CommittedAround
    <3>5. ASSUME NEW k \in Server PROVE commitIndex'[k] <= n
      <4>1. /\ Len(decided) \in Nat /\ n \in Nat /\ ~ (n <= Len(decided))
            /\ commitIndex[k] \in Nat /\ commitIndex[k] <= Len(decided)
        BY <1>1, <1>3, <2>2, <3>2, LenProperties, Zenon DEF CommittedAround
      <4>2. CASE k = i
        BY <3>2, <4>1, <4>2, SMTT(30)
      <4>3. CASE k # i
        BY <1>5, <4>1, <4>3, SMTT(30) DEF CommitsOf
      <4> QED BY <4>2, <4>3, Zenon
    <3> QED BY <3>2, <3>3, <3>4, <3>5, Zenon DEF DecidedBy
  <2> QED BY <2>1, <2>2, Zenon
<1>6. DecidedBy(g)'
  <2>1. CASE Next /\ RecordDecided
    <3>1. CommitStep
      BY <2>1, NextCommits, Zenon DEF DecidedInv, ElectionInv
    <3>2. CASE CommitsStay
      BY <1>1, <1>4, <2>1, <3>2, Zenon DEF CommitsStay, RecordDecided
    <3> QED BY <1>5, <2>1, <3>1, <3>2, Zenon DEF CommitStep
  <2>2. CASE UNCHANGED <<vars, decided>>
    BY <1>1, <1>4, <2>2, Zenon DEF vars
  <2> QED BY <2>1, <2>2, Zenon
<1> QED BY <1>1, <1>3, <1>6, Zenon DEF DecidedInv

\* At first nothing is decided.
LEMMA DecidedInit == Init /\ decided = <<>> => DecidedInv /\ Log!Init
<1> SUFFICES ASSUME Init, decided = <<>> PROVE DecidedInv /\ Log!Init
  BY Zenon
<1>1. ElectionInv /\ \E h \in History : Explains(h)
  BY InitExplained, ElectionInvInit, Zenon
<1>2. PICK h \in History : Explains(h)
  BY <1>1, Zenon
<1>3. ASSUME NEW i \in Server PROVE commitIndex[i] = 0 /\ Committed(i) = <<>>
  <2>1. commitIndex[i] = 0
    BY Zenon DEF Init
  <2>2. FullLog(i) \in Seq(Entry) /\ Len(FullLog(i)) \in Nat
    BY <1>1, FullLogType, LenProperties, Zenon DEF ElectionInv, StorageInv
  <2>3. Smaller(0, Len(FullLog(i))) = 0
    BY <2>2, SMTT(30) DEF Smaller
  <2>4. SubSeq(FullLog(i), 1, 0) = <<>>
    BY <2>2, SMTT(30)
  <2> QED BY <2>1, <2>3, <2>4, Zenon DEF Committed
<1>4. decided \in Seq(Entry) /\ Len(decided) = 0
  BY SMTT(30)
<1>5. CommittedBy(h, 0, <<>>, 0)
  BY Zenon DEF CommittedBy
<1>6. DecidedBy(h)
  BY <1>3, <1>4, <1>5, SMTT(30) DEF DecidedBy
<1>7. Log!Init
  BY <1>3, Zenon DEF Log!Init
<1> QED BY <1>1, <1>2, <1>6, <1>7, Zenon DEF DecidedInv

\* Raft implements one growing log: what any server has committed stays decided, and every
\* server's commits follow it, whatever the elections, the truncations and the crashes that
\* make a server forget its commitIndex.
THEOREM RaftIsOneLog == HistorySpec => OneLog
<1>1. Init /\ decided = <<>> => DecidedInv /\ Log!Init
  BY DecidedInit, Zenon
<1>2. DecidedInv /\ [Next /\ RecordDecided]_<<vars, decided>> => DecidedInv'
  BY DecidedNext, Zenon
<1>3. DecidedInv /\ [Next /\ RecordDecided]_<<vars, decided>> => [Log!Next]_(Log!vars)
  BY HistoryMaps, Zenon
<1> QED BY <1>1, <1>2, <1>3, PTL DEF HistorySpec, OneLog, Log!Spec
=============================================================================
