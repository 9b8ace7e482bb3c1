--------------------------- MODULE RaftInvariants ---------------------------
(***************************************************************************)
(* The invariants that the proofs about Raft rest on.                      *)
(*                                                                         *)
(* StorageInv: types, what each server has stored, and the length of       *)
(* snapshots.  ElectionInv: who cast which ballot, in flight or counted.   *)
(* LogSafetyInv: some history explains the state.  A history says who led  *)
(* each term, with which log, and up to where each server has taken that   *)
(* log over.  The code keeps none of it, so a history is not a variable:   *)
(* the proofs say that one exists before a step and build one for the      *)
(* state after it.                                                         *)
(***************************************************************************)
EXTENDS Raft

-----------------------------------------------------------------------------
(* Storage and elections. *)

\* Every non-empty set of naturals has a least element.
WellOrdered == \A S \in SUBSET Nat : S # {} => \E n \in S : \A k \in S : n <= k

\* What the libraries' theorems say of majorities and naturals.  RaftProofs establishes it; the
\* lemmas on histories find it in History, and so need no library.
Grounds ==
    /\ WellOrdered
    /\ \A Q, R \in SUBSET Server : Majority(Q) /\ Majority(R) => \E v \in Server : v \in Q /\ v \in R
    /\ \A Q, R \in SUBSET Server : Majority(Q) /\ Q \subseteq R => Majority(R)

AppendEntriesMessage ==
    [type : {"AppendEntries"}, from : Server, to : Server, Term : Nat, PrevLogIndex : Nat,
     PrevLogTerm : Nat \union {-1}, Entries : Seq(Entry), LeaderCommitIndex : Nat,
     LeaderCommitTerm : Nat \union {-1}]

\* Whenever rf.mu is free, what a restart would read is what the server holds.
DurableState ==
    \A i \in Server :
        /\ persister[i].currentTerm = currentTerm[i]
        /\ persister[i].votedFor = votedFor[i]
        /\ persister[i].lastIncludedIndex = lastIncludedIndex[i]
        /\ persister[i].lastIncludedTerm = lastIncludedTerm[i]
        /\ persister[i].logs = logs[i]

\* The snapshots handed over and in flight have the length they claim.
SnapshotsCarried ==
    /\ \A i \in Server : \A s \in handed[i] : Len(s.Snapshot) = s.SnapshotIndex
    /\ \A m \in rpcs : m.type = "InstallSnapshot" => Len(m.Data) = m.LastIncludedIndex

\* A snapshot, stored, sent or handed over, has one entry per index up to its own.
SnapshotLength ==
    /\ \A i \in Server : Len(persister[i].snapshot) = lastIncludedIndex[i]
    /\ SnapshotsCarried

StorageInv == TypeOK /\ DurableState /\ SnapshotLength

\* The persistent fields of k stay as they are.
Same(k) ==
    /\ currentTerm'[k] = currentTerm[k] /\ votedFor'[k] = votedFor[k]
    /\ lastIncludedIndex'[k] = lastIncludedIndex[k]
    /\ lastIncludedTerm'[k] = lastIncludedTerm[k] /\ logs'[k] = logs[k]

\* A critical section that saves the raft state of one server if it changed it.
SavedStep ==
    \/ (\A k \in Server : Same(k)) /\ UNCHANGED persister
    \/ \E i \in Server : /\ \A k \in Server : k # i => Same(k)
                         /\ UNCHANGED lastIncludedIndex
                         /\ persist(i)

Ballot(v, t, c) ==
    \/ \E m \in rpcs : /\ m.type = "RequestVoteReply" /\ m.VoteGranted
                       /\ m.from = v /\ m.term = t /\ m.to = c
    \/ state[c] # Follower /\ currentTerm[c] = t /\ v \in votes[c]

Voted(v, t, c) == currentTerm[v] > t \/ (currentTerm[v] = t /\ votedFor[v] = c)

\* A voter remembers the ballots it cast in its term or is past their term.
BallotVoted == \A v, c \in Server : \A t \in Nat : Ballot(v, t, c) => Voted(v, t, c)

\* One ballot per voter and term.
BallotUnique ==
    \A v, c, d \in Server : \A t \in Nat : Ballot(v, t, c) /\ Ballot(v, t, d) => c = d

\* A leader was elected by a majority.
LeaderQuorum == \A i \in Server : state[i] = Leader => Majority(votes[i])

ElectionInv == StorageInv /\ BallotVoted /\ BallotUnique /\ LeaderQuorum

-----------------------------------------------------------------------------
(* What a step may do to votes. *)

\* v casts its ballot of term t for c in this step, and may.
Fresh(v, t, c) ==
    /\ currentTerm[v] < t \/ (currentTerm[v] = t /\ votedFor[v] \in {Nil, c})
    /\ currentTerm'[v] = t /\ votedFor'[v] = c

BallotStep ==
    \A v, c \in Server : \A t \in Nat : Ballot(v, t, c)' => Ballot(v, t, c) \/ Fresh(v, t, c)

\* The step that VotesAreKept allows.
VoteStep ==
    \A i \in Server :
        /\ currentTerm'[i] >= currentTerm[i]
        /\ currentTerm'[i] = currentTerm[i] /\ votedFor[i] # Nil => votedFor'[i] = votedFor[i]

QuorumStep ==
    \A i \in Server : state'[i] = Leader =>
        \/ state[i] = Leader /\ votes'[i] = votes[i]
        \/ Majority(votes'[i])

\* No candidacy of c starts or gains a vote.
Quiet(c) ==
    \/ state'[c] = Follower
    \/ state'[c] = state[c] /\ currentTerm'[c] = currentTerm[c] /\ votes'[c] = votes[c]

\* The granted replies in flight were so before.
NoNewVote ==
    \A m \in rpcs' : m.type = "RequestVoteReply" => m \in rpcs

\* The effect of a step on votes.
ElectionStep == BallotStep /\ VoteStep /\ QuorumStep

-----------------------------------------------------------------------------
(* Histories. *)

HistoryRecord ==
    [leader : [Nat -> Server \union {Nil}], log : [Nat -> Seq(Entry)],
     held : [Server -> [Nat -> Nat]]]

History == {h \in HistoryRecord : Grounds}

\* s has the first n entries of t.
Holds(s, t, n) == n <= Len(s) /\ n <= Len(t) /\ \A k \in 1..n : s[k] = t[k]

\* No entry of s has a term above t.
UpTo(s, t) == \A n \in 1..Len(s) : s[n].Term <= t

Elected(h, t) == h.leader[t] # Nil

\* Up to each of its entries, s is the log of the leader of that entry's term.
Lineage(h, s) ==
    \A n \in 1..Len(s) : Elected(h, s[n].Term) /\ Holds(s, h.log[s[n].Term], n)

\* The leader of term c appended entry n.
Own(h, c, n) == n \in 1..Len(h.log[c]) /\ h.log[c][n].Term = c

\* A majority held an entry that the leader of term c appended: it may be committed.
Chosen(h, c, n) == Own(h, c, n) /\ Majority({u \in Server : h.held[u][c] >= n})

\* A majority has left term c, in the terms they are in now, without entry n.
Blocked(h, terms, c, n) ==
    \E Q \in SUBSET Server : Majority(Q) /\ \A u \in Q : terms[u] > c /\ h.held[u][c] < n

\* s has the first n entries of the leader of c, or that one can never commit entry n.
Safe(h, terms, s, c, n) == Holds(s, h.log[c], n) \/ Blocked(h, terms, c, n)

\* The first n entries of s were committed in a term up to t.
CommittedBy(h, t, s, n) ==
    \/ n = 0
    \/ \E c \in 0..t : \E k \in Nat : Chosen(h, c, k) /\ n <= k /\ Holds(s, h.log[c], n)

\* The term a snapshot with these entries ends with.
LastTerm(s) == IF Len(s) = 0 THEN 0 ELSE s[Len(s)].Term

-----------------------------------------------------------------------------
(* A history that explains the state, by what it speaks of. *)

\* A term without a leader has no log; a leader's log is explained by its predecessors', and
\* nobody held more of it than there is, or before its term.
TermInv(h) ==
    \A t \in Nat :
        /\ ~ Elected(h, t) => h.log[t] = <<>>
        /\ Lineage(h, h.log[t]) /\ UpTo(h.log[t], t)
        /\ \A u \in Server : /\ h.held[u][t] <= Len(h.log[t])
                             /\ h.held[u][t] > 0 => t <= currentTerm[u]

\* A majority voted for l in term t, and for nobody else.
ElectedBy(l, t) ==
    /\ t <= currentTerm[l]
    /\ \E Q \in SUBSET Server :
          /\ Majority(Q)
          /\ \A v \in Q : Voted(v, t, l) /\ \A c \in Server : Ballot(v, t, c) => c = l

ElectorInv(h) == \A t \in Nat : Elected(h, t) => ElectedBy(h.leader[t], t)

\* A leader has what may yet be committed in an earlier term.
SuccessionInv(h) ==
    \A t, c \in Nat : Elected(h, t) /\ c < t =>
        \A n \in Nat : Own(h, c, n) => Safe(h, currentTerm, h.log[t], c, n)

\* A leader is the one of its term, with that log; a candidate did not win its term.
RoleOf(h, i) ==
    LET t == currentTerm[i]
    IN  /\ state[i] = Leader => /\ h.leader[t] = i /\ h.log[t] = FullLog(i)
                                /\ h.held[i][t] = Len(FullLog(i))
        /\ state[i] = Candidate => h.leader[t] # i

\* A server still has what it held of its term's log, and of an earlier term's what may yet
\* be committed there.
LogOf(h, i) ==
    /\ Lineage(h, FullLog(i)) /\ UpTo(FullLog(i), currentTerm[i])
    /\ Holds(FullLog(i), h.log[currentTerm[i]], h.held[i][currentTerm[i]])
    /\ \A c \in Nat : \A n \in 1..h.held[i][c] :
          Own(h, c, n) => Safe(h, currentTerm, FullLog(i), c, n)

\* A log that ends with this term and index may have entry n of the leader of c.
AtLeast(lastTerm, last, c, n) == lastTerm > c \/ (lastTerm = c /\ last >= n)

\* While its candidacy lasts, a candidate has what its request claims.
RequestOf(h, m) ==
    /\ m.Term <= currentTerm[m.from]
    /\ IF m.LastLogIndex = 0 THEN m.LastLogTerm = 0
       ELSE /\ m.LastLogTerm \in Nat /\ Elected(h, m.LastLogTerm)
            /\ m.LastLogIndex <= Len(h.log[m.LastLogTerm])
    /\ state[m.from] = Candidate /\ currentTerm[m.from] = m.Term =>
          \A c, n \in Nat : Own(h, c, n) /\ AtLeast(m.LastLogTerm, m.LastLogIndex, c, n) =>
              Safe(h, currentTerm, FullLog(m.from), c, n)

\* While its candidacy lasts, a candidate has what its voter v had.
BallotOf(h, v, i) ==
    state[i] = Candidate /\ Ballot(v, currentTerm[i], i) =>
        \A c \in Nat : \A n \in 1..h.held[v][c] :
            c < currentTerm[i] /\ Own(h, c, n) => Safe(h, currentTerm, FullLog(i), c, n)

\* The requests to send, and the ballots cast, are of terms the candidate has reached.
AskedTerms ==
    /\ \A i \in Server : \A a \in asking[i] : a[2] <= currentTerm[i]
    /\ \A v, i \in Server : \A t \in Nat : Ballot(v, t, i) => t <= currentTerm[i]

\* A snapshot is of the lineage, committed in a term up to t, and ends with the term it claims.
SnapshotOf(h, t, s, term) ==
    Lineage(h, s) /\ term = LastTerm(s) /\ CommittedBy(h, t, s, Len(s))

\* What a server committed was committed in a term up to its own; snapshots hold no more.
CommitOf(h, i) ==
    /\ CommittedBy(h, currentTerm[i], FullLog(i), commitIndex[i])
    /\ lastIncludedIndex[i] <= commitIndex[i]
    /\ lastIncludedTerm[i] = LastTerm(persister[i].snapshot)
    /\ \A s \in handed[i] : SnapshotOf(h, currentTerm[i], s.Snapshot, s.SnapshotTerm)

\* An AppendEntries carries a piece of its leader's log and commits only what is committed.
AppendOf(h, m) ==
    LET log == h.log[m.Term]
    IN  /\ Elected(h, m.Term)
        /\ CommittedBy(h, m.Term, log, m.LeaderCommitIndex)
        /\ m.PrevLogTerm # -1 =>
              /\ m.PrevLogIndex + Len(m.Entries) <= Len(log)
              /\ \A k \in 1..Len(m.Entries) : m.Entries[k] = log[m.PrevLogIndex + k]
              /\ m.PrevLogTerm = IF m.PrevLogIndex = 0 THEN 0 ELSE log[m.PrevLogIndex].Term

\* What a message says is true, or was when it counts.
MessageOf(h, m) ==
    /\ m.type = "RequestVote" => RequestOf(h, m)
    /\ m.type = "InstallSnapshot" => SnapshotOf(h, m.Term, m.Data, m.LastIncludedTerm)
    /\ m.type = "AppendEntries" => AppendOf(h, m)
    /\ m.type = "AppendEntriesReply" /\ m.Success => m.Matched <= h.held[m.from][m.term]

\* What a leader takes j to have acknowledged is committed, or j held it.
MatchOf(h, i) ==
    state[i] = Leader => \A j \in Server : \/ matchIndex[i][j] <= commitIndex[i]
                                           \/ matchIndex[i][j] <= h.held[j][currentTerm[i]]

Explains(h) ==
    /\ h \in History /\ TermInv(h) /\ ElectorInv(h) /\ SuccessionInv(h) /\ AskedTerms
    /\ \A i \in Server : /\ RoleOf(h, i) /\ LogOf(h, i) /\ CommitOf(h, i) /\ MatchOf(h, i)
                         /\ \A v \in Server : BallotOf(h, v, i)
    /\ \A m \in rpcs : MessageOf(h, m)

\* Some history explains the state.
LogSafetyInv == ElectionInv /\ \E h \in History : Explains(h)

-----------------------------------------------------------------------------
(* What a step may do to a history. *)

\* g continues h: leaders stay, their logs only grow, and a server comes to hold more of a
\* log only in the term it is in after the step.
Continues(h, g, terms) ==
    \A t \in Nat :
        /\ Elected(h, t) => g.leader[t] = h.leader[t]
        /\ Holds(g.log[t], h.log[t], Len(h.log[t]))
        /\ \A u \in Server : /\ g.held[u][t] >= h.held[u][t]
                             /\ g.held[u][t] # h.held[u][t] => terms[u] = t

-----------------------------------------------------------------------------
(* A log that takes over a prefix of another: what AppendEntriesHandler and     *)
(* CondInstallSnapshot do.                                                      *)

\* r is s if s has the first k entries of t, and those entries alone if it has not.
Adopts(s, r, t, k) ==
    /\ k <= Len(t)
    /\ \/ r = s /\ Holds(s, t, k)
       \/ Len(r) = k /\ Holds(r, t, k) /\ ~ Holds(s, t, k)

\* h explains the state and g continues it over a step of Raft.
Step(h, g) ==
    /\ h \in History /\ g \in History /\ ElectionInv /\ Explains(h)
    /\ StorageInv' /\ ElectionStep /\ Continues(h, g, currentTerm')

\* The log of k stays safe for the entries it was safe for.
SafeStep(h, g, k) ==
    \A c, n \in Nat : Own(h, c, n) /\ Safe(h, currentTerm, FullLog(k), c, n) =>
        Safe(g, currentTerm', FullLog(k)', c, n)

\* k starts no candidacy and wins none.
Steady(k) ==
    state'[k] = Follower \/ (state'[k] = state[k] /\ currentTerm'[k] = currentTerm[k])

\* No ballot is cast.
NoNewBallot == \A v, c \in Server : \A t \in Nat : Ballot(v, t, c)' => Ballot(v, t, c)

\* A candidacy goes on with a log that is as safe, or is new.
CandidacyStep(h, g, k) ==
    state'[k] = Candidate => \/ currentTerm'[k] > currentTerm[k]
                             \/ /\ state[k] = Candidate /\ currentTerm'[k] = currentTerm[k]
                                /\ SafeStep(h, g, k)

\* The raft state is saved, or nothing is; snapshots stay.
Saves == UNCHANGED persister \/ \E i \in Server : persist(i)

\* What every action lemma starts from.
Explained(h) ==
    h \in History /\ ElectionInv /\ Explains(h) /\ StorageInv' /\ ElectionInv' /\ ElectionStep

\* A history that continues h explains the state after the step.
StaysExplained(h) ==
    \E g \in History : Continues(h, g, currentTerm') /\ Explains(g)'
=============================================================================
